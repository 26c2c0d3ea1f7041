------------------------------ MODULE AuthTabs ------------------------------
(***************************************************************************)
(* The tabs of one browser: they share the cookie, each remembers by its   *)
(* own whom it shows, and they tell each other when that changes.  The     *)
(* browser attaches the cookie when a call is sent and stores what the     *)
(* answer sets when it arrives; in between anything may have happened.     *)
(***************************************************************************)
EXTENDS Naturals, FiniteSets

CONSTANTS
  Tabs,
  Sessions,  \* every login that succeeds opens another one
  NoSession,
  MaxCalls,  \* bound on the calls of a tab that are under way when it begins another
  MaxEvents, \* bound on the messages a tab has not handled
  MaxTurns   \* bound on the logins, logouts, expiries and turns

\* What an answer is when it is not of a session.
Refusals == {"changed", "expired", "failed", "late"}

ASSUME TabsAssumption ==
  /\ NoSession \notin Sessions
  /\ Sessions \cap Refusals = {} /\ "keeps" \notin Sessions
  /\ MaxCalls \in Nat /\ MaxEvents \in Nat /\ MaxTurns \in Nat

VARIABLES
  live, issued, \* sessions of the server: those that are valid, those ever opened
  cookie,
  tab,          \* authState of a tab, its revalidation loop and its messages
  call,         \* calls under way, one of a kind in a tab
  turns

authVars == <<live, issued, cookie, tab, call, turns>>

(***************************************************************************)
(* shown: whose binding the tab has, and sends with what it does.          *)
(* loop: of runSubjectRevalidationLoop, which waits for another restore    *)
(* ("joining") or probes; again: it was asked for once more meanwhile.     *)
(***************************************************************************)
TabState(status, shown) ==
  [status |-> status, shown |-> shown, loop |-> "idle", again |-> FALSE, events |-> 0]

(***************************************************************************)
(* fresh: the epoch of the tab is the one the call was sent in.            *)
(* jar: what the answer does to the cookie, nothing if it keeps it.        *)
(***************************************************************************)
Kinds == {"me", "login", "logout", "work"}
Call(at, sid, binding, quiet) ==
  [at |-> at, sid |-> sid, binding |-> binding, quiet |-> quiet, fresh |-> TRUE,
   answer |-> NoSession, jar |-> "keeps"]
NoCall == [Call("none", NoSession, NoSession, FALSE) EXCEPT !.fresh = FALSE]
\* /me and the logins go without a binding.
Asked(sid, quiet) == Call("sent", sid, NoSession, quiet)

Sids == Sessions \cup {NoSession}
AuthTypeOK ==
  /\ live \subseteq issued /\ issued \subseteq Sessions
  /\ cookie \in Sids
  /\ tab \in [Tabs -> [status : {"unknown", "authenticated", "anonymous", "unavailable"},
                       shown : Sids, loop : {"idle", "joining", "probing"},
                       again : BOOLEAN, events : 0 .. MaxEvents]]
  /\ call \in [Tabs -> [Kinds -> [at : {"none", "sent", "answered"}, sid : Sids, binding : Sids,
                                  quiet : BOOLEAN, fresh : BOOLEAN,
                                  answer : Sids \cup Refusals,
                                  jar : Sids \cup {"keeps"}]]]
  /\ turns \in 0 .. MaxTurns
  /\ \A t \in Tabs : tab[t].shown # NoSession <=> tab[t].status = "authenticated"
  /\ \A t \in Tabs : tab[t].loop # "idle" => call[t]["me"].at # "none"

AuthInit ==
  /\ \E s \in Sids : cookie = s /\ issued = {s} \cap Sessions /\ live = issued
  /\ tab = [t \in Tabs |-> TabState("unknown", NoSession)]
  /\ call = [t \in Tabs |-> [k \in Kinds |-> NoCall]]
  /\ turns = 0

Idle(t, k) ==
  /\ call[t][k] = NoCall
  /\ Cardinality({j \in Kinds : call[t][j] # NoCall}) < MaxCalls

Turn == turns < MaxTurns /\ turns' = turns + 1

-----------------------------------------------------------------------------
(* What a tab does with itself.  advanceAuthenticationEpoch makes every call *)
(* that is under way an old one.                                            *)

Late(c) ==
  IF c.at = "answered" THEN [c EXCEPT !.fresh = FALSE, !.quiet = FALSE, !.answer = "late"]
  ELSE [c EXCEPT !.fresh = FALSE, !.quiet = FALSE]
Untouched(calls) == calls
Aged(calls) == [k \in Kinds |-> Late(calls[k])]

Shows(t, status, s) == [tab[t] EXCEPT !.status = status, !.shown = s]

\* publishAuthSync: the other tabs hear of it, each once.
Publish(t, tabs) ==
  [u \in Tabs |-> IF u = t \/ tabs[u].events = MaxEvents THEN tabs[u]
                  ELSE [tabs[u] EXCEPT !.events = @ + 1]]

\* queueSubjectRevalidation, after the user was cleared: the loop probes at once
\* unless a restore is running that it has to wait for.
Revalidating(t, me) ==
  LET cleared == Shows(t, "unknown", NoSession) IN
  CASE cleared.loop = "probing" -> [cleared EXCEPT !.again = TRUE]
    [] cleared.loop = "joining" -> cleared
    [] OTHER -> [cleared EXCEPT !.loop = IF me = NoCall THEN "probing" ELSE "joining"]

\* handleSubjectInvalidation, with the calls it leaves behind.
CallsRevalidated(calls) ==
  [calls EXCEPT !["me"] = IF @ = NoCall THEN Asked(cookie', TRUE) ELSE @]

Invalidate(t, old, aloud) ==
  LET tabs == [tab EXCEPT ![t] = Revalidating(t, old["me"])] IN
  /\ tab' = (IF aloud THEN Publish(t, tabs) ELSE tabs)
  /\ call' = [call EXCEPT ![t] = CallsRevalidated(old)]

-----------------------------------------------------------------------------
(* Calls begin.                                                             *)

Restore(t) ==
  /\ tab[t].status \in {"unknown", "unavailable"} /\ Idle(t, "me")
  /\ call' = [call EXCEPT ![t]["me"] = Asked(cookie, FALSE)]
  /\ UNCHANGED <<live, issued, cookie, tab, turns>>

\* login, accountLogin and adminLogin; the form is not on a page that is signed in.
BeginLogin(t) ==
  /\ tab[t].status # "authenticated" /\ Idle(t, "login") /\ Turn
  /\ call' = [call EXCEPT ![t] = [Aged(call[t]) EXCEPT !["login"] = Asked(cookie, FALSE)]]
  /\ UNCHANGED <<live, issued, cookie, tab>>

BeginLogout(t) ==
  /\ tab[t].status = "authenticated" /\ Idle(t, "logout") /\ Turn
  /\ LET asked == Call("sent", cookie, tab[t].shown, FALSE) IN
     call' = [call EXCEPT ![t] = [Aged(call[t]) EXCEPT !["logout"] = asked]]
  /\ UNCHANGED <<live, issued, cookie, tab>>

\* A page does nothing before it knows whom it shows.
BeginWork(t) ==
  /\ tab[t].status = "authenticated" /\ Idle(t, "work")
  /\ call' = [call EXCEPT ![t]["work"] = Call("sent", cookie, tab[t].shown, FALSE)]
  /\ UNCHANGED <<live, issued, cookie, tab, turns>>

-----------------------------------------------------------------------------
(* The server, and the network.                                             *)

Answer(t, k, answer, jar) ==
  LET c == Call("answered", NoSession, NoSession, call[t][k].quiet) IN
  call' = [call EXCEPT ![t][k] =
             [c EXCEPT !.jar = jar, !.fresh = call[t][k].fresh,
                       !.answer = IF call[t][k].fresh THEN answer ELSE "late"]]

\* auth answers a session that is gone with a cookie that is gone.
Rejected(c) == IF c.sid = NoSession THEN "keeps" ELSE NoSession

ServeUnbound(t, k) ==
  LET c == call[t][k] IN
  /\ k \in {"me", "logout", "work"} /\ c.at = "sent"
  /\ IF c.sid \notin live THEN Answer(t, k, "expired", Rejected(c)) /\ UNCHANGED live
     ELSE /\ Answer(t, k, c.sid, IF k = "logout" THEN NoSession ELSE "keeps")
          /\ live' = (IF k = "logout" THEN live \ {c.sid} ELSE live)
  /\ UNCHANGED <<issued, cookie, tab, turns>>
\* With the binding of whoever is shown, but for /me.
Serve(t, k) ==
  LET c == call[t][k] IN
  /\ k \in {"me", "logout", "work"} /\ c.at = "sent"
  /\ IF c.sid \notin live
     THEN Answer(t, k, "expired", Rejected(c)) /\ UNCHANGED live
     ELSE IF k # "me" /\ c.binding # c.sid
     THEN Answer(t, k, "changed", "keeps") /\ UNCHANGED live
     ELSE /\ Answer(t, k, c.sid, IF k = "logout" THEN NoSession ELSE "keeps")
          /\ live' = (IF k = "logout" THEN live \ {c.sid} ELSE live)
  /\ UNCHANGED <<issued, cookie, tab, turns>>

OpenSession(t, s) ==
  /\ call[t]["login"].at = "sent" /\ s \in Sessions \ issued
  /\ issued' = issued \cup {s} /\ live' = live \cup {s}
  /\ Answer(t, "login", s, s)
  /\ UNCHANGED <<cookie, tab, turns>>
RefuseLogin(t) ==
  /\ call[t]["login"].at = "sent"
  /\ Answer(t, "login", "failed", "keeps")
  /\ UNCHANGED <<live, issued, cookie, tab, turns>>

\* Before the server saw the call or after.
Lose(t, k) ==
  /\ call[t][k].at # "none" /\ call[t][k].answer # "failed" /\ Turn
  /\ Answer(t, k, "failed", "keeps")
  /\ UNCHANGED <<live, issued, cookie, tab>>

Expires(s) ==
  /\ s \in live /\ Turn
  /\ live' = live \ {s}
  /\ UNCHANGED <<issued, cookie, tab, call>>

-----------------------------------------------------------------------------
(* Answers arrive.                                                          *)

Arrives(t, k) ==
  /\ call[t][k].at = "answered"
  /\ cookie' = IF call[t][k].jar = "keeps" THEN cookie ELSE call[t][k].jar
  /\ UNCHANGED <<live, issued, turns>>
Rest(t, k) == [call[t] EXCEPT ![k] = NoCall]

\* The restore is over: the loop goes on, if there is one, in the same breath.
LoopOn(shown) ==
  IF shown.loop = "joining" \/ shown.again
  THEN [shown EXCEPT !.loop = "probing", !.again = FALSE]
  ELSE [shown EXCEPT !.loop = "idle"]
Probes(shown) == shown.loop = "joining" \/ shown.again
MeOn(shown, calls) ==
  IF Probes(shown) THEN [calls EXCEPT !["me"] = Asked(cookie', TRUE)] ELSE calls

ReceiveMe(t) ==
  LET c == call[t]["me"]
      shown == CASE ~c.fresh -> tab[t]
                 [] c.fresh /\ c.answer \in Sessions -> Shows(t, "authenticated", c.answer)
                 [] c.fresh /\ c.answer = "expired" -> Shows(t, "anonymous", NoSession)
                 [] c.fresh /\ c.answer = "failed" ->
                      IF tab[t].status = "authenticated" THEN tab[t]
                      ELSE Shows(t, "unavailable", NoSession)
      rest == IF c.fresh /\ c.answer # "failed" THEN Aged(Rest(t, "me")) ELSE Rest(t, "me")
      tabs == [tab EXCEPT ![t] = LoopOn(shown)] IN
  /\ Arrives(t, "me")
  /\ tab' = IF c.fresh /\ c.answer = "expired" /\ ~c.quiet THEN Publish(t, tabs) ELSE tabs
  /\ call' = [call EXCEPT ![t] = MeOn(shown, rest)]

ReceiveLogin(t) ==
  LET c == call[t]["login"] IN
  /\ Arrives(t, "login")
  /\ IF c.fresh /\ c.answer \in Sessions
     THEN /\ tab' = Publish(t, [tab EXCEPT ![t] = Shows(t, "authenticated", c.answer)])
          /\ call' = [call EXCEPT ![t] = Aged(Rest(t, "login"))]
     ELSE call' = [call EXCEPT ![t] = Rest(t, "login")] /\ UNCHANGED tab

\* Whatever the answer, unless somebody else is shown by now.
ReceiveLogout(t) ==
  LET c == call[t]["logout"] IN
  /\ Arrives(t, "logout")
  /\ IF ~c.fresh THEN call' = [call EXCEPT ![t] = Rest(t, "logout")] /\ UNCHANGED tab
     ELSE IF c.answer = "changed"
     THEN Invalidate(t, Aged(Rest(t, "logout")), TRUE)
     ELSE /\ tab' = Publish(t, [tab EXCEPT ![t] = Shows(t, "anonymous", NoSession)])
          /\ call' = [call EXCEPT ![t] = Aged(Rest(t, "logout"))]

Delivered(t) == call[t]["work"].fresh /\ call[t]["work"].answer \in Sessions

IgnoreChanges(t) ==
  LET c == call[t]["work"] IN
  /\ Arrives(t, "work")
  /\ call' = [call EXCEPT ![t] = Rest(t, "work")]
  /\ UNCHANGED tab
ReceiveWork(t) ==
  LET c == call[t]["work"] IN
  /\ Arrives(t, "work")
  /\ IF c.fresh /\ c.answer = "changed"
     THEN Invalidate(t, Aged(Rest(t, "work")), TRUE)
     ELSE IF c.fresh /\ c.answer = "expired"
     THEN /\ tab' = Publish(t, [tab EXCEPT ![t] = Shows(t, "anonymous", NoSession)])
          /\ call' = [call EXCEPT ![t] = Aged(Rest(t, "work"))]
     ELSE call' = [call EXCEPT ![t] = Rest(t, "work")] /\ UNCHANGED tab

\* A message of another tab; it is not passed on.
HandleEvent(t) ==
  /\ tab[t].events > 0
  /\ UNCHANGED <<live, issued, cookie, turns>>
  /\ tab' = [tab EXCEPT ![t] = [Revalidating(t, call[t]["me"]) EXCEPT !.events = @ - 1]]
  /\ call' = [call EXCEPT ![t] = CallsRevalidated(Aged(call[t]))]

-----------------------------------------------------------------------------
Network(t) ==
  \/ \E k \in Kinds : Serve(t, k)
  \/ (\E s \in Sessions : OpenSession(t, s)) \/ RefuseLogin(t)
Arrival(t) ==
  ReceiveMe(t) \/ ReceiveLogin(t) \/ ReceiveLogout(t) \/ ReceiveWork(t)

AuthNext ==
  \/ \E t \in Tabs :
       \/ Restore(t) \/ BeginLogin(t) \/ BeginLogout(t) \/ BeginWork(t)
       \/ Network(t) \/ Arrival(t) \/ HandleEvent(t)
       \/ \E k \in Kinds : Lose(t, k)
  \/ \E s \in Sessions : Expires(s)

\* A call goes on from its server to its page, a message arrives, and a page that
\* shows somebody goes on working.
AuthFairness ==
  \A t \in Tabs :
    /\ WF_authVars(Serve(t, "me") \/ ReceiveMe(t))
    /\ WF_authVars((\E s \in Sessions : OpenSession(t, s)) \/ RefuseLogin(t) \/ ReceiveLogin(t))
    /\ WF_authVars(Serve(t, "logout") \/ ReceiveLogout(t))
    /\ WF_authVars(BeginWork(t) \/ Serve(t, "work") \/ ReceiveWork(t))
    /\ WF_authVars(HandleEvent(t))

AuthSpec == AuthInit /\ [][AuthNext]_authVars
FairAuthSpec == AuthSpec /\ AuthFairness

-----------------------------------------------------------------------------
(* What a page is given as an answer to its work was done for the session   *)
(* it shows when the answer arrives, whoever the cookie belonged to when    *)
(* the call was sent and when the server saw it.                            *)
DeliveredToItsSubject ==
  \A t \in Tabs : Delivered(t) => call[t]["work"].answer = tab[t].shown

(* A tab that shows the session of the cookie is not moved to another one   *)
(* by an answer, late as it may be, as long as the cookie stays.            *)
CurrentStaysShown ==
  [][\A t \in Tabs :
       tab[t].shown = cookie /\ cookie \in Sessions /\ cookie' = cookie
         => tab'[t].shown \in {cookie, NoSession}]_authVars

(* Once logins end, the tabs come to rest: no message begets another for    *)
(* ever, no revalidation waits for one that will not end, and no tab goes   *)
(* on showing somebody the cookie is not of, in whatever order answers set  *)
(* the cookie and messages reach the tabs.                                  *)
TabsSettle ==
  <>[](\A t \in Tabs : /\ tab[t].shown \in {NoSession, cookie}
                       /\ tab[t].events = 0 /\ tab[t].loop = "idle")
=============================================================================
