----------------------------- MODULE ClientProofs -----------------------------
(***************************************************************************)
(* Proofs about the pages of one browser: the session that its tabs share, *)
(* the upload queue of a page, and a page whose session goes idle; for any *)
(* numbers of tabs, sessions, subjects, files and calls.                   *)
(***************************************************************************)
EXTENDS AuthTabs, UploadQueue, SessionRecovery, FiniteSetTheorems, TLAPS

(***************************************************************************)
(* AuthTabs.                                                               *)
(***************************************************************************)
USE TabsAssumption DEF Kinds, Refusals, Sids

TabSet == [status : {"unknown", "authenticated", "anonymous", "unavailable"},
           shown : Sids, loop : {"idle", "joining", "probing"},
           again : BOOLEAN, events : 0 .. MaxEvents]
CallSet == [at : {"none", "sent", "answered"}, sid : Sids, binding : Sids,
            quiet : BOOLEAN, fresh : BOOLEAN, answer : Sids \cup Refusals,
            jar : Sids \cup {"keeps"}]
CallsSet == [Kinds -> CallSet]

AuthTypes ==
  /\ live \subseteq issued /\ issued \subseteq Sessions
  /\ cookie \in Sids /\ turns \in 0 .. MaxTurns
  /\ tab \in [Tabs -> TabSet] /\ call \in [Tabs -> CallsSet]

(***************************************************************************)
(* What is true of a tab x with the calls c while the cookie is s: work in *)
(* time was sent, and answered, for the session that is shown, and a /me   *)
(* in time is of the cookie if the tab shows that.  Only a login sets a    *)
(* session, the one it opened.                                             *)
(***************************************************************************)
TabSound(x, c, s) ==
  /\ x.shown # NoSession <=> x.status = "authenticated"
  /\ x.loop # "idle" => c["me"].at # "none"
  /\ \A k \in Kinds : /\ c[k].at = "none" => c[k] = NoCall
                      /\ c[k].jar \in Sessions => k = "login"
  /\ c["login"].answer \in Sessions => c["login"].jar = c["login"].answer
  /\ c["work"].fresh =>
       /\ c["work"].at = "sent" => c["work"].binding = x.shown
       /\ c["work"].answer \in Sessions => c["work"].answer = x.shown
  /\ c["me"].fresh /\ c["me"].at = "answered" =>
       c["me"].answer \in Sessions \cup {"expired", "failed"}
  /\ x.shown = s /\ s \in Sessions /\ c["me"].fresh =>
       /\ c["me"].at = "sent" => c["me"].sid = s
       /\ c["me"].answer \in Sessions => c["me"].answer = s

(***************************************************************************)
(* A session that a login brings has been seen by nobody before its answer *)
(* arrives: so the cookie is of each session at most once.                 *)
(***************************************************************************)
Seen(s) ==
  \/ cookie = s
  \/ \E u \in Tabs : tab[u].shown = s
  \/ \E u \in Tabs, k \in Kinds : call[u][k].sid = s \/ (k # "login" /\ call[u][k].answer = s)
Brings(t, s) == call[t]["login"].jar = s
Unseen ==
  \A s \in Sessions :
    /\ s \notin issued => ~Seen(s)
    /\ \A t \in Tabs : Brings(t, s) => /\ s \in issued /\ ~Seen(s)
                                       /\ \A u \in Tabs \ {t} : ~Brings(u, s)

AInv == AuthTypes /\ Unseen /\ \A t \in Tabs : TabSound(tab[t], call[t], cookie)

-----------------------------------------------------------------------------
(* What a tab does with itself.                                             *)

LEMMA CallTypes ==
  /\ \A sid, binding \in Sids, quiet \in BOOLEAN :
       Call("sent", sid, binding, quiet) \in CallSet
  /\ NoCall \in CallSet /\ NoCall.at = "none" /\ NoCall.jar = "keeps" /\ ~NoCall.fresh
  /\ NoCall.sid = NoSession /\ NoCall.answer = NoSession
BY DEF Call, NoCall, CallSet

\* Calls that are left behind deliver nothing any more.
LEMMA AgedCalls ==
  ASSUME NEW c \in CallsSet
  PROVE  /\ Aged(c) \in CallsSet
         /\ \A k \in Kinds :
              /\ ~Aged(c)[k].fresh
              /\ Aged(c)[k].at = c[k].at /\ Aged(c)[k].sid = c[k].sid
              /\ Aged(c)[k].jar = c[k].jar
              /\ Aged(c)[k].answer \in {c[k].answer, "late"}
              /\ c[k] = NoCall => Aged(c)[k] = NoCall
<1> SUFFICES ASSUME NEW k \in Kinds
             PROVE  LET d == Late(c[k]) IN
                    /\ d \in CallSet /\ ~d.fresh /\ d.at = c[k].at /\ d.sid = c[k].sid
                    /\ d.jar = c[k].jar /\ d.answer \in {c[k].answer, "late"}
                    /\ c[k] = NoCall => d = NoCall
  BY DEF Aged, CallsSet
<1>1. c[k] \in CallSet
  BY DEF CallsSet
<1>2. CASE c[k].at = "answered"
  BY <1>1, <1>2 DEF Late, CallSet, NoCall, Call
<1>3. CASE c[k].at # "answered"
  BY <1>1, <1>3 DEF Late, CallSet, NoCall, Call
<1> QED BY <1>2, <1>3

LEMMA PublishType ==
  ASSUME NEW t \in Tabs, NEW tabs \in [Tabs -> TabSet]
  PROVE  /\ Publish(t, tabs) \in [Tabs -> TabSet] /\ Publish(t, tabs)[t] = tabs[t]
         /\ \A u \in Tabs : /\ Publish(t, tabs)[u].shown = tabs[u].shown
                            /\ Publish(t, tabs)[u].status = tabs[u].status
                            /\ Publish(t, tabs)[u].loop = tabs[u].loop
<1> SUFFICES ASSUME NEW u \in Tabs
             PROVE  LET x == IF u = t \/ tabs[u].events = MaxEvents THEN tabs[u]
                             ELSE [tabs[u] EXCEPT !.events = @ + 1] IN
                    /\ x \in TabSet /\ x.shown = tabs[u].shown
                    /\ x.status = tabs[u].status /\ x.loop = tabs[u].loop
  BY DEF Publish
<1>1. tabs[u] \in TabSet
  OBVIOUS
<1> QED BY <1>1 DEF TabSet

\* A tab stays sound when the cookie does, is taken away, or becomes one it does
\* not show.
LEMMA StaysSound ==
  ASSUME NEW x, NEW y, NEW c, NEW s, NEW r, TabSound(x, c, s),
         y.shown = x.shown, y.status = x.status, y.loop = x.loop,
         r = s \/ r = NoSession \/ r # x.shown
  PROVE  TabSound(y, c, r)
BY DEF TabSound

\* What nobody sees anew stays unseen.
LEMMA StaysUnseen ==
  ASSUME Unseen, issued' = issued,
         \A s \in Sessions : Seen(s)' => Seen(s),
         \A u \in Tabs, s \in Sessions : Brings(u, s)' => Brings(u, s)
  PROVE  Unseen'
<1> SUFFICES ASSUME NEW s \in Sessions
             PROVE  /\ s \notin issued => ~Seen(s)'
                    /\ \A t \in Tabs : Brings(t, s)' =>
                         /\ s \in issued /\ ~Seen(s)'
                         /\ \A u \in Tabs \ {t} : ~Brings(u, s)'
  BY DEF Unseen
<1> QED BY DEF Unseen

(***************************************************************************)
(* A step of the tab t alone: it gets the state x and the calls c, which   *)
(* show, know and bring nothing but what t has seen, or the cookie.        *)
(***************************************************************************)
Knows(t, s) ==
  \/ s = cookie \/ s = tab[t].shown
  \/ \E k \in Kinds : s = call[t][k].sid \/ (k # "login" /\ s = call[t][k].answer)
LEMMA TabStep ==
  ASSUME AInv, NEW t \in Tabs, NEW x \in TabSet, NEW c \in CallsSet,
         TabSound(x, c, cookie'),
         cookie' \in {cookie, NoSession},
         tab' \in [Tabs -> TabSet], tab'[t] = x,
         \A u \in Tabs \ {t} : /\ tab'[u].shown = tab[u].shown /\ tab'[u].loop = tab[u].loop
                               /\ tab'[u].status = tab[u].status,
         call' = [call EXCEPT ![t] = c],
         live' \subseteq live, issued' = issued, turns' \in 0 .. MaxTurns,
         x.shown \in Sessions => Knows(t, x.shown),
         \A k \in Kinds :
           /\ c[k].sid \in Sessions => Knows(t, c[k].sid)
           /\ k # "login" /\ c[k].answer \in Sessions => Knows(t, c[k].answer)
           /\ c[k].jar \in Sessions => c[k].jar = call[t][k].jar
  PROVE  AInv'
<1>1. AuthTypes'
  BY DEF AInv, AuthTypes
<1>2. ASSUME NEW u \in Tabs PROVE TabSound(tab'[u], call'[u], cookie')
  <2>1. CASE u = t
    BY <2>1 DEF AInv, AuthTypes
  <2>2. CASE u # t
    <3>1. call'[u] = call[u]
      BY <2>2 DEF AInv, AuthTypes
    <3>2. TabSound(tab[u], call[u], cookie)
      BY DEF AInv
    <3> QED BY <2>2, <3>1, <3>2, StaysSound
  <2> QED BY <2>1, <2>2
<1>3. \A s \in Sessions : Knows(t, s) => Seen(s)
  BY DEF Knows, Seen
<1>4. ASSUME NEW s \in Sessions, Seen(s)' PROVE Seen(s)
  <2>1. CASE cookie' = s
    BY <2>1 DEF Seen
  <2>2. ASSUME NEW u \in Tabs, tab'[u].shown = s PROVE Seen(s)
    BY <2>2, <1>3 DEF Seen
  <2>3. ASSUME NEW u \in Tabs, NEW k \in Kinds,
               call'[u][k].sid = s \/ (k # "login" /\ call'[u][k].answer = s)
        PROVE  Seen(s)
    <3>1. CASE u = t
      BY <3>1, <2>3, <1>3 DEF AInv, AuthTypes
    <3>2. CASE u # t
      BY <3>2, <2>3 DEF Seen, AInv, AuthTypes
    <3> QED BY <3>1, <3>2
  <2> QED BY <1>4, <2>1, <2>2, <2>3 DEF Seen
<1>5. ASSUME NEW u \in Tabs, NEW s \in Sessions, Brings(u, s)' PROVE Brings(u, s)
  BY <1>5 DEF Brings, AInv, AuthTypes
<1>6. Unseen'
  BY <1>4, <1>5, StaysUnseen DEF AInv
<1> QED BY <1>1, <1>2, <1>6 DEF AInv

-----------------------------------------------------------------------------
(* Calls begin.                                                             *)

\* Asking changes nothing of the tab; what is sent goes with the cookie.
LEMMA AskAInv ==
  ASSUME AInv, NEW t \in Tabs, NEW k \in Kinds, NEW c \in CallsSet,
         NEW b \in Sids, NEW quiet \in BOOLEAN,
         c = call[t] \/ c = Aged(call[t]), call[t][k] = NoCall,
         call' = [call EXCEPT ![t] = [c EXCEPT ![k] = Call("sent", cookie, b, quiet)]],
         k = "work" => b = tab[t].shown,
         UNCHANGED <<live, issued, cookie, tab>>, turns' \in 0 .. MaxTurns
  PROVE  AInv'
<1> DEFINE q == Call("sent", cookie, b, quiet)
           d == [c EXCEPT ![k] = q]
<1>1. /\ tab[t] \in TabSet /\ call[t] \in CallsSet /\ cookie \in Sids
      /\ TabSound(tab[t], call[t], cookie)
  BY DEF AInv, AuthTypes
<1>2. /\ q \in CallSet /\ q.at = "sent" /\ q.sid = cookie /\ q.binding = b
      /\ q.answer = NoSession /\ q.jar = "keeps"
  BY <1>1 DEF Call, CallSet
<1>3. d \in CallsSet /\ d[k] = q /\ \A j \in Kinds \ {k} : d[j] = c[j]
  BY <1>2 DEF CallsSet
<1>4. \A j \in Kinds :
        /\ c[j].at = call[t][j].at /\ c[j].sid = call[t][j].sid
        /\ c[j].jar = call[t][j].jar /\ c[j].answer \in {call[t][j].answer, "late"}
        /\ call[t][j] = NoCall => c[j] = NoCall
        /\ c[j].fresh => c[j] = call[t][j]
  BY <1>1, AgedCalls
<1> HIDE DEF q, d
<1>5. TabSound(tab[t], d, cookie)
  BY <1>1, <1>2, <1>3, <1>4, CallTypes DEF TabSound
<1>6. \A j \in Kinds :
        /\ d[j].sid \in Sessions => Knows(t, d[j].sid)
        /\ j # "login" /\ d[j].answer \in Sessions => Knows(t, d[j].answer)
        /\ d[j].jar \in Sessions => d[j].jar = call[t][j].jar
  BY <1>2, <1>3, <1>4 DEF Knows
<1>7. call' = [call EXCEPT ![t] = d]
  BY DEF d, q
<1>8. tab' \in [Tabs -> TabSet] /\ tab[t].shown \in Sessions => Knows(t, tab[t].shown)
  BY DEF AInv, AuthTypes, Knows
<1>9. tab' \in [Tabs -> TabSet]
  BY DEF AInv, AuthTypes
<1> QED BY <1>1, <1>3, <1>5, <1>6, <1>7, <1>8, <1>9, TabStep

LEMMA BeginInv ==
  ASSUME AInv, NEW t \in Tabs,
         Restore(t) \/ BeginLogin(t) \/ BeginLogout(t) \/ BeginWork(t)
  PROVE  AInv'
<1>1. /\ call[t] \in CallsSet /\ Aged(call[t]) \in CallsSet /\ tab[t].shown \in Sids
      /\ NoSession \in Sids /\ turns \in 0 .. MaxTurns
  BY AgedCalls DEF AInv, AuthTypes, TabSet
<1>2. Turn => turns' \in 0 .. MaxTurns
  BY <1>1 DEF Turn
<1>3. CASE Restore(t)
  <2>1. call' = [call EXCEPT ![t] = [call[t] EXCEPT !["me"] =
                                       Call("sent", cookie, NoSession, FALSE)]]
    BY <1>3 DEF Restore, Asked
  <2> QED BY <1>1, <1>3, <2>1, AskAInv DEF Restore, Idle
<1>4. CASE BeginLogin(t)
  <2>1. call' = [call EXCEPT ![t] = [Aged(call[t]) EXCEPT !["login"] =
                                       Call("sent", cookie, NoSession, FALSE)]]
    BY <1>4 DEF BeginLogin, Asked
  <2> QED BY <1>1, <1>2, <1>4, <2>1, AskAInv DEF BeginLogin, Idle
<1>5. CASE BeginLogout(t)
  <2>1. call' = [call EXCEPT ![t] = [Aged(call[t]) EXCEPT !["logout"] =
                                       Call("sent", cookie, tab[t].shown, FALSE)]]
    BY <1>5 DEF BeginLogout
  <2> QED BY <1>1, <1>2, <1>5, <2>1, AskAInv DEF BeginLogout, Idle
<1>6. CASE BeginWork(t)
  <2>1. call' = [call EXCEPT ![t] = [call[t] EXCEPT !["work"] =
                                       Call("sent", cookie, tab[t].shown, FALSE)]]
    BY <1>6 DEF BeginWork
  <2> QED BY <1>1, <1>6, <2>1, AskAInv DEF BeginWork, Idle
<1> QED BY <1>3, <1>4, <1>5, <1>6

-----------------------------------------------------------------------------
(* The server, and the network.                                             *)

\* An answer is of the session of the call, and of its binding if it has one.
LEMMA AnswerInv ==
  ASSUME AInv, NEW t \in Tabs, NEW k \in Kinds, call[t][k].at # "none",
         NEW said \in Sids \cup Refusals, NEW sets \in {"keeps", NoSession},
         Answer(t, k, said, sets),
         said \in Sessions =>
           /\ k # "login" /\ call[t][k].at = "sent" /\ said = call[t][k].sid
           /\ k = "work" => said = call[t][k].binding,
         k = "me" => said \in Sessions \cup {"expired", "failed"},
         live' \subseteq live, UNCHANGED <<issued, cookie, tab>>, turns' \in 0 .. MaxTurns
  PROVE  AInv'
<1> DEFINE a == IF call[t][k].fresh THEN said ELSE "late"
           q == [Call("answered", NoSession, NoSession, call[t][k].quiet)
                   EXCEPT !.jar = sets, !.fresh = call[t][k].fresh, !.answer = a]
           d == [call[t] EXCEPT ![k] = q]
<1>1. /\ tab[t] \in TabSet /\ call[t] \in CallsSet /\ cookie \in Sids
      /\ call[t][k] \in CallSet /\ TabSound(tab[t], call[t], cookie)
  BY DEF AInv, AuthTypes, CallsSet
<1>2. /\ q \in CallSet /\ q.at = "answered" /\ q.sid = NoSession
      /\ q.answer = a /\ q.jar = sets /\ q.fresh = call[t][k].fresh
  <2>1. /\ a \in Sids \cup Refusals /\ call[t][k].quiet \in BOOLEAN
        /\ call[t][k].fresh \in BOOLEAN /\ sets \in Sids \cup {"keeps"}
    BY <1>1 DEF CallSet
  <2> HIDE DEF a
  <2>2. q.at = "answered" /\ q.sid = NoSession /\ q.answer = a /\ q.jar = sets
    BY DEF Call
  <2>3. q.fresh = call[t][k].fresh
    BY DEF Call
  <2>4. q \in CallSet
    BY <2>1 DEF Call, CallSet
  <2> QED BY <2>2, <2>3, <2>4
<1>3. d \in CallsSet /\ d[k] = q /\ \A j \in Kinds \ {k} : d[j] = call[t][j]
  BY <1>1, <1>2 DEF CallsSet
<1>4. call' = [call EXCEPT ![t] = d]
  BY <1>1 DEF Answer, AInv, AuthTypes
<1>5. a \in Sessions => said \in Sessions /\ a = said /\ call[t][k].fresh
  OBVIOUS
<1> HIDE DEF a, q, d
<1>6. TabSound(tab[t], d, cookie)
  <2>1. /\ tab[t].shown # NoSession <=> tab[t].status = "authenticated"
        /\ tab[t].loop # "idle" => d["me"].at # "none"
        /\ \A j \in Kinds : /\ d[j].at = "none" => d[j] = NoCall
                            /\ d[j].jar \in Sessions => j = "login"
    BY <1>1, <1>2, <1>3 DEF TabSound
  <2>2. d["login"].answer \in Sessions => d["login"].jar = d["login"].answer
    BY <1>1, <1>2, <1>3, <1>5 DEF TabSound
  <2>3. d["work"].fresh =>
          /\ d["work"].at = "sent" => d["work"].binding = tab[t].shown
          /\ d["work"].answer \in Sessions => d["work"].answer = tab[t].shown
    <3>1. CASE k = "work"
      BY <3>1, <1>1, <1>2, <1>3, <1>5 DEF TabSound
    <3>2. CASE k # "work"
      BY <3>2, <1>1, <1>3 DEF TabSound
    <3> QED BY <3>1, <3>2
  <2>4. tab[t].shown = cookie /\ cookie \in Sessions /\ d["me"].fresh =>
          /\ d["me"].at = "sent" => d["me"].sid = cookie
          /\ d["me"].answer \in Sessions => d["me"].answer = cookie
    <3>1. CASE k = "me"
      BY <3>1, <1>1, <1>2, <1>3, <1>5 DEF TabSound
    <3>2. CASE k # "me"
      BY <3>2, <1>1, <1>3 DEF TabSound
    <3> QED BY <3>1, <3>2
  <2>5. d["me"].fresh /\ d["me"].at = "answered" =>
          d["me"].answer \in Sessions \cup {"expired", "failed"}
    <3>1. CASE k = "me"
      BY <3>1, <1>2, <1>3 DEF a
    <3>2. CASE k # "me"
      BY <3>2, <1>1, <1>3 DEF TabSound
    <3> QED BY <3>1, <3>2
  <2> QED BY <2>1, <2>2, <2>3, <2>4, <2>5 DEF TabSound
<1>7. \A j \in Kinds :
        /\ d[j].sid \in Sessions => Knows(t, d[j].sid)
        /\ j # "login" /\ d[j].answer \in Sessions => Knows(t, d[j].answer)
        /\ d[j].jar \in Sessions => d[j].jar = call[t][j].jar
  BY <1>2, <1>3, <1>5 DEF Knows
<1>8. tab' \in [Tabs -> TabSet]
  BY DEF AInv, AuthTypes
<1>9. tab[t].shown \in Sessions => Knows(t, tab[t].shown)
  BY DEF Knows
<1> QED BY <1>1, <1>3, <1>4, <1>6, <1>7, <1>8, <1>9, TabStep

LEMMA NetworkInv ==
  ASSUME AInv, NEW t \in Tabs, NEW k \in Kinds,
         Serve(t, k) \/ RefuseLogin(t) \/ Lose(t, k)
  PROVE  AInv'
<1>1. call[t][k] \in CallSet /\ turns \in 0 .. MaxTurns /\ live \subseteq Sessions
  BY DEF AInv, AuthTypes, CallsSet
<1>2. CASE Serve(t, k)
  <2> USE <1>2, <1>1 DEF Serve, Rejected
  <2>1. CASE call[t][k].sid \notin live
    BY <2>1, AnswerInv DEF CallSet
  <2>2. CASE call[t][k].sid \in live /\ k # "me" /\ call[t][k].binding # call[t][k].sid
    BY <2>2, AnswerInv DEF CallSet
  <2>3. CASE call[t][k].sid \in live /\ ~(k # "me" /\ call[t][k].binding # call[t][k].sid)
    BY <2>3, AnswerInv DEF CallSet
  <2> QED BY <2>1, <2>2, <2>3
<1>3. CASE RefuseLogin(t)
  BY <1>3, <1>1, AnswerInv DEF RefuseLogin
<1>4. CASE Lose(t, k)
  BY <1>4, <1>1, AnswerInv DEF Lose, Turn
<1> QED BY <1>2, <1>3, <1>4

\* A session is opened that nobody has seen.
LEMMA OpenSessionInv ==
  ASSUME AInv, NEW t \in Tabs, NEW s \in Sessions, OpenSession(t, s)
  PROVE  AInv'
<1> USE DEF OpenSession
<1> DEFINE a == IF call[t]["login"].fresh THEN s ELSE "late"
           q == [Call("answered", NoSession, NoSession, call[t]["login"].quiet)
                   EXCEPT !.jar = s, !.fresh = call[t]["login"].fresh, !.answer = a]
           d == [call[t] EXCEPT !["login"] = q]
<1>1. /\ tab[t] \in TabSet /\ call[t] \in CallsSet /\ cookie \in Sids
      /\ call[t]["login"] \in CallSet /\ TabSound(tab[t], call[t], cookie)
  BY DEF AInv, AuthTypes, CallsSet
<1>2. /\ q \in CallSet /\ q.at = "answered" /\ q.sid = NoSession
      /\ q.answer = a /\ q.jar = s
  BY <1>1, ZenonT(60) DEF Call, CallSet
<1>3. /\ d \in CallsSet /\ d["login"] = q
      /\ \A j \in Kinds \ {"login"} : d[j] = call[t][j]
  BY <1>1, <1>2 DEF CallsSet
<1>4. call' = [call EXCEPT ![t] = d]
  BY <1>1 DEF Answer, AInv, AuthTypes
<1>5. a \in Sessions => a = s
  OBVIOUS
<1> HIDE DEF a, q, d
<1>6. TabSound(tab[t], d, cookie)
  BY <1>1, <1>2, <1>3, <1>5 DEF TabSound
<1>7. AuthTypes'
  BY <1>3, <1>4 DEF AInv, AuthTypes
<1>8. \A u \in Tabs : TabSound(tab'[u], call'[u], cookie')
  BY <1>4, <1>6 DEF AInv, AuthTypes
<1>9. \A r \in Sessions : Seen(r)' => Seen(r)
  BY <1>2, <1>3, <1>4 DEF Seen, AInv, AuthTypes
<1>10. \A u \in Tabs, r \in Sessions : Brings(u, r)' => Brings(u, r) \/ (u = t /\ r = s)
  BY <1>2, <1>3, <1>4 DEF Brings, AInv, AuthTypes
<1>11. Unseen /\ s \notin issued /\ issued' = issued \cup {s}
  BY DEF AInv
<1>12. Unseen'
  <2> SUFFICES ASSUME NEW r \in Sessions
               PROVE  /\ r \notin issued' => ~Seen(r)'
                      /\ \A u \in Tabs : Brings(u, r)' =>
                           /\ r \in issued' /\ ~Seen(r)'
                           /\ \A v \in Tabs \ {u} : ~Brings(v, r)'
    BY DEF Unseen
  <2> QED BY <1>9, <1>10, <1>11 DEF Unseen
<1> QED BY <1>7, <1>8, <1>12 DEF AInv

LEMMA ExpiresInv ==
  ASSUME AInv, NEW s \in Sessions, Expires(s) PROVE AInv'
<1> USE DEF Expires
<1>1. AuthTypes'
  BY DEF AInv, AuthTypes, Turn
<1>2. Unseen'
  BY StaysUnseen DEF AInv, Seen, Brings
<1> QED BY <1>1, <1>2 DEF AInv

-----------------------------------------------------------------------------
(* Answers arrive.                                                          *)

\* d is what is left of calls when some end and, if old, all are left behind.
Leaves(t, d, old) ==
  /\ d \in CallsSet
  /\ \A j \in Kinds :
       /\ d[j].at = "none" => d[j] = NoCall
       /\ d[j] # NoCall =>
            /\ d[j].at = call[t][j].at /\ d[j].sid = call[t][j].sid
            /\ d[j].jar = call[t][j].jar /\ d[j].answer \in {call[t][j].answer, "late"}
            /\ d[j].fresh => ~old /\ d[j] = call[t][j]
LEMMA RestLeaves ==
  ASSUME AInv, NEW t \in Tabs, NEW k \in Kinds
  PROVE  /\ Leaves(t, Rest(t, k), FALSE) /\ Leaves(t, Aged(Rest(t, k)), TRUE)
         /\ Leaves(t, Aged(call[t]), TRUE)
         /\ Rest(t, k)[k] = NoCall /\ Aged(Rest(t, k))[k] = NoCall
         /\ \A j \in Kinds \ {k} : Aged(Rest(t, k))[j].at = call[t][j].at
         /\ \A j \in Kinds : Aged(call[t])[j].at = call[t][j].at
         /\ \A j \in Kinds \ {k} : Rest(t, k)[j] = call[t][j]
<1>1. call[t] \in CallsSet /\ TabSound(tab[t], call[t], cookie)
  BY DEF AInv, AuthTypes
<1>2. /\ Rest(t, k) \in CallsSet /\ Rest(t, k)[k] = NoCall
      /\ \A j \in Kinds \ {k} : Rest(t, k)[j] = call[t][j]
  BY <1>1, CallTypes DEF Rest, CallsSet
<1>3. \A j \in Kinds : call[t][j].at = "none" => call[t][j] = NoCall
  BY <1>1 DEF TabSound
<1>4. Leaves(t, Rest(t, k), FALSE)
  BY <1>1, <1>2, <1>3, CallTypes DEF Leaves
<1>5. Leaves(t, Aged(call[t]), TRUE)
  BY <1>1, <1>3, AgedCalls DEF Leaves
<1>6. Leaves(t, Aged(Rest(t, k)), TRUE)
  <2> DEFINE d == Rest(t, k)
  <2> HIDE DEF d
  <2>1. d \in CallsSet /\ Leaves(t, d, FALSE)
    BY <1>2, <1>4 DEF d
  <2>2. Leaves(t, Aged(d), TRUE)
    BY <2>1, AgedCalls, CallTypes DEF Leaves
  <2> QED BY <2>2 DEF d
<1>7. Aged(Rest(t, k))[k] = NoCall
  BY <1>2, AgedCalls
<1>8. \A j \in Kinds : Aged(Rest(t, k))[j].at = Rest(t, k)[j].at
  BY <1>2, AgedCalls
<1>9. \A j \in Kinds : Aged(call[t])[j].at = call[t][j].at
  BY <1>1, AgedCalls
<1> QED BY <1>2, <1>4, <1>5, <1>6, <1>7, <1>8, <1>9

\* A tab that goes on with what is left of its calls, and perhaps asks for /me.
LEMMA GoOnInv ==
  ASSUME AInv, NEW t \in Tabs, NEW x \in TabSet, NEW d, NEW old \in BOOLEAN,
         Leaves(t, d, old), NEW asks \in BOOLEAN, NEW quiet \in BOOLEAN,
         cookie' \in {cookie, NoSession},
         call' = [call EXCEPT ![t] = IF asks THEN [d EXCEPT !["me"] = Asked(cookie', quiet)]
                                     ELSE d],
         tab' \in [Tabs -> TabSet], tab'[t] = x,
         \A u \in Tabs \ {t} : /\ tab'[u].shown = tab[u].shown /\ tab'[u].loop = tab[u].loop
                               /\ tab'[u].status = tab[u].status,
         x.shown # NoSession <=> x.status = "authenticated",
         x.loop # "idle" => asks \/ d["me"].at # "none",
         old \/ x.shown = tab[t].shown \/ (x.shown = NoSession /\ tab[t].shown = NoSession),
         x.shown \in Sessions => Knows(t, x.shown),
         UNCHANGED <<live, issued, turns>>
  PROVE  AInv'
<1> DEFINE q == Asked(cookie', quiet)
           c == IF asks THEN [d EXCEPT !["me"] = q] ELSE d
<1>1. /\ call[t] \in CallsSet /\ cookie \in Sids /\ cookie' \in Sids /\ NoSession \in Sids
      /\ TabSound(tab[t], call[t], cookie)
  BY DEF AInv, AuthTypes
<1>2. /\ q \in CallSet /\ q.at = "sent" /\ q.sid = cookie' /\ q.answer = NoSession
      /\ q.jar = "keeps"
  BY <1>1 DEF Asked, Call, CallSet
<1>3. /\ c \in CallsSet /\ \A j \in Kinds \ {"me"} : c[j] = d[j]
      /\ c["me"] = IF asks THEN q ELSE d["me"]
  BY <1>2 DEF Leaves, CallsSet
<1>4. call' = [call EXCEPT ![t] = c]
  OBVIOUS
<1> HIDE DEF q, c
<1>5. \A j \in Kinds :
        /\ d[j].at = "none" => d[j] = NoCall
        /\ d[j].jar \in Sessions => d[j].jar = call[t][j].jar /\ j = "login"
        /\ d[j].sid \in Sessions => d[j].sid = call[t][j].sid
        /\ d[j].answer \in Sessions => d[j].answer = call[t][j].answer /\ d[j].jar = call[t][j].jar
        /\ d[j].fresh => ~old /\ d[j] = call[t][j]
  BY <1>1, CallTypes DEF Leaves, TabSound
<1>6. TabSound(x, c, cookie')
  <2>1. /\ x.loop # "idle" => c["me"].at # "none"
        /\ \A j \in Kinds : /\ c[j].at = "none" => c[j] = NoCall
                            /\ c[j].jar \in Sessions => j = "login"
    BY <1>2, <1>3, <1>5
  <2>2. c["login"].answer \in Sessions => c["login"].jar = c["login"].answer
    BY <1>1, <1>3, <1>5 DEF TabSound
  <2>3. c["work"].fresh =>
          /\ c["work"].at = "sent" => c["work"].binding = x.shown
          /\ c["work"].answer \in Sessions => c["work"].answer = x.shown
    BY <1>1, <1>3, <1>5 DEF TabSound
  <2>4. x.shown = cookie' /\ cookie' \in Sessions /\ c["me"].fresh =>
          /\ c["me"].at = "sent" => c["me"].sid = cookie'
          /\ c["me"].answer \in Sessions => c["me"].answer = cookie'
    <3>1. CASE asks
      BY <3>1, <1>2, <1>3
    <3>2. CASE ~asks
      BY <3>2, <1>1, <1>3, <1>5 DEF TabSound
    <3> QED BY <3>1, <3>2
  <2>5. c["me"].fresh /\ c["me"].at = "answered" =>
          c["me"].answer \in Sessions \cup {"expired", "failed"}
    BY <1>1, <1>2, <1>3, <1>5 DEF TabSound
  <2> QED BY <2>1, <2>2, <2>3, <2>4, <2>5 DEF TabSound
<1>7. \A j \in Kinds :
        /\ c[j].sid \in Sessions => Knows(t, c[j].sid)
        /\ j # "login" /\ c[j].answer \in Sessions => Knows(t, c[j].answer)
        /\ c[j].jar \in Sessions => c[j].jar = call[t][j].jar
  BY <1>2, <1>3, <1>5 DEF Knows
<1>8. turns' \in 0 .. MaxTurns
  BY DEF AInv, AuthTypes
<1> QED BY <1>3, <1>4, <1>6, <1>7, <1>8, TabStep

\* The cookie an answer leaves is the one that was, or none, unless it is a login's.
LEMMA JarArrives ==
  ASSUME AInv, NEW t \in Tabs, NEW k \in Kinds, Arrives(t, k),
         call[t][k].jar \notin Sessions
  PROVE  cookie' \in {cookie, NoSession}
<1>1. call[t][k].jar \in Sids \cup {"keeps"}
  BY DEF AInv, AuthTypes, CallsSet, CallSet
<1> QED BY <1>1 DEF Arrives

\* The subject of the tab is cleared, its calls are left behind, and it asks again.
LEMMA InvalidateInv ==
  ASSUME AInv, NEW t \in Tabs, NEW d, Leaves(t, d, TRUE), d["me"].at = call[t]["me"].at,
         NEW x \in TabSet,
         LET y == Revalidating(t, d["me"]) IN
           x.shown = y.shown /\ x.status = y.status /\ x.loop = y.loop,
         cookie' \in {cookie, NoSession},
         call' = [call EXCEPT ![t] = CallsRevalidated(d)],
         tab' \in [Tabs -> TabSet], tab'[t] = x,
         \A u \in Tabs \ {t} : /\ tab'[u].shown = tab[u].shown /\ tab'[u].loop = tab[u].loop
                               /\ tab'[u].status = tab[u].status,
         UNCHANGED <<live, issued, turns>>
  PROVE  AInv'
<1> DEFINE asks == d["me"] = NoCall
<1>1. tab[t] \in TabSet /\ d \in CallsSet /\ TabSound(tab[t], call[t], cookie)
  BY DEF AInv, AuthTypes, Leaves
<1>2. x.shown = NoSession /\ x.status = "unknown"
  BY <1>1 DEF Revalidating, Shows, TabSet
<1>3. CallsRevalidated(d) = IF asks THEN [d EXCEPT !["me"] = Asked(cookie', TRUE)] ELSE d
  <2>1. CASE asks
    BY <2>1 DEF CallsRevalidated
  <2>2. CASE ~asks
    BY <2>2, <1>1 DEF CallsRevalidated, CallsSet
  <2> QED BY <2>1, <2>2
<1>4. ~asks => d["me"].at # "none"
  BY DEF Leaves
<1> QED BY <1>2, <1>3, <1>4, GoOnInv

\* What the revalidation makes of a tab.
LEMMA RevalidatingType ==
  ASSUME AInv, NEW t \in Tabs, NEW me
  PROVE  LET x == Revalidating(t, me) IN
         /\ x \in TabSet
         /\ x.events = tab[t].events
<1>1. tab[t] \in TabSet
  BY DEF AInv, AuthTypes
<1>2. /\ Shows(t, "unknown", NoSession) \in TabSet
      /\ Shows(t, "unknown", NoSession).events = tab[t].events
  BY <1>1 DEF Shows, TabSet
<1> QED BY <1>2 DEF Revalidating, TabSet

LEMMA InvalidateStep ==
  ASSUME AInv, NEW t \in Tabs, NEW d, Leaves(t, d, TRUE), d["me"].at = call[t]["me"].at,
         Invalidate(t, d, TRUE), cookie' \in {cookie, NoSession},
         UNCHANGED <<live, issued, turns>>
  PROVE  AInv'
<1> DEFINE x == Revalidating(t, d["me"])
           tabs == [tab EXCEPT ![t] = x]
<1>1. x \in TabSet
  BY RevalidatingType
<1>2. tab \in [Tabs -> TabSet]
  BY DEF AInv, AuthTypes
<1>3. tab' = Publish(t, tabs) /\ call' = [call EXCEPT ![t] = CallsRevalidated(d)]
  BY DEF Invalidate
<1> HIDE DEF x
<1>4. tabs \in [Tabs -> TabSet] /\ tabs[t] = x /\ \A u \in Tabs \ {t} : tabs[u] = tab[u]
  BY <1>1, <1>2
<1> HIDE DEF tabs
<1>5. /\ tab' \in [Tabs -> TabSet] /\ tab'[t] = x
      /\ \A u \in Tabs \ {t} : /\ tab'[u].shown = tab[u].shown /\ tab'[u].loop = tab[u].loop
                               /\ tab'[u].status = tab[u].status
  BY <1>3, <1>4, PublishType
<1> QED BY <1>1, <1>3, <1>5, InvalidateInv DEF x

\* A message of another tab clears the subject too.
LEMMA HandleEventInv ==
  ASSUME AInv, NEW t \in Tabs, HandleEvent(t) PROVE AInv'
<1> DEFINE d == Aged(call[t])
           y == Revalidating(t, call[t]["me"])
           x == [y EXCEPT !.events = @ - 1]
<1>1. /\ Leaves(t, d, TRUE) /\ d["me"].at = call[t]["me"].at
      /\ TabSound(tab[t], call[t], cookie) /\ tab \in [Tabs -> TabSet]
  BY RestLeaves DEF AInv, AuthTypes
<1>2. y \in TabSet /\ y.events = tab[t].events /\ tab[t].events > 0
  BY RevalidatingType DEF HandleEvent
<1>3. x \in TabSet /\ x.shown = y.shown /\ x.status = y.status /\ x.loop = y.loop
  <2> HIDE DEF y
  <2> QED BY <1>2 DEF TabSet
<1>4. call[t]["me"] = NoCall <=> d["me"] = NoCall
  BY <1>1, CallTypes DEF TabSound, Leaves
<1>5. y.loop = Revalidating(t, d["me"]).loop /\ y.shown = Revalidating(t, d["me"]).shown
      /\ y.status = Revalidating(t, d["me"]).status
  BY <1>4 DEF Revalidating
<1>6. /\ tab' = [tab EXCEPT ![t] = x] /\ call' = [call EXCEPT ![t] = CallsRevalidated(d)]
      /\ cookie' = cookie
  BY DEF HandleEvent
<1> HIDE DEF x, y, d
<1>7. /\ tab' \in [Tabs -> TabSet] /\ tab'[t] = x
      /\ \A u \in Tabs \ {t} : tab'[u] = tab[u]
  BY <1>1, <1>3, <1>6
<1>8. /\ x.shown = Revalidating(t, d["me"]).shown /\ x.loop = Revalidating(t, d["me"]).loop
      /\ x.status = Revalidating(t, d["me"]).status
  BY <1>3, <1>5
<1>9. UNCHANGED <<live, issued, turns>>
  BY DEF HandleEvent
<1> QED BY <1>1, <1>3, <1>6, <1>7, <1>8, <1>9, InvalidateInv

\* A tab that now shows nobody, or whom it asked for, and tells the others or not.
LEMMA ShowsType ==
  ASSUME AInv, NEW t \in Tabs, NEW s \in Sids,
         NEW status \in {"unknown", "authenticated", "anonymous", "unavailable"}
  PROVE  LET x == Shows(t, status, s) IN
         /\ x \in TabSet /\ x.shown = s /\ x.status = status /\ x.loop = tab[t].loop
         /\ LoopOn(x) \in TabSet /\ LoopOn(x).shown = s /\ LoopOn(x).status = status
         /\ LoopOn(x).loop # "idle" <=> Probes(x)
<1>1. tab[t] \in TabSet
  BY DEF AInv, AuthTypes
<1> DEFINE x == Shows(t, status, s)
<1>2. x \in TabSet /\ x.shown = s /\ x.status = status /\ x.loop = tab[t].loop
  BY <1>1 DEF Shows, TabSet
<1> HIDE DEF x
<1>3. /\ LoopOn(x) \in TabSet /\ LoopOn(x).shown = s /\ LoopOn(x).status = status
      /\ LoopOn(x).loop # "idle" <=> Probes(x)
  BY <1>2 DEF LoopOn, Probes, TabSet
<1> QED BY <1>2, <1>3 DEF x

LEMMA ReceiveWorkInv ==
  ASSUME AInv, NEW t \in Tabs, NEW k \in {"work", "logout"},
         k = "work" => ReceiveWork(t), k = "logout" => ReceiveLogout(t)
  PROVE  AInv'
<1> DEFINE c == call[t][k]
           d == Rest(t, k)
           x == Shows(t, "anonymous", NoSession)
<1>1. /\ call \in [Tabs -> CallsSet] /\ tab \in [Tabs -> TabSet]
      /\ TabSound(tab[t], call[t], cookie) /\ k \in Kinds /\ k # "me" /\ k # "login"
  BY DEF AInv, AuthTypes
<1>2. Arrives(t, k) /\ cookie' \in {cookie, NoSession} /\ UNCHANGED <<live, issued, turns>>
  <2>1. Arrives(t, k)
    BY DEF ReceiveWork, ReceiveLogout
  <2>2. call[t][k].jar \notin Sessions
    BY <1>1 DEF TabSound
  <2> QED BY <1>1, <2>1, <2>2, JarArrives DEF Arrives
<1>3. /\ Leaves(t, d, FALSE) /\ Leaves(t, Aged(d), TRUE)
      /\ d["me"] = call[t]["me"] /\ Aged(d)["me"].at = call[t]["me"].at
  <2>1. "me" \in Kinds \ {k}
    BY <1>1
  <2>2. /\ \A j \in Kinds \ {k} : Aged(Rest(t, k))[j].at = call[t][j].at
        /\ \A j \in Kinds \ {k} : Rest(t, k)[j] = call[t][j]
        /\ Leaves(t, Rest(t, k), FALSE) /\ Leaves(t, Aged(Rest(t, k)), TRUE)
    BY <1>1, RestLeaves
  <2> HIDE DEF Kinds
  <2> QED BY <2>1, <2>2
<1>4. \/ Invalidate(t, Aged(d), TRUE)
      \/ /\ tab' = Publish(t, [tab EXCEPT ![t] = x])
         /\ call' = [call EXCEPT ![t] = Aged(d)]
      \/ call' = [call EXCEPT ![t] = d] /\ tab' = tab
  BY DEF ReceiveWork, ReceiveLogout
<1> HIDE DEF d, c
<1>5. CASE Invalidate(t, Aged(d), TRUE)
  BY <1>2, <1>3, <1>5, InvalidateStep
<1>6. CASE call' = [call EXCEPT ![t] = d] /\ tab' = tab
  <2>1. /\ tab[t].loop # "idle" => d["me"].at # "none"
        /\ tab[t].shown # NoSession <=> tab[t].status = "authenticated"
    BY <1>1, <1>3 DEF TabSound
  <2>2. tab[t].shown \in Sessions => Knows(t, tab[t].shown)
    BY DEF Knows
  <2>3. call' = [call EXCEPT ![t] = IF FALSE THEN [d EXCEPT !["me"] = Asked(cookie', FALSE)]
                                    ELSE d]
    BY <1>6
  <2> QED BY <1>1, <1>2, <1>3, <1>6, <2>1, <2>2, <2>3, GoOnInv
<1>7. CASE /\ tab' = Publish(t, [tab EXCEPT ![t] = x])
           /\ call' = [call EXCEPT ![t] = Aged(d)]
  <2> DEFINE tabs == [tab EXCEPT ![t] = x]
  <2>1. /\ x \in TabSet /\ x.shown = NoSession /\ x.status = "anonymous"
        /\ x.loop = tab[t].loop
    BY ShowsType
  <2> HIDE DEF x
  <2>2. tabs \in [Tabs -> TabSet] /\ tabs[t] = x /\ \A u \in Tabs \ {t} : tabs[u] = tab[u]
    BY <1>1, <2>1
  <2>3. tab' = Publish(t, tabs)
    BY <1>7
  <2> HIDE DEF tabs
  <2>4. /\ tab' \in [Tabs -> TabSet] /\ tab'[t] = x
        /\ \A u \in Tabs \ {t} : /\ tab'[u].shown = tab[u].shown /\ tab'[u].loop = tab[u].loop
                                 /\ tab'[u].status = tab[u].status
    BY <2>2, <2>3, PublishType
  <2>5. x.loop # "idle" => Aged(d)["me"].at # "none"
    BY <1>1, <1>3, <2>1 DEF TabSound
  <2>6. call' = [call EXCEPT ![t] =
                   IF FALSE THEN [Aged(d) EXCEPT !["me"] = Asked(cookie', FALSE)] ELSE Aged(d)]
    BY <1>7
  <2> QED BY <1>2, <1>3, <2>1, <2>4, <2>5, <2>6, GoOnInv
<1> QED BY <1>4, <1>5, <1>6, <1>7

\* A restore that is over is followed by the next one, if the loop waits for it.
LEMMA ReceiveMeInv ==
  ASSUME AInv, NEW t \in Tabs, ReceiveMe(t) PROVE AInv'
<1> DEFINE c == call[t]["me"]
           counts == c.fresh /\ c.answer # "failed"
           d == IF counts THEN Aged(Rest(t, "me")) ELSE Rest(t, "me")
<1>1. /\ call \in [Tabs -> CallsSet] /\ tab \in [Tabs -> TabSet]
      /\ TabSound(tab[t], call[t], cookie)
  BY DEF AInv, AuthTypes
<1>2. c \in CallSet /\ tab[t] \in TabSet
  BY <1>1 DEF CallsSet
<1>3. Arrives(t, "me") /\ cookie' \in {cookie, NoSession} /\ UNCHANGED <<live, issued, turns>>
  <2>1. Arrives(t, "me")
    BY DEF ReceiveMe
  <2>2. call[t]["me"].jar \notin Sessions
    BY <1>1 DEF TabSound
  <2> QED BY <1>1, <2>1, <2>2, JarArrives DEF Arrives
<1>4. Leaves(t, d, counts)
  BY RestLeaves
<1> DEFINE Reached(s, status) ==
          LET x == Shows(t, status, s)
              tabs == [tab EXCEPT ![t] = LoopOn(x)] IN
          /\ s \in Sids /\ status \in {"unknown", "authenticated", "anonymous", "unavailable"}
          /\ s # NoSession <=> status = "authenticated"
          /\ s \in Sessions => Knows(t, s)
          /\ counts \/ s = tab[t].shown
          /\ tab' \in {tabs, Publish(t, tabs)}
          /\ call' = [call EXCEPT ![t] = MeOn(x, d)]
<1>5. \E s, status : Reached(s, status)
  <2>1. Shows(t, tab[t].status, tab[t].shown) = tab[t]
    BY <1>2 DEF Shows, TabSet
  <2>2. /\ tab[t].shown \in Sids /\ NoSession \in Sids
        /\ tab[t].status \in {"unknown", "authenticated", "anonymous", "unavailable"}
        /\ tab[t].shown # NoSession <=> tab[t].status = "authenticated"
        /\ tab[t].shown \in Sessions => Knows(t, tab[t].shown)
    BY <1>1, <1>2 DEF TabSet, TabSound, Knows
  <2>3. CASE ~c.fresh
    <3>1. /\ tab' = [tab EXCEPT ![t] = LoopOn(tab[t])]
          /\ call' = [call EXCEPT ![t] = MeOn(tab[t], Rest(t, "me"))]
      BY <2>3 DEF ReceiveMe
    <3>2. Reached(tab[t].shown, tab[t].status)
      BY <2>1, <2>2, <2>3, <3>1
    <3> QED BY <3>2
  <2>4. CASE c.fresh /\ c.answer \in Sessions
    <3>1. /\ tab' = [tab EXCEPT ![t] = LoopOn(Shows(t, "authenticated", c.answer))]
          /\ call' = [call EXCEPT ![t] = MeOn(Shows(t, "authenticated", c.answer), d)]
      BY <2>4, TabsAssumption DEF ReceiveMe
    <3>2. Knows(t, c.answer) /\ counts /\ c.answer # NoSession
      BY <2>4 DEF Knows
    <3>3. Reached(c.answer, "authenticated")
      BY <2>4, <3>1, <3>2
    <3> QED BY <3>3
  <2>5. CASE c.fresh /\ c.answer = "expired"
    <3> DEFINE x == Shows(t, "anonymous", NoSession)
               tabs == [tab EXCEPT ![t] = LoopOn(x)]
    <3>1. tab' \in {tabs, Publish(t, tabs)} /\ call' = [call EXCEPT ![t] = MeOn(x, d)]
      BY <2>5, TabsAssumption DEF ReceiveMe
    <3>2. Reached(NoSession, "anonymous")
      BY <2>2, <2>5, <3>1
    <3> QED BY <3>2
  <2>6. CASE c.fresh /\ c.answer = "failed" /\ tab[t].status = "authenticated"
    <3>1. /\ tab' = [tab EXCEPT ![t] = LoopOn(tab[t])]
          /\ call' = [call EXCEPT ![t] = MeOn(tab[t], Rest(t, "me"))]
      BY <2>6, TabsAssumption DEF ReceiveMe
    <3>2. Reached(tab[t].shown, tab[t].status)
      BY <2>1, <2>2, <2>6, <3>1
    <3> QED BY <3>2
  <2>7. CASE c.fresh /\ c.answer = "failed" /\ tab[t].status # "authenticated"
    <3> DEFINE x == Shows(t, "unavailable", NoSession)
    <3>1. /\ tab' = [tab EXCEPT ![t] = LoopOn(x)]
          /\ call' = [call EXCEPT ![t] = MeOn(x, Rest(t, "me"))]
      BY <2>7, TabsAssumption DEF ReceiveMe
    <3>2. Reached(NoSession, "unavailable")
      BY <2>2, <2>7, <3>1
    <3> QED BY <3>2
  <2>8. c.fresh => c.answer \in Sessions \cup {"expired", "failed"}
    BY <1>1, <1>3 DEF TabSound, Arrives
  <2> HIDE DEF Reached, c
  <2> QED BY <1>2, <2>3, <2>4, <2>5, <2>6, <2>7, <2>8 DEF CallSet
<1>6. PICK s, status : Reached(s, status)
  BY <1>5
<1> DEFINE x == Shows(t, status, s)
           y == LoopOn(x)
           tabs == [tab EXCEPT ![t] = y]
<1>7. /\ y \in TabSet /\ y.shown = s /\ y.status = status
      /\ y.loop # "idle" <=> Probes(x)
  BY <1>6, ShowsType
<1>8. /\ s # NoSession <=> status = "authenticated"
      /\ s \in Sessions => Knows(t, s)
      /\ counts \/ s = tab[t].shown
      /\ tab' \in {tabs, Publish(t, tabs)}
      /\ call' = [call EXCEPT ![t] = IF Probes(x) THEN [d EXCEPT !["me"] = Asked(cookie', TRUE)]
                                     ELSE d]
  BY <1>6 DEF MeOn
<1>9. Probes(x) \in BOOLEAN
  BY <1>2 DEF Probes
<1> HIDE DEF y, counts, d, Reached, x
<1>10. tabs \in [Tabs -> TabSet] /\ tabs[t] = y /\ \A u \in Tabs \ {t} : tabs[u] = tab[u]
  BY <1>1, <1>7
<1> HIDE DEF tabs
<1>11. /\ tab' \in [Tabs -> TabSet] /\ tab'[t] = y
       /\ \A u \in Tabs \ {t} : /\ tab'[u].shown = tab[u].shown /\ tab'[u].loop = tab[u].loop
                                /\ tab'[u].status = tab[u].status
  BY <1>8, <1>10, PublishType
<1>12. counts \in BOOLEAN
  BY <1>2 DEF counts, CallSet
<1>13. /\ y \in TabSet /\ counts \in BOOLEAN /\ TRUE \in BOOLEAN /\ Probes(x) \in BOOLEAN
       /\ y.shown # NoSession <=> y.status = "authenticated"
       /\ y.loop # "idle" => Probes(x) \/ d["me"].at # "none"
       /\ counts \/ y.shown = tab[t].shown \/ (y.shown = NoSession /\ tab[t].shown = NoSession)
       /\ y.shown \in Sessions => Knows(t, y.shown)
       /\ Leaves(t, d, counts) /\ cookie' \in {cookie, NoSession} /\ UNCHANGED <<live, issued, turns>>
       /\ call' = [call EXCEPT ![t] = IF Probes(x) THEN [d EXCEPT !["me"] = Asked(cookie', TRUE)]
                                      ELSE d]
  BY <1>3, <1>4, <1>7, <1>8, <1>9, <1>12
<1> QED BY <1>11, <1>13, GoOnInv, ZenonT(60)

\* The session a login brings is new to everybody, and becomes the cookie.
LEMMA LoginArrives ==
  ASSUME AInv, NEW t \in Tabs, NEW s \in Sessions, NEW d, NEW x \in TabSet,
         Brings(t, s), cookie' = s,
         Leaves(t, d, FALSE) \/ Leaves(t, d, TRUE), d["login"] = NoCall,
         TabSound(x, d, s), x.shown \in {tab[t].shown, s},
         call' = [call EXCEPT ![t] = d],
         tab' \in [Tabs -> TabSet], tab'[t] = x,
         \A u \in Tabs \ {t} : /\ tab'[u].shown = tab[u].shown /\ tab'[u].loop = tab[u].loop
                               /\ tab'[u].status = tab[u].status,
         UNCHANGED <<live, issued, turns>>
  PROVE  AInv'
<1>1. /\ call \in [Tabs -> CallsSet] /\ d \in CallsSet
      /\ s \in issued /\ ~Seen(s) /\ \A u \in Tabs \ {t} : ~Brings(u, s)
  BY DEF AInv, AuthTypes, Leaves, Unseen
<1>2. call'[t] = d /\ \A u \in Tabs \ {t} : call'[u] = call[u]
  BY <1>1
<1>3. AuthTypes'
  BY <1>1 DEF AInv, AuthTypes
<1>4. ASSUME NEW u \in Tabs PROVE TabSound(tab'[u], call'[u], cookie')
  <2>1. CASE u = t
    BY <2>1, <1>2
  <2>2. CASE u # t
    <3>1. TabSound(tab[u], call[u], cookie) /\ s # tab[u].shown
      BY <1>1 DEF AInv, Seen
    <3> QED BY <2>2, <3>1, <1>2, StaysSound
  <2> QED BY <2>1, <2>2
<1>5. \A k \in Kinds :
        /\ d[k].sid \in Sessions => d[k].sid = call[t][k].sid
        /\ d[k].answer \in Sessions => d[k].answer = call[t][k].answer
        /\ d[k].jar \in Sessions => d[k].jar = call[t][k].jar
  BY CallTypes DEF Leaves
<1>6. ASSUME NEW r \in Sessions, Seen(r)', r # s PROVE Seen(r)
  <2>1. ASSUME NEW u \in Tabs, tab'[u].shown = r PROVE Seen(r)
    <3>1. tab[u].shown = r
      BY <2>1, <1>6
    <3> QED BY <3>1 DEF Seen
  <2>2. ASSUME NEW u \in Tabs, NEW k \in Kinds,
               call'[u][k].sid = r \/ (k # "login" /\ call'[u][k].answer = r)
        PROVE  Seen(r)
    <3>1. call[u][k].sid = r \/ (k # "login" /\ call[u][k].answer = r)
      BY <2>2, <1>2, <1>5
    <3> QED BY <3>1 DEF Seen
  <2> QED BY <1>6, <2>1, <2>2 DEF Seen
<1>7. ASSUME NEW u \in Tabs, NEW r \in Sessions, Brings(u, r)' PROVE Brings(u, r) /\ r # s
  <2>1. CASE u = t
    BY <2>1, <1>7, <1>2, CallTypes DEF Brings
  <2>2. CASE u # t
    BY <2>2, <1>7, <1>1, <1>2 DEF Brings
  <2> QED BY <2>1, <2>2
<1>8. Unseen'
  <2> SUFFICES ASSUME NEW r \in Sessions
               PROVE  /\ r \notin issued' => ~Seen(r)'
                      /\ \A u \in Tabs : Brings(u, r)' =>
                           /\ r \in issued' /\ ~Seen(r)'
                           /\ \A v \in Tabs \ {u} : ~Brings(v, r)'
    BY DEF Unseen
  <2>1. \A u \in Tabs : Brings(u, r) => /\ r \in issued /\ ~Seen(r)
                                        /\ \A v \in Tabs \ {u} : ~Brings(v, r)
    BY DEF AInv, Unseen
  <2>2. r \notin issued => ~Seen(r)
    BY DEF AInv, Unseen
  <2> QED BY <1>1, <1>6, <1>7, <2>1, <2>2
<1> QED BY <1>3, <1>4, <1>8 DEF AInv

LEMMA ReceiveLoginInv ==
  ASSUME AInv, NEW t \in Tabs, ReceiveLogin(t) PROVE AInv'
<1> DEFINE c == call[t]["login"]
           d == Rest(t, "login")
<1>1. /\ call \in [Tabs -> CallsSet] /\ tab \in [Tabs -> TabSet]
      /\ tab[t] \in TabSet /\ TabSound(tab[t], call[t], cookie)
  BY DEF AInv, AuthTypes
<1>2. Arrives(t, "login") /\ UNCHANGED <<live, issued, turns>>
  BY DEF ReceiveLogin, Arrives
<1>3. /\ Leaves(t, d, FALSE) /\ Leaves(t, Aged(d), TRUE)
      /\ d["login"] = NoCall /\ Aged(d)["login"] = NoCall
      /\ d["me"] = call[t]["me"] /\ d["work"] = call[t]["work"]
      /\ Aged(d)["me"].at = call[t]["me"].at
  <2>1. "login" \in Kinds /\ {"me", "work"} \subseteq Kinds \ {"login"}
    OBVIOUS
  <2>2. /\ \A j \in Kinds \ {"login"} : Aged(Rest(t, "login"))[j].at = call[t][j].at
        /\ \A j \in Kinds \ {"login"} : Rest(t, "login")[j] = call[t][j]
        /\ Leaves(t, Rest(t, "login"), FALSE) /\ Leaves(t, Aged(Rest(t, "login")), TRUE)
        /\ Rest(t, "login")["login"] = NoCall /\ Aged(Rest(t, "login"))["login"] = NoCall
    BY <2>1, RestLeaves
  <2> HIDE DEF Kinds
  <2> QED BY <2>1, <2>2
<1>4. c.answer \in Sessions => c.jar = c.answer
  BY <1>1 DEF TabSound
<1>5. \/ /\ c.fresh /\ c.answer \in Sessions
         /\ tab' = Publish(t, [tab EXCEPT ![t] = Shows(t, "authenticated", c.answer)])
         /\ call' = [call EXCEPT ![t] = Aged(d)]
      \/ ~(c.fresh /\ c.answer \in Sessions) /\ tab' = tab /\ call' = [call EXCEPT ![t] = d]
  BY DEF ReceiveLogin
<1>6. CASE c.jar \notin Sessions
  <2>1. cookie' \in {cookie, NoSession}
    BY <1>2, <1>6, JarArrives
  <2>2. tab' = tab /\ call' = [call EXCEPT ![t] = d]
    BY <1>4, <1>5, <1>6
  <2>3. /\ tab[t].loop # "idle" => d["me"].at # "none"
        /\ tab[t].shown # NoSession <=> tab[t].status = "authenticated"
        /\ tab[t].shown \in Sessions => Knows(t, tab[t].shown)
    BY <1>1, <1>3 DEF TabSound, Knows
  <2> HIDE DEF d
  <2>4. call' = [call EXCEPT ![t] = IF FALSE THEN [d EXCEPT !["me"] = Asked(cookie', FALSE)]
                                    ELSE d]
    BY <2>2
  <2> QED BY <1>1, <1>2, <1>3, <2>1, <2>2, <2>3, <2>4, GoOnInv
<1>7. CASE c.jar \in Sessions
  <2> DEFINE s == c.jar
  <2>1. Brings(t, s) /\ cookie' = s /\ "keeps" \notin Sessions
    BY <1>2, <1>7 DEF Brings, Arrives
  <2>2. s # tab[t].shown /\ s # cookie
    BY <1>7, <2>1 DEF AInv, Unseen, Seen
  <2> HIDE DEF d
  <2>3. CASE c.fresh /\ c.answer \in Sessions
    <3> DEFINE x == Shows(t, "authenticated", s)
               tabs == [tab EXCEPT ![t] = x]
    <3>1. tab' = Publish(t, tabs) /\ call' = [call EXCEPT ![t] = Aged(d)]
      BY <1>4, <1>5, <2>3
    <3>2. /\ x \in TabSet /\ x.shown = s /\ x.status = "authenticated"
          /\ x.loop = tab[t].loop
      BY <1>7, ShowsType
    <3> HIDE DEF x
    <3>3. tabs \in [Tabs -> TabSet] /\ tabs[t] = x /\ \A u \in Tabs \ {t} : tabs[u] = tab[u]
      BY <1>1, <3>2
    <3> HIDE DEF tabs
    <3>4. /\ tab' \in [Tabs -> TabSet] /\ tab'[t] = x
          /\ \A u \in Tabs \ {t} : /\ tab'[u].shown = tab[u].shown
                                   /\ tab'[u].loop = tab[u].loop
                                   /\ tab'[u].status = tab[u].status
      BY <3>1, <3>3, PublishType
    <3>5. TabSound(x, Aged(d), s)
      <4>1. \A k \in Kinds :
              /\ ~Aged(d)[k].fresh
              /\ Aged(d)[k].at = "none" => Aged(d)[k] = NoCall
              /\ Aged(d)[k].jar \in Sessions => Aged(d)[k].jar = call[t][k].jar
        BY <1>3, CallTypes DEF Leaves
      <4>2. x.loop # "idle" => Aged(d)["me"].at # "none"
        BY <1>1, <1>3, <3>2 DEF TabSound
      <4>3. \A k \in Kinds : Aged(d)[k].jar \in Sessions => k = "login"
        BY <1>1, <4>1 DEF TabSound
      <4>4. x.shown # NoSession
        BY <1>7, <3>2
      <4>5. Aged(d)["login"].answer \notin Sessions
        BY <1>3, CallTypes
      <4> QED BY <3>2, <4>1, <4>2, <4>3, <4>4, <4>5 DEF TabSound
    <3> QED BY <1>2, <1>3, <1>7, <2>1, <3>1, <3>2, <3>4, <3>5, LoginArrives
  <2>4. CASE ~(c.fresh /\ c.answer \in Sessions)
    <3>1. tab' = tab /\ call' = [call EXCEPT ![t] = d]
      BY <1>5, <2>4
    <3>2. TabSound(tab[t], d, s)
      <4>1. \A k \in Kinds :
              /\ d[k].at = "none" => d[k] = NoCall
              /\ d[k].jar \in Sessions => d[k].jar = call[t][k].jar
        BY <1>3, CallTypes DEF Leaves
      <4>2. d["login"].answer \notin Sessions
        BY <1>3, CallTypes
      <4> QED BY <1>1, <1>3, <2>2, <4>1, <4>2 DEF TabSound
    <3> QED BY <1>1, <1>2, <1>3, <1>7, <2>1, <3>1, <3>2, LoginArrives
  <2> QED BY <2>3, <2>4
<1> QED BY <1>6, <1>7

-----------------------------------------------------------------------------
(* Every step.                                                              *)

LEMMA InitAInv == AuthInit => AInv
<1> SUFFICES ASSUME AuthInit PROVE AInv
  OBVIOUS
<1> USE DEF AuthInit
<1>1. /\ NoCall \in CallSet /\ TabState("unknown", NoSession) \in TabSet
  BY CallTypes DEF TabState, TabSet
<1>2. \A t \in Tabs : /\ tab[t] = TabState("unknown", NoSession)
                      /\ \A k \in Kinds : call[t][k] = NoCall
  OBVIOUS
<1>3. AuthTypes
  BY <1>1 DEF AuthTypes, CallsSet
<1>4. ASSUME NEW t \in Tabs PROVE TabSound(tab[t], call[t], cookie)
  BY <1>2, CallTypes DEF TabSound, TabState
<1>5. ASSUME NEW s \in Sessions PROVE /\ Seen(s) => cookie = s
                                      /\ \A t \in Tabs : ~Brings(t, s)
  BY <1>2, CallTypes DEF Seen, Brings, TabState
<1>6. Unseen
  BY <1>5 DEF Unseen
<1> QED BY <1>3, <1>4, <1>6 DEF AInv

LEMMA StepAInv == AInv /\ [AuthNext]_authVars => AInv'
<1> SUFFICES ASSUME AInv, [AuthNext]_authVars PROVE AInv'
  OBVIOUS
<1>1. CASE UNCHANGED authVars
  BY <1>1 DEF authVars, AInv, AuthTypes, Unseen, Seen, Brings, TabSound
<1>2. ASSUME NEW t \in Tabs,
             Restore(t) \/ BeginLogin(t) \/ BeginLogout(t) \/ BeginWork(t)
      PROVE  AInv'
  BY <1>2, BeginInv
<1>3. ASSUME NEW t \in Tabs, Network(t) PROVE AInv'
  BY <1>3, NetworkInv, OpenSessionInv DEF Network
<1>4. ASSUME NEW t \in Tabs, Arrival(t) PROVE AInv'
  <2>1. CASE ReceiveMe(t)
    BY <2>1, ReceiveMeInv
  <2>2. CASE ReceiveLogin(t)
    BY <2>2, ReceiveLoginInv
  <2>3. CASE ReceiveLogout(t)
    BY <2>3, ReceiveWorkInv
  <2>4. CASE ReceiveWork(t)
    BY <2>4, ReceiveWorkInv
  <2> QED BY <1>4, <2>1, <2>2, <2>3, <2>4 DEF Arrival
<1>5. ASSUME NEW t \in Tabs, HandleEvent(t) PROVE AInv'
  BY <1>5, HandleEventInv
<1>6. ASSUME NEW t \in Tabs, NEW k \in Kinds, Lose(t, k) PROVE AInv'
  BY <1>6, NetworkInv
<1>7. ASSUME NEW s \in Sessions, Expires(s) PROVE AInv'
  BY <1>7, ExpiresInv
<1> QED BY <1>1, <1>2, <1>3, <1>4, <1>5, <1>6, <1>7 DEF AuthNext

THEOREM AuthInvariance == AuthSpec => []AInv
<1> QED BY InitAInv, StepAInv, PTL DEF AuthSpec

\* The rest of AuthTypeOK is in TabSound.
LEMMA InvTypeOK == AInv => AuthTypeOK
<1>1. ASSUME AInv PROVE AuthTypeOK
  <2>1. /\ \A t \in Tabs : tab[t].shown # NoSession <=> tab[t].status = "authenticated"
        /\ \A t \in Tabs : tab[t].loop # "idle" => call[t]["me"].at # "none"
    BY <1>1 DEF AInv, TabSound
  <2> QED BY <1>1, <2>1 DEF AInv, AuthTypes, AuthTypeOK, TabSet, CallsSet, CallSet
<1> QED BY <1>1

(***************************************************************************)
(* Every tab's record of whom it shows, its loop and its calls stays of    *)
(* its type: a tab shows a session exactly when it is authenticated, and a *)
(* revalidation loop never waits for a restore that is not there           *)
(* (auth.ts, runSubjectRevalidationLoop).                                  *)
(***************************************************************************)
THEOREM AuthTypeCorrect == AuthSpec => []AuthTypeOK
<1> QED BY AuthInvariance, InvTypeOK, PTL

(***************************************************************************)
(* What a page is given as an answer to its work was done for the session  *)
(* it shows, whatever the other tabs, the cookie and the network do, and   *)
(* however many tabs and logins there are (api.ts, the binding and the     *)
(* epoch of a request).                                                    *)
(***************************************************************************)
THEOREM Delivery == AuthSpec => []DeliveredToItsSubject
<1>1. AInv => DeliveredToItsSubject
  BY DEF AInv, TabSound, DeliveredToItsSubject, Delivered
<1> QED BY <1>1, AuthInvariance, PTL

\* A tab that has told the others, or not, shows what it now shows.
LEMMA ShownNow ==
  ASSUME AInv, NEW t \in Tabs, NEW x,
         \/ tab' = [tab EXCEPT ![t] = x] \/ tab' = Publish(t, [tab EXCEPT ![t] = x])
  PROVE  /\ tab'[t].shown = x.shown
         /\ \A u \in Tabs \ {t} : tab'[u].shown = tab[u].shown
<1>1. tab \in [Tabs -> TabSet]
  BY DEF AInv, AuthTypes
<1> DEFINE tabs == [tab EXCEPT ![t] = x]
<1>2. tabs[t] = x /\ \A u \in Tabs \ {t} : tabs[u] = tab[u] /\ tab[u] \in TabSet
  BY <1>1
<1>3. tab' = tabs \/ tab' = Publish(t, tabs)
  OBVIOUS
<1> HIDE DEF tabs
<1>4. CASE tab' = tabs
  BY <1>2, <1>4
<1>5. CASE tab' = Publish(t, tabs)
  <2>1. \A u \in Tabs : tab'[u] = IF u = t \/ tabs[u].events = MaxEvents THEN tabs[u]
                                  ELSE [tabs[u] EXCEPT !.events = @ + 1]
    BY <1>5 DEF Publish
  <2>2. ASSUME NEW u \in Tabs \ {t} PROVE tab'[u].shown = tabs[u].shown
    <3>1. tabs[u] \in TabSet
      BY <1>2
    <3>2. [tabs[u] EXCEPT !.events = @ + 1].shown = tabs[u].shown
      BY <3>1 DEF TabSet
    <3> QED BY <2>1, <3>2
  <2> QED BY <2>1, <2>2, <1>2
<1> QED BY <1>3, <1>4, <1>5

\* An answer shows the session of the cookie, or nobody, to a tab that showed it.
LEMMA ArrivalKeeps ==
  ASSUME AInv, NEW t \in Tabs, Arrival(t) \/ HandleEvent(t),
         cookie' = cookie, cookie \in Sessions
  PROVE  /\ tab[t].shown = cookie => tab'[t].shown \in {cookie, NoSession}
         /\ \A u \in Tabs \ {t} : tab'[u].shown = tab[u].shown
<1>1. /\ tab \in [Tabs -> TabSet] /\ tab[t] \in TabSet
      /\ TabSound(tab[t], call[t], cookie)
  BY DEF AInv, AuthTypes
<1>2. \A s, status : /\ Shows(t, status, s).shown = s
                     /\ LoopOn(Shows(t, status, s)).shown = s
  BY <1>1 DEF Shows, LoopOn, TabSet
<1>3. LoopOn(tab[t]).shown = tab[t].shown
  BY <1>1 DEF LoopOn, TabSet
<1>4. \A me : Revalidating(t, me).shown = NoSession
  BY <1>1 DEF Revalidating, Shows, TabSet
<1> DEFINE Now(x) == tab' = [tab EXCEPT ![t] = x] \/ tab' = Publish(t, [tab EXCEPT ![t] = x])
            Good(x) == tab[t].shown = cookie => x.shown \in {cookie, NoSession}
<1>5. (\E x : Now(x) /\ Good(x)) \/ tab' = tab
  <2>1. CASE ReceiveMe(t)
    <3> DEFINE c == call[t]["me"]
    <3>1. c.fresh => /\ c.answer \in Sessions \cup {"expired", "failed"}
                     /\ c.answer \in Sessions /\ tab[t].shown = cookie
                          => c.answer = cookie
      BY <2>1, <1>1 DEF TabSound, ReceiveMe, Arrives
    <3>2. CASE ~c.fresh \/ (c.answer = "failed" /\ tab[t].status = "authenticated")
      <4>1. Now(LoopOn(tab[t]))
        BY <2>1, <3>2, TabsAssumption DEF ReceiveMe
      <4> QED BY <4>1, <1>3
    <3>3. CASE c.fresh /\ c.answer \in Sessions
      <4>1. Now(LoopOn(Shows(t, "authenticated", c.answer)))
        BY <2>1, <3>3, TabsAssumption DEF ReceiveMe
      <4>2. LoopOn(Shows(t, "authenticated", c.answer)).shown = c.answer
        BY <1>2
      <4> HIDE DEF Now, c
      <4> QED BY <3>1, <3>3, <4>1, <4>2
    <3>4. CASE c.fresh /\ c.answer = "expired"
      <4>1. Now(LoopOn(Shows(t, "anonymous", NoSession)))
        BY <2>1, <3>4, TabsAssumption DEF ReceiveMe
      <4> QED BY <4>1, <1>2, SMTT(40)
    <3>5. CASE c.fresh /\ c.answer = "failed" /\ tab[t].status # "authenticated"
      <4>1. Now(LoopOn(Shows(t, "unavailable", NoSession)))
        BY <2>1, <3>5, TabsAssumption DEF ReceiveMe
      <4> QED BY <4>1, <1>2, SMTT(40)
    <3> HIDE DEF Now
    <3> QED BY <3>1, <3>2, <3>3, <3>4, <3>5
  <2>2. CASE ReceiveLogin(t)
    <3> DEFINE c == call[t]["login"]
    <3>1. CASE c.fresh /\ c.answer \in Sessions
      <4>1. c.jar = c.answer /\ cookie' = c.jar
        BY <2>2, <3>1, <1>1 DEF TabSound, ReceiveLogin, Arrives
      <4>2. Now(Shows(t, "authenticated", c.answer))
        BY <2>2, <3>1 DEF ReceiveLogin
      <4>3. Shows(t, "authenticated", c.answer).shown = cookie
        BY <4>1, <1>2
      <4> HIDE DEF Now, c
      <4> QED BY <4>2, <4>3
    <3>2. CASE ~(c.fresh /\ c.answer \in Sessions)
      BY <2>2, <3>2 DEF ReceiveLogin
    <3> QED BY <3>1, <3>2
  <2>3. CASE ReceiveLogout(t) \/ ReceiveWork(t)
    <3>1. \/ Now(Shows(t, "anonymous", NoSession))
          \/ \E me : Now(Revalidating(t, me))
          \/ tab' = tab
      BY <2>3 DEF ReceiveLogout, ReceiveWork, Invalidate
    <3> HIDE DEF Now
    <3> QED BY <3>1, <1>2, <1>4
  <2>4. CASE HandleEvent(t)
    <3> DEFINE y == Revalidating(t, call[t]["me"])
    <3>1. y \in TabSet
      BY RevalidatingType
    <3>2. Now([y EXCEPT !.events = @ - 1])
      BY <2>4 DEF HandleEvent
    <3>3. y.shown = NoSession
      BY <1>4
    <3> HIDE DEF y
    <3>4. [y EXCEPT !.events = @ - 1].shown = y.shown
      BY <3>1 DEF TabSet
    <3> QED BY <3>2, <3>3, <3>4
  <2> QED BY <2>1, <2>2, <2>3, <2>4 DEF Arrival
<1>6. CASE tab' = tab
  BY <1>6
<1>7. ASSUME NEW x, Now(x), Good(x)
      PROVE  /\ tab[t].shown = cookie => tab'[t].shown \in {cookie, NoSession}
             /\ \A u \in Tabs \ {t} : tab'[u].shown = tab[u].shown
  BY <1>7, ShownNow
<1> HIDE DEF Now, Good
<1> QED BY <1>5, <1>6, <1>7

(***************************************************************************)
(* A tab that shows the session of the cookie is not moved to another one  *)
(* by an answer, however late it is, as long as the cookie stays (auth.ts: *)
(* a restore or a login must still be in its epoch).                       *)
(***************************************************************************)
THEOREM CurrentStays == AuthSpec => CurrentStaysShown
<1> DEFINE Keeps == \A t \in Tabs :
              tab[t].shown = cookie /\ cookie \in Sessions /\ cookie' = cookie
                => tab'[t].shown \in {cookie, NoSession}
<1>1. ASSUME AInv, [AuthNext]_authVars PROVE Keeps
  <2> SUFFICES ASSUME NEW u \in Tabs, tab[u].shown = cookie, cookie \in Sessions,
                      cookie' = cookie
               PROVE  tab'[u].shown \in {cookie, NoSession}
    OBVIOUS
  <2>1. ASSUME NEW t \in Tabs, Arrival(t) \/ HandleEvent(t)
        PROVE  tab'[u].shown \in {cookie, NoSession}
    <3>1. CASE u = t
      BY <1>1, <2>1, <3>1, ArrivalKeeps
    <3>2. CASE u # t
      BY <1>1, <2>1, <3>2, ArrivalKeeps
    <3> QED BY <3>1, <3>2
  <2>2. ASSUME NEW t \in Tabs,
               \/ Restore(t) \/ BeginLogin(t) \/ BeginLogout(t) \/ BeginWork(t)
               \/ Network(t) \/ \E k \in Kinds : Lose(t, k)
        PROVE  tab' = tab
    BY <2>2 DEF Restore, BeginLogin, BeginLogout, BeginWork, Network, Lose, Serve,
                OpenSession, RefuseLogin
  <2>3. (\E s \in Sessions : Expires(s)) \/ UNCHANGED authVars => tab' = tab
    BY DEF Expires, authVars
  <2> QED BY <1>1, <2>1, <2>2, <2>3 DEF AuthNext
<1>2. AInv /\ [AuthNext]_authVars => [Keeps]_authVars
  BY <1>1
<1> QED BY <1>2, AuthInvariance, PTL DEF AuthSpec, CurrentStaysShown

HIDE TabsAssumption DEF Kinds, Refusals, Sids

-----------------------------------------------------------------------------
(***************************************************************************)
(* UploadQueue.                                                             *)
(***************************************************************************)
(***************************************************************************)
(* Besides its type: a run is over when it waits for nothing, it has the   *)
(* hold until it is over or its page is gone, it has one file in hand, and *)
(* those still to come have not been uploaded.  A lease that was asked for *)
(* and not made late by the page is of the subject the batch is for, and a *)
(* cancellation that finds a transfer ends it.                             *)
(***************************************************************************)
RunIsSound ==
  /\ run.at = "none" => run = NoRun
  /\ run.held <=> run.at # "none" /\ ~disposed
  /\ \A f, g \in run.file : f = g
  /\ \A f \in run.todo : item[f] \in {"queued", "error"}
LeaseIsForTheBatch ==
  bound /\ run.at = "lease" /\ run.fresh => run.asked = run.captured /\ subject = run.captured
CancelsReachTheWire == run.at = "body" /\ run.signal => run.wire

QInv == /\ QueueTypeOK /\ RunIsSound /\ HoldIsExact
        /\ LeaseIsForTheBatch /\ CancelsReachTheWire

USE DEF Ids

(* The queue starts empty. *)
LEMMA InitQInv == ASSUME QueueInit PROVE QInv
  BY DEF QueueInit, QInv, QueueTypeOK, RunIsSound, HoldIsExact, LeaseIsForTheBatch,
         CancelsReachTheWire, NoRun, busy

(* The type of a run. *)
SoundRun(r) ==
  r \in [at : {"none", "lease", "body", "after", "verdict", "finished"}, all : BOOLEAN,
         captured : Ids, file : SUBSET Files, todo : SUBSET Files,
         asked : Ids, fresh : BOOLEAN, signal : BOOLEAN, wire : BOOLEAN, held : BOOLEAN]

(* A run that ends gives its hold back, and leaves no file behind. *)
LEMMA EndQInv ==
  ASSUME QInv, NEW r, r.held = run.held, run.at # "none", End(r),
         item' \in [Files -> {"absent", "queued", "uploading", "success", "error"}],
         \A f \in Files : item'[f] # "uploading",
         stopRequested' \in BOOLEAN, UNCHANGED <<bound, subject, disposed>>
  PROVE  QInv'
  BY DEF QInv, QueueTypeOK, RunIsSound, HoldIsExact, LeaseIsForTheBatch, CancelsReachTheWire,
         NoRun, busy, End, Release

(* So does one that goes on with what follows the loop, or waits for it. *)
LEMMA RestQInv ==
  ASSUME QInv, NEW r, SoundRun(r), r.held = run.held, run.at # "none",
         run' = r, r.at \in {"after", "verdict", "finished"}, UNCHANGED holds,
         item' \in [Files -> {"absent", "queued", "uploading", "success", "error"}],
         \A f \in Files : item'[f] # "uploading",
         \A f, g \in r.file : f = g, \A f \in r.todo : item'[f] \in {"queued", "error"},
         stopRequested' \in BOOLEAN, UNCHANGED <<bound, subject, disposed>>
  PROVE  QInv'
  BY DEF QInv, QueueTypeOK, RunIsSound, HoldIsExact, LeaseIsForTheBatch, CancelsReachTheWire,
         NoRun, busy, SoundRun

(* The end of the loop either waits for onBatchFinished or ends the run. *)
LEMMA FinishQInv ==
  ASSUME QInv, NEW r, SoundRun(r), r.held = run.held, run.at # "none",
         NEW stop \in BOOLEAN, Finish(r, stop),
         item' \in [Files -> {"absent", "queued", "uploading", "success", "error"}],
         \A f \in Files : item'[f] # "uploading",
         \A f \in r.todo : item'[f] \in {"queued", "error"},
         UNCHANGED <<bound, subject, disposed>>
  PROVE  QInv'
<1>1. CASE ~disposed /\ identityIsCurrent(r)
  <2>. DEFINE s == [r EXCEPT !.at = "finished", !.file = {}]
  <2>1. SoundRun(s) /\ s.held = r.held /\ s.at = "finished" /\ s.file = {} /\ s.todo = r.todo
    BY DEF SoundRun
  <2>2. run' = s /\ stopRequested' = stop /\ UNCHANGED holds
    BY <1>1 DEF Finish
  <2>. HIDE DEF s
  <2>. QED BY <2>1, <2>2, RestQInv
<1>2. CASE ~(~disposed /\ identityIsCurrent(r))
  <2>1. End(r) /\ stopRequested' \in BOOLEAN
    BY <1>2 DEF Finish, QInv, QueueTypeOK
  <2>. QED BY <2>1, EndQInv
<1>. QED BY <1>1, <1>2

(* What runItem leaves: one file is done, and the others wait. *)
LEMMA ItemDoneQInv ==
  ASSUME QInv, run.at # "none", NEW stop \in BOOLEAN, ItemDone(run, stop),
         item' \in [Files -> {"absent", "queued", "uploading", "success", "error"}],
         \A f \in Files : item'[f] # "uploading",
         \A f \in run.todo : item'[f] \in {"queued", "error"},
         UNCHANGED <<bound, subject, disposed>>
  PROVE  QInv'
<1>0. SoundRun(run)
  BY DEF QInv, QueueTypeOK, SoundRun
<1>1. CASE ~run.all
  BY <1>1, EndQInv DEF ItemDone
<1>2. CASE run.all /\ (disposed \/ ~identityIsCurrent(run) \/ stopRequested)
  BY <1>0, <1>2, FinishQInv DEF ItemDone
<1>3. CASE run.all /\ ~(disposed \/ ~identityIsCurrent(run) \/ stopRequested)
  <2>. DEFINE s == [run EXCEPT !.at = "verdict"]
  <2>1. /\ SoundRun(s) /\ s.held = run.held /\ s.at = "verdict"
        /\ s.file = run.file /\ s.todo = run.todo
    BY <1>0 DEF SoundRun
  <2>2. run' = s /\ UNCHANGED <<stopRequested, holds>>
    BY <1>3 DEF ItemDone
  <2>3. \A f, g \in s.file : f = g
    BY <2>1 DEF QInv, RunIsSound
  <2>4. stopRequested' \in BOOLEAN
    BY <2>2 DEF QInv, QueueTypeOK
  <2>. HIDE DEF s
  <2>. QED BY <2>1, <2>2, <2>3, <2>4, RestQInv
<1>. QED BY <1>1, <1>2, <1>3

(* The next file is sent for the subject the batch is for. *)
LEMMA SendQInv ==
  ASSUME QInv, NEW r, SoundRun(r), NEW f \in Files, identityIsCurrent(r), ~disposed, r.held,
         item[f] \in {"queued", "error"}, \A g \in r.todo : item[g] \in {"queued", "error"},
         \A g \in Files : item[g] # "uploading",
         run' = Send(r, f), item' = [item EXCEPT ![f] = "uploading"],
         holds' = 1, stopRequested' \in BOOLEAN, UNCHANGED <<bound, subject, disposed>>
  PROVE  QInv'
<1>1. SoundRun(run') /\ run'.at = (IF bound THEN "lease" ELSE "body") /\ run'.file = {f}
      /\ run'.todo = r.todo \ {f} /\ run'.asked = subject /\ run'.captured = r.captured
      /\ run'.held /\ ~run'.signal
  BY DEF SoundRun, Send, QInv, QueueTypeOK
<1>2. QueueTypeOK'
  BY <1>1 DEF QInv, QueueTypeOK, SoundRun
<1>3. RunIsSound' /\ HoldIsExact' /\ CancelsReachTheWire'
  BY <1>1 DEF QInv, QueueTypeOK, SoundRun, RunIsSound, HoldIsExact, CancelsReachTheWire, busy, NoRun
<1>4. LeaseIsForTheBatch'
  BY <1>1 DEF LeaseIsForTheBatch, identityIsCurrent
<1>. QED BY <1>2, <1>3, <1>4 DEF QInv

-----------------------------------------------------------------------------
(* Each action keeps the invariant.                                         *)

(* Nobody is uploading but at "lease" and "body", and then the file in hand. *)
LEMMA OneInHand ==
  ASSUME QInv
  PROVE  /\ SoundRun(run)
         /\ ~busy => /\ run = NoRun /\ run.at = "none" /\ holds = 0
                     /\ \A f \in Files : item[f] # "uploading"
         /\ busy => run.at # "none"
         /\ \A f \in run.file : \A g \in Files : item[g] = "uploading" => g = f
         /\ run.at \notin {"lease", "body"} => \A g \in Files : item[g] # "uploading"
  BY DEF QInv, QueueTypeOK, RunIsSound, SoundRun, HoldIsExact, busy, NoRun

(* A queue that is not busy may be edited. *)
LEMMA EditQInv == ASSUME QInv, (\E f \in Files : add(f) \/ remove(f)) \/ clear PROVE QInv'
  BY OneInHand DEF QInv, QueueTypeOK, RunIsSound, HoldIsExact, LeaseIsForTheBatch,
     CancelsReachTheWire, NoRun, busy, add, remove, clear

(* A cancelled run stays where it is, and its transfer ends if there is one. *)
LEMMA CancelQInv == ASSUME QInv, NEW f \in Files, cancel(f) PROVE QInv'
<1>1. /\ item[f] = "uploading" /\ stopRequested' = TRUE
      /\ run' = [run EXCEPT !.signal = TRUE, !.wire = (run.at = "body")]
      /\ UNCHANGED <<bound, subject, item, disposed, holds>>
  BY DEF cancel
<1>2. run.at # "none" /\ run # NoRun
  BY <1>1, OneInHand DEF busy
<1>3. /\ SoundRun(run') /\ run'.at = run.at /\ run'.held = run.held /\ run'.file = run.file
      /\ run'.todo = run.todo /\ run'.asked = run.asked /\ run'.captured = run.captured
      /\ run'.fresh = run.fresh /\ (run'.wire <=> run.at = "body")
  BY <1>1, OneInHand DEF SoundRun
<1>4. run' # NoRun
  BY <1>2, <1>3 DEF NoRun
<1>5. QueueTypeOK'
  BY <1>1, <1>3 DEF QInv, QueueTypeOK, SoundRun
<1>6. RunIsSound' /\ HoldIsExact'
  BY <1>1, <1>2, <1>3, <1>4 DEF QInv, RunIsSound, HoldIsExact, busy
<1>7. LeaseIsForTheBatch' /\ CancelsReachTheWire'
  BY <1>1, <1>3 DEF QInv, LeaseIsForTheBatch, CancelsReachTheWire
<1>. QED BY <1>5, <1>6, <1>7 DEF QInv

(* Stopping is a flag only. *)
LEMMA StopQInv == ASSUME QInv, stopBatch PROVE QInv'
  BY DEF QInv, QueueTypeOK, RunIsSound, HoldIsExact, LeaseIsForTheBatch,
     CancelsReachTheWire, NoRun, busy, stopBatch

(* A page that goes gives the hold of its run back, once. *)
LEMMA DisposeQInv == ASSUME QInv, dispose PROVE QInv'
<1>1. /\ disposed' = TRUE /\ stopRequested' = TRUE /\ Release(run)
      /\ run' = [run EXCEPT !.held = FALSE] /\ UNCHANGED <<bound, subject, item>>
  BY DEF dispose
<1>2. /\ SoundRun(run') /\ run'.at = run.at /\ ~run'.held /\ run'.file = run.file
      /\ run'.todo = run.todo /\ run'.asked = run.asked /\ run'.captured = run.captured
      /\ run'.fresh = run.fresh /\ run'.signal = run.signal /\ run'.wire = run.wire
  BY <1>1, OneInHand DEF SoundRun
<1>3. run = NoRun => run' = NoRun
  <2>1. [NoRun EXCEPT !.held = NoRun.held] = NoRun
    BY Zenon DEF NoRun
  <2>2. NoRun.held = FALSE
    BY DEF NoRun
  <2>. QED BY <1>1, <2>1, <2>2, Zenon
<1>4. holds' = 0
  BY <1>1, OneInHand DEF Release, QInv, RunIsSound, HoldIsExact, busy
<1>5. QueueTypeOK'
  BY <1>1, <1>2, <1>4 DEF QInv, QueueTypeOK, SoundRun
<1>6. RunIsSound'
  BY <1>1, <1>2, <1>3 DEF QInv, RunIsSound
<1>7. HoldIsExact' /\ LeaseIsForTheBatch' /\ CancelsReachTheWire'
  BY <1>1, <1>2, <1>4 DEF QInv, HoldIsExact, LeaseIsForTheBatch, CancelsReachTheWire
<1>. QED BY <1>5, <1>6, <1>7 DEF QInv

(* Another subject makes the lease under way late; the queue is untouched. *)
LEMMA SubjectQInv == ASSUME QInv, NEW s \in Ids, SubjectChanges(s) PROVE QInv'
<1>1. /\ s # subject /\ subject' = s /\ run' = [run EXCEPT !.fresh = (run = NoRun)]
      /\ UNCHANGED <<bound, item, stopRequested, disposed, holds>>
  BY DEF SubjectChanges
<1>2. /\ SoundRun(run') /\ run'.at = run.at /\ run'.held = run.held /\ run'.file = run.file
      /\ run'.todo = run.todo /\ run'.signal = run.signal /\ run'.wire = run.wire
  BY <1>1, OneInHand DEF SoundRun
<1>3. CASE run = NoRun
  <2>1. run' = NoRun
    BY <1>1, <1>3 DEF NoRun
  <2>. QED
    BY <1>1, <1>3, <2>1 DEF QInv, QueueTypeOK, RunIsSound, HoldIsExact, LeaseIsForTheBatch,
       CancelsReachTheWire, NoRun, busy
<1>4. CASE run # NoRun
  <2>1. run.at # "none" /\ ~run'.fresh
    BY <1>1, <1>4, OneInHand DEF SoundRun, QInv, RunIsSound
  <2>2. run' # NoRun
    BY <1>2, <2>1 DEF NoRun
  <2>3. QueueTypeOK'
    BY <1>1, <1>2 DEF QInv, QueueTypeOK, SoundRun
  <2>4. RunIsSound' /\ HoldIsExact' /\ LeaseIsForTheBatch' /\ CancelsReachTheWire'
    BY <1>1, <1>2, <1>4, <2>1, <2>2 DEF QInv, RunIsSound, HoldIsExact, LeaseIsForTheBatch,
       CancelsReachTheWire, busy
  <2>. QED BY <2>3, <2>4 DEF QInv
<1>. QED BY <1>3, <1>4

(* What a run starts with. *)
LEMMA ContextSound ==
  ASSUME QInv, NEW all \in BOOLEAN
  PROVE  SoundRun(acquireRunHold(Context(all))) /\ acquireRunHold(Context(all)).held
         /\ acquireRunHold(Context(all)).captured = subject
         /\ acquireRunHold(Context(all)).todo = {}
  BY DEF QInv, QueueTypeOK, SoundRun, acquireRunHold, Context, NoRun

(* A batch takes the hold and sends its first file, or has nothing to send. *)
LEMMA UploadAllQInv == ASSUME QInv, uploadAll PROVE QInv'
<1>0. ~busy /\ ~disposed /\ UNCHANGED <<bound, subject, disposed>>
  BY DEF uploadAll
<1>1. CASE Refused(TRUE)
  BY <1>0, <1>1 DEF Refused, QInv, QueueTypeOK, RunIsSound, HoldIsExact, LeaseIsForTheBatch,
     CancelsReachTheWire, busy
<1>2. CASE ~Refused(TRUE)
  <2>. DEFINE r == acquireRunHold([Context(TRUE) EXCEPT !.todo = Pending])
  <2>0. /\ identityIsCurrent(Context(TRUE)) /\ stopRequested' = FALSE /\ holds' = holds + 1
        /\ IF Pending = {} THEN run' = [r EXCEPT !.at = "finished"] /\ UNCHANGED item
           ELSE \E f \in Pending : run' = Send(r, f) /\ item' = [item EXCEPT ![f] = "uploading"]
    BY <1>2 DEF uploadAll
  <2>1. SoundRun(r) /\ r.held /\ r.captured = subject /\ r.todo = Pending /\ r.file = {}
    BY DEF QInv, QueueTypeOK, SoundRun, acquireRunHold, Context, NoRun, Pending
  <2>2. identityIsCurrent(r)
    BY <2>0, <2>1 DEF identityIsCurrent, Context, NoRun
  <2>3. holds' = 1
    BY <1>0, <2>0, OneInHand
  <2>4. CASE Pending = {}
    <3>. DEFINE s == [r EXCEPT !.at = "finished"]
    <3>1. SoundRun(s) /\ s.held /\ s.at = "finished" /\ s.todo = {} /\ s.file = {}
      BY <2>1, <2>4 DEF SoundRun
    <3>2. run' = s /\ UNCHANGED item
      BY <2>0, <2>4
    <3>. HIDE DEF s
    <3>3. run' # NoRun
      BY <3>1, <3>2 DEF NoRun
    <3>4. QueueTypeOK'
      <4>1. stopRequested' = FALSE
        BY <2>0
      <4>2. \A f \in Files : item'[f] # "uploading"
        BY <1>0, <3>2, OneInHand
      <4>. QED BY <1>0, <2>3, <3>1, <3>2, <4>1, <4>2 DEF QInv, QueueTypeOK, SoundRun
    <3>. QED
      BY <1>0, <2>0, <2>3, <3>1, <3>2, <3>3, <3>4 DEF QInv, RunIsSound, HoldIsExact,
         LeaseIsForTheBatch, CancelsReachTheWire, busy
  <2>5. CASE Pending # {}
    <3>1. PICK f \in Pending : run' = Send(r, f) /\ item' = [item EXCEPT ![f] = "uploading"]
      BY <2>0, <2>5
    <3>2. f \in Files /\ item[f] \in {"queued", "error"}
          /\ \A g \in r.todo : item[g] \in {"queued", "error"}
      BY <2>1 DEF Pending
    <3>. HIDE DEF r
    <3>. QED BY <1>0, <2>0, <2>1, <2>2, <2>3, <3>1, <3>2, SendQInv, OneInHand
  <2>. QED BY <2>4, <2>5
<1>. QED BY <1>1, <1>2

(* So does the repetition of one file. *)
LEMMA RetryQInv == ASSUME QInv, NEW f \in Files, retry(f) PROVE QInv'
<1>0. ~busy /\ ~disposed /\ f \in Pending /\ UNCHANGED <<bound, subject, disposed>>
  BY DEF retry
<1>1. CASE Refused(FALSE)
  BY <1>0, <1>1 DEF Refused, QInv, QueueTypeOK, RunIsSound, HoldIsExact, LeaseIsForTheBatch,
     CancelsReachTheWire, busy
<1>2. CASE ~Refused(FALSE)
  <2>. DEFINE r == acquireRunHold(Context(FALSE))
  <2>0. /\ identityIsCurrent(Context(FALSE)) /\ stopRequested' = FALSE /\ holds' = holds + 1
        /\ run' = Send(r, f) /\ item' = [item EXCEPT ![f] = "uploading"]
    BY <1>2 DEF retry
  <2>1. SoundRun(r) /\ r.held /\ r.captured = subject /\ r.todo = {}
    BY ContextSound
  <2>2. identityIsCurrent(r)
    BY <2>0, <2>1 DEF identityIsCurrent, Context, NoRun
  <2>3. holds' = 1
    BY <1>0, <2>0, OneInHand
  <2>4. item[f] \in {"queued", "error"}
    BY <1>0 DEF Pending
  <2>. HIDE DEF r
  <2>. QED BY <1>0, <2>0, <2>1, <2>2, <2>3, <2>4, SendQInv, OneInHand
<1>. QED BY <1>1, <1>2

(* A file that fails waits to be sent again. *)
LEMMA FailQInv ==
  ASSUME QInv, NEW f \in Files, run.at \in {"lease", "body"}, f \in run.file, Fail(f),
         UNCHANGED <<bound, subject, disposed>>
  PROVE  QInv'
<1>1. Noticed \in BOOLEAN
  BY DEF Noticed, QInv, QueueTypeOK
<1>2. item' = [item EXCEPT ![f] = "error"] /\ ItemDone(run, Noticed)
  BY DEF Fail
<1>3. item' \in [Files -> {"absent", "queued", "uploading", "success", "error"}]
  BY <1>2 DEF QInv, QueueTypeOK
<1>4. \A g \in Files : item'[g] # "uploading"
  BY <1>2, OneInHand DEF QInv, QueueTypeOK
<1>5. \A g \in run.todo : item'[g] \in {"queued", "error"}
  BY <1>2 DEF QInv, QueueTypeOK, RunIsSound
<1>6. run.at # "none"
  OBVIOUS
<1>. HIDE DEF Noticed
<1>. QED BY <1>1, <1>2, <1>3, <1>4, <1>5, <1>6, ItemDoneQInv

(* A lease in time is followed by the body, any other fails its file. *)
LEMMA LeaseQInv == ASSUME QInv, NEW f \in Files, LeaseArrives(f) PROVE QInv'
<1>1. CASE run.fresh /\ ~run.signal
  BY <1>1 DEF LeaseArrives, QInv, QueueTypeOK, RunIsSound, HoldIsExact, LeaseIsForTheBatch,
     CancelsReachTheWire, NoRun, busy
<1>2. CASE ~(run.fresh /\ ~run.signal)
  BY <1>2, FailQInv DEF LeaseArrives
<1>. QED BY <1>1, <1>2

(* A request that fails, fails its file. *)
LEMMA FailsQInv == ASSUME QInv, NEW f \in Files, UploadFails(f) PROVE QInv'
  BY FailQInv DEF UploadFails

(* A file that is stored is handed on, or ends the run. *)
LEMMA SucceedsQInv == ASSUME QInv, NEW f \in Files, UploadSucceeds(f) PROVE QInv'
<1>0. /\ run.at = "body" /\ f \in run.file /\ item' = [item EXCEPT ![f] = "success"]
      /\ UNCHANGED <<bound, subject, disposed>>
  BY DEF UploadSucceeds
<1>1. item' \in [Files -> {"absent", "queued", "uploading", "success", "error"}]
  BY <1>0 DEF QInv, QueueTypeOK
<1>2. \A g \in Files : item'[g] # "uploading"
  BY <1>0, OneInHand DEF QInv, QueueTypeOK
<1>3. \A g \in run.todo : item'[g] \in {"queued", "error"}
  BY <1>0 DEF QInv, QueueTypeOK, RunIsSound
<1>4. CASE ~disposed /\ identityIsCurrent(run)
  <2>. DEFINE s == [run EXCEPT !.at = "after"]
  <2>1. SoundRun(s) /\ s.held = run.held /\ s.at = "after" /\ s.file = run.file /\ s.todo = run.todo
    BY OneInHand DEF SoundRun
  <2>2. run' = s /\ UNCHANGED <<stopRequested, holds>>
    BY <1>4 DEF UploadSucceeds
  <2>3. \A g, h \in s.file : g = h
    BY <2>1 DEF QInv, RunIsSound
  <2>4. stopRequested' \in BOOLEAN
    BY <2>2 DEF QInv, QueueTypeOK
  <2>. HIDE DEF s
  <2>. QED BY <1>0, <1>1, <1>2, <1>3, <2>1, <2>2, <2>3, <2>4, RestQInv
<1>5. CASE ~(~disposed /\ identityIsCurrent(run))
  <2>1. ItemDone(run, Noticed) /\ Noticed \in BOOLEAN /\ run.at # "none"
    BY <1>0, <1>5 DEF UploadSucceeds, Noticed, QInv, QueueTypeOK
  <2>. HIDE DEF Noticed
  <2>. QED BY <1>0, <1>1, <1>2, <1>3, <2>1, ItemDoneQInv
<1>. QED BY <1>4, <1>5

(* What onItemSuccess comes to leaves the file as it is. *)
LEMMA HandledQInv == ASSUME QInv, NEW f \in Files, SuccessHandled(f) PROVE QInv'
<1>1. /\ run.at = "after" /\ UNCHANGED item /\ ItemDone(run, stopRequested)
      /\ stopRequested \in BOOLEAN /\ UNCHANGED <<bound, subject, disposed>>
  BY DEF SuccessHandled, QInv, QueueTypeOK
<1>2. item' \in [Files -> {"absent", "queued", "uploading", "success", "error"}]
      /\ \A g \in run.todo : item'[g] \in {"queued", "error"}
  BY <1>1 DEF QInv, QueueTypeOK, RunIsSound
<1>3. \A g \in Files : item'[g] # "uploading"
  BY <1>1, OneInHand
<1>. QED BY <1>1, <1>2, <1>3, ItemDoneQInv

(* The verdict ends the batch or has the next file sent. *)
LEMMA VerdictQInv == ASSUME QInv, NEW shouldStop \in BOOLEAN, Verdict(shouldStop) PROVE QInv'
<1>. DEFINE r == [run EXCEPT !.file = {}]
<1>0. run.at = "verdict" /\ UNCHANGED <<bound, subject, disposed>>
  BY DEF Verdict
<1>1. /\ SoundRun(r) /\ r.held = run.held /\ r.todo = run.todo /\ r.file = {}
      /\ (identityIsCurrent(r) <=> identityIsCurrent(run))
  BY OneInHand DEF SoundRun, identityIsCurrent
<1>2. /\ item \in [Files -> {"absent", "queued", "uploading", "success", "error"}]
      /\ stopRequested \in BOOLEAN
      /\ \A g \in Files : item[g] # "uploading"
      /\ \A g \in r.todo : g \in Files /\ item[g] \in {"queued", "error"}
  BY <1>0, <1>1, OneInHand DEF QInv, QueueTypeOK, RunIsSound
<1>3. \/ Finish(r, TRUE) /\ UNCHANGED item
      \/ NextItem(r, stopRequested)
  BY DEF Verdict
<1>. HIDE DEF r
<1>4. ASSUME NEW stop \in BOOLEAN, Finish(r, stop), UNCHANGED item PROVE QInv'
  BY <1>0, <1>1, <1>2, <1>4, FinishQInv
<1>5. CASE NextItem(r, stopRequested)
  <2>1. CASE ~disposed /\ ~stopRequested /\ r.todo # {} /\ identityIsCurrent(r)
    <3>1. PICK f \in r.todo : /\ run' = Send(r, f) /\ item' = [item EXCEPT ![f] = "uploading"]
                              /\ stopRequested' = stopRequested /\ UNCHANGED holds
      BY <1>5, <2>1 DEF NextItem
    <3>2. r.held /\ holds' = 1
      BY <1>0, <1>1, <2>1, <3>1 DEF QInv, RunIsSound, HoldIsExact, busy, NoRun
    <3>. QED BY <1>0, <1>1, <1>2, <2>1, <3>1, <3>2, SendQInv
  <2>2. CASE ~(~disposed /\ ~stopRequested /\ r.todo # {} /\ identityIsCurrent(r))
    BY <1>2, <1>4, <1>5, <2>2 DEF NextItem
  <2>. QED BY <2>1, <2>2
<1>. QED BY <1>3, <1>4, <1>5

(* onBatchFinished ends the run. *)
LEMMA FinishedQInv == ASSUME QInv, BatchFinished PROVE QInv'
<1>1. run.at = "finished" /\ End(run) /\ UNCHANGED <<bound, subject, item, stopRequested, disposed>>
  BY DEF BatchFinished
<1>2. \A g \in Files : item'[g] # "uploading"
  BY <1>1, OneInHand
<1>3. /\ item' \in [Files -> {"absent", "queued", "uploading", "success", "error"}]
      /\ stopRequested' \in BOOLEAN
  BY <1>1 DEF QInv, QueueTypeOK
<1>. QED BY <1>1, <1>2, <1>3, EndQInv

(* Every step keeps the invariant. *)
LEMMA NextQInv == ASSUME QInv, [QueueNext]_queueVars PROVE QInv'
<1>1. CASE UNCHANGED queueVars
  BY <1>1 DEF queueVars, QInv, QueueTypeOK, RunIsSound, HoldIsExact, LeaseIsForTheBatch,
     CancelsReachTheWire, busy
<1>2. ASSUME NEW f \in Files,
             \/ add(f) \/ remove(f) \/ retry(f) \/ cancel(f)
             \/ LeaseArrives(f) \/ UploadFails(f) \/ UploadSucceeds(f) \/ SuccessHandled(f)
      PROVE  QInv'
  BY <1>2, EditQInv, RetryQInv, CancelQInv, LeaseQInv, FailsQInv, SucceedsQInv, HandledQInv
<1>3. CASE clear \/ uploadAll \/ stopBatch \/ dispose \/ BatchFinished
  BY <1>3, EditQInv, UploadAllQInv, StopQInv, DisposeQInv, FinishedQInv
<1>4. ASSUME NEW s \in Ids, SubjectChanges(s) PROVE QInv'
  BY <1>4, SubjectQInv
<1>5. ASSUME NEW shouldStop \in BOOLEAN, Verdict(shouldStop) PROVE QInv'
  BY <1>5, VerdictQInv
<1>. HIDE DEF Ids
<1>. QED BY <1>1, <1>2, <1>3, <1>4, <1>5 DEF QueueNext

(* Every reachable state satisfies the invariant. *)
THEOREM QueueInvariance == QueueSpec => []QInv
<1>1. QueueInit => QInv
  BY InitQInv
<1>2. QInv /\ [QueueNext]_queueVars => QInv'
  BY NextQInv
<1>. QED BY <1>1, <1>2, PTL DEF QueueSpec

(* The queue has the declared types: a file is shown as being uploaded      *)
(* exactly while the run has it in hand (useUploadQueue.ts, runItem).       *)
THEOREM QueueTypeCorrect == QueueSpec => []QueueTypeOK
<1>1. QInv => QueueTypeOK
  BY DEF QInv
<1>. QED BY <1>1, QueueInvariance, PTL

(* The session is held exactly while a run of a page that is there goes on  *)
(* (acquireRunHold, releaseRunHold, dispose).                               *)
THEOREM HoldsAreExact == QueueSpec => []HoldIsExact
<1>1. QInv => HoldIsExact
  BY DEF QInv
<1>. QED BY <1>1, QueueInvariance, PTL

-----------------------------------------------------------------------------
(* What single steps do.                                                    *)

(* After a file nothing is sent before the page has been asked again. *)
LEMMA ItemDoneRests ==
  ASSUME NEW r, SoundRun(r), NEW stop, ItemDone(r, stop)
  PROVE  run'.at \in {"none", "verdict", "finished"}
<1>1. CASE End(r)
  BY <1>1 DEF End, NoRun
<1>2. CASE run' = [r EXCEPT !.at = "finished", !.file = {}] \/ run' = [r EXCEPT !.at = "verdict"]
  BY <1>2 DEF SoundRun
<1>. QED BY <1>1, <1>2 DEF ItemDone, Finish

(* A body follows a lease only when the lease came in time. *)
LEMMA BodyAfterLease ==
  ASSUME QInv, [QueueNext]_queueVars, run.at = "lease", run'.at = "body"
  PROVE  run.fresh /\ ~run.signal
<1>0. SoundRun(run) /\ busy /\ run' # run
  BY OneInHand DEF busy, NoRun
<1>1. ASSUME NEW f \in Files, LeaseArrives(f) PROVE run.fresh /\ ~run.signal
  BY <1>0, <1>1, ItemDoneRests DEF LeaseArrives, Fail
<1>2. ASSUME NEW f \in Files, add(f) \/ remove(f) \/ retry(f) PROVE FALSE
  BY <1>0, <1>2 DEF add, remove, retry
<1>3. ASSUME NEW f \in Files, cancel(f) PROVE FALSE
  BY <1>0, <1>3 DEF cancel, SoundRun
<1>4. ASSUME NEW f \in Files, UploadFails(f) PROVE FALSE
  BY <1>0, <1>4, ItemDoneRests DEF UploadFails, Fail
<1>5. CASE clear \/ uploadAll \/ stopBatch
  BY <1>0, <1>5 DEF clear, uploadAll, stopBatch
<1>6. CASE dispose
  BY <1>0, <1>6 DEF dispose, SoundRun
<1>7. ASSUME NEW s \in Ids, SubjectChanges(s) PROVE FALSE
  BY <1>0, <1>7 DEF SubjectChanges, SoundRun
<1>8. CASE \/ \E f \in Files : UploadSucceeds(f) \/ SuccessHandled(f)
           \/ \E shouldStop \in BOOLEAN : Verdict(shouldStop)
           \/ BatchFinished
  BY <1>8 DEF UploadSucceeds, SuccessHandled, Verdict, BatchFinished
<1>9. CASE UNCHANGED queueVars
  BY <1>0, <1>9 DEF queueVars
<1>. HIDE DEF Ids
<1>. QED BY <1>1, <1>2, <1>3, <1>4, <1>5, <1>6, <1>7, <1>8, <1>9 DEF QueueNext

(* What a step can make of a file. *)
LEMMA ItemChanges ==
  ASSUME QInv, [QueueNext]_queueVars, NEW f \in Files, item'[f] # item[f]
  PROVE  \/ item'[f] = "absent"
         \/ item'[f] = "queued" /\ item[f] = "absent"
         \/ item'[f] = "uploading" /\ item[f] \in {"queued", "error"} /\ (busy => ~stopRequested)
         \/ item'[f] = "error" /\ item[f] = "uploading"
         \/ item'[f] = "success" /\ item[f] = "uploading" /\ ~run.signal
<1>. DEFINE Goal ==
         \/ item'[f] = "absent"
         \/ item'[f] = "queued" /\ item[f] = "absent"
         \/ item'[f] = "uploading" /\ item[f] \in {"queued", "error"} /\ (busy => ~stopRequested)
         \/ item'[f] = "error" /\ item[f] = "uploading"
         \/ item'[f] = "success" /\ item[f] = "uploading" /\ ~run.signal
<1>. SUFFICES Goal
  OBVIOUS
<1>0. item \in [Files -> {"absent", "queued", "uploading", "success", "error"}]
  BY DEF QInv, QueueTypeOK
<1>1. CASE (\E g \in Files : add(g) \/ remove(g)) \/ clear
  <2>1. ASSUME NEW g \in Files, add(g) \/ remove(g) PROVE Goal
    BY <1>0, <2>1 DEF add, remove
  <2>2. CASE clear
    BY <1>0, <2>2 DEF clear
  <2>. QED BY <1>1, <2>1, <2>2
<1>2. CASE uploadAll \/ \E g \in Files : retry(g)
  BY <1>0, <1>2 DEF uploadAll, retry, Refused, Pending
<1>3. ASSUME NEW g \in Files, g \in run.file, run.at \in {"lease", "body"}, Fail(g) PROVE Goal
  <2>1. item[g] = "uploading" /\ item' = [item EXCEPT ![g] = "error"]
    BY <1>3 DEF Fail, QInv, QueueTypeOK
  <2>. QED BY <1>0, <2>1
<1>4. ASSUME NEW g \in Files, LeaseArrives(g) \/ UploadFails(g) PROVE Goal
  BY <1>3, <1>4 DEF LeaseArrives, UploadFails
<1>5. ASSUME NEW g \in Files, UploadSucceeds(g) PROVE Goal
  <2>1. item[g] = "uploading" /\ item' = [item EXCEPT ![g] = "success"] /\ ~run.signal
    BY <1>5 DEF UploadSucceeds, QInv, QueueTypeOK, CancelsReachTheWire
  <2>. QED BY <1>0, <2>1
<1>6. ASSUME NEW shouldStop \in BOOLEAN, Verdict(shouldStop) PROVE Goal
  <2>. DEFINE r == [run EXCEPT !.file = {}]
  <2>1. NextItem(r, stopRequested) /\ r.todo = run.todo
    BY <1>6, OneInHand DEF Verdict, SoundRun
  <2>. HIDE DEF r
  <2>2. PICK g \in run.todo : item' = [item EXCEPT ![g] = "uploading"] /\ ~stopRequested
    BY <2>1 DEF NextItem
  <2>. QED BY <1>0, <2>2 DEF QInv, RunIsSound
<1>7. CASE \/ \E g \in Files : cancel(g) \/ SuccessHandled(g)
           \/ stopBatch \/ dispose \/ BatchFinished \/ \E s \in Ids : SubjectChanges(s)
           \/ UNCHANGED queueVars
  BY <1>7 DEF cancel, SuccessHandled, stopBatch, dispose, BatchFinished, SubjectChanges, queueVars
<1>. HIDE DEF Goal, Ids
<1>. QED BY <1>1, <1>2, <1>4, <1>5, <1>6, <1>7 DEF QueueNext

(* A body is sent for the subject of its batch only, with a lease of that   *)
(* subject (uploadFile's look after the lease, runItem's before it).        *)
THEOREM BodiesAreForTheBatch == QueueSpec => BodyIsForTheBatch
<1>1. QInv /\ [QueueNext]_queueVars =>
        [bound /\ run.at = "lease" /\ run'.at = "body"
           => run.asked = run.captured /\ subject = run.captured]_queueVars
  BY BodyAfterLease DEF QInv, LeaseIsForTheBatch
<1>. QED BY <1>1, QueueInvariance, PTL DEF QueueSpec, BodyIsForTheBatch

(* A cancelled file does not end as a success and a success is not sent     *)
(* again or taken back (cancel, isSendable, the catch around onItemSuccess). *)
THEOREM OutcomesStay == QueueSpec => OutcomesAreFinal
<1>1. QInv /\ [QueueNext]_queueVars =>
        [\A f \in Files :
           /\ item[f] = "uploading" /\ item'[f] = "success" => ~run.signal
           /\ item[f] = "success" => item'[f] \in {"success", "absent"}]_queueVars
  BY ItemChanges
<1>. QED BY <1>1, QueueInvariance, PTL DEF QueueSpec, OutcomesAreFinal

(* A batch that was stopped sends no further file (uploadAll's loop).       *)
THEOREM StopsHold == QueueSpec => StoppedSendsNothing
<1>1. QInv /\ [QueueNext]_queueVars =>
        [busy /\ stopRequested =>
           \A f \in Files : item'[f] = "uploading" => item[f] = "uploading"]_queueVars
  BY ItemChanges
<1>. QED BY <1>1, QueueInvariance, PTL DEF QueueSpec, StoppedSendsNothing

HIDE DEF Ids

-----------------------------------------------------------------------------
(***************************************************************************)
(* SessionRecovery.                                                         *)
(***************************************************************************)
USE RecoveryAssumption

(***************************************************************************)
(* The types that the proofs need; no bound on the attempts is one.        *)
(***************************************************************************)
PageSet == [owner : Jars, attempts : Nat, acts : Nat, lapsed : Nat]
RequestSet ==
  [at : {"none", "sent", "answered", "waits", "done"}, me : BOOLEAN, owner : Jars,
   sid : Jars, fresh : BOOLEAN, permit : Nat, observed : Nat,
   answer : Verdicts \cup {"recoverable"}, open : BOOLEAN, retried : BOOLEAN, runs : Nat]
BeatSet ==
  [at : {"none", "sent", "answered", "done"}, owner : Jars, sid : Jars,
   fresh : BOOLEAN, answer : Verdicts, open : BOOLEAN, sends : Nat]

(***************************************************************************)
(* The heartbeats b while the attempt is m: later attempts have none, and  *)
(* the one of m, if it was sent, is under way and of this epoch.           *)
(***************************************************************************)
Beats(b, m) ==
  /\ b \in [Attempts -> BeatSet]
  /\ \A n \in Attempts :
       /\ b[n].sends <= 1 /\ (b[n].at = "none" => b[n].sends = 0)
       /\ n > m => b[n].at = "none"
       /\ n = m /\ b[n].at # "none" => b[n].fresh /\ b[n].at # "done"

(***************************************************************************)
(* What the server has done with a call that was not sent again, as far as *)
(* the page's side tells.                                                  *)
(***************************************************************************)
Sure(q) ==
  /\ q.at = "none" => q.runs = 0 /\ ~q.retried /\ ~q.open
  /\ q.at = "sent" /\ ~q.retried => q.runs = 0
  /\ q.at = "answered" /\ q.answer = "recoverable" /\ ~q.retried => q.runs = 0 /\ ~q.open
  /\ q.at = "waits" => q.runs = 0 /\ ~q.open /\ ~q.retried

\* A call waits for a heartbeat under way, which was sent in its epoch.
Waits(q, b) ==
  q.at = "waits" /\ q.observed \in Attempts =>
    /\ b[q.observed].at \in {"sent", "answered"}
    /\ b[q.observed].fresh => q.fresh

RInv ==
  /\ jar \in Jars /\ page \in PageSet
  /\ Beats(beat, page.attempts)
  /\ request \in [Requests -> RequestSet]
  /\ \A r \in Requests : Sure(request[r]) /\ Waits(request[r], beat)

-----------------------------------------------------------------------------
LEMMA Empty ==
  /\ NoBeat \in BeatSet /\ NoBeat.at = "none" /\ NoBeat.sends = 0
  /\ NoRequest \in RequestSet /\ NoRequest.at = "none" /\ NoRequest.runs = 0
  /\ ~NoRequest.retried /\ ~NoRequest.open
BY DEF NoBeat, NoRequest, BeatSet, RequestSet, Jars, Verdicts

LEMMA DoneCall ==
  ASSUME NEW q \in RequestSet
  PROVE  Done(q) \in RequestSet /\ Done(q).at = "done"
<1>1. CASE q.open
  BY <1>1 DEF Done, RequestSet
<1>2. CASE ~q.open
  BY <1>2 DEF Done, RequestSet, NoRequest, Jars, Verdicts
<1> QED BY <1>1, <1>2

LEMMA DoneIsNotFresh ==
  ASSUME NEW q \in RequestSet
  PROVE  ~Done(q).fresh
<1>1. CASE q.open
  BY <1>1 DEF Done, RequestSet
<1>2. CASE ~q.open
  BY <1>2 DEF Done, RequestSet, NoRequest
<1> QED BY <1>1, <1>2

LEMMA ResentCall ==
  ASSUME NEW q \in RequestSet, jar \in Jars
  PROVE  Resent(q) \in RequestSet /\ Resent(q).at = "sent" /\ Resent(q).retried
BY DEF Resent, RequestSet, Verdicts

\* A call that is over, or was sent again, is no longer a matter of Sure and Waits.
LEMMA Elsewhere ==
  ASSUME NEW q, NEW b, q.at = "done" \/ (q.at = "sent" /\ q.retried)
  PROVE  Sure(q) /\ Waits(q, b)
BY DEF Sure, Waits

LEMMA LeftBehindBeats ==
  ASSUME NEW b, NEW m \in Nat, Beats(b, m)
  PROVE  /\ Beats(LeftBehind(b), m + 1)
         /\ \A n \in Attempts : LeftBehind(b)[n].at = b[n].at /\ ~LeftBehind(b)[n].fresh
<1>1. b \in [Attempts -> BeatSet] /\ Attempts \subseteq Nat
  BY DEF Beats, Attempts
<1>2. /\ LeftBehind(b) \in [Attempts -> BeatSet]
      /\ \A n \in Attempts : /\ LeftBehind(b)[n].at = b[n].at
                             /\ LeftBehind(b)[n].sends = b[n].sends
                             /\ ~LeftBehind(b)[n].fresh
  BY <1>1 DEF LeftBehind, BeatSet
<1>3. \A n \in Attempts : b[n].sends \in Nat
  BY <1>1 DEF BeatSet
<1> QED BY <1>1, <1>2, <1>3 DEF Beats

LEMMA LeftBehindCalls ==
  ASSUME NEW calls \in [Requests -> RequestSet], NEW b,
         \A r \in Requests : Sure(calls[r]) /\ Waits(calls[r], b),
         NEW m \in Nat, Beats(b, m)
  PROVE  /\ LeftBehind(calls) \in [Requests -> RequestSet]
         /\ \A r \in Requests : /\ LeftBehind(calls)[r].at = calls[r].at
                                /\ Sure(LeftBehind(calls)[r])
                                /\ Waits(LeftBehind(calls)[r], LeftBehind(b))
<1> SUFFICES ASSUME NEW r \in Requests
             PROVE  LET q == [calls[r] EXCEPT !.fresh = FALSE] IN
                    q \in RequestSet /\ q.at = calls[r].at /\ Sure(q) /\ Waits(q, LeftBehind(b))
  BY DEF LeftBehind
<1> DEFINE q == [calls[r] EXCEPT !.fresh = FALSE]
<1>1. calls[r] \in RequestSet /\ Sure(calls[r]) /\ Waits(calls[r], b)
  OBVIOUS
<1>2. /\ q \in RequestSet /\ q.at = calls[r].at /\ q.runs = calls[r].runs
      /\ q.open = calls[r].open /\ q.retried = calls[r].retried
      /\ q.answer = calls[r].answer /\ q.observed = calls[r].observed
  BY <1>1 DEF RequestSet
<1> HIDE DEF q
<1>3. Sure(q)
  BY <1>1, <1>2 DEF Sure
<1>4. Waits(q, LeftBehind(b))
  BY <1>1, <1>2, LeftBehindBeats DEF Waits
<1> QED BY <1>2, <1>3, <1>4 DEF q

-----------------------------------------------------------------------------
(* The steps.                                                               *)

\* Another subject: everything is left behind.
LEMMA TurnsInv ==
  ASSUME NEW owner \in Jars, NEW m \in Nat, NEW calls \in [Requests -> RequestSet], NEW b,
         \A r \in Requests : Sure(calls[r]) /\ Waits(calls[r], b),
         Beats(b, m), page \in PageSet, jar' \in Jars, Turns(owner, m, calls, b)
  PROVE  RInv'
<1>1. page' \in PageSet /\ page'.attempts = m + 1
  <2>1. page' = [page EXCEPT !.owner = owner, !.attempts = m + 1] /\ m + 1 \in Nat
    BY DEF Turns, Turned
  <2> QED BY <2>1 DEF PageSet
<1> QED BY <1>1, LeftBehindBeats, LeftBehindCalls DEF Turns, RInv

\* One call changes, and is over or sent again, or keeps what Sure and Waits say.
LEMMA CallInv ==
  ASSUME RInv, NEW r \in Requests, NEW q \in RequestSet, Sure(q), Waits(q, beat),
         request' = [request EXCEPT ![r] = q], UNCHANGED <<page, beat>>, jar' \in Jars
  PROVE  RInv'
BY DEF RInv

LEMMA AskInv ==
  ASSUME RInv, NEW r \in Requests, Ask(r)
  PROVE  RInv'
<1> DEFINE q == [request[r] EXCEPT !.at = "sent", !.me = (page.owner = NoOwner),
                   !.owner = page.owner, !.sid = jar, !.fresh = TRUE, !.permit = page.acts,
                   !.observed = page.attempts, !.open = TRUE]
<1>1. request[r] \in RequestSet /\ page \in PageSet /\ jar \in Jars /\ request[r].runs = 0
  BY DEF Ask, RInv, Sure
<1>2. q \in RequestSet
  BY <1>1 DEF RequestSet, PageSet
<1>3. q.at = "sent" /\ q.runs = 0
  BY <1>1 DEF RequestSet
<1>4. request' = [request EXCEPT ![r] = q]
  BY DEF Ask
<1>5. UNCHANGED <<page, beat>> /\ jar' \in Jars
  BY <1>1 DEF Ask
<1> HIDE DEF q
<1>6. Sure(q) /\ Waits(q, beat)
  BY <1>3 DEF Sure, Waits
<1> QED BY <1>2, <1>4, <1>5, <1>6, CallInv

\* The server answers a call it has not seen, or the network does.
LEMMA ServeRequestInv ==
  ASSUME RInv, NEW r \in Requests, ServeRequest(r) PROVE RInv'
<1> DEFINE q == request[r]
           verdict == SessionSays(q.sid, q.owner)
           runs == IF verdict = "ok" THEN q.runs + 1 ELSE q.runs
           seen == [Answered(q, verdict) EXCEPT !.runs = runs]
<1>1. q \in RequestSet /\ Sure(q) /\ Waits(q, beat) /\ q.open
  BY DEF RInv, ServeRequest
<1>2. verdict \in {"expired", "changed", "recoverable", "ok"}
  BY DEF SessionSays
<1>3. runs \in Nat /\ (verdict # "ok" => runs = q.runs)
  BY <1>1 DEF RequestSet
<1>4. request' = [request EXCEPT ![r] = IF q.at = "done" THEN Done(seen) ELSE seen]
  <2>1. Answered(q, verdict).runs = q.runs
    BY <1>1 DEF Answered, RequestSet
  <2> QED BY <2>1 DEF ServeRequest
<1> HIDE DEF verdict, runs
<1>5. Answered(q, verdict) \in RequestSet
  BY <1>1, <1>2 DEF Answered, RequestSet, Verdicts
<1>6. /\ seen \in RequestSet /\ seen.runs = runs /\ ~seen.open /\ seen.retried = q.retried
      /\ q.at = "sent" => seen.at = "answered" /\ seen.answer = verdict
      /\ q.at # "sent" => seen.at = q.at /\ seen.answer = q.answer
  <2>1. /\ seen \in RequestSet /\ seen.runs = runs
        /\ seen.at = Answered(q, verdict).at /\ seen.answer = Answered(q, verdict).answer
        /\ seen.open = Answered(q, verdict).open
        /\ seen.retried = Answered(q, verdict).retried
    BY <1>3, <1>5 DEF RequestSet
  <2>2. /\ ~Answered(q, verdict).open /\ Answered(q, verdict).retried = q.retried
        /\ q.at = "sent" => /\ Answered(q, verdict).at = "answered"
                            /\ Answered(q, verdict).answer = verdict
        /\ q.at # "sent" => /\ Answered(q, verdict).at = q.at
                            /\ Answered(q, verdict).answer = q.answer
    BY <1>1 DEF Answered, RequestSet
  <2> HIDE DEF seen
  <2> QED BY <2>1, <2>2
<1> HIDE DEF seen
<1>7. UNCHANGED <<page, beat>> /\ jar' \in Jars
  BY DEF ServeRequest, RInv
<1>8. CASE q.at = "done"
  BY <1>4, <1>6, <1>7, <1>8, DoneCall, Elsewhere, CallInv
<1>9. CASE q.at # "done"
  <2>1. Sure(seen) /\ Waits(seen, beat)
    <3>1. CASE q.at = "sent"
      BY <3>1, <1>1, <1>3, <1>6 DEF Sure, Waits
    <3>2. CASE q.at # "sent"
      <4>1. q.at = "answered"
        BY <3>2, <1>1, <1>9 DEF RequestSet, Sure
      <4> QED BY <3>2, <4>1, <1>1, <1>6, <1>9 DEF Sure, Waits
    <3> QED BY <3>1, <3>2
  <2> QED BY <1>4, <1>6, <1>7, <1>9, <2>1, CallInv
<1> QED BY <1>8, <1>9

LEMMA RequestFailsInv ==
  ASSUME RInv, NEW r \in Requests, RequestFails(r) PROVE RInv'
<1> DEFINE q == request[r]
<1>1. q \in RequestSet /\ Sure(q)
  BY DEF RInv
<1>2. Fails(q) \in RequestSet /\ Fails(q).at = "answered" /\ Fails(q).answer = "failed"
  BY <1>1 DEF Fails, RequestSet, Verdicts
<1>3. request' = [request EXCEPT ![r] = Fails(q)] /\ UNCHANGED <<page, beat>> /\ jar' \in Jars
  BY DEF RequestFails, RInv
<1>4. Sure(Fails(q)) /\ Waits(Fails(q), beat)
  BY <1>2 DEF Sure, Waits
<1> QED BY <1>2, <1>3, <1>4, CallInv

\* A heartbeat goes on, in the attempt it is of.
LEMMA BeatInv ==
  ASSUME RInv, NEW n \in Attempts, NEW b \in BeatSet, beat' = [beat EXCEPT ![n] = b],
         b.fresh = beat[n].fresh, b.sends = beat[n].sends,
         b.at = beat[n].at \/ (beat[n].at \in {"sent", "answered"} /\ b.at = "answered"),
         UNCHANGED <<jar, page, request>>
  PROVE  RInv'
<1>1. Beats(beat', page.attempts)
  BY DEF RInv, Beats
<1>2. ASSUME NEW r \in Requests PROVE Waits(request[r], beat')
  <2>1. Waits(request[r], beat) /\ beat \in [Attempts -> BeatSet]
    BY DEF RInv, Beats
  <2> QED BY <2>1 DEF Waits
<1> QED BY <1>1, <1>2 DEF RInv

LEMMA ServeBeatInv ==
  ASSUME RInv, NEW n \in Attempts, ServeBeat(n) \/ BeatFails(n) PROVE RInv'
<1>1. beat[n] \in BeatSet
  BY DEF RInv, Beats
<1>2. CASE ServeBeat(n)
  <2> DEFINE said == SessionSays(beat[n].sid, beat[n].owner)
             verdict == IF said = "recoverable" THEN "ok" ELSE said
  <2>1. verdict \in Verdicts
    BY DEF SessionSays, Verdicts
  <2>2. beat' = [beat EXCEPT ![n] = Answered(beat[n], verdict)]
    BY <1>2 DEF ServeBeat
  <2> HIDE DEF verdict
  <2>3. /\ Answered(beat[n], verdict) \in BeatSet
        /\ Answered(beat[n], verdict).fresh = beat[n].fresh
        /\ Answered(beat[n], verdict).sends = beat[n].sends
        /\ \/ Answered(beat[n], verdict).at = beat[n].at
           \/ beat[n].at = "sent" /\ Answered(beat[n], verdict).at = "answered"
    BY <1>1, <2>1 DEF Answered, BeatSet
  <2>4. UNCHANGED <<jar, page, request>>
    BY <1>2 DEF ServeBeat
  <2> QED BY <2>2, <2>3, <2>4, BeatInv
<1>3. CASE BeatFails(n)
  <2>1. beat' = [beat EXCEPT ![n] = Fails(beat[n])] /\ UNCHANGED <<jar, page, request>>
    BY <1>3 DEF BeatFails
  <2>2. /\ Fails(beat[n]) \in BeatSet /\ Fails(beat[n]).fresh = beat[n].fresh
        /\ Fails(beat[n]).sends = beat[n].sends /\ Fails(beat[n]).at = "answered"
        /\ beat[n].at \in {"sent", "answered"}
    BY <1>1, <1>3 DEF Fails, BeatSet, Verdicts, BeatFails, Awaited
  <2> QED BY <2>1, <2>2, BeatInv
<1> QED BY <1>2, <1>3

\* A heartbeat is sent where none is under way; nobody waits for one that was not.
LEMMA StartBeatInv ==
  ASSUME RInv, NEW owner \in Jars, ~Running, StartBeat(owner)
  PROVE  /\ Beats(beat', page.attempts)
         /\ \A r \in Requests : Waits(request[r], beat')
         /\ page.attempts \in Attempts =>
              beat'[page.attempts].at = "sent" /\ beat'[page.attempts].fresh
<1> DEFINE n == page.attempts
           b == [at |-> "sent", owner |-> owner, sid |-> jar, fresh |-> TRUE,
                 answer |-> "none", open |-> TRUE, sends |-> beat[n].sends + 1]
<1>1. beat' = [beat EXCEPT ![n] = b] /\ beat \in [Attempts -> BeatSet]
  BY DEF StartBeat, RInv, Beats
<1>2. CASE n \notin Attempts
  <2>1. beat' = beat
    BY <1>1, <1>2
  <2> QED BY <1>2, <2>1 DEF RInv
<1>3. CASE n \in Attempts
  <2>1. beat[n] \in BeatSet /\ beat[n].at = "none" /\ beat[n].sends = 0
    BY <1>1, <1>3 DEF Running, RInv, Beats, BeatSet
  <2>2. b \in BeatSet /\ b.sends = 1
    BY <2>1 DEF BeatSet, RInv, Verdicts
  <2>3. b.at = "sent" /\ b.fresh
    OBVIOUS
  <2> HIDE DEF b, n
  <2>4. Beats(beat', n)
    <3>1. Beats(beat, n)
      BY DEF RInv, n
    <3>2. beat'[n] = b /\ \A k \in Attempts \ {n} : beat'[k] = beat[k]
      BY <1>1, <1>3
    <3>3. beat' \in [Attempts -> BeatSet]
      BY <1>1, <2>2
    <3>4. n \in Nat
      BY DEF n, RInv, PageSet
    <3>5. \A k \in Attempts : beat'[k] = IF k = n THEN b ELSE beat[k]
      BY <3>2
    <3> QED BY <2>2, <2>3, <3>1, <3>3, <3>4, <3>5 DEF Beats
  <2>5. ASSUME NEW r \in Requests PROVE Waits(request[r], beat')
    <3>1. Waits(request[r], beat)
      BY DEF RInv
    <3> QED BY <1>1, <2>1, <3>1 DEF Waits
  <2> QED BY <1>1, <1>3, <2>3, <2>4, <2>5 DEF n
<1> QED BY <1>2, <1>3

LEMMA HeartbeatInv ==
  ASSUME RInv, Heartbeat PROVE RInv'
<1>1. page.owner \in Jars /\ ~Running /\ StartBeat(page.owner) /\ UNCHANGED <<jar, page, request>>
  BY DEF Heartbeat, RInv, PageSet
<1> QED BY <1>1, StartBeatInv DEF RInv

\* A call ends, and with it, perhaps, what the page shows.
LEMMA ConcludesInv ==
  ASSUME RInv, NEW r \in Requests, NEW verdict, Concludes(r, verdict), jar' \in Jars
  PROVE  RInv'
<1> DEFINE q == request[r]
           calls == [request EXCEPT ![r] = Done(q)]
<1>1. /\ q \in RequestSet /\ q.sid \in Jars /\ NoOwner \in Jars
      /\ page \in PageSet /\ page.attempts \in Nat
  BY DEF RInv, RequestSet, Jars, PageSet
<1>2. Done(q) \in RequestSet /\ Sure(Done(q)) /\ Waits(Done(q), beat)
  BY <1>1, DoneCall, Elsewhere
<1>3. /\ calls \in [Requests -> RequestSet]
      /\ \A p \in Requests : Sure(calls[p]) /\ Waits(calls[p], beat)
  BY <1>2 DEF RInv
<1>4. \/ Turns(NoOwner, page.attempts, calls, beat)
      \/ Turns(q.sid, page.attempts, calls, beat)
      \/ request' = [request EXCEPT ![r] = Done(q)] /\ UNCHANGED <<page, beat>>
  BY DEF Concludes
<1>5. Beats(beat, page.attempts)
  BY DEF RInv
<1> HIDE DEF calls
<1> QED BY <1>1, <1>2, <1>3, <1>4, <1>5, TurnsInv, CallInv

LEMMA ReceiveInv ==
  ASSUME RInv, NEW r \in Requests, Receive(r) PROVE RInv'
<1>1. jar' \in Jars
  BY DEF Receive, JarAfter, RInv, Jars
<1> QED BY <1>1, ConcludesInv DEF Receive

\* A call waits, or sends the heartbeat itself, only in the epoch it was made in.
LEMMA StartsWhen ==
  ASSUME RInv, NEW r \in Requests, Coordinated(r) \in {"waits", "starts"}
  PROVE  request[r].fresh /\ (Coordinated(r) = "waits" <=> Running)
<1> DEFINE q == request[r]
           outcome == Coordinated(r)
           known == beat[q.observed].answer
<1>1. Remembered(q.observed) => known \in Verdicts
  <2>1. beat \in [Attempts -> BeatSet]
    BY DEF RInv, Beats
  <2> QED BY <2>1 DEF Remembered, BeatSet
<1>2. outcome = IF Stale(q) THEN "stale"
                ELSE IF Remembered(q.observed) /\ beat[q.observed].owner = Subject(q)
                THEN known
                ELSE IF Running
                THEN (IF beat[page.attempts].owner = Subject(q) THEN "waits" ELSE "changed")
                ELSE IF Recent(q.permit) /\ q.observed = page.attempts THEN "starts"
                ELSE "denied"
  BY DEF Coordinated
<1>3. Stale(q) <=> ~q.fresh
  BY DEF Stale
<1>4. outcome \in {"waits", "starts"}
  OBVIOUS
<1> HIDE DEF outcome, known, q
<1>5. q.fresh /\ (outcome = "waits" <=> Running)
  BY <1>1, <1>2, <1>3, <1>4 DEF Verdicts
<1> QED BY <1>5 DEF outcome, q

LEMMA RecoverInv ==
  ASSUME RInv, NEW r \in Requests, Recover(r) PROVE RInv'
<1> DEFINE q == request[r]
           outcome == Coordinated(r)
           w == [q EXCEPT !.at = "waits", !.observed = page.attempts]
<1>1. /\ q \in RequestSet /\ Sure(q) /\ page \in PageSet /\ page.attempts \in Nat
      /\ jar \in Jars /\ jar' = jar
      /\ q.at = "answered" /\ q.answer = "recoverable" /\ ~q.retried
  BY DEF RInv, Recover, PageSet
<1>2. /\ w \in RequestSet /\ w.at = "waits" /\ w.observed = page.attempts
      /\ w.runs = q.runs /\ w.open = q.open /\ w.retried = q.retried /\ w.fresh = q.fresh
  BY <1>1 DEF RequestSet
<1>3. Sure(w)
  BY <1>1, <1>2 DEF Sure
<1>4. CASE outcome = "waits"
  <2>1. q.fresh /\ Running
    BY <1>4, StartsWhen
  <2>2. request' = [request EXCEPT ![r] = w] /\ UNCHANGED <<page, beat>>
    BY <1>4 DEF Recover
  <2> HIDE DEF w
  <2>3. Waits(w, beat)
    BY <1>2, <2>1 DEF Waits, Running
  <2> QED BY <1>1, <1>2, <1>3, <2>2, <2>3, CallInv
<1>5. CASE outcome = "starts"
  <2>1. q.fresh /\ ~Running
    BY <1>5, StartsWhen
  <2>2. /\ request' = [request EXCEPT ![r] = w] /\ StartBeat(Subject(q))
        /\ UNCHANGED page
    BY <1>5 DEF Recover
  <2>3. Subject(q) \in Jars
    BY <1>1 DEF Subject, RequestSet
  <2>4. /\ Beats(beat', page.attempts)
        /\ \A p \in Requests : Waits(request[p], beat')
        /\ page.attempts \in Attempts => beat'[page.attempts].at = "sent"
    BY <2>1, <2>2, <2>3, StartBeatInv
  <2> HIDE DEF w
  <2>5. Waits(w, beat')
    BY <1>2, <2>1, <2>4 DEF Waits
  <2> QED BY <1>1, <1>2, <1>3, <2>2, <2>4, <2>5 DEF RInv
<1>6. CASE outcome = "ok"
  <2>1. request' = [request EXCEPT ![r] = Resent(q)] /\ UNCHANGED <<page, beat>>
    BY <1>6 DEF Recover
  <2> QED BY <1>1, <2>1, ResentCall, Elsewhere, CallInv
<1>7. CASE outcome \notin {"waits", "starts", "ok"}
  <2>1. Concludes(r, outcome)
    BY <1>7 DEF Recover
  <2> QED BY <1>1, <2>1, ConcludesInv
<1> QED BY <1>4, <1>5, <1>6, <1>7

\* Those that waited for a heartbeat go on or end with it, and all others as they were.
LEMMA BeatEnds ==
  ASSUME RInv, NEW n \in Attempts, ReceiveBeat(n)
  PROVE  LET b == beat[n]
             ended == [beat EXCEPT ![n].at = "done"]
             m == page.attempts IN
         /\ Beats(ended, m + 1) /\ (~b.fresh => Beats(ended, m))
         /\ ended[n].at = "done" /\ ended[n].fresh = b.fresh
         /\ ended[n].owner = b.owner /\ ended[n].answer = b.answer
         /\ \A k \in Attempts \ {n} : ended[k] = beat[k]
         /\ \/ ~b.fresh /\ request' = GoOn(n, "stale") /\ beat' = ended /\ UNCHANGED page
            \/ /\ b.fresh /\ b.answer \in {"changed", "expired"}
               /\ Turns(NoOwner, m + 1, GoOn(n, b.answer), ended)
            \/ /\ b.fresh /\ b.answer \notin {"changed", "expired"}
               /\ page' = [page EXCEPT !.attempts = m + 1]
               /\ request' = GoOn(n, b.answer) /\ beat' = ended
<1> DEFINE b == beat[n]
           d == [b EXCEPT !.at = "done"]
           ended == [beat EXCEPT ![n].at = "done"]
           m == page.attempts
<1>1. /\ b \in BeatSet /\ b.at = "answered" /\ m \in Nat
      /\ beat \in [Attempts -> BeatSet] /\ n \in Nat
  BY DEF RInv, Beats, ReceiveBeat, PageSet, Attempts
<1>2. /\ d \in BeatSet /\ d.at = "done" /\ d.sends = b.sends /\ d.fresh = b.fresh
      /\ d.owner = b.owner /\ d.answer = b.answer
      /\ ended = [beat EXCEPT ![n] = d]
  BY <1>1 DEF BeatSet
<1>3. \/ ~b.fresh /\ request' = GoOn(n, "stale") /\ beat' = ended /\ UNCHANGED page
      \/ /\ b.fresh /\ b.answer \in {"changed", "expired"}
         /\ Turns(NoOwner, m + 1, GoOn(n, b.answer), ended)
      \/ /\ b.fresh /\ b.answer \notin {"changed", "expired"}
         /\ page' = [page EXCEPT !.attempts = m + 1]
         /\ request' = GoOn(n, b.answer) /\ beat' = ended
  BY <1>1 DEF ReceiveBeat, BeatSet
<1> HIDE DEF d, ended
<1>4. /\ ended \in [Attempts -> BeatSet] /\ ended[n] = d
      /\ \A k \in Attempts \ {n} : ended[k] = beat[k]
  BY <1>1, <1>2
<1>5. /\ Beats(ended, m + 1)
      /\ ~b.fresh => Beats(ended, m)
  <2>1. /\ b.sends <= 1 /\ n <= m /\ (n = m => b.fresh)
        /\ \A k \in Attempts : /\ beat[k].sends <= 1 /\ (beat[k].at = "none" => beat[k].sends = 0)
                               /\ k > m => beat[k].at = "none"
                               /\ k = m /\ beat[k].at # "none" =>
                                    beat[k].fresh /\ beat[k].at # "done"
    BY <1>1 DEF RInv, Beats
  <2>2. Attempts \subseteq Nat
    BY DEF Attempts
  <2> QED BY <1>1, <1>2, <1>4, <2>1, <2>2 DEF Beats
<1> QED BY <1>2, <1>3, <1>4, <1>5 DEF ended

LEMMA GoOnCalls ==
  ASSUME RInv, NEW n \in Attempts, NEW answer, NEW r \in Requests
  PROVE  LET q == request[r]
             c == GoOn(n, answer)[r] IN
         \/ c = q /\ (q.at # "waits" \/ q.observed # n)
         \/ /\ q.at = "waits" /\ q.observed = n /\ answer = "ok"
            /\ c \in RequestSet /\ c.at = "sent" /\ c.retried /\ c.fresh = q.fresh
            /\ c.owner = q.owner /\ c.me = q.me /\ c.observed = q.observed
         \/ /\ q.at = "waits" /\ q.observed = n
            /\ c \in RequestSet /\ c.at = "done" /\ ~c.fresh
<1> DEFINE q == request[r]
           c == GoOn(n, answer)[r]
<1>1. q \in RequestSet /\ jar \in Jars
  BY DEF RInv
<1>2. c = IF q.at # "waits" \/ q.observed # n THEN q
          ELSE IF answer = "ok" THEN Resent(q) ELSE Done(q)
  BY DEF GoOn
<1>3. /\ Resent(q) \in RequestSet /\ Resent(q).at = "sent" /\ Resent(q).retried
      /\ Resent(q).fresh = q.fresh /\ Resent(q).owner = q.owner /\ Resent(q).me = q.me
      /\ Resent(q).observed = q.observed
  BY <1>1 DEF Resent, RequestSet, Verdicts
<1>4. Done(q) \in RequestSet /\ Done(q).at = "done" /\ ~Done(q).fresh
  BY <1>1, DoneCall, DoneIsNotFresh
<1> HIDE DEF c, q
<1> QED BY <1>2, <1>3, <1>4 DEF c, q

LEMMA ReceiveBeatInv ==
  ASSUME RInv, NEW n \in Attempts, ReceiveBeat(n) PROVE RInv'
<1> DEFINE b == beat[n]
           ended == [beat EXCEPT ![n].at = "done"]
           m == page.attempts
<1>1. /\ page \in PageSet /\ m \in Nat /\ NoOwner \in Jars
      /\ Beats(ended, m + 1) /\ (~b.fresh => Beats(ended, m))
  BY BeatEnds DEF RInv, PageSet, Jars
<1>2. jar' \in Jars
  BY DEF ReceiveBeat, JarAfter, RInv, Jars
<1>3. \A k \in Attempts \ {n} : ended[k] = beat[k]
  BY BeatEnds
<1>4. \/ ~b.fresh /\ request' = GoOn(n, "stale") /\ beat' = ended /\ UNCHANGED page
      \/ Turns(NoOwner, m + 1, GoOn(n, b.answer), ended)
      \/ /\ page' = [page EXCEPT !.attempts = m + 1]
         /\ request' = GoOn(n, b.answer) /\ beat' = ended
  BY BeatEnds
<1> HIDE DEF ended
<1>5. ASSUME NEW answer, NEW r \in Requests
      PROVE  /\ GoOn(n, answer)[r] \in RequestSet /\ Sure(GoOn(n, answer)[r])
             /\ Waits(GoOn(n, answer)[r], ended)
  <2>1. request[r] \in RequestSet /\ Sure(request[r]) /\ Waits(request[r], beat)
    BY DEF RInv
  <2>2. CASE GoOn(n, answer)[r] = request[r] /\ (request[r].at # "waits" \/ request[r].observed # n)
    <3>1. Waits(request[r], ended)
      BY <2>1, <2>2, <1>3 DEF Waits
    <3> QED BY <2>1, <2>2, <3>1
  <2>3. CASE /\ GoOn(n, answer)[r] \in RequestSet
             /\ \/ GoOn(n, answer)[r].at = "sent" /\ GoOn(n, answer)[r].retried
                \/ GoOn(n, answer)[r].at = "done"
    BY <2>3, Elsewhere
  <2> QED BY <2>2, <2>3, GoOnCalls
<1>6. ASSUME NEW answer PROVE GoOn(n, answer) \in [Requests -> RequestSet]
  <2>1. GoOn(n, answer) = [r \in Requests |-> GoOn(n, answer)[r]]
    BY DEF GoOn
  <2> QED BY <1>5, <2>1
<1>7. CASE ~b.fresh /\ request' = GoOn(n, "stale") /\ beat' = ended /\ UNCHANGED page
  BY <1>1, <1>2, <1>5, <1>6, <1>7 DEF RInv
<1>8. CASE Turns(NoOwner, m + 1, GoOn(n, b.answer), ended)
  BY <1>1, <1>2, <1>5, <1>6, <1>8, TurnsInv
<1>9. CASE /\ page' = [page EXCEPT !.attempts = m + 1]
           /\ request' = GoOn(n, b.answer) /\ beat' = ended
  <2>1. page' \in PageSet /\ page'.attempts = m + 1
    BY <1>1, <1>9 DEF PageSet
  <2> QED BY <1>1, <1>2, <1>5, <1>6, <1>9, <2>1 DEF RInv
<1> QED BY <1>4, <1>7, <1>8, <1>9

-----------------------------------------------------------------------------
LEMMA InitInv == RecoveryInit => RInv
<1> SUFFICES ASSUME RecoveryInit PROVE RInv
  OBVIOUS
<1>1. jar \in Jars /\ page \in PageSet
  BY DEF RecoveryInit, Jars, PageSet
<1>2. Beats(beat, page.attempts)
  BY Empty DEF RecoveryInit, Beats
<1>3. \A r \in Requests : request[r] = NoRequest
  BY DEF RecoveryInit
<1>4. \A r \in Requests : Sure(request[r]) /\ Waits(request[r], beat)
  BY <1>3, Empty DEF Sure, Waits
<1>5. request \in [Requests -> RequestSet]
  BY Empty DEF RecoveryInit
<1> QED BY <1>1, <1>2, <1>4, <1>5 DEF RInv

LEMMA StepInv == RInv /\ [RecoveryNext]_recoveryVars => RInv'
<1> SUFFICES ASSUME RInv, [RecoveryNext]_recoveryVars PROVE RInv'
  OBVIOUS
<1>1. CASE UNCHANGED recoveryVars
  BY <1>1 DEF recoveryVars, RInv, Beats, Waits, Sure
<1>2. ASSUME NEW r \in Requests,
             ServeRequest(r) \/ RequestFails(r) \/ Receive(r) \/ Recover(r) \/ Ask(r)
      PROVE  RInv'
  BY <1>2, ServeRequestInv, RequestFailsInv, ReceiveInv, RecoverInv, AskInv
<1>3. ASSUME NEW n \in Attempts, ServeBeat(n) \/ BeatFails(n) \/ ReceiveBeat(n)
      PROVE  RInv'
  BY <1>3, ServeBeatInv, ReceiveBeatInv
<1>4. ASSUME NEW s \in Owners, GoesIdle(s) \/ Ends(s) \/ OtherTabLogsIn(s)
      PROVE  RInv'
  BY <1>4 DEF GoesIdle, Ends, OtherTabLogsIn, RInv, Jars
<1>5. CASE Act \/ ActivityLapses
  <2>1. page' \in PageSet /\ page'.attempts = page.attempts
    BY <1>5 DEF Act, ActivityLapses, RInv, PageSet
  <2> QED BY <1>5, <2>1 DEF Act, ActivityLapses, RInv
<1>6. CASE Heartbeat
  BY <1>6, HeartbeatInv
<1>7. CASE HearsOfChange
  <2>1. NoOwner \in Jars /\ page.attempts \in Nat /\ jar' \in Jars
    BY <1>7 DEF HearsOfChange, Jars, RInv, PageSet
  <2> QED BY <1>7, <2>1, TurnsInv DEF HearsOfChange, RInv
<1> QED BY <1>1, <1>2, <1>3, <1>4, <1>5, <1>6, <1>7 DEF RecoveryNext, Progress

THEOREM RecoveryInvariance == RecoverySpec => []RInv
<1> QED BY InitInv, StepInv, PTL DEF RecoverySpec

(***************************************************************************)
(* No attempt sends two heartbeats, however many calls find the session    *)
(* idle, together or one after the other, whenever their refusals and the  *)
(* answers to heartbeats arrive (authRecovery.ts, coordinateHeartbeat).    *)
(***************************************************************************)
THEOREM HeartbeatsAreShared == RecoverySpec => []OneBeatPerAttempt
<1>1. RInv => OneBeatPerAttempt
  BY DEF RInv, Beats, OneBeatPerAttempt
<1> QED BY <1>1, RecoveryInvariance, PTL

\* No call is sent again when another ends.
LEMMA ConcludesSends ==
  ASSUME RInv, NEW p \in Requests, NEW verdict, Concludes(p, verdict),
         NEW r \in Requests, request'[r].at = "sent"
  PROVE  request[r].at = "sent"
<1> DEFINE calls == [request EXCEPT ![p] = Done(request[p])]
<1>1. Done(request[p]) \in RequestSet /\ Done(request[p]).at = "done"
  BY DoneCall DEF RInv
<1>2. /\ calls \in [Requests -> RequestSet] /\ calls[p].at = "done"
      /\ r # p => calls[r] = request[r]
  BY <1>1 DEF RInv
<1>3. request' = calls \/ request' = LeftBehind(calls)
  BY DEF Concludes, Turns
<1> HIDE DEF calls
<1>4. LeftBehind(calls)[r].at = calls[r].at
  BY <1>2 DEF LeftBehind, RequestSet
<1> QED BY <1>2, <1>3, <1>4

\* A waiting call goes on only for a heartbeat of its epoch.
LEMMA RepeatStep ==
  ASSUME RInv, [RecoveryNext]_recoveryVars, NEW r \in Requests, Again(r)
  PROVE  request[r].fresh /\ request[r].runs = 0 /\ ~request[r].retried
<1> DEFINE q == request[r]
           Safe == q.fresh /\ q.runs = 0 /\ ~q.retried
<1>1. /\ q \in RequestSet /\ Sure(q) /\ Waits(q, beat) /\ request \in [Requests -> RequestSet]
      /\ q.at \in {"answered", "waits"} /\ request'[r].at = "sent"
  BY DEF RInv, Again
<1>2. ASSUME NEW p \in Requests, Recover(p) PROVE Safe
  <2> DEFINE o == request[p]
  <2>1. o \in RequestSet /\ Sure(o) /\ o.answer = "recoverable" /\ ~o.retried /\ o.at = "answered"
    BY <1>2 DEF RInv, Recover
  <2>2. CASE Coordinated(p) = "ok"
    <3>1. p = r
      BY <1>1, <1>2, <2>2 DEF Recover
    <3>2. o.fresh
      BY <2>2 DEF Coordinated, Stale
    <3> QED BY <2>1, <3>1, <3>2 DEF Sure
  <2>3. CASE Coordinated(p) \in {"waits", "starts"}
    <3>1. request' = [request EXCEPT ![p] = [o EXCEPT !.at = "waits", !.observed = page.attempts]]
      BY <1>2, <2>3 DEF Recover
    <3> QED BY <1>1, <2>1, <3>1 DEF RequestSet
  <2>4. CASE Coordinated(p) \notin {"ok", "waits", "starts"}
    <3>1. Concludes(p, Coordinated(p))
      BY <1>2, <2>4 DEF Recover
    <3> QED BY <1>1, <3>1, ConcludesSends
  <2> QED BY <2>2, <2>3, <2>4
<1>3. ASSUME NEW n \in Attempts, ReceiveBeat(n) PROVE Safe
  <2> DEFINE b == beat[n]
  <2>1. b \in BeatSet
    BY DEF RInv, Beats
  <2>2. PICK answer :
          /\ request' = GoOn(n, answer) \/ request' = LeftBehind(GoOn(n, answer))
          /\ answer = "ok" => b.fresh
    BY <1>3, <2>1 DEF ReceiveBeat, Turns, BeatSet
  <2>3. GoOn(n, answer) \in [Requests -> RequestSet]
    BY ResentCall, DoneCall DEF GoOn, RInv
  <2>4. request'[r].at = GoOn(n, answer)[r].at
    BY <2>2, <2>3 DEF LeftBehind, RequestSet
  <2>5. GoOn(n, answer)[r].at = "sent" => q.at = "waits" /\ q.observed = n /\ answer = "ok"
    BY <1>1, DoneCall DEF GoOn
  <2> QED BY <1>1, <2>2, <2>4, <2>5 DEF Sure, Waits
<1>4. ASSUME NEW p \in Requests,
             ServeRequest(p) \/ RequestFails(p) \/ Receive(p) \/ Ask(p)
      PROVE  FALSE
  <2>1. CASE Receive(p)
    BY <1>1, <2>1, ConcludesSends DEF Receive
  <2>2. CASE Ask(p)
    <3>1. p # r
      BY <1>1, <2>2 DEF Ask
    <3> QED BY <1>1, <2>2, <3>1 DEF Ask
  <2>3. CASE RequestFails(p)
    BY <1>1, <2>3 DEF RequestFails, Fails, RequestSet
  <2>4. CASE ServeRequest(p)
    <3> DEFINE o == request[p]
               said == SessionSays(o.sid, o.owner)
               seen == [Answered(o, said) EXCEPT !.runs = IF said = "ok" THEN @ + 1 ELSE @]
    <3>1. o \in RequestSet /\ request' = [request EXCEPT ![p] = IF o.at = "done" THEN Done(seen)
                                                               ELSE seen]
      BY <2>4 DEF ServeRequest, RInv
    <3> HIDE DEF said
    <3>2. seen.at # "sent"
      BY <3>1 DEF Answered, RequestSet
    <3>3. o.at # "done" \/ p # r
      BY <1>1
    <3> HIDE DEF seen
    <3> QED BY <1>1, <3>1, <3>2, <3>3
  <2> QED BY <1>4, <2>1, <2>2, <2>3, <2>4
<1>5. CASE HearsOfChange
  BY <1>1, <1>5 DEF HearsOfChange, Turns, LeftBehind, RequestSet
<1>6. request' = request => FALSE
  BY <1>1
<1>7. ASSUME \/ UNCHANGED recoveryVars \/ Act \/ ActivityLapses \/ Heartbeat
             \/ \E s \in Owners : GoesIdle(s) \/ Ends(s) \/ OtherTabLogsIn(s)
             \/ \E n \in Attempts : ServeBeat(n) \/ BeatFails(n)
      PROVE  request' = request
  BY <1>7 DEF recoveryVars, Act, ActivityLapses, Heartbeat, GoesIdle, Ends, OtherTabLogsIn,
              ServeBeat, BeatFails
<1> HIDE DEF q, Safe
<1>8. CASE RecoveryNext
  <2>1. CASE Progress
    <3>1. ASSUME NEW p \in Requests,
                 ServeRequest(p) \/ RequestFails(p) \/ Receive(p) \/ Recover(p)
          PROVE  Safe
      BY <3>1, <1>2, <1>4
    <3>2. ASSUME NEW n \in Attempts, ServeBeat(n) \/ BeatFails(n) \/ ReceiveBeat(n)
          PROVE  Safe
      BY <3>2, <1>3, <1>6, <1>7
    <3> QED BY <2>1, <3>1, <3>2 DEF Progress, Safe, q
  <2>2. CASE RecoveryNext /\ ~Progress
    BY <2>2, <1>4, <1>5, <1>6, <1>7 DEF RecoveryNext
  <2> QED BY <1>8, <2>1, <2>2
<1>9. CASE UNCHANGED recoveryVars
  BY <1>9, <1>6, <1>7
<1> QED BY <1>8, <1>9

(***************************************************************************)
(* A call is sent again at most once, only if the server has not carried   *)
(* it out, and only in the epoch it was made in, for any number of calls   *)
(* that share heartbeats (api.ts, request; authRecovery.ts).               *)
(***************************************************************************)
THEOREM RepeatsAreSafe == RecoverySpec => RepeatsSafely
<1> DEFINE Repeats == \A r \in Requests :
             Again(r) => request[r].fresh /\ request[r].runs = 0 /\ ~request[r].retried
<1>1. RInv /\ [RecoveryNext]_recoveryVars => [Repeats]_recoveryVars
  BY RepeatStep
<1> QED BY <1>1, RecoveryInvariance, PTL DEF RecoverySpec, RepeatsSafely
-----------------------------------------------------------------------------
(***************************************************************************)
(* What the page has been told.  A fresh call is one of the current epoch: *)
(* of the subject shown, and sent in an attempt that has begun.  Of the    *)
(* attempts since, the page remembers every heartbeat.                     *)
(***************************************************************************)
CallSound(q, owner, m) ==
  q.fresh => /\ q.at \in {"sent", "answered", "waits"} /\ q.owner = owner
             /\ q.me = (owner = NoOwner)
             /\ q.observed <= m

BeatSound(b, n, owner, m) ==
  b.fresh => /\ b.at # "none" /\ (owner # NoOwner => b.owner = owner)
             /\ n < m => b.at = "done"
             /\ b.at = "done" => b.answer \notin {"changed", "expired"}

Remembers(q, b, m) ==
  q.fresh => \A n \in Attempts : q.observed <= n /\ n < m => b[n].at = "done" /\ b[n].fresh

(***************************************************************************)
(* A page that shows nobody has one call under way, its /me.  Only that    *)
(* call may have sent the heartbeat of the attempt, and then waits for it; *)
(* until it was sent again it is of the attempt it was made in.            *)
(***************************************************************************)
Alone(calls, b, m) ==
  /\ \A p, r \in Requests : calls[p].fresh /\ calls[r].fresh => p = r
  /\ \A r \in Requests :
       calls[r].fresh /\ calls[r].at # "waits" /\ ~calls[r].retried => calls[r].observed = m
  /\ m \in Attempts /\ b[m].at # "none" =>
       \E r \in Requests : calls[r].fresh /\ calls[r].at = "waits" /\ calls[r].observed = m

Sound(calls, b, owner, m) ==
  /\ \A r \in Requests : CallSound(calls[r], owner, m) /\ Remembers(calls[r], b, m)
  /\ \A n \in Attempts : BeatSound(b[n], n, owner, m)
  /\ owner = NoOwner => Alone(calls, b, m)

SInv == RInv /\ Sound(request, beat, page.owner, page.attempts)

\* A call that is over, or not yet made, says nothing.
LEMMA NotFresh ==
  ASSUME NEW q, ~q.fresh, NEW owner, NEW m, NEW b
  PROVE  CallSound(q, owner, m) /\ Remembers(q, b, m)
BY DEF CallSound, Remembers

\* Nothing of a new epoch is under way.
LEMMA TurnsSound ==
  ASSUME NEW owner \in Jars, NEW m \in Nat, NEW calls \in [Requests -> RequestSet], NEW b,
         Beats(b, m), page \in PageSet, Turns(owner, m, calls, b)
  PROVE  Sound(request', beat', page'.owner, page'.attempts)
<1>1. page'.owner = owner /\ page'.attempts = m + 1
  BY DEF Turns, Turned, PageSet
<1>2. /\ Beats(beat', m + 1)
      /\ \A n \in Attempts : ~beat'[n].fresh
  BY LeftBehindBeats DEF Turns
<1>3. \A r \in Requests : ~request'[r].fresh
  BY DEF Turns, LeftBehind, RequestSet
<1>4. \A r \in Requests : CallSound(request'[r], owner, m + 1)
                          /\ Remembers(request'[r], beat', m + 1)
  BY <1>3, NotFresh
<1>5. \A n \in Attempts : BeatSound(beat'[n], n, owner, m + 1)
  BY <1>2 DEF BeatSound
<1>6. Alone(request', beat', m + 1)
  BY <1>2, <1>3 DEF Alone, Beats
<1> QED BY <1>1, <1>4, <1>5, <1>6 DEF Sound

\* One call goes on in the epoch it is of, or ends.
LEMMA OneCall ==
  ASSUME SInv, NEW r \in Requests, NEW q \in RequestSet, request[r].at # "waits",
         q.fresh => /\ request[r].fresh /\ q.owner = request[r].owner /\ q.me = request[r].me
                    /\ q.at \in {"sent", "answered", "waits"}
                    /\ q.observed \in {request[r].observed, page.attempts},
         q.fresh /\ q.at # "waits" /\ ~q.retried => ~request[r].retried
  PROVE  Sound([request EXCEPT ![r] = q], beat, page.owner, page.attempts)
<1> DEFINE calls == [request EXCEPT ![r] = q]
           m == page.attempts
<1>1. /\ Sound(request, beat, page.owner, m) /\ page \in PageSet /\ m \in Nat
      /\ \A p \in Requests : request[p] \in RequestSet
      /\ request \in [Requests -> RequestSet]
  BY DEF SInv, RInv, PageSet
<1>2. calls[r] = q /\ \A p \in Requests \ {r} : calls[p] = request[p]
  BY <1>1
<1> HIDE DEF calls, m
<1>3. CallSound(q, page.owner, m)
  <2>1. CallSound(request[r], page.owner, m)
    BY <1>1 DEF Sound
  <2> QED BY <1>1, <2>1 DEF CallSound, m
<1>4. Remembers(q, beat, m)
  <2>1. Remembers(request[r], beat, m)
    BY <1>1 DEF Sound
  <2>2. \A n \in Attempts : n \in Nat
    BY DEF Attempts
  <2> QED BY <1>1, <2>1, <2>2 DEF Remembers, m
<1>5. ASSUME page.owner = NoOwner PROVE Alone(calls, beat, m)
  <2>1. Alone(request, beat, m)
    BY <1>1, <1>5 DEF Sound
  <2>2. \A p \in Requests : calls[p].fresh => request[p].fresh
    BY <1>2
  <2>3. \A p, s \in Requests : calls[p].fresh /\ calls[s].fresh => p = s
    BY <2>1, <2>2 DEF Alone
  <2>4. ASSUME NEW p \in Requests, calls[p].fresh, calls[p].at # "waits", ~calls[p].retried
        PROVE  calls[p].observed = m
    BY <1>2, <2>1, <2>4 DEF Alone, m
  <2>5. ASSUME m \in Attempts, beat[m].at # "none"
        PROVE  \E p \in Requests : calls[p].fresh /\ calls[p].at = "waits" /\ calls[p].observed = m
    <3>1. PICK p \in Requests : request[p].fresh /\ request[p].at = "waits"
                                /\ request[p].observed = m
      BY <2>1, <2>5 DEF Alone
    <3> QED BY <1>2, <3>1
  <2> QED BY <2>3, <2>4, <2>5 DEF Alone
<1> QED BY <1>1, <1>2, <1>3, <1>4, <1>5 DEF Sound, calls, m

\* One heartbeat goes on, in the attempt it is of.
LEMMA OneBeat ==
  ASSUME SInv, NEW n \in Attempts, NEW b \in BeatSet, beat' = [beat EXCEPT ![n] = b],
         b.fresh = beat[n].fresh, b.owner = beat[n].owner,
         \/ b.at = beat[n].at /\ (b.at = "done" => b.answer = beat[n].answer)
         \/ beat[n].at \in {"sent", "answered"} /\ b.at = "answered"
  PROVE  Sound(request, beat', page.owner, page.attempts)
<1> DEFINE m == page.attempts
<1>1. Sound(request, beat, page.owner, m) /\ beat \in [Attempts -> BeatSet]
  BY DEF SInv, RInv, Beats
<1>2. beat'[n] = b /\ \A k \in Attempts \ {n} : beat'[k] = beat[k]
  BY <1>1
<1> HIDE DEF m
<1>3. \A k \in Attempts : BeatSound(beat'[k], k, page.owner, m)
  <2> SUFFICES ASSUME NEW k \in Attempts PROVE BeatSound(beat'[k], k, page.owner, m)
    OBVIOUS
  <2>1. BeatSound(beat[k], k, page.owner, m)
    BY <1>1 DEF Sound
  <2> QED BY <1>2, <2>1 DEF BeatSound
<1>4. \A k \in Attempts : /\ beat'[k].fresh = beat[k].fresh
                          /\ beat[k].at = "done" => beat'[k].at = "done"
                          /\ beat[k].at = "none" => beat'[k].at = "none"
  BY <1>2
<1>5. \A r \in Requests : CallSound(request[r], page.owner, m) /\ Remembers(request[r], beat', m)
  BY <1>1, <1>4 DEF Sound, Remembers
<1>6. page.owner = NoOwner => Alone(request, beat', m)
  BY <1>1, <1>4 DEF Sound, Alone
<1> QED BY <1>3, <1>5, <1>6 DEF Sound, m

\* A heartbeat is sent for the subject that is shown, or for the call that waits.
LEMMA StartBeatSound ==
  ASSUME RInv, ~Running, NEW calls, Sound(calls, beat, page.owner, page.attempts),
         NEW owner \in Jars, StartBeat(owner),
         page.owner # NoOwner => owner = page.owner,
         page.owner = NoOwner =>
           \E r \in Requests : calls[r].fresh /\ calls[r].at = "waits"
                               /\ calls[r].observed = page.attempts
  PROVE  Sound(calls, beat', page.owner, page.attempts)
<1> DEFINE m == page.attempts
           b == [at |-> "sent", owner |-> owner, sid |-> jar, fresh |-> TRUE,
                 answer |-> "none", open |-> TRUE, sends |-> beat[m].sends + 1]
<1>1. /\ beat' = [beat EXCEPT ![m] = b] /\ beat \in [Attempts -> BeatSet] /\ m \in Nat
      /\ Attempts \subseteq Nat
  BY DEF StartBeat, RInv, Beats, PageSet, Attempts
<1>2. b.at = "sent" /\ b.fresh /\ b.owner = owner
  OBVIOUS
<1> HIDE DEF b, m
<1>3. \A k \in Attempts : beat'[k] = IF k = m THEN b ELSE beat[k]
  BY <1>1
<1>4. \A k \in Attempts : BeatSound(beat'[k], k, page.owner, m)
  BY <1>1, <1>2, <1>3 DEF Sound, BeatSound, m
<1>5. ASSUME NEW r \in Requests
      PROVE  CallSound(calls[r], page.owner, m) /\ Remembers(calls[r], beat', m)
  <2>1. CallSound(calls[r], page.owner, m) /\ Remembers(calls[r], beat, m)
    BY DEF Sound, m
  <2>2. \A k \in Attempts : k < m => beat'[k] = beat[k]
    BY <1>1, <1>3
  <2> QED BY <2>1, <2>2 DEF Remembers
<1>6. page.owner = NoOwner => Alone(calls, beat', m)
  BY DEF Sound, Alone, m
<1> QED BY <1>4, <1>5, <1>6 DEF Sound, m

LEMMA AskSound ==
  ASSUME SInv, NEW r \in Requests, Ask(r)
  PROVE  Sound(request', beat', page'.owner, page'.attempts)
<1> DEFINE m == page.attempts
           q == [request[r] EXCEPT !.at = "sent", !.me = (page.owner = NoOwner),
                   !.owner = page.owner, !.sid = jar, !.fresh = TRUE, !.permit = page.acts,
                   !.observed = page.attempts, !.open = TRUE]
<1>1. /\ request[r] \in RequestSet /\ page \in PageSet /\ m \in Nat
      /\ request \in [Requests -> RequestSet] /\ Sound(request, beat, page.owner, m)
  BY DEF SInv, RInv, PageSet
<1>2. /\ q.at = "sent" /\ q.me = (page.owner = NoOwner) /\ q.owner = page.owner
      /\ q.observed = m
  BY <1>1 DEF RequestSet
<1>3. request' = [request EXCEPT ![r] = q] /\ UNCHANGED <<page, beat>>
  BY DEF Ask
<1> HIDE DEF q, m
<1>4. request'[r] = q /\ \A p \in Requests \ {r} : request'[p] = request[p]
  BY <1>1, <1>3
<1>5. CallSound(q, page.owner, m) /\ Remembers(q, beat, m)
  <2>1. \A n \in Attempts : n \in Nat
    BY DEF Attempts
  <2>2. CallSound(q, page.owner, m)
    BY <1>1, <1>2 DEF CallSound
  <2>3. Remembers(q, beat, m)
    BY <1>1, <1>2, <2>1 DEF Remembers
  <2> QED BY <2>2, <2>3
<1>6. ASSUME page.owner = NoOwner PROVE Alone(request', beat, m)
  <2>1. Alone(request, beat, m)
    BY <1>1, <1>6 DEF Sound
  <2>2. ASSUME NEW p \in Requests PROVE ~request[p].fresh
    <3>1. CallSound(request[p], page.owner, m)
      BY <1>1 DEF Sound
    <3> QED BY <1>6, <3>1 DEF CallSound, Ask
  <2>3. ~(m \in Attempts /\ beat[m].at # "none")
    BY <2>1, <2>2 DEF Alone
  <2> QED BY <1>2, <1>4, <2>2, <2>3 DEF Alone
<1> QED BY <1>1, <1>3, <1>4, <1>5, <1>6 DEF Sound, m

LEMMA ServeRequestSound ==
  ASSUME SInv, NEW r \in Requests, ServeRequest(r)
  PROVE  Sound(request', beat', page'.owner, page'.attempts)
<1> DEFINE q == request[r]
           verdict == SessionSays(q.sid, q.owner)
           runs == IF verdict = "ok" THEN q.runs + 1 ELSE q.runs
           seen == [Answered(q, verdict) EXCEPT !.runs = runs]
<1>1. /\ q \in RequestSet /\ Sure(q) /\ q.open /\ q.at # "waits"
      /\ CallSound(q, page.owner, page.attempts)
  BY DEF SInv, RInv, Sound, ServeRequest, Sure
<1>2. verdict \in {"expired", "changed", "recoverable", "ok"}
  BY DEF SessionSays
<1>3. runs \in Nat
  BY <1>1 DEF RequestSet
<1>4. /\ request' = [request EXCEPT ![r] = IF q.at = "done" THEN Done(seen) ELSE seen]
      /\ UNCHANGED <<page, beat>>
  <2>1. Answered(q, verdict).runs = q.runs
    BY <1>1 DEF Answered, RequestSet
  <2> QED BY <2>1 DEF ServeRequest
<1> HIDE DEF verdict, runs
<1>5. /\ Answered(q, verdict) \in RequestSet
      /\ Answered(q, verdict).fresh = q.fresh /\ Answered(q, verdict).owner = q.owner
      /\ Answered(q, verdict).me = q.me /\ Answered(q, verdict).observed = q.observed
      /\ Answered(q, verdict).retried = q.retried
      /\ q.at = "sent" => Answered(q, verdict).at = "answered"
      /\ q.at # "sent" => Answered(q, verdict).at = q.at
  BY <1>1, <1>2 DEF Answered, RequestSet, Verdicts
<1>6. /\ seen \in RequestSet /\ seen.fresh = q.fresh /\ seen.owner = q.owner
      /\ seen.me = q.me /\ seen.observed = q.observed /\ seen.retried = q.retried
      /\ q.at = "sent" => seen.at = "answered"
      /\ q.at # "sent" => seen.at = q.at
  BY <1>3, <1>5 DEF RequestSet
<1> HIDE DEF seen
<1>7. CASE q.at = "done"
  BY <1>1, <1>4, <1>6, <1>7, DoneCall, DoneIsNotFresh, OneCall
<1>8. CASE q.at # "done"
  <2>1. seen.fresh => seen.at \in {"sent", "answered", "waits"}
    BY <1>1, <1>6, <1>8 DEF CallSound
  <2> QED BY <1>1, <1>4, <1>6, <1>8, <2>1, OneCall
<1> QED BY <1>7, <1>8

LEMMA RequestFailsSound ==
  ASSUME SInv, NEW r \in Requests, RequestFails(r)
  PROVE  Sound(request', beat', page'.owner, page'.attempts)
<1> DEFINE q == request[r]
<1>1. q \in RequestSet /\ q.at # "waits"
  BY DEF SInv, RInv, RequestFails, Awaited
<1>2. /\ Fails(q) \in RequestSet /\ Fails(q).at = "answered" /\ Fails(q).fresh = q.fresh
      /\ Fails(q).owner = q.owner /\ Fails(q).me = q.me /\ Fails(q).observed = q.observed
      /\ Fails(q).retried = q.retried
  BY <1>1 DEF Fails, RequestSet, Verdicts
<1>3. request' = [request EXCEPT ![r] = Fails(q)] /\ UNCHANGED <<page, beat>>
  BY DEF RequestFails
<1> QED BY <1>1, <1>2, <1>3, OneCall

LEMMA ServeBeatSound ==
  ASSUME SInv, NEW n \in Attempts, ServeBeat(n) \/ BeatFails(n)
  PROVE  Sound(request', beat', page'.owner, page'.attempts)
<1>1. beat[n] \in BeatSet
  BY DEF SInv, RInv, Beats
<1>2. CASE ServeBeat(n)
  <2> DEFINE said == SessionSays(beat[n].sid, beat[n].owner)
             verdict == IF said = "recoverable" THEN "ok" ELSE said
             b == Answered(beat[n], verdict)
  <2>1. verdict \in Verdicts
    BY DEF SessionSays, Verdicts
  <2>2. beat' = [beat EXCEPT ![n] = b] /\ UNCHANGED <<page, request>>
    BY <1>2 DEF ServeBeat
  <2> HIDE DEF verdict
  <2>3. /\ b \in BeatSet /\ b.fresh = beat[n].fresh /\ b.owner = beat[n].owner
        /\ \/ b.at = beat[n].at /\ b.answer = beat[n].answer
           \/ beat[n].at = "sent" /\ b.at = "answered"
    BY <1>1, <2>1 DEF Answered, BeatSet
  <2> HIDE DEF b
  <2> QED BY <2>2, <2>3, OneBeat
<1>3. CASE BeatFails(n)
  <2>1. beat' = [beat EXCEPT ![n] = Fails(beat[n])] /\ UNCHANGED <<page, request>>
    BY <1>3 DEF BeatFails
  <2>2. /\ Fails(beat[n]) \in BeatSet /\ Fails(beat[n]).fresh = beat[n].fresh
        /\ Fails(beat[n]).owner = beat[n].owner /\ Fails(beat[n]).at = "answered"
        /\ beat[n].at \in {"sent", "answered"}
    BY <1>1, <1>3 DEF Fails, BeatSet, Verdicts, BeatFails, Awaited
  <2> QED BY <2>1, <2>2, OneBeat
<1> QED BY <1>2, <1>3

\* A call that does not wait ends, and with it, perhaps, the epoch.
LEMMA ConcludesSound ==
  ASSUME SInv, NEW r \in Requests, NEW verdict, Concludes(r, verdict), request[r].at # "waits"
  PROVE  Sound(request', beat', page'.owner, page'.attempts)
<1> DEFINE q == request[r]
           calls == [request EXCEPT ![r] = Done(q)]
<1>1. /\ q \in RequestSet /\ q.sid \in Jars /\ NoOwner \in Jars
      /\ page \in PageSet /\ page.attempts \in Nat /\ Beats(beat, page.attempts)
  BY DEF SInv, RInv, RequestSet, Jars, PageSet
<1>2. Done(q) \in RequestSet /\ ~Done(q).fresh
  BY <1>1, DoneCall, DoneIsNotFresh
<1>3. calls \in [Requests -> RequestSet]
  BY <1>2 DEF SInv, RInv
<1>4. \/ Turns(NoOwner, page.attempts, calls, beat)
      \/ Turns(q.sid, page.attempts, calls, beat)
      \/ request' = calls /\ UNCHANGED <<page, beat>>
  BY DEF Concludes
<1>5. Sound(calls, beat, page.owner, page.attempts)
  BY <1>2, OneCall
<1> HIDE DEF calls
<1> QED BY <1>1, <1>3, <1>4, <1>5, TurnsSound

LEMMA HeartbeatSound ==
  ASSUME SInv, Heartbeat
  PROVE  Sound(request', beat', page'.owner, page'.attempts)
<1>1. /\ page.owner \in Jars /\ page.owner # NoOwner /\ ~Running /\ StartBeat(page.owner)
      /\ UNCHANGED <<page, request>>
  BY DEF Heartbeat, SInv, RInv, PageSet
<1>2. Sound(request, beat, page.owner, page.attempts) /\ RInv
  BY DEF SInv
<1> QED BY <1>1, <1>2, StartBeatSound

LEMMA RecoverSound ==
  ASSUME SInv, NEW r \in Requests, Recover(r)
  PROVE  Sound(request', beat', page'.owner, page'.attempts)
<1> DEFINE q == request[r]
           outcome == Coordinated(r)
           w == [q EXCEPT !.at = "waits", !.observed = page.attempts]
<1>1. /\ q \in RequestSet /\ page.attempts \in Nat /\ jar \in Jars
      /\ q.at = "answered" /\ ~q.retried /\ CallSound(q, page.owner, page.attempts)
      /\ request \in [Requests -> RequestSet] /\ RInv
  BY DEF SInv, RInv, Sound, Recover, PageSet
<1>2. /\ w \in RequestSet /\ w.at = "waits" /\ w.observed = page.attempts
      /\ w.fresh = q.fresh /\ w.owner = q.owner /\ w.me = q.me
  BY <1>1 DEF RequestSet
<1>3. CASE outcome \in {"waits", "starts"}
  <2>1. request' = [request EXCEPT ![r] = w] /\ page' = page
    BY <1>3 DEF Recover
  <2> HIDE DEF w
  <2>2. Sound(request', beat, page.owner, page.attempts)
    BY <1>1, <1>2, <2>1, OneCall
  <2>3. CASE outcome = "waits"
    BY <2>1, <2>2, <2>3 DEF Recover
  <2>4. CASE outcome = "starts"
    <3>1. StartBeat(Subject(q))
      BY <2>4 DEF Recover
    <3>2. q.fresh /\ ~Running
      BY <1>1, <2>4, StartsWhen
    <3>3. Subject(q) \in Jars /\ (page.owner # NoOwner => Subject(q) = page.owner)
      BY <1>1, <3>2 DEF Subject, RequestSet, CallSound
    <3>4. /\ request'[r].fresh /\ request'[r].at = "waits"
          /\ request'[r].observed = page.attempts
      BY <1>1, <1>2, <2>1, <3>2
    <3> HIDE DEF q
    <3>5. Sound(request', beat', page.owner, page.attempts)
      BY <1>1, <2>2, <3>1, <3>2, <3>3, <3>4, StartBeatSound
    <3> QED BY <2>1, <3>5
  <2> QED BY <1>3, <2>3, <2>4
<1>4. CASE outcome = "ok"
  <2>1. request' = [request EXCEPT ![r] = Resent(q)] /\ UNCHANGED <<page, beat>>
    BY <1>4 DEF Recover
  <2>2. /\ Resent(q) \in RequestSet /\ Resent(q).at = "sent" /\ Resent(q).retried
        /\ Resent(q).fresh = q.fresh /\ Resent(q).owner = q.owner /\ Resent(q).me = q.me
        /\ Resent(q).observed = q.observed
    BY <1>1 DEF Resent, RequestSet, Verdicts
  <2> QED BY <1>1, <2>1, <2>2, OneCall
<1>5. CASE outcome \notin {"waits", "starts", "ok"}
  <2>1. Concludes(r, outcome)
    BY <1>5 DEF Recover
  <2> QED BY <1>1, <2>1, ConcludesSound
<1> QED BY <1>3, <1>4, <1>5

LEMMA GoOnTyped ==
  ASSUME RInv, NEW n \in Attempts, NEW answer
  PROVE  GoOn(n, answer) \in [Requests -> RequestSet]
<1>1. \A r \in Requests : GoOn(n, answer)[r] \in RequestSet
  BY GoOnCalls DEF RInv
<1>2. GoOn(n, answer) = [r \in Requests |-> GoOn(n, answer)[r]]
  BY DEF GoOn
<1> QED BY <1>1, <1>2

(***************************************************************************)
(* A heartbeat of the epoch is the one of the current attempt.  A page     *)
(* that shows nobody has only the call that waits for it, so that no other *)
(* is left behind in the attempt that ends.                                *)
(***************************************************************************)
LEMMA ReceiveBeatSound ==
  ASSUME SInv, NEW n \in Attempts, ReceiveBeat(n)
  PROVE  Sound(request', beat', page'.owner, page'.attempts)
<1> DEFINE b == beat[n]
           ended == [beat EXCEPT ![n].at = "done"]
           m == page.attempts
           owner == page.owner
           calls(answer) == GoOn(n, answer)
<1>1. /\ page \in PageSet /\ m \in Nat /\ n \in Nat /\ NoOwner \in Jars /\ b.at = "answered"
      /\ Attempts \subseteq Nat /\ RInv /\ Sound(request, beat, owner, m)
      /\ Beats(beat, m)
  BY DEF SInv, RInv, PageSet, Jars, Attempts, ReceiveBeat
<1>2. /\ Beats(ended, m + 1) /\ \A k \in Attempts \ {n} : ended[k] = beat[k]
      /\ ended[n].at = "done" /\ ended[n].fresh = b.fresh
      /\ ended[n].owner = b.owner /\ ended[n].answer = b.answer
  BY <1>1, BeatEnds
<1>3. \/ ~b.fresh /\ request' = GoOn(n, "stale") /\ beat' = ended /\ UNCHANGED page
      \/ Turns(NoOwner, m + 1, GoOn(n, b.answer), ended)
      \/ /\ b.fresh /\ b.answer \notin {"changed", "expired"}
         /\ page' = [page EXCEPT !.attempts = m + 1]
         /\ request' = GoOn(n, b.answer) /\ beat' = ended
  BY <1>1, BeatEnds
<1>4. \A r \in Requests : CallSound(request[r], owner, m) /\ Remembers(request[r], beat, m)
  BY <1>1 DEF Sound
<1>5. \A k \in Attempts : BeatSound(beat[k], k, owner, m)
  BY <1>1 DEF Sound
<1>6. owner = NoOwner => Alone(request, beat, m)
  BY <1>1 DEF Sound
<1> HIDE DEF ended, m, owner
<1>7. CASE ~b.fresh /\ request' = GoOn(n, "stale") /\ beat' = ended /\ UNCHANGED page
  <2>1. \A r \in Requests :
          \/ /\ request'[r] = request[r]
             /\ request[r].at # "waits" \/ request[r].observed # n
          \/ ~request'[r].fresh
    BY <1>1, <1>7, GoOnCalls
  <2>2. n # m
    BY <1>1, <1>7 DEF Beats
  <2>3. ASSUME NEW r \in Requests
        PROVE  CallSound(request'[r], owner, m) /\ Remembers(request'[r], ended, m)
    <3>1. CASE ~request'[r].fresh
      BY <3>1, NotFresh
    <3>2. CASE request'[r] = request[r]
      <4>1. Remembers(request[r], ended, m)
        BY <1>1, <1>2, <1>4 DEF Remembers
      <4> QED BY <3>2, <4>1, <1>4
    <3> QED BY <2>1, <3>1, <3>2
  <2>4. ASSUME NEW k \in Attempts PROVE BeatSound(ended[k], k, owner, m)
    BY <1>2, <1>5, <1>7 DEF BeatSound
  <2>5. ASSUME owner = NoOwner PROVE Alone(request', ended, m)
    <3>1. Alone(request, beat, m)
      BY <1>6, <2>5
    <3>2. \A r \in Requests : request'[r].fresh => request'[r] = request[r]
      BY <2>1
    <3>3. /\ \A p, r \in Requests : request'[p].fresh /\ request'[r].fresh => p = r
          /\ \A r \in Requests :
               request'[r].fresh /\ request'[r].at # "waits" /\ ~request'[r].retried
               => request'[r].observed = m
      BY <3>1, <3>2 DEF Alone
    <3>4. ASSUME m \in Attempts, ended[m].at # "none"
          PROVE  \E r \in Requests : /\ request'[r].fresh /\ request'[r].at = "waits"
                                     /\ request'[r].observed = m
      <4>1. PICK r \in Requests : request[r].fresh /\ request[r].at = "waits"
                                  /\ request[r].observed = m
        BY <1>2, <2>2, <3>1, <3>4 DEF Alone
      <4>2. request'[r] = request[r]
        BY <1>1, <1>7, <2>2, <4>1, GoOnCalls
      <4> QED BY <4>1, <4>2
    <3> QED BY <3>3, <3>4 DEF Alone
  <2> QED BY <1>7, <2>3, <2>4, <2>5 DEF Sound, m, owner
<1>8. CASE Turns(NoOwner, m + 1, GoOn(n, b.answer), ended)
  <2>1. /\ m + 1 \in Nat /\ Beats(ended, m + 1) /\ GoOn(n, b.answer) \in [Requests -> RequestSet]
        /\ NoOwner \in Jars /\ page \in PageSet
    BY <1>1, <1>2, GoOnTyped
  <2> QED BY <1>8, <2>1, TurnsSound
<1>9. CASE /\ b.fresh /\ b.answer \notin {"changed", "expired"}
           /\ page' = [page EXCEPT !.attempts = m + 1]
           /\ request' = GoOn(n, b.answer) /\ beat' = ended
  <2>1. page'.attempts = m + 1 /\ page'.owner = owner
    BY <1>1, <1>9 DEF PageSet, owner
  <2>2. n = m
    BY <1>1, <1>5, <1>9 DEF Beats, BeatSound
  <2>3. \A r \in Requests :
          \/ /\ request'[r] = request[r]
             /\ request[r].at # "waits" \/ request[r].observed # n
          \/ /\ request'[r].at = "sent" /\ request'[r].retried
             /\ request'[r].fresh = request[r].fresh /\ request'[r].owner = request[r].owner
             /\ request'[r].me = request[r].me
             /\ request'[r].observed = request[r].observed
          \/ ~request'[r].fresh
    BY <1>1, <1>9, GoOnCalls
  <2>4. ASSUME NEW r \in Requests
        PROVE  CallSound(request'[r], owner, m + 1) /\ Remembers(request'[r], ended, m + 1)
    <3>1. CASE ~request'[r].fresh
      BY <3>1, NotFresh
    <3>2. CASE request'[r].fresh
      <4>1. /\ request[r].fresh /\ request'[r].owner = request[r].owner
            /\ request'[r].me = request[r].me /\ request'[r].observed = request[r].observed
            /\ request'[r].at = request[r].at \/ request'[r].at = "sent"
        BY <2>3, <3>2
      <4>2. CallSound(request[r], owner, m) /\ request[r].observed \in Nat
        BY <1>1, <1>4 DEF RInv, RequestSet
      <4>3. CallSound(request'[r], owner, m + 1)
        BY <1>1, <4>1, <4>2 DEF CallSound
      <4>4. Remembers(request[r], beat, m)
        BY <1>4
      <4>5. ASSUME NEW k \in Attempts, request'[r].observed <= k, k < m + 1
            PROVE  ended[k].at = "done" /\ ended[k].fresh
        <5>1. k = n \/ k < m
          BY <1>1, <2>2, <4>5
        <5>2. CASE k = n
          BY <1>2, <1>9, <5>2
        <5>3. CASE k < m
          <6>1. beat[k].at = "done" /\ beat[k].fresh
            BY <4>1, <4>4, <4>5, <5>3 DEF Remembers
          <6>2. k # n
            BY <1>1, <6>1
          <6> QED BY <1>2, <6>1, <6>2
        <5> QED BY <5>1, <5>2, <5>3
      <4> QED BY <4>3, <4>5 DEF Remembers
    <3> QED BY <3>1, <3>2
  <2>5. ASSUME NEW k \in Attempts PROVE BeatSound(ended[k], k, owner, m + 1)
    <3>1. BeatSound(beat[k], k, owner, m)
      BY <1>5
    <3>2. CASE k = n
      BY <1>1, <1>2, <1>9, <3>1, <3>2 DEF BeatSound
    <3>3. CASE k # n
      <4>1. beat[k].fresh => k < m
        BY <1>1, <2>2, <3>1, <3>3 DEF Beats, BeatSound
      <4> QED BY <1>2, <3>1, <3>3, <4>1 DEF BeatSound
    <3> QED BY <3>2, <3>3
  <2>6. ASSUME owner = NoOwner PROVE Alone(request', ended, m + 1)
    <3>1. Alone(request, beat, m)
      BY <1>6, <2>6
    <3>2. PICK w \in Requests : request[w].fresh /\ request[w].at = "waits"
                                /\ request[w].observed = m
      BY <1>1, <2>2, <3>1 DEF Alone
    <3>3. \A r \in Requests : request'[r].fresh => r = w /\ request'[r].retried
                                                   /\ request'[r].at = "sent"
      BY <2>2, <2>3, <3>1, <3>2 DEF Alone
    <3>4. m + 1 \in Attempts => ended[m + 1].at = "none"
      BY <1>1, <1>2, <2>2 DEF Beats
    <3> QED BY <3>3, <3>4 DEF Alone
  <2> QED BY <1>9, <2>1, <2>4, <2>5, <2>6 DEF Sound, m, owner
<1> QED BY <1>3, <1>7, <1>8, <1>9

LEMMA InitSound == RecoveryInit => SInv
<1> SUFFICES ASSUME RecoveryInit PROVE SInv
  OBVIOUS
<1>1. \A r \in Requests : ~request[r].fresh
  BY DEF RecoveryInit, NoRequest
<1>2. \A n \in Attempts : ~beat[n].fresh /\ beat[n].at = "none"
  BY DEF RecoveryInit, NoBeat
<1>3. \A r \in Requests : CallSound(request[r], page.owner, page.attempts)
                          /\ Remembers(request[r], beat, page.attempts)
  BY <1>1, NotFresh
<1>4. \A n \in Attempts : BeatSound(beat[n], n, page.owner, page.attempts)
  BY <1>2 DEF BeatSound
<1>5. Alone(request, beat, page.attempts)
  BY <1>1, <1>2 DEF Alone
<1> QED BY <1>3, <1>4, <1>5, InitInv DEF Sound, SInv

LEMMA StepSound == SInv /\ [RecoveryNext]_recoveryVars => SInv'
<1> SUFFICES ASSUME SInv, [RecoveryNext]_recoveryVars PROVE SInv'
  OBVIOUS
<1> DEFINE After == Sound(request', beat', page'.owner, page'.attempts)
<1>1. RInv' /\ RInv
  BY StepInv DEF SInv
<1>2. ASSUME NEW r \in Requests, ServeRequest(r) \/ RequestFails(r) \/ Ask(r) PROVE After
  BY <1>2, ServeRequestSound, RequestFailsSound, AskSound
<1>3. ASSUME NEW r \in Requests, Receive(r) \/ Recover(r) PROVE After
  <2>1. request[r].at # "waits"
    BY <1>3 DEF Receive, Recover
  <2> QED BY <1>3, <2>1, ConcludesSound, RecoverSound DEF Receive
<1>4. ASSUME NEW n \in Attempts, ServeBeat(n) \/ BeatFails(n) \/ ReceiveBeat(n) PROVE After
  BY <1>4, ServeBeatSound, ReceiveBeatSound
<1>5. ASSUME Heartbeat PROVE After
  BY <1>5, HeartbeatSound
<1>6. ASSUME HearsOfChange PROVE After
  <2>1. /\ NoOwner \in Jars /\ page.attempts \in Nat /\ page \in PageSet
        /\ Beats(beat, page.attempts) /\ request \in [Requests -> RequestSet]
    BY <1>1 DEF Jars, RInv, PageSet
  <2> QED BY <1>6, <2>1, TurnsSound DEF HearsOfChange
<1>7. ASSUME \/ UNCHANGED recoveryVars \/ Act \/ ActivityLapses
             \/ \E s \in Owners : GoesIdle(s) \/ Ends(s) \/ OtherTabLogsIn(s)
      PROVE  After
  <2>1. UNCHANGED <<request, beat>> /\ page'.owner = page.owner
        /\ page'.attempts = page.attempts
    BY <1>1, <1>7 DEF recoveryVars, Act, ActivityLapses, GoesIdle, Ends, OtherTabLogsIn,
                      RInv, PageSet
  <2> QED BY <2>1 DEF SInv
<1> HIDE DEF After
<1>8. After
  BY <1>2, <1>3, <1>4, <1>5, <1>6, <1>7 DEF RecoveryNext, Progress
<1> QED BY <1>1, <1>8 DEF After, SInv

THEOREM Soundness == RecoverySpec => []SInv
<1> QED BY InitSound, StepSound, PTL DEF RecoverySpec

-----------------------------------------------------------------------------
LEMMA ConcludesOthers ==
  ASSUME RInv, NEW p \in Requests, NEW verdict, Concludes(p, verdict),
         NEW r \in Requests, r # p
  PROVE  request'[r].at = request[r].at
<1> DEFINE calls == [request EXCEPT ![p] = Done(request[p])]
<1>1. /\ calls \in [Requests -> RequestSet] /\ calls[r] = request[r]
  BY DoneCall DEF RInv
<1>2. request' = calls \/ request' = LeftBehind(calls)
  BY DEF Concludes, Turns
<1> HIDE DEF calls
<1>3. LeftBehind(calls)[r].at = calls[r].at
  BY <1>1 DEF LeftBehind, RequestSet
<1> QED BY <1>1, <1>2, <1>3

\* A refused call of a page that has been told the session goes on ends nothing.
LEMMA RecoverKeeps ==
  ASSUME SInv, NEW r \in Requests, Recover(r), ToldItGoesOn(r)
  PROVE  page'.owner = page.owner
<1> DEFINE q == request[r]
           outcome == Coordinated(r)
           m == page.attempts
<1>1. /\ q \in RequestSet /\ q.observed \in Nat /\ m \in Nat /\ Attempts \subseteq Nat
      /\ q.at = "answered" /\ ~q.retried /\ Beats(beat, m)
      /\ CallSound(q, page.owner, m) /\ Remembers(q, beat, m)
      /\ page.owner = NoOwner => Alone(request, beat, m)
      /\ \A n \in Attempts : BeatSound(beat[n], n, page.owner, m)
  BY DEF SInv, RInv, Sound, RequestSet, PageSet, Attempts, Recover
<1>2. PICK n \in Attempts : n >= q.observed /\ beat[n].at = "done" /\ beat[n].fresh
  BY DEF ToldItGoesOn
<1>3. n < m
  BY <1>1, <1>2 DEF Beats
<1>4. outcome \notin {"waits", "starts", "ok"} => Concludes(r, outcome)
  BY DEF Recover
<1>5. outcome \in {"waits", "starts", "ok"} => page' = page
  BY DEF Recover
<1>6. CASE ~q.fresh
  BY <1>4, <1>5, <1>6 DEF Concludes
<1>7. CASE q.fresh
  <2>1. page.owner # NoOwner
    <3> SUFFICES ASSUME page.owner = NoOwner PROVE FALSE
      OBVIOUS
    <3>1. q.observed = m
      BY <1>1, <1>7 DEF Alone
    <3> QED BY <1>1, <1>2, <1>3, <3>1
  <2>2. q.observed \in Attempts /\ q.observed < m
    BY <1>1, <1>2, <1>3 DEF Attempts
  <2>3. beat[q.observed].at = "done" /\ beat[q.observed].fresh
    BY <1>1, <1>7, <2>2 DEF Remembers
  <2>4. /\ beat[q.observed].owner = page.owner
        /\ beat[q.observed].answer \notin {"changed", "expired", "denied"}
    <3>1. beat[q.observed] \in BeatSet
      BY <1>1, <2>2 DEF Beats
    <3> QED BY <1>1, <2>1, <2>2, <2>3, <3>1 DEF BeatSound, BeatSet, Verdicts
  <2>5. Subject(q) = page.owner /\ ~q.me
    BY <1>1, <1>7, <2>1 DEF CallSound, Subject
  <2>6. outcome = beat[q.observed].answer
    <3>1. Remembered(q.observed)
      BY <2>2, <2>3 DEF ToldItGoesOn, Remembered
    <3> QED BY <1>7, <2>4, <2>5, <3>1 DEF Coordinated, Stale
  <2>7. outcome \notin {"changed", "expired", "denied"}
    BY <2>4, <2>6
  <2> HIDE DEF outcome
  <2> QED BY <1>4, <1>5, <2>5, <2>7 DEF Concludes
<1> QED BY <1>6, <1>7

LEMMA KeepsStep ==
  ASSUME SInv, [RecoveryNext]_recoveryVars, NEW r \in Requests, ToldItGoesOn(r),
         request'[r].at # "answered"
  PROVE  page'.owner = page.owner
<1>1. /\ RInv /\ request[r].at = "answered" /\ request[r].answer = "recoverable"
      /\ ~request[r].retried /\ page \in PageSet /\ request \in [Requests -> RequestSet]
  BY DEF SInv, RInv, ToldItGoesOn
<1>2. ASSUME NEW p \in Requests, Receive(p) PROVE page'.owner = page.owner
  <2>1. p = r
    BY <1>1, <1>2, ConcludesOthers DEF Receive
  <2> QED BY <1>1, <1>2, <2>1 DEF Receive
<1>3. ASSUME NEW p \in Requests, Recover(p) PROVE page'.owner = page.owner
  <2>1. CASE p = r
    BY <1>3, <2>1, RecoverKeeps
  <2>2. CASE p # r
    <3>1. ~Concludes(p, Coordinated(p))
      BY <1>1, <2>2, ConcludesOthers
    <3> QED BY <1>3, <3>1 DEF Recover
  <2> QED BY <2>1, <2>2
<1>4. ASSUME NEW n \in Attempts, ReceiveBeat(n) PROVE FALSE
  <2>1. PICK answer : request' = GoOn(n, answer) \/ request' = LeftBehind(GoOn(n, answer))
    BY <1>4 DEF ReceiveBeat, Turns
  <2>2. GoOn(n, answer) \in [Requests -> RequestSet] /\ GoOn(n, answer)[r] = request[r]
    BY <1>1, GoOnTyped, GoOnCalls
  <2>3. request'[r].at = request[r].at
    BY <2>1, <2>2 DEF LeftBehind, RequestSet
  <2> QED BY <1>1, <2>3
<1>5. CASE HearsOfChange
  <2>1. request' = [i \in Requests |-> [request[i] EXCEPT !.fresh = FALSE]]
    BY <1>1, <1>5 DEF HearsOfChange, Turns, LeftBehind
  <2>2. request[r] \in RequestSet
    BY <1>1
  <2>3. request'[r].at = request[r].at
    BY <2>1, <2>2 DEF RequestSet
  <2> QED BY <1>1, <2>3
<1>6. CASE \/ UNCHANGED recoveryVars \/ Act \/ ActivityLapses \/ Heartbeat
           \/ \E s \in Owners : GoesIdle(s) \/ Ends(s) \/ OtherTabLogsIn(s)
           \/ \E p \in Requests : ServeRequest(p) \/ RequestFails(p) \/ Ask(p)
           \/ \E n \in Attempts : ServeBeat(n) \/ BeatFails(n)
  BY <1>1, <1>6 DEF recoveryVars, Act, ActivityLapses, Heartbeat, GoesIdle, Ends,
                    OtherTabLogsIn, ServeRequest, RequestFails, Ask, ServeBeat, BeatFails, PageSet
<1> QED BY <1>2, <1>3, <1>4, <1>5, <1>6 DEF RecoveryNext, Progress

(***************************************************************************)
(* A page that has been told its session goes on does not give it up for a *)
(* refusal that was made before and arrives late, however many calls it    *)
(* has made since, while it remembers the heartbeats it has made since     *)
(* (authRecovery.ts, coordinateHeartbeat and remember).                    *)
(***************************************************************************)
THEOREM KeptOnceTold == RecoverySpec => KeepsWhatItWasTold
<1> DEFINE Keeps == \A r \in Requests :
             ToldItGoesOn(r) /\ request'[r].at # "answered" => page'.owner = page.owner
<1>1. SInv /\ [RecoveryNext]_recoveryVars => [Keeps]_recoveryVars
  BY KeepsStep
<1> QED BY <1>1, Soundness, PTL DEF RecoverySpec, KeepsWhatItWasTold

-----------------------------------------------------------------------------
(***************************************************************************)
(* How many attempts a page makes.  A call that is not over may still end  *)
(* one, and one that has not asked for a heartbeat may start another; the  *)
(* heartbeat under way ends its own attempt and, where it ends the session *)
(* too, the next.  A call that waits for it ends with it then.             *)
(***************************************************************************)
Unspent == {r \in Requests : request[r].at # "done"}
Unasked == {r \in Requests : request[r].at \notin {"waits", "done"} /\ ~request[r].retried}
Awaits(r) == request[r].at = "waits" /\ request[r].observed = page.attempts
BeatOwes ==
  IF page.attempts \notin Attempts \/ ~Running THEN 0
  ELSE IF \E r \in Requests : Awaits(r) THEN 1 ELSE 2
WithinBudget ==
  page.attempts + Cardinality(Unspent) + Cardinality(Unasked) + BeatOwes
    <= 2 * MaxRequests + 2 * shifts

\* The rest of the types: what was recorded is not ahead of what has happened.
Recorded ==
  /\ phase \in [Owners -> {"none", "valid", "idle", "gone"}]
  /\ page.lapsed <= page.acts /\ page.acts <= MaxActs
  /\ shifts \in 0 .. MaxShifts
  /\ \A r \in Requests : request[r].permit <= MaxActs /\ request[r].observed <= page.attempts

BInv == SInv /\ WithinBudget /\ Recorded

LEMMA CallsAreFinite ==
  /\ IsFiniteSet(Requests) /\ Cardinality(Requests) = MaxRequests
  /\ IsFiniteSet(Unspent) /\ Cardinality(Unspent) \in Nat
  /\ IsFiniteSet(Unasked) /\ Cardinality(Unasked) \in Nat
  /\ Cardinality(Unspent) <= MaxRequests /\ Cardinality(Unasked) <= MaxRequests
<1>1. IsFiniteSet(Requests) /\ Cardinality(Requests) = MaxRequests
  BY FS_Interval DEF Requests
<1>2. Unspent \in SUBSET Requests /\ Unasked \in SUBSET Requests
  BY DEF Unspent, Unasked
<1> QED BY <1>1, <1>2, FS_Subset, FS_CardinalityType

\* A set of calls that only loses members, and has lost one.
LEMMA Fewer ==
  ASSUME NEW S, IsFiniteSet(S), NEW T \in SUBSET S
  PROVE  /\ Cardinality(S) \in Nat /\ Cardinality(T) \in Nat
         /\ Cardinality(T) <= Cardinality(S)
         /\ \A x \in S \ T : Cardinality(T) + 1 <= Cardinality(S)
<1>1. /\ Cardinality(S) \in Nat /\ IsFiniteSet(T) /\ Cardinality(T) \in Nat
      /\ Cardinality(T) <= Cardinality(S)
  BY FS_Subset, FS_CardinalityType
<1>2. ASSUME NEW x \in S \ T PROVE Cardinality(T) + 1 <= Cardinality(S)
  <2>1. IsFiniteSet(S \ {x}) /\ Cardinality(S \ {x}) = Cardinality(S) - 1
    BY <1>2, FS_RemoveElement
  <2>2. T \in SUBSET (S \ {x})
    BY <1>2
  <2>3. Cardinality(T) <= Cardinality(S \ {x})
    BY <2>1, <2>2, FS_Subset
  <2> QED BY <1>1, <2>1, <2>3
<1> QED BY <1>1, <1>2

LEMMA BeatOwesAtMost == BeatOwes \in {0, 1, 2}
BY DEF BeatOwes

\* What each call may still do after a step, by what has become of it.
Spends(r) ==
  \/ request'[r].at = "done"
  \/ /\ request[r].at # "done"
     /\ \/ request'[r].at = "waits" \/ request'[r].retried
        \/ request[r].at # "waits" /\ ~request[r].retried

LEMMA SpendsOnly ==
  ASSUME \A r \in Requests : Spends(r)
  PROVE  Unspent' \in SUBSET Unspent /\ Unasked' \in SUBSET Unasked
BY DEF Spends, Unspent, Unasked

\* The budget holds where as much is given up as the page has moved on.
LEMMA BudgetKept ==
  ASSUME WithinBudget, page.attempts \in Nat, page'.attempts \in Nat,
         shifts \in Nat, shifts' \in Nat, NEW given \in Nat,
         Unspent' \in SUBSET Unspent, Unasked' \in SUBSET Unasked,
         \/ given = 0
         \/ given = 1 /\ (Unspent \ Unspent' # {} \/ Unasked \ Unasked' # {}),
         page'.attempts + BeatOwes' <= page.attempts + BeatOwes + given + 2 * (shifts' - shifts)
  PROVE  WithinBudget'
<1>1. /\ Cardinality(Unspent) \in Nat /\ Cardinality(Unspent') \in Nat
      /\ Cardinality(Unspent') <= Cardinality(Unspent)
      /\ Unspent \ Unspent' # {} => Cardinality(Unspent') + 1 <= Cardinality(Unspent)
  BY CallsAreFinite, Fewer
<1>2. /\ Cardinality(Unasked) \in Nat /\ Cardinality(Unasked') \in Nat
      /\ Cardinality(Unasked') <= Cardinality(Unasked)
      /\ Unasked \ Unasked' # {} => Cardinality(Unasked') + 1 <= Cardinality(Unasked)
  BY CallsAreFinite, Fewer
<1>3. BeatOwes \in {0, 1, 2} /\ BeatOwes' \in {0, 1, 2}
  BY BeatOwesAtMost DEF BeatOwes
<1> DEFINE u == Cardinality(Unspent)
           u2 == Cardinality(Unspent')
           a == Cardinality(Unasked)
           a2 == Cardinality(Unasked')
<1>4. page.attempts + u + a + BeatOwes <= 2 * MaxRequests + 2 * shifts
  BY DEF WithinBudget
<1>5. u2 + a2 + given <= u + a
  <2> HIDE DEF u, u2, a, a2
  <2>1. u \in Nat /\ u2 \in Nat /\ a \in Nat /\ a2 \in Nat /\ u2 <= u /\ a2 <= a
    BY <1>1, <1>2 DEF u, u2, a, a2
  <2>2. given = 0 \/ (given = 1 /\ (u2 + 1 <= u \/ a2 + 1 <= a))
    BY <1>1, <1>2 DEF u, u2, a, a2
  <2> QED BY <2>1, <2>2
<1>6. u \in Nat /\ u2 \in Nat /\ a \in Nat /\ a2 \in Nat
  BY <1>1, <1>2
<1> HIDE DEF u, u2, a, a2
<1>7. page'.attempts + u2 + a2 + BeatOwes' <= 2 * MaxRequests + 2 * shifts'
  BY <1>3, <1>4, <1>5, <1>6
<1> QED BY <1>7 DEF WithinBudget, u2, a2

\* A new epoch has no heartbeat yet, and every call is where it was.
LEMMA TurnsBudget ==
  ASSUME NEW owner \in Jars, NEW m \in Nat, NEW calls \in [Requests -> RequestSet], NEW b,
         Beats(b, m), page \in PageSet, Turns(owner, m, calls, b)
  PROVE  /\ page'.attempts = m + 1 /\ page'.acts = page.acts /\ page'.lapsed = page.lapsed
         /\ BeatOwes' = 0
         /\ \A r \in Requests : /\ request'[r].at = calls[r].at
                                /\ request'[r].retried = calls[r].retried
                                /\ request'[r].permit = calls[r].permit
                                /\ request'[r].observed = calls[r].observed
<1>1. page'.attempts = m + 1 /\ page'.acts = page.acts /\ page'.lapsed = page.lapsed
  BY DEF Turns, Turned, PageSet
<1>2. ASSUME page'.attempts \in Attempts PROVE ~Running'
  <2>1. Beats(beat', m + 1) /\ \A n \in Attempts : ~beat'[n].fresh
    BY LeftBehindBeats DEF Turns
  <2> QED BY <1>1, <1>2, <2>1 DEF Beats, Running
<1>3. \A r \in Requests : /\ request'[r].at = calls[r].at
                          /\ request'[r].retried = calls[r].retried
                          /\ request'[r].permit = calls[r].permit
                          /\ request'[r].observed = calls[r].observed
  BY DEF Turns, LeftBehind, RequestSet
<1> QED BY <1>1, <1>2, <1>3 DEF BeatOwes

LEMMA BudgetNumbers ==
  ASSUME BInv
  PROVE  /\ page.attempts \in Nat /\ shifts \in Nat /\ BeatOwes \in Nat
         /\ page.attempts \in Attempts /\ page \in PageSet
         /\ request \in [Requests -> RequestSet] /\ Beats(beat, page.attempts)
<1>1. /\ page.attempts \in Nat /\ shifts \in Nat /\ page \in PageSet /\ shifts <= MaxShifts
      /\ MaxShifts \in Nat /\ MaxRequests \in Nat
      /\ request \in [Requests -> RequestSet] /\ Beats(beat, page.attempts)
  BY DEF BInv, SInv, RInv, PageSet, Recorded
<1>2. Cardinality(Unspent) \in Nat /\ Cardinality(Unasked) \in Nat /\ BeatOwes \in Nat
  BY CallsAreFinite, BeatOwesAtMost
<1>3. page.attempts <= 2 * MaxRequests + 2 * shifts
  BY <1>1, <1>2 DEF BInv, WithinBudget
<1>4. page.attempts <= 2 * (MaxRequests + MaxShifts)
  BY <1>1, <1>3
<1> QED BY <1>1, <1>2, <1>4 DEF Attempts

\* One call goes on, and spends what it does; it is none that waits.
LEMMA CallBudget ==
  ASSUME BInv, NEW r \in Requests, NEW q, request' = [request EXCEPT ![r] = q],
         UNCHANGED <<page, beat, shifts>>, request[r].at # "waits",
         \/ q.at = "done"
         \/ request[r].at # "done" /\ (q.at = "waits" \/ q.retried \/ ~request[r].retried)
  PROVE  WithinBudget'
<1>1. /\ request'[r] = q /\ \A p \in Requests \ {r} : request'[p] = request[p]
      /\ page.attempts \in Nat /\ shifts \in Nat
  BY BudgetNumbers
<1>2. \A p \in Requests : Spends(p)
  BY <1>1 DEF Spends
<1>3. BeatOwes' <= BeatOwes
  <2>1. \A p \in Requests : Awaits(p) => Awaits(p)'
    BY <1>1 DEF Awaits
  <2> QED BY <2>1 DEF BeatOwes, Running
<1>4. /\ BeatOwes \in Nat /\ BeatOwes' \in Nat
  BY BeatOwesAtMost DEF BeatOwes
<1>5. page'.attempts + BeatOwes' <= page.attempts + BeatOwes + 0 + 2 * (shifts' - shifts)
  BY <1>1, <1>3, <1>4
<1> QED BY <1>1, <1>2, <1>5, SpendsOnly, BudgetKept DEF BInv

\* A call that does not wait ends, and at most one attempt with it.
LEMMA ConcludesBudget ==
  ASSUME BInv, NEW r \in Requests, NEW verdict, Concludes(r, verdict), UNCHANGED shifts,
         request[r].at = "answered"
  PROVE  WithinBudget'
<1> DEFINE calls == [request EXCEPT ![r] = Done(request[r])]
<1>1. /\ page \in PageSet /\ page.attempts \in Nat /\ Beats(beat, page.attempts)
      /\ NoOwner \in Jars /\ request[r].sid \in Jars /\ shifts \in Nat /\ BeatOwes \in Nat
  BY BudgetNumbers DEF Jars, RequestSet
<1>2. /\ calls \in [Requests -> RequestSet] /\ calls[r].at = "done"
      /\ \A p \in Requests \ {r} : calls[p] = request[p]
  BY BudgetNumbers, DoneCall
<1>3. CASE request' = calls /\ UNCHANGED <<page, beat>>
  BY <1>2, <1>3, CallBudget
<1>4. ASSUME NEW owner \in Jars, Turns(owner, page.attempts, calls, beat) PROVE WithinBudget'
  <2> HIDE DEF calls
  <2>1. /\ page'.attempts = page.attempts + 1 /\ BeatOwes' = 0
        /\ \A p \in Requests : /\ request'[p].at = calls[p].at
                               /\ request'[p].retried = calls[p].retried
    BY <1>1, <1>2, <1>4, TurnsBudget
  <2>2. \A p \in Requests : Spends(p)
    BY <1>2, <2>1 DEF Spends
  <2>3. Unspent \ Unspent' # {}
    BY <1>2, <2>1 DEF Unspent
  <2>4. page'.attempts + BeatOwes' <= page.attempts + BeatOwes + 1 + 2 * (shifts' - shifts)
    BY <1>1, <2>1
  <2> QED BY <1>1, <2>1, <2>2, <2>3, <2>4, SpendsOnly, BudgetKept DEF BInv
<1> QED BY <1>1, <1>3, <1>4 DEF Concludes

LEMMA RecoverBudget ==
  ASSUME BInv, NEW r \in Requests, Recover(r)
  PROVE  WithinBudget'
<1> DEFINE q == request[r]
           outcome == Coordinated(r)
           w == [q EXCEPT !.at = "waits", !.observed = page.attempts]
<1>1. /\ q \in RequestSet /\ q.at = "answered" /\ ~q.retried /\ UNCHANGED shifts /\ jar \in Jars
      /\ request \in [Requests -> RequestSet] /\ page.attempts \in Nat /\ shifts \in Nat
      /\ BeatOwes \in Nat
  BY BudgetNumbers DEF Recover, BInv, SInv, RInv
<1>2. w.at = "waits" /\ w.observed = page.attempts
  BY <1>1 DEF RequestSet
<1>3. CASE outcome = "waits"
  <2>1. request' = [request EXCEPT ![r] = w] /\ UNCHANGED <<page, beat>>
    BY <1>3 DEF Recover
  <2> HIDE DEF w
  <2> QED BY <1>1, <1>2, <2>1, CallBudget
<1>4. CASE outcome = "starts"
  <2>1. request' = [request EXCEPT ![r] = w] /\ UNCHANGED page
    BY <1>4 DEF Recover
  <2> HIDE DEF w
  <2>2. request'[r] = w /\ \A p \in Requests \ {r} : request'[p] = request[p]
    BY <1>1, <2>1
  <2>3. Awaits(r)'
    BY <1>2, <2>1, <2>2 DEF Awaits
  <2>4. BeatOwes' \in {0, 1}
    BY <2>3 DEF BeatOwes
  <2>5. \A p \in Requests : Spends(p)
    BY <1>1, <1>2, <2>2 DEF Spends
  <2>6. Unasked \ Unasked' # {}
    BY <1>1, <1>2, <2>2 DEF Unasked
  <2>7. page'.attempts + BeatOwes' <= page.attempts + BeatOwes + 1 + 2 * (shifts' - shifts)
    BY <1>1, <2>1, <2>4
  <2> QED BY <1>1, <2>1, <2>5, <2>6, <2>7, SpendsOnly, BudgetKept DEF BInv
<1>5. CASE outcome = "ok"
  <2>1. request' = [request EXCEPT ![r] = Resent(q)] /\ UNCHANGED <<page, beat>>
    BY <1>5 DEF Recover
  <2> QED BY <1>1, <2>1, ResentCall, CallBudget
<1>6. CASE outcome \notin {"waits", "starts", "ok"}
  <2>1. Concludes(r, outcome)
    BY <1>6 DEF Recover
  <2> QED BY <1>1, <2>1, ConcludesBudget
<1> QED BY <1>3, <1>4, <1>5, <1>6

(***************************************************************************)
(* A heartbeat of the epoch ends its attempt; where it ends the session as *)
(* well, a call that waited for it has nothing left to do.                 *)
(***************************************************************************)
LEMMA ReceiveBeatBudget ==
  ASSUME BInv, NEW n \in Attempts, ReceiveBeat(n)
  PROVE  WithinBudget'
<1> DEFINE b == beat[n]
           ended == [beat EXCEPT ![n].at = "done"]
           m == page.attempts
<1>1. /\ page \in PageSet /\ m \in Nat /\ m \in Attempts /\ shifts \in Nat /\ NoOwner \in Jars
      /\ n \in Nat /\ Beats(beat, m) /\ RInv /\ UNCHANGED shifts /\ b.at = "answered"
      /\ BeatOwes \in Nat /\ BeatSound(b, n, page.owner, m)
  BY BudgetNumbers DEF BInv, SInv, Sound, Attempts, Jars, ReceiveBeat
<1>2. /\ Beats(ended, m + 1) /\ \A k \in Attempts \ {n} : ended[k] = beat[k]
      /\ \/ ~b.fresh /\ request' = GoOn(n, "stale") /\ beat' = ended /\ UNCHANGED page
         \/ /\ b.fresh /\ b.answer \in {"changed", "expired"}
            /\ Turns(NoOwner, m + 1, GoOn(n, b.answer), ended)
         \/ /\ b.fresh /\ page' = [page EXCEPT !.attempts = m + 1]
            /\ request' = GoOn(n, b.answer) /\ beat' = ended
  BY <1>1, BeatEnds
<1>3. b.fresh => n = m
  BY <1>1 DEF Beats, BeatSound
<1>4. b.fresh => BeatOwes = IF \E r \in Requests : Awaits(r) THEN 1 ELSE 2
  BY <1>1, <1>3 DEF BeatOwes, Running
<1> HIDE DEF ended, m
<1>5. CASE ~b.fresh /\ request' = GoOn(n, "stale") /\ beat' = ended /\ UNCHANGED page
  <2>1. n # m
    BY <1>1, <1>5 DEF Beats
  <2>2. \A r \in Requests : Spends(r)
    BY <1>1, <1>5, GoOnCalls DEF Spends
  <2>3. \A r \in Requests : Awaits(r) => Awaits(r)'
    BY <1>1, <1>5, <2>1, GoOnCalls DEF Awaits, m
  <2>4. Running' <=> Running
    BY <1>1, <1>2, <1>5, <2>1 DEF Running, m
  <2>5. BeatOwes' <= BeatOwes
    BY <1>5, <2>3, <2>4 DEF BeatOwes
  <2>6. BeatOwes' \in Nat
    BY DEF BeatOwes
  <2>7. page'.attempts + BeatOwes' <= page.attempts + BeatOwes + 0 + 2 * (shifts' - shifts)
    BY <1>1, <1>5, <2>5, <2>6 DEF m
  <2> QED BY <1>1, <1>5, <2>2, <2>7, SpendsOnly, BudgetKept DEF BInv, m
<1>6. CASE /\ b.fresh /\ b.answer \in {"changed", "expired"}
           /\ Turns(NoOwner, m + 1, GoOn(n, b.answer), ended)
  <2>1. /\ m + 1 \in Nat /\ Beats(ended, m + 1) /\ GoOn(n, b.answer) \in [Requests -> RequestSet]
    BY <1>1, <1>2, GoOnTyped
  <2>2. /\ page'.attempts = m + 2 /\ BeatOwes' = 0
        /\ \A r \in Requests : /\ request'[r].at = GoOn(n, b.answer)[r].at
                               /\ request'[r].retried = GoOn(n, b.answer)[r].retried
    BY <1>1, <1>6, <2>1, TurnsBudget
  <2>3. \A r \in Requests :
          \/ GoOn(n, b.answer)[r] = request[r] /\ ~(request[r].at = "waits" /\ request[r].observed = n)
          \/ request[r].at = "waits" /\ GoOn(n, b.answer)[r].at = "done"
    BY <1>1, <1>6, GoOnCalls
  <2>4. \A r \in Requests : Spends(r)
    BY <2>2, <2>3 DEF Spends
  <2>5. Unspent' \in SUBSET Unspent /\ Unasked' \in SUBSET Unasked
    BY <2>4, SpendsOnly
  <2>6. CASE \E r \in Requests : Awaits(r)
    <3>1. PICK r \in Requests : Awaits(r)
      BY <2>6
    <3>2. request[r].at = "waits" /\ request'[r].at = "done"
      BY <1>3, <1>6, <2>2, <2>3, <3>1 DEF Awaits, m
    <3>3. Unspent \ Unspent' # {}
      BY <3>2 DEF Unspent
    <3>4. page'.attempts + BeatOwes' <= page.attempts + BeatOwes + 1 + 2 * (shifts' - shifts)
      BY <1>1, <1>4, <1>6, <2>2, <2>6 DEF m
    <3> QED BY <1>1, <2>2, <2>5, <3>3, <3>4, BudgetKept DEF BInv, m
  <2>7. CASE ~ \E r \in Requests : Awaits(r)
    <3>1. page'.attempts + BeatOwes' <= page.attempts + BeatOwes + 0 + 2 * (shifts' - shifts)
      BY <1>1, <1>4, <1>6, <2>2, <2>7 DEF m
    <3> QED BY <1>1, <2>2, <2>5, <3>1, BudgetKept DEF BInv, m
  <2> QED BY <2>6, <2>7
<1>7. CASE /\ b.fresh /\ page' = [page EXCEPT !.attempts = m + 1]
           /\ request' = GoOn(n, b.answer) /\ beat' = ended
  <2>1. page'.attempts = m + 1
    BY <1>1, <1>7 DEF PageSet
  <2>2. BeatOwes' = 0
    <3>1. m + 1 \in Attempts => ended[m + 1].at \in {"none", "done"}
      BY <1>1, <1>2, <1>3, <1>7 DEF Beats
    <3> QED BY <1>7, <2>1, <3>1 DEF BeatOwes, Running
  <2>3. \A r \in Requests : Spends(r)
    BY <1>1, <1>7, GoOnCalls DEF Spends
  <2>4. page'.attempts + BeatOwes' <= page.attempts + BeatOwes + 0 + 2 * (shifts' - shifts)
    BY <1>1, <1>4, <1>7, <2>1, <2>2 DEF m
  <2> QED BY <1>1, <2>1, <2>3, <2>4, SpendsOnly, BudgetKept DEF BInv, m
<1> QED BY <1>2, <1>5, <1>6, <1>7

\* A heartbeat of the page's own, and a message of another tab, are shifts.
LEMMA ShiftBudget ==
  ASSUME BInv, Heartbeat \/ HearsOfChange
  PROVE  WithinBudget'
<1>1. /\ page \in PageSet /\ page.attempts \in Nat /\ Beats(beat, page.attempts) /\ shifts \in Nat
      /\ shifts' = shifts + 1 /\ BeatOwes \in Nat /\ request \in [Requests -> RequestSet]
      /\ NoOwner \in Jars
  BY BudgetNumbers DEF Heartbeat, HearsOfChange, Shift, Jars
<1>2. CASE Heartbeat
  <2>1. UNCHANGED <<page, request>>
    BY <1>2 DEF Heartbeat
  <2>2. Unspent' \in SUBSET Unspent /\ Unasked' \in SUBSET Unasked
    BY <2>1 DEF Unspent, Unasked
  <2>3. BeatOwes' \in {0, 1, 2}
    BY DEF BeatOwes
  <2>4. page'.attempts + BeatOwes' <= page.attempts + BeatOwes + 0 + 2 * (shifts' - shifts)
    BY <1>1, <2>1, <2>3
  <2> QED BY <1>1, <2>1, <2>2, <2>4, BudgetKept DEF BInv
<1>3. CASE HearsOfChange
  <2>1. /\ page'.attempts = page.attempts + 1 /\ BeatOwes' = 0
        /\ \A r \in Requests : /\ request'[r].at = request[r].at
                               /\ request'[r].retried = request[r].retried
    BY <1>1, <1>3, TurnsBudget DEF HearsOfChange
  <2>2. Unspent' \in SUBSET Unspent /\ Unasked' \in SUBSET Unasked
    BY <2>1 DEF Unspent, Unasked
  <2>3. page'.attempts + BeatOwes' <= page.attempts + BeatOwes + 0 + 2 * (shifts' - shifts)
    BY <1>1, <2>1
  <2> QED BY <1>1, <2>1, <2>2, <2>3, BudgetKept DEF BInv
<1> QED BY <1>2, <1>3

LEMMA DoneRecorded ==
  ASSUME NEW q \in RequestSet
  PROVE  Done(q).permit = 0 /\ Done(q).observed = 0
<1>1. CASE q.open
  BY <1>1 DEF Done, RequestSet
<1>2. CASE ~q.open
  BY <1>2 DEF Done, RequestSet, NoRequest
<1> QED BY <1>1, <1>2

LEMMA GoOnRecorded ==
  ASSUME RInv, NEW n \in Attempts, NEW answer, NEW r \in Requests
  PROVE  LET q == request[r]
             c == GoOn(n, answer)[r] IN
         c.permit \in {q.permit, 0} /\ c.observed \in {q.observed, 0}
<1> DEFINE q == request[r]
           c == GoOn(n, answer)[r]
<1>1. q \in RequestSet
  BY DEF RInv
<1>2. c \in {q, Resent(q), Done(q)}
  BY DEF GoOn
<1>3. Resent(q).permit = q.permit /\ Resent(q).observed = q.observed
  BY <1>1 DEF Resent, RequestSet
<1> HIDE DEF c, q
<1> QED BY <1>1, <1>2, <1>3, DoneRecorded DEF c, q

\* A call that records what it did, or forgets it, of the page as it is.
LEMMA CallRecorded ==
  ASSUME BInv, NEW r \in Requests, NEW q, request' = [request EXCEPT ![r] = q],
         UNCHANGED <<phase, page, shifts>>,
         q.permit \in {request[r].permit, page.acts, 0},
         q.observed \in {request[r].observed, page.attempts, 0}
  PROVE  Recorded'
<1>1. page.attempts \in Nat /\ page \in PageSet /\ MaxActs \in Nat
  BY BudgetNumbers
<1> QED BY <1>1, BudgetNumbers DEF BInv, Recorded, PageSet

\* The page has moved on, and no call records more than it did.
LEMMA AllRecorded ==
  ASSUME BInv, UNCHANGED phase, page'.acts = page.acts, page'.lapsed = page.lapsed,
         shifts' \in 0 .. MaxShifts, page'.attempts \in Nat, page'.attempts >= page.attempts,
         \A r \in Requests : /\ request'[r].permit \in {request[r].permit, 0}
                             /\ request'[r].observed \in {request[r].observed, 0}
  PROVE  Recorded'
<1>1. page.attempts \in Nat /\ page \in PageSet /\ MaxActs \in Nat
  BY BudgetNumbers
<1>2. ASSUME NEW r \in Requests
      PROVE  request'[r].permit <= MaxActs /\ request'[r].observed <= page'.attempts
  <2>1. /\ request[r].permit \in Nat /\ request[r].observed \in Nat
        /\ request[r].permit <= MaxActs /\ request[r].observed <= page.attempts
    BY BudgetNumbers DEF BInv, Recorded, RequestSet
  <2> QED BY <1>1, <2>1
<1> QED BY <1>2 DEF BInv, Recorded

LEMMA ConcludesRecorded ==
  ASSUME BInv, NEW r \in Requests, NEW verdict, Concludes(r, verdict),
         UNCHANGED <<phase, shifts>>
  PROVE  Recorded'
<1> DEFINE calls == [request EXCEPT ![r] = Done(request[r])]
<1>1. /\ page \in PageSet /\ page.attempts \in Nat /\ Beats(beat, page.attempts)
      /\ NoOwner \in Jars /\ request[r].sid \in Jars /\ shifts' \in 0 .. MaxShifts
  BY BudgetNumbers DEF Jars, RequestSet, BInv, Recorded
<1>2. /\ calls \in [Requests -> RequestSet]
      /\ \A p \in Requests : /\ calls[p].permit \in {request[p].permit, 0}
                             /\ calls[p].observed \in {request[p].observed, 0}
  BY BudgetNumbers, DoneCall, DoneRecorded
<1> HIDE DEF calls
<1>3. CASE request' = calls /\ UNCHANGED <<page, beat>>
  BY <1>1, <1>2, <1>3, AllRecorded
<1>4. ASSUME NEW owner \in Jars, Turns(owner, page.attempts, calls, beat) PROVE Recorded'
  <2>1. /\ page'.attempts = page.attempts + 1 /\ page'.acts = page.acts
        /\ page'.lapsed = page.lapsed
        /\ \A p \in Requests : /\ request'[p].permit = calls[p].permit
                               /\ request'[p].observed = calls[p].observed
    BY <1>1, <1>2, <1>4, TurnsBudget
  <2> QED BY <1>1, <1>2, <2>1, AllRecorded
<1> QED BY <1>1, <1>3, <1>4 DEF Concludes, calls

LEMMA CallsRecorded ==
  ASSUME BInv, NEW r \in Requests,
         Ask(r) \/ ServeRequest(r) \/ RequestFails(r) \/ Receive(r) \/ Recover(r)
  PROVE  Recorded'
<1> DEFINE q == request[r]
<1>1. /\ q \in RequestSet /\ page \in PageSet /\ shifts \in 0 .. MaxShifts
  BY BudgetNumbers DEF BInv, Recorded
<1>2. CASE Ask(r)
  <2> DEFINE c == [q EXCEPT !.at = "sent", !.me = (page.owner = NoOwner), !.owner = page.owner,
                     !.sid = jar, !.fresh = TRUE, !.permit = page.acts,
                     !.observed = page.attempts, !.open = TRUE]
  <2>1. request' = [request EXCEPT ![r] = c] /\ UNCHANGED <<phase, page, shifts>>
    BY <1>2 DEF Ask
  <2>2. c.permit = page.acts /\ c.observed = page.attempts
    BY <1>1 DEF RequestSet
  <2> HIDE DEF c
  <2> QED BY <2>1, <2>2, CallRecorded
<1>3. CASE ServeRequest(r)
  <2> DEFINE seen == [Answered(q, SessionSays(q.sid, q.owner)) EXCEPT
                        !.runs = IF SessionSays(q.sid, q.owner) = "ok" THEN @ + 1 ELSE @]
  <2>1. request' = [request EXCEPT ![r] = IF q.at = "done" THEN Done(seen) ELSE seen]
        /\ UNCHANGED <<phase, page, shifts>>
    BY <1>3 DEF ServeRequest
  <2>2. seen.permit = q.permit /\ seen.observed = q.observed /\ ~seen.open
    BY <1>1 DEF Answered, RequestSet
  <2> HIDE DEF seen
  <2>3. Done(seen).permit = 0 /\ Done(seen).observed = 0
    BY <2>2 DEF Done, NoRequest
  <2> QED BY <2>1, <2>2, <2>3, CallRecorded
<1>4. CASE RequestFails(r)
  <2>1. Fails(q).permit = q.permit /\ Fails(q).observed = q.observed
    BY <1>1 DEF Fails, RequestSet
  <2> QED BY <1>4, <2>1, CallRecorded DEF RequestFails
<1>5. CASE Receive(r)
  BY <1>5, ConcludesRecorded DEF Receive
<1>6. CASE Recover(r)
  <2> DEFINE outcome == Coordinated(r)
             w == [q EXCEPT !.at = "waits", !.observed = page.attempts]
  <2>1. UNCHANGED <<phase, shifts>>
    BY <1>6 DEF Recover
  <2>2. w.permit = q.permit /\ w.observed = page.attempts
    BY <1>1 DEF RequestSet
  <2>3. Resent(q).permit = q.permit /\ Resent(q).observed = q.observed
    BY <1>1 DEF Resent, RequestSet
  <2>4. \/ request' = [request EXCEPT ![r] = w] /\ UNCHANGED page
        \/ request' = [request EXCEPT ![r] = Resent(q)] /\ UNCHANGED page
        \/ Concludes(r, outcome)
    BY <1>6 DEF Recover
  <2> HIDE DEF w
  <2> QED BY <2>1, <2>2, <2>3, <2>4, CallRecorded, ConcludesRecorded
<1> QED BY <1>2, <1>3, <1>4, <1>5, <1>6

LEMMA BeatsRecorded ==
  ASSUME BInv, NEW n \in Attempts, ServeBeat(n) \/ BeatFails(n) \/ ReceiveBeat(n)
  PROVE  Recorded'
<1>1. /\ page \in PageSet /\ page.attempts \in Nat /\ shifts \in 0 .. MaxShifts
      /\ beat[n] \in BeatSet /\ phase \in [Owners -> {"none", "valid", "idle", "gone"}] /\ RInv
  BY BudgetNumbers DEF BInv, SInv, Recorded, Beats
<1>2. CASE ServeBeat(n)
  <2>1. /\ phase' = phase \/ phase' = [phase EXCEPT ![beat[n].sid] = "valid"]
        /\ UNCHANGED <<page, request, shifts>>
    BY <1>2 DEF ServeBeat
  <2> QED BY <1>1, <2>1 DEF BInv, Recorded
<1>3. CASE BeatFails(n)
  BY <1>3 DEF BeatFails, BInv, Recorded
<1>4. CASE ReceiveBeat(n)
  <2> DEFINE ended == [beat EXCEPT ![n].at = "done"]
             m == page.attempts
  <2>1. UNCHANGED <<phase, shifts>>
    BY <1>4 DEF ReceiveBeat
  <2>2. ASSUME NEW answer, request' = GoOn(n, answer), page'.attempts \in {m, m + 1},
               page'.acts = page.acts, page'.lapsed = page.lapsed
        PROVE  Recorded'
    BY <1>1, <2>1, <2>2, GoOnRecorded, AllRecorded
  <2>3. ASSUME NEW answer, Turns(NoOwner, m + 1, GoOn(n, answer), ended), Beats(ended, m + 1)
        PROVE  Recorded'
    <3> HIDE DEF ended
    <3>1. /\ page'.attempts = m + 2 /\ page'.acts = page.acts /\ page'.lapsed = page.lapsed
          /\ \A r \in Requests : /\ request'[r].permit = GoOn(n, answer)[r].permit
                                 /\ request'[r].observed = GoOn(n, answer)[r].observed
      <4>1. NoOwner \in Jars /\ m + 1 \in Nat /\ GoOn(n, answer) \in [Requests -> RequestSet]
        BY <1>1, GoOnTyped DEF Jars
      <4> QED BY <1>1, <2>3, <4>1, TurnsBudget
    <3> QED BY <1>1, <2>1, <3>1, GoOnRecorded, AllRecorded
  <2>4. \/ request' = GoOn(n, "stale") /\ UNCHANGED page
        \/ Turns(NoOwner, m + 1, GoOn(n, beat[n].answer), ended)
        \/ page' = [page EXCEPT !.attempts = m + 1] /\ request' = GoOn(n, beat[n].answer)
    BY <1>1, <1>4, BeatEnds
  <2>5. Beats(ended, m + 1)
    BY <1>1, <1>4, BeatEnds
  <2> HIDE DEF ended
  <2> QED BY <1>1, <2>2, <2>3, <2>4, <2>5 DEF PageSet
<1> QED BY <1>2, <1>3, <1>4

\* What the server, the user and the other tabs do.
LEMMA OthersRecorded ==
  ASSUME BInv, \/ Act \/ ActivityLapses \/ Heartbeat \/ HearsOfChange
               \/ \E s \in Owners : GoesIdle(s) \/ Ends(s) \/ OtherTabLogsIn(s)
  PROVE  Recorded'
<1>1. /\ page \in PageSet /\ page.attempts \in Nat /\ shifts \in 0 .. MaxShifts
      /\ phase \in [Owners -> {"none", "valid", "idle", "gone"}] /\ MaxShifts \in Nat
      /\ page.lapsed <= page.acts /\ page.acts <= MaxActs /\ MaxActs \in Nat
      /\ Beats(beat, page.attempts) /\ request \in [Requests -> RequestSet] /\ NoOwner \in Jars
  BY BudgetNumbers DEF BInv, Recorded, Jars
<1>2. CASE Act \/ ActivityLapses
  <2>1. /\ page'.attempts = page.attempts /\ page'.lapsed <= page'.acts /\ page'.acts <= MaxActs
        /\ UNCHANGED <<phase, request, shifts>>
    BY <1>1, <1>2 DEF Act, ActivityLapses, PageSet
  <2> QED BY <2>1 DEF BInv, Recorded
<1>3. CASE Heartbeat
  <2>1. UNCHANGED <<phase, page, request>> /\ shifts' \in 0 .. MaxShifts
    BY <1>1, <1>3 DEF Heartbeat, Shift
  <2> QED BY <2>1 DEF BInv, Recorded
<1>4. CASE HearsOfChange
  <2>1. UNCHANGED phase /\ shifts' \in 0 .. MaxShifts
        /\ Turns(NoOwner, page.attempts, request, beat)
    BY <1>1, <1>4 DEF HearsOfChange, Shift
  <2>2. /\ page'.attempts = page.attempts + 1 /\ page'.acts = page.acts
        /\ page'.lapsed = page.lapsed
        /\ \A r \in Requests : /\ request'[r].permit = request[r].permit
                               /\ request'[r].observed = request[r].observed
    BY <1>1, <2>1, TurnsBudget
  <2> QED BY <1>1, <2>1, <2>2, AllRecorded
<1>5. ASSUME NEW s \in Owners, GoesIdle(s) \/ Ends(s) \/ OtherTabLogsIn(s) PROVE Recorded'
  <2>1. /\ UNCHANGED <<page, request>> /\ shifts' \in 0 .. MaxShifts
        /\ phase' \in [Owners -> {"none", "valid", "idle", "gone"}]
    BY <1>1, <1>5 DEF GoesIdle, Ends, OtherTabLogsIn, Shift
  <2> QED BY <2>1 DEF BInv, Recorded
<1> QED BY <1>2, <1>3, <1>4, <1>5

LEMMA StepBudget ==
  ASSUME BInv, [RecoveryNext]_recoveryVars
  PROVE  WithinBudget' /\ Recorded'
<1>1. ASSUME NEW r \in Requests, Ask(r) \/ ServeRequest(r) \/ RequestFails(r)
      PROVE  WithinBudget'
  <2>1. request[r] \in RequestSet /\ Sure(request[r])
    BY BudgetNumbers DEF BInv, SInv, RInv
  <2>2. CASE Ask(r)
    <3>1. PICK c : request' = [request EXCEPT ![r] = c]
      BY <2>2 DEF Ask
    <3> QED BY <2>1, <2>2, <3>1, CallBudget DEF Ask, Sure
  <2>3. CASE ServeRequest(r)
    <3> DEFINE q == request[r]
               seen == [Answered(q, SessionSays(q.sid, q.owner)) EXCEPT
                          !.runs = IF SessionSays(q.sid, q.owner) = "ok" THEN @ + 1 ELSE @]
    <3>1. /\ request' = [request EXCEPT ![r] = IF q.at = "done" THEN Done(seen) ELSE seen]
          /\ UNCHANGED <<page, beat, shifts>> /\ q.at # "waits"
      BY <2>1, <2>3 DEF ServeRequest, Sure
    <3>2. seen.retried = q.retried /\ ~seen.open
      BY <2>1 DEF Answered, RequestSet
    <3> HIDE DEF seen
    <3>3. Done(seen).at = "done"
      BY <3>2 DEF Done, NoRequest
    <3>4. q.retried \in BOOLEAN
      BY <2>1 DEF RequestSet
    <3> QED BY <3>1, <3>2, <3>3, <3>4, CallBudget
  <2>4. CASE RequestFails(r)
    <3>1. /\ request' = [request EXCEPT ![r] = Fails(request[r])]
          /\ UNCHANGED <<page, beat, shifts>> /\ request[r].at \in {"sent", "answered"}
      BY <2>4 DEF RequestFails, Awaited
    <3>2. Fails(request[r]).retried = request[r].retried /\ request[r].retried \in BOOLEAN
      BY <2>1 DEF Fails, RequestSet
    <3> QED BY <3>1, <3>2, CallBudget
  <2> QED BY <1>1, <2>2, <2>3, <2>4
<1>2. ASSUME NEW r \in Requests, Receive(r) PROVE WithinBudget'
  BY <1>2, ConcludesBudget DEF Receive
<1>3. ASSUME NEW n \in Attempts, ServeBeat(n) \/ BeatFails(n) PROVE WithinBudget'
  <2>1. UNCHANGED <<page, request, shifts>>
    BY <1>3 DEF ServeBeat, BeatFails
  <2>2. Running' <=> Running
    <3>1. beat[n] \in BeatSet /\ beat \in [Attempts -> BeatSet] /\ page.attempts \in Attempts
      BY BudgetNumbers DEF Beats
    <3>2. \A v : \/ Answered(beat[n], v).at = beat[n].at
                 \/ beat[n].at = "sent" /\ Answered(beat[n], v).at = "answered"
      BY <3>1 DEF Answered, BeatSet
    <3>3. Fails(beat[n]).at = "answered"
      BY <3>1 DEF Fails, BeatSet
    <3>4. PICK b : /\ beat' = [beat EXCEPT ![n] = b]
                   /\ \/ b.at = beat[n].at
                      \/ beat[n].at \in {"sent", "answered"} /\ b.at = "answered"
      <4>1. CASE ServeBeat(n)
        BY <3>2, <4>1 DEF ServeBeat
      <4>2. CASE BeatFails(n)
        BY <3>3, <4>2 DEF BeatFails, Awaited
      <4> QED BY <1>3, <4>1, <4>2
    <3> QED BY <2>1, <3>1, <3>4 DEF Running
  <2>3. BeatOwes' = BeatOwes
    BY <2>1, <2>2 DEF BeatOwes, Awaits
  <2> QED BY <2>1, <2>3 DEF BInv, WithinBudget, Unspent, Unasked
<1>4. ASSUME \/ UNCHANGED recoveryVars \/ Act \/ ActivityLapses
             \/ \E s \in Owners : GoesIdle(s) \/ Ends(s) \/ OtherTabLogsIn(s)
      PROVE  WithinBudget'
  <2>1. /\ UNCHANGED <<request, beat>> /\ page'.attempts = page.attempts
        /\ shifts' \in {shifts, shifts + 1}
    BY <1>4, BudgetNumbers DEF recoveryVars, Act, ActivityLapses, GoesIdle, Ends, OtherTabLogsIn,
                               Shift, PageSet
  <2>2. Unspent' \in SUBSET Unspent /\ Unasked' \in SUBSET Unasked /\ BeatOwes' = BeatOwes
    BY <2>1 DEF Unspent, Unasked, BeatOwes, Awaits, Running
  <2>3. page'.attempts + BeatOwes' <= page.attempts + BeatOwes + 0 + 2 * (shifts' - shifts)
    BY <2>1, <2>2, BudgetNumbers
  <2> QED BY <2>1, <2>2, <2>3, BudgetNumbers, BudgetKept DEF BInv
<1>5. WithinBudget'
  BY <1>1, <1>2, <1>3, <1>4, RecoverBudget, ReceiveBeatBudget, ShiftBudget DEF RecoveryNext, Progress
<1>6. Recorded'
  <2>1. CASE UNCHANGED recoveryVars
    BY <2>1 DEF recoveryVars, BInv, Recorded
  <2> QED BY <2>1, CallsRecorded, BeatsRecorded, OthersRecorded DEF RecoveryNext, Progress
<1> QED BY <1>5, <1>6

LEMMA InitBudget == RecoveryInit => WithinBudget /\ Recorded
<1> SUFFICES ASSUME RecoveryInit PROVE WithinBudget /\ Recorded
  OBVIOUS
<1>1. /\ page.attempts = 0 /\ page.acts = 0 /\ page.lapsed = 0 /\ shifts = 0
      /\ phase \in [Owners -> {"none", "valid", "idle", "gone"}]
      /\ \A r \in Requests : request[r] = NoRequest
      /\ MaxActs \in Nat /\ MaxShifts \in Nat /\ MaxRequests \in Nat
  BY DEF RecoveryInit
<1>2. ~Running
  BY <1>1 DEF RecoveryInit, Running, NoBeat, Attempts
<1>3. BeatOwes = 0
  BY <1>2 DEF BeatOwes
<1>4. page.attempts + Cardinality(Unspent) + Cardinality(Unasked) + BeatOwes
        <= 2 * MaxRequests + 2 * shifts
  BY <1>1, <1>3, CallsAreFinite
<1>5. \A r \in Requests : request[r].permit <= MaxActs /\ request[r].observed <= page.attempts
  BY <1>1 DEF NoRequest
<1> QED BY <1>1, <1>4, <1>5 DEF WithinBudget, Recorded

LEMMA BudgetInvariance == RecoverySpec => []BInv
<1>1. RecoveryInit => BInv
  BY InitSound, InitBudget DEF BInv
<1>2. BInv /\ [RecoveryNext]_recoveryVars => BInv'
  BY StepSound, StepBudget DEF BInv
<1> QED BY <1>1, <1>2, PTL DEF RecoverySpec

(***************************************************************************)
(* Heartbeats do not breed: however calls, refusals and answers meet, the  *)
(* page begins at most two attempts for each of its calls and two for each *)
(* heartbeat of its own, turn of a session or message of another tab       *)
(* (authRecovery.ts, coordinateHeartbeat).                                 *)
(***************************************************************************)
AttemptsAreBounded == page.attempts <= 2 * (MaxRequests + shifts)

THEOREM HeartbeatsAreBounded == RecoverySpec => []AttemptsAreBounded
<1>1. BInv => AttemptsAreBounded
  <2> SUFFICES ASSUME BInv PROVE AttemptsAreBounded
    OBVIOUS
  <2>1. page.attempts + Cardinality(Unspent) + Cardinality(Unasked) + BeatOwes
          <= 2 * MaxRequests + 2 * shifts
    BY DEF BInv, WithinBudget
  <2>2. /\ page.attempts \in Nat /\ shifts \in Nat /\ BeatOwes \in Nat /\ MaxRequests \in Nat
        /\ Cardinality(Unspent) \in Nat /\ Cardinality(Unasked) \in Nat
    BY BudgetNumbers, CallsAreFinite
  <2> QED BY <2>1, <2>2 DEF AttemptsAreBounded
<1> QED BY <1>1, BudgetInvariance, PTL

\* The types, and that a call waits only for a heartbeat under way.
THEOREM RecoveryTypeCorrect == RecoverySpec => []RecoveryTypeOK
<1>1. BInv => RecoveryTypeOK
  <2> SUFFICES ASSUME BInv PROVE RecoveryTypeOK
    OBVIOUS
  <2>1. /\ page \in PageSet /\ page.attempts \in Attempts /\ beat \in [Attempts -> BeatSet]
        /\ request \in [Requests -> RequestSet] /\ jar \in Jars
        /\ \A r \in Requests : Waits(request[r], beat)
    BY BudgetNumbers DEF Beats, BInv, SInv, RInv
  <2>2. /\ page.lapsed <= page.acts /\ page.acts <= MaxActs /\ MaxActs \in Nat
        /\ shifts \in 0 .. MaxShifts
        /\ \A r \in Requests : request[r].permit <= MaxActs /\ request[r].observed <= page.attempts
        /\ phase \in [Owners -> {"none", "valid", "idle", "gone"}]
    BY DEF BInv, Recorded
  <2>3. page \in [owner : Jars, attempts : Attempts, acts : 0 .. MaxActs, lapsed : 0 .. MaxActs]
    BY <2>1, <2>2 DEF PageSet
  <2>4. \A r \in Requests : request[r].observed \in Attempts /\ request[r].permit \in 0 .. MaxActs
    <3>1. \A r \in Requests : request[r].observed \in Nat /\ request[r].permit \in Nat
      BY <2>1 DEF RequestSet
    <3> QED BY <2>1, <2>2, <3>1 DEF Attempts
  <2>5. \A r \in Requests : request[r] \in
          [at : {"none", "sent", "answered", "waits", "done"}, me : BOOLEAN, owner : Jars,
           sid : Jars, fresh : BOOLEAN, permit : 0 .. MaxActs, observed : Attempts,
           answer : Verdicts \cup {"recoverable"}, open : BOOLEAN, retried : BOOLEAN, runs : Nat]
    BY <2>1, <2>4 DEF RequestSet
  <2>6. \A r \in Requests : request[r].at = "waits" =>
          beat[request[r].observed].at \in {"sent", "answered"}
    BY <2>1, <2>4 DEF Waits
  <2> QED BY <2>1, <2>2, <2>3, <2>5, <2>6 DEF RecoveryTypeOK, BeatSet
<1> QED BY <1>1, BudgetInvariance, PTL
==============================================================================
