--------------------------- MODULE SessionRecovery ---------------------------
(***************************************************************************)
(* A session that has gone idle may be brought back by a heartbeat while   *)
(* its grace lasts.  The page sends one when the user does something, and  *)
(* when the server refuses a call because the session is idle; calls that  *)
(* are refused together, or whose refusal comes late, share one heartbeat. *)
(***************************************************************************)
EXTENDS Naturals

CONSTANTS
  MaxRequests, \* bound on the calls of the page
  Owners,      \* the sessions the cookie may be of
  NoOwner,
  MaxRemembered, \* of how many attempts the page remembers the outcome
  MaxActs,     \* bound on what the user does
  MaxShifts    \* bound on the turns of the sessions and of the other tabs

ASSUME RecoveryAssumption ==
  /\ NoOwner \notin Owners
  /\ MaxRequests \in Nat /\ MaxActs \in Nat /\ MaxShifts \in Nat
  /\ MaxRemembered \in Nat

VARIABLES
  phase,   \* of a session: not opened, valid, idle within its grace, gone
  jar,     \* the session of the cookie
  page,    \* whom it shows, completedAttempts, what the user did
  request, \* calls of the page
  beat,    \* the heartbeat of each attempt
  shifts

recoveryVars == <<phase, jar, page, request, beat, shifts>>

(***************************************************************************)
(* An attempt is at most one heartbeat.  completedResults is the answers   *)
(* of the latest attempts whose heartbeat is "done" and fresh, which are   *)
(* consecutive; running the heartbeat of the current attempt that is not   *)
(* "done"; fresh: the epoch has not moved on.                              *)
(* open: the server has not seen it, though the page may have given up.    *)
(***************************************************************************)
Requests == 1 .. MaxRequests
Attempts == 0 .. 2 * (MaxRequests + MaxShifts)
Verdicts == {"none", "ok", "failed", "changed", "expired"}
Jars == Owners \cup {NoOwner}

NoBeat == [at |-> "none", owner |-> NoOwner, sid |-> NoOwner, fresh |-> FALSE,
           answer |-> "none", open |-> FALSE, sends |-> 0]
NoRequest == [at |-> "none", me |-> FALSE, owner |-> NoOwner, sid |-> NoOwner, fresh |-> FALSE,
              permit |-> 0, observed |-> 0, answer |-> "none", open |-> FALSE,
              retried |-> FALSE, runs |-> 0]

RecoveryTypeOK ==
  /\ phase \in [Owners -> {"none", "valid", "idle", "gone"}]
  /\ jar \in Jars
  /\ page \in [owner : Jars, attempts : Attempts, acts : 0 .. MaxActs, lapsed : 0 .. MaxActs]
  /\ request \in [Requests ->
       [at : {"none", "sent", "answered", "waits", "done"}, me : BOOLEAN, owner : Jars,
        sid : Jars, fresh : BOOLEAN, permit : 0 .. MaxActs, observed : Attempts,
        answer : Verdicts \cup {"recoverable"}, open : BOOLEAN, retried : BOOLEAN, runs : Nat]]
  /\ beat \in [Attempts -> [at : {"none", "sent", "answered", "done"}, owner : Jars, sid : Jars,
                            fresh : BOOLEAN, answer : Verdicts, open : BOOLEAN, sends : Nat]]
  /\ shifts \in 0 .. MaxShifts
  /\ page.lapsed <= page.acts
  /\ \A r \in Requests : request[r].at = "waits" =>
       beat[request[r].observed].at \in {"sent", "answered"}

RecoveryInit ==
  /\ \E s \in Owners, shows \in BOOLEAN :
       /\ jar = s /\ phase = [o \in Owners |-> IF o = s THEN "valid" ELSE "none"]
       /\ page = [owner |-> IF shows THEN s ELSE NoOwner, attempts |-> 0, acts |-> 0, lapsed |-> 0]
  /\ request = [r \in Requests |-> NoRequest]
  /\ beat = [n \in Attempts |-> NoBeat]
  /\ shifts = 0

Shift == shifts < MaxShifts /\ shifts' = shifts + 1

NeverRemembered(n) == FALSE
Remembered(n) ==
  /\ n \in Attempts /\ beat[n].at = "done" /\ beat[n].fresh
  /\ page.attempts <= n + MaxRemembered
RunningUntilServed == beat[page.attempts].at = "sent"
Running == beat[page.attempts].at \in {"sent", "answered"}

\* advanceAuthenticationEpoch with invalidateSessionRecovery.
LeftBehind(calls) == [i \in DOMAIN calls |-> [calls[i] EXCEPT !.fresh = FALSE]]
Turned(owner, attempts) == [page EXCEPT !.owner = owner, !.attempts = attempts + 1]

StartBeat(owner) ==
  LET n == page.attempts IN
  beat' = [beat EXCEPT ![n] =
    [at |-> "sent", owner |-> owner, sid |-> jar, fresh |-> TRUE, answer |-> "none",
     open |-> TRUE, sends |-> beat[n].sends + 1]]

-----------------------------------------------------------------------------
(* The page asks.  What it protects goes with the binding of whom it shows, *)
(* /me without one and one at a time.                                       *)

Ask(r) ==
  /\ request[r].at = "none" /\ \A q \in 1 .. r - 1 : request[q].at # "none"
  /\ page.owner = NoOwner => ~ \E q \in Requests : request[q].me /\ request[q].at # "done"
  /\ request' = [request EXCEPT ![r] =
       [@ EXCEPT !.at = "sent", !.me = (page.owner = NoOwner), !.owner = page.owner, !.sid = jar,
                 !.fresh = TRUE, !.permit = page.acts, !.observed = page.attempts, !.open = TRUE]]
  /\ UNCHANGED <<phase, jar, page, beat, shifts>>

Act ==
  /\ page.acts < MaxActs
  /\ page' = [page EXCEPT !.acts = @ + 1]
  /\ UNCHANGED <<phase, jar, request, beat, shifts>>

Recent(permit) == permit > page.lapsed

\* sendHeartbeat, on what the user does and when the route changes; if one runs
\* it is shared.
Heartbeat ==
  /\ page.owner # NoOwner /\ Recent(page.acts) /\ ~Running /\ Shift
  /\ StartBeat(page.owner)
  /\ UNCHANGED <<phase, jar, page, request>>

\* SESSION_ACTIVITY_WINDOW_MS after it.
ActivityLapses ==
  /\ page.lapsed < page.acts
  /\ page' = [page EXCEPT !.lapsed = @ + 1]
  /\ UNCHANGED <<phase, jar, request, beat, shifts>>

-----------------------------------------------------------------------------
(* The server: auth before anything else, and heartbeat.                    *)

Gone(sid) == IF sid = NoOwner THEN TRUE ELSE phase[sid] = "gone"
SessionSays(sid, owner) ==
  IF Gone(sid) THEN "expired"
  ELSE IF owner \notin {sid, NoOwner} THEN "changed"
  ELSE IF phase[sid] = "idle" THEN "recoverable"
  ELSE "ok"

\* A page that gave the call up does not get the answer.
Answered(c, verdict) ==
  IF c.at = "sent" THEN [c EXCEPT !.at = "answered", !.answer = verdict, !.open = FALSE]
  ELSE [c EXCEPT !.open = FALSE]

\* Nothing of it matters any more, but for what the server has still to see.
Done(q) ==
  IF q.open THEN [q EXCEPT !.at = "done", !.fresh = FALSE, !.permit = 0, !.observed = 0]
  ELSE [NoRequest EXCEPT !.at = "done", !.runs = q.runs]

ServeRequest(r) ==
  LET q == request[r]
      verdict == SessionSays(q.sid, q.owner)
      seen == [Answered(q, verdict) EXCEPT !.runs = IF verdict = "ok" THEN @ + 1 ELSE @] IN
  /\ q.open
  /\ request' = [request EXCEPT ![r] = IF q.at = "done" THEN Done(seen) ELSE seen]
  /\ UNCHANGED <<phase, jar, page, beat, shifts>>

\* Within the grace too, and for a page that has given up waiting as well.
ServeBeat(n) ==
  LET b == beat[n]
      said == SessionSays(b.sid, b.owner)
      verdict == IF said = "recoverable" THEN "ok" ELSE said IN
  /\ b.open
  /\ beat' = [beat EXCEPT ![n] = Answered(b, verdict)]
  /\ phase' = (IF verdict = "ok" THEN [phase EXCEPT ![b.sid] = "valid"] ELSE phase)
  /\ UNCHANGED <<jar, page, request, shifts>>

\* The answer is lost, or late: a heartbeat is aborted after 9 seconds.
Fails(c) == [c EXCEPT !.at = "answered", !.answer = "failed"]
Awaited(c) == c.at \in {"sent", "answered"} /\ c.answer # "failed"
RequestFails(r) ==
  /\ Awaited(request[r])
  /\ request' = [request EXCEPT ![r] = Fails(@)]
  /\ UNCHANGED <<phase, jar, page, beat, shifts>>
BeatFails(n) ==
  /\ Awaited(beat[n])
  /\ beat' = [beat EXCEPT ![n] = Fails(@)]
  /\ UNCHANGED <<phase, jar, page, request, shifts>>

GoesIdle(s) ==
  /\ phase[s] = "valid" /\ Shift
  /\ phase' = [phase EXCEPT ![s] = "idle"]
  /\ UNCHANGED <<jar, page, request, beat>>
\* The grace or the session itself ends, or it is revoked.
Ends(s) ==
  /\ phase[s] \in {"valid", "idle"} /\ Shift
  /\ phase' = [phase EXCEPT ![s] = "gone"]
  /\ UNCHANGED <<jar, page, request, beat>>
OtherTabLogsIn(s) ==
  /\ phase[s] = "none" /\ Shift
  /\ phase' = [phase EXCEPT ![s] = "valid"] /\ jar' = s
  /\ UNCHANGED <<page, request, beat>>

-----------------------------------------------------------------------------
(* The page shows another subject, or none, and leaves behind what is under *)
(* way; a call it ends does so only in the epoch it was sent in.            *)

Turns(owner, attempts, calls, beats) ==
  /\ page' = Turned(owner, attempts)
  /\ request' = LeftBehind(calls) /\ beat' = LeftBehind(beats)

\* A message of another tab.
HearsOfChange ==
  /\ Shift /\ Turns(NoOwner, page.attempts, request, beat)
  /\ UNCHANGED <<phase, jar>>

\* handleAuthExpired, signalSessionSubjectChange, or applyUser after /me.
Concludes(r, verdict) ==
  LET q == request[r]
      calls == [request EXCEPT ![r] = Done(q)] IN
  IF q.fresh /\ verdict \in {"changed", "expired", "denied"}
  THEN Turns(NoOwner, page.attempts, calls, beat)
  ELSE IF q.fresh /\ q.me /\ verdict = "ok"
  THEN Turns(q.sid, page.attempts, calls, beat)
  ELSE request' = calls /\ UNCHANGED <<page, beat>>

\* auth takes a cookie away that is good for nothing.
JarAfter(c) == IF c.answer = "expired" /\ c.sid # NoOwner THEN NoOwner ELSE jar

Resent(q) ==
  [q EXCEPT !.at = "sent", !.sid = jar, !.answer = "none", !.retried = TRUE, !.open = TRUE]

\* A call that was sent again is not sent a third time.
Receive(r) ==
  LET q == request[r] IN
  /\ q.at = "answered" /\ (q.answer = "recoverable" => q.retried)
  /\ Concludes(r, IF q.answer = "recoverable" THEN "expired" ELSE q.answer)
  /\ jar' = JarAfter(q)
  /\ UNCHANGED <<phase, shifts>>

\* Whom a refused call is of: /me learns it from the refusal.
Subject(q) == IF q.owner = NoOwner THEN q.sid ELSE q.owner

(***************************************************************************)
(* coordinateHeartbeat.  Every heartbeat was sent on an activity, so that  *)
(* to share one takes none.                                                *)
(***************************************************************************)
NeverStale(q) == FALSE
Stale(q) == ~q.fresh
Coordinated(r) ==
  LET q == request[r]
      same(n) == beat[n].owner = Subject(q) IN
  IF Stale(q) THEN "stale"
  ELSE IF Remembered(q.observed) /\ same(q.observed) THEN beat[q.observed].answer
  ELSE IF Running THEN (IF same(page.attempts) THEN "waits" ELSE "changed")
  ELSE IF Recent(q.permit) /\ q.observed = page.attempts THEN "starts"
  ELSE "denied"

Recover(r) ==
  LET q == request[r]
      outcome == Coordinated(r) IN
  /\ q.at = "answered" /\ q.answer = "recoverable" /\ ~q.retried
  /\ CASE outcome \in {"waits", "starts"} ->
            /\ request' = [request EXCEPT
                             ![r] = [q EXCEPT !.at = "waits", !.observed = page.attempts]]
            /\ IF outcome = "starts" THEN StartBeat(Subject(q)) ELSE UNCHANGED beat
            /\ UNCHANGED page
       [] outcome = "ok" ->
            request' = [request EXCEPT ![r] = Resent(q)] /\ UNCHANGED <<page, beat>>
       [] OTHER -> Concludes(r, outcome)
  /\ UNCHANGED <<phase, jar, shifts>>

GoOnUnlessStale(n, answer) ==
  [r \in Requests |->
     IF request[r].at # "waits" \/ request[r].observed # n \/ answer = "stale" THEN request[r]
     ELSE IF answer = "ok" THEN Resent(request[r])
     ELSE Done(request[r])]
\* Those that wait go on in the same breath.
GoOn(n, answer) ==
  [r \in Requests |->
     IF request[r].at # "waits" \/ request[r].observed # n THEN request[r]
     ELSE IF answer = "ok" THEN Resent(request[r])
     ELSE Done(request[r])]

ReceiveBeat(n) ==
  LET b == beat[n]
      ended == [beat EXCEPT ![n].at = "done"] IN
  /\ b.at = "answered"
  /\ CASE ~b.fresh -> request' = GoOn(n, "stale") /\ beat' = ended /\ UNCHANGED page
       [] b.fresh /\ b.answer \in {"changed", "expired"} ->
            Turns(NoOwner, page.attempts + 1, GoOn(n, b.answer), ended)
       [] OTHER ->
            /\ page' = [page EXCEPT !.attempts = @ + 1]
            /\ request' = GoOn(n, b.answer) /\ beat' = ended
  /\ jar' = JarAfter(b)
  /\ UNCHANGED <<phase, shifts>>

-----------------------------------------------------------------------------
\* A call is answered or fails, a heartbeat is given up in the end, and the page
\* handles what arrives.
Progress ==
  \/ \E r \in Requests : ServeRequest(r) \/ RequestFails(r) \/ Receive(r) \/ Recover(r)
  \/ \E n \in Attempts : ServeBeat(n) \/ BeatFails(n) \/ ReceiveBeat(n)

RecoveryNext ==
  \/ Progress
  \/ \E r \in Requests : Ask(r)
  \/ \E s \in Owners : GoesIdle(s) \/ Ends(s) \/ OtherTabLogsIn(s)
  \/ Act \/ ActivityLapses \/ Heartbeat \/ HearsOfChange

RecoveryFairness == WF_recoveryVars(Progress)

RecoverySpec == RecoveryInit /\ [][RecoveryNext]_recoveryVars /\ RecoveryFairness

-----------------------------------------------------------------------------
(* Calls that find the session idle together, or with a heartbeat already   *)
(* on its way or back, do not send one each.                                *)
OneBeatPerAttempt == \A n \in Attempts : beat[n].sends <= 1

Again(r) == request[r].at \in {"answered", "waits"} /\ request'[r].at = "sent"

(* A call is sent again only if the server has not carried it out, at most  *)
(* once, and never for another subject than the one it was made for, even   *)
(* when the same session is shown again.                                    *)
RepeatsSafely ==
  [][\A r \in Requests :
       Again(r) => request[r].fresh /\ request[r].runs = 0 /\ ~request[r].retried]_recoveryVars

(* A page that has been told its session goes on does not give it up for a  *)
(* refusal that was made before and arrives late, while it remembers what   *)
(* has come of the attempts since the call was made.                        *)
ToldItGoesOn(r) ==
  /\ request[r].at = "answered" /\ request[r].answer = "recoverable" /\ ~request[r].retried
  /\ page.attempts <= request[r].observed + MaxRemembered
  /\ \E n \in Attempts : n >= request[r].observed
       /\ beat[n].at = "done" /\ beat[n].fresh /\ beat[n].answer = "ok"
KeepsWhatItWasTold ==
  [][\A r \in Requests :
       ToldItGoesOn(r) /\ request'[r].at # "answered" => page'.owner = page.owner]_recoveryVars

(* No call waits for ever for a heartbeat that was aborted, refused, or     *)
(* left behind by a change of the subject.                                  *)
EveryRequestEnds ==
  \A r \in Requests : request[r].at = "sent" ~> request[r].at = "done"
=============================================================================
