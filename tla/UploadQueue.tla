----------------------------- MODULE UploadQueue -----------------------------
(***************************************************************************)
(* The upload queue of a page: files sent one after the other, as long as  *)
(* the page shows whom the batch was started for.  Every await of the code *)
(* lets the rest of the page act; an action here goes from one await to    *)
(* the next.  The order of the files in the queue is left out.             *)
(***************************************************************************)
EXTENDS Naturals, FiniteSets

CONSTANTS
  Files,
  Subjects, \* session bindings a page can have
  NoSubject

ASSUME QueueAssumption == NoSubject \notin Subjects

VARIABLES
  bound,    \* the queue has getBatchIdentity: UploadView has, ShareView has not
  subject,  \* currentSessionBinding
  item,     \* status of the files, "absent" of those that are not in the queue
  run,      \* what uploadAll or retry waits for
  stopRequested, disposed,
  holds     \* size of uploadSessionHolds

queueVars == <<bound, subject, item, run, stopRequested, disposed, holds>>

(***************************************************************************)
(* at: the await.  "lease" and "body" are those of uploadFile, "after" is  *)
(* onItemSuccess, "verdict" shouldStopBatch and "finished" onBatchFinished.*)
(* asked, fresh: for whom the lease was asked, and whether the page has    *)
(* been that one since.  signal: cancelled; wire: so was the transfer.     *)
(***************************************************************************)
NoRun ==
  [at |-> "none", all |-> FALSE, captured |-> NoSubject, file |-> {}, todo |-> {},
   asked |-> NoSubject, fresh |-> TRUE, signal |-> FALSE, wire |-> FALSE, held |-> FALSE]

Ids == Subjects \cup {NoSubject}
QueueTypeOK ==
  /\ bound \in BOOLEAN /\ stopRequested \in BOOLEAN /\ disposed \in BOOLEAN
  /\ subject \in Ids
  /\ item \in [Files -> {"absent", "queued", "uploading", "success", "error"}]
  /\ run \in [at : {"none", "lease", "body", "after", "verdict", "finished"}, all : BOOLEAN,
              captured : Ids, file : SUBSET Files, todo : SUBSET Files,
              asked : Ids, fresh : BOOLEAN, signal : BOOLEAN, wire : BOOLEAN, held : BOOLEAN]
  /\ holds \in Nat
  /\ \A f \in Files : item[f] = "uploading" <=> run.at \in {"lease", "body"} /\ f \in run.file

QueueInit ==
  /\ bound \in BOOLEAN /\ subject \in Ids
  /\ item = [f \in Files |-> "absent"] /\ run = NoRun
  /\ stopRequested = FALSE /\ disposed = FALSE /\ holds = 0

busy == run # NoRun
Pending == {f \in Files : item[f] \in {"queued", "error"}}
identityIsCurrent(r) == bound => r.captured # NoSubject /\ subject = r.captured

-----------------------------------------------------------------------------
(* Where a run goes on after an await.                                      *)

Release(r) == holds' = IF r.held THEN holds - 1 ELSE holds
End(r) == run' = NoRun /\ Release(r)

\* After the loop.  Whoever finds another subject has the batch stop.
Finish(r, stop) ==
  IF ~disposed /\ identityIsCurrent(r)
  THEN run' = [r EXCEPT !.at = "finished", !.file = {}] /\ stopRequested' = stop /\ UNCHANGED holds
  ELSE End(r) /\ stopRequested' = (stop \/ ~disposed)

\* runItem: a new controller, and for a page that is signed in a new lease.
Send(r, f) ==
  [r EXCEPT !.at = IF bound THEN "lease" ELSE "body", !.file = {f}, !.todo = @ \ {f},
            !.asked = subject, !.fresh = TRUE, !.signal = FALSE, !.wire = FALSE]

KeepGoing(r, stop) ==
  IF r.todo # {} /\ identityIsCurrent(r)
  THEN \E f \in r.todo :
         /\ run' = Send(r, f) /\ item' = [item EXCEPT ![f] = "uploading"]
         /\ stopRequested' = stop /\ UNCHANGED holds
  ELSE Finish(r, stop) /\ UNCHANGED item
\* The head of the loop.  A file in todo is still in the queue, which nobody
\* changes while it is busy.
NextItem(r, stop) ==
  IF ~disposed /\ ~stop /\ r.todo # {} /\ identityIsCurrent(r)
  THEN \E f \in r.todo :
         /\ run' = Send(r, f) /\ item' = [item EXCEPT ![f] = "uploading"]
         /\ stopRequested' = stop /\ UNCHANGED holds
  ELSE Finish(r, stop) /\ UNCHANGED item

\* runItem has returned; stop: whether its own look at the subject has set it.
ItemDone(r, stop) ==
  IF ~r.all THEN End(r) /\ stopRequested' = stop
  ELSE IF disposed \/ ~identityIsCurrent(r) \/ stopRequested
  THEN Finish(r, stop)
  ELSE run' = [r EXCEPT !.at = "verdict"] /\ UNCHANGED <<stopRequested, holds>>

Noticed == stopRequested \/ (~disposed /\ ~identityIsCurrent(run))
Fail(f) ==
  /\ item' = [item EXCEPT ![f] = "error"]
  /\ ItemDone(run, Noticed)

-----------------------------------------------------------------------------
(* What the user does.                                                      *)

add(f) ==
  /\ ~disposed /\ ~busy /\ item[f] = "absent"
  /\ item' = [item EXCEPT ![f] = "queued"]
  /\ UNCHANGED <<bound, subject, run, stopRequested, disposed, holds>>
remove(f) ==
  /\ ~disposed /\ ~busy /\ item[f] # "absent"
  /\ item' = [item EXCEPT ![f] = "absent"]
  /\ UNCHANGED <<bound, subject, run, stopRequested, disposed, holds>>
clear ==
  /\ ~disposed /\ ~busy
  /\ item' = [f \in Files |-> "absent"]
  /\ UNCHANGED <<bound, subject, run, stopRequested, disposed, holds>>

Context(all) == [NoRun EXCEPT !.all = all, !.captured = subject]
Refused(all) ==
  /\ ~identityIsCurrent(Context(all))
  /\ stopRequested' = TRUE /\ UNCHANGED <<item, run, holds>>

\* acquireHold, and then the first file.
acquireRunHold(r) == [r EXCEPT !.held = TRUE]

uploadAll ==
  /\ ~disposed /\ ~busy
  /\ \/ Refused(TRUE)
     \/ /\ identityIsCurrent(Context(TRUE))
        /\ LET r == acquireRunHold([Context(TRUE) EXCEPT !.todo = Pending]) IN
           IF Pending = {} THEN run' = [r EXCEPT !.at = "finished"] /\ stopRequested' = FALSE
                                /\ holds' = holds + 1 /\ UNCHANGED item
           ELSE \E f \in Pending :
                  /\ run' = Send(r, f) /\ item' = [item EXCEPT ![f] = "uploading"]
                  /\ stopRequested' = FALSE /\ holds' = holds + 1
  /\ UNCHANGED <<bound, subject, disposed>>

retry(f) ==
  /\ ~disposed /\ ~busy /\ f \in Pending
  /\ \/ Refused(FALSE)
     \/ /\ identityIsCurrent(Context(FALSE))
        /\ run' = Send(acquireRunHold(Context(FALSE)), f)
        /\ item' = [item EXCEPT ![f] = "uploading"]
        /\ stopRequested' = FALSE /\ holds' = holds + 1
  /\ UNCHANGED <<bound, subject, disposed>>

\* abort ends a transfer that is under way; there is none yet before the lease.
cancel(f) ==
  /\ item[f] = "uploading"
  /\ stopRequested' = TRUE
  /\ run' = [run EXCEPT !.signal = TRUE, !.wire = (run.at = "body")]
  /\ UNCHANGED <<bound, subject, item, disposed, holds>>
stopBatch ==
  /\ stopRequested' = TRUE
  /\ UNCHANGED <<bound, subject, item, run, disposed, holds>>
dispose ==
  /\ disposed' = TRUE /\ stopRequested' = TRUE
  /\ Release(run) /\ run' = [run EXCEPT !.held = FALSE]
  /\ UNCHANGED <<bound, subject, item>>

\* The page signs out, in, or finds somebody else signed in.
SubjectChanges(s) ==
  /\ s # subject /\ subject' = s
  /\ run' = [run EXCEPT !.fresh = (run = NoRun)]
  /\ UNCHANGED <<bound, item, stopRequested, disposed, holds>>

-----------------------------------------------------------------------------
(* What the run waits for comes.                                            *)

TakeAnyLease(f) ==
  /\ run.at = "lease" /\ f \in run.file
  /\ IF ~run.signal
     THEN run' = [run EXCEPT !.at = "body"] /\ UNCHANGED <<item, stopRequested, holds>>
     ELSE Fail(f)
  /\ UNCHANGED <<bound, subject, disposed>>
SendAnyway(f) ==
  /\ run.at = "lease" /\ f \in run.file
  /\ IF run.fresh
     THEN run' = [run EXCEPT !.at = "body"] /\ UNCHANGED <<item, stopRequested, holds>>
     ELSE Fail(f)
  /\ UNCHANGED <<bound, subject, disposed>>
\* A lease that comes late or to a file that was cancelled is not used.
LeaseArrives(f) ==
  /\ run.at = "lease" /\ f \in run.file
  /\ IF run.fresh /\ ~run.signal
     THEN run' = [run EXCEPT !.at = "body"] /\ UNCHANGED <<item, stopRequested, holds>>
     ELSE Fail(f)
  /\ UNCHANGED <<bound, subject, disposed>>

UploadFails(f) ==
  /\ run.at \in {"lease", "body"} /\ f \in run.file
  /\ Fail(f)
  /\ UNCHANGED <<bound, subject, disposed>>

UploadSucceeds(f) ==
  /\ run.at = "body" /\ f \in run.file /\ ~run.wire
  /\ item' = [item EXCEPT ![f] = "success"]
  /\ IF ~disposed /\ identityIsCurrent(run)
     THEN run' = [run EXCEPT !.at = "after"] /\ UNCHANGED <<stopRequested, holds>>
     ELSE ItemDone(run, Noticed)
  /\ UNCHANGED <<bound, subject, disposed>>

RollBack(f) ==
  /\ run.at = "after" /\ f \in run.file
  /\ item' \in {item, [item EXCEPT ![f] = "error"]} /\ ItemDone(run, stopRequested)
  /\ UNCHANGED <<bound, subject, disposed>>
\* Whether onItemSuccess succeeds or fails.
SuccessHandled(f) ==
  /\ run.at = "after" /\ f \in run.file
  /\ UNCHANGED item /\ ItemDone(run, stopRequested)
  /\ UNCHANGED <<bound, subject, disposed>>

Verdict(shouldStop) ==
  /\ run.at = "verdict"
  /\ LET r == [run EXCEPT !.file = {}] IN
     IF shouldStop /\ ~disposed /\ identityIsCurrent(run)
     THEN Finish(r, TRUE) /\ UNCHANGED item
     ELSE NextItem(r, stopRequested)
  /\ UNCHANGED <<bound, subject, disposed>>

BatchFinished ==
  /\ run.at = "finished"
  /\ End(run)
  /\ UNCHANGED <<bound, subject, item, stopRequested, disposed>>

QueueNext ==
  \/ \E f \in Files :
       \/ add(f) \/ remove(f) \/ retry(f) \/ cancel(f)
       \/ LeaseArrives(f) \/ UploadFails(f) \/ UploadSucceeds(f) \/ SuccessHandled(f)
  \/ clear \/ uploadAll \/ stopBatch \/ dispose
  \/ \E s \in Ids : SubjectChanges(s)
  \/ \E shouldStop \in BOOLEAN : Verdict(shouldStop)
  \/ BatchFinished

QueueSpec == QueueInit /\ [][QueueNext]_queueVars

-----------------------------------------------------------------------------
(* The session is held for as long as a run of a page that is still there:  *)
(* a hold that is left behind keeps every later expiry of the session from  *)
(* being shown, one given back too early has it shown in mid-upload.        *)
HoldIsExact == holds = IF busy /\ ~disposed THEN 1 ELSE 0

(* No body is sent but for the subject the batch was started for, with a    *)
(* lease of that subject, while the page still shows it.                    *)
BodyIsForTheBatch ==
  [][bound /\ run.at = "lease" /\ run'.at = "body"
       => run.asked = run.captured /\ subject = run.captured]_queueVars

(* A file whose cancellation was accepted, before its lease came or after,  *)
(* does not end as a success, and a success stays one: neither what follows *)
(* an upload nor a later run takes it back or sends it again.               *)
OutcomesAreFinal ==
  [][\A f \in Files :
       /\ item[f] = "uploading" /\ item'[f] = "success" => ~run.signal
       /\ item[f] = "success" => item'[f] \in {"success", "absent"}]_queueVars

(* A batch that was stopped, by a cancellation, an expiry, a change of the  *)
(* subject or the end of its page, sends no further file.                   *)
StoppedSendsNothing ==
  [][busy /\ stopRequested =>
       \A f \in Files : item'[f] = "uploading" => item[f] = "uploading"]_queueVars
=============================================================================
