----------------------------- MODULE UploadGate -----------------------------
(***************************************************************************)
(* Uploads inside one process: permits, the registry of transfers and the  *)
(* configuration, which an administrator publishes while uploads run.      *)
(* Requests look at the configuration under the read side of               *)
(* transferGateMu; a publication takes its write side.                     *)
(***************************************************************************)
EXTENDS UploadResources, FiniteSets

CONSTANTS
  MaxFiles,     \* files of one request
  Global,       \* permits of the process
  PerResource,  \* permits bound to one resource
  PerOwner,     \* permits of one session or token
  Owner         \* of every upload

ASSUME LimitsAssumption ==
  /\ MaxFiles \in Nat /\ Global \in Nat /\ PerResource \in Nat /\ PerOwner \in Nat
  /\ Uploads \subseteq DOMAIN Owner

VARIABLES
  config,    \* the configuration in memory
  settings,  \* the one in the settings file
  save,      \* the publication under way: updateConfigResources
  pc,        \* where a request is
  target,    \* the resource it means to write to, and its fingerprint then
  saved,     \* the files it has been told of as landed
  permits,   \* transferRegistry.permits
  records,   \* transferRegistry.records, of the file in hand
  called,    \* cancel callbacks that were taken from a record and not called yet
  ctxDone,   \* requests whose file in hand is cancelled
  temps,     \* requests with a staging file
  files,     \* their landed files on the disk
  reply      \* how a request ended

vars == <<config, settings, save, pc, target, saved, permits, records, called, ctxDone,
          temps, files, reply>>

(***************************************************************************)
(* The points of a request; at those in InGate it holds the read side.     *)
(*   idle         no request                                               *)
(*   asking       it asks for a permit, for a resource or for none yet     *)
(*   acquiring    its resource is as expected; the permit is next          *)
(*   permitted    it has a permit and no resource                          *)
(*   naming       the form has named a resource                            *)
(*   binding      which is as expected; the permit is next                 *)
(*   ready        between files                                            *)
(*   staged       it has a staging file that the registry does not know    *)
(*   registering  its resource is as expected; the record is next          *)
(*   streaming    it copies the body                                       *)
(*   written      the staging file is complete                             *)
(*   committing   it may be promoted                                       *)
(*   landed       it was promoted; its staging file is to be removed       *)
(*   failing      it has nothing in hand and undoes the files it saved     *)
(***************************************************************************)
InGate == {"acquiring", "binding", "registering", "committing"}
InHand == {"staged", "registering", "streaming", "written", "committing"}
Points == {"idle", "asking", "permitted", "naming", "ready", "landed", "failing"}
            \cup InGate \cup InHand

NoTarget == [dir |-> NoDir, fp |-> NoFp]
Targets == [dir : Dirs, fp : Fps] \cup {NoTarget}

NoPermit == [held |-> FALSE, dir |-> NoDir, fp |-> NoFp, canceling |-> FALSE]
Permits == [held : BOOLEAN, dir : Dirs \cup {NoDir}, fp : Fps \cup {NoFp},
            canceling : BOOLEAN]

\* idle; prepared: written, and the leases of changed ids are revoked; pending:
\* waits for the readers; locked; renamed: the file has changed; switched: and
\* the memory; marked: the uploads are about to be cancelled.
SavePoints == {"idle", "prepared", "pending", "locked", "renamed", "switched", "marked"}
Saving(at, next, changed, calls) ==
  [at |-> at, next |-> next, changed |-> changed, calls |-> calls]
NoSave(conf) == Saving("idle", conf, {}, {})

TypeOK ==
  /\ config \in Configs /\ settings \in Configs
  /\ save \in [at : SavePoints, next : Configs, changed : SUBSET Dirs, calls : SUBSET Uploads]
  /\ pc \in [Uploads -> Points]
  /\ target \in [Uploads -> Targets]
  /\ saved \in [Uploads -> Nat]
  /\ permits \in [Uploads -> Permits]
  /\ records \in [Uploads -> {"none", "active", "canceling"}]
  /\ called \subseteq Uploads /\ ctxDone \subseteq Uploads /\ temps \subseteq Uploads
  /\ files \in [Uploads -> Nat]
  /\ reply \in [Uploads -> Answers]

Init ==
  /\ settings \in Configs /\ config = settings
  /\ save = NoSave(config)
  /\ pc = [u \in Uploads |-> "idle"]
  /\ target = [u \in Uploads |-> NoTarget]
  /\ saved = [u \in Uploads |-> 0]
  /\ permits = [u \in Uploads |-> NoPermit]
  /\ records = [u \in Uploads |-> "none"]
  /\ called = {} /\ ctxDone = {} /\ temps = {}
  /\ files = [u \in Uploads |-> 0]
  /\ reply = [u \in Uploads |-> "idle"]

-----------------------------------------------------------------------------
(* transferGateMu, and the checks made under it.                            *)

\* A writer that waits keeps new readers out.
MayRLock == save.at \in {"idle", "prepared"}
Readers == {u \in Uploads : pc[u] \in InGate}

\* What a request was told is still what the configuration says.
StillGranted(u) == Grants(config, target[u].dir, target[u].fp)

HoldsPermit(u) == permits[u].held
Bound(u) == permits[u].held /\ permits[u].dir # NoDir

HasBoundUploadPermit(u) ==
  /\ Bound(u) /\ ~permits[u].canceling
  /\ permits[u].dir = target[u].dir /\ permits[u].fp = target[u].fp

Goto(u, point) == pc' = [pc EXCEPT ![u] = point]
\* The check made on entering the gate; a request it fails leaves it at once.
EnterGate(u, check, inside, outside) ==
  /\ MayRLock
  /\ Goto(u, IF check THEN inside ELSE outside)

-----------------------------------------------------------------------------
(* Admission.                                                               *)

\* A request names its resource in the query or in its lease, or in the form.
Begin(u, d) ==
  /\ pc[u] = "idle"
  /\ d \in Dirs => config[d] # Absent
  /\ target' = [target EXCEPT ![u] =
       IF d = NoDir THEN NoTarget ELSE [dir |-> d, fp |-> Fingerprint[config[d]]]]
  /\ saved' = [saved EXCEPT ![u] = 0]
  /\ files' = [files EXCEPT ![u] = 0]
  /\ reply' = [reply EXCEPT ![u] = "none"]
  /\ Goto(u, "asking")
  /\ UNCHANGED <<config, settings, save, permits, records, called, ctxDone, temps>>

EnterAcquire(u) ==
  /\ pc[u] = "asking"
  /\ EnterGate(u, target[u] = NoTarget \/ StillGranted(u), "acquiring", "failing")
  /\ UNCHANGED <<config, settings, save, target, saved, permits, records, called, ctxDone,
                 temps, files, reply>>

Held == {u \in Uploads : HoldsPermit(u)}
HeldOn(d) == {u \in Held : permits[u].dir = d}
HeldBy(o) == {u \in Held : Owner[u] = o}

RoomOn(d) == d = NoDir \/ Cardinality(HeldOn(d)) < PerResource
HasRoom(u) ==
  /\ Cardinality(Held) < Global
  /\ RoomOn(target[u].dir)
  /\ Cardinality(HeldBy(Owner[u])) < PerOwner

TryAcquireUploadPermit(u) ==
  /\ pc[u] = "acquiring"
  /\ IF HasRoom(u)
     THEN /\ permits' = [permits EXCEPT ![u] = [held |-> TRUE, dir |-> target[u].dir,
                                                fp |-> target[u].fp, canceling |-> FALSE]]
          /\ Goto(u, IF target[u] = NoTarget THEN "permitted" ELSE "ready")
     ELSE UNCHANGED permits /\ Goto(u, "failing")
  /\ UNCHANGED <<config, settings, save, target, saved, records, called, ctxDone, temps,
                 files, reply>>

\* A form may name its resource again, as long as no file has come.
NameResource(u, d) ==
  /\ pc[u] = "permitted" \/ (pc[u] = "ready" /\ saved[u] = 0)
  /\ config[d] # Absent
  /\ target' = [target EXCEPT ![u] = [dir |-> d, fp |-> Fingerprint[config[d]]]]
  /\ Goto(u, "naming")
  /\ UNCHANGED <<config, settings, save, saved, permits, records, called, ctxDone, temps,
                 files, reply>>

EnterBind(u) ==
  /\ pc[u] = "naming"
  /\ EnterGate(u, StillGranted(u), "binding", "failing")
  /\ UNCHANGED <<config, settings, save, target, saved, permits, records, called, ctxDone,
                 temps, files, reply>>

BindAnyPermit(u) ==
  /\ pc[u] = "binding"
  /\ permits' = [permits EXCEPT ![u].dir = target[u].dir, ![u].fp = target[u].fp]
  /\ Goto(u, "ready")
  /\ UNCHANGED <<config, settings, save, target, saved, records, called, ctxDone, temps,
                 files, reply>>
\* Only an unbound permit is bound; naming the same resource again is no change.
BindUploadPermit(u) ==
  /\ pc[u] = "binding"
  /\ IF IF Bound(u) THEN ~HasBoundUploadPermit(u) ELSE ~RoomOn(target[u].dir)
     THEN UNCHANGED permits /\ Goto(u, "failing")
     ELSE /\ permits' = [permits EXCEPT ![u].dir = target[u].dir, ![u].fp = target[u].fp]
          /\ Goto(u, "ready")
  /\ UNCHANGED <<config, settings, save, target, saved, records, called, ctxDone, temps,
                 files, reply>>

-----------------------------------------------------------------------------
(* One file: savePartUniqueAtomic, saveRawUniqueAtomic.                     *)

CreateTemp(u) ==
  /\ pc[u] = "ready" /\ saved[u] < MaxFiles
  /\ temps' = temps \cup {u}
  /\ Goto(u, "staged")
  /\ UNCHANGED <<config, settings, save, target, saved, permits, records, called, ctxDone,
                 files, reply>>

EnterRegister(u) ==
  /\ pc[u] = "staged" /\ MayRLock
  /\ IF StillGranted(u)
     THEN Goto(u, "registering") /\ UNCHANGED temps
     ELSE Goto(u, "failing") /\ temps' = temps \ {u}
  /\ UNCHANGED <<config, settings, save, target, saved, permits, records, called, ctxDone,
                 files, reply>>

RegisterUploadTransfer(u) ==
  /\ pc[u] = "registering"
  /\ IF HasBoundUploadPermit(u)
     THEN /\ records' = [records EXCEPT ![u] = "active"]
          /\ Goto(u, "streaming") /\ UNCHANGED temps
     ELSE Goto(u, "failing") /\ temps' = temps \ {u} /\ UNCHANGED records
  /\ UNCHANGED <<config, settings, save, target, saved, permits, called, ctxDone, files, reply>>

\* The cancel callback closes the staging file: a cancelled copy cannot end.
FinishTemp(u) ==
  /\ pc[u] = "streaming" /\ u \notin ctxDone
  /\ Goto(u, "written")
  /\ UNCHANGED <<config, settings, save, target, saved, permits, records, called, ctxDone,
                 temps, files, reply>>

\* The deferred calls of a file: its record, its callback and its staging file.
DropInHand(u) ==
  /\ records' = [records EXCEPT ![u] = "none"]
  /\ called' = called \ {u}
  /\ ctxDone' = ctxDone \ {u}
  /\ temps' = temps \ {u}

MayPromoteUncancelled(u) == u \notin ctxDone /\ StillGranted(u)
MayPromote(u) == u \notin ctxDone /\ HasBoundUploadPermit(u) /\ StillGranted(u)

EnterCommit(u) ==
  /\ pc[u] = "written" /\ MayRLock
  /\ IF MayPromote(u)
     THEN Goto(u, "committing") /\ UNCHANGED <<records, called, ctxDone, temps>>
     ELSE Goto(u, "failing") /\ DropInHand(u)
  /\ UNCHANGED <<config, settings, save, target, saved, permits, files, reply>>

\* promoteUploadNoReplace: the name may be taken, and then the next one is tried.
CommitUploadCandidate(u) ==
  /\ pc[u] = "committing"
  /\ \/ /\ u \in temps
        /\ files' = [files EXCEPT ![u] = @ + 1]
        /\ Goto(u, "landed")
        /\ UNCHANGED <<records, called, ctxDone, temps>>
     \/ Goto(u, "written") /\ UNCHANGED <<records, called, ctxDone, temps, files>>
     \/ Goto(u, "failing") /\ DropInHand(u) /\ UNCHANGED files
  /\ UNCHANGED <<config, settings, save, target, saved, permits, reply>>

FileDone(u) ==
  /\ pc[u] = "landed"
  /\ DropInHand(u)
  /\ saved' = [saved EXCEPT ![u] = @ + 1]
  /\ Goto(u, "ready")
  /\ UNCHANGED <<config, settings, save, target, permits, files, reply>>

-----------------------------------------------------------------------------
(* The end of a request.                                                    *)

\* A broken connection, a limit, a full disk, a request without a file.
GiveUp(u) ==
  /\ pc[u] \in {"asking", "permitted", "naming", "ready", "staged", "streaming", "written"}
  /\ DropInHand(u)
  /\ Goto(u, "failing")
  /\ UNCHANGED <<config, settings, save, target, saved, permits, files, reply>>

Released(u) ==
  /\ permits' = [permits EXCEPT ![u] = NoPermit]
  /\ target' = [target EXCEPT ![u] = NoTarget]
  /\ saved' = [saved EXCEPT ![u] = 0]
  /\ Goto(u, "idle")

Failed(u) ==
  /\ pc[u] = "failing"
  /\ files' = [files EXCEPT ![u] = @ - saved[u]]
  /\ reply' = [reply EXCEPT ![u] = "failed"]
  /\ Released(u)
  /\ UNCHANGED <<config, settings, save, records, called, ctxDone, temps>>

Done(u) ==
  /\ pc[u] = "ready" /\ saved[u] > 0
  /\ reply' = [reply EXCEPT ![u] = "ok"]
  /\ Released(u)
  /\ UNCHANGED <<config, settings, save, records, called, ctxDone, temps, files>>

-----------------------------------------------------------------------------
(* Cancellation by an administrator: the record first, the callback later.  *)

CancelTransfer(u) ==
  /\ records[u] = "active"
  /\ records' = [records EXCEPT ![u] = "canceling"]
  /\ called' = called \cup {u}
  /\ UNCHANGED <<config, settings, save, pc, target, saved, permits, ctxDone, temps, files,
                 reply>>

CallCancel(u) ==
  /\ u \in called
  /\ called' = called \ {u}
  /\ ctxDone' = ctxDone \cup {u}
  /\ UNCHANGED <<config, settings, save, pc, target, saved, permits, records, temps, files,
                 reply>>

-----------------------------------------------------------------------------
(* A publication: updateConfigResources under configWriteMu.                *)

\* One resource is created, updated or deleted; PrepareAtomic has written the
\* temporary file and the leases of changed ids are revoked.
PrepareSave(next) ==
  /\ save.at = "idle"
  /\ Cardinality({d \in Dirs : next[d] # config[d]}) = 1
  /\ save' = Saving("prepared", next, Changed(config, next), {})
  /\ UNCHANGED <<config, settings, pc, target, saved, permits, records, called, ctxDone,
                 temps, files, reply>>

\* Revocation or preparation failed.
AbortSave ==
  /\ save.at = "prepared"
  /\ save' = NoSave(config)
  /\ UNCHANGED <<config, settings, pc, target, saved, permits, records, called, ctxDone,
                 temps, files, reply>>

AnnounceSave ==
  /\ save.at = "prepared"
  /\ save' = [save EXCEPT !.at = "pending"]
  /\ UNCHANGED <<config, settings, pc, target, saved, permits, records, called, ctxDone,
                 temps, files, reply>>

LockGate ==
  /\ save.at = "pending" /\ Readers = {}
  /\ save' = [save EXCEPT !.at = "locked"]
  /\ UNCHANGED <<config, settings, pc, target, saved, permits, records, called, ctxDone,
                 temps, files, reply>>

\* The rename; the directory may fail to sync afterwards, which changes nothing
\* here.  When the rename fails the gate is unlocked again.
CommitSave ==
  /\ save.at = "locked"
  /\ \/ save' = [save EXCEPT !.at = "renamed"] /\ settings' = save.next
     \/ save' = NoSave(config) /\ UNCHANGED settings
  /\ UNCHANGED <<config, pc, target, saved, permits, records, called, ctxDone, temps, files,
                 reply>>

ReplaceConfig ==
  /\ save.at = "renamed"
  /\ config' = save.next
  /\ save' = [save EXCEPT !.at = "switched"]
  /\ UNCHANGED <<settings, pc, target, saved, permits, records, called, ctxDone, temps,
                 files, reply>>

Affected(u) == permits[u].dir \in save.changed

CancelRecordsOnly ==
  /\ save.at = "switched"
  /\ records' = [u \in Uploads |-> IF Affected(u) /\ records[u] = "active"
                                   THEN "canceling" ELSE records[u]]
  /\ save' = [save EXCEPT !.at = "marked",
                          !.calls = {u \in Uploads : Affected(u) /\ records[u] = "active"}]
  /\ UNCHANGED <<config, settings, pc, target, saved, permits, called, ctxDone, temps, files,
                 reply>>
CancelUploadsByDirIDs ==
  /\ save.at = "switched"
  /\ permits' = [u \in Uploads |-> IF Affected(u) THEN [permits[u] EXCEPT !.canceling = TRUE]
                                                  ELSE permits[u]]
  /\ records' = [u \in Uploads |-> IF Affected(u) /\ records[u] = "active"
                                   THEN "canceling" ELSE records[u]]
  /\ save' = [save EXCEPT !.at = "marked",
                          !.calls = {u \in Uploads : Affected(u) /\ records[u] = "active"}]
  /\ UNCHANGED <<config, settings, pc, target, saved, called, ctxDone, temps, files, reply>>

\* The callbacks of the uploads, and the end of the publication.
UnlockGate ==
  /\ save.at = "marked"
  /\ ctxDone' = ctxDone \cup {u \in save.calls : records[u] = "canceling"}
  /\ save' = NoSave(config)
  /\ UNCHANGED <<config, settings, pc, target, saved, permits, records, called, temps, files,
                 reply>>

-----------------------------------------------------------------------------
\* The process dies and starts again from the settings file.
Restart ==
  /\ config' = settings
  /\ save' = NoSave(settings)
  /\ pc' = [u \in Uploads |-> "idle"]
  /\ target' = [u \in Uploads |-> NoTarget]
  /\ saved' = [u \in Uploads |-> 0]
  /\ permits' = [u \in Uploads |-> NoPermit]
  /\ records' = [u \in Uploads |-> "none"]
  /\ called' = {} /\ ctxDone' = {} /\ temps' = {}
  /\ reply' = [u \in Uploads |-> IF reply[u] = "none" THEN "lost" ELSE reply[u]]
  /\ UNCHANGED <<settings, files>>

Moves(u) ==
  \/ EnterAcquire(u) \/ TryAcquireUploadPermit(u)
  \/ \E d \in Dirs : NameResource(u, d)
  \/ EnterBind(u) \/ BindUploadPermit(u)
  \/ CreateTemp(u) \/ EnterRegister(u) \/ RegisterUploadTransfer(u)
  \/ FinishTemp(u) \/ EnterCommit(u) \/ CommitUploadCandidate(u) \/ FileDone(u)
  \/ GiveUp(u)
Ends(u) == Failed(u) \/ Done(u)

Publishing ==
  \/ AnnounceSave \/ LockGate \/ CommitSave \/ ReplaceConfig \/ CancelUploadsByDirIDs
  \/ UnlockGate \/ AbortSave

Next ==
  \/ \E u \in Uploads :
       \/ \E d \in Dirs \cup {NoDir} : Begin(u, d)
       \/ Moves(u) \/ Ends(u) \/ CancelTransfer(u) \/ CallCancel(u)
  \/ \E next \in Configs : PrepareSave(next)
  \/ Publishing
  \/ Restart

Spec == Init /\ [][Next]_vars

-----------------------------------------------------------------------------
(* Properties.                                                              *)

\* Between the rename and the cancellation the permits of changed resources are
\* already void: nobody can use them under the write lock.
Publishes == save.at \in {"renamed", "switched"}
Void(u) == permits[u].canceling \/ (Publishes /\ Affected(u))

\* A permit that is bound and not being cancelled stands for the resource that
\* is in force, on the disk and in memory: no publication forgets an upload.
LivePermitIsCurrent ==
  \A u \in Uploads : Bound(u) /\ ~Void(u) =>
    Grants(settings, permits[u].dir, permits[u].fp)

\* A transfer that is listed as active belongs to such a permit, so that a
\* publication that cancels permits leaves no file to be copied in vain.
ActiveRecordIsPermitted ==
  \A u \in Uploads : records[u] = "active" =>
    Bound(u) /\ ~permits[u].canceling /\ permits[u].dir = target[u].dir

\* Late binding included, no limit is ever exceeded.
WithinCapacity ==
  /\ Cardinality(Held) <= Global
  /\ \A d \in Dirs : Cardinality(HeldOn(d)) <= PerResource
  /\ \A u \in Uploads : Cardinality(HeldBy(Owner[u])) <= PerOwner

\* A request that was answered with a failure leaves none of its files behind,
\* and one that was answered with success all of them.
AllOrNothing ==
  \A u \in Uploads : /\ reply[u] = "failed" => files[u] = 0
                     /\ reply[u] = "ok" => files[u] > 0

Session(u) ==
  IF ~Bound(u) THEN Closed
  ELSE IF Void(u) THEN Revoked ELSE Opened(permits[u].dir, permits[u].fp)

\* The gate keeps the promise: a file lands under the configuration that
\* authorized its request, in force without a break.
Promise == INSTANCE UploadPromise WITH
  published <- settings,
  session <- [u \in Uploads |-> Session(u)],
  landed <- files,
  answer <- reply
KeepsPromise == Promise!PromiseSpec
=============================================================================
