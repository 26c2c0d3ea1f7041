------------------------- MODULE ServerRuntimeProofs -------------------------
(***************************************************************************)
(* Theorems about ServerRuntime, for any uploads, configurations, limits   *)
(* and lives of the process.  What UploadGateProofs shows of the gate      *)
(* alone is carried over to the gate within the process.                   *)
(***************************************************************************)
EXTENDS ServerRuntime, UploadGateProofs, FiniteSetTheorems

USE DEF NoTarget, NoPermit, Goto, Grants

Busy == {u \in Uploads : pc[u] # "idle"}
One(b) == IF b THEN 1 ELSE 0

\* The two counters count who is there: the requests that were admitted, and the
\* goroutines in the wait group.
Counts ==
  /\ IsFiniteSet(Busy)
  /\ active = Cardinality(Busy) + One(admin.at # "none")
  /\ wg = One(maint.at # "done") + One(sweep.at # "none") + exiting

\* Whoever ends a life has waited for the counter of the stage before; there
\* is a publication while an administrator's request publishes, and then only; and only
\* a worker has roots pending.
Stages ==
  /\ phase \in {"closing", "closed"} => active = 0
  /\ phase = "closed" => wg = 0
  /\ save.at # "idle" <=> admin.at = "publishing"
  /\ pending # {} => sweep.at # "none"

\* The points of a request with a staging file.
Staging == InHand \cup {"landed"}

\* A request has its staging file for as long as it is at work on it; one that is
\* old is registered, and a walk has listed every old one.
Staged ==
  /\ \A u \in Uploads : u \in temps <=> pc[u] \in Staging
  /\ stale \subseteq {u \in temps : records[u] # "none"}
  /\ sweep.stale \subseteq sweep.listed

PInv == IInv /\ RuntimeTypeOK /\ Counts /\ Stages /\ Staged

-----------------------------------------------------------------------------
(* What a step of the gate does to the process.                             *)

\* A request that moves goes on, and keeps or drops its staging file and its
\* record together.
LEMMA MovesKeep ==
  ASSUME TypeOK, Staged, NEW u \in Uploads, Moves(u)
  PROVE  /\ pc[u] # "idle" /\ pc'[u] # "idle"
         /\ \A w \in Uploads \ {u} : pc'[w] = pc[w]
         /\ save' = save
         /\ temps' \subseteq Uploads
         /\ \A w \in Uploads : w \in temps' <=> pc'[w] \in Staging
         /\ \A w \in temps \cap temps' : records[w] # "none" => records'[w] # "none"
<1> USE DEF TypeOK, Staged, Staging, InHand
<1>1. CASE EnterAcquire(u) \/ TryAcquireUploadPermit(u) \/ EnterBind(u) \/ BindUploadPermit(u)
  BY <1>1 DEF EnterAcquire, TryAcquireUploadPermit, EnterBind, BindUploadPermit, EnterGate
<1>2. CASE \E d \in Dirs : NameResource(u, d)
  BY <1>2 DEF NameResource
<1>3. CASE CreateTemp(u) \/ EnterRegister(u) \/ RegisterUploadTransfer(u) \/ FinishTemp(u)
  BY <1>3 DEF CreateTemp, EnterRegister, RegisterUploadTransfer, FinishTemp
<1>4. CASE EnterCommit(u)
  BY <1>4 DEF EnterCommit, DropInHand
<1>5. CASE CommitUploadCandidate(u)
  BY <1>5 DEF CommitUploadCandidate, DropInHand
<1>6. CASE FileDone(u) \/ GiveUp(u)
  BY <1>6 DEF FileDone, GiveUp, DropInHand
<1> QED BY <1>1, <1>2, <1>3, <1>4, <1>5, <1>6 DEF Moves

\* A request ends between two files.
LEMMA EndsKeep ==
  ASSUME TypeOK, NEW u \in Uploads, Ends(u)
  PROVE  /\ pc[u] \in {"failing", "ready"} /\ pc' = [pc EXCEPT ![u] = "idle"]
         /\ UNCHANGED <<save, temps, records>>
BY DEF Ends, Failed, Done, Released, TypeOK

\* A publication moves no request and forgets no record.
LEMMA PublishingKeeps ==
  ASSUME TypeOK, Publishing
  PROVE  /\ save.at # "idle"
         /\ UNCHANGED <<pc, temps>>
         /\ \A w \in Uploads : records[w] # "none" => records'[w] # "none"
BY DEF Publishing, AnnounceSave, LockGate, CommitSave, ReplaceConfig, CancelUploadsByDirIDs,
       UnlockGate, AbortSave, TypeOK

\* Roots are among the fingerprints of resources.
LEMMA RootsType ==
  ASSUME NEW conf \in Configs, NEW dirs \in SUBSET Dirs
  PROVE  RootsOf(conf, dirs) \subseteq Fps
BY ResourceAssumption DEF RootsOf, Fps

-----------------------------------------------------------------------------
(* Steps at the gate.                                                       *)

\* One more request is counted, and admitted while the server serves only.
LEMMA BeginUploadInv ==
  ASSUME PInv, NEW u \in Uploads, BeginUpload(u)
  PROVE  PInv'
<1> PICK d \in Dirs \cup {NoDir} : Begin(u, d)
  BY DEF BeginUpload
<1>1. IInv'
  BY StepInv DEF Next, PInv
<1>2. RuntimeTypeOK'
  BY DEF PInv, RuntimeTypeOK, BeginUpload
<1>3. pc[u] = "idle" /\ pc' = [pc EXCEPT ![u] = "asking"] /\ pc \in [Uploads -> Points]
  BY DEF Begin, PInv, IInv, TypeOK
<1>4. Counts'
  <2>1. Busy' = Busy \cup {u} /\ u \notin Busy
    BY <1>3 DEF Busy
  <2>2. IsFiniteSet(Busy') /\ Cardinality(Busy') = Cardinality(Busy) + 1
    BY <2>1, FS_AddElement DEF PInv, Counts
  <2>3. Cardinality(Busy) \in Nat
    BY FS_CardinalityType DEF PInv, Counts
  <2> QED BY <2>2, <2>3 DEF PInv, Counts, One, BeginUpload
<1>5. Stages'
  BY DEF PInv, Stages, BeginUpload, Admitted, Begin
<1>6. Staged'
  BY <1>3 DEF PInv, Staged, BeginUpload, Begin, Staging, InHand
<1> QED BY <1>1, <1>2, <1>4, <1>5, <1>6 DEF PInv

\* What is old or listed is forgotten with the file.
LEMMA RunUploadInv ==
  ASSUME PInv, NEW u \in Uploads, RunUpload(u)
  PROVE  PInv'
<1>1. IInv'
  BY StepInv DEF Next, PInv, RunUpload
<1>2. /\ pc[u] # "idle" /\ pc'[u] # "idle"
      /\ \A w \in Uploads \ {u} : pc'[w] = pc[w]
      /\ save' = save
      /\ temps' \subseteq Uploads
      /\ \A w \in Uploads : w \in temps' <=> pc'[w] \in Staging
      /\ \A w \in temps \cap temps' : records[w] # "none" => records'[w] # "none"
  BY MovesKeep DEF PInv, IInv, RunUpload
<1>3. RuntimeTypeOK'
  BY DEF PInv, RuntimeTypeOK, RunUpload, Forget
<1>4. Counts'
  <2>1. Busy' = Busy
    BY <1>2 DEF Busy
  <2>2. sweep'.at = sweep.at
    BY DEF RunUpload, Forget, PInv, RuntimeTypeOK
  <2> QED BY <2>1, <2>2 DEF PInv, Counts, RunUpload
<1>5. Stages'
  BY <1>2 DEF PInv, Stages, RunUpload, Forget, RuntimeTypeOK
<1>6. Staged'
  BY <1>2 DEF PInv, Staged, RunUpload, Forget, RuntimeTypeOK
<1> QED BY <1>1, <1>3, <1>4, <1>5, <1>6 DEF PInv

\* One request less is counted.
LEMMA EndUploadInv ==
  ASSUME PInv, NEW u \in Uploads, EndUpload(u)
  PROVE  PInv'
<1>1. IInv'
  BY StepInv DEF Next, PInv, EndUpload
<1>2. /\ pc[u] \in {"failing", "ready"} /\ pc' = [pc EXCEPT ![u] = "idle"]
      /\ UNCHANGED <<save, temps, records>>
      /\ pc \in [Uploads -> Points]
  BY EndsKeep DEF PInv, IInv, EndUpload, TypeOK
<1>3. /\ IsFiniteSet(Busy') /\ Cardinality(Busy') \in Nat
      /\ Cardinality(Busy) = Cardinality(Busy') + 1
  <2>1. Busy' = Busy \ {u} /\ u \in Busy
    BY <1>2 DEF Busy
  <2>2. IsFiniteSet(Busy) /\ Cardinality(Busy) \in Nat
    BY FS_CardinalityType DEF PInv, Counts
  <2>3. IsFiniteSet(Busy') /\ Cardinality(Busy') = Cardinality(Busy) - 1
    BY <2>1, <2>2, FS_RemoveElement
  <2>4. Cardinality(Busy') \in Nat
    BY <2>3, FS_CardinalityType
  <2> QED BY <2>2, <2>3, <2>4
<1>4. active' \in Nat /\ active' = Cardinality(Busy') + One(admin'.at # "none")
  BY <1>3 DEF PInv, Counts, One, EndUpload
<1>5. RuntimeTypeOK'
  BY <1>4 DEF PInv, RuntimeTypeOK, EndUpload
<1>6. Counts'
  BY <1>3, <1>4 DEF PInv, Counts, EndUpload
<1>7. Stages'
  BY <1>2, <1>3 DEF PInv, Stages, EndUpload, Counts, One
<1>8. Staged'
  BY <1>2 DEF PInv, Staged, EndUpload, Staging, InHand
<1> QED BY <1>1, <1>5, <1>6, <1>7, <1>8 DEF PInv

\* Cancelling a transfer ends no request by itself and keeps its record.
LEMMA CancelInv ==
  ASSUME PInv, NEW u \in Uploads, Cancel(u) \/ CallBack(u)
  PROVE  PInv'
<1>1. IInv'
  BY StepInv DEF Next, PInv, Cancel, CallBack
<1>2. /\ UNCHANGED runtimeVars /\ UNCHANGED <<pc, save, temps>>
      /\ \A w \in Uploads : records[w] # "none" => records'[w] # "none"
  BY DEF Cancel, CallBack, CancelTransfer, CallCancel, PInv, IInv, TypeOK
<1>3. RuntimeTypeOK' /\ Counts' /\ Stages'
  BY <1>2 DEF PInv, RuntimeTypeOK, Counts, Busy, Stages, runtimeVars
<1>4. Staged'
  BY <1>2 DEF PInv, Staged, runtimeVars, IInv, TypeOK
<1> QED BY <1>1, <1>3, <1>4 DEF PInv

\* The request that publishes is counted too.
LEMMA BeginPublicationInv ==
  ASSUME PInv, BeginPublication
  PROVE  PInv'
<1> PICK next \in Configs : PrepareSave(next)
  BY DEF BeginPublication
<1>1. IInv'
  BY StepInv DEF Next, PInv
<1>2. UNCHANGED <<pc, temps, records>>
  BY DEF PrepareSave
<1>3. RuntimeTypeOK'
  <2>1. RootsOf(config, save'.changed) \subseteq Fps
    BY <1>1, RootsType DEF PInv, IInv, TypeOK
  <2> QED BY <2>1 DEF PInv, RuntimeTypeOK, BeginPublication, AdminPoints
<1>4. Counts'
  <2>1. Busy' = Busy /\ Cardinality(Busy) \in Nat
    BY <1>2, FS_CardinalityType DEF Busy, PInv, Counts
  <2> QED BY <2>1 DEF PInv, Counts, One, BeginPublication
<1>5. Stages'
  BY DEF PInv, Stages, BeginPublication, Admitted, PrepareSave, Saving
<1>6. Staged'
  BY <1>2 DEF PInv, Staged, BeginPublication
<1> QED BY <1>1, <1>3, <1>4, <1>5, <1>6 DEF PInv

\* The request goes on to ask for a cleanup, or ends, when its publication does.
LEMMA RunPublicationInv ==
  ASSUME PInv, RunPublication
  PROVE  PInv'
<1>1. IInv'
  BY StepInv DEF Next, PInv, RunPublication
<1>2. /\ save.at # "idle" /\ UNCHANGED <<pc, temps>>
      /\ \A w \in Uploads : records[w] # "none" => records'[w] # "none"
  BY PublishingKeeps DEF PInv, IInv, RunPublication
<1>3. /\ admin.at = "publishing" /\ admin'.at \in {"publishing", "asked", "leaving"}
      /\ save'.at # "idle" => admin'.at = "publishing"
      /\ admin' \in [at : AdminPoints, roots : SUBSET Fps]
  BY <1>2 DEF PInv, Stages, RuntimeTypeOK, RunPublication, AdminPoints
<1>4. RuntimeTypeOK'
  BY <1>3 DEF PInv, RuntimeTypeOK, RunPublication
<1>5. Counts'
  BY <1>2, <1>3 DEF PInv, Counts, Busy, One, RunPublication
<1>6. Stages'
  BY <1>3 DEF PInv, Stages, RunPublication
<1>7. Staged'
  BY <1>2 DEF PInv, Staged, RunPublication, IInv, TypeOK
<1> QED BY <1>1, <1>4, <1>5, <1>6, <1>7 DEF PInv

-----------------------------------------------------------------------------
(* Steps that leave the gate alone.                                         *)

\* Without a step of the gate, what is about requests stays as it is.
LEMMA GateQuiet ==
  ASSUME PInv, UNCHANGED vars
  PROVE  /\ IInv' /\ Busy' = Busy /\ IsFiniteSet(Busy') /\ Cardinality(Busy') \in Nat
         /\ UNCHANGED <<config, settings, save, pc, target, saved, permits, records, called,
                        ctxDone, temps, files, reply>>
BY StepInv, FS_CardinalityType DEF PInv, vars, Busy, Counts

\* The administrator's request gives up its cleanup, or is over.
LEMMA PublicationEndsInv ==
  ASSUME PInv, PublicationUnconfirmed \/ EndPublication
  PROVE  PInv'
<1>1. UNCHANGED vars
  BY DEF PublicationUnconfirmed, EndPublication
<1>2. IInv'
  BY <1>1, GateQuiet
<1>3. Counts' /\ active' \in Nat
  BY <1>1, GateQuiet DEF PInv, Counts, One, PublicationUnconfirmed, EndPublication, RuntimeTypeOK
<1>4. RuntimeTypeOK'
  BY <1>3 DEF PInv, RuntimeTypeOK, PublicationUnconfirmed, EndPublication, AdminPoints
<1>5. Stages'
  BY <1>1, <1>3, GateQuiet
  DEF PInv, Stages, PublicationUnconfirmed, EndPublication, Counts, One, RuntimeTypeOK
<1>6. Staged'
  BY <1>1, GateQuiet DEF PInv, Staged, PublicationUnconfirmed, EndPublication
<1> QED BY <1>2, <1>3, <1>4, <1>5, <1>6 DEF PInv

\* A cleanup that is asked for finds a worker or starts one, which is counted.
LEMMA TriggerKeeps ==
  ASSUME PInv, NEW roots \in SUBSET Fps, Trigger(roots)
  PROVE  /\ sweep' \in [at : SweepPoints, roots : SUBSET Fps, listed : SUBSET Uploads,
                        stale : SUBSET Uploads]
         /\ pending' \subseteq Fps /\ wg' \in Nat
         /\ wg' - wg = One(sweep'.at # "none") - One(sweep.at # "none")
         /\ sweep'.at # "none"
         /\ sweep'.stale \subseteq sweep'.listed
<1> USE DEF PInv, RuntimeTypeOK, SweepPoints
<1>1. CASE sweep.at # "none"
  BY <1>1 DEF Trigger, Staged, One
<1>2. CASE sweep.at = "none"
  <2>1. /\ sweep' = [at |-> "starting", roots |-> roots, listed |-> {}, stale |-> {}]
        /\ wg' = wg + 1 /\ pending' = pending
    BY <1>2 DEF Trigger, NoSweep
  <2>2. /\ sweep' \in [at : SweepPoints, roots : SUBSET Fps, listed : SUBSET Uploads,
                        stale : SUBSET Uploads]
        /\ sweep'.stale \subseteq sweep'.listed /\ sweep'.at = "starting"
    BY <2>1
  <2> QED BY <1>2, <2>1, <2>2 DEF One
<1> QED BY <1>1, <1>2

\* Whoever may trigger is counted himself, so that nobody has gone on without it.
LEMMA TriggersInv ==
  ASSUME PInv, AdminTriggers \/ MaintenanceTriggers
  PROVE  PInv'
<1>1. UNCHANGED vars /\ UNCHANGED <<phase, active, exiting, stale, orphans>>
  BY DEF AdminTriggers, MaintenanceTriggers
<1>2. IInv'
  BY <1>1, GateQuiet
<1>3. CASE UNCHANGED <<sweep, pending, wg>>
  <2>1. /\ admin.at # "none" <=> admin'.at # "none"
        /\ admin.at = "publishing" <=> admin'.at = "publishing"
        /\ (maint.at # "done" /\ maint'.at # "done") \/ maint' = maint
    BY <1>3 DEF AdminTriggers, MaintenanceTriggers, Maintaining, PInv, RuntimeTypeOK
  <2>2. RootsOf(config, Dirs) \subseteq Fps
    BY RootsType DEF PInv, IInv, TypeOK
  <2>3. RuntimeTypeOK'
    BY <1>1, <1>3, <2>2 DEF PInv, RuntimeTypeOK, AdminTriggers, MaintenanceTriggers, Maintaining,
       AdminPoints, MaintPoints
  <2>4. Counts' /\ Stages' /\ Staged'
    BY <1>1, <1>3, <2>1, GateQuiet DEF PInv, Counts, One, Stages, Staged
  <2> QED BY <1>2, <2>3, <2>4 DEF PInv
<1>4. CASE /\ admin.at = "agreed" /\ Trigger(admin.roots)
           /\ admin' = [admin EXCEPT !.at = "leaving"] /\ maint' = maint
  <2>1. admin.roots \in SUBSET Fps
    BY DEF PInv, RuntimeTypeOK
  <2>2. /\ phase # "closed" /\ admin'.at = "leaving"
        /\ admin' \in [at : AdminPoints, roots : SUBSET Fps]
    BY <1>4, FS_CardinalityType DEF PInv, Counts, Stages, One, RuntimeTypeOK, AdminPoints
  <2>3. RuntimeTypeOK'
    BY <1>1, <1>4, <2>1, <2>2, TriggerKeeps DEF PInv, RuntimeTypeOK
  <2>4. Counts'
    BY <1>1, <1>4, <2>1, <2>2, TriggerKeeps, GateQuiet DEF PInv, Counts, One, RuntimeTypeOK
  <2>5. Stages' /\ Staged'
    BY <1>1, <1>4, <2>1, <2>2, TriggerKeeps, GateQuiet DEF PInv, Stages, Staged
  <2> QED BY <1>2, <2>3, <2>4, <2>5 DEF PInv
<1>5. CASE /\ maint.at = "agreed" /\ Trigger(maint.roots)
           /\ maint' = Maintaining("loop") /\ admin' = admin
  <2>1. maint.roots \in SUBSET Fps
    BY DEF PInv, RuntimeTypeOK
  <2>2. /\ phase # "closed" /\ maint'.at = "loop"
        /\ maint' \in [at : MaintPoints, roots : SUBSET Fps]
    BY <1>5 DEF PInv, Counts, Stages, One, RuntimeTypeOK, MaintPoints, Maintaining
  <2>3. RuntimeTypeOK'
    BY <1>1, <1>5, <2>1, <2>2, TriggerKeeps DEF PInv, RuntimeTypeOK
  <2>4. Counts'
    BY <1>1, <1>5, <2>1, <2>2, TriggerKeeps, GateQuiet DEF PInv, Counts, One, RuntimeTypeOK
  <2>5. Stages' /\ Staged'
    BY <1>1, <1>5, <2>1, <2>2, TriggerKeeps, GateQuiet DEF PInv, Stages, Staged
  <2> QED BY <1>2, <2>3, <2>4, <2>5 DEF PInv
<1> QED BY <1>3, <1>4, <1>5 DEF AdminTriggers, MaintenanceTriggers

\* The list of running transfers holds every file that is old.
LEMMA ListActiveInv ==
  ASSUME PInv, ListActive
  PROVE  PInv'
<1>1. UNCHANGED vars
  BY DEF ListActive
<1>2. IInv'
  BY <1>1, GateQuiet
<1>3. /\ sweep'.at = "walking" /\ sweep'.stale \subseteq sweep'.listed
      /\ sweep' \in [at : SweepPoints, roots : SUBSET Fps, listed : SUBSET Uploads,
                     stale : SUBSET Uploads]
  BY DEF PInv, RuntimeTypeOK, ListActive, SweepPoints, Staged, IInv, TypeOK
<1>4. RuntimeTypeOK'
  BY <1>3 DEF PInv, RuntimeTypeOK, ListActive
<1>5. Counts' /\ Stages' /\ Staged'
  BY <1>1, <1>3, GateQuiet DEF PInv, Counts, One, Stages, Staged, ListActive
<1> QED BY <1>2, <1>4, <1>5 DEF PInv

\* So the walk removes files of earlier lives only.
LEMMA RemoveStaleInv ==
  ASSUME PInv, RemoveStale
  PROVE  PInv' /\ UNCHANGED vars
<1>1. temps' = temps /\ orphans' \subseteq Fps
  BY DEF PInv, Staged, RuntimeTypeOK, RemoveStale
<1>2. UNCHANGED vars
  BY <1>1 DEF RemoveStale, vars
<1>3. IInv'
  BY <1>2, GateQuiet
<1>4. /\ sweep'.at = sweep.at /\ sweep'.stale \subseteq sweep'.listed
      /\ sweep' \in [at : SweepPoints, roots : SUBSET Fps, listed : SUBSET Uploads,
                     stale : SUBSET Uploads]
      /\ stale' \subseteq stale
  BY <1>1 DEF PInv, RuntimeTypeOK, RemoveStale, Forget, Staged
<1>5. RuntimeTypeOK'
  BY <1>1, <1>4 DEF PInv, RuntimeTypeOK, RemoveStale
<1>6. Counts' /\ Stages' /\ Staged'
  BY <1>2, <1>4, GateQuiet DEF PInv, Counts, One, Stages, Staged, RemoveStale
<1> QED BY <1>2, <1>3, <1>5, <1>6 DEF PInv

\* A worker that gives up stays counted until it is done, and takes up what has
\* been merged meanwhile.
LEMMA SweepEndsInv ==
  ASSUME PInv, EndWalk \/ DecideSweep \/ ExitSweep
  PROVE  PInv'
<1>1. UNCHANGED vars /\ UNCHANGED <<phase, active, admin, maint, stale, orphans>>
  BY DEF EndWalk, DecideSweep, ExitSweep
<1>2. IInv'
  BY <1>1, GateQuiet
<1>3. /\ sweep' \in [at : SweepPoints, roots : SUBSET Fps, listed : SUBSET Uploads,
                     stale : SUBSET Uploads]
      /\ sweep'.stale \subseteq sweep'.listed
      /\ pending' \subseteq Fps /\ (pending' # {} => sweep'.at # "none")
  <2> USE DEF PInv, RuntimeTypeOK, SweepPoints, Staged, Stages
  <2>1. CASE EndWalk
    <3>1. /\ sweep' = [at |-> "deciding", roots |-> {}, listed |-> {}, stale |-> {}]
          /\ pending' = pending
      BY <2>1 DEF EndWalk, NoSweep
    <3> QED BY <3>1
  <2>2. CASE DecideSweep
    <3>1. \/ sweep' = [at |-> "none", roots |-> {}, listed |-> {}, stale |-> {}]
          \/ sweep' = [at |-> "starting", roots |-> pending, listed |-> {}, stale |-> {}]
      BY <2>2 DEF DecideSweep, NoSweep
    <3> QED BY <2>2, <3>1 DEF DecideSweep
  <2>3. CASE ExitSweep
    BY <2>3 DEF ExitSweep
  <2> QED BY <2>1, <2>2, <2>3
<1>4. \/ sweep'.at # "none" /\ sweep.at # "none" /\ exiting' = exiting /\ wg' = wg
      \/ sweep'.at = "none" /\ sweep.at # "none" /\ exiting' = exiting + 1 /\ wg' = wg
      \/ sweep' = sweep /\ exiting > 0 /\ exiting' = exiting - 1 /\ wg' = wg - 1
  <2>1. CASE EndWalk
    BY <2>1 DEF EndWalk, NoSweep
  <2>2. CASE DecideSweep
    <3>1. CASE pending = {}
      BY <2>2, <3>1 DEF DecideSweep, NoSweep
    <3>2. CASE pending # {}
      <4>1. /\ sweep' = [at |-> "starting", roots |-> pending, listed |-> {}, stale |-> {}]
            /\ sweep.at = "deciding" /\ exiting' = exiting /\ wg' = wg
        BY <2>2, <3>2 DEF DecideSweep, NoSweep
      <4> QED BY <4>1
    <3> QED BY <3>1, <3>2
  <2>3. CASE ExitSweep
    BY <2>3 DEF ExitSweep
  <2> QED BY <2>1, <2>2, <2>3
<1>5. wg' \in Nat /\ exiting' \in Nat /\ Counts'
  BY <1>1, <1>4, GateQuiet DEF PInv, Counts, One, RuntimeTypeOK
<1>6. RuntimeTypeOK'
  BY <1>1, <1>3, <1>5 DEF PInv, RuntimeTypeOK
<1>7. Stages'
  <2>1. wg = 0 => exiting = 0 /\ sweep.at = "none"
    BY DEF PInv, Counts, One, RuntimeTypeOK
  <2> QED BY <1>1, <1>3, <1>4, <2>1, GateQuiet DEF PInv, Stages
<1>8. Staged'
  BY <1>1, <1>3, GateQuiet DEF PInv, Staged
<1> QED BY <1>2, <1>5, <1>6, <1>7, <1>8 DEF PInv

\* Only what is registered becomes old.
LEMMA AgeInv ==
  ASSUME PInv, NEW u \in Uploads, Age(u)
  PROVE  PInv'
<1>1. UNCHANGED vars
  BY DEF Age
<1>2. RuntimeTypeOK' /\ Counts' /\ Stages' /\ Staged'
  BY <1>1, GateQuiet DEF PInv, RuntimeTypeOK, Counts, Stages, Staged, Age
<1> QED BY <1>1, <1>2, GateQuiet DEF PInv

\* The maintenance is counted until it stops.
LEMMA MaintenanceInv ==
  ASSUME PInv, MaintenanceTick \/ EndStoreMaintenance \/ StopMaintenance
  PROVE  PInv'
<1>1. UNCHANGED vars /\ UNCHANGED <<phase, active, admin, sweep, pending, exiting, stale, orphans>>
  BY DEF MaintenanceTick, EndStoreMaintenance, StopMaintenance
<1>2. IInv'
  BY <1>1, GateQuiet
<1>3. /\ maint' \in [at : MaintPoints, roots : SUBSET Fps]
      /\ \/ maint'.at # "done" /\ maint.at # "done" /\ wg' = wg
         \/ maint'.at = "done" /\ maint.at # "done" /\ wg' = wg - 1
  BY DEF MaintenanceTick, EndStoreMaintenance, StopMaintenance, Maintaining, MaintPoints
<1>4. wg' \in Nat /\ Counts' /\ wg # 0
  BY <1>1, <1>3, GateQuiet DEF PInv, Counts, One, RuntimeTypeOK
<1>5. RuntimeTypeOK'
  BY <1>1, <1>3, <1>4 DEF PInv, RuntimeTypeOK
<1>6. Stages' /\ Staged'
  BY <1>1, <1>3, <1>4, GateQuiet DEF PInv, Stages, Staged, RuntimeTypeOK
<1> QED BY <1>2, <1>4, <1>5, <1>6 DEF PInv

\* Each stage of the end waits for a counter.
LEMMA PhaseInv ==
  ASSUME PInv, BeginDrain \/ ShutdownApp \/ CloseStore
  PROVE  PInv'
<1>1. UNCHANGED vars
      /\ UNCHANGED <<active, admin, maint, wg, sweep, pending, exiting, stale, orphans>>
  BY DEF BeginDrain, ShutdownApp, CloseStore
<1>2. RuntimeTypeOK' /\ Stages'
  BY <1>1, GateQuiet DEF PInv, RuntimeTypeOK, Stages, BeginDrain, ShutdownApp, CloseStore
<1>3. Counts' /\ Staged'
  BY <1>1, GateQuiet DEF PInv, Counts, Staged
<1> QED BY <1>1, <1>2, <1>3, GateQuiet DEF PInv

\* A new life starts with nobody, and with the staging files of the last one.
LEMMA NextLifeInv ==
  ASSUME PInv, NextLife
  PROVE  PInv'
<1>1. IInv'
  BY StepInv DEF Next, PInv, NextLife
<1>2. \A u \in temps : target[u].fp \in Fps
  <2> SUFFICES ASSUME NEW u \in temps PROVE target[u].fp \in Fps
    OBVIOUS
  <2>1. u \in Uploads /\ pc[u] \in Staging
    BY DEF PInv, IInv, TypeOK, Staged
  <2>2. target[u] # NoTarget
    BY <2>1 DEF PInv, IInv, Permitted, Staging
  <2> QED BY <2>1, <2>2, TargetType DEF PInv, IInv
<1>3. RuntimeTypeOK'
  BY <1>2 DEF PInv, RuntimeTypeOK, NextLife, NoSweep, Maintaining, SweepPoints, MaintPoints,
     AdminPoints
<1>4. Counts'
  <2>1. Busy' = {}
    BY DEF NextLife, Restart, Busy
  <2> QED BY <2>1, FS_EmptySet DEF Counts, NextLife, One, NoSweep, Maintaining
<1>5. Stages' /\ Staged'
  BY DEF Stages, Staged, NextLife, Restart, NoSave, Saving, NoSweep, Staging, InHand
<1> QED BY <1>1, <1>3, <1>4, <1>5 DEF PInv

-----------------------------------------------------------------------------
(* The invariant of the process, and what follows from it.                  *)

\* The first life starts with the maintenance in the wait group.
LEMMA ProcessInitInv == RuntimeInit => PInv
<1> SUFFICES ASSUME RuntimeInit PROVE PInv
  OBVIOUS
<1>1. IInv
  BY InitInv DEF RuntimeInit
<1>2. RuntimeTypeOK
  BY DEF RuntimeInit, RuntimeTypeOK, NoSweep, Maintaining, SweepPoints, MaintPoints, AdminPoints
<1>3. Counts
  <2>1. Busy = {}
    BY DEF RuntimeInit, Init, Busy
  <2> QED BY <2>1, FS_EmptySet DEF Counts, RuntimeInit, One, NoSweep, Maintaining
<1>4. Stages /\ Staged
  BY DEF Stages, Staged, RuntimeInit, Init, NoSave, Saving, NoSweep, Staging, InHand
<1> QED BY <1>1, <1>2, <1>3, <1>4 DEF PInv

\* Every step of the process keeps the invariant, and is a step of the gate or
\* none of it: the cleanup touches no file of this life.
LEMMA ProcessStep ==
  ASSUME PInv, [ProcessNext]_processVars
  PROVE  PInv' /\ [Next]_vars
<1>1. CASE \E u \in Uploads : RunUpload(u) \/ EndUpload(u) \/ CallBack(u)
  BY <1>1, RunUploadInv, EndUploadInv, CancelInv DEF RunUpload, EndUpload, CallBack, Next
<1>2. CASE \E u \in Uploads : BeginUpload(u) \/ Cancel(u) \/ Age(u)
  BY <1>2, BeginUploadInv, CancelInv, AgeInv DEF BeginUpload, Cancel, Age, Next
<1>3. CASE BeginPublication \/ RunPublication
  BY <1>3, BeginPublicationInv, RunPublicationInv DEF BeginPublication, RunPublication, Next
<1>4. CASE PublicationUnconfirmed \/ EndPublication \/ AdminTriggers \/ MaintenanceTriggers
  BY <1>4, PublicationEndsInv, TriggersInv
     DEF PublicationUnconfirmed, EndPublication, AdminTriggers, MaintenanceTriggers
<1>5. CASE ListActive \/ EndWalk \/ DecideSweep \/ ExitSweep
  BY <1>5, ListActiveInv, SweepEndsInv DEF ListActive, EndWalk, DecideSweep, ExitSweep
<1>6. CASE RemoveStale
  BY <1>6, RemoveStaleInv
<1>7. CASE MaintenanceTick \/ EndStoreMaintenance \/ StopMaintenance
  BY <1>7, MaintenanceInv DEF MaintenanceTick, EndStoreMaintenance, StopMaintenance
<1>8. CASE BeginDrain \/ ShutdownApp \/ CloseStore
  BY <1>8, PhaseInv DEF BeginDrain, ShutdownApp, CloseStore
<1>9. CASE NextLife
  BY <1>9, NextLifeInv DEF NextLife, Next
<1>10. CASE UNCHANGED processVars
  <2>1. UNCHANGED vars /\ UNCHANGED runtimeVars
    BY <1>10 DEF processVars
  <2> QED BY <2>1, GateQuiet
          DEF runtimeVars, PInv, RuntimeTypeOK, Counts, Stages, Staged
<1> QED BY <1>1, <1>2, <1>3, <1>4, <1>5, <1>6, <1>7, <1>8, <1>9, <1>10
        DEF ProcessNext, ServerStep

(* The inductive invariant holds in every life of the process.              *)
THEOREM ProcessInvariant == ProcessSpec => []PInv
<1>1. RuntimeInit => PInv
  BY ProcessInitInv
<1>2. PInv /\ [ProcessNext]_processVars => PInv'
  BY ProcessStep
<1> QED BY <1>1, <1>2, PTL DEF ProcessSpec

(* The database is closed last: no request, publication, maintenance or     *)
(* cleanup worker is left when Shutdown closes it.                          *)
THEOREM StoreClosesLast == ProcessSpec => []StoreOutlivesUsers
<1>1. ASSUME PInv PROVE StoreOutlivesUsers
  <2> SUFFICES ASSUME phase = "closed"
               PROVE  /\ \A u \in Uploads : pc[u] = "idle"
                      /\ save.at = "idle" /\ admin.at = "none"
                      /\ maint.at = "done" /\ sweep.at = "none" /\ exiting = 0
    BY DEF StoreOutlivesUsers
  <2>1. active = 0 /\ wg = 0
    BY <1>1 DEF PInv, Stages
  <2>2. Cardinality(Busy) \in Nat /\ exiting \in Nat
    BY <1>1, FS_CardinalityType DEF PInv, Counts, RuntimeTypeOK
  <2>3. /\ Cardinality(Busy) = 0 /\ admin.at = "none"
        /\ maint.at = "done" /\ sweep.at = "none" /\ exiting = 0
    BY <1>1, <2>1, <2>2 DEF PInv, Counts, One
  <2>4. Busy = {}
    BY <1>1, <2>3, FS_EmptySet DEF PInv, Counts
  <2>5. save.at = "idle"
    BY <1>1, <2>3 DEF PInv, Stages
  <2> QED BY <2>3, <2>4, <2>5 DEF Busy
<1> QED BY <1>1, ProcessInvariant, PTL

(* Whoever has checked that it is not too late to start a cleanup worker    *)
(* starts it while the shutdown still waits for somebody.                   *)
THEOREM WaitsForWorkers == ProcessSpec => []NoAddAfterWait
<1>1. ASSUME PInv PROVE NoAddAfterWait
  <2>1. Cardinality(Busy) \in Nat /\ exiting \in Nat
    BY <1>1, FS_CardinalityType DEF PInv, Counts, RuntimeTypeOK
  <2>2. admin.at = "agreed" => active > 0
    BY <1>1, <2>1 DEF PInv, Counts, One
  <2>3. maint.at = "agreed" => wg > 0
    BY <1>1, <2>1 DEF PInv, Counts, One
  <2> QED BY <1>1, <2>2, <2>3 DEF PInv, Stages, NoAddAfterWait
<1> QED BY <1>1, ProcessInvariant, PTL

(* Roots that were merged into the list of a worker have a worker to come.  *)
THEOREM CleanupsAreRemembered == ProcessSpec => []NoCleanupIsForgotten
<1>1. PInv => NoCleanupIsForgotten
  BY DEF PInv, Stages, NoCleanupIsForgotten
<1> QED BY <1>1, ProcessInvariant, PTL

(* No sweep takes the staging file of a transfer that may yet land, however *)
(* old it is.                                                               *)
THEOREM StreamsKeepTheirTemps == ProcessSpec => []StreamingKeepsItsTemp
<1>1. PInv => StreamingKeepsItsTemp
  BY DEF PInv, Staged, Staging, InHand, StreamingKeepsItsTemp
<1> QED BY <1>1, ProcessInvariant, PTL

(* Not everybody waits in a server that drains: the gate is closed to       *)
(* requests only while a publication is at work or waits for requests in    *)
(* it, and the counters that an end waits for count who goes on.            *)
THEOREM DrainIsNeverStuck == ProcessSpec => []DrainGoesOn
<1>1. ASSUME PInv, phase \in {"draining", "closing"} PROVE SomebodyGoesOn
  <2> SUFFICES ASSUME ~SomebodyGoesOn PROVE FALSE
    OBVIOUS
  <2>1. exiting = 0 /\ sweep.at = "none" /\ maint.at = "done" /\ admin.at \in {"none", "publishing"}
    <3>1. exiting \in Nat /\ sweep.at \in SweepPoints /\ admin.at \in AdminPoints
      BY <1>1 DEF PInv, RuntimeTypeOK
    <3>2. maint.at = "done" /\ ~(exiting > 0)
      BY DEF SomebodyGoesOn
    <3>3. exiting = 0
      BY <3>1, <3>2
    <3>4. exiting < MaxExiting
      BY <3>3, ExitingAssumption
    <3> QED BY <3>1, <3>2, <3>3, <3>4 DEF SomebodyGoesOn, SweepPoints, AdminPoints
  <2>2. save.at = "idle"
    <3>1. ~PublicationGoesOn /\ \A u \in Uploads : ~GoesOn(u)
      BY DEF SomebodyGoesOn
    <3>2. \A u \in Readers : GoesOn(u)
      BY DEF Readers, InGate, GoesOn
    <3>3. Readers = {}
      BY <3>1, <3>2 DEF Readers
    <3> QED BY <3>1, <3>3 DEF PublicationGoesOn
  <2>3. Busy = {}
    BY <2>2 DEF SomebodyGoesOn, GoesOn, MayRLock, Busy
  <2>4. active = 0 /\ wg = 0
    <3>1. admin.at = "none"
      BY <1>1, <2>1, <2>2 DEF PInv, Stages
    <3> QED BY <1>1, <2>1, <2>3, <3>1, FS_EmptySet DEF PInv, Counts, One
  <2> QED BY <1>1, <2>4 DEF SomebodyGoesOn
<1> QED BY <1>1, ProcessInvariant, PTL DEF DrainGoesOn

(* Admission, drain and cleanup add nothing to what the gate does: a life   *)
(* of the process is one of UploadGate, and keeps all that it promises.     *)
THEOREM ProcessRunsGate == ProcessSpec => Spec
<1>1. RuntimeInit => Init
  BY DEF RuntimeInit
<1>2. PInv /\ [ProcessNext]_processVars => [Next]_vars
  BY ProcessStep
<1> QED BY <1>1, <1>2, ProcessInvariant, PTL DEF ProcessSpec, Spec

(* Within the process too, whoever holds a live bound permit holds it under *)
(* the published configuration.                                             *)
THEOREM ProcessKeepsPermits == ProcessSpec => []LivePermitIsCurrent
BY ProcessRunsGate, LivePermitsAreCurrent

(* Within the process too, the uploads that hold permits stay within the    *)
(* global limit, that of their resource and that of their owner.            *)
THEOREM ProcessKeepsLimits == ProcessSpec => []WithinCapacity
BY ProcessRunsGate, CapacityHolds

(* The process implements UploadPromise: whatever it admits, sweeps, drains *)
(* or restarts, a file lands under the configuration that authorized it.    *)
THEOREM ProcessKeepsPromise == ProcessSpec => KeepsPromise
BY ProcessRunsGate, GateKeepsPromise
=============================================================================
