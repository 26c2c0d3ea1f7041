--------------------------- MODULE UploadGateProofs ---------------------------
(***************************************************************************)
(* Theorems about UploadGate, for every set of uploads, resources and      *)
(* configurations and every limit.                                         *)
(***************************************************************************)
EXTENDS UploadGate, TLAPS, FiniteSetTheorems

(* What a request has told and undone so far: its files are those it saved, *)
(* and one more between the promotion and the end of a file.                *)
InFile == {"streaming", "written", "committing", "landed"}
Accounted(u) ==
  /\ reply[u] = "none" <=> pc[u] # "idle"
  /\ pc[u] # "idle" => files[u] = saved[u] + (IF pc[u] = "landed" THEN 1 ELSE 0)
  /\ pc[u] \in {"idle", "asking", "acquiring", "permitted", "naming", "binding"} => saved[u] = 0
  /\ reply[u] = "failed" => files[u] = 0
  /\ reply[u] = "ok" => files[u] > 0

(* Where a request has a permit, and for what.                              *)
Permitted(u) ==
  /\ pc[u] \in {"idle", "asking", "acquiring"} => permits[u] = NoPermit
  /\ pc[u] \in {"permitted", "naming", "binding", "ready", "landed"} \cup InHand => permits[u].held
  /\ pc[u] \in {"ready", "landed"} \cup InHand =>
       target[u] # NoTarget /\ permits[u].dir = target[u].dir /\ permits[u].fp = target[u].fp
  /\ pc[u] \in {"naming", "binding"} => target[u] # NoTarget
  /\ permits[u].dir = NoDir => permits[u].fp = NoFp /\ ~permits[u].canceling
  /\ ~permits[u].held => permits[u] = NoPermit

(* The registry knows a file only while it is in hand.                      *)
Registered(u) ==
  /\ records[u] # "none" => pc[u] \in InFile
  /\ records[u] = "active" => ~permits[u].canceling

(* The file is ahead of the memory only between the rename and the switch,  *)
(* under the write lock, and what a publication takes away was worked out   *)
(* from the configuration that is still in force.                           *)
SaveOK ==
  /\ save.at # "renamed" => config = settings
  /\ save.at = "renamed" => settings = save.next
  /\ save.at \in {"prepared", "pending", "locked"} => save.changed = Changed(config, save.next)

(* Inside the gate nothing is published, so a check made on entering holds. *)
GateOK ==
  /\ save.at \in {"locked", "renamed", "switched", "marked"} => Readers = {}
  /\ \A u \in Uploads :
       /\ pc[u] \in {"acquiring", "binding", "registering", "committing"} =>
            target[u] = NoTarget \/ StillGranted(u)
       /\ pc[u] = "committing" => HasBoundUploadPermit(u)

IInv ==
  /\ TypeOK /\ SaveOK /\ GateOK /\ LivePermitIsCurrent
  /\ \A u \in Uploads : Accounted(u) /\ Permitted(u) /\ Registered(u)

USE DEF NoTarget, NoPermit, Goto, Grants

\* A request that means to write somewhere means a configured resource.
LEMMA TargetType ==
  ASSUME TypeOK, NEW u \in Uploads
  PROVE  /\ target[u].dir \in Dirs \cup {NoDir} /\ target[u].fp \in Fps \cup {NoFp}
         /\ target[u] # NoTarget => target[u].dir \in Dirs /\ target[u].fp \in Fps
         /\ target[u].dir = NoDir <=> target[u] = NoTarget
BY ResourceAssumption DEF TypeOK, Targets

\* What an id stands for has a fingerprint.
LEMMA ResourceType ==
  ASSUME TypeOK, NEW d \in Dirs, config[d] # Absent
  PROVE  /\ config[d] \in Resources /\ Fingerprint[config[d]] \in Fps
         /\ [dir |-> d, fp |-> Fingerprint[config[d]]] \in Targets \ {NoTarget}
<1>1. config[d] \in Resources
  BY ResourceAssumption DEF TypeOK
<1>2. Fingerprint[config[d]] \in Fps
  BY <1>1 DEF Fps
<1> QED BY <1>1, <1>2, ResourceAssumption DEF Targets

\* A request arrives and knows what it wants, or not yet.
LEMMA BeginInv ==
  ASSUME IInv, NEW u \in Uploads, NEW d \in Dirs \cup {NoDir}, Begin(u, d)
  PROVE  IInv'
<1>1. TypeOK'
  BY ResourceAssumption DEF IInv, Begin, TypeOK, Targets, Permits, Points, InGate, Fps, Answers
<1>2. SaveOK'
  BY DEF Begin, SaveOK, IInv
<1>3. GateOK'
  BY DEF IInv, Begin, GateOK, SaveOK, Readers, HasBoundUploadPermit, Bound, InGate, StillGranted
<1>4. LivePermitIsCurrent'
  BY DEF IInv, Begin, LivePermitIsCurrent, Bound, Publishes, Affected, Void
<1>5. (\A w \in Uploads : Accounted(w))'
  BY DEF Begin, Accounted, TypeOK, IInv
<1>6. (\A w \in Uploads : Permitted(w))'
  BY DEF IInv, Begin, TypeOK, InHand, Permitted
<1>7. (\A w \in Uploads : Registered(w))'
  BY DEF IInv, Registered, InFile, Begin
<1> QED BY <1>1, <1>2, <1>3, <1>4, <1>5, <1>6, <1>7 DEF IInv

\* Entering the gate does nothing but check; likewise below.
LEMMA EnterAcquireInv ==
  ASSUME IInv, NEW u \in Uploads, EnterAcquire(u)
  PROVE  IInv'
<1>1. TypeOK'
  BY DEF IInv, EnterAcquire, TypeOK, Points, InGate, EnterGate
<1>2. SaveOK'
  BY DEF IInv, SaveOK, EnterAcquire
<1>3. GateOK'
  BY DEF IInv, EnterAcquire, EnterGate, GateOK, StillGranted, HasBoundUploadPermit, MayRLock, Bound
<1>4. LivePermitIsCurrent'
  BY DEF IInv, EnterAcquire, EnterGate, LivePermitIsCurrent, Bound, Publishes, Affected, Void
<1>5. (\A w \in Uploads : Accounted(w))'
  BY DEF IInv, EnterGate, Accounted, EnterAcquire
<1>6. (\A w \in Uploads : Permitted(w))'
  BY DEF IInv, EnterAcquire, EnterGate, TypeOK, InHand, Permitted
<1>7. (\A w \in Uploads : Registered(w))'
  BY DEF IInv, EnterAcquire, Registered, InFile, EnterGate
<1> QED BY <1>1, <1>2, <1>3, <1>4, <1>5, <1>6, <1>7 DEF IInv

\* A permit is given for a target checked in the same turn at the gate.
LEMMA TryAcquireUploadPermitInv ==
  ASSUME IInv, NEW u \in Uploads, TryAcquireUploadPermit(u)
  PROVE  IInv'
<1>1. TypeOK'
  <2>1. /\ [held |-> TRUE, dir |-> target[u].dir, fp |-> target[u].fp,
            canceling |-> FALSE] \in Permits
        /\ permits \in [Uploads -> Permits]
    BY TargetType DEF IInv, TypeOK, Permits
  <2>2. permits' \in [Uploads -> Permits]
    BY <2>1 DEF TryAcquireUploadPermit
  <2> QED BY <2>2 DEF TryAcquireUploadPermit, TypeOK, Points, IInv
<1>2. SaveOK'
  BY DEF TryAcquireUploadPermit, SaveOK, IInv
<1>3. GateOK'
  BY DEF IInv, TryAcquireUploadPermit, GateOK, SaveOK, Readers, StillGranted,
       HasBoundUploadPermit, InGate, TypeOK, Bound
<1>4. LivePermitIsCurrent'
  BY DEF IInv, TryAcquireUploadPermit, LivePermitIsCurrent, Bound, Void, Publishes, Affected,
       GateOK, SaveOK, StillGranted, Readers, InGate, TypeOK
<1>5. (\A w \in Uploads : Accounted(w))'
  BY DEF TryAcquireUploadPermit, Accounted, TypeOK, IInv
<1>6. (\A w \in Uploads : Permitted(w))'
  <2> SUFFICES ASSUME NEW w \in Uploads
               PROVE  Permitted(w)'
    OBVIOUS
  <2>1. CASE w # u
    <3>1. /\ pc'[w] = pc[w] /\ target'[w] = target[w] /\ permits'[w] = permits[w]
      BY <2>1 DEF TryAcquireUploadPermit, Goto, IInv, TypeOK
    <3> QED BY <3>1 DEF IInv, Permitted
  <2> USE DEF IInv, TryAcquireUploadPermit, Permitted
  <2>2. CASE w = u /\ HasRoom(u)
    BY TargetType, <2>2 DEF TypeOK, InHand
  <2>3. CASE w = u /\ ~HasRoom(u)
    BY <2>3 DEF TypeOK, InHand
  <2> QED BY <2>1, <2>2, <2>3
<1>7. (\A w \in Uploads : Registered(w))'
  BY DEF IInv, Registered, TypeOK, InFile, TryAcquireUploadPermit
<1> QED BY <1>1, <1>2, <1>3, <1>4, <1>5, <1>6, <1>7 DEF IInv

\* A form names its resource: nothing is granted by that.
LEMMA NameResourceInv ==
  ASSUME IInv, NEW u \in Uploads, NEW d \in Dirs, NameResource(u, d)
  PROVE  IInv'
<1>1. TypeOK'
  <2>1. target' \in [Uploads -> Targets]
    BY ResourceType DEF IInv, NameResource, TypeOK
  <2> QED BY <2>1 DEF NameResource, TypeOK, Points, IInv
<1>2. SaveOK'
  BY DEF NameResource, SaveOK, IInv
<1>3. GateOK'
  BY DEF IInv, NameResource, GateOK, SaveOK, Readers, HasBoundUploadPermit, Bound, InGate,
       StillGranted
<1>4. LivePermitIsCurrent'
  BY DEF IInv, NameResource, LivePermitIsCurrent, Bound, Publishes, Affected, Void
<1>5. (\A w \in Uploads : Accounted(w))'
  BY DEF NameResource, Accounted, IInv
<1>6. (\A w \in Uploads : Permitted(w))'
  <2> SUFFICES ASSUME NEW w \in Uploads
               PROVE  Permitted(w)'
    OBVIOUS
  <2>1. CASE w # u
    BY <2>1 DEF NameResource, Permitted, TypeOK, IInv
  <2>2. CASE w = u
    <3>1. target'[u] # NoTarget /\ pc'[u] = "naming" /\ permits'[u] = permits[u]
      BY ResourceType DEF IInv, NameResource, TypeOK
    <3> QED BY <2>2, <3>1 DEF IInv, Permitted, InHand, NameResource
  <2> QED BY <2>1, <2>2
<1>7. (\A w \in Uploads : Registered(w))'
  BY DEF IInv, Registered, InFile, NameResource
<1> QED BY <1>1, <1>2, <1>3, <1>4, <1>5, <1>6, <1>7 DEF IInv

\* The resource is looked at again on entering, inside the gate.
LEMMA EnterBindInv ==
  ASSUME IInv, NEW u \in Uploads, EnterBind(u)
  PROVE  IInv'
<1>1. TypeOK'
  BY DEF IInv, EnterBind, TypeOK, Points, InGate, EnterGate
<1>2. SaveOK'
  BY DEF IInv, SaveOK, EnterBind
<1>3. GateOK'
  BY DEF IInv, EnterBind, EnterGate, GateOK, StillGranted, HasBoundUploadPermit, MayRLock, Bound
<1>4. LivePermitIsCurrent'
  BY DEF IInv, EnterBind, EnterGate, LivePermitIsCurrent, Bound, Publishes, Affected, Void
<1>5. (\A w \in Uploads : Accounted(w))'
  BY DEF IInv, EnterGate, Accounted, EnterBind
<1>6. (\A w \in Uploads : Permitted(w))'
  BY DEF IInv, EnterBind, EnterGate, TypeOK, InHand, Permitted
<1>7. (\A w \in Uploads : Registered(w))'
  BY DEF IInv, EnterBind, Registered, InFile, EnterGate
<1> QED BY <1>1, <1>2, <1>3, <1>4, <1>5, <1>6, <1>7 DEF IInv

\* A late permit is bound to what is in force while nothing can be published.
LEMMA BindUploadPermitInv ==
  ASSUME IInv, NEW u \in Uploads, BindUploadPermit(u)
  PROVE  IInv'
<1>1. TypeOK'
  <2>1. permits \in [Uploads -> Permits] /\ permits[u] \in Permits
    BY DEF IInv, TypeOK
  <2>2. [permits[u] EXCEPT !.dir = target[u].dir, !.fp = target[u].fp] \in Permits
    BY <2>1, TargetType DEF IInv, Permits
  <2>3. permits' \in [Uploads -> Permits]
    BY <2>1, <2>2 DEF BindUploadPermit
  <2> QED BY <2>3 DEF BindUploadPermit, TypeOK, Points, IInv
<1>2. SaveOK'
  BY DEF BindUploadPermit, SaveOK, IInv
<1>3. GateOK'
  BY DEF IInv, BindUploadPermit, GateOK, SaveOK, Readers, StillGranted, HasBoundUploadPermit,
       InGate, TypeOK, Bound
<1>4. LivePermitIsCurrent'
  <2>1. save.at \notin {"locked", "renamed", "switched", "marked"}
    BY DEF IInv, GateOK, Readers, InGate, BindUploadPermit
  <2>2. config = settings /\ target[u] # NoTarget /\ StillGranted(u)
    BY <2>1 DEF IInv, SaveOK, GateOK, Permitted, BindUploadPermit
  <2> SUFFICES ASSUME NEW w \in Uploads, (Bound(w) /\ ~Void(w))'
               PROVE  Grants(settings, permits[w].dir, permits[w].fp)'
    BY DEF LivePermitIsCurrent
  <2>3. CASE permits'[w] = permits[w]
    BY <2>3 DEF IInv, BindUploadPermit, LivePermitIsCurrent, Void, Publishes, Affected, Bound
  <2>4. CASE w = u /\ permits'[u] = [permits[u] EXCEPT !.dir = target[u].dir, !.fp = target[u].fp]
    BY <2>4, <2>2 DEF BindUploadPermit, StillGranted
  <2>5. permits \in [Uploads -> Permits]
    BY DEF IInv, TypeOK
  <2>6. \/ permits' = permits
        \/ permits' = [permits EXCEPT ![u].dir = target[u].dir, ![u].fp = target[u].fp]
    BY DEF BindUploadPermit
  <2> QED BY <2>3, <2>4, <2>5, <2>6
<1>5. (\A w \in Uploads : Accounted(w))'
  BY DEF BindUploadPermit, Accounted, TypeOK, IInv
<1>6. (\A w \in Uploads : Permitted(w))'
  <2> SUFFICES ASSUME NEW w \in Uploads
               PROVE  Permitted(w)'
    OBVIOUS
  <2>1. CASE w # u
    <3>1. /\ pc'[w] = pc[w] /\ target'[w] = target[w] /\ permits'[w] = permits[w]
      BY <2>1 DEF BindUploadPermit, Goto, IInv, TypeOK
    <3> QED BY <3>1 DEF IInv, Permitted
  <2> USE DEF IInv, BindUploadPermit, Permitted
  <2>2. CASE w = u /\ permits'[u] = permits[u] /\ pc'[u] = "failing"
    BY <2>2 DEF InHand
  <2>3. CASE /\ w = u /\ pc'[u] = "ready"
             /\ permits'[u] = [permits[u] EXCEPT !.dir = target[u].dir, !.fp = target[u].fp]
    BY <2>3, TargetType
  <2> QED BY <2>1, <2>2, <2>3 DEF TypeOK
<1>7. (\A w \in Uploads : Registered(w))'
  BY DEF IInv, Registered, TypeOK, InFile, BindUploadPermit
<1> QED BY <1>1, <1>2, <1>3, <1>4, <1>5, <1>6, <1>7 DEF IInv

\* A file in hand is no more than a staging file.
LEMMA CreateTempInv ==
  ASSUME IInv, NEW u \in Uploads, CreateTemp(u)
  PROVE  IInv'
<1>1. TypeOK'
  BY DEF IInv, CreateTemp, TypeOK, InHand, Points
<1>2. SaveOK'
  BY DEF CreateTemp, SaveOK, IInv
<1>3. GateOK'
  BY DEF IInv, CreateTemp, GateOK, SaveOK, Readers, HasBoundUploadPermit, Bound, InGate,
       StillGranted
<1>4. LivePermitIsCurrent'
  BY DEF IInv, CreateTemp, LivePermitIsCurrent, Bound, Publishes, Affected, Void
<1>5. (\A w \in Uploads : Accounted(w))'
  BY DEF CreateTemp, Accounted, IInv
<1>6. (\A w \in Uploads : Permitted(w))'
  BY DEF CreateTemp, Permitted, TypeOK, IInv
<1>7. (\A w \in Uploads : Registered(w))'
  BY DEF IInv, Registered, InFile, CreateTemp
<1> QED BY <1>1, <1>2, <1>3, <1>4, <1>5, <1>6, <1>7 DEF IInv

\* The permit and the resource are checked on entering.
LEMMA EnterRegisterInv ==
  ASSUME IInv, NEW u \in Uploads, EnterRegister(u)
  PROVE  IInv'
<1>1. TypeOK'
  BY DEF IInv, TypeOK, Points, InGate, EnterRegister
<1>2. SaveOK'
  BY DEF EnterRegister, SaveOK, IInv
<1>3. GateOK'
  BY DEF IInv, EnterRegister, GateOK, StillGranted, HasBoundUploadPermit, MayRLock, TypeOK, Bound
<1>4. LivePermitIsCurrent'
  BY DEF IInv, EnterRegister, LivePermitIsCurrent, Bound, Publishes, Affected, Void
<1>5. (\A w \in Uploads : Accounted(w))'
  BY DEF EnterRegister, Accounted, TypeOK, IInv
<1>6. (\A w \in Uploads : Permitted(w))'
  BY DEF IInv, EnterRegister, TypeOK, InHand, Permitted
<1>7. (\A w \in Uploads : Registered(w))'
  BY DEF IInv, EnterRegister, Registered, TypeOK, InFile, Permitted
<1> QED BY <1>1, <1>2, <1>3, <1>4, <1>5, <1>6, <1>7 DEF IInv

\* A record becomes active only under a permit that is not being cancelled.
LEMMA RegisterUploadTransferInv ==
  ASSUME IInv, NEW u \in Uploads, RegisterUploadTransfer(u)
  PROVE  IInv'
<1>1. TypeOK'
  BY DEF IInv, RegisterUploadTransfer, TypeOK, Points, InGate, InHand
<1>2. SaveOK'
  BY DEF RegisterUploadTransfer, SaveOK, IInv
<1>3. GateOK'
  BY DEF IInv, RegisterUploadTransfer, GateOK, SaveOK, Readers, StillGranted,
       HasBoundUploadPermit, InGate, TypeOK, Bound
<1>4. LivePermitIsCurrent'
  BY DEF IInv, RegisterUploadTransfer, LivePermitIsCurrent, Bound, Publishes, Affected, Void
<1>5. (\A w \in Uploads : Accounted(w))'
  BY DEF RegisterUploadTransfer, Accounted, TypeOK, IInv
<1>6. (\A w \in Uploads : Permitted(w))'
  BY DEF IInv, RegisterUploadTransfer, TypeOK, InHand, Permitted
<1>7. (\A w \in Uploads : Registered(w))'
  BY DEF IInv, RegisterUploadTransfer, Registered, InFile, HasBoundUploadPermit, TypeOK
<1> QED BY <1>1, <1>2, <1>3, <1>4, <1>5, <1>6, <1>7 DEF IInv

\* A file that is complete is still in hand.
LEMMA FinishTempInv ==
  ASSUME IInv, NEW u \in Uploads, FinishTemp(u)
  PROVE  IInv'
<1>1. TypeOK'
  BY DEF IInv, FinishTemp, TypeOK, InHand, Points
<1>2. SaveOK'
  BY DEF FinishTemp, SaveOK, IInv
<1>3. GateOK'
  BY DEF IInv, FinishTemp, GateOK, SaveOK, Readers, HasBoundUploadPermit, Bound, InGate,
       StillGranted
<1>4. LivePermitIsCurrent'
  BY DEF IInv, FinishTemp, LivePermitIsCurrent, Bound, Publishes, Affected, Void
<1>5. (\A w \in Uploads : Accounted(w))'
  BY DEF FinishTemp, Accounted, IInv
<1>6. (\A w \in Uploads : Permitted(w))'
  BY DEF IInv, FinishTemp, TypeOK, InHand, Permitted
<1>7. (\A w \in Uploads : Registered(w))'
  BY DEF IInv, Registered, InFile, FinishTemp
<1> QED BY <1>1, <1>2, <1>3, <1>4, <1>5, <1>6, <1>7 DEF IInv

\* Before a file is promoted its permit and its resource are checked once more.
LEMMA EnterCommitInv ==
  ASSUME IInv, NEW u \in Uploads, EnterCommit(u)
  PROVE  IInv'
<1>1. TypeOK'
  BY DEF IInv, EnterCommit, DropInHand, TypeOK, Points, InGate, InHand
<1>2. SaveOK'
  BY DEF EnterCommit, SaveOK, IInv
<1>3. GateOK'
  BY DEF IInv, EnterCommit, DropInHand, MayPromote, GateOK, StillGranted, HasBoundUploadPermit,
       MayRLock, TypeOK, Bound
<1>4. LivePermitIsCurrent'
  BY DEF IInv, EnterCommit, LivePermitIsCurrent, Bound, Publishes, Affected, Void
<1>5. (\A w \in Uploads : Accounted(w))'
  BY DEF EnterCommit, Accounted, TypeOK, IInv
<1>6. (\A w \in Uploads : Permitted(w))'
  BY DEF IInv, EnterCommit, TypeOK, InHand, Permitted
<1>7. (\A w \in Uploads : Registered(w))'
  BY DEF IInv, EnterCommit, DropInHand, Registered, TypeOK, InFile
<1> QED BY <1>1, <1>2, <1>3, <1>4, <1>5, <1>6, <1>7 DEF IInv

\* A promoted file counts as landed before it counts as saved.
LEMMA CommitUploadCandidateInv ==
  ASSUME IInv, NEW u \in Uploads, CommitUploadCandidate(u)
  PROVE  IInv'
<1>1. TypeOK'
  <2>1. files' \in [Uploads -> Nat]
    BY DEF IInv, CommitUploadCandidate, TypeOK
  <2> QED BY <2>1 DEF IInv, CommitUploadCandidate, DropInHand, Points, InHand, TypeOK
<1>2. SaveOK'
  BY DEF IInv, SaveOK, CommitUploadCandidate
<1>3. GateOK'
  BY DEF IInv, CommitUploadCandidate, DropInHand, GateOK, SaveOK, Readers, StillGranted,
       HasBoundUploadPermit, InGate, TypeOK, Bound
<1>4. LivePermitIsCurrent'
  BY DEF IInv, CommitUploadCandidate, DropInHand, LivePermitIsCurrent, Bound, Publishes, Affected,
       Void
<1>5. (\A w \in Uploads : Accounted(w))'
  BY DEF IInv, Accounted, TypeOK, CommitUploadCandidate
<1>6. (\A w \in Uploads : Permitted(w))'
  BY DEF IInv, CommitUploadCandidate, DropInHand, TypeOK, InHand, Permitted
<1>7. (\A w \in Uploads : Registered(w))'
  BY DEF IInv, CommitUploadCandidate, Registered, TypeOK, InFile, DropInHand
<1> QED BY <1>1, <1>2, <1>3, <1>4, <1>5, <1>6, <1>7 DEF IInv

\* A file that has landed is counted, its record goes.
LEMMA FileDoneInv ==
  ASSUME IInv, NEW u \in Uploads, FileDone(u)
  PROVE  IInv'
<1>1. TypeOK'
  BY DEF IInv, FileDone, TypeOK, Points, DropInHand
<1>2. SaveOK'
  BY DEF IInv, SaveOK, FileDone
<1>3. GateOK'
  BY DEF IInv, FileDone, DropInHand, GateOK, SaveOK, Readers, HasBoundUploadPermit, Bound, InGate,
       StillGranted
<1>4. LivePermitIsCurrent'
  BY DEF IInv, FileDone, DropInHand, LivePermitIsCurrent, Bound, Publishes, Affected, Void
<1>5. (\A w \in Uploads : Accounted(w))'
  BY DEF IInv, Accounted, TypeOK, FileDone
<1>6. (\A w \in Uploads : Permitted(w))'
  BY DEF IInv, Permitted, TypeOK, FileDone
<1>7. (\A w \in Uploads : Registered(w))'
  BY DEF IInv, FileDone, Registered, TypeOK, DropInHand
<1> QED BY <1>1, <1>2, <1>3, <1>4, <1>5, <1>6, <1>7 DEF IInv

\* A file that is given up leaves its record and its staging file behind it.
LEMMA GiveUpInv ==
  ASSUME IInv, NEW u \in Uploads, GiveUp(u)
  PROVE  IInv'
<1>1. TypeOK'
  BY DEF IInv, GiveUp, TypeOK, Points, DropInHand
<1>2. SaveOK'
  BY DEF IInv, SaveOK, GiveUp
<1>3. GateOK'
  BY DEF IInv, GiveUp, DropInHand, GateOK, SaveOK, Readers, HasBoundUploadPermit, Bound, InGate,
       StillGranted
<1>4. LivePermitIsCurrent'
  BY DEF IInv, GiveUp, DropInHand, LivePermitIsCurrent, Bound, Publishes, Affected, Void
<1>5. (\A w \in Uploads : Accounted(w))'
  BY DEF IInv, Accounted, GiveUp
<1>6. (\A w \in Uploads : Permitted(w))'
  BY DEF IInv, GiveUp, DropInHand, TypeOK, InHand, Permitted
<1>7. (\A w \in Uploads : Registered(w))'
  BY DEF IInv, GiveUp, Registered, TypeOK, DropInHand
<1> QED BY <1>1, <1>2, <1>3, <1>4, <1>5, <1>6, <1>7 DEF IInv

\* A request that fails removes all it has saved.
LEMMA FailedInv ==
  ASSUME IInv, NEW u \in Uploads, Failed(u)
  PROVE  IInv'
<1>1. TypeOK'
  <2>1. files[u] - saved[u] = 0
    BY DEF Failed, Accounted, TypeOK, IInv
  <2>2. files' \in [Uploads -> Nat]
    BY <2>1 DEF IInv, Failed, TypeOK
  <2> QED BY <2>2 DEF IInv, Failed, Released, TypeOK, Permits, Points, Answers, Targets
<1>2. SaveOK'
  BY DEF IInv, SaveOK, Failed
<1>3. GateOK'
  BY DEF IInv, Failed, Released, GateOK, SaveOK, Readers, HasBoundUploadPermit, Bound, InGate,
       StillGranted
<1>4. LivePermitIsCurrent'
  BY DEF IInv, Failed, Released, LivePermitIsCurrent, Bound, Publishes, Affected, Void
<1>5. (\A w \in Uploads : Accounted(w))'
  BY DEF IInv, Released, Accounted, TypeOK, Failed
<1>6. (\A w \in Uploads : Permitted(w))'
  BY DEF IInv, Failed, Released, TypeOK, InHand, Permitted
<1>7. (\A w \in Uploads : Registered(w))'
  BY DEF IInv, Failed, Registered, InFile, Released
<1> QED BY <1>1, <1>2, <1>3, <1>4, <1>5, <1>6, <1>7 DEF IInv

\* A request that succeeds has saved something.
LEMMA DoneInv ==
  ASSUME IInv, NEW u \in Uploads, Done(u)
  PROVE  IInv'
<1>1. TypeOK'
  BY DEF IInv, Done, Released, TypeOK, Targets, Permits, Answers, Points
<1>2. SaveOK'
  BY DEF IInv, SaveOK, Done
<1>3. GateOK'
  BY DEF IInv, Done, Released, GateOK, SaveOK, Readers, HasBoundUploadPermit, Bound, InGate,
       StillGranted
<1>4. LivePermitIsCurrent'
  BY DEF IInv, Done, Released, LivePermitIsCurrent, Bound, Publishes, Affected, Void
<1>5. (\A w \in Uploads : Accounted(w))'
  BY DEF IInv, Released, Accounted, TypeOK, Done
<1>6. (\A w \in Uploads : Permitted(w))'
  BY DEF IInv, Done, Released, TypeOK, InHand, Permitted
<1>7. (\A w \in Uploads : Registered(w))'
  BY DEF IInv, Done, Registered, InFile, Released
<1> QED BY <1>1, <1>2, <1>3, <1>4, <1>5, <1>6, <1>7 DEF IInv

\* A record is marked first,
LEMMA CancelTransferInv ==
  ASSUME IInv, NEW u \in Uploads, CancelTransfer(u)
  PROVE  IInv'
<1>1. TypeOK'
  BY DEF IInv, CancelTransfer, TypeOK
<1>2. SaveOK'
  BY DEF CancelTransfer, SaveOK, IInv
<1>3. GateOK'
  BY DEF IInv, CancelTransfer, GateOK, SaveOK, Readers, HasBoundUploadPermit, Bound, StillGranted
<1>4. LivePermitIsCurrent'
  BY DEF IInv, CancelTransfer, LivePermitIsCurrent, Bound, Publishes, Affected, Void
<1>5. (\A w \in Uploads : Accounted(w))'
  BY DEF CancelTransfer, Accounted, IInv
<1>6. (\A w \in Uploads : Permitted(w))'
  BY DEF CancelTransfer, Permitted, IInv
<1>7. (\A w \in Uploads : Registered(w))'
  BY DEF IInv, CancelTransfer, Registered
<1> QED BY <1>1, <1>2, <1>3, <1>4, <1>5, <1>6, <1>7 DEF IInv

\* and its callback runs later: neither touches a permit.
LEMMA CallCancelInv ==
  ASSUME IInv, NEW u \in Uploads, CallCancel(u)
  PROVE  IInv'
<1>1. TypeOK'
  BY DEF IInv, CallCancel, TypeOK
<1>2. SaveOK'
  BY DEF CallCancel, SaveOK, IInv
<1>3. GateOK'
  BY DEF IInv, CallCancel, GateOK, SaveOK, Readers, HasBoundUploadPermit, Bound, StillGranted
<1>4. LivePermitIsCurrent'
  BY DEF IInv, CallCancel, LivePermitIsCurrent, Bound, Publishes, Affected, Void
<1>5. (\A w \in Uploads : Accounted(w))'
  BY DEF CallCancel, Accounted, IInv
<1>6. (\A w \in Uploads : Permitted(w))'
  BY DEF CallCancel, Permitted, IInv
<1>7. (\A w \in Uploads : Registered(w))'
  BY DEF IInv, CallCancel, Registered
<1> QED BY <1>1, <1>2, <1>3, <1>4, <1>5, <1>6, <1>7 DEF IInv

\* What a publication takes away is worked out from the configuration in force.
LEMMA PrepareSaveInv ==
  ASSUME IInv, NEW next \in Configs, PrepareSave(next)
  PROVE  IInv'
<1>1. TypeOK'
  <2>1. Changed(config, next) \in SUBSET Dirs
    BY DEF Changed
  <2>2. save' \in [at : SavePoints, next : Configs, changed : SUBSET Dirs, calls : SUBSET Uploads]
    BY <2>1 DEF PrepareSave, Saving, SavePoints
  <2> QED BY <2>2 DEF IInv, PrepareSave, TypeOK
<1>2. SaveOK'
  BY DEF IInv, PrepareSave, Saving, SaveOK
<1>3. GateOK'
  BY DEF IInv, PrepareSave, GateOK, StillGranted, HasBoundUploadPermit, Saving, Bound
<1>4. LivePermitIsCurrent'
  BY DEF IInv, PrepareSave, Bound, Void, Publishes, LivePermitIsCurrent
<1>5. (\A w \in Uploads : Accounted(w))'
  BY DEF PrepareSave, Accounted, IInv
<1>6. (\A w \in Uploads : Permitted(w))'
  BY DEF PrepareSave, Permitted, IInv
<1>7. (\A w \in Uploads : Registered(w))'
  BY DEF IInv, PrepareSave, Registered
<1> QED BY <1>1, <1>2, <1>3, <1>4, <1>5, <1>6, <1>7 DEF IInv

\* A publication that fails before the rename leaves everything as it was.
LEMMA AbortSaveInv ==
  ASSUME IInv, AbortSave
  PROVE  IInv'
<1>1. TypeOK'
  BY DEF IInv, AbortSave, TypeOK, InHand, SavePoints, Saving, NoSave
<1>2. SaveOK'
  BY DEF IInv, AbortSave, Saving, NoSave, SaveOK
<1>3. GateOK'
  BY DEF IInv, AbortSave, GateOK, StillGranted, HasBoundUploadPermit, Saving, NoSave, Bound
<1>4. LivePermitIsCurrent'
  BY DEF IInv, AbortSave, Bound, Void, Publishes, LivePermitIsCurrent
<1>5. (\A w \in Uploads : Accounted(w))'
  BY DEF AbortSave, Accounted, IInv
<1>6. (\A w \in Uploads : Permitted(w))'
  BY DEF AbortSave, Permitted, IInv
<1>7. (\A w \in Uploads : Registered(w))'
  BY DEF IInv, AbortSave, Registered
<1> QED BY <1>1, <1>2, <1>3, <1>4, <1>5, <1>6, <1>7 DEF IInv

\* A waiting writer lets nobody in any more.
LEMMA AnnounceSaveInv ==
  ASSUME IInv, AnnounceSave
  PROVE  IInv'
<1>1. TypeOK'
  BY DEF IInv, TypeOK, SavePoints, AnnounceSave
<1>2. SaveOK'
  BY DEF AnnounceSave, SaveOK, IInv
<1>3. GateOK'
  BY DEF IInv, AnnounceSave, GateOK, HasBoundUploadPermit, Bound, StillGranted
<1>4. LivePermitIsCurrent'
  BY DEF IInv, AnnounceSave, Bound, Void, Publishes, LivePermitIsCurrent
<1>5. (\A w \in Uploads : Accounted(w))'
  BY DEF AnnounceSave, Accounted, IInv
<1>6. (\A w \in Uploads : Permitted(w))'
  BY DEF AnnounceSave, Permitted, IInv
<1>7. (\A w \in Uploads : Registered(w))'
  BY DEF IInv, AnnounceSave, Registered
<1> QED BY <1>1, <1>2, <1>3, <1>4, <1>5, <1>6, <1>7 DEF IInv

\* The writer has the gate for itself.
LEMMA LockGateInv ==
  ASSUME IInv, LockGate
  PROVE  IInv'
<1>1. TypeOK'
  BY DEF IInv, TypeOK, SavePoints, LockGate
<1>2. SaveOK'
  BY DEF LockGate, SaveOK, IInv
<1>3. GateOK'
  BY DEF LockGate, GateOK, Readers, InGate
<1>4. LivePermitIsCurrent'
  BY DEF IInv, LockGate, Bound, Void, Publishes, LivePermitIsCurrent
<1>5. (\A w \in Uploads : Accounted(w))'
  BY DEF LockGate, Accounted, IInv
<1>6. (\A w \in Uploads : Permitted(w))'
  BY DEF LockGate, Permitted, IInv
<1>7. (\A w \in Uploads : Registered(w))'
  BY DEF IInv, LockGate, Registered
<1> QED BY <1>1, <1>2, <1>3, <1>4, <1>5, <1>6, <1>7 DEF IInv

\* After the rename the permits of what changed are void already.
LEMMA CommitSaveInv ==
  ASSUME IInv, CommitSave
  PROVE  IInv'
<1>1. TypeOK'
  BY DEF IInv, CommitSave, TypeOK, InHand, SavePoints, Saving, NoSave
<1>2. SaveOK'
  BY DEF IInv, CommitSave, TypeOK, Saving, NoSave, SaveOK
<1>3. GateOK'
  BY DEF IInv, CommitSave, GateOK, Readers, InGate
<1>4. LivePermitIsCurrent'
  BY ResourceAssumption DEF IInv, CommitSave, LivePermitIsCurrent, Bound, Void, Publishes,
       Affected, GateOK, SaveOK,
       StillGranted, Readers, Changed, TypeOK
<1>5. (\A w \in Uploads : Accounted(w))'
  BY DEF CommitSave, Accounted, IInv
<1>6. (\A w \in Uploads : Permitted(w))'
  BY DEF CommitSave, Permitted, IInv
<1>7. (\A w \in Uploads : Registered(w))'
  BY DEF IInv, CommitSave, Registered
<1> QED BY <1>1, <1>2, <1>3, <1>4, <1>5, <1>6, <1>7 DEF IInv

\* Memory follows the disk.
LEMMA ReplaceConfigInv ==
  ASSUME IInv, ReplaceConfig
  PROVE  IInv'
<1>1. TypeOK'
  BY DEF IInv, TypeOK, SavePoints, ReplaceConfig
<1>2. SaveOK'
  BY DEF ReplaceConfig, SaveOK, IInv
<1>3. GateOK'
  BY DEF IInv, ReplaceConfig, GateOK, Readers, InGate
<1>4. LivePermitIsCurrent'
  BY DEF IInv, ReplaceConfig, LivePermitIsCurrent, Bound, Publishes, Affected, Void
<1>5. (\A w \in Uploads : Accounted(w))'
  BY DEF ReplaceConfig, Accounted, IInv
<1>6. (\A w \in Uploads : Permitted(w))'
  BY DEF ReplaceConfig, Permitted, IInv
<1>7. (\A w \in Uploads : Registered(w))'
  BY DEF IInv, ReplaceConfig, Registered
<1> QED BY <1>1, <1>2, <1>3, <1>4, <1>5, <1>6, <1>7 DEF IInv

\* Permits of what changed are cancelled before anybody is let in again.
LEMMA CancelUploadsByDirIDsInv ==
  ASSUME IInv, CancelUploadsByDirIDs
  PROVE  IInv'
<1>1. TypeOK'
  <2>1. \A w \in Uploads : [permits[w] EXCEPT !.canceling = TRUE] \in Permits
    <3>1. permits \in [Uploads -> Permits]
      BY DEF IInv, TypeOK
    <3> QED BY <3>1 DEF Permits
  <2> USE DEF IInv, TypeOK, CancelUploadsByDirIDs
  <2>2. permits' \in [Uploads -> Permits]
    BY <2>1
  <2>3. save' \in [at : SavePoints, next : Configs, changed : SUBSET Dirs, calls : SUBSET Uploads]
    BY DEF SavePoints
  <2> QED BY <2>2, <2>3
<1>2. SaveOK'
  BY DEF IInv, SaveOK, CancelUploadsByDirIDs
<1>3. GateOK'
  BY DEF IInv, CancelUploadsByDirIDs, Affected, GateOK, Readers, InGate
<1>4. LivePermitIsCurrent'
  BY DEF IInv, CancelUploadsByDirIDs, LivePermitIsCurrent, Bound, Void
<1>5. (\A w \in Uploads : Accounted(w))'
  BY DEF IInv, Accounted, CancelUploadsByDirIDs
<1>6. (\A w \in Uploads : Permitted(w))'
  <2> SUFFICES ASSUME NEW w \in Uploads
               PROVE  Permitted(w)'
    OBVIOUS
  <2> USE DEF IInv, CancelUploadsByDirIDs, Permitted
  <2>1. CASE ~Affected(w)
    BY <2>1
  <2>2. CASE Affected(w)
    <3>1. permits[w] \in Permits /\ permits[w].dir \in Dirs
      BY <2>2 DEF TypeOK, Affected
    <3>2. permits'[w] = [permits[w] EXCEPT !.canceling = TRUE] /\ permits[w].held
      BY <2>2, <3>1, ResourceAssumption
    <3> QED BY <3>1, <3>2, ResourceAssumption
  <2> QED BY <2>1, <2>2
<1>7. (\A w \in Uploads : Registered(w))'
  BY DEF CancelUploadsByDirIDs, Registered, IInv
<1> QED BY <1>1, <1>2, <1>3, <1>4, <1>5, <1>6, <1>7 DEF IInv

\* When the gate opens, disk and memory are one.
LEMMA UnlockGateInv ==
  ASSUME IInv, UnlockGate
  PROVE  IInv'
<1>1. TypeOK'
  BY DEF IInv, UnlockGate, TypeOK, InHand, SavePoints, Saving, NoSave
<1>2. SaveOK'
  BY DEF IInv, UnlockGate, Saving, NoSave, SaveOK
<1>3. GateOK'
  BY DEF IInv, UnlockGate, GateOK, Readers, InGate
<1>4. LivePermitIsCurrent'
  BY DEF IInv, UnlockGate, Bound, Void, Publishes, LivePermitIsCurrent
<1>5. (\A w \in Uploads : Accounted(w))'
  BY DEF UnlockGate, Accounted, IInv
<1>6. (\A w \in Uploads : Permitted(w))'
  BY DEF UnlockGate, Permitted, IInv
<1>7. (\A w \in Uploads : Registered(w))'
  BY DEF IInv, UnlockGate, Registered
<1> QED BY <1>1, <1>2, <1>3, <1>4, <1>5, <1>6, <1>7 DEF IInv

\* A restart reads the settings and knows no permit.
LEMMA RestartInv ==
  ASSUME IInv, Restart
  PROVE  IInv'
<1>1. TypeOK'
  BY DEF IInv, Restart, TypeOK, Targets, Permits, Points, InGate, InHand, SavePoints, Saving,
       NoSave, Answers
<1>2. SaveOK'
  BY DEF IInv, Restart, Saving, NoSave, SaveOK
<1>3. GateOK'
  BY DEF Restart, GateOK, Readers, InGate
<1>4. LivePermitIsCurrent'
  BY DEF Restart, LivePermitIsCurrent, Bound
<1>5. (\A w \in Uploads : Accounted(w))'
  BY DEF Restart, Accounted, IInv
<1>6. (\A w \in Uploads : Permitted(w))'
  BY DEF IInv, Restart, InHand, Permitted
<1>7. (\A w \in Uploads : Registered(w))'
  BY DEF Restart, Registered
<1> QED BY <1>1, <1>2, <1>3, <1>4, <1>5, <1>6, <1>7 DEF IInv

-----------------------------------------------------------------------------
(* The invariant of the specification, and what follows from it.            *)

\* The invariant holds at the start,
LEMMA InitInv == Init => IInv
<1> SUFFICES ASSUME Init PROVE IInv
  OBVIOUS
<1>1. TypeOK
  BY DEF Init, TypeOK, NoSave, Saving, SavePoints, Points, InGate, InHand, Targets, Permits, Answers
<1>2. SaveOK /\ GateOK /\ LivePermitIsCurrent
  BY DEF Init, SaveOK, GateOK, LivePermitIsCurrent, NoSave, Saving, Readers, InGate, Bound
<1>3. \A u \in Uploads : Accounted(u) /\ Permitted(u) /\ Registered(u)
  BY DEF Init, Accounted, Permitted, Registered, InHand
<1> QED BY <1>1, <1>2, <1>3 DEF IInv

\* while nothing happens,
LEMMA StutterInv == ASSUME IInv, UNCHANGED vars PROVE IInv'
BY DEF vars, IInv, TypeOK, SaveOK, GateOK, LivePermitIsCurrent, Accounted, Permitted, Registered,
       Readers, StillGranted, HasBoundUploadPermit, Bound, Void, Publishes, Affected

\* and after every step.
LEMMA StepInv == IInv /\ [Next]_vars => IInv'
<1> SUFFICES ASSUME IInv, [Next]_vars PROVE IInv'
  OBVIOUS
<1>1. ASSUME NEW u \in Uploads, NEW d \in Dirs \cup {NoDir}, Begin(u, d) PROVE IInv'
  BY <1>1, BeginInv
<1>2. ASSUME NEW u \in Uploads, Moves(u) PROVE IInv'
  BY <1>2, EnterAcquireInv, TryAcquireUploadPermitInv, NameResourceInv, EnterBindInv,
     BindUploadPermitInv, CreateTempInv, EnterRegisterInv, RegisterUploadTransferInv,
     FinishTempInv, EnterCommitInv, CommitUploadCandidateInv, FileDoneInv, GiveUpInv DEF Moves
<1>3. ASSUME NEW u \in Uploads, Ends(u) PROVE IInv'
  BY <1>3, FailedInv, DoneInv DEF Ends
<1>4. ASSUME NEW u \in Uploads, CancelTransfer(u) \/ CallCancel(u) PROVE IInv'
  BY <1>4, CancelTransferInv, CallCancelInv
<1>5. ASSUME NEW next \in Configs, PrepareSave(next) PROVE IInv'
  BY <1>5, PrepareSaveInv
<1>6. CASE Publishing
  BY <1>6, AnnounceSaveInv, LockGateInv, CommitSaveInv, ReplaceConfigInv, CancelUploadsByDirIDsInv,
     UnlockGateInv, AbortSaveInv DEF Publishing
<1>7. CASE Restart
  BY <1>7, RestartInv
<1>8. CASE UNCHANGED vars
  BY <1>8, StutterInv
<1> QED BY <1>1, <1>2, <1>3, <1>4, <1>5, <1>6, <1>7, <1>8 DEF Next

(* The inductive invariant holds in every state of the server.             *)
THEOREM InvariantHolds == Spec => []IInv
<1>1. Init => IInv
  BY InitInv
<1>2. IInv /\ [Next]_vars => IInv'
  BY StepInv
<1> QED BY <1>1, <1>2, PTL DEF Spec

(* Every variable keeps its type; in particular a failing request never     *)
(* removes more files than it has landed.                                   *)
THEOREM TypeCorrect == Spec => []TypeOK
<1>1. IInv => TypeOK
  BY DEF IInv
<1> QED BY <1>1, InvariantHolds, PTL

(* A permit that is bound and not being cancelled stands for the resource   *)
(* in force: however cancellation, late binding and publication interleave. *)
THEOREM LivePermitsAreCurrent == Spec => []LivePermitIsCurrent
<1>1. IInv => LivePermitIsCurrent
  BY DEF IInv
<1> QED BY <1>1, InvariantHolds, PTL

(* An active transfer belongs to a live permit of the resource it writes to.*)
THEOREM ActiveRecordsArePermitted == Spec => []ActiveRecordIsPermitted
<1>1. IInv => ActiveRecordIsPermitted
  <2> SUFFICES ASSUME IInv, NEW u \in Uploads, records[u] = "active"
               PROVE  Bound(u) /\ ~permits[u].canceling /\ permits[u].dir = target[u].dir
    BY DEF ActiveRecordIsPermitted
  <2>1. pc[u] \in InFile /\ ~permits[u].canceling
    BY DEF IInv, Registered
  <2>2. permits[u].held /\ target[u] # NoTarget /\ permits[u].dir = target[u].dir
    BY <2>1 DEF IInv, Permitted, InFile, InHand
  <2>3. target[u].dir # NoDir
    BY <2>2, TargetType DEF IInv
  <2> QED BY <2>1, <2>2, <2>3 DEF Bound
<1> QED BY <1>1, InvariantHolds, PTL

(* A request that failed has left nothing, one that succeeded something.    *)
THEOREM UploadsAreAllOrNothing == Spec => []AllOrNothing
<1>1. IInv => AllOrNothing
  BY DEF IInv, AllOrNothing, Accounted
<1> QED BY <1>1, InvariantHolds, PTL

-----------------------------------------------------------------------------
(* The limits.                                                              *)

Capacity == IsFiniteSet(Held) /\ WithinCapacity

\* A set within a limit that loses members stays within it,
LEMMA Shrinks ==
  ASSUME NEW S, IsFiniteSet(S), NEW n \in Nat, Cardinality(S) <= n, NEW T, T \subseteq S
  PROVE  IsFiniteSet(T) /\ Cardinality(T) <= n
<1>1. IsFiniteSet(T) /\ Cardinality(T) <= Cardinality(S)
  BY FS_Subset
<1>2. Cardinality(S) \in Nat /\ Cardinality(T) \in Nat
  BY <1>1, FS_CardinalityType
<1> QED BY <1>1, <1>2

\* and one that is below it may get one more.
LEMMA Grows ==
  ASSUME NEW S, IsFiniteSet(S), NEW n \in Nat, Cardinality(S) < n, NEW x,
         NEW T, T \subseteq S \cup {x}
  PROVE  IsFiniteSet(T) /\ Cardinality(T) <= n
<1>1. Cardinality(S) \in Nat
  BY FS_CardinalityType
<1>2. /\ IsFiniteSet(S \cup {x})
      /\ Cardinality(S \cup {x}) = IF x \in S THEN Cardinality(S) ELSE Cardinality(S) + 1
  BY FS_AddElement
<1>3. Cardinality(S \cup {x}) <= n
  BY <1>1, <1>2
<1> QED BY <1>2, <1>3, Shrinks

\* The permits that count in a limit are among those that are held.
LEMMA PartsFinite ==
  ASSUME Capacity
  PROVE  /\ \A d : IsFiniteSet(HeldOn(d))
         /\ \A o : IsFiniteSet(HeldBy(o))
<1>1. \A d : HeldOn(d) \subseteq Held
  BY DEF HeldOn
<1>2. \A o : HeldBy(o) \subseteq Held
  BY DEF HeldBy
<1> QED BY <1>1, <1>2, FS_Subset DEF Capacity

\* Permits that end or stay as they are leave room.
LEMMA FewerPermits ==
  ASSUME Capacity,
         \A w \in Uploads : permits'[w].held => permits[w].held /\ permits'[w].dir = permits[w].dir
  PROVE  Capacity'
<1>1. IsFiniteSet(Held') /\ Cardinality(Held') <= Global
  <2>1. Held' \subseteq Held
    BY DEF Held, HoldsPermit
  <2> QED BY <2>1, Shrinks, LimitsAssumption DEF Capacity, WithinCapacity
<1>2. ASSUME NEW d \in Dirs
      PROVE  Cardinality(HeldOn(d)') <= PerResource
  <2>1. HeldOn(d)' \subseteq HeldOn(d)
    BY DEF HeldOn, Held, HoldsPermit
  <2> QED BY <2>1, Shrinks, PartsFinite, LimitsAssumption DEF Capacity, WithinCapacity
<1>3. ASSUME NEW u \in Uploads
      PROVE  Cardinality(HeldBy(Owner[u])') <= PerOwner
  <2>1. HeldBy(Owner[u])' \subseteq HeldBy(Owner[u])
    BY DEF HeldBy, Held, HoldsPermit
  <2> QED BY <2>1, Shrinks, PartsFinite, LimitsAssumption DEF Capacity, WithinCapacity
<1> QED BY <1>1, <1>2, <1>3 DEF Capacity, WithinCapacity

\* A permit is given where each limit has room for it.
LEMMA AcquireWithinCapacity ==
  ASSUME TypeOK, Capacity, NEW u \in Uploads, TryAcquireUploadPermit(u)
  PROVE  Capacity'
<1>1. CASE ~HasRoom(u)
  BY <1>1, FewerPermits DEF TryAcquireUploadPermit
<1>2. CASE HasRoom(u)
  <2>1. /\ permits'[u].dir = target[u].dir
        /\ \A w \in Uploads \ {u} : permits'[w] = permits[w]
    BY <1>2 DEF TryAcquireUploadPermit, TypeOK
  <2>2. IsFiniteSet(Held') /\ Cardinality(Held') <= Global
    <3>1. Held' \subseteq Held \cup {u}
      BY <2>1 DEF Held, HoldsPermit
    <3>2. Cardinality(Held) < Global
      BY <1>2 DEF HasRoom
    <3> QED BY <3>1, <3>2, Grows, LimitsAssumption DEF Capacity
  <2>3. ASSUME NEW d \in Dirs
        PROVE  Cardinality(HeldOn(d)') <= PerResource
    <3>1. CASE d = target[u].dir
      <4>1. Cardinality(HeldOn(d)) < PerResource
        BY <1>2, <3>1, ResourceAssumption DEF HasRoom, RoomOn
      <4>2. HeldOn(d)' \subseteq HeldOn(d) \cup {u}
        BY <2>1 DEF HeldOn, Held, HoldsPermit
      <4> QED BY <4>1, <4>2, Grows, PartsFinite, LimitsAssumption
    <3>2. CASE d # target[u].dir
      <4>1. HeldOn(d)' \subseteq HeldOn(d)
        BY <2>1, <3>2 DEF HeldOn, Held, HoldsPermit
      <4> QED BY <4>1, Shrinks, PartsFinite, LimitsAssumption DEF Capacity, WithinCapacity
    <3> QED BY <3>1, <3>2
  <2>4. ASSUME NEW w \in Uploads
        PROVE  Cardinality(HeldBy(Owner[w])') <= PerOwner
    <3>1. CASE Owner[w] = Owner[u]
      <4>1. Cardinality(HeldBy(Owner[w])) < PerOwner
        BY <1>2, <3>1 DEF HasRoom
      <4>2. HeldBy(Owner[w])' \subseteq HeldBy(Owner[w]) \cup {u}
        BY <2>1 DEF HeldBy, Held, HoldsPermit
      <4> QED BY <4>1, <4>2, Grows, PartsFinite, LimitsAssumption
    <3>2. CASE Owner[w] # Owner[u]
      <4>1. HeldBy(Owner[w])' \subseteq HeldBy(Owner[w])
        BY <2>1, <3>2 DEF HeldBy, Held, HoldsPermit
      <4> QED BY <4>1, Shrinks, PartsFinite, LimitsAssumption DEF Capacity, WithinCapacity
    <3> QED BY <3>1, <3>2
  <2> QED BY <2>2, <2>3, <2>4 DEF Capacity, WithinCapacity
<1> QED BY <1>1, <1>2

\* A permit that is bound late begins to count at its resource, once.
LEMMA BindWithinCapacity ==
  ASSUME IInv, Capacity, NEW u \in Uploads, BindUploadPermit(u)
  PROVE  Capacity'
<1>1. permits[u].held /\ target[u] # NoTarget /\ permits \in [Uploads -> Permits]
  BY DEF IInv, Permitted, BindUploadPermit, TypeOK
<1>2. CASE permits' = permits
  BY <1>2, FewerPermits
<1>3. CASE /\ ~Bound(u) /\ RoomOn(target[u].dir)
           /\ permits' = [permits EXCEPT ![u].dir = target[u].dir, ![u].fp = target[u].fp]
  <2>1. /\ permits'[u].dir = target[u].dir /\ permits'[u].held
        /\ \A w \in Uploads \ {u} : permits'[w] = permits[w]
    BY <1>1, <1>3 DEF Permits
  <2>2. IsFiniteSet(Held') /\ Cardinality(Held') <= Global /\ Held' = Held
    <3>1. Held' = Held
      BY <1>1, <2>1 DEF Held, HoldsPermit
    <3> QED BY <3>1 DEF Capacity, WithinCapacity
  <2>3. ASSUME NEW d \in Dirs
        PROVE  Cardinality(HeldOn(d)') <= PerResource
    <3>1. CASE d = target[u].dir
      <4>1. Cardinality(HeldOn(d)) < PerResource
        BY <1>3, <3>1, ResourceAssumption DEF RoomOn
      <4>2. HeldOn(d)' \subseteq HeldOn(d) \cup {u}
        BY <2>1 DEF HeldOn, Held, HoldsPermit
      <4> QED BY <4>1, <4>2, Grows, PartsFinite, LimitsAssumption
    <3>2. CASE d # target[u].dir
      <4>1. HeldOn(d)' \subseteq HeldOn(d)
        BY <2>1, <3>2 DEF HeldOn, Held, HoldsPermit
      <4> QED BY <4>1, Shrinks, PartsFinite, LimitsAssumption DEF Capacity, WithinCapacity
    <3> QED BY <3>1, <3>2
  <2>4. ASSUME NEW w \in Uploads
        PROVE  Cardinality(HeldBy(Owner[w])') <= PerOwner
    BY <2>2 DEF HeldBy, Capacity, WithinCapacity
  <2> QED BY <2>2, <2>3, <2>4 DEF Capacity, WithinCapacity
<1>4. CASE /\ HasBoundUploadPermit(u)
           /\ permits' = [permits EXCEPT ![u].dir = target[u].dir, ![u].fp = target[u].fp]
  <2>1. \A w \in Uploads : permits'[w].held = permits[w].held /\ permits'[w].dir = permits[w].dir
    BY <1>1, <1>4 DEF HasBoundUploadPermit, Permits
  <2> QED BY <2>1, FewerPermits
<1> QED BY <1>2, <1>3, <1>4 DEF BindUploadPermit

\* No other step gives a permit or binds one.
LEMMA OtherStepsFewerPermits ==
  ASSUME TypeOK, [Next]_vars,
         \A u \in Uploads : ~TryAcquireUploadPermit(u) /\ ~BindUploadPermit(u)
  PROVE  \A w \in Uploads :
           permits'[w].held => permits[w].held /\ permits'[w].dir = permits[w].dir
<1> USE DEF TypeOK
<1>1. ASSUME NEW u \in Uploads, NEW d \in Dirs \cup {NoDir}, Begin(u, d) PROVE permits' = permits
  BY <1>1 DEF Begin
<1>2. ASSUME NEW u \in Uploads, Moves(u) PROVE permits' = permits
  BY <1>2 DEF Moves, EnterAcquire, NameResource, EnterBind, CreateTemp, EnterRegister,
     RegisterUploadTransfer, FinishTemp, EnterCommit, CommitUploadCandidate, FileDone, GiveUp
<1>3. ASSUME NEW u \in Uploads, Ends(u) PROVE permits' = [permits EXCEPT ![u] = NoPermit]
  BY <1>3 DEF Ends, Failed, Done, Released
<1>4. ASSUME NEW u \in Uploads, CancelTransfer(u) \/ CallCancel(u) PROVE permits' = permits
  BY <1>4 DEF CancelTransfer, CallCancel
<1>5. ASSUME NEW next \in Configs, PrepareSave(next) PROVE permits' = permits
  BY <1>5 DEF PrepareSave
<1>6. ASSUME Publishing
      PROVE  \A w \in Uploads :
               permits'[w].held = permits[w].held /\ permits'[w].dir = permits[w].dir
  BY <1>6 DEF Publishing, AnnounceSave, LockGate, CommitSave, ReplaceConfig, UnlockGate, AbortSave,
     CancelUploadsByDirIDs, Permits
<1>7. ASSUME Restart PROVE permits' = [w \in Uploads |-> NoPermit]
  BY <1>7 DEF Restart
<1>8. CASE UNCHANGED vars
  BY <1>8 DEF vars
<1> QED BY <1>1, <1>2, <1>3, <1>4, <1>5, <1>6, <1>7, <1>8 DEF Next

(* However many uploads come at once and bind their permits late, no limit  *)
(* of the process, of a resource or of an owner is exceeded.                *)
THEOREM CapacityHolds == Spec => []WithinCapacity
<1>1. Init => Capacity
  <2> SUFFICES ASSUME Init PROVE Capacity
    OBVIOUS
  <2>1. Held = {} /\ (\A d : HeldOn(d) = {}) /\ (\A o : HeldBy(o) = {})
    BY DEF Init, Held, HeldOn, HeldBy, HoldsPermit
  <2> QED BY <2>1, FS_EmptySet, LimitsAssumption DEF Capacity, WithinCapacity
<1>2. IInv /\ Capacity /\ [Next]_vars => Capacity'
  BY AcquireWithinCapacity, BindWithinCapacity, OtherStepsFewerPermits, FewerPermits DEF IInv
<1>3. Capacity => WithinCapacity
  BY DEF Capacity
<1> QED BY <1>1, <1>2, <1>3, InvariantHolds, PTL DEF Spec

-----------------------------------------------------------------------------
(* Refinement: every step of the gate is a step of the promise or none.     *)

Sessions == [u \in Uploads |-> Session(u)]

USE DEF Closed, Revoked, Opened, Promise!Closed, Promise!Revoked, Promise!Opened, Promise!Grants

\* What the promise sees.
Seen == <<settings, Sessions, files, reply>>

\* A session depends on its permit and on the publication under way.
LEMMA SessionKept ==
  ASSUME UNCHANGED <<permits, save>>
  PROVE  Sessions' = Sessions /\ \A u : Session(u)' = Session(u)
BY DEF Sessions, Session, Bound, Void, Publishes, Affected

\* Steps of one upload that change neither its permit nor its files.
LEMMA QuietMoves ==
  ASSUME NEW u \in Uploads,
         \/ EnterAcquire(u) \/ \E d \in Dirs : NameResource(u, d)
         \/ EnterBind(u) \/ CreateTemp(u) \/ EnterRegister(u) \/ RegisterUploadTransfer(u)
         \/ FinishTemp(u) \/ EnterCommit(u) \/ FileDone(u) \/ GiveUp(u)
         \/ CancelTransfer(u) \/ CallCancel(u)
  PROVE  UNCHANGED Seen
<1>1. UNCHANGED <<permits, save, settings, files, reply>>
  BY DEF EnterAcquire, NameResource, EnterBind, CreateTemp, EnterRegister, RegisterUploadTransfer,
         FinishTemp, EnterCommit, FileDone, GiveUp, CancelTransfer, CallCancel
<1> QED BY <1>1, SessionKept DEF Seen

\* A request that begins has been answered before.
LEMMA BeginArrives ==
  ASSUME IInv, NEW u \in Uploads, NEW d \in Dirs \cup {NoDir}, Begin(u, d)
  PROVE  Promise!Arrive(u)
<1>1. reply[u] # "none"
  BY DEF IInv, Accounted, Begin
<1>2. UNCHANGED <<permits, save>>
  BY DEF Begin
<1> QED BY <1>1, <1>2, SessionKept DEF Begin, Promise!Arrive, Sessions

\* Nothing is published while a request is inside the gate.
LEMMA InsideTheGate ==
  ASSUME IInv, NEW u \in Uploads, pc[u] \in InGate
  PROVE  config = settings /\ ~Publishes
BY DEF IInv, GateOK, SaveOK, Readers, Publishes, TypeOK, SavePoints

\* A permit for a known resource is an authorization, another one not yet.
LEMMA AcquireAuthorizes ==
  ASSUME IInv, NEW u \in Uploads, TryAcquireUploadPermit(u)
  PROVE  UNCHANGED Seen \/ \E d \in Dirs, fp \in Fps : Promise!Authorize(u, d, fp)
<1>1. /\ pc[u] \in InGate /\ reply[u] = "none" /\ files[u] = 0 /\ permits[u] = NoPermit
      /\ target[u] = NoTarget \/ Grants(config, target[u].dir, target[u].fp)
  BY DEF IInv, Accounted, Permitted, GateOK, StillGranted, TryAcquireUploadPermit, InGate, TypeOK
<1>2. UNCHANGED <<save, settings, files, reply>>
  BY DEF TryAcquireUploadPermit
<1>3. config = settings /\ ~Publishes
  BY <1>1, InsideTheGate
<1>4. Session(u) = Closed
  BY <1>1 DEF Session, Bound
<1>5. \A w \in Uploads \ {u} : Session(w)' = Session(w)
  BY <1>2 DEF TryAcquireUploadPermit, IInv, TypeOK, Session, Bound, Void, Publishes, Affected
<1>6. CASE permits' = permits
  BY <1>2, <1>6, SessionKept DEF Seen
<1>7. CASE permits' # permits /\ target[u] = NoTarget
  <2>1. permits'[u].dir = NoDir
    BY <1>7 DEF TryAcquireUploadPermit, IInv, TypeOK
  <2>2. Session(u)' = Closed
    BY <2>1 DEF Session, Bound
  <2> QED BY <1>2, <1>4, <1>5, <2>2 DEF Seen, Sessions
<1>8. CASE permits' # permits /\ target[u] # NoTarget
  <2>1. target[u].dir \in Dirs /\ target[u].fp \in Fps
    BY <1>8, TargetType DEF IInv
  <2>2. permits'[u] = [held |-> TRUE, dir |-> target[u].dir, fp |-> target[u].fp,
                       canceling |-> FALSE]
    BY <1>8 DEF TryAcquireUploadPermit, IInv, TypeOK
  <2>3. Session(u)' = Opened(target[u].dir, target[u].fp)
    BY <2>1, <2>2, <1>2, <1>3, ResourceAssumption DEF Session, Bound, Void, Publishes
  <2>4. Sessions' = [Sessions EXCEPT ![u] = Opened(target[u].dir, target[u].fp)]
    BY <1>5, <2>3 DEF Sessions
  <2>5. Promise!Authorize(u, target[u].dir, target[u].fp)
    BY <1>1, <1>2, <1>3, <1>4, <1>8, <2>4 DEF Promise!Authorize, Sessions
  <2> QED BY <2>1, <2>5
<1> QED BY <1>6, <1>7, <1>8

\* The late binding of a permit is its authorization.
LEMMA BindAuthorizes ==
  ASSUME IInv, NEW u \in Uploads, BindUploadPermit(u)
  PROVE  UNCHANGED Seen \/ \E d \in Dirs, fp \in Fps : Promise!Authorize(u, d, fp)
<1>1. /\ pc[u] \in InGate /\ reply[u] = "none" /\ files[u] = 0 /\ permits[u].held
      /\ target[u] # NoTarget /\ Grants(config, target[u].dir, target[u].fp)
  BY DEF IInv, Accounted, Permitted, GateOK, StillGranted, BindUploadPermit, InGate, TypeOK
<1>2. UNCHANGED <<save, settings, files, reply>>
  BY DEF BindUploadPermit
<1>3. config = settings /\ ~Publishes
  BY <1>1, InsideTheGate
<1>4. \A w \in Uploads \ {u} : Session(w)' = Session(w)
  BY <1>2 DEF BindUploadPermit, IInv, TypeOK, Session, Bound, Void, Publishes, Affected
<1>5. CASE permits'[u] = permits[u]
  BY <1>2, <1>4, <1>5 DEF Seen, Sessions, Session, Bound, Void, Publishes, Affected
<1>6. CASE permits'[u] # permits[u]
  <2>1. target[u].dir \in Dirs /\ target[u].fp \in Fps /\ permits[u] \in Permits
    BY <1>1, TargetType DEF IInv, TypeOK
  <2>2. permits'[u] = [permits[u] EXCEPT !.dir = target[u].dir, !.fp = target[u].fp]
    BY <1>6 DEF BindUploadPermit, IInv, TypeOK
  <2>3. ~Bound(u)
    <3> SUFFICES ASSUME Bound(u) PROVE FALSE
      OBVIOUS
    <3>1. permits[u].dir = target[u].dir /\ permits[u].fp = target[u].fp
      BY <1>6 DEF BindUploadPermit, HasBoundUploadPermit
    <3> QED BY <1>6, <2>1, <2>2, <3>1 DEF Permits
  <2>4. permits[u].dir = NoDir /\ ~permits[u].canceling
    BY <1>1, <2>3 DEF Bound, IInv, Permitted
  <2>5. Session(u) = Closed /\ Session(u)' = Opened(target[u].dir, target[u].fp)
    BY <1>1, <1>2, <1>3, <2>1, <2>2, <2>3, <2>4, ResourceAssumption
    DEF Session, Bound, Void, Publishes, Permits
  <2>6. Sessions' = [Sessions EXCEPT ![u] = Opened(target[u].dir, target[u].fp)]
    BY <1>4, <2>5 DEF Sessions
  <2>7. Promise!Authorize(u, target[u].dir, target[u].fp)
    BY <1>1, <1>2, <1>3, <2>5, <2>6 DEF Promise!Authorize, Sessions
  <2> QED BY <2>1, <2>7
<1> QED BY <1>5, <1>6

\* A promotion is a landing under an authorization that is open.
LEMMA CommitLands ==
  ASSUME IInv, NEW u \in Uploads, CommitUploadCandidate(u)
  PROVE  UNCHANGED Seen \/ Promise!Land(u)
<1>1. /\ pc[u] \in InGate /\ HasBoundUploadPermit(u)
      /\ target[u] # NoTarget /\ Grants(config, target[u].dir, target[u].fp)
  BY DEF IInv, GateOK, Permitted, StillGranted, CommitUploadCandidate, InGate, InHand, TypeOK
<1>2. UNCHANGED <<permits, save, settings, reply>>
  BY DEF CommitUploadCandidate
<1>3. config = settings /\ ~Publishes
  BY <1>1, InsideTheGate
<1>4. Session(u) = Opened(target[u].dir, target[u].fp)
  BY <1>1, <1>3 DEF HasBoundUploadPermit, Session, Bound, Void
<1>5. CASE files' = files
  BY <1>2, <1>5, SessionKept DEF Seen
<1>6. CASE files' = [files EXCEPT ![u] = @ + 1]
  BY <1>1, <1>2, <1>3, <1>4, <1>6, SessionKept DEF Promise!Land, Sessions
<1> QED BY <1>5, <1>6 DEF CommitUploadCandidate

\* A request gives its permit back when it ends.
LEMMA ReleaseCloses ==
  ASSUME IInv, NEW u \in Uploads, Released(u), UNCHANGED save
  PROVE  Sessions' = [Sessions EXCEPT ![u] = Closed]
<1>1. permits'[u] = NoPermit /\ \A w \in Uploads \ {u} : permits'[w] = permits[w]
  BY DEF Released, IInv, TypeOK
<1>2. Session(u)' = Closed
  BY <1>1 DEF Session, Bound
<1>3. \A w \in Uploads \ {u} : Session(w)' = Session(w)
  BY <1>1 DEF Session, Bound, Void, Publishes, Affected
<1> QED BY <1>2, <1>3 DEF Sessions

\* The end of a request is its answer, with its files kept or undone.
LEMMA EndsAnswer ==
  ASSUME IInv, NEW u \in Uploads, Ends(u)
  PROVE  Promise!Undo(u) \/ Promise!Succeed(u)
<1>1. CASE Failed(u)
  <2>1. reply[u] = "none" /\ files[u] - saved[u] = 0
    BY <1>1 DEF Failed, IInv, Accounted, TypeOK
  <2>2. Sessions' = [Sessions EXCEPT ![u] = Closed]
    BY <1>1, ReleaseCloses DEF Failed
  <2> QED BY <1>1, <2>1, <2>2 DEF Failed, Promise!Undo, Sessions
<1>2. CASE Done(u)
  <2>1. reply[u] = "none" /\ files[u] > 0
    BY <1>2 DEF Done, IInv, Accounted, TypeOK
  <2>2. Sessions' = [Sessions EXCEPT ![u] = Closed]
    BY <1>2, ReleaseCloses DEF Done
  <2> QED BY <1>2, <2>1, <2>2 DEF Done, Promise!Succeed, Sessions
<1> QED BY <1>1, <1>2 DEF Ends

(* The rename is where a publication happens: from then on the permits of   *)
(* changed resources are void, and cancelling them only makes it visible.   *)
LEMMA RenamePublishes ==
  ASSUME IInv, CommitSave
  PROVE  UNCHANGED Seen \/ \E next \in Configs : Promise!Publish(next)
<1>1. CASE save' = NoSave(config)
  <2>1. UNCHANGED <<settings, permits, files, reply>> /\ ~Publishes /\ ~Publishes'
    BY <1>1 DEF CommitSave, Publishes, NoSave, Saving, IInv, SaveOK
  <2>2. Sessions' = Sessions
    BY <2>1 DEF Sessions, Session, Bound, Void
  <2> QED BY <2>1, <2>2 DEF Seen
<1>2. CASE save' = [save EXCEPT !.at = "renamed"] /\ settings' = save.next
  <2>1. /\ save.next \in Configs /\ save.changed = Changed(settings, save.next)
        /\ ~Publishes /\ Publishes' /\ save'.changed = save.changed
    BY <1>2 DEF CommitSave, IInv, TypeOK, SaveOK, Publishes
  <2>2. UNCHANGED <<permits, files, reply>>
    BY DEF CommitSave
  <2>3. ASSUME NEW u \in Uploads
        PROVE  Session(u)' = IF Session(u).dir \in Changed(settings, save.next)
                             THEN Revoked ELSE Session(u)
    <3>1. NoDir \notin Changed(settings, save.next)
      BY ResourceAssumption DEF Changed
    <3>2. CASE ~Bound(u) \/ permits[u].canceling
      BY <3>1, <3>2, <2>1, <2>2 DEF Session, Bound, Void
    <3>3. CASE Bound(u) /\ ~permits[u].canceling
      BY <3>3, <2>1, <2>2 DEF Session, Bound, Void, Affected
    <3> QED BY <3>2, <3>3
  <2>4. Promise!Publish(save.next)
    BY <1>2, <2>2, <2>3 DEF Promise!Publish, Promise!Changed, Changed
  <2> QED BY <2>1, <2>4
<1> QED BY <1>1, <1>2 DEF CommitSave

\* All other steps of a publication are made while nobody can tell.
LEMMA QuietPublishing ==
  ASSUME IInv,
         \/ \E next \in Configs : PrepareSave(next)
         \/ AbortSave \/ AnnounceSave \/ LockGate \/ ReplaceConfig \/ CancelUploadsByDirIDs
         \/ UnlockGate
  PROVE  UNCHANGED Seen
<1>1. UNCHANGED <<settings, files, reply>>
  BY DEF PrepareSave, AbortSave, AnnounceSave, LockGate, ReplaceConfig, CancelUploadsByDirIDs,
         UnlockGate
<1>2. ASSUME NEW u \in Uploads
      PROVE  Session(u)' = Session(u)
  <2>1. CASE \/ \E next \in Configs : PrepareSave(next)
             \/ AbortSave \/ AnnounceSave \/ LockGate \/ UnlockGate
    <3>1. UNCHANGED permits
      BY <2>1 DEF PrepareSave, AbortSave, AnnounceSave, LockGate, UnlockGate
    <3>2. ASSUME NEW next \in Configs, PrepareSave(next)
          PROVE  ~Publishes /\ ~Publishes'
      BY <3>2 DEF PrepareSave, Publishes, Saving
    <3>3. AbortSave => ~Publishes /\ ~Publishes'
      BY DEF AbortSave, Publishes, NoSave, Saving
    <3>4. AnnounceSave => ~Publishes /\ ~Publishes'
      BY DEF AnnounceSave, Publishes, IInv, TypeOK
    <3>5. LockGate => ~Publishes /\ ~Publishes'
      BY DEF LockGate, Publishes, IInv, TypeOK
    <3>6. UnlockGate => ~Publishes /\ ~Publishes'
      BY DEF UnlockGate, Publishes, NoSave, Saving
    <3>7. ~Publishes /\ ~Publishes'
      BY <2>1, <3>2, <3>3, <3>4, <3>5, <3>6
    <3> QED BY <3>1, <3>7 DEF Session, Bound, Void
  <2>2. CASE ReplaceConfig
    <3>1. UNCHANGED permits /\ Publishes /\ Publishes' /\ save'.changed = save.changed
      BY <2>2 DEF ReplaceConfig, Publishes, IInv, TypeOK
    <3> QED BY <3>1 DEF Session, Bound, Void, Affected
  <2>3. CASE CancelUploadsByDirIDs
    <3>1. Publishes /\ ~Publishes' /\ permits[u] \in Permits
      BY <2>3 DEF CancelUploadsByDirIDs, Publishes, IInv, TypeOK
    <3>2. permits'[u] = IF Affected(u) THEN [permits[u] EXCEPT !.canceling = TRUE] ELSE permits[u]
      BY <2>3 DEF CancelUploadsByDirIDs
    <3> QED BY <3>1, <3>2 DEF Session, Bound, Void, Permits
  <2> QED BY <2>1, <2>2, <2>3
<1> QED BY <1>1, <1>2 DEF Seen, Sessions

\* All that is under way dies with the process.
LEMMA RestartDies == ASSUME Restart PROVE Promise!Die
<1>1. Sessions' = [u \in Uploads |-> Closed]
  BY DEF Restart, Sessions, Session, Bound
<1> QED BY <1>1 DEF Restart, Promise!Die, Sessions

\* Fingerprints mean the same to both modules.
LEMMA AuthorizeIsAStep ==
  ASSUME NEW u \in Uploads, NEW d \in Dirs, NEW fp \in Fps, Promise!Authorize(u, d, fp)
  PROVE  Promise!PromiseNext
BY DEF Promise!PromiseNext, Promise!Fps, Fps

\* Every step of the gate is one of the promise, or none.
LEMMA StepKeepsPromise ==
  ASSUME IInv, [Next]_vars
  PROVE  Promise!PromiseNext \/ UNCHANGED Seen
<1>1. ASSUME NEW u \in Uploads, NEW d \in Dirs \cup {NoDir}, Begin(u, d)
      PROVE  Promise!PromiseNext
  BY <1>1, BeginArrives DEF Promise!PromiseNext
<1>2. ASSUME NEW u \in Uploads, Moves(u)
      PROVE  Promise!PromiseNext \/ UNCHANGED Seen
  <2>1. CASE TryAcquireUploadPermit(u)
    BY <2>1, AcquireAuthorizes, AuthorizeIsAStep
  <2>2. CASE BindUploadPermit(u)
    BY <2>2, BindAuthorizes, AuthorizeIsAStep
  <2>3. CASE CommitUploadCandidate(u)
    BY <2>3, CommitLands DEF Promise!PromiseNext
  <2> QED BY <1>2, <2>1, <2>2, <2>3, QuietMoves DEF Moves
<1>3. ASSUME NEW u \in Uploads, Ends(u)
      PROVE  Promise!PromiseNext
  BY <1>3, EndsAnswer DEF Promise!PromiseNext
<1>4. ASSUME NEW u \in Uploads, CancelTransfer(u) \/ CallCancel(u)
      PROVE  UNCHANGED Seen
  BY <1>4, QuietMoves
<1>5. ASSUME NEW next \in Configs, PrepareSave(next)
      PROVE  UNCHANGED Seen
  BY <1>5, QuietPublishing
<1>6. CASE Publishing
  BY <1>6, RenamePublishes, QuietPublishing DEF Publishing, Promise!PromiseNext
<1>7. CASE Restart
  BY <1>7, RestartDies DEF Promise!PromiseNext
<1>8. CASE UNCHANGED vars
  BY <1>8, SessionKept DEF vars, Seen
<1> QED BY <1>1, <1>2, <1>3, <1>4, <1>5, <1>6, <1>7, <1>8 DEF Next

(* The gate implements the promise: whatever the locks, the limits and the  *)
(* publications do, a file lands only under the configuration that          *)
(* authorized its request, in force without a break, and a failed request   *)
(* leaves nothing.                                                          *)
THEOREM GateKeepsPromise == Spec => KeepsPromise
<1>1. Init => Promise!PromiseInit
  BY DEF Init, Promise!PromiseInit, Session, Bound
<1>2. IInv /\ [Next]_vars => [Promise!PromiseNext]_Promise!promiseVars
  BY StepKeepsPromise DEF Seen, Sessions, Promise!promiseVars
<1> QED BY <1>1, <1>2, InvariantHolds, PTL DEF Spec, KeepsPromise, Promise!PromiseSpec
=============================================================================
