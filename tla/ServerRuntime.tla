--------------------------- MODULE ServerRuntime ---------------------------
(***************************************************************************)
(* One life of the server after another around UploadGate: admission and   *)
(* drain of requests, shutdown, the maintenance goroutine, and the worker  *)
(* that removes staging files nobody will promote any more.                *)
(***************************************************************************)
EXTENDS UploadGate

CONSTANT MaxExiting \* bound: workers that are late to leave at the same time

ASSUME ExitingAssumption == MaxExiting \in Nat \ {0}

VARIABLES
  phase,    \* serving, draining, closing (App.Shutdown is over), closed
  active,   \* Runtime.active: admitted requests
  admin,    \* the request of an administrator who publishes
  maint,    \* the maintenance goroutine
  wg,       \* Runtime.wg
  sweep,    \* the cleanup worker
  pending,  \* uploadCleanupPendingRoots
  exiting,  \* workers that have given up running and are not Done yet
  stale,    \* requests whose staging file is older than the retention
  orphans   \* where staging files of earlier lives lie

runtimeVars == <<phase, active, admin, maint, wg, sweep, pending, exiting, stale,
                 orphans>>
processVars == <<vars, runtimeVars>>

\* The paths that uploads go to; staging files lie beside the files.
RootsOf(conf, dirs) == {Fingerprint[conf[d]] : d \in {e \in dirs : conf[e] \in Open}}

\* asked: triggerUploadTempCleanup has been called; agreed: it is not too late.
AdminPoints == {"none", "publishing", "asked", "agreed", "leaving"}
MaintPoints == {"asked", "agreed", "loop", "working", "done"}
SweepPoints == {"none", "starting", "walking", "deciding"}
Maintaining(point) == [at |-> point, roots |-> {}]
NoSweep == [at |-> "none", roots |-> {}, listed |-> {}, stale |-> {}]

RuntimeTypeOK ==
  /\ phase \in {"serving", "draining", "closing", "closed"}
  /\ active \in Nat /\ wg \in Nat /\ exiting \in Nat
  /\ admin \in [at : AdminPoints, roots : SUBSET Fps]
  /\ maint \in [at : MaintPoints, roots : SUBSET Fps]
  /\ sweep \in [at : SweepPoints, roots : SUBSET Fps, listed : SUBSET Uploads,
                stale : SUBSET Uploads]
  /\ pending \subseteq Fps
  /\ stale \subseteq Uploads /\ orphans \subseteq Fps

\* startMaintenance counts its goroutine before it starts it.
RuntimeInit ==
  /\ Init
  /\ phase = "serving" /\ active = 0
  /\ admin = [at |-> "none", roots |-> {}]
  /\ maint = Maintaining("asked") /\ wg = 1
  /\ sweep = NoSweep /\ pending = {} /\ exiting = 0
  /\ stale = {} /\ orphans = {}

\* A staging file is gone when its request drops it; a new one is young.
Forget ==
  /\ stale' = stale \cap temps'
  /\ sweep' = [sweep EXCEPT !.stale = @ \cap temps', !.listed = @ \cap temps']

-----------------------------------------------------------------------------
(* Requests.                                                                *)

Admitted == phase = "serving"

\* requestAdmission, and requestCleanup when the response is over.
BeginUpload(u) ==
  /\ Admitted /\ \E d \in Dirs \cup {NoDir} : Begin(u, d)
  /\ active' = active + 1
  /\ UNCHANGED <<phase, admin, maint, wg, sweep, pending, exiting, stale, orphans>>

RunUpload(u) ==
  /\ Moves(u)
  /\ Forget
  /\ UNCHANGED <<phase, active, admin, maint, wg, pending, exiting, orphans>>

EndUpload(u) ==
  /\ Ends(u)
  /\ active' = active - 1
  /\ UNCHANGED <<phase, admin, maint, wg, sweep, pending, exiting, stale, orphans>>

\* The handler that cancels a transfer is too short to matter to a drain.
Cancel(u) ==
  /\ Admitted /\ CancelTransfer(u)
  /\ UNCHANGED runtimeVars

CallBack(u) ==
  /\ CallCancel(u)
  /\ UNCHANGED runtimeVars

BeginPublication ==
  /\ Admitted /\ admin.at = "none"
  /\ \E next \in Configs : PrepareSave(next)
  /\ active' = active + 1
  /\ admin' = [at |-> "publishing", roots |-> RootsOf(config, save'.changed)]
  /\ UNCHANGED <<phase, maint, wg, sweep, pending, exiting, stale, orphans>>

\* A publication that failed, or whose directory did not sync, asks for nothing.
RunPublication ==
  /\ Publishing
  /\ admin' = [admin EXCEPT !.at =
       IF save'.at # "idle" THEN @
       ELSE IF save.at = "marked" /\ save.changed # {} THEN "asked" ELSE "leaving"]
  /\ UNCHANGED <<phase, active, maint, wg, sweep, pending, exiting, stale, orphans>>
PublicationUnconfirmed ==
  /\ admin.at = "asked"
  /\ admin' = [admin EXCEPT !.at = "leaving"]
  /\ UNCHANGED <<phase, active, maint, wg, sweep, pending, exiting, stale, orphans>>
  /\ UNCHANGED vars

EndPublication ==
  /\ admin.at = "leaving"
  /\ admin' = [at |-> "none", roots |-> {}]
  /\ active' = active - 1
  /\ UNCHANGED <<phase, maint, wg, sweep, pending, exiting, stale, orphans>>
  /\ UNCHANGED vars

-----------------------------------------------------------------------------
(* The cleanup of staging files.                                            *)

\* triggerUploadTempCleanup after its check: one worker at a time, which finds
\* the roots of later calls when it has finished.
Trigger(roots) ==
  IF sweep.at # "none"
  THEN /\ pending' = pending \cup roots
       /\ UNCHANGED <<sweep, wg>>
  ELSE /\ sweep' = [NoSweep EXCEPT !.at = "starting", !.roots = roots]
       /\ wg' = wg + 1
       /\ UNCHANGED pending

AdminTriggers ==
  /\ \/ /\ admin.at = "asked"
        /\ admin' = [admin EXCEPT !.at = IF phase = "serving" THEN "agreed" ELSE "leaving"]
        /\ UNCHANGED <<sweep, pending, wg>>
     \/ /\ admin.at = "agreed"
        /\ Trigger(admin.roots)
        /\ admin' = [admin EXCEPT !.at = "leaving"]
  /\ UNCHANGED <<phase, active, maint, exiting, stale, orphans>>
  /\ UNCHANGED vars

MaintenanceTriggers ==
  /\ \/ /\ maint.at = "asked"
        /\ maint' = IF phase = "serving"
                    THEN [at |-> "agreed", roots |-> RootsOf(config, Dirs)]
                    ELSE Maintaining("loop")
        /\ UNCHANGED <<sweep, pending, wg>>
     \/ /\ maint.at = "agreed"
        /\ Trigger(maint.roots)
        /\ maint' = Maintaining("loop")
  /\ UNCHANGED <<phase, active, admin, exiting, stale, orphans>>
  /\ UNCHANGED vars

ListNobody ==
  /\ sweep.at = "starting"
  /\ sweep' = [sweep EXCEPT !.at = "walking", !.stale = stale]
  /\ UNCHANGED <<phase, active, admin, maint, wg, pending, exiting, stale, orphans>>
  /\ UNCHANGED vars
\* The files of running transfers are listed and the cutoff is fixed before the
\* walk, so that what is younger than the list survives it.
ListActive ==
  /\ sweep.at = "starting"
  /\ sweep' = [sweep EXCEPT !.at = "walking", !.stale = stale,
                            !.listed = {u \in temps : records[u] # "none"}]
  /\ UNCHANGED <<phase, active, admin, maint, wg, pending, exiting, stale, orphans>>
  /\ UNCHANGED vars

\* A file that is old and not listed: of an earlier life, or of this one.
RemoveStale ==
  /\ sweep.at = "walking" /\ phase = "serving"
  /\ \/ \E fp \in orphans \cap sweep.roots :
          orphans' = orphans \ {fp} /\ UNCHANGED temps
     \/ \E u \in sweep.stale \ sweep.listed :
          /\ target[u].fp \in sweep.roots
          /\ temps' = temps \ {u} /\ UNCHANGED orphans
  /\ Forget
  /\ UNCHANGED <<phase, active, admin, maint, wg, pending, exiting>>
  /\ UNCHANGED <<config, settings, save, pc, target, saved, permits, records, called,
                 ctxDone, files, reply>>

\* At the end of the tree, of its budget, or when the server drains.
EndWalk ==
  /\ sweep.at = "walking"
  /\ sweep' = [NoSweep EXCEPT !.at = "deciding"]
  /\ UNCHANGED <<phase, active, admin, maint, wg, pending, exiting, stale, orphans>>
  /\ UNCHANGED vars

StopSweep ==
  /\ sweep.at = "deciding" /\ exiting < MaxExiting
  /\ sweep' = NoSweep /\ exiting' = exiting + 1
  /\ UNCHANGED <<phase, active, admin, maint, wg, pending, stale, orphans>>
  /\ UNCHANGED vars
DecideSweep ==
  /\ sweep.at = "deciding" /\ exiting < MaxExiting
  /\ IF pending = {}
     THEN sweep' = NoSweep /\ exiting' = exiting + 1
     ELSE sweep' = [NoSweep EXCEPT !.at = "starting", !.roots = pending] /\ UNCHANGED exiting
  /\ pending' = {}
  /\ UNCHANGED <<phase, active, admin, maint, wg, stale, orphans>>
  /\ UNCHANGED vars

ExitSweepUncounted ==
  /\ exiting > 0
  /\ exiting' = exiting - 1
  /\ UNCHANGED <<phase, active, admin, maint, wg, sweep, pending, stale, orphans>>
  /\ UNCHANGED vars
ExitSweep ==
  /\ exiting > 0
  /\ exiting' = exiting - 1 /\ wg' = wg - 1
  /\ UNCHANGED <<phase, active, admin, maint, sweep, pending, stale, orphans>>
  /\ UNCHANGED vars

\* A registered staging file outlives the retention; one that is about to be
\* registered does not (a day, by default).
Age(u) ==
  /\ u \in temps \ stale /\ records[u] # "none"
  /\ stale' = stale \cup {u}
  /\ UNCHANGED <<phase, active, admin, maint, wg, sweep, pending, exiting, orphans>>
  /\ UNCHANGED vars

-----------------------------------------------------------------------------
(* The maintenance goroutine; select may prefer a tick to the end.          *)

MaintenanceTick ==
  /\ maint.at = "loop"
  /\ maint' \in {Maintaining("asked"), Maintaining("working")}
  /\ UNCHANGED <<phase, active, admin, wg, sweep, pending, exiting, stale, orphans>>
  /\ UNCHANGED vars

EndStoreMaintenance ==
  /\ maint.at = "working"
  /\ maint' = Maintaining("loop")
  /\ UNCHANGED <<phase, active, admin, wg, sweep, pending, exiting, stale, orphans>>
  /\ UNCHANGED vars

StopMaintenance ==
  /\ maint.at = "loop" /\ phase # "serving"
  /\ maint' = Maintaining("done") /\ wg' = wg - 1
  /\ UNCHANGED <<phase, active, admin, sweep, pending, exiting, stale, orphans>>
  /\ UNCHANGED vars

-----------------------------------------------------------------------------
(* The end of a life.                                                       *)

BeginDrain ==
  /\ phase = "serving"
  /\ phase' = "draining"
  /\ UNCHANGED <<active, admin, maint, wg, sweep, pending, exiting, stale, orphans>>
  /\ UNCHANGED vars

ShutdownAtOnce ==
  /\ phase = "draining"
  /\ phase' = "closing"
  /\ UNCHANGED <<active, admin, maint, wg, sweep, pending, exiting, stale, orphans>>
  /\ UNCHANGED vars
\* waitForActiveRequests and App.Shutdown.
ShutdownApp ==
  /\ phase = "draining" /\ active = 0
  /\ phase' = "closing"
  /\ UNCHANGED <<active, admin, maint, wg, sweep, pending, exiting, stale, orphans>>
  /\ UNCHANGED vars

CloseStore ==
  /\ phase = "closing" /\ wg = 0
  /\ phase' = "closed"
  /\ UNCHANGED <<active, admin, maint, wg, sweep, pending, exiting, stale, orphans>>
  /\ UNCHANGED vars

\* A crash, a second signal or the start after a shutdown; the staging files stay.
NextLife ==
  /\ Restart
  /\ phase' = "serving" /\ active' = 0
  /\ admin' = [at |-> "none", roots |-> {}]
  /\ maint' = Maintaining("asked") /\ wg' = 1
  /\ sweep' = NoSweep /\ pending' = {} /\ exiting' = 0
  /\ stale' = {}
  /\ orphans' = orphans \cup {target[u].fp : u \in temps}

-----------------------------------------------------------------------------
ServerStep ==
  \/ \E u \in Uploads : RunUpload(u) \/ EndUpload(u) \/ CallBack(u)
  \/ RunPublication \/ EndPublication
  \/ AdminTriggers \/ MaintenanceTriggers
  \/ ListActive \/ RemoveStale \/ EndWalk \/ DecideSweep \/ ExitSweep
  \/ EndStoreMaintenance \/ StopMaintenance \/ ShutdownApp \/ CloseStore

ProcessNext ==
  \/ ServerStep
  \/ \E u \in Uploads : BeginUpload(u) \/ Cancel(u) \/ Age(u)
  \/ BeginPublication \/ PublicationUnconfirmed
  \/ MaintenanceTick \/ BeginDrain \/ NextLife

ProcessSpec == RuntimeInit /\ [][ProcessNext]_processVars

-----------------------------------------------------------------------------
(* Properties.                                                              *)

\* The database is closed when nobody can use it any more: no request, no
\* maintenance and no cleanup worker outlives it.
StoreOutlivesUsers ==
  phase = "closed" =>
    /\ \A u \in Uploads : pc[u] = "idle"
    /\ save.at = "idle" /\ admin.at = "none"
    /\ maint.at = "done" /\ sweep.at = "none" /\ exiting = 0

\* A worker is never added to a wait that may be over.
NoAddAfterWait ==
  admin.at = "agreed" \/ maint.at = "agreed" =>
    (phase = "closing" => wg > 0) /\ phase # "closed"

\* Roots that were merged into a running worker's list have a worker to come.
NoCleanupIsForgotten == pending # {} => sweep.at # "none"

\* The cleanup never takes the staging file of a transfer that may yet land.
StreamingKeepsItsTemp ==
  \A u \in Uploads :
    pc[u] \in {"streaming", "written", "committing", "landed"} => u \in temps

\* Whoever has a step of its own, waiting for nobody: a request, unless a writer
\* keeps it out of the gate; the publication, unless it waits for requests there;
\* and at last whoever ends the life.
GoesOn(u) == pc[u] # "idle" /\ (pc[u] \in {"asking", "naming", "staged", "written"} => MayRLock)
PublicationGoesOn == save.at # "idle" /\ (save.at = "pending" => Readers = {})
SomebodyGoesOn ==
  \/ \E u \in Uploads : GoesOn(u)
  \/ PublicationGoesOn \/ admin.at \in {"asked", "agreed", "leaving"}
  \/ maint.at # "done"
  \/ sweep.at \in {"starting", "walking"} \/ (sweep.at = "deciding" /\ exiting < MaxExiting)
  \/ exiting > 0
  \/ phase = "draining" /\ active = 0
  \/ phase = "closing" /\ wg = 0

\* In a server that drains not everybody waits, for a counter or for a lock.
DrainGoesOn == phase \in {"draining", "closing"} => SomebodyGoesOn

\* A server that drains always has a step to take, until it is closed.
DrainNeverStuck == DrainGoesOn /\ (phase \in {"draining", "closing"} => ENABLED ServerStep)
=============================================================================
