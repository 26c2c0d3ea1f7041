------------------------------- MODULE MCClient -------------------------------
(***************************************************************************)
(* Instances of the three parts of the page for TLC, checked together: in  *)
(* a behaviour the tabs are at work, or one upload queue, or one page      *)
(* whose session goes idle.                                                *)
(***************************************************************************)
EXTENDS AuthTabs, UploadQueue, SessionRecovery

VARIABLE scene

\* Sessions, subjects and owners are interchangeable: whoever is there at first
\* is always the same one.  The tabs open while the browser has its cookie; it
\* may be gone before they ask for it.
First(S) == CHOOSE x \in S : TRUE

MCInit ==
  /\ scene \in {"tabs", "queue", "recovery"}
  /\ AuthInit /\ QueueInit /\ RecoveryInit
  /\ cookie = IF scene = "tabs" THEN First(Sessions) ELSE NoSession
  /\ IF scene = "queue" THEN subject \in {NoSubject, First(Subjects)}
     ELSE subject = NoSubject /\ ~bound
  /\ jar = First(Owners) /\ (scene # "recovery" => page.owner = NoOwner)

MCNext ==
  /\ \/ scene = "tabs" /\ AuthNext /\ UNCHANGED <<queueVars, recoveryVars>>
     \/ scene = "queue" /\ QueueNext /\ UNCHANGED <<authVars, recoveryVars>>
     \/ scene = "recovery" /\ RecoveryNext /\ UNCHANGED <<authVars, queueVars>>
  /\ UNCHANGED scene

MCSpec ==
  /\ MCInit /\ [][MCNext]_<<authVars, queueVars, recoveryVars, scene>>
  /\ AuthFairness /\ RecoveryFairness
=============================================================================
