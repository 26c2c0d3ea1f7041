--------------------------- MODULE UploadPromise ---------------------------
(***************************************************************************)
(* What the server promises about uploads, whatever its locks are: a file  *)
(* lands in a directory only while the configuration that authorized its   *)
(* request has been in force all along, and a request that fails leaves    *)
(* nothing behind.  UploadGate implements it.                              *)
(***************************************************************************)
EXTENDS UploadResources

VARIABLES
  published,  \* the configuration in force
  session,    \* what a request has been authorized for
  landed,     \* the files of a request that are in its directory
  answer      \* how a request ended

promiseVars == <<published, session, landed, answer>>

PromiseInit ==
  /\ published \in Configs
  /\ session = [u \in Uploads |-> Closed]
  /\ landed = [u \in Uploads |-> 0]
  /\ answer = [u \in Uploads |-> "idle"]

Arrive(u) ==
  /\ answer[u] # "none"
  /\ landed' = [landed EXCEPT ![u] = 0]
  /\ answer' = [answer EXCEPT ![u] = "none"]
  /\ UNCHANGED <<published, session>>

Authorize(u, d, fp) ==
  /\ answer[u] = "none" /\ landed[u] = 0 /\ session[u] = Closed
  /\ Grants(published, d, fp)
  /\ session' = [session EXCEPT ![u] = Opened(d, fp)]
  /\ UNCHANGED <<published, landed, answer>>

Land(u) ==
  /\ session[u].state = "open"
  /\ Grants(published, session[u].dir, session[u].fp)
  /\ landed' = [landed EXCEPT ![u] = @ + 1]
  /\ UNCHANGED <<published, session, answer>>

\* The authorizations of changed resources end with the configuration that
\* gave them, even if it comes back later.
Publish(next) ==
  /\ published' = next
  /\ session' = [u \in Uploads |->
       IF session[u].dir \in Changed(published, next) THEN Revoked ELSE session[u]]
  /\ UNCHANGED <<landed, answer>>

Succeed(u) ==
  /\ answer[u] = "none" /\ landed[u] > 0
  /\ answer' = [answer EXCEPT ![u] = "ok"]
  /\ session' = [session EXCEPT ![u] = Closed]
  /\ UNCHANGED <<published, landed>>

Undo(u) ==
  /\ answer[u] = "none"
  /\ answer' = [answer EXCEPT ![u] = "failed"]
  /\ landed' = [landed EXCEPT ![u] = 0]
  /\ session' = [session EXCEPT ![u] = Closed]
  /\ UNCHANGED published

\* The process dies; only what is on the disk stays.
Die ==
  /\ session' = [u \in Uploads |-> Closed]
  /\ answer' = [u \in Uploads |-> IF answer[u] = "none" THEN "lost" ELSE answer[u]]
  /\ UNCHANGED <<published, landed>>

PromiseNext ==
  \/ \E next \in Configs : Publish(next)
  \/ \E u \in Uploads :
       \/ Arrive(u) \/ Land(u) \/ Succeed(u) \/ Undo(u)
       \/ \E d \in Dirs, fp \in Fps : Authorize(u, d, fp)
  \/ Die

PromiseSpec == PromiseInit /\ [][PromiseNext]_promiseVars
=============================================================================
