-------------------------- MODULE MCServerRuntime --------------------------
(***************************************************************************)
(* Instances of UploadGate and ServerRuntime for TLC, checked together: a  *)
(* behaviour is of the gate alone when a crowd of uploads comes, and of    *)
(* the whole process when at most MaxServed uploads come.                  *)
(***************************************************************************)
EXTENDS ServerRuntime, TLC

CONSTANTS
  u1, u2, u3, d1, d2, open, closed,
  MaxServed, \* uploads in a behaviour of the whole process
  Varying    \* what the first directory may become

VARIABLE crowd \* the uploads that come

Symmetry == Permutations({u1, u2})

\* Two requests of one session and one of a public token.
Owners == [u \in Uploads |-> IF u = u3 THEN "token" ELSE "session"]
Paths == [r \in Resources |-> r]

\* The second directory is configured for a crowd only, and then all the time.
FirstVaries ==
  {[d \in Dirs |-> IF d = d1 THEN r ELSE s] : r \in Varying, s \in {open, Absent}}

Served == Cardinality(crowd) <= MaxServed

\* The upload of the token is of the directory its lease is for.
LeaseNames(u) ==
  /\ pc'[u] # "naming"
  /\ pc'[u] = "asking" => target'[u].dir = d1

MCInit ==
  /\ RuntimeInit
  /\ crowd \in {Uploads, {u3}}
  /\ config[d2] = (IF Served THEN Absent ELSE open)
MCNext ==
  /\ IF Served THEN ProcessNext ELSE Next /\ UNCHANGED runtimeVars
  /\ \A u \in Uploads \ crowd : pc'[u] = "idle"
  /\ save'.next[d2] = config[d2]
  /\ LeaseNames(u3)
  /\ UNCHANGED crowd
MCSpec == MCInit /\ [][MCNext]_<<processVars, crowd>>
=============================================================================
