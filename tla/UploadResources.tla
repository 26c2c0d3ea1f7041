-------------------------- MODULE UploadResources --------------------------
(* Configured resources as uploads see them, and what a request can be told. *)
EXTENDS Naturals

CONSTANTS
  Uploads,      \* the upload requests
  Dirs,         \* ids of configured resources
  Resources,    \* what an id may stand for
  Absent,       \* a resource that is not configured
  Open,         \* the resources that accept uploads
  Fingerprint,  \* of a resource: spellings of one path share it
  Configs,      \* the configurations an administrator may publish
  NoDir, NoFp

ASSUME ResourceAssumption ==
  /\ Absent \notin Resources /\ NoDir \notin Dirs
  /\ Open \subseteq Resources
  /\ DOMAIN Fingerprint = Resources
  /\ \A r \in Resources : Fingerprint[r] # NoFp
  /\ \A r, s \in Resources : Fingerprint[r] = Fingerprint[s] => (r \in Open <=> s \in Open)
  /\ Configs \subseteq [Dirs -> Resources \cup {Absent}]

Fps == {Fingerprint[r] : r \in Resources}

\* conf lets files be put into d under the fingerprint fp.
Grants(conf, d, fp) ==
  d \in Dirs /\ conf[d] \in Open /\ Fingerprint[conf[d]] = fp

\* The ids whose resource next takes away or changes.
Changed(conf, next) == {d \in Dirs : conf[d] # Absent /\ next[d] # conf[d]}

Closed == [state |-> "closed", dir |-> NoDir, fp |-> NoFp]
Revoked == [state |-> "revoked", dir |-> NoDir, fp |-> NoFp]
Opened(d, fp) == [state |-> "open", dir |-> d, fp |-> fp]

\* How a request ended, if there was one and it has.
Answers == {"idle", "none", "ok", "failed", "lost"}
=============================================================================
