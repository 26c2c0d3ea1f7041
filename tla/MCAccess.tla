------------------------------ MODULE MCAccess ------------------------------
(***************************************************************************)
(* Instances of Accounts and Downloads for TLC, checked together: in a     *)
(* behaviour either the accounts are at work and nobody downloads, or an   *)
(* account with a session mints its leases, downloads, and may lose its    *)
(* leases to its administrator.                                            *)
(***************************************************************************)
EXTENDS Downloads, TLC

CONSTANTS ann, p, q, s1, s2, moved, same, other

VARIABLE scene

Symmetry ==
  Permutations({p, q}) \cup Permutations({s1, s2}) \cup Permutations(Requests)

\* same has the size and the time of moved and another content; other differs
\* in both.
Looks == [v \in Versions |-> IF v = other THEN "new" ELSE "old"]
Contents == [v \in Versions |-> IF v = moved THEN "good" ELSE "bad"]

SignedIn ==
  /\ users = [u \in Users |-> Account("active", p, 1)]
  /\ \E session \in {SessionRow("fresh", ann, 1, p), SessionRow("fresh", NoUser, 0, NoPassword)} :
       sessions = [s \in Sessions |-> IF s = s1 THEN session ELSE Free]
  /\ leases = [l \in Leases |-> NoLease]
  /\ req = [r \in Requests |-> NoRequest]
  /\ slots = 0

MCInit ==
  /\ scene \in {"accounts", "downloads"}
  /\ IF scene = "accounts" THEN Init ELSE SignedIn
  /\ DownloadsInit
  /\ scene = "accounts" => file = moved /\ verifyEvery

\* Behaviours of the first kind mint leases for uploads; no two of their sessions
\* are idle at a time, and one without an account comes alone.  Those of the
\* second kind have one session and mint one lease at a time, and their account
\* is disabled at most once.
WithAccounts ==
  /\ AccountsNext /\ UNCHANGED downloadVars
  /\ \A r \in Requests : req'[r].op # "download"
  /\ Cardinality({s \in Sessions : sessions'[s].life \notin {"none", "fresh"}}) <= 1
  /\ \A s \in Sessions : sessions'[s] # Free /\ sessions'[s].user = NoUser =>
       \A t \in Sessions \ {s} : sessions'[t] = Free
WithDownloads ==
  /\ DownloadsNext
  /\ \A r \in Requests : req'[r].op \in {"none", "download"}
  /\ Cardinality({r \in Requests : req'[r] # NoRequest}) <= 1
  /\ \A s \in Sessions : sessions'[s] \in {sessions[s], Free}
  /\ users'[ann].status \in {"active", "disabled"} /\ users'[ann].version <= 2

MCNext ==
  /\ IF scene = "accounts" THEN WithAccounts ELSE WithDownloads
  /\ UNCHANGED scene
MCSpec == MCInit /\ [][MCNext]_<<accountVars, downloadVars, scene>>
=============================================================================
