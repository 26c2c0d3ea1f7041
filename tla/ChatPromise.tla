----------------------------- MODULE ChatPromise -----------------------------
(***************************************************************************)
(* What the chat promises to whoever reads it, whatever its tables and its *)
(* locks are: a message goes from active to withdrawn to deleted and never *)
(* back, each time by a change of its own that is later than all before;   *)
(* only a removal takes changes away, and no two share a generation.       *)
(* ChatGates and ChatSync implement it.                                    *)
(***************************************************************************)
EXTENDS Integers

CONSTANT Messages \* naturals: the messages that may ever be written

VARIABLES
  status,     \* of every message; "none" before it is written
  touched,    \* the last change of every message that is still there, or 0
  latest,     \* the last change of all
  generation

promiseVars == <<status, touched, latest, generation>>

\* The first messages may have been there before.
PromiseInit ==
  /\ latest \in Messages \cup {0}
  /\ status = [i \in Messages |-> IF i <= latest THEN "active" ELSE "none"]
  /\ touched = [i \in Messages |-> IF i <= latest THEN i ELSE 0]
  /\ generation = 1

Is(i, statuses) == i \in Messages /\ status[i] \in statuses

\* The messages get a change each, in the order of their ids.
Touch(ids, next) ==
  /\ ids # {}
  /\ status' = [i \in Messages |-> IF i \in ids THEN next ELSE status[i]]
  /\ \E seq \in [ids -> (latest + 1)..latest'] :
       /\ {seq[i] : i \in ids} = (latest + 1)..latest'
       /\ \A i, j \in ids : i < j => seq[i] < seq[j]
       /\ touched' = [i \in Messages |-> IF i \in ids THEN seq[i] ELSE touched[i]]
  /\ UNCHANGED generation

\* An id is never used again.
Write(i) ==
  /\ Is(i, {"none"})
  /\ \A j \in Messages : j > i <=> status[j] = "none" /\ j # i
  /\ Touch({i}, "active")

Withdraw(i) == Is(i, {"active"}) /\ Touch({i}, "withdrawn")

Delete(ids) ==
  /\ \A i \in ids : Is(i, {"active", "withdrawn"})
  /\ Touch(ids, "deleted")

Remove(ids) ==
  /\ ids # {} /\ generation' = generation + 1
  /\ \A i \in ids : Is(i, {"active", "withdrawn", "deleted"})
  /\ status' = [i \in Messages |-> IF i \in ids THEN "gone" ELSE status[i]]
  /\ touched' = [i \in Messages |-> IF i \in ids THEN 0 ELSE touched[i]]
  /\ UNCHANGED latest

PromiseNext ==
  \/ \E i \in Messages : Write(i) \/ Withdraw(i)
  \/ \E ids \in SUBSET Messages : Delete(ids) \/ Remove(ids)

PromiseSpec == PromiseInit /\ [][PromiseNext]_promiseVars
=============================================================================
