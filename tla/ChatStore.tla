------------------------------ MODULE ChatStore ------------------------------
(***************************************************************************)
(* The chat tables of internal/store/chat.go: the messages, the log of     *)
(* their changes that clients read, and the generation that tells a client *)
(* that rows were removed under its feet.  Every operation is one SQLite   *)
(* transaction, hence one action; the log and the state of a message       *)
(* change together or not at all.                                          *)
(***************************************************************************)
EXTENDS Integers, Sequences, FiniteSets, FiniteSetsExt

CONSTANTS
  MaxMessages,  \* bound: messages ever created
  CleanupBatch  \* chat.cleanup_batch: messages one cleanup removes at most

ASSUME StoreAssumption == MaxMessages \in Nat /\ CleanupBatch \in Nat \ {0}

VARIABLES
  msgs,  \* table chat_messages: the status of message i is msgs[i]
  chg,   \* table chat_changes: the message of change s is chg[s], 0 if the row is gone
  gen    \* chat_sync_metadata.generation

store == <<msgs, chg, gen>>

Ids == 1..MaxMessages
Statuses == {"active", "withdrawn", "deleted", "gone"}

\* Both ids are AUTOINCREMENT: sqlite_sequence keeps the high-water mark when
\* rows are removed, as the lengths of the sequences do.
StoreTypeOK ==
  /\ msgs \in Seq(Statuses) /\ Len(msgs) <= MaxMessages
  /\ chg \in Seq(Ids \cup {0})
  /\ gen \in Nat \ {0}

StoreInit == msgs = <<>> /\ chg = <<>> /\ gen = 1

Latest == Len(chg)
Present == {i \in DOMAIN msgs : msgs[i] # "gone"}

-----------------------------------------------------------------------------
(* Writing.                                                                 *)

Rank(i, ids) == Cardinality({j \in ids : j <= i})

ChangeLoggedOnce(ids, status) ==
  /\ msgs' = [i \in DOMAIN msgs |-> IF i \in ids THEN status ELSE msgs[i]]
  /\ chg' = Append(chg, Min(ids))
  /\ UNCHANGED gen
\* Each message gets a change of its own, in ascending order of ids.
Change(ids, status) ==
  /\ msgs' = [i \in DOMAIN msgs |-> IF i \in ids THEN status ELSE msgs[i]]
  /\ chg' = chg \o [k \in 1..Cardinality(ids) |-> CHOOSE i \in ids : Rank(i, ids) = k]
  /\ UNCHANGED gen

CreateChatMessage ==
  /\ Len(msgs) < MaxMessages
  /\ msgs' = Append(msgs, "active")
  /\ chg' = Append(chg, Len(msgs) + 1)
  /\ UNCHANGED gen

\* The author withdraws a message, within the window.  Who asks and when is
\* left to the caller: a refusal changes nothing here.
WithdrawChatMessage(i) ==
  /\ i \in DOMAIN msgs /\ msgs[i] = "active"
  /\ Change({i}, "withdrawn")

DeleteChatMessage(i, allowWithdrawn) ==
  /\ i \in DOMAIN msgs
  /\ \/ msgs[i] = "active"
     \/ allowWithdrawn /\ msgs[i] = "withdrawn"
  /\ Change({i}, "deleted")

\* All of them, or none.
BatchDeleteChatMessages(ids) ==
  /\ ids \subseteq DOMAIN msgs
  /\ \A i \in ids : msgs[i] \in {"active", "withdrawn"}
  /\ Change(ids, "deleted")

\* Messages are removed with their changes.
RemoveRowsSameGeneration(ids) ==
  /\ msgs' = [i \in DOMAIN msgs |-> IF i \in ids THEN "gone" ELSE msgs[i]]
  /\ chg' = [s \in DOMAIN chg |-> IF chg[s] \in ids THEN 0 ELSE chg[s]]
  /\ UNCHANGED gen
RemoveRows(ids) ==
  /\ msgs' = [i \in DOMAIN msgs |-> IF i \in ids THEN "gone" ELSE msgs[i]]
  /\ chg' = [s \in DOMAIN chg |-> IF chg[s] \in ids THEN 0 ELSE chg[s]]
  /\ gen' = IF ids = {} THEN gen ELSE gen + 1

\* Compare and swap on the state the administrator confirmed.
ClearChatMessages(expectedGeneration, expectedLatestChangeSeq) ==
  /\ expectedGeneration = gen /\ expectedLatestChangeSeq = Latest
  /\ RemoveRows(Present)

\* Retention.  created_at is the clock of the request, so the messages that
\* are too old, or too many, need not be those of the lowest ids.
CleanupChat ==
  \E ids \in SUBSET Present : /\ Cardinality(ids) \in 1..CleanupBatch
                              /\ RemoveRows(ids)

-----------------------------------------------------------------------------
(* Reading: each page is a snapshot.                                        *)

Newest(set, k) == {i \in set : Cardinality({j \in set : j > i}) < k}
Oldest(set, k) == {i \in set : Cardinality({j \in set : j < i}) < k}

\* The newest messages before an id (0: the newest of all), and the id to
\* continue from (0: there are no more).
ChatMessagesPage(before, limit) ==
  LET all  == {i \in Present : before = 0 \/ i < before}
      page == Newest(all, limit) IN
  [gen |-> gen, latest |-> Latest,
   next |-> IF page = all THEN 0 ELSE Min(page),
   rows |-> {[id |-> i, status |-> msgs[i], seq |-> Latest] : i \in page}]

\* The changes after a cursor that are still there, and one more than the page.
Fetched(after, limit) == Oldest({s \in (after + 1)..Latest : chg[s] # 0}, limit + 1)

Continuous(after, limit) ==
  LET found == Fetched(after, limit)
      last  == after + Cardinality(found) IN
  /\ found = (after + 1)..last
  /\ last > after + limit \/ last = Latest

CursorResetRequired(after, generation, limit) ==
  \/ generation # gen
  \/ after > Latest
  \/ ~Continuous(after, limit)

\* A change is joined with its message as it is now, which may be the work of
\* a later change.
ChatChangesPage(after, limit) ==
  LET page == Oldest(Fetched(after, limit), limit) IN
  [gen |-> gen, latest |-> Latest,
   next |-> after + Cardinality(page),
   rows |-> {[id |-> chg[s], status |-> msgs[chg[s]], seq |-> s] : s \in page}]

-----------------------------------------------------------------------------
(* Properties.                                                              *)

ChangesOf(i) == {s \in 1..Latest : chg[s] = i}
StatusOf == [i \in Ids |-> IF i \in DOMAIN msgs THEN msgs[i] ELSE "none"]
LastChangeOf == [i \in Ids |-> Max({0} \cup ChangesOf(i))]

\* What readers are promised: a status moves forward only, under a change that is
\* later than all before, and changes go only with their generation.
Promise == INSTANCE ChatPromise WITH
  Messages <- Ids,
  status <- StatusOf,
  touched <- LastChangeOf,
  latest <- Latest,
  generation <- gen
KeepsChatPromise == Promise!PromiseSpec
=============================================================================
