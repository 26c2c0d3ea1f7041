--------------------------- MODULE ChatGatesProofs ---------------------------
(***************************************************************************)
(* Theorems about ChatGates, for every set of calls, every number of       *)
(* messages and every batch.                                               *)
(***************************************************************************)
EXTENDS ChatGates, ChatStoreProofs

\* Where a call has no lease.
Apart == {"idle", "entering", "parked", "pending", "exclusive"}
CallRecords == [op : AllOps \cup {"none"}, pc : Points, ids : Seq(Ids),
                leases : Seq(Lease), overlapped : SUBSET Ids, won : SUBSET Ids]

\* A call has announced itself at the gate of a message.
Uses(r, i) == \E k \in 1..Len(r.leases) : r.ids[k] = i

\* A call by itself: its leases are for its first ids, in order and each once; it
\* has leases where it holds or waits for gates only, has overlapped what it
\* waits for, and wins nothing before its transaction.
WellFormed(r) ==
  /\ Len(r.leases) <= Len(r.ids)
  /\ \A j, k \in 1..Len(r.ids) : r.ids[j] = r.ids[k] => j = k
  /\ \A k \in 1..Len(r.leases) : r.leases[k].id = r.ids[k]
  /\ r.pc \in Apart => Len(r.leases) = 0
  /\ r.pc \in {"waiting", "leaving"} => Len(r.leases) # 0
  /\ r.pc = "waiting" => r.ids[Len(r.leases)] \in r.overlapped
  /\ r.pc \in Apart \cup {"shared", "waiting"} =>
       r.won = {} /\ \A i \in r.overlapped : Uses(r, i)
  /\ \A i \in r.won : Uses(r, i)
  /\ r.op \in {"none", "create"} \cup Destructive => Len(r.ids) = 0
  /\ r.op \in {"withdraw", "delete"} => Len(r.ids) = 1

\* The types the proof needs; the log of changes is treated apart.
Types ==
  /\ msgs \in Seq(Statuses)
  /\ call \in [Calls -> CallRecords]
  /\ chatMutations \in [Ids -> Gates \cup {NoGate}]
  /\ gate \in [Gates -> [active : Nat, holder : Calls \cup {NoCall}]]

Shapes == \A c \in Calls : WellFormed(call[c])

Users(i) == {c \in Calls : Uses(call[c], i)}

\* The map, the counts and the leases agree, no two messages share a gate, and a
\* gate that is counted is published, so that the others are free.
Mapped ==
  /\ \A i \in Ids : chatMutations[i] = NoGate <=> Users(i) = {}
  /\ \A i \in Ids : chatMutations[i] # NoGate =>
       gate[chatMutations[i]].active = Cardinality(Users(i))
  /\ \A c \in Calls : \A k \in 1..Len(call[c].leases) :
       call[c].leases[k].gate = chatMutations[call[c].ids[k]]
  /\ \A i, j \in Ids : chatMutations[i] # NoGate /\ chatMutations[i] = chatMutations[j] => i = j
  /\ \A g \in Gates : gate[g].active # 0 => \E i \in Ids : chatMutations[i] = g

\* A call holds every gate it has announced itself at, but for the last one while
\* it waits for it or has unlocked it.
Owned ==
  \A c \in Calls : \A k \in 1..Len(call[c].leases) :
    k < Len(call[c].leases) \/ call[c].pc \notin {"waiting", "leaving"} =>
      gate[call[c].leases[k].gate].holder = c

\* Of two calls at a gate the later one has overlapped the other.
Overlaps ==
  \A i \in Ids : \A c, d \in Users(i) :
    c # d => i \in call[c].overlapped \/ i \in call[d].overlapped

\* The call that has not overlapped comes to its end first.
Ordered ==
  \A i \in Ids : \A c, d \in Users(i) :
    i \notin call[c].overlapped /\ i \in call[d].overlapped =>
      (call[d].pc \in {"ending", "leaving"} => call[c].pc \in {"ending", "leaving"})

\* What a call has won is active no longer.
Wins ==
  \A c \in Calls : \A i \in call[c].won : i \in DOMAIN msgs /\ msgs[i] # "active"

\* Writers exclude each other, and readers.
Writers ==
  /\ \A c, d \in At({"pending", "exclusive"}) : c = d
  /\ At({"exclusive"}) # {} => Readers = {}

IInv == Types /\ Shapes /\ Mapped /\ Owned /\ Overlaps /\ Ordered /\ Wins /\ OneWinner /\ Writers

-----------------------------------------------------------------------------
\* Nobody runs and no gate is published at first.
LEMMA InitInv == ASSUME Init PROVE IInv
<1> USE StoreAssumption, CallsAssumption
<1> USE DEF Init
<1>1. Types
  BY DEF Types, CallRecords, Idle, Points, AllOps, Statuses, Gates, NoGate, Ids, Lease
<1>2. Shapes
  BY DEF Shapes, WellFormed, Idle, Apart, Uses, Destructive
<1>3. \A i \in Ids : Users(i) = {}
  BY DEF Users, Uses, Idle
<1>4. Mapped
  BY <1>3 DEF Mapped, NoGate, Idle, Gates
<1>5. Owned /\ Overlaps /\ Ordered /\ Wins /\ OneWinner
  BY <1>3 DEF Owned, Overlaps, Ordered, Wins, OneWinner, Idle
<1>6. Writers
  BY DEF Writers, At, Readers, Idle
<1> QED BY <1>1, <1>2, <1>4, <1>5, <1>6 DEF IInv

\* The calls that name a message are a finite set.
LEMMA UsersFinite ==
  ASSUME NEW i PROVE IsFiniteSet(Users(i))
BY CallsAssumption, FS_Subset DEF Users

\* A message in use has at least one user, and Cardinality counts them.
LEMMA UsersCounted ==
  ASSUME NEW i, NEW c \in Users(i) PROVE Cardinality(Users(i)) \in Nat \ {0}
BY UsersFinite, FS_EmptySet, FS_CardinalityType

(***************************************************************************)
(* The store: what a message has become it does not unbecome.              *)
(***************************************************************************)
Moved ==
  /\ msgs' \in Seq(Statuses)
  /\ Len(msgs') >= Len(msgs)
  /\ \A i \in DOMAIN msgs : msgs[i] # "active" => msgs'[i] # "active"

\* A withdrawal or deletion leaves none of its messages active.
LEMMA ChangeMoves ==
  ASSUME msgs \in Seq(Statuses), NEW ids, NEW s \in Statuses \ {"active"}, Change(ids, s)
  PROVE  Moved /\ \A i \in ids \cap DOMAIN msgs : msgs'[i] # "active"
<1>1. msgs' = [i \in DOMAIN msgs |-> IF i \in ids THEN s ELSE msgs[i]]
  BY Zenon DEF Change
<1> QED BY <1>1 DEF Moved

\* Rows that are removed do not become active again.
LEMMA RemoveMoves ==
  ASSUME msgs \in Seq(Statuses), NEW ids, RemoveRows(ids)
  PROVE  Moved
<1>1. msgs' = [i \in 1..Len(msgs) |-> IF i \in ids THEN "gone" ELSE msgs[i]]
  BY DEF RemoveRows
<1> QED BY <1>1 DEF Moved, Statuses

\* A new message does not disturb those that are there.
LEMMA CreateMoves ==
  ASSUME msgs \in Seq(Statuses), CreateChatMessage
  PROVE  Moved
<1>1. "active" \in Statuses
  BY DEF Statuses
<1> QED BY <1>1 DEF Moved, CreateChatMessage

\* Neither does a call that leaves the messages alone.
LEMMA StayMoves ==
  ASSUME msgs \in Seq(Statuses), UNCHANGED msgs PROVE Moved
BY DEF Moved

-----------------------------------------------------------------------------
\* Where the transaction of a call is over, and where it does not hold its last gate.
Behind == {"ending", "leaving"}
Unowned == {"waiting", "leaving"}

\* No call gets or gives back a lease.
Stands ==
  /\ chatMutations' = chatMutations
  /\ gate' \in [Gates -> [active : Nat, holder : Calls \cup {NoCall}]]
  /\ \A g \in Gates : gate'[g].active = gate[g].active
  /\ \A d \in Calls : /\ call'[d].leases = call[d].leases
                      /\ Len(call[d].leases) # 0 => /\ call'[d].ids = call[d].ids
                                                    /\ call'[d].overlapped = call[d].overlapped

\* The map stays right when no call gets or gives back a lease ...
LEMMA StandsMapped ==
  ASSUME Types, Mapped, Stands
  PROVE  Mapped' /\ \A i : Users(i)' = Users(i)
<1>1. \A i : Users(i)' = Users(i)
  <2> SUFFICES ASSUME NEW i, NEW c \in Calls PROVE Uses(call[c], i)' <=> Uses(call[c], i)
    BY DEF Users
  <2>1. Len(call[c].leases) \in Nat
    BY DEF Types, CallRecords
  <2> QED BY <2>1 DEF Stands, Uses
<1>2. \A i \in Ids : chatMutations'[i] # NoGate => chatMutations'[i] \in Gates
  BY DEF Types, Stands
<1>3. \A c \in Calls : \A k \in 1..Len(call'[c].leases) :
        call'[c].leases[k].gate = chatMutations'[call'[c].ids[k]]
  <2> SUFFICES ASSUME NEW c \in Calls, NEW k \in 1..Len(call[c].leases)
               PROVE  call'[c].leases[k].gate = chatMutations'[call'[c].ids[k]]
    BY DEF Stands
  <2>1. Len(call[c].leases) \in Nat /\ Len(call[c].leases) # 0
    BY DEF Types, CallRecords
  <2> QED BY <2>1 DEF Stands, Mapped
<1> QED BY <1>1, <1>2, <1>3 DEF Mapped, Stands

\* ... those who met at a gate have still met ...
LEMMA StandsOverlaps ==
  ASSUME Types, Overlaps, Stands, \A i : Users(i)' = Users(i)
  PROVE  Overlaps'
<1>1. \A i : \A c \in Users(i) : call'[c].overlapped = call[c].overlapped
  BY DEF Users, Uses, Stands, Types, CallRecords
<1> QED BY <1>1 DEF Overlaps

\* ... and nobody is overtaken unless somebody comes to its end.
LEMMA StandsOrdered ==
  ASSUME Types, Ordered, Stands, \A i : Users(i)' = Users(i),
         \A d \in Calls : Len(call[d].leases) # 0 =>
           (call'[d].pc \in Behind <=> call[d].pc \in Behind)
  PROVE  Ordered'
<1>1. \A i : \A c \in Users(i) : /\ call'[c].overlapped = call[c].overlapped
                                 /\ call'[c].pc \in Behind <=> call[c].pc \in Behind
  BY DEF Users, Uses, Stands, Types, CallRecords
<1> QED BY <1>1 DEF Ordered, Behind

\* What was won stays won and is nobody else's.
LEMMA StandsWins ==
  ASSUME Types, Wins, OneWinner, Moved, \A d \in Calls : call'[d].won = call[d].won
  PROVE  Wins' /\ OneWinner'
<1>1. \A i \in DOMAIN msgs : i \in DOMAIN msgs'
  BY DEF Moved, Types
<1> QED BY <1>1 DEF Wins, OneWinner, Moved

\* A step that leaves every call at the gates it has and between the same points.
LEMMA QuietInv ==
  ASSUME IInv, Stands, UNCHANGED gate, Moved, Types', Shapes', Writers',
         \A d \in Calls : call'[d].won = call[d].won,
         \A d \in Calls : Len(call[d].leases) # 0 =>
           /\ call'[d].pc \in Behind <=> call[d].pc \in Behind
           /\ call'[d].pc \in Unowned <=> call[d].pc \in Unowned
  PROVE  IInv'
<1>1. Mapped' /\ \A i : Users(i)' = Users(i)
  BY StandsMapped DEF IInv
<1>2. Overlaps'
  BY <1>1, StandsOverlaps DEF IInv
<1>3. Ordered'
  BY <1>1, StandsOrdered DEF IInv
<1>4. Wins' /\ OneWinner'
  BY StandsWins DEF IInv
<1>5. Owned'
  <2> SUFFICES ASSUME NEW c \in Calls, NEW k \in 1..Len(call[c].leases),
                      k < Len(call[c].leases) \/ call'[c].pc \notin Unowned
               PROVE  gate[call[c].leases[k].gate].holder = c
    BY DEF Owned, Stands, Unowned
  <2>1. Len(call[c].leases) \in Nat /\ Len(call[c].leases) # 0
    BY DEF IInv, Types, CallRecords
  <2> QED BY <2>1 DEF IInv, Owned, Unowned
<1> QED BY <1>1, <1>2, <1>3, <1>4, <1>5 DEF IInv

\* One call has changed.
LEMMA OneCall ==
  ASSUME Types, Shapes, NEW c \in Calls, NEW r \in CallRecords, WellFormed(r),
         call' = [call EXCEPT ![c] = r]
  PROVE  /\ call' \in [Calls -> CallRecords]
         /\ Shapes'
         /\ call'[c] = r
         /\ \A d \in Calls : d # c => call'[d] = call[d]
BY DEF Types, Shapes

\* A call has come to another point.
LEMMA RePointed ==
  ASSUME NEW r \in CallRecords, NEW p \in Points
  PROVE  LET s == [r EXCEPT !.pc = p] IN
         /\ s \in CallRecords
         /\ s.pc = p /\ s.op = r.op /\ s.ids = r.ids /\ s.leases = r.leases
         /\ s.overlapped = r.overlapped /\ s.won = r.won
BY DEF CallRecords

\* A call without leases is well formed at every point where it has none.
LEMMA ApartWellFormed ==
  ASSUME NEW r \in CallRecords, WellFormed(r), r.pc \in Apart,
         NEW p \in Apart \cup {"shared"}
  PROVE  WellFormed([r EXCEPT !.pc = p])
<1>1. p \in Points
  BY DEF Apart, Points
<1>2. p \notin {"waiting", "leaving"} /\ p # "waiting"
  BY DEF Apart
<1>3. \A i : Uses([r EXCEPT !.pc = p], i) <=> Uses(r, i)
  BY <1>1, RePointed DEF Uses
<1> QED BY <1>1, <1>2, <1>3, RePointed DEF WellFormed, Apart

\* An idle call is well formed.
LEMMA IdleWellFormed == Idle \in CallRecords /\ WellFormed(Idle) /\ Idle.pc = "idle"
                        /\ Idle.leases = <<>> /\ Idle.won = {}
BY DEF Idle, CallRecords, Points, WellFormed, Apart, Uses, Destructive, Lease

\* A call that holds no gate moves between points where it holds none.
LEMMA ApartStep ==
  ASSUME IInv, NEW c \in Calls, NEW p \in Apart \cup {"shared"}, call[c].pc \in Apart,
         call' = [call EXCEPT ![c].pc = p], UNCHANGED <<msgs, chatMutations, gate>>,
         Writers'
  PROVE  IInv'
<1> DEFINE r == [call[c] EXCEPT !.pc = p]
<1>1. p \in Points /\ call[c] \in CallRecords /\ WellFormed(call[c])
  BY DEF IInv, Types, Shapes, Apart, Points
<1>2. r \in CallRecords /\ WellFormed(r) /\ r.leases = call[c].leases /\ r.won = call[c].won
      /\ r.ids = call[c].ids /\ r.overlapped = call[c].overlapped
  BY <1>1, RePointed, ApartWellFormed
<1>3. call' = [call EXCEPT ![c] = r]
  OBVIOUS
<1>4. /\ call' \in [Calls -> CallRecords]
      /\ Shapes'
      /\ call'[c] = r
      /\ \A d \in Calls : d # c => call'[d] = call[d]
  BY <1>2, <1>3, OneCall DEF IInv
<1>5. Types'
  BY <1>4 DEF IInv, Types
<1>6. Stands
  BY <1>2, <1>4 DEF Stands, IInv, Types
<1>7. Len(call[c].leases) = 0
  BY <1>1 DEF WellFormed
<1>8. Moved
  BY StayMoves DEF IInv, Types
<1> HIDE DEF r
<1> QED BY <1>2, <1>4, <1>5, <1>6, <1>7, <1>8, QuietInv

\* A reader gets the read side at once only if there is no writer.
LEMMA RLockInv ==
  ASSUME IInv, NEW c \in Calls, RLock(c)
  PROVE  IInv'
<1>1. PICK p \in {"shared", "parked"} :
         /\ call' = [call EXCEPT ![c].pc = p]
         /\ p = "shared" => At({"pending", "exclusive"}) = {}
  BY DEF RLock
<1>2. call[c].pc = "entering" /\ call'[c].pc = p /\ \A d \in Calls : d # c => call'[d] = call[d]
  BY <1>1 DEF RLock, IInv, Types, CallRecords
<1>3. Writers'
  BY <1>1, <1>2 DEF Writers, At, Readers, IInv
<1> QED BY <1>1, <1>2, <1>3, ApartStep DEF RLock, Apart

\* A writer announces itself when no other writer is there.
LEMMA AnnounceWriterInv ==
  ASSUME IInv, NEW c \in Calls, AnnounceWriter(c)
  PROVE  IInv'
<1>1. /\ call[c].pc = "entering" /\ call'[c].pc = "pending"
      /\ \A d \in Calls : d # c => call'[d] = call[d]
  BY DEF AnnounceWriter, IInv, Types, CallRecords
<1>2. Writers'
  BY <1>1 DEF Writers, At, Readers, AnnounceWriter
<1> QED BY <1>1, <1>2, ApartStep DEF AnnounceWriter, Apart

\* It gets the write side when the readers are gone.
LEMMA LockInv ==
  ASSUME IInv, NEW c \in Calls, Lock(c)
  PROVE  IInv'
<1>1. /\ call[c].pc = "pending" /\ call'[c].pc = "exclusive"
      /\ \A d \in Calls : d # c => call'[d] = call[d]
  BY DEF Lock, IInv, Types, CallRecords
<1>2. Writers'
  BY <1>1 DEF Writers, At, Readers, Lock, IInv
<1> QED BY <1>1, <1>2, ApartStep DEF Lock, Apart

\* A call that holds no gate is another one, or none, afterwards.
LEMMA AnewStep ==
  ASSUME IInv, NEW c \in Calls, NEW r \in CallRecords, WellFormed(r), r.pc \in {"idle", "entering"},
         r.won = {}, r.leases = <<>>, Len(call[c].leases) = 0,
         call' = [call EXCEPT ![c] = r], UNCHANGED <<msgs, chatMutations, gate>>
  PROVE  IInv'
<1>1. /\ call' \in [Calls -> CallRecords]
      /\ Shapes'
      /\ call'[c] = r
      /\ \A d \in Calls : d # c => call'[d] = call[d]
  BY OneCall DEF IInv
<1>2. Types'
  BY <1>1 DEF IInv, Types
<1>3. call[c].leases = <<>> /\ call[c].won = {}
  BY DEF IInv, Types, CallRecords, Shapes, WellFormed, Uses
<1>4. Stands
  BY <1>1, <1>3 DEF Stands, IInv, Types
<1>5. Moved
  BY StayMoves DEF IInv, Types
<1>6. Writers'
  BY <1>1 DEF IInv, Writers, At, Readers
<1> QED BY <1>1, <1>2, <1>3, <1>4, <1>5, <1>6, QuietInv

\* A reader gives the read side back when it has no lease left.
LEMMA RUnlockInv ==
  ASSUME IInv, NEW c \in Calls, RUnlock(c)
  PROVE  IInv'
BY IdleWellFormed, AnewStep DEF RUnlock

\* A call begins with the ids its operation names, each of them once.
LEMMA BeginInv ==
  ASSUME IInv, NEW c \in Calls, NEW op \in AllOps, NEW ids \in Seq(Ids),
         \A j, k \in 1..Len(ids) : ids[j] = ids[k] => j = k,
         op \in {"create"} \cup Destructive => Len(ids) = 0,
         op \in {"withdraw", "delete"} => Len(ids) = 1,
         Begin(c, op, ids)
  PROVE  IInv'
<1> DEFINE r == [Idle EXCEPT !.op = op, !.pc = "entering", !.ids = ids]
<1>1. /\ r.op = op /\ r.pc = "entering" /\ r.ids = ids
      /\ r.leases = <<>> /\ r.overlapped = {} /\ r.won = {}
  BY DEF Idle
<1>a. <<>> \in Seq(Lease) /\ Len(<<>>) = 0
  OBVIOUS
<1>b. r \in CallRecords
  BY IdleWellFormed DEF CallRecords, Points
<1> HIDE DEF r
<1>2. WellFormed(r)
  BY <1>1, <1>a DEF WellFormed, Uses, Apart, Destructive, AllOps
<1>3. Len(call[c].leases) = 0
  BY DEF Begin, IInv, Shapes, WellFormed, Apart
<1>4. call' = [call EXCEPT ![c] = r] /\ UNCHANGED <<msgs, chatMutations, gate>>
  BY DEF Begin, r
<1> QED BY <1>1, <1>b, <1>2, <1>3, <1>4, AnewStep

\* Every call does: ids in ascending order are not repeated.
LEMMA StartingInv ==
  ASSUME IInv, NEW c \in Calls, Starting(c)
  PROVE  IInv'
<1>1. CASE \E op \in {"create"} \cup Destructive : Begin(c, op, <<>>)
  <2>1. PICK op \in {"create"} \cup Destructive : Begin(c, op, <<>>)
    BY <1>1
  <2>2. <<>> \in Seq(Ids) /\ Len(<<>>) = 0
    OBVIOUS
  <2>3. op \in AllOps /\ op \notin {"withdraw", "delete"}
    BY DEF Destructive, AllOps
  <2>4. \A j, k \in 1..Len(<<>>) : <<>>[j] = <<>>[k] => j = k
    BY <2>2
  <2> QED BY <2>1, <2>2, <2>3, <2>4, BeginInv
<1>2. CASE \E op \in {"withdraw", "delete"}, i \in Ids : Begin(c, op, <<i>>)
  <2>1. PICK op \in {"withdraw", "delete"}, i \in Ids : Begin(c, op, <<i>>)
    BY <1>2
  <2>2. <<i>> \in Seq(Ids) /\ Len(<<i>>) = 1
    OBVIOUS
  <2>3. \A j, k \in 1..Len(<<i>>) : <<i>>[j] = <<i>>[k] => j = k
    BY <2>2
  <2>4. op \in AllOps /\ op \notin {"create"} \cup Destructive
    BY DEF Destructive, AllOps
  <2> QED BY <2>1, <2>2, <2>3, <2>4, BeginInv
<1>3. CASE \E ids \in Requested : \E sorted \in Normalized(ids) : Begin(c, "batch", sorted)
  <2>0. PICK ids \in Requested : \E sorted \in Normalized(ids) : Begin(c, "batch", sorted)
    BY <1>3
  <2>1. PICK sorted \in Normalized(ids) : Begin(c, "batch", sorted)
    BY <2>0
  <2>2. ids \in Seq(Ids) /\ Range(ids) \subseteq Ids
    BY CallsAssumption DEF Range
  <2>3. sorted \in Seq(Ids) /\ Len(sorted) = Len(ids)
    BY <2>2 DEF Normalized
  <2>4. \A j, k \in 1..Len(sorted) : sorted[j] = sorted[k] => j = k
    <3>1. \A j \in 1..Len(sorted) : sorted[j] \in Int
      BY <2>3, StoreAssumption DEF Ids
    <3> QED BY <2>3, <3>1 DEF Normalized
  <2> QED BY <2>1, <2>3, <2>4, BeginInv DEF Destructive, AllOps
<1> QED BY <1>1, <1>2, <1>3 DEF Starting

\* A writer is done; nobody holds a gate then, and those that waited go on.
LEMMA DestroyInv ==
  ASSUME IInv, NEW c \in Calls, Destroy(c)
  PROVE  IInv'
<1>1. Moved
  BY RemoveMoves, StayMoves DEF Destroy, ClearChatMessages, CleanupChat, store, IInv, Types
<1>2. \A d \in Calls : call'[d] = CASE d = c -> Idle
                             [] call[d].pc = "parked" -> [call[d] EXCEPT !.pc = "shared"]
                             [] OTHER -> call[d]
  BY DEF Destroy
<1>3. \A d \in Calls : call[d] \in CallRecords /\ WellFormed(call[d])
  BY DEF IInv, Types, Shapes
<1>4. call[c].pc = "exclusive" /\ UNCHANGED <<chatMutations, gate>>
  BY DEF Destroy
<1>5. \A d \in Calls : call[d].pc \in Apart => call[d].leases = <<>> /\ call[d].won = {}
  BY <1>3 DEF WellFormed, CallRecords
<1>6. ASSUME NEW d \in Calls
      PROVE  /\ call'[d] \in CallRecords /\ WellFormed(call'[d])
             /\ call'[d].leases = call[d].leases /\ call'[d].won = call[d].won
             /\ Len(call[d].leases) # 0 => call'[d] = call[d]
             /\ call'[d].pc \in {"pending", "exclusive"} =>
                  d # c /\ call[d].pc \in {"pending", "exclusive"}
  <2>1. CASE d = c
    <3>1. call'[d] = Idle
      BY <1>2, <1>4, <2>1
    <3>2. call[d].leases = <<>> /\ call[d].won = {} /\ Len(<<>>) = 0
      BY <2>1, <1>4, <1>5 DEF Apart
    <3> QED BY <2>1, <3>1, <3>2, IdleWellFormed
  <2>2. CASE d # c /\ call[d].pc = "parked"
    <3>1. call'[d] = [call[d] EXCEPT !.pc = "shared"]
      BY <1>2, <2>2
    <3>2. "shared" \in Points /\ call[d].leases = <<>> /\ "parked" \in Apart
      BY <2>2, <1>5 DEF Points, Apart
    <3> QED BY <3>1, <3>2, <2>2, <1>3, RePointed, ApartWellFormed
  <2>3. CASE d # c /\ call[d].pc # "parked"
    BY <1>2, <1>3, <2>3
  <2> QED BY <2>1, <2>2, <2>3
<1>7. Types' /\ Shapes'
  <2>1. call' = [d \in Calls |-> call'[d]]
    BY DEF Destroy
  <2>2. call' \in [Calls -> CallRecords]
    BY <1>6, <2>1
  <2> QED BY <1>1, <1>4, <1>6, <2>2 DEF Types, Shapes, IInv, Moved
<1>8. Stands
  BY <1>4, <1>6 DEF Stands, IInv, Types
<1>9. Writers'
  BY <1>4, <1>6 DEF IInv, Writers, At
<1> QED BY <1>1, <1>4, <1>6, <1>7, <1>8, <1>9, QuietInv

-----------------------------------------------------------------------------
\* There is a gate more than messages, so one is always free.
LEMMA FreeGateExists ==
  ASSUME Types, Mapped
  PROVE  FreeGate \in Gates /\ gate[FreeGate].active = 0
<1> SUFFICES ASSUME \A g \in Gates : gate[g].active # 0 PROVE FALSE
  BY DEF FreeGate
<1> DEFINE f == [g \in Gates |-> CHOOSE i \in Ids : chatMutations[i] = g]
<1>1. \A g \in Gates : f[g] \in Ids /\ chatMutations[f[g]] = g
  BY DEF Mapped
<1>2. f \in [Gates -> Ids]
  BY <1>1
<1>3. /\ IsFiniteSet(Gates) /\ IsFiniteSet(Ids)
      /\ Cardinality(Ids) < Cardinality(Gates)
  <2>1. MaxMessages \in Nat /\ 1 \in Int /\ MaxMessages \in Int /\ MaxMessages + 1 \in Int
    BY StoreAssumption
  <2>2. IsFiniteSet(Gates) /\ Cardinality(Gates) = MaxMessages + 1
    BY <2>1, FS_Interval DEF Gates
  <2>3. IsFiniteSet(Ids) /\ Cardinality(Ids) = MaxMessages
    BY <2>1, FS_Interval DEF Ids
  <2> QED BY <2>1, <2>2, <2>3
<1> HIDE DEF f
<1>4. PICK g, h \in Gates : g # h /\ f[g] = f[h]
  BY <1>2, <1>3, FS_PigeonHole
<1> QED BY <1>1, <1>4

\* A call announces itself at one more gate.
Joins(r, l, s) ==
  /\ r.pc = "shared" /\ Len(r.leases) # Len(r.ids)
  /\ l.id = r.ids[Len(r.leases) + 1]
  /\ s.leases = Append(r.leases, l)
  /\ s.ids = r.ids /\ s.won = r.won /\ s.op = r.op
  /\ \/ s.pc = "shared" /\ s.overlapped = r.overlapped
     \/ s.pc = "waiting" /\ s.overlapped = r.overlapped \cup {l.id}

\* What it has then.
Extended(r, l, s) ==
  /\ l.id \in Ids /\ ~ Uses(r, l.id) /\ l.id \notin r.overlapped
  /\ \A j : Uses(s, j) <=> Uses(r, j) \/ j = l.id
  /\ Len(s.leases) = Len(r.leases) + 1
  /\ s.leases[Len(s.leases)] = l
  /\ s.ids = r.ids /\ s.ids[Len(s.leases)] = l.id
  /\ \A k \in 1..Len(r.leases) : s.leases[k] = r.leases[k]

\* The lease is one more, for a message the call had none of.
LEMMA Joined ==
  ASSUME NEW r \in CallRecords, NEW l \in Lease, NEW s \in CallRecords,
         WellFormed(r), Joins(r, l, s)
  PROVE  WellFormed(s) /\ Extended(r, l, s)
<1> DEFINE n == Len(r.leases)
<1>0. Joins(r, l, s)
  OBVIOUS
<1>1. n \in Nat /\ Len(r.ids) \in Nat /\ n + 1 <= Len(r.ids) /\ l.id \in Ids
  BY DEF CallRecords, WellFormed, Joins, Lease
<1>2. /\ Len(s.leases) = n + 1
      /\ s.leases[n + 1] = l
      /\ \A k \in 1..n : s.leases[k] = r.leases[k]
  BY <1>1 DEF CallRecords, Joins
<1>3. ~ Uses(r, l.id) /\ l.id \notin r.overlapped
  BY <1>1 DEF Uses, WellFormed, Joins
<1>4. \A j : Uses(s, j) <=> Uses(r, j) \/ j = l.id
  BY <1>1, <1>2 DEF Uses, Joins
<1> HIDE DEF n
<1>5. \A k \in 1..Len(s.leases) : s.leases[k].id = s.ids[k]
  BY <1>1, <1>2 DEF WellFormed, n, Joins
<1>6. r.won = {} /\ \A j \in r.overlapped : Uses(r, j)
  BY DEF WellFormed, Joins
<1>7. WellFormed(s)
  BY <1>1, <1>2, <1>4, <1>5, <1>6 DEF WellFormed, n, Apart, Joins
<1> QED BY <1>1, <1>2, <1>3, <1>4, <1>7 DEF n, Extended, Joins

\* The call as it is then, and what the others are.
Announces(c, l, s) ==
  /\ Extended(call[c], l, s)
  /\ call' \in [Calls -> CallRecords] /\ Shapes'
  /\ call'[c] = s
  /\ \A d \in Calls : d # c => call'[d] = call[d]
  /\ \A j : j # l.id => Users(j)' = Users(j)
  /\ Users(l.id)' = Users(l.id) \cup {c}
  /\ c \notin Users(l.id)
  /\ Wins' /\ OneWinner' /\ Writers'

\* What such an announcement does to the users of the messages.
LEMMA Announcing ==
  ASSUME IInv, NEW c \in Calls, NEW l \in Lease, NEW s \in CallRecords,
         Joins(call[c], l, s), call' = [call EXCEPT ![c] = s], msgs' = msgs
  PROVE  Announces(c, l, s)
<1>1. call[c] \in CallRecords /\ WellFormed(call[c])
  BY DEF IInv, Types, Shapes
<1>2. WellFormed(s) /\ Extended(call[c], l, s)
  BY <1>1, Joined
<1>3. /\ call' \in [Calls -> CallRecords] /\ Shapes'
      /\ call'[c] = s
      /\ \A d \in Calls : d # c => call'[d] = call[d]
  BY <1>2, OneCall DEF IInv
<1>4. \A j : j # l.id => Users(j)' = Users(j)
  BY <1>2, <1>3 DEF Users, Extended
<1>5. Users(l.id)' = Users(l.id) \cup {c} /\ c \notin Users(l.id)
  BY <1>2, <1>3 DEF Users, Extended
<1>6. call'[c].won = call[c].won /\ call[c].pc = "shared" /\ s.pc \in {"shared", "waiting"}
  BY <1>3 DEF Joins
<1>7. Wins' /\ OneWinner'
  BY <1>3, <1>6, StayMoves, StandsWins DEF IInv, Types
<1>8. Writers'
  BY <1>3, <1>6 DEF IInv, Writers, At, Readers
<1> QED BY <1>2, <1>3, <1>4, <1>5, <1>7, <1>8 DEF Announces

\* The first user of a message takes a gate that is free and publishes it.
LEMMA PublishGateInv ==
  ASSUME IInv, NEW c \in Calls, call[c].pc = "shared", ~ HasAllGates(c),
         chatMutations[NextId(c)] = NoGate, PublishGate(c), msgs' = msgs
  PROVE  IInv'
<1>0. PICK g \in Gates : g = FreeGate /\ gate[g].active = 0
  BY FreeGateExists DEF IInv
<1>1. call[c] \in CallRecords /\ WellFormed(call[c]) /\ Len(call[c].leases) # Len(call[c].ids)
  BY DEF IInv, Types, Shapes, HasAllGates
<1>2. PICK i \in Ids : i = NextId(c) /\ i = call[c].ids[Len(call[c].leases) + 1]
  BY <1>1 DEF NextId, CallRecords, WellFormed
<1>a. g # NoGate /\ chatMutations[i] = NoGate
  BY <1>0, <1>2 DEF Gates, NoGate
<1>b. PICK l \in Lease : l = [id |-> i, gate |-> g]
  BY <1>2 DEF Lease
<1>3. PICK s \in CallRecords : s = Announced(c, g)
  <2>1. Append(call[c].leases, l) \in Seq(Lease)
    BY <1>1 DEF CallRecords
  <2> QED BY <1>1, <1>2, <1>b, <2>1 DEF Announced, CallRecords
<1>c. Joins(call[c], l, s) /\ s.pc = "shared" /\ s.overlapped = call[c].overlapped
  BY <1>1, <1>2, <1>b, <1>3 DEF Announced, Joins, CallRecords
<1>4. /\ gate' = [gate EXCEPT ![g] = [active |-> 1, holder |-> c]]
      /\ chatMutations' = [chatMutations EXCEPT ![i] = g]
      /\ call' = [call EXCEPT ![c] = s]
  BY <1>0, <1>2, <1>3 DEF PublishGate
<1>d. Announces(c, l, s) /\ l.id = i /\ l.gate = g
  BY <1>b, <1>c, <1>4, Announcing
<1>5. /\ call' \in [Calls -> CallRecords] /\ Shapes'
      /\ call'[c] = s
      /\ \A d \in Calls : d # c => call'[d] = call[d]
      /\ \A j : j # i => Users(j)' = Users(j)
      /\ Users(i)' = Users(i) \cup {c}
      /\ Len(s.leases) = Len(call[c].leases) + 1
      /\ s.ids = call[c].ids
      /\ s.ids[Len(s.leases)] = i
      /\ s.leases[Len(s.leases)].gate = g
      /\ \A k \in 1..Len(call[c].leases) : s.leases[k] = call[c].leases[k]
      /\ Wins' /\ OneWinner' /\ Writers'
  BY <1>d DEF Announces, Extended
<1>6. Users(i) = {} /\ Users(i)' = {c}
  <2>1. Users(i) = {}
    BY <1>2, <1>a DEF IInv, Mapped
  <2> QED BY <1>5, <2>1
<1>7. Types'
  BY <1>0, <1>2, <1>a, <1>4, <1>5 DEF IInv, Types
<1>8. /\ chatMutations'[i] = g /\ \A j \in Ids : j # i => chatMutations'[j] = chatMutations[j]
      /\ gate'[g].active = 1 /\ gate'[g].holder = c
      /\ \A h \in Gates : h # g => gate'[h] = gate[h]
  BY <1>0, <1>2, <1>a, <1>4 DEF IInv, Types
<1>9. \A j \in Ids : chatMutations[j] # NoGate => chatMutations[j] # g /\ chatMutations[j] \in Gates
  <2> SUFFICES ASSUME NEW j \in Ids, chatMutations[j] # NoGate, chatMutations[j] = g PROVE FALSE
    BY DEF IInv, Types
  <2>1. PICK d : d \in Users(j)
    BY DEF IInv, Mapped
  <2> QED BY <1>0, <2>1, UsersCounted DEF IInv, Mapped
<1>10. \A d \in Calls : \A k \in 1..Len(call[d].leases) :
         /\ call[d].ids[k] \in Ids /\ call[d].ids[k] # i
         /\ call[d].leases[k].gate = chatMutations[call[d].ids[k]]
         /\ chatMutations[call[d].ids[k]] # NoGate
  <2> SUFFICES ASSUME NEW d \in Calls, NEW k \in 1..Len(call[d].leases)
               PROVE  /\ call[d].ids[k] \in Ids /\ call[d].ids[k] # i
                      /\ chatMutations[call[d].ids[k]] # NoGate
    BY DEF IInv, Mapped
  <2>1. call[d].ids[k] \in Ids /\ d \in Users(call[d].ids[k])
    BY DEF IInv, Types, Shapes, WellFormed, CallRecords, Users, Uses
  <2> QED BY <2>1, <1>6 DEF IInv, Mapped
<1>11. Mapped'
  <2>1. ASSUME NEW j \in Ids
        PROVE  /\ chatMutations'[j] = NoGate <=> Users(j)' = {}
               /\ chatMutations'[j] # NoGate =>
                    gate'[chatMutations'[j]].active = Cardinality(Users(j)')
    <3>1. CASE j = i
      <4>1. Users(j)' = {c} /\ Cardinality({c}) = 1
        BY <1>6, <3>1, FS_Singleton
      <4> QED BY <1>2, <1>a, <1>8, <3>1, <4>1
    <3>2. CASE j # i
      <4>1. Users(j)' = Users(j)
        BY <1>5, <3>2
      <4>2. /\ chatMutations[j] = NoGate <=> Users(j) = {}
            /\ chatMutations[j] # NoGate => gate[chatMutations[j]].active = Cardinality(Users(j))
        BY DEF IInv, Mapped
      <4> QED BY <1>8, <1>9, <3>2, <4>1, <4>2
    <3> QED BY <3>1, <3>2
  <2>3. ASSUME NEW d \in Calls, NEW k \in 1..Len(call'[d].leases)
        PROVE  call'[d].leases[k].gate = chatMutations'[call'[d].ids[k]]
    <3>1. CASE d # c
      BY <1>5, <1>8, <1>10, <3>1
    <3>2. CASE d = c /\ k = Len(s.leases)
      BY <1>5, <1>8, <3>2
    <3>3. CASE d = c /\ k # Len(s.leases)
      <4>1. k \in 1..Len(call[c].leases)
        BY <1>1, <1>5, <3>3 DEF CallRecords
      <4>2. call'[c].leases[k] = call[c].leases[k] /\ call'[c].ids[k] = call[c].ids[k]
        BY <4>1, <1>5
      <4> QED BY <4>1, <4>2, <1>8, <1>10, <3>3
    <3> QED BY <3>1, <3>2, <3>3
  <2>4. \A j, k \in Ids :
          chatMutations'[j] # NoGate /\ chatMutations'[j] = chatMutations'[k] => j = k
    BY <1>2, <1>a, <1>8, <1>9 DEF IInv, Mapped
  <2>5. \A h \in Gates : gate'[h].active # 0 => \E j \in Ids : chatMutations'[j] = h
    <3> SUFFICES ASSUME NEW h \in Gates, h # g, gate[h].active # 0
                 PROVE  \E j \in Ids : chatMutations'[j] = h
      BY <1>2, <1>a, <1>8
    <3>1. PICK j \in Ids : chatMutations[j] = h
      BY DEF IInv, Mapped
    <3>2. j # i
      BY <1>a, <3>1 DEF Gates, NoGate
    <3> QED BY <1>8, <3>1, <3>2
  <2> QED BY <2>1, <2>3, <2>4, <2>5 DEF Mapped
<1>12. Owned'
  <2> SUFFICES ASSUME NEW d \in Calls, NEW k \in 1..Len(call'[d].leases),
                      k < Len(call'[d].leases) \/ call'[d].pc \notin Unowned
               PROVE  gate'[call'[d].leases[k].gate].holder = d
    BY DEF Owned, Unowned
  <2>1. CASE d # c
    <3>1. gate[call[d].leases[k].gate].holder = d
      BY <1>5, <2>1 DEF IInv, Owned, Unowned
    <3> QED BY <1>5, <1>8, <1>9, <1>10, <2>1, <3>1
  <2>2. CASE d = c /\ k = Len(s.leases)
    BY <1>5, <1>8, <2>2
  <2>3. CASE d = c /\ k # Len(s.leases)
    <3>1. k \in 1..Len(call[c].leases)
      BY <1>1, <1>5, <2>3 DEF CallRecords
    <3>2. gate[call[c].leases[k].gate].holder = c
      BY <3>1 DEF IInv, Owned
    <3>3. call'[d].leases[k].gate = call[c].leases[k].gate
      BY <1>5, <2>3, <3>1
    <3>4. call[c].leases[k].gate # g /\ call[c].leases[k].gate \in Gates
      BY <1>9, <1>10, <3>1
    <3> QED BY <1>8, <2>3, <3>2, <3>3, <3>4
  <2> QED BY <2>1, <2>2, <2>3
<1>13. Overlaps' /\ Ordered'
  <2>1. \A j \in Ids, d \in Calls : d \in Users(j)' /\ j # i => d \in Users(j)
    BY <1>5
  <2>2. call[c].pc = "shared" /\ s.pc = "shared" /\ s.overlapped = call[c].overlapped
    BY <1>c
  <2> QED BY <1>5, <1>6, <2>1, <2>2 DEF IInv, Overlaps, Ordered, Users
<1> QED BY <1>5, <1>7, <1>11, <1>12, <1>13 DEF IInv

\* A lease is the gate in the map, and each is another one.
LEMMA LeaseFacts ==
  ASSUME IInv, NEW c \in Calls, NEW k \in 1..Len(call[c].leases)
  PROVE  /\ call[c].ids[k] \in Ids /\ c \in Users(call[c].ids[k])
         /\ call[c].leases[k].id = call[c].ids[k]
         /\ call[c].leases[k].gate = chatMutations[call[c].ids[k]]
         /\ call[c].leases[k].gate \in Gates /\ call[c].leases[k].gate # NoGate
         /\ \A j \in 1..Len(call[c].leases) : j # k =>
              /\ call[c].ids[j] # call[c].ids[k]
              /\ call[c].leases[j].gate # call[c].leases[k].gate
<1>1. call[c] \in CallRecords /\ WellFormed(call[c])
  BY DEF IInv, Types, Shapes
<1>2. \A j \in 1..Len(call[c].leases) : /\ j \in 1..Len(call[c].ids) /\ call[c].ids[j] \in Ids
                                        /\ Uses(call[c], call[c].ids[j])
  BY <1>1 DEF CallRecords, WellFormed, Uses
<1>3. \A j \in 1..Len(call[c].leases) : /\ chatMutations[call[c].ids[j]] # NoGate
                                        /\ chatMutations[call[c].ids[j]] \in Gates
                                        /\ call[c].leases[j].gate = chatMutations[call[c].ids[j]]
  BY <1>2 DEF IInv, Types, Mapped, Users
<1>4. \A j \in 1..Len(call[c].leases) : j # k => call[c].ids[j] # call[c].ids[k]
  BY <1>1, <1>2 DEF WellFormed
<1>5. \A j \in 1..Len(call[c].leases) : j # k => call[c].leases[j].gate # call[c].leases[k].gate
  BY <1>2, <1>3, <1>4 DEF IInv, Mapped
<1> QED BY <1>1, <1>2, <1>3, <1>4, <1>5 DEF WellFormed, Users

\* A later one is counted at the published gate, and has overlapped.
LEMMA JoinGateInv ==
  ASSUME IInv, NEW c \in Calls, call[c].pc = "shared", ~ HasAllGates(c),
         chatMutations[NextId(c)] # NoGate, JoinGate(c), msgs' = msgs
  PROVE  IInv'
<1>1. call[c] \in CallRecords /\ WellFormed(call[c]) /\ Len(call[c].leases) # Len(call[c].ids)
  BY DEF IInv, Types, Shapes, HasAllGates
<1>2. PICK i \in Ids : i = NextId(c) /\ i = call[c].ids[Len(call[c].leases) + 1]
  BY <1>1 DEF NextId, CallRecords, WellFormed
<1>3. PICK g \in Gates : g = chatMutations[i] /\ g # NoGate
  BY <1>2 DEF IInv, Types
<1>4. PICK l \in Lease : l = [id |-> i, gate |-> g]
  BY <1>2 DEF Lease
<1>5. PICK s \in CallRecords :
        s = [Announced(c, g) EXCEPT !.pc = "waiting", !.overlapped = @ \cup {i}]
  <2>1. Append(call[c].leases, l) \in Seq(Lease)
    BY <1>1 DEF CallRecords
  <2>2. Announced(c, g) \in CallRecords
    BY <1>1, <1>2, <1>4, <2>1 DEF Announced, CallRecords
  <2> QED BY <2>2 DEF CallRecords, Points
<1>6. Joins(call[c], l, s) /\ s.pc = "waiting" /\ s.overlapped = call[c].overlapped \cup {i}
  <2>1. Announced(c, g) = [call[c] EXCEPT !.leases = Append(@, l)]
    BY <1>2, <1>4, Zenon DEF Announced
  <2> QED BY <1>1, <1>2, <1>4, <1>5, <2>1 DEF Joins, CallRecords
<1>7. /\ gate' = [gate EXCEPT ![g].active = @ + 1]
      /\ chatMutations' = chatMutations
      /\ call' = [call EXCEPT ![c] = s]
  BY <1>2, <1>3, <1>5 DEF JoinGate
<1>8. Announces(c, l, s) /\ l.id = i /\ l.gate = g
  BY <1>4, <1>6, <1>7, Announcing
<1>9. /\ call' \in [Calls -> CallRecords] /\ Shapes'
      /\ call'[c] = s
      /\ \A d \in Calls : d # c => call'[d] = call[d]
      /\ \A j : j # i => Users(j)' = Users(j)
      /\ Users(i)' = Users(i) \cup {c} /\ c \notin Users(i)
      /\ Len(s.leases) = Len(call[c].leases) + 1
      /\ s.ids = call[c].ids
      /\ s.ids[Len(s.leases)] = i
      /\ s.leases[Len(s.leases)].gate = g
      /\ \A k \in 1..Len(call[c].leases) : s.leases[k] = call[c].leases[k]
      /\ Wins' /\ OneWinner' /\ Writers'
  BY <1>8 DEF Announces, Extended
<1>x. /\ gate' \in [Gates -> [active : Nat, holder : Calls \cup {NoCall}]]
      /\ gate'[g].active = gate[g].active + 1
      /\ \A h \in Gates : h # g => gate'[h].active = gate[h].active
      /\ \A h \in Gates : gate'[h].holder = gate[h].holder
  <2>1. gate \in [Gates -> [active : Nat, holder : Calls \cup {NoCall}]]
    BY DEF IInv, Types
  <2>2. gate[g].active + 1 \in Nat
    BY <2>1
  <2>3. [gate[g] EXCEPT !.active = @ + 1] \in [active : Nat, holder : Calls \cup {NoCall}]
    BY <2>1, <2>2
  <2> QED BY <1>7, <2>1, <2>3
<1>10. Types'
  BY <1>7, <1>9, <1>x DEF IInv, Types
<1>11. /\ gate'[g].active = gate[g].active + 1
       /\ \A h \in Gates : h # g => gate'[h].active = gate[h].active
       /\ \A h \in Gates : gate'[h].holder = gate[h].holder
  BY <1>x
<1>12. ASSUME NEW k \in 1..Len(s.leases), k # Len(s.leases)
       PROVE  k \in 1..Len(call[c].leases) /\ call'[c].leases[k] = call[c].leases[k]
              /\ call'[c].ids[k] = call[c].ids[k]
  <2>1. Len(call[c].leases) \in Nat
    BY <1>1 DEF CallRecords
  <2>2. k \in 1..Len(call[c].leases)
    BY <1>9, <1>12, <2>1
  <2> QED BY <1>9, <2>2
<1>13. Mapped'
  <2>1. ASSUME NEW j \in Ids
        PROVE  /\ chatMutations'[j] = NoGate <=> Users(j)' = {}
               /\ chatMutations'[j] # NoGate =>
                    gate'[chatMutations'[j]].active = Cardinality(Users(j)')
    <3>1. /\ chatMutations[j] = NoGate <=> Users(j) = {}
          /\ chatMutations[j] # NoGate => gate[chatMutations[j]].active = Cardinality(Users(j))
                                          /\ chatMutations[j] \in Gates
      BY DEF IInv, Mapped, Types
    <3>2. CASE j = i
      <4>1. Cardinality(Users(i) \cup {c}) = Cardinality(Users(i)) + 1
        BY <1>9, UsersFinite, FS_AddElement
      <4>2. gate[g].active = Cardinality(Users(i)) /\ Users(j)' = Users(i) \cup {c}
        BY <1>3, <1>9, <3>1, <3>2
      <4>3. chatMutations'[j] = g /\ chatMutations'[j] # NoGate /\ Users(j)' # {}
        BY <1>3, <1>7, <3>2, <4>2
      <4> QED BY <1>11, <4>1, <4>2, <4>3
    <3>3. CASE j # i
      <4>1. chatMutations[j] # NoGate => chatMutations[j] # g
        BY <1>3, <3>3 DEF IInv, Mapped
      <4>2. Users(j)' = Users(j)
        BY <1>9, <3>3
      <4> QED BY <1>7, <1>11, <3>1, <4>1, <4>2
    <3> QED BY <3>2, <3>3
  <2>2. ASSUME NEW d \in Calls, NEW k \in 1..Len(call'[d].leases)
        PROVE  call'[d].leases[k].gate = chatMutations'[call'[d].ids[k]]
    <3>1. CASE d # c
      BY <1>7, <1>9, <3>1 DEF IInv, Mapped
    <3>2. CASE d = c /\ k = Len(s.leases)
      BY <1>3, <1>7, <1>9, <3>2
    <3>3. CASE d = c /\ k # Len(s.leases)
      BY <1>7, <1>9, <1>12, <3>3 DEF IInv, Mapped
    <3> QED BY <3>1, <3>2, <3>3
  <2>3. \A h \in Gates : gate'[h].active # 0 => \E j \in Ids : chatMutations'[j] = h
    BY <1>3, <1>7, <1>11 DEF IInv, Mapped
  <2> QED BY <1>7, <2>1, <2>2, <2>3 DEF IInv, Mapped
<1>14. Owned'
  <2> SUFFICES ASSUME NEW d \in Calls, NEW k \in 1..Len(call'[d].leases),
                      k < Len(call'[d].leases) \/ call'[d].pc \notin Unowned
               PROVE  gate'[call'[d].leases[k].gate].holder = d
    BY DEF Owned, Unowned
  <2>1. CASE d # c
    BY <1>9, <1>11, <2>1, LeaseFacts DEF IInv, Owned, Unowned
  <2>2. CASE d = c
    <3>1. k # Len(s.leases)
      BY <1>6, <1>9, <2>2 DEF Unowned
    <3>2. k \in 1..Len(call[c].leases) /\ call'[c].leases[k] = call[c].leases[k]
      BY <1>9, <1>12, <2>2, <3>1
    <3>3. gate[call[c].leases[k].gate].holder = c /\ call[c].leases[k].gate \in Gates
      BY <3>2, LeaseFacts DEF IInv, Owned
    <3> QED BY <1>11, <2>2, <3>2, <3>3
  <2> QED BY <2>1, <2>2
<1>15. Overlaps' /\ Ordered'
  <2>1. \A j \in Ids, d \in Calls : d \in Users(j)' /\ (d # c \/ j # i) => d \in Users(j)
    BY <1>9
  <2>2. call[c].pc = "shared"
    OBVIOUS
  <2>3. Overlaps'
    BY <1>6, <1>9, <2>1 DEF IInv, Overlaps, Users
  <2>4. Ordered'
    BY <1>6, <1>9, <2>1, <2>2 DEF IInv, Ordered, Users
  <2> QED BY <2>3, <2>4
<1> QED BY <1>9, <1>10, <1>13, <1>14, <1>15 DEF IInv

\* A call comes to its next gate, whether it is published or not.
LEMMA BeginChatMutationInv ==
  ASSUME IInv, NEW c \in Calls, BeginChatMutation(c)
  PROVE  IInv'
<1>1. call[c].pc = "shared" /\ ~ HasAllGates(c) /\ msgs' = msgs
  BY DEF BeginChatMutation, store
<1>2. CASE chatMutations[NextId(c)] = NoGate
  BY <1>1, <1>2, PublishGateInv DEF BeginChatMutation
<1>3. CASE chatMutations[NextId(c)] # NoGate
  BY <1>1, <1>3, JoinGateInv DEF BeginChatMutation
<1> QED BY <1>2, <1>3

-----------------------------------------------------------------------------
\* A call that waited takes the gate; nobody else held it.
LEMMA TakeGateInv ==
  ASSUME IInv, NEW c \in Calls, TakeGate(c)
  PROVE  IInv'
<1>1. call[c] \in CallRecords /\ WellFormed(call[c]) /\ call[c].pc = "waiting"
  BY DEF IInv, Types, Shapes, TakeGate
<1>2. PICK n \in 1..Len(call[c].leases) : n = Len(call[c].leases)
  BY <1>1 DEF WellFormed, CallRecords
<1>3. PICK g \in Gates : g = call[c].leases[n].gate /\ gate[g].holder = NoCall
  BY <1>2, LeaseFacts DEF TakeGate, LastLease, Last
<1>4. PICK s \in CallRecords : s = [call[c] EXCEPT !.pc = "shared"]
  BY <1>1 DEF CallRecords, Points
<1>5. /\ s.pc = "shared" /\ s.op = call[c].op /\ s.ids = call[c].ids /\ s.leases = call[c].leases
      /\ s.overlapped = call[c].overlapped /\ s.won = call[c].won
  BY <1>1, <1>4 DEF CallRecords
<1>6. WellFormed(s)
  BY <1>1, <1>5 DEF WellFormed, Uses, Apart
<1>7. /\ gate' = [gate EXCEPT ![g].holder = c] /\ call' = [call EXCEPT ![c] = s]
      /\ msgs' = msgs /\ chatMutations' = chatMutations
  BY <1>2, <1>3, <1>4 DEF TakeGate, LastLease, Last
<1>8. /\ call' \in [Calls -> CallRecords] /\ Shapes'
      /\ call'[c] = s
      /\ \A d \in Calls : d # c => call'[d] = call[d]
  BY <1>6, <1>7, OneCall DEF IInv
<1>9. /\ gate'[g].holder = c
      /\ \A h \in Gates : gate'[h].active = gate[h].active /\ (h # g => gate'[h] = gate[h])
      /\ gate' \in [Gates -> [active : Nat, holder : Calls \cup {NoCall}]]
  BY <1>7 DEF IInv, Types
<1>10. Types'
  BY <1>7, <1>8, <1>9 DEF IInv, Types
<1>11. Stands
  BY <1>5, <1>7, <1>8, <1>9 DEF Stands
<1>12. Mapped' /\ \A i : Users(i)' = Users(i)
  BY <1>11, StandsMapped DEF IInv
<1>13. Overlaps'
  BY <1>11, <1>12, StandsOverlaps DEF IInv
<1>14. Ordered'
  BY <1>1, <1>5, <1>8, <1>11, <1>12, StandsOrdered DEF IInv, Behind
<1>15. Wins' /\ OneWinner'
  BY <1>5, <1>7, <1>8, StayMoves, StandsWins DEF IInv, Types
<1>16. Writers'
  BY <1>1, <1>5, <1>8 DEF IInv, Writers, At, Readers
<1>17. Owned'
  <2> SUFFICES ASSUME NEW d \in Calls, NEW k \in 1..Len(call[d].leases),
                      k < Len(call'[d].leases) \/ call'[d].pc \notin Unowned
               PROVE  gate'[call[d].leases[k].gate].holder = d
    BY <1>5, <1>8 DEF Owned, Unowned
  <2>1. CASE d # c
    <3>1. gate[call[d].leases[k].gate].holder = d /\ call[d].leases[k].gate \in Gates
      BY <1>8, <2>1, LeaseFacts DEF IInv, Owned, Unowned
    <3>2. call[d].leases[k].gate # g
      BY <1>3, <3>1, CallsAssumption
    <3> QED BY <1>9, <3>1, <3>2
  <2>2. CASE d = c /\ k = n
    BY <1>3, <1>9, <2>2
  <2>3. CASE d = c /\ k # n
    <3>1. k < Len(call[c].leases)
      BY <1>1, <1>2, <2>3 DEF CallRecords
    <3>2. gate[call[c].leases[k].gate].holder = c
      BY <2>3, <3>1 DEF IInv, Owned
    <3>3. call[c].leases[k].gate # g /\ call[c].leases[k].gate \in Gates
      BY <1>2, <1>3, <2>3, LeaseFacts
    <3> QED BY <1>9, <2>3, <3>2, <3>3
  <2> QED BY <2>1, <2>2, <2>3
<1> QED BY <1>8, <1>10, <1>12, <1>13, <1>14, <1>15, <1>16, <1>17 DEF IInv

\* A call unlocks its last gate, which it held.
LEMMA UnlockGateInv ==
  ASSUME IInv, NEW c \in Calls, UnlockGate(c)
  PROVE  IInv'
<1>1. /\ call[c] \in CallRecords /\ WellFormed(call[c]) /\ call[c].pc = "ending"
      /\ call[c].leases # <<>>
  BY DEF IInv, Types, Shapes, UnlockGate
<1>2. PICK n \in 1..Len(call[c].leases) : n = Len(call[c].leases)
  BY <1>1 DEF CallRecords
<1>3. PICK g \in Gates : g = call[c].leases[n].gate /\ gate[g].holder = c
  BY <1>1, <1>2, LeaseFacts DEF IInv, Owned
<1>4. PICK s \in CallRecords : s = [call[c] EXCEPT !.pc = "leaving"]
  BY <1>1 DEF CallRecords, Points
<1>5. /\ s.pc = "leaving" /\ s.op = call[c].op /\ s.ids = call[c].ids /\ s.leases = call[c].leases
      /\ s.overlapped = call[c].overlapped /\ s.won = call[c].won
  BY <1>1, <1>4 DEF CallRecords
<1>6. WellFormed(s)
  BY <1>1, <1>2, <1>5 DEF WellFormed, Uses, Apart
<1>7. /\ gate' = [gate EXCEPT ![g].holder = NoCall] /\ call' = [call EXCEPT ![c] = s]
      /\ msgs' = msgs /\ chatMutations' = chatMutations
  BY <1>2, <1>3, <1>4 DEF UnlockGate, LastLease, Last
<1>8. /\ call' \in [Calls -> CallRecords] /\ Shapes'
      /\ call'[c] = s
      /\ \A d \in Calls : d # c => call'[d] = call[d]
  BY <1>6, <1>7, OneCall DEF IInv
<1>9. /\ \A h \in Gates : gate'[h].active = gate[h].active /\ (h # g => gate'[h] = gate[h])
      /\ gate' \in [Gates -> [active : Nat, holder : Calls \cup {NoCall}]]
  BY <1>7 DEF IInv, Types
<1>10. Types'
  BY <1>7, <1>8, <1>9 DEF IInv, Types
<1>11. Stands
  BY <1>5, <1>7, <1>8, <1>9 DEF Stands
<1>12. Mapped' /\ \A i : Users(i)' = Users(i)
  BY <1>11, StandsMapped DEF IInv
<1>13. Overlaps'
  BY <1>11, <1>12, StandsOverlaps DEF IInv
<1>14. Ordered'
  BY <1>1, <1>5, <1>8, <1>11, <1>12, StandsOrdered DEF IInv, Behind
<1>15. Wins' /\ OneWinner'
  BY <1>5, <1>7, <1>8, StayMoves, StandsWins DEF IInv, Types
<1>16. Writers'
  BY <1>1, <1>5, <1>8 DEF IInv, Writers, At, Readers
<1>17. Owned'
  <2> SUFFICES ASSUME NEW d \in Calls, NEW k \in 1..Len(call[d].leases),
                      k < Len(call'[d].leases) \/ call'[d].pc \notin Unowned
               PROVE  gate'[call[d].leases[k].gate].holder = d
    BY <1>5, <1>8 DEF Owned, Unowned
  <2>1. CASE d # c
    <3>1. gate[call[d].leases[k].gate].holder = d /\ call[d].leases[k].gate \in Gates
      BY <1>8, <2>1, LeaseFacts DEF IInv, Owned, Unowned
    <3> QED BY <1>3, <1>9, <2>1, <3>1
  <2>2. CASE d = c
    <3>1. k # n
      BY <1>2, <1>5, <1>8, <2>2 DEF Unowned
    <3>2. gate[call[c].leases[k].gate].holder = c
      BY <1>1, <2>2 DEF IInv, Owned
    <3>3. call[c].leases[k].gate # g /\ call[c].leases[k].gate \in Gates
      BY <1>2, <1>3, <2>2, <3>1, LeaseFacts
    <3> QED BY <1>9, <2>2, <3>2, <3>3
  <2> QED BY <2>1, <2>2
<1> QED BY <1>8, <1>10, <1>12, <1>13, <1>14, <1>15, <1>16, <1>17 DEF IInv

\* The transaction of a reader that has all its gates, or its refusal: what it
\* has won no other one has won before.
LEMMA EndingInv ==
  ASSUME IInv, NEW c \in Calls, NEW W \in SUBSET Range(call[c].ids), HasAllGates(c), Ended(c, W),
         Moved, UNCHANGED <<chatMutations, gate>>,
         \A i \in W : i \in DOMAIN msgs' /\ msgs'[i] # "active",
         \A i \in W, d \in Calls : d # c => i \notin call[d].won
  PROVE  IInv'
<1>1. /\ call[c] \in CallRecords /\ WellFormed(call[c]) /\ call[c].pc = "shared"
      /\ Len(call[c].leases) = Len(call[c].ids) /\ Len(call[c].ids) \in Nat
  BY DEF IInv, Types, Shapes, HasAllGates, CallRecords
<1>2. W \subseteq Ids /\ \A i \in W : Uses(call[c], i)
  BY <1>1 DEF Uses, Range, CallRecords
<1>4. PICK s \in CallRecords : s = [call[c] EXCEPT !.pc = "ending", !.won = W]
  BY <1>1, <1>2 DEF CallRecords, Points
<1>5. /\ s.pc = "ending" /\ s.op = call[c].op /\ s.ids = call[c].ids /\ s.leases = call[c].leases
      /\ s.overlapped = call[c].overlapped /\ s.won = W
  BY <1>1, <1>4 DEF CallRecords
<1>6. WellFormed(s)
  BY <1>1, <1>2, <1>5 DEF WellFormed, Uses, Apart
<1>7. call' = [call EXCEPT ![c] = s]
  BY <1>4 DEF Ended
<1>8. /\ call' \in [Calls -> CallRecords] /\ Shapes'
      /\ call'[c] = s
      /\ \A d \in Calls : d # c => call'[d] = call[d]
  BY <1>6, <1>7, OneCall DEF IInv
<1>10. Types'
  BY <1>8 DEF IInv, Types, Moved
<1>11. Stands
  BY <1>5, <1>8 DEF Stands, IInv, Types
<1>12. Mapped' /\ \A i : Users(i)' = Users(i)
  BY <1>11, StandsMapped DEF IInv
<1>13. Overlaps'
  BY <1>11, <1>12, StandsOverlaps DEF IInv
<1>14. Ordered'
  <2> SUFFICES ASSUME NEW i \in Ids, NEW a \in Users(i), i \notin call'[a].overlapped,
                      i \in call'[c].overlapped, c \in Users(i), call[a].pc \notin Behind, a # c
               PROVE  FALSE
    <3>1. \A d \in Calls : call'[d].overlapped = call[d].overlapped
      BY <1>5, <1>8
    <3> QED BY <1>5, <1>8, <1>12, <3>1 DEF IInv, Ordered, Users, Behind
  <2>1. PICK j \in 1..Len(call[c].leases) : call[c].ids[j] = i
    BY DEF Users, Uses
  <2>2. PICK k \in 1..Len(call[a].leases) : call[a].ids[k] = i
    BY DEF Users, Uses
  <2>3. gate[chatMutations[i]].holder = c
    BY <1>1, <2>1, LeaseFacts DEF IInv, Owned
  <2>4. a \in Calls /\ call[a].overlapped = call'[a].overlapped
    BY <1>8 DEF Users
  <2>5. WellFormed(call[a]) /\ Len(call[a].leases) \in Nat
    BY <2>4 DEF IInv, Types, Shapes, CallRecords
  <2>6. k < Len(call[a].leases) \/ call[a].pc \notin {"waiting", "leaving"}
    BY <2>2, <2>4, <2>5 DEF WellFormed, Behind
  <2>7. gate[chatMutations[i]].holder = a
    BY <2>2, <2>4, <2>6, LeaseFacts DEF IInv, Owned
  <2> QED BY <2>3, <2>7
<1>15. Wins'
  <2>1. \A i \in DOMAIN msgs : i \in DOMAIN msgs'
    BY DEF Moved, IInv, Types
  <2> QED BY <1>5, <1>8, <2>1 DEF IInv, Wins, Moved
<1>16. OneWinner'
  BY <1>5, <1>8 DEF IInv, OneWinner
<1>17. Writers'
  BY <1>1, <1>5, <1>8 DEF IInv, Writers, At, Readers
<1>18. Owned'
  <2> SUFFICES ASSUME NEW d \in Calls, NEW k \in 1..Len(call[d].leases),
                      k < Len(call[d].leases) \/ call[d].pc \notin Unowned
               PROVE  gate[call[d].leases[k].gate].holder = d
    BY <1>1, <1>5, <1>8 DEF Owned, Unowned
  <2> QED BY DEF IInv, Owned, Unowned
<1> QED BY <1>8, <1>10, <1>12, <1>13, <1>14, <1>15, <1>16, <1>17, <1>18 DEF IInv

\* A refusal wins nothing.
LEMMA RefuseInv ==
  ASSUME IInv, NEW c \in Calls, Refuse(c)
  PROVE  IInv'
<1>1. Moved /\ {} \in SUBSET Range(call[c].ids)
  BY StayMoves DEF Refuse, IInv, Types
<1> QED BY <1>1, EndingInv DEF Refuse

\* A transaction wins messages nobody has won: those that are active, or any if it has
\* overlapped nobody, since a winner among their users would have been overtaken then.
LEMMA TransactInv ==
  ASSUME IInv, NEW c \in Calls, Transact(c)
  PROVE  IInv'
<1> DEFINE W == Range(call[c].ids)
<1>1. /\ HasAllGates(c) /\ Ended(c, W) /\ UNCHANGED <<chatMutations, gate>>
      /\ call[c] \in CallRecords /\ WellFormed(call[c]) /\ call[c].pc = "shared"
      /\ msgs \in Seq(Statuses)
  BY DEF Transact, IInv, Types, Shapes, HasAllGates
<1>2. Len(call[c].ids) = Len(call[c].leases) /\ Len(call[c].ids) \in Nat
  BY <1>1 DEF HasAllGates, CallRecords
<1>3. \A i \in W : i \in Ids /\ c \in Users(i)
  BY <1>1, <1>2 DEF Range, Users, Uses, CallRecords
\* A call that has won a message before has overlapped this one.
<1>4. ASSUME MayDelete(c), NEW i \in W, NEW d \in Calls, d # c, i \in call[d].won
      PROVE  FALSE
  <2>1. d \in Users(i) /\ call[d].pc \in {"ending", "leaving"}
    <3>1. WellFormed(call[d]) /\ call[d] \in CallRecords
      BY DEF IInv, Shapes, Types
    <3> QED BY <1>4, <3>1 DEF WellFormed, Users, Apart, CallRecords, Points
  <2>2. i \notin call[c].overlapped
    BY <1>4 DEF MayDelete
  <2>3. i \in call[d].overlapped
    BY <1>3, <1>4, <2>1, <2>2 DEF IInv, Overlaps
  <2> QED BY <1>1, <1>3, <2>1, <2>2, <2>3 DEF IInv, Ordered
<1>5. ASSUME NEW i \in W, NEW d \in Calls, i \in call[d].won
      PROVE  i \in DOMAIN msgs /\ msgs[i] # "active"
  BY <1>5 DEF IInv, Wins
<1>6. /\ Moved
      /\ \A i \in W : i \in DOMAIN msgs' /\ msgs'[i] # "active"
      /\ MayDelete(c) \/ \A i \in W : msgs[i] = "active"
  <2>1. CASE call[c].op = "create" /\ CreateChatMessage
    <3>1. W = {}
      BY <1>1, <2>1 DEF WellFormed, Range, CallRecords
    <3> QED BY <1>1, <2>1, <3>1, CreateMoves
  <2>2. CASE call[c].op \in {"withdraw", "delete"}
             /\ \/ WithdrawChatMessage(call[c].ids[1])
                \/ DeleteChatMessage(call[c].ids[1], MayDelete(c))
    <3>1. PICK i : i = call[c].ids[1] /\ W = {i}
      BY <1>1, <2>2 DEF WellFormed, Range, CallRecords
    <3>2. PICK s \in Statuses \ {"active"} : Change({i}, s)
      BY <2>2, <3>1 DEF WithdrawChatMessage, DeleteChatMessage, Statuses
    <3>3. i \in DOMAIN msgs /\ (MayDelete(c) \/ msgs[i] = "active")
      BY <2>2, <3>1 DEF WithdrawChatMessage, DeleteChatMessage
    <3>4. Moved /\ msgs'[i] # "active"
      BY <1>1, <3>2, <3>3, ChangeMoves
    <3> QED BY <1>1, <3>1, <3>3, <3>4 DEF Moved
  <2>3. CASE MayDelete(c) /\ BatchDeleteChatMessages(W)
    <3>1. W \subseteq DOMAIN msgs /\ Change(W, "deleted")
      BY <2>3 DEF BatchDeleteChatMessages
    <3>2. Moved /\ \A i \in W : msgs'[i] # "active"
      BY <1>1, <3>1, ChangeMoves DEF Statuses
    <3> QED BY <1>1, <2>3, <3>1, <3>2 DEF Moved
  <2> QED BY <2>1, <2>2, <2>3 DEF Transact
<1>7. \A i \in W, d \in Calls : d # c => i \notin call[d].won
  BY <1>4, <1>5, <1>6
<1> HIDE DEF W
<1> QED BY <1>1, <1>6, <1>7, EndingInv DEF W

\* The last lease of a call is given back.
LEMMA LeaveGateInv ==
  ASSUME IInv, NEW c \in Calls, LeaveGate(c)
  PROVE  IInv'
<1>1. call[c] \in CallRecords /\ WellFormed(call[c]) /\ call[c].pc = "leaving"
  BY DEF IInv, Types, Shapes, LeaveGate
<1>2. PICK n \in 1..Len(call[c].leases) : n = Len(call[c].leases)
  BY <1>1 DEF WellFormed, CallRecords
<1>3. PICK g \in Gates, i \in Ids :
        /\ g = call[c].leases[n].gate /\ i = call[c].leases[n].id
        /\ i = call[c].ids[n] /\ g = chatMutations[i] /\ g # NoGate /\ c \in Users(i)
  BY <1>2, LeaseFacts
<1>4. PICK s \in CallRecords :
        s = [call[c] EXCEPT !.pc = "ending", !.leases = Front(@), !.won = @ \ {i}]
  <2>1. Front(call[c].leases) \in Seq(Lease)
    BY <1>1, <1>2 DEF CallRecords, Front
  <2> QED BY <1>1, <2>1 DEF CallRecords, Points
<1>5. /\ s.pc = "ending" /\ s.op = call[c].op /\ s.ids = call[c].ids
      /\ s.overlapped = call[c].overlapped /\ s.won = call[c].won \ {i}
      /\ Len(s.leases) = n - 1
      /\ \A k \in 1..(n - 1) : s.leases[k] = call[c].leases[k]
  <2>1. /\ Len(Front(call[c].leases)) = n - 1
        /\ \A k \in 1..(n - 1) : Front(call[c].leases)[k] = call[c].leases[k]
    BY <1>1, <1>2 DEF CallRecords, Front
  <2> QED BY <1>1, <1>4, <2>1 DEF CallRecords
<1>6. \A j : Uses(s, j) <=> Uses(call[c], j) /\ j # i
  <2>1. \A k \in 1..(n - 1) : call[c].ids[k] # i
    BY <1>2, <1>3, LeaseFacts
  <2> QED BY <1>2, <1>3, <1>5, <2>1 DEF Uses
<1>7. WellFormed(s)
  <2>1. \A j \in s.won : Uses(s, j)
    BY <1>1, <1>5, <1>6 DEF WellFormed
  <2>2. \A k \in 1..Len(s.leases) : s.leases[k].id = s.ids[k]
    <3>1. \A k \in 1..n : call[c].leases[k].id = call[c].ids[k]
      BY <1>1, <1>2 DEF WellFormed
    <3>2. \A k \in 1..(n - 1) : k \in 1..n
      BY <1>2
    <3> QED BY <1>5, <3>1, <3>2
  <2> QED BY <1>1, <1>2, <1>5, <2>1, <2>2 DEF WellFormed, Apart, CallRecords
<1>8. /\ gate' = [gate EXCEPT ![g].active = @ - 1] /\ call' = [call EXCEPT ![c] = s]
      /\ msgs' = msgs
      /\ chatMutations' = IF gate[g].active = 1 THEN [chatMutations EXCEPT ![i] = NoGate]
                                                ELSE chatMutations
  BY <1>2, <1>3, <1>4 DEF LeaveGate, LastLease, Last, Unpublish, store
<1>9. /\ call' \in [Calls -> CallRecords] /\ Shapes'
      /\ call'[c] = s
      /\ \A d \in Calls : d # c => call'[d] = call[d]
  BY <1>7, <1>8, OneCall DEF IInv
<1>10. /\ \A j : j # i => Users(j)' = Users(j)
       /\ Users(i)' = Users(i) \ {c}
  BY <1>6, <1>9 DEF Users
<1>11. /\ gate[g].active = Cardinality(Users(i)) /\ gate[g].active \in Nat \ {0}
       /\ Cardinality(Users(i) \ {c}) = gate[g].active - 1
       /\ gate[g].active = 1 <=> Users(i) \ {c} = {}
  <2>1. gate[g].active = Cardinality(Users(i)) /\ gate[g].active \in Nat \ {0}
    BY <1>3, UsersCounted DEF IInv, Mapped
  <2>2. IsFiniteSet(Users(i)) /\ IsFiniteSet(Users(i) \ {c})
    BY UsersFinite, FS_RemoveElement
  <2>3. Cardinality(Users(i) \ {c}) = gate[g].active - 1
    BY <1>3, <2>1, <2>2, FS_RemoveElement
  <2>4. Cardinality(Users(i) \ {c}) = 0 <=> Users(i) \ {c} = {}
    BY <2>2, FS_EmptySet
  <2> QED BY <2>1, <2>3, <2>4
<1>12. /\ gate' \in [Gates -> [active : Nat, holder : Calls \cup {NoCall}]]
       /\ gate'[g].active = gate[g].active - 1
       /\ \A h \in Gates : h # g => gate'[h].active = gate[h].active
       /\ \A h \in Gates : gate'[h].holder = gate[h].holder
  <2>1. gate \in [Gates -> [active : Nat, holder : Calls \cup {NoCall}]]
    BY DEF IInv, Types
  <2>2. gate[g].active - 1 \in Nat
    BY <1>11
  <2>3. [gate[g] EXCEPT !.active = @ - 1] \in [active : Nat, holder : Calls \cup {NoCall}]
    BY <2>1, <2>2
  <2> QED BY <1>8, <2>1, <2>3
<1>13. /\ chatMutations' \in [Ids -> Gates \cup {NoGate}]
       /\ chatMutations'[i] = IF gate[g].active = 1 THEN NoGate ELSE g
       /\ \A j \in Ids : j # i => chatMutations'[j] = chatMutations[j] /\ chatMutations[j] # g
  BY <1>3, <1>8 DEF IInv, Types, Mapped
<1>14. Types'
  BY <1>8, <1>9, <1>12, <1>13 DEF IInv, Types
<1>15. ASSUME NEW d \in Calls, NEW k \in 1..Len(call'[d].leases)
       PROVE  /\ k \in 1..Len(call[d].leases) /\ call'[d].leases[k] = call[d].leases[k]
              /\ call'[d].ids[k] = call[d].ids[k]
              /\ d = c => k < n
  <2>1. CASE d = c
    BY <1>2, <1>5, <1>9, <2>1
  <2>2. CASE d # c
    BY <1>9, <2>2
  <2> QED BY <2>1, <2>2
<1>16. Mapped'
  <2>1. ASSUME NEW j \in Ids
        PROVE  /\ chatMutations'[j] = NoGate <=> Users(j)' = {}
               /\ chatMutations'[j] # NoGate =>
                    gate'[chatMutations'[j]].active = Cardinality(Users(j)')
    <3>1. CASE j = i
      <4>1. Users(j)' = Users(i) \ {c}
        BY <1>10, <3>1
      <4>2. chatMutations'[j] = IF gate[g].active = 1 THEN NoGate ELSE g
        BY <1>13, <3>1
      <4> QED BY <1>3, <1>11, <1>12, <4>1, <4>2
    <3>2. CASE j # i
      <4>1. Users(j)' = Users(j) /\ chatMutations'[j] = chatMutations[j] /\ chatMutations[j] # g
        BY <1>10, <1>13, <3>2
      <4>2. /\ chatMutations[j] = NoGate <=> Users(j) = {}
            /\ chatMutations[j] # NoGate => gate[chatMutations[j]].active = Cardinality(Users(j))
                                            /\ chatMutations[j] \in Gates
        BY DEF IInv, Mapped, Types
      <4> QED BY <1>12, <4>1, <4>2
    <3> QED BY <3>1, <3>2
  <2>2. ASSUME NEW d \in Calls, NEW k \in 1..Len(call'[d].leases)
        PROVE  call'[d].leases[k].gate = chatMutations'[call'[d].ids[k]]
    <3>1. /\ k \in 1..Len(call[d].leases) /\ call'[d].leases[k] = call[d].leases[k]
          /\ call'[d].ids[k] = call[d].ids[k]
      BY <1>15
    <3>2. /\ call[d].ids[k] \in Ids /\ d \in Users(call[d].ids[k])
          /\ call[d].leases[k].gate = chatMutations[call[d].ids[k]]
      BY <3>1, LeaseFacts
    <3>3. CASE call[d].ids[k] # i
      BY <1>13, <3>1, <3>2, <3>3
    <3>4. CASE call[d].ids[k] = i
      <4>1. d # c
        <5> SUFFICES ASSUME d = c PROVE FALSE
          OBVIOUS
        <5>1. k # n
          BY <1>2, <1>15
        <5> QED BY <1>2, <1>3, <3>1, <3>4, <5>1, LeaseFacts
      <4>2. gate[g].active # 1
        BY <1>11, <3>2, <3>4, <4>1
      <4> QED BY <1>3, <1>13, <3>1, <3>2, <3>4, <4>2
    <3> QED BY <3>3, <3>4
  <2>3. \A j, k \in Ids :
          chatMutations'[j] # NoGate /\ chatMutations'[j] = chatMutations'[k] => j = k
    BY <1>3, <1>13 DEF IInv, Mapped
  <2>4. ASSUME NEW h \in Gates, gate'[h].active # 0
        PROVE  \E j \in Ids : chatMutations'[j] = h
    <3>1. CASE h = g
      BY <1>11, <1>12, <1>13, <2>4, <3>1
    <3>2. CASE h # g
      <4>1. PICK j \in Ids : chatMutations[j] = h
        BY <1>12, <2>4, <3>2 DEF IInv, Mapped
      <4> QED BY <1>3, <1>13, <3>2, <4>1
    <3> QED BY <3>1, <3>2
  <2> QED BY <2>1, <2>2, <2>3, <2>4 DEF Mapped
<1>17. Owned'
  <2> SUFFICES ASSUME NEW d \in Calls, NEW k \in 1..Len(call'[d].leases),
                      k < Len(call'[d].leases) \/ call'[d].pc \notin Unowned
               PROVE  gate'[call'[d].leases[k].gate].holder = d
    BY DEF Owned, Unowned
  <2>1. /\ k \in 1..Len(call[d].leases) /\ call'[d].leases[k] = call[d].leases[k]
        /\ d = c => k < n
    BY <1>15
  <2>2. gate[call[d].leases[k].gate].holder = d /\ call[d].leases[k].gate \in Gates
    BY <1>2, <1>9, <2>1, LeaseFacts DEF IInv, Owned, Unowned
  <2> QED BY <1>12, <2>1, <2>2
<1>18. Overlaps' /\ Ordered'
  <2>1. \A j \in Ids, d \in Calls : d \in Users(j)' => d \in Users(j)
    BY <1>10
  <2>2. \A d \in Calls : /\ call'[d].overlapped = call[d].overlapped
                         /\ call'[d].pc \in Behind <=> call[d].pc \in Behind
    BY <1>1, <1>5, <1>9 DEF Behind
  <2>3. Overlaps'
    BY <2>1, <2>2 DEF IInv, Overlaps, Users
  <2>4. Ordered'
    BY <2>1, <2>2 DEF IInv, Ordered, Users, Behind
  <2> QED BY <2>3, <2>4
<1>19. Wins' /\ OneWinner'
  <2>1. \A d \in Calls : call'[d].won \subseteq call[d].won
    BY <1>5, <1>9
  <2> QED BY <1>8, <2>1 DEF IInv, Wins, OneWinner
<1>20. Writers'
  BY <1>1, <1>5, <1>9 DEF IInv, Writers, At, Readers
<1> QED BY <1>9, <1>14, <1>16, <1>17, <1>18, <1>19, <1>20 DEF IInv

-----------------------------------------------------------------------------
\* Every step preserves the invariant.
LEMMA StepInv ==
  ASSUME IInv, [Next]_vars
  PROVE  IInv'
<1>1. CASE UNCHANGED vars
  <2>1. UNCHANGED <<msgs, call, chatMutations, gate>>
    BY <1>1 DEF vars
  <2>2. Types' /\ Shapes' /\ Wins' /\ OneWinner' /\ Owned'
    BY <2>1 DEF IInv, Types, Shapes, Wins, OneWinner, Owned
  <2>3. \A i : Users(i)' = Users(i)
    BY <2>1 DEF Users
  <2>4. Mapped' /\ Overlaps' /\ Ordered'
    BY <2>1, <2>3 DEF IInv, Mapped, Overlaps, Ordered
  <2>5. Writers'
    BY <2>1 DEF IInv, Writers, At, Readers
  <2> QED BY <2>2, <2>4, <2>5 DEF IInv
<1>2. ASSUME NEW c \in Calls, Starting(c) \/ Step(c)
      PROVE  IInv'
  BY <1>2, StartingInv, RLockInv, RUnlockInv, AnnounceWriterInv, LockInv, DestroyInv,
     BeginChatMutationInv, TakeGateInv, UnlockGateInv, LeaveGateInv, TransactInv, RefuseInv DEF Step
<1> QED BY <1>1, <1>2 DEF Next

\* The strengthened invariant holds in every reachable state, for any number of calls,
\* messages and batches.
THEOREM Invariance == Spec => []IInv
<1>1. Init => IInv
  BY InitInv
<1>2. IInv /\ [Next]_vars => IInv'
  BY StepInv
<1> QED BY <1>1, <1>2, PTL DEF Spec

\* The users the properties speak of are those of the proof.
LEMMA UsersAreUsers ==
  ASSUME IInv, NEW i PROVE UsersOf(i) = Users(i)
<1> SUFFICES ASSUME NEW c \in Calls
             PROVE  (\E l \in LeasesOf(c) : l.id = i) <=> Uses(call[c], i)
  BY DEF UsersOf, Users
<1>1. WellFormed(call[c]) /\ call[c] \in CallRecords
  BY DEF IInv, Shapes, Types
<1>2. LeasesOf(c) = {call[c].leases[k] : k \in 1..Len(call[c].leases)}
  BY <1>1 DEF LeasesOf, Range, CallRecords
<1>3. \A k \in 1..Len(call[c].leases) : call[c].leases[k].id = call[c].ids[k]
  BY <1>1 DEF WellFormed
<1> QED BY <1>2, <1>3 DEF Uses

\* The map of gates holds exactly the messages in use, each gate counting its users: what
\* beginChatMutation and endChatMutation keep in chatMutations.
THEOREM GatesCounted == Spec => []GatesAreCounted
<1>1. ASSUME IInv PROVE GatesAreCounted
  <2> SUFFICES ASSUME NEW i \in Ids, Users(i) # {}
               PROVE  \A c \in Users(i) : \A l \in LeasesOf(c) :
                        l.id = i => l.gate = chatMutations[i]
    BY <1>1, UsersAreUsers DEF GatesAreCounted, IInv, Mapped
  <2> SUFFICES ASSUME NEW c \in Calls, NEW l \in LeasesOf(c), l.id = i
               PROVE  l.gate = chatMutations[i]
    BY DEF Users
  <2>1. PICK k \in 1..Len(call[c].leases) : l = call[c].leases[k]
    BY <1>1 DEF LeasesOf, Range, IInv, Types, CallRecords
  <2> QED BY <1>1, <2>1, LeaseFacts
<1> QED BY <1>1, Invariance, PTL

\* At most one call holds the mutex of a message at a time.
THEOREM HoldersAlone == Spec => []OneHolderPerMessage
<1>1. ASSUME IInv PROVE OneHolderPerMessage
  <2> SUFFICES ASSUME NEW i \in Ids
               PROVE  Cardinality({c \in Calls : \E l \in LeasesOf(c) :
                                     l.id = i /\ gate[l.gate].holder = c}) <= 1
    BY DEF OneHolderPerMessage
  <2> DEFINE H == {c \in Calls : \E l \in LeasesOf(c) : l.id = i /\ gate[l.gate].holder = c}
  <2>1. H \subseteq {gate[chatMutations[i]].holder}
    <3> SUFFICES ASSUME NEW c \in Calls, NEW l \in LeasesOf(c), l.id = i, gate[l.gate].holder = c
                 PROVE  c = gate[chatMutations[i]].holder
      OBVIOUS
    <3>1. PICK k \in 1..Len(call[c].leases) : l = call[c].leases[k]
      BY <1>1 DEF LeasesOf, Range, IInv, Types, CallRecords
    <3> QED BY <1>1, <3>1, LeaseFacts
  <2>2. /\ IsFiniteSet({gate[chatMutations[i]].holder})
        /\ Cardinality({gate[chatMutations[i]].holder}) = 1
    BY FS_Singleton
  <2> HIDE DEF H
  <2>3. Cardinality(H) <= 1
    BY <2>1, <2>2, FS_Subset
  <2> QED BY <2>3 DEF H
<1> QED BY <1>1, Invariance, PTL

\* Of the calls that meet at a message at most one changes it, as allowWithdrawn and the
\* refusal of overlapped batches are meant to achieve.
THEOREM WinnersAlone == Spec => []OneWinner
BY Invariance, PTL DEF IInv

\* The call that found the gate unused is not overtaken: it locks the mutex of the gate
\* before it publishes it.
THEOREM FirstHold == Spec => []FirstRunsFirst
<1>1. ASSUME IInv PROVE FirstRunsFirst
  BY <1>1, UsersAreUsers DEF FirstRunsFirst, IInv, Ordered
<1> QED BY <1>1, Invariance, PTL

\* The clearing and the retention of messages run without readers and one at a time.
THEOREM DestructiveAlone == Spec => []DestructiveIsAlone
<1>1. ASSUME IInv PROVE DestructiveIsAlone
  <2> SUFFICES ASSUME NEW c \in At({"exclusive"}) PROVE Cardinality(At({"exclusive"})) = 1
    BY <1>1 DEF DestructiveIsAlone, IInv, Writers
  <2>1. At({"exclusive"}) = {c}
    BY <1>1 DEF IInv, Writers, At
  <2> QED BY <2>1, FS_Singleton
<1> QED BY <1>1, Invariance, PTL

-----------------------------------------------------------------------------
(* Whom a call waits for.                                                   *)

\* A call holds a gate: it has a lease there, and not one it waits at or leaves.
HoldsAt(d, g) ==
  \E k \in 1..Len(call[d].leases) :
    /\ call[d].leases[k].gate = g
    /\ k < Len(call[d].leases) \/ call[d].pc \notin Unowned

\* The reverse of Owned: a gate says that a call holds it only if it does.
HeldByUsers == \A g \in Gates, d \in Calls : gate[g].holder = d => HoldsAt(d, g)

\* A call takes its gates in ascending order of the messages.
Ascends(r) == \A j, k \in 1..Len(r.ids) : j < k => r.ids[j] < r.ids[k]
Ascending == \A c \in Calls : Ascends(call[c])

\* One call steps, and the gates it takes part in are right afterwards.
LEMMA OneHolds ==
  ASSUME HeldByUsers, NEW c \in Calls, \A d \in Calls : d # c => call'[d] = call[d],
         \A g \in Gates, d \in Calls : gate'[g].holder = d =>
           IF d = c THEN HoldsAt(c, g)' ELSE gate[g].holder = d
  PROVE  HeldByUsers'
<1> SUFFICES ASSUME NEW g \in Gates, NEW d \in Calls, gate'[g].holder = d
             PROVE  HoldsAt(d, g)'
  BY DEF HeldByUsers
<1>1. CASE d = c
  BY <1>1
<1>2. CASE d # c
  <2>1. HoldsAt(d, g) /\ call'[d] = call[d]
    BY <1>2 DEF HeldByUsers
  <2> QED BY <2>1 DEF HoldsAt
<1> QED BY <1>1, <1>2

\* A step that leaves the gates alone and no call at a gate it has lost.
LEMMA StillHolds ==
  ASSUME HeldByUsers, gate' = gate,
         \A d \in Calls : Len(call[d].leases) # 0 =>
           /\ call'[d].leases = call[d].leases
           /\ call'[d].pc \in Unowned => call[d].pc \in Unowned,
         \A d \in Calls : Len(call[d].leases) \in Nat
  PROVE  HeldByUsers'
<1> SUFFICES ASSUME NEW g \in Gates, NEW d \in Calls, gate[g].holder = d
             PROVE  HoldsAt(d, g)'
  BY DEF HeldByUsers
<1>1. HoldsAt(d, g) /\ Len(call[d].leases) \in Nat
  BY DEF HeldByUsers
<1>2. Len(call[d].leases) # 0
  BY <1>1 DEF HoldsAt
<1>3. /\ call'[d].leases = call[d].leases
      /\ call'[d].pc \in Unowned => call[d].pc \in Unowned
  BY <1>2
<1> QED BY <1>1, <1>3 DEF HoldsAt

LEMMA BeginChatMutationHolds ==
  ASSUME IInv, HeldByUsers, NEW c \in Calls, BeginChatMutation(c)
  PROVE  HeldByUsers'
<1> DEFINE n == Len(call[c].leases)
           i == NextId(c)
<1>1. call[c] \in CallRecords /\ n \in Nat /\ call[c].pc = "shared" /\ call \in [Calls -> CallRecords]
      /\ gate \in [Gates -> [active : Nat, holder : Calls \cup {NoCall}]] /\ NoCall \notin Calls
  BY CallsAssumption DEF IInv, Types, CallRecords, BeginChatMutation
<1>2. ASSUME NEW g \in Gates, HoldsAt(c, g),
             NEW h, call'[c].leases = Append(call[c].leases, [id |-> i, gate |-> h])
      PROVE  HoldsAt(c, g)'
  <2>1. PICK k \in 1..n : call[c].leases[k].gate = g
    BY <1>2 DEF HoldsAt
  <2>2. call'[c].leases[k] = call[c].leases[k] /\ Len(call'[c].leases) = n + 1
    BY <1>1, <1>2, <2>1 DEF CallRecords
  <2>3. k \in 1..Len(call'[c].leases) /\ k < Len(call'[c].leases)
    BY <1>1, <2>1, <2>2
  <2> QED BY <2>1, <2>2, <2>3 DEF HoldsAt
<1>3. CASE chatMutations[i] = NoGate
  <2>1. PICK h \in Gates : h = FreeGate
    BY FreeGateExists DEF IInv
  <2>2. /\ gate' = [gate EXCEPT ![h] = [active |-> 1, holder |-> c]]
        /\ call' = [call EXCEPT ![c] = Announced(c, h)]
    BY <1>3, <2>1 DEF BeginChatMutation, PublishGate
  <2>3. /\ call'[c].leases = Append(call[c].leases, [id |-> i, gate |-> h])
        /\ call'[c].pc = "shared"
        /\ \A d \in Calls : d # c => call'[d] = call[d]
    BY <1>1, <2>2 DEF Announced, CallRecords
  <2>4. HoldsAt(c, h)'
    <3>1. Len(call'[c].leases) = n + 1 /\ call'[c].leases[n + 1] = [id |-> i, gate |-> h]
      BY <1>1, <2>3 DEF CallRecords
    <3>2. n + 1 \in 1..Len(call'[c].leases) /\ call'[c].leases[n + 1].gate = h
      BY <1>1, <3>1
    <3> QED BY <2>3, <3>2 DEF HoldsAt, Unowned
  <2>5. ASSUME NEW g \in Gates, NEW d \in Calls, gate'[g].holder = d
        PROVE  IF d = c THEN HoldsAt(c, g)' ELSE gate[g].holder = d
    <3>1. CASE g = h
      <4>1. gate'[g].holder = c
        BY <1>1, <2>1, <2>2, <3>1
      <4> QED BY <2>4, <2>5, <3>1, <4>1
    <3>2. CASE g # h
      <4>1. gate[g].holder = d
        BY <1>1, <2>1, <2>2, <2>5, <3>2
      <4> QED BY <1>2, <2>3, <4>1 DEF HeldByUsers
    <3> QED BY <3>1, <3>2
  <2> QED BY <2>3, <2>5, OneHolds
<1>4. CASE chatMutations[i] # NoGate
  <2> DEFINE h == chatMutations[i]
  <2>1. /\ gate' = [gate EXCEPT ![h].active = @ + 1]
        /\ call' = [call EXCEPT ![c] = [Announced(c, h) EXCEPT
                                          !.pc = "waiting", !.overlapped = @ \cup {i}]]
    BY <1>4 DEF BeginChatMutation, JoinGate
  <2> HIDE DEF h
  <2>2. /\ call'[c].leases = Append(call[c].leases, [id |-> i, gate |-> h])
        /\ \A d \in Calls : d # c => call'[d] = call[d]
    BY <1>1, <2>1 DEF Announced, CallRecords
  <2>3. \A g \in Gates : gate'[g].holder = gate[g].holder
    BY <1>1, <2>1
  <2>4. ASSUME NEW g \in Gates, NEW d \in Calls, gate'[g].holder = d
        PROVE  IF d = c THEN HoldsAt(c, g)' ELSE gate[g].holder = d
    <3>1. gate[g].holder = d
      BY <2>3, <2>4
    <3> QED BY <1>2, <2>2, <3>1 DEF HeldByUsers
  <2> QED BY <2>2, <2>4, OneHolds
<1> QED BY <1>3, <1>4

LEMMA TakeGateHolds ==
  ASSUME IInv, HeldByUsers, NEW c \in Calls, TakeGate(c)
  PROVE  HeldByUsers'
<1>1. call[c] \in CallRecords /\ WellFormed(call[c]) /\ call[c].pc = "waiting"
      /\ call \in [Calls -> CallRecords]
      /\ gate \in [Gates -> [active : Nat, holder : Calls \cup {NoCall}]]
  BY DEF IInv, Types, Shapes, TakeGate
<1>2. PICK n \in 1..Len(call[c].leases) : n = Len(call[c].leases)
  BY <1>1 DEF WellFormed, CallRecords
<1>3. PICK h \in Gates : h = call[c].leases[n].gate
  BY <1>2, LeaseFacts
<1>4. /\ gate' = [gate EXCEPT ![h].holder = c]
      /\ call'[c].leases = call[c].leases /\ call'[c].pc = "shared"
      /\ \A d \in Calls : d # c => call'[d] = call[d]
  BY <1>1, <1>2, <1>3 DEF TakeGate, LastLease, Last, CallRecords
<1>5. ASSUME NEW g \in Gates, NEW d \in Calls, gate'[g].holder = d
      PROVE  IF d = c THEN HoldsAt(c, g)' ELSE gate[g].holder = d
  <2>1. CASE g = h
    <3>1. d = c
      BY <1>1, <1>4, <1>5, <2>1
    <3> QED BY <1>2, <1>3, <1>4, <2>1, <3>1 DEF HoldsAt, Unowned
  <2>2. CASE g # h
    <3>1. gate[g].holder = d
      BY <1>1, <1>4, <1>5, <2>2
    <3> QED BY <1>4, <3>1 DEF HeldByUsers, HoldsAt, Unowned
  <2> QED BY <2>1, <2>2
<1> QED BY <1>4, <1>5, OneHolds

LEMMA UnlockGateHolds ==
  ASSUME IInv, HeldByUsers, NEW c \in Calls, UnlockGate(c)
  PROVE  HeldByUsers'
<1>1. call[c] \in CallRecords /\ call[c].pc = "ending" /\ call[c].leases # <<>>
      /\ call \in [Calls -> CallRecords]
      /\ gate \in [Gates -> [active : Nat, holder : Calls \cup {NoCall}]] /\ NoCall \notin Calls
  BY CallsAssumption DEF IInv, Types, Shapes, UnlockGate
<1>2. PICK n \in 1..Len(call[c].leases) : n = Len(call[c].leases)
  BY <1>1 DEF CallRecords
<1>3. PICK h \in Gates : h = call[c].leases[n].gate
  BY <1>2, LeaseFacts
<1>4. /\ gate' = [gate EXCEPT ![h].holder = NoCall]
      /\ call'[c].leases = call[c].leases
      /\ \A d \in Calls : d # c => call'[d] = call[d]
  BY <1>1, <1>2, <1>3 DEF UnlockGate, LastLease, Last, CallRecords
<1>5. ASSUME NEW g \in Gates, NEW d \in Calls, gate'[g].holder = d
      PROVE  IF d = c THEN HoldsAt(c, g)' ELSE gate[g].holder = d
  <2>1. g # h
    BY <1>1, <1>4, <1>5
  <2>2. gate[g].holder = d
    BY <1>1, <1>4, <1>5, <2>1
  <2>3. CASE d = c
    <3>1. PICK k \in 1..Len(call[c].leases) : call[c].leases[k].gate = g
      BY <2>2, <2>3 DEF HeldByUsers, HoldsAt
    <3>2. k < Len(call[c].leases)
      BY <1>2, <1>3, <2>1, <3>1
    <3> QED BY <1>4, <2>3, <3>1, <3>2 DEF HoldsAt
  <2> QED BY <2>2, <2>3
<1> QED BY <1>4, <1>5, OneHolds

LEMMA LeaveGateHolds ==
  ASSUME IInv, HeldByUsers, NEW c \in Calls, LeaveGate(c)
  PROVE  HeldByUsers'
<1>1. call[c] \in CallRecords /\ WellFormed(call[c]) /\ call[c].pc = "leaving"
      /\ call \in [Calls -> CallRecords]
      /\ gate \in [Gates -> [active : Nat, holder : Calls \cup {NoCall}]]
  BY DEF IInv, Types, Shapes, LeaveGate
<1>2. PICK n \in 1..Len(call[c].leases) : n = Len(call[c].leases)
  BY <1>1 DEF WellFormed, CallRecords
<1>3. /\ Len(Front(call[c].leases)) = n - 1
      /\ \A k \in 1..(n - 1) : Front(call[c].leases)[k] = call[c].leases[k]
  <2>1. call[c].leases \in Seq(Lease)
    BY <1>1 DEF CallRecords
  <2> QED BY <1>2, <2>1 DEF Front
<1>4. /\ gate' = [gate EXCEPT ![LastLease(c).gate].active = @ - 1]
      /\ call'[c].leases = Front(call[c].leases) /\ call'[c].pc = "ending"
      /\ \A d \in Calls : d # c => call'[d] = call[d]
  BY <1>1 DEF LeaveGate, CallRecords
<1>5. \A g \in Gates : gate'[g].holder = gate[g].holder
  BY <1>1, <1>4
<1>6. ASSUME NEW g \in Gates, NEW d \in Calls, gate'[g].holder = d
      PROVE  IF d = c THEN HoldsAt(c, g)' ELSE gate[g].holder = d
  <2>1. gate[g].holder = d
    BY <1>5, <1>6
  <2>2. CASE d = c
    <3>1. PICK k \in 1..Len(call[c].leases) :
            call[c].leases[k].gate = g /\ k < Len(call[c].leases)
      BY <1>1, <2>1, <2>2 DEF HeldByUsers, HoldsAt, Unowned
    <3>2. k \in 1..(n - 1)
      BY <1>2, <3>1
    <3> QED BY <1>3, <1>4, <2>2, <3>1, <3>2 DEF HoldsAt, Unowned
  <2> QED BY <2>1, <2>2
<1> QED BY <1>4, <1>6, OneHolds

LEMMA NextHolds ==
  ASSUME IInv, HeldByUsers, [Next]_vars
  PROVE  HeldByUsers'
<1>1. \A d \in Calls : /\ call[d] \in CallRecords /\ Len(call[d].leases) \in Nat
                       /\ call[d].pc \in Apart => Len(call[d].leases) = 0
  BY DEF IInv, Types, Shapes, WellFormed, CallRecords
<1>2. call \in [Calls -> CallRecords]
  BY DEF IInv, Types
<1>3. ASSUME NEW c \in Calls, call[c].pc \in Apart, gate' = gate,
             \A d \in Calls : d # c => call'[d] = call[d]
      PROVE  HeldByUsers'
  BY <1>1, <1>3, StillHolds
<1>4. ASSUME NEW c \in Calls, Starting(c) PROVE HeldByUsers'
  <2>1. /\ call[c].pc \in Apart /\ gate' = gate
        /\ \A d \in Calls : d # c => call'[d] = call[d]
    BY <1>2, <1>4 DEF Starting, Begin, Apart
  <2> QED BY <1>3, <2>1
<1>5. ASSUME NEW c \in Calls, RLock(c) \/ AnnounceWriter(c) \/ Lock(c) PROVE HeldByUsers'
  <2>1. /\ call[c].pc \in Apart /\ gate' = gate
        /\ \A d \in Calls : d # c => call'[d] = call[d]
    BY <1>2, <1>5 DEF RLock, AnnounceWriter, Lock, Apart
  <2> QED BY <1>3, <2>1
<1>6. ASSUME NEW c \in Calls, RUnlock(c) PROVE HeldByUsers'
  <2>1. /\ call[c].leases = <<>> /\ gate' = gate
        /\ \A d \in Calls : d # c => call'[d] = call[d]
    BY <1>2, <1>6 DEF RUnlock
  <2>2. Len(call[c].leases) = 0
    BY <2>1
  <2> QED BY <1>1, <2>1, <2>2, StillHolds
<1>7. ASSUME NEW c \in Calls, Destroy(c) PROVE HeldByUsers'
  <2>1. /\ gate' = gate
        /\ \A d \in Calls : call[d].pc \notin {"exclusive", "parked"} => call'[d] = call[d]
    BY <1>2, <1>7 DEF Destroy
  <2>2. \A d \in Calls : Len(call[d].leases) # 0 => call[d].pc \notin {"exclusive", "parked"}
    BY <1>1 DEF Apart
  <2> QED BY <1>1, <2>1, <2>2, StillHolds
<1>8. ASSUME NEW c \in Calls, Transact(c) \/ Refuse(c) PROVE HeldByUsers'
  <2>1. gate' = gate /\ \E W : Ended(c, W)
    BY <1>8 DEF Transact, Refuse
  <2>2. \A d \in Calls : /\ call'[d].leases = call[d].leases
                         /\ call'[d].pc \in Unowned => call[d].pc \in Unowned
    BY <1>1, <1>2, <2>1 DEF Ended, CallRecords, Unowned
  <2> QED BY <1>1, <2>1, <2>2, StillHolds
<1>9. CASE UNCHANGED vars
  BY <1>1, <1>9, StillHolds DEF vars
<1> QED BY <1>4, <1>5, <1>6, <1>7, <1>8, <1>9, BeginChatMutationHolds, TakeGateHolds,
           UnlockGateHolds, LeaveGateHolds DEF Next, Step

LEMMA NextAscends ==
  ASSUME IInv, Ascending, [Next]_vars
  PROVE  Ascending'
<1>1. call \in [Calls -> CallRecords]
  BY DEF IInv, Types
<1>2. Ascends(Idle)
  BY DEF Ascends, Idle
<1>3. ASSUME NEW c \in Calls, NEW r \in CallRecords, Ascends(r), call' = [call EXCEPT ![c] = r]
      PROVE  Ascending'
  BY <1>1, <1>3 DEF Ascending
<1>4. ASSUME NEW c \in Calls, Starting(c) PROVE Ascending'
  <2>1. PICK op, ids : /\ Begin(c, op, ids)
                       /\ \A j, k \in 1..Len(ids) : j < k => ids[j] < ids[k]
    <3>1. CASE \E op \in {"create"} \cup Destructive : Begin(c, op, <<>>)
      BY <3>1
    <3>2. CASE \E op \in {"withdraw", "delete"}, i \in Ids : Begin(c, op, <<i>>)
      BY <3>2
    <3>3. CASE \E ids \in Requested : \E sorted \in Normalized(ids) : Begin(c, "batch", sorted)
      <4>1. PICK ids \in Requested : \E sorted \in Normalized(ids) : Begin(c, "batch", sorted)
        BY <3>3
      <4>2. PICK sorted \in Normalized(ids) : Begin(c, "batch", sorted)
        BY <4>1
      <4>3. ids \in Seq(Ids)
        BY CallsAssumption
      <4>4. Len(sorted) = Len(ids)
        BY <4>3 DEF Normalized
      <4> QED BY <4>2, <4>4 DEF Normalized
    <3> QED BY <1>4, <3>1, <3>2, <3>3 DEF Starting
  <2>2. call' = [call EXCEPT ![c] = [Idle EXCEPT !.op = op, !.pc = "entering", !.ids = ids]]
    BY <2>1 DEF Begin
  <2>3. call'[c].ids = ids /\ \A d \in Calls : d # c => call'[d] = call[d]
    BY <1>1, <2>2 DEF Idle
  <2> QED BY <2>1, <2>3 DEF Ascending, Ascends
<1>5. ASSUME NEW c \in Calls, Step(c)
      PROVE  \A d \in Calls : call'[d].ids = call[d].ids \/ call'[d] = Idle
  <2>1. call[c] \in CallRecords
    BY <1>1
  <2>2. CASE RLock(c) \/ AnnounceWriter(c) \/ Lock(c) \/ TakeGate(c) \/ UnlockGate(c)
    <3>1. \E pc : call' = [call EXCEPT ![c].pc = pc]
      BY <2>2 DEF RLock, AnnounceWriter, Lock, TakeGate, UnlockGate
    <3> QED BY <1>1, <2>1, <3>1 DEF CallRecords
  <2>3. CASE RUnlock(c) \/ Destroy(c)
    BY <1>1, <2>3 DEF RUnlock, Destroy, CallRecords
  <2>4. CASE BeginChatMutation(c)
    <3>1. CASE PublishGate(c)
      BY <1>1, <2>1, <3>1 DEF PublishGate, Announced, CallRecords
    <3>2. CASE JoinGate(c)
      BY <1>1, <2>1, <3>2 DEF JoinGate, Announced, CallRecords
    <3> QED BY <2>4, <3>1, <3>2 DEF BeginChatMutation
  <2>5. CASE LeaveGate(c)
    BY <1>1, <2>1, <2>5 DEF LeaveGate, CallRecords
  <2>6. CASE Transact(c) \/ Refuse(c)
    <3>1. PICK W : Ended(c, W)
      BY <2>6 DEF Transact, Refuse
    <3> QED BY <1>1, <2>1, <3>1 DEF Ended, CallRecords
  <2> QED BY <1>5, <2>2, <2>3, <2>4, <2>5, <2>6 DEF Step
<1>6. CASE \A d \in Calls : call'[d].ids = call[d].ids \/ call'[d] = Idle
  BY <1>2, <1>6 DEF Ascending, Ascends
<1>7. CASE UNCHANGED vars
  BY <1>6, <1>7 DEF vars
<1> QED BY <1>4, <1>5, <1>6, <1>7 DEF Next

\* Who waits at a gate waits for a call that has announced itself at a message
\* before, and so, if it waits itself, waits for one of a greater id.
LEMMA GatesAscend ==
  ASSUME IInv, HeldByUsers, Ascending,
         NEW c \in Calls, call[c].pc = "waiting", NEW d \in AwaitedBy(c)
  PROVE  /\ Len(call[c].leases) \in 1..Len(call[c].ids)
         /\ call[c].ids[Len(call[c].leases)] \in Ids
         /\ call[d].pc \notin Apart
         /\ call[d].pc = "waiting" =>
              call[c].ids[Len(call[c].leases)] < call[d].ids[Len(call[d].leases)]
<1>1. /\ call[c] \in CallRecords /\ WellFormed(call[c])
      /\ d \in Calls /\ call[d] \in CallRecords /\ WellFormed(call[d])
  BY DEF IInv, Types, Shapes, AwaitedBy
<1>2. PICK n \in 1..Len(call[c].leases) : n = Len(call[c].leases)
  BY <1>1 DEF WellFormed, CallRecords
<1>3. n \in 1..Len(call[c].ids) /\ call[c].ids[n] \in Ids
  BY <1>1, <1>2 DEF WellFormed, CallRecords
<1>4. PICK g \in Gates : /\ g = call[c].leases[n].gate /\ g # NoGate
                         /\ g = chatMutations[call[c].ids[n]]
  BY <1>2, LeaseFacts
<1>5. gate[g].holder = d
  BY <1>1, <1>2, <1>4 DEF AwaitedBy, LastLease, Last
<1>6. PICK k \in 1..Len(call[d].leases) :
        /\ call[d].leases[k].gate = g
        /\ k < Len(call[d].leases) \/ call[d].pc \notin Unowned
  BY <1>1, <1>5 DEF HeldByUsers, HoldsAt
<1>7. call[d].ids[k] = call[c].ids[n]
  <2>1. call[d].ids[k] \in Ids /\ chatMutations[call[d].ids[k]] = g
    BY <1>1, <1>6, LeaseFacts
  <2> QED BY <1>3, <1>4, <2>1 DEF IInv, Mapped
<1>8. call[d].pc \notin Apart
  BY <1>1, <1>6 DEF WellFormed
<1>9. ASSUME call[d].pc = "waiting"
      PROVE  call[d].ids[k] < call[d].ids[Len(call[d].leases)]
  <2>1. k < Len(call[d].leases)
    BY <1>6, <1>9 DEF Unowned
  <2>2. k \in 1..Len(call[d].ids) /\ Len(call[d].leases) \in 1..Len(call[d].ids)
    BY <1>1, <1>6, <2>1 DEF WellFormed, CallRecords
  <2> QED BY <1>1, <2>1, <2>2 DEF Ascending, Ascends
<1> QED BY <1>2, <1>3, <1>7, <1>8, <1>9

\* Nobody waits in a circle: of any calls, one that waits at the gate of the greatest
\* id waits for none of them, or for one that goes on; without one, writers go first.
THEOREM NoCircle == Spec => []NobodyWaitsInACircle
<1>1. Init => HeldByUsers /\ Ascending
  <2> SUFFICES ASSUME Init PROVE HeldByUsers /\ Ascending
    OBVIOUS
  <2>1. HeldByUsers
    BY CallsAssumption DEF Init, HeldByUsers
  <2>2. Ascending
    BY DEF Init, Ascending, Ascends, Idle
  <2> QED BY <2>1, <2>2
<1>2. IInv /\ HeldByUsers /\ Ascending /\ [Next]_vars => (HeldByUsers /\ Ascending)'
  BY NextHolds, NextAscends
<1>3. ASSUME IInv, HeldByUsers, Ascending PROVE NobodyWaitsInACircle
  <2> SUFFICES ASSUME NEW some \in SUBSET Calls, some # {},
                      \A c \in some : AwaitedBy(c) \cap some # {}
               PROVE  FALSE
    BY DEF NobodyWaitsInACircle
  <2>1. \A c \in some : call[c] \in CallRecords /\ call[c].pc \in Points
    BY <1>3 DEF IInv, Types, CallRecords
  <2>2. \A c \in some : call[c].pc \in {"entering", "parked", "pending", "waiting"}
    <3> SUFFICES ASSUME NEW c \in some,
                        call[c].pc \notin {"entering", "parked", "pending", "waiting"}
                 PROVE  AwaitedBy(c) = {}
      OBVIOUS
    <3> QED BY DEF AwaitedBy
  <2>3. \A c \in some : call[c].pc # "waiting"
    <3> SUFFICES ASSUME NEW b \in some, call[b].pc = "waiting" PROVE FALSE
      OBVIOUS
    <3> DEFINE at(c) == call[c].ids[Len(call[c].leases)]
               W == {c \in some : call[c].pc = "waiting"}
               T == {at(c) : c \in W}
    <3>1. \A c \in W : \E d \in W : at(c) \in Ids /\ at(c) < at(d)
      <4> SUFFICES ASSUME NEW c \in W PROVE \E d \in W : at(c) \in Ids /\ at(c) < at(d)
        OBVIOUS
      <4>1. PICK d \in some : d \in AwaitedBy(c)
        OBVIOUS
      <4>2. /\ at(c) \in Ids /\ call[d].pc \notin Apart
            /\ call[d].pc = "waiting" => at(c) < at(d)
        BY <1>3, <4>1, GatesAscend
      <4>3. call[d].pc = "waiting"
        BY <2>2, <4>2 DEF Apart
      <4> QED BY <4>2, <4>3
    <3>2. T \in SUBSET Nat /\ T # {} /\ \A x \in T : x <= MaxMessages
      <4>1. \A c \in W : at(c) \in Nat /\ at(c) <= MaxMessages
        BY <3>1 DEF Ids, StoreAssumption
      <4> HIDE DEF at
      <4> QED BY <4>1
    <3>3. PICK c \in W : \A y \in T : at(c) >= y
      <4> HIDE DEF T
      <4>1. MaxMessages \in Nat
        BY StoreAssumption
      <4>2. Max(T) \in T /\ \A y \in T : Max(T) >= y
        BY <3>2, <4>1, MaxOf
      <4> QED BY <4>2 DEF T
    <3>4. PICK d \in W : at(c) \in Ids /\ at(c) < at(d)
      BY <3>1
    <3>5. at(d) \in T /\ at(d) \in Ids
      BY <3>1
    <3>6. at(c) \in Nat /\ at(d) \in Nat /\ at(c) >= at(d)
      BY <3>3, <3>4, <3>5 DEF Ids
    <3> HIDE DEF at
    <3> QED BY <3>4, <3>6
  <2>4. \A c \in some : call[c].pc # "pending"
    <3> SUFFICES ASSUME NEW c \in some, call[c].pc = "pending" PROVE FALSE
      OBVIOUS
    <3>1. PICK d \in some : d \in Readers
      BY DEF AwaitedBy
    <3> QED BY <2>2, <2>3, <3>1 DEF Readers, At
  <2>5. PICK c \in some : TRUE
    OBVIOUS
  <2>6. PICK d \in some : call[d].pc \in {"pending", "exclusive"}
    BY <2>2, <2>3, <2>4 DEF AwaitedBy
  <2> QED BY <2>2, <2>4, <2>6
<1> QED BY <1>1, <1>2, <1>3, Invariance, PTL DEF Spec

-----------------------------------------------------------------------------
(* The tables, which the locks do not depend on.                            *)

Tables == StoreTypeOK /\ StoreOk

LEMMA InitTables == ASSUME Init PROVE Tables
<1> USE StoreAssumption, CallsAssumption DEF Init
<1>1. /\ Existing \in Nat /\ Existing <= MaxMessages /\ MaxMessages \in Nat
      /\ msgs \in [1..Existing -> Statuses] /\ chg \in [1..Existing -> Ids \cup {0}]
  BY DEF Statuses, Ids
<1>2. msgs \in Seq(Statuses) /\ Len(msgs) = Existing /\ chg \in Seq(Ids \cup {0})
  BY <1>1
<1>3. StoreTypeOK
  BY <1>1, <1>2 DEF StoreTypeOK
<1>4. StoreOk
  <2>1. DOMAIN msgs = 1..Existing /\ DOMAIN chg = 1..Existing
    BY <1>1
  <2> QED BY <2>1 DEF StoreOk, Present
<1> QED BY <1>3, <1>4 DEF Tables

\* A call writes in one transaction, or not at all.
LEMMA StepWrites ==
  ASSUME [Next]_vars
  PROVE  Writes \/ UNCHANGED store
<1>1. ASSUME NEW c \in Calls, Starting(c) \/ Step(c) PROVE Writes \/ UNCHANGED store
  <2>1. CASE Transact(c)
    BY <2>1 DEF Transact, Writes
  <2>2. CASE Destroy(c)
    BY <2>2 DEF Destroy, Writes
  <2>3. CASE Starting(c)
    BY <2>3 DEF Starting, Begin, store
  <2> QED BY <1>1, <2>1, <2>2, <2>3
       DEF Step, RLock, RUnlock, AnnounceWriter, Lock, BeginChatMutation, TakeGate,
           UnlockGate, LeaveGate, Refuse, store
<1> QED BY <1>1 DEF Next, vars, store

LEMMA StepTables ==
  ASSUME Tables, [Next]_vars
  PROVE  Tables'
<1>1. Writes \/ UNCHANGED store
  BY StepWrites
<1>2. StoreStep
  <2>1. CASE UNCHANGED store
    BY <2>1 DEF store, StoreStep, Tables, StoreTypeOK
  <2> QED BY <1>1, <2>1, WritesStep DEF Tables
<1> QED BY <1>2, StoreKept DEF Tables, StoreStep

\* The tables, the map of gates and the calls have their types, whatever the transactions
\* append to the log of changes and remove from it.
THEOREM TypeCorrect == Spec => []TypeOK
<1>1. IInv /\ Tables => TypeOK
  BY DEF IInv, Types, CallRecords, Tables, TypeOK
<1> QED BY <1>1, Invariance, InitTables, StepTables, PTL DEF Spec

\* Whatever calls meet, and however their gates and locks interleave, whoever reads the
\* chat is kept the promise: a status moves forward only, each time under a change later
\* than all before, and only a removal, under a new generation, takes changes away.
THEOREM GatesKeepPromise == Spec => KeepsChatPromise
<1>1. Init => Promise!PromiseInit
  <2> SUFFICES ASSUME Init PROVE Promise!PromiseInit
    OBVIOUS
  <2>1. /\ Existing \in Nat /\ Existing <= MaxMessages /\ MaxMessages \in Nat
        /\ DOMAIN msgs = 1..Existing /\ \A i \in 1..Existing : msgs[i] = "active" /\ chg[i] = i
    BY StoreAssumption, CallsAssumption DEF Init
  <2>2. Latest = Existing
    <3>1. chg \in [1..Existing -> Nat]
      BY <2>1 DEF Init
    <3> QED BY <2>1, <3>1 DEF Latest
  <2>3. \A i \in Ids : i \in 1..Existing <=> i <= Latest
    BY <2>1, <2>2 DEF Ids
  <2>4. \A i \in Ids : LastChangeOf[i] = IF i <= Latest THEN i ELSE 0
    <3> SUFFICES ASSUME NEW i \in Ids PROVE LastChangeOf[i] = IF i <= Latest THEN i ELSE 0
      OBVIOUS
    <3>1. ChangesOf(i) = IF i <= Latest THEN {i} ELSE {}
      BY <2>1, <2>2, <2>3 DEF ChangesOf
    <3>2. ChangesOf(i) \in SUBSET (1..Latest) /\ Latest \in Nat
      BY <2>1, <2>2 DEF ChangesOf
    <3>3. CASE i <= Latest
      <4>1. i \in ChangesOf(i) /\ \A t \in ChangesOf(i) : t <= i
        BY <2>1, <2>2, <2>3, <3>1, <3>3
      <4>2. Max({0} \cup ChangesOf(i)) = i
        BY <3>2, <4>1, LastOfChanges
      <4> QED BY <3>3, <4>2 DEF LastChangeOf
    <3>4. CASE ~(i <= Latest)
      <4>1. Max({0} \cup ChangesOf(i)) = 0
        BY <3>1, <3>2, <3>4, LastOfChanges
      <4> QED BY <3>4, <4>1 DEF LastChangeOf
    <3> QED BY <3>3, <3>4
  <2>5. LastChangeOf = [i \in Ids |-> IF i <= Latest THEN i ELSE 0]
    <3>1. LastChangeOf = [i \in Ids |-> LastChangeOf[i]]
      BY DEF LastChangeOf
    <3> QED BY <2>4, <3>1
  <2>6. StatusOf = [i \in Ids |-> IF i <= Latest THEN "active" ELSE "none"]
    BY <2>1, <2>3 DEF StatusOf
  <2>7. Latest \in Ids \cup {0}
    BY <2>1, <2>2 DEF Ids
  <2> QED BY <2>5, <2>6, <2>7 DEF Init, Promise!PromiseInit
<1>2. Tables /\ [Next]_vars => [Promise!PromiseNext]_Promise!promiseVars
  BY StepWrites, WritesKeepPromise DEF Tables
<1> QED BY <1>1, <1>2, InitTables, StepTables, PTL DEF Spec, KeepsChatPromise, Promise!PromiseSpec
=============================================================================
