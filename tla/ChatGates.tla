------------------------------ MODULE ChatGates ------------------------------
(***************************************************************************)
(* The locks around the chat tables: concurrent calls of the operations of *)
(* ChatStore inside one process.  Calls that change messages share the     *)
(* read side of chatDestructiveMu and take a gate for every message they   *)
(* name; the clearing and the retention of messages take the write side.   *)
(* A call that found the gate of a message already in use has overlapped   *)
(* another one, and is refused more.                                       *)
(***************************************************************************)
EXTENDS ChatStore, SequencesExt

CONSTANTS
  Calls,    \* the calls running at the same time
  NoCall,
  Existing, \* messages in the database when the process starts
  Ops,      \* the operations each of them may be
  Requested \* the sequences of ids that batch requests name

NoGate == 0

\* Identities of chatMutationState objects; a free one is used again.
Gates == 1..(MaxMessages + 1)

AllOps == {"create", "withdraw", "delete", "batch", "clear", "cleanup"}
Destructive == {"clear", "cleanup"}

ASSUME CallsAssumption ==
  /\ NoCall \notin Calls /\ IsFiniteSet(Calls)
  /\ Existing \in 0..MaxMessages
  /\ Ops \in [Calls -> SUBSET AllOps]
  /\ \A ids \in Requested : ids \in Seq(Ids) /\ IsInjective(ids)

VARIABLES
  call,          \* the running calls
  chatMutations, \* the published gate of every message
  gate           \* of every gate: how many calls refer to it, and who holds it

locks == <<call, chatMutations, gate>>
vars == <<msgs, chg, gen, call, chatMutations, gate>>

(***************************************************************************)
(* The points of a call:                                                   *)
(*   entering   it asks for chatDestructiveMu                              *)
(*   parked     a reader waiting for the writer that was there before it   *)
(*   shared     it holds the read side and takes the next gate, or is done *)
(*   waiting    it has announced itself at a gate that another call uses   *)
(*   ending     its transaction is over; it gives its gates back           *)
(*   leaving    it has unlocked its last gate and still counts there       *)
(*   pending    a writer waiting for the readers that were there before it *)
(*   exclusive  it holds the write side                                    *)
(* leases are the gates it has announced itself at, in order; overlapped   *)
(* the messages whose gate another call was using; won the messages its    *)
(* transaction has changed.                                                *)
(***************************************************************************)
Points == {"idle", "entering", "parked", "shared", "waiting", "ending", "leaving",
           "pending", "exclusive"}
Lease == [id : Ids, gate : Gates]
Idle == [op |-> "none", pc |-> "idle", ids |-> <<>>, leases |-> <<>>,
         overlapped |-> {}, won |-> {}]

TypeOK ==
  /\ StoreTypeOK
  /\ call \in [Calls -> [op : AllOps \cup {"none"}, pc : Points, ids : Seq(Ids),
                         leases : Seq(Lease), overlapped : SUBSET Ids, won : SUBSET Ids]]
  /\ chatMutations \in [Ids -> Gates \cup {NoGate}]
  /\ gate \in [Gates -> [active : Nat, holder : Calls \cup {NoCall}]]

Init ==
  /\ msgs = [i \in 1..Existing |-> "active"]
  /\ chg = [i \in 1..Existing |-> i]
  /\ gen = 1
  /\ call = [c \in Calls |-> Idle]
  /\ chatMutations = [i \in Ids |-> NoGate]
  /\ gate = [g \in Gates |-> [active |-> 0, holder |-> NoCall]]

At(points) == {c \in Calls : call[c].pc \in points}
Readers == At({"shared", "waiting", "ending", "leaving"})
LastLease(c) == Last(call[c].leases)
NextId(c) == call[c].ids[Len(call[c].leases) + 1]
HasAllGates(c) == call[c].pc = "shared" /\ Len(call[c].leases) = Len(call[c].ids)

-----------------------------------------------------------------------------
(* The read-write lock.                                                     *)

AsRequested(ids) == {ids}
\* normalizeChatBatchIDs: the same ids in ascending order.
Normalized(ids) ==
  {sorted \in [1..Len(ids) -> Range(ids)] :
     \A j, k \in 1..Len(ids) : j < k => sorted[j] < sorted[k]}

Begin(c, op, ids) ==
  /\ op \in Ops[c]
  /\ call[c].pc = "idle"
  /\ call' = [call EXCEPT ![c] = [Idle EXCEPT !.op = op, !.pc = "entering", !.ids = ids]]
  /\ UNCHANGED <<msgs, chg, gen, chatMutations, gate>>

\* A waiting writer keeps new readers out.
RLock(c) ==
  /\ call[c].pc = "entering" /\ call[c].op \notin Destructive
  /\ call' = [call EXCEPT ![c].pc =
                IF At({"pending", "exclusive"}) = {} THEN "shared" ELSE "parked"]
  /\ UNCHANGED <<msgs, chg, gen, chatMutations, gate>>

RUnlock(c) ==
  /\ call[c].pc = "ending" /\ call[c].leases = <<>>
  /\ call' = [call EXCEPT ![c] = Idle]
  /\ UNCHANGED <<msgs, chg, gen, chatMutations, gate>>

\* Writers take turns.
AnnounceWriter(c) ==
  /\ call[c].pc = "entering" /\ call[c].op \in Destructive
  /\ At({"pending", "exclusive"}) = {}
  /\ call' = [call EXCEPT ![c].pc = "pending"]
  /\ UNCHANGED <<msgs, chg, gen, chatMutations, gate>>

Lock(c) ==
  /\ call[c].pc = "pending" /\ Readers = {}
  /\ call' = [call EXCEPT ![c].pc = "exclusive"]
  /\ UNCHANGED <<msgs, chg, gen, chatMutations, gate>>

DestroyLeavesParked(c) ==
  /\ call[c].pc = "exclusive"
  /\ \/ call[c].op = "clear" /\ ClearChatMessages(gen, Latest)
     \/ call[c].op = "cleanup" /\ CleanupChat
     \/ UNCHANGED store
  /\ call' = [call EXCEPT ![c] = Idle]
  /\ UNCHANGED <<chatMutations, gate>>

\* The transaction of a writer, refused or not, and Unlock: the readers that
\* waited for it go first.
Destroy(c) ==
  /\ call[c].pc = "exclusive"
  /\ \/ call[c].op = "clear" /\ ClearChatMessages(gen, Latest)
     \/ call[c].op = "cleanup" /\ CleanupChat
     \/ UNCHANGED store
  /\ call' = [d \in Calls |-> CASE d = c -> Idle
                                [] call[d].pc = "parked" -> [call[d] EXCEPT !.pc = "shared"]
                                [] OTHER -> call[d]]
  /\ UNCHANGED <<chatMutations, gate>>

-----------------------------------------------------------------------------
(* The gates of messages.                                                   *)

FreeGate == CHOOSE g \in Gates : gate[g].active = 0
Announced(c, g) == [call[c] EXCEPT !.leases = Append(@, [id |-> NextId(c), gate |-> g])]

\* The first one locks the gate before it publishes it.
PublishGateUnlocked(c) ==
  LET g == FreeGate IN
  /\ gate' = [gate EXCEPT ![g] = [active |-> 1, holder |-> NoCall]]
  /\ chatMutations' = [chatMutations EXCEPT ![NextId(c)] = g]
  /\ call' = [call EXCEPT ![c] = [Announced(c, g) EXCEPT !.pc = "waiting"]]
PublishGate(c) ==
  LET g == FreeGate IN
  /\ gate' = [gate EXCEPT ![g] = [active |-> 1, holder |-> c]]
  /\ chatMutations' = [chatMutations EXCEPT ![NextId(c)] = g]
  /\ call' = [call EXCEPT ![c] = Announced(c, g)]

JoinGate(c) ==
  LET g == chatMutations[NextId(c)] IN
  /\ gate' = [gate EXCEPT ![g].active = @ + 1]
  /\ call' = [call EXCEPT ![c] = [Announced(c, g) EXCEPT
                                    !.pc = "waiting", !.overlapped = @ \cup {NextId(c)}]]
  /\ UNCHANGED chatMutations

BeginChatMutation(c) ==
  /\ call[c].pc = "shared" /\ ~HasAllGates(c)
  /\ IF chatMutations[NextId(c)] = NoGate THEN PublishGate(c) ELSE JoinGate(c)
  /\ UNCHANGED store

TakeGate(c) ==
  /\ call[c].pc = "waiting"
  /\ gate[LastLease(c).gate].holder = NoCall
  /\ gate' = [gate EXCEPT ![LastLease(c).gate].holder = c]
  /\ call' = [call EXCEPT ![c].pc = "shared"]
  /\ UNCHANGED <<msgs, chg, gen, chatMutations>>

UnlockGate(c) ==
  /\ call[c].pc = "ending" /\ call[c].leases # <<>>
  /\ gate' = [gate EXCEPT ![LastLease(c).gate].holder = NoCall]
  /\ call' = [call EXCEPT ![c].pc = "leaving"]
  /\ UNCHANGED <<msgs, chg, gen, chatMutations>>

\* The last one to leave takes the gate out of the map.
UnpublishNever(id, g) == chatMutations
Unpublish(id, g) ==
  IF gate[g].active = 1 /\ chatMutations[id] = g
  THEN [chatMutations EXCEPT ![id] = NoGate]
  ELSE chatMutations

LeaveGate(c) ==
  LET l == LastLease(c) IN
  /\ call[c].pc = "leaving"
  /\ gate' = [gate EXCEPT ![l.gate].active = @ - 1]
  /\ chatMutations' = Unpublish(l.id, l.gate)
  /\ call' = [call EXCEPT ![c] = [call[c] EXCEPT !.pc = "ending", !.leases = Front(@),
                                                 !.won = @ \ {l.id}]]
  /\ UNCHANGED store

-----------------------------------------------------------------------------
(* The transaction of a reader.                                             *)

Ended(c, won) == call' = [call EXCEPT ![c] = [@ EXCEPT !.pc = "ending", !.won = won]]

MayDeleteAnyway(c) == TRUE
MayDelete(c) == call[c].overlapped = {}

\* An overlapped deletion leaves a message alone that was withdrawn before its
\* turn came; an overlapped batch does not even start.
Transact(c) ==
  /\ HasAllGates(c)
  /\ \/ call[c].op = "create" /\ CreateChatMessage
     \/ call[c].op = "withdraw" /\ WithdrawChatMessage(call[c].ids[1])
     \/ call[c].op = "delete" /\ DeleteChatMessage(call[c].ids[1], MayDelete(c))
     \/ call[c].op = "batch" /\ MayDelete(c) /\ BatchDeleteChatMessages(Range(call[c].ids))
  /\ Ended(c, Range(call[c].ids))
  /\ UNCHANGED <<chatMutations, gate>>

\* Whatever the reason: the message is missing, someone else's or in the wrong
\* state, its window is over, or a statement failed.
Refuse(c) ==
  /\ HasAllGates(c)
  /\ Ended(c, {})
  /\ UNCHANGED <<msgs, chg, gen, chatMutations, gate>>

-----------------------------------------------------------------------------
Starting(c) ==
  \/ \E op \in {"create"} \cup Destructive : Begin(c, op, <<>>)
  \/ \E op \in {"withdraw", "delete"}, i \in Ids : Begin(c, op, <<i>>)
  \/ \E ids \in Requested : \E sorted \in Normalized(ids) : Begin(c, "batch", sorted)

Step(c) ==
  \/ RLock(c) \/ RUnlock(c) \/ AnnounceWriter(c) \/ Lock(c) \/ Destroy(c)
  \/ BeginChatMutation(c) \/ TakeGate(c) \/ UnlockGate(c) \/ LeaveGate(c)
  \/ Transact(c) \/ Refuse(c)

Next == \E c \in Calls : Starting(c) \/ Step(c)

Spec == Init /\ [][Next]_vars

\* A running call is scheduled.  A mutex that others take again and again is
\* handed over in the end: after a millisecond Go's mutex serves its queue.
FairSpec ==
  /\ Spec
  /\ \A c \in Calls : /\ WF_vars(Step(c))
                      /\ SF_vars(TakeGate(c))
                      /\ SF_vars(AnnounceWriter(c))

-----------------------------------------------------------------------------
(* Properties.                                                              *)

LeasesOf(c) == Range(call[c].leases)
UsersOf(i) == {c \in Calls : \E l \in LeasesOf(c) : l.id = i}

\* The map of gates holds exactly the messages in use, under one gate each that
\* counts its users: none is leaked, and no two calls on one message can look
\* at different gates.
GatesAreCounted ==
  \A i \in Ids :
    IF UsersOf(i) = {}
    THEN chatMutations[i] = NoGate
    ELSE /\ chatMutations[i] # NoGate
         /\ gate[chatMutations[i]].active = Cardinality(UsersOf(i))
         /\ \A c \in UsersOf(i) : \A l \in LeasesOf(c) : l.id = i => l.gate = chatMutations[i]

\* At most one call at a time holds a gate of a message.
OneHolderPerMessage ==
  \A i \in Ids :
    Cardinality({c \in Calls : \E l \in LeasesOf(c) : l.id = i /\ gate[l.gate].holder = c}) <= 1

\* Of the calls that meet at the gate of a message at most one changes it,
\* whether they withdraw it, delete it or delete it with others.
OneWinner ==
  \A c, d \in Calls : c # d => call[c].won \cap call[d].won = {}

\* While messages are cleared or cleaned up no other call is between its first
\* gate and its last: what it decided cannot be undone under its feet.
DestructiveIsAlone ==
  At({"exclusive"}) # {} => /\ Cardinality(At({"exclusive"})) = 1
                            /\ Readers = {}

\* The call that did not find the gate in use is not overtaken at it: no
\* overlapped call has had its transaction before it.
FirstRunsFirst ==
  \A i \in Ids : \A c, d \in UsersOf(i) :
    i \notin call[c].overlapped /\ i \in call[d].overlapped =>
      (call[d].pc \in {"ending", "leaving"} => call[c].pc \in {"ending", "leaving"})

\* Whom a call waits for: a reader for the writer that keeps it out, a writer for
\* the writer or the readers before it, and who is at a gate for its holder.
AwaitedBy(c) ==
  {d \in Calls :
     \/ /\ call[c].pc = "parked" \/ (call[c].pc = "entering" /\ call[c].op \in Destructive)
        /\ call[d].pc \in {"pending", "exclusive"}
     \/ call[c].pc = "pending" /\ d \in Readers
     \/ call[c].pc = "waiting" /\ gate[LastLease(c).gate].holder = d}

\* Of any calls there is one that waits for none of them: batches in opposite
\* orders, overlapping operations and writers between them never close a circle.
NobodyWaitsInACircle ==
  \A some \in SUBSET Calls : some # {} => \E c \in some : AwaitedBy(c) \cap some = {}

\* Every call returns: batches that name the same messages in any order,
\* single operations and writers never wait for each other in a circle.
EveryCallReturns == \A c \in Calls : call[c].pc # "idle" ~> call[c].pc = "idle"
=============================================================================
