---------------------------- MODULE ChatSyncProofs ----------------------------
(***************************************************************************)
(* Proofs about ChatSync, for any number of messages, requests and changes *)
(* and any page sizes: what the client shows is what the store holds, or a *)
(* change that it will read says so.                                       *)
(***************************************************************************)
EXTENDS ChatSync, ChatStoreProofs

USE StoreAssumption, SyncAssumption

(***************************************************************************)
(* Types.                                                                  *)
(***************************************************************************)
ReplySet == [gen : Nat, latest : Nat, next : Nat, rows : SUBSET Row]
RequestSet ==
  [kind : Kinds, phase : Phases, stale : BOOLEAN, generation : Nat, subject : Subjects,
   at : Nat, ids : SUBSET Ids, pages : Nat, reply : ReplySet]
ViewSet == [Ids -> [status : Statuses \cup {"none"}, seq : Nat, priority : 0..2,
                    subject : Subjects]]
Types ==
  /\ StoreTypeOK
  /\ feed \in Feed /\ view \in ViewSet /\ net \in [Slots -> RequestSet]
  /\ disturbances \in 0..MaxDisturbances

(***************************************************************************)
(* A cursor is good while no change after it was removed.  A row, with the *)
(* seq it was read at, is what the store holds, or a later change of that  *)
(* message says so.                                                        *)
(***************************************************************************)
GoodCursor(c) == c <= Latest /\ \A s \in (c + 1)..Latest : chg[s] # 0
Changed(i, after) == \E s \in (after + 1)..Latest : chg[s] = i
Valid(i, status, seq) ==
  /\ i \in Present /\ seq <= Latest
  /\ status = msgs[i] \/ Changed(i, seq)

(***************************************************************************)
(* What the client shows, v, with the cursor c.  Seen: the changes of i    *)
(* after a seq and up to the cursor are shown.  Covered: a message from    *)
(* the id b on is shown, or a change of it is ahead.                       *)
(***************************************************************************)
Shown(v, i) == v[i].status # "none"
Seen(v, c, i, after) ==
  \A s \in (after + 1)..c : chg[s] = i => Shown(v, i) /\ s <= v[i].seq
Covered(v, c, b) == \A i \in Present : i >= b /\ ~Shown(v, i) => Changed(i, c)

Faithful(v, c) ==
  \A i \in Ids : Shown(v, i) => Valid(i, v[i].status, v[i].seq) /\ Seen(v, c, i, 0)

(***************************************************************************)
(* The answers under way to a client f that shows v, as far as they count  *)
(* and are of the generation of the store.                                 *)
(***************************************************************************)
RowsValid(r) == \A row \in r.reply.rows : Valid(row.id, row.status, row.seq)

PageComplete(r) ==
  \A i \in Present : i >= r.reply.next /\ (r.at = 0 \/ i < r.at) =>
    (\E row \in r.reply.rows : row.id = i) \/ Changed(i, r.reply.latest)

PageOk(r, f, v) ==
  /\ r.reply.gen # 0 /\ r.reply.gen <= gen
  /\ r.reply.gen = gen =>
       /\ GoodCursor(r.reply.latest) /\ RowsValid(r) /\ PageComplete(r)
       /\ \A row \in r.reply.rows : row.seq = r.reply.latest
       /\ r.generation = gen => \A i \in Ids : Seen(v, f.cursor, i, r.reply.latest)

ChangesOk(r, f) ==
  /\ r.generation # 0 /\ r.at = f.cursor
  /\ r.phase = "answered" =>
       /\ r.reply.next <= r.reply.latest
       /\ r.generation = gen =>
            /\ r.reply.latest <= Latest /\ r.at <= r.reply.next /\ RowsValid(r)
            /\ \A row \in r.reply.rows : row.seq > r.at
            /\ \A s \in (r.at + 1)..r.reply.next :
                 \E row \in r.reply.rows : row.id = chg[s] /\ row.seq = s

MutationOk(r, f, v) ==
  RowsValid(r) /\ \A row \in r.reply.rows : Seen(v, f.cursor, row.id, row.seq)

SlotOk(r, f, v) ==
  /\ r.generation <= gen /\ \A row \in r.reply.rows : row.seq <= Latest
  /\ r.kind \in {"withdraw", "delete"} => \E i \in Ids : r.ids = {i}
  /\ ~r.stale =>
       /\ r.generation # 0 => r.generation = f.generation
       /\ r.kind = "history" => r.at = 0
       /\ r.kind \in {"history", "older"} /\ r.phase = "answered" => PageOk(r, f, v)
       /\ r.kind = "older" /\ r.generation = gen => Covered(v, f.cursor, r.at)
       /\ r.kind = "changes" => ChangesOk(r, f)
       /\ r.kind \in Changing /\ r.phase = "answered" /\ r.generation = gen => MutationOk(r, f, v)

FeedOk(f) ==
  f.generation <= gen /\ f.cursor <= f.latest /\ (f.initialized => f.generation # 0)
ViewOk(f, v) == GoodCursor(f.cursor) /\ Faithful(v, f.cursor) /\ Covered(v, f.cursor, f.before)
OneReader(n) ==
  \A s, t \in Slots : n[s].kind = "changes" /\ n[t].kind = "changes"
                      /\ ~n[s].stale /\ ~n[t].stale => s = t

Sound(f, v, n) ==
  /\ FeedOk(f) /\ OneReader(n)
  /\ f.generation = gen => ViewOk(f, v)
  /\ \A s \in Slots : SlotOk(n[s], f, v)

CInv == Types /\ StoreOk /\ Sound(feed, view, net)

-----------------------------------------------------------------------------
(* What is known of the store stays known while its generation lasts.       *)

LEMMA GrowsKnows ==
  ASSUME StoreTypeOK, Grows
  PROVE  /\ \A i, a : a \in Nat /\ Changed(i, a) => Changed(i, a)'
         /\ \A c : c \in Nat /\ GoodCursor(c) => GoodCursor(c)'
         /\ \A i, t, q : q \in Nat /\ Valid(i, t, q) => Valid(i, t, q)'
<1>1. /\ Latest \in Nat /\ Latest' \in Nat /\ Latest <= Latest' /\ DOMAIN chg = 1..Latest
      /\ \A s \in 1..Latest : chg'[s] = chg[s]
      /\ \A s \in (Latest + 1)..Latest' : chg'[s] # 0
  <2>1. Latest \in Nat /\ DOMAIN chg = 1..Latest
    BY StoreShape
  <2> QED BY <2>1 DEF Grows
<1>2. ASSUME NEW i, NEW a \in Nat, Changed(i, a) PROVE Changed(i, a)'
  <2>1. PICK s \in (a + 1)..Latest : chg[s] = i
    BY <1>2 DEF Changed
  <2>2. s \in 1..Latest /\ s \in (a + 1)..Latest'
    BY <1>1
  <2> QED BY <1>1, <2>1, <2>2 DEF Changed
<1>3. ASSUME NEW c \in Nat, GoodCursor(c) PROVE GoodCursor(c)'
  <2>1. c <= Latest /\ \A s \in (c + 1)..Latest : chg[s] # 0
    BY <1>3 DEF GoodCursor
  <2>2. ASSUME NEW s \in (c + 1)..Latest' PROVE chg'[s] # 0
    <3>1. (s \in (c + 1)..Latest /\ s \in 1..Latest) \/ s \in (Latest + 1)..Latest'
      BY <1>1
    <3> QED BY <1>1, <2>1, <3>1
  <2>3. c <= Latest'
    BY <1>1, <2>1
  <2> QED BY <2>2, <2>3 DEF GoodCursor
<1>4. ASSUME NEW i, NEW t, NEW q \in Nat, Valid(i, t, q) PROVE Valid(i, t, q)'
  <2>1. i \in Present /\ q <= Latest /\ (t = msgs[i] \/ Changed(i, q))
    BY <1>4 DEF Valid
  <2>2. i \in Present' /\ q <= Latest'
    BY <1>1, <2>1 DEF Grows
  <2>3. CASE Changed(i, q)
    BY <1>2, <2>2, <2>3 DEF Valid
  <2>4. CASE t = msgs[i] /\ msgs'[i] = msgs[i]
    BY <2>2, <2>4 DEF Valid
  <2>5. CASE msgs'[i] # msgs[i]
    <3>1. PICK s \in (Latest + 1)..Latest' : chg'[s] = i
      BY <2>2, <2>5 DEF Grows
    <3>2. s \in (q + 1)..Latest'
      BY <1>1, <2>1
    <3>3. Changed(i, q)'
      BY <3>1, <3>2 DEF Changed
    <3> QED BY <2>2, <3>3 DEF Valid
  <2> QED BY <2>1, <2>3, <2>4, <2>5
<1> QED BY <1>2, <1>3, <1>4

\* Up to the cursor the log is as it was; a new message has a change ahead of it.
LEMMA GrowsCovers ==
  ASSUME StoreTypeOK, Grows, NEW v, NEW c \in Nat, GoodCursor(c)
  PROVE  /\ \A i, a : a \in Nat /\ Seen(v, c, i, a) => Seen(v, c, i, a)'
         /\ \A b : Covered(v, c, b) => Covered(v, c, b)'
<1>1. /\ Latest \in Nat /\ Latest' \in Nat /\ Latest <= Latest' /\ c <= Latest
      /\ \A s \in 1..Latest : chg'[s] = chg[s]
  <2>1. Latest \in Nat /\ DOMAIN chg = 1..Latest
    BY StoreShape
  <2> QED BY <2>1 DEF Grows, GoodCursor
<1>2. ASSUME NEW i, NEW a \in Nat, Seen(v, c, i, a) PROVE Seen(v, c, i, a)'
  <2>1. \A s \in (a + 1)..c : chg'[s] = chg[s]
    BY <1>1
  <2> QED BY <1>2, <2>1 DEF Seen, Shown
<1>3. ASSUME NEW b, Covered(v, c, b) PROVE Covered(v, c, b)'
  <2> SUFFICES ASSUME NEW i \in Present', i >= b, v[i].status = "none"
               PROVE  Changed(i, c)'
    BY DEF Covered, Shown
  <2>1. CASE i \in Present
    <3>1. Changed(i, c)
      BY <1>3, <2>1 DEF Covered, Shown
    <3> QED BY <3>1, GrowsKnows
  <2>2. CASE i \notin Present
    <3>1. PICK s \in (Latest + 1)..Latest' : chg'[s] = i
      BY <2>2 DEF Grows
    <3>2. s \in (c + 1)..Latest'
      BY <1>1
    <3> QED BY <3>1, <3>2 DEF Changed
  <2> QED BY <2>1, <2>2
<1> QED BY <1>2, <1>3

LEMMA GrowsReply ==
  ASSUME StoreTypeOK, Grows, NEW f \in Feed, NEW v \in ViewSet, NEW r \in RequestSet,
         r.generation = gen => GoodCursor(f.cursor)
  PROVE  /\ RowsValid(r) => RowsValid(r)'
         /\ PageOk(r, f, v) => PageOk(r, f, v)'
         /\ ChangesOk(r, f) => ChangesOk(r, f)'
         /\ r.generation = gen /\ MutationOk(r, f, v) => MutationOk(r, f, v)'
<1>1. /\ r.reply \in ReplySet /\ f.cursor \in Nat /\ r.at \in Nat /\ r.reply.latest \in Nat
      /\ r.reply.next \in Nat /\ \A row \in r.reply.rows : row.seq \in Nat
  BY DEF RequestSet, ReplySet, Feed, Row
<1>2. /\ gen' = gen /\ Latest \in Nat /\ Latest' \in Nat /\ Latest <= Latest'
      /\ DOMAIN chg = 1..Latest /\ \A k \in 1..Latest : chg'[k] = chg[k]
  BY StoreShape DEF Grows
<1>3. ASSUME RowsValid(r) PROVE RowsValid(r)'
  BY <1>1, <1>3, GrowsKnows DEF RowsValid
<1>4. ASSUME r.generation = gen
      PROVE  \A i, a : a \in Nat /\ Seen(v, f.cursor, i, a) => Seen(v, f.cursor, i, a)'
  BY <1>1, <1>4, GrowsCovers
<1>5. ASSUME PageOk(r, f, v) PROVE PageOk(r, f, v)'
  <2>1. r.reply.gen # 0 /\ r.reply.gen <= gen'
    BY <1>2, <1>5 DEF PageOk
  <2> SUFFICES ASSUME r.reply.gen = gen
               PROVE  /\ GoodCursor(r.reply.latest)' /\ RowsValid(r)' /\ PageComplete(r)'
                      /\ \A row \in r.reply.rows : row.seq = r.reply.latest
                      /\ r.generation = gen =>
                           \A i \in Ids : Seen(v, f.cursor, i, r.reply.latest)'
    BY <1>2, <2>1 DEF PageOk
  <2>2. /\ GoodCursor(r.reply.latest) /\ RowsValid(r) /\ PageComplete(r)
        /\ \A row \in r.reply.rows : row.seq = r.reply.latest
        /\ r.generation = gen => \A i \in Ids : Seen(v, f.cursor, i, r.reply.latest)
    BY <1>5 DEF PageOk
  <2>3. GoodCursor(r.reply.latest)' /\ RowsValid(r)'
    BY <1>1, <1>3, <2>2, GrowsKnows
  <2>4. PageComplete(r)'
    <3> SUFFICES ASSUME NEW i \in Present', i >= r.reply.next, r.at = 0 \/ i < r.at
                 PROVE  (\E row \in r.reply.rows : row.id = i) \/ Changed(i, r.reply.latest)'
      BY DEF PageComplete
    <3>1. CASE i \in Present
      <4>1. (\E row \in r.reply.rows : row.id = i) \/ Changed(i, r.reply.latest)
        BY <2>2, <3>1 DEF PageComplete
      <4> QED BY <1>1, <4>1, GrowsKnows
    <3>2. CASE i \notin Present
      <4>1. PICK s \in (Latest + 1)..Latest' : chg'[s] = i
        BY <3>2 DEF Grows
      <4>2. s \in (r.reply.latest + 1)..Latest'
        BY <1>1, <1>2, <2>2 DEF GoodCursor
      <4> QED BY <4>1, <4>2 DEF Changed
    <3> QED BY <3>1, <3>2
  <2>5. r.generation = gen => \A i \in Ids : Seen(v, f.cursor, i, r.reply.latest)'
    BY <1>1, <1>4, <2>2
  <2> QED BY <2>2, <2>3, <2>4, <2>5
<1>6. ASSUME ChangesOk(r, f) PROVE ChangesOk(r, f)'
  <2> SUFFICES ASSUME r.phase = "answered", r.generation = gen
               PROVE  /\ r.reply.latest <= Latest' /\ RowsValid(r)'
                      /\ \A s \in (r.at + 1)..r.reply.next :
                           \E row \in r.reply.rows : row.id = chg'[s] /\ row.seq = s
    BY <1>2, <1>6 DEF ChangesOk
  <2>1. /\ r.reply.latest <= Latest /\ RowsValid(r) /\ r.reply.next <= r.reply.latest
        /\ \A s \in (r.at + 1)..r.reply.next :
             \E row \in r.reply.rows : row.id = chg[s] /\ row.seq = s
    BY <1>6 DEF ChangesOk
  <2>2. \A s \in (r.at + 1)..r.reply.next : chg'[s] = chg[s]
    BY <1>1, <1>2, <2>1
  <2>3. r.reply.latest <= Latest'
    BY <1>1, <1>2, <2>1
  <2> QED BY <1>3, <2>1, <2>2, <2>3
<1>7. ASSUME r.generation = gen, MutationOk(r, f, v) PROVE MutationOk(r, f, v)'
  BY <1>1, <1>3, <1>4, <1>7 DEF MutationOk
<1> QED BY <1>3, <1>5, <1>6, <1>7

LEMMA GrowsSlot ==
  ASSUME StoreTypeOK, Grows, NEW f \in Feed, NEW v \in ViewSet, NEW r \in RequestSet,
         f.generation = gen => GoodCursor(f.cursor), SlotOk(r, f, v)
  PROVE  SlotOk(r, f, v)'
<1>1. /\ gen' = gen /\ gen # 0 /\ Latest \in Nat /\ Latest' \in Nat /\ Latest <= Latest'
      /\ f.cursor \in Nat /\ \A row \in r.reply.rows : row.seq \in Nat
  BY StoreShape DEF Grows, StoreTypeOK, RequestSet, ReplySet, Feed, Row
<1>2. /\ r.generation <= gen' /\ \A row \in r.reply.rows : row.seq <= Latest'
      /\ r.kind \in {"withdraw", "delete"} => \E i \in Ids : r.ids = {i}
  BY <1>1 DEF SlotOk
<1>3. CASE r.stale
  BY <1>2, <1>3 DEF SlotOk
<1>4. CASE ~r.stale
  <2>1. /\ r.generation # 0 => r.generation = f.generation
        /\ r.kind = "history" => r.at = 0
        /\ r.kind \in {"history", "older"} /\ r.phase = "answered" => PageOk(r, f, v)
        /\ r.kind = "older" /\ r.generation = gen => Covered(v, f.cursor, r.at)
        /\ r.kind = "changes" => ChangesOk(r, f)
        /\ r.kind \in Changing /\ r.phase = "answered" /\ r.generation = gen =>
             MutationOk(r, f, v)
    BY <1>4 DEF SlotOk
  <2>2. r.generation = gen => GoodCursor(f.cursor)
    BY <1>1, <2>1
  <2>3. r.generation = gen /\ Covered(v, f.cursor, r.at) => Covered(v, f.cursor, r.at)'
    BY <1>1, <2>2, GrowsCovers
  <2>4. /\ PageOk(r, f, v) => PageOk(r, f, v)'
        /\ ChangesOk(r, f) => ChangesOk(r, f)'
        /\ r.generation = gen /\ MutationOk(r, f, v) => MutationOk(r, f, v)'
    BY <2>2, GrowsReply
  <2> QED BY <1>1, <1>2, <2>1, <2>3, <2>4 DEF SlotOk
<1> QED BY <1>3, <1>4

LEMMA GrowsView ==
  ASSUME StoreTypeOK, Grows, NEW f \in Feed, NEW v \in ViewSet
  PROVE  (f.generation = gen => ViewOk(f, v)) => (f.generation = gen => ViewOk(f, v))'
<1>1. f.cursor \in Nat /\ \A i \in Ids : v[i].seq \in Nat
  BY DEF Feed, ViewSet
<1> SUFFICES ASSUME f.generation = gen, ViewOk(f, v) PROVE ViewOk(f, v)'
  BY DEF Grows
<1>2. GoodCursor(f.cursor) /\ Faithful(v, f.cursor) /\ Covered(v, f.cursor, f.before)
  BY DEF ViewOk
<1>3. GoodCursor(f.cursor)' /\ Covered(v, f.cursor, f.before)'
  BY <1>1, <1>2, GrowsKnows, GrowsCovers
<1>4. Faithful(v, f.cursor)'
  <2>1. \A i \in Ids : Shown(v, i) => /\ Valid(i, v[i].status, v[i].seq)'
                                      /\ Seen(v, f.cursor, i, 0)'
    BY <1>1, <1>2, GrowsKnows, GrowsCovers DEF Faithful
  <2> QED BY <2>1 DEF Faithful, Shown
<1> QED BY <1>3, <1>4 DEF ViewOk

LEMMA GrowsSound ==
  ASSUME StoreTypeOK, Grows, NEW f \in Feed, NEW v \in ViewSet,
         NEW n \in [Slots -> RequestSet], Sound(f, v, n)
  PROVE  Sound(f, v, n)'
<1>1. gen' = gen /\ FeedOk(f)' /\ OneReader(n)'
  BY DEF Sound, Grows, FeedOk, OneReader
<1>2. (f.generation = gen => ViewOk(f, v))'
  BY GrowsView DEF Sound
<1>3. ASSUME NEW s \in Slots PROVE SlotOk(n[s], f, v)'
  BY GrowsSlot DEF Sound, ViewOk
<1> QED BY <1>1, <1>2, <1>3 DEF Sound

\* With a new generation nothing that is known counts any more.
LEMMA RemovesSound ==
  ASSUME StoreTypeOK, gen' \in Nat, Removes, NEW f \in Feed, NEW v \in ViewSet,
         NEW n \in [Slots -> RequestSet], Sound(f, v, n)
  PROVE  Sound(f, v, n)'
<1>1. gen \in Nat /\ gen < gen' /\ Latest' = Latest /\ f.generation \in Nat
  BY DEF StoreTypeOK, Removes, Feed
<1>2. f.generation < gen' /\ FeedOk(f)' /\ OneReader(n)'
  BY <1>1 DEF Sound, FeedOk, OneReader
<1>3. ASSUME NEW s \in Slots PROVE SlotOk(n[s], f, v)'
  <2> DEFINE r == n[s]
  <2>1. r \in RequestSet /\ r.generation \in Nat /\ r.reply.gen \in Nat /\ SlotOk(r, f, v)
    BY DEF RequestSet, ReplySet, Sound
  <2> HIDE DEF r
  <2>2. /\ r.generation < gen' /\ \A row \in r.reply.rows : row.seq <= Latest'
    BY <1>1, <2>1 DEF SlotOk
  <2>3. PageOk(r, f, v) => PageOk(r, f, v)'
    BY <1>1, <2>1 DEF PageOk
  <2>4. ChangesOk(r, f) => ChangesOk(r, f)'
    BY <2>1, <2>2 DEF ChangesOk
  <2>5. SlotOk(r, f, v)'
    BY <1>1, <2>1, <2>2, <2>3, <2>4 DEF SlotOk
  <2> QED BY <2>5 DEF r
<1> QED BY <1>1, <1>2, <1>3 DEF Sound

-----------------------------------------------------------------------------
(* The pages.                                                               *)

LEMMA HistoryPage ==
  ASSUME StoreTypeOK, NEW at \in Nat
  PROVE  LET p == ChatMessagesPage(at, HistoryLimit) IN
         /\ p \in ReplySet /\ p.gen = gen /\ p.latest = Latest
         /\ \A row \in p.rows : row.seq = Latest /\ Valid(row.id, row.status, row.seq)
         /\ \A i \in Present : i >= p.next /\ (at = 0 \/ i < at) =>
              \E row \in p.rows : row.id = i
<1> DEFINE p == ChatMessagesPage(at, HistoryLimit)
           all == {i \in Present : at = 0 \/ i < at}
           page == Newest(all, HistoryLimit)
<1>1. /\ Present \subseteq Ids /\ Ids \subseteq Nat /\ IsFiniteSet(Present) /\ Latest \in Nat
      /\ gen \in Nat /\ \A i \in Present : msgs[i] \in Statuses
  BY StoreShape DEF StoreTypeOK, Present
<1>2. all \in SUBSET Nat /\ IsFiniteSet(all) /\ all \subseteq Present
  BY <1>1, FS_Subset
<1>3. HistoryLimit \in Nat \ {0}
  BY DEF SyncAssumption
<1> HIDE DEF all
<1>4. /\ page \subseteq all /\ (all # {} => page # {})
      /\ \A i \in all, j \in page : i >= j => i \in page
  BY <1>2, <1>3, NewestPage
<1>5. /\ p.gen = gen /\ p.latest = Latest
      /\ p.next = IF page = all THEN 0 ELSE Min(page)
      /\ p.rows = {[id |-> i, status |-> msgs[i], seq |-> Latest] : i \in page}
      /\ p = [gen |-> p.gen, latest |-> p.latest, next |-> p.next, rows |-> p.rows]
  BY DEF ChatMessagesPage, all
<1> HIDE DEF p, page
<1>6. page # all => Min(page) \in page /\ \A y \in page : Min(page) <= y
  <2> SUFFICES ASSUME page # all PROVE Min(page) \in page /\ \A y \in page : Min(page) <= y
    OBVIOUS
  <2>1. page \in SUBSET Nat /\ page # {}
    BY <1>2, <1>4
  <2> QED BY <2>1, MinOf
<1>7. p.next \in Nat
  BY <1>2, <1>4, <1>5, <1>6
<1>8. p.rows \subseteq Row
  BY <1>1, <1>2, <1>4, <1>5 DEF Row
<1>9. p \in ReplySet
  BY <1>1, <1>5, <1>7, <1>8 DEF ReplySet
<1>10. \A row \in p.rows : row.seq = Latest /\ Valid(row.id, row.status, row.seq)
  BY <1>1, <1>2, <1>4, <1>5 DEF Valid
<1>11. ASSUME NEW i \in Present, i >= p.next, at = 0 \/ i < at
       PROVE  \E row \in p.rows : row.id = i
  <2>1. i \in all
    BY <1>11 DEF all
  <2>2. i \in page
    BY <1>4, <1>5, <1>6, <1>11, <2>1
  <2>3. [id |-> i, status |-> msgs[i], seq |-> Latest] \in p.rows
    BY <1>5, <2>2
  <2> QED BY <2>3
<1> QED BY <1>5, <1>9, <1>10, <1>11 DEF p

LEMMA ChangesPage ==
  ASSUME StoreTypeOK, StoreOk, NEW at \in Nat, NEW g,
         ~CursorResetRequired(at, g, ChangesLimit)
  PROVE  LET p == ChatChangesPage(at, ChangesLimit) IN
         /\ g = gen /\ p \in ReplySet /\ p.latest = Latest /\ at <= p.next /\ p.next <= Latest
         /\ \A row \in p.rows : row.seq > at /\ Valid(row.id, row.status, row.seq)
         /\ \A s \in (at + 1)..p.next : \E row \in p.rows : row.id = chg[s] /\ row.seq = s
<1> DEFINE p == ChatChangesPage(at, ChangesLimit)
           next == IF at + ChangesLimit < Latest THEN at + ChangesLimit ELSE Latest
<1>1. /\ Latest \in Nat /\ DOMAIN chg = 1..Latest /\ gen \in Nat /\ Ids \subseteq Nat
      /\ Present \subseteq Ids /\ \A i \in Present : msgs[i] \in Statuses
  BY StoreShape DEF StoreTypeOK, Present
<1>2. g = gen /\ at <= Latest /\ ChangesLimit \in Nat \ {0}
  BY <1>1 DEF CursorResetRequired, SyncAssumption
<1>3. ChangesExact(at, g, ChangesLimit)
  BY <1>1, <1>2, ChangesAreExact
<1>4. p = [gen |-> gen, latest |-> Latest, next |-> p.next, rows |-> p.rows]
  BY DEF ChatChangesPage
<1>5. /\ p.next = next
      /\ p.rows = {[id |-> chg[s], status |-> msgs[chg[s]], seq |-> s] : s \in (at + 1)..next}
      /\ \A s \in (at + 1)..Latest : s <= at + ChangesLimit + 1 => chg[s] # 0
  BY <1>3 DEF ChangesExact
<1>6. next \in Nat /\ at <= next /\ next <= Latest /\ next <= at + ChangesLimit
  BY <1>1, <1>2
<1> HIDE DEF p, next
<1>7. ASSUME NEW s \in (at + 1)..next
      PROVE  s \in Nat /\ s > at /\ s \in 1..Latest /\ chg[s] \in Present
  <2>1. s \in Nat /\ s > at /\ s \in (at + 1)..Latest /\ s \in 1..Latest /\ s <= at + ChangesLimit + 1
    BY <1>1, <1>2, <1>6
  <2>2. chg[s] # 0
    BY <1>5, <2>1
  <2> QED BY <1>1, <2>1, <2>2 DEF StoreOk
<1>8. p.rows \subseteq Row
  <2>1. \A s \in (at + 1)..next : s \in Nat /\ chg[s] \in Ids /\ msgs[chg[s]] \in Statuses
    BY <1>1, <1>7, Zenon
  <2> QED BY <1>5, <2>1 DEF Row
<1>9. p \in ReplySet /\ p.latest = Latest
  BY <1>1, <1>4, <1>5, <1>6, <1>8 DEF ReplySet
<1>10. \A row \in p.rows : row.seq > at /\ Valid(row.id, row.status, row.seq)
  BY <1>1, <1>5, <1>7 DEF Valid
<1>11. ASSUME NEW s \in (at + 1)..next PROVE \E row \in p.rows : row.id = chg[s] /\ row.seq = s
  <2>1. [id |-> chg[s], status |-> msgs[chg[s]], seq |-> s] \in p.rows
    BY <1>5, <1>11
  <2> QED BY <2>1
<1> QED BY <1>2, <1>5, <1>6, <1>9, <1>10, <1>11 DEF p

-----------------------------------------------------------------------------
(* What rows do to what is shown.                                           *)

\* A message shows the newest of its rows and what it showed before.
Takes(v, w, rows, u) ==
  \A i \in Ids :
    \/ w[i] = v[i] /\ \A row \in rows : row.id = i => Shown(v, i) /\ row.seq <= v[i].seq
    \/ \E row \in rows :
         /\ row.id = i /\ w[i].status = row.status /\ w[i].seq = row.seq
         /\ w[i].subject = u /\ (Shown(v, i) => v[i].seq <= row.seq)
         /\ \A x \in rows : x.id = i => x.seq <= row.seq

LEMMA AppliedRows ==
  ASSUME NEW v \in ViewSet, NEW rows \in SUBSET Row, NEW p \in 0..2, NEW u \in Subjects,
         NEW n \in Nat, \A row \in rows : row.seq <= n, NEW w, w = Applied(v, rows, p, u)
  PROVE  w \in ViewSet /\ Takes(v, w, rows, u)
<1> DEFINE seqs(i) == {r.seq : r \in {x \in rows : x.id = i}}
           row(i) == CHOOSE x \in rows : x.id = i /\ x.seq = Max(seqs(i))
           new(i) == [status |-> row(i).status, seq |-> row(i).seq, priority |-> p,
                      subject |-> u]
<1>1. w = [i \in Ids |-> IF seqs(i) = {} \/ ~Newer(v[i], Max(seqs(i)), p) THEN v[i] ELSE new(i)]
  BY DEF Applied
<1>2. ASSUME NEW i \in Ids, seqs(i) # {}
      PROVE  /\ Max(seqs(i)) \in Nat /\ \A x \in rows : x.id = i => x.seq <= Max(seqs(i))
             /\ row(i) \in rows /\ row(i).id = i /\ row(i).seq = Max(seqs(i))
  <2>1. /\ seqs(i) \in SUBSET Nat /\ \A y \in seqs(i) : y <= n
        /\ \A x \in rows : x.id = i => x.seq \in seqs(i)
        /\ \A y \in seqs(i) : \E x \in rows : x.id = i /\ x.seq = y
    BY DEF Row
  <2> HIDE DEF seqs
  <2>2. Max(seqs(i)) \in seqs(i) /\ \A y \in seqs(i) : Max(seqs(i)) >= y
    BY <1>2, <2>1, MaxOf
  <2>3. \E x \in rows : x.id = i /\ x.seq = Max(seqs(i))
    BY <2>1, <2>2
  <2> QED BY <2>1, <2>2, <2>3
<1>3. ASSUME NEW i \in Ids, seqs(i) = {} PROVE \A x \in rows : x.id # i
  BY <1>3
<1> HIDE DEF row, seqs
<1>4. ASSUME NEW i \in Ids
      PROVE  /\ v[i].status \in Statuses \cup {"none"} /\ v[i].seq \in Nat
             /\ v[i].priority \in 0..2
  BY DEF ViewSet
<1>5. ASSUME NEW i \in Ids, seqs(i) # {}
      PROVE  new(i) \in [status : Statuses, seq : Nat, priority : 0..2, subject : Subjects]
  BY <1>2, <1>5 DEF Row
<1>6. w \in ViewSet
  BY <1>1, <1>5 DEF ViewSet
<1>7. ASSUME NEW i \in Ids
      PROVE  \/ w[i] = v[i] /\ \A x \in rows : x.id = i => Shown(v, i) /\ x.seq <= v[i].seq
             \/ \E x \in rows :
                  /\ x.id = i /\ w[i].status = x.status /\ w[i].seq = x.seq
                  /\ w[i].subject = u /\ (Shown(v, i) => v[i].seq <= x.seq)
                  /\ \A y \in rows : y.id = i => y.seq <= x.seq
  <2>1. CASE seqs(i) = {}
    BY <1>1, <1>3, <2>1
  <2>2. CASE seqs(i) # {} /\ ~Newer(v[i], Max(seqs(i)), p)
    <3>1. w[i] = v[i]
      BY <1>1, <2>2
    <3>2. Shown(v, i) /\ Max(seqs(i)) <= v[i].seq
      BY <1>2, <1>4, <2>2 DEF Newer, Shown
    <3>3. \A x \in rows : x.id = i => x.seq <= v[i].seq
      BY <1>2, <1>4, <2>2, <3>2 DEF Row
    <3> QED BY <3>1, <3>2, <3>3
  <2>3. CASE seqs(i) # {} /\ Newer(v[i], Max(seqs(i)), p)
    <3>1. w[i] = new(i)
      BY <1>1, <2>3
    <3>2. Shown(v, i) => v[i].seq <= Max(seqs(i))
      BY <1>2, <1>4, <2>3 DEF Newer, Shown
    <3> QED BY <1>2, <2>3, <3>1, <3>2
  <2> QED BY <2>1, <2>2, <2>3
<1> QED BY <1>6, <1>7 DEF Takes

\* All rows are shown, whoever else is, and who it is for.
Shows(v, w, rows, u) ==
  /\ \A row \in rows : Shown(w, row.id)
  /\ \A i \in Ids : Shown(v, i) => Shown(w, i)
  /\ \A i \in Ids : Shown(w, i) =>
       w[i].subject = u \/ (Shown(v, i) /\ w[i].subject = v[i].subject)

\* The rows are those of the changes from c to d, or more.
Logged(c, d, rows) == \A s \in (c + 1)..d : \E row \in rows : row.id = chg[s] /\ row.seq = s

\* What is shown up to the cursor c stays shown up to d.
Carries(v, c, w, d, rows) ==
  /\ \A i \in Ids, a \in Nat : Seen(v, c, i, a) => Seen(w, d, i, a)
  /\ \A b : Covered(v, c, b) => Covered(w, d, b)
  /\ Faithful(v, c)
     /\ (\A row \in rows : Valid(row.id, row.status, row.seq) /\ Seen(v, c, row.id, row.seq))
     => Faithful(w, d)

\* A client that shows v up to the cursor c shows the rows too.  Of a message
\* that has changed since a row was read it shows a later row already.  If the
\* rows are those of the changes from c to d, the cursor may go on to d.
LEMMA AppliedSound ==
  ASSUME StoreTypeOK, NEW v \in ViewSet, NEW rows \in SUBSET Row, NEW p \in 0..2,
         NEW u \in Subjects, NEW c \in Nat, NEW d \in Nat, c <= d,
         \A row \in rows : row.seq <= Latest, NEW w, w = Applied(v, rows, p, u)
  PROVE  /\ w \in ViewSet /\ Shows(v, w, rows, u)
         /\ Logged(c, d, rows) => Carries(v, c, w, d, rows)
<1>1. /\ Latest \in Nat /\ Present \subseteq Ids
      /\ \A row \in rows : row.id \in Ids /\ row.status \in Statuses /\ row.seq \in Nat
  BY StoreShape DEF Row
<1>2. w \in ViewSet /\ Takes(v, w, rows, u)
  <2>1. Latest \in Nat
    BY <1>1
  <2> QED BY <2>1, AppliedRows
<1>3. \A i \in Ids : v[i].seq \in Nat /\ w[i].seq \in Nat
  BY <1>2 DEF ViewSet
<1>4. ASSUME NEW i \in Ids, Shown(v, i) PROVE Shown(w, i) /\ v[i].seq <= w[i].seq
  <2>1. \A row \in rows : row.status # "none"
    BY <1>1 DEF Statuses
  <2> QED BY <1>2, <1>3, <1>4, <2>1 DEF Shown, Takes
<1>5. ASSUME NEW row \in rows PROVE Shown(w, row.id) /\ row.seq <= w[row.id].seq
  <2>1. \A x \in rows : x.status # "none"
    BY <1>1 DEF Statuses
  <2> QED BY <1>1, <1>2, <1>3, <2>1 DEF Shown, Takes
<1>6. ASSUME NEW i \in Ids, Shown(w, i)
      PROVE  w[i].subject = u \/ (Shown(v, i) /\ w[i].subject = v[i].subject)
  BY <1>2, <1>6 DEF Shown, Takes
<1>7. ASSUME Logged(c, d, rows) PROVE Carries(v, c, w, d, rows)
  <2>1. ASSUME NEW s \in (c + 1)..d PROVE Shown(w, chg[s]) /\ s <= w[chg[s]].seq
    BY <1>5, <1>7, <2>1 DEF Logged
  <2>2. ASSUME NEW i \in Ids, NEW a \in Nat, Seen(v, c, i, a) PROVE Seen(w, d, i, a)
    <3> SUFFICES ASSUME NEW s \in (a + 1)..d, chg[s] = i PROVE Shown(w, i) /\ s <= w[i].seq
      BY DEF Seen
    <3>1. CASE s <= c
      <4>1. Shown(v, i) /\ s <= v[i].seq
        BY <2>2, <3>1 DEF Seen
      <4> QED BY <1>3, <1>4, <4>1
    <3>2. CASE ~(s <= c)
      <4>1. s \in (c + 1)..d
        BY <3>2
      <4> QED BY <2>1, <4>1
    <3> QED BY <3>1, <3>2
  <2>3. ASSUME NEW b, Covered(v, c, b) PROVE Covered(w, d, b)
    <3> SUFFICES ASSUME NEW i \in Present, i >= b, ~Shown(w, i) PROVE Changed(i, d)
      BY DEF Covered
    <3>1. ~Shown(v, i)
      BY <1>1, <1>4
    <3>2. PICK s \in (c + 1)..Latest : chg[s] = i
      BY <2>3, <3>1 DEF Covered, Changed
    <3>3. s \notin (c + 1)..d
      BY <2>1, <3>2
    <3>4. s \in (d + 1)..Latest
      BY <1>1, <3>2, <3>3
    <3> QED BY <3>2, <3>4 DEF Changed
  <2>4. ASSUME Faithful(v, c),
               \A row \in rows : Valid(row.id, row.status, row.seq) /\ Seen(v, c, row.id, row.seq)
        PROVE  Faithful(w, d)
    <3> SUFFICES ASSUME NEW i \in Ids, Shown(w, i)
                 PROVE  Valid(i, w[i].status, w[i].seq) /\ Seen(w, d, i, 0)
      BY DEF Faithful
    <3>1. CASE w[i] = v[i]
      <4>1. Valid(i, v[i].status, v[i].seq) /\ Seen(v, c, i, 0)
        BY <2>4, <3>1 DEF Faithful, Shown
      <4> QED BY <2>2, <3>1, <4>1
    <3>2. CASE w[i] # v[i]
      <4>1. PICK row \in rows : /\ row.id = i /\ w[i].status = row.status /\ w[i].seq = row.seq
                                /\ Shown(v, i) => v[i].seq <= row.seq
        BY <1>2, <3>2 DEF Takes
      <4>2. Valid(i, w[i].status, w[i].seq)
        BY <2>4, <4>1
      <4>3. ASSUME NEW s \in 1..d, chg[s] = i PROVE s <= w[i].seq
        <5>1. CASE s \in (c + 1)..d
          BY <2>1, <4>3, <5>1
        <5>2. CASE s <= row.seq
          BY <4>1, <5>2
        <5>3. CASE s \notin (c + 1)..d /\ ~(s <= row.seq)
          <6>1. row.seq \in Nat /\ s \in (row.seq + 1)..c
            BY <1>1, <5>3
          <6>2. Shown(v, i) /\ s <= v[i].seq
            BY <2>4, <4>1, <4>3, <6>1 DEF Seen
          <6>3. v[i].seq <= row.seq /\ v[i].seq \in Nat
            BY <1>3, <4>1, <6>2
          <6> QED BY <5>3, <6>1, <6>2, <6>3
        <5> QED BY <5>1, <5>2, <5>3
      <4> QED BY <4>2, <4>3 DEF Seen
    <3> QED BY <3>1, <3>2
  <2> QED BY <2>2, <2>3, <2>4 DEF Carries
<1>8. Shows(v, w, rows, u)
  BY <1>4, <1>5, <1>6 DEF Shows
<1> QED BY <1>2, <1>7, <1>8

-----------------------------------------------------------------------------
(* A step of the client, from f, v and n to g, w and m.                     *)

\* What an answer under way relies on is still there.
Goes(r, f, v, g, w) ==
  ~r.stale =>
    /\ r.generation # 0 => g.generation = f.generation
    /\ r.kind = "changes" => g.cursor = f.cursor
    /\ f.generation = gen /\ r.generation = gen =>
         /\ \A i \in Ids, a \in Nat : Seen(v, f.cursor, i, a) => Seen(w, g.cursor, i, a)
         /\ \A b : Covered(v, f.cursor, b) => Covered(w, g.cursor, b)

\* A request ends, is left behind, or stays.
Leaves(p, q) ==
  \/ q = NoRequest
  \/ q.stale /\ q.generation = p.generation /\ q.reply = p.reply /\ q.kind = p.kind /\ q.ids = p.ids

Brings(m, s, g, w) ==
  /\ SlotOk(m[s], g, w)
  /\ m[s].kind = "changes" /\ ~m[s].stale =>
       \A t \in Slots \ {s} : m[t].kind = "changes" => m[t].stale

LEMMA SlotGoes ==
  ASSUME StoreTypeOK, NEW r \in RequestSet, NEW f \in Feed, NEW g \in Feed, NEW v, NEW w,
         SlotOk(r, f, v), Goes(r, f, v, g, w)
  PROVE  SlotOk(r, g, w)
<1>1. CASE r.stale
  BY <1>1 DEF SlotOk
<1>2. CASE ~r.stale
  <2>1. /\ r.generation # 0 => r.generation = f.generation /\ g.generation = f.generation
        /\ r.kind = "changes" => g.cursor = f.cursor
        /\ r.generation = gen =>
             /\ \A i \in Ids, a \in Nat : Seen(v, f.cursor, i, a) => Seen(w, g.cursor, i, a)
             /\ \A b : Covered(v, f.cursor, b) => Covered(w, g.cursor, b)
    BY <1>2 DEF SlotOk, Goes, StoreTypeOK
  <2>2. /\ r.reply.latest \in Nat
        /\ \A row \in r.reply.rows : row.id \in Ids /\ row.seq \in Nat
    BY DEF RequestSet, ReplySet, Row
  <2>3. PageOk(r, f, v) => PageOk(r, g, w)
    BY <2>1, <2>2 DEF PageOk
  <2>4. r.kind = "changes" /\ ChangesOk(r, f) => ChangesOk(r, g)
    BY <2>1 DEF ChangesOk
  <2>5. r.generation = gen /\ MutationOk(r, f, v) => MutationOk(r, g, w)
    BY <2>1, <2>2 DEF MutationOk
  <2> QED BY <1>2, <2>1, <2>3, <2>4, <2>5 DEF SlotOk
<1> QED BY <1>1, <1>2

LEMMA LeavesOk ==
  ASSUME StoreTypeOK, NEW p \in RequestSet, NEW q, NEW f, NEW v, NEW g, NEW w,
         SlotOk(p, f, v), Leaves(p, q)
  PROVE  SlotOk(q, g, w) /\ (q.kind = "changes" => q.stale)
<1>1. CASE q = NoRequest
  BY <1>1 DEF NoRequest, NoReply, SlotOk, StoreTypeOK, Changing
<1>2. CASE q # NoRequest
  BY <1>2 DEF Leaves, SlotOk
<1> QED BY <1>1, <1>2

LEMMA StepSound ==
  ASSUME StoreTypeOK, NEW f \in Feed, NEW v, NEW n \in [Slots -> RequestSet],
         NEW g \in Feed, NEW w, NEW m, Sound(f, v, n),
         FeedOk(g), g.generation = gen => ViewOk(g, w),
         \A s \in Slots : \/ Leaves(n[s], m[s])
                          \/ m[s] = n[s] /\ Goes(n[s], f, v, g, w)
                          \/ Brings(m, s, g, w)
  PROVE  Sound(g, w, m)
<1>1. ASSUME NEW s \in Slots PROVE SlotOk(m[s], g, w)
  <2>1. n[s] \in RequestSet /\ SlotOk(n[s], f, v)
    BY DEF Sound
  <2> QED BY <2>1, SlotGoes, LeavesOk DEF Brings
<1>2. ASSUME NEW s \in Slots, m[s].kind = "changes", ~m[s].stale
      PROVE  m[s] = n[s] \/ \A t \in Slots \ {s} : m[t].kind = "changes" => m[t].stale
  <2>1. n[s] \in RequestSet /\ SlotOk(n[s], f, v)
    BY DEF Sound
  <2>2. ~Leaves(n[s], m[s])
    BY <1>2, <2>1, LeavesOk
  <2> QED BY <1>2, <2>2 DEF Brings
<1>3. OneReader(m)
  <2>1. OneReader(n)
    BY DEF Sound
  <2> SUFFICES ASSUME NEW s \in Slots, NEW t \in Slots, m[s].kind = "changes", ~m[s].stale,
                      m[t].kind = "changes", ~m[t].stale, s # t
               PROVE  FALSE
    BY DEF OneReader
  <2>2. m[s] = n[s] /\ m[t] = n[t]
    BY <1>2
  <2> QED BY <2>1, <2>2 DEF OneReader
<1> QED BY <1>1, <1>3 DEF Sound

\* A request as it is sent.
LEMMA SentOk ==
  ASSUME StoreTypeOK, NEW f \in Feed, NEW v, FeedOk(f), NEW r \in RequestSet,
         r.generation = f.generation, r.phase = "sent", r.reply = NoReply,
         r.kind = "history" => r.at = 0,
         r.kind = "older" /\ f.generation = gen => Covered(v, f.cursor, r.at),
         r.kind = "changes" => f.generation # 0 /\ r.at = f.cursor,
         r.kind \in {"withdraw", "delete"} => \E i \in Ids : r.ids = {i}
  PROVE  SlotOk(r, f, v)
BY DEF SlotOk, FeedOk, NoReply, ChangesOk

LEMMA RequestType ==
  ASSUME NEW f \in Feed, NEW kind \in Kinds, NEW at \in Nat, NEW pages \in Nat
  PROVE  LET r == Request(f, kind, at, pages) IN
         /\ r \in RequestSet /\ r.kind = kind /\ r.phase = "sent" /\ ~r.stale /\ r.at = at
         /\ r.generation = f.generation /\ r.subject = f.subject /\ r.reply = NoReply
BY DEF Request, NoRequest, NoReply, RequestSet, ReplySet, Feed, Kinds, Phases, Subjects

LEMMA NoRequestType == NoRequest \in RequestSet /\ NothingShown \in ViewSet
BY DEF NoRequest, NoReply, RequestSet, ReplySet, Kinds, Phases, Subjects, NothingShown,
       NotShown, ViewSet

\* The fields that the projection depends on.
Alike(f, g) ==
  /\ g.generation = f.generation /\ g.cursor = f.cursor /\ g.latest = f.latest
  /\ g.before = f.before /\ (g.initialized => f.initialized)

LEMMA AlikeGoes ==
  ASSUME NEW f, NEW g, NEW v, Alike(f, g)
  PROVE  /\ FeedOk(f) => FeedOk(g)
         /\ ViewOk(f, v) => ViewOk(g, v)
         /\ \A r : Goes(r, f, v, g, v)
BY DEF Alike, FeedOk, ViewOk, Goes

\* What is aborted is answered and left behind, or gone.
LEMMA AbortedLeaves ==
  ASSUME NEW n \in [Slots -> RequestSet]
  PROVE  /\ Aborted(n) \in [Slots -> RequestSet]
         /\ \A s \in Slots :
              /\ Leaves(n[s], Aborted(n)[s]) /\ Aborted(n)[s].phase # "sent"
              /\ Aborted(n)[s].stale \/ Aborted(n)[s] = NoRequest
<1>1. ASSUME NEW s \in Slots
      PROVE  /\ Aborted(n)[s] \in RequestSet /\ Leaves(n[s], Aborted(n)[s])
             /\ Aborted(n)[s].phase # "sent"
             /\ Aborted(n)[s].stale \/ Aborted(n)[s] = NoRequest
  <2> DEFINE p == n[s]
             q == [p EXCEPT !.stale = TRUE]
  <2>1. p \in RequestSet
    OBVIOUS
  <2>2. Aborted(n)[s] = IF p.phase \in {"answered", "resetRequired"} THEN q ELSE NoRequest
    BY DEF Aborted
  <2> HIDE DEF p
  <2>3. /\ q \in RequestSet /\ q.stale /\ q.generation = p.generation /\ q.reply = p.reply
        /\ q.kind = p.kind /\ q.ids = p.ids /\ q.phase = p.phase
    BY <2>1 DEF RequestSet
  <2> HIDE DEF q
  <2>4. NoRequest.phase = "free" /\ NoRequest \in RequestSet
    BY NoRequestType DEF NoRequest
  <2>5. /\ Aborted(n)[s] \in RequestSet /\ Leaves(p, Aborted(n)[s])
        /\ Aborted(n)[s].phase # "sent"
        /\ Aborted(n)[s].stale \/ Aborted(n)[s] = NoRequest
    BY <2>2, <2>3, <2>4 DEF Leaves
  <2> QED BY <2>5 DEF p
<1>2. Aborted(n) = [s \in Slots |-> Aborted(n)[s]]
  BY DEF Aborted
<1> HIDE DEF Aborted
<1> QED BY <1>1, <1>2

\* A history is asked for anew: the request before is left behind.
LEMMA LoadsHistory ==
  ASSUME NEW f \in Feed, NEW n \in [Slots -> RequestSet], NEW s \in Slots, LoadHistory(f, n, s)
  PROVE  /\ feed' = f /\ net' \in [Slots -> RequestSet]
         /\ \A t \in Slots \ {s} : /\ Leaves(n[t], net'[t]) \/ net'[t] = n[t]
                                   /\ n[t] = NoRequest => net'[t] = NoRequest
         /\ net'[s] = Request(f, "history", 0, 0)
<1> DEFINE o == [t \in Slots |-> CASE n[t].kind # "history" -> n[t]
                                   [] n[t].kind = "history" /\ n[t].phase = "sent" -> NoRequest
                                   [] OTHER -> [n[t] EXCEPT !.stale = TRUE]]
           r == Request(f, "history", 0, 0)
<1>1. feed' = f /\ net' = [o EXCEPT ![s] = r]
  BY DEF LoadHistory, Sent
<1>2. r \in RequestSet
  BY RequestType DEF Kinds
<1>3. ASSUME NEW t \in Slots
      PROVE  /\ o[t] \in RequestSet /\ (Leaves(n[t], o[t]) \/ o[t] = n[t])
             /\ n[t] = NoRequest => o[t] = NoRequest
  <2> DEFINE p == n[t]
             q == [p EXCEPT !.stale = TRUE]
  <2>1. p \in RequestSet
    OBVIOUS
  <2>2. (o[t] = p \/ o[t] = NoRequest \/ o[t] = q) /\ (p.kind # "history" => o[t] = p)
    OBVIOUS
  <2> HIDE DEF p, o
  <2>3. /\ q \in RequestSet /\ q.stale /\ q.generation = p.generation /\ q.reply = p.reply
        /\ q.kind = p.kind /\ q.ids = p.ids
    BY <2>1 DEF RequestSet
  <2> HIDE DEF q
  <2>4. o[t] \in RequestSet /\ (Leaves(p, o[t]) \/ o[t] = p)
    BY <2>1, <2>2, <2>3, NoRequestType DEF Leaves
  <2>5. p = NoRequest => o[t] = NoRequest
    BY <2>2 DEF NoRequest
  <2> QED BY <2>4, <2>5 DEF p
<1>4. o \in [Slots -> RequestSet]
  <2>1. o = [t \in Slots |-> o[t]]
    OBVIOUS
  <2> HIDE DEF o
  <2> QED BY <1>3, <2>1
<1> HIDE DEF o, r
<1> QED BY <1>1, <1>2, <1>3, <1>4 DEF r

LEMMA ClearedIsFeed ==
  ASSUME NEW f \in Feed
  PROVE  LET g == Cleared(f) IN
         /\ g \in Feed /\ g.generation = 0 /\ g.cursor = 0 /\ g.latest = 0 /\ ~g.initialized
         /\ g.subject = f.subject /\ g.active = f.active
BY DEF Cleared, Feed

\* A cleared client relies on nothing.
LEMMA ClearedSound ==
  ASSUME StoreTypeOK, NEW f \in Feed, NEW v, NEW n \in [Slots -> RequestSet], Sound(f, v, n),
         NEW g \in Feed, g.generation = 0, g.cursor = 0, g.latest = 0, ~g.initialized,
         NEW w, NEW m,
         \A s \in Slots : \/ Leaves(n[s], m[s])
                          \/ m[s] = Request(g, "history", 0, 0)
  PROVE  Sound(g, w, m)
<1>1. gen \in Nat \ {0} /\ FeedOk(g)
  BY DEF StoreTypeOK, FeedOk
<1>2. ASSUME NEW s \in Slots, m[s] = Request(g, "history", 0, 0) PROVE Brings(m, s, g, w)
  <2> DEFINE r == Request(g, "history", 0, 0)
  <2>1. /\ r \in RequestSet /\ r.kind = "history" /\ r.phase = "sent" /\ ~r.stale /\ r.at = 0
        /\ r.generation = g.generation /\ r.reply = NoReply
    BY RequestType DEF Kinds
  <2> HIDE DEF r
  <2>2. SlotOk(r, g, w)
    BY <1>1, <2>1, SentOk
  <2> QED BY <1>2, <2>1, <2>2 DEF Brings, r
<1> QED BY <1>1, <1>2, StepSound

LEMMA RestartSound ==
  ASSUME StoreTypeOK, NEW f \in Feed, NEW v, NEW n \in [Slots -> RequestSet], Sound(f, v, n),
         NEW g \in Feed, NEW o \in [Slots -> RequestSet], NEW s \in Slots,
         \A t \in Slots \ {s} : o[t] = n[t], Restart(g, o, s)
  PROVE  /\ feed' \in Feed /\ view' \in ViewSet /\ net' \in [Slots -> RequestSet]
         /\ Sound(feed', view', net')
<1>1. /\ Cleared(g) \in Feed /\ Cleared(g).generation = 0 /\ Cleared(g).cursor = 0
      /\ Cleared(g).latest = 0 /\ ~Cleared(g).initialized
  BY ClearedIsFeed
<1>2. /\ Aborted(o) \in [Slots -> RequestSet]
      /\ \A t \in Slots : /\ Leaves(o[t], Aborted(o)[t]) /\ Aborted(o)[t].phase # "sent"
                          /\ Aborted(o)[t].stale \/ Aborted(o)[t] = NoRequest
  BY AbortedLeaves
<1>3. LoadHistory(Cleared(g), Aborted(o), s) /\ view' = NothingShown
  BY DEF Restart
<1>4. /\ feed' = Cleared(g) /\ net' \in [Slots -> RequestSet]
      /\ \A t \in Slots \ {s} :
           /\ Leaves(Aborted(o)[t], net'[t]) \/ net'[t] = Aborted(o)[t]
           /\ Aborted(o)[t] = NoRequest => net'[t] = NoRequest
      /\ net'[s] = Request(Cleared(g), "history", 0, 0)
  <2> DEFINE h == Cleared(g)
             b == Aborted(o)
  <2>1. h \in Feed /\ b \in [Slots -> RequestSet] /\ LoadHistory(h, b, s)
    BY <1>1, <1>2, <1>3
  <2> HIDE DEF h, b
  <2>2. /\ feed' = h /\ net' \in [Slots -> RequestSet]
        /\ \A t \in Slots \ {s} : /\ Leaves(b[t], net'[t]) \/ net'[t] = b[t]
                                  /\ b[t] = NoRequest => net'[t] = NoRequest
        /\ net'[s] = Request(h, "history", 0, 0)
    BY <2>1, LoadsHistory
  <2> QED BY <2>2 DEF h, b
<1>5. \A t \in Slots \ {s} : Leaves(n[t], net'[t])
  <2> SUFFICES ASSUME NEW t \in Slots \ {s} PROVE Leaves(n[t], net'[t])
    OBVIOUS
  <2>1. Leaves(n[t], Aborted(o)[t])
    BY <1>2
  <2> QED BY <1>2, <1>4, <2>1 DEF Leaves
<1>6. Sound(feed', view', net')
  BY <1>1, <1>4, <1>5, ClearedSound
<1> QED BY <1>1, <1>3, <1>4, <1>6, NoRequestType

LEMMA ResetSound ==
  ASSUME StoreTypeOK, feed \in Feed, net \in [Slots -> RequestSet], Sound(feed, view, net),
         NEW s \in Slots, HandleCursorReset(Done(s), s)
  PROVE  /\ feed' \in Feed /\ view' \in ViewSet /\ net' \in [Slots -> RequestSet]
         /\ Sound(feed', view', net')
<1>1. Done(s) \in [Slots -> RequestSet] /\ \A t \in Slots \ {s} : Done(s)[t] = net[t]
  BY NoRequestType DEF Done
<1>2. CASE feed.streak >= MaxResets
  <2> DEFINE g == [Cleared(feed) EXCEPT !.blocked = TRUE]
  <2>1. feed' = g /\ net' = Aborted(Done(s)) /\ view' = NothingShown
    BY <1>2 DEF HandleCursorReset
  <2>2. /\ Cleared(feed) \in Feed /\ Cleared(feed).generation = 0 /\ Cleared(feed).cursor = 0
        /\ Cleared(feed).latest = 0 /\ ~Cleared(feed).initialized
    BY ClearedIsFeed
  <2>3. g \in Feed /\ g.generation = 0 /\ g.cursor = 0 /\ g.latest = 0 /\ ~g.initialized
    BY <2>2 DEF Feed
  <2> HIDE DEF g
  <2>4. net' \in [Slots -> RequestSet] /\ \A t \in Slots : Leaves(Done(s)[t], net'[t])
    BY <1>1, <2>1, AbortedLeaves
  <2>5. \A t \in Slots : Leaves(net[t], net'[t])
    <3>1. Done(s)[s] = NoRequest
      BY DEF Done
    <3>2. Aborted(Done(s))[s] = NoRequest
      BY <3>1 DEF Aborted, NoRequest
    <3> QED BY <1>1, <2>1, <2>4, <3>2 DEF Leaves
  <2>6. Sound(feed', view', net')
    BY <2>1, <2>3, <2>5, ClearedSound
  <2> QED BY <2>1, <2>3, <2>4, <2>6, NoRequestType
<1>3. CASE ~(feed.streak >= MaxResets)
  <2>1. Restart([feed EXCEPT !.streak = @ + 1], Done(s), s)
    BY <1>3 DEF HandleCursorReset
  <2>2. [feed EXCEPT !.streak = @ + 1] \in Feed
    BY DEF Feed
  <2> QED BY <1>1, <2>1, <2>2, RestartSound
<1> QED BY <1>2, <1>3

-----------------------------------------------------------------------------
(* The events of the page.                                                  *)

ClientStep ==
  /\ feed' \in Feed /\ view' \in ViewSet /\ net' \in [Slots -> RequestSet]
  /\ Sound(feed', view', net')

\* The projection stays, and at most one request is sent.
LEMMA SendsOne ==
  ASSUME Types, Sound(feed, view, net), feed' \in Feed, Alike(feed, feed'), view' = view,
         NEW s \in Slots, NEW r \in RequestSet, r.generation = feed.generation, r.phase = "sent",
         r.reply = NoReply, net' = Sent(net, s, r),
         r.kind = "history" => r.at = 0,
         r.kind = "older" /\ feed.generation = gen => Covered(view, feed.cursor, r.at),
         r.kind = "changes" => /\ feed.generation # 0 /\ r.at = feed.cursor
                               /\ Running("changes") = {},
         r.kind \in {"withdraw", "delete"} => \E i \in Ids : r.ids = {i}
  PROVE  ClientStep
<1>1. StoreTypeOK /\ feed \in Feed /\ view \in ViewSet /\ net \in [Slots -> RequestSet]
  BY DEF Types
<1>2. /\ net' \in [Slots -> RequestSet] /\ net'[s] = r
      /\ \A t \in Slots \ {s} : net'[t] = net[t]
  BY <1>1 DEF Sent
<1>3. FeedOk(feed) /\ (feed.generation = gen => ViewOk(feed, view))
  BY DEF Sound
<1>4. /\ FeedOk(feed') /\ \A t : Goes(t, feed, view, feed', view)
      /\ feed'.generation = gen => ViewOk(feed', view)
  BY <1>3, AlikeGoes DEF Alike
<1>5. feed'.generation = feed.generation /\ feed'.cursor = feed.cursor
  BY DEF Alike
<1>6. SlotOk(r, feed', view)
  BY <1>1, <1>4, <1>5, SentOk
<1>7. Brings(net', s, feed', view)
  BY <1>2, <1>6 DEF Brings, Running
<1>8. Sound(feed', view', net')
  BY <1>1, <1>2, <1>4, <1>7, StepSound
<1> QED BY <1>1, <1>2, <1>8 DEF ClientStep

LEMMA KeepsOn ==
  ASSUME Types, Sound(feed, view, net), feed' \in Feed, Alike(feed, feed'), view' = view,
         net' \in [Slots -> RequestSet],
         \A t \in Slots : net'[t] = net[t] \/ Leaves(net[t], net'[t])
  PROVE  ClientStep
<1>1. StoreTypeOK /\ feed \in Feed /\ view \in ViewSet /\ net \in [Slots -> RequestSet]
  BY DEF Types
<1>2. FeedOk(feed) /\ (feed.generation = gen => ViewOk(feed, view))
  BY DEF Sound
<1>3. /\ FeedOk(feed') /\ \A t : Goes(t, feed, view, feed', view)
      /\ feed'.generation = gen => ViewOk(feed', view)
  BY <1>2, AlikeGoes DEF Alike
<1>4. Sound(feed', view', net')
  BY <1>1, <1>3, StepSound
<1> QED BY <1>1, <1>4 DEF ClientStep

LEMMA SyncNowSound ==
  ASSUME Types, Sound(feed, view, net), NEW f \in Feed, Alike(feed, f),
         f.initialized = feed.initialized, SyncNow(f), view' = view
  PROVE  ClientStep
<1> DEFINE g == [f EXCEPT !.timer = FALSE]
<1>1. g \in Feed /\ Alike(feed, g) /\ g.generation = feed.generation
  BY DEF Feed, Alike
<1>2. feed' = g
  BY DEF SyncNow
<1> HIDE DEF g
<1>3. CASE net' = net
  BY <1>1, <1>2, <1>3, KeepsOn DEF Types
<1>4. CASE net' # net
  <2>1. PICK s \in Free(net) : net' = Sent(net, s, Request(f, "changes", f.cursor, 1))
    BY <1>4 DEF SyncNow
  <2>2. Running("changes") = {} /\ f.initialized
    BY <1>4 DEF SyncNow
  <2> DEFINE r == Request(f, "changes", f.cursor, 1)
  <2>3. /\ r \in RequestSet /\ r.kind = "changes" /\ r.phase = "sent" /\ r.at = f.cursor
        /\ r.generation = f.generation /\ r.reply = NoReply
    <3>1. f.cursor \in Nat /\ 1 \in Nat /\ "changes" \in Kinds
      BY DEF Feed, Kinds
    <3> QED BY <3>1, RequestType
  <2> HIDE DEF r
  <2>4. feed.generation # 0 /\ f.generation = feed.generation /\ f.cursor = feed.cursor
    BY <2>2 DEF Sound, FeedOk, Alike
  <2>5. s \in Slots
    BY DEF Free
  <2> QED BY <1>1, <1>2, <2>1, <2>2, <2>3, <2>4, <2>5, SendsOne DEF r
<1> QED BY <1>3, <1>4

LEMMA HistorySent ==
  ASSUME Types, Sound(feed, view, net), NEW f \in Feed, Alike(feed, f),
         NEW s \in Slots, LoadHistory(f, net, s), view' = view
  PROVE  ClientStep
<1> DEFINE r == Request(f, "history", 0, 0)
<1>1. StoreTypeOK /\ feed \in Feed /\ view \in ViewSet /\ net \in [Slots -> RequestSet]
  BY DEF Types
<1>2. /\ feed' = f /\ net' \in [Slots -> RequestSet] /\ net'[s] = r
      /\ \A t \in Slots \ {s} : Leaves(net[t], net'[t]) \/ net'[t] = net[t]
  BY <1>1, LoadsHistory
<1>3. /\ r \in RequestSet /\ r.kind = "history" /\ r.phase = "sent" /\ ~r.stale /\ r.at = 0
      /\ r.generation = f.generation /\ r.reply = NoReply
  BY RequestType DEF Kinds
<1> HIDE DEF r
<1>4. /\ FeedOk(f) /\ \A t : Goes(t, feed, view, f, view)
      /\ f.generation = gen => ViewOk(f, view)
  BY AlikeGoes DEF Alike, Sound
<1>5. SlotOk(r, f, view)
  BY <1>1, <1>3, <1>4, SentOk
<1>6. Brings(net', s, f, view)
  BY <1>2, <1>3, <1>5 DEF Brings
<1>7. Sound(f, view, net')
  BY <1>1, <1>2, <1>4, <1>6, StepSound
<1> QED BY <1>1, <1>2, <1>7 DEF ClientStep

LEMMA PageEvents ==
  ASSUME Types, Sound(feed, view, net), TimerFires \/ Hide \/ Show
  PROVE  ClientStep
<1>1. StoreTypeOK /\ feed \in Feed /\ view \in ViewSet /\ net \in [Slots -> RequestSet]
  BY DEF Types
<1>2. CASE TimerFires
  <2>1. SyncNow(feed) /\ view' = view /\ Alike(feed, feed)
    BY <1>2 DEF TimerFires, Alike
  <2> QED BY <1>1, <2>1, SyncNowSound
<1>3. CASE Hide
  <2>1. feed' = [feed EXCEPT !.visible = FALSE, !.timer = FALSE] /\ view' = view
    BY <1>3 DEF Hide
  <2>2. feed' \in Feed /\ Alike(feed, feed')
    BY <1>1, <2>1 DEF Feed, Alike
  <2>3. net' = [s \in Slots |-> IF s \in Running("changes") /\ net[s].phase = "sent"
                                THEN NoRequest ELSE net[s]]
    BY <1>3 DEF Hide
  <2>4. /\ net' \in [Slots -> RequestSet]
        /\ \A s \in Slots : net'[s] = net[s] \/ Leaves(net[s], net'[s])
    BY <1>1, <2>3, NoRequestType DEF Leaves
  <2> QED BY <2>1, <2>2, <2>4, KeepsOn
<1>4. CASE Show
  <2> DEFINE f == [feed EXCEPT !.visible = TRUE]
  <2>1. /\ view' = view
        /\ SyncNow(f) \/ \E s \in Free(net) : LoadHistory(f, net, s)
    BY <1>4 DEF Show
  <2>2. f \in Feed /\ Alike(feed, f) /\ f.initialized = feed.initialized
    BY <1>1 DEF Feed, Alike
  <2> HIDE DEF f
  <2>3. \A s \in Free(net) : s \in Slots
    BY DEF Free
  <2> QED BY <2>1, <2>2, <2>3, SyncNowSound, HistorySent
<1> QED BY <1>2, <1>3, <1>4

LEMMA MutateSound ==
  ASSUME Types, Sound(feed, view, net), NEW s \in Slots, NEW op \in OwnOps,
         NEW ids \in SUBSET Ids, Mutate(s, op, ids)
  PROVE  ClientStep
<1> DEFINE at == IF op = "clear" THEN feed.latest ELSE 0
           q == Request(feed, op, at, 0)
           r == [q EXCEPT !.ids = ids]
<1>1. StoreTypeOK /\ feed \in Feed /\ view \in ViewSet /\ net \in [Slots -> RequestSet]
  BY DEF Types
<1>2. /\ op \in Kinds /\ op \in {"send", "withdraw", "delete", "batch", "clear"} /\ at \in Nat
      /\ feed.generation \in Nat
  BY <1>1 DEF SyncAssumption, Kinds, Feed
<1>3. net' = Sent(net, s, r) /\ feed' = feed /\ view' = view
  BY DEF Mutate
<1>4. op \in {"withdraw", "delete"} => \E i \in Ids : ids = {i}
  <2> SUFFICES ASSUME op \in {"withdraw", "delete"} PROVE \E i \in Ids : ids = {i}
    OBVIOUS
  <2>1. Cardinality(ids) = 1
    BY DEF Mutate
  <2>2. IsFiniteSet(ids)
    <3>1. IsFiniteSet(Ids)
      BY FS_Interval DEF StoreAssumption, Ids
    <3> QED BY <3>1, FS_Subset
  <2>3. \E i : ids = {i}
    BY <2>1, <2>2, FS_Singleton
  <2> QED BY <2>3
<1> HIDE DEF at
<1>5. /\ q \in RequestSet /\ q.kind = op /\ q.phase = "sent" /\ q.reply = NoReply
      /\ q.generation = feed.generation
  BY <1>1, <1>2, RequestType
<1> HIDE DEF q
<1>6. /\ r \in RequestSet /\ r.kind = op /\ r.phase = "sent" /\ r.reply = NoReply
      /\ r.generation = feed.generation /\ r.ids = ids
  BY <1>5 DEF RequestSet
<1> HIDE DEF r
<1>7. Alike(feed, feed')
  BY <1>3 DEF Alike
<1> QED BY <1>1, <1>2, <1>3, <1>4, <1>6, <1>7, SendsOne

LEMMA UserSound ==
  ASSUME Types, Sound(feed, view, net), UserActs
  PROVE  ClientStep
<1>1. StoreTypeOK /\ feed \in Feed /\ view \in ViewSet /\ net \in [Slots -> RequestSet]
  BY DEF Types
<1>2. ASSUME NEW s \in Slots, LoadOlder(s) PROVE ClientStep
  <2> DEFINE r == Request(feed, "older", feed.before, 0)
  <2>1. net' = Sent(net, s, r) /\ feed' = feed /\ view' = view /\ Alike(feed, feed')
    BY <1>2 DEF LoadOlder, Alike
  <2>2. feed.before \in Nat /\ "older" \in Kinds /\ 0 \in Nat
    BY <1>1 DEF Feed, Kinds
  <2>3. /\ r \in RequestSet /\ r.kind = "older" /\ r.phase = "sent" /\ r.reply = NoReply
        /\ r.generation = feed.generation /\ r.at = feed.before
    BY <1>1, <2>2, RequestType
  <2> HIDE DEF r
  <2>4. feed.generation = gen => Covered(view, feed.cursor, feed.before)
    BY DEF Sound, ViewOk
  <2> QED BY <1>1, <2>1, <2>3, <2>4, SendsOne
<1>3. ASSUME NEW s \in Slots, RetryInitial(s) PROVE ClientStep
  <2>1. LoadHistory(feed, net, s) /\ view' = view /\ Alike(feed, feed)
    BY <1>3 DEF RetryInitial, Alike
  <2> QED BY <1>1, <2>1, HistorySent
<1>4. ASSUME NEW s \in Slots, Reload(s) PROVE ClientStep
  <2>1. Restart([feed EXCEPT !.streak = 0], net, s)
    BY <1>4 DEF Reload
  <2>2. [feed EXCEPT !.streak = 0] \in Feed
    BY <1>1 DEF Feed
  <2> QED BY <1>1, <2>1, <2>2, RestartSound DEF ClientStep
<1>5. ASSUME NEW s \in Slots, Rebind(s) PROVE ClientStep
  <2>1. PICK b \in Subjects \ {feed.subject} :
          Restart([feed EXCEPT !.subject = b, !.active = TRUE, !.streak = 0], net, s)
    BY <1>5 DEF Rebind
  <2>2. [feed EXCEPT !.subject = b, !.active = TRUE, !.streak = 0] \in Feed
    BY <1>1 DEF Feed
  <2> QED BY <1>1, <2>1, <2>2, RestartSound DEF ClientStep
<1> QED BY <1>2, <1>3, <1>4, <1>5, MutateSound DEF UserActs

-----------------------------------------------------------------------------
(* The end of a request.                                                    *)

LEMMA DoneLeaves ==
  ASSUME net \in [Slots -> RequestSet], NEW s \in Slots
  PROVE  /\ Done(s) \in [Slots -> RequestSet] /\ Done(s)[s] = NoRequest
         /\ \A t \in Slots \ {s} : Done(s)[t] = net[t]
         /\ \A t \in Slots : Done(s)[t] = net[t] \/ Leaves(net[t], Done(s)[t])
BY NoRequestType DEF Done, Leaves

LEMMA ScheduledAlike ==
  ASSUME NEW f \in Feed
  PROVE  Scheduled(f) \in Feed /\ Alike(f, Scheduled(f))
         /\ Scheduled(f).initialized = f.initialized /\ Scheduled(f).subject = f.subject
BY DEF Scheduled, Feed, Alike

LEMMA EndsSound ==
  ASSUME Types, Sound(feed, view, net), NEW s \in Slots,
         \/ Ignore(s) \/ MutationRefused(s) \/ Fail(s) \/ Unauthorized(s)
         \/ ResetArrives(s) \/ ClearArrives(s) \/ ClearConflicts(s)
  PROVE  ClientStep
<1>1. StoreTypeOK /\ feed \in Feed /\ view \in ViewSet /\ net \in [Slots -> RequestSet]
  BY DEF Types
<1>2. /\ Done(s) \in [Slots -> RequestSet] /\ Done(s)[s] = NoRequest
      /\ \A t \in Slots \ {s} : Done(s)[t] = net[t]
      /\ \A t \in Slots : Done(s)[t] = net[t] \/ Leaves(net[t], Done(s)[t])
  BY <1>1, DoneLeaves
<1>3. CASE Ignore(s) \/ MutationRefused(s)
  <2>1. feed' = feed /\ view' = view /\ net' = Done(s) /\ Alike(feed, feed)
    BY <1>3 DEF Ignore, MutationRefused, Alike
  <2> QED BY <1>1, <1>2, <2>1, KeepsOn
<1>4. CASE Fail(s)
  <2>1. /\ view' = view /\ net' = Done(s)
        /\ feed' \in {[feed EXCEPT !.initialized = FALSE], Scheduled(feed), feed}
    BY <1>4 DEF Fail
  <2>2. feed' \in Feed /\ Alike(feed, feed')
    <3>1. /\ [feed EXCEPT !.initialized = FALSE] \in Feed
          /\ Alike(feed, [feed EXCEPT !.initialized = FALSE])
      BY <1>1 DEF Feed, Alike
    <3>2. Alike(feed, feed)
      BY DEF Alike
    <3> QED BY <1>1, <2>1, <3>1, <3>2, ScheduledAlike
  <2> QED BY <1>2, <2>1, <2>2, KeepsOn
<1>5. CASE Unauthorized(s)
  <2> DEFINE g == [Cleared(feed) EXCEPT !.active = FALSE, !.streak = 0]
  <2>1. feed' = g /\ view' = NothingShown /\ net' = Aborted(Done(s))
    BY <1>5 DEF Unauthorized
  <2>2. /\ Cleared(feed) \in Feed /\ Cleared(feed).generation = 0 /\ Cleared(feed).cursor = 0
        /\ Cleared(feed).latest = 0 /\ ~Cleared(feed).initialized
    BY <1>1, ClearedIsFeed
  <2>3. g \in Feed /\ g.generation = 0 /\ g.cursor = 0 /\ g.latest = 0 /\ ~g.initialized
    BY <2>2 DEF Feed
  <2> HIDE DEF g
  <2>4. net' \in [Slots -> RequestSet] /\ \A t \in Slots : Leaves(Done(s)[t], net'[t])
    BY <1>2, <2>1, AbortedLeaves
  <2>5. \A t \in Slots : Leaves(net[t], net'[t])
    <3>1. Aborted(Done(s))[s] = NoRequest
      BY <1>2 DEF Aborted, NoRequest
    <3> QED BY <1>2, <2>1, <2>4, <3>1 DEF Leaves
  <2>6. Sound(feed', view', net')
    BY <1>1, <2>1, <2>3, <2>5, ClearedSound
  <2> QED BY <2>1, <2>3, <2>4, <2>6, NoRequestType DEF ClientStep
<1>6. CASE ResetArrives(s)
  BY <1>1, <1>6, ResetSound DEF ResetArrives, ClientStep
<1>7. CASE ClearArrives(s) \/ ClearConflicts(s)
  <2>1. Restart(feed, Done(s), s)
    BY <1>7 DEF ClearArrives, ClearConflicts
  <2> QED BY <1>1, <1>2, <2>1, RestartSound DEF ClientStep
<1> QED BY <1>3, <1>4, <1>5, <1>6, <1>7

-----------------------------------------------------------------------------
(* Answers that are shown.                                                  *)

\* The step of an answer: another feed and view, and the request is done.
LEMMA ShowsRows ==
  ASSUME Types, Sound(feed, view, net), NEW s \in Slots,
         feed' \in Feed, FeedOk(feed'), view' \in ViewSet, net' = Done(s),
         feed'.generation = gen => ViewOk(feed', view'),
         \A t \in Slots \ {s} : Goes(net[t], feed, view, feed', view')
  PROVE  ClientStep
<1>1. StoreTypeOK /\ feed \in Feed /\ view \in ViewSet /\ net \in [Slots -> RequestSet]
  BY DEF Types
<1>2. /\ net' \in [Slots -> RequestSet] /\ net'[s] = NoRequest
      /\ \A t \in Slots \ {s} : net'[t] = net[t]
  BY <1>1, DoneLeaves
<1>3. \A t \in Slots : \/ Leaves(net[t], net'[t])
                       \/ net'[t] = net[t] /\ Goes(net[t], feed, view, feed', view')
  BY <1>2 DEF Leaves
<1>4. Sound(feed', view', net')
  BY <1>1, <1>3, StepSound
<1> QED BY <1>2, <1>4 DEF ClientStep

\* What is known of an answer that counts.
LEMMA Answered ==
  ASSUME Types, Sound(feed, view, net), NEW s \in Slots, NEW kinds, Arrived(s, kinds)
  PROVE  LET r == net[s] IN
         /\ r \in RequestSet /\ r.kind \in kinds /\ r.phase = "answered" /\ ~r.stale
         /\ r.generation = feed.generation /\ r.subject = feed.subject
         /\ r.reply.rows \in SUBSET Row /\ r.reply.latest \in Nat /\ r.reply.next \in Nat
         /\ r.reply.gen \in Nat /\ r.generation \in Nat /\ r.at \in Nat
         /\ SlotOk(r, feed, view) /\ \A row \in r.reply.rows : row.seq <= Latest
BY DEF Types, Arrived, Current, RequestSet, ReplySet, Sound, SlotOk

\* A page of the history for the generation that is shown.
LEMMA PageShown ==
  ASSUME Types, Sound(feed, view, net), NEW s \in Slots, Arrived(s, {"history", "older"}),
         net[s].generation = net[s].reply.gen,
         feed' \in Feed, feed'.generation = feed.generation, feed'.cursor = feed.cursor,
         feed'.before = net[s].reply.next, feed'.latest = LatestKnown(net[s]),
         NEW p \in 0..2, view' = Applied(view, net[s].reply.rows, p, net[s].subject),
         net' = Done(s)
  PROVE  ClientStep
<1> DEFINE r == net[s]
           c == feed.cursor
<1>1. /\ StoreTypeOK /\ feed \in Feed /\ view \in ViewSet /\ c \in Nat /\ feed.latest \in Nat
      /\ Present \subseteq Ids /\ Latest \in Nat
  BY StoreShape DEF Types, Feed
<1>2. /\ r \in RequestSet /\ r.kind \in {"history", "older"} /\ r.phase = "answered" /\ ~r.stale
      /\ r.generation = feed.generation /\ r.subject = feed.subject
      /\ r.reply.rows \in SUBSET Row /\ r.reply.latest \in Nat /\ r.reply.next \in Nat
      /\ r.reply.gen \in Nat /\ r.generation \in Nat /\ r.at \in Nat
      /\ SlotOk(r, feed, view) /\ \A row \in r.reply.rows : row.seq <= Latest
  BY Answered
<1>3. /\ PageOk(r, feed, view)
      /\ r.kind = "history" => r.at = 0
      /\ r.kind = "older" /\ r.generation = gen => Covered(view, c, r.at)
  BY <1>2 DEF SlotOk
<1>4. /\ feed'.generation = r.generation /\ r.generation = r.reply.gen /\ feed'.before = r.reply.next
      /\ view' = Applied(view, r.reply.rows, p, r.subject) /\ feed'.cursor = c
  BY <1>2
<1>5. feed.latest <= feed'.latest /\ feed'.latest \in Nat
  BY <1>1, <1>2, MaxOfTwo DEF LatestKnown
<1> HIDE DEF r, c
<1>6. r.subject \in Subjects
  BY <1>2 DEF RequestSet
<1>7. view' \in ViewSet /\ Shows(view, view', r.reply.rows, r.subject)
      /\ (Logged(c, c, r.reply.rows) => Carries(view, c, view', c, r.reply.rows))
  <2>1. /\ c \in Nat /\ c <= c /\ view \in ViewSet /\ r.reply.rows \in SUBSET Row
        /\ r.subject \in Subjects /\ StoreTypeOK /\ \A row \in r.reply.rows : row.seq <= Latest
        /\ view' = Applied(view, r.reply.rows, p, r.subject)
    BY <1>1, <1>2, <1>4, <1>6
  <2> QED BY <2>1, AppliedSound
<1>8. Logged(c, c, r.reply.rows)
  BY <1>1 DEF Logged
<1>9. Carries(view, c, view', c, r.reply.rows)
  BY <1>7, <1>8
<1>10. FeedOk(feed')
  <2>1. r.generation <= gen /\ r.reply.gen # 0
    BY <1>2, <1>3 DEF SlotOk, PageOk
  <2>2. feed.cursor <= feed.latest
    BY DEF Sound, FeedOk
  <2> QED BY <1>1, <1>4, <1>5, <2>1, <2>2 DEF FeedOk, c
<1>11. ASSUME feed'.generation = gen PROVE ViewOk(feed', view')
  <2>1. /\ RowsValid(r) /\ PageComplete(r)
        /\ \A row \in r.reply.rows : row.seq = r.reply.latest
        /\ \A i \in Ids : Seen(view, c, i, r.reply.latest)
    BY <1>3, <1>4, <1>11 DEF PageOk, c
  <2>2. GoodCursor(c) /\ Faithful(view, c)
    BY <1>2, <1>4, <1>11 DEF Sound, ViewOk, c
  <2>3. \A row \in r.reply.rows : Valid(row.id, row.status, row.seq)
                                  /\ Seen(view, c, row.id, row.seq)
    <3>1. \A row \in r.reply.rows : row.id \in Ids
      BY <1>2 DEF Row
    <3> QED BY <2>1, <3>1 DEF RowsValid
  <2>4. Faithful(view', c)
    BY <1>9, <2>2, <2>3 DEF Carries
  <2>5. Covered(view', c, r.reply.next)
    <3> SUFFICES ASSUME NEW i \in Present, i >= r.reply.next, ~Shown(view', i)
                 PROVE  Changed(i, c)
      BY DEF Covered
    <3>1. i \in Ids /\ i \in Nat
      BY <1>1 DEF Ids
    <3>2. CASE r.at = 0 \/ i < r.at
      <4>1. Changed(i, r.reply.latest)
        BY <1>7, <2>1, <3>2 DEF PageComplete, Shows
      <4>2. PICK x \in (r.reply.latest + 1)..Latest : chg[x] = i
        BY <4>1 DEF Changed
      <4>3. ~(x <= c)
        <5> SUFFICES ASSUME x <= c PROVE FALSE
          OBVIOUS
        <5>1. x \in (r.reply.latest + 1)..c
          BY <1>1, <1>2, <4>2
        <5>2. Shown(view, i)
          BY <2>1, <3>1, <4>2, <5>1 DEF Seen
        <5> QED BY <1>7, <3>1, <5>2 DEF Shows
      <4>4. x \in (c + 1)..Latest
        BY <1>1, <1>2, <4>2, <4>3
      <4> QED BY <4>2, <4>4 DEF Changed
    <3>3. CASE ~(r.at = 0 \/ i < r.at)
      <4>1. i >= r.at /\ r.kind = "older"
        BY <1>2, <1>3, <3>1, <3>3
      <4>2. Covered(view', c, r.at)
        BY <1>3, <1>4, <1>9, <1>11, <4>1 DEF Carries
      <4> QED BY <4>1, <4>2 DEF Covered
    <3> QED BY <3>2, <3>3
  <2> QED BY <1>4, <2>2, <2>4, <2>5 DEF ViewOk
<1>12. \A t \in Slots \ {s} : Goes(net[t], feed, view, feed', view')
  BY <1>4, <1>9 DEF Goes, Carries, c
<1> QED BY <1>7, <1>10, <1>11, <1>12, ShowsRows

\* The first page of a generation.
LEMMA FirstPageShown ==
  ASSUME Types, Sound(feed, view, net), NEW s \in Slots, Arrived(s, {"history"}),
         net[s].generation = 0,
         feed' \in Feed, feed'.generation = net[s].reply.gen,
         feed'.cursor = net[s].reply.latest, feed'.latest = net[s].reply.latest,
         feed'.before = net[s].reply.next,
         NEW p \in 0..2, view' = Applied(NothingShown, net[s].reply.rows, p, net[s].subject),
         net' = Done(s)
  PROVE  ClientStep
<1> DEFINE r == net[s]
           c == net[s].reply.latest
<1>1. StoreTypeOK /\ Present \subseteq Ids /\ Latest \in Nat /\ gen \in Nat \ {0}
  BY StoreShape DEF Types, StoreTypeOK
<1>2. /\ r \in RequestSet /\ r.kind \in {"history"} /\ r.phase = "answered" /\ ~r.stale
      /\ r.generation = feed.generation /\ r.subject = feed.subject
      /\ r.reply.rows \in SUBSET Row /\ r.reply.latest \in Nat /\ r.reply.next \in Nat
      /\ r.reply.gen \in Nat /\ r.generation \in Nat /\ r.at \in Nat
      /\ SlotOk(r, feed, view) /\ \A row \in r.reply.rows : row.seq <= Latest
  BY Answered
<1>3. PageOk(r, feed, view) /\ r.at = 0
  BY <1>2 DEF SlotOk
<1>4. /\ feed'.generation = r.reply.gen /\ feed'.before = r.reply.next
      /\ view' = Applied(NothingShown, r.reply.rows, p, r.subject)
      /\ c = r.reply.latest /\ feed'.cursor = c /\ feed'.latest = c
      /\ feed.generation = 0
  BY <1>2
<1> HIDE DEF r, c
<1>5. r.subject \in Subjects /\ NothingShown \in ViewSet
  BY <1>2, NoRequestType DEF RequestSet
<1>6. view' \in ViewSet /\ Shows(NothingShown, view', r.reply.rows, r.subject)
      /\ (Logged(c, c, r.reply.rows) => Carries(NothingShown, c, view', c, r.reply.rows))
  <2>1. /\ c \in Nat /\ c <= c /\ NothingShown \in ViewSet /\ r.reply.rows \in SUBSET Row
        /\ r.subject \in Subjects /\ StoreTypeOK /\ \A row \in r.reply.rows : row.seq <= Latest
        /\ view' = Applied(NothingShown, r.reply.rows, p, r.subject)
    BY <1>1, <1>2, <1>4, <1>5
  <2> QED BY <2>1, AppliedSound
<1>7. FeedOk(feed')
  BY <1>2, <1>3, <1>4 DEF FeedOk, PageOk
<1>8. ASSUME feed'.generation = gen PROVE ViewOk(feed', view')
  <2>1. /\ GoodCursor(c) /\ RowsValid(r) /\ PageComplete(r)
        /\ \A row \in r.reply.rows : row.seq = c
    BY <1>3, <1>4, <1>8 DEF PageOk
  <2>2. c \in Nat /\ \A x \in (c + 1)..c : FALSE
    BY <1>2, <1>4
  <2>3. \A row \in r.reply.rows : Valid(row.id, row.status, row.seq)
                                  /\ Seen(NothingShown, c, row.id, row.seq)
    BY <2>1, <2>2 DEF RowsValid, Seen
  <2>4. Faithful(NothingShown, c)
    BY DEF Faithful, Shown, NothingShown, NotShown
  <2>5. Faithful(view', c)
    BY <1>6, <2>2, <2>3, <2>4 DEF Logged, Carries
  <2>6. Covered(view', c, r.reply.next)
    BY <1>3, <1>4, <1>6, <2>1 DEF Covered, PageComplete, Shows
  <2> QED BY <1>4, <2>1, <2>5, <2>6 DEF ViewOk
<1>9. ASSUME NEW t \in Slots \ {s} PROVE Goes(net[t], feed, view, feed', view')
  <2> SUFFICES ASSUME ~net[t].stale
               PROVE  net[t].generation = 0 /\ net[t].kind # "changes"
    BY <1>1, <1>4 DEF Goes
  <2>1. SlotOk(net[t], feed, view)
    BY DEF Sound
  <2> QED BY <1>4, <2>1 DEF SlotOk, ChangesOk
<1> QED BY <1>6, <1>7, <1>8, <1>9, ShowsRows

LEMMA HistorySound ==
  ASSUME Types, Sound(feed, view, net), NEW s \in Slots, HistoryArrives(s)
  PROVE  ClientStep
<1> DEFINE r == net[s]
           f == [feed EXCEPT !.before = r.reply.next, !.initialized = TRUE]
           g == [f EXCEPT !.generation = r.reply.gen, !.cursor = r.reply.latest,
                          !.latest = r.reply.latest]
           h == [f EXCEPT !.latest = LatestKnown(r)]
<1>1. StoreTypeOK /\ feed \in Feed /\ net \in [Slots -> RequestSet] /\ feed.latest \in Nat
  BY DEF Types, Feed
<1>2. Arrived(s, {"history"}) /\ Arrived(s, {"history", "older"})
  BY DEF HistoryArrives, Arrived
<1>3. /\ r.reply.latest \in Nat /\ r.reply.next \in Nat /\ r.reply.gen \in Nat
      /\ r.kind \in {"history"} /\ r.phase = "answered" /\ ~r.stale /\ SlotOk(r, feed, view)
  BY <1>2, Answered
<1>4. LatestKnown(r) \in Nat
  BY <1>1, <1>3, MaxOfTwo DEF LatestKnown
<1>5. /\ f \in Feed /\ f.generation = feed.generation /\ f.cursor = feed.cursor
      /\ f.before = r.reply.next /\ f.latest = feed.latest
  BY <1>1, <1>3 DEF Feed
<1> HIDE DEF f, r
<1>6. /\ g \in Feed /\ g.generation = r.reply.gen /\ g.cursor = r.reply.latest
      /\ g.latest = r.reply.latest /\ g.before = r.reply.next
  BY <1>3, <1>5 DEF Feed
<1>7. /\ h \in Feed /\ h.generation = feed.generation /\ h.cursor = feed.cursor
      /\ h.latest = LatestKnown(r) /\ h.before = r.reply.next
  BY <1>4, <1>5 DEF Feed
<1>8. r.reply.gen # 0
  BY <1>3 DEF SlotOk, PageOk
<1>9. \/ /\ r.generation = 0
         /\ feed' = Scheduled(g) /\ net' = Done(s)
         /\ view' = Applied(NothingShown, r.reply.rows, Priority.history, r.subject)
      \/ /\ r.generation = r.reply.gen
         /\ feed' = Scheduled(h) /\ net' = Done(s)
         /\ view' = Applied(view, r.reply.rows, Priority.history, r.subject)
      \/ HandleCursorReset(Done(s), s)
  BY <1>8 DEF HistoryArrives, r, f
<1> HIDE DEF g, h
<1>10. Priority.history \in 0..2
  BY DEF Priority
<1>11. CASE /\ r.generation = 0
            /\ feed' = Scheduled(g) /\ net' = Done(s)
            /\ view' = Applied(NothingShown, r.reply.rows, Priority.history, r.subject)
  <2>1. feed' \in Feed /\ Alike(g, feed')
    BY <1>6, <1>11, ScheduledAlike
  <2> QED BY <1>2, <1>6, <1>10, <1>11, <2>1, FirstPageShown DEF Alike, r
<1>12. CASE /\ r.generation = r.reply.gen
            /\ feed' = Scheduled(h) /\ net' = Done(s)
            /\ view' = Applied(view, r.reply.rows, Priority.history, r.subject)
  <2>1. feed' \in Feed /\ Alike(h, feed')
    BY <1>7, <1>12, ScheduledAlike
  <2> QED BY <1>2, <1>7, <1>10, <1>12, <2>1, PageShown DEF Alike, r
<1>13. CASE HandleCursorReset(Done(s), s)
  BY <1>1, <1>13, ResetSound DEF ClientStep
<1> QED BY <1>9, <1>11, <1>12, <1>13

LEMMA OlderSound ==
  ASSUME Types, Sound(feed, view, net), NEW s \in Slots, OlderArrives(s)
  PROVE  ClientStep
<1> DEFINE r == net[s]
           h == [feed EXCEPT !.before = r.reply.next, !.latest = LatestKnown(r)]
<1>1. StoreTypeOK /\ feed \in Feed /\ net \in [Slots -> RequestSet] /\ feed.latest \in Nat
  BY DEF Types, Feed
<1>2. Arrived(s, {"history", "older"})
  BY DEF OlderArrives, Arrived
<1>3. r.reply.latest \in Nat /\ r.reply.next \in Nat
  BY <1>2, Answered
<1>4. LatestKnown(r) \in Nat
  BY <1>1, <1>3, MaxOfTwo DEF LatestKnown
<1> HIDE DEF r
<1>5. /\ h \in Feed /\ h.generation = feed.generation /\ h.cursor = feed.cursor
      /\ h.latest = LatestKnown(r) /\ h.before = r.reply.next
  BY <1>1, <1>3, <1>4 DEF Feed
<1>6. \/ /\ r.generation = r.reply.gen
         /\ feed' = h /\ net' = Done(s)
         /\ view' = Applied(view, r.reply.rows, Priority.older, r.subject)
      \/ HandleCursorReset(Done(s), s)
  BY DEF OlderArrives, r
<1> HIDE DEF h
<1>7. Priority.older \in 0..2
  BY DEF Priority
<1>8. CASE /\ r.generation = r.reply.gen
           /\ feed' = h /\ net' = Done(s)
           /\ view' = Applied(view, r.reply.rows, Priority.older, r.subject)
  BY <1>2, <1>5, <1>7, <1>8, PageShown DEF r
<1>9. CASE HandleCursorReset(Done(s), s)
  BY <1>1, <1>9, ResetSound DEF ClientStep
<1> QED BY <1>6, <1>8, <1>9

\* A page of changes takes the cursor on to where it ends.
LEMMA ChangesShown ==
  ASSUME Types, Sound(feed, view, net), NEW s \in Slots, Arrived(s, {"changes"}),
         NEW p \in 0..2, NEW w, w = Applied(view, net[s].reply.rows, p, net[s].subject),
         NEW g \in Feed, g.generation = feed.generation, g.cursor = net[s].reply.next,
         g.latest = LatestKnown(net[s]), g.before = feed.before
  PROVE  /\ w \in ViewSet /\ FeedOk(g) /\ (g.generation = gen => ViewOk(g, w))
         /\ g.generation # 0
         /\ \A t \in Slots \ {s} : Goes(net[t], feed, view, g, w)
         /\ \A t \in Slots \ {s} : net[t].kind = "changes" => net[t].stale
<1> DEFINE r == net[s]
           c == feed.cursor
           d == net[s].reply.next
<1>1. /\ StoreTypeOK /\ feed \in Feed /\ view \in ViewSet /\ c \in Nat /\ feed.latest \in Nat
      /\ Latest \in Nat /\ gen \in Nat \ {0}
  BY StoreShape DEF Types, Feed, StoreTypeOK
<1>2. /\ r \in RequestSet /\ r.kind \in {"changes"} /\ r.phase = "answered" /\ ~r.stale
      /\ r.generation = feed.generation /\ r.subject = feed.subject
      /\ r.reply.rows \in SUBSET Row /\ r.reply.latest \in Nat /\ d \in Nat
      /\ r.reply.gen \in Nat /\ r.generation \in Nat /\ r.at \in Nat
      /\ SlotOk(r, feed, view) /\ \A row \in r.reply.rows : row.seq <= Latest
  BY Answered
<1>3. /\ r.generation # 0 /\ r.at = c /\ d <= r.reply.latest
      /\ r.generation = gen =>
           /\ r.reply.latest <= Latest /\ c <= d /\ RowsValid(r)
           /\ \A row \in r.reply.rows : row.seq > c
           /\ Logged(c, d, r.reply.rows)
  BY <1>2 DEF SlotOk, ChangesOk, Logged
<1>4. /\ r.reply.latest <= g.latest /\ w = Applied(view, r.reply.rows, p, r.subject)
      /\ g.cursor = d /\ g.generation = r.generation
  BY <1>1, <1>2, MaxOfTwo DEF LatestKnown
<1>5. \A t \in Slots \ {s} : net[t].kind = "changes" => net[t].stale
  BY <1>2 DEF Sound, OneReader
<1> HIDE DEF r, c, d
<1>6. r.subject \in Subjects /\ r.generation <= gen
  BY <1>2 DEF RequestSet, SlotOk
<1>7. w \in ViewSet
  <2>1. /\ c <= c /\ view \in ViewSet /\ r.reply.rows \in SUBSET Row
        /\ r.subject \in Subjects /\ StoreTypeOK /\ \A row \in r.reply.rows : row.seq <= Latest
        /\ w = Applied(view, r.reply.rows, p, r.subject)
    BY <1>1, <1>2, <1>4, <1>6
  <2> QED BY <1>1, <2>1, AppliedSound
<1>8. FeedOk(g)
  <2>1. d <= g.latest
    <3>1. g.latest \in Nat
      BY DEF Feed
    <3> QED BY <1>2, <1>3, <1>4, <3>1
  <2> QED BY <1>3, <1>4, <1>6, <2>1 DEF FeedOk
<1>9. ASSUME r.generation = gen
      PROVE  Carries(view, c, w, d, r.reply.rows)
  <2>1. /\ c \in Nat /\ d \in Nat /\ c <= d /\ view \in ViewSet /\ r.reply.rows \in SUBSET Row
        /\ r.subject \in Subjects /\ StoreTypeOK /\ \A row \in r.reply.rows : row.seq <= Latest
        /\ w = Applied(view, r.reply.rows, p, r.subject) /\ Logged(c, d, r.reply.rows)
    BY <1>1, <1>2, <1>3, <1>4, <1>6, <1>9
  <2> QED BY <2>1, AppliedSound
<1>10. ASSUME g.generation = gen PROVE ViewOk(g, w)
  <2>1. /\ r.generation = gen /\ feed.generation = gen
        /\ r.reply.latest <= Latest /\ c <= d /\ RowsValid(r)
        /\ \A row \in r.reply.rows : row.seq > c
    BY <1>2, <1>3, <1>4, <1>10
  <2>2. GoodCursor(c) /\ Faithful(view, c) /\ Covered(view, c, feed.before)
    BY <2>1 DEF Sound, ViewOk, c
  <2>3. \A row \in r.reply.rows : Valid(row.id, row.status, row.seq)
                                  /\ Seen(view, c, row.id, row.seq)
    <3>1. \A row \in r.reply.rows : row.seq \in Nat
      BY <1>2 DEF Row
    <3> QED BY <1>1, <2>1, <3>1 DEF RowsValid, Seen
  <2>4. GoodCursor(d)
    BY <1>1, <1>2, <1>3, <2>1, <2>2 DEF GoodCursor
  <2> QED BY <1>4, <1>9, <2>1, <2>2, <2>3, <2>4 DEF Carries, ViewOk
<1>11. \A t \in Slots \ {s} : Goes(net[t], feed, view, g, w)
  BY <1>2, <1>4, <1>5, <1>9 DEF Goes, Carries, c
<1> QED BY <1>3, <1>4, <1>5, <1>7, <1>8, <1>10, <1>11

LEMMA ChangesSound ==
  ASSUME Types, Sound(feed, view, net), NEW s \in Slots, ChangesArrive(s)
  PROVE  ClientStep
<1> DEFINE r == net[s]
           f == [feed EXCEPT !.cursor = r.reply.next, !.latest = LatestKnown(r)]
           h == [f EXCEPT !.streak = 0]
           q == Request(f, "changes", r.reply.next, r.pages + 1)
<1>1. /\ StoreTypeOK /\ feed \in Feed /\ net \in [Slots -> RequestSet] /\ feed.latest \in Nat
  BY DEF Types, Feed
<1>2. /\ Arrived(s, {"changes"})
      /\ view' = Applied(view, r.reply.rows, Priority.changes, r.subject)
      /\ \/ feed' = f /\ net' = Sent(net, s, q)
         \/ feed' = Scheduled(h) /\ net' = Done(s)
  BY DEF ChangesArrive, NextPage
<1>3. r.reply.latest \in Nat /\ r.reply.next \in Nat /\ r.pages \in Nat
  BY <1>1, <1>2, Answered DEF RequestSet
<1>4. LatestKnown(r) \in Nat
  BY <1>1, <1>3, MaxOfTwo DEF LatestKnown
<1> HIDE DEF r
<1>5. /\ f \in Feed /\ f.generation = feed.generation /\ f.cursor = r.reply.next
      /\ f.latest = LatestKnown(r) /\ f.before = feed.before
  BY <1>1, <1>3, <1>4 DEF Feed
<1>6. q \in RequestSet /\ q.generation = f.generation /\ q.phase = "sent" /\ q.reply = NoReply
      /\ q.kind = "changes" /\ q.at = r.reply.next /\ ~q.stale
  <2> HIDE DEF f
  <2>1. r.pages + 1 \in Nat /\ "changes" \in Kinds
    BY <1>3 DEF Kinds
  <2> QED BY <1>3, <1>5, <2>1, RequestType
<1> HIDE DEF f, q
<1>7. /\ h \in Feed /\ h.generation = f.generation /\ h.cursor = f.cursor
      /\ h.latest = f.latest /\ h.before = f.before
  BY <1>5 DEF Feed
<1> HIDE DEF h
<1>8. feed' \in Feed /\ feed'.generation = f.generation /\ feed'.cursor = f.cursor
      /\ feed'.latest = f.latest /\ feed'.before = f.before
  BY <1>2, <1>5, <1>7, ScheduledAlike DEF Alike
<1>9. Priority.changes \in 0..2
  BY DEF Priority
<1>10. /\ view' \in ViewSet /\ FeedOk(feed') /\ (feed'.generation = gen => ViewOk(feed', view'))
       /\ feed'.generation # 0
       /\ \A t \in Slots \ {s} : Goes(net[t], feed, view, feed', view')
       /\ \A t \in Slots \ {s} : net[t].kind = "changes" => net[t].stale
  <2>1. /\ Arrived(s, {"changes"}) /\ feed' \in Feed /\ Priority.changes \in 0..2
        /\ view' = Applied(view, net[s].reply.rows, Priority.changes, net[s].subject)
        /\ feed'.generation = feed.generation /\ feed'.cursor = net[s].reply.next
        /\ feed'.latest = LatestKnown(net[s]) /\ feed'.before = feed.before
    BY <1>2, <1>5, <1>8, <1>9 DEF r
  <2> QED BY <2>1, ChangesShown
<1>11. CASE net' = Done(s)
  BY <1>8, <1>10, <1>11, ShowsRows
<1>12. CASE net' = Sent(net, s, q)
  <2>1. /\ net' \in [Slots -> RequestSet] /\ net'[s] = q
        /\ \A t \in Slots \ {s} : net'[t] = net[t]
    BY <1>1, <1>6, <1>12 DEF Sent
  <2>2. SlotOk(q, feed', view')
    BY <1>1, <1>5, <1>6, <1>8, <1>10, SentOk
  <2>3. Brings(net', s, feed', view')
    BY <1>10, <2>1, <2>2 DEF Brings
  <2>4. Sound(feed', view', net')
    BY <1>1, <1>8, <1>10, <2>1, <2>3, StepSound
  <2> QED BY <1>8, <1>10, <2>1, <2>4 DEF ClientStep
<1> QED BY <1>2, <1>11, <1>12

\* A mutation shows its result at once, and the cursor stays.
LEMMA MutationSound ==
  ASSUME Types, Sound(feed, view, net), NEW s \in Slots, MutationArrives(s)
  PROVE  ClientStep
<1> DEFINE r == net[s]
           c == feed.cursor
           seqs == {row.seq : row \in r.reply.rows}
           g == [feed EXCEPT !.latest = Max({@} \cup seqs)]
<1>1. /\ StoreTypeOK /\ feed \in Feed /\ view \in ViewSet /\ net \in [Slots -> RequestSet]
      /\ c \in Nat /\ feed.latest \in Nat /\ Latest \in Nat
  BY StoreShape DEF Types, Feed
<1>2. /\ Arrived(s, Changing) /\ net' = Done(s)
      /\ \/ /\ view' = Applied(view, r.reply.rows, Priority.mutation, r.subject) /\ feed' = g
            /\ r.generation # 0
         \/ view' = view /\ feed' = feed
  BY DEF MutationArrives
<1>3. /\ r \in RequestSet /\ r.kind \in Changing /\ r.phase = "answered" /\ ~r.stale
      /\ r.generation = feed.generation /\ r.subject = feed.subject
      /\ r.reply.rows \in SUBSET Row
      /\ SlotOk(r, feed, view) /\ \A row \in r.reply.rows : row.seq <= Latest
  BY <1>2, Answered
<1>4. CASE view' = view /\ feed' = feed
  <2>1. Alike(feed, feed')
    BY <1>4 DEF Alike
  <2> QED BY <1>1, <1>2, <1>4, <2>1, KeepsOn, DoneLeaves
<1>5. CASE /\ view' = Applied(view, r.reply.rows, Priority.mutation, r.subject) /\ feed' = g
           /\ r.generation # 0
  <2>1. Max({feed.latest} \cup seqs) \in Nat /\ feed.latest <= Max({feed.latest} \cup seqs)
    <3> DEFINE S == {feed.latest} \cup seqs
               n == feed.latest + Latest
    <3>1. \A row \in r.reply.rows : row.seq \in Nat /\ row.seq <= n
      BY <1>1, <1>3 DEF Row
    <3>2. \A x \in seqs : x \in Nat /\ x <= n
      BY <3>1
    <3> HIDE DEF seqs
    <3>3. S \in SUBSET Nat /\ n \in Nat /\ feed.latest \in S /\ \A x \in S : x <= n
      BY <1>1, <3>2
    <3> HIDE DEF S, n
    <3>4. Max(S) \in S /\ \A y \in S : Max(S) >= y
      BY <3>3, MaxOf
    <3> QED BY <1>1, <3>3, <3>4 DEF S
  <2> HIDE DEF seqs
  <2>2. /\ g \in Feed /\ g.generation = feed.generation /\ g.cursor = feed.cursor
        /\ g.before = feed.before /\ g.initialized = feed.initialized /\ feed.latest <= g.latest
    BY <1>1, <2>1 DEF Feed
  <2> HIDE DEF g, r, c
  <2>3. FeedOk(g)
    <3>1. FeedOk(feed) /\ g.latest \in Nat
      BY <2>2 DEF Sound, Feed
    <3> QED BY <1>1, <2>2, <3>1 DEF FeedOk, c
  <2>4. r.subject \in Subjects /\ Priority.mutation \in 0..2
    BY <1>3 DEF RequestSet, Priority
  <2>5. view' \in ViewSet /\ Carries(view, c, view', c, r.reply.rows)
    <3>1. /\ c <= c /\ Logged(c, c, r.reply.rows)
      BY <1>1 DEF Logged
    <3>2. /\ c \in Nat /\ view \in ViewSet /\ r.reply.rows \in SUBSET Row
          /\ r.subject \in Subjects /\ StoreTypeOK /\ \A row \in r.reply.rows : row.seq <= Latest
          /\ view' = Applied(view, r.reply.rows, Priority.mutation, r.subject)
      BY <1>1, <1>3, <1>5, <2>4
    <3> QED BY <2>4, <3>1, <3>2, AppliedSound
  <2>6. ASSUME g.generation = gen PROVE ViewOk(g, view')
    <3>1. GoodCursor(c) /\ Faithful(view, c) /\ Covered(view, c, feed.before)
      BY <2>2, <2>6 DEF Sound, ViewOk, c
    <3>2. MutationOk(r, feed, view)
      BY <1>3, <2>2, <2>6 DEF SlotOk
    <3>3. \A row \in r.reply.rows : Valid(row.id, row.status, row.seq)
                                    /\ Seen(view, c, row.id, row.seq)
      BY <3>2 DEF MutationOk, RowsValid, c
    <3> QED BY <2>2, <2>5, <3>1, <3>3 DEF Carries, ViewOk, c
  <2>7. \A t \in Slots \ {s} : Goes(net[t], feed, view, g, view')
    BY <2>2, <2>5 DEF Goes, Carries, c
  <2> QED BY <1>2, <1>5, <2>2, <2>3, <2>5, <2>6, <2>7, ShowsRows
<1> QED BY <1>2, <1>4, <1>5

-----------------------------------------------------------------------------
(* The server.                                                              *)

\* A page is a snapshot: all that it says is so.
LEMMA ServePageSound ==
  ASSUME Types, StoreOk, Sound(feed, view, net), NEW s \in Slots, ServePage(s)
  PROVE  ClientStep
<1> DEFINE r == net[s]
           q == net'[s]
<1>1. /\ StoreTypeOK /\ feed \in Feed /\ view \in ViewSet /\ net \in [Slots -> RequestSet]
      /\ feed' = feed /\ view' = view /\ Latest \in Nat /\ gen \in Nat \ {0} /\ feed.cursor \in Nat
  BY StoreShape DEF Types, ServePage, StoreTypeOK, Feed
<1>2. /\ r \in RequestSet /\ r.at \in Nat /\ r.phase = "sent" /\ SlotOk(r, feed, view)
      /\ r.generation = gen /\ ~r.stale => GoodCursor(feed.cursor)
  BY <1>1 DEF RequestSet, ServePage, Sound, SlotOk, ViewOk
<1>3. /\ q \in RequestSet /\ SlotOk(q, feed, view) /\ q.kind = r.kind /\ q.stale = r.stale
      /\ net' = [net EXCEPT ![s] = q]
  <2>1. CASE r.kind \in {"history", "older"} /\ Answer(s, ChatMessagesPage(r.at, HistoryLimit))
    <3> DEFINE p == ChatMessagesPage(r.at, HistoryLimit)
               a == [r EXCEPT !.phase = "answered", !.reply = p]
    <3>1. net' = [net EXCEPT ![s] = a] /\ q = a
      BY <1>1, <2>1 DEF Answer
    <3>2. /\ p \in ReplySet /\ p.gen = gen /\ p.latest = Latest
          /\ \A row \in p.rows : row.seq = Latest /\ Valid(row.id, row.status, row.seq)
          /\ \A i \in Present : i >= p.next /\ (r.at = 0 \/ i < r.at) =>
               \E row \in p.rows : row.id = i
      BY <1>1, <1>2, HistoryPage
    <3> HIDE DEF p, r
    <3>3. /\ a \in RequestSet /\ a.kind = r.kind /\ a.stale = r.stale /\ a.reply = p
          /\ a.phase = "answered" /\ a.generation = r.generation /\ a.at = r.at /\ a.ids = r.ids
      BY <1>2, <3>2 DEF RequestSet, Phases
    <3> HIDE DEF a, q
    <3>4. RowsValid(a) /\ PageComplete(a) /\ GoodCursor(Latest)
      BY <1>1, <3>2, <3>3 DEF RowsValid, PageComplete, GoodCursor
    <3>5. ~r.stale => PageOk(a, feed, view)
      <4> SUFFICES ASSUME ~r.stale PROVE PageOk(a, feed, view)
        OBVIOUS
      <4>1. r.generation = gen => \A i \in Ids : Seen(view, feed.cursor, i, Latest)
        BY <1>1, <1>2 DEF GoodCursor, Seen
      <4> QED BY <1>1, <3>2, <3>3, <3>4, <4>1 DEF PageOk
    <3>6. SlotOk(a, feed, view)
      BY <1>1, <1>2, <2>1, <3>2, <3>3, <3>5 DEF SlotOk, Changing
    <3> QED BY <3>1, <3>3, <3>6 DEF q
  <2>2. CASE /\ r.kind = "changes" /\ ~CursorResetRequired(r.at, r.generation, ChangesLimit)
             /\ Answer(s, ChatChangesPage(r.at, ChangesLimit))
    <3> DEFINE p == ChatChangesPage(r.at, ChangesLimit)
               a == [r EXCEPT !.phase = "answered", !.reply = p]
    <3>1. net' = [net EXCEPT ![s] = a] /\ q = a
      BY <1>1, <2>2 DEF Answer
    <3>2. /\ p \in ReplySet /\ p.latest = Latest /\ r.at <= p.next /\ p.next <= Latest
          /\ \A row \in p.rows : row.seq > r.at /\ Valid(row.id, row.status, row.seq)
          /\ \A t \in (r.at + 1)..p.next : \E row \in p.rows : row.id = chg[t] /\ row.seq = t
      <4>1. r.at \in Nat /\ ~CursorResetRequired(r.at, r.generation, ChangesLimit)
        BY <1>2, <2>2
      <4> QED BY <1>1, <4>1, ChangesPage
    <3> HIDE DEF p, r
    <3>3. /\ a \in RequestSet /\ a.kind = r.kind /\ a.stale = r.stale /\ a.reply = p
          /\ a.phase = "answered" /\ a.generation = r.generation /\ a.at = r.at /\ a.ids = r.ids
      BY <1>2, <3>2 DEF RequestSet, Phases
    <3> HIDE DEF a, q
    <3>4. RowsValid(a) /\ \A row \in p.rows : row.seq <= Latest
      BY <3>2, <3>3 DEF RowsValid, Valid
    <3>5. ~r.stale => ChangesOk(a, feed)
      BY <1>1, <1>2, <2>2, <3>2, <3>3, <3>4 DEF ChangesOk, SlotOk
    <3>6. SlotOk(a, feed, view)
      BY <1>2, <2>2, <3>3, <3>4, <3>5 DEF SlotOk, Changing
    <3> QED BY <3>1, <3>3, <3>6 DEF q
  <2>3. CASE r.kind = "changes" /\ net' = [net EXCEPT ![s].phase = "resetRequired"]
    <3> DEFINE a == [r EXCEPT !.phase = "resetRequired"]
    <3>1. net' = [net EXCEPT ![s] = a] /\ q = a
      BY <1>1, <2>3
    <3> HIDE DEF r
    <3>2. /\ a \in RequestSet /\ a.kind = r.kind /\ a.stale = r.stale /\ a.reply = r.reply
          /\ a.phase # "answered" /\ a.generation = r.generation /\ a.at = r.at /\ a.ids = r.ids
      BY <1>2 DEF RequestSet, Phases
    <3> HIDE DEF a, q
    <3>3. SlotOk(a, feed, view)
      BY <1>2, <2>3, <3>2 DEF SlotOk, ChangesOk, Changing
    <3> QED BY <3>1, <3>2, <3>3 DEF q
  <2> QED BY <2>1, <2>2, <2>3 DEF ServePage
<1> HIDE DEF q
<1>4. /\ net' \in [Slots -> RequestSet] /\ net'[s] = q
      /\ \A t \in Slots \ {s} : net'[t] = net[t]
  BY <1>1, <1>3
<1>5. Brings(net', s, feed, view)
  <2>1. q.kind = "changes" /\ ~q.stale =>
          \A t \in Slots \ {s} : net'[t].kind = "changes" => net'[t].stale
    BY <1>3, <1>4 DEF Sound, OneReader
  <2> QED BY <1>3, <1>4, <2>1 DEF Brings
<1>6. /\ \A t : Goes(t, feed, view, feed, view)
      /\ FeedOk(feed) /\ (feed.generation = gen => ViewOk(feed, view))
  BY AlikeGoes DEF Alike, Sound
<1>7. Sound(feed, view, net')
  BY <1>1, <1>4, <1>5, <1>6, StepSound
<1> QED BY <1>1, <1>4, <1>7 DEF ClientStep

-----------------------------------------------------------------------------
(* Steps of the store.                                                      *)

LEMMA StoreStepSound ==
  ASSUME StoreTypeOK, StoreStep, NEW f \in Feed, NEW v \in ViewSet,
         NEW n \in [Slots -> RequestSet], Sound(f, v, n)
  PROVE  Sound(f, v, n)'
<1>1. CASE Grows
  BY <1>1, GrowsSound
<1>2. CASE Removes
  <2>1. gen' \in Nat
    BY DEF StoreStep, StoreTypeOK
  <2> QED BY <1>2, <2>1, RemovesSound
<1>3. CASE UNCHANGED store
  BY <1>3, SMTT(60) DEF store, Sound, FeedOk, OneReader, ViewOk, SlotOk, PageOk, ChangesOk,
     MutationOk, GoodCursor, Faithful, Covered, Valid, Seen, Shown, Changed, RowsValid,
     PageComplete, Present, Latest
<1> QED BY <1>1, <1>2, <1>3 DEF StoreStep

\* The client after a step of the store alone, or with one request answered.
LEMMA StoreStepAlone ==
  ASSUME Types, Sound(feed, view, net), StoreStep, UNCHANGED <<feed, view, net>>
  PROVE  Sound(feed, view, net)'
<1>1. PICK f, v, n : f = feed /\ v = view /\ n = net
  OBVIOUS
<1>2. f \in Feed /\ v \in ViewSet /\ n \in [Slots -> RequestSet] /\ Sound(f, v, n) /\ StoreTypeOK
  BY <1>1 DEF Types
<1>3. Sound(f, v, n)'
  BY <1>2, StoreStepSound
<1>4. f = feed' /\ v = view' /\ n = net'
  BY <1>1
<1> QED BY <1>3, <1>4

LEMMA AnsweredSound ==
  ASSUME NEW f, NEW v, NEW n, NEW m, NEW s \in Slots, Sound(f, v, n)',
         \A t \in Slots \ {s} : m[t] = n[t], m[s].kind = n[s].kind, m[s].stale = n[s].stale,
         SlotOk(m[s], f, v)'
  PROVE  Sound(f, v, m)'
<1>1. OneReader(n)' => OneReader(m)'
  BY DEF OneReader
<1>2. \A t \in Slots : m[t] = n[t] \/ t = s
  OBVIOUS
<1> QED BY <1>1, <1>2 DEF Sound

WithRows(r, ids, status) ==
  [r EXCEPT !.phase = "answered", !.reply = MutationReply(ids, status)]

\* A mutation is answered with its messages as it left them: no later change
\* of them is shown yet.
LEMMA AnsweredMutation ==
  ASSUME StoreTypeOK, Grows, NEW f \in Feed, NEW v \in ViewSet, NEW r \in RequestSet,
         SlotOk(r, f, v), f.generation = gen => GoodCursor(f.cursor), r.kind \in Changing,
         NEW ids \in SUBSET Ids, NEW status \in Statuses,
         \A i \in ids : /\ i \in Present' /\ msgs'[i] = status /\ Rank(i, ids) \in Nat \ {0}
                        /\ Latest + Rank(i, ids) <= Latest',
         NEW q, q = WithRows(r, ids, status)
  PROVE  q \in RequestSet /\ q.kind = r.kind /\ q.stale = r.stale /\ SlotOk(q, f, v)'
<1> DEFINE p == MutationReply(ids, status)
<1>1. /\ Latest \in Nat /\ Latest' \in Nat /\ gen' = gen /\ gen \in Nat \ {0} /\ f.cursor \in Nat
      /\ f.generation \in Nat
  BY StoreShape DEF Grows, StoreTypeOK, Feed
<1>2. /\ p.gen = 0 /\ p.latest = 0 /\ p.next = 0
      /\ p.rows = {[id |-> i, status |-> status, seq |-> Latest + Rank(i, ids)] : i \in ids}
      /\ p = [gen |-> 0, latest |-> 0, next |-> 0, rows |-> p.rows]
  <2> DEFINE x == {[id |-> i, status |-> status, seq |-> Latest + Rank(i, ids)] : i \in ids}
  <2>1. p = [NoReply EXCEPT !.rows = x]
    BY DEF MutationReply
  <2> HIDE DEF x, p
  <2>2. /\ p.gen = 0 /\ p.latest = 0 /\ p.next = 0 /\ p.rows = x
        /\ p = [gen |-> 0, latest |-> 0, next |-> 0, rows |-> p.rows]
    BY <2>1 DEF NoReply
  <2> QED BY <2>2 DEF x
<1> HIDE DEF p
<1>3. \A row \in p.rows : \E i \in ids : /\ row = [id |-> i, status |-> status,
                                                   seq |-> Latest + Rank(i, ids)]
                                         /\ i \in Ids /\ Latest + Rank(i, ids) \in Nat
                                         /\ Latest < Latest + Rank(i, ids)
  BY <1>1, <1>2
<1>4. \A row \in p.rows : /\ row \in Row /\ row.id \in Present' /\ row.status = msgs'[row.id]
                          /\ Latest < row.seq /\ row.seq <= Latest'
  BY <1>3 DEF Row
<1>5. p \in ReplySet
  <2>1. p.rows \in SUBSET Row
    BY <1>4
  <2> QED BY <1>2, <2>1 DEF ReplySet
<1>6. /\ q \in RequestSet /\ q.kind = r.kind /\ q.stale = r.stale /\ q.reply = p
      /\ q.generation = r.generation /\ q.ids = r.ids /\ q.at = r.at
  BY <1>5 DEF RequestSet, Phases, WithRows, p
<1>7. RowsValid(q)'
  BY <1>4, <1>6 DEF RowsValid, Valid
<1>8. ~r.stale /\ r.generation = gen => MutationOk(q, f, v)'
  <2> SUFFICES ASSUME ~r.stale, r.generation = gen PROVE MutationOk(q, f, v)'
    OBVIOUS
  <2>1. f.cursor <= Latest
    BY <1>1 DEF SlotOk, GoodCursor
  <2>2. \A row \in p.rows : \A s \in (row.seq + 1)..f.cursor : FALSE
    BY <1>1, <1>4, <2>1 DEF Row
  <2>3. \A row \in p.rows : Seen(v, f.cursor, row.id, row.seq)'
    BY <2>2 DEF Seen
  <2> QED BY <1>6, <1>7, <2>3 DEF MutationOk
<1>9. SlotOk(q, f, v)'
  BY <1>1, <1>4, <1>6, <1>8 DEF SlotOk, Changing
<1> QED BY <1>6, <1>9

\* What the transaction of a mutation did: the messages ids have a new status.
Mutates(ids, status) ==
  /\ StoreTypeOK' /\ Grows
  /\ \A i \in ids : /\ i \in Present' /\ msgs'[i] = status /\ Rank(i, ids) \in Nat \ {0}
                    /\ Latest + Rank(i, ids) <= Latest'

LEMMA ChangeMutates ==
  ASSUME StoreTypeOK, NEW ids \in SUBSET DOMAIN msgs, NEW status \in Statuses \ {"gone"},
         Change(ids, status)
  PROVE  Mutates(ids, status) /\ ids \in SUBSET Ids
<1>1. Latest \in Nat /\ DOMAIN msgs \subseteq Ids
  BY StoreShape
<1>2. /\ StoreTypeOK' /\ Grows /\ Latest' = Latest + Cardinality(ids)
      /\ \A i \in ids : i \in Present' /\ msgs'[i] = status
                        /\ Rank(i, ids) \in 1..Cardinality(ids)
                        /\ chg'[Latest + Rank(i, ids)] = i
  BY ChangeGrows
<1>3. Cardinality(ids) \in Nat
  <2>1. DOMAIN msgs = 1..Len(msgs) /\ Len(msgs) \in Nat
    BY StoreShape
  <2>2. IsFiniteSet(DOMAIN msgs)
    BY <2>1, FS_Interval
  <2>3. IsFiniteSet(ids)
    BY <2>2, FS_Subset
  <2> QED BY <2>3, FS_CardinalityType
<1>4. \A i \in ids : Rank(i, ids) \in Nat \ {0} /\ Latest + Rank(i, ids) <= Latest'
  BY <1>1, <1>2, <1>3
<1> QED BY <1>1, <1>2, <1>4 DEF Mutates

\* A mutation that the store has made, answered.
LEMMA ServedMutation ==
  ASSUME Types, Sound(feed, view, net), NEW s \in Slots, UNCHANGED <<feed, view>>,
         net[s].kind \in Changing, NEW ids \in SUBSET Ids, NEW status \in Statuses,
         Mutates(ids, status), Answer(s, MutationReply(ids, status))
  PROVE  net' \in [Slots -> RequestSet] /\ Sound(feed, view, net)'
<1> DEFINE a == WithRows(net[s], ids, status)
<1>1. net' = [net EXCEPT ![s] = a]
  BY DEF Types, Answer, WithRows
<1>2. PICK f, v, n, q : f = feed /\ v = view /\ n = net /\ q = a
  OBVIOUS
<1> HIDE DEF a
<1>3. /\ f \in Feed /\ v \in ViewSet /\ n \in [Slots -> RequestSet] /\ Sound(f, v, n)
      /\ StoreTypeOK /\ n[s] \in RequestSet
  BY <1>2 DEF Types
<1>4. q \in RequestSet /\ q.kind = n[s].kind /\ q.stale = n[s].stale /\ SlotOk(q, f, v)'
  <2>1. /\ Grows /\ SlotOk(n[s], f, v) /\ (f.generation = gen => GoodCursor(f.cursor))
        /\ n[s].kind \in Changing
        /\ \A i \in ids : /\ i \in Present' /\ msgs'[i] = status /\ Rank(i, ids) \in Nat \ {0}
                          /\ Latest + Rank(i, ids) <= Latest'
        /\ q = WithRows(n[s], ids, status)
    BY <1>2, <1>3 DEF Mutates, Sound, ViewOk, a
  <2> QED BY <1>3, <2>1, AnsweredMutation
<1>5. Sound(f, v, n)'
  <2>1. StoreStep
    BY DEF Mutates, StoreStep
  <2> QED BY <1>3, <2>1, StoreStepSound
<1>6. PICK m : m = net'
  OBVIOUS
<1>7. m \in [Slots -> RequestSet] /\ m[s] = q /\ \A t \in Slots \ {s} : m[t] = n[t]
  BY <1>1, <1>2, <1>3, <1>4, <1>6
<1>8. Sound(f, v, m)'
  BY <1>4, <1>5, <1>7, AnsweredSound
<1>9. f = feed' /\ v = view' /\ m = net'
  BY <1>2, <1>6
<1> QED BY <1>7, <1>8, <1>9

LEMMA ServedClear ==
  ASSUME Types, StoreOk, Sound(feed, view, net), NEW s \in Slots, UNCHANGED <<feed, view>>,
         net[s].kind = "clear", StoreStep, Answer(s, NoReply)
  PROVE  net' \in [Slots -> RequestSet] /\ Sound(feed, view, net)'
<1> DEFINE a == [net[s] EXCEPT !.phase = "answered", !.reply = NoReply]
<1>1. net' = [net EXCEPT ![s] = a]
  BY DEF Types, Answer
<1>2. PICK f, v, n, q : f = feed /\ v = view /\ n = net /\ q = a
  OBVIOUS
<1>3. /\ f \in Feed /\ v \in ViewSet /\ n \in [Slots -> RequestSet] /\ Sound(f, v, n)
      /\ StoreTypeOK /\ n[s] \in RequestSet /\ n[s].kind = "clear"
  BY <1>2 DEF Types
<1>4. q = [n[s] EXCEPT !.phase = "answered", !.reply = NoReply]
  BY <1>2
<1> HIDE DEF a
<1>5. /\ q \in RequestSet /\ q.kind = n[s].kind /\ q.stale = n[s].stale /\ q.ids = n[s].ids
      /\ q.generation = n[s].generation /\ q.at = n[s].at /\ q.reply = NoReply
  <2>1. NoReply \in ReplySet
    BY DEF NoReply, ReplySet
  <2> QED BY <1>3, <1>4, <2>1 DEF RequestSet, Phases
<1>6. Sound(f, v, n)'
  BY <1>3, StoreStepSound
<1>7. SlotOk(q, f, v)'
  <2>1. SlotOk(n[s], f, v)'
    BY <1>6 DEF Sound
  <2> QED BY <1>3, <1>5, <2>1 DEF SlotOk, NoReply, Changing
<1>8. PICK m : m = net'
  OBVIOUS
<1>9. m \in [Slots -> RequestSet] /\ m[s] = q /\ \A t \in Slots \ {s} : m[t] = n[t]
  BY <1>1, <1>2, <1>3, <1>5, <1>8
<1>10. Sound(f, v, m)'
  BY <1>5, <1>6, <1>7, <1>9, AnsweredSound
<1>11. f = feed' /\ v = view' /\ m = net'
  BY <1>2, <1>8
<1> QED BY <1>9, <1>10, <1>11

LEMMA ServeMutationSound ==
  ASSUME Types, StoreOk, Sound(feed, view, net), NEW s \in Slots, ServeMutation(s)
  PROVE  StoreStep /\ net' \in [Slots -> RequestSet] /\ Sound(feed, view, net)'
<1> DEFINE r == net[s]
<1>1. /\ StoreTypeOK /\ net \in [Slots -> RequestSet] /\ r \in RequestSet
      /\ DOMAIN msgs \subseteq Ids /\ Ids \subseteq Nat /\ UNCHANGED <<feed, view>>
  BY StoreShape DEF Types, ServeMutation
<1>2. r.kind \in {"withdraw", "delete"} => \E i \in Ids : r.ids = {i}
  BY <1>1 DEF Sound, SlotOk
<1> HIDE DEF r
<1>3. ASSUME NEW ids \in SUBSET Ids, NEW status \in Statuses, Mutates(ids, status),
             r.kind \in Changing, Answer(s, MutationReply(ids, status))
      PROVE  StoreStep /\ net' \in [Slots -> RequestSet] /\ Sound(feed, view, net)'
  BY <1>1, <1>3, ServedMutation DEF Mutates, StoreStep, r
<1>4. CASE /\ r.kind = "send" /\ CreateChatMessage
           /\ Answer(s, MutationReply({Len(msgs) + 1}, "active"))
  <2> DEFINE i == Len(msgs) + 1
  <2>1. /\ StoreTypeOK' /\ Grows /\ i \in Ids /\ i \in Present' /\ msgs'[i] = "active"
    BY <1>1, <1>4, CreateGrows
  <2>2. Rank(i, {i}) = 1
    BY <1>1, <2>1, RankOfOne
  <2>3. Latest + 1 <= Latest'
    <3>1. Latest \in Nat /\ Len(msgs) \in Nat /\ DOMAIN msgs = 1..Len(msgs)
      BY <1>1, StoreShape
    <3>2. i \notin Present
      BY <3>1 DEF Present
    <3>3. PICK t \in (Latest + 1)..Latest' : chg'[t] = i
      BY <2>1, <3>2 DEF Grows
    <3>4. Latest' \in Nat
      BY <2>1 DEF Grows
    <3> QED BY <3>1, <3>3, <3>4
  <2>4. "active" \in Statuses /\ "send" \in Changing
    BY DEF Statuses, Changing
  <2> HIDE DEF i
  <2>5. Mutates({i}, "active")
    BY <2>1, <2>2, <2>3 DEF Mutates
  <2> QED BY <1>3, <1>4, <2>1, <2>4, <2>5 DEF i
<1>5. ASSUME NEW ids \in SUBSET DOMAIN msgs, NEW status \in Statuses \ {"gone"}, Change(ids, status),
             r.kind \in Changing, Answer(s, MutationReply(ids, status))
      PROVE  StoreStep /\ net' \in [Slots -> RequestSet] /\ Sound(feed, view, net)'
  <2>1. Mutates(ids, status) /\ ids \in SUBSET Ids
    BY <1>1, <1>5, ChangeMutates
  <2> QED BY <1>3, <1>5, <2>1
<1>6. {"withdrawn", "deleted"} \subseteq Statuses \ {"gone"}
      /\ {"withdraw", "delete", "batch"} \subseteq Changing
  BY DEF Statuses, Changing
<1>7. CASE /\ r.kind = "withdraw" /\ \E i \in r.ids : WithdrawChatMessage(i)
           /\ Answer(s, MutationReply(r.ids, "withdrawn"))
  <2>1. r.ids \in SUBSET DOMAIN msgs /\ Change(r.ids, "withdrawn")
    BY <1>2, <1>7 DEF WithdrawChatMessage
  <2> QED BY <1>5, <1>6, <1>7, <2>1
<1>8. CASE /\ r.kind = "delete" /\ \E i \in r.ids : DeleteChatMessage(i, TRUE)
           /\ Answer(s, MutationReply(r.ids, "deleted"))
  <2>1. r.ids \in SUBSET DOMAIN msgs /\ Change(r.ids, "deleted")
    BY <1>2, <1>8 DEF DeleteChatMessage
  <2> QED BY <1>5, <1>6, <1>8, <2>1
<1>9. CASE /\ r.kind = "batch" /\ BatchDeleteChatMessages(r.ids)
           /\ Answer(s, MutationReply(r.ids, "deleted"))
  <2>1. r.ids \in SUBSET DOMAIN msgs /\ Change(r.ids, "deleted")
    BY <1>9 DEF BatchDeleteChatMessages
  <2> QED BY <1>5, <1>6, <1>9, <2>1
<1>10. CASE /\ r.kind = "clear" /\ ClearChatMessages(r.generation, r.at)
            /\ Answer(s, NoReply)
  <2>1. RemoveRows(Present)
    BY <1>10 DEF ClearChatMessages
  <2>2. StoreStep
    BY <1>1, <2>1, RemoveRemoves DEF StoreStep
  <2> QED BY <1>1, <1>10, <2>2, ServedClear DEF r
<1> QED BY <1>4, <1>7, <1>8, <1>9, <1>10 DEF ServeMutation, r

LEMMA OthersSound ==
  ASSUME Types, StoreOk, Sound(feed, view, net), Others
  PROVE  StoreStep /\ Sound(feed, view, net)'
<1>1. StoreTypeOK /\ UNCHANGED <<feed, view, net>>
  BY DEF Types, Others
<1>2. Writes
  BY DEF Others, Writes
<1>3. StoreStep
  BY <1>1, <1>2, WritesStep
<1> QED BY <1>1, <1>3, StoreStepAlone

-----------------------------------------------------------------------------
(* The invariant.                                                           *)

Quiet == disturbances' = disturbances \/ Disturb

LEMMA QuietType ==
  ASSUME disturbances \in 0..MaxDisturbances, Quiet
  PROVE  disturbances' \in 0..MaxDisturbances
<1>1. MaxDisturbances \in Nat
  BY DEF SyncAssumption
<1> QED BY <1>1 DEF Quiet, Disturb

\* A step of the client leaves the store alone.
LEMMA ClientStepKeeps ==
  ASSUME CInv, ClientStep, UNCHANGED store, Quiet
  PROVE  CInv'
<1>1. Sound(feed', view', net')
  BY DEF ClientStep
<1>2. Sound(feed, view, net)'
  BY <1>1, SMTT(60) DEF store, Sound, FeedOk, OneReader, ViewOk, SlotOk, PageOk, ChangesOk,
     MutationOk, GoodCursor, Faithful, Covered, Valid, Seen, Shown, Changed, RowsValid,
     PageComplete, Present, Latest
<1>3. StoreTypeOK' /\ StoreOk'
  <2>1. StoreTypeOK /\ StoreOk
    BY DEF CInv, Types
  <2>2. StoreTypeOK'
    BY <2>1 DEF store, StoreTypeOK
  <2> QED BY <2>1, <2>2, StoreKept DEF StoreStep
<1>4. disturbances' \in 0..MaxDisturbances
  BY QuietType DEF CInv, Types
<1> QED BY <1>2, <1>3, <1>4 DEF CInv, Types, ClientStep

LEMMA StoreStepKeeps ==
  ASSUME CInv, StoreStep, UNCHANGED <<feed, view, disturbances>>,
         net' \in [Slots -> RequestSet], Sound(feed, view, net)'
  PROVE  CInv'
<1>1. StoreTypeOK' /\ StoreOk'
  <2>1. StoreTypeOK /\ StoreOk
    BY DEF CInv, Types
  <2> QED BY <2>1, StoreKept DEF StoreStep
<1> QED BY <1>1 DEF CInv, Types

LEMMA InitSound ==
  ASSUME Init
  PROVE  CInv
<1>1. PICK s \in Slots :
        net = [[t \in Slots |-> NoRequest] EXCEPT ![s] = Request(feed, "history", 0, 0)]
  BY DEF Init
<1> DEFINE r == Request(feed, "history", 0, 0)
<1>2. /\ feed \in Feed /\ feed.generation = 0 /\ feed.cursor = 0 /\ feed.latest = 0
      /\ ~feed.initialized
  BY DEF Init, Feed, Subjects
<1>3. /\ msgs = <<>> /\ chg = <<>> /\ gen = 1 /\ view = NothingShown /\ disturbances = 0
  BY DEF Init, StoreInit
<1>4. StoreTypeOK /\ StoreOk
  <2>1. Len(msgs) <= MaxMessages
    BY <1>3 DEF StoreAssumption
  <2> QED BY <1>3, <2>1 DEF StoreTypeOK, StoreOk
<1>5. /\ r \in RequestSet /\ r.kind = "history" /\ r.phase = "sent" /\ ~r.stale /\ r.at = 0
      /\ r.generation = feed.generation /\ r.reply = NoReply
  <2>1. "history" \in Kinds /\ 0 \in Nat
    BY DEF Kinds
  <2> QED BY <1>2, <2>1, RequestType
<1>6. NoRequest \in RequestSet /\ view \in ViewSet
  BY <1>3, NoRequestType
<1> HIDE DEF r
<1>7. /\ net \in [Slots -> RequestSet] /\ net[s] = r
      /\ \A t \in Slots \ {s} : net[t] = NoRequest
  BY <1>1, <1>5, <1>6 DEF r
<1>8. FeedOk(feed) /\ feed.generation # gen
  BY <1>2, <1>3 DEF FeedOk
<1>9. SlotOk(r, feed, view) /\ SlotOk(NoRequest, feed, view)
  <2>1. SlotOk(r, feed, view)
    BY <1>2, <1>4, <1>5, <1>8, SentOk
  <2>2. SlotOk(NoRequest, feed, view)
    BY <1>3 DEF NoRequest, NoReply, SlotOk, Changing
  <2> QED BY <2>1, <2>2
<1>10. OneReader(net)
  BY <1>5, <1>7 DEF OneReader, NoRequest
<1>11. Sound(feed, view, net)
  <2>1. \A t \in Slots : t = s \/ net[t] = NoRequest
    BY <1>7
  <2> QED BY <1>7, <1>8, <1>9, <1>10, <2>1 DEF Sound
<1>12. disturbances \in 0..MaxDisturbances
  BY <1>3 DEF SyncAssumption
<1> QED BY <1>2, <1>4, <1>6, <1>7, <1>11, <1>12 DEF CInv, Types

LEMMA StepKeeps ==
  ASSUME CInv, [Next]_vars
  PROVE  CInv'
<1>1. Types /\ StoreOk /\ Sound(feed, view, net) /\ net \in [Slots -> RequestSet]
  BY DEF CInv, Types
<1>2. CASE Others
  <2>1. UNCHANGED <<feed, view, net, disturbances>>
    BY <1>2 DEF Others
  <2> QED BY <1>1, <1>2, <2>1, OthersSound, StoreStepKeeps
<1>3. CASE TimerFires \/ Hide \/ Show
  <2>1. UNCHANGED store /\ Quiet
    BY <1>3 DEF TimerFires, Hide, Show, store, Quiet
  <2> QED BY <1>1, <1>3, <2>1, PageEvents, ClientStepKeeps
<1>4. CASE UserActs
  <2>1. UNCHANGED store /\ Quiet
    BY <1>4 DEF UserActs, LoadOlder, RetryInitial, Reload, Rebind, Mutate, store, Quiet
  <2> QED BY <1>1, <1>4, <2>1, UserSound, ClientStepKeeps
<1>5. ASSUME NEW s \in Slots, ServePage(s) PROVE CInv'
  <2>1. UNCHANGED store /\ Quiet
    BY <1>5 DEF ServePage, store, Quiet
  <2> QED BY <1>1, <1>5, <2>1, ServePageSound, ClientStepKeeps
<1>6. ASSUME NEW s \in Slots, ServeMutation(s) PROVE CInv'
  <2>1. UNCHANGED <<feed, view, disturbances>>
    BY <1>6 DEF ServeMutation
  <2> QED BY <1>1, <1>6, <2>1, ServeMutationSound, StoreStepKeeps
<1>7. ASSUME NEW s \in Slots,
             \/ Ignore(s) \/ MutationRefused(s) \/ Fail(s) \/ Unauthorized(s)
             \/ ResetArrives(s) \/ ClearArrives(s) \/ ClearConflicts(s)
      PROVE  CInv'
  <2>1. UNCHANGED store /\ Quiet
    BY <1>7 DEF Ignore, MutationRefused, Fail, Unauthorized, ResetArrives, ClearArrives,
                ClearConflicts, store, Quiet
  <2>2. ClientStep
    BY <1>1, <1>7, EndsSound
  <2> QED BY <2>1, <2>2, ClientStepKeeps
<1>8. ASSUME NEW s \in Slots,
             HistoryArrives(s) \/ OlderArrives(s) \/ ChangesArrive(s) \/ MutationArrives(s)
      PROVE  CInv'
  <2>1. UNCHANGED store /\ Quiet
    BY <1>8 DEF HistoryArrives, OlderArrives, ChangesArrive, MutationArrives, store, Quiet
  <2>2. ClientStep
    BY <1>1, <1>8, HistorySound, OlderSound, ChangesSound, MutationSound
  <2> QED BY <2>1, <2>2, ClientStepKeeps
<1>9. CASE UNCHANGED vars
  <2>1. UNCHANGED store /\ Quiet /\ feed' = feed /\ view' = view /\ net' = net
    BY <1>9 DEF vars, store, Quiet
  <2>2. Alike(feed, feed') /\ feed' \in Feed
    BY <1>1, <2>1 DEF Alike, Types
  <2>3. ClientStep
    BY <1>1, <2>1, <2>2, KeepsOn
  <2> QED BY <2>1, <2>3, ClientStepKeeps
<1> QED BY <1>2, <1>3, <1>4, <1>5, <1>6, <1>7, <1>8, <1>9 DEF Next, Delivery

LEMMA AlwaysSound == Spec => []CInv
BY InitSound, StepKeeps, PTL DEF Spec

\* The server and the others write, and the client does not.
LEMMA SyncWrites ==
  ASSUME [Next]_vars
  PROVE  Writes \/ UNCHANGED store
<1>1. CASE Others
  BY <1>1 DEF Others, Writes
<1>2. ASSUME NEW s \in Slots, ServeMutation(s) PROVE Writes
  BY <1>2 DEF ServeMutation, Writes
<1>3. CASE TimerFires \/ Hide \/ Show \/ UserActs
  BY <1>3 DEF TimerFires, Hide, Show, UserActs, LoadOlder, RetryInitial, Reload, Rebind,
              Mutate, store
<1>4. ASSUME NEW s \in Slots, Delivery(s) PROVE UNCHANGED store
  BY <1>4 DEF Delivery, Ignore, HistoryArrives, OlderArrives, ChangesArrive, ResetArrives,
              MutationArrives, ClearArrives, store
<1>5. ASSUME NEW s \in Slots, \/ ServePage(s) \/ ClearConflicts(s) \/ MutationRefused(s)
                              \/ Fail(s) \/ Unauthorized(s)
      PROVE  UNCHANGED store
  BY <1>5 DEF ServePage, ClearConflicts, MutationRefused, Fail, Unauthorized, store
<1>6. CASE UNCHANGED vars
  BY <1>6 DEF vars, store
<1> QED BY <1>1, <1>2, <1>3, <1>4, <1>5, <1>6 DEF Next

\* The server that the clients of a chat talk to keeps them the same promise.
THEOREM SyncKeepsPromise == Spec => KeepsChatPromise
<1>1. Init => Promise!PromiseInit
  <2> SUFFICES ASSUME Init PROVE Promise!PromiseInit
    OBVIOUS
  <2>1. msgs = <<>> /\ chg = <<>> /\ gen = 1
    BY DEF Init, StoreInit
  <2>2. Latest = 0 /\ \A i \in Ids : i \in Nat /\ ~(i <= Latest) /\ i \notin DOMAIN msgs
    BY <2>1 DEF Latest, Ids
  <2>3. \A i \in Ids : Max({0} \cup ChangesOf(i)) = 0
    <3> SUFFICES ASSUME NEW i \in Ids PROVE Max({0} \cup ChangesOf(i)) = 0
      OBVIOUS
    <3>1. ChangesOf(i) = {}
      BY <2>2 DEF ChangesOf
    <3>2. Max({0} \cup {}) = 0
      BY <2>2, LastOfChanges
    <3> QED BY <3>1, <3>2
  <2>4. LastChangeOf = [i \in Ids |-> IF i <= Latest THEN i ELSE 0]
    BY <2>2, <2>3 DEF LastChangeOf
  <2>5. StatusOf = [i \in Ids |-> IF i <= Latest THEN "active" ELSE "none"]
    BY <2>2 DEF StatusOf
  <2> QED BY <2>1, <2>2, <2>4, <2>5 DEF Promise!PromiseInit
<1>2. CInv /\ [Next]_vars => [Promise!PromiseNext]_Promise!promiseVars
  BY SyncWrites, WritesKeepPromise DEF CInv, Types
<1> QED BY <1>1, <1>2, AlwaysSound, PTL DEF Spec, KeepsChatPromise, Promise!PromiseSpec

\* The state has its type, and the client never reads on beyond what it knows
\* to be the latest change.
THEOREM TypeCorrect == Spec => []TypeOK
<1>1. CInv => TypeOK
  <2> SUFFICES ASSUME CInv PROVE TypeOK
    OBVIOUS
  <2>1. Types /\ feed.cursor <= feed.latest
    BY DEF CInv, Sound, FeedOk
  <2>2. ASSUME NEW s \in Slots
        PROVE  /\ net[s].kind \in Kinds /\ net[s].phase \in Phases
               /\ net[s].stale \in BOOLEAN /\ net[s].subject \in Subjects
               /\ net[s].ids \subseteq Ids /\ net[s].reply.rows \subseteq Row
    <3>1. net[s] \in RequestSet
      BY <2>1 DEF Types
    <3> QED BY <3>1 DEF RequestSet, ReplySet
  <2> QED BY <2>1, <2>2 DEF Types, TypeOK, ViewSet
<1> QED BY <1>1, AlwaysSound, PTL

\* A client that follows the chat shows every message of its pages as the store
\* holds it, unless a change of that message lies ahead of its cursor.
THEOREM NothingOutdatedStays == Spec => []OutdatedIsPending
<1>1. CInv => OutdatedIsPending
  <2> SUFFICES ASSUME CInv, Followed, NEW i \in Ids, Claimed(i), ~Pending(i)
               PROVE  i \in Present /\ view[i].status = msgs[i]
    BY DEF OutdatedIsPending
  <2>1. Types /\ feed.cursor \in Nat /\ feed.before \in Nat /\ i \in Nat /\ Latest \in Nat
    BY StoreShape DEF CInv, Types, Feed
  <2>2. GoodCursor(feed.cursor) /\ Faithful(view, feed.cursor)
        /\ Covered(view, feed.cursor, feed.before)
    BY DEF CInv, Sound, Followed, ViewOk
  <2>3. ~Changed(i, feed.cursor)
    BY DEF Pending, Changed
  <2>4. Shown(view, i)
    <3>1. i >= 0
      BY <2>1
    <3> QED BY <2>2, <2>3, <3>1 DEF Claimed, Covered, Shown
  <2>5. Valid(i, view[i].status, view[i].seq) /\ Seen(view, feed.cursor, i, 0)
    BY <2>2, <2>4 DEF Faithful
  <2>6. ~Changed(i, view[i].seq)
    <3> SUFFICES ASSUME NEW s \in (view[i].seq + 1)..Latest, chg[s] = i PROVE FALSE
      BY DEF Changed
    <3>1. view[i].seq \in Nat
      BY <2>1 DEF Types, ViewSet
    <3>2. CASE s <= feed.cursor
      <4>1. s \in (0 + 1)..feed.cursor
        BY <2>1, <3>1, <3>2
      <4>2. s <= view[i].seq
        BY <2>5, <4>1 DEF Seen
      <4> QED BY <3>1, <4>2
    <3>3. CASE ~(s <= feed.cursor)
      <4>1. s \in (feed.cursor + 1)..Latest
        BY <2>1, <3>1, <3>3
      <4> QED BY <2>3, <4>1 DEF Changed
    <3> QED BY <3>2, <3>3
  <2> QED BY <2>5, <2>6 DEF Valid
<1> QED BY <1>1, AlwaysSound, PTL

\* A client of the current generation is never told to start over.
THEOREM CursorNeverReset == Spec => []CursorStaysGood
<1>1. CInv => CursorStaysGood
  <2> SUFFICES ASSUME CInv, Followed
               PROVE  ~CursorResetRequired(feed.cursor, feed.generation, ChangesLimit)
    BY DEF CursorStaysGood
  <2>1. /\ feed.cursor \in Nat /\ feed.generation \in Nat /\ feed.generation = gen
        /\ feed.cursor <= Latest /\ \A s \in (feed.cursor + 1)..Latest : chg[s] # 0
        /\ Latest \in Nat /\ ChangesLimit \in Nat \ {0}
    BY StoreShape DEF CInv, Types, Feed, Sound, Followed, ViewOk, GoodCursor, SyncAssumption
  <2> QED BY <2>1, ChangesAreExact DEF ChangesExact, CInv, Types
<1> QED BY <1>1, AlwaysSound, PTL

-----------------------------------------------------------------------------
(* Whose projection it is.                                                  *)

Own(f, v) == \A i \in Ids : Shown(v, i) => v[i].subject = f.subject

\* An answer that counts is one for the subject that is bound.
LEMMA AppliedOwn ==
  ASSUME Types, Sound(feed, view, net), NEW s \in Slots, NEW kinds, Arrived(s, kinds),
         NEW v \in ViewSet, Own(feed, v), NEW p \in 0..2,
         NEW w, w = Applied(v, net[s].reply.rows, p, net[s].subject)
  PROVE  Own(feed, w)
<1>1. /\ net[s].subject \in Subjects /\ net[s].subject = feed.subject /\ Latest \in Nat
      /\ net[s].reply.rows \in SUBSET Row /\ \A row \in net[s].reply.rows : row.seq <= Latest
  BY Answered, StoreShape DEF Types, RequestSet
<1>2. Takes(v, w, net[s].reply.rows, net[s].subject)
  BY <1>1, AppliedRows
<1> QED BY <1>1, <1>2 DEF Takes, Own, Shown

LEMMA StaysOwn ==
  ASSUME CInv, Own(feed, view), [Next]_vars
  PROVE  Own(feed, view)'
<1> DEFINE Kept == feed'.subject = feed.subject /\ Own(feed, view')
           Emptied == view' = NothingShown
<1>1. Types /\ Sound(feed, view, net) /\ feed \in Feed /\ view \in ViewSet
  BY DEF CInv, Types
<1>2. ASSUME Kept \/ Emptied PROVE Own(feed, view)'
  BY <1>2 DEF Own, Shown, NothingShown, NotShown
<1>3. ASSUME UNCHANGED <<feed, view>> PROVE Own(feed, view)'
  BY <1>3 DEF Own, Shown
<1>4. ASSUME feed'.subject = feed.subject, view' = view PROVE Own(feed, view)'
  BY <1>2, <1>4
<1>5. Scheduled(feed).subject = feed.subject
  BY <1>1, ScheduledAlike
<1>6. \A f \in Feed : /\ [f EXCEPT !.timer = FALSE].subject = f.subject
                      /\ [f EXCEPT !.visible = TRUE] \in Feed
                      /\ [f EXCEPT !.visible = TRUE].subject = f.subject
                      /\ [f EXCEPT !.visible = FALSE, !.timer = FALSE].subject = f.subject
                      /\ [f EXCEPT !.initialized = FALSE].subject = f.subject
  BY DEF Feed
<1>7. ASSUME NEW f \in Feed, f.subject = feed.subject, SyncNow(f) PROVE feed'.subject = feed.subject
  BY <1>6, <1>7 DEF SyncNow
<1>8. CASE Others \/ \E s \in Slots : ServePage(s) \/ ServeMutation(s)
  BY <1>3, <1>8 DEF Others, ServePage, ServeMutation
<1>9. CASE TimerFires \/ Hide \/ Show
  <2>1. view' = view
    BY <1>9 DEF TimerFires, Hide, Show
  <2>2. CASE TimerFires
    BY <1>1, <1>4, <1>7, <2>1, <2>2 DEF TimerFires
  <2>3. CASE Hide
    BY <1>1, <1>4, <1>6, <2>1, <2>3 DEF Hide
  <2>4. CASE Show
    <3> DEFINE f == [feed EXCEPT !.visible = TRUE]
    <3>1. SyncNow(f) \/ feed' = f
      BY <2>4 DEF Show, LoadHistory
    <3>2. f \in Feed /\ f.subject = feed.subject
      BY <1>1, <1>6
    <3> HIDE DEF f
    <3> QED BY <1>4, <1>7, <2>1, <3>1, <3>2
  <2> QED BY <1>9, <2>2, <2>3, <2>4
<1>10. CASE UserActs
  <2>1. \/ UNCHANGED <<feed, view>>
        \/ Emptied
    BY <1>10 DEF UserActs, LoadOlder, RetryInitial, LoadHistory, Reload, Rebind, Restart, Mutate
  <2> QED BY <1>2, <1>3, <2>1
<1>11. ASSUME NEW s \in Slots,
              \/ Ignore(s) \/ MutationRefused(s) \/ Unauthorized(s)
              \/ ResetArrives(s) \/ ClearArrives(s) \/ ClearConflicts(s)
       PROVE  Own(feed, view)'
  <2>1. UNCHANGED <<feed, view>> \/ Emptied
    BY <1>11 DEF Ignore, MutationRefused, Unauthorized, ResetArrives, HandleCursorReset,
                 ClearArrives, ClearConflicts, Restart
  <2> HIDE DEF Kept, Emptied
  <2> QED BY <1>2, <1>3, <2>1
<1>12. ASSUME NEW s \in Slots, Fail(s) PROVE Own(feed, view)'
  <2>1. /\ view' = view
        /\ \/ feed' = [feed EXCEPT !.initialized = FALSE]
           \/ feed' = Scheduled(feed)
           \/ feed' = feed
    BY <1>12 DEF Fail
  <2> QED BY <1>1, <1>4, <1>5, <1>6, <2>1
<1>13. /\ NothingShown \in ViewSet /\ Own(feed, NothingShown)
       /\ \A kind \in {"mutation", "older", "history", "changes"} : Priority[kind] \in 0..2
  BY NoRequestType DEF Own, Shown, NothingShown, NotShown, Priority
<1>14. ASSUME NEW s \in Slots, NEW kinds, Arrived(s, kinds), NEW v \in {view, NothingShown},
              NEW kind \in {"mutation", "older", "history", "changes"},
              view' = Applied(v, net[s].reply.rows, Priority[kind], net[s].subject)
       PROVE  Own(feed, view')
  <2>1. v \in ViewSet /\ Own(feed, v) /\ Priority[kind] \in 0..2
    BY <1>1, <1>13
  <2> QED BY <1>1, <1>14, <2>1, AppliedOwn
<1>15. ASSUME NEW s \in Slots, HistoryArrives(s) PROVE Own(feed, view)'
  <2> DEFINE r == net[s]
             f == [feed EXCEPT !.before = r.reply.next, !.initialized = TRUE]
             g == [f EXCEPT !.generation = r.reply.gen, !.cursor = r.reply.latest,
                            !.latest = r.reply.latest]
             h == [f EXCEPT !.latest = LatestKnown(r)]
  <2>1. /\ Arrived(s, {"history"})
        /\ \/ /\ feed' = Scheduled(g)
              /\ view' = Applied(NothingShown, r.reply.rows, Priority.history, r.subject)
           \/ /\ feed' = Scheduled(h)
              /\ view' = Applied(view, r.reply.rows, Priority.history, r.subject)
           \/ Emptied
    BY <1>15 DEF HistoryArrives, HandleCursorReset, Restart
  <2>2. Scheduled(g).subject = feed.subject /\ Scheduled(h).subject = feed.subject
    BY <1>1 DEF Scheduled, Feed
  <2>3. Emptied \/ (feed'.subject = feed.subject /\ Own(feed, view'))
    <3> HIDE DEF g, h
    <3> QED BY <1>14, <2>1, <2>2
  <2> QED BY <1>2, <2>3
<1>16. ASSUME NEW s \in Slots, OlderArrives(s) PROVE Own(feed, view)'
  <2>1. /\ Arrived(s, {"older"})
        /\ \/ /\ feed' = [feed EXCEPT !.before = net[s].reply.next, !.latest = LatestKnown(net[s])]
              /\ view' = Applied(view, net[s].reply.rows, Priority.older, net[s].subject)
           \/ Emptied
    BY <1>16 DEF OlderArrives, HandleCursorReset, Restart
  <2>2. [feed EXCEPT !.before = net[s].reply.next, !.latest = LatestKnown(net[s])].subject
          = feed.subject
    BY <1>1 DEF Feed
  <2>3. Emptied \/ (feed'.subject = feed.subject /\ Own(feed, view'))
    BY <1>14, <2>1, <2>2
  <2> QED BY <1>2, <2>3
<1>17. ASSUME NEW s \in Slots, ChangesArrive(s) PROVE Own(feed, view)'
  <2> DEFINE f == [feed EXCEPT !.cursor = net[s].reply.next, !.latest = LatestKnown(net[s])]
  <2>1. /\ Arrived(s, {"changes"})
        /\ view' = Applied(view, net[s].reply.rows, Priority.changes, net[s].subject)
        /\ feed' = f \/ feed' = Scheduled([f EXCEPT !.streak = 0])
    BY <1>17 DEF ChangesArrive, NextPage
  <2>2. f.subject = feed.subject /\ Scheduled([f EXCEPT !.streak = 0]).subject = feed.subject
    BY <1>1 DEF Scheduled, Feed
  <2>3. feed'.subject = feed.subject /\ Own(feed, view')
    <3> HIDE DEF f
    <3> QED BY <1>14, <2>1, <2>2
  <2> QED BY <1>2, <2>3
<1>18. ASSUME NEW s \in Slots, MutationArrives(s) PROVE Own(feed, view)'
  <2> DEFINE g == [feed EXCEPT !.latest = Max({@} \cup {row.seq : row \in net[s].reply.rows})]
  <2>1. /\ Arrived(s, Changing)
        /\ \/ /\ feed' = g
              /\ view' = Applied(view, net[s].reply.rows, Priority.mutation, net[s].subject)
           \/ UNCHANGED <<feed, view>>
    BY <1>18 DEF MutationArrives
  <2>2. g.subject = feed.subject
    BY <1>1 DEF Feed
  <2>3. UNCHANGED <<feed, view>> \/ (feed'.subject = feed.subject /\ Own(feed, view'))
    <3> HIDE DEF g
    <3> QED BY <1>14, <2>1, <2>2
  <2> QED BY <1>2, <1>3, <2>3
<1>19. CASE UNCHANGED vars
  BY <1>3, <1>19 DEF vars
<1> QED BY <1>8, <1>9, <1>10, <1>11, <1>12, <1>15, <1>16, <1>17, <1>18, <1>19 DEF Next, Delivery

\* What is shown was asked for by the subject that looks at it.
THEOREM ProjectionIsOwn == Spec => []OnlyOwnProjection
<1>1. Init => Own(feed, view)
  BY DEF Init, Own, Shown, NothingShown, NotShown
<1>2. CInv /\ Own(feed, view) /\ [Next]_vars => Own(feed, view)'
  BY StaysOwn
<1>3. Own(feed, view) => OnlyOwnProjection
  BY DEF Own, Shown, OnlyOwnProjection
<1> QED BY <1>1, <1>2, <1>3, AlwaysSound, PTL DEF Spec

\* Every page of a server that clients follow the chat on is exact: the history
\* loses no message and repeats none from page to page, and the changes are all
\* there or the reader is told to start over, and told so only for a reason.
THEOREM PagesAreExact ==
  Spec => [](/\ \A before \in Nat, limit \in Nat \ {0} : HistoryExact(before, limit)
             /\ \A after \in Nat, g \in Nat, limit \in Nat \ {0} : ChangesExact(after, g, limit))
<1>1. CInv => /\ \A before \in Nat, limit \in Nat \ {0} : HistoryExact(before, limit)
              /\ \A after \in Nat, g \in Nat, limit \in Nat \ {0} : ChangesExact(after, g, limit)
  BY HistoryIsExact, ChangesAreExact DEF CInv, Types
<1> QED BY <1>1, AlwaysSound, PTL
===============================================================================
