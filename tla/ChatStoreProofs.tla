---------------------------- MODULE ChatStoreProofs ----------------------------
(***************************************************************************)
(* What the operators of ChatStore do, for any number of messages and any  *)
(* pages, for the proofs about the modules that use them.                  *)
(***************************************************************************)
EXTENDS ChatStore, FiniteSetTheorems, SequenceTheorems, WellFoundedInduction, TLAPS

USE StoreAssumption

(***************************************************************************)
(* What is logged is there.                                                *)
(***************************************************************************)
StoreOk == \A s \in DOMAIN chg : chg[s] # 0 => chg[s] \in Present

-----------------------------------------------------------------------------
(* Naturals and finite sets of them.                                        *)

LEMMA LeastNat ==
  ASSUME NEW T \in SUBSET Nat, T # {}
  PROVE  \E n \in T : \A m \in T : n <= m
<1>1. PICK n \in T : \A m \in T : ~ (<<m, n>> \in OpToRel(<, Nat))
  <2>1. T \subseteq Nat
    OBVIOUS
  <2> QED BY <2>1, NatLessThanWellFounded, WFMin, Zenon
<1>2. ASSUME NEW m \in T, m < n PROVE FALSE
  <2>1. <<m, n>> \in OpToRel(<, Nat)
    BY <1>2 DEF OpToRel
  <2> QED BY <1>1, <2>1, Zenon
<1> QED BY <1>2

LEMMA MinOf ==
  ASSUME NEW S \in SUBSET Nat, S # {}
  PROVE  Min(S) \in S /\ \A y \in S : Min(S) <= y
<1>1. \E x \in S : \A y \in S : x <= y
  BY LeastNat
<1> QED BY <1>1 DEF Min

LEMMA MaxOf ==
  ASSUME NEW S \in SUBSET Nat, S # {}, NEW n \in Nat, \A x \in S : x <= n
  PROVE  Max(S) \in S /\ \A y \in S : Max(S) >= y
<1> DEFINE T == {k \in Nat : \A x \in S : x <= k}
<1>1. PICK m \in T : \A k \in T : m <= k
  <2>1. n \in T
    OBVIOUS
  <2> HIDE DEF T
  <2>2. T \subseteq Nat
    BY DEF T
  <2> QED BY <2>1, <2>2, LeastNat
<1>2. m \in S
  <2> SUFFICES ASSUME m \notin S PROVE FALSE
    OBVIOUS
  <2>1. PICK x \in S : TRUE
    OBVIOUS
  <2>2. m \in Nat /\ m - 1 \in Nat /\ \A y \in S : y <= m - 1
    BY <1>1, <2>1
  <2> QED BY <1>1, <2>2
<1>3. \E x \in S : \A y \in S : x >= y
  BY <1>1, <1>2
<1> QED BY <1>3 DEF Max

LEMMA MaxOfTwo ==
  ASSUME NEW a \in Nat, NEW b \in Nat
  PROVE  Max({a, b}) \in Nat /\ Max({a, b}) >= a /\ Max({a, b}) >= b
<1>1. \E n \in Nat : a <= n /\ b <= n
  <2>1. a + b \in Nat /\ a <= a + b /\ b <= a + b
    OBVIOUS
  <2> QED BY <2>1
<1>2. PICK n \in Nat : a <= n /\ b <= n
  BY <1>1
<1>3. {a, b} \in SUBSET Nat /\ {a, b} # {} /\ \A x \in {a, b} : x <= n
  BY <1>2
<1>4. Max({a, b}) \in {a, b} /\ \A y \in {a, b} : Max({a, b}) >= y
  BY <1>3, MaxOf
<1> QED BY <1>4

\* Of a set of n naturals, every one has a rank of its own from 1 to n.
LEMMA Ranks ==
  ASSUME NEW ids \in SUBSET Nat, IsFiniteSet(ids)
  PROVE  LET n == Cardinality(ids)
             x == [k \in 1..n |-> CHOOSE i \in ids : Rank(i, ids) = k] IN
         /\ n \in Nat /\ x \in [1..n -> ids]
         /\ \A i \in ids : Rank(i, ids) \in 1..n /\ x[Rank(i, ids)] = i
         /\ \A k \in 1..n : Rank(x[k], ids) = k
         /\ \A i, j \in ids : i < j => Rank(i, ids) < Rank(j, ids)
<1> DEFINE n == Cardinality(ids)
           below(i) == {j \in ids : j <= i}
           rank == [i \in ids |-> Rank(i, ids)]
           x == [k \in 1..n |-> CHOOSE i \in ids : Rank(i, ids) = k]
<1>1. n \in Nat
  BY FS_CardinalityType
<1>2. ASSUME NEW i \in ids
      PROVE  /\ IsFiniteSet(below(i)) /\ Rank(i, ids) = Cardinality(below(i))
             /\ Rank(i, ids) \in 1..n
  <2>1. below(i) \in SUBSET ids /\ i \in below(i)
    OBVIOUS
  <2>2. IsFiniteSet(below(i)) /\ Cardinality(below(i)) <= n
    BY <2>1, FS_Subset
  <2>3. Cardinality(below(i)) \in Nat /\ Cardinality(below(i)) # 0
    BY <2>1, <2>2, FS_CardinalityType, FS_EmptySet
  <2> QED BY <1>1, <2>2, <2>3 DEF Rank
<1>3. ASSUME NEW i \in ids, NEW j \in ids, i < j PROVE Rank(i, ids) < Rank(j, ids)
  <2>1. below(i) \in SUBSET below(j) /\ j \in below(j) /\ j \notin below(i)
    <3>1. i \in Nat /\ j \in Nat /\ \A k \in ids : k \in Nat
      OBVIOUS
    <3>2. \A k \in ids : k <= i => k <= j
      BY <1>3, <3>1
    <3>3. \A k \in below(i) : k \in below(j)
      BY <3>2
    <3>4. j <= j /\ ~(j <= i)
      BY <1>3, <3>1
    <3> QED BY <3>3, <3>4
  <2>2. below(i) # below(j)
    BY <2>1, Zenon
  <2> HIDE DEF below
  <2> QED BY <1>2, <2>1, <2>2, FS_Subset
<1>4. \A i, j \in ids : Rank(i, ids) = Rank(j, ids) => i = j
  <2> SUFFICES ASSUME NEW i \in ids, NEW j \in ids, Rank(i, ids) = Rank(j, ids), i # j
               PROVE  FALSE
    OBVIOUS
  <2>1. i < j \/ j < i
    OBVIOUS
  <2>2. Rank(i, ids) \in 1..n /\ Rank(j, ids) \in 1..n
    BY <1>2
  <2> QED BY <1>1, <1>3, <2>1, <2>2
<1>5. rank \in [ids -> 1..n]
  BY <1>2
<1>6. rank \in Injection(ids, 1..n)
  BY <1>4, <1>5 DEF Injection, IsInjective
<1>7. rank \in Surjection(ids, 1..n)
  <2>1. IsFiniteSet(1..n) /\ Cardinality(1..n) = n
    BY <1>1, FS_Interval
  <2> HIDE DEF rank
  <2> QED BY <1>6, <2>1, FS_Injection
<1>8. \A k \in 1..n : \E i \in ids : Rank(i, ids) = k
  BY <1>7 DEF Surjection
<1>9. \A k \in 1..n : x[k] \in ids /\ Rank(x[k], ids) = k
  BY <1>8
<1>10. x \in [1..n -> ids]
  BY <1>9
<1> HIDE DEF x
<1>11. ASSUME NEW i \in ids PROVE x[Rank(i, ids)] = i
  <2>1. Rank(i, ids) \in 1..n
    BY <1>2
  <2>2. x[Rank(i, ids)] \in ids /\ Rank(x[Rank(i, ids)], ids) = Rank(i, ids)
    BY <1>9, <2>1
  <2> QED BY <1>4, <2>2
<1> QED BY <1>1, <1>2, <1>3, <1>9, <1>10, <1>11 DEF x

LEMMA RankOfOne ==
  ASSUME NEW i \in Nat
  PROVE  Rank(i, {i}) = 1 /\ Cardinality({i}) = 1
<1>1. {j \in {i} : j <= i} = {i}
  OBVIOUS
<1>2. Cardinality({i}) = 1
  BY FS_Singleton
<1> QED BY <1>1, <1>2 DEF Rank

-----------------------------------------------------------------------------
(* What a step does to the store: the log grows, and says which messages    *)
(* are new or have changed; or rows go, and the generation with them.       *)

Grows ==
  /\ gen' = gen /\ Latest' \in Nat /\ Latest <= Latest'
  /\ \A s \in DOMAIN chg : chg'[s] = chg[s]
  /\ \A s \in (Latest + 1)..Latest' : chg'[s] \in Present' /\ chg'[s] # 0
  /\ \A i \in Present : i \in Present'
  /\ \A i \in Present' : i \notin Present \/ msgs'[i] # msgs[i] =>
       \E s \in (Latest + 1)..Latest' : chg'[s] = i

Removes ==
  /\ gen < gen' /\ Latest' = Latest
  /\ \A s \in DOMAIN chg : chg'[s] # 0 => chg'[s] = chg[s] /\ chg[s] \in Present'

LEMMA StoreShape ==
  ASSUME StoreTypeOK
  PROVE  /\ Len(msgs) \in Nat /\ DOMAIN msgs = 1..Len(msgs) /\ DOMAIN msgs \subseteq Ids
         /\ Latest \in Nat /\ DOMAIN chg = 1..Latest /\ Ids \subseteq Nat
         /\ \A s \in 1..Latest : chg[s] \in Ids \cup {0}
         /\ \A i \in DOMAIN msgs : msgs[i] \in Statuses
         /\ Present \subseteq Ids /\ IsFiniteSet(Present)
<1>1. /\ Len(msgs) \in Nat /\ DOMAIN msgs = 1..Len(msgs) /\ Len(msgs) <= MaxMessages
      /\ Len(chg) \in Nat /\ DOMAIN chg = 1..Len(chg)
      /\ \A s \in 1..Len(chg) : chg[s] \in Ids \cup {0}
      /\ \A i \in DOMAIN msgs : msgs[i] \in Statuses
  BY DEF StoreTypeOK
<1>2. MaxMessages \in Nat
  BY DEF StoreAssumption
<1>3. DOMAIN msgs \subseteq Ids
  BY <1>1, <1>2 DEF Ids
<1>4. Present \subseteq Ids
  BY <1>3 DEF Present
<1>5. IsFiniteSet(Ids)
  BY <1>2, FS_Interval DEF Ids
<1>6. IsFiniteSet(Present)
  BY <1>4, <1>5, FS_Subset
<1> QED BY <1>1, <1>3, <1>4, <1>6 DEF Latest, Ids

LEMMA CreateGrows ==
  ASSUME StoreTypeOK, CreateChatMessage
  PROVE  StoreTypeOK' /\ Grows /\ Len(msgs) + 1 \in Ids
         /\ Len(msgs) + 1 \in Present' /\ msgs'[Len(msgs) + 1] = "active"
<1> DEFINE n == Len(msgs) + 1
           m == Len(chg) + 1
<1>1. /\ n \in Nat /\ n <= MaxMessages /\ msgs' = Append(msgs, "active") /\ chg' = Append(chg, n)
      /\ gen' = gen /\ Len(msgs) \in Nat /\ DOMAIN msgs = 1..Len(msgs)
      /\ Len(chg) \in Nat /\ DOMAIN chg = 1..Len(chg)
  BY StoreShape DEF CreateChatMessage, StoreTypeOK, Latest, StoreAssumption
<1>2. n \in Ids
  BY <1>1 DEF Ids
<1>3. /\ msgs' \in Seq(Statuses) /\ Len(msgs') = n /\ DOMAIN msgs' = 1..n
      /\ msgs'[n] = "active" /\ \A i \in DOMAIN msgs : msgs'[i] = msgs[i]
  BY <1>1 DEF StoreTypeOK, Statuses
<1>4. /\ chg' \in Seq(Ids \cup {0}) /\ Len(chg') = m /\ chg'[m] = n
      /\ \A s \in DOMAIN chg : chg'[s] = chg[s]
  BY <1>1, <1>2 DEF StoreTypeOK
<1>5. StoreTypeOK'
  BY <1>1, <1>3, <1>4 DEF StoreTypeOK
<1>6. Present' = Present \cup {n}
  BY <1>1, <1>3 DEF Present
<1>7. Latest' = Latest + 1 /\ Latest = Len(chg)
  BY <1>4 DEF Latest
<1>8. Grows
  <2>1. \A s \in (Latest + 1)..Latest' : s = m
    BY <1>1, <1>7
  <2>2. m \in (Latest + 1)..Latest'
    BY <1>1, <1>7
  <2>3. \A i \in Present : msgs'[i] = msgs[i]
    BY <1>3 DEF Present
  <2> HIDE DEF m, n
  <2>4. \A s \in (Latest + 1)..Latest' : chg'[s] \in Present' /\ chg'[s] # 0
    BY <1>1, <1>4, <1>6, <2>1 DEF n
  <2>5. \A i \in Present' : i \notin Present \/ msgs'[i] # msgs[i] =>
          \E s \in (Latest + 1)..Latest' : chg'[s] = i
    BY <1>4, <1>6, <2>2, <2>3
  <2>6. Latest' \in Nat /\ Latest <= Latest'
    BY <1>1, <1>7
  <2> QED BY <1>1, <1>4, <1>6, <2>4, <2>5, <2>6 DEF Grows
<1> QED BY <1>2, <1>3, <1>5, <1>6, <1>8

LEMMA ChangeGrows ==
  ASSUME StoreTypeOK, NEW ids \in SUBSET DOMAIN msgs,
         NEW status \in Statuses \ {"gone"}, Change(ids, status)
  PROVE  /\ StoreTypeOK' /\ Grows /\ Latest' = Latest + Cardinality(ids)
         /\ \A i \in ids : i \in Present' /\ msgs'[i] = status
                           /\ Rank(i, ids) \in 1..Cardinality(ids)
                           /\ chg'[Latest + Rank(i, ids)] = i
         /\ \A s \in (Latest + 1)..Latest' :
              chg'[s] \in ids /\ s = Latest + Rank(chg'[s], ids)
<1> DEFINE n == Cardinality(ids)
           x == [k \in 1..n |-> CHOOSE i \in ids : Rank(i, ids) = k]
<1>1. /\ DOMAIN msgs = 1..Len(msgs) /\ Len(msgs) \in Nat /\ DOMAIN msgs \subseteq Ids
      /\ Latest = Len(chg) /\ Latest \in Nat /\ DOMAIN chg = 1..Latest /\ Ids \subseteq Nat
  BY StoreShape DEF Latest
<1>2. ids \in SUBSET Nat /\ IsFiniteSet(ids)
  <2>1. IsFiniteSet(1..Len(msgs))
    BY <1>1, FS_Interval
  <2> QED BY <1>1, <2>1, FS_Subset
<1>3. /\ n \in Nat /\ x \in [1..n -> ids]
      /\ \A i \in ids : Rank(i, ids) \in 1..n /\ x[Rank(i, ids)] = i
      /\ \A k \in 1..n : Rank(x[k], ids) = k
  BY <1>2, Ranks
<1>4. /\ msgs' = [i \in DOMAIN msgs |-> IF i \in ids THEN status ELSE msgs[i]]
      /\ chg' = chg \o x /\ gen' = gen
  BY DEF Change
<1> HIDE DEF x, n
<1>5. /\ msgs' \in Seq(Statuses) /\ Len(msgs') = Len(msgs) /\ DOMAIN msgs' = DOMAIN msgs
      /\ \A i \in DOMAIN msgs : msgs'[i] = IF i \in ids THEN status ELSE msgs[i]
  <2>1. msgs' \in [1..Len(msgs) -> Statuses]
    BY <1>1, <1>4 DEF StoreTypeOK
  <2>2. msgs' \in Seq(Statuses)
    BY <1>1, <2>1
  <2>3. Len(msgs') = Len(msgs)
    BY <1>1, <2>1, <2>2
  <2> QED BY <1>4, <2>2, <2>3
<1>6. x \in Seq(Ids) /\ Len(x) = n
  <2>1. x \in [1..n -> Ids]
    BY <1>1, <1>3
  <2>2. x \in Seq(Ids)
    BY <1>3, <2>1
  <2> QED BY <1>3, <2>1, <2>2
<1>7. /\ chg' \in Seq(Ids \cup {0}) /\ Len(chg') = Latest + n
      /\ \A s \in 1..Latest : chg'[s] = chg[s]
      /\ \A k \in 1..n : chg'[Latest + k] = x[k]
  <2>1. chg \in Seq(Ids \cup {0}) /\ x \in Seq(Ids \cup {0})
    BY <1>6 DEF StoreTypeOK
  <2>2. chg' \in Seq(Ids \cup {0})
    BY <1>4, <2>1
  <2>3. Len(chg') = Latest + n
    <3>1. Len(chg \o x) = Len(chg) + Len(x)
      BY <2>1, ConcatProperties
    <3> QED BY <1>1, <1>4, <1>6, <3>1
  <2>4. \A s \in 1..(Latest + n) : chg'[s] = IF s <= Latest THEN chg[s] ELSE x[s - Latest]
    <3>1. \A s \in 1..(Len(chg) + Len(x)) :
            (chg \o x)[s] = IF s <= Len(chg) THEN chg[s] ELSE x[s - Len(chg)]
      BY <2>1, ConcatProperties
    <3> QED BY <1>1, <1>4, <1>6, <3>1
  <2>5. \A k \in 1..n : /\ Latest + k \in 1..(Latest + n)
                        /\ ~(Latest + k <= Latest) /\ (Latest + k) - Latest = k
    BY <1>1, <1>3
  <2>6. \A s \in 1..Latest : s \in 1..(Latest + n) /\ s <= Latest
    BY <1>1, <1>3
  <2> QED BY <2>2, <2>3, <2>4, <2>5, <2>6
<1>8. StoreTypeOK'
  BY <1>4, <1>5, <1>7 DEF StoreTypeOK
<1>9. /\ \A i \in Present : i \in Present'
      /\ \A i \in ids : i \in Present' /\ msgs'[i] = status
      /\ \A i \in Present' : i \notin Present \/ msgs'[i] # msgs[i] => i \in ids
  BY <1>5 DEF Present
<1>10. Latest' = Latest + n
  BY <1>7 DEF Latest
<1>11. \A s \in (Latest + 1)..Latest' : chg'[s] \in ids /\ s = Latest + Rank(chg'[s], ids)
  <2> SUFFICES ASSUME NEW s \in (Latest + 1)..Latest'
               PROVE  chg'[s] \in ids /\ s = Latest + Rank(chg'[s], ids)
    OBVIOUS
  <2>1. s - Latest \in 1..n /\ Latest + (s - Latest) = s
    BY <1>1, <1>3, <1>10
  <2>2. chg'[s] = x[s - Latest]
    BY <1>7, <2>1
  <2> QED BY <1>3, <2>1, <2>2
<1>12. \A i \in ids : \E s \in (Latest + 1)..Latest' : s = Latest + Rank(i, ids) /\ chg'[s] = i
  <2> SUFFICES ASSUME NEW i \in ids
               PROVE  \E s \in (Latest + 1)..Latest' : s = Latest + Rank(i, ids) /\ chg'[s] = i
    OBVIOUS
  <2>1. Rank(i, ids) \in 1..n /\ x[Rank(i, ids)] = i
    BY <1>3
  <2>2. Latest + Rank(i, ids) \in (Latest + 1)..Latest'
    BY <1>1, <1>3, <1>10, <2>1
  <2> QED BY <1>7, <2>1, <2>2
<1>13. Grows
  <2>1. Latest' \in Nat /\ Latest <= Latest' /\ \A i \in ids : i # 0
    BY <1>1, <1>3, <1>10 DEF Ids
  <2> QED BY <1>1, <1>4, <1>7, <1>9, <1>11, <1>12, <2>1 DEF Grows
<1> QED BY <1>3, <1>8, <1>9, <1>10, <1>11, <1>12, <1>13 DEF n

LEMMA RemoveRemoves ==
  ASSUME StoreTypeOK, StoreOk, NEW ids \in SUBSET Present, RemoveRows(ids)
  PROVE  StoreTypeOK' /\ (Removes \/ UNCHANGED store)
<1>1. /\ DOMAIN msgs = 1..Len(msgs) /\ Len(msgs) \in Nat
      /\ Latest = Len(chg) /\ Latest \in Nat /\ DOMAIN chg = 1..Latest
      /\ gen \in Nat \ {0}
  BY StoreShape DEF Latest, StoreTypeOK
<1>2. /\ msgs' = [i \in DOMAIN msgs |-> IF i \in ids THEN "gone" ELSE msgs[i]]
      /\ chg' = [s \in DOMAIN chg |-> IF chg[s] \in ids THEN 0 ELSE chg[s]]
      /\ gen' = IF ids = {} THEN gen ELSE gen + 1
  BY DEF RemoveRows
<1>3. msgs' \in Seq(Statuses) /\ Len(msgs') = Len(msgs)
  <2>1. msgs' \in [1..Len(msgs) -> Statuses]
    BY <1>1, <1>2 DEF StoreTypeOK, Statuses
  <2>2. msgs' \in Seq(Statuses)
    BY <1>1, <2>1
  <2> QED BY <1>1, <2>1, <2>2
<1>4. chg' \in Seq(Ids \cup {0}) /\ Len(chg') = Len(chg)
  <2>1. chg' \in [1..Len(chg) -> Ids \cup {0}]
    BY <1>1, <1>2 DEF StoreTypeOK
  <2>2. chg' \in Seq(Ids \cup {0})
    BY <1>1, <2>1
  <2> QED BY <1>1, <2>1, <2>2
<1>5. StoreTypeOK'
  BY <1>1, <1>2, <1>3, <1>4 DEF StoreTypeOK
<1>6. CASE ids = {}
  <2>1. /\ \A i \in DOMAIN msgs : msgs'[i] = msgs[i]
        /\ \A s \in DOMAIN chg : chg'[s] = chg[s]
    BY <1>2, <1>6
  <2>2. msgs = [i \in DOMAIN msgs |-> msgs[i]] /\ chg = [s \in DOMAIN chg |-> chg[s]]
    BY DEF StoreTypeOK
  <2>3. msgs' = msgs /\ chg' = chg /\ gen' = gen
    BY <1>2, <1>6, <2>2
  <2> QED BY <1>5, <2>3 DEF store
<1>7. CASE ids # {}
  <2>1. gen < gen' /\ Latest' = Latest
    BY <1>1, <1>2, <1>4, <1>7 DEF Latest
  <2>2. \A i \in Present \ ids : i \in Present'
    BY <1>2 DEF Present
  <2>3. \A s \in DOMAIN chg : chg'[s] # 0 => chg'[s] = chg[s] /\ chg[s] \in Present \ ids
    BY <1>2 DEF StoreOk
  <2> QED BY <1>5, <2>1, <2>2, <2>3 DEF Removes
<1> QED BY <1>6, <1>7

StoreStep == StoreTypeOK' /\ (Grows \/ Removes \/ UNCHANGED store)

LEMMA StoreKept ==
  ASSUME StoreTypeOK, StoreOk, StoreStep
  PROVE  StoreOk'
<1>1. /\ Latest \in Nat /\ DOMAIN chg = 1..Latest /\ Latest' \in Nat /\ DOMAIN chg' = 1..Latest'
  BY StoreShape DEF StoreStep, StoreTypeOK, Latest
<1>2. CASE Grows
  <2> SUFFICES ASSUME NEW s \in 1..Latest', chg'[s] # 0 PROVE chg'[s] \in Present'
    BY <1>1 DEF StoreOk
  <2>1. s \in 1..Latest \/ s \in (Latest + 1)..Latest'
    BY <1>1
  <2> QED BY <1>1, <1>2, <2>1 DEF Grows, StoreOk
<1>3. CASE Removes
  BY <1>1, <1>3 DEF Removes, StoreOk
<1>4. CASE UNCHANGED store
  BY <1>4 DEF store, StoreOk, Present
<1> QED BY <1>2, <1>3, <1>4 DEF StoreStep

\* Every operation that writes is one of these.
Writes ==
  \/ CreateChatMessage
  \/ \E i : WithdrawChatMessage(i)
  \/ \E i, allowWithdrawn : DeleteChatMessage(i, allowWithdrawn)
  \/ \E ids : BatchDeleteChatMessages(ids)
  \/ \E expectedGeneration, expectedLatest :
        ClearChatMessages(expectedGeneration, expectedLatest)
  \/ CleanupChat

LEMMA WritesStep ==
  ASSUME StoreTypeOK, StoreOk, Writes
  PROVE  StoreStep
<1>1. ASSUME NEW ids \in SUBSET DOMAIN msgs, NEW status \in {"withdrawn", "deleted"},
             Change(ids, status)
      PROVE  StoreStep
  <2>1. status \in Statuses \ {"gone"}
    BY DEF Statuses
  <2> QED BY <1>1, <2>1, ChangeGrows DEF StoreStep
<1>2. ASSUME NEW ids \in SUBSET Present, RemoveRows(ids) PROVE StoreStep
  BY <1>2, RemoveRemoves DEF StoreStep
<1>3. CASE CreateChatMessage
  BY <1>3, CreateGrows DEF StoreStep
<1>4. ASSUME NEW i, WithdrawChatMessage(i) PROVE StoreStep
  <2>1. {i} \in SUBSET DOMAIN msgs /\ Change({i}, "withdrawn")
    BY <1>4 DEF WithdrawChatMessage
  <2> QED BY <1>1, <2>1
<1>5. ASSUME NEW i, NEW allowWithdrawn, DeleteChatMessage(i, allowWithdrawn) PROVE StoreStep
  <2>1. {i} \in SUBSET DOMAIN msgs /\ Change({i}, "deleted")
    BY <1>5 DEF DeleteChatMessage
  <2> QED BY <1>1, <2>1
<1>6. ASSUME NEW ids, BatchDeleteChatMessages(ids) PROVE StoreStep
  BY <1>1, <1>6 DEF BatchDeleteChatMessages
<1>7. CASE \E expectedGeneration, expectedLatest :
             ClearChatMessages(expectedGeneration, expectedLatest)
  BY <1>2, <1>7 DEF ClearChatMessages
<1>8. CASE CleanupChat
  BY <1>2, <1>8 DEF CleanupChat
<1> QED BY <1>3, <1>4, <1>5, <1>6, <1>7, <1>8 DEF Writes

-----------------------------------------------------------------------------
(* The promise: what a write does to the status and the last change of      *)
(* every message.                                                           *)

\* Where the last change of a message is in a log, if it has any.
LEMMA LastOfChanges ==
  ASSUME NEW n \in Nat, NEW S \in SUBSET (1..n)
  PROVE  /\ S # {} => Max({0} \cup S) \in S
         /\ \A s \in S : (\A t \in S : t <= s) => Max({0} \cup S) = s
         /\ S = {} => Max({0} \cup S) = 0
<1> DEFINE T == {0} \cup S
<1>1. T \in SUBSET Nat /\ T # {} /\ (\A s \in T : s <= n) /\ S \subseteq T
      /\ \A s \in T : s = 0 \/ s \in S
  OBVIOUS
<1>2. \A s \in S : s \in Nat /\ s > 0
  OBVIOUS
<1> HIDE DEF T
<1>3. Max(T) \in T /\ \A s \in T : Max(T) >= s
  BY <1>1, MaxOf
<1>4. ASSUME S # {} PROVE Max(T) \in S
  <2>1. PICK s \in S : TRUE
    BY <1>4
  <2>2. s > 0 /\ s \in T
    BY <1>1, <1>2
  <2>3. Max(T) # 0
    BY <1>3, <2>2
  <2> QED BY <1>1, <1>3, <2>3
<1>5. ASSUME NEW s \in S, \A t \in S : t <= s PROVE Max(T) = s
  <2>1. Max(T) \in S
    BY <1>4
  <2>2. Max(T) \in Nat /\ s \in Nat /\ Max(T) >= s /\ Max(T) <= s
    BY <1>1, <1>2, <1>3, <1>5, <2>1
  <2> QED BY <2>2
<1>6. ASSUME S = {} PROVE Max(T) = 0
  BY <1>1, <1>3, <1>6
<1> QED BY <1>4, <1>5, <1>6 DEF T

\* The log grows by one change for each of some messages, and says where.
LEMMA GrowsTouches ==
  ASSUME StoreTypeOK, Grows, NEW ids \in SUBSET Ids, ids # {},
         NEW seq \in [ids -> (Latest + 1)..Latest'],
         \A i, j \in ids : i < j => seq[i] < seq[j],
         \A i \in ids : chg'[seq[i]] = i,
         \A s \in (Latest + 1)..Latest' : chg'[s] \in ids /\ s = seq[chg'[s]],
         NEW next, \A i \in Ids : StatusOf'[i] = IF i \in ids THEN next ELSE StatusOf[i]
  PROVE  Promise!Touch(ids, next)
<1>1. /\ Latest \in Nat /\ Latest' \in Nat /\ Latest <= Latest' /\ DOMAIN chg = 1..Latest
      /\ \A s \in 1..Latest : chg'[s] = chg[s]
      /\ gen' = gen
  BY StoreShape DEF Grows
<1>2. \A s \in 1..Latest' : s \in 1..Latest \/ s \in (Latest + 1)..Latest'
  BY <1>1
<1>3. ASSUME NEW i \in Ids
      PROVE  LastChangeOf'[i] = IF i \in ids THEN seq[i] ELSE LastChangeOf[i]
  <2>1. CASE i \in ids
    <3>1. seq[i] \in ChangesOf(i)'
      BY <1>1, <2>1 DEF ChangesOf
    <3>2. \A t \in ChangesOf(i)' : t <= seq[i]
      <4> SUFFICES ASSUME NEW t \in 1..Latest', chg'[t] = i PROVE t <= seq[i]
        BY DEF ChangesOf
      <4>1. seq[i] \in (Latest + 1)..Latest'
        BY <2>1
      <4> QED BY <1>1, <1>2, <4>1
    <3>3. ChangesOf(i)' \in SUBSET (1..Latest')
      BY DEF ChangesOf
    <3>4. Max({0} \cup ChangesOf(i)') = seq[i]
      BY <1>1, <3>1, <3>2, <3>3, LastOfChanges
    <3> QED BY <2>1, <3>4 DEF LastChangeOf
  <2>2. CASE i \notin ids
    <3>1. ChangesOf(i)' = ChangesOf(i)
      BY <1>1, <1>2, <2>2 DEF ChangesOf
    <3> QED BY <2>2, <3>1 DEF LastChangeOf
  <2> QED BY <2>1, <2>2
<1>4. LastChangeOf' = [i \in Ids |-> IF i \in ids THEN seq[i] ELSE LastChangeOf[i]]
  <2>1. LastChangeOf' = [i \in Ids |-> LastChangeOf'[i]]
    BY DEF LastChangeOf
  <2> QED BY <1>3, <2>1
<1>5. StatusOf' = [i \in Ids |-> IF i \in ids THEN next ELSE StatusOf[i]]
  <2>1. StatusOf' = [i \in Ids |-> StatusOf'[i]]
    BY DEF StatusOf
  <2> QED BY <2>1
<1>6. {seq[i] : i \in ids} = (Latest + 1)..Latest'
  OBVIOUS
<1> QED BY <1>1, <1>4, <1>5, <1>6 DEF Promise!Touch

LEMMA CreateKeepsPromise ==
  ASSUME StoreTypeOK, CreateChatMessage
  PROVE  \E i \in Ids : Promise!Write(i)
<1> DEFINE n == Len(msgs) + 1
<1>1. /\ Len(msgs) \in Nat /\ DOMAIN msgs = 1..Len(msgs) /\ Latest \in Nat /\ Ids \subseteq Nat
      /\ \A i \in DOMAIN msgs : msgs[i] \in Statuses
  BY StoreShape
<1>2. Grows /\ n \in Ids /\ StoreTypeOK'
  BY CreateGrows
<1>3. msgs' = Append(msgs, "active") /\ chg' = Append(chg, n)
  BY DEF CreateChatMessage
<1>4. Latest' = Latest + 1 /\ chg'[Latest + 1] = n
  BY <1>3 DEF StoreTypeOK, Latest
<1>5. /\ DOMAIN msgs' = 1..n /\ msgs'[n] = "active"
      /\ \A i \in DOMAIN msgs : msgs'[i] = msgs[i]
  BY <1>1, <1>3 DEF StoreTypeOK
<1>6. n \in Nat /\ n \notin DOMAIN msgs /\ \A i \in Nat : i \in 1..n <=> i \in DOMAIN msgs \/ i = n
  BY <1>1
<1>7. \A i \in Ids : (i > n <=> i \notin DOMAIN msgs /\ i # n)
  BY <1>1 DEF Ids
<1> HIDE DEF n
<1>8. \A i \in Ids : StatusOf[i] = "none" <=> i \notin DOMAIN msgs
  BY <1>1 DEF StatusOf, Statuses
<1>9. Promise!Is(n, {"none"}) /\ \A i \in Ids : i > n <=> StatusOf[i] = "none" /\ i # n
  BY <1>2, <1>6, <1>7, <1>8 DEF Promise!Is
<1>10. Promise!Touch({n}, "active")
  <2> DEFINE seq == [i \in {n} |-> Latest + 1]
  <2>1. \A s \in (Latest + 1)..Latest' : s = Latest + 1
    BY <1>1, <1>4
  <2>2. Latest + 1 \in (Latest + 1)..Latest'
    BY <1>1, <1>4
  <2>3. seq \in [{n} -> (Latest + 1)..Latest'] /\ seq[n] = Latest + 1
    BY <2>2
  <2> HIDE DEF seq
  <2>4. \A s \in (Latest + 1)..Latest' : chg'[s] \in {n} /\ s = seq[chg'[s]]
    BY <1>4, <2>1, <2>3
  <2>5. \A i \in {n} : chg'[seq[i]] = i
    BY <1>4, <2>3
  <2>6. \A i, j \in {n} : i < j => seq[i] < seq[j]
    BY <1>6
  <2>7. \A i \in Ids : StatusOf'[i] = IF i \in {n} THEN "active" ELSE StatusOf[i]
    BY <1>1, <1>5, <1>6 DEF StatusOf
  <2>8. {n} \in SUBSET Ids /\ {n} # {}
    BY <1>2
  <2> DEFINE ids == {n}
  <2>9. /\ ids \in SUBSET Ids /\ ids # {} /\ seq \in [ids -> (Latest + 1)..Latest']
        /\ \A i, j \in ids : i < j => seq[i] < seq[j]
        /\ \A i \in ids : chg'[seq[i]] = i
        /\ \A s \in (Latest + 1)..Latest' : chg'[s] \in ids /\ s = seq[chg'[s]]
        /\ \A i \in Ids : StatusOf'[i] = IF i \in ids THEN "active" ELSE StatusOf[i]
    BY <2>3, <2>4, <2>5, <2>6, <2>7, <2>8
  <2> HIDE DEF ids
  <2>10. Promise!Touch(ids, "active")
    BY <1>2, <2>9, GrowsTouches
  <2> QED BY <2>10 DEF ids
<1> QED BY <1>2, <1>9, <1>10 DEF Promise!Write

LEMMA ChangeTouches ==
  ASSUME StoreTypeOK, NEW ids \in SUBSET DOMAIN msgs, ids # {},
         NEW status \in Statuses \ {"gone"}, Change(ids, status)
  PROVE  Promise!Touch(ids, status)
<1>1. /\ Len(msgs) \in Nat /\ DOMAIN msgs = 1..Len(msgs) /\ Latest \in Nat
      /\ DOMAIN msgs \subseteq Ids /\ Ids \subseteq Nat
  BY StoreShape
<1>2. /\ Grows /\ Latest' = Latest + Cardinality(ids)
      /\ \A i \in ids : Rank(i, ids) \in 1..Cardinality(ids) /\ chg'[Latest + Rank(i, ids)] = i
      /\ \A s \in (Latest + 1)..Latest' : chg'[s] \in ids /\ s = Latest + Rank(chg'[s], ids)
  BY ChangeGrows
<1>3. ids \in SUBSET Nat /\ IsFiniteSet(ids)
  <2>1. IsFiniteSet(1..Len(msgs))
    BY <1>1, FS_Interval
  <2> QED BY <1>1, <2>1, FS_Subset
<1>4. Cardinality(ids) \in Nat /\ \A i, j \in ids : i < j => Rank(i, ids) < Rank(j, ids)
  BY <1>3, Ranks
<1> DEFINE seq == [i \in ids |-> Latest + Rank(i, ids)]
<1>5. seq \in [ids -> (Latest + 1)..Latest']
  <2>1. \A i \in ids : Latest + Rank(i, ids) \in (Latest + 1)..Latest'
    BY <1>1, <1>2, <1>4
  <2> QED BY <2>1
<1>6. \A i \in ids : seq[i] = Latest + Rank(i, ids)
  OBVIOUS
<1> HIDE DEF seq
<1>7. \A i, j \in ids : i < j => seq[i] < seq[j]
  <2>1. \A i \in ids : Rank(i, ids) \in Nat
    BY <1>2, <1>4
  <2> QED BY <1>1, <1>4, <1>6, <2>1
<1>8. /\ \A i \in ids : chg'[seq[i]] = i
      /\ \A s \in (Latest + 1)..Latest' : chg'[s] \in ids /\ s = seq[chg'[s]]
  BY <1>2, <1>6
<1>9. \A i \in Ids : StatusOf'[i] = IF i \in ids THEN status ELSE StatusOf[i]
  BY DEF StatusOf, Change
<1>10. ids \in SUBSET Ids
  BY <1>1
<1> QED BY <1>2, <1>5, <1>7, <1>8, <1>9, <1>10, GrowsTouches

LEMMA RemoveKeepsPromise ==
  ASSUME StoreTypeOK, NEW ids \in SUBSET Present, ids # {}, RemoveRows(ids)
  PROVE  Promise!Remove(ids)
<1>1. /\ Latest \in Nat /\ DOMAIN chg = 1..Latest /\ Present \subseteq Ids
      /\ \A i \in DOMAIN msgs : msgs[i] \in Statuses
  BY StoreShape
<1>2. /\ msgs' = [i \in DOMAIN msgs |-> IF i \in ids THEN "gone" ELSE msgs[i]]
      /\ chg' = [s \in DOMAIN chg |-> IF chg[s] \in ids THEN 0 ELSE chg[s]]
      /\ gen' = gen + 1
  BY DEF RemoveRows
<1>3. Latest' = Latest
  <2>1. chg' \in [1..Latest -> Ids \cup {0}]
    BY <1>1, <1>2 DEF StoreTypeOK
  <2> QED BY <1>1, <2>1 DEF Latest
<1>4. \A i \in ids : Promise!Is(i, {"active", "withdrawn", "deleted"})
  BY <1>1 DEF Promise!Is, StatusOf, Present, Statuses
<1>5. StatusOf' = [i \in Ids |-> IF i \in ids THEN "gone" ELSE StatusOf[i]]
  BY <1>2 DEF StatusOf, Present
<1>6. \A i \in Ids : LastChangeOf'[i] = IF i \in ids THEN 0 ELSE LastChangeOf[i]
  <2> SUFFICES ASSUME NEW i \in Ids
               PROVE  LastChangeOf'[i] = IF i \in ids THEN 0 ELSE LastChangeOf[i]
    OBVIOUS
  <2>1. CASE i \in ids
    <3>1. ChangesOf(i)' = {}
      BY <1>1, <1>2, <1>3, <2>1 DEF ChangesOf, Ids
    <3>2. Max({0} \cup {}) = 0
      BY <1>1, LastOfChanges
    <3> QED BY <2>1, <3>1, <3>2 DEF LastChangeOf
  <2>2. CASE i \notin ids
    <3>1. ChangesOf(i)' = ChangesOf(i)
      BY <1>1, <1>2, <1>3, <2>2 DEF ChangesOf, Ids
    <3> QED BY <2>2, <3>1 DEF LastChangeOf
  <2> QED BY <2>1, <2>2
<1>7. LastChangeOf' = [i \in Ids |-> IF i \in ids THEN 0 ELSE LastChangeOf[i]]
  <2>1. LastChangeOf' = [i \in Ids |-> LastChangeOf'[i]]
    BY DEF LastChangeOf
  <2> QED BY <1>6, <2>1
<1> QED BY <1>2, <1>3, <1>4, <1>5, <1>7 DEF Promise!Remove

\* Every write of the store is a step of the promise, or none.
LEMMA WritesKeepPromise ==
  ASSUME StoreTypeOK, StoreOk, Writes \/ UNCHANGED store
  PROVE  [Promise!PromiseNext]_Promise!promiseVars
<1>1. DOMAIN msgs \subseteq Ids /\ Present \subseteq Ids /\ Present \subseteq DOMAIN msgs
  BY StoreShape DEF Present
<1>2. CASE UNCHANGED store
  BY <1>2 DEF store, Promise!promiseVars, StatusOf, LastChangeOf, ChangesOf, Latest
<1>3. CASE CreateChatMessage
  BY <1>3, CreateKeepsPromise DEF Promise!PromiseNext
<1>4. ASSUME NEW i, WithdrawChatMessage(i) PROVE Promise!PromiseNext
  <2>1. i \in DOMAIN msgs /\ msgs[i] = "active" /\ Change({i}, "withdrawn")
    BY <1>4 DEF WithdrawChatMessage
  <2>2. Promise!Touch({i}, "withdrawn")
    BY <2>1, ChangeTouches DEF Statuses
  <2>3. Promise!Is(i, {"active"})
    BY <1>1, <2>1 DEF Promise!Is, StatusOf
  <2> QED BY <1>1, <2>1, <2>2, <2>3 DEF Promise!PromiseNext, Promise!Withdraw
<1>5. ASSUME NEW ids \in SUBSET DOMAIN msgs, ids # {}, Change(ids, "deleted"),
             \A i \in ids : msgs[i] \in {"active", "withdrawn"}
      PROVE  Promise!PromiseNext
  <2>1. Promise!Touch(ids, "deleted")
    BY <1>5, ChangeTouches DEF Statuses
  <2>2. \A i \in ids : Promise!Is(i, {"active", "withdrawn"})
    BY <1>1, <1>5 DEF Promise!Is, StatusOf
  <2>3. ids \in SUBSET Ids
    BY <1>1
  <2> QED BY <2>1, <2>2, <2>3 DEF Promise!PromiseNext, Promise!Delete
<1>6. ASSUME NEW i, NEW allowWithdrawn, DeleteChatMessage(i, allowWithdrawn)
      PROVE  Promise!PromiseNext
  <2>1. /\ {i} \in SUBSET DOMAIN msgs /\ {i} # {} /\ Change({i}, "deleted")
        /\ \A j \in {i} : msgs[j] \in {"active", "withdrawn"}
    BY <1>6 DEF DeleteChatMessage
  <2> QED BY <1>5, <2>1
<1>7. ASSUME NEW ids, BatchDeleteChatMessages(ids)
      PROVE  Promise!PromiseNext \/ UNCHANGED store
  <2>1. ids \in SUBSET DOMAIN msgs /\ Change(ids, "deleted")
        /\ \A i \in ids : msgs[i] \in {"active", "withdrawn"}
    BY <1>7 DEF BatchDeleteChatMessages
  <2>2. CASE ids = {}
    <3>1. Cardinality(ids) = 0
      BY <2>2, FS_EmptySet
    <3>2. msgs' = [i \in DOMAIN msgs |-> msgs[i]] /\ gen' = gen
      BY <2>1, <2>2 DEF Change
    <3>3. chg' = chg \o <<>>
      BY <2>1, <3>1 DEF Change
    <3> QED BY <3>2, <3>3 DEF store, StoreTypeOK
  <2> QED BY <1>5, <2>1, <2>2
<1>8. ASSUME NEW ids \in SUBSET Present, RemoveRows(ids)
      PROVE  Promise!PromiseNext \/ UNCHANGED store
  <2>1. CASE ids # {}
    BY <1>1, <1>8, <2>1, RemoveKeepsPromise DEF Promise!PromiseNext
  <2>2. CASE ids = {}
    <3>1. Removes => gen' # gen
      BY DEF Removes, StoreTypeOK
    <3>2. gen' = gen
      BY <1>8, <2>2 DEF RemoveRows
    <3> QED BY <1>8, <3>1, <3>2, RemoveRemoves
  <2> QED BY <2>1, <2>2
<1>9. ASSUME NEW g, NEW l, ClearChatMessages(g, l) PROVE Promise!PromiseNext \/ UNCHANGED store
  BY <1>8, <1>9 DEF ClearChatMessages
<1>10. CASE CleanupChat
  BY <1>2, <1>8, <1>10 DEF CleanupChat
<1> QED BY <1>2, <1>3, <1>4, <1>6, <1>7, <1>9, <1>10 DEF Writes

-----------------------------------------------------------------------------
(* The pages.                                                               *)

LEMMA NewestPage ==
  ASSUME NEW all \in SUBSET Nat, IsFiniteSet(all), NEW k \in Nat \ {0}
  PROVE  /\ Newest(all, k) \subseteq all
         /\ all # {} => Newest(all, k) # {}
         /\ \A i \in all, j \in Newest(all, k) : i >= j => i \in Newest(all, k)
<1> DEFINE above(i) == {j \in all : j > i}
           page == Newest(all, k)
<1>1. page \subseteq all /\ \A i \in all : i \in page <=> Cardinality(above(i)) < k
  BY DEF Newest
<1>2. \A i \in all : IsFiniteSet(above(i)) /\ Cardinality(above(i)) \in Nat
  BY FS_Subset, FS_CardinalityType
<1>3. ASSUME NEW i \in all, NEW j \in page, i >= j PROVE i \in page
  <2>1. above(i) \in SUBSET above(j)
    <3>1. i \in Nat /\ j \in Nat /\ \A x \in all : x \in Nat
      BY <1>1
    <3>2. \A x \in all : x > i => x > j
      BY <1>3, <3>1
    <3> QED BY <3>2
  <2>2. Cardinality(above(i)) <= Cardinality(above(j))
    BY <1>1, <1>2, <2>1, FS_Subset
  <2>3. j \in all /\ Cardinality(above(j)) < k
    BY <1>1
  <2> HIDE DEF above, page
  <2> QED BY <1>1, <1>2, <2>2, <2>3
<1>4. ASSUME all # {} PROVE page # {}
  <2>1. \A i \in all : Cardinality(above(i)) \in Nat
    BY <1>2
  <2>2. PICK m \in all : \A i \in all : Cardinality(above(m)) <= Cardinality(above(i))
    <3> DEFINE c(i) == Cardinality(above(i))
               T == {c(i) : i \in all}
    <3> HIDE DEF c
    <3>1. \A i \in all : c(i) \in Nat
      BY <2>1 DEF c
    <3>2. T \in SUBSET Nat /\ T # {}
      BY <1>4, <3>1
    <3>3. PICK t \in T : \A u \in T : t <= u
      <4> HIDE DEF T
      <4> QED BY <3>2, LeastNat
    <3>4. PICK m \in all : c(m) = t
      BY <3>3
    <3>5. \A i \in all : c(m) <= c(i)
      BY <3>3, <3>4
    <3> QED BY <3>5 DEF c
  <2>6. above(m) = {}
    <3> SUFFICES ASSUME NEW i \in above(m) PROVE FALSE
      BY Zenon
    <3>1. i \in all /\ m \in Nat /\ i \in Nat /\ i > m /\ \A x \in all : x \in Nat
      OBVIOUS
    <3>2. \A x \in all : x > i => x > m
      BY <3>1
    <3>3. above(i) \in SUBSET above(m) /\ i \in above(m) /\ i \notin above(i)
      <4>1. \A x \in above(i) : x \in above(m)
        BY <3>2
      <4>2. ~(i > i)
        BY <3>1
      <4> QED BY <4>1, <4>2
    <3>4. above(i) # above(m)
      BY <3>3, Zenon
    <3>5. Cardinality(above(i)) < Cardinality(above(m))
      <4> HIDE DEF above
      <4> QED BY <1>2, <3>1, <3>3, <3>4, FS_Subset
    <3> HIDE DEF above
    <3> QED BY <1>2, <2>2, <3>1, <3>5
  <2>7. Cardinality(above(m)) = 0
    BY <2>6, FS_EmptySet
  <2> HIDE DEF above, page
  <2> QED BY <1>1, <2>7
<1> QED BY <1>1, <1>3, <1>4

LEMMA OldestOfInterval ==
  ASSUME NEW a \in Nat, NEW b \in Nat, a <= b, NEW k \in Nat
  PROVE  LET m == IF b <= a + k THEN b ELSE a + k IN
         /\ Oldest((a + 1)..b, k) = (a + 1)..m
         /\ Cardinality((a + 1)..m) = m - a
<1> DEFINE m == IF b <= a + k THEN b ELSE a + k
           S == (a + 1)..b
<1>1. m \in Nat /\ a <= m /\ m <= b
  OBVIOUS
<1>2. Cardinality((a + 1)..m) = m - a
  <2>1. a + 1 \in Int /\ m \in Int
    BY <1>1
  <2>2. Cardinality((a + 1)..m) = IF a + 1 > m THEN 0 ELSE m - (a + 1) + 1
    BY <2>1, FS_Interval
  <2> HIDE DEF m
  <2> QED BY <1>1, <2>2
<1>3. ASSUME NEW i \in S PROVE Cardinality({j \in S : j < i}) = i - a - 1
  <2>1. {j \in S : j < i} = (a + 1)..(i - 1)
    OBVIOUS
  <2>2. Cardinality((a + 1)..(i - 1)) = IF a + 1 > i - 1 THEN 0 ELSE (i - 1) - (a + 1) + 1
    BY FS_Interval
  <2>3. i \in Int /\ a + 1 <= i
    OBVIOUS
  <2>4. Cardinality((a + 1)..(i - 1)) = i - a - 1
    BY <2>2, <2>3
  <2> HIDE DEF S
  <2> QED BY <2>1, <2>4
<1>4. \A i \in S : i - a - 1 < k <=> i <= a + k
  OBVIOUS
<1> HIDE DEF S
<1>5. \A i : i \in Oldest(S, k) <=> i \in S /\ i - a - 1 < k
  BY <1>3 DEF Oldest
<1>6. Oldest(S, k) = (a + 1)..m
  <2>1. \A i : i \in S /\ i <= a + k <=> i \in (a + 1)..m
    BY DEF S
  <2>2. \A i : i \in Oldest(S, k) <=> i \in (a + 1)..m
    BY <1>4, <1>5, <2>1
  <2> QED BY <2>2
<1> QED BY <1>2, <1>6 DEF S

\* How many a page holds: all, or as many as were asked for.
LEMMA NewestCount ==
  ASSUME NEW n \in Nat, NEW all \in SUBSET (1..n), NEW k \in Nat \ {0}
  PROVE  LET page == Newest(all, k) IN
         /\ IsFiniteSet(page) /\ Cardinality(page) <= k
         /\ page # all => Cardinality(page) = k
<1> DEFINE page == Newest(all, k)
           above(i) == {j \in all : j > i}
<1>0. all \in SUBSET Nat /\ IsFiniteSet(all) /\ \A i \in all : i <= n
  <2>1. IsFiniteSet(1..n)
    BY FS_Interval
  <2>2. IsFiniteSet(all)
    BY <2>1, FS_Subset
  <2>3. \A i \in all : i \in Nat /\ i <= n
    OBVIOUS
  <2> QED BY <2>2, <2>3
<1>1. /\ page \subseteq all /\ (all # {} => page # {})
      /\ \A i \in all, j \in page : i >= j => i \in page
  BY <1>0, NewestPage
<1>2. \A i \in all : i \in page <=> Cardinality(above(i)) < k
  BY DEF Newest
<1>3. IsFiniteSet(page) /\ Cardinality(page) \in Nat
  BY <1>0, <1>1, FS_Subset, FS_CardinalityType
<1>4. \A i \in all : IsFiniteSet(above(i)) /\ Cardinality(above(i)) \in Nat
  BY <1>0, FS_Subset, FS_CardinalityType
<1>5. Cardinality(page) <= k
  <2>1. CASE page = {}
    BY <2>1, FS_EmptySet
  <2>2. CASE page # {}
    <3>1. PICK m \in page : \A i \in page : m <= i
      <4>1. page \in SUBSET Nat
        BY <1>0, <1>1
      <4> HIDE DEF page
      <4> QED BY <2>2, <4>1, LeastNat
    <3>2. above(m) = page \ {m}
      <4>1. m \in Nat /\ \A i \in all : i \in Nat
        BY <1>0, <1>1
      <4>2. \A i \in all : i > m <=> i \in page /\ i # m
        BY <1>1, <3>1, <4>1
      <4> QED BY <1>1, <4>2
    <3>3. Cardinality(above(m)) < k
      BY <1>1, <1>2
    <3>4. Cardinality(page \ {m}) = Cardinality(page) - 1
      <4> HIDE DEF page
      <4> QED BY <1>3, <3>1, FS_RemoveElement
    <3> HIDE DEF page, above
    <3> QED BY <1>3, <3>2, <3>3, <3>4
  <2> QED BY <2>1, <2>2
<1>6. ASSUME page # all PROVE Cardinality(page) >= k
  <2>1. PICK i \in all : i \notin page
    BY <1>1, <1>6
  <2>2. PICK x \in all \ page : \A y \in all \ page : x >= y
    <3> DEFINE rest == all \ page
    <3>1. rest \in SUBSET Nat /\ rest # {} /\ \A y \in rest : y <= n
      BY <1>0, <2>1
    <3> HIDE DEF rest
    <3>2. Max(rest) \in rest /\ \A y \in rest : Max(rest) >= y
      BY <3>1, MaxOf
    <3> QED BY <3>2 DEF rest
  <2>3. above(x) \in SUBSET page
    <3> SUFFICES ASSUME NEW y \in all, y > x, y \notin page PROVE FALSE
      OBVIOUS
    <3>1. x >= y /\ x \in Nat /\ y \in Nat
      BY <1>0, <2>2
    <3> QED BY <3>1
  <2>4. ~(Cardinality(above(x)) < k)
    BY <1>2, <2>2
  <2>5. Cardinality(above(x)) <= Cardinality(page)
    <3> HIDE DEF page, above
    <3> QED BY <1>3, <2>3, FS_Subset
  <2>6. Cardinality(above(x)) \in Nat
    BY <1>4, <2>2
  <2> HIDE DEF page, above
  <2> QED BY <1>3, <2>4, <2>5, <2>6
<1> HIDE DEF page
<1> QED BY <1>3, <1>5, <1>6 DEF page

\* Of a set that has every number from a + 1 to b and then lacks some, or ends,
\* the oldest k are those from a + 1 on, when they are no more than k.
LEMMA OldestOfStart ==
  ASSUME NEW a \in Nat, NEW m \in Nat, a <= m, NEW k \in Nat, NEW S \in SUBSET Nat,
         \A s \in S : s > a, (a + 1)..m \subseteq S, IsFiniteSet(S),
         m <= a + k, m = a + k \/ \A s \in S : s <= m
  PROVE  Oldest(S, k) = (a + 1)..m
<1> DEFINE below(i) == {j \in S : j < i}
<1>1. \A i \in S : IsFiniteSet(below(i)) /\ Cardinality(below(i)) \in Nat
  BY FS_Subset, FS_CardinalityType
<1>2. \A i : i \in Oldest(S, k) <=> i \in S /\ Cardinality(below(i)) < k
  BY DEF Oldest
<1>3. ASSUME NEW i \in (a + 1)..m PROVE i \in Oldest(S, k)
  <2>1. i \in S /\ i \in Int /\ a + 1 <= i /\ i <= m
    OBVIOUS
  <2>2. below(i) \subseteq (a + 1)..(i - 1)
    <3> SUFFICES ASSUME NEW j \in S, j < i PROVE j \in (a + 1)..(i - 1)
      OBVIOUS
    <3>1. j \in Nat /\ j > a
      OBVIOUS
    <3> QED BY <2>1, <3>1
  <2>3. IsFiniteSet((a + 1)..(i - 1)) /\ Cardinality((a + 1)..(i - 1)) <= i - a - 1
    <3>1. /\ IsFiniteSet((a + 1)..(i - 1))
          /\ Cardinality((a + 1)..(i - 1)) = IF a + 1 > i - 1 THEN 0 ELSE (i - 1) - (a + 1) + 1
      BY <2>1, FS_Interval
    <3> QED BY <2>1, <3>1
  <2>4. Cardinality(below(i)) <= Cardinality((a + 1)..(i - 1))
        /\ Cardinality((a + 1)..(i - 1)) \in Nat
    <3> HIDE DEF below
    <3> QED BY <2>2, <2>3, FS_Subset, FS_CardinalityType
  <2>5. Cardinality(below(i)) \in Nat
    BY <1>1, <2>1
  <2> HIDE DEF below
  <2>6. Cardinality(below(i)) < k
    BY <2>1, <2>3, <2>4, <2>5
  <2> QED BY <1>2, <2>1, <2>6
<1>4. ASSUME NEW i \in Oldest(S, k), i \notin (a + 1)..m PROVE FALSE
  <2>1. i \in S /\ i \in Nat /\ i > a /\ ~(i <= m) /\ Cardinality(below(i)) < k
    <3>1. i \in S /\ Cardinality(below(i)) < k
      BY <1>2
    <3> HIDE DEF below
    <3> QED BY <1>4, <3>1
  <2>2. m = a + k
    BY <2>1
  <2>3. (a + 1)..m \subseteq below(i)
    BY <2>1
  <2>4. Cardinality((a + 1)..m) = k
    <3>1. Cardinality((a + 1)..m) = IF a + 1 > m THEN 0 ELSE m - (a + 1) + 1
      BY FS_Interval
    <3> QED BY <2>2, <3>1
  <2>5. IsFiniteSet(below(i)) /\ Cardinality(below(i)) \in Nat
    BY <1>1, <2>1
  <2>6. Cardinality((a + 1)..m) <= Cardinality(below(i))
    <3> HIDE DEF below
    <3> QED BY <2>3, <2>5, FS_Subset
  <2> HIDE DEF below
  <2> QED BY <2>1, <2>4, <2>5, <2>6
<1> QED BY <1>3, <1>4

\* A page of the history before an id is every present message from its "next" up
\* to that id.  It has no more than the limit, and when there is a next page it
\* has exactly the limit, starts with "next", and leaves something older.
HistoryExact(before, limit) ==
  LET p     == ChatMessagesPage(before, limit)
      ids   == {row.id : row \in p.rows}
      older == {i \in Present : before = 0 \/ i < before} IN
  /\ ids = {i \in older : i >= p.next}
  /\ Cardinality(ids) <= limit
  /\ p.next # 0 => /\ p.next \in older /\ Cardinality(ids) = limit
                   /\ \E i \in older : i < p.next

LEMMA HistoryIsExact ==
  ASSUME StoreTypeOK, NEW before \in Nat, NEW limit \in Nat \ {0}
  PROVE  HistoryExact(before, limit)
<1> DEFINE p == ChatMessagesPage(before, limit)
           all == {i \in Present : before = 0 \/ i < before}
           page == Newest(all, limit)
           ids == {row.id : row \in p.rows}
<1>1. MaxMessages \in Nat /\ Present \subseteq 1..MaxMessages
  <2>1. Present \subseteq Ids
    BY StoreShape
  <2> QED BY <2>1, StoreAssumption DEF Ids
<1>2. all \in SUBSET (1..MaxMessages)
  BY <1>1
<1>3. /\ p.next = IF page = all THEN 0 ELSE Min(page)
      /\ p.rows = {[id |-> i, status |-> msgs[i], seq |-> Latest] : i \in page}
  BY DEF ChatMessagesPage
<1>4. ids = page
  <2>1. \A i : i \in ids => i \in page
    <3> SUFFICES ASSUME NEW row \in p.rows PROVE row.id \in page
      OBVIOUS
    <3> HIDE DEF p, page
    <3> QED BY <1>3
  <2>2. ASSUME NEW i \in page PROVE i \in ids
    <3> DEFINE row == [id |-> i, status |-> msgs[i], seq |-> Latest]
    <3>1. row \in p.rows /\ row.id = i
      BY <1>3
    <3> HIDE DEF row, p, page
    <3> QED BY <3>1
  <2> QED BY <2>1, <2>2
<1> SUFFICES /\ page = {i \in all : i >= p.next} /\ Cardinality(page) <= limit
             /\ p.next # 0 => /\ p.next \in all /\ Cardinality(page) = limit
                              /\ \E i \in all : i < p.next
  BY <1>4 DEF HistoryExact
<1> HIDE DEF ids, all, p
<1>5. \A i \in all : i \in Nat /\ 0 <= i
  BY <1>2
<1>6. all \in SUBSET Nat /\ IsFiniteSet(all)
  <2>1. IsFiniteSet(1..MaxMessages)
    BY <1>1, FS_Interval
  <2> QED BY <1>2, <1>5, <2>1, FS_Subset
<1>7. /\ page \subseteq all /\ (all # {} => page # {})
      /\ \A i \in all, j \in page : i >= j => i \in page
  BY <1>6, NewestPage
<1>8. Cardinality(page) <= limit /\ (page # all => Cardinality(page) = limit)
  BY <1>1, <1>2, NewestCount
<1> HIDE DEF page
<1>9. CASE page = all
  <2>1. p.next = 0
    BY <1>3, <1>9
  <2> QED BY <1>5, <1>8, <1>9, <2>1
<1>10. CASE page # all
  <2>1. page \in SUBSET Nat /\ page # {}
    BY <1>5, <1>7, <1>10
  <2>2. p.next \in page /\ \A y \in page : p.next <= y
    BY <1>3, <1>10, <2>1, MinOf
  <2>3. page = {i \in all : i >= p.next}
    BY <1>5, <1>7, <2>2
  <2>4. PICK i \in all : i \notin page
    BY <1>7, <1>10
  <2>5. i < p.next
    BY <1>5, <1>7, <2>2, <2>4
  <2> QED BY <1>7, <1>8, <1>10, <2>2, <2>3, <2>4, <2>5
<1> QED BY <1>9, <1>10

\* A reader is told to start over exactly when its cursor is of another
\* generation or beyond the latest change, or one of the changes that its page
\* would hold, or of the one after them, is gone.  Otherwise its page is all the
\* changes after the cursor, as many as the limit or up to the latest.
ChangesExact(after, generation, limit) ==
  LET p    == ChatChangesPage(after, limit)
      upTo == IF after + limit < Latest THEN after + limit ELSE Latest IN
  /\ CursorResetRequired(after, generation, limit) <=>
       \/ generation # gen \/ after > Latest
       \/ \E s \in (after + 1)..Latest : s <= after + limit + 1 /\ chg[s] = 0
  /\ ~CursorResetRequired(after, generation, limit) =>
       /\ p.next = upTo
       /\ p.rows = {[id |-> chg[s], status |-> msgs[chg[s]], seq |-> s] : s \in (after + 1)..upTo}

LEMMA ChangesAreExact ==
  ASSUME StoreTypeOK, NEW after \in Nat, NEW generation \in Nat, NEW limit \in Nat \ {0}
  PROVE  ChangesExact(after, generation, limit)
<1> DEFINE p == ChatChangesPage(after, limit)
           upTo == IF after + limit < Latest THEN after + limit ELSE Latest
           kept == {s \in (after + 1)..Latest : chg[s] # 0}
           gone == \E s \in (after + 1)..Latest : s <= after + limit + 1 /\ chg[s] = 0
           found == Fetched(after, limit)
           last == after + Cardinality(found)
<1>1. Latest \in Nat
  BY StoreShape
<1>2. kept \in SUBSET Nat /\ IsFiniteSet(kept) /\ \A s \in kept : s > after /\ s <= Latest
  <2>1. IsFiniteSet((after + 1)..Latest) /\ kept \subseteq (after + 1)..Latest
    BY <1>1, FS_Interval
  <2>2. \A s \in (after + 1)..Latest : s \in Nat /\ s > after /\ s <= Latest
    BY <1>1
  <2> HIDE DEF kept
  <2> QED BY <2>1, <2>2, FS_Subset
<1>3. found = Oldest(kept, limit + 1) /\ found \subseteq kept
  BY DEF Fetched, Oldest
<1>4. IsFiniteSet(found) /\ Cardinality(found) \in Nat
  BY <1>2, <1>3, FS_Subset, FS_CardinalityType
<1>5. ASSUME after <= Latest, ~gone
      PROVE  Continuous(after, limit)
  <2> DEFINE m == IF Latest <= after + limit + 1 THEN Latest ELSE after + limit + 1
  <2>1. m \in Nat /\ after <= m /\ m <= Latest /\ m <= after + (limit + 1)
        /\ (m = after + (limit + 1) \/ m = Latest)
    BY <1>1, <1>5
  <2>2. (after + 1)..m \subseteq kept
    <3> SUFFICES ASSUME NEW s \in (after + 1)..m PROVE s \in kept
      OBVIOUS
    <3>1. s \in (after + 1)..Latest /\ s <= after + limit + 1
      BY <1>1, <2>1
    <3>2. chg[s] # 0
      BY <1>5, <3>1
    <3> QED BY <3>1, <3>2
  <2> HIDE DEF m, kept, found
  <2>3. found = (after + 1)..m
    <3>1. \A s \in kept : s > after
      BY <1>2
    <3>2. m = after + (limit + 1) \/ \A s \in kept : s <= m
      BY <1>2, <2>1
    <3>3. limit + 1 \in Nat
      OBVIOUS
    <3> QED BY <1>2, <1>3, <2>1, <2>2, <3>1, <3>2, <3>3, OldestOfStart
  <2>4. Cardinality((after + 1)..m) = m - after
    <3>1. Cardinality((after + 1)..m) = IF after + 1 > m THEN 0 ELSE m - (after + 1) + 1
      BY <2>1, FS_Interval
    <3> QED BY <2>1, <3>1
  <2>5. last = m
    BY <2>1, <2>3, <2>4
  <2>6. last > after + limit \/ last = Latest
    BY <2>1, <2>5
  <2> HIDE DEF last
  <2>7. found = (after + 1)..last
    BY <2>3, <2>5
  <2> QED BY <2>6, <2>7 DEF Continuous, last, found
<1>6. ASSUME Continuous(after, limit), after <= Latest
      PROVE  ~gone /\ last \in Nat /\ after <= last /\ last <= Latest
             /\ found = (after + 1)..last /\ (last > after + limit \/ last = Latest)
  <2>1. found = (after + 1)..last /\ (last > after + limit \/ last = Latest)
    BY <1>6 DEF Continuous
  <2>2. last \in Nat /\ after <= last
    BY <1>4
  <2> HIDE DEF last, found, kept
  <2>3. last <= Latest
    <3> SUFFICES ASSUME last > Latest PROVE FALSE
      BY <1>1, <2>2
    <3>1. last \in (after + 1)..last
      BY <1>1, <1>6, <2>2
    <3> QED BY <1>1, <1>2, <1>3, <2>1, <2>2, <3>1
  <2>4. \A s \in (after + 1)..Latest : s <= after + limit + 1 => s \in found \/ s = last + 1
    <3> SUFFICES ASSUME NEW s \in (after + 1)..Latest, s <= after + limit + 1, s > last,
                        s # last + 1
                 PROVE  FALSE
      BY <1>1, <2>1, <2>2
    <3> QED BY <1>1, <2>1, <2>2
  <2>5. ASSUME NEW s \in (after + 1)..Latest, s <= after + limit + 1, chg[s] = 0 PROVE FALSE
    <3>1. s \notin kept
      BY <2>5 DEF kept
    <3>2. s \notin found
      BY <1>3, <3>1
    <3>3. s > last
      BY <1>1, <2>1, <2>2, <3>2
    <3>4. last > after + limit
      BY <1>1, <2>1, <2>2, <2>5, <3>3
    <3> QED BY <1>1, <2>2, <2>5, <3>3, <3>4
  <2> QED BY <2>1, <2>2, <2>3, <2>5
<1>7. CursorResetRequired(after, generation, limit) <=>
        generation # gen \/ after > Latest \/ gone
  BY <1>1, <1>5, <1>6 DEF CursorResetRequired
<1>8. ASSUME ~CursorResetRequired(after, generation, limit)
      PROVE  /\ p.next = upTo
             /\ p.rows = {[id |-> chg[s], status |-> msgs[chg[s]], seq |-> s] : s \in (after + 1)..upTo}
  <2> DEFINE page == Oldest(found, limit)
             m == IF last <= after + limit THEN last ELSE after + limit
  <2>1. /\ last \in Nat /\ after <= last /\ last <= Latest /\ found = (after + 1)..last
        /\ (last > after + limit \/ last = Latest)
    BY <1>1, <1>6, <1>8 DEF CursorResetRequired
  <2>2. /\ p.next = after + Cardinality(page)
        /\ p.rows = {[id |-> chg[s], status |-> msgs[chg[s]], seq |-> s] : s \in page}
    BY DEF ChatChangesPage
  <2> HIDE DEF p, found, last
  <2>3. page = (after + 1)..m /\ Cardinality((after + 1)..m) = m - after
    BY <2>1, OldestOfInterval
  <2>4. m = upTo /\ m \in Nat
    BY <1>1, <2>1
  <2>5. after + (m - after) = m
    BY <2>4
  <2> HIDE DEF page, m, upTo
  <2>6. p.next = upTo
    BY <2>2, <2>3, <2>4, <2>5
  <2> QED BY <2>2, <2>3, <2>4, <2>6
<1> QED BY <1>7, <1>8 DEF ChangesExact
================================================================================
