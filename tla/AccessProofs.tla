----------------------------- MODULE AccessProofs -----------------------------
(***************************************************************************)
(* Theorems about Accounts and about Downloads, for any number of          *)
(* accounts, passwords, sessions, leases and requests, and any versions of *)
(* the file.                                                               *)
(***************************************************************************)
EXTENDS Downloads, FiniteSetTheorems, TLAPS

(* What a handler works on exists, and where it stands fits what it is.     *)
Refers(m) ==
  /\ m.op \in {"create", "login", "change", "reset"} => m.user \in Users
  /\ m.op \in {"change", "heartbeat", "download", "upload"} => m.session \in Sessions
  /\ m.at \in {"reading", "saving"} => m.op = "change"
  /\ m.at = "touch" => m.op = "heartbeat"
  /\ m.at = "mint" => m.op \in {"download", "upload"}

(* What a handler has seen of an account is of the past: while the version  *)
(* is the same, so is the password.                                         *)
Dated(u, seen) ==
  /\ seen.version <= users[u].version
  /\ seen.version = users[u].version => seen.hash = users[u].hash

Remembers(m) ==
  /\ m.op = "login" => Dated(m.user, m.seen)
  /\ m.op = "login" /\ m.at = "insert" => m.given = m.seen.hash
  /\ m.op = "change" /\ m.at # "reading" => Dated(m.user, m.seen)
  /\ m.at = "saving" => m.given = m.seen.hash

IInv ==
  /\ AccountsTypeOK /\ SlotsAreExact
  /\ \A r \in Requests : Refers(req[r]) /\ Remembers(req[r])
  /\ SessionsAreCurrent /\ LeasesAreCurrent

-----------------------------------------------------------------------------
(* What a step does to the handlers.                                        *)

HasSlot(m) == m.at \in {"hashing", "saving"}
SlotHolders == {r \in Requests : HasSlot(req[r])}

(* An account changes its password or its status only with its version,     *)
(* except that it may become active.                                        *)
UsersAdvance ==
  \A u \in Users :
    \/ users'[u].version > users[u].version
    \/ users'[u].version = users[u].version /\ users'[u].hash = users[u].hash

\* What a handler remembers of an account is not ahead of the account.
LEMMA StillDated ==
  ASSUME AccountsTypeOK, users' \in [Users -> Accs], UsersAdvance,
         NEW u \in Users, NEW seen \in Accs, Dated(u, seen)
  PROVE  Dated(u, seen)'
<1>1. /\ users[u].version \in Nat /\ users'[u].version \in Nat /\ seen.version \in Nat
  BY AccountsAssumption DEF AccountsTypeOK, Accs
<1> QED BY <1>1 DEF UsersAdvance, Dated

\* What a handler remembers stays possible while accounts advance.
LEMMA StillRemembers ==
  ASSUME AccountsTypeOK, users' \in [Users -> Accs], UsersAdvance,
         NEW m \in AccountRequests, Refers(m), Remembers(m)
  PROVE  Remembers(m)'
<1>1. m.seen \in Accs
  BY DEF AccountRequests
<1>2. m.op \in {"login", "change"} => m.user \in Users
  BY DEF Refers
<1> QED BY <1>1, <1>2, StillDated DEF Remembers

\* A handler that is over needs nothing.
LEMMA NobodyWaits == NoRequest \in AccountRequests /\ Refers(NoRequest) /\ Remembers(NoRequest)'
                     /\ ~HasSlot(NoRequest)
BY AccountsAssumption
DEF NoRequest, Request, AccountRequests, Ops, Ats, NoAccount, Account, Accs, Statuses, Refers,
    Remembers, HasSlot

\* A handler that takes or gives back a slot changes their number by one.
LEMMA SlotCount ==
  ASSUME IInv, NEW r \in Requests, NEW m,
         req' = [req EXCEPT ![r] = m],
         \/ (HasSlot(req[r]) <=> HasSlot(m)) /\ slots' = slots
         \/ ~HasSlot(req[r]) /\ HasSlot(m) /\ slots < MaxSlots /\ slots' = slots + 1
         \/ HasSlot(req[r]) /\ ~HasSlot(m) /\ slots' = slots - 1
  PROVE  slots' \in 0 .. MaxSlots /\ SlotsAreExact'
<1>1. /\ slots = Cardinality(SlotHolders) /\ slots \in 0 .. MaxSlots /\ MaxSlots \in Nat
      /\ req \in [Requests -> AccountRequests]
  BY AccountsAssumption DEF IInv, SlotsAreExact, SlotHolders, HasSlot, AccountsTypeOK
<1>2. IsFiniteSet(SlotHolders)
  BY AccountsAssumption, FS_Subset DEF SlotHolders
<1>3. SlotHolders' = IF HasSlot(m) THEN SlotHolders \cup {r} ELSE SlotHolders \ {r}
  BY <1>1 DEF SlotHolders, HasSlot
<1>4. SlotsAreExact' <=> slots' = Cardinality(SlotHolders')
  BY DEF SlotsAreExact, SlotHolders, HasSlot
<1>5. CASE (HasSlot(req[r]) <=> HasSlot(m)) /\ slots' = slots
  <2>1. SlotHolders' = SlotHolders
    BY <1>3, <1>5 DEF SlotHolders
  <2> QED BY <1>1, <1>4, <1>5, <2>1
<1>6. CASE ~HasSlot(req[r]) /\ HasSlot(m) /\ slots < MaxSlots /\ slots' = slots + 1
  <2>1. SlotHolders' = SlotHolders \cup {r} /\ r \notin SlotHolders
    BY <1>3, <1>6 DEF SlotHolders
  <2>2. Cardinality(SlotHolders \cup {r}) = Cardinality(SlotHolders) + 1
    BY <1>2, <2>1, FS_AddElement
  <2> QED BY <1>1, <1>4, <1>6, <2>1, <2>2
<1>7. CASE HasSlot(req[r]) /\ ~HasSlot(m) /\ slots' = slots - 1
  <2>1. SlotHolders' = SlotHolders \ {r} /\ r \in SlotHolders
    BY <1>3, <1>7 DEF SlotHolders
  <2>2. Cardinality(SlotHolders \ {r}) = Cardinality(SlotHolders) - 1
        /\ Cardinality(SlotHolders \ {r}) \in Nat
    BY <1>2, <2>1, FS_RemoveElement, FS_CardinalityType
  <2> QED BY <1>1, <1>4, <1>7, <2>1, <2>2
<1> QED BY <1>5, <1>6, <1>7

(* A step of one handler, told by the record it leaves behind.              *)
LEMMA HandlerSteps ==
  ASSUME IInv, NEW r \in Requests, NEW m \in AccountRequests,
         req' = [req EXCEPT ![r] = m], Refers(m), Remembers(m)',
         users' \in [Users -> Accs], UsersAdvance
  PROVE  /\ req' \in [Requests -> AccountRequests]
         /\ \A w \in Requests : (Refers(req[w]) /\ Remembers(req[w]))'
<1>1. req \in [Requests -> AccountRequests]
  BY DEF IInv, AccountsTypeOK
<1>2. ASSUME NEW w \in Requests, w # r
      PROVE  (Refers(req[w]) /\ Remembers(req[w]))'
  <2>1. req'[w] = req[w] /\ req[w] \in AccountRequests
    BY <1>1, <1>2
  <2>2. Refers(req[w]) /\ Remembers(req[w])
    BY DEF IInv
  <2>3. \A n \in AccountRequests : Refers(n) /\ Remembers(n) => Remembers(n)'
    BY StillRemembers DEF IInv
  <2> QED BY <2>1, <2>2, <2>3 DEF Refers, Remembers, Dated
<1>3. (Refers(req[r]) /\ Remembers(req[r]))'
  BY <1>1 DEF Refers, Remembers, Dated
<1> QED BY <1>1, <1>2, <1>3

-----------------------------------------------------------------------------
(* What a step does to the tables.                                          *)

TablesType ==
  /\ users \in [Users -> Accs]
  /\ sessions \in [Sessions -> SessionRows]
  /\ leases \in [Leases -> LeaseRows]
TablesOK == TablesType /\ SessionsAreCurrent /\ LeasesAreCurrent

\* The invariant gives the tables what is said of them.
LEMMA TablesHold == ASSUME IInv PROVE TablesOK
BY DEF IInv, AccountsTypeOK, TablesOK, TablesType

\* Tables that nobody touches stay as they are.
LEMMA TablesKept ==
  ASSUME TablesOK, UNCHANGED <<users, sessions, leases>>
  PROVE  TablesOK' /\ UsersAdvance
<1>1. UsersAdvance
  BY DEF UsersAdvance, TablesOK
<1>2. TablesType' /\ SessionsAreCurrent' /\ LeasesAreCurrent'
  BY DEF TablesOK, TablesType, SessionsAreCurrent, LeasesAreCurrent, Current, Revocable
<1> QED BY <1>1, <1>2 DEF TablesOK

(* A row of sessions is removed, ages, or is opened under the account in    *)
(* force.                                                                   *)
LEMMA SessionsMove ==
  ASSUME TablesOK, UNCHANGED <<users, leases>>, sessions' \in [Sessions -> SessionRows],
         \A s \in Sessions :
           sessions'[s].life # "none" /\ sessions'[s].user # NoUser =>
             \/ /\ sessions[s].life # "none" /\ sessions'[s].user = sessions[s].user
                /\ sessions'[s].version = sessions[s].version
                /\ sessions'[s].opened = sessions[s].opened
             \/ /\ Current(sessions'[s].user, sessions'[s].version)
                /\ sessions'[s].opened = users[sessions'[s].user].hash
  PROVE  TablesOK' /\ UsersAdvance
<1>1. UsersAdvance
  BY DEF UsersAdvance
<1>2. TablesType' /\ LeasesAreCurrent'
  BY DEF TablesOK, TablesType, LeasesAreCurrent, Current, Revocable
<1>3. SessionsAreCurrent'
  BY DEF TablesOK, TablesType, SessionsAreCurrent, Current
<1> QED BY <1>1, <1>2, <1>3 DEF TablesOK

(* A row of leases is removed, used, or minted under the account in force.  *)
LEMMA LeasesMove ==
  ASSUME TablesOK, UNCHANGED <<users, sessions>>, leases' \in [Leases -> LeaseRows],
         \A l \in Leases :
           Revocable(l)' /\ leases'[l].user # NoUser =>
             \/ leases'[l] = leases[l]
             \/ Current(leases'[l].user, leases'[l].version)
  PROVE  TablesOK' /\ UsersAdvance
<1>1. UsersAdvance
  BY DEF UsersAdvance
<1>2. TablesType' /\ SessionsAreCurrent'
  BY DEF TablesOK, TablesType, SessionsAreCurrent, Current
<1>3. LeasesAreCurrent'
  BY DEF TablesOK, TablesType, LeasesAreCurrent, Current, Revocable
<1> QED BY <1>1, <1>2, <1>3 DEF TablesOK

(* The one transaction that changes an account takes with it what was       *)
(* opened under the version it replaces.                                    *)
LEMMA UpdateKeepsTables ==
  ASSUME TablesOK, NEW u \in Users, NEW status \in Statuses,
         NEW hash \in Passwords \cup {NoPassword}, NEW revoke \in BOOLEAN,
         UpdateAccount(u, status, hash, revoke),
         ~revoke => /\ status \in {users[u].status, "active"} \ {"deleted"}
                    /\ hash = users[u].hash
  PROVE  TablesOK' /\ UsersAdvance
<1> DEFINE version == IF revoke THEN users[u].version + 1 ELSE users[u].version
           left == IF status = "deleted" THEN NoPassword ELSE hash
<1>1. /\ users[u].version \in Nat /\ users[u].version <= MaxVersion /\ MaxVersion \in Nat
      /\ version \in 0 .. MaxVersion /\ version >= users[u].version
      /\ revoke => version > users[u].version
  BY AccountsAssumption DEF TablesOK, TablesType, Accs, UpdateAccount
<1>2. users' = [users EXCEPT ![u] = Account(status, left, version)]
  BY DEF UpdateAccount
<1>3. Account(status, left, version) \in Accs
  BY <1>1 DEF Account, Accs
<1>4. users' \in [Users -> Accs] /\ UsersAdvance
  <2>1. users' \in [Users -> Accs]
    BY <1>2, <1>3 DEF TablesOK, TablesType
  <2>2. \A w \in Users \ {u} : users'[w] = users[w]
    BY <1>2 DEF TablesOK, TablesType
  <2>3. users'[u].version = version /\ users'[u].hash = left
    BY <1>2 DEF TablesOK, TablesType, Account
  <2> QED BY <1>1, <2>1, <2>2, <2>3 DEF UsersAdvance
<1>5. CASE revoke
  <2>1. /\ sessions' = [s \in Sessions |-> IF sessions[s].user = u THEN Free ELSE sessions[s]]
        /\ leases' = [l \in Leases |->
             IF leases[l].user = u /\ Revocable(l) THEN NoLease ELSE leases[l]]
    BY <1>5 DEF UpdateAccount
  <2>2. Free \in SessionRows /\ NoLease \in LeaseRows
    BY AccountsAssumption DEF Free, SessionRow, SessionRows, NoLease, LeaseRow, LeaseRows
  <2>3. TablesType'
    BY <1>4, <2>1, <2>2 DEF TablesOK, TablesType
  <2>4. \A w \in Users \ {u} : users'[w] = users[w]
    BY <1>2 DEF TablesOK, TablesType
  <2>5. SessionsAreCurrent'
    <3> SUFFICES ASSUME NEW s \in Sessions, sessions'[s].life # "none", sessions'[s].user # NoUser
                 PROVE  (/\ Current(sessions[s].user, sessions[s].version)
                         /\ sessions[s].opened = users[sessions[s].user].hash)'
      BY DEF SessionsAreCurrent
    <3>1. sessions'[s] = sessions[s] /\ sessions[s].user # u
      BY <2>1 DEF Free, SessionRow
    <3>2. sessions[s].user \in Users \ {u}
      BY <3>1 DEF TablesOK, TablesType, SessionRows
    <3> QED BY <2>4, <3>1, <3>2 DEF TablesOK, SessionsAreCurrent, Current
  <2>6. LeasesAreCurrent'
    <3> SUFFICES ASSUME NEW l \in Leases, Revocable(l)', leases'[l].user # NoUser
                 PROVE  Current(leases[l].user, leases[l].version)'
      BY DEF LeasesAreCurrent
    <3>1. leases'[l] = leases[l] /\ ~(leases[l].user = u /\ Revocable(l))
      BY <2>1 DEF NoLease, LeaseRow, Revocable
    <3>2. Revocable(l) /\ leases[l].user \in Users \ {u}
      BY <3>1 DEF TablesOK, TablesType, LeaseRows, Revocable
    <3> QED BY <2>4, <3>1, <3>2 DEF TablesOK, LeasesAreCurrent, Current
  <2> QED BY <1>4, <2>3, <2>5, <2>6 DEF TablesOK
<1>6. CASE ~revoke
  <2>1. UNCHANGED <<sessions, leases>>
    BY <1>6 DEF UpdateAccount
  <2>2. \A w \in Users : /\ users'[w].version = users[w].version
                         /\ users'[w].hash = users[w].hash
                         /\ users[w].status = "active" => users'[w].status = "active"
    BY <1>2, <1>6 DEF TablesOK, TablesType, Account
  <2>3. TablesType'
    BY <1>4, <2>1 DEF TablesOK, TablesType
  <2>4. SessionsAreCurrent'
    BY <2>1, <2>2 DEF TablesOK, TablesType, SessionsAreCurrent, Current, SessionRows
  <2>5. LeasesAreCurrent'
    BY <2>1, <2>2 DEF TablesOK, TablesType, LeasesAreCurrent, Current, Revocable, LeaseRows
  <2> QED BY <1>4, <2>3, <2>4, <2>5 DEF TablesOK
<1> QED BY <1>5, <1>6

(* A step of one handler, told by the record it leaves behind, and one of   *)
(* nobody.                                                                  *)
LEMMA HandlerInv ==
  ASSUME IInv, NEW r \in Requests, NEW m \in AccountRequests,
         req' = [req EXCEPT ![r] = m], Refers(m), Remembers(m)',
         TablesOK', UsersAdvance,
         \/ (HasSlot(req[r]) <=> HasSlot(m)) /\ slots' = slots
         \/ ~HasSlot(req[r]) /\ HasSlot(m) /\ slots < MaxSlots /\ slots' = slots + 1
         \/ HasSlot(req[r]) /\ ~HasSlot(m) /\ slots' = slots - 1
  PROVE  IInv'
<1>1. slots' \in 0 .. MaxSlots /\ SlotsAreExact'
  BY SlotCount
<1>2. users' \in [Users -> Accs]
  BY DEF TablesOK, TablesType
<1>3. /\ req' \in [Requests -> AccountRequests]
      /\ \A w \in Requests : (Refers(req[w]) /\ Remembers(req[w]))'
  BY <1>2, HandlerSteps
<1>4. AccountsTypeOK'
  BY <1>1, <1>3 DEF AccountsTypeOK, TablesOK, TablesType
<1> QED BY <1>1, <1>3, <1>4 DEF IInv, TablesOK

\* A handler ends, and gives back the slot it has.
LEMMA FinishInv ==
  ASSUME IInv, NEW r \in Requests, Finish(r), TablesOK', UsersAdvance,
         slots' = IF HasSlot(req[r]) THEN slots - 1 ELSE slots
  PROVE  IInv'
BY HandlerInv, NobodyWaits DEF Finish

\* A step that is no handler's changes tables only.
LEMMA OthersInv ==
  ASSUME IInv, UNCHANGED <<req, slots>>, TablesOK', UsersAdvance
  PROVE  IInv'
<1>1. users' \in [Users -> Accs]
  BY DEF TablesOK, TablesType
<1>2. \A r \in Requests : Remembers(req[r])'
  BY <1>1, StillRemembers DEF IInv, AccountsTypeOK
<1>3. AccountsTypeOK' /\ SlotsAreExact'
  BY DEF IInv, AccountsTypeOK, SlotsAreExact, TablesOK, TablesType
<1>4. \A r \in Requests : Refers(req[r])'
  BY DEF IInv, Refers
<1> QED BY <1>2, <1>3, <1>4 DEF IInv, TablesOK

-----------------------------------------------------------------------------
(* The handlers begin.                                                      *)

\* A handler starts without a slot.
LEMMA StartInv ==
  ASSUME IInv, NEW r \in Requests, NEW m \in AccountRequests, Start(r, m),
         UNCHANGED <<users, sessions, leases, slots>>,
         ~HasSlot(m), Refers(m), Remembers(m)
  PROVE  IInv'
<1>1. ~HasSlot(req[r]) /\ req' = [req EXCEPT ![r] = m]
  BY NobodyWaits DEF Start
<1>2. TablesOK' /\ UsersAdvance
  BY TablesHold, TablesKept
<1>3. Remembers(m)'
  BY DEF Remembers, Dated
<1> QED BY <1>1, <1>2, <1>3, HandlerInv

\* Every operation begins with what it reads.
LEMMA BeginInv ==
  ASSUME IInv, NEW r \in Requests, RequestBegins(r)
  PROVE  IInv'
<1> USE DEF Request, HasSlot, Refers, Remembers
<1>1. /\ NoAccount \in Accs /\ NoUser \in Users \cup {NoUser}
      /\ users \in [Users -> Accs] /\ sessions \in [Sessions -> SessionRows]
  BY AccountsAssumption DEF NoAccount, Account, Accs, Statuses, IInv, AccountsTypeOK
<1>2. CASE BeginAdminLogin(r)
  BY <1>1, <1>2, StartInv DEF BeginAdminLogin, AccountRequests, Ops, Ats
<1>3. ASSUME NEW u \in Users, NEW p \in Passwords, BeginCreate(r, u, p) \/ BeginReset(r, u, p)
      PROVE  IInv'
  BY <1>1, <1>3, StartInv DEF BeginCreate, BeginReset, AccountRequests, Ops, Ats
<1>4. ASSUME NEW u \in Users, NEW p \in Passwords, BeginLogin(r, u, p)
      PROVE  IInv'
  <2> DEFINE m == Request("login", "slot", u, users[u], p, NoPassword, NoSession)
  <2>1. m \in AccountRequests
    BY <1>1 DEF AccountRequests, Ops, Ats
  <2>2. Dated(u, users[u])
    BY <1>1 DEF Dated, Accs
  <2> QED BY <1>4, <2>1, <2>2, StartInv DEF BeginLogin
<1>5. ASSUME NEW s \in Sessions, NEW old \in Passwords, NEW new \in Passwords,
             BeginChange(r, s, old, new)
      PROVE  IInv'
  <2> DEFINE seen == Account("active", NoPassword, sessions[s].version)
             m == Request("change", "reading", sessions[s].user, seen, old, new, s)
  <2>1. sessions[s].user \in Users /\ seen \in Accs
    BY <1>1, <1>5 DEF BeginChange, SessionRows, Account, Accs, Statuses
  <2>2. m \in AccountRequests
    BY <2>1 DEF AccountRequests, Ops, Ats
  <2> QED BY <1>5, <2>1, <2>2, StartInv DEF BeginChange
<1>6. ASSUME NEW s \in Sessions, BeginHeartbeat(r, s)
      PROVE  IInv'
  BY <1>1, <1>6, StartInv DEF BeginHeartbeat, AccountRequests, Ops, Ats
<1>7. ASSUME NEW s \in Sessions, NEW kind \in {"download", "upload"}, BeginMint(r, s, kind)
      PROVE  IInv'
  BY <1>1, <1>7, StartInv DEF BeginMint, AccountRequests, Ops, Ats
<1> QED BY <1>2, <1>3, <1>4, <1>5, <1>6, <1>7 DEF RequestBegins

-----------------------------------------------------------------------------
(* They go on.                                                              *)

\* A handler gets a slot, or is refused.
LEMMA AcquirePasswordSlotInv ==
  ASSUME IInv, NEW r \in Requests, AcquirePasswordSlot(r)
  PROVE  IInv'
<1>1. TablesOK' /\ UsersAdvance
  BY TablesHold, TablesKept DEF AcquirePasswordSlot
<1>2. CASE slots < MaxSlots
  <2>1. PICK m \in AccountRequests : m = [req[r] EXCEPT !.at = "hashing"]
    BY DEF IInv, AccountsTypeOK, AccountRequests, Ats
  <2>2. Refers(m) /\ Remembers(m)'
    <3>1. Refers(req[r]) /\ Remembers(req[r]) /\ UNCHANGED users /\ req[r].at = "slot"
      BY DEF IInv, AcquirePasswordSlot
    <3> QED BY <2>1, <3>1 DEF Refers, Remembers, Dated, IInv, AccountsTypeOK, AccountRequests
  <2>3. /\ ~HasSlot(req[r]) /\ HasSlot(m) /\ slots' = slots + 1
        /\ req' = [req EXCEPT ![r] = m]
    BY <1>2, <2>1 DEF AcquirePasswordSlot, Goto, HasSlot, IInv, AccountsTypeOK, AccountRequests
  <2> QED BY <1>1, <1>2, <2>1, <2>2, <2>3, HandlerInv
<1>3. CASE ~(slots < MaxSlots)
  BY <1>1, <1>3, FinishInv DEF AcquirePasswordSlot, HasSlot
<1> QED BY <1>2, <1>3

\* An account is registered or created.
LEMMA CreateAccountInv ==
  ASSUME IInv, NEW r \in Requests, NEW status \in {"active", "pending"}, CreateAccount(r, status)
  PROVE  IInv'
<1> DEFINE u == req[r].user
<1>1. u \in Users /\ HasSlot(req[r]) /\ req[r].new \in Passwords \cup {NoPassword}
  BY DEF CreateAccount, IInv, Refers, HasSlot, AccountsTypeOK, AccountRequests
<1>2. CASE users[u] # NoAccount
  BY <1>1, <1>2, TablesHold, TablesKept, FinishInv DEF CreateAccount
<1>3. CASE users[u] = NoAccount
  <2>1. Account(status, req[r].new, 1) \in Accs
    BY <1>1, AccountsAssumption DEF Account, Accs, Statuses
  <2>2. users' = [users EXCEPT ![u] = Account(status, req[r].new, 1)]
    BY <1>3 DEF CreateAccount
  <2>3. users' \in [Users -> Accs] /\ UsersAdvance
    <3>1. /\ users'[u].version = 1 /\ users[u].version = 0
          /\ \A w \in Users \ {u} : users'[w] = users[w]
      BY <1>1, <1>3, <2>2 DEF IInv, AccountsTypeOK, NoAccount, Account
    <3> QED BY <2>1, <2>2, <3>1 DEF IInv, AccountsTypeOK, UsersAdvance
  <2>4. \A w \in Users \ {u} : users'[w] = users[w]
    BY <2>2 DEF IInv, AccountsTypeOK
  <2>5. \A version : ~Current(u, version)
    BY <1>3 DEF Current, NoAccount, Account
  <2>6. SessionsAreCurrent'
    <3> SUFFICES ASSUME NEW s \in Sessions, sessions[s].life # "none", sessions[s].user # NoUser
                 PROVE  /\ Current(sessions[s].user, sessions[s].version)'
                        /\ sessions[s].opened = users'[sessions[s].user].hash
      BY DEF SessionsAreCurrent, CreateAccount
    <3>1. /\ Current(sessions[s].user, sessions[s].version) /\ sessions[s].user \in Users
          /\ sessions[s].opened = users[sessions[s].user].hash
      BY DEF IInv, AccountsTypeOK, SessionRows, SessionsAreCurrent
    <3>2. users'[sessions[s].user] = users[sessions[s].user]
      BY <2>4, <2>5, <3>1
    <3> QED BY <3>1, <3>2 DEF Current, CreateAccount
  <2>7. LeasesAreCurrent'
    <3> SUFFICES ASSUME NEW l \in Leases, Revocable(l), leases[l].user # NoUser
                 PROVE  Current(leases[l].user, leases[l].version)'
      BY DEF LeasesAreCurrent, CreateAccount, Revocable
    <3>1. Current(leases[l].user, leases[l].version) /\ leases[l].user \in Users
      BY DEF IInv, AccountsTypeOK, LeaseRows, LeasesAreCurrent
    <3>2. users'[leases[l].user] = users[leases[l].user]
      BY <2>4, <2>5, <3>1
    <3> QED BY <3>1, <3>2 DEF Current, CreateAccount
  <2>8. TablesOK'
    BY <2>3, <2>6, <2>7 DEF TablesOK, TablesType, IInv, AccountsTypeOK, CreateAccount
  <2> QED BY <1>1, <2>3, <2>8, FinishInv DEF CreateAccount
<1> QED BY <1>2, <1>3

\* A login verifies the password it was given.
LEMMA VerifyLoginInv ==
  ASSUME IInv, NEW r \in Requests,
         VerifyLogin(r) \/ \E valid \in BOOLEAN : ValidateAdminLogin(r, valid)
  PROVE  IInv'
<1>1. TablesOK' /\ UsersAdvance
  BY TablesHold, TablesKept DEF VerifyLogin, ValidateAdminLogin
<1>2. HasSlot(req[r]) /\ slots' = slots - 1
  BY DEF VerifyLogin, ValidateAdminLogin, HasSlot
<1>3. CASE Finish(r)
  BY <1>1, <1>2, <1>3, FinishInv
<1>4. CASE Goto(r, "insert") /\ (req[r].op = "login" => req[r].given = req[r].seen.hash)
  <2>1. PICK m \in AccountRequests : m = [req[r] EXCEPT !.at = "insert"]
    BY DEF IInv, AccountsTypeOK, AccountRequests, Ats
  <2>2. Refers(m) /\ Remembers(m)'
    <3>1. /\ Refers(req[r]) /\ Remembers(req[r]) /\ UNCHANGED users
          /\ req[r].at = "hashing" /\ req[r].op \in {"login", "admin"}
      BY DEF IInv, VerifyLogin, ValidateAdminLogin
    <3> QED BY <1>4, <2>1, <3>1 DEF Refers, Remembers, Dated, IInv, AccountsTypeOK, AccountRequests
  <2>3. req' = [req EXCEPT ![r] = m] /\ ~HasSlot(m)
    BY <1>4, <2>1 DEF Goto, HasSlot, IInv, AccountsTypeOK, AccountRequests
  <2> QED BY <1>1, <1>2, <2>2, <2>3, HandlerInv
<1> QED BY <1>3, <1>4 DEF VerifyLogin, ValidateAdminLogin

\* The row is inserted only for the account the login verified.
LEMMA CreateAccountSessionInv ==
  ASSUME IInv, NEW r \in Requests, NEW s \in Sessions, CreateAccountSession(r, s)
  PROVE  IInv'
<1> DEFINE u == req[r].user
           row == SessionRow("fresh", u, req[r].seen.version, req[r].given)
<1>1. /\ u \in Users /\ ~HasSlot(req[r]) /\ row \in SessionRows
      /\ Dated(u, req[r].seen) /\ req[r].given = req[r].seen.hash
  BY DEF CreateAccountSession, IInv, Refers, Remembers, HasSlot, AccountsTypeOK, AccountRequests,
         Accs, SessionRow, SessionRows
<1>2. CASE Current(u, req[r].seen.version)
  <2>1. sessions' = [sessions EXCEPT ![s] = row] /\ UNCHANGED <<users, leases>>
    BY <1>2 DEF CreateAccountSession
  <2>2. Current(row.user, row.version) /\ row.opened = users[row.user].hash
    BY <1>1, <1>2 DEF SessionRow, Current, Dated
  <2>3. sessions' \in [Sessions -> SessionRows] /\ sessions \in [Sessions -> SessionRows]
    <3>1. sessions \in [Sessions -> SessionRows]
      BY DEF IInv, AccountsTypeOK
    <3> HIDE DEF row
    <3> QED BY <1>1, <2>1, <3>1
  <2>4. TablesOK' /\ UsersAdvance
    BY <2>1, <2>2, <2>3, TablesHold, SessionsMove
  <2> QED BY <1>1, <2>4, FinishInv DEF CreateAccountSession
<1>3. CASE ~Current(u, req[r].seen.version)
  BY <1>1, <1>3, TablesHold, TablesKept, FinishInv DEF CreateAccountSession
<1> QED BY <1>2, <1>3

\* An administrator's session belongs to no account.
LEMMA NewSessionIsNobodys ==
  ASSUME TablesOK, NEW s \in Sessions, CreateSessionWithIdle(s), UNCHANGED <<users, leases>>
  PROVE  TablesOK' /\ UsersAdvance
<1>1. SessionRow("fresh", NoUser, 0, NoPassword) \in SessionRows
  BY AccountsAssumption DEF SessionRow, SessionRows
<1>2. sessions' = [sessions EXCEPT ![s] = SessionRow("fresh", NoUser, 0, NoPassword)]
  BY DEF CreateSessionWithIdle
<1>3. sessions' \in [Sessions -> SessionRows] /\ sessions \in [Sessions -> SessionRows]
  BY <1>1, <1>2 DEF TablesOK, TablesType
<1>4. sessions'[s].user = NoUser /\ \A t \in Sessions \ {s} : sessions'[t] = sessions[t]
  BY <1>2, <1>3 DEF SessionRow
<1> QED BY <1>3, <1>4, SessionsMove

\* An administrator signs in.
LEMMA AdminSessionInv ==
  ASSUME IInv, NEW r \in Requests, NEW s \in Sessions, AdminSession(r, s)
  PROVE  IInv'
<1>1. ~HasSlot(req[r])
  BY DEF AdminSession, HasSlot
<1> QED BY <1>1, TablesHold, NewSessionIsNobodys, FinishInv DEF AdminSession

\* changePassword reads the account of its session.
LEMMA ReadAccountInv ==
  ASSUME IInv, NEW r \in Requests, ReadAccount(r)
  PROVE  IInv'
<1> DEFINE u == req[r].user
<1>1. TablesOK' /\ UsersAdvance
  BY TablesHold, TablesKept DEF ReadAccount
<1>2. /\ req[r] \in AccountRequests /\ Refers(req[r]) /\ req[r].at = "reading" /\ ~HasSlot(req[r])
      /\ UNCHANGED <<users, slots>>
  BY DEF ReadAccount, IInv, AccountsTypeOK, HasSlot
<1>3. u \in Users /\ users[u] \in Accs
  BY <1>2 DEF Refers, IInv, AccountsTypeOK
<1>4. CASE Current(u, req[r].seen.version)
  <2>1. PICK m \in AccountRequests : m = [req[r] EXCEPT !.seen = users[u], !.at = "slot"]
    BY <1>2, <1>3 DEF AccountRequests, Ats
  <2>2. req' = [req EXCEPT ![r] = m] /\ ~HasSlot(m) /\ Refers(m)
    BY <1>2, <1>4, <2>1 DEF ReadAccount, AccountRequests, HasSlot, Refers
  <2>3. Remembers(m)'
    BY <1>2, <1>3, <2>1 DEF Remembers, Dated, AccountRequests, Accs, Refers
  <2> QED BY <1>1, <1>2, <2>1, <2>2, <2>3, HandlerInv
<1>5. CASE ~Current(u, req[r].seen.version)
  BY <1>1, <1>2, <1>5, FinishInv DEF ReadAccount, Finish
<1> QED BY <1>4, <1>5

\* changePassword verifies the old password.
LEMMA VerifyOldInv ==
  ASSUME IInv, NEW r \in Requests, VerifyOld(r)
  PROVE  IInv'
<1>1. TablesOK' /\ UsersAdvance
  BY TablesHold, TablesKept DEF VerifyOld
<1>2. /\ req[r] \in AccountRequests /\ Refers(req[r]) /\ Remembers(req[r])
      /\ req[r].at = "hashing" /\ HasSlot(req[r]) /\ req[r].op = "change" /\ UNCHANGED users
  BY DEF VerifyOld, IInv, AccountsTypeOK, HasSlot
<1>3. CASE req[r].given = req[r].seen.hash
  <2>1. PICK m \in AccountRequests : m = [req[r] EXCEPT !.at = "saving"]
    BY <1>2 DEF AccountRequests, Ats
  <2>2. req' = [req EXCEPT ![r] = m] /\ slots' = slots
    BY <1>3, <2>1 DEF VerifyOld, Goto
  <2>3. HasSlot(m) /\ Refers(m) /\ Remembers(m)'
    BY <1>2, <1>3, <2>1 DEF AccountRequests, HasSlot, Refers, Remembers, Dated
  <2> QED BY <1>1, <1>2, <2>2, <2>3, HandlerInv
<1>4. CASE req[r].given # req[r].seen.hash
  BY <1>1, <1>2, <1>4, FinishInv DEF VerifyOld
<1> QED BY <1>3, <1>4

\* A new password advances the account and ends its sessions and leases.
LEMMA NewPasswordInv ==
  ASSUME IInv, NEW r \in Requests, SaveNewPassword(r) \/ ResetAccountPassword(r)
  PROVE  IInv'
<1> DEFINE u == req[r].user
<1>1. /\ u \in Users /\ HasSlot(req[r]) /\ req[r].new \in Passwords \cup {NoPassword}
      /\ users[u].status \in Statuses
  BY DEF SaveNewPassword, ResetAccountPassword, IInv, Refers, HasSlot, AccountsTypeOK,
         AccountRequests, Accs
<1>2. Finish(r) /\ slots' = slots - 1
  BY DEF SaveNewPassword, ResetAccountPassword
<1>3. CASE UpdateAccount(u, users[u].status, req[r].new, TRUE)
  BY <1>1, <1>2, <1>3, TablesHold, UpdateKeepsTables, FinishInv
<1>4. CASE UNCHANGED <<users, sessions, leases>>
  BY <1>1, <1>2, <1>4, TablesHold, TablesKept, FinishInv
<1> QED BY <1>3, <1>4 DEF SaveNewPassword, ResetAccountPassword

\* A heartbeat prolongs a session that is still there.
LEMMA TouchSessionInv ==
  ASSUME IInv, NEW r \in Requests, TouchSession(r)
  PROVE  IInv'
<1> DEFINE s == req[r].session
<1>1. s \in Sessions /\ ~HasSlot(req[r]) /\ UNCHANGED <<users, leases, slots>>
  BY DEF TouchSession, IInv, Refers, HasSlot
<1>2. sessions \in [Sessions -> SessionRows]
  BY DEF IInv, AccountsTypeOK
<1>3. /\ sessions' \in [Sessions -> SessionRows]
      /\ \A t \in Sessions :
           sessions'[t] = sessions[t]
             \/ (sessions[t].life # "none" /\ sessions'[t] = [sessions[t] EXCEPT !.life = "fresh"])
  BY <1>1, <1>2 DEF TouchSession, SessionRows
<1>4. TablesOK' /\ UsersAdvance
  BY <1>1, <1>2, <1>3, TablesHold, SessionsMove DEF SessionRows
<1> QED BY <1>1, <1>4, FinishInv DEF TouchSession

\* A lease is minted by a session that is still valid.
LEMMA CreateLeaseLimitedInv ==
  ASSUME IInv, NEW r \in Requests, NEW l \in Leases, CreateLeaseLimited(r, l)
  PROVE  IInv'
<1> DEFINE s == req[r].session
           row == LeaseRow(req[r].op, sessions[s].user, sessions[s].version, FALSE)
<1>1. /\ s \in Sessions /\ ~HasSlot(req[r]) /\ row \in LeaseRows
      /\ UNCHANGED <<users, sessions, slots>>
  BY DEF CreateLeaseLimited, IInv, Refers, HasSlot, AccountsTypeOK, SessionRows, LeaseRow, LeaseRows
<1>2. CASE Found(s) /\ leases' = Minted(r, l)
  <2>1. leases' = [leases EXCEPT ![l] = row] /\ leases \in [Leases -> LeaseRows]
    BY <1>2 DEF Minted, IInv, AccountsTypeOK
  <2>2. row.user # NoUser => Current(row.user, row.version)
    BY <1>2 DEF Found, CreateLeaseLimited, LeaseRow, IInv
  <2>3. leases' \in [Leases -> LeaseRows]
    BY <1>1, <2>1
  <2>4. TablesOK' /\ UsersAdvance
    BY <1>1, <2>1, <2>2, <2>3, TablesHold, LeasesMove
  <2> QED BY <1>1, <2>4, FinishInv DEF CreateLeaseLimited
<1>3. CASE leases' = leases
  BY <1>1, <1>3, TablesHold, TablesKept, FinishInv DEF CreateLeaseLimited
<1> QED BY <1>2, <1>3 DEF CreateLeaseLimited

-----------------------------------------------------------------------------
(* Steps of nobody's handler.                                               *)

\* An administrator changes the status of an account.
LEMMA SetStatusInv ==
  ASSUME IInv, NEW u \in Users, NEW status \in {"pending", "active", "disabled", "deleted"},
         SetStatus(u, status)
  PROVE  IInv'
<1>1. users[u].hash \in Passwords \cup {NoPassword} /\ status \in Statuses
  BY DEF IInv, AccountsTypeOK, Accs, Statuses
<1>2. users[u].status # "deleted"
  BY DEF SetStatus, MayUpdate
<1>3. TablesOK' /\ UsersAdvance
  BY <1>1, <1>2, TablesHold, UpdateKeepsTables DEF SetStatus
<1> QED BY <1>3, OthersInv DEF SetStatus

\* Sessions age, end and are cleaned up.
LEMMA SessionStepInv ==
  ASSUME IInv, \/ \E s \in Sessions : CodeSession(s) \/ Logout(s) \/ Ages(s) \/ Ends(s)
               \/ DeleteExpiredSessions
  PROVE  IInv'
<1>1. sessions \in [Sessions -> SessionRows] /\ Free \in SessionRows
  BY AccountsAssumption DEF IInv, AccountsTypeOK, Free, SessionRow, SessionRows
<1>2. ASSUME NEW s \in Sessions, CodeSession(s)
      PROVE  IInv'
  BY <1>2, TablesHold, NewSessionIsNobodys, OthersInv DEF CodeSession
<1>3. ASSUME NEW s \in Sessions, Logout(s) \/ Ages(s) \/ Ends(s)
      PROVE  IInv'
  <2>1. /\ sessions' \in [Sessions -> SessionRows]
        /\ \A t \in Sessions :
             \/ sessions'[t] = sessions[t] \/ sessions'[t] = Free
             \/ \E life \in {"idle", "lapsed", "ended"} :
                  /\ sessions[t].life # "none"
                  /\ sessions'[t] = [sessions[t] EXCEPT !.life = life]
    BY <1>1, <1>3 DEF Logout, Ages, Ends, SessionRows
  <2>2. TablesOK' /\ UsersAdvance
    BY <1>1, <1>3, <2>1, TablesHold, SessionsMove
    DEF SessionRows, Logout, Ages, Ends, Free, SessionRow
  <2> QED BY <1>3, <2>2, OthersInv DEF Logout, Ages, Ends
<1>4. CASE DeleteExpiredSessions
  <2>1. /\ sessions' \in [Sessions -> SessionRows]
        /\ \A t \in Sessions : sessions'[t] \in {sessions[t], Free}
    BY <1>1, <1>4 DEF DeleteExpiredSessions
  <2>2. TablesOK' /\ UsersAdvance
    BY <1>4, <2>1, TablesHold, SessionsMove DEF DeleteExpiredSessions, Free, SessionRow
  <2> QED BY <1>4, <2>2, OthersInv DEF DeleteExpiredSessions
<1> QED BY <1>2, <1>3, <1>4

\* Leases are used, expire and are cleaned up.
LEMMA LeaseStepInv ==
  ASSUME IInv, NEW l \in Leases, ReserveUploadLease(l) \/ LeaseExpires(l)
  PROVE  IInv'
<1>1. leases \in [Leases -> LeaseRows] /\ NoLease \in LeaseRows
  BY AccountsAssumption DEF IInv, AccountsTypeOK, NoLease, LeaseRow, LeaseRows
<1>2. leases' \in [Leases -> LeaseRows] /\ \A k \in Leases \ {l} : leases'[k] = leases[k]
  <2>1. [leases[l] EXCEPT !.used = TRUE] \in LeaseRows
    BY <1>1 DEF LeaseRows
  <2>2. \E row \in LeaseRows : leases' = [leases EXCEPT ![l] = row]
    BY <1>1, <2>1 DEF ReserveUploadLease, LeaseExpires
  <2> QED BY <1>1, <2>2
<1>3. ~Revocable(l)'
  <2>1. CASE ReserveUploadLease(l)
    BY <1>1, <2>1 DEF ReserveUploadLease, Revocable, LeaseRows
  <2>2. CASE LeaseExpires(l)
    BY <1>1, <2>2 DEF LeaseExpires, Revocable, NoLease, LeaseRow
  <2> QED BY <2>1, <2>2
<1>4. TablesOK' /\ UsersAdvance
  BY <1>2, <1>3, TablesHold, LeasesMove DEF ReserveUploadLease, LeaseExpires
<1> QED BY <1>4, OthersInv DEF ReserveUploadLease, LeaseExpires

-----------------------------------------------------------------------------
\* The server starts without sessions and leases.
LEMMA InitInv == Init => IInv
<1> SUFFICES ASSUME Init PROVE IInv
  OBVIOUS
<1>1. /\ NoAccount \in Accs /\ Free \in SessionRows /\ NoLease \in LeaseRows
      /\ NoRequest \in AccountRequests /\ Refers(NoRequest) /\ Remembers(NoRequest)
  BY AccountsAssumption
  DEF NoAccount, Account, Accs, Statuses, Free, SessionRow, SessionRows, NoLease, LeaseRow,
      LeaseRows, NoRequest, Request, AccountRequests, Ops, Ats, Refers, Remembers
<1>2. AccountsTypeOK
  BY <1>1, AccountsAssumption DEF Init, AccountsTypeOK
<1>3. SlotsAreExact
  <2>1. {r \in Requests : req[r].at \in {"hashing", "saving"}} = {}
    BY DEF Init, NoRequest, Request
  <2> QED BY <2>1, FS_EmptySet DEF Init, SlotsAreExact
<1>4. SessionsAreCurrent /\ LeasesAreCurrent
  BY DEF Init, SessionsAreCurrent, LeasesAreCurrent, Revocable, Free, SessionRow, NoLease, LeaseRow
<1> QED BY <1>1, <1>2, <1>3, <1>4 DEF IInv, Init

\* Every step keeps the invariant.
LEMMA StepInv == IInv /\ [AccountsNext]_accountVars => IInv'
<1> SUFFICES ASSUME IInv, [AccountsNext]_accountVars PROVE IInv'
  OBVIOUS
<1>1. ASSUME NEW r \in Requests, RequestBegins(r) \/ RequestStep(r)
      PROVE  IInv'
  BY <1>1, BeginInv, AcquirePasswordSlotInv, CreateAccountInv, VerifyLoginInv,
     CreateAccountSessionInv, AdminSessionInv, ReadAccountInv, VerifyOldInv, NewPasswordInv,
     TouchSessionInv, CreateLeaseLimitedInv DEF RequestStep
<1>2. ASSUME NEW u \in Users, NEW status \in {"pending", "active", "disabled", "deleted"},
             SetStatus(u, status)
      PROVE  IInv'
  BY <1>2, SetStatusInv
<1>3. ASSUME NEW l \in Leases, ReserveUploadLease(l) \/ LeaseExpires(l)
      PROVE  IInv'
  BY <1>3, LeaseStepInv
<1>4. CASE UNCHANGED accountVars
  BY <1>4, TablesHold, TablesKept, OthersInv DEF accountVars
<1> QED BY <1>1, <1>2, <1>3, <1>4, SessionStepInv DEF AccountsNext

\* Every reachable state satisfies the invariant.
THEOREM InvariantHolds == AccountsSpec => []IInv
BY InitInv, StepInv, PTL DEF AccountsSpec

(* Every variable keeps its type; in particular no more and no fewer places *)
(* to hash in are given back than were taken.                               *)
THEOREM TypeCorrect == AccountsSpec => []AccountsTypeOK
<1>1. IInv => AccountsTypeOK
  BY DEF IInv
<1> QED BY <1>1, InvariantHolds, PTL

(* The places taken are those of the handlers that compute, on every path.  *)
THEOREM SlotsHold == AccountsSpec => []SlotsAreExact
<1>1. IInv => SlotsAreExact
  BY DEF IInv
<1> QED BY <1>1, InvariantHolds, PTL

(* No session outlives the password or the version it was opened under.     *)
THEOREM SessionsHold == AccountsSpec => []SessionsAreCurrent
<1>1. IInv => SessionsAreCurrent
  BY DEF IInv
<1> QED BY <1>1, InvariantHolds, PTL

(* No lease that may still be used outlives the version it was minted under.*)
THEOREM LeasesHold == AccountsSpec => []LeasesAreCurrent
<1>1. IInv => LeasesAreCurrent
  BY DEF IInv
<1> QED BY <1>1, InvariantHolds, PTL

\* A change of password that is about to be saved ends only by being saved.
LEMMA OwnStep ==
  ASSUME IInv, AccountsNext, NEW r \in Requests, req[r].at = "saving",
         req'[r] = NoRequest
  PROVE  SaveNewPassword(r)
<1>1. req'[r] # req[r] /\ req \in [Requests -> AccountRequests]
  BY DEF NoRequest, Request, IInv, AccountsTypeOK
<1>2. ASSUME NEW w \in Requests, RequestBegins(w) \/ RequestStep(w)
      PROVE  \A v \in Requests \ {w} : req'[v] = req[v]
  <2>1. CASE RequestBegins(w)
    <3>1. \E m : Start(w, m)
      BY <2>1 DEF RequestBegins, BeginAdminLogin, BeginCreate, BeginLogin, BeginReset,
                  BeginChange, BeginHeartbeat, BeginMint
    <3> QED BY <1>1, <3>1 DEF Start
  <2>2. CASE RequestStep(w)
    <3>1. \E m : req' = [req EXCEPT ![w] = m]
      BY <2>2 DEF RequestStep, Goto, Finish, AcquirePasswordSlot, CreateAccount, VerifyLogin,
         ValidateAdminLogin, CreateAccountSession, AdminSession, ReadAccount, VerifyOld,
         SaveNewPassword, ResetAccountPassword, TouchSession, CreateLeaseLimited
    <3> QED BY <1>1, <3>1
  <2> QED BY <1>2, <2>1, <2>2
<1>3. RequestBegins(r) \/ RequestStep(r)
  BY <1>1, <1>2 DEF AccountsNext, SetStatus, CodeSession, Logout, Ages, Ends,
     DeleteExpiredSessions, ReserveUploadLease, LeaseExpires
<1>4. ~RequestBegins(r)
  BY DEF RequestBegins, Start, NoRequest, Request, BeginAdminLogin, BeginCreate,
     BeginLogin, BeginReset, BeginChange, BeginHeartbeat, BeginMint
<1> QED BY <1>3, <1>4 DEF RequestStep, AcquirePasswordSlot, CreateAccount, VerifyLogin,
     ValidateAdminLogin, CreateAccountSession, AdminSession, ReadAccount, VerifyOld,
     ResetAccountPassword, TouchSession, CreateLeaseLimited

(* Whatever happens to the account while the new password is hashed, only   *)
(* the password that was verified is replaced.                              *)
THEOREM ChangesHold == AccountsSpec => ChangesReplaceWhatWasVerified
<1> DEFINE A == \A r \in Requests : req[r].at = "saving" /\ users' # users /\ req'[r] = NoRequest =>
                  LET u == req[r].user IN
                  users[u].status = "active" /\ users[u].hash = req[r].given
<1>1. ASSUME IInv, [AccountsNext]_accountVars
      PROVE  A \/ UNCHANGED accountVars
  <2> SUFFICES ASSUME AccountsNext, NEW r \in Requests, req[r].at = "saving", users' # users,
                      req'[r] = NoRequest
               PROVE  /\ users[req[r].user].status = "active"
                      /\ users[req[r].user].hash = req[r].given
    BY <1>1
  <2>1. SaveNewPassword(r) /\ Current(req[r].user, req[r].seen.version)
    BY <1>1, OwnStep DEF SaveNewPassword
  <2>2. Dated(req[r].user, req[r].seen) /\ req[r].given = req[r].seen.hash
    BY <1>1 DEF IInv, Refers, Remembers
  <2> QED BY <2>1, <2>2 DEF Current, Dated
<1> QED BY <1>1, InvariantHolds, PTL DEF AccountsSpec, ChangesReplaceWhatWasVerified

-----------------------------------------------------------------------------
(* Downloads: the requests, their flights and what was verified.            *)

(* Where the leader of a flight may be.                                     *)
Leading == {"reread", "hash", "hashing", "revalidate", "mark"}

VisitSet ==
  [at : VisitPoints, lease : Leases \cup {NoTicket}, mode : {"first", "later"},
   seen : Versions \cup {NoVersion}]

VisitsType ==
  /\ visit \in [Visits -> VisitSet] /\ DOMAIN bound = Leases
  /\ flights \in [Leases -> Visits \cup {NoVisit}]
  /\ \A v \in Visits : visit[v].at # "idle" => visit[v].lease \in Leases

(* What a request has verified before it looks at the file for the last     *)
(* time: the content of the version it has seen.                            *)
Verified(w) ==
  w.at \in {"revalidate", "mark"} /\ w.lease \in hashed /\ (verifyEvery \/ w.mode = "first") =>
    Content[w.seen] = Content[bound[w.lease]]

DInv ==
  /\ VisitsType /\ WaitersAreLed
  /\ \A v \in Visits : Verified(visit[v])

\* The leader of a flight leads that of its own lease only.
LEMMA LeaderIsKnown ==
  ASSUME DInv, NEW v \in Visits
  PROVE  /\ Leads(v) => /\ Ticket(v) \in Leases /\ flights[Ticket(v)] = v
                        /\ visit[v].at \in Leading
         /\ visit[v].at = "mark" => Leads(v)
         /\ ~Leads(v) => \A l \in Leases : flights[l] # v
         /\ \A l \in Leases : flights[l] = v => l = Ticket(v)
BY DownloadsAssumption DEF DInv, WaitersAreLed, Leads, Leading, VisitsType, Ticket

\* A request moves on by itself: its flight, if it leads one, goes on.
LEMMA MovesOn ==
  ASSUME DInv, NEW v \in Visits, NEW w \in VisitSet,
         visit' = [visit EXCEPT ![v] = w], w.lease = Ticket(v), w.lease \in Leases,
         UNCHANGED <<verifyEvery, bound, hashed>>, Verified(w),
         \/ /\ UNCHANGED flights
            /\ Leads(v) => w.at \in Leading
            /\ w.at = "waiting" => flights[w.lease] # NoVisit
            /\ w.at = "mark" => Leads(v)
         \/ /\ flights[w.lease] = NoVisit /\ flights' = [flights EXCEPT ![w.lease] = v]
            /\ ~Leads(v) /\ w.at \in Leading \ {"mark"}
  PROVE  DInv'
<1>0. /\ visit \in [Visits -> VisitSet] /\ flights \in [Leases -> Visits \cup {NoVisit}]
      /\ visit'[v] = w /\ \A u \in Visits \ {v} : visit'[u] = visit[u]
      /\ NoVisit \notin Visits
  BY DownloadsAssumption DEF DInv, VisitsType
<1>1. VisitsType'
  BY <1>0 DEF DInv, VisitsType
<1>2. \A u \in Visits : Verified(visit[u])'
  BY <1>0 DEF DInv, Verified
<1>3. WaitersAreLed'
  <2>1. \A l \in Leases : flights'[l] = flights[l] \/ (l = w.lease /\ flights'[l] = v)
    BY <1>0
  <2>2. \A u \in Visits : Ticket(u)' = Ticket(u)
    BY <1>0 DEF Ticket
  <2>3. ASSUME NEW u \in Visits, visit'[u].at = "waiting" PROVE flights'[Ticket(u)'] # NoVisit
    <3>1. CASE u = v
      BY <1>0, <2>2, <2>3, <3>1 DEF Leading
    <3>2. CASE u # v
      <4>1. visit[u].at = "waiting" /\ Ticket(u) \in Leases /\ flights[Ticket(u)] # NoVisit
        BY <1>0, <2>3, <3>2 DEF DInv, WaitersAreLed, VisitsType, Ticket
      <4> QED BY <1>0, <2>1, <2>2, <4>1
    <3> QED BY <3>1, <3>2
  <2>4. ASSUME NEW l \in Leases, flights'[l] # NoVisit
        PROVE  /\ Ticket(flights[l])' = l
               /\ visit'[flights'[l]].at \in Leading
    <3>1. CASE flights'[l] = v
      <4>1. Ticket(v) = l /\ w.at \in Leading
        BY <1>0, <2>1, <3>1, LeaderIsKnown DEF Leads
      <4> QED BY <1>0, <2>2, <3>1, <4>1
    <3>2. CASE flights'[l] # v
      <4>1. /\ flights'[l] = flights[l] /\ flights[l] \in Visits \ {v}
            /\ Ticket(flights[l]) = l /\ visit[flights[l]].at \in Leading
        BY <1>0, <2>1, <2>4, <3>2 DEF DInv, WaitersAreLed, Leading
      <4> QED BY <1>0, <2>2, <4>1
    <3> QED BY <3>1, <3>2
  <2>5. ASSUME NEW u \in Visits, visit'[u].at = "mark" PROVE flights'[Ticket(u)'] = u
    <3>1. CASE u = v
      BY <1>0, <2>2, <2>5, <3>1, LeaderIsKnown
    <3>2. CASE u # v
      <4>1. Ticket(u) \in Leases /\ flights[Ticket(u)] = u
        BY <1>0, <2>5, <3>2, LeaderIsKnown
      <4> QED BY <1>0, <2>1, <2>2, <4>1
    <3> QED BY <3>1, <3>2
  <2> QED BY <2>3, <2>4, <2>5 DEF WaitersAreLed, Leading
<1> QED BY <1>1, <1>2, <1>3 DEF DInv

\* The flight of a leader is over, and its outcome reaches all who wait for it.
LEMMA FlightEnds ==
  ASSUME DInv, NEW v \in Visits, Leads(v), NEW leader \in VisitSet, NEW waiter \in VisitSet,
         Deliver(v, leader, waiter), flights' = [flights EXCEPT ![Ticket(v)] = NoVisit],
         UNCHANGED <<verifyEvery, bound, hashed>>,
         \A w \in {leader, waiter} :
           /\ w.at \notin {"waiting", "mark"} /\ Verified(w)
           /\ w.at # "idle" => w.lease \in Leases
  PROVE  DInv'
<1> DEFINE l == Ticket(v)
<1>0. /\ visit \in [Visits -> VisitSet] /\ flights \in [Leases -> Visits \cup {NoVisit}]
      /\ l \in Leases /\ flights[l] = v /\ NoVisit \notin Visits
  BY LeaderIsKnown, DownloadsAssumption DEF DInv, VisitsType
<1>1. \A u \in Visits :
        \/ visit'[u] \in {leader, waiter}
        \/ /\ visit'[u] = visit[u] /\ u # v
           /\ ~(visit[u].at = "waiting" /\ Ticket(u) = l)
  BY DEF Deliver
<1>2. flights'[l] = NoVisit /\ \A k \in Leases \ {l} : flights'[k] = flights[k]
  BY <1>0
<1>3. VisitsType'
  <2>1. visit' \in [Visits -> VisitSet]
    BY <1>0 DEF Deliver
  <2>2. flights' \in [Leases -> Visits \cup {NoVisit}]
    BY <1>0
  <2>3. \A u \in Visits : visit'[u].at # "idle" => visit'[u].lease \in Leases
    BY <1>1 DEF DInv, VisitsType
  <2> QED BY <2>1, <2>2, <2>3 DEF VisitsType, DInv
<1>4. \A u \in Visits : Verified(visit[u])'
  <2>1. \A w : Verified(w) => (w.at \in {"revalidate", "mark"} /\ w.lease \in hashed'
                                 /\ (verifyEvery' \/ w.mode = "first")
                                 => Content[w.seen] = Content[bound'[w.lease]])
    BY DEF Verified
  <2>2. \A u \in Visits : visit'[u] = leader \/ visit'[u] = waiter \/ visit'[u] = visit[u]
    BY <1>1
  <2>3. Verified(leader) /\ Verified(waiter) /\ \A u \in Visits : Verified(visit[u])
    BY DEF DInv
  <2> QED BY <2>1, <2>2, <2>3 DEF Verified
<1>5. WaitersAreLed'
  <2>1. ASSUME NEW u \in Visits, visit'[u].at = "waiting" PROVE flights'[Ticket(u)'] # NoVisit
    <3>1. visit'[u] = visit[u] /\ Ticket(u) # l
      BY <1>1, <2>1
    <3>2. Ticket(u) \in Leases /\ flights[Ticket(u)] # NoVisit /\ Ticket(u)' = Ticket(u)
      BY <2>1, <3>1 DEF DInv, WaitersAreLed, VisitsType, Ticket
    <3> QED BY <1>2, <3>1, <3>2
  <2>2. ASSUME NEW k \in Leases, flights'[k] # NoVisit
        PROVE  Ticket(flights[k])' = k /\ visit'[flights'[k]].at \in Leading
    <3>1. k # l /\ flights'[k] = flights[k] /\ flights[k] \in Visits
      BY <1>0, <1>2, <2>2
    <3>2. Ticket(flights[k]) = k /\ visit[flights[k]].at \in Leading
      BY <2>2, <3>1 DEF DInv, WaitersAreLed, Leading
    <3>3. flights[k] # v /\ visit[flights[k]].at # "waiting"
      BY <3>1, <3>2 DEF Leading
    <3>4. visit'[flights[k]] = visit[flights[k]]
      BY <3>1, <3>3 DEF Deliver
    <3> QED BY <3>1, <3>2, <3>4 DEF Ticket
  <2>3. ASSUME NEW u \in Visits, visit'[u].at = "mark" PROVE flights'[Ticket(u)'] = u
    <3>1. visit'[u] = visit[u] /\ u # v
      BY <1>1, <2>3
    <3>2. Ticket(u) \in Leases /\ flights[Ticket(u)] = u /\ Ticket(u)' = Ticket(u)
      BY <2>3, <3>1, LeaderIsKnown DEF Ticket
    <3> QED BY <1>0, <1>2, <3>1, <3>2
  <2> QED BY <2>1, <2>2, <2>3 DEF WaitersAreLed, Leading
<1> QED BY <1>3, <1>4, <1>5 DEF DInv

\* A request that leads no flight gives up, or is answered.
LEMMA GoesAway ==
  ASSUME DInv, NEW v \in Visits, ~Leads(v), visit' = [visit EXCEPT ![v] = Away],
         UNCHANGED <<verifyEvery, bound, hashed, flights>>
  PROVE  DInv'
<1>0. /\ visit \in [Visits -> VisitSet] /\ flights \in [Leases -> Visits \cup {NoVisit}]
      /\ visit'[v] = Away /\ \A u \in Visits \ {v} : visit'[u] = visit[u]
      /\ NoVisit \notin Visits /\ \A l \in Leases : flights[l] # v
  BY LeaderIsKnown, DownloadsAssumption DEF DInv, VisitsType
<1>1. Away \in VisitSet /\ Away.at = "idle"
  BY DEF Away, Visit, VisitSet, VisitPoints
<1>2. VisitsType'
  BY <1>0, <1>1 DEF DInv, VisitsType
<1>3. \A u \in Visits : Verified(visit[u])'
  BY <1>0, <1>1 DEF DInv, Verified
<1>4. \A u \in Visits : visit'[u].at # "idle" => visit'[u] = visit[u] /\ Ticket(u)' = Ticket(u)
  BY <1>0, <1>1 DEF Ticket
<1>5. WaitersAreLed'
  <2>1. \A u \in Visits :
          /\ visit'[u].at = "waiting" => flights'[Ticket(u)'] # NoVisit
          /\ visit'[u].at = "mark" => flights'[Ticket(u)'] = u
    BY <1>4 DEF DInv, WaitersAreLed
  <2>2. ASSUME NEW l \in Leases, flights'[l] # NoVisit
        PROVE  Ticket(flights[l])' = l /\ visit'[flights'[l]].at \in Leading
    <3>1. flights[l] \in Visits \ {v} /\ flights'[l] = flights[l]
      BY <1>0, <2>2
    <3> QED BY <1>0, <2>2, <3>1 DEF DInv, WaitersAreLed, Leading, Ticket
  <2> QED BY <2>1, <2>2 DEF WaitersAreLed, Leading
<1> QED BY <1>2, <1>3, <1>5 DEF DInv

\* Away is nowhere, and nothing was verified for it.
LEMMA AwayIsFine ==
  Away \in VisitSet /\ Away.at = "idle" /\ Verified(Away)
BY DEF Away, Visit, VisitSet, VisitPoints, Verified

LEMMA FailInv ==
  ASSUME DInv, NEW v \in Visits, Fail(v), UNCHANGED <<verifyEvery, bound, hashed>>
  PROVE  DInv'
<1>1. CASE Leads(v)
  BY <1>1, AwayIsFine, FlightEnds DEF Fail
<1>2. CASE ~Leads(v)
  BY <1>2, GoesAway DEF Fail
<1> QED BY <1>1, <1>2

\* A leader that has verified what it had to lands, with all who waited.
LEMMA LandInv ==
  ASSUME DInv, NEW v \in Visits, Leads(v), visit[v].at \in {"revalidate", "mark"}, Land(v),
         UNCHANGED <<verifyEvery, bound, hashed>>
  PROVE  DInv'
<1> DEFINE leader == [visit[v] EXCEPT !.at = "admit"]
           waiter == [visit[v] EXCEPT !.at = "revalidate"]
<1>1. visit[v] \in VisitSet /\ visit[v].lease \in Leases /\ Verified(visit[v])
  BY DEF DInv, VisitsType
<1>2. /\ leader \in VisitSet /\ leader.at = "admit" /\ leader.lease = visit[v].lease
      /\ waiter \in VisitSet /\ waiter.at = "revalidate" /\ waiter.lease = visit[v].lease
      /\ waiter.seen = visit[v].seen /\ waiter.mode = visit[v].mode
  BY <1>1 DEF VisitSet, VisitPoints
<1>3. Verified(leader) /\ Verified(waiter)
  BY <1>1, <1>2 DEF Verified
<1>4. Deliver(v, leader, waiter) /\ flights' = [flights EXCEPT ![Ticket(v)] = NoVisit]
  BY DEF Land
<1> HIDE DEF leader, waiter
<1> QED BY <1>1, <1>2, <1>3, <1>4, FlightEnds

\* A request for a lease arrives, and either joins the first use or goes on.
LEMMA ArriveInv ==
  ASSUME DInv, NEW v \in Visits, NEW l \in Leases, Arrive(v, l), file \in Versions
  PROVE  DInv'
<1> DEFINE at == IF ~leases[l].used THEN "join"
                 ELSE IF verifyEvery /\ l \in hashed THEN "hash" ELSE "revalidate"
           w == Visit(at, l, IF leases[l].used THEN "later" ELSE "first", file)
<1>1. w \in VisitSet /\ w.lease = l /\ w.at = at /\ w.at \in {"join", "hash", "revalidate"}
  BY DEF VisitSet, VisitPoints, Visit
<1>2. Verified(w)
  BY DEF Verified, Visit
<1>3. visit' = [visit EXCEPT ![v] = w] /\ visit[v] = Away
  BY DEF Arrive
<1> HIDE DEF w, at
<1>4. /\ visit \in [Visits -> VisitSet] /\ flights \in [Leases -> Visits \cup {NoVisit}]
      /\ visit'[v] = w /\ \A u \in Visits \ {v} : visit'[u] = visit[u]
      /\ UNCHANGED <<verifyEvery, bound, hashed, flights>>
  BY <1>3 DEF DInv, VisitsType, Arrive, KeepFile
<1>5. VisitsType' /\ \A u \in Visits : Verified(visit[u])'
  <2>1. VisitsType'
    <3>1. visit' \in [Visits -> VisitSet]
      BY <1>1, <1>3, <1>4
    <3>2. \A u \in Visits : visit'[u].at # "idle" => visit'[u].lease \in Leases
      BY <1>1, <1>4 DEF DInv, VisitsType
    <3> QED BY <1>4, <3>1, <3>2 DEF DInv, VisitsType
  <2>2. \A u \in Visits : Verified(visit'[u])
    BY <1>2, <1>4 DEF DInv
  <2>3. \A u \in Visits : Verified(visit[u])'
    BY <1>4, <2>2 DEF Verified
  <2> QED BY <2>1, <2>3
<1>6. \A k \in Leases : flights[k] # v
  BY <1>3, LeaderIsKnown DEF Leading, Away, Visit
<1>7. WaitersAreLed'
  <2>1. \A u \in Visits : visit'[u].at \in {"waiting", "mark"} => visit'[u] = visit[u]
    BY <1>1, <1>4
  <2>2. \A k \in Leases : flights'[k] # NoVisit =>
          Ticket(flights[k])' = k /\ visit'[flights'[k]].at \in Leading
    BY <1>4, <1>6 DEF DInv, WaitersAreLed, Leading, Ticket
  <2> QED BY <1>4, <2>1, <2>2 DEF DInv, WaitersAreLed, Leading, Ticket
<1> QED BY <1>5, <1>7 DEF DInv

\* A step of a request under way.
LEMMA VisitInv ==
  ASSUME DInv, file \in Versions, NEW v \in Visits, VisitStep(v)
  PROVE  DInv'
<1>0. /\ visit[v] \in VisitSet
      /\ visit[v].at # "idle" => visit[v].lease \in Leases
      /\ Verified(visit[v]) /\ Ticket(v) = visit[v].lease
  BY DEF DInv, VisitsType, Ticket
<1>1. ASSUME UNCHANGED <<verifyEvery, bound, hashed, flights>>, NEW at \in VisitPoints,
             NEW mode \in {"first", "later"}, NEW seen \in Versions \cup {NoVersion},
             visit' = [visit EXCEPT ![v] = Visit(at, Ticket(v), mode, seen)],
             visit[v].at # "idle", Verified(Visit(at, Ticket(v), mode, seen)),
             Leads(v) => at \in Leading, at = "mark" => Leads(v), at # "waiting"
      PROVE  DInv'
  <2> DEFINE w == Visit(at, Ticket(v), mode, seen)
  <2>1. w \in VisitSet /\ w.at = at /\ w.lease = Ticket(v)
    BY <1>0, <1>1 DEF VisitSet, Visit
  <2> HIDE DEF w
  <2> QED BY <1>0, <1>1, <2>1, MovesOn DEF w
<1>2. ASSUME NEW at, Proceed(v, at)
      PROVE  visit' = [visit EXCEPT ![v] = Visit(at, Ticket(v), visit[v].mode, visit[v].seen)]
  <2>1. [visit[v] EXCEPT !.at = at] = Visit(at, Ticket(v), visit[v].mode, visit[v].seen)
    BY <1>0 DEF VisitSet, Visit
  <2> QED BY <1>2, <2>1 DEF Proceed
<1>3. visit[v].mode \in {"first", "later"} /\ visit[v].seen \in Versions \cup {NoVersion}
  BY <1>0 DEF VisitSet
<1>4. \A at, mode, seen :
        LET w == Visit(at, Ticket(v), mode, seen) IN
        w.at = at /\ w.lease = Ticket(v) /\ w.mode = mode /\ w.seen = seen
  BY DEF Visit
<1>5. ASSUME JoinOrLead(v) PROVE DInv'
  <2>1. visit[v].at = "join" /\ UNCHANGED <<verifyEvery, bound, hashed>> /\ ~Leads(v)
    BY <1>5, LeaderIsKnown DEF JoinOrLead, KeepFile, Leading
  <2>2. \A at \in {"waiting", "reread"} :
          LET w == Visit(at, Ticket(v), visit[v].mode, visit[v].seen) IN
          w \in VisitSet /\ Verified(w) /\ w.at = at /\ w.lease = Ticket(v)
    BY <1>0, <1>3, <2>1 DEF VisitSet, VisitPoints, Visit, Verified
  <2>3. CASE flights[Ticket(v)] # NoVisit
    <3> DEFINE w == Visit("waiting", Ticket(v), visit[v].mode, visit[v].seen)
    <3>1. visit' = [visit EXCEPT ![v] = w] /\ UNCHANGED flights
      BY <1>2, <1>5, <2>3 DEF JoinOrLead
    <3>2. w \in VisitSet /\ Verified(w) /\ w.at = "waiting" /\ w.lease = Ticket(v)
      BY <2>2
    <3> HIDE DEF w
    <3> QED BY <1>0, <2>1, <2>3, <3>1, <3>2, MovesOn
  <2>4. CASE flights[Ticket(v)] = NoVisit
    <3> DEFINE w == Visit("reread", Ticket(v), visit[v].mode, visit[v].seen)
    <3>1. visit' = [visit EXCEPT ![v] = w] /\ flights' = [flights EXCEPT ![Ticket(v)] = v]
      BY <1>2, <1>5, <2>4 DEF JoinOrLead
    <3>2. w \in VisitSet /\ Verified(w) /\ w.at = "reread" /\ w.lease = Ticket(v)
      BY <2>2
    <3> HIDE DEF w
    <3> QED BY <1>0, <2>1, <2>4, <3>1, <3>2, MovesOn DEF Leading
  <2> QED BY <2>3, <2>4
<1>6. ASSUME Reread(v) PROVE DInv'
  <2>1. UNCHANGED <<verifyEvery, bound, hashed>> /\ visit[v].at = "reread"
    BY <1>6 DEF Reread, KeepFile
  <2>2. CASE Row(v) = NoLease
    BY <1>6, <2>1, <2>2, FailInv DEF Reread
  <2>3. CASE Row(v) # NoLease
    <3> DEFINE mode == IF Row(v).used THEN "later" ELSE "first"
               at == IF Row(v).used /\ ~verifyEvery THEN "revalidate" ELSE Verify(v)
    <3> DEFINE w == [visit[v] EXCEPT !.mode = mode, !.at = at]
    <3>1. UNCHANGED flights /\ visit' = [visit EXCEPT ![v] = w]
      BY <1>6, <2>3 DEF Reread
    <3>2. /\ at \in {"hash", "revalidate"} /\ mode \in {"first", "later"}
          /\ at = "revalidate" => Ticket(v) \notin hashed \/ (mode = "later" /\ ~verifyEvery)
      BY DEF Verify
    <3> HIDE DEF at, mode
    <3>3. w \in VisitSet /\ w.at = at /\ w.lease = Ticket(v) /\ w.mode = mode
      BY <1>0, <3>2 DEF VisitSet, VisitPoints
    <3>4. Verified(w)
      BY <3>2, <3>3 DEF Verified
    <3> HIDE DEF w
    <3> QED BY <1>0, <2>1, <3>1, <3>2, <3>3, <3>4, MovesOn DEF Leading
  <2> QED BY <2>2, <2>3
<1>7. ASSUME AcquireHashSlot(v) PROVE DInv'
  <2>1. UNCHANGED <<verifyEvery, bound, hashed>> /\ visit[v].at = "hash"
    BY <1>7 DEF AcquireHashSlot, KeepFile
  <2>2. CASE Cardinality(Hashing) < HashSlots
    <3> DEFINE w == [visit[v] EXCEPT !.at = "hashing", !.seen = file]
    <3>1. UNCHANGED flights /\ visit' = [visit EXCEPT ![v] = w]
      BY <1>7, <2>2 DEF AcquireHashSlot
    <3>2. w \in VisitSet /\ w.at = "hashing" /\ w.lease = Ticket(v)
      BY <1>0 DEF VisitSet, VisitPoints
    <3>3. Verified(w)
      BY <3>2 DEF Verified
    <3> HIDE DEF w
    <3> QED BY <1>0, <2>1, <3>1, <3>2, <3>3, MovesOn DEF Leading
  <2>3. CASE ~(Cardinality(Hashing) < HashSlots)
    BY <1>7, <2>1, <2>3, FailInv DEF AcquireHashSlot
  <2> QED BY <2>2, <2>3
<1>8. ASSUME CompareHash(v) PROVE DInv'
  <2>1. UNCHANGED <<verifyEvery, bound, hashed>> /\ visit[v].at = "hashing"
    BY <1>8 DEF CompareHash, KeepFile
  <2>2. CASE visit[v].seen = file /\ Content[file] = Content[bound[Ticket(v)]]
    <3>1. /\ UNCHANGED flights
          /\ visit' = [visit EXCEPT ![v] =
                         Visit("revalidate", Ticket(v), visit[v].mode, visit[v].seen)]
      BY <1>2, <1>8, <2>2 DEF CompareHash
    <3>2. Verified(Visit("revalidate", Ticket(v), visit[v].mode, visit[v].seen))
      BY <1>4, <2>2 DEF Verified
    <3> QED BY <1>1, <1>3, <2>1, <3>1, <3>2 DEF Leading, VisitPoints
  <2>3. CASE ~(visit[v].seen = file /\ Content[file] = Content[bound[Ticket(v)]])
    BY <1>8, <2>1, <2>3, FailInv DEF CompareHash
  <2> QED BY <2>2, <2>3
<1>9. ASSUME RevalidateDownloadFile(v) PROVE DInv'
  <2>1. UNCHANGED <<verifyEvery, bound, hashed>> /\ visit[v].at = "revalidate"
    BY <1>9 DEF RevalidateDownloadFile, KeepFile
  <2>2. CASE visit[v].seen # file
    BY <1>9, <2>1, <2>2, FailInv DEF RevalidateDownloadFile
  <2>3. CASE visit[v].seen = file /\ ~Leads(v)
    <3>1. /\ UNCHANGED flights
          /\ visit' = [visit EXCEPT ![v] =
                         Visit("admit", Ticket(v), visit[v].mode, visit[v].seen)]
      BY <1>2, <1>9, <2>3 DEF RevalidateDownloadFile
    <3>2. Verified(Visit("admit", Ticket(v), visit[v].mode, visit[v].seen))
      BY <1>4 DEF Verified
    <3> QED BY <1>1, <1>3, <2>1, <2>3, <3>1, <3>2 DEF VisitPoints
  <2>4. CASE visit[v].seen = file /\ Leads(v) /\ visit[v].mode = "first"
    <3>1. /\ UNCHANGED flights
          /\ visit' = [visit EXCEPT ![v] =
                         Visit("mark", Ticket(v), visit[v].mode, visit[v].seen)]
      BY <1>2, <1>9, <2>4 DEF RevalidateDownloadFile
    <3>2. Verified(Visit("mark", Ticket(v), visit[v].mode, visit[v].seen))
      BY <1>0, <1>4, <2>1 DEF Verified
    <3> QED BY <1>1, <1>3, <2>1, <2>4, <3>1, <3>2 DEF Leading, VisitPoints
  <2>5. CASE visit[v].seen = file /\ Leads(v) /\ visit[v].mode # "first"
    BY <1>9, <2>1, <2>5, LandInv DEF RevalidateDownloadFile
  <2> QED BY <2>2, <2>3, <2>4, <2>5
<1>10. ASSUME MarkFirstUsed(v) PROVE DInv'
  BY <1>10, LeaderIsKnown, LandInv DEF MarkFirstUsed, KeepFile
<1>11. ASSUME LeaderPanics(v) PROVE DInv'
  BY <1>11, FailInv DEF LeaderPanics, KeepFile
<1>12. ASSUME AdmitDownloadLease(v) PROVE DInv'
  <2>1. /\ UNCHANGED <<verifyEvery, bound, hashed, flights>> /\ visit[v].at = "admit"
        /\ ~Leads(v)
    BY <1>12, LeaderIsKnown DEF AdmitDownloadLease, KeepFile, Leading
  <2>2. CASE Row(v) # NoLease /\ Admissible(Ticket(v))
    <3>1. visit' = [visit EXCEPT ![v] =
                      Visit("serving", Ticket(v), visit[v].mode, visit[v].seen)]
      <4>1. Proceed(v, "serving")
        BY <1>12, <2>2 DEF AdmitDownloadLease, Proceed
      <4> QED BY <1>2, <4>1
    <3>2. Verified(Visit("serving", Ticket(v), visit[v].mode, visit[v].seen))
      BY <1>4 DEF Verified
    <3> QED BY <1>1, <1>3, <2>1, <3>1, <3>2 DEF VisitPoints
  <2>3. CASE ~(Row(v) # NoLease /\ Admissible(Ticket(v)))
    <3>1. visit' = [visit EXCEPT ![v] = Away]
      BY <1>12, <2>3 DEF AdmitDownloadLease
    <3> QED BY <2>1, <3>1, GoesAway
  <2> QED BY <2>2, <2>3
<1>13. ASSUME Sent(v) PROVE DInv'
  BY <1>13, LeaderIsKnown, GoesAway DEF Sent, KeepFile, Leading
<1> QED BY <1>5, <1>6, <1>7, <1>8, <1>9, <1>10, <1>11, <1>12, <1>13, ArriveInv DEF VisitStep

\* The file, the accounts and a new lease leave the requests under way alone:
\* a lease is minted only when no request speaks of its row.
LEMMA OthersDInv ==
  ASSUME DInv, UNCHANGED <<visit, flights, verifyEvery>>,
         \/ UNCHANGED <<bound, hashed>>
         \/ \E l \in Leases, r \in Requests, withHash \in BOOLEAN : MintDownload(r, l, withHash)
  PROVE  DInv'
<1>1. VisitsType' /\ WaitersAreLed'
  BY DEF DInv, VisitsType, WaitersAreLed, Ticket, MintDownload
<1>2. CASE UNCHANGED <<bound, hashed>>
  BY <1>1, <1>2 DEF DInv, Verified
<1>3. ASSUME NEW l \in Leases, NEW r \in Requests, NEW withHash \in BOOLEAN,
             MintDownload(r, l, withHash)
      PROVE  DInv'
  <2>1. \A v \in Visits : visit[v].lease # l
    BY <1>3 DEF MintDownload, Ticket
  <2>2. \A k \in Leases \ {l} : bound'[k] = bound[k] /\ (k \in hashed' <=> k \in hashed)
    BY <1>3 DEF MintDownload, DInv, VisitsType
  <2>3. \A v \in Visits : visit[v].at # "idle" => visit[v].lease \in Leases \ {l}
    BY <2>1 DEF DInv, VisitsType
  <2> QED BY <1>1, <2>2, <2>3 DEF DInv, Verified
<1> QED BY <1>2, <1>3

-----------------------------------------------------------------------------
(* Both together: the accounts keep their invariant while their leases are  *)
(* downloaded, and every lease of a download is bound to a version.         *)

LeasesAreBound ==
  \A l \in Leases :
    /\ leases[l].kind = "download" => bound[l] \in Versions
    /\ leases[l].kind = "none" => leases[l] = NoLease

FilesType ==
  /\ file \in Versions /\ verifyEvery \in BOOLEAN
  /\ bound \in [Leases -> Versions \cup {NoVersion}]
  /\ hashed \in SUBSET Leases

AccessInv == IInv /\ DInv /\ FilesType /\ LeasesAreBound

\* A lease gets another kind only when it is removed or inserted.
LEMMA KindsMove ==
  ASSUME IInv, AccountsNext, NEW l \in Leases
  PROVE  \/ leases'[l] \in {leases[l], NoLease}
         \/ leases'[l].kind = "upload"
         \/ MintsDownload
<1> DEFINE Goal == \/ leases'[l] \in {leases[l], NoLease}
                   \/ leases'[l].kind = "upload"
                   \/ MintsDownload
<1>0. /\ leases \in [Leases -> LeaseRows] /\ req \in [Requests -> AccountRequests]
      /\ \A k \in Leases : leases[k] \in LeaseRows
  BY DEF IInv, AccountsTypeOK
<1>1. ASSUME UNCHANGED leases PROVE Goal
  BY <1>1
<1>2. ASSUME NEW u, NEW status, NEW hash, NEW revoke, UpdateAccount(u, status, hash, revoke)
      PROVE  Goal
  BY <1>2 DEF UpdateAccount
<1>3. ASSUME NEW r \in Requests, NEW k \in Leases, CreateLeaseLimited(r, k) PROVE Goal
  <2>1. CASE UNCHANGED leases
    BY <2>1
  <2>2. CASE leases' = Minted(r, k)
    <3>1. CASE k # l
      BY <1>0, <2>2, <3>1 DEF Minted
    <3>2. CASE k = l
      <4>1. leases'[l].kind = req[r].op
        BY <1>0, <2>2, <3>2 DEF Minted, LeaseRow
      <4>2. req[r].op \in {"download", "upload"} /\ req[r].at = "mint" /\ req'[r] = NoRequest
        BY <1>0, <1>3 DEF CreateLeaseLimited, Finish, IInv, Refers
      <4> QED BY <4>1, <4>2 DEF MintsDownload
    <3> QED BY <3>1, <3>2
  <2> QED BY <1>3, <2>1, <2>2 DEF CreateLeaseLimited
<1>4. ASSUME NEW k \in Leases, ReserveUploadLease(k) \/ LeaseExpires(k) PROVE Goal
  BY <1>0, <1>4 DEF ReserveUploadLease, LeaseExpires, LeaseRows
<1>5. ASSUME NEW r \in Requests, RequestBegins(r) PROVE Goal
  BY <1>1, <1>5 DEF RequestBegins, BeginAdminLogin, BeginCreate, BeginLogin, BeginReset,
     BeginChange, BeginHeartbeat, BeginMint
<1>6. ASSUME NEW r \in Requests, RequestStep(r) PROVE Goal
  <2>1. CASE SaveNewPassword(r) \/ ResetAccountPassword(r)
    BY <1>1, <1>2, <2>1 DEF SaveNewPassword, ResetAccountPassword
  <2> QED
    BY <1>1, <1>3, <1>6, <2>1 DEF RequestStep, AcquirePasswordSlot, CreateAccount, VerifyLogin,
       ValidateAdminLogin, CreateAccountSession, AdminSession, ReadAccount, VerifyOld,
       TouchSession
<1>7. ASSUME NEW u \in Users, NEW status, SetStatus(u, status) PROVE Goal
  BY <1>2, <1>7 DEF SetStatus
<1>8. CASE (\E s \in Sessions : CodeSession(s) \/ Logout(s) \/ Ages(s) \/ Ends(s))
             \/ DeleteExpiredSessions
  BY <1>1, <1>8 DEF CodeSession, Logout, Ages, Ends, DeleteExpiredSessions
<1> HIDE DEF Goal
<1> QED BY <1>4, <1>5, <1>6, <1>7, <1>8 DEF AccountsNext, Goal

\* The first use is recorded in the row of the lease, whatever its owner became.
LEMMA MarkInv ==
  ASSUME AccessInv, NEW v \in Visits, MarkFirstUsed(v)
  PROVE  IInv' /\ LeasesAreBound'
<1> DEFINE l == Ticket(v)
<1>0. /\ leases \in [Leases -> LeaseRows] /\ l \in Leases
      /\ UNCHANGED <<users, sessions, req, slots, bound>>
  BY DEF AccessInv, IInv, AccountsTypeOK, DInv, VisitsType, MarkFirstUsed, KeepFile, Ticket
<1>1. CASE Row(v) = NoLease
  <2>1. UNCHANGED accountVars
    BY <1>0, <1>1 DEF MarkFirstUsed, accountVars
  <2>2. IInv'
    BY <2>1, StepInv DEF AccessInv
  <2>3. LeasesAreBound'
    BY <1>0, <2>1 DEF accountVars, AccessInv, LeasesAreBound
  <2> QED BY <2>2, <2>3
<1>2. CASE Row(v) # NoLease
  <2>1. leases[l].kind # "none" /\ leases[l] \in LeaseRows
    BY <1>0, <1>2 DEF Row, AccessInv, LeasesAreBound
  <2>2. leases' = [leases EXCEPT ![l].used = TRUE]
    BY <1>2 DEF MarkFirstUsed
  <2>3. /\ leases' \in [Leases -> LeaseRows] /\ \A k \in Leases \ {l} : leases'[k] = leases[k]
        /\ leases'[l].kind = leases[l].kind /\ leases'[l].user = leases[l].user
        /\ leases'[l].version = leases[l].version /\ leases'[l].used
    BY <1>0, <2>1, <2>2 DEF LeaseRows
  <2>4. \A k \in Leases : Revocable(k)' => /\ Revocable(k) /\ leases'[k].user = leases[k].user
                                           /\ leases'[k].version = leases[k].version
    BY <1>0, <2>3 DEF Revocable
  <2>5. TablesOK' /\ UsersAdvance
    <3>1. TablesType' /\ SessionsAreCurrent'
      BY <1>0, <2>3, TablesHold DEF AccessInv, TablesOK, TablesType, SessionsAreCurrent, Current
    <3>2. LeasesAreCurrent'
      BY <1>0, <2>4, TablesHold DEF AccessInv, TablesOK, LeasesAreCurrent, Current
    <3> QED BY <1>0, <3>1, <3>2 DEF TablesOK, UsersAdvance
  <2>6. IInv'
    BY <1>0, <2>5, OthersInv DEF AccessInv
  <2>7. LeasesAreBound'
    BY <1>0, <2>1, <2>3 DEF AccessInv, LeasesAreBound
  <2> QED BY <2>6, <2>7
<1> QED BY <1>1, <1>2

LEMMA FilesStep ==
  ASSUME FilesType, DownloadsNext
  PROVE  FilesType'
<1>1. ASSUME NEW v \in Visits, VisitStep(v) PROVE UNCHANGED <<file, verifyEvery, bound, hashed>>
  BY <1>1 DEF VisitStep, Arrive, JoinOrLead, Reread, AcquireHashSlot, CompareHash,
     RevalidateDownloadFile, MarkFirstUsed, LeaderPanics, AdmitDownloadLease, Sent, KeepFile
<1>2. ASSUME NEW r \in Requests, NEW l \in Leases, NEW withHash \in BOOLEAN,
             MintDownload(r, l, withHash)
      PROVE  FilesType'
  BY <1>2 DEF MintDownload, FilesType
<1>3. ASSUME NEW f \in Versions, FileChanges(f) PROVE FilesType'
  BY <1>3 DEF FileChanges, FilesType
<1> QED BY <1>1, <1>2, <1>3 DEF DownloadsNext, downloadVars, FilesType

LEMMA AccessStep ==
  ASSUME AccessInv, [DownloadsNext]_<<accountVars, downloadVars>>
  PROVE  AccessInv'
<1>1. CASE UNCHANGED <<accountVars, downloadVars>>
  <2>1. IInv'
    BY <1>1, StepInv DEF AccessInv
  <2>2. DInv'
    BY <1>1, OthersDInv DEF downloadVars, AccessInv
  <2>3. FilesType' /\ LeasesAreBound'
    BY <1>1 DEF AccessInv, FilesType, LeasesAreBound, accountVars, downloadVars
  <2> QED BY <2>1, <2>2, <2>3 DEF AccessInv
<1>2. CASE AccountsNext /\ ~MintsDownload /\ UNCHANGED downloadVars
  <2>1. IInv'
    BY <1>2, StepInv DEF AccessInv
  <2>2. DInv'
    BY <1>2, OthersDInv DEF downloadVars, AccessInv
  <2>3. FilesType' /\ UNCHANGED bound
    BY <1>2 DEF AccessInv, FilesType, downloadVars
  <2>4. LeasesAreBound'
    <3>1. \A l \in Leases : \/ leases'[l] \in {leases[l], NoLease}
                            \/ leases'[l].kind = "upload"
      BY <1>2, KindsMove DEF AccessInv
    <3>2. NoLease.kind = "none"
      BY DEF NoLease, LeaseRow
    <3>3. /\ \A l \in Leases : leases[l].kind = "download" => bound[l] \in Versions
          /\ \A l \in Leases : leases[l].kind = "none" => leases[l] = NoLease
      BY DEF AccessInv, LeasesAreBound
    <3>4. \A l \in Leases : leases'[l].kind = "download" => bound'[l] \in Versions
      BY <2>3, <3>1, <3>2, <3>3
    <3>5. \A l \in Leases : leases'[l].kind = "none" => leases'[l] = NoLease
      BY <3>1, <3>3
    <3> QED BY <3>4, <3>5 DEF LeasesAreBound
  <2> QED BY <2>1, <2>2, <2>3, <2>4 DEF AccessInv
<1>3. ASSUME NEW r \in Requests, NEW l \in Leases, NEW withHash \in BOOLEAN,
             MintDownload(r, l, withHash)
      PROVE  AccessInv'
  <2>1. IInv'
    BY <1>3, CreateLeaseLimitedInv DEF MintDownload, AccessInv
  <2>2. DInv'
    BY <1>3, OthersDInv DEF MintDownload, AccessInv
  <2>3. FilesType'
    BY <1>3, FilesStep DEF AccessInv, DownloadsNext
  <2>4. LeasesAreBound'
    <3>1. /\ leases \in [Leases -> LeaseRows]
          /\ leases' = leases \/ leases' = Minted(r, l)
          /\ bound' = [bound EXCEPT ![l] = file]
      BY <1>3 DEF AccessInv, IInv, AccountsTypeOK, MintDownload, CreateLeaseLimited
    <3>2. \A k \in Leases \ {l} : leases'[k] = leases[k] /\ bound'[k] = bound[k]
      BY <3>1 DEF AccessInv, FilesType, Minted
    <3>3. bound'[l] \in Versions
      BY <3>1 DEF AccessInv, FilesType
    <3>4. leases'[l] = leases[l] \/ leases'[l].kind = "download"
      BY <1>3, <3>1 DEF Minted, LeaseRow, MintDownload
    <3> QED BY <3>2, <3>3, <3>4 DEF AccessInv, LeasesAreBound
  <2> QED BY <2>1, <2>2, <2>3, <2>4 DEF AccessInv
<1>4. ASSUME NEW f \in Versions, FileChanges(f)
      PROVE  AccessInv'
  <2>1. UNCHANGED <<verifyEvery, bound, hashed, visit, flights>> /\ UNCHANGED accountVars
    BY <1>4 DEF FileChanges
  <2>2. IInv' /\ DInv'
    BY <2>1, StepInv, OthersDInv DEF AccessInv
  <2>3. FilesType'
    BY <1>4, FilesStep DEF AccessInv, DownloadsNext
  <2>4. LeasesAreBound'
    BY <2>1 DEF AccessInv, LeasesAreBound, accountVars
  <2> QED BY <2>2, <2>3, <2>4 DEF AccessInv
<1>5. ASSUME NEW v \in Visits, VisitStep(v)
      PROVE  AccessInv'
  <2>1. DInv'
    BY <1>5, VisitInv DEF AccessInv, FilesType
  <2>2. FilesType'
    BY <1>5, FilesStep DEF AccessInv, DownloadsNext
  <2>3. IInv' /\ LeasesAreBound'
    <3>1. CASE MarkFirstUsed(v)
      BY <3>1, MarkInv
    <3>2. CASE ~MarkFirstUsed(v)
      <4>1. UNCHANGED accountVars /\ UNCHANGED bound
        BY <1>5, <3>2 DEF VisitStep, Arrive, JoinOrLead, Reread, AcquireHashSlot, CompareHash,
           RevalidateDownloadFile, LeaderPanics, AdmitDownloadLease, Sent, KeepFile
      <4>2. IInv'
        BY <4>1, StepInv DEF AccessInv
      <4> QED BY <4>1, <4>2 DEF AccessInv, LeasesAreBound, accountVars
    <3> QED BY <3>1, <3>2
  <2> QED BY <2>1, <2>2, <2>3 DEF AccessInv
<1> QED BY <1>1, <1>2, <1>3, <1>4, <1>5 DEF DownloadsNext

LEMMA AccessInit == Init /\ DownloadsInit => AccessInv
<1> SUFFICES ASSUME Init, DownloadsInit PROVE AccessInv
  OBVIOUS
<1>1. IInv
  BY InitInv
<1>2. DInv
  BY AwayIsFine, DownloadsAssumption
  DEF DownloadsInit, DInv, VisitsType, WaitersAreLed, Verified
<1>3. FilesType /\ LeasesAreBound
  BY DEF Init, DownloadsInit, FilesType, LeasesAreBound, NoLease, LeaseRow
<1> QED BY <1>1, <1>2, <1>3 DEF AccessInv

\* Every reachable state of the downloads satisfies the invariant.
THEOREM AccessHolds == DownloadsSpec => []AccessInv
BY AccessInit, AccessStep, PTL DEF DownloadsSpec

\* Every variable of the accounts and of the downloads keeps its type; a lease
\* of a download is always bound to a version of the file.
THEOREM DownloadsTypeCorrect == DownloadsSpec => [](AccountsTypeOK /\ DownloadsTypeOK)
<1>1. AccessInv => AccountsTypeOK /\ DownloadsTypeOK
  BY DEF AccessInv, IInv, DInv, VisitsType, VisitSet, FilesType, LeasesAreBound, DownloadsTypeOK
<1> QED BY <1>1, AccessHolds, PTL

\* Downloads and the use of leases leave every session and every lease that may
\* still be used under the version of the account that is in force.
THEOREM DownloadsKeepAccounts == DownloadsSpec => [](SessionsAreCurrent /\ LeasesAreCurrent)
<1>1. AccessInv => SessionsAreCurrent /\ LeasesAreCurrent
  BY DEF AccessInv, IInv
<1> QED BY <1>1, AccessHolds, PTL

\* Every request that waits for the first use of a lease is led by one that is
\* on its way, whichever flights end in an error, a panic or a used lease
\* (download_leases.go, the flights of ensureDownloadLeaseFirstUse).
THEOREM WaitersLed == DownloadsSpec => []WaitersAreLed
<1>1. AccessInv => WaitersAreLed
  BY DEF AccessInv, DInv
<1> QED BY <1>1, AccessHolds, PTL

\* A request leaves its last look at the file only when it was as it had seen it.
LEMMA LastLook ==
  ASSUME DInv, DownloadsNext, NEW v \in Visits, visit[v].at = "revalidate",
         visit'[v].at \in {"admit", "mark"}
  PROVE  visit[v].seen = file
<1>0. visit \in [Visits -> VisitSet] /\ visit'[v] # visit[v]
  BY DEF DInv, VisitsType
<1>1. PICK u \in Visits : VisitStep(u)
  BY <1>0 DEF DownloadsNext, downloadVars, MintDownload, FileChanges
<1>2. ASSUME NEW leader, NEW waiter, Deliver(u, leader, waiter) PROVE u = v
  BY <1>0, <1>2 DEF Deliver
<1>3. ASSUME NEW w, visit' = [visit EXCEPT ![u] = w] PROVE u = v
  BY <1>0, <1>3
<1>4. u = v
  BY <1>1, <1>2, <1>3 DEF VisitStep, Arrive, JoinOrLead, Reread, AcquireHashSlot, CompareHash,
     RevalidateDownloadFile, MarkFirstUsed, LeaderPanics, AdmitDownloadLease, Sent, Fail, Land,
     Proceed
<1>5. ~Fail(v)
  BY <1>0 DEF Fail, Deliver, Away, Visit
<1>6. RevalidateDownloadFile(v)
  BY <1>0, <1>1, <1>4, <1>5 DEF VisitStep, Arrive, JoinOrLead, Reread, AcquireHashSlot,
     CompareHash, MarkFirstUsed, LeaderPanics, AdmitDownloadLease, Sent, Away, Visit
<1> QED BY <1>5, <1>6 DEF RevalidateDownloadFile

(* Whatever the flights, their failures and the replacements of the file,   *)
(* what was last looked at before a request is admitted, or the first use   *)
(* recorded, had the content of the lease: on every request when each is    *)
(* verified, and on the first use otherwise.                                *)
THEOREM WhatIsServed == DownloadsSpec => ServedIsLeased
<1> DEFINE A == \A v \in Visits :
                  (/\ visit[v].at = "revalidate" /\ visit'[v].at \in {"admit", "mark"}
                   /\ Ticket(v) \in hashed /\ (verifyEvery \/ visit[v].mode = "first"))
                  => Content[file] = Content[bound[Ticket(v)]]
<1>1. ASSUME AccessInv, [DownloadsNext]_<<accountVars, downloadVars>>
      PROVE  A \/ UNCHANGED <<accountVars, downloadVars>>
  <2> SUFFICES ASSUME DownloadsNext, NEW v \in Visits, visit[v].at = "revalidate",
                      visit'[v].at \in {"admit", "mark"}, Ticket(v) \in hashed,
                      verifyEvery \/ visit[v].mode = "first"
               PROVE  Content[file] = Content[bound[Ticket(v)]]
    BY <1>1
  <2>1. visit[v].seen = file
    BY <1>1, LastLook DEF AccessInv
  <2> QED BY <1>1, <2>1 DEF AccessInv, DInv, Verified, Ticket
<1> QED BY <1>1, AccessHolds, PTL DEF DownloadsSpec, ServedIsLeased
=============================================================================
