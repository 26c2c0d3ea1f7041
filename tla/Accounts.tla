------------------------------ MODULE Accounts ------------------------------
(***************************************************************************)
(* Accounts, the sessions opened with them, and the private leases minted  *)
(* in those sessions.  A handler reads, computes a password hash for       *)
(* hundreds of milliseconds outside any transaction, and writes; all the   *)
(* others go on meanwhile.                                                 *)
(***************************************************************************)
EXTENDS Naturals, FiniteSets

CONSTANTS
  Users,      \* account names; a name is never given up, not even by deletion
  Passwords,
  Sessions, Leases, Requests,
  NoUser,     \* of sessions opened by code or by an administrator
  NoPassword, \* the erased password of a deleted account
  NoSession,
  MaxSlots,   \* adminVerifySlots
  MaxVersion  \* bound on auth_version

ASSUME AccountsAssumption ==
  /\ NoUser \notin Users /\ NoPassword \notin Passwords /\ NoSession \notin Sessions
  /\ IsFiniteSet(Requests)
  /\ MaxSlots \in Nat /\ MaxVersion \in Nat \ {0}

VARIABLES
  users,    \* the table users
  sessions, \* the table sessions
  leases,   \* the rows of download_leases and upload_leases that a session owns
  req,      \* the handlers under way
  slots     \* places taken in adminVerifySlots

accountVars == <<users, sessions, leases, req, slots>>

(***************************************************************************)
(* status is "none" before the account exists.                             *)
(***************************************************************************)
Statuses == {"none", "pending", "active", "disabled", "deleted"}
Account(status, hash, version) == [status |-> status, hash |-> hash, version |-> version]
NoAccount == Account("none", NoPassword, 0)
Accs == [status : Statuses, hash : Passwords \cup {NoPassword}, version : 0 .. MaxVersion]

(***************************************************************************)
(* life of a session: fresh, idle (may be recovered by a heartbeat),       *)
(* lapsed (beyond the grace), ended (beyond its absolute term).            *)
(* opened is what an observer remembers: the password it was opened with.  *)
(***************************************************************************)
SessionRow(life, user, version, opened) ==
  [life |-> life, user |-> user, version |-> version, opened |-> opened]
Free == SessionRow("none", NoUser, 0, NoPassword)
SessionRows ==
  [life : {"none", "fresh", "idle", "lapsed", "ended"}, user : Users \cup {NoUser},
   version : 0 .. MaxVersion, opened : Passwords \cup {NoPassword}]

(***************************************************************************)
(* version is what an observer remembers: the version it was minted under. *)
(* used: of an upload that has started, or of a download that was served.  *)
(***************************************************************************)
LeaseRow(kind, user, version, used) ==
  [kind |-> kind, user |-> user, version |-> version, used |-> used]
NoLease == LeaseRow("none", NoUser, 0, FALSE)
LeaseRows ==
  [kind : {"none", "download", "upload"}, user : Users \cup {NoUser},
   version : 0 .. MaxVersion, used : BOOLEAN]

(***************************************************************************)
(* Where a handler is:                                                     *)
(*   slot     it has read what it needs and asks for a place to hash in    *)
(*   hashing  it has the place and computes                                *)
(*   reading  changePassword: the session is valid, the account not read   *)
(*   insert   a login: the password was right                              *)
(*   saving   changePassword: the old password was right                   *)
(*   touch    heartbeat: the session may be prolonged                      *)
(*   mint     a lease is about to be inserted                              *)
(***************************************************************************)
Request(op, at, user, seen, given, new, session) ==
  [op |-> op, at |-> at, user |-> user, seen |-> seen, given |-> given, new |-> new,
   session |-> session]
NoRequest == Request("none", "idle", NoUser, NoAccount, NoPassword, NoPassword, NoSession)
Ops == {"none", "create", "login", "admin", "change", "reset", "heartbeat", "download", "upload"}
Ats == {"idle", "slot", "hashing", "reading", "insert", "saving", "touch", "mint"}
AccountRequests ==
  [op : Ops, at : Ats, user : Users \cup {NoUser}, seen : Accs,
   given : Passwords \cup {NoPassword}, new : Passwords \cup {NoPassword},
   session : Sessions \cup {NoSession}]

AccountsTypeOK ==
  /\ users \in [Users -> Accs]
  /\ sessions \in [Sessions -> SessionRows]
  /\ leases \in [Leases -> LeaseRows]
  /\ req \in [Requests -> AccountRequests]
  /\ slots \in 0 .. MaxSlots

Init ==
  /\ users = [u \in Users |-> NoAccount]
  /\ sessions = [s \in Sessions |-> Free]
  /\ leases = [l \in Leases |-> NoLease]
  /\ req = [r \in Requests |-> NoRequest]
  /\ slots = 0

Start(r, request) == req[r] = NoRequest /\ req' = [req EXCEPT ![r] = request]
Goto(r, at) == req' = [req EXCEPT ![r].at = at]
Finish(r) == req' = [req EXCEPT ![r] = NoRequest]

-----------------------------------------------------------------------------
(* The tables.                                                              *)

Current(u, version) == users[u].status = "active" /\ users[u].version = version

\* Store.Session and sessionLeaseOwner look at the account as well.
Found(s) ==
  /\ sessions[s].life # "none"
  /\ sessions[s].user # NoUser => Current(sessions[s].user, sessions[s].version)

Revocable(l) == leases[l].kind = "download" \/ (leases[l].kind = "upload" /\ ~leases[l].used)

RevokeSessionsOnly(u, status, hash, revoke) ==
  /\ revoke => users[u].version < MaxVersion
  /\ users' = [users EXCEPT ![u] =
       Account(status, IF status = "deleted" THEN NoPassword ELSE hash,
               IF revoke THEN @.version + 1 ELSE @.version)]
  /\ sessions' = [s \in Sessions |->
       IF revoke /\ sessions[s].user = u THEN Free ELSE sessions[s]]
  /\ UNCHANGED leases
\* UpdateAccount in one transaction, with what the account had opened.
UpdateAccount(u, status, hash, revoke) ==
  /\ revoke => users[u].version < MaxVersion
  /\ users' = [users EXCEPT ![u] =
       Account(status, IF status = "deleted" THEN NoPassword ELSE hash,
               IF revoke THEN @.version + 1 ELSE @.version)]
  /\ IF revoke
     THEN /\ sessions' = [s \in Sessions |-> IF sessions[s].user = u THEN Free ELSE sessions[s]]
          /\ leases' = [l \in Leases |->
               IF leases[l].user = u /\ Revocable(l) THEN NoLease ELSE leases[l]]
     ELSE UNCHANGED <<sessions, leases>>

-----------------------------------------------------------------------------
(* A place to hash in; whoever finds none is told so at once.               *)

AcquirePasswordSlot(r) ==
  /\ req[r].at = "slot"
  /\ IF slots < MaxSlots
     THEN Goto(r, "hashing") /\ slots' = slots + 1
     ELSE Finish(r) /\ UNCHANGED slots
  /\ UNCHANGED <<users, sessions, leases>>

-----------------------------------------------------------------------------
(* Registration, and creation by an administrator.                          *)

BeginCreate(r, u, p) ==
  /\ Start(r, Request("create", "slot", u, NoAccount, NoPassword, p, NoSession))
  /\ UNCHANGED <<users, sessions, leases, slots>>

CreateAccount(r, status) ==
  /\ req[r].op = "create" /\ req[r].at = "hashing"
  /\ users' = IF users[req[r].user] = NoAccount
              THEN [users EXCEPT ![req[r].user] = Account(status, req[r].new, 1)]
              ELSE users
  /\ Finish(r) /\ slots' = slots - 1
  /\ UNCHANGED <<sessions, leases>>

-----------------------------------------------------------------------------
(* Logins.                                                                  *)

BeginLogin(r, u, p) ==
  /\ Start(r, Request("login", "slot", u, users[u], p, NoPassword, NoSession))
  /\ UNCHANGED <<users, sessions, leases, slots>>

KeepSlotOnFailure(r) ==
  /\ req[r].op = "login" /\ req[r].at = "hashing"
  /\ IF req[r].given = req[r].seen.hash /\ req[r].seen.status = "active"
     THEN Goto(r, "insert") /\ slots' = slots - 1
     ELSE Finish(r) /\ UNCHANGED slots
  /\ UNCHANGED <<users, sessions, leases>>
\* The row that was read decides, with its password and its status; the place
\* is given back before the outcome is looked at.
VerifyLogin(r) ==
  /\ req[r].op = "login" /\ req[r].at = "hashing"
  /\ IF req[r].given = req[r].seen.hash /\ req[r].seen.status = "active"
     THEN Goto(r, "insert")
     ELSE Finish(r)
  /\ slots' = slots - 1
  /\ UNCHANGED <<users, sessions, leases>>

\* Ids are never used twice: a row may be taken again when nobody knows it.
Unknown(s) ==
  /\ sessions[s] = Free
  /\ \A r \in Requests : req[r].session # s

OpenUnconditionally(r, s) ==
  /\ req[r].op = "login" /\ req[r].at = "insert" /\ Unknown(s)
  /\ sessions' = [sessions EXCEPT ![s] =
       SessionRow("fresh", req[r].user, req[r].seen.version, req[r].given)]
  /\ Finish(r)
  /\ UNCHANGED <<users, leases, slots>>
CreateAccountSession(r, s) ==
  /\ req[r].op = "login" /\ req[r].at = "insert" /\ Unknown(s)
  /\ sessions' = IF Current(req[r].user, req[r].seen.version)
                 THEN [sessions EXCEPT ![s] =
                        SessionRow("fresh", req[r].user, req[r].seen.version, req[r].given)]
                 ELSE sessions
  /\ Finish(r)
  /\ UNCHANGED <<users, leases, slots>>

\* adminLogin has a hash of its own to compute, and no account.
BeginAdminLogin(r) ==
  /\ Start(r, Request("admin", "slot", NoUser, NoAccount, NoPassword, NoPassword, NoSession))
  /\ UNCHANGED <<users, sessions, leases, slots>>

ValidateAdminLogin(r, valid) ==
  /\ req[r].op = "admin" /\ req[r].at = "hashing"
  /\ IF valid THEN Goto(r, "insert") ELSE Finish(r)
  /\ slots' = slots - 1
  /\ UNCHANGED <<users, sessions, leases>>

CreateSessionWithIdle(s) ==
  /\ Unknown(s)
  /\ sessions' = [sessions EXCEPT ![s] = SessionRow("fresh", NoUser, 0, NoPassword)]
AdminSession(r, s) ==
  /\ req[r].op = "admin" /\ req[r].at = "insert"
  /\ CreateSessionWithIdle(s) /\ Finish(r)
  /\ UNCHANGED <<users, leases, slots>>
\* login: a code that needs no place to hash in.
CodeSession(s) == CreateSessionWithIdle(s) /\ UNCHANGED <<users, leases, req, slots>>

-----------------------------------------------------------------------------
(* Changes of an account.                                                   *)

\* auth, then changePassword up to its first read.
BeginChange(r, s, old, new) ==
  /\ sessions[s].life = "fresh" /\ Found(s) /\ sessions[s].user # NoUser
  /\ Start(r, Request("change", "reading", sessions[s].user,
                      Account("active", NoPassword, sessions[s].version), old, new, s))
  /\ UNCHANGED <<users, sessions, leases, slots>>

ReadAccount(r) ==
  LET u == req[r].user IN
  /\ req[r].at = "reading"
  /\ req' = [req EXCEPT ![r] = IF Current(u, @.seen.version)
                               THEN [@ EXCEPT !.seen = users[u], !.at = "slot"]
                               ELSE NoRequest]
  /\ UNCHANGED <<users, sessions, leases, slots>>

VerifyOld(r) ==
  /\ req[r].op = "change" /\ req[r].at = "hashing"
  /\ IF req[r].given = req[r].seen.hash
     THEN Goto(r, "saving") /\ UNCHANGED slots
     ELSE Finish(r) /\ slots' = slots - 1
  /\ UNCHANGED <<users, sessions, leases>>

MayUpdate(u) == users[u].status \notin {"none", "deleted"}

SaveUnconditionally(r) ==
  LET u == req[r].user IN
  /\ req[r].at = "saving"
  /\ IF MayUpdate(u)
     THEN UpdateAccount(u, users[u].status, req[r].new, TRUE)
     ELSE UNCHANGED <<users, sessions, leases>>
  /\ Finish(r) /\ slots' = slots - 1
\* With the version that was verified: expectedVersion.
SaveNewPassword(r) ==
  LET u == req[r].user IN
  /\ req[r].at = "saving"
  /\ IF Current(u, req[r].seen.version)
     THEN UpdateAccount(u, users[u].status, req[r].new, TRUE)
     ELSE UNCHANGED <<users, sessions, leases>>
  /\ Finish(r) /\ slots' = slots - 1

BeginReset(r, u, p) ==
  /\ Start(r, Request("reset", "slot", u, NoAccount, NoPassword, p, NoSession))
  /\ UNCHANGED <<users, sessions, leases, slots>>

ResetAccountPassword(r) ==
  LET u == req[r].user IN
  /\ req[r].op = "reset" /\ req[r].at = "hashing"
  /\ IF MayUpdate(u)
     THEN UpdateAccount(u, users[u].status, req[r].new, TRUE)
     ELSE UNCHANGED <<users, sessions, leases>>
  /\ Finish(r) /\ slots' = slots - 1

\* updateAccount and deleteAccount.
SetStatus(u, status) ==
  /\ MayUpdate(u)
  /\ UpdateAccount(u, status, users[u].hash, status # users[u].status /\ status # "active")
  /\ UNCHANGED <<req, slots>>

-----------------------------------------------------------------------------
(* Sessions: heartbeat, logout, expiry and maintenance.                     *)

\* auth lets a heartbeat, and nothing else, through within the grace.
BeginHeartbeat(r, s) ==
  /\ sessions[s].life \in {"fresh", "idle"} /\ Found(s)
  /\ Start(r, Request("heartbeat", "touch", NoUser, NoAccount, NoPassword, NoPassword, s))
  /\ UNCHANGED <<users, sessions, leases, slots>>

\* An UPDATE by id: what is gone stays gone, and the absolute term stays.
TouchSession(r) ==
  LET s == req[r].session IN
  /\ req[r].at = "touch"
  /\ sessions' = IF sessions[s].life \in {"none", "ended"} THEN sessions
                 ELSE [sessions EXCEPT ![s].life = "fresh"]
  /\ Finish(r)
  /\ UNCHANGED <<users, leases, slots>>

Logout(s) ==
  /\ sessions[s].life = "fresh" /\ Found(s)
  /\ sessions' = [sessions EXCEPT ![s] = Free]
  /\ UNCHANGED <<users, leases, req, slots>>

Ages(s) ==
  /\ sessions[s].life \in {"fresh", "idle", "lapsed"}
  /\ sessions' = [sessions EXCEPT ![s].life =
       IF @ = "fresh" THEN "idle" ELSE IF @ = "idle" THEN "lapsed" ELSE "ended"]
  /\ UNCHANGED <<users, leases, req, slots>>
Ends(s) ==
  /\ sessions[s].life \in {"fresh", "idle"}
  /\ sessions' = [sessions EXCEPT ![s].life = "ended"]
  /\ UNCHANGED <<users, leases, req, slots>>

DeleteExpiredSessions ==
  /\ \E s \in Sessions : sessions[s].life \in {"lapsed", "ended"}
  /\ sessions' = [s \in Sessions |->
       IF sessions[s].life \in {"lapsed", "ended"} THEN Free ELSE sessions[s]]
  /\ UNCHANGED <<users, leases, req, slots>>

-----------------------------------------------------------------------------
(* Private leases; they outlive their session, not their account's version. *)

BeginMint(r, s, kind) ==
  /\ sessions[s].life = "fresh" /\ Found(s)
  /\ Start(r, Request(kind, "mint", NoUser, NoAccount, NoPassword, NoPassword, s))
  /\ UNCHANGED <<users, sessions, leases, slots>>

Minted(r, l) ==
  LET s == req[r].session IN
  [leases EXCEPT ![l] = LeaseRow(req[r].op, sessions[s].user, sessions[s].version, FALSE)]
\* The owner is looked up in the transaction that inserts the lease.
CreateLeaseLimited(r, l) ==
  LET s == req[r].session IN
  /\ req[r].at = "mint" /\ leases[l] = NoLease
  /\ leases' = IF sessions[s].life = "fresh" /\ Found(s) THEN Minted(r, l) ELSE leases
  /\ Finish(r)
  /\ UNCHANGED <<users, sessions, slots>>

Admissible(l) == leases[l].user # NoUser => users[leases[l].user].status = "active"

ReserveUploadLease(l) ==
  /\ leases[l].kind = "upload" /\ ~leases[l].used /\ Admissible(l)
  /\ leases' = [leases EXCEPT ![l].used = TRUE]
  /\ UNCHANGED <<users, sessions, req, slots>>

\* A lease that has expired is refused everywhere, as if its row were gone.
LeaseExpires(l) ==
  /\ leases[l] # NoLease
  /\ leases' = [leases EXCEPT ![l] = NoLease]
  /\ UNCHANGED <<users, sessions, req, slots>>

-----------------------------------------------------------------------------
RequestStep(r) ==
  \/ AcquirePasswordSlot(r)
  \/ \E status \in {"active", "pending"} : CreateAccount(r, status)
  \/ VerifyLogin(r)
  \/ \E valid \in BOOLEAN : ValidateAdminLogin(r, valid)
  \/ \E s \in Sessions : CreateAccountSession(r, s) \/ AdminSession(r, s)
  \/ ReadAccount(r) \/ VerifyOld(r) \/ SaveNewPassword(r) \/ ResetAccountPassword(r)
  \/ TouchSession(r)
  \/ \E l \in Leases : CreateLeaseLimited(r, l)

RequestBegins(r) ==
  \/ BeginAdminLogin(r)
  \/ \E u \in Users, p \in Passwords :
       BeginCreate(r, u, p) \/ BeginLogin(r, u, p) \/ BeginReset(r, u, p)
  \/ \E s \in Sessions :
       \/ \E old, new \in Passwords : BeginChange(r, s, old, new)
       \/ BeginHeartbeat(r, s)
       \/ BeginMint(r, s, "download") \/ BeginMint(r, s, "upload")

AccountsNext ==
  \/ \E r \in Requests : RequestBegins(r) \/ RequestStep(r)
  \/ \E u \in Users, status \in {"pending", "active", "disabled", "deleted"} :
       SetStatus(u, status)
  \/ \E s \in Sessions : CodeSession(s) \/ Logout(s) \/ Ages(s) \/ Ends(s)
  \/ DeleteExpiredSessions
  \/ \E l \in Leases : ReserveUploadLease(l) \/ LeaseExpires(l)

AccountsSpec == Init /\ [][AccountsNext]_accountVars

-----------------------------------------------------------------------------
(* Properties.                                                              *)

\* Every stored session of an account was opened with the password that is in
\* force, of the version that is in force, and the account is active: however
\* long a login took, it did not outlive a change of the account.
SessionsAreCurrent ==
  \A s \in Sessions : sessions[s].life # "none" /\ sessions[s].user # NoUser =>
    /\ Current(sessions[s].user, sessions[s].version)
    /\ sessions[s].opened = users[sessions[s].user].hash

\* Every lease of an account that may still be used was minted under the
\* version in force, though sessions come and go between its check and its row.
LeasesAreCurrent ==
  \A l \in Leases : Revocable(l) /\ leases[l].user # NoUser =>
    Current(leases[l].user, leases[l].version)

\* The places taken in adminVerifySlots are those of the handlers that compute:
\* each of the handlers gives its place back once, by a call of its own or
\* by a defer, on whichever path it ends.  A place that was lost would refuse
\* logins and changes of passwords until the process is started again, and one
\* given back twice would let more of them compute than the pool has room for.
SlotsAreExact ==
  slots = Cardinality({r \in Requests : req[r].at \in {"hashing", "saving"}})

\* The change of one's own password replaces the password it was asked to
\* replace, of an active account; it never undoes what an administrator did.
ChangesReplaceWhatWasVerified ==
  [][\A r \in Requests : req[r].at = "saving" /\ users' # users /\ req'[r] = NoRequest =>
       LET u == req[r].user IN
       users[u].status = "active" /\ users[u].hash = req[r].given]_accountVars
=============================================================================
