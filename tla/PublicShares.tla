---------------------------- MODULE PublicShares ----------------------------
(***************************************************************************)
(* Public sharing of one resource: temporary tokens, the download and      *)
(* upload leases they are exchanged for, the accounting of their uses and  *)
(* bytes, and the publication of a changed resource.                       *)
(*                                                                         *)
(* Every SQL statement or transaction of internal/store is one step: the   *)
(* store owns a single SQLite connection (SetMaxOpenConns(1)).  An HTTP    *)
(* handler of internal/server is a sequence of such steps; between two of  *)
(* them any other handler, an administrator, the clock, the maintenance    *)
(* task or a crash of the process may act.                                 *)
(***************************************************************************)
EXTENDS Integers, FiniteSets, FiniteSetsExt

CONSTANTS
  Tokens,          \* ids of rows of table tokens (AUTOINCREMENT: never reused)
  DownloadTokens,  \* those of type "download"; the others are upload tokens
  Leases,          \* ids of rows of download_leases and upload_leases
  Requests,        \* request slots: the handlers running at the same time
  Auths,           \* values of the resource's authorization fingerprint
  Absent,          \* the resource is not configured
  NoToken, NoLease,
  MaxUses,         \* max_uses of every token, 0 is unlimited
  Quota,           \* tokens.upload_max_mb, 0 is unlimited
  Sizes,           \* declared sizes of uploads
  MaxActiveTokens, \* abuse.creation.max_active_tokens, 0 is unlimited
  MaxOwnerLeases,  \* abuse.creation.max_outstanding_leases_per_owner, 0 is unlimited
  MaxTotalLeases,  \* abuse.creation.max_outstanding_leases_total, 0 is unlimited
  MaxPublications, \* bound: resource changes published
  MaxCrashes       \* bound: crashes of the process

ASSUME TokensAssumption   == DownloadTokens \subseteq Tokens /\ NoToken \notin Tokens
ASSUME LeasesAssumption   == NoLease \notin Leases
ASSUME RequestsAssumption == IsFiniteSet(Requests)
ASSUME AuthsAssumption    == Absent \notin Auths
ASSUME LimitsAssumption   ==
  /\ MaxUses \in Nat
  /\ Quota \in Nat
  /\ Sizes \subseteq Nat
  /\ MaxActiveTokens \in Nat
  /\ MaxOwnerLeases \in Nat
  /\ MaxTotalLeases \in Nat
  /\ MaxPublications \in Nat
  /\ MaxCrashes \in Nat

VARIABLES
  cfg,       \* the published resource: its fingerprint, or Absent
  pub,       \* the configuration writer, serialised by configWriteMu
  token,     \* table tokens, with the accounting a reader would keep beside it
  timedOut,  \* tokens whose expires_at has passed
  lease,     \* tables download_leases and upload_leases
  req,       \* the running handlers
  crashes,
  leakedBytes  \* bytes that leaked reservations still take from each quota

vars == <<cfg, pub, token, timedOut, lease, req, crashes, leakedBytes>>

Uploads == Tokens \ DownloadTokens

(***************************************************************************)
(* A token's row is "draft" while createToken has read the configuration   *)
(* but has not inserted it.  uses and bytes are the columns uses and       *)
(* uploaded_bytes.  spent and stored are what was acknowledged (exchanges  *)
(* and uploads, bytes of uploads), leaked the reservations that a failed   *)
(* release or a crash left behind, epoch the number of publications when   *)
(* createToken read the fingerprint.                                       *)
(***************************************************************************)
TokenRow == [row : {"absent", "draft", "live", "revoked", "deleted"},
             fp : Auths \cup {Absent}, epoch : Nat, uses : Nat, bytes : Nat,
             spent : Nat, stored : Nat, leaked : Nat]

LeaseRow == [row : {"none", "live", "used", "deleted"}, kind : {"download", "upload"},
             token : Tokens \cup {NoToken}, size : Nat, late : BOOLEAN,
             uploads : Nat]

(***************************************************************************)
(* A handler, with the point it has reached:                               *)
(*   looked     its first lookup and checks have passed                    *)
(*   burned     its upload lease is marked used                            *)
(*   ready      the authorization was checked again, nothing reserved yet  *)
(*   reserved   a use (and n bytes) of the token is reserved               *)
(*   checked    the authorization was checked again after the reservation  *)
(*   saved      the uploaded file, of size got, is in its final place      *)
(*   releasing  the handler failed and is giving its reservation back      *)
(***************************************************************************)
Ops == {"none", "exchange", "multipart", "mint", "raw", "redeem"}
Points == {"idle", "looked", "burned", "ready", "reserved", "checked", "saved", "releasing"}
Handler == [op : Ops, pc : Points, token : Tokens \cup {NoToken},
            lease : Leases \cup {NoLease}, n : Nat, got : Nat]

NoHandler == [op |-> "none", pc |-> "idle", token |-> NoToken, lease |-> NoLease,
              n |-> 0, got |-> 0]
NoTokenRow == [row |-> "absent", fp |-> Absent, epoch |-> 0, uses |-> 0, bytes |-> 0,
               spent |-> 0, stored |-> 0, leaked |-> 0]
NoLeaseRow == [row |-> "none", kind |-> "download", token |-> NoToken, size |-> 0,
               late |-> FALSE, uploads |-> 0]

TypeOK ==
  /\ cfg \in Auths \cup {Absent}
  /\ pub \in [pc : {"idle", "revoked"}, next : Auths \cup {Absent}, count : Nat]
  /\ token \in [Tokens -> TokenRow]
  /\ timedOut \subseteq Tokens
  /\ lease \in [Leases -> LeaseRow]
  /\ req \in [Requests -> Handler]
  /\ crashes \in Nat
  /\ DOMAIN leakedBytes = Tokens

Init ==
  /\ cfg \in Auths
  /\ pub = [pc |-> "idle", next |-> Absent, count |-> 0]
  /\ token = [t \in Tokens |-> NoTokenRow]
  /\ timedOut = {}
  /\ lease = [l \in Leases |-> NoLeaseRow]
  /\ req = [r \in Requests |-> NoHandler]
  /\ crashes = 0
  /\ leakedBytes = [t \in Tokens |-> 0]

-----------------------------------------------------------------------------
(* Conditions on rows.                                                      *)

\* The CASE expressions of the UPDATE statements saturate at zero.
Minus(a, b) == IF a >= b THEN a - b ELSE 0

HasRow(t) == token[t].row \in {"live", "revoked"}

\* tokenValidity and the WHERE clause of the reservation: not revoked, not
\* expired, not exhausted.
UsableUnbounded(t) == token[t].row = "live" /\ t \notin timedOut
UsableThoughRevoked(t) ==
  HasRow(t) /\ t \notin timedOut /\ (MaxUses = 0 \/ token[t].uses < MaxUses)
Usable(t) ==
  /\ token[t].row = "live"
  /\ t \notin timedOut
  /\ MaxUses = 0 \/ token[t].uses < MaxUses

\* publicLeaseExpiry: a lease never expires after its token.
Expired(l) == lease[l].late \/ lease[l].token \in timedOut

Outstanding(l) == lease[l].row = "live" /\ ~Expired(l)

OutstandingOf(t) == {l \in Leases : Outstanding(l) /\ lease[l].token = t}

\* The reservations of t that running handlers hold.
HoldingPoints == {"reserved", "checked", "saved", "releasing"}
Holding(t) == {r \in Requests : req[r].pc \in HoldingPoints /\ req[r].token = t}

Goto(r, point) == req' = [req EXCEPT ![r].pc = point]
Finish(r) == req' = [req EXCEPT ![r] = NoHandler]
Begin(r, h) == req[r].pc = "idle" /\ req' = [req EXCEPT ![r] = h]

-----------------------------------------------------------------------------
(* Administration of tokens.                                                *)

\* createToken reads the configured resource and validates the path in it ...
CreateTokenRead(t) ==
  /\ token[t].row = "absent"
  /\ cfg # Absent
  /\ token' = [token EXCEPT ![t] = [@ EXCEPT !.row = "draft", !.fp = cfg, !.epoch = pub.count]]
  /\ UNCHANGED <<cfg, pub, timedOut, lease, req, crashes, leakedBytes>>

\* ... and then inserts the row, under the limit on active tokens.  It does
\* not look at the configuration again.
CreateTokenLimited(t) ==
  /\ token[t].row = "draft"
  /\ MaxActiveTokens = 0 \/ Cardinality({u \in Tokens : Usable(u)}) < MaxActiveTokens
  /\ token' = [token EXCEPT ![t].row = "live"]
  /\ UNCHANGED <<cfg, pub, timedOut, lease, req, crashes, leakedBytes>>

\* Of a deleted row only its identity is left, and what was done with it.
DeletedLease(l) == [NoLeaseRow EXCEPT !.row = "deleted", !.uploads = lease[l].uploads]
DeletedToken(t) == [NoTokenRow EXCEPT !.row = "deleted", !.fp = token[t].fp]

RemoveLeasesOf(set) ==
  [l \in Leases |-> IF lease[l].token \in set THEN DeletedLease(l) ELSE lease[l]]

RevokeTokenAndLeases(t) ==
  /\ HasRow(t)
  /\ token' = [token EXCEPT ![t].row = "revoked"]
  /\ lease' = RemoveLeasesOf({t})
  /\ UNCHANGED <<cfg, pub, timedOut, req, crashes, leakedBytes>>

DeleteTokenAndLeases(t) ==
  /\ HasRow(t)
  /\ token' = [token EXCEPT ![t] = DeletedToken(t)]
  /\ lease' = RemoveLeasesOf({t})
  /\ UNCHANGED <<cfg, pub, timedOut, req, crashes, leakedBytes>>

TokenExpires(t) ==
  /\ HasRow(t) /\ t \notin timedOut
  /\ timedOut' = timedOut \cup {t}
  /\ UNCHANGED <<cfg, pub, token, lease, req, crashes, leakedBytes>>

\* The lease's own time to live ends before its token does.
LeaseExpires(l) ==
  /\ lease[l].row = "live" /\ ~Expired(l)
  /\ lease' = [lease EXCEPT ![l].late = TRUE]
  /\ UNCHANGED <<cfg, pub, token, timedOut, req, crashes, leakedBytes>>

\* Maintenance: expired tokens go with their leases in one transaction.
DeleteExpiredTokens ==
  LET gone == {t \in timedOut : HasRow(t)} IN
  /\ gone # {}
  /\ token' = [t \in Tokens |->
                 IF t \in gone THEN DeletedToken(t) ELSE token[t]]
  /\ lease' = RemoveLeasesOf(gone)
  /\ UNCHANGED <<cfg, pub, timedOut, req, crashes, leakedBytes>>

\* Maintenance: expired leases, and used upload leases.
DeleteExpiredLeases(kind) ==
  LET gone == {l \in Leases : lease[l].kind = kind
                                /\ \/ lease[l].row = "used"
                                   \/ lease[l].row = "live" /\ Expired(l)} IN
  /\ gone # {}
  /\ lease' = [l \in Leases |-> IF l \in gone THEN DeletedLease(l) ELSE lease[l]]
  /\ UNCHANGED <<cfg, pub, token, timedOut, req, crashes, leakedBytes>>

-----------------------------------------------------------------------------
(* Publication of a changed resource: updateConfigResources.                *)

\* The next configuration is on disk as a temporary file; the authorizations
\* of every resource it changes or removes are revoked in one transaction.
RevokeBeforePublish(next) ==
  /\ pub.pc = "idle" /\ pub.count < MaxPublications
  /\ next # cfg
  /\ pub' = [pub EXCEPT !.pc = "revoked", !.next = next]
  /\ IF cfg = Absent
     THEN UNCHANGED <<token, lease>>
     ELSE /\ token' = [t \in Tokens |->
                         IF HasRow(t) THEN [token[t] EXCEPT !.row = "revoked"] ELSE token[t]]
          /\ lease' = RemoveLeasesOf(Tokens)
  /\ UNCHANGED <<cfg, timedOut, req, crashes, leakedBytes>>

\* rename has succeeded: the configuration in memory is replaced, whether or
\* not the directory could be synced after it.
Publish ==
  /\ pub.pc = "revoked"
  /\ cfg' = pub.next
  /\ pub' = [pc |-> "idle", next |-> Absent, count |-> pub.count + 1]
  /\ UNCHANGED <<token, timedOut, lease, req, crashes, leakedBytes>>

\* The rename failed: the old configuration stays, the revocation stays too.
PublishFails ==
  /\ pub.pc = "revoked"
  /\ pub' = [pub EXCEPT !.pc = "idle", !.next = Absent]
  /\ UNCHANGED <<cfg, token, timedOut, lease, req, crashes, leakedBytes>>

-----------------------------------------------------------------------------
(* Handlers.  A handler that has reserved nothing may return an error at    *)
(* any point.                                                               *)

Quit(r) ==
  /\ req[r].pc \in {"looked", "burned", "ready"}
  /\ Finish(r)
  /\ UNCHANGED <<cfg, pub, token, timedOut, lease, crashes, leakedBytes>>

\* lookupPublicToken: type, validity, remaining quota, and the fingerprint
\* against the published resource.
LookupPublicToken(t) ==
  /\ Usable(t)
  /\ t \in Uploads /\ Quota > 0 => token[t].bytes < Quota
  /\ token[t].fp = cfg

\* POST /t/:token/download-lease
BeginExchange(r, t) ==
  /\ t \in DownloadTokens /\ LookupPublicToken(t)
  /\ Begin(r, [NoHandler EXCEPT !.op = "exchange", !.pc = "looked", !.token = t])
  /\ UNCHANGED <<cfg, pub, token, timedOut, lease, crashes, leakedBytes>>

\* POST /t/:token/upload, declaring n bytes of multipart content
BeginMultipart(r, t, n) ==
  /\ t \in Uploads /\ LookupPublicToken(t)
  /\ n > 0
  /\ Begin(r, [NoHandler EXCEPT !.op = "multipart", !.pc = "looked", !.token = t, !.n = n])
  /\ UNCHANGED <<cfg, pub, token, timedOut, lease, crashes, leakedBytes>>

\* POST /t/:token/upload-lease for a file of n bytes
BeginMint(r, t, n) ==
  /\ t \in Uploads /\ LookupPublicToken(t)
  /\ Quota = 0 \/ token[t].bytes + n <= Quota
  /\ Begin(r, [NoHandler EXCEPT !.op = "mint", !.pc = "looked", !.token = t, !.n = n])
  /\ UNCHANGED <<cfg, pub, token, timedOut, lease, crashes, leakedBytes>>

\* POST /t/upload-raw-by-lease
BeginRaw(r, l) ==
  /\ lease[l].kind = "upload" /\ Outstanding(l)
  /\ token[lease[l].token].fp = cfg
  /\ Begin(r, [NoHandler EXCEPT !.op = "raw", !.pc = "looked", !.token = lease[l].token,
                                !.lease = l, !.n = lease[l].size])
  /\ UNCHANGED <<cfg, pub, token, timedOut, lease, crashes, leakedBytes>>

\* GET /t/download-by-lease
BeginRedeem(r, l) ==
  /\ lease[l].kind = "download" /\ Outstanding(l)
  /\ token[lease[l].token].fp = cfg
  /\ Begin(r, [NoHandler EXCEPT !.op = "redeem", !.pc = "looked", !.token = lease[l].token,
                                !.lease = l])
  /\ UNCHANGED <<cfg, pub, token, timedOut, lease, crashes, leakedBytes>>

\* The check of the published resource after the upload lease was marked used
\* and read again, and before an upload lease is inserted.
CheckBeforeReserve(r) ==
  /\ \/ req[r].op = "raw" /\ req[r].pc = "burned" /\ lease[req[r].lease].row = "used"
     \/ req[r].op = "mint" /\ req[r].pc = "looked"
  /\ token[req[r].token].fp = cfg
  /\ Goto(r, "ready")
  /\ UNCHANGED <<cfg, pub, token, timedOut, lease, crashes, leakedBytes>>

\* One conditional UPDATE marks the lease used.
ReserveUploadLeaseAnyway(r) ==
  LET l == req[r].lease IN
  /\ req[r].op = "raw" /\ req[r].pc = "looked"
  /\ lease[l].row \in {"live", "used"}
  /\ lease' = [lease EXCEPT ![l].row = "used"]
  /\ Goto(r, "burned")
  /\ UNCHANGED <<cfg, pub, token, timedOut, crashes, leakedBytes>>
ReserveUploadLease(r) ==
  LET l == req[r].lease IN
  /\ req[r].op = "raw" /\ req[r].pc = "looked"
  /\ Outstanding(l)
  /\ lease' = [lease EXCEPT ![l].row = "used"]
  /\ Goto(r, "burned")
  /\ UNCHANGED <<cfg, pub, token, timedOut, crashes, leakedBytes>>

\* The declared bytes that were not stored, which go back to the quota.
UnstoredSwapped(n, got) == got
Unstored(n, got) == n - got

\* The row of t with a use and n bytes reserved, with both given back, and
\* with a finished upload of got bytes of the n declared.  Both columns
\* saturate at zero.
Reserved(t, n) == [token[t] EXCEPT !.uses = @ + 1, !.bytes = @ + n]
Released(t, n) == [token[t] EXCEPT !.uses = Minus(@, 1), !.bytes = Minus(@, n)]
Settled(t, n, got) ==
  [token[t] EXCEPT !.bytes = Minus(@, Unstored(n, got)), !.spent = @ + 1,
                   !.stored = @ + got]

\* One conditional UPDATE reserves a use and the declared bytes.
ReserveTokenUse(r) ==
  LET t == req[r].token IN
  /\ \/ req[r].op \in {"exchange", "multipart"} /\ req[r].pc = "looked"
     \/ req[r].op = "raw" /\ req[r].pc = "ready"
  /\ Usable(t)
  /\ Quota = 0 \/ token[t].bytes + req[r].n <= Quota
  /\ token' = [token EXCEPT ![t] = Reserved(t, req[r].n)]
  /\ Goto(r, "reserved")
  /\ UNCHANGED <<cfg, pub, timedOut, lease, crashes, leakedBytes>>

\* The published resource is checked again after the reservation.
CheckAfterReserve(r) ==
  /\ req[r].pc = "reserved"
  /\ Goto(r, IF token[req[r].token].fp = cfg THEN "checked" ELSE "releasing")
  /\ UNCHANGED <<cfg, pub, token, timedOut, lease, crashes, leakedBytes>>

\* Any error after the checks: the file changed, the disk is full, the upload
\* was cancelled or cut, a limit was reached, a statement failed.  An upload
\* that was saved is removed again when its byte adjustment fails.
FailReservedKeeps(r) ==
  /\ req[r].pc \in {"checked", "saved"}
  /\ Finish(r)
  /\ UNCHANGED <<cfg, pub, token, timedOut, lease, crashes, leakedBytes>>
FailReserved(r) ==
  /\ req[r].pc \in {"checked", "saved"}
  /\ Goto(r, "releasing")
  /\ UNCHANGED <<cfg, pub, token, timedOut, lease, crashes, leakedBytes>>

UnderOwnerLimit(t) ==
  MaxOwnerLeases = 0 \/ Cardinality(OutstandingOf(t)) < MaxOwnerLeases

UnderTotalLimitOffByOne ==
  MaxTotalLeases = 0 \/ Cardinality({l \in Leases : Outstanding(l)}) <= MaxTotalLeases
UnderTotalLimit ==
  MaxTotalLeases = 0 \/ Cardinality({l \in Leases : Outstanding(l)}) < MaxTotalLeases

\* The limits are checked in the transaction that inserts the row.
NewLease(l, kind, t, n) ==
  /\ lease[l].row = "none"
  /\ UnderTotalLimit /\ UnderOwnerLimit(t)
  /\ lease' = [lease EXCEPT ![l] = [NoLeaseRow EXCEPT !.row = "live", !.kind = kind,
                                                      !.token = t, !.size = n]]

\* The exchange ends: the use it reserved is spent on the download lease.
CreateDownloadLeaseLimited(r, l) ==
  LET t == req[r].token IN
  /\ req[r].op = "exchange" /\ req[r].pc = "checked"
  /\ NewLease(l, "download", t, 0)
  /\ token' = IF HasRow(t) THEN [token EXCEPT ![t].spent = @ + 1] ELSE token
  /\ Finish(r)
  /\ UNCHANGED <<cfg, pub, timedOut, crashes, leakedBytes>>

\* An upload lease reserves nothing.
CreateUploadLeaseLimited(r, l) ==
  /\ req[r].op = "mint" /\ req[r].pc = "ready"
  /\ NewLease(l, "upload", req[r].token, req[r].n)
  /\ Finish(r)
  /\ UNCHANGED <<cfg, pub, token, timedOut, crashes, leakedBytes>>

\* commitUploadCandidate links the file to its final name while it holds the
\* publication gate, and only under the authorization the request came with.
\* A multipart body holds fewer bytes of files than it declared; a raw body
\* is the file.
CommitUpload(r, got) ==
  LET l == req[r].lease IN
  /\ req[r].op \in {"multipart", "raw"} /\ req[r].pc = "checked"
  /\ token[req[r].token].fp = cfg
  /\ IF req[r].op = "raw" THEN got = req[r].n ELSE got < req[r].n
  /\ req' = [req EXCEPT ![r] = [@ EXCEPT !.pc = "saved", !.got = got]]
  /\ lease' = IF req[r].op = "raw" THEN [lease EXCEPT ![l].uploads = @ + 1] ELSE lease
  /\ UNCHANGED <<cfg, pub, token, timedOut, crashes, leakedBytes>>

AdjustTokenUploadedBytes(r) ==
  LET t == req[r].token IN
  /\ req[r].pc = "saved"
  /\ token' = IF HasRow(t)
              THEN [token EXCEPT ![t] = Settled(t, req[r].n, req[r].got)]
              ELSE token
  /\ Finish(r)
  /\ UNCHANGED <<cfg, pub, timedOut, lease, crashes, leakedBytes>>

\* A deleted row is not touched.
ReleaseTokenUse(r) ==
  LET t == req[r].token IN
  /\ req[r].pc = "releasing"
  /\ token' = IF HasRow(t)
              THEN [token EXCEPT ![t] = Released(t, req[r].n)]
              ELSE token
  /\ Finish(r)
  /\ UNCHANGED <<cfg, pub, timedOut, lease, crashes, leakedBytes>>

\* The reservation stays behind: its release fails, which is only logged, or
\* the row cannot be read back after it was updated, which releases nothing.
ReservationLeaks(r) ==
  LET t == req[r].token IN
  /\ req[r].pc \in {"reserved", "releasing"}
  /\ token' = IF HasRow(t)
              THEN [token EXCEPT ![t].leaked = @ + 1] ELSE token
  /\ leakedBytes' = [leakedBytes EXCEPT ![t] = IF HasRow(t) THEN @ + req[r].n ELSE 0]
  /\ Finish(r)
  /\ UNCHANGED <<cfg, pub, timedOut, lease, crashes>>

\* Admission of a download: the lease row must still be there.
AdmitDownloadLease(r) ==
  /\ req[r].op = "redeem" /\ req[r].pc = "looked"
  /\ Outstanding(req[r].lease)
  /\ Finish(r)
  /\ UNCHANGED <<cfg, pub, token, timedOut, lease, crashes, leakedBytes>>

-----------------------------------------------------------------------------
HeldBytes(t) == MapThenSumSet(LAMBDA r : req[r].n, Holding(t))

\* The process stops: the running handlers and the configuration writer are
\* gone, the database stays, and so does whichever configuration file is in
\* place.  Drafts were never inserted.
Crash ==
  /\ crashes < MaxCrashes
  /\ crashes' = crashes + 1
  /\ \/ UNCHANGED cfg /\ pub' = [pub EXCEPT !.pc = "idle", !.next = Absent]
     \/ /\ pub.pc = "revoked" /\ cfg' = pub.next
        /\ pub' = [pc |-> "idle", next |-> Absent, count |-> pub.count + 1]
  /\ token' = [t \in Tokens |->
                 CASE token[t].row = "draft" -> NoTokenRow
                   [] HasRow(t) -> [token[t] EXCEPT !.leaked = @ + Cardinality(Holding(t))]
                   [] OTHER -> token[t]]
  /\ leakedBytes' = [t \in Tokens |-> IF HasRow(t) THEN leakedBytes[t] + HeldBytes(t) ELSE 0]
  /\ req' = [r \in Requests |-> NoHandler]
  /\ UNCHANGED <<timedOut, lease>>

Administration ==
  \/ \E t \in Tokens : \/ CreateTokenRead(t)
                       \/ CreateTokenLimited(t)
                       \/ RevokeTokenAndLeases(t)
                       \/ DeleteTokenAndLeases(t)
  \/ \E next \in Auths \cup {Absent} : RevokeBeforePublish(next)
  \/ Publish
  \/ PublishFails

Passing ==
  \/ \E t \in Tokens : TokenExpires(t)
  \/ \E l \in Leases : LeaseExpires(l)
  \/ DeleteExpiredTokens
  \/ \E kind \in {"download", "upload"} : DeleteExpiredLeases(kind)
  \/ Crash

Starting(r) ==
  \/ \E t \in Tokens : BeginExchange(r, t)
  \/ \E t \in Tokens, n \in Sizes : BeginMultipart(r, t, n) \/ BeginMint(r, t, n)
  \/ \E l \in Leases : BeginRaw(r, l) \/ BeginRedeem(r, l)

Handling(r) ==
  \/ Quit(r)
  \/ ReserveUploadLease(r)
  \/ CheckBeforeReserve(r)
  \/ ReserveTokenUse(r)
  \/ CheckAfterReserve(r)
  \/ FailReserved(r)
  \/ \E l \in Leases : CreateDownloadLeaseLimited(r, l) \/ CreateUploadLeaseLimited(r, l)
  \/ \E got \in Sizes \cup {0} : CommitUpload(r, got)
  \/ AdjustTokenUploadedBytes(r)
  \/ ReleaseTokenUse(r)
  \/ ReservationLeaks(r)
  \/ AdmitDownloadLease(r)

Next == Administration \/ Passing \/ \E r \in Requests : Starting(r) \/ Handling(r)

Spec == Init /\ [][Next]_vars

-----------------------------------------------------------------------------
(* Properties.                                                              *)

\* Neither max_uses nor the upload quota of a token is ever exceeded, however
\* reservations, rollbacks and byte adjustments of concurrent requests mix.
WithinLimits ==
  \A t \in Tokens : /\ MaxUses > 0 => token[t].uses <= MaxUses
                    /\ Quota > 0 => token[t].bytes <= Quota

\* The column uses is exact: it counts the reservations that running requests
\* hold, the exchanges and uploads acknowledged, and the reservations that a
\* crash or a failed release has leaked.  So a rollback gives back exactly
\* what its own request took, once, and its saturation at zero never bites.
UsesExact ==
  \A t \in Tokens : HasRow(t) =>
    token[t].uses = Cardinality(Holding(t)) + token[t].spent + token[t].leaked

\* The column uploaded_bytes is exact in the same way: a quota is consumed by
\* the bytes really stored, the bytes declared by running uploads, and leaks.
BytesExact ==
  \A t \in Tokens : HasRow(t) =>
    token[t].bytes = HeldBytes(t) + token[t].stored + leakedBytes[t]

\* An upload lease is good for one upload: of the requests that present it at
\* most one gets past its reservation, and at most one file is stored for it.
Presenting(l) ==
  {r \in Requests : req[r].lease = l /\ req[r].op = "raw"
                      /\ req[r].pc \notin {"idle", "looked"}}
OneUploadPerLease ==
  \A l \in Leases :
    Cardinality({r \in Presenting(l) : req[r].pc \notin {"saved", "releasing"}})
      + lease[l].uploads <= 1

\* The leases outstanding at a time stay within the limits, of one owner and of
\* all, although exchanges and upload leases are inserted by concurrent requests
\* that checked everything else long before.
OutstandingWithinLimit ==
  /\ MaxTotalLeases > 0 => Cardinality({l \in Leases : Outstanding(l)}) <= MaxTotalLeases
  /\ \A t \in Tokens : MaxOwnerLeases > 0 => Cardinality(OutstandingOf(t)) <= MaxOwnerLeases

\* Once a token is revoked, deleted or expired, no request reserves a use of it
\* any more, whatever leases or lookups the request still holds.
RevocationStopsReservations ==
  [][\A t \in Tokens : token[t].row # "live" \/ t \in timedOut =>
        Holding(t)' \subseteq Holding(t)]_vars

\* What the code says of revocation (a revoked token leaves no lease that can
\* still be used): violated by an exchange that inserts its lease after it.
RevokedTokenLeavesNoLease ==
  \A l \in Leases : lease[l].kind = "download" /\ Outstanding(l) =>
    token[lease[l].token].row = "live"

\* What the documentation says of changed resources (old authorizations are
\* revoked with the change): violated by a token that createToken inserts
\* after the revocation, once the same resource is configured again.
NoTokenOutlivesItsResource ==
  \A t \in Tokens : token[t].row = "live" /\ token[t].fp = cfg =>
    token[t].epoch = pub.count
=============================================================================
