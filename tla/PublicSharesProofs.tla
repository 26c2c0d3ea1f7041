------------------------- MODULE PublicSharesProofs -------------------------
(***************************************************************************)
(* Theorems about PublicShares, for every set of tokens and leases, every  *)
(* finite set of request slots and every limit.                            *)
(***************************************************************************)
EXTENDS PublicShares, FiniteSetTheorems, WellFoundedInduction, TLAPS

\* A token whose row was inserted at some time.
Inserted(t) == token[t].row \notin {"absent", "draft"}

\* A handler speaks of a token that was inserted, and a raw upload of a lease;
\* no file is larger than what was declared.
HandlersRefer ==
  \A r \in Requests :
    /\ req[r].pc # "idle" => req[r].token \in Tokens /\ Inserted(req[r].token)
    /\ req[r].op = "raw" => req[r].lease \in Leases
    /\ req[r].pc = "saved" => req[r].got <= req[r].n

\* So does a lease that can still be presented.
LeasesRefer ==
  \A l \in Leases :
    lease[l].row \in {"live", "used"} => lease[l].token \in Tokens /\ Inserted(lease[l].token)

\* Nothing is accounted to a token before its row is inserted.
FreshTokens ==
  \A t \in Tokens : ~Inserted(t) =>
    token[t].uses = 0 /\ token[t].spent = 0 /\ token[t].leaked = 0

IInv == TypeOK /\ HandlersRefer /\ LeasesRefer /\ FreshTokens

USE DEF NoHandler, NoTokenRow, NoLeaseRow, Goto, Finish, Begin

-----------------------------------------------------------------------------
(* Lemmas on the operators of the model.                                    *)

\* The set of reservations of a token is finite, since requests are.
LEMMA HoldingFinite ==
  \A t : IsFiniteSet(Holding(t)) /\ Cardinality(Holding(t)) \in Nat
<1> TAKE t
<1>1. Holding(t) \in SUBSET Requests
  BY DEF Holding
<1>2. IsFiniteSet(Holding(t))
  BY <1>1, RequestsAssumption, FS_Subset
<1> QED
  BY <1>2, FS_CardinalityType

\* Saturating subtraction of naturals is a natural, at most the first one.
LEMMA MinusType ==
  ASSUME NEW a \in Nat, NEW b \in Int
  PROVE  Minus(a, b) \in Nat /\ (b >= 0 => Minus(a, b) <= a)
BY DEF Minus

\* Deleting lease rows keeps the table's type.
LEMMA RemoveLeasesType ==
  ASSUME TypeOK, NEW S \in SUBSET Tokens
  PROVE  RemoveLeasesOf(S) \in [Leases -> LeaseRow]
BY DEF RemoveLeasesOf, DeletedLease, TypeOK, LeaseRow

\* A deleted token's row has the type of a row.
LEMMA DeletedTokenType ==
  ASSUME TypeOK, NEW t \in Tokens
  PROVE  DeletedToken(t) \in TokenRow
BY DEF DeletedToken, TypeOK, TokenRow

-----------------------------------------------------------------------------
(* Type correctness and references, which need each other: a handler        *)
(* indexes the tables with its own token and lease.                         *)

LEMMA InitInv == Init => IInv
BY DEF Init, IInv, TypeOK, HandlersRefer, LeasesRefer, FreshTokens, TokenRow, LeaseRow,
       Handler, Ops, Points, Inserted

\* Administration and maintenance keep the types of both tables.
LEMMA TablesType ==
  ASSUME TypeOK, Administration \/ Passing
  PROVE  token' \in [Tokens -> TokenRow] /\ lease' \in [Leases -> LeaseRow]
<1> USE DEF TypeOK
<1>1. ASSUME NEW t \in Tokens, CreateTokenRead(t)
      PROVE  token' \in [Tokens -> TokenRow] /\ lease' \in [Leases -> LeaseRow]
  <2>1. token[t] \in TokenRow /\ cfg \in Auths \cup {Absent} /\ pub.count \in Nat
    OBVIOUS
  <2>2. [token[t] EXCEPT !.row = "draft", !.fp = cfg, !.epoch = pub.count] \in TokenRow
    BY <2>1 DEF TokenRow
  <2> QED BY <1>1, <2>2 DEF CreateTokenRead
<1>2. ASSUME NEW t \in Tokens, CreateTokenLimited(t)
      PROVE  token' \in [Tokens -> TokenRow] /\ lease' \in [Leases -> LeaseRow]
  BY <1>2 DEF CreateTokenLimited, TokenRow
<1>3. ASSUME NEW t \in Tokens, RevokeTokenAndLeases(t)
      PROVE  token' \in [Tokens -> TokenRow] /\ lease' \in [Leases -> LeaseRow]
  BY <1>3, RemoveLeasesType DEF RevokeTokenAndLeases, TokenRow
<1>4. ASSUME NEW t \in Tokens, DeleteTokenAndLeases(t)
      PROVE  token' \in [Tokens -> TokenRow] /\ lease' \in [Leases -> LeaseRow]
  BY <1>4, RemoveLeasesType, DeletedTokenType DEF DeleteTokenAndLeases
<1>5. ASSUME NEW next \in Auths \cup {Absent}, RevokeBeforePublish(next)
      PROVE  token' \in [Tokens -> TokenRow] /\ lease' \in [Leases -> LeaseRow]
  <2>1. \A t \in Tokens : [token[t] EXCEPT !.row = "revoked"] \in TokenRow
    BY DEF TokenRow
  <2>2. RemoveLeasesOf(Tokens) \in [Leases -> LeaseRow]
    BY RemoveLeasesType
  <2>3. CASE cfg = Absent
    BY <1>5, <2>3 DEF RevokeBeforePublish
  <2>4. CASE cfg # Absent
    <3>1. /\ token' = [t \in Tokens |->
                         IF HasRow(t) THEN [token[t] EXCEPT !.row = "revoked"] ELSE token[t]]
          /\ lease' = RemoveLeasesOf(Tokens)
      BY <1>5, <2>4 DEF RevokeBeforePublish
    <3> QED BY <3>1, <2>1, <2>2
  <2> QED BY <2>3, <2>4
<1>6. CASE Publish \/ PublishFails \/ \E t \in Tokens : TokenExpires(t)
  BY <1>6 DEF Publish, PublishFails, TokenExpires
<1>7. ASSUME NEW l \in Leases, LeaseExpires(l)
      PROVE  token' \in [Tokens -> TokenRow] /\ lease' \in [Leases -> LeaseRow]
  <2>1. lease[l] \in LeaseRow
    OBVIOUS
  <2>2. [lease[l] EXCEPT !.late = TRUE] \in LeaseRow
    BY <2>1 DEF LeaseRow
  <2> QED BY <1>7, <2>2 DEF LeaseExpires
<1>8. CASE DeleteExpiredTokens
  <2> DEFINE gone == {t \in timedOut : HasRow(t)}
  <2>1. RemoveLeasesOf(gone) \in [Leases -> LeaseRow]
    BY RemoveLeasesType
  <2> QED BY <1>8, <2>1, DeletedTokenType DEF DeleteExpiredTokens
<1>9. ASSUME NEW kind, DeleteExpiredLeases(kind)
      PROVE  token' \in [Tokens -> TokenRow] /\ lease' \in [Leases -> LeaseRow]
  <2>1. \A l \in Leases : DeletedLease(l) \in LeaseRow
    BY DEF DeletedLease, LeaseRow
  <2> QED BY <1>9, <2>1 DEF DeleteExpiredLeases
<1>10. CASE Crash
  <2>1. \A t \in Tokens : [token[t] EXCEPT !.leaked = @ + Cardinality(Holding(t))] \in TokenRow
    BY HoldingFinite DEF TokenRow
  <2>2. NoTokenRow \in TokenRow
    BY DEF TokenRow
  <2> QED BY <1>10, <2>1, <2>2 DEF Crash
<1> QED
  BY <1>1, <1>2, <1>3, <1>4, <1>5, <1>6, <1>7, <1>8, <1>9, <1>10 DEF Administration, Passing

\* Every handler step keeps the types of both tables.
LEMMA HandlingTablesType ==
  ASSUME IInv, NEW r \in Requests, Handling(r)
  PROVE  token' \in [Tokens -> TokenRow] /\ lease' \in [Leases -> LeaseRow]
<1> DEFINE Goal == token' \in [Tokens -> TokenRow] /\ lease' \in [Leases -> LeaseRow]
<1> DEFINE t == req[r].token
<1>0. /\ req[r].n \in Nat /\ req[r].got \in Nat
      /\ \A u \in Tokens : token[u] \in TokenRow
      /\ \A l \in Leases : lease[l] \in LeaseRow
      /\ token \in [Tokens -> TokenRow] /\ lease \in [Leases -> LeaseRow]
  BY DEF IInv, TypeOK, Handler
<1>1. /\ req[r].pc # "idle" => t \in Tokens
      /\ req[r].op = "raw" => req[r].lease \in Leases
  BY DEF IInv, HandlersRefer
<1>a. \A u \in Tokens : /\ token[u].uses \in Nat /\ token[u].bytes \in Nat
                         /\ token[u].spent \in Nat /\ token[u].stored \in Nat
  BY <1>0 DEF TokenRow
<1>2. CASE Quit(r) \/ CheckBeforeReserve(r) \/ CheckAfterReserve(r) \/ FailReserved(r)
             \/ AdmitDownloadLease(r)
  BY <1>0, <1>2 DEF Quit, CheckBeforeReserve, CheckAfterReserve, FailReserved, AdmitDownloadLease
<1>3. CASE ReserveUploadLease(r)
  <2>1. req[r].lease \in Leases
    BY <1>1, <1>3 DEF ReserveUploadLease
  <2>2. [lease[req[r].lease] EXCEPT !.row = "used"] \in LeaseRow
    BY <2>1, <1>0 DEF LeaseRow
  <2> QED BY <1>0, <1>3, <2>2 DEF ReserveUploadLease
<1>4. CASE ReserveTokenUse(r)
  <2>1. t \in Tokens
    BY <1>1, <1>4 DEF ReserveTokenUse
  <2>2. token[t].uses + 1 \in Nat /\ token[t].bytes + req[r].n \in Nat
    BY <2>1, <1>0, <1>a
  <2>3. Reserved(t, req[r].n) \in TokenRow
    BY <2>1, <2>2, <1>0 DEF Reserved, TokenRow
  <2> QED BY <1>0, <1>4, <2>3 DEF ReserveTokenUse
<1>5. ASSUME NEW l \in Leases, NEW kind \in {"download", "upload"}, NEW n \in Nat,
             NewLease(l, kind, t, n), req[r].pc # "idle"
      PROVE  lease' \in [Leases -> LeaseRow]
  <2>1. [NoLeaseRow EXCEPT !.row = "live", !.kind = kind, !.token = t, !.size = n] \in LeaseRow
    BY <1>1, <1>5 DEF LeaseRow
  <2> QED BY <1>0, <1>5, <2>1 DEF NewLease
<1>6. ASSUME NEW l \in Leases, CreateDownloadLeaseLimited(r, l) PROVE Goal
  <2>1. lease' \in [Leases -> LeaseRow]
    BY <1>5, <1>6 DEF CreateDownloadLeaseLimited
  <2>2. t \in Tokens
    BY <1>1, <1>6 DEF CreateDownloadLeaseLimited
  <2>3. [token[t] EXCEPT !.spent = @ + 1] \in TokenRow
    BY <2>2, <1>0 DEF TokenRow
  <2>4. token' \in [Tokens -> TokenRow]
    BY <1>0, <1>6, <2>3 DEF CreateDownloadLeaseLimited
  <2> QED BY <2>1, <2>4
<1>7. ASSUME NEW l \in Leases, CreateUploadLeaseLimited(r, l) PROVE Goal
  BY <1>0, <1>5, <1>7 DEF CreateUploadLeaseLimited
<1>8. ASSUME NEW got \in Sizes \cup {0}, CommitUpload(r, got) PROVE Goal
  <2>1. CASE req[r].op = "raw"
    <3>1. req[r].lease \in Leases
      BY <1>1, <2>1
    <3>2. [lease[req[r].lease] EXCEPT !.uploads = @ + 1] \in LeaseRow
      BY <3>1, <1>0 DEF LeaseRow
    <3> QED BY <1>0, <1>8, <2>1, <3>2 DEF CommitUpload
  <2> QED BY <1>0, <1>8, <2>1 DEF CommitUpload
<1>9. CASE AdjustTokenUploadedBytes(r)
  <2>1. t \in Tokens
    BY <1>1, <1>9 DEF AdjustTokenUploadedBytes
  <2>2. Minus(token[t].bytes, Unstored(req[r].n, req[r].got)) \in Nat
    BY <2>1, <1>0, <1>a DEF Minus, Unstored
  <2>3. token[t].spent + 1 \in Nat /\ token[t].stored + req[r].got \in Nat
    BY <2>1, <1>0, <1>a
  <2>4. Settled(t, req[r].n, req[r].got) \in TokenRow
    BY <2>1, <2>2, <2>3, <1>0 DEF Settled, TokenRow
  <2> QED BY <1>0, <1>9, <2>4 DEF AdjustTokenUploadedBytes
<1>10. CASE ReleaseTokenUse(r)
  <2>1. t \in Tokens
    BY <1>1, <1>10 DEF ReleaseTokenUse
  <2>2. Minus(token[t].bytes, req[r].n) \in Nat /\ Minus(token[t].uses, 1) \in Nat
    BY <2>1, <1>0, <1>a DEF Minus
  <2>3. Released(t, req[r].n) \in TokenRow
    BY <2>1, <2>2, <1>0, <1>a DEF Released, TokenRow
  <2> QED BY <1>0, <1>10, <2>3 DEF ReleaseTokenUse
<1>11. CASE ReservationLeaks(r)
  <2>1. t \in Tokens
    BY <1>1, <1>11 DEF ReservationLeaks
  <2>2. [token[t] EXCEPT !.leaked = @ + 1] \in TokenRow
    BY <2>1, <1>0, <1>a DEF TokenRow
  <2> QED BY <1>0, <1>11, <2>2 DEF ReservationLeaks
<1> QED
  BY <1>2, <1>3, <1>4, <1>6, <1>7, <1>8, <1>9, <1>10, <1>11 DEF Handling

\* The other variables keep their types too.
LEMMA OthersType ==
  ASSUME TypeOK, Next
  PROVE  /\ cfg' \in Auths \cup {Absent}
         /\ pub' \in [pc : {"idle", "revoked"}, next : Auths \cup {Absent}, count : Nat]
         /\ timedOut' \subseteq Tokens
         /\ crashes' \in Nat
         /\ DOMAIN leakedBytes' = Tokens
<1> DEFINE Goal == /\ cfg' \in Auths \cup {Absent}
                   /\ pub' \in [pc : {"idle", "revoked"}, next : Auths \cup {Absent}, count : Nat]
                   /\ timedOut' \subseteq Tokens
                   /\ crashes' \in Nat
                   /\ DOMAIN leakedBytes' = Tokens
<1> USE DEF TypeOK
<1>1. CASE Administration
  <2>1. ASSUME NEW next \in Auths \cup {Absent}, RevokeBeforePublish(next) PROVE Goal
    BY <2>1 DEF RevokeBeforePublish
  <2>2. CASE Publish
    BY <2>2 DEF Publish
  <2>3. CASE PublishFails
    BY <2>3 DEF PublishFails
  <2>4. ASSUME NEW t \in Tokens,
               \/ CreateTokenRead(t) \/ CreateTokenLimited(t)
               \/ RevokeTokenAndLeases(t) \/ DeleteTokenAndLeases(t)
        PROVE  Goal
    BY <2>4 DEF CreateTokenRead, CreateTokenLimited, RevokeTokenAndLeases,
                DeleteTokenAndLeases
  <2> QED BY <1>1, <2>1, <2>2, <2>3, <2>4 DEF Administration
<1>2. CASE Passing
  <2>1. CASE Crash
    <3>1. pub' \in [pc : {"idle", "revoked"}, next : Auths \cup {Absent}, count : Nat]
      <4>1. [pub EXCEPT !.pc = "idle", !.next = Absent]
              \in [pc : {"idle", "revoked"}, next : Auths \cup {Absent}, count : Nat]
        OBVIOUS
      <4>2. pub.count \in Nat
        OBVIOUS
      <4>3. [pc |-> "idle", next |-> Absent, count |-> pub.count + 1]
              \in [pc : {"idle", "revoked"}, next : Auths \cup {Absent}, count : Nat]
        BY <4>2
      <4> QED BY <2>1, <4>1, <4>3 DEF Crash
    <3>2. cfg' \in Auths \cup {Absent} /\ timedOut' \subseteq Tokens /\ crashes' \in Nat
      BY <2>1 DEF Crash
    <3>3. DOMAIN leakedBytes' = Tokens
      <4> HIDE DEF TypeOK
      <4> QED BY <2>1, Zenon DEF Crash
    <3> QED BY <3>1, <3>2, <3>3
  <2> QED BY <1>2, <2>1 DEF Passing, TokenExpires, LeaseExpires, DeleteExpiredTokens,
                            DeleteExpiredLeases
<1>3. ASSUME NEW r \in Requests, Starting(r) PROVE Goal
  BY <1>3 DEF Starting, BeginExchange, BeginMultipart, BeginMint, BeginRaw, BeginRedeem
<1>4. ASSUME NEW r \in Requests, Handling(r) PROVE Goal
  <2> HIDE DEF TypeOK
  <2>1. UNCHANGED <<cfg, pub, timedOut, crashes>>
    BY <1>4, Zenon DEF Handling, Quit, ReserveUploadLease, CheckBeforeReserve, ReserveTokenUse,
       CheckAfterReserve, FailReserved, CreateDownloadLeaseLimited, CreateUploadLeaseLimited,
       CommitUpload, AdjustTokenUploadedBytes, ReleaseTokenUse, ReservationLeaks,
       AdmitDownloadLease
  <2>2. UNCHANGED leakedBytes \/ ReservationLeaks(r)
    BY <1>4, Zenon DEF Handling, Quit, ReserveUploadLease, CheckBeforeReserve, ReserveTokenUse,
       CheckAfterReserve, FailReserved, CreateDownloadLeaseLimited, CreateUploadLeaseLimited,
       CommitUpload, AdjustTokenUploadedBytes, ReleaseTokenUse, AdmitDownloadLease
  <2>3. DOMAIN leakedBytes' = Tokens
    BY <2>2 DEF TypeOK, ReservationLeaks
  <2> QED BY <2>1, <2>3 DEF TypeOK
<1> QED BY <1>1, <1>2, <1>3, <1>4 DEF Next

\* A handler starts with a token that was inserted, and holds nothing yet.
LEMMA StartingHandler ==
  ASSUME IInv, NEW r \in Requests, Starting(r)
  PROVE  /\ UNCHANGED <<cfg, pub, token, timedOut, lease, crashes, leakedBytes>>
         /\ req[r].pc = "idle"
         /\ \E h \in Handler :
              /\ req' = [req EXCEPT ![r] = h]
              /\ h.pc = "looked" /\ h.token \in Tokens /\ Inserted(h.token)
              /\ h.op = "raw" => h.lease \in Leases
<1> DEFINE Goal == \E h \in Handler :
              /\ req' = [req EXCEPT ![r] = h]
              /\ h.pc = "looked" /\ h.token \in Tokens /\ Inserted(h.token)
              /\ h.op = "raw" => h.lease \in Leases
<1>1. /\ UNCHANGED <<cfg, pub, token, timedOut, lease, crashes, leakedBytes>>
      /\ req[r].pc = "idle"
  BY DEF Starting, BeginExchange, BeginMultipart, BeginMint, BeginRaw, BeginRedeem
<1>2. ASSUME NEW t \in Tokens, BeginExchange(r, t) PROVE Goal
  <2> DEFINE h == [NoHandler EXCEPT !.op = "exchange", !.pc = "looked", !.token = t]
  <2>1. h \in Handler /\ h.pc = "looked" /\ h.token = t /\ h.op # "raw"
    BY DEF Handler, Ops, Points
  <2> QED BY <1>2, <2>1 DEF BeginExchange, LookupPublicToken, Usable, Inserted
<1>3. ASSUME NEW t \in Tokens, NEW n \in Sizes, BeginMultipart(r, t, n) PROVE Goal
  <2> DEFINE h == [NoHandler EXCEPT !.op = "multipart", !.pc = "looked", !.token = t, !.n = n]
  <2>1. h \in Handler /\ h.pc = "looked" /\ h.token = t /\ h.op # "raw"
    BY LimitsAssumption DEF Handler, Ops, Points
  <2> QED BY <1>3, <2>1 DEF BeginMultipart, LookupPublicToken, Usable, Inserted
<1>4. ASSUME NEW t \in Tokens, NEW n \in Sizes, BeginMint(r, t, n) PROVE Goal
  <2> DEFINE h == [NoHandler EXCEPT !.op = "mint", !.pc = "looked", !.token = t, !.n = n]
  <2>1. h \in Handler /\ h.pc = "looked" /\ h.token = t /\ h.op # "raw"
    BY LimitsAssumption DEF Handler, Ops, Points
  <2> QED BY <1>4, <2>1 DEF BeginMint, LookupPublicToken, Usable, Inserted
<1>5. ASSUME NEW l \in Leases, Outstanding(l)
      PROVE  lease[l].token \in Tokens /\ Inserted(lease[l].token) /\ lease[l].size \in Nat
  BY <1>5 DEF Outstanding, IInv, LeasesRefer, TypeOK, LeaseRow
<1>6. ASSUME NEW l \in Leases, BeginRaw(r, l) PROVE Goal
  <2> DEFINE h == [NoHandler EXCEPT !.op = "raw", !.pc = "looked", !.token = lease[l].token,
                                    !.lease = l, !.n = lease[l].size]
  <2>1. Outstanding(l) /\ req' = [req EXCEPT ![r] = h]
    BY <1>6 DEF BeginRaw
  <2>2. h \in Handler /\ h.pc = "looked" /\ h.token = lease[l].token /\ h.lease = l
    BY <1>5, <2>1 DEF Handler, Ops, Points
  <2> QED BY <1>5, <2>1, <2>2
<1>7. ASSUME NEW l \in Leases, BeginRedeem(r, l) PROVE Goal
  <2> DEFINE h == [NoHandler EXCEPT !.op = "redeem", !.pc = "looked",
                                    !.token = lease[l].token, !.lease = l]
  <2>1. Outstanding(l) /\ req' = [req EXCEPT ![r] = h]
    BY <1>7 DEF BeginRedeem
  <2>2. h \in Handler /\ h.pc = "looked" /\ h.token = lease[l].token /\ h.lease = l
    BY <1>5, <2>1 DEF Handler, Ops, Points
  <2> QED BY <1>5, <2>1, <2>2
<1> QED
  BY <1>1, <1>2, <1>3, <1>4, <1>6, <1>7 DEF Starting

\* A handler's step takes it on with the same token, lease and size, or ends it.
LEMMA HandlingHandler ==
  ASSUME IInv, NEW r \in Requests, Handling(r)
  PROVE  /\ req[r].pc # "idle"
         /\ \E h \in Handler :
              /\ req' = [req EXCEPT ![r] = h]
              /\ \/ h = NoHandler
                 \/ /\ h.pc # "idle" /\ h.op = req[r].op /\ h.token = req[r].token
                    /\ h.lease = req[r].lease /\ h.n = req[r].n
                    /\ h.pc = "saved" => h.got <= h.n
<1> DEFINE Goal == \E h \in Handler :
              /\ req' = [req EXCEPT ![r] = h]
              /\ \/ h = NoHandler
                 \/ /\ h.pc # "idle" /\ h.op = req[r].op /\ h.token = req[r].token
                    /\ h.lease = req[r].lease /\ h.n = req[r].n
                    /\ h.pc = "saved" => h.got <= h.n
<1>0. req[r] \in Handler /\ NoHandler \in Handler
  BY DEF IInv, TypeOK, Handler, Ops, Points
<1>1. req[r].pc # "idle"
  BY DEF Handling, Quit, ReserveUploadLease, CheckBeforeReserve, ReserveTokenUse,
       CheckAfterReserve, FailReserved, CreateDownloadLeaseLimited, CreateUploadLeaseLimited,
       CommitUpload, AdjustTokenUploadedBytes, ReleaseTokenUse, ReservationLeaks,
       AdmitDownloadLease
<1>2. ASSUME Finish(r) PROVE Goal
  BY <1>2, <1>0
<1>3. ASSUME NEW point \in Points \ {"idle", "saved"}, Goto(r, point) PROVE Goal
  <2> DEFINE h == [req[r] EXCEPT !.pc = point]
  <2>1. h \in Handler
    BY <1>0 DEF Handler
  <2>2. /\ h.pc = point /\ h.op = req[r].op /\ h.token = req[r].token
        /\ h.lease = req[r].lease /\ h.n = req[r].n
    BY <1>0 DEF Handler
  <2>3. req' = [req EXCEPT ![r] = h]
    BY <1>3
  <2> QED BY <2>1, <2>2, <2>3
<1>4. ASSUME NEW got \in Sizes \cup {0}, CommitUpload(r, got) PROVE Goal
  <2> DEFINE h == [req[r] EXCEPT !.pc = "saved", !.got = got]
  <2>1. h \in Handler
    BY <1>0, LimitsAssumption DEF Handler, Points
  <2>2. /\ h.pc = "saved" /\ h.op = req[r].op /\ h.token = req[r].token
        /\ h.lease = req[r].lease /\ h.n = req[r].n /\ h.got = got
    BY <1>0 DEF Handler
  <2>3. req' = [req EXCEPT ![r] = h]
    BY <1>4 DEF CommitUpload
  <2>4. got <= req[r].n
    BY <1>0, <1>4, LimitsAssumption DEF CommitUpload, Handler
  <2> QED BY <2>1, <2>2, <2>3, <2>4
<1>5. \/ Finish(r)
      \/ \E point \in Points \ {"idle", "saved"} : Goto(r, point)
      \/ \E got \in Sizes \cup {0} : CommitUpload(r, got)
  <2> USE DEF Points
  <2>1. CASE ReserveUploadLease(r)
    BY <2>1 DEF ReserveUploadLease
  <2>2. CASE CheckBeforeReserve(r)
    BY <2>2 DEF CheckBeforeReserve
  <2>3. CASE ReserveTokenUse(r)
    BY <2>3 DEF ReserveTokenUse
  <2>4. CASE CheckAfterReserve(r)
    BY <2>4 DEF CheckAfterReserve
  <2>5. CASE FailReserved(r)
    BY <2>5 DEF FailReserved
  <2> QED
    BY <2>1, <2>2, <2>3, <2>4, <2>5 DEF Handling, Quit, CreateDownloadLeaseLimited,
       CreateUploadLeaseLimited, AdjustTokenUploadedBytes, ReleaseTokenUse, ReservationLeaks,
       AdmitDownloadLease
<1> QED BY <1>1, <1>2, <1>3, <1>4, <1>5

\* A handler accounts to the row of its own token, and neither inserts nor
\* revokes nor deletes one.
LEMMA HandlingRows ==
  ASSUME IInv, NEW r \in Requests, Handling(r)
  PROVE  \A u \in Tokens : /\ token'[u].row = token[u].row
                           /\ u # req[r].token => token'[u] = token[u]
<1> DEFINE t == req[r].token
<1> DEFINE Goal == \A u \in Tokens : /\ token'[u].row = token[u].row
                                     /\ u # t => token'[u] = token[u]
<1>0. /\ token \in [Tokens -> TokenRow] /\ \A u \in Tokens : token[u] \in TokenRow
      /\ req[r].pc # "idle" => t \in Tokens
  BY DEF IInv, TypeOK, HandlersRefer
<1>1. ASSUME NEW rec, rec.row = token[t].row, token' = [token EXCEPT ![t] = rec]
      PROVE  Goal
  BY <1>0, <1>1
<1>2. CASE ReserveTokenUse(r)
  <2>1. Reserved(t, req[r].n).row = token[t].row
    BY <1>0, <1>2 DEF ReserveTokenUse, Reserved, TokenRow
  <2> QED BY <1>1, <1>2, <2>1 DEF ReserveTokenUse
<1>3. ASSUME NEW l \in Leases, CreateDownloadLeaseLimited(r, l) PROVE Goal
  BY <1>0, <1>3 DEF CreateDownloadLeaseLimited, TokenRow
<1>4. CASE AdjustTokenUploadedBytes(r)
  <2>1. Settled(t, req[r].n, req[r].got).row = token[t].row
    BY <1>0, <1>4 DEF AdjustTokenUploadedBytes, Settled, TokenRow
  <2> QED BY <1>1, <1>4, <2>1 DEF AdjustTokenUploadedBytes
<1>5. CASE ReleaseTokenUse(r)
  <2>1. Released(t, req[r].n).row = token[t].row
    BY <1>0, <1>5 DEF ReleaseTokenUse, Released, TokenRow
  <2> QED BY <1>1, <1>5, <2>1 DEF ReleaseTokenUse
<1>6. CASE ReservationLeaks(r)
  BY <1>0, <1>6 DEF ReservationLeaks, TokenRow
<1>7. CASE UNCHANGED token
  BY <1>7
<1> QED
  BY <1>2, <1>3, <1>4, <1>5, <1>6, <1>7 DEF Handling, Quit, ReserveUploadLease,
     CheckBeforeReserve, CheckAfterReserve, FailReserved, CreateUploadLeaseLimited,
     CommitUpload, AdmitDownloadLease

\* A row that was inserted stays, at least as a deleted one.
LEMMA InsertedStays ==
  ASSUME IInv, Next
  PROVE  \A t \in Tokens : Inserted(t) => Inserted(t)'
<1> SUFFICES ASSUME NEW u \in Tokens, Inserted(u) PROVE Inserted(u)'
  OBVIOUS
<1> USE DEF Inserted
<1>0. token \in [Tokens -> TokenRow] /\ \A t \in Tokens : token[t] \in TokenRow
  BY DEF IInv, TypeOK
<1>1. CASE Administration
  <2>1. ASSUME NEW t \in Tokens, CreateTokenRead(t) PROVE Inserted(u)'
    BY <1>0, <2>1 DEF CreateTokenRead
  <2>2. ASSUME NEW t \in Tokens, CreateTokenLimited(t) PROVE Inserted(u)'
    BY <1>0, <2>2 DEF CreateTokenLimited
  <2>3. ASSUME NEW t \in Tokens, RevokeTokenAndLeases(t) PROVE Inserted(u)'
    BY <1>0, <2>3 DEF RevokeTokenAndLeases, TokenRow
  <2>4. ASSUME NEW t \in Tokens, DeleteTokenAndLeases(t) PROVE Inserted(u)'
    BY <1>0, <2>4 DEF DeleteTokenAndLeases, DeletedToken
  <2>5. ASSUME NEW next \in Auths \cup {Absent}, RevokeBeforePublish(next) PROVE Inserted(u)'
    BY <1>0, <2>5 DEF RevokeBeforePublish, TokenRow
  <2>6. CASE Publish \/ PublishFails
    BY <2>6 DEF Publish, PublishFails
  <2> QED BY <1>1, <2>1, <2>2, <2>3, <2>4, <2>5, <2>6 DEF Administration
<1>2. CASE Passing
  <2>1. CASE Crash
    BY <1>0, <2>1 DEF Crash, HasRow, TokenRow
  <2>2. CASE DeleteExpiredTokens
    BY <1>0, <2>2 DEF DeleteExpiredTokens, DeletedToken
  <2> QED BY <1>2, <2>1, <2>2 DEF Passing, TokenExpires, LeaseExpires, DeleteExpiredLeases
<1>3. ASSUME NEW r \in Requests, Starting(r) PROVE Inserted(u)'
  BY <1>3, StartingHandler
<1>4. ASSUME NEW r \in Requests, Handling(r) PROVE Inserted(u)'
  BY <1>0, <1>4, HandlingRows
<1> QED BY <1>1, <1>2, <1>3, <1>4 DEF Next

\* A lease keeps its token as long as it can be presented, and a new one is
\* that of the handler that inserts it.
LEMMA LeaseTokens ==
  ASSUME IInv, Next, NEW l \in Leases, lease'[l].row \in {"live", "used"}
  PROVE  \/ lease[l].row \in {"live", "used"} /\ lease'[l].token = lease[l].token
         \/ \E r \in Requests : req[r].pc # "idle" /\ lease'[l].token = req[r].token
<1> DEFINE Kept == lease[l].row \in {"live", "used"} /\ lease'[l].token = lease[l].token
<1>0. lease \in [Leases -> LeaseRow] /\ \A k \in Leases : lease[k] \in LeaseRow
  BY DEF IInv, TypeOK
<1>1. ASSUME UNCHANGED lease PROVE Kept
  BY <1>1
<1>2. ASSUME NEW S, lease' = RemoveLeasesOf(S) PROVE Kept
  BY <1>2 DEF RemoveLeasesOf, DeletedLease
<1>3. ASSUME NEW k \in Leases, LeaseExpires(k) PROVE Kept
  BY <1>0, <1>3 DEF LeaseExpires, LeaseRow
<1>4. ASSUME NEW kind, DeleteExpiredLeases(kind) PROVE Kept
  BY <1>0, <1>4 DEF DeleteExpiredLeases, DeletedLease
<1>5. ASSUME Administration PROVE Kept
  BY <1>1, <1>2, <1>5 DEF Administration, CreateTokenRead, CreateTokenLimited,
     RevokeTokenAndLeases, DeleteTokenAndLeases, RevokeBeforePublish, Publish, PublishFails
<1>6. ASSUME Passing PROVE Kept
  BY <1>1, <1>2, <1>3, <1>4, <1>6 DEF Passing, TokenExpires, DeleteExpiredTokens, Crash
<1>7. ASSUME NEW r \in Requests, Starting(r) PROVE Kept
  <2>1. UNCHANGED lease
    BY <1>7, StartingHandler, Zenon
  <2> QED BY <1>1, <2>1
<1>8. ASSUME NEW r \in Requests, Handling(r)
      PROVE  Kept \/ (req[r].pc # "idle" /\ lease'[l].token = req[r].token)
  <2>1. CASE ReserveUploadLease(r)
    BY <1>0, <2>1 DEF ReserveUploadLease, Outstanding, LeaseRow
  <2>2. ASSUME NEW got \in Sizes \cup {0}, CommitUpload(r, got) PROVE Kept
    BY <1>0, <2>2 DEF CommitUpload, LeaseRow
  <2>3. ASSUME NEW k \in Leases, NEW kind, NEW n, NewLease(k, kind, req[r].token, n)
        PROVE  Kept \/ lease'[l].token = req[r].token
    BY <1>0, <2>3 DEF NewLease
  <2>4. ASSUME NEW k \in Leases,
               CreateDownloadLeaseLimited(r, k) \/ CreateUploadLeaseLimited(r, k)
        PROVE  Kept \/ lease'[l].token = req[r].token
    BY <2>3, <2>4 DEF CreateDownloadLeaseLimited, CreateUploadLeaseLimited
  <2> QED
    BY <1>1, <1>8, <2>1, <2>2, <2>4, HandlingHandler DEF Handling, Quit, CheckBeforeReserve,
       ReserveTokenUse, CheckAfterReserve, FailReserved, AdjustTokenUploadedBytes,
       ReleaseTokenUse, ReservationLeaks, AdmitDownloadLease
<1> QED BY <1>5, <1>6, <1>7, <1>8 DEF Next

LEMMA ReferStep ==
  ASSUME IInv, Next
  PROVE  HandlersRefer' /\ LeasesRefer'
<1>1. LeasesRefer'
  BY LeaseTokens, InsertedStays DEF LeasesRefer, HandlersRefer, IInv
<1>2. ASSUME UNCHANGED req PROVE HandlersRefer'
  BY <1>2, InsertedStays DEF HandlersRefer, IInv
<1>3. ASSUME Administration \/ Passing PROVE HandlersRefer'
  <2>1. CASE Crash
    <3>1. \A r \in Requests : req'[r].pc = "idle" /\ req'[r].op = "none"
      BY <2>1 DEF Crash
    <3> QED BY <3>1 DEF HandlersRefer
  <2>2. Administration => UNCHANGED req
    BY DEF Administration, CreateTokenRead, CreateTokenLimited, RevokeTokenAndLeases,
       DeleteTokenAndLeases, RevokeBeforePublish, Publish, PublishFails
  <2>3. Passing => UNCHANGED req \/ Crash
    BY DEF Passing, TokenExpires, LeaseExpires, DeleteExpiredTokens, DeleteExpiredLeases
  <2> QED BY <1>2, <1>3, <2>1, <2>2, <2>3
<1>4. ASSUME NEW r \in Requests, NEW h, req' = [req EXCEPT ![r] = h],
             /\ h.pc # "idle" => h.token \in Tokens /\ Inserted(h.token)
             /\ h.op = "raw" => h.lease \in Leases
             /\ h.pc = "saved" => h.got <= h.n
      PROVE  HandlersRefer'
  BY <1>4, InsertedStays DEF HandlersRefer, IInv, TypeOK
<1>5. ASSUME NEW r \in Requests, Starting(r) PROVE HandlersRefer'
  BY <1>4, <1>5, StartingHandler
<1>6. ASSUME NEW r \in Requests, Handling(r) PROVE HandlersRefer'
  BY <1>4, <1>6, HandlingHandler DEF IInv, HandlersRefer
<1> QED BY <1>1, <1>3, <1>5, <1>6 DEF Next

\* Rows are inserted empty, and handlers account to inserted rows only.
LEMMA FreshStep ==
  ASSUME IInv, Next
  PROVE  FreshTokens'
<1> DEFINE Fresh(row) == row.uses = 0 /\ row.spent = 0 /\ row.leaked = 0
<1> SUFFICES ASSUME NEW u \in Tokens, ~Inserted(u)' PROVE Fresh(token'[u])
  BY DEF FreshTokens
<1>0. /\ token \in [Tokens -> TokenRow] /\ token[u] \in TokenRow
      /\ ~Inserted(u) /\ Fresh(token[u])
  BY InsertedStays DEF IInv, TypeOK, FreshTokens
<1>1. ASSUME UNCHANGED token PROVE Fresh(token'[u])
  BY <1>0, <1>1
<1>2. CASE Administration
  <2>1. ASSUME NEW t \in Tokens, CreateTokenRead(t) PROVE Fresh(token'[u])
    <3>1. CASE t = u
      BY <1>0, <2>1, <3>1 DEF CreateTokenRead, TokenRow
    <3>2. CASE t # u
      BY <1>0, <2>1, <3>2 DEF CreateTokenRead
    <3> QED BY <3>1, <3>2
  <2>2. ASSUME NEW t \in Tokens, CreateTokenLimited(t) PROVE Fresh(token'[u])
    BY <1>0, <2>2 DEF CreateTokenLimited, TokenRow
  <2>3. ASSUME NEW t \in Tokens, RevokeTokenAndLeases(t) PROVE Fresh(token'[u])
    BY <1>0, <2>3 DEF RevokeTokenAndLeases, TokenRow
  <2>4. ASSUME NEW t \in Tokens, DeleteTokenAndLeases(t) PROVE Fresh(token'[u])
    BY <1>0, <2>4 DEF DeleteTokenAndLeases, DeletedToken
  <2>5. ASSUME NEW next \in Auths \cup {Absent}, RevokeBeforePublish(next)
        PROVE  Fresh(token'[u])
    BY <1>0, <2>5 DEF RevokeBeforePublish, HasRow, Inserted
  <2>6. CASE Publish \/ PublishFails
    BY <1>1, <2>6 DEF Publish, PublishFails
  <2> QED BY <1>2, <2>1, <2>2, <2>3, <2>4, <2>5, <2>6 DEF Administration
<1>3. CASE Passing
  <2>1. CASE Crash
    BY <1>0, <2>1 DEF Crash, HasRow, Inserted
  <2>2. CASE DeleteExpiredTokens
    BY <1>0, <2>2 DEF DeleteExpiredTokens, HasRow, Inserted
  <2> QED BY <1>1, <1>3, <2>1, <2>2 DEF Passing, TokenExpires, LeaseExpires, DeleteExpiredLeases
<1>4. ASSUME NEW r \in Requests, Starting(r) PROVE Fresh(token'[u])
  BY <1>1, <1>4, StartingHandler
<1>5. ASSUME NEW r \in Requests, Handling(r) PROVE Fresh(token'[u])
  <2>1. u # req[r].token
    BY <1>0, <1>5, HandlingHandler DEF IInv, HandlersRefer
  <2> QED BY <1>0, <1>5, <2>1, HandlingRows
<1> QED BY <1>2, <1>3, <1>4, <1>5 DEF Next

\* A step keeps the inductive invariant.
LEMMA TypeStep ==
  ASSUME IInv, Next
  PROVE  TypeOK'
<1>1. token' \in [Tokens -> TokenRow] /\ lease' \in [Leases -> LeaseRow]
  <2>1. ASSUME NEW r \in Requests, Starting(r)
        PROVE  token' \in [Tokens -> TokenRow] /\ lease' \in [Leases -> LeaseRow]
    BY <2>1, StartingHandler DEF IInv, TypeOK
  <2> QED BY <2>1, TablesType, HandlingTablesType DEF IInv, Next
<1>2. req' \in [Requests -> Handler]
  <2>1. ASSUME NEW r \in Requests, Starting(r) \/ Handling(r)
        PROVE  req' \in [Requests -> Handler]
    BY <2>1, StartingHandler, HandlingHandler DEF IInv, TypeOK
  <2>2. CASE Crash
    <3>1. req' = [r \in Requests |-> NoHandler] /\ NoHandler \in Handler
      BY <2>2 DEF Crash, Handler, Ops, Points
    <3> QED BY <3>1
  <2>3. Administration => UNCHANGED req
    BY DEF Administration, CreateTokenRead, CreateTokenLimited, RevokeTokenAndLeases,
       DeleteTokenAndLeases, RevokeBeforePublish, Publish, PublishFails
  <2>4. Passing => UNCHANGED req \/ Crash
    BY DEF Passing, TokenExpires, LeaseExpires, DeleteExpiredTokens, DeleteExpiredLeases
  <2> QED BY <2>1, <2>2, <2>3, <2>4 DEF Next, IInv, TypeOK
<1>3. TypeOK => /\ cfg' \in Auths \cup {Absent}
                /\ pub' \in [pc : {"idle", "revoked"}, next : Auths \cup {Absent}, count : Nat]
                /\ timedOut' \subseteq Tokens
                /\ crashes' \in Nat
                /\ DOMAIN leakedBytes' = Tokens
  BY OthersType
<1> QED BY <1>1, <1>2, <1>3 DEF IInv, TypeOK

LEMMA Invariance == Spec => []IInv
<1>1. IInv /\ Next => IInv'
  BY TypeStep, ReferStep, FreshStep DEF IInv
<1>2. IInv /\ UNCHANGED vars => IInv'
  BY DEF IInv, TypeOK, HandlersRefer, LeasesRefer, FreshTokens, Inserted, vars
<1> QED BY <1>1, <1>2, InitInv, PTL DEF Spec

\* The tables, the handlers and the configuration keep their types: no handler
\* ever uses a token or a lease that was not inserted, and no column of a
\* token's accounting becomes negative.
THEOREM TypeCorrect == Spec => []TypeOK
<1>1. IInv => TypeOK
  BY DEF IInv
<1> QED BY <1>1, Invariance, PTL

-----------------------------------------------------------------------------
(* The accounting of uses.                                                  *)

\* A handler's step changes the reservations of its own token only, and only
\* when it enters or leaves the points at which it holds one.
LEMMA HoldingSame ==
  ASSUME IInv, NEW r \in Requests, NEW h, req' = [req EXCEPT ![r] = h], NEW u,
         (h.pc \in HoldingPoints /\ h.token = u)
           <=> (req[r].pc \in HoldingPoints /\ req[r].token = u)
  PROVE  Holding(u)' = Holding(u)
BY DEF Holding, IInv, TypeOK

LEMMA HoldingGrows ==
  ASSUME IInv, NEW r \in Requests, NEW h, req' = [req EXCEPT ![r] = h],
         req[r].pc \notin HoldingPoints, h.pc \in HoldingPoints
  PROVE  Cardinality(Holding(h.token))' = Cardinality(Holding(h.token)) + 1
<1>1. Holding(h.token)' = Holding(h.token) \cup {r} /\ r \notin Holding(h.token)
  BY DEF Holding, IInv, TypeOK
<1> QED
  BY <1>1, HoldingFinite, FS_AddElement

LEMMA HoldingShrinks ==
  ASSUME IInv, NEW r \in Requests, NEW h, req' = [req EXCEPT ![r] = h],
         req[r].pc \in HoldingPoints, h.pc \notin HoldingPoints, NEW t, t = req[r].token
  PROVE  Cardinality(Holding(t))' = Cardinality(Holding(t)) - 1 /\ Cardinality(Holding(t)) >= 1
<1>1. Holding(t)' = Holding(t) \ {r} /\ r \in Holding(t)
  BY DEF Holding, IInv, TypeOK
<1>2. Cardinality(Holding(t)') = Cardinality(Holding(t)) - 1
  <2>1. IsFiniteSet(Holding(t))
    BY HoldingFinite
  <2> QED BY <1>1, <2>1, FS_RemoveElement
<1>3. IsFiniteSet(Holding(t)') /\ Cardinality(Holding(t)') \in Nat
  BY <1>1, HoldingFinite, FS_Subset, FS_CardinalityType
<1> QED
  BY <1>2, <1>3, HoldingFinite

\* A handler's step keeps the count of uses exact.
LEMMA HandlingUses ==
  ASSUME IInv, UsesExact, NEW r \in Requests, Handling(r)
  PROVE  UsesExact'
<1> DEFINE t == req[r].token
<1> DEFINE Exact(u) == token'[u].uses
                         = Cardinality(Holding(u))' + token'[u].spent + token'[u].leaked
<1> SUFFICES ASSUME NEW u \in Tokens, HasRow(u)' PROVE Exact(u)
  BY DEF UsesExact
<1>0. /\ token \in [Tokens -> TokenRow] /\ token[u] \in TokenRow
      /\ HasRow(u) /\ req[r].pc # "idle" /\ t \in Tokens
      /\ req \in [Requests -> Handler] /\ req[r] \in Handler
  BY HandlingRows, HandlingHandler DEF IInv, TypeOK, HandlersRefer, HasRow
<1>1. /\ token[u].uses = Cardinality(Holding(u)) + token[u].spent + token[u].leaked
      /\ token[u].uses \in Nat /\ token[u].spent \in Nat /\ token[u].leaked \in Nat
      /\ Cardinality(Holding(u)) \in Nat
  BY <1>0, HoldingFinite DEF UsesExact, TokenRow
<1>2. CASE u # t
  <2>1. PICK h \in Handler : /\ req' = [req EXCEPT ![r] = h]
                             /\ h = NoHandler \/ h.token = t
    BY HandlingHandler
  <2>2. (h.pc \in HoldingPoints /\ h.token = u) <=> (req[r].pc \in HoldingPoints /\ t = u)
    BY <1>2, <2>1 DEF HoldingPoints
  <2>3. Holding(u)' = Holding(u)
    BY <2>1, <2>2, HoldingSame
  <2> QED BY <1>1, <1>2, <2>3, HandlingRows
<1>3. ASSUME u = t, UNCHANGED token, NEW h, req' = [req EXCEPT ![r] = h],
             h.pc \in HoldingPoints <=> req[r].pc \in HoldingPoints,
             h.pc \in HoldingPoints => h.token = t
      PROVE  Exact(u)
  BY <1>1, <1>3, HoldingSame
<1>4. ASSUME u = t, UNCHANGED token, NEW point, Goto(r, point),
             point \in HoldingPoints <=> req[r].pc \in HoldingPoints
      PROVE  Exact(u)
  <2> DEFINE h == [req[r] EXCEPT !.pc = point]
  <2>1. h.pc = point /\ h.token = t
    BY <1>0 DEF Handler
  <2>2. req' = [req EXCEPT ![r] = h]
    BY <1>4
  <2> QED BY <1>3, <1>4, <2>1, <2>2
<1>5. ASSUME u = t, UNCHANGED token, Finish(r), req[r].pc \notin HoldingPoints
      PROVE  Exact(u)
  BY <1>3, <1>5 DEF HoldingPoints
<1>6. ASSUME u = t, Finish(r), req[r].pc \in HoldingPoints
      PROVE  /\ Cardinality(Holding(u))' = Cardinality(Holding(u)) - 1
             /\ Cardinality(Holding(u)) >= 1
  BY <1>6, HoldingShrinks DEF HoldingPoints
<1> USE DEF HoldingPoints
<1>7. CASE u = t /\ (Quit(r) \/ AdmitDownloadLease(r))
  BY <1>5, <1>7 DEF Quit, AdmitDownloadLease
<1>8. CASE u = t /\ (ReserveUploadLease(r) \/ CheckBeforeReserve(r))
  BY <1>4, <1>8 DEF ReserveUploadLease, CheckBeforeReserve
<1>9. CASE u = t /\ (CheckAfterReserve(r) \/ FailReserved(r))
  BY <1>4, <1>9 DEF CheckAfterReserve, FailReserved
<1>10. CASE u = t /\ \E got \in Sizes \cup {0} : CommitUpload(r, got)
  <2>1. PICK got \in Sizes \cup {0} : CommitUpload(r, got)
    BY <1>10
  <2> DEFINE h == [req[r] EXCEPT !.pc = "saved", !.got = got]
  <2>2. h.pc = "saved" /\ h.token = t
    BY <1>0 DEF Handler
  <2>3. req' = [req EXCEPT ![r] = h] /\ UNCHANGED token /\ req[r].pc = "checked"
    BY <2>1 DEF CommitUpload
  <2> QED BY <1>3, <1>10, <2>2, <2>3
<1>11. CASE u = t /\ \E l \in Leases : CreateUploadLeaseLimited(r, l)
  BY <1>5, <1>11 DEF CreateUploadLeaseLimited
<1>12. CASE u = t /\ ReserveTokenUse(r)
  <2> DEFINE h == [req[r] EXCEPT !.pc = "reserved"]
  <2>1. h.pc = "reserved" /\ h.token = t
    BY <1>0 DEF Handler
  <2>2. req' = [req EXCEPT ![r] = h] /\ req[r].pc \in {"looked", "ready"}
    BY <1>12 DEF ReserveTokenUse
  <2>3. Cardinality(Holding(u))' = Cardinality(Holding(u)) + 1
    BY <1>12, <2>1, <2>2, HoldingGrows
  <2>4. token'[u] = Reserved(u, req[r].n)
    BY <1>0, <1>12 DEF ReserveTokenUse
  <2>5. /\ Reserved(u, req[r].n).uses = token[u].uses + 1
        /\ Reserved(u, req[r].n).spent = token[u].spent
        /\ Reserved(u, req[r].n).leaked = token[u].leaked
    BY <1>0 DEF Reserved, TokenRow
  <2> QED BY <1>1, <2>3, <2>4, <2>5
<1>13. CASE u = t /\ \E l \in Leases : CreateDownloadLeaseLimited(r, l)
  <2>1. Finish(r) /\ req[r].pc = "checked" /\ token' = [token EXCEPT ![u].spent = @ + 1]
    BY <1>0, <1>13 DEF CreateDownloadLeaseLimited
  <2>2. /\ token'[u].uses = token[u].uses /\ token'[u].leaked = token[u].leaked
        /\ token'[u].spent = token[u].spent + 1
    BY <1>0, <2>1 DEF TokenRow
  <2>3. Cardinality(Holding(u))' = Cardinality(Holding(u)) - 1
    BY <1>6, <1>13, <2>1
  <2> QED BY <1>1, <2>2, <2>3
<1>14. CASE u = t /\ AdjustTokenUploadedBytes(r)
  <2>1. Finish(r) /\ req[r].pc = "saved" /\ token'[u] = Settled(u, req[r].n, req[r].got)
    BY <1>0, <1>14 DEF AdjustTokenUploadedBytes
  <2>2. /\ Settled(u, req[r].n, req[r].got).uses = token[u].uses
        /\ Settled(u, req[r].n, req[r].got).leaked = token[u].leaked
        /\ Settled(u, req[r].n, req[r].got).spent = token[u].spent + 1
    BY <1>0 DEF Settled, TokenRow
  <2>3. Cardinality(Holding(u))' = Cardinality(Holding(u)) - 1
    BY <1>6, <1>14, <2>1
  <2> QED BY <1>1, <2>1, <2>2, <2>3
<1>15. CASE u = t /\ ReleaseTokenUse(r)
  <2>1. Finish(r) /\ req[r].pc = "releasing" /\ token'[u] = Released(u, req[r].n)
    BY <1>0, <1>15 DEF ReleaseTokenUse
  <2>2. /\ Released(u, req[r].n).uses = Minus(token[u].uses, 1)
        /\ Released(u, req[r].n).leaked = token[u].leaked
        /\ Released(u, req[r].n).spent = token[u].spent
    BY <1>0 DEF Released, TokenRow
  <2>3. /\ Cardinality(Holding(u))' = Cardinality(Holding(u)) - 1
        /\ Cardinality(Holding(u)) >= 1
    BY <1>6, <1>15, <2>1
  <2>4. Minus(token[u].uses, 1) = token[u].uses - 1
    BY <1>1, <2>3 DEF Minus
  <2> QED BY <1>1, <2>1, <2>2, <2>3, <2>4
<1>16. CASE u = t /\ ReservationLeaks(r)
  <2>1. /\ Finish(r) /\ req[r].pc \in {"reserved", "releasing"}
        /\ token' = [token EXCEPT ![u].leaked = @ + 1]
    BY <1>0, <1>16 DEF ReservationLeaks
  <2>2. /\ token'[u].uses = token[u].uses /\ token'[u].spent = token[u].spent
        /\ token'[u].leaked = token[u].leaked + 1
    BY <1>0, <2>1 DEF TokenRow
  <2>3. Cardinality(Holding(u))' = Cardinality(Holding(u)) - 1
    BY <1>6, <1>16, <2>1
  <2> QED BY <1>1, <2>2, <2>3
<1> QED
  BY <1>2, <1>7, <1>8, <1>9, <1>10, <1>11, <1>12, <1>13, <1>14, <1>15, <1>16 DEF Handling

\* A step that leaves the handlers alone keeps every reservation.
LEMMA HoldingStays ==
  ASSUME UNCHANGED req
  PROVE  \A u : Holding(u)' = Holding(u)
BY DEF Holding

\* Steps that leave the handlers alone account to no row; a row is inserted
\* when nothing holds a use of it, and a crash leaks what was held.
LEMMA OtherUses ==
  ASSUME IInv, UsesExact, Administration \/ Passing \/ \E r \in Requests : Starting(r)
  PROVE  UsesExact'
<1> DEFINE Exact(u) == token'[u].uses
                         = Cardinality(Holding(u))' + token'[u].spent + token'[u].leaked
<1> SUFFICES ASSUME NEW u \in Tokens, HasRow(u)' PROVE Exact(u)
  BY DEF UsesExact
<1>0. /\ token \in [Tokens -> TokenRow] /\ token[u] \in TokenRow
      /\ Cardinality(Holding(u)) \in Nat
      /\ token[u].uses \in Nat /\ token[u].spent \in Nat /\ token[u].leaked \in Nat
  BY HoldingFinite DEF IInv, TypeOK, TokenRow
<1>1. ASSUME HasRow(u), Holding(u)' = Holding(u), token'[u].uses = token[u].uses,
             token'[u].spent = token[u].spent, token'[u].leaked = token[u].leaked
      PROVE  Exact(u)
  BY <1>1 DEF UsesExact
<1>2. ASSUME UNCHANGED <<token, req>> PROVE Exact(u)
  BY <1>1, <1>2, HoldingStays DEF HasRow
<1>3. CASE Administration
  <2>0. UNCHANGED req
    BY <1>3 DEF Administration, CreateTokenRead, CreateTokenLimited, RevokeTokenAndLeases,
       DeleteTokenAndLeases, RevokeBeforePublish, Publish, PublishFails
  <2>1. ASSUME NEW t \in Tokens, CreateTokenRead(t) PROVE Exact(u)
    <3>1. t # u /\ token'[u] = token[u]
      BY <1>0, <2>1 DEF CreateTokenRead, HasRow, TokenRow
    <3> QED BY <1>1, <2>0, <3>1, HoldingStays DEF HasRow
  <2>2. ASSUME NEW t \in Tokens, CreateTokenLimited(t) PROVE Exact(u)
    <3>1. CASE t = u
      <4>1. ~Inserted(u) /\ token' = [token EXCEPT ![u].row = "live"]
        BY <2>2, <3>1 DEF CreateTokenLimited, Inserted
      <4>2. /\ token'[u].uses = 0 /\ token'[u].spent = 0 /\ token'[u].leaked = 0
        BY <1>0, <4>1 DEF IInv, FreshTokens, TokenRow
      <4>3. Holding(u) = {}
        BY <4>1 DEF Holding, HoldingPoints, IInv, HandlersRefer
      <4> QED BY <2>0, <4>2, <4>3, HoldingStays, FS_EmptySet
    <3>2. CASE t # u
      <4>1. token'[u] = token[u]
        BY <1>0, <2>2, <3>2 DEF CreateTokenLimited
      <4> QED BY <1>1, <2>0, <4>1, HoldingStays DEF HasRow
    <3> QED BY <3>1, <3>2
  <2>3. ASSUME NEW t \in Tokens, RevokeTokenAndLeases(t) PROVE Exact(u)
    <3>1. /\ HasRow(u) /\ token'[u].uses = token[u].uses
          /\ token'[u].spent = token[u].spent /\ token'[u].leaked = token[u].leaked
      BY <1>0, <2>3 DEF RevokeTokenAndLeases, HasRow, TokenRow
    <3> QED BY <1>1, <2>0, <3>1, HoldingStays
  <2>4. ASSUME NEW t \in Tokens, DeleteTokenAndLeases(t) PROVE Exact(u)
    <3>1. t # u /\ token'[u] = token[u]
      BY <1>0, <2>4 DEF DeleteTokenAndLeases, DeletedToken, HasRow
    <3> QED BY <1>1, <2>0, <3>1, HoldingStays DEF HasRow
  <2>5. ASSUME NEW next \in Auths \cup {Absent}, RevokeBeforePublish(next) PROVE Exact(u)
    <3>1. \/ UNCHANGED token
          \/ token'[u] = IF HasRow(u) THEN [token[u] EXCEPT !.row = "revoked"] ELSE token[u]
      BY <2>5 DEF RevokeBeforePublish
    <3>2. /\ HasRow(u) /\ token'[u].uses = token[u].uses
          /\ token'[u].spent = token[u].spent /\ token'[u].leaked = token[u].leaked
      BY <1>0, <3>1 DEF HasRow, TokenRow
    <3> QED BY <1>1, <2>0, <3>2, HoldingStays
  <2>6. CASE Publish \/ PublishFails
    BY <1>2, <2>6 DEF Publish, PublishFails
  <2> HIDE DEF Exact
  <2> QED BY <1>3, <2>1, <2>2, <2>3, <2>4, <2>5, <2>6, Zenon DEF Administration
<1>4. CASE Passing
  <2>1. CASE Crash
    <3>1. token'[u] = CASE token[u].row = "draft" -> NoTokenRow
                        [] HasRow(u) -> [token[u] EXCEPT !.leaked = @ + Cardinality(Holding(u))]
                        [] OTHER -> token[u]
      BY <2>1 DEF Crash
    <3>2. HasRow(u)
      BY <3>1 DEF HasRow
    <3>3. /\ token'[u].uses = token[u].uses /\ token'[u].spent = token[u].spent
          /\ token'[u].leaked = token[u].leaked + Cardinality(Holding(u))
      BY <1>0, <3>1, <3>2 DEF HasRow, TokenRow
    <3>4. Holding(u)' = {}
      BY <2>1 DEF Crash, Holding, HoldingPoints
    <3>5. token[u].uses = Cardinality(Holding(u)) + token[u].spent + token[u].leaked
      BY <3>2 DEF UsesExact
    <3>6. Cardinality(Holding(u))' = 0
      BY <3>4, FS_EmptySet
    <3> QED BY <1>0, <3>3, <3>5, <3>6
  <2>2. CASE DeleteExpiredTokens
    <3>1. UNCHANGED req /\ (token'[u] = DeletedToken(u) \/ token'[u] = token[u])
      BY <2>2 DEF DeleteExpiredTokens
    <3>2. token'[u] = token[u]
      BY <3>1 DEF DeletedToken, HasRow
    <3> QED BY <1>1, <3>1, <3>2, HoldingStays DEF HasRow
  <2> QED BY <1>2, <1>4, <2>1, <2>2 DEF Passing, TokenExpires, LeaseExpires, DeleteExpiredLeases
<1>5. ASSUME NEW r \in Requests, Starting(r) PROVE Exact(u)
  <2>1. PICK h \in Handler : req' = [req EXCEPT ![r] = h] /\ h.pc = "looked"
    BY <1>5, StartingHandler
  <2>2. UNCHANGED token /\ req[r].pc = "idle"
    BY <1>5, StartingHandler
  <2>3. Holding(u)' = Holding(u)
    BY <2>1, <2>2, HoldingSame DEF HoldingPoints
  <2> QED BY <1>1, <2>2, <2>3 DEF HasRow
<1> QED BY <1>3, <1>4, <1>5

LEMMA UsesStep ==
  ASSUME IInv, UsesExact, Next
  PROVE  UsesExact'
BY HandlingUses, OtherUses DEF Next

\* The column uses of every token always counts exactly the reservations that
\* running requests hold, the exchanges and uploads acknowledged, and the
\* reservations leaked by a crash or a failed release: a rollback never gives
\* back a use that its own request did not take.
THEOREM UsesAreExact == Spec => []UsesExact
<1>1. Init => UsesExact
  BY DEF Init, UsesExact, HasRow
<1>2. IInv /\ UsesExact /\ UNCHANGED vars => UsesExact'
  BY HoldingStays DEF UsesExact, HasRow, vars
<1>3. IInv /\ UsesExact /\ Next => UsesExact'
  BY UsesStep
<1> QED BY <1>1, <1>2, <1>3, Invariance, PTL DEF Spec

-----------------------------------------------------------------------------
(* The limits of a token.                                                   *)

\* Only a reservation raises a column, and it checks the limit in the same
\* statement; a settled upload gives back no less than nothing, since no file
\* is larger than what was declared.
LEMMA LimitsStep ==
  ASSUME IInv, WithinLimits, Next
  PROVE  WithinLimits'
<1> DEFINE Within(row) == /\ MaxUses > 0 => row.uses <= MaxUses
                          /\ Quota > 0 => row.bytes <= Quota
<1> SUFFICES ASSUME NEW u \in Tokens PROVE Within(token'[u])
  BY DEF WithinLimits
<1>0. /\ token \in [Tokens -> TokenRow] /\ token[u] \in TokenRow
      /\ Within(token[u]) /\ token[u].uses \in Nat /\ token[u].bytes \in Nat
      /\ MaxUses \in Nat /\ Quota \in Nat
  BY LimitsAssumption DEF IInv, TypeOK, TokenRow, WithinLimits
<1>1. ASSUME token'[u].uses = token[u].uses, token'[u].bytes = token[u].bytes
      PROVE  Within(token'[u])
  BY <1>0, <1>1
<1>2. ASSUME token'[u].uses = 0, token'[u].bytes = 0 PROVE Within(token'[u])
  BY <1>0, <1>2
<1>3. CASE Administration
  <2>1. ASSUME NEW t \in Tokens,
               CreateTokenRead(t) \/ CreateTokenLimited(t) \/ RevokeTokenAndLeases(t)
        PROVE  Within(token'[u])
    <3>1. t # u => token'[u] = token[u]
      BY <1>0, <2>1 DEF CreateTokenRead, CreateTokenLimited, RevokeTokenAndLeases
    <3>2. CASE t = u /\ CreateTokenRead(t)
      <4>1. token'[u].uses = token[u].uses /\ token'[u].bytes = token[u].bytes
        BY <1>0, <3>2 DEF CreateTokenRead, TokenRow
      <4> QED BY <4>1, <1>1
    <3>3. CASE t = u /\ (CreateTokenLimited(t) \/ RevokeTokenAndLeases(t))
      <4>1. token'[u].uses = token[u].uses /\ token'[u].bytes = token[u].bytes
        BY <1>0, <3>3 DEF CreateTokenLimited, RevokeTokenAndLeases, TokenRow
      <4> QED BY <4>1, <1>1
    <3> QED BY <1>1, <2>1, <3>1, <3>2, <3>3
  <2>2. ASSUME NEW t \in Tokens, DeleteTokenAndLeases(t) PROVE Within(token'[u])
    BY <1>0, <1>1, <1>2, <2>2 DEF DeleteTokenAndLeases, DeletedToken
  <2>3. ASSUME NEW next \in Auths \cup {Absent}, RevokeBeforePublish(next)
        PROVE  Within(token'[u])
    <3>1. \/ UNCHANGED token
          \/ token'[u] = IF HasRow(u) THEN [token[u] EXCEPT !.row = "revoked"] ELSE token[u]
      BY <2>3 DEF RevokeBeforePublish
    <3>2. token'[u].uses = token[u].uses /\ token'[u].bytes = token[u].bytes
      BY <1>0, <3>1 DEF TokenRow
    <3> QED BY <3>2, <1>1
  <2> QED BY <1>1, <1>3, <2>1, <2>2, <2>3 DEF Administration, Publish, PublishFails
<1>4. CASE Passing
  <2>1. CASE Crash
    <3>1. token'[u] = CASE token[u].row = "draft" -> NoTokenRow
                        [] HasRow(u) -> [token[u] EXCEPT !.leaked = @ + Cardinality(Holding(u))]
                        [] OTHER -> token[u]
      BY <2>1 DEF Crash
    <3>2. CASE token[u].row = "draft"
      BY <1>2, <3>1, <3>2 DEF HasRow
    <3>3. CASE token[u].row # "draft"
      <4>1. token'[u].uses = token[u].uses /\ token'[u].bytes = token[u].bytes
        BY <1>0, <3>1, <3>3 DEF TokenRow, HasRow
      <4> QED BY <4>1, <1>1
    <3> QED BY <3>2, <3>3
  <2>2. CASE DeleteExpiredTokens
    BY <1>0, <1>1, <1>2, <2>2 DEF DeleteExpiredTokens, DeletedToken
  <2> QED
    BY <1>1, <1>4, <2>1, <2>2 DEF Passing, TokenExpires, LeaseExpires, DeleteExpiredLeases
<1>5. ASSUME NEW r \in Requests, Starting(r) PROVE Within(token'[u])
  BY <1>1, <1>5, StartingHandler
<1>6. ASSUME NEW r \in Requests, Handling(r) PROVE Within(token'[u])
  <2> DEFINE n == req[r].n
  <2>0. req[r] \in Handler /\ n \in Nat /\ req[r].got \in Nat
    BY DEF IInv, TypeOK, Handler
  <2>1. CASE u # req[r].token
    BY <1>1, <1>6, <2>1, HandlingRows
  <2>2. CASE u = req[r].token /\ ReserveTokenUse(r)
    <3>1. /\ token'[u] = Reserved(u, n) /\ Usable(u)
          /\ Quota = 0 \/ token[u].bytes + n <= Quota
      BY <1>0, <2>2 DEF ReserveTokenUse
    <3>2. /\ Reserved(u, n).uses = token[u].uses + 1
          /\ Reserved(u, n).bytes = token[u].bytes + n
      BY <1>0 DEF Reserved, TokenRow
    <3> QED BY <1>0, <2>0, <3>1, <3>2 DEF Usable
  <2>3. CASE u = req[r].token /\ AdjustTokenUploadedBytes(r)
    <3>1. \/ token'[u] = token[u]
          \/ token'[u] = Settled(u, n, req[r].got)
      BY <1>0, <2>3 DEF AdjustTokenUploadedBytes
    <3>2. /\ Settled(u, n, req[r].got).uses = token[u].uses
          /\ Settled(u, n, req[r].got).bytes = Minus(token[u].bytes, n - req[r].got)
      BY <1>0 DEF Settled, Unstored, TokenRow
    <3>3. n - req[r].got >= 0
      BY <2>0, <2>3 DEF AdjustTokenUploadedBytes, IInv, HandlersRefer
    <3>4. Minus(token[u].bytes, n - req[r].got) <= token[u].bytes
      BY <1>0, <2>0, <3>3 DEF Minus
    <3>5. Minus(token[u].bytes, n - req[r].got) \in Nat
      BY <1>0, <2>0 DEF Minus
    <3> QED BY <1>0, <3>1, <3>2, <3>4, <3>5
  <2>4. CASE u = req[r].token /\ ReleaseTokenUse(r)
    <3>1. token'[u] = token[u] \/ token'[u] = Released(u, n)
      BY <1>0, <2>4 DEF ReleaseTokenUse
    <3>2. /\ Released(u, n).uses = Minus(token[u].uses, 1)
          /\ Released(u, n).bytes = Minus(token[u].bytes, n)
      BY <1>0 DEF Released, TokenRow
    <3>3. /\ Minus(token[u].uses, 1) \in Nat /\ Minus(token[u].uses, 1) <= token[u].uses
          /\ Minus(token[u].bytes, n) \in Nat /\ Minus(token[u].bytes, n) <= token[u].bytes
      BY <1>0, <2>0 DEF Minus
    <3> QED BY <1>0, <3>1, <3>2, <3>3
  <2>5. ASSUME NEW l \in Leases, CreateDownloadLeaseLimited(r, l) PROVE Within(token'[u])
    <3>1. token'[u].uses = token[u].uses /\ token'[u].bytes = token[u].bytes
      BY <1>0, <2>5 DEF CreateDownloadLeaseLimited, TokenRow
    <3> QED BY <3>1, <1>1
  <2>6. CASE ReservationLeaks(r)
    <3>1. token'[u].uses = token[u].uses /\ token'[u].bytes = token[u].bytes
      BY <1>0, <2>6 DEF ReservationLeaks, TokenRow
    <3> QED BY <3>1, <1>1
  <2> QED
    BY <1>1, <1>6, <2>1, <2>2, <2>3, <2>4, <2>5, <2>6 DEF Handling, Quit, ReserveUploadLease,
       CheckBeforeReserve, CheckAfterReserve, FailReserved, CreateUploadLeaseLimited,
       CommitUpload, AdmitDownloadLease
<1> QED BY <1>3, <1>4, <1>5, <1>6 DEF Next

\* No token is ever used more often, or takes more bytes, than it allows.
THEOREM LimitsHold == Spec => []WithinLimits
<1>1. Init => WithinLimits
  BY LimitsAssumption DEF Init, WithinLimits
<1>2. IInv /\ WithinLimits /\ UNCHANGED vars => WithinLimits'
  BY DEF WithinLimits, vars
<1>3. IInv /\ WithinLimits /\ Next => WithinLimits'
  BY LimitsStep
<1> QED BY <1>1, <1>2, <1>3, Invariance, PTL DEF Spec

-----------------------------------------------------------------------------
(* Revocation.                                                              *)

\* Once a token is revoked, deleted or expired, nothing reserves a use of it.
THEOREM RevocationHolds == Spec => RevocationStopsReservations
<1> DEFINE Stops == \A t \in Tokens : token[t].row # "live" \/ t \in timedOut =>
                       Holding(t)' \subseteq Holding(t)
<1>1. ASSUME IInv, Next PROVE Stops
  <2> SUFFICES ASSUME NEW t \in Tokens, token[t].row # "live" \/ t \in timedOut
               PROVE  Holding(t)' \subseteq Holding(t)
    OBVIOUS
  <2>1. CASE Administration \/ Passing
    <3>1. Administration => UNCHANGED req
      BY DEF Administration, CreateTokenRead, CreateTokenLimited, RevokeTokenAndLeases,
         DeleteTokenAndLeases, RevokeBeforePublish, Publish, PublishFails
    <3>2. Passing => UNCHANGED req \/ Crash
      BY DEF Passing, TokenExpires, LeaseExpires, DeleteExpiredTokens, DeleteExpiredLeases
    <3>3. Crash => Holding(t)' = {}
      BY DEF Crash, Holding, HoldingPoints
    <3>4. UNCHANGED req => Holding(t)' = Holding(t)
      BY HoldingStays
    <3> QED BY <2>1, <3>1, <3>2, <3>3, <3>4
  <2>2. ASSUME NEW r \in Requests, Starting(r) PROVE Holding(t)' \subseteq Holding(t)
    <3>1. PICK h \in Handler : req' = [req EXCEPT ![r] = h] /\ h.pc = "looked"
      BY <1>1, <2>2, StartingHandler
    <3> QED BY <1>1, <3>1 DEF Holding, HoldingPoints, IInv, TypeOK
  <2>3. ASSUME NEW r \in Requests, Handling(r) PROVE Holding(t)' \subseteq Holding(t)
    <3>1. PICK h \in Handler : /\ req' = [req EXCEPT ![r] = h]
                               /\ h = NoHandler \/ h.token = req[r].token
      BY <1>1, <2>3, HandlingHandler
    <3>2. CASE req[r].pc \in HoldingPoints \/ h.pc \notin HoldingPoints \/ h.token # t
      BY <1>1, <3>1, <3>2 DEF Holding, HoldingPoints, IInv, TypeOK
    <3>3. CASE req[r].pc \notin HoldingPoints /\ h.pc \in HoldingPoints /\ h.token = t
      <4>1. req[r].token = t
        BY <3>1, <3>3 DEF HoldingPoints
      <4>2. req'[r].pc = h.pc
        BY <1>1, <3>1 DEF IInv, TypeOK
      <4>3. ReserveTokenUse(r)
        <5> USE DEF HoldingPoints
        <5>1. ASSUME NEW point, Goto(r, point) PROVE point = h.pc
          BY <1>1, <3>1, <5>1 DEF IInv, TypeOK, Handler
        <5>2. ~Finish(r)
          BY <1>1, <3>3, <4>2 DEF IInv, TypeOK
        <5>3. ~ReserveUploadLease(r) /\ ~CheckBeforeReserve(r)
          BY <3>3, <5>1 DEF ReserveUploadLease, CheckBeforeReserve
        <5>4. ~CheckAfterReserve(r) /\ ~FailReserved(r)
          BY <3>3 DEF CheckAfterReserve, FailReserved
        <5>5. \A got : ~CommitUpload(r, got)
          BY <3>3 DEF CommitUpload
        <5> QED
          BY <2>3, <5>2, <5>3, <5>4, <5>5 DEF Handling, Quit, CreateDownloadLeaseLimited,
             CreateUploadLeaseLimited, AdjustTokenUploadedBytes, ReleaseTokenUse,
             ReservationLeaks, AdmitDownloadLease
      <4> QED BY <4>1, <4>3 DEF ReserveTokenUse, Usable
    <3> QED BY <3>2, <3>3
  <2> QED BY <1>1, <2>1, <2>2, <2>3 DEF Next
<1>2. UNCHANGED vars => Stops
  BY HoldingStays DEF vars
<1> QED BY <1>1, <1>2, Invariance, PTL DEF Spec, RevocationStopsReservations

-----------------------------------------------------------------------------
(* The limits on outstanding leases.                                        *)

LEMMA DeletedLeaseRow ==
  ASSUME NEW l PROVE DeletedLease(l).row = "deleted"
BY DEF DeletedLease

\* Only an insertion makes a lease live, and it checks both limits; nothing
\* else brings one back or gives it to another token.
LEMMA LiveLease ==
  ASSUME IInv, Next, NEW l \in Leases, lease'[l].row = "live"
  PROVE  \/ /\ lease[l].row = "live" /\ lease'[l].token = lease[l].token
            /\ lease[l].late => lease'[l].late
         \/ \E k \in Leases, r \in Requests, kind \in {"download", "upload"}, n \in Nat :
              NewLease(k, kind, req[r].token, n) /\ UNCHANGED timedOut
<1> DEFINE Kept == /\ lease[l].row = "live" /\ lease'[l].token = lease[l].token
                   /\ lease[l].late => lease'[l].late
           Inserts == \E k \in Leases, r \in Requests, kind \in {"download", "upload"}, n \in Nat :
                        NewLease(k, kind, req[r].token, n) /\ UNCHANGED timedOut
<1>0. lease \in [Leases -> LeaseRow] /\ \A k \in Leases : lease[k] \in LeaseRow
  BY DEF IInv, TypeOK
<1>1. ASSUME UNCHANGED lease PROVE Kept
  BY <1>1
<1>2. ASSUME NEW S, lease' = RemoveLeasesOf(S) PROVE Kept
  <2>1. lease'[l] = IF lease[l].token \in S THEN DeletedLease(l) ELSE lease[l]
    BY <1>2 DEF RemoveLeasesOf
  <2> QED BY <2>1, DeletedLeaseRow
<1>3. ASSUME NEW k \in Leases, LeaseExpires(k) PROVE Kept
  BY <1>0, <1>3 DEF LeaseExpires, LeaseRow
<1>4. ASSUME NEW kind, DeleteExpiredLeases(kind) PROVE Kept
  <2>1. lease'[l] = DeletedLease(l) \/ lease'[l] = lease[l]
    BY <1>4 DEF DeleteExpiredLeases
  <2> QED BY <2>1, DeletedLeaseRow
<1>5. ASSUME Administration PROVE Kept
  <2> HIDE DEF Kept
  <2>1. ASSUME NEW next, RevokeBeforePublish(next) PROVE Kept
    BY <1>1, <1>2, <2>1 DEF RevokeBeforePublish
  <2>2. Publish \/ PublishFails => Kept
    BY <1>1 DEF Publish, PublishFails
  <2>3. ASSUME NEW t \in Tokens,
               \/ CreateTokenRead(t) \/ CreateTokenLimited(t)
               \/ RevokeTokenAndLeases(t) \/ DeleteTokenAndLeases(t)
        PROVE  Kept
    BY <1>1, <1>2, <2>3
    DEF CreateTokenRead, CreateTokenLimited, RevokeTokenAndLeases, DeleteTokenAndLeases
  <2> QED BY <1>5, <2>1, <2>2, <2>3 DEF Administration
<1>6. ASSUME Passing PROVE Kept
  BY <1>1, <1>2, <1>3, <1>4, <1>6 DEF Passing, TokenExpires, DeleteExpiredTokens, Crash
<1>7. ASSUME NEW r \in Requests, Starting(r) PROVE Kept
  <2>1. UNCHANGED lease
    BY <1>7, StartingHandler, Zenon
  <2> QED BY <1>1, <2>1
<1>8. ASSUME NEW r \in Requests, Handling(r) PROVE Kept \/ Inserts
  <2>1. CASE ReserveUploadLease(r)
    BY <1>0, <2>1 DEF ReserveUploadLease, LeaseRow
  <2>2. ASSUME NEW got \in Sizes \cup {0}, CommitUpload(r, got) PROVE Kept
    BY <1>0, <2>2 DEF CommitUpload, LeaseRow
  <2>3. ASSUME NEW k \in Leases, CreateDownloadLeaseLimited(r, k) PROVE Inserts
    BY <2>3 DEF CreateDownloadLeaseLimited
  <2>4. ASSUME NEW k \in Leases, CreateUploadLeaseLimited(r, k) PROVE Inserts
    <3>1. req[r].n \in Nat
      BY DEF IInv, TypeOK, Handler
    <3> QED BY <2>4, <3>1 DEF CreateUploadLeaseLimited
  <2> HIDE DEF Kept, Inserts
  <2> QED
    BY <1>1, <1>8, <2>1, <2>2, <2>3, <2>4 DEF Handling, Quit, CheckBeforeReserve,
       ReserveTokenUse, CheckAfterReserve, FailReserved, AdjustTokenUploadedBytes,
       ReleaseTokenUse, ReservationLeaks, AdmitDownloadLease
<1> QED BY <1>5, <1>6, <1>7, <1>8 DEF Next

LEMMA LiveLeases ==
  ASSUME IInv, Next
  PROVE  \/ \A l \in Leases : lease'[l].row = "live" =>
              /\ lease[l].row = "live" /\ lease'[l].token = lease[l].token
              /\ lease[l].late => lease'[l].late
         \/ \E k \in Leases, r \in Requests, kind \in {"download", "upload"}, n \in Nat :
              NewLease(k, kind, req[r].token, n) /\ UNCHANGED timedOut
BY LiveLease

\* What has expired stays expired.
LEMMA TimePasses ==
  ASSUME Next PROVE timedOut \subseteq timedOut'
<1>1. ASSUME NEW r \in Requests, Starting(r) \/ Handling(r) PROVE UNCHANGED timedOut
  BY <1>1 DEF Starting, BeginExchange, BeginMultipart, BeginMint, BeginRaw, BeginRedeem,
     Handling, Quit, ReserveUploadLease, CheckBeforeReserve, ReserveTokenUse, CheckAfterReserve,
     FailReserved, CreateDownloadLeaseLimited, CreateUploadLeaseLimited, CommitUpload,
     AdjustTokenUploadedBytes, ReleaseTokenUse, ReservationLeaks, AdmitDownloadLease
<1>2. ASSUME NEW t \in Tokens, TokenExpires(t) PROVE timedOut \subseteq timedOut'
  BY <1>2 DEF TokenExpires
<1>3. ASSUME Administration PROVE UNCHANGED timedOut
  <2>1. ASSUME NEW next, RevokeBeforePublish(next) PROVE UNCHANGED timedOut
    BY <2>1 DEF RevokeBeforePublish
  <2>2. Publish \/ PublishFails => UNCHANGED timedOut
    BY DEF Publish, PublishFails
  <2>3. ASSUME NEW t \in Tokens,
               \/ CreateTokenRead(t) \/ CreateTokenLimited(t)
               \/ RevokeTokenAndLeases(t) \/ DeleteTokenAndLeases(t)
        PROVE  UNCHANGED timedOut
    BY <2>3 DEF CreateTokenRead, CreateTokenLimited, RevokeTokenAndLeases, DeleteTokenAndLeases
  <2> QED BY <1>3, <2>1, <2>2, <2>3 DEF Administration
<1>4. Passing => UNCHANGED timedOut \/ \E t \in Tokens : TokenExpires(t)
  BY DEF Passing, LeaseExpires, DeleteExpiredTokens, DeleteExpiredLeases, Crash
<1>5. UNCHANGED timedOut \/ timedOut \subseteq timedOut'
  BY <1>1, <1>2, <1>3, <1>4, Zenon DEF Next
<1> QED BY <1>5

OutstandingAll == {l \in Leases : Outstanding(l)}

\* At any time finitely many leases are outstanding, whatever the limits.
OutstandingInv == IsFiniteSet(OutstandingAll) /\ OutstandingWithinLimit

LEMMA OutstandingFinite ==
  ASSUME IsFiniteSet(OutstandingAll), NEW t
  PROVE  IsFiniteSet(OutstandingOf(t)) /\ Cardinality(OutstandingOf(t)) \in Nat
<1>1. OutstandingOf(t) \in SUBSET OutstandingAll
  BY DEF OutstandingOf, OutstandingAll
<1> QED BY <1>1, FS_Subset, FS_CardinalityType

\* A set with a limit keeps it when it loses members, and when it gains one below it.
LEMMA StaysLimited ==
  ASSUME NEW S, NEW T, NEW max \in Nat, IsFiniteSet(S), max > 0 => Cardinality(S) <= max,
         \/ T \subseteq S
         \/ \E x : T \subseteq S \cup {x} /\ (max = 0 \/ Cardinality(S) < max)
  PROVE  IsFiniteSet(T) /\ (max > 0 => Cardinality(T) <= max)
<1>1. Cardinality(S) \in Nat
  BY FS_CardinalityType
<1>2. CASE T \subseteq S
  <2>1. IsFiniteSet(T) /\ Cardinality(T) <= Cardinality(S)
    BY <1>2, FS_Subset
  <2>2. Cardinality(T) \in Nat
    BY <2>1, FS_CardinalityType
  <2> QED BY <1>1, <2>1, <2>2
<1>3. ASSUME NEW x, T \subseteq S \cup {x}, max = 0 \/ Cardinality(S) < max
      PROVE  IsFiniteSet(T) /\ (max > 0 => Cardinality(T) <= max)
  <2>1. IsFiniteSet(S \cup {x}) /\ Cardinality(S \cup {x}) <= Cardinality(S) + 1
    <3>1. /\ IsFiniteSet(S \cup {x})
          /\ Cardinality(S \cup {x}) = IF x \in S THEN Cardinality(S) ELSE Cardinality(S) + 1
      BY FS_AddElement
    <3> QED BY <1>1, <3>1
  <2>2. IsFiniteSet(T) /\ Cardinality(T) <= Cardinality(S \cup {x})
    BY <1>3, <2>1, FS_Subset
  <2>3. Cardinality(T) \in Nat /\ Cardinality(S \cup {x}) \in Nat
    BY <2>1, <2>2, FS_CardinalityType
  <2> QED BY <1>1, <1>3, <2>1, <2>2, <2>3
<1> QED BY <1>2, <1>3

LEMMA OutstandingStep ==
  ASSUME IInv, OutstandingInv, Next PROVE OutstandingInv'
<1>0. /\ timedOut \subseteq timedOut' /\ lease \in [Leases -> LeaseRow]
      /\ MaxTotalLeases \in Nat /\ MaxOwnerLeases \in Nat
      /\ \A t : IsFiniteSet(OutstandingOf(t))
  BY TimePasses, LimitsAssumption, OutstandingFinite DEF IInv, TypeOK, OutstandingInv
<1>1. CASE \A l \in Leases : lease'[l].row = "live" =>
             /\ lease[l].row = "live" /\ lease'[l].token = lease[l].token
             /\ lease[l].late => lease'[l].late
  <2>1. \A l \in Leases : Outstanding(l)' => Outstanding(l) /\ lease'[l].token = lease[l].token
    BY <1>0, <1>1 DEF Outstanding, Expired
  <2>2. OutstandingAll' \subseteq OutstandingAll
        /\ \A t : OutstandingOf(t)' \subseteq OutstandingOf(t)
    BY <2>1 DEF OutstandingAll, OutstandingOf
  <2>3. /\ IsFiniteSet(OutstandingAll')
        /\ MaxTotalLeases > 0 => Cardinality(OutstandingAll') <= MaxTotalLeases
    BY <1>0, <2>2, StaysLimited DEF OutstandingInv, OutstandingWithinLimit, OutstandingAll
  <2>4. ASSUME NEW t \in Tokens
        PROVE  MaxOwnerLeases > 0 => Cardinality(OutstandingOf(t)') <= MaxOwnerLeases
    BY <1>0, <2>2, StaysLimited DEF OutstandingInv, OutstandingWithinLimit
  <2> QED BY <2>3, <2>4 DEF OutstandingInv, OutstandingWithinLimit, OutstandingAll
<1>2. ASSUME NEW k \in Leases, NEW o, NEW kind \in {"download", "upload"}, NEW n \in Nat,
             NewLease(k, kind, o, n), UNCHANGED timedOut
      PROVE  OutstandingInv'
  <2>1. /\ \A l \in Leases \ {k} : lease'[l] = lease[l]
        /\ lease'[k].token = o /\ UnderTotalLimit /\ UnderOwnerLimit(o)
    BY <1>0, <1>2 DEF NewLease
  <2>2. \A l \in Leases \ {k} : Outstanding(l)' <=> Outstanding(l)
    BY <1>2, <2>1 DEF Outstanding, Expired
  <2>3. OutstandingAll' \subseteq OutstandingAll \cup {k}
    BY <2>2 DEF OutstandingAll
  <2>4. /\ IsFiniteSet(OutstandingAll')
        /\ MaxTotalLeases > 0 => Cardinality(OutstandingAll') <= MaxTotalLeases
    BY <1>0, <2>1, <2>3, StaysLimited
    DEF OutstandingInv, OutstandingWithinLimit, OutstandingAll, UnderTotalLimit
  <2>5. ASSUME NEW t \in Tokens
        PROVE  MaxOwnerLeases > 0 => Cardinality(OutstandingOf(t)') <= MaxOwnerLeases
    <3>1. \/ OutstandingOf(t)' \subseteq OutstandingOf(t)
          \/ t = o /\ OutstandingOf(t)' \subseteq OutstandingOf(t) \cup {k}
      BY <2>1, <2>2 DEF OutstandingOf
    <3> QED BY <1>0, <2>1, <3>1, StaysLimited
            DEF OutstandingInv, OutstandingWithinLimit, UnderOwnerLimit
  <2> QED BY <2>4, <2>5 DEF OutstandingInv, OutstandingWithinLimit, OutstandingAll
<1> QED BY <1>1, <1>2, LiveLeases

(***************************************************************************)
(* The leases outstanding stay within the limits of their owner and of the *)
(* server, however many exchanges and minted leases are inserted together  *)
(* (store.go, the limits inside the transaction of an insertion).          *)
(***************************************************************************)
THEOREM OutstandingLimited == Spec => []OutstandingWithinLimit
<1>1. Init => OutstandingInv
  <2> SUFFICES ASSUME Init PROVE OutstandingInv
    OBVIOUS
  <2>1. OutstandingAll = {} /\ \A t : OutstandingOf(t) = {}
    BY DEF Init, OutstandingAll, OutstandingOf, Outstanding
  <2> QED BY <2>1, FS_EmptySet, LimitsAssumption
          DEF OutstandingInv, OutstandingWithinLimit, OutstandingAll
<1>2. IInv /\ OutstandingInv /\ UNCHANGED vars => OutstandingInv'
  BY DEF OutstandingInv, OutstandingAll, OutstandingWithinLimit, OutstandingOf, Outstanding,
         Expired, vars
<1>3. IInv /\ OutstandingInv /\ Next => OutstandingInv'
  BY OutstandingStep
<1>4. OutstandingInv => OutstandingWithinLimit
  BY DEF OutstandingInv
<1> QED BY <1>1, <1>2, <1>3, <1>4, Invariance, PTL DEF Spec

-----------------------------------------------------------------------------
(* Sums over finite sets.  The bytes that the handlers of a token hold are  *)
(* a fold over a set; its recursion is shown to have a solution, and the    *)
(* sum not to depend on the order in which members are taken, by induction  *)
(* on the cardinality.                                                      *)

\* The bytes declared by the handlers in S, q being the handlers.
Declared(q, S) == MapThenSumSet(LAMBDA r : q[r].n, S)

LEMMA LeastNat ==
  ASSUME NEW T \in SUBSET Nat, T # {}
  PROVE  \E n \in T : \A m \in T : n <= m
<1>1. PICK n \in T : \A m \in T : ~ (<<m, n>> \in OpToRel(<, Nat))
  <2>1. T \subseteq Nat
    OBVIOUS
  <2> QED BY <2>1, NatLessThanWellFounded, WFMin, Zenon
<1>2. ASSUME NEW m \in T, m < n PROVE FALSE
  <2>1. <<m, n>> \in OpToRel(<, Nat)
    BY <1>2 DEF OpToRel
  <2> QED BY <1>1, <2>1, Zenon
<1> QED BY <1>2

LEMMA FromZeroOn ==
  ASSUME NEW T \in SUBSET Nat, 0 \in T, \A n \in T : n + 1 \in T
  PROVE  T = Nat
<1> SUFFICES ASSUME T # Nat PROVE FALSE
  OBVIOUS
<1>1. PICK n \in Nat \ T : \A m \in Nat \ T : n <= m
  BY LeastNat
<1>2. n - 1 \in Nat /\ n - 1 \in T
  BY <1>1
<1>3. (n - 1) + 1 = n
  BY <1>1
<1> QED BY <1>1, <1>2, <1>3

\* The member the fold takes out of a set, and what is left.
Pick(s) == CHOOSE x \in s : TRUE
Less(s) == s \ {Pick(s)}

LEMMA LessIsLess ==
  ASSUME NEW s, s # {}, IsFiniteSet(s)
  PROVE  /\ Pick(s) \in s /\ Pick(s) \notin Less(s) /\ s = Less(s) \cup {Pick(s)}
         /\ IsFiniteSet(Less(s)) /\ Cardinality(Less(s)) = Cardinality(s) - 1
         /\ Cardinality(s) \in Nat \ {0} /\ Cardinality(Less(s)) \in Nat
<1>1. Pick(s) \in s
  BY DEF Pick
<1> QED BY <1>1, FS_RemoveElement, FS_CardinalityType, FS_EmptySet DEF Less

Adds(q, f, s) == IF s = {} THEN 0 ELSE q[Pick(s)].n + f[Less(s)]

Upto(S, n) == {s \in SUBSET S : Cardinality(s) <= n}

LEMMA SumExists ==
  ASSUME NEW q, NEW S, IsFiniteSet(S)
  PROVE  \E f : f = [s \in SUBSET S |-> Adds(q, f, s)]
<1> DEFINE Ns == {n \in Nat : \E f : f = [s \in Upto(S, n) |-> Adds(q, f, s)]}
<1>0. \A s \in SUBSET S : IsFiniteSet(s) /\ Cardinality(s) \in Nat /\ Cardinality(s) <= Cardinality(S)
  BY FS_Subset, FS_CardinalityType
<1>1. 0 \in Ns
  <2> DEFINE f == [s \in Upto(S, 0) |-> 0]
  <2>1. \A s \in Upto(S, 0) : s = {}
    BY <1>0, FS_EmptySet DEF Upto
  <2>2. f = [s \in Upto(S, 0) |-> Adds(q, f, s)]
    BY <2>1 DEF Adds
  <2> QED BY <2>2
<1>2. ASSUME NEW n \in Ns PROVE n + 1 \in Ns
  <2>1. PICK f : f = [s \in Upto(S, n) |-> Adds(q, f, s)]
    OBVIOUS
  <2> DEFINE g == [s \in Upto(S, n + 1) |-> Adds(q, f, s)]
  <2>2. \A s \in Upto(S, n) : s \in Upto(S, n + 1) /\ g[s] = f[s]
    <3>1. \A s \in Upto(S, n) : s \in Upto(S, n + 1)
      BY <1>0 DEF Upto
    <3>2. \A s \in Upto(S, n) : f[s] = Adds(q, f, s)
      BY <2>1
    <3> QED BY <3>1, <3>2
  <2>3. ASSUME NEW s \in Upto(S, n + 1), s # {} PROVE Less(s) \in Upto(S, n)
    BY <1>0, <2>3, LessIsLess DEF Upto
  <2>4. \A s \in Upto(S, n + 1) : Adds(q, f, s) = Adds(q, g, s)
    <3> HIDE DEF g
    <3> QED BY <2>2, <2>3 DEF Adds
  <2>5. g = [s \in Upto(S, n + 1) |-> Adds(q, g, s)]
    <3>1. g = [s \in Upto(S, n + 1) |-> Adds(q, f, s)]
      OBVIOUS
    <3> HIDE DEF g
    <3> QED BY <2>4, <3>1
  <2> HIDE DEF g
  <2> QED BY <2>5
<1>3. Ns = Nat
  <2> HIDE DEF Ns
  <2>1. Ns \in SUBSET Nat
    BY DEF Ns
  <2> QED BY <1>1, <1>2, <2>1, FromZeroOn
<1>4. Upto(S, Cardinality(S)) = SUBSET S /\ Cardinality(S) \in Ns
  BY <1>0, <1>3, FS_CardinalityType DEF Upto
<1> QED BY <1>4

SumFn(q, S) == CHOOSE f : f = [s \in SUBSET S |-> Adds(q, f, s)]

LEMMA DeclaredIsSum == ASSUME NEW q, NEW S PROVE Declared(q, S) = SumFn(q, S)[S]
BY DEF Declared, MapThenSumSet, MapThenFoldSet, SumFn, Adds, Pick, Less

LEMMA SumFnAdds ==
  ASSUME NEW q, NEW S, IsFiniteSet(S), NEW s \in SUBSET S
  PROVE  SumFn(q, S)[s] = Adds(q, SumFn(q, S), s)
<1>1. SumFn(q, S) = [u \in SUBSET S |-> Adds(q, SumFn(q, S), u)]
  BY SumExists DEF SumFn
<1> QED BY <1>1

\* A property of all finite sets is shown by taking members out one by one.
LEMMA SumsAgree ==
  ASSUME NEW q, NEW p, NEW S, NEW T, IsFiniteSet(S), IsFiniteSet(T), NEW U \in SUBSET (S \cap T),
         \A r \in U : q[r].n = p[r].n
  PROVE  SumFn(q, S)[U] = SumFn(p, T)[U]
<1> DEFINE f == SumFn(q, S)
           g == SumFn(p, T)
           Ns == {n \in Nat : \A s \in SUBSET U : Cardinality(s) = n => f[s] = g[s]}
<1>0. IsFiniteSet(U) /\ \A s \in SUBSET U : IsFiniteSet(s) /\ Cardinality(s) \in Nat
  <2>1. IsFiniteSet(U)
    BY FS_Subset
  <2> QED BY <2>1, FS_Subset, FS_CardinalityType
<1>1. \A s \in SUBSET U : f[s] = Adds(q, f, s) /\ g[s] = Adds(p, g, s)
  BY SumFnAdds
<1> HIDE DEF f, g
<1>2. 0 \in Ns
  BY <1>0, <1>1, FS_EmptySet DEF Adds
<1>3. ASSUME NEW n \in Ns PROVE n + 1 \in Ns
  <2>1. ASSUME NEW s \in SUBSET U, Cardinality(s) = n + 1 PROVE f[s] = g[s]
    <3>1. s # {} /\ IsFiniteSet(s)
      BY <1>0, <2>1, FS_EmptySet
    <3>2. Less(s) \in SUBSET U /\ Pick(s) \in U /\ Cardinality(Less(s)) = n
      <4>1. /\ Pick(s) \in s /\ s = Less(s) \cup {Pick(s)}
            /\ Cardinality(Less(s)) = Cardinality(s) - 1
        BY <3>1, LessIsLess
      <4> HIDE DEF Less, Pick
      <4> QED BY <2>1, <4>1
    <3>3. f[Less(s)] = g[Less(s)]
      BY <3>2
    <3> QED BY <1>1, <3>1, <3>2, <3>3 DEF Adds
  <2> QED BY <2>1
<1>4. Ns = Nat
  <2> HIDE DEF Ns
  <2>1. Ns \in SUBSET Nat
    BY DEF Ns
  <2> QED BY <1>2, <1>3, <2>1, FromZeroOn
<1> QED BY <1>0, <1>4 DEF f, g

LEMMA SumAddsAny ==
  ASSUME NEW q, NEW S, IsFiniteSet(S), \A r \in S : q[r].n \in Nat
  PROVE  \A s \in SUBSET S : /\ SumFn(q, S)[s] \in Nat
                             /\ \A x \in s : SumFn(q, S)[s] = q[x].n + SumFn(q, S)[s \ {x}]
<1> DEFINE f == SumFn(q, S)
           Good(s) == f[s] \in Nat /\ \A x \in s : f[s] = q[x].n + f[s \ {x}]
           Ns == {n \in Nat : \A s \in SUBSET S : Cardinality(s) <= n => Good(s)}
<1>0. \A s \in SUBSET S : IsFiniteSet(s) /\ Cardinality(s) \in Nat
  BY FS_Subset, FS_CardinalityType
<1>1. \A s \in SUBSET S : f[s] = Adds(q, f, s)
  BY SumFnAdds
<1> HIDE DEF f
<1>2. Good({})
  BY <1>1 DEF Adds
<1>3. 0 \in Ns
  <2>1. \A s \in SUBSET S : Cardinality(s) <= 0 => s = {}
    BY <1>0, FS_EmptySet
  <2> QED BY <1>2, <2>1
<1>4. ASSUME NEW n \in Ns PROVE n + 1 \in Ns
  <2>1. ASSUME NEW s \in SUBSET S, Cardinality(s) <= n + 1, s # {} PROVE Good(s)
    <3> DEFINE c == Pick(s)
    <3>1. \A u \in SUBSET S : Cardinality(u) <= n => Good(u)
      OBVIOUS
    <3> HIDE DEF Good
    <3>2. ASSUME NEW x \in s PROVE Good(s \ {x})
      <4>1. Cardinality(s \ {x}) = Cardinality(s) - 1
        BY <1>0, FS_RemoveElement
      <4>2. Cardinality(s \ {x}) <= n
        BY <1>0, <2>1, <4>1
      <4> QED BY <3>1, <4>2
    <3>3. c \in s /\ s \ {c} = Less(s)
      BY <1>0, <2>1, LessIsLess DEF Less
    <3>4. f[s] = q[c].n + f[s \ {c}]
      BY <1>1, <2>1, <3>3 DEF Adds
    <3> HIDE DEF c
    <3>5. q[c].n \in Nat /\ f[s \ {c}] \in Nat /\ f[s] \in Nat
      BY <3>2, <3>3, <3>4 DEF Good
    <3>6. ASSUME NEW x \in s, x # c PROVE f[s] = q[x].n + f[s \ {x}]
      <4> DEFINE rest == (s \ {c}) \ {x}
      <4>1. f[s \ {c}] = q[x].n + f[rest]
        BY <3>2, <3>3, <3>6 DEF Good
      <4>2. (s \ {x}) \ {c} = rest /\ c \in s \ {x}
        BY <3>3, <3>6
      <4>3. f[s \ {x}] = q[c].n + f[rest]
        <5>1. \A y \in s \ {x} : f[s \ {x}] = q[y].n + f[(s \ {x}) \ {y}]
          BY <3>2, <3>6 DEF Good
        <5> HIDE DEF rest
        <5> QED BY <4>2, <5>1
      <4>4. Cardinality(rest) <= n
        <5>1. /\ Cardinality(s \ {c}) = Cardinality(s) - 1 /\ IsFiniteSet(s \ {c})
              /\ x \in s \ {c}
          BY <1>0, <3>3, <3>6, FS_RemoveElement
        <5>2. Cardinality(rest) = Cardinality(s \ {c}) - 1
          BY <5>1, FS_RemoveElement
        <5> QED BY <1>0, <2>1, <5>1, <5>2
      <4>5. q[x].n \in Nat /\ f[rest] \in Nat
        BY <3>1, <4>4 DEF Good
      <4> HIDE DEF rest
      <4> QED BY <3>4, <3>5, <4>1, <4>3, <4>5
    <3> QED BY <3>4, <3>5, <3>6 DEF Good
  <2>2. \A s \in SUBSET S : Cardinality(s) <= n + 1 => Good(s)
    BY <1>2, <2>1
  <2> HIDE DEF Good
  <2> QED BY <2>2
<1>5. Ns = Nat
  <2> HIDE DEF Ns
  <2>1. Ns \in SUBSET Nat
    BY DEF Ns
  <2> QED BY <1>3, <1>4, <2>1, FromZeroOn
<1>6. \A s \in SUBSET S : Good(s)
  BY <1>0, <1>5
<1> QED BY <1>6 DEF f

\* The sizes of a set of handlers: none, those of one more, and those of the
\* same handlers in another state.
LEMMA DeclaredByNone == ASSUME NEW q PROVE Declared(q, {}) = 0
BY DeclaredIsSum, SumFnAdds, FS_EmptySet DEF Adds

LEMMA DeclaredSame ==
  ASSUME NEW q, NEW p, NEW S, IsFiniteSet(S), \A r \in S : q[r].n = p[r].n
  PROVE  Declared(q, S) = Declared(p, S)
BY DeclaredIsSum, SumsAgree

LEMMA DeclaredByMore ==
  ASSUME NEW q, NEW S, IsFiniteSet(S), \A r \in S : q[r].n \in Nat, NEW x \in S
  PROVE  /\ Declared(q, S) \in Nat /\ Declared(q, S \ {x}) \in Nat
         /\ Declared(q, S) = q[x].n + Declared(q, S \ {x})
<1>1. IsFiniteSet(S \ {x})
  BY FS_Subset
<1>2. Declared(q, S \ {x}) = SumFn(q, S)[S \ {x}]
  <2>1. S \ {x} \in SUBSET ((S \ {x}) \cap S)
    OBVIOUS
  <2> QED BY <1>1, <2>1, DeclaredIsSum, SumsAgree
<1>3. Declared(q, S) = SumFn(q, S)[S]
  BY DeclaredIsSum
<1>4. /\ SumFn(q, S)[S] \in Nat /\ SumFn(q, S)[S \ {x}] \in Nat
      /\ SumFn(q, S)[S] = q[x].n + SumFn(q, S)[S \ {x}]
  BY SumAddsAny, SMTT(40)
<1> QED BY <1>2, <1>3, <1>4

LEMMA DeclaredType ==
  ASSUME NEW q, NEW S, IsFiniteSet(S), \A r \in S : q[r].n \in Nat
  PROVE  Declared(q, S) \in Nat
BY DeclaredIsSum, SumAddsAny
-----------------------------------------------------------------------------
(* The accounting of bytes.                                                 *)

\* An exchange declares no bytes.
ExchangesAreEmpty == \A r \in Requests : req[r].op = "exchange" => req[r].n = 0

\* What has leaked is a number of bytes, and before the row of a token is
\* inserted nothing is accounted to it.
LeaksRefer ==
  \A t \in Tokens : /\ leakedBytes[t] \in Nat
                    /\ ~Inserted(t) => /\ token[t].bytes = 0 /\ token[t].stored = 0
                                       /\ leakedBytes[t] = 0

BytesInv == BytesExact /\ ExchangesAreEmpty /\ LeaksRefer

LEMMA HeldIsDeclared ==
  \A t : /\ HeldBytes(t) = Declared(req, Holding(t))
         /\ HeldBytes(t)' = Declared(req', Holding(t)')
BY DEF HeldBytes, Declared, MapThenSumSet, MapThenFoldSet

\* The lemmas on sums, for the handlers before a step and after it.
LEMMA NextSame ==
  ASSUME NEW S, IsFiniteSet(S), \A s \in S : req'[s].n = req[s].n
  PROVE  Declared(req', S) = Declared(req, S)
BY DeclaredSame

LEMMA DeclaredWith ==
  ASSUME NEW q, NEW S, IsFiniteSet(S), NEW r, r \notin S,
         \A s \in S \cup {r} : q[s].n \in Nat
  PROVE  /\ Declared(q, S) \in Nat
         /\ Declared(q, S \cup {r}) = q[r].n + Declared(q, S)
<1> DEFINE T == S \cup {r}
<1>1. IsFiniteSet(T) /\ r \in T /\ T \ {r} = S
  BY FS_AddElement
<1>2. \A s \in T : q[s].n \in Nat
  OBVIOUS
<1> HIDE DEF T
<1>3. /\ Declared(q, T \ {r}) \in Nat
      /\ Declared(q, T) = q[r].n + Declared(q, T \ {r})
  BY <1>1, <1>2, DeclaredByMore
<1> QED BY <1>1, <1>3, Zenon DEF T

LEMMA NextWith ==
  ASSUME NEW S, IsFiniteSet(S), NEW r, r \notin S,
         \A s \in S \cup {r} : req'[s].n \in Nat
  PROVE  /\ Declared(req', S) \in Nat
         /\ Declared(req', S \cup {r}) = req'[r].n + Declared(req', S)
BY DeclaredWith, Zenon

LEMMA HeldStays ==
  ASSUME UNCHANGED req PROVE \A t : HeldBytes(t)' = HeldBytes(t)
<1> SUFFICES ASSUME NEW t PROVE HeldBytes(t)' = HeldBytes(t)
  OBVIOUS
<1>1. Holding(t)' = Holding(t) /\ IsFiniteSet(Holding(t))
  BY HoldingStays, HoldingFinite
<1>2. \A s \in Holding(t) : req'[s].n = req[s].n
  OBVIOUS
<1>3. Declared(req', Holding(t)) = Declared(req, Holding(t))
  BY <1>1, <1>2, NextSame, Zenon
<1> QED BY <1>1, <1>3, HeldIsDeclared, Zenon

LEMMA HeldType ==
  ASSUME IInv, NEW t PROVE HeldBytes(t) \in Nat
<1>1. \A r \in Holding(t) : req[r].n \in Nat
  BY DEF Holding, IInv, TypeOK, Handler
<1> QED BY <1>1, HoldingFinite, DeclaredType, HeldIsDeclared

LEMMA HeldSame ==
  ASSUME IInv, NEW r \in Requests, NEW h, req' = [req EXCEPT ![r] = h], NEW u,
         (h.pc \in HoldingPoints /\ h.token = u)
           <=> (req[r].pc \in HoldingPoints /\ req[r].token = u),
         req[r].pc \in HoldingPoints => h.n = req[r].n
  PROVE  HeldBytes(u)' = HeldBytes(u)
<1>1. Holding(u)' = Holding(u) /\ IsFiniteSet(Holding(u))
  BY HoldingSame, HoldingFinite
<1>2. \A s \in Holding(u) : req'[s].n = req[s].n
  BY DEF Holding, IInv, TypeOK
<1>3. Declared(req', Holding(u)) = Declared(req, Holding(u))
  BY <1>1, <1>2, NextSame, Zenon
<1> QED BY <1>1, <1>3, HeldIsDeclared, Zenon

LEMMA HeldGrows ==
  ASSUME IInv, NEW r \in Requests, NEW h, req' = [req EXCEPT ![r] = h], h.n \in Nat,
         req[r].pc \notin HoldingPoints, h.pc \in HoldingPoints
  PROVE  HeldBytes(h.token) \in Nat /\ HeldBytes(h.token)' = HeldBytes(h.token) + h.n
<1> DEFINE H == Holding(h.token)
<1>1. /\ Holding(h.token)' = H \cup {r} /\ r \notin H
      /\ req'[r] = h /\ \A s \in H : s \in Requests /\ req'[s] = req[s]
  BY DEF Holding, IInv, TypeOK
<1>2. IsFiniteSet(H)
  BY HoldingFinite
<1> HIDE DEF H
<1>3. \A s \in H \cup {r} : req'[s].n \in Nat
  BY <1>1 DEF IInv, TypeOK, Handler
<1>4. \A s \in H : req'[s].n = req[s].n
  BY <1>1
<1>5. /\ Declared(req', H) \in Nat
      /\ Declared(req', H \cup {r}) = req'[r].n + Declared(req', H)
  BY <1>1, <1>2, <1>3, NextWith, Zenon
<1>6. Declared(req', H) = Declared(req, H)
  BY <1>2, <1>4, NextSame, Zenon
<1>7. HeldBytes(h.token)' = Declared(req', H \cup {r}) /\ HeldBytes(h.token) = Declared(req, H)
  <2>1. HeldBytes(h.token)' = Declared(req', Holding(h.token)')
        /\ HeldBytes(h.token) = Declared(req, Holding(h.token))
    BY HeldIsDeclared, Zenon
  <2> QED BY <1>1, <2>1, Zenon DEF H
<1>8. HeldBytes(h.token) \in Nat /\ HeldBytes(h.token)' = req'[r].n + HeldBytes(h.token)
  BY <1>5, <1>6, <1>7, Zenon
<1> QED BY <1>1, <1>8

\* What the current declarations add up to, without one of a set's requests.
LEMMA NowWithout ==
  ASSUME NEW S, IsFiniteSet(S), \A s \in S : req[s].n \in Nat, NEW x \in S
  PROVE  /\ Declared(req, S \ {x}) \in Nat
         /\ Declared(req, S) = req[x].n + Declared(req, S \ {x})
BY DeclaredByMore

LEMMA HeldShrinks ==
  ASSUME IInv, NEW r \in Requests, NEW h, req' = [req EXCEPT ![r] = h],
         req[r].pc \in HoldingPoints, h.pc \notin HoldingPoints, NEW t, t = req[r].token
  PROVE  /\ HeldBytes(t)' \in Nat /\ req[r].n \in Nat
         /\ HeldBytes(t) = HeldBytes(t)' + req[r].n
<1> DEFINE H == Holding(t)
<1>1. /\ Holding(t)' = H \ {r} /\ r \in H
      /\ \A s \in H \ {r} : s \in Requests /\ req'[s] = req[s]
  BY DEF Holding, IInv, TypeOK
<1>2. IsFiniteSet(H) /\ IsFiniteSet(H \ {r})
  BY HoldingFinite, FS_RemoveElement
<1>3. \A s \in H : req[s].n \in Nat
  BY DEF Holding, IInv, TypeOK, Handler
<1> HIDE DEF H
<1>4. /\ Declared(req, H \ {r}) \in Nat
      /\ Declared(req, H) = req[r].n + Declared(req, H \ {r})
  BY <1>1, <1>2, <1>3, NowWithout, Zenon
<1>5. Declared(req', H \ {r}) = Declared(req, H \ {r})
  <2>1. \A s \in H \ {r} : req'[s].n = req[s].n
    BY <1>1
  <2> QED BY <1>2, <2>1, NextSame, Zenon
<1>6. HeldBytes(t)' = Declared(req', H \ {r}) /\ HeldBytes(t) = Declared(req, H)
  <2>1. HeldBytes(t)' = Declared(req', Holding(t)') /\ HeldBytes(t) = Declared(req, Holding(t))
    BY HeldIsDeclared, Zenon
  <2> QED BY <1>1, <2>1, Zenon DEF H
<1>7. HeldBytes(t)' \in Nat /\ HeldBytes(t) = req[r].n + HeldBytes(t)'
  BY <1>4, <1>5, <1>6, Zenon
<1>8. req[r].n \in Nat
  BY <1>1, <1>3
<1> QED BY <1>7, <1>8

\* Exchanges declare nothing, and no handler changes what it declared.
LEMMA ExchangesStep ==
  ASSUME IInv, ExchangesAreEmpty, Next
  PROVE  ExchangesAreEmpty'
<1>1. ASSUME UNCHANGED req PROVE ExchangesAreEmpty'
  BY <1>1 DEF ExchangesAreEmpty
<1>2. ASSUME NEW r \in Requests, NEW h, req' = [req EXCEPT ![r] = h],
             h.op = "exchange" => h.n = 0
      PROVE  ExchangesAreEmpty'
  BY <1>2 DEF ExchangesAreEmpty, IInv, TypeOK
<1>3. CASE Administration
  BY <1>1, <1>3 DEF Administration, CreateTokenRead, CreateTokenLimited, RevokeTokenAndLeases,
     DeleteTokenAndLeases, RevokeBeforePublish, Publish, PublishFails
<1>4. CASE Passing
  <2>1. Crash => ExchangesAreEmpty'
    BY DEF Crash, ExchangesAreEmpty
  <2> QED BY <1>1, <1>4, <2>1 DEF Passing, TokenExpires, LeaseExpires, DeleteExpiredTokens,
             DeleteExpiredLeases
<1>5. ASSUME NEW r \in Requests, Starting(r) PROVE ExchangesAreEmpty'
  <2>1. ASSUME NEW t \in Tokens, BeginExchange(r, t) PROVE ExchangesAreEmpty'
    BY <1>2, <2>1 DEF BeginExchange
  <2>2. ASSUME NEW t \in Tokens, NEW n \in Sizes, BeginMultipart(r, t, n)
        PROVE  ExchangesAreEmpty'
    BY <1>2, <2>2 DEF BeginMultipart
  <2>3. ASSUME NEW t \in Tokens, NEW n \in Sizes, BeginMint(r, t, n) PROVE ExchangesAreEmpty'
    BY <1>2, <2>3 DEF BeginMint
  <2>4. ASSUME NEW l \in Leases, BeginRaw(r, l) PROVE ExchangesAreEmpty'
    BY <1>2, <2>4 DEF BeginRaw
  <2>5. ASSUME NEW l \in Leases, BeginRedeem(r, l) PROVE ExchangesAreEmpty'
    BY <1>2, <2>5 DEF BeginRedeem
  <2> QED BY <1>5, <2>1, <2>2, <2>3, <2>4, <2>5 DEF Starting
<1>6. ASSUME NEW r \in Requests, Handling(r) PROVE ExchangesAreEmpty'
  <2>1. PICK h \in Handler :
          /\ req' = [req EXCEPT ![r] = h]
          /\ h = NoHandler \/ (h.op = req[r].op /\ h.n = req[r].n)
    BY <1>6, HandlingHandler
  <2>2. h.op = "exchange" => h.n = 0
    BY <2>1 DEF ExchangesAreEmpty
  <2> QED BY <1>2, <2>1, <2>2
<1> QED BY <1>3, <1>4, <1>5, <1>6 DEF Next

\* Bytes leak with a reservation of the row that is read, and nowhere else.
LEMMA HandlingLeaks ==
  ASSUME IInv, NEW r \in Requests, Handling(r), NEW u \in Tokens
  PROVE  \/ leakedBytes'[u] = leakedBytes[u]
         \/ u = req[r].token /\ ReservationLeaks(r)
<1>1. DOMAIN leakedBytes = Tokens
  BY DEF IInv, TypeOK
<1>2. CASE ReservationLeaks(r)
  BY <1>1, <1>2 DEF ReservationLeaks
<1>3. CASE UNCHANGED leakedBytes
  BY <1>3
<1> QED
  BY <1>2, <1>3 DEF Handling, Quit, ReserveUploadLease, CheckBeforeReserve, ReserveTokenUse,
     CheckAfterReserve, FailReserved, CreateDownloadLeaseLimited, CreateUploadLeaseLimited,
     CommitUpload, AdjustTokenUploadedBytes, ReleaseTokenUse, AdmitDownloadLease

\* Leaks are counted in bytes, and a row is empty until it is inserted.
LEMMA LeaksStep ==
  ASSUME IInv, LeaksRefer, Next
  PROVE  LeaksRefer'
<1> DEFINE Fresh(row) == row.bytes = 0 /\ row.stored = 0
           Goal(u) == /\ leakedBytes'[u] \in Nat
                      /\ ~Inserted(u)' => Fresh(token'[u]) /\ leakedBytes'[u] = 0
<1> SUFFICES ASSUME NEW u \in Tokens PROVE Goal(u)
  BY DEF LeaksRefer
<1>0. /\ token \in [Tokens -> TokenRow] /\ token[u] \in TokenRow
      /\ leakedBytes[u] \in Nat /\ DOMAIN leakedBytes = Tokens
      /\ ~Inserted(u)' => ~Inserted(u)
      /\ ~Inserted(u) => Fresh(token[u]) /\ leakedBytes[u] = 0
  BY InsertedStays DEF IInv, TypeOK, LeaksRefer
<1>1. ASSUME leakedBytes'[u] = leakedBytes[u],
             Fresh(token[u]) => Fresh(token'[u]) \/ Inserted(u)'
      PROVE  Goal(u)
  BY <1>0, <1>1
<1>2. ASSUME leakedBytes'[u] = leakedBytes[u], token'[u] = token[u] PROVE Goal(u)
  BY <1>1, <1>2
<1>3. CASE Administration
  <2>0. leakedBytes'[u] = leakedBytes[u]
    <3>1. ASSUME NEW next, RevokeBeforePublish(next) PROVE UNCHANGED leakedBytes
      BY <3>1 DEF RevokeBeforePublish
    <3>2. Publish \/ PublishFails => UNCHANGED leakedBytes
      BY DEF Publish, PublishFails
    <3>3. ASSUME NEW t \in Tokens,
                 \/ CreateTokenRead(t) \/ CreateTokenLimited(t)
                 \/ RevokeTokenAndLeases(t) \/ DeleteTokenAndLeases(t)
          PROVE  UNCHANGED leakedBytes
      BY <3>3 DEF CreateTokenRead, CreateTokenLimited, RevokeTokenAndLeases,
         DeleteTokenAndLeases
    <3> QED BY <1>3, <3>1, <3>2, <3>3 DEF Administration
  <2>1. ASSUME NEW t \in Tokens, CreateTokenRead(t) PROVE Goal(u)
    <3>1. CASE t = u
      <4>1. /\ token'[u].bytes = token[u].bytes /\ token'[u].stored = token[u].stored
        BY <1>0, <2>1, <3>1 DEF CreateTokenRead, TokenRow
      <4> QED BY <1>1, <2>0, <4>1
    <3>2. CASE t # u
      <4>1. token'[u] = token[u]
        BY <1>0, <2>1, <3>2 DEF CreateTokenRead
      <4> QED BY <1>2, <2>0, <4>1
    <3> QED BY <3>1, <3>2
  <2>2. ASSUME NEW t \in Tokens, CreateTokenLimited(t) \/ RevokeTokenAndLeases(t)
        PROVE  Goal(u)
    <3>1. token'[u].bytes = token[u].bytes /\ token'[u].stored = token[u].stored
      BY <1>0, <2>2 DEF CreateTokenLimited, RevokeTokenAndLeases, TokenRow
    <3> QED BY <1>1, <2>0, <3>1
  <2>3. ASSUME NEW t \in Tokens, DeleteTokenAndLeases(t) PROVE Goal(u)
    <3>1. token'[u] = token[u] \/ token'[u] = DeletedToken(u)
      BY <1>0, <2>3 DEF DeleteTokenAndLeases
    <3>2. DeletedToken(u).row = "deleted"
      BY DEF DeletedToken
    <3> QED BY <1>1, <1>2, <2>0, <3>1, <3>2 DEF Inserted
  <2>4. ASSUME NEW next \in Auths \cup {Absent}, RevokeBeforePublish(next) PROVE Goal(u)
    <3>1. \/ token'[u] = token[u]
          \/ token'[u] = [token[u] EXCEPT !.row = "revoked"]
      BY <2>4 DEF RevokeBeforePublish
    <3>2. token'[u].bytes = token[u].bytes /\ token'[u].stored = token[u].stored
      BY <1>0, <3>1 DEF TokenRow
    <3> QED BY <1>1, <2>0, <3>2
  <2>5. CASE Publish \/ PublishFails
    BY <1>2, <2>0, <2>5 DEF Publish, PublishFails
  <2> HIDE DEF Goal
  <2> QED BY <1>3, <2>1, <2>2, <2>3, <2>4, <2>5 DEF Administration
<1>4. CASE Passing
  <2>1. CASE Crash
    <3>1. leakedBytes'[u] = IF HasRow(u) THEN leakedBytes[u] + HeldBytes(u) ELSE 0
      BY <2>1 DEF Crash
    <3>2. leakedBytes'[u] \in Nat
      BY <1>0, <3>1, HeldType
    <3>3. token'[u] = CASE token[u].row = "draft" -> NoTokenRow
                        [] HasRow(u) -> [token[u] EXCEPT !.leaked = @ + Cardinality(Holding(u))]
                        [] OTHER -> token[u]
      BY <2>1 DEF Crash
    <3>4. ~Inserted(u) => Fresh(token'[u]) /\ ~HasRow(u)
      BY <1>0, <3>3 DEF HasRow, Inserted
    <3> QED BY <1>0, <3>1, <3>2, <3>4
  <2>2. CASE DeleteExpiredTokens
    <3>1. leakedBytes' = leakedBytes /\ (token'[u] = DeletedToken(u) \/ token'[u] = token[u])
      BY <2>2 DEF DeleteExpiredTokens
    <3>2. DeletedToken(u).row = "deleted"
      BY DEF DeletedToken
    <3> QED BY <1>1, <1>2, <3>1, <3>2 DEF Inserted
  <2>3. ASSUME NEW l \in Leases, LeaseExpires(l) PROVE Goal(u)
    BY <1>2, <2>3 DEF LeaseExpires
  <2>4. ASSUME NEW t \in Tokens, TokenExpires(t) PROVE Goal(u)
    BY <1>2, <2>4 DEF TokenExpires
  <2>5. ASSUME NEW kind, DeleteExpiredLeases(kind) PROVE Goal(u)
    BY <1>2, <2>5 DEF DeleteExpiredLeases
  <2> HIDE DEF Goal
  <2> QED BY <1>4, <2>1, <2>2, <2>3, <2>4, <2>5 DEF Passing
<1>5. ASSUME NEW r \in Requests, Starting(r) PROVE Goal(u)
  BY <1>2, <1>5, StartingHandler
<1>6. ASSUME NEW r \in Requests, Handling(r) PROVE Goal(u)
  <2>1. CASE u = req[r].token
    <3>1. Inserted(u) /\ Inserted(u)'
      BY <1>6, <2>1, HandlingHandler, InsertedStays DEF IInv, HandlersRefer
    <3>2. CASE ReservationLeaks(r)
      <4>1. \/ leakedBytes'[u] = leakedBytes[u] + req[r].n
            \/ leakedBytes'[u] = 0
        BY <1>0, <2>1, <3>2 DEF ReservationLeaks
      <4>2. req[r].n \in Nat
        BY DEF IInv, TypeOK, Handler
      <4> QED BY <1>0, <3>1, <4>1, <4>2
    <3>3. CASE leakedBytes'[u] = leakedBytes[u]
      BY <1>1, <3>1, <3>3
    <3> QED BY <1>6, <3>2, <3>3, HandlingLeaks
  <2>2. CASE u # req[r].token
    BY <1>2, <1>6, <2>2, HandlingLeaks, HandlingRows
  <2> QED BY <2>1, <2>2
<1> HIDE DEF Goal
<1> QED BY <1>3, <1>4, <1>5, <1>6 DEF Next

\* A handler's step keeps the count of bytes exact.
LEMMA HandlingBytes ==
  ASSUME IInv, BytesInv, NEW r \in Requests, Handling(r)
  PROVE  BytesExact'
<1> DEFINE t == req[r].token
<1> DEFINE Exact(u) == token'[u].bytes = HeldBytes(u)' + token'[u].stored + leakedBytes'[u]
<1> SUFFICES ASSUME NEW u \in Tokens, HasRow(u)' PROVE Exact(u)
  BY DEF BytesExact
<1>0. /\ token \in [Tokens -> TokenRow] /\ token[u] \in TokenRow
      /\ HasRow(u) /\ req[r].pc # "idle" /\ t \in Tokens
      /\ req \in [Requests -> Handler] /\ req[r] \in Handler
      /\ req[r].n \in Nat /\ req[r].got \in Nat /\ DOMAIN leakedBytes = Tokens
  BY HandlingRows, HandlingHandler DEF IInv, TypeOK, HandlersRefer, HasRow, Handler
<1>1. /\ token[u].bytes = HeldBytes(u) + token[u].stored + leakedBytes[u]
      /\ token[u].bytes \in Nat /\ token[u].stored \in Nat /\ leakedBytes[u] \in Nat
      /\ HeldBytes(u) \in Nat
  BY <1>0, HeldType DEF BytesInv, BytesExact, LeaksRefer, TokenRow
<1>2. CASE u # t
  <2>1. PICK h \in Handler : /\ req' = [req EXCEPT ![r] = h]
                             /\ h = NoHandler \/ (h.token = t /\ h.n = req[r].n)
    BY HandlingHandler
  <2>2. (h.pc \in HoldingPoints /\ h.token = u) <=> (req[r].pc \in HoldingPoints /\ t = u)
    BY <1>2, <2>1 DEF HoldingPoints
  <2>3. HeldBytes(u)' = HeldBytes(u)
    <3>1. Holding(u)' = Holding(u) /\ IsFiniteSet(Holding(u))
      BY <2>1, <2>2, HoldingSame, HoldingFinite
    <3>2. \A s \in Holding(u) : req'[s].n = req[s].n
      BY <1>0, <1>2, <2>1 DEF Holding
    <3>3. Declared(req', Holding(u)) = Declared(req, Holding(u))
      BY <3>1, <3>2, NextSame, Zenon
    <3> QED BY <3>1, <3>3, HeldIsDeclared, Zenon
  <2>4. leakedBytes'[u] = leakedBytes[u] /\ token'[u] = token[u]
    BY <1>2, HandlingLeaks, HandlingRows
  <2> QED BY <1>1, <2>3, <2>4
<1>3. ASSUME u = t, UNCHANGED <<token, leakedBytes>>, NEW h, req' = [req EXCEPT ![r] = h],
             h.pc \in HoldingPoints <=> req[r].pc \in HoldingPoints,
             h.pc \in HoldingPoints => h.token = t /\ h.n = req[r].n
      PROVE  Exact(u)
  <2>1. HeldBytes(u)' = HeldBytes(u)
    BY <1>3, HeldSame
  <2> QED BY <1>1, <1>3, <2>1
<1>4. ASSUME u = t, UNCHANGED <<token, leakedBytes>>, NEW point, Goto(r, point),
             point \in HoldingPoints <=> req[r].pc \in HoldingPoints
      PROVE  Exact(u)
  <2> DEFINE h == [req[r] EXCEPT !.pc = point]
  <2>1. h.pc = point /\ h.token = t /\ h.n = req[r].n
    BY <1>0 DEF Handler
  <2>2. req' = [req EXCEPT ![r] = h]
    BY <1>4
  <2> QED BY <1>3, <1>4, <2>1, <2>2
<1>5. ASSUME u = t, UNCHANGED <<token, leakedBytes>>, Finish(r),
             req[r].pc \notin HoldingPoints
      PROVE  Exact(u)
  BY <1>3, <1>5 DEF HoldingPoints
<1>6. ASSUME u = t, Finish(r), req[r].pc \in HoldingPoints
      PROVE  HeldBytes(u)' \in Nat /\ HeldBytes(u) = HeldBytes(u)' + req[r].n
  BY <1>6, HeldShrinks DEF HoldingPoints
<1> USE DEF HoldingPoints
<1>7. CASE u = t /\ (Quit(r) \/ AdmitDownloadLease(r))
  BY <1>5, <1>7 DEF Quit, AdmitDownloadLease
<1>8. CASE u = t /\ (ReserveUploadLease(r) \/ CheckBeforeReserve(r))
  BY <1>4, <1>8 DEF ReserveUploadLease, CheckBeforeReserve
<1>9. CASE u = t /\ (CheckAfterReserve(r) \/ FailReserved(r))
  BY <1>4, <1>9 DEF CheckAfterReserve, FailReserved
<1>10. CASE u = t /\ \E got \in Sizes \cup {0} : CommitUpload(r, got)
  <2>1. PICK got \in Sizes \cup {0} : CommitUpload(r, got)
    BY <1>10
  <2> DEFINE h == [req[r] EXCEPT !.pc = "saved", !.got = got]
  <2>2. h.pc = "saved" /\ h.token = t /\ h.n = req[r].n
    BY <1>0 DEF Handler
  <2>3. /\ req' = [req EXCEPT ![r] = h] /\ UNCHANGED <<token, leakedBytes>>
        /\ req[r].pc = "checked"
    BY <2>1 DEF CommitUpload
  <2> QED BY <1>3, <1>10, <2>2, <2>3
<1>11. CASE u = t /\ \E l \in Leases : CreateUploadLeaseLimited(r, l)
  BY <1>5, <1>11 DEF CreateUploadLeaseLimited
<1>12. CASE u = t /\ ReserveTokenUse(r)
  <2> DEFINE h == [req[r] EXCEPT !.pc = "reserved"]
  <2>1. h.pc = "reserved" /\ h.token = t /\ h.n = req[r].n
    BY <1>0 DEF Handler
  <2>2. /\ req' = [req EXCEPT ![r] = h] /\ req[r].pc \in {"looked", "ready"}
        /\ UNCHANGED leakedBytes
    BY <1>12 DEF ReserveTokenUse
  <2>3. HeldBytes(u)' = HeldBytes(u) + req[r].n
    <3> HIDE DEF h
    <3> QED BY <1>0, <1>12, <2>1, <2>2, HeldGrows
  <2>4. token'[u] = Reserved(u, req[r].n)
    BY <1>0, <1>12 DEF ReserveTokenUse
  <2>5. /\ Reserved(u, req[r].n).bytes = token[u].bytes + req[r].n
        /\ Reserved(u, req[r].n).stored = token[u].stored
    BY <1>0 DEF Reserved, TokenRow
  <2> QED BY <1>0, <1>1, <2>2, <2>3, <2>4, <2>5
<1>13. CASE u = t /\ \E l \in Leases : CreateDownloadLeaseLimited(r, l)
  <2>1. /\ Finish(r) /\ req[r].pc = "checked" /\ req[r].op = "exchange"
        /\ token' = [token EXCEPT ![u].spent = @ + 1] /\ UNCHANGED leakedBytes
    BY <1>0, <1>13 DEF CreateDownloadLeaseLimited
  <2>2. token'[u].bytes = token[u].bytes /\ token'[u].stored = token[u].stored
    BY <1>0, <2>1 DEF TokenRow
  <2>3. HeldBytes(u)' = HeldBytes(u)
    <3>1. HeldBytes(u)' \in Nat /\ HeldBytes(u) = HeldBytes(u)' + req[r].n
      BY <1>6, <1>13, <2>1
    <3>2. req[r].n = 0
      BY <2>1 DEF BytesInv, ExchangesAreEmpty
    <3> QED BY <3>1, <3>2
  <2> QED BY <1>1, <2>1, <2>2, <2>3
<1>14. CASE u = t /\ AdjustTokenUploadedBytes(r)
  <2>1. /\ Finish(r) /\ req[r].pc = "saved" /\ token'[u] = Settled(u, req[r].n, req[r].got)
        /\ UNCHANGED leakedBytes
    BY <1>0, <1>14 DEF AdjustTokenUploadedBytes
  <2>2. /\ Settled(u, req[r].n, req[r].got).bytes = Minus(token[u].bytes, req[r].n - req[r].got)
        /\ Settled(u, req[r].n, req[r].got).stored = token[u].stored + req[r].got
    BY <1>0 DEF Settled, Unstored, TokenRow
  <2>3. HeldBytes(u)' \in Nat /\ HeldBytes(u) = HeldBytes(u)' + req[r].n
    BY <1>6, <1>14, <2>1
  <2>4. req[r].got <= req[r].n
    BY <2>1 DEF IInv, HandlersRefer
  <2>5. Minus(token[u].bytes, req[r].n - req[r].got) = token[u].bytes - (req[r].n - req[r].got)
    BY <1>0, <1>1, <2>3, <2>4 DEF Minus
  <2> QED BY <1>0, <1>1, <2>1, <2>2, <2>3, <2>5
<1>15. CASE u = t /\ ReleaseTokenUse(r)
  <2>1. /\ Finish(r) /\ req[r].pc = "releasing" /\ token'[u] = Released(u, req[r].n)
        /\ UNCHANGED leakedBytes
    BY <1>0, <1>15 DEF ReleaseTokenUse
  <2>2. /\ Released(u, req[r].n).bytes = Minus(token[u].bytes, req[r].n)
        /\ Released(u, req[r].n).stored = token[u].stored
    BY <1>0 DEF Released, TokenRow
  <2>3. HeldBytes(u)' \in Nat /\ HeldBytes(u) = HeldBytes(u)' + req[r].n
    BY <1>6, <1>15, <2>1
  <2>4. Minus(token[u].bytes, req[r].n) = token[u].bytes - req[r].n
    BY <1>0, <1>1, <2>3 DEF Minus
  <2> QED BY <1>0, <1>1, <2>1, <2>2, <2>3, <2>4
<1>16. CASE u = t /\ ReservationLeaks(r)
  <2>1. /\ Finish(r) /\ req[r].pc \in {"reserved", "releasing"}
        /\ token' = [token EXCEPT ![u].leaked = @ + 1]
        /\ leakedBytes'[u] = leakedBytes[u] + req[r].n
    BY <1>0, <1>16 DEF ReservationLeaks
  <2>2. token'[u].bytes = token[u].bytes /\ token'[u].stored = token[u].stored
    BY <1>0, <2>1 DEF TokenRow
  <2>3. HeldBytes(u)' \in Nat /\ HeldBytes(u) = HeldBytes(u)' + req[r].n
    BY <1>6, <1>16, <2>1
  <2> QED BY <1>0, <1>1, <2>1, <2>2, <2>3
<1> HIDE DEF Exact
<1> QED
  BY <1>2, <1>7, <1>8, <1>9, <1>10, <1>11, <1>12, <1>13, <1>14, <1>15, <1>16 DEF Handling

\* Steps that leave the handlers alone account to no row; a row is inserted
\* empty, and a crash leaks the bytes that were held.
LEMMA OtherBytes ==
  ASSUME IInv, BytesInv, Administration \/ Passing \/ \E r \in Requests : Starting(r)
  PROVE  BytesExact'
<1> DEFINE Exact(u) == token'[u].bytes = HeldBytes(u)' + token'[u].stored + leakedBytes'[u]
<1> SUFFICES ASSUME NEW u \in Tokens, HasRow(u)' PROVE Exact(u)
  BY DEF BytesExact
<1>0. /\ token \in [Tokens -> TokenRow] /\ token[u] \in TokenRow
      /\ HeldBytes(u) \in Nat
      /\ token[u].bytes \in Nat /\ token[u].stored \in Nat /\ leakedBytes[u] \in Nat
  BY HeldType DEF IInv, TypeOK, TokenRow, BytesInv, LeaksRefer
<1>1. ASSUME HasRow(u), HeldBytes(u)' = HeldBytes(u), token'[u].bytes = token[u].bytes,
             token'[u].stored = token[u].stored, leakedBytes'[u] = leakedBytes[u]
      PROVE  Exact(u)
  BY <1>1 DEF BytesInv, BytesExact
<1>2. ASSUME UNCHANGED req PROVE HeldBytes(u)' = HeldBytes(u)
  BY <1>2, HeldStays
<1>3. CASE Administration
  <2>1. UNCHANGED <<req, leakedBytes>>
    <3>1. ASSUME NEW next, RevokeBeforePublish(next) PROVE UNCHANGED <<req, leakedBytes>>
      BY <3>1 DEF RevokeBeforePublish
    <3>2. Publish \/ PublishFails => UNCHANGED <<req, leakedBytes>>
      BY DEF Publish, PublishFails
    <3>3. ASSUME NEW t \in Tokens,
                 \/ CreateTokenRead(t) \/ CreateTokenLimited(t)
                 \/ RevokeTokenAndLeases(t) \/ DeleteTokenAndLeases(t)
          PROVE  UNCHANGED <<req, leakedBytes>>
      BY <3>3 DEF CreateTokenRead, CreateTokenLimited, RevokeTokenAndLeases,
         DeleteTokenAndLeases
    <3> QED BY <1>3, <3>1, <3>2, <3>3 DEF Administration
  <2>2. HeldBytes(u)' = HeldBytes(u) /\ leakedBytes'[u] = leakedBytes[u]
    BY <1>2, <2>1
  <2>3. ASSUME NEW t \in Tokens, CreateTokenRead(t) PROVE Exact(u)
    <3>1. t # u /\ token'[u] = token[u]
      BY <1>0, <2>3 DEF CreateTokenRead, HasRow, TokenRow
    <3> QED BY <1>1, <2>2, <3>1 DEF HasRow
  <2>4. ASSUME NEW t \in Tokens, CreateTokenLimited(t) PROVE Exact(u)
    <3>1. CASE t = u
      <4>1. ~Inserted(u) /\ token' = [token EXCEPT ![u].row = "live"]
        BY <2>4, <3>1 DEF CreateTokenLimited, Inserted
      <4>2. token'[u].bytes = 0 /\ token'[u].stored = 0 /\ leakedBytes[u] = 0
        BY <1>0, <4>1 DEF BytesInv, LeaksRefer, TokenRow
      <4>3. HeldBytes(u) = 0
        <5>1. Holding(u) = {}
          BY <4>1 DEF Holding, HoldingPoints, IInv, HandlersRefer
        <5> QED BY <5>1, HeldIsDeclared, DeclaredByNone, Zenon
      <4> QED BY <2>2, <4>2, <4>3
    <3>2. CASE t # u
      <4>1. token'[u] = token[u]
        BY <1>0, <2>4, <3>2 DEF CreateTokenLimited
      <4> QED BY <1>1, <2>2, <4>1 DEF HasRow
    <3> QED BY <3>1, <3>2
  <2>5. ASSUME NEW t \in Tokens, RevokeTokenAndLeases(t) PROVE Exact(u)
    <3>1. /\ HasRow(u) /\ token'[u].bytes = token[u].bytes
          /\ token'[u].stored = token[u].stored
      BY <1>0, <2>5 DEF RevokeTokenAndLeases, HasRow, TokenRow
    <3> QED BY <1>1, <2>2, <3>1
  <2>6. ASSUME NEW t \in Tokens, DeleteTokenAndLeases(t) PROVE Exact(u)
    <3>1. t # u /\ token'[u] = token[u]
      BY <1>0, <2>6 DEF DeleteTokenAndLeases, DeletedToken, HasRow
    <3> QED BY <1>1, <2>2, <3>1 DEF HasRow
  <2>7. ASSUME NEW next \in Auths \cup {Absent}, RevokeBeforePublish(next) PROVE Exact(u)
    <3>1. \/ UNCHANGED token
          \/ token'[u] = IF HasRow(u) THEN [token[u] EXCEPT !.row = "revoked"] ELSE token[u]
      BY <2>7 DEF RevokeBeforePublish
    <3>2. /\ HasRow(u) /\ token'[u].bytes = token[u].bytes
          /\ token'[u].stored = token[u].stored
      BY <1>0, <3>1 DEF HasRow, TokenRow
    <3> QED BY <1>1, <2>2, <3>2
  <2>8. CASE Publish \/ PublishFails
    <3>1. UNCHANGED token
      BY <2>8 DEF Publish, PublishFails
    <3> QED BY <1>1, <2>2, <3>1 DEF HasRow
  <2> HIDE DEF Exact
  <2> QED BY <1>3, <2>3, <2>4, <2>5, <2>6, <2>7, <2>8 DEF Administration
<1>4. ASSUME UNCHANGED <<token, req, leakedBytes>> PROVE Exact(u)
  BY <1>1, <1>2, <1>4 DEF HasRow
<1>5. CASE Passing
  <2>1. CASE Crash
    <3>1. token'[u] = CASE token[u].row = "draft" -> NoTokenRow
                        [] HasRow(u) -> [token[u] EXCEPT !.leaked = @ + Cardinality(Holding(u))]
                        [] OTHER -> token[u]
      BY <2>1 DEF Crash
    <3>2. HasRow(u)
      BY <3>1 DEF HasRow
    <3>3. token'[u].bytes = token[u].bytes /\ token'[u].stored = token[u].stored
      BY <1>0, <3>1, <3>2 DEF HasRow, TokenRow
    <3>4. leakedBytes'[u] = leakedBytes[u] + HeldBytes(u)
      BY <2>1, <3>2 DEF Crash
    <3>5. HeldBytes(u)' = 0
      <4>1. Holding(u)' = {}
        BY <2>1 DEF Crash, Holding, HoldingPoints
      <4>2. Declared(req', {}) = 0
        BY DeclaredByNone, Zenon
      <4> QED BY <4>1, <4>2, HeldIsDeclared, Zenon
    <3>6. token[u].bytes = HeldBytes(u) + token[u].stored + leakedBytes[u]
      BY <3>2 DEF BytesInv, BytesExact
    <3> QED BY <1>0, <3>3, <3>4, <3>5, <3>6
  <2>2. CASE DeleteExpiredTokens
    <3>1. /\ UNCHANGED <<req, leakedBytes>>
          /\ token'[u] = DeletedToken(u) \/ token'[u] = token[u]
      BY <2>2 DEF DeleteExpiredTokens
    <3>2. token'[u] = token[u]
      BY <3>1 DEF DeletedToken, HasRow
    <3> QED BY <1>1, <1>2, <3>1, <3>2 DEF HasRow
  <2>3. ASSUME NEW l \in Leases, LeaseExpires(l) PROVE Exact(u)
    BY <1>4, <2>3 DEF LeaseExpires
  <2>4. ASSUME NEW t \in Tokens, TokenExpires(t) PROVE Exact(u)
    BY <1>4, <2>4 DEF TokenExpires
  <2>5. ASSUME NEW kind, DeleteExpiredLeases(kind) PROVE Exact(u)
    BY <1>4, <2>5 DEF DeleteExpiredLeases
  <2> HIDE DEF Exact
  <2> QED BY <1>5, <2>1, <2>2, <2>3, <2>4, <2>5 DEF Passing
<1>6. ASSUME NEW r \in Requests, Starting(r) PROVE Exact(u)
  <2>1. PICK h \in Handler : req' = [req EXCEPT ![r] = h] /\ h.pc = "looked"
    BY <1>6, StartingHandler
  <2>2. UNCHANGED <<token, leakedBytes>> /\ req[r].pc = "idle"
    BY <1>6, StartingHandler
  <2>3. HeldBytes(u)' = HeldBytes(u)
    BY <2>1, <2>2, HeldSame DEF HoldingPoints
  <2> QED BY <1>1, <2>2, <2>3 DEF HasRow
<1> QED BY <1>3, <1>5, <1>6

\* The column uploaded_bytes of every token always counts exactly the bytes of
\* finished uploads, the bytes that running uploads have declared, and those of
\* reservations leaked by a crash or a failed release: a settlement gives back
\* what was declared and not stored, whatever else counts in the same column.
THEOREM BytesAreExact == Spec => []BytesExact
<1>1. Init => BytesInv
  BY DEF Init, BytesInv, BytesExact, HasRow, ExchangesAreEmpty, LeaksRefer
<1>2. IInv /\ BytesInv /\ UNCHANGED vars => BytesInv'
  <2> SUFFICES ASSUME IInv, BytesInv, UNCHANGED vars PROVE BytesInv'
    OBVIOUS
  <2>1. \A t : HeldBytes(t)' = HeldBytes(t)
    BY HeldStays DEF vars
  <2> QED BY <2>1 DEF BytesInv, BytesExact, HasRow, ExchangesAreEmpty, LeaksRefer, Inserted, vars
<1>3. IInv /\ BytesInv /\ Next => BytesInv'
  BY HandlingBytes, OtherBytes, ExchangesStep, LeaksStep DEF BytesInv, Next
<1>4. BytesInv => BytesExact
  BY DEF BytesInv
<1> QED BY <1>1, <1>2, <1>3, <1>4, Invariance, PTL DEF Spec

-----------------------------------------------------------------------------
(* An upload lease is good for one upload.                                  *)

\* A raw upload past the reservation of its lease l that may still store a file.
UsePoints == {"burned", "ready", "reserved", "checked"}
InUse(r, l) == req[r].op = "raw" /\ req[r].lease = l /\ req[r].pc \in UsePoints

\* A lease that nobody has reserved has no user and no file, a lease with a
\* file has no user, and two users of one lease are the same request.
LeaseUse(l) ==
  /\ lease[l].uploads \in {0, 1}
  /\ lease[l].row \in {"none", "live"} \/ lease[l].uploads = 1 =>
       \A r \in Requests : ~InUse(r, l)
  /\ lease[l].row \in {"none", "live"} => lease[l].uploads = 0
  /\ \A r, s \in Requests : InUse(r, l) /\ InUse(s, l) => r = s

UseInv == \A l \in Leases : LeaseUse(l)

\* The row of l after a step that stores no file for it: no other row becomes
\* one that nobody has reserved.
Settling(l) ==
  /\ lease'[l].uploads = lease[l].uploads
  /\ lease'[l].row \in {"none", "live"} => lease[l].row \in {"none", "live"}

LEMMA RowsSettle ==
  ASSUME IInv, UseInv, Next, NEW l \in Leases
  PROVE  \/ Settling(l)
         \/ \E r \in Requests, got \in Sizes \cup {0} : CommitUpload(r, got) /\ req[r].op = "raw"
<1> DEFINE Stores == \E r \in Requests, got \in Sizes \cup {0} :
                       CommitUpload(r, got) /\ req[r].op = "raw"
<1>0. lease \in [Leases -> LeaseRow] /\ \A k \in Leases : lease[k] \in LeaseRow
  BY DEF IInv, TypeOK
<1>1. ASSUME UNCHANGED lease PROVE Settling(l)
  BY <1>1 DEF Settling
<1>2. ASSUME lease'[l] = DeletedLease(l) \/ lease'[l] = lease[l] PROVE Settling(l)
  BY <1>2 DEF Settling, DeletedLease
<1>3. ASSUME NEW S, lease' = RemoveLeasesOf(S) PROVE Settling(l)
  BY <1>2, <1>3 DEF RemoveLeasesOf
<1>5. ASSUME NEW k \in Leases, NEW kind, NEW o, NEW n, NewLease(k, kind, o, n)
      PROVE  Settling(l)
  <2>1. CASE k = l
    <3>1. lease[l].row = "none" /\ lease[l].uploads = 0
      BY <1>5, <2>1 DEF NewLease, UseInv, LeaseUse
    <3>2. lease'[l] = [NoLeaseRow EXCEPT !.row = "live", !.kind = kind, !.token = o, !.size = n]
      BY <1>0, <1>5, <2>1 DEF NewLease
    <3>3. lease'[l].uploads = 0
      BY <3>2
    <3> QED BY <3>1, <3>3 DEF Settling
  <2>2. CASE k # l
    BY <1>0, <1>5, <2>2 DEF NewLease, Settling
  <2> QED BY <2>1, <2>2
<1>6. ASSUME NEW k \in Leases, LeaseExpires(k) PROVE Settling(l)
  BY <1>0, <1>6 DEF LeaseExpires, LeaseRow, Settling
<1>7. ASSUME NEW kind, DeleteExpiredLeases(kind) PROVE Settling(l)
  BY <1>2, <1>7 DEF DeleteExpiredLeases
<1>8. ASSUME Administration PROVE Settling(l)
  <2>1. ASSUME NEW next, RevokeBeforePublish(next) PROVE Settling(l)
    BY <1>1, <1>3, <2>1 DEF RevokeBeforePublish
  <2>2. Publish \/ PublishFails => Settling(l)
    BY <1>1 DEF Publish, PublishFails
  <2>3. ASSUME NEW t \in Tokens,
               \/ CreateTokenRead(t) \/ CreateTokenLimited(t)
               \/ RevokeTokenAndLeases(t) \/ DeleteTokenAndLeases(t)
        PROVE  Settling(l)
    BY <1>1, <1>3, <2>3
    DEF CreateTokenRead, CreateTokenLimited, RevokeTokenAndLeases, DeleteTokenAndLeases
  <2> QED BY <1>8, <2>1, <2>2, <2>3 DEF Administration
<1>9. ASSUME Passing PROVE Settling(l)
  BY <1>1, <1>3, <1>6, <1>7, <1>9 DEF Passing, TokenExpires, DeleteExpiredTokens, Crash
<1>10. ASSUME NEW r \in Requests, Starting(r) PROVE Settling(l)
  BY <1>1, <1>10, StartingHandler
<1>11. ASSUME NEW r \in Requests, Handling(r) PROVE Settling(l) \/ Stores
  <2>1. CASE ReserveUploadLease(r)
    BY <1>0, <2>1 DEF ReserveUploadLease, Outstanding, LeaseRow, Settling
  <2>2. ASSUME NEW got \in Sizes \cup {0}, CommitUpload(r, got) PROVE Settling(l) \/ Stores
    BY <1>1, <2>2 DEF CommitUpload
  <2>3. ASSUME NEW k \in Leases, CreateDownloadLeaseLimited(r, k) PROVE Settling(l)
    BY <1>5, <2>3 DEF CreateDownloadLeaseLimited
  <2>4. ASSUME NEW k \in Leases, CreateUploadLeaseLimited(r, k) PROVE Settling(l)
    BY <1>5, <2>4 DEF CreateUploadLeaseLimited
  <2> HIDE DEF Stores
  <2> QED
    BY <1>1, <1>11, <2>1, <2>2, <2>3, <2>4 DEF Handling, Quit, CheckBeforeReserve,
       ReserveTokenUse, CheckAfterReserve, FailReserved, AdjustTokenUploadedBytes,
       ReleaseTokenUse, ReservationLeaks, AdmitDownloadLease
<1> QED BY <1>8, <1>9, <1>10, <1>11 DEF Next

\* Only the reservation of the lease makes a request its user.
LEMMA UsersEnter ==
  ASSUME IInv, Next, NEW l \in Leases, NEW r \in Requests, InUse(r, l)'
  PROVE  InUse(r, l) \/ (ReserveUploadLease(r) /\ req[r].lease = l)
<1>0. req \in [Requests -> Handler] /\ req[r] \in Handler
  BY DEF IInv, TypeOK
<1>1. CASE Administration \/ Passing
  <2>1. Administration => UNCHANGED req
    BY DEF Administration, CreateTokenRead, CreateTokenLimited, RevokeTokenAndLeases,
       DeleteTokenAndLeases, RevokeBeforePublish, Publish, PublishFails
  <2>2. Passing => UNCHANGED req \/ Crash
    BY DEF Passing, TokenExpires, LeaseExpires, DeleteExpiredTokens, DeleteExpiredLeases
  <2>3. Crash => ~InUse(r, l)'
    BY DEF Crash, InUse
  <2> QED BY <1>1, <2>1, <2>2, <2>3 DEF InUse
<1>2. ASSUME NEW s \in Requests, Starting(s) PROVE InUse(r, l)
  <2>1. PICK h : req' = [req EXCEPT ![s] = h] /\ h.pc = "looked"
    BY <1>2, StartingHandler
  <2>2. s # r
    BY <1>0, <2>1 DEF InUse, UsePoints
  <2> QED BY <1>0, <2>1, <2>2 DEF InUse
<1>3. ASSUME NEW s \in Requests, Handling(s)
      PROVE  InUse(r, l) \/ (ReserveUploadLease(r) /\ req[r].lease = l)
  <2>1. PICK h : /\ req' = [req EXCEPT ![s] = h]
                 /\ h = NoHandler \/ (h.op = req[s].op /\ h.lease = req[s].lease)
    BY <1>3, HandlingHandler
  <2>2. CASE s # r
    BY <1>0, <2>1, <2>2 DEF InUse
  <2>3. CASE s = r
    <3>1. req'[r] = h /\ h # NoHandler
      BY <1>0, <2>1, <2>3 DEF InUse, UsePoints
    <3>2. req[r].op = "raw" /\ req[r].lease = l /\ req'[r].pc \in UsePoints
      BY <2>1, <2>3, <3>1 DEF InUse
    <3>3. ~Finish(r)
      BY <1>0, <3>2 DEF UsePoints
    <3>4. CASE req[r].pc \in UsePoints
      BY <3>2, <3>4 DEF InUse
    <3>5. CASE req[r].pc \notin UsePoints /\ ~ReserveUploadLease(r)
      <4> USE DEF UsePoints
      <4>1. ~CheckBeforeReserve(r) /\ ~ReserveTokenUse(r) /\ ~CheckAfterReserve(r)
        BY <3>2, <3>5 DEF CheckBeforeReserve, ReserveTokenUse, CheckAfterReserve
      <4>2. ~FailReserved(r)
        BY <1>0, <3>2, <3>5 DEF FailReserved, Handler
      <4>3. \A got : ~CommitUpload(r, got)
        BY <3>5 DEF CommitUpload
      <4> QED
        BY <1>3, <2>3, <3>3, <3>5, <4>1, <4>2, <4>3 DEF Handling, Quit,
           CreateDownloadLeaseLimited, CreateUploadLeaseLimited, AdjustTokenUploadedBytes,
           ReleaseTokenUse, ReservationLeaks, AdmitDownloadLease
    <3> QED BY <3>2, <3>4, <3>5
  <2> QED BY <2>2, <2>3
<1> QED BY <1>1, <1>2, <1>3 DEF Next

LEMMA UseStep ==
  ASSUME IInv, UseInv, Next PROVE UseInv'
<1> SUFFICES ASSUME NEW l \in Leases PROVE LeaseUse(l)'
  BY DEF UseInv
<1>0. /\ lease \in [Leases -> LeaseRow] /\ req \in [Requests -> Handler]
      /\ LeaseUse(l) /\ lease[l] \in LeaseRow
  BY DEF IInv, TypeOK, UseInv
<1>1. ASSUME NEW r \in Requests, NEW got, CommitUpload(r, got), req[r].op = "raw"
      PROVE  LeaseUse(l)'
  <2>1. InUse(r, req[r].lease)
    BY <1>1 DEF CommitUpload, InUse, UsePoints
  <2>2. /\ lease' = [lease EXCEPT ![req[r].lease].uploads = @ + 1]
        /\ req' = [req EXCEPT ![r] = [@ EXCEPT !.pc = "saved", !.got = got]]
    BY <1>1 DEF CommitUpload
  <2>3. /\ req'[r].pc = "saved"
        /\ \A s \in Requests \ {r} : req'[s] = req[s]
    BY <1>0, <2>2 DEF Handler
  <2>4. ~InUse(r, l)' /\ \A s \in Requests \ {r} : InUse(s, l)' => InUse(s, l)
    BY <2>3 DEF InUse, UsePoints
  <2>5. CASE req[r].lease # l
    <3>1. lease'[l] = lease[l]
      BY <1>0, <2>2, <2>5
    <3> QED BY <1>0, <2>4, <3>1 DEF LeaseUse
  <2>6. CASE req[r].lease = l
    <3>1. lease[l].row \notin {"none", "live"} /\ lease[l].uploads = 0
      BY <1>0, <2>1, <2>6 DEF LeaseUse
    <3>2. lease'[l].row = lease[l].row /\ lease'[l].uploads = 1
      BY <1>0, <2>2, <2>6, <3>1 DEF LeaseRow
    <3>3. \A s \in Requests : ~InUse(s, l)'
      BY <1>0, <2>1, <2>4, <2>6 DEF LeaseUse
    <3> QED BY <3>1, <3>2, <3>3 DEF LeaseUse
  <2> QED BY <2>5, <2>6
<1>2. ASSUME NEW r \in Requests, ReserveUploadLease(r), req[r].lease = l
      PROVE  LeaseUse(l)'
  <2>1. lease[l].row = "live" /\ \A s \in Requests : ~InUse(s, l)
    BY <1>0, <1>2 DEF ReserveUploadLease, Outstanding, LeaseUse
  <2>2. lease'[l].row = "used" /\ lease'[l].uploads = 0
    BY <1>0, <1>2, <2>1 DEF ReserveUploadLease, LeaseUse, LeaseRow
  <2>3. \A s \in Requests \ {r} : ~InUse(s, l)'
    BY <1>0, <1>2, <2>1 DEF ReserveUploadLease, InUse
  <2> QED BY <2>2, <2>3 DEF LeaseUse
<1>3. ASSUME Settling(l), \A r \in Requests : InUse(r, l)' => InUse(r, l)
      PROVE  LeaseUse(l)'
  BY <1>0, <1>3 DEF Settling, LeaseUse
<1>4. \/ \A r \in Requests : InUse(r, l)' => InUse(r, l)
      \/ \E r \in Requests : ReserveUploadLease(r) /\ req[r].lease = l
  BY UsersEnter
<1> QED BY <1>1, <1>2, <1>3, <1>4, RowsSettle

\* However many requests present one upload lease, and wherever they are
\* overtaken by its deletion, at most one gets past its reservation with the
\* file still to store, or one file has been stored and none can follow
\* (store.go, the conditional UPDATE of ReserveUploadLease).
THEOREM LeasesServeOneUpload == Spec => []OneUploadPerLease
<1>1. Init => UseInv
  BY DEF Init, UseInv, LeaseUse, InUse
<1>2. IInv /\ UseInv /\ UNCHANGED vars => UseInv'
  BY DEF UseInv, LeaseUse, InUse, vars
<1>3. IInv /\ UseInv /\ Next => UseInv'
  BY UseStep
<1>4. IInv /\ UseInv => OneUploadPerLease
  <2> SUFFICES ASSUME IInv, UseInv, NEW l \in Leases
               PROVE  Cardinality({r \in Presenting(l) : req[r].pc \notin {"saved", "releasing"}})
                        + lease[l].uploads <= 1
    BY DEF OneUploadPerLease
  <2> DEFINE Users == {r \in Presenting(l) : req[r].pc \notin {"saved", "releasing"}}
  <2>1. \A r \in Users : r \in Requests /\ InUse(r, l)
    BY DEF Presenting, InUse, UsePoints, IInv, TypeOK, Handler, Points
  <2>2. LeaseUse(l)
    BY DEF UseInv
  <2>3. CASE Users = {}
    <3>1. Cardinality(Users) = 0
      BY <2>3, FS_EmptySet
    <3> QED BY <2>2, <3>1 DEF LeaseUse
  <2>4. ASSUME NEW r \in Users PROVE Cardinality(Users) + lease[l].uploads <= 1
    <3>1. Users = {r} /\ lease[l].uploads = 0
      BY <2>1, <2>2, <2>4 DEF LeaseUse
    <3>2. Cardinality(Users) = 1
      BY <3>1, FS_Singleton
    <3> HIDE DEF Users
    <3> QED BY <3>1, <3>2
  <2> QED BY <2>3, <2>4
<1> QED BY <1>1, <1>2, <1>3, <1>4, Invariance, PTL DEF Spec
=============================================================================
