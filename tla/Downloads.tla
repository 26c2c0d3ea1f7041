----------------------------- MODULE Downloads -----------------------------
(***************************************************************************)
(* Downloads with the leases of Accounts.  The first requests of a lease   *)
(* share one verification of the file (ensureDownloadLeaseFirstUse); the   *)
(* file may be replaced, the account disabled and the lease expire at any  *)
(* moment.                                                                 *)
(***************************************************************************)
EXTENDS Accounts

CONSTANTS
  Visits,    \* requests of downloadByLease
  NoVisit, NoTicket,
  Versions,  \* what may be at the path: an inode with a size and a time
  Look,      \* the size and time of a version
  Content,   \* the hash of a version
  NoVersion,
  HashSlots  \* Downloads.MaxConcurrentHashes

ASSUME DownloadsAssumption ==
  /\ IsFiniteSet(Visits) /\ NoVisit \notin Visits /\ NoTicket \notin Leases
  /\ NoVersion \notin Versions
  /\ HashSlots \in Nat \ {0}

VARIABLES
  file,        \* the version at the path
  verifyEvery, \* Downloads.VerifyHashOnEveryRequest
  bound,       \* the version each lease was minted for, NoVersion without one
  hashed,      \* the leases whose row has a hash: not those of large files
  visit,       \* the requests under way
  flights      \* downloadHashFlights: the leader of each

downloadVars == <<file, verifyEvery, bound, hashed, visit, flights>>

(***************************************************************************)
(* Where a request is:                                                     *)
(*   join        it found the lease unused                                 *)
(*   waiting     another leads the flight                                  *)
(*   reread      it leads                                                  *)
(*   hash        it asks for a place to hash in; hashing: it reads         *)
(*   revalidate  the file at the path is compared with seen                *)
(*   mark        it is about to record the first use                       *)
(*   admit       only AdmitDownloadLease is left; serving: sending         *)
(* mode: "first" on the way to the first use, "later" of a used lease.     *)
(***************************************************************************)
Visit(at, lease, mode, seen) == [at |-> at, lease |-> lease, mode |-> mode, seen |-> seen]
Away == Visit("idle", NoTicket, "later", NoVersion)
VisitPoints ==
  {"idle", "join", "waiting", "reread", "hash", "hashing", "revalidate", "mark", "admit", "serving"}

DownloadsTypeOK ==
  /\ file \in Versions /\ verifyEvery \in BOOLEAN
  /\ bound \in [Leases -> Versions \cup {NoVersion}]
  /\ hashed \in SUBSET Leases
  /\ visit \in [Visits -> [at : VisitPoints, lease : Leases \cup {NoTicket},
                           mode : {"first", "later"},
                           seen : Versions \cup {NoVersion}]]
  /\ flights \in [Leases -> Visits \cup {NoVisit}]
  /\ \A l \in Leases :
       /\ leases[l].kind = "download" => bound[l] \in Versions
       /\ leases[l].kind = "none" => leases[l] = NoLease

DownloadsInit ==
  /\ file \in Versions /\ verifyEvery \in BOOLEAN
  /\ bound = [l \in Leases |-> NoVersion]
  /\ hashed = {}
  /\ visit = [v \in Visits |-> Away]
  /\ flights = [l \in Leases |-> NoVisit]

Ticket(v) == visit[v].lease
Row(v) == leases[Ticket(v)]
Leads(v) == \E l \in Leases : flights[l] = v
Hashing == {v \in Visits : visit[v].at = "hashing"}
Proceed(v, at) == visit' = [visit EXCEPT ![v].at = at]
KeepFile == UNCHANGED <<file, verifyEvery, bound, hashed>>

\* Somebody outside changes the file; a version moved away may come back.
FileChanges(f) ==
  /\ f # file /\ file' = f
  /\ UNCHANGED <<verifyEvery, bound, hashed, visit, flights>>
  /\ UNCHANGED accountVars

\* The lease is bound to the version that was hashed and found unchanged.
MintDownload(r, l, withHash) ==
  /\ req[r].op = "download"
  /\ \A v \in Visits : Ticket(v) # l
  /\ CreateLeaseLimited(r, l)
  /\ bound' = [bound EXCEPT ![l] = file]
  /\ hashed' = IF withHash THEN hashed \cup {l} ELSE hashed \ {l}
  /\ UNCHANGED <<file, verifyEvery, visit, flights>>

\* Once the lease needs a hash: verifyDownloadLeaseContent.
Verify(v) == IF Ticket(v) \in hashed THEN "hash" ELSE "revalidate"

Arrive(v, l) ==
  /\ visit[v] = Away
  /\ leases[l].kind = "download"
  /\ Look[file] = Look[bound[l]]
  /\ visit' = [visit EXCEPT ![v] =
       Visit(IF ~leases[l].used THEN "join"
             ELSE IF verifyEvery /\ l \in hashed THEN "hash" ELSE "revalidate",
             l, IF leases[l].used THEN "later" ELSE "first", file)]
  /\ KeepFile /\ UNCHANGED flights /\ UNCHANGED accountVars

JoinOrLead(v) ==
  /\ visit[v].at = "join"
  /\ IF flights[Ticket(v)] # NoVisit
     THEN Proceed(v, "waiting") /\ UNCHANGED flights
     ELSE flights' = [flights EXCEPT ![Ticket(v)] = v] /\ Proceed(v, "reread")
  /\ KeepFile /\ UNCHANGED accountVars

\* The flight is over: it leaves the map, and its outcome reaches the leader and
\* all who wait.  They look at the file again, with the version the leader saw.
Deliver(v, leader, waiter) ==
  visit' = [w \in Visits |->
    IF w = v THEN leader
    ELSE IF visit[w].at = "waiting" /\ Ticket(w) = Ticket(v) THEN waiter
    ELSE visit[w]]

Fail(v) ==
  IF Leads(v)
  THEN /\ Deliver(v, Away, Away)
       /\ flights' = [flights EXCEPT ![Ticket(v)] = NoVisit]
  ELSE visit' = [visit EXCEPT ![v] = Away] /\ UNCHANGED flights

Land(v) ==
  /\ Deliver(v, [visit[v] EXCEPT !.at = "admit"],
             [visit[v] EXCEPT !.at = "revalidate"])
  /\ flights' = [flights EXCEPT ![Ticket(v)] = NoVisit]

\* The row is read again: an earlier flight may have made the first use.
Reread(v) ==
  /\ visit[v].at = "reread"
  /\ IF Row(v) = NoLease THEN Fail(v)
     ELSE /\ visit' = [visit EXCEPT ![v] =
               [@ EXCEPT !.mode = IF Row(v).used THEN "later" ELSE "first",
                         !.at = IF Row(v).used /\ ~verifyEvery THEN "revalidate"
                                ELSE Verify(v)]]
          /\ UNCHANGED flights
  /\ KeepFile /\ UNCHANGED accountVars

\* Whoever finds no place to hash in is told so, and all who wait for it.
AcquireHashSlot(v) ==
  /\ visit[v].at = "hash"
  /\ IF Cardinality(Hashing) < HashSlots
     THEN /\ visit' = [visit EXCEPT ![v] = [@ EXCEPT !.at = "hashing", !.seen = file]]
          /\ UNCHANGED flights
     ELSE Fail(v)
  /\ KeepFile /\ UNCHANGED accountVars

SkipTheHash(v) ==
  /\ visit[v].at = "hashing"
  /\ IF visit[v].seen = file THEN Proceed(v, "revalidate") /\ UNCHANGED flights ELSE Fail(v)
  /\ KeepFile /\ UNCHANGED accountVars
\* The file was the same before and after it was read, and had the content.
CompareHash(v) ==
  /\ visit[v].at = "hashing"
  /\ IF visit[v].seen = file /\ Content[file] = Content[bound[Ticket(v)]]
     THEN Proceed(v, "revalidate") /\ UNCHANGED flights
     ELSE Fail(v)
  /\ KeepFile /\ UNCHANGED accountVars

RevalidateDownloadFile(v) ==
  /\ visit[v].at = "revalidate"
  /\ IF visit[v].seen # file THEN Fail(v)
     ELSE IF ~Leads(v) THEN Proceed(v, "admit") /\ UNCHANGED flights
     ELSE IF visit[v].mode = "first" THEN Proceed(v, "mark") /\ UNCHANGED flights
     ELSE Land(v)
  /\ KeepFile /\ UNCHANGED accountVars

\* An UPDATE that finds no row, or a used one, changes nothing and is no error.
MarkFirstUsed(v) ==
  /\ visit[v].at = "mark"
  /\ leases' = IF Row(v) = NoLease THEN leases
               ELSE [leases EXCEPT ![Ticket(v)].used = TRUE]
  /\ Land(v)
  /\ KeepFile /\ UNCHANGED <<users, sessions, req, slots>>

AbandonWaiters(v) ==
  /\ Leads(v)
  /\ visit' = [visit EXCEPT ![v] = Away] /\ UNCHANGED flights
  /\ KeepFile /\ UNCHANGED accountVars
LeaderPanics(v) ==
  /\ Leads(v)
  /\ Fail(v)
  /\ KeepFile /\ UNCHANGED accountVars

AdmitDownloadLease(v) ==
  /\ visit[v].at = "admit"
  /\ visit' = [visit EXCEPT ![v] =
       IF Row(v) # NoLease /\ Admissible(Ticket(v)) THEN [@ EXCEPT !.at = "serving"] ELSE Away]
  /\ KeepFile /\ UNCHANGED flights /\ UNCHANGED accountVars

Sent(v) ==
  /\ visit[v].at = "serving"
  /\ visit' = [visit EXCEPT ![v] = Away]
  /\ KeepFile /\ UNCHANGED flights /\ UNCHANGED accountVars

VisitStep(v) ==
  \/ \E l \in Leases : Arrive(v, l)
  \/ JoinOrLead(v) \/ Reread(v) \/ AcquireHashSlot(v) \/ CompareHash(v)
  \/ RevalidateDownloadFile(v) \/ MarkFirstUsed(v) \/ LeaderPanics(v)
  \/ AdmitDownloadLease(v) \/ Sent(v)

\* The accounts go on as before, but for the leases that are minted here.
MintsDownload ==
  \E r \in Requests : req[r].op = "download" /\ req[r].at = "mint" /\ req'[r] = NoRequest
DownloadsNext ==
  \/ AccountsNext /\ ~MintsDownload /\ UNCHANGED downloadVars
  \/ \E r \in Requests, l \in Leases, withHash \in BOOLEAN : MintDownload(r, l, withHash)
  \/ \E f \in Versions : FileChanges(f)
  \/ \E v \in Visits : VisitStep(v)

DownloadsSpec == Init /\ DownloadsInit /\ [][DownloadsNext]_<<accountVars, downloadVars>>

-----------------------------------------------------------------------------
(* Properties.                                                              *)

\* Whatever the flights, their failures and the replacements of the file, the
\* file a request last looked at before it was admitted had the content of its
\* lease: always when every request is verified, and on first use otherwise
\* (backend README: the file is verified again before it is sent).
ServedIsLeased ==
  [][\A v \in Visits :
       (/\ visit[v].at = "revalidate" /\ visit'[v].at \in {"admit", "mark"}
        /\ Ticket(v) \in hashed /\ (verifyEvery \/ visit[v].mode = "first"))
       => Content[file] = Content[bound[Ticket(v)]]]_<<accountVars, downloadVars>>

\* Whoever waits is led by a request that is still on its way, so that no wait
\* is for ever; and the first use of a lease is verified by one request only.
WaitersAreLed ==
  /\ \A v \in Visits : visit[v].at = "waiting" => flights[Ticket(v)] # NoVisit
  /\ \A l \in Leases : flights[l] # NoVisit =>
       /\ Ticket(flights[l]) = l
       /\ visit[flights[l]].at \in {"reread", "hash", "hashing", "revalidate", "mark"}
  /\ \A v \in Visits : visit[v].at = "mark" => flights[Ticket(v)] = v
=============================================================================
