------------------------------ MODULE ChatSync ------------------------------
(***************************************************************************)
(* A client that follows the chat by polling (useChatFeed.ts) against the  *)
(* chat tables that other users, administrators and the retention change.  *)
(*                                                                         *)
(* The client runs to completion between two awaits, so it takes one step  *)
(* per user action, timer, visibility change or answer.  Its requests are  *)
(* served at any later moment, each by one snapshot or one transaction of  *)
(* the store, and their answers arrive in any order, late, or not at all.  *)
(***************************************************************************)
EXTENDS ChatStore

CONSTANTS
  Slots,            \* the requests of the client in flight at the same time
  HistoryLimit,     \* messages in a page of the history
  ChangesLimit,     \* changes in a page of the changes
  MaxChangePages,   \* maxChangePagesPerSync
  MaxResets,        \* maxConsecutiveResets
  OwnOps,           \* the mutations this client sends
  OtherOps,         \* those of everybody else, the retention included
  MaxOwn,           \* bound: mutations sent at the same time
  MaxDisturbances,  \* bound: failed requests, hidden pages, reloads, changes of subject
  MaxGeneration     \* bound: removals of messages

ASSUME SyncAssumption ==
  /\ HistoryLimit \in Nat \ {0} /\ ChangesLimit \in Nat \ {0}
  /\ MaxChangePages \in Nat \ {0} /\ MaxResets \in Nat \ {0}
  /\ MaxOwn \in Nat /\ MaxDisturbances \in Nat /\ MaxGeneration \in Nat \ {0}
  /\ OwnOps \subseteq {"send", "withdraw", "delete", "batch", "clear"}
  /\ OtherOps \subseteq {"send", "withdraw", "delete", "clear", "cleanup"}

VARIABLES
  feed,  \* the state of the composable, apart from the messages
  view,  \* the message shown under every id, and its watermark
  net,   \* the requests in flight
  disturbances

vars == <<msgs, chg, gen, feed, view, net, disturbances>>

Subjects == {"A", "B"}

\* Of the changes and the history a page wins over a mutation of the same seq.
Priority == [mutation |-> 0, older |-> 1, history |-> 1, changes |-> 2]

NotShown == [status |-> "none", seq |-> 0, priority |-> 0, subject |-> "A"]
Row == [id : Ids, status : Statuses, seq : Nat]

(***************************************************************************)
(* generation 0 is null, before 0 says that there is no older page.  timer *)
(* is the poll that is scheduled, active the binding (not authorization-   *)
(* Blocked), blocked is resetBlocked, streak is resetStreak.               *)
(***************************************************************************)
Feed == [subject : Subjects, active : BOOLEAN, visible : BOOLEAN, initialized : BOOLEAN,
         generation : Nat, cursor : Nat, latest : Nat, before : Nat,
         streak : Nat, blocked : BOOLEAN, timer : BOOLEAN]

(***************************************************************************)
(* A request: stale once stateRevision has moved on or a newer request of  *)
(* its kind was sent; generation and subject those of the client when it   *)
(* was sent; at where it reads from, or up to where it clears; ids the     *)
(* messages it changes; pages how many pages of changes this poll has      *)
(* asked for; reply its answer.                                            *)
(***************************************************************************)
Kinds == {"none", "history", "older", "changes", "send", "withdraw", "delete", "batch",
          "clear"}
Phases == {"free", "sent", "answered", "resetRequired"}
NoReply == [gen |-> 0, latest |-> 0, next |-> 0, rows |-> {}]
NoRequest == [kind |-> "none", phase |-> "free", stale |-> FALSE, generation |-> 0,
              subject |-> "A", at |-> 0, ids |-> {}, pages |-> 0, reply |-> NoReply]

TypeOK ==
  /\ StoreTypeOK
  /\ feed \in Feed /\ feed.cursor <= feed.latest
  /\ view \in [Ids -> [status : Statuses \cup {"none"}, seq : Nat, priority : 0..2,
                       subject : Subjects]]
  /\ \A s \in Slots :
       /\ net[s].kind \in Kinds /\ net[s].phase \in Phases
       /\ net[s].stale \in BOOLEAN /\ net[s].subject \in Subjects
       /\ net[s].ids \subseteq Ids /\ net[s].reply.rows \subseteq Row
  /\ disturbances \in 0..MaxDisturbances

-----------------------------------------------------------------------------
(* The client between two awaits: functions of its state.                   *)

\* schedule() replaces the timer, or only clears it.
Scheduled(f) ==
  [f EXCEPT !.timer = f.active /\ f.initialized /\ ~f.blocked /\ f.visible]

\* invalidateProjectionState, but for the requests.
Cleared(f) ==
  [f EXCEPT !.initialized = FALSE, !.generation = 0, !.cursor = 0, !.latest = 0,
            !.before = 0, !.blocked = FALSE, !.timer = FALSE]

NothingShown == [i \in Ids |-> NotShown]

\* Requests in flight are aborted; an answer that is already there will still
\* be delivered.
Aborted(n) ==
  [s \in Slots |-> IF n[s].phase \in {"answered", "resetRequired"}
                   THEN [n[s] EXCEPT !.stale = TRUE] ELSE NoRequest]

Request(f, kind, at, pages) ==
  [NoRequest EXCEPT !.kind = kind, !.phase = "sent", !.generation = f.generation,
                    !.subject = f.subject, !.at = at, !.pages = pages]

\* requestContextIsCurrent
CurrentAlways(r) == TRUE
Current(r) ==
  /\ ~r.stale /\ r.generation = feed.generation /\ r.subject = feed.subject
  /\ feed.active

Running(kind) == {s \in Slots : net[s].kind = kind /\ ~net[s].stale}
Free(n) == {s \in Slots : n[s].phase = "free"}

\* chatWatermarkIsNewer.  Watermarks of one generation only are kept together.
Newer(shown, seq, priority) ==
  \/ shown.status = "none"
  \/ seq > shown.seq
  \/ seq = shown.seq /\ priority > shown.priority

\* applyVersionedMessages: of several rows of a message the last one stays.
Applied(v, rows, priority, subject) ==
  [i \in Ids |->
     LET seqs == {r.seq : r \in {x \in rows : x.id = i}} IN
     IF seqs = {} \/ ~Newer(v[i], Max(seqs), priority) THEN v[i]
     ELSE LET row == CHOOSE x \in rows : x.id = i /\ x.seq = Max(seqs) IN
          [status |-> row.status, seq |-> row.seq, priority |-> priority,
           subject |-> subject]]

\* loadLatestHistory in the state f, the slot s of n being free: an earlier
\* request for the history is aborted and no longer counts.
Sent(n, s, request) == [n EXCEPT ![s] = request]
LoadHistory(f, n, s) ==
  /\ feed' = f
  /\ net' = Sent([t \in Slots |->
                    CASE n[t].kind # "history" -> n[t]
                      [] n[t].kind = "history" /\ n[t].phase = "sent" -> NoRequest
                      [] OTHER -> [n[t] EXCEPT !.stale = TRUE]],
                 s, Request(f, "history", 0, 0))

\* replaceFromLatestHistory
Restart(f, n, s) ==
  /\ LoadHistory(Cleared(f), Aborted(n), s)
  /\ view' = NothingShown

\* handleCursorReset: after too many resets in a row the client gives up.
HandleCursorReset(n, s) ==
  IF feed.streak >= MaxResets
  THEN /\ feed' = [Cleared(feed) EXCEPT !.blocked = TRUE]
       /\ net' = Aborted(n)
       /\ view' = NothingShown
  ELSE Restart([feed EXCEPT !.streak = @ + 1], n, s)

Init ==
  /\ StoreInit
  /\ feed = [subject |-> "A", active |-> TRUE, visible |-> TRUE, initialized |-> FALSE,
             generation |-> 0, cursor |-> 0, latest |-> 0, before |-> 0,
             streak |-> 0, blocked |-> FALSE, timer |-> FALSE]
  /\ view = NothingShown
  /\ \E s \in Slots :
       net = [[t \in Slots |-> NoRequest] EXCEPT ![s] = Request(feed, "history", 0, 0)]
  /\ disturbances = 0

-----------------------------------------------------------------------------
(* Events of the page.                                                      *)

Disturb == disturbances < MaxDisturbances /\ disturbances' = disturbances + 1

\* syncNow joins the poll that is running.
SyncNow(f) ==
  IF Running("changes") # {} \/ ~(f.active /\ f.visible /\ f.initialized /\ ~f.blocked)
  THEN net' = net /\ feed' = [f EXCEPT !.timer = FALSE]
  ELSE \E s \in Free(net) : /\ net' = Sent(net, s, Request(f, "changes", f.cursor, 1))
                            /\ feed' = [f EXCEPT !.timer = FALSE]

TimerFires ==
  /\ feed.timer
  /\ SyncNow(feed)
  /\ UNCHANGED <<msgs, chg, gen, view, disturbances>>

\* visibilitychange: a hidden page stops its poll, which then ends in an abort.
Hide ==
  /\ feed.visible /\ Disturb
  /\ feed' = [feed EXCEPT !.visible = FALSE, !.timer = FALSE]
  /\ net' = [s \in Slots |->
               IF s \in Running("changes") /\ net[s].phase = "sent" THEN NoRequest ELSE net[s]]
  /\ UNCHANGED <<msgs, chg, gen, view>>

Show ==
  /\ ~feed.visible
  /\ LET f == [feed EXCEPT !.visible = TRUE] IN
     IF f.initialized \/ Running("history") # {} \/ ~f.active
     THEN SyncNow(f)
     ELSE \E s \in Free(net) : LoadHistory(f, net, s)
  /\ UNCHANGED <<msgs, chg, gen, view, disturbances>>

\* loadOlder
LoadOlder(s) ==
  /\ feed.initialized /\ feed.before # 0 /\ Running("older") = {}
  /\ s \in Free(net)
  /\ net' = Sent(net, s, Request(feed, "older", feed.before, 0))
  /\ UNCHANGED <<msgs, chg, gen, feed, view, disturbances>>

\* retryInitial.  The page offers it while the history could not be read; the
\* composable lets its caller do it at any time.
RetryInitial(s) ==
  /\ feed.active
  /\ IF ~feed.initialized /\ Running("history") = {}
     THEN UNCHANGED disturbances
     ELSE Disturb
  /\ s \in Free(net)
  /\ LoadHistory(feed, net, s)
  /\ UNCHANGED <<msgs, chg, gen, view>>

\* reloadAfterSyncFailure, offered while the client has given up.
Reload(s) ==
  /\ feed.active /\ feed.blocked
  /\ s \in Free(Aborted(net))
  /\ Restart([feed EXCEPT !.streak = 0], net, s)
  /\ UNCHANGED <<msgs, chg, gen, disturbances>>

\* rebind to another account.
Rebind(s) ==
  /\ Disturb
  /\ s \in Free(Aborted(net))
  /\ \E b \in Subjects \ {feed.subject} :
       Restart([feed EXCEPT !.subject = b, !.active = TRUE, !.streak = 0], net, s)
  /\ UNCHANGED <<msgs, chg, gen>>

\* send, withdraw, remove, batchDelete of the messages that are selected, and
\* clearAll, which asks to clear what the client believes to be the latest state.
Selectable == {i \in Ids : view[i].status \in {"active", "withdrawn"}}
Mutate(s, op, ids) ==
  /\ feed.active /\ op \in OwnOps /\ ids \subseteq Selectable
  /\ Cardinality({t \in Slots : net[t].kind \in OwnOps}) < MaxOwn
  /\ CASE op = "send" -> ids = {}
       [] op = "clear" -> feed.generation # 0 /\ ids = {}
       [] op = "batch" -> feed.generation # 0 /\ ids # {}
       [] OTHER -> Cardinality(ids) = 1
  /\ s \in Free(net)
  /\ net' = Sent(net, s, [Request(feed, op, IF op = "clear" THEN feed.latest ELSE 0, 0)
                             EXCEPT !.ids = ids])
  /\ UNCHANGED <<msgs, chg, gen, feed, view, disturbances>>

-----------------------------------------------------------------------------
(* The server.                                                              *)

Answer(s, reply) ==
  net' = [net EXCEPT ![s] = [@ EXCEPT !.phase = "answered", !.reply = reply]]

ServePage(s) ==
  /\ net[s].phase = "sent"
  /\ \/ /\ net[s].kind \in {"history", "older"}
        /\ Answer(s, ChatMessagesPage(net[s].at, HistoryLimit))
     \/ /\ net[s].kind = "changes"
        /\ IF CursorResetRequired(net[s].at, net[s].generation, ChangesLimit)
           THEN net' = [net EXCEPT ![s].phase = "resetRequired"]
           ELSE Answer(s, ChatChangesPage(net[s].at, ChangesLimit))
  /\ UNCHANGED <<msgs, chg, gen, feed, view, disturbances>>

\* The answer to a mutation is each message as the transaction left it and the
\* seq of its change.
MutationReply(ids, status) ==
  [NoReply EXCEPT !.rows =
     {[id |-> i, status |-> status, seq |-> Latest + Rank(i, ids)] : i \in ids}]

ServeMutation(s) ==
  /\ net[s].phase = "sent"
  /\ \/ /\ net[s].kind = "send" /\ CreateChatMessage
        /\ Answer(s, MutationReply({Len(msgs) + 1}, "active"))
     \/ /\ net[s].kind = "withdraw" /\ \E i \in net[s].ids : WithdrawChatMessage(i)
        /\ Answer(s, MutationReply(net[s].ids, "withdrawn"))
     \/ /\ net[s].kind = "delete" /\ \E i \in net[s].ids : DeleteChatMessage(i, TRUE)
        /\ Answer(s, MutationReply(net[s].ids, "deleted"))
     \/ /\ net[s].kind = "batch" /\ BatchDeleteChatMessages(net[s].ids)
        /\ Answer(s, MutationReply(net[s].ids, "deleted"))
     \/ /\ net[s].kind = "clear" /\ ClearChatMessages(net[s].generation, net[s].at)
        /\ Answer(s, NoReply)
  /\ gen' <= MaxGeneration
  /\ UNCHANGED <<feed, view, disturbances>>

\* Everybody else.
Others ==
  /\ \/ "send" \in OtherOps /\ CreateChatMessage
     \/ \E i \in Ids : \/ "withdraw" \in OtherOps /\ WithdrawChatMessage(i)
                       \/ "delete" \in OtherOps /\ DeleteChatMessage(i, TRUE)
     \/ "clear" \in OtherOps /\ ClearChatMessages(gen, Latest)
     \/ "cleanup" \in OtherOps /\ CleanupChat
  /\ gen' # gen => gen' <= MaxGeneration
  /\ UNCHANGED <<feed, view, net, disturbances>>

-----------------------------------------------------------------------------
(* Answers.                                                                 *)

Done(s) == [net EXCEPT ![s] = NoRequest]
LatestKnown(r) == Max({feed.latest, r.reply.latest})

\* An answer for an earlier context is dropped.
Ignore(s) ==
  /\ net[s].phase \in {"answered", "resetRequired"} /\ ~Current(net[s])
  /\ net' = Done(s)
  /\ UNCHANGED <<msgs, chg, gen, feed, view, disturbances>>

Arrived(s, kinds) ==
  net[s].phase = "answered" /\ net[s].kind \in kinds /\ Current(net[s])

\* Only the first snapshot of a generation sets the cursor.
HistoryArrives(s) ==
  LET r == net[s]
      f == [feed EXCEPT !.before = r.reply.next, !.initialized = TRUE] IN
  /\ Arrived(s, {"history"})
  /\ CASE r.generation = 0 ->
            /\ feed' = Scheduled([f EXCEPT !.generation = r.reply.gen,
                                           !.cursor = r.reply.latest,
                                           !.latest = r.reply.latest])
            /\ view' = Applied(NothingShown, r.reply.rows, Priority.history, r.subject)
            /\ net' = Done(s)
       [] r.generation = r.reply.gen ->
            /\ feed' = Scheduled([f EXCEPT !.latest = LatestKnown(r)])
            /\ view' = Applied(view, r.reply.rows, Priority.history, r.subject)
            /\ net' = Done(s)
       [] OTHER -> HandleCursorReset(Done(s), s)
  /\ UNCHANGED <<msgs, chg, gen, disturbances>>

OlderArrives(s) ==
  LET r == net[s] IN
  /\ Arrived(s, {"older"})
  /\ IF r.generation = r.reply.gen
     THEN /\ feed' = [feed EXCEPT !.before = r.reply.next, !.latest = LatestKnown(r)]
          /\ view' = Applied(view, r.reply.rows, Priority.older, r.subject)
          /\ net' = Done(s)
     ELSE HandleCursorReset(Done(s), s)
  /\ UNCHANGED <<msgs, chg, gen, disturbances>>

\* The cursor follows the pages.  A poll reads a bounded number of them and
\* leaves the rest to the next one.
NextPageNotScheduled(s) ==
  LET r == net[s]
      f == [feed EXCEPT !.cursor = r.reply.next, !.latest = LatestKnown(r)] IN
  IF r.reply.next < r.reply.latest /\ r.pages < MaxChangePages
  THEN feed' = f /\ net' = Sent(net, s, Request(f, "changes", r.reply.next, r.pages + 1))
  ELSE /\ feed' = IF r.reply.next < r.reply.latest THEN f
                  ELSE Scheduled([f EXCEPT !.streak = 0])
       /\ net' = Done(s)
NextPage(s) ==
  LET r == net[s]
      f == [feed EXCEPT !.cursor = r.reply.next, !.latest = LatestKnown(r)] IN
  IF r.reply.next < r.reply.latest /\ r.pages < MaxChangePages
  THEN feed' = f /\ net' = Sent(net, s, Request(f, "changes", r.reply.next, r.pages + 1))
  ELSE feed' = Scheduled([f EXCEPT !.streak = 0]) /\ net' = Done(s)

ChangesArrive(s) ==
  /\ Arrived(s, {"changes"})
  /\ view' = Applied(view, net[s].reply.rows, Priority.changes, net[s].subject)
  /\ NextPage(s)
  /\ UNCHANGED <<msgs, chg, gen, disturbances>>

ResetArrives(s) ==
  /\ net[s].phase = "resetRequired" /\ Current(net[s])
  /\ HandleCursorReset(Done(s), s)
  /\ UNCHANGED <<msgs, chg, gen, disturbances>>

\* withMutation and batchDelete show the result at once, and remember its seq as
\* the latest one, but never move the cursor.
Changing == {"send", "withdraw", "delete", "batch"}
MutationMovesCursor(s) ==
  LET r == net[s] IN
  /\ Arrived(s, Changing)
  /\ IF r.generation # 0
     THEN LET seq == Max({row.seq : row \in r.reply.rows}) IN
          /\ view' = Applied(view, r.reply.rows, Priority.mutation, r.subject)
          /\ feed' = [feed EXCEPT !.latest = Max({@, seq}), !.cursor = Max({@, seq})]
     ELSE UNCHANGED <<view, feed>>
  /\ net' = Done(s)
  /\ UNCHANGED <<msgs, chg, gen, disturbances>>
MutationArrives(s) ==
  LET r == net[s] IN
  /\ Arrived(s, Changing)
  /\ IF r.generation # 0
     THEN /\ view' = Applied(view, r.reply.rows, Priority.mutation, r.subject)
          /\ feed' = [feed EXCEPT !.latest = Max({@} \cup {row.seq : row \in r.reply.rows})]
     ELSE UNCHANGED <<view, feed>>
  /\ net' = Done(s)
  /\ UNCHANGED <<msgs, chg, gen, disturbances>>

ClearArrives(s) ==
  /\ Arrived(s, {"clear"})
  /\ Restart(feed, Done(s), s)
  /\ UNCHANGED <<msgs, chg, gen, disturbances>>

\* The clear was refused: chat_clear_conflict.
ClearConflicts(s) ==
  /\ net[s].phase = "sent" /\ net[s].kind = "clear" /\ Current(net[s])
  /\ net[s].generation # gen \/ net[s].at # Latest
  /\ Restart(feed, Done(s), s)
  /\ UNCHANGED <<msgs, chg, gen, disturbances>>

\* A mutation that the server refused for another reason.
MutationRefused(s) ==
  /\ net[s].phase = "sent" /\ net[s].kind \in Changing
  /\ net' = Done(s)
  /\ UNCHANGED <<msgs, chg, gen, feed, view, disturbances>>

\* The network fails before or after the server has acted.
Fail(s) ==
  /\ net[s].phase # "free" /\ Current(net[s]) /\ Disturb
  /\ feed' = CASE net[s].kind = "history" -> [feed EXCEPT !.initialized = FALSE]
               [] net[s].kind = "changes" -> Scheduled(feed)
               [] OTHER -> feed
  /\ net' = Done(s)
  /\ UNCHANGED <<msgs, chg, gen, view>>

\* session_subject_changed, or a refused administrator: everything is cleared
\* at once and the client waits for a new binding.
Unauthorized(s) ==
  /\ net[s].phase # "free" /\ Current(net[s]) /\ Disturb
  /\ feed' = [Cleared(feed) EXCEPT !.active = FALSE, !.streak = 0]
  /\ view' = NothingShown
  /\ net' = Aborted(Done(s))
  /\ UNCHANGED <<msgs, chg, gen>>

-----------------------------------------------------------------------------
Delivery(s) ==
  \/ Ignore(s) \/ HistoryArrives(s) \/ OlderArrives(s) \/ ChangesArrive(s)
  \/ ResetArrives(s) \/ MutationArrives(s) \/ ClearArrives(s)

UserActs ==
  \E s \in Slots :
    \/ LoadOlder(s) \/ RetryInitial(s) \/ Reload(s) \/ Rebind(s)
    \/ \E op \in OwnOps, ids \in SUBSET Ids : Mutate(s, op, ids)

Next ==
  \/ Others \/ TimerFires \/ Hide \/ Show \/ UserActs
  \/ \E s \in Slots : \/ ServePage(s) \/ ServeMutation(s) \/ Delivery(s)
                      \/ ClearConflicts(s) \/ MutationRefused(s)
                      \/ Fail(s) \/ Unauthorized(s)

Spec == Init /\ [][Next]_vars

\* The timers of a page fire, the server answers what reaches it and the answer
\* arrives, unless one of the bounded number of disturbances comes between.
FairSpec ==
  /\ Spec
  /\ WF_vars(TimerFires)
  /\ \A s \in Slots : /\ WF_vars(ServePage(s))
                      /\ WF_vars(Delivery(s))
                      /\ WF_vars(ServeMutation(s) \/ ClearConflicts(s) \/ MutationRefused(s))

-----------------------------------------------------------------------------
(* Properties.                                                              *)

Followed == feed.initialized /\ feed.generation = gen
Pending(i) == \E s \in (feed.cursor + 1)..Latest : chg[s] = i

\* The messages the client claims to show: those from its oldest page on, and
\* those it has learnt of otherwise.
Claimed(i) ==
  \/ view[i].status # "none"
  \/ i \in Present /\ (feed.before = 0 \/ i >= feed.before)

\* What the page shows is what the store holds, unless a change of that message
\* lies ahead of the cursor and will be read: whatever the order in which
\* pages of the history, of the changes and answers to mutations arrive,
\* nothing is left out, and nothing outdated stays for good.
OutdatedIsPending ==
  Followed => \A i \in Ids : Claimed(i) /\ ~Pending(i) =>
                               i \in Present /\ view[i].status = msgs[i]

\* A client of the current generation is never told to start over: no change
\* that it has still to read was removed without a new generation.
CursorStaysGood ==
  Followed => ~CursorResetRequired(feed.cursor, feed.generation, ChangesLimit)

\* Everything that is shown was asked for by the subject that looks at it.
OnlyOwnProjection ==
  \A i \in Ids : view[i].status # "none" => view[i].subject = feed.subject

\* A page that is seen and shows the chat either polls or will, as the
\* documentation has it: violated by a client that has given up, when
\* retryInitial, not Reload, is what brings the messages back.
Polling == feed.timer \/ Running("changes") # {}
ShownChatPolls ==
  feed.active /\ feed.visible /\ feed.initialized => Polling \/ Running("history") # {}

\* Once the others are quiet the page catches up, or has told its user that it
\* will not.
CaughtUp == feed.generation = gen /\ feed.cursor = Latest
FeedSettles ==
  <>[](feed.active /\ feed.visible =>
         \/ CaughtUp
         \/ feed.blocked
         \/ ~feed.initialized /\ Running("history") = {})
=============================================================================
