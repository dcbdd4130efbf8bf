------------------------------- MODULE BankSync -------------------------------
(***************************************************************************)
(* A bank connection: linking it, the syncs that webhooks ask for, and its *)
(* removal (services/finance.py, plaid_webhook in routes/integrations.py). *)
(*                                                                         *)
(* Plaid keeps a feed of updates and hands out one per page.  What comes   *)
(* after the last page somebody has read to the end may still be amended,  *)
(* and then Plaid fails the readings that have passed it.  A cursor is a   *)
(* position in the feed, a row the position of the update it came from.    *)
(***************************************************************************)
EXTENDS Naturals, Sequences, FiniteSetsExt

CONSTANTS
  Txs,
  Syncs,      \* tasks being run at a time
  FeedLength, \* bound on the feed
  Links,      \* bound on how often the bank is linked
  NoTask

ASSUME BankSyncAssumption == FeedLength \in Nat /\ Links \in Nat /\ NoTask \notin Nat

VARIABLES
  feed,      \* Plaid's updates of the linked item, in order
  ended,     \* the last position that somebody has read to the end
  live,      \* Plaid still has the item
  news,      \* a SYNC_UPDATES_AVAILABLE is on its way
  bank,      \* financial_connections: its id, 0 when there is none, cursor and states
  links,     \* ids given so far
  transactions,  \* financial_transactions that are not removed
  keys,      \* cursors that webhook_events of this connection have been recorded at
  tasks,     \* sync tasks that are not over: of a webhook at a cursor, of a link
  sync,      \* a sync: its connection, task, cursors, pages and attempts
  leaving,   \* the connection that is being disconnected
  connectedEvents,  \* finance.connected
  unseen     \* a webhook was dropped, or a task given up, with nobody about to look; or two
             \*   syncs overlapped

bankVars == <<feed, ended, live, news, bank, links, transactions, keys, tasks, sync, leaving,
              connectedEvents, unseen>>

Updates  == [tx : Txs, kind : {"put", "remove"}]
NoBank   == [id |-> 0, cursor |-> 0, status |-> "none", sync |-> "none"]
NoRows   == [t \in Txs |-> 0]
Sleeping == [at |-> "idle", id |-> 0, task |-> NoTask, from |-> 0, cursor |-> 0, pages |-> <<>>,
             tries |-> 0, amended |-> FALSE]
LinkTask == FeedLength + 1   \* the task of a link, beside those of cursors

-----------------------------------------------------------------------------
(***************************************************************************)
(* Faults.  Each operator is the definition of the same shape below with   *)
(* one plausible slip in it; no action uses them.                          *)
(***************************************************************************)

\* A reading that starts again keeps the pages it has.
KeepsPages(s) == [s EXCEPT !.cursor = s.from, !.tries = @ + 1, !.amended = FALSE]

-----------------------------------------------------------------------------
(***************************************************************************)
(* Decisions of the code                                                   *)
(***************************************************************************)

\* _load_transaction_pages begins again from where the sync began.
Restarted(s) == [s EXCEPT !.cursor = s.from, !.pages = <<>>, !.tries = @ + 1, !.amended = FALSE]

\* Every page is upserted or marks a row as removed, in the order of the pages.
Applied(pages) ==
  [t \in Txs |->
    LET of == {i \in DOMAIN pages : pages[i].tx = t} IN
    IF of = {} THEN transactions[t]
    ELSE IF pages[Max(of)].kind = "put" THEN pages[Max(of)].at ELSE 0]

\* The rows that the feed says there are, up to a position.
Reported(position) ==
  [t \in Txs |->
    LET of == {i \in 1..position : feed[i].tx = t} IN
    IF of # {} /\ feed[Max(of)].kind = "put" THEN Max(of) ELSE 0]

\* A task that nobody has begun, or a reading that has not ended, will see what is new.
SomebodyWillLook ==
  \/ \E k \in tasks : \A s \in Syncs : sync[s].task # k
  \/ \E s \in Syncs : sync[s].at = "reading"

-----------------------------------------------------------------------------
BankInit ==
  /\ feed = <<>> /\ ended = 0 /\ live = FALSE /\ news = FALSE
  /\ bank = NoBank /\ links = 0 /\ transactions = NoRows
  /\ keys = {} /\ tasks = {} /\ leaving = 0
  /\ sync = [s \in Syncs |-> Sleeping]
  /\ connectedEvents = {} /\ unseen = FALSE

\* Plaid learns of a transaction, of a change of it, or that it is void ...
Post(u) ==
  /\ live /\ Len(feed) < FeedLength
  /\ u.kind = "remove" => Reported(Len(feed))[u.tx] # 0
  /\ feed' = Append(feed, u) /\ news' = TRUE
  /\ UNCHANGED <<ended, live, bank, links, transactions, keys, tasks, sync, leaving,
                 connectedEvents, unseen>>

\* ... and rewrites what nobody has read to the end.
Amend(u) ==
  LET last == Len(feed) IN
  /\ live /\ last > ended
  /\ u # feed[last] /\ u.kind = "remove" => Reported(last - 1)[u.tx] # 0
  /\ feed' = [feed EXCEPT ![last] = u] /\ news' = TRUE
  /\ sync' = [s \in Syncs |-> [sync[s] EXCEPT !.amended = @ \/ sync[s].cursor = last]]
  /\ UNCHANGED <<ended, live, bank, links, transactions, keys, tasks, leaving, connectedEvents,
                 unseen>>

\* complete_plaid_link, for a new item or for the connection that is there.
Link ==
  /\ bank.id = 0 /\ links < Links
  /\ links' = links + 1 /\ live' = TRUE
  /\ feed' = <<>> /\ ended' = 0 /\ keys' = {} /\ news' = FALSE
  /\ bank' = [id |-> links + 1, cursor |-> 0, status |-> "active", sync |-> "pending"]
  /\ tasks' = {LinkTask} /\ unseen' = FALSE
  /\ UNCHANGED <<transactions, sync, leaving, connectedEvents>>

Relink ==
  /\ bank.id # 0 /\ live /\ bank.status = "reauthorize"
  /\ bank' = [bank EXCEPT !.status = "active", !.sync = "pending"]
  /\ tasks' = tasks \cup {LinkTask}
  /\ UNCHANGED <<feed, ended, live, news, links, transactions, keys, sync, leaving,
                 connectedEvents, unseen>>

\* plaid_webhook: it may be delivered again.  One at a cursor that was recorded is a duplicate.
Webhook ==
  /\ news /\ news' \in BOOLEAN
  /\ bank.id # 0
  /\ IF bank.cursor \in keys
     THEN /\ unseen' = (unseen \/ (~news' /\ ~SomebodyWillLook))
          /\ UNCHANGED <<keys, tasks>>
     ELSE /\ keys' = keys \cup {bank.cursor} /\ tasks' = tasks \cup {bank.cursor}
          /\ UNCHANGED unseen
  /\ UNCHANGED <<feed, ended, live, bank, links, transactions, sync, leaving, connectedEvents>>

\* sync_financial_connection, for a task or for one whose lock ran out.
BeginSync(s, k) ==
  /\ sync[s].at = "idle" /\ k \in tasks /\ bank.id # 0
  /\ sync' = [sync EXCEPT ![s] = [Sleeping EXCEPT !.at = "reading", !.id = bank.id, !.task = k,
                                                  !.from = bank.cursor, !.cursor = bank.cursor]]
  /\ bank' = [bank EXCEPT !.sync = "syncing"]
  /\ unseen' = (unseen \/ \E other \in Syncs : sync[other].at # "idle")
  /\ UNCHANGED <<feed, ended, live, news, links, transactions, keys, tasks, leaving,
                 connectedEvents>>

Reads(s) == sync[s].at = "reading" /\ live /\ sync[s].id = bank.id

\* One page of the feed, ...
ReadPage(s) ==
  LET next == sync[s].cursor + 1 IN
  /\ Reads(s) /\ ~sync[s].amended /\ next \in DOMAIN feed
  /\ sync' = [sync EXCEPT ![s].cursor = next,
       ![s].pages = Append(@, [tx |-> feed[next].tx, kind |-> feed[next].kind, at |-> next])]
  /\ UNCHANGED <<feed, ended, live, news, bank, links, transactions, keys, tasks, leaving,
                 connectedEvents, unseen>>

\* ... the last, with has_more FALSE, ...
EndPages(s) ==
  /\ Reads(s) /\ ~sync[s].amended /\ sync[s].cursor = Len(feed)
  /\ sync' = [sync EXCEPT ![s].at = "loaded"]
  /\ ended' = Len(feed)
  /\ UNCHANGED <<feed, live, news, bank, links, transactions, keys, tasks, leaving,
                 connectedEvents, unseen>>

\* ... or TRANSACTIONS_SYNC_MUTATION_DURING_PAGINATION, the third of which is an error.
StartAgain(s) ==
  /\ Reads(s) /\ sync[s].amended /\ sync[s].tries < 2
  /\ sync' = [sync EXCEPT ![s] = Restarted(@)]
  /\ UNCHANGED <<feed, ended, live, news, bank, links, transactions, keys, tasks, leaving,
                 connectedEvents, unseen>>

\* The rows, the cursor and the event in one commit, if the connection is still there.
CommitSync(s) ==
  /\ sync[s].at = "loaded" /\ sync[s].id = bank.id
  /\ transactions' = Applied(sync[s].pages)
  /\ bank' = [bank EXCEPT !.cursor = sync[s].cursor, !.sync = "idle", !.status = "active"]
  /\ connectedEvents' = IF sync[s].task = LinkTask THEN connectedEvents \cup {bank.id}
                        ELSE connectedEvents
  /\ tasks' = tasks \ {sync[s].task}
  /\ sync' = [sync EXCEPT ![s] = Sleeping]
  /\ UNCHANGED <<feed, ended, live, news, links, keys, leaving, unseen>>

\* It fails, which the connection says if it is still there, or dies; the task is tried again
\*   or given up.
EndSync(s) ==
  /\ sync[s].at # "idle"
  /\ sync' = [sync EXCEPT ![s] = Sleeping]
  /\ \/ UNCHANGED bank
     \/ /\ sync[s].id = bank.id
        /\ \E status \in {bank.status, "reauthorize"} :
             bank' = [bank EXCEPT !.sync = "failed", !.status = status]
  /\ \/ UNCHANGED <<tasks, unseen>>
     \/ sync[s].id = bank.id /\ tasks' = tasks \ {sync[s].task} /\ unseen' = TRUE
  /\ UNCHANGED <<feed, ended, live, news, links, transactions, keys, leaving, connectedEvents>>

\* disconnect_financial_connection: the item is removed at Plaid, ...
BeginLeaving ==
  /\ bank.id # 0 /\ leaving = 0 /\ live
  /\ live' = FALSE /\ leaving' = bank.id
  /\ UNCHANGED <<feed, ended, news, bank, links, transactions, keys, tasks, sync, connectedEvents,
                 unseen>>

\* ... then the tasks, the rows and the connection.
CommitLeaving ==
  /\ leaving # 0
  /\ bank' = NoBank /\ transactions' = NoRows /\ tasks' = {} /\ keys' = {} /\ leaving' = 0
  /\ UNCHANGED <<feed, ended, live, news, links, sync, connectedEvents, unseen>>

\* Or not: then Plaid no longer has what Dot still shows.
FailLeaving ==
  /\ leaving # 0 /\ leaving' = 0
  /\ UNCHANGED <<feed, ended, live, news, bank, links, transactions, keys, tasks, sync,
                 connectedEvents, unseen>>

BankNext ==
  \/ \E u \in Updates : Post(u) \/ Amend(u)
  \/ Link \/ Relink \/ Webhook
  \/ \E s \in Syncs :
       \/ \E k \in tasks : BeginSync(s, k)
       \/ ReadPage(s) \/ EndPages(s) \/ StartAgain(s) \/ CommitSync(s) \/ EndSync(s)
  \/ BeginLeaving \/ CommitLeaving \/ FailLeaving

-----------------------------------------------------------------------------
\* The feed, the connection, its rows and the syncs.
BankTypeOK ==
  /\ feed \in Seq(Updates) /\ Len(feed) <= FeedLength /\ ended \in 0..FeedLength
  /\ {live, news, unseen} \subseteq BOOLEAN
  /\ bank \in [id : 0..Links, cursor : 0..FeedLength, status : {"none", "active", "reauthorize"},
               sync : {"none", "pending", "syncing", "idle", "failed"}]
  /\ {links, leaving} \subseteq 0..Links
  /\ transactions \in [Txs -> 0..FeedLength]
  /\ keys \subseteq 0..FeedLength /\ tasks \subseteq 0..LinkTask
  /\ \A s \in Syncs :
       /\ sync[s].at \in {"idle", "reading", "loaded"} /\ sync[s].id \in 0..Links
       /\ sync[s].task \in 0..LinkTask \cup {NoTask}
       /\ {sync[s].from, sync[s].cursor} \subseteq 0..FeedLength
       /\ sync[s].pages \in Seq([tx : Txs, kind : {"put", "remove"}, at : 1..FeedLength])
       /\ sync[s].tries \in 0..2 /\ sync[s].amended \in BOOLEAN
  /\ connectedEvents \subseteq 1..Links

\* Without a connection there are no rows, whatever sync was under way when it was removed.
GoneMeansGone == bank.id = 0 => transactions = NoRows /\ tasks = {}

\* The rows are those of the feed up to the cursor, whatever was amended, failed or died.
RowsAreTheFeeds == bank.id # 0 /\ ~unseen => transactions = Reported(bank.cursor)

\* When no webhook and no task is left, there is nothing that has not been read.
CaughtUp ==
  bank.id # 0 /\ live /\ ~unseen /\ ~news /\ tasks = {} => bank.cursor = Len(feed)

\* Apart from the webhooks that cursor_key takes for duplicates and from syncs that overlap,
\*   sync_financial_connection keeps the books: complete, current, and not beyond removal.
RowsFollowTheFeed == GoneMeansGone /\ RowsAreTheFeeds /\ CaughtUp
==============================================================================
