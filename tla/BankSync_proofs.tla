---------------------------- MODULE BankSync_proofs ----------------------------
(***************************************************************************)
(* Proofs about a bank connection, for every number of syncs at a time, of *)
(* transactions and of links, and for every length of Plaid's feed.        *)
(*                                                                         *)
(* The sync of the connection that is there is told from those of one that *)
(* was removed: only the first may commit.  While nothing was missed it is *)
(* alone, it has read the feed from the cursor on, and what the rows lack  *)
(* is ahead of it, of a task nobody has begun or of a webhook.             *)
(***************************************************************************)
EXTENDS BankSync, SequenceTheorems, FiniteSetTheorems, WellFoundedInduction, TLAPS

\* The behaviours of one connection.
BankSpec == BankInit /\ [][BankNext]_bankVars

Pages == [tx : Txs, kind : {"put", "remove"}, at : 1..FeedLength]
Banks == [id : 0..Links, cursor : 0..FeedLength, status : {"none", "active", "reauthorize"},
          sync : {"none", "pending", "syncing", "idle", "failed"}]
SyncRows ==
  [at : {"idle", "reading", "loaded"}, id : 0..Links, task : 0..LinkTask \cup {NoTask},
   from : 0..FeedLength, cursor : 0..FeedLength, pages : Seq(Pages), tries : 0..2,
   amended : BOOLEAN]

BankRows ==
  /\ feed \in Seq(Updates) /\ Len(feed) <= FeedLength /\ ended \in 0..FeedLength
  /\ {live, news, unseen} \subseteq BOOLEAN /\ bank \in Banks /\ {links, leaving} \subseteq 0..Links
  /\ transactions \in [Txs -> 0..FeedLength]
  /\ keys \subseteq 0..FeedLength /\ tasks \subseteq keys \cup {LinkTask}
  /\ sync \in [Syncs -> SyncRows] /\ connectedEvents \subseteq 1..Links

Busy(s) == sync[s].at # "idle"

\* A sync of the connection that is there.
Here(s) == Busy(s) /\ sync[s].id = bank.id

\* No row of a sync is older than its link, and the cursor has been read to the end.
Numbered ==
  /\ bank.id \in {0, links} /\ bank.cursor <= ended /\ ended <= Len(feed)
  /\ \A s \in Syncs : Busy(s) => sync[s].id \in 1..links
  /\ \A s \in Syncs : Here(s) => /\ sync[s].task \in keys \cup {LinkTask}
                                 /\ sync[s].at = "loaded" => sync[s].cursor <= ended

\* Pages that are the feed after a cursor.
Continues(pages, from) ==
  \A i \in 1..Len(pages) : /\ pages[i].tx = feed[from + i].tx
                           /\ pages[i].kind = feed[from + i].kind
                           /\ pages[i].at = from + i

\* What a sync has read is the feed after the cursor.
ReadRight(r) ==
  /\ r.from = bank.cursor /\ r.from <= r.cursor /\ r.cursor <= Len(feed)
  /\ r.at = "loaded" => ~r.amended
  /\ ~r.amended => Len(r.pages) = r.cursor - r.from /\ Continues(r.pages, r.from)

\* The rest of the feed has somebody who will read it, or there is none.
Attended ==
  \/ \E k \in tasks : \A s \in Syncs : Here(s) => sync[s].task # k
  \/ \E s \in Syncs : Here(s) /\ (sync[s].at = "reading" \/ sync[s].cursor = Len(feed))
  \/ bank.cursor = Len(feed)

Kept ==
  /\ transactions = Reported(bank.cursor)
  /\ \A s, other \in Syncs : Here(s) /\ Busy(other) => s = other
  /\ \A s \in Syncs : Here(s) => sync[s].task \in tasks /\ ReadRight(sync[s])
  /\ \A s \in Syncs : Busy(s) /\ ~Here(s) => LinkTask \in tasks
  /\ live /\ ~news => Attended

BankInv ==
  /\ BankRows /\ Numbered /\ GoneMeansGone
  /\ bank.id # 0 /\ ~unseen => Kept

-----------------------------------------------------------------------------
(***************************************************************************)
(* What the rows are made of                                               *)
(***************************************************************************)

\* A set of positions has a last one.
LEMMA MaxOf ==
  ASSUME NEW n \in Nat, NEW S, S \subseteq 0..n, S # {}
  PROVE  Max(S) \in S /\ \A y \in S : Max(S) >= y
  <1> DEFINE T == {n - x : x \in S}
  <1>1. T \subseteq Nat /\ T # {}
    <2>1. \A x \in S : n - x \in Nat
      OBVIOUS
    <2>2. PICK x \in S : TRUE
      OBVIOUS
    <2>3. n - x \in T
      OBVIOUS
    <2> QED
      BY <2>1, <2>3
  <1>2. PICK t \in T : \A y \in T : ~(<<y, t>> \in OpToRel(<, Nat))
    BY <1>1, NatLessThanWellFounded, WFMin
  <1>3. \A y \in T : ~(y < t)
    BY <1>1, <1>2 DEF OpToRel
  <1>4. PICK x \in S : t = n - x
    OBVIOUS
  <1>5. \A y \in S : x >= y
    <2> TAKE y \in S
    <2>1. n - y \in T /\ ~(n - y < t)
      BY <1>3
    <2>2. x \in Int /\ y \in Int
      OBVIOUS
    <2> QED
      BY <1>4, <2>1, <2>2
  <1> QED
    BY <1>5 DEF Max

\* The updates of a transaction and its pages.
Shifted(S, T, from, m) ==
  /\ m \in Nat /\ from \in Nat /\ S \subseteq 1..m /\ S # {} /\ T \subseteq 1..(from + m)
  /\ \A i \in S : from + i \in T
  /\ \A j \in T : j > from => j - from \in S

\* The last page of a transaction is the last update of it.
LEMMA MaxShifted ==
  ASSUME NEW m, NEW from, NEW S, NEW T, Shifted(S, T, from, m)
  PROVE  Max(S) \in S /\ Max(T) = from + Max(S)
  <1>0. /\ m \in Nat /\ from \in Nat /\ S \subseteq 1..m /\ S # {} /\ T \subseteq 1..(from + m)
        /\ \A i \in S : from + i \in T
        /\ \A j \in T : j > from => j - from \in S
    BY DEF Shifted
  <1>1. Max(S) \in S /\ \A y \in S : Max(S) >= y
    <2>1. S \subseteq 0..m
      BY <1>0
    <2> QED
      BY <1>0, <2>1, MaxOf
  <1>2. Max(T) \in T /\ \A y \in T : Max(T) >= y
    <2>1. from + Max(S) \in T
      BY <1>0, <1>1
    <2>2. T \subseteq 0..(from + m) /\ T # {} /\ from + m \in Nat
      BY <1>0, <2>1
    <2> QED
      BY <2>2, MaxOf
  <1>3. from + Max(S) \in T /\ Max(S) \in 1..m /\ Max(T) \in Int
    <2>1. from + Max(S) \in T /\ Max(S) \in 1..m
      BY <1>0, <1>1
    <2>2. Max(T) \in 1..(from + m)
      BY <1>0, <1>2
    <2> QED
      BY <1>0, <2>1, <2>2
  <1>4. Max(T) >= from + Max(S)
    BY <1>0, <1>2, <1>3
  <1>5. Max(T) - from \in S
    <2>1. Max(T) > from
      BY <1>0, <1>3, <1>4
    <2> QED
      BY <1>0, <1>2, <2>1
  <1>6. Max(S) >= Max(T) - from
    BY <1>1, <1>5
  <1> QED
    BY <1>0, <1>1, <1>3, <1>4, <1>6

\* Pages that continue the feed from where the rows are bring the rows to where the pages end.
LEMMA AppliedIsReported ==
  ASSUME NEW from \in Nat, NEW cursor \in Nat, from <= cursor, cursor <= Len(feed),
         feed \in Seq(Updates), NEW pages \in Seq(Pages), Len(pages) = cursor - from,
         Continues(pages, from), transactions = Reported(from)
  PROVE  Applied(pages) = Reported(cursor)
  <1>1. ASSUME NEW t \in Txs
        PROVE  Applied(pages)[t] = Reported(cursor)[t]
    <2> DEFINE S == {i \in DOMAIN pages : pages[i].tx = t}
               T == {i \in 1..cursor : feed[i].tx = t}
               R == {i \in 1..from : feed[i].tx = t}
               m == cursor - from
    <2>0. m \in Nat /\ DOMAIN pages = 1..m /\ from + m = cursor
      OBVIOUS
    <2>1. /\ Applied(pages)[t] = IF S = {} THEN transactions[t]
                                 ELSE IF pages[Max(S)].kind = "put" THEN pages[Max(S)].at ELSE 0
          /\ Reported(cursor)[t] = IF T # {} /\ feed[Max(T)].kind = "put" THEN Max(T) ELSE 0
          /\ Reported(from)[t] = IF R # {} /\ feed[Max(R)].kind = "put" THEN Max(R) ELSE 0
      BY DEF Applied, Reported
    <2>2. \A i \in S : from + i \in T
      BY <2>0 DEF Continues
    <2>3. \A j \in T : j > from => j - from \in S
      <3> SUFFICES ASSUME NEW j \in T, j > from
                   PROVE  j - from \in S
        OBVIOUS
      <3>1. j - from \in 1..m /\ from + (j - from) = j
        BY <2>0
      <3> QED
        BY <2>0, <3>1 DEF Continues
    <2>4. CASE S = {}
      <3>1. R = T
        BY <2>3, <2>4
      <3> QED
        BY <2>1, <2>4, <3>1
    <2>5. CASE S # {}
      <3>1. S \subseteq 1..m /\ T \subseteq 1..(from + m)
        BY <2>0
      <3>2. Max(S) \in S /\ Max(T) = from + Max(S)
        <4>1. Shifted(S, T, from, m)
          <5> HIDE DEF S, T, m
          <5> QED
            BY <2>0, <2>2, <2>3, <2>5, <3>1 DEF Shifted
        <4> HIDE DEF S, T, m
        <4> QED
          BY <4>1, MaxShifted
      <3>3. T # {}
        BY <2>2, <3>2
      <3>4. pages[Max(S)].kind = feed[Max(T)].kind /\ pages[Max(S)].at = Max(T)
        BY <2>0, <3>2 DEF Continues
      <3> QED
        BY <2>1, <2>5, <3>3, <3>4
    <2> QED
      BY <2>4, <2>5
  <1> QED
    BY <1>1 DEF Applied, Reported

\* What comes after a position says nothing of the rows up to it.
LEMMA ReportedKept ==
  ASSUME NEW p \in Nat, \A i \in 1..p : feed'[i] = feed[i]
  PROVE  Reported(p)' = Reported(p)
  <1>1. ASSUME NEW t \in Txs
        PROVE  Reported(p)'[t] = Reported(p)[t]
    <2> DEFINE S == {i \in 1..p : feed[i].tx = t}
    <2>1. {i \in 1..p : feed'[i].tx = t} = S
      OBVIOUS
    <2>2. S # {} => Max(S) \in 1..p
      <3>1. S \subseteq 0..p /\ S \subseteq 1..p
        OBVIOUS
      <3> HIDE DEF S
      <3> QED
        BY <3>1, MaxOf
    <2>3. /\ Reported(p)[t] = IF S # {} /\ feed[Max(S)].kind = "put" THEN Max(S) ELSE 0
          /\ Reported(p)'[t] = IF S # {} /\ feed'[Max(S)].kind = "put" THEN Max(S) ELSE 0
      BY <2>1 DEF Reported
    <2> QED
      BY <2>2, <2>3
  <1> QED
    BY <1>1 DEF Reported

-----------------------------------------------------------------------------
(***************************************************************************)
(* The steps                                                               *)
(***************************************************************************)

\* The rows stay those of the feed, when neither they nor the feed up to the cursor change.
LEMMA RowsStay ==
  ASSUME BankRows, transactions = Reported(bank.cursor), transactions' = transactions,
         bank'.cursor = bank.cursor, \A i \in 1..bank.cursor : feed'[i] = feed[i]
  PROVE  transactions' = Reported(bank.cursor)'
  <1>1. PICK p \in Nat : p = bank.cursor
    BY BankSyncAssumption DEF BankRows, Banks
  <1>2. Reported(p)' = Reported(p)
    BY <1>1, ReportedKept
  <1>3. transactions = Reported(p)
    BY <1>1
  <1> QED
    BY <1>1, <1>2, <1>3 DEF Reported

\* Pages stay right while what they are of does not change.
LEMMA ContinuesKept ==
  ASSUME NEW p, NEW f \in Nat, Len(p) \in Nat, Continues(p, f),
         \A i \in 1..(f + Len(p)) : feed'[i] = feed[i]
  PROVE  Continues(p, f)'
  <1>1. \A i \in 1..Len(p) : f + i \in 1..(f + Len(p))
    OBVIOUS
  <1> QED
    BY <1>1 DEF Continues

\* Plaid's side: what comes to the feed comes after what was read to the end, or it marks
\* the readings that have passed it.
LEMMA PostKeeps ==
  ASSUME BankInv, NEW u \in Updates, Post(u)
  PROVE  BankInv'
  <1>0. /\ feed' = Append(feed, u) /\ news' = TRUE /\ Len(feed) < FeedLength
        /\ UNCHANGED <<ended, live, bank, links, transactions, keys, tasks, sync, leaving,
                       connectedEvents, unseen>>
    BY DEF Post
  <1>t. BankRows /\ Numbered /\ GoneMeansGone
    BY DEF BankInv
  <1>1. /\ feed' \in Seq(Updates) /\ Len(feed') = Len(feed) + 1 /\ Len(feed) \in Nat
        /\ \A i \in 1..Len(feed) : feed'[i] = feed[i]
    BY <1>0, <1>t DEF BankRows
  <1>2. BankRows'
    BY <1>0, <1>1, <1>t, BankSyncAssumption DEF BankRows
  <1>3. Numbered'
    BY <1>0, <1>1, <1>t, BankSyncAssumption DEF BankRows, Banks, Numbered, Here, Busy
  <1>4. GoneMeansGone'
    BY <1>0, <1>t DEF GoneMeansGone
  <1>5. ASSUME bank.id # 0 /\ ~unseen
        PROVE  Kept'
    <2>0. Kept
      BY <1>5 DEF BankInv
    <2>1. transactions' = Reported(bank.cursor)'
      <3>1. bank.cursor <= Len(feed) /\ bank.cursor \in Nat
        BY <1>t, <1>1, BankSyncAssumption DEF BankRows, Banks, Numbered
      <3> QED
        BY <1>0, <1>1, <1>t, <2>0, <3>1, RowsStay DEF Kept
    <2>2. ASSUME NEW s \in Syncs, Here(s)
          PROVE  sync'[s].task \in tasks' /\ ReadRight(sync[s])'
      <3>1. PICK r : r = sync[s] /\ r \in SyncRows /\ sync'[s] = r
        BY <1>0, <1>t DEF BankRows
      <3>2. /\ r.from = bank.cursor /\ r.from <= r.cursor /\ r.cursor <= Len(feed)
            /\ r.at = "loaded" => ~r.amended
            /\ ~r.amended => Len(r.pages) = r.cursor - r.from /\ Continues(r.pages, r.from)
        BY <2>0, <2>2, <3>1 DEF Kept, ReadRight
      <3>3. r.from \in Nat /\ r.cursor \in Nat /\ Len(r.pages) \in Nat
        BY <3>1, BankSyncAssumption DEF SyncRows
      <3>4. ~r.amended => Continues(r.pages, r.from)'
        <4>1. ~r.amended => \A i \in 1..(r.from + Len(r.pages)) : feed'[i] = feed[i]
          BY <1>1, <3>2, <3>3
        <4> QED
          BY <3>2, <3>3, <4>1, ContinuesKept
      <3>5. r.cursor <= Len(feed')
        BY <1>1, <3>2, <3>3
      <3>6. ReadRight(r)'
        BY <1>0, <3>2, <3>4, <3>5 DEF ReadRight
      <3>7. sync'[s] = r /\ r.task \in tasks'
        BY <1>0, <2>0, <2>2, <3>1 DEF Kept
      <3> QED
        BY <3>6, <3>7 DEF ReadRight, Continues
    <2> QED
      BY <1>0, <2>0, <2>1, <2>2 DEF Kept, Here, Busy
  <1> QED
    BY <1>0, <1>2, <1>3, <1>4, <1>5 DEF BankInv

\* The last update of the feed is amended before it is read: who has read it is told to start again.
LEMMA AmendKeeps ==
  ASSUME BankInv, NEW u \in Updates, Amend(u)
  PROVE  BankInv'
  <1> DEFINE last == Len(feed)
  <1>0. /\ last > ended /\ feed' = [feed EXCEPT ![last] = u] /\ news' = TRUE
        /\ sync' = [s \in Syncs |-> [sync[s] EXCEPT !.amended = @ \/ sync[s].cursor = last]]
        /\ UNCHANGED <<ended, live, bank, links, transactions, keys, tasks, leaving,
                       connectedEvents, unseen>>
    BY DEF Amend
  <1>t. BankRows /\ Numbered /\ GoneMeansGone
    BY DEF BankInv
  <1>1. /\ feed' \in Seq(Updates) /\ Len(feed') = last /\ last \in Nat
        /\ \A i \in 1..last : i # last => feed'[i] = feed[i]
    BY <1>0, <1>t DEF BankRows
  <1>s. ASSUME NEW s \in Syncs
        PROVE  /\ sync'[s] \in SyncRows /\ sync'[s].at = sync[s].at /\ sync'[s].id = sync[s].id
               /\ sync'[s].task = sync[s].task /\ sync'[s].from = sync[s].from
               /\ sync'[s].cursor = sync[s].cursor /\ sync'[s].pages = sync[s].pages
               /\ sync'[s].amended = (sync[s].amended \/ sync[s].cursor = last)
    <2>1. sync[s] \in SyncRows
      BY <1>t DEF BankRows
    <2>2. sync'[s] = [sync[s] EXCEPT !.amended = (sync[s].amended \/ sync[s].cursor = last)]
      BY <1>0
    <2>3. (sync[s].amended \/ sync[s].cursor = last) \in BOOLEAN
      OBVIOUS
    <2> QED
      BY <2>1, <2>2, <2>3 DEF SyncRows
  <1>2. BankRows'
    <2>1. sync' \in [Syncs -> SyncRows]
      BY <1>0, <1>s
    <2> QED
      BY <1>0, <1>1, <1>t, <2>1 DEF BankRows
  <1>h. \A s \in Syncs : (Here(s)' <=> Here(s)) /\ (Busy(s)' <=> Busy(s))
    BY <1>0, <1>s DEF Here, Busy
  <1>3. Numbered'
    BY <1>0, <1>1, <1>s, <1>t, <1>h DEF Numbered, Here, Busy
  <1>4. GoneMeansGone'
    BY <1>0, <1>t DEF GoneMeansGone
  <1>5. ASSUME bank.id # 0 /\ ~unseen
        PROVE  Kept'
    <2>0. Kept
      BY <1>5 DEF BankInv
    <2>1. transactions' = Reported(bank.cursor)'
      <3>1. bank.cursor < last /\ bank.cursor \in Nat
        BY <1>0, <1>t, <1>1, BankSyncAssumption DEF BankRows, Banks, Numbered
      <3> QED
        BY <1>0, <1>1, <1>t, <2>0, <3>1, RowsStay DEF Kept
    <2>2. ASSUME NEW s \in Syncs, Here(s)
          PROVE  sync'[s].task \in tasks' /\ ReadRight(sync[s])'
      <3>1. PICK r, n : r = sync[s] /\ r \in SyncRows /\ n = sync'[s]
        BY <1>t DEF BankRows
      <3>2. /\ r.from = bank.cursor /\ r.from <= r.cursor /\ r.cursor <= last
            /\ r.at = "loaded" => ~r.amended /\ r.cursor <= ended
            /\ ~r.amended => Len(r.pages) = r.cursor - r.from /\ Continues(r.pages, r.from)
        BY <1>t, <2>0, <2>2, <3>1 DEF Kept, ReadRight, Numbered
      <3>3. r.from \in Nat /\ r.cursor \in Nat /\ Len(r.pages) \in Nat /\ ended \in Nat
        BY <1>t, <3>1, BankSyncAssumption DEF SyncRows, BankRows
      <3>n. /\ n.at = r.at /\ n.from = r.from /\ n.cursor = r.cursor /\ n.pages = r.pages
            /\ n.task = r.task /\ (n.amended <=> (r.amended \/ r.cursor = last))
        BY <1>s, <3>1
      <3>l. last \in Nat /\ last > ended
        BY <1>0, <1>1
      <3>4. ~n.amended => Len(n.pages) = n.cursor - n.from /\ Continues(n.pages, n.from)'
        <4>1. ~n.amended => /\ ~r.amended /\ r.from + Len(r.pages) < last
                            /\ \A i \in 1..(r.from + Len(r.pages)) : feed'[i] = feed[i]
          <5>1. ~n.amended => ~r.amended /\ r.from + Len(r.pages) < last
            BY <3>2, <3>3, <3>n, <3>l
          <5> QED
            BY <1>1, <3>3, <5>1
        <4>2. ~n.amended => Continues(r.pages, r.from)'
          BY <3>2, <3>3, <4>1, ContinuesKept
        <4> QED
          BY <3>2, <3>n, <4>1, <4>2
      <3>5. n.at = "loaded" => ~n.amended
        BY <3>2, <3>3, <3>n, <3>l
      <3>6. ReadRight(n)'
        BY <1>0, <1>1, <3>2, <3>n, <3>4, <3>5 DEF ReadRight
      <3>7. sync'[s] = n /\ n.task \in tasks'
        BY <1>0, <2>0, <2>2, <3>1, <3>n DEF Kept
      <3> QED
        BY <3>6, <3>7 DEF ReadRight, Continues
    <2> QED
      BY <1>0, <1>h, <2>0, <2>1, <2>2 DEF Kept
  <1> QED
    BY <1>0, <1>2, <1>3, <1>4, <1>5 DEF BankInv

\* A reading that goes on, ends or starts again.
LEMMA ReadingMoves ==
  ASSUME BankInv, NEW s \in Syncs, NEW r \in SyncRows, Here(s), bank.id # 0,
         sync' = [sync EXCEPT ![s] = r],
         r.at \in {"reading", "loaded"}, r.id = sync[s].id, r.task = sync[s].task,
         sync[s].at = "reading",
         ended' \in 0..FeedLength, ended <= ended', ended' <= Len(feed),
         r.at = "loaded" => r.cursor <= ended' /\ r.cursor = Len(feed),
         ReadRight(sync[s]) => ReadRight(r),
         UNCHANGED <<feed, live, news, bank, links, transactions, keys, tasks, leaving,
                     connectedEvents, unseen>>
  PROVE  BankInv'
  <1>t. BankRows /\ Numbered /\ GoneMeansGone
    BY DEF BankInv
  <1>1. /\ sync' \in [Syncs -> SyncRows] /\ sync'[s] = r
        /\ \A x \in Syncs : x # s => sync'[x] = sync[x]
    BY <1>t DEF BankRows
  <1>2. BankRows'
    BY <1>1, <1>t DEF BankRows
  <1>h. \A x \in Syncs : (Here(x)' <=> Here(x)) /\ (Busy(x)' <=> Busy(x))
    BY <1>1 DEF Here, Busy
  <1>3. Numbered'
    <2>n. ended \in Nat /\ ended' \in Nat /\ bank.cursor \in Nat /\ Len(feed) \in Nat
      BY <1>t, BankSyncAssumption DEF BankRows, Banks
    <2>1. bank'.id \in {0, links'} /\ bank'.cursor <= ended' /\ ended' <= Len(feed')
      BY <1>t, <2>n DEF Numbered
    <2>2. \A x \in Syncs : Busy(x)' => sync'[x].id \in 1..links'
      BY <1>1, <1>h, <1>t DEF Numbered
    <2>3. ASSUME NEW x \in Syncs, Here(x)'
          PROVE  /\ sync'[x].task \in keys' \cup {LinkTask}
                 /\ sync'[x].at = "loaded" => sync'[x].cursor <= ended'
      <3>1. CASE x = s
        BY <1>1, <1>h, <1>t, <2>3, <3>1 DEF Numbered
      <3>2. CASE x # s
        <4>1. sync[x].cursor \in Nat /\ sync'[x] = sync[x]
          BY <1>1, <1>t, <3>2, BankSyncAssumption DEF BankRows, SyncRows
        <4>2. /\ sync[x].task \in keys \cup {LinkTask}
              /\ sync[x].at = "loaded" => sync[x].cursor <= ended
          BY <1>h, <1>t, <2>3 DEF Numbered
        <4> QED
          BY <2>n, <4>1, <4>2
      <3> QED
        BY <3>1, <3>2
    <2> QED
      BY <2>1, <2>2, <2>3 DEF Numbered
  <1>4. GoneMeansGone'
    BY <1>t DEF GoneMeansGone
  <1>5. ASSUME ~unseen
        PROVE  Kept'
    <2>0. Kept
      BY <1>5 DEF BankInv
    <2>1. transactions' = Reported(bank.cursor)'
      BY <1>t, <2>0, RowsStay DEF Kept
    <2>2. ReadRight(r)' /\ r.task \in tasks
      BY <2>0 DEF Kept, ReadRight, Continues
    <2>3. \A x \in Syncs : Here(x) => x = s
      BY <2>0 DEF Kept, Here
    <2>4. live' /\ ~news' => Attended'
      BY <1>1, <1>h DEF Attended
    <2>5. \A x \in Syncs : Here(x)' => sync'[x].task \in tasks' /\ ReadRight(sync[x])'
      <3>1. \A x \in Syncs : Here(x)' => x = s
        BY <1>h, <2>3
      <3>2. ReadRight(sync[s])'
        BY <1>1, <2>2 DEF ReadRight, Continues
      <3> QED
        BY <1>1, <2>2, <3>1, <3>2
    <2> QED
      BY <1>h, <2>0, <2>1, <2>4, <2>5 DEF Kept
  <1> QED
    BY <1>2, <1>3, <1>4, <1>5 DEF BankInv

\* A page is read, the pages end, or Plaid asks the sync to start again.
LEMMA ReadKeeps ==
  ASSUME BankInv, NEW s \in Syncs, ReadPage(s) \/ EndPages(s) \/ StartAgain(s)
  PROVE  BankInv'
  <1>0. /\ BankRows /\ Numbered /\ GoneMeansGone /\ sync[s] \in SyncRows
        /\ Len(feed) \in Nat /\ ended \in Nat /\ feed \in Seq(Updates) /\ Len(feed) <= FeedLength
    BY BankSyncAssumption DEF BankInv, BankRows
  <1>1. /\ Here(s) /\ bank.id # 0 /\ sync[s].at = "reading"
        /\ UNCHANGED <<feed, live, news, bank, links, transactions, keys, tasks, leaving,
                       connectedEvents, unseen>>
    <2>1. /\ Here(s) /\ sync[s].at = "reading"
          /\ UNCHANGED <<feed, live, news, bank, links, transactions, keys, tasks, leaving,
                         connectedEvents, unseen>>
      BY DEF ReadPage, EndPages, StartAgain, Reads, Here, Busy
    <2>2. sync[s].id \in 1..links /\ links \in Nat
      BY <1>0, <2>1, BankSyncAssumption DEF Numbered, Here, Busy, BankRows
    <2> QED
      BY <2>1, <2>2 DEF Here
  <1>e. ended <= Len(feed)
    BY <1>0 DEF Numbered
  <1>2. CASE ReadPage(s)
    <2> DEFINE old == sync[s]
               next == old.cursor + 1
               page == [tx |-> feed[next].tx, kind |-> feed[next].kind, at |-> next]
               r == [old EXCEPT !.cursor = next, !.pages = Append(old.pages, page)]
    <2>1. /\ ~old.amended /\ next \in 1..Len(feed) /\ UNCHANGED ended
          /\ sync' = [sync EXCEPT ![s].cursor = next, ![s].pages = Append(@, page)]
      BY <1>2, <1>0 DEF ReadPage
    <2>2. page \in Pages
      <3>1. feed[next] \in Updates
        BY <1>0, <2>1
      <3>2. next \in 1..FeedLength
        BY <1>0, <2>1, BankSyncAssumption
      <3> QED
        BY <3>1, <3>2 DEF Updates, Pages
    <2>3. /\ old.pages \in Seq(Pages) /\ Append(old.pages, page) \in Seq(Pages)
          /\ next \in 0..FeedLength
      <3>1. old.pages \in Seq(Pages)
        BY <1>0 DEF SyncRows
      <3> HIDE DEF page
      <3> QED
        BY <1>0, <2>1, <2>2, <3>1, BankSyncAssumption
    <2>4. sync' = [sync EXCEPT ![s] = r]
      BY <1>0, <2>1 DEF BankRows
    <2>5. /\ r \in SyncRows /\ r.at = old.at /\ r.id = old.id /\ r.task = old.task
          /\ r.from = old.from /\ r.cursor = next /\ r.amended = old.amended
          /\ r.pages = Append(old.pages, page)
      <3> HIDE DEF page
      <3> QED
        BY <1>0, <2>3 DEF SyncRows
    <2> HIDE DEF r
    <2>6. ReadRight(old) => ReadRight(r)
      <3> SUFFICES ASSUME ReadRight(old)
                   PROVE  ReadRight(r)
        OBVIOUS
      <3>1. /\ old.from = bank.cursor /\ old.from <= old.cursor
            /\ Len(old.pages) = old.cursor - old.from /\ Continues(old.pages, old.from)
        BY <2>1 DEF ReadRight
      <3>2. old.from \in Nat /\ old.cursor \in Nat
        BY <1>0, BankSyncAssumption DEF SyncRows
      <3>3. /\ Len(r.pages) = Len(old.pages) + 1 /\ Len(old.pages) \in Nat
            /\ \A i \in 1..Len(old.pages) : r.pages[i] = old.pages[i]
            /\ r.pages[Len(old.pages) + 1] = page
        <4> HIDE DEF page
        <4> QED
          BY <2>2, <2>3, <2>5
      <3>4. old.from + (Len(old.pages) + 1) = next
        BY <3>1, <3>2
      <3>5. Continues(r.pages, old.from)
        <4> SUFFICES ASSUME NEW i \in 1..Len(r.pages)
                     PROVE  /\ r.pages[i].tx = feed[old.from + i].tx
                            /\ r.pages[i].kind = feed[old.from + i].kind
                            /\ r.pages[i].at = old.from + i
          BY DEF Continues
        <4>1. CASE i = Len(old.pages) + 1
          BY <3>3, <3>4, <4>1
        <4>2. CASE i \in 1..Len(old.pages)
          BY <3>1, <3>3, <4>2 DEF Continues
        <4> QED
          BY <3>3, <4>1, <4>2
      <3>6. Len(r.pages) = r.cursor - r.from /\ r.from <= r.cursor /\ r.cursor <= Len(feed)
        BY <1>0, <2>1, <2>5, <3>1, <3>2, <3>3
      <3> QED
        BY <1>1, <2>1, <2>5, <3>1, <3>5, <3>6 DEF ReadRight
    <2>7. ended' \in 0..FeedLength /\ ended <= ended' /\ ended' <= Len(feed) /\ r.at = "reading"
      BY <1>0, <1>1, <1>e, <2>1, <2>5 DEF BankRows
    <2> QED
      BY <1>1, <2>4, <2>5, <2>6, <2>7, ReadingMoves
  <1>3. CASE EndPages(s)
    <2> DEFINE r == [sync[s] EXCEPT !.at = "loaded"]
    <2>1. /\ ~sync[s].amended /\ sync[s].cursor = Len(feed) /\ ended' = Len(feed)
          /\ sync' = [sync EXCEPT ![s].at = "loaded"]
      BY <1>3 DEF EndPages
    <2>2. sync' = [sync EXCEPT ![s] = r]
      BY <1>0, <2>1 DEF BankRows
    <2>3. /\ r \in SyncRows /\ r.at = "loaded" /\ r.id = sync[s].id /\ r.task = sync[s].task
          /\ r.from = sync[s].from /\ r.cursor = sync[s].cursor /\ r.amended = sync[s].amended
          /\ r.pages = sync[s].pages
      BY <1>0 DEF SyncRows
    <2> HIDE DEF r
    <2>4. ReadRight(sync[s]) => ReadRight(r)
      BY <2>1, <2>3 DEF ReadRight
    <2>5. ended' \in 0..FeedLength /\ r.cursor <= ended' /\ ended' <= Len(feed)
      BY <1>0, <2>1, <2>3, BankSyncAssumption
    <2> QED
      BY <1>1, <1>e, <2>1, <2>2, <2>3, <2>4, <2>5, ReadingMoves
  <1>4. CASE StartAgain(s)
    <2> DEFINE r == Restarted(sync[s])
    <2>1. sync[s].tries < 2 /\ sync' = [sync EXCEPT ![s] = r] /\ UNCHANGED ended
      BY <1>4 DEF StartAgain
    <2>2. /\ r \in SyncRows /\ r.at = sync[s].at /\ r.id = sync[s].id /\ r.task = sync[s].task
          /\ r.from = sync[s].from /\ r.cursor = sync[s].from /\ r.amended = FALSE
          /\ r.pages = <<>>
      <3>1. <<>> \in Seq(Pages) /\ sync[s].tries + 1 \in 0..2
        BY <1>0, <2>1 DEF SyncRows
      <3>2. r = [sync[s] EXCEPT !.cursor = sync[s].from, !.pages = <<>>,
                                !.tries = sync[s].tries + 1, !.amended = FALSE]
        BY DEF Restarted
      <3> QED
        BY <1>0, <3>1, <3>2 DEF SyncRows
    <2> HIDE DEF r
    <2>3. ReadRight(sync[s]) => ReadRight(r)
      <3>1. sync[s].from \in Nat /\ sync[s].cursor \in Nat
        BY <1>0, BankSyncAssumption DEF SyncRows
      <3>2. Len(r.pages) = 0 /\ Continues(r.pages, r.from)
        BY <2>2 DEF Continues
      <3> QED
        BY <1>0, <1>1, <2>2, <3>1, <3>2 DEF ReadRight
    <2>4. ended' \in 0..FeedLength /\ ended <= ended' /\ ended' <= Len(feed) /\ r.at = "reading"
      BY <1>0, <1>1, <1>e, <2>1, <2>2 DEF BankRows
    <2> QED
      BY <1>1, <2>1, <2>2, <2>3, <2>4, ReadingMoves
  <1> QED
    BY <1>2, <1>3, <1>4

\* Where a sync begins.
LEMMA BeginKeeps ==
  ASSUME BankInv, NEW s \in Syncs, NEW k \in tasks, BeginSync(s, k)
  PROVE  BankInv'
  <1> DEFINE r == [Sleeping EXCEPT !.at = "reading", !.id = bank.id, !.task = k,
                                   !.from = bank.cursor, !.cursor = bank.cursor]
  <1>0. /\ sync[s].at = "idle" /\ bank.id # 0 /\ sync' = [sync EXCEPT ![s] = r]
        /\ bank' = [bank EXCEPT !.sync = "syncing"]
        /\ unseen' = (unseen \/ \E other \in Syncs : sync[other].at # "idle")
        /\ UNCHANGED <<feed, ended, live, news, links, transactions, keys, tasks, leaving,
                       connectedEvents>>
    BY DEF BeginSync
  <1>t. /\ BankRows /\ Numbered /\ GoneMeansGone /\ bank \in Banks
        /\ links \in Nat /\ Len(feed) \in Nat /\ ended \in Nat /\ bank.cursor \in Nat
    BY BankSyncAssumption DEF BankInv, BankRows, Banks
  <1>b. /\ bank' \in Banks /\ bank'.id = bank.id /\ bank'.cursor = bank.cursor
        /\ bank.id \in 1..links
    BY <1>0, <1>t DEF Banks, Numbered
  <1>1. /\ r \in SyncRows /\ r.at = "reading" /\ r.id = bank.id /\ r.task = k
        /\ r.from = bank.cursor /\ r.cursor = bank.cursor /\ r.pages = <<>> /\ r.amended = FALSE
    <2>1. /\ <<>> \in Seq(Pages) /\ k \in 0..LinkTask /\ bank.id \in 0..Links
          /\ bank.cursor \in 0..FeedLength
      BY <1>t, BankSyncAssumption DEF BankRows, Banks, LinkTask
    <2>2. Sleeping \in SyncRows /\ Sleeping.pages = <<>> /\ Sleeping.amended = FALSE
      BY <2>1, BankSyncAssumption DEF SyncRows, Sleeping
    <2> QED
      BY <2>1, <2>2 DEF SyncRows
  <1> HIDE DEF r
  <1>2. /\ sync' \in [Syncs -> SyncRows] /\ sync'[s] = r
        /\ \A x \in Syncs : x # s => sync'[x] = sync[x]
    BY <1>0, <1>1, <1>t DEF BankRows
  <1>3. BankRows'
    <2>1. unseen' \in BOOLEAN
      BY <1>0
    <2> QED
      BY <1>0, <1>2, <1>b, <1>t, <2>1 DEF BankRows
  <1>h. /\ Here(s)' /\ Busy(s)'
        /\ \A x \in Syncs : x # s => (Here(x)' <=> Here(x)) /\ (Busy(x)' <=> Busy(x))
    BY <1>1, <1>2, <1>b DEF Here, Busy
  <1>4. Numbered'
    <2>1. \A x \in Syncs : Busy(x)' => sync'[x].id \in 1..links'
      BY <1>0, <1>1, <1>2, <1>b, <1>h, <1>t DEF Numbered
    <2>2. \A x \in Syncs : Here(x)' => /\ sync'[x].task \in keys' \cup {LinkTask}
                                       /\ sync'[x].at = "loaded" => sync'[x].cursor <= ended'
      BY <1>0, <1>1, <1>2, <1>h, <1>t DEF Numbered, BankRows
    <2> QED
      BY <1>0, <1>b, <1>t, <2>1, <2>2 DEF Numbered
  <1>5. GoneMeansGone'
    BY <1>0, <1>b DEF GoneMeansGone
  <1>6. ASSUME ~unseen'
        PROVE  Kept'
    <2>0. Kept /\ \A x \in Syncs : ~Busy(x)
      BY <1>0, <1>6 DEF BankInv, Busy
    <2>1. transactions' = Reported(bank.cursor)'
      BY <1>0, <1>b, <1>t, <2>0, RowsStay DEF Kept
    <2>2. \A x \in Syncs : Busy(x)' \/ Here(x)' => x = s
      BY <1>h, <2>0 DEF Here
    <2>3. ReadRight(sync[s])'
      BY <1>0, <1>1, <1>2, <1>b, <1>t DEF ReadRight, Continues, Numbered
    <2>4. Attended'
      BY <1>1, <1>2, <1>h DEF Attended
    <2> QED
      BY <1>0, <1>1, <1>2, <1>h, <2>1, <2>2, <2>3, <2>4 DEF Kept
  <1> QED
    BY <1>3, <1>4, <1>5, <1>6 DEF BankInv

\* Rows that pages have been applied to are rows.
LEMMA AppliedRows ==
  ASSUME BankRows, NEW pages \in Seq(Pages)
  PROVE  Applied(pages) \in [Txs -> 0..FeedLength]
  <1>1. ASSUME NEW t \in Txs
        PROVE  Applied(pages)[t] \in 0..FeedLength
    <2> DEFINE S == {i \in DOMAIN pages : pages[i].tx = t}
    <2>1. Applied(pages)[t] = IF S = {} THEN transactions[t]
                              ELSE IF pages[Max(S)].kind = "put" THEN pages[Max(S)].at ELSE 0
      BY DEF Applied
    <2>2. S # {} => Max(S) \in 1..Len(pages)
      <3>1. S \subseteq 0..Len(pages) /\ S \subseteq 1..Len(pages) /\ Len(pages) \in Nat
        OBVIOUS
      <3> HIDE DEF S
      <3> QED
        BY <3>1, MaxOf
    <2>3. transactions[t] \in 0..FeedLength
      BY DEF BankRows
    <2>4. S # {} => pages[Max(S)].at \in 1..FeedLength
      <3>1. S # {} => pages[Max(S)] \in Pages
        BY <2>2
      <3> QED
        BY <3>1 DEF Pages
    <2> HIDE DEF S
    <2> QED
      BY <2>1, <2>3, <2>4, BankSyncAssumption
  <1> QED
    BY <1>1 DEF Applied

\* Where a sync commits.
LEMMA CommitKeeps ==
  ASSUME BankInv, NEW s \in Syncs, CommitSync(s)
  PROVE  BankInv'
  <1>0. /\ sync[s].at = "loaded" /\ sync[s].id = bank.id
        /\ transactions' = Applied(sync[s].pages)
        /\ bank' = [bank EXCEPT !.cursor = sync[s].cursor, !.sync = "idle", !.status = "active"]
        /\ tasks' = tasks \ {sync[s].task} /\ sync' = [sync EXCEPT ![s] = Sleeping]
        /\ UNCHANGED <<feed, ended, live, news, links, keys, leaving, unseen>>
    BY DEF CommitSync
  <1>t. /\ BankRows /\ Numbered /\ GoneMeansGone /\ bank \in Banks /\ sync[s] \in SyncRows
        /\ links \in Nat /\ Len(feed) \in Nat /\ ended \in Nat /\ bank.cursor \in Nat
        /\ sync[s].cursor \in Nat /\ Here(s)
    BY <1>0, BankSyncAssumption DEF BankInv, BankRows, Banks, SyncRows, Here, Busy
  <1>b. /\ bank' \in Banks /\ bank'.id = bank.id /\ bank'.cursor = sync[s].cursor
        /\ bank.id \in 1..links /\ bank.id # 0
    <2>1. bank' \in Banks /\ bank'.id = bank.id /\ bank'.cursor = sync[s].cursor
      BY <1>0, <1>t DEF Banks, SyncRows
    <2>2. bank.id \in 1..links
      BY <1>0, <1>t DEF Numbered, Here
    <2> QED
      BY <1>t, <2>1, <2>2
  <1>1. /\ sync' \in [Syncs -> SyncRows] /\ sync'[s].at = "idle"
        /\ \A x \in Syncs : x # s => sync'[x] = sync[x]
    <2>1. Sleeping \in SyncRows /\ Sleeping.at = "idle"
      <3>1. <<>> \in Seq(Pages)
        OBVIOUS
      <3> QED
        BY <3>1, BankSyncAssumption DEF Sleeping, SyncRows
    <2> QED
      BY <1>0, <1>t, <2>1 DEF BankRows
  <1>2. BankRows'
    <2>1. transactions' \in [Txs -> 0..FeedLength]
      BY <1>0, <1>t, AppliedRows DEF SyncRows
    <2>2. connectedEvents' \subseteq 1..Links
      <3>1. bank.id \in 1..Links
        BY <1>b, <1>t, BankSyncAssumption DEF BankRows
      <3>2. connectedEvents' \in {connectedEvents, connectedEvents \cup {bank.id}}
        BY DEF CommitSync
      <3> QED
        BY <1>t, <3>1, <3>2 DEF BankRows
    <2> QED
      BY <1>0, <1>1, <1>b, <1>t, <2>1, <2>2 DEF BankRows
  <1>h. /\ ~Here(s)' /\ ~Busy(s)'
        /\ \A x \in Syncs : x # s => (Here(x)' <=> Here(x)) /\ (Busy(x)' <=> Busy(x))
    BY <1>1, <1>b DEF Here, Busy
  <1>3. Numbered'
    <2>1. \A x \in Syncs : Busy(x)' => sync'[x].id \in 1..links'
      BY <1>0, <1>1, <1>h, <1>t DEF Numbered
    <2>2. \A x \in Syncs : Here(x)' => /\ sync'[x].task \in keys' \cup {LinkTask}
                                       /\ sync'[x].at = "loaded" => sync'[x].cursor <= ended'
      BY <1>0, <1>1, <1>h, <1>t DEF Numbered
    <2>3. sync[s].cursor <= ended
      BY <1>0, <1>t DEF Numbered
    <2> QED
      BY <1>0, <1>b, <1>t, <2>1, <2>2, <2>3 DEF Numbered
  <1>4. GoneMeansGone'
    BY <1>b DEF GoneMeansGone
  <1>5. ASSUME ~unseen'
        PROVE  Kept'
    <2>0. /\ Kept /\ ReadRight(sync[s]) /\ sync[s].task \in tasks
          /\ \A x \in Syncs : Busy(x) => x = s
      BY <1>0, <1>5, <1>b, <1>t DEF BankInv, Kept
    <2>1. transactions' = Reported(bank.cursor)'
      <3>1. PICK p : p = sync[s].cursor
        OBVIOUS
      <3>2. transactions' = Reported(p)
        <4>1. /\ sync[s].pages \in Seq(Pages) /\ Len(sync[s].pages) = sync[s].cursor - bank.cursor
              /\ Continues(sync[s].pages, bank.cursor) /\ bank.cursor <= sync[s].cursor
              /\ sync[s].cursor <= Len(feed) /\ transactions = Reported(bank.cursor)
              /\ feed \in Seq(Updates)
          BY <1>0, <1>t, <2>0 DEF ReadRight, Kept, SyncRows, BankRows
        <4>2. Applied(sync[s].pages) = Reported(sync[s].cursor)
          BY <1>t, <4>1, AppliedIsReported
        <4> QED
          BY <1>0, <3>1, <4>2
      <3>3. Reported(p)' = Reported(p)
        BY <1>0, <1>t, <3>1, ReportedKept
      <3> QED
        BY <1>b, <3>1, <3>2, <3>3 DEF Reported
    <2>2. \A x \in Syncs : ~Busy(x)' /\ ~Here(x)'
      BY <1>h, <2>0 DEF Here
    <2>3. live' /\ ~news' => Attended'
      <3> SUFFICES ASSUME Attended
                   PROVE  Attended'
        BY <1>0, <2>0 DEF Kept
      <3>1. CASE \E k \in tasks : \A x \in Syncs : Here(x) => sync[x].task # k
        BY <1>0, <1>t, <2>2, <3>1 DEF Attended
      <3>2. CASE \/ \E x \in Syncs : Here(x) /\ (sync[x].at = "reading" \/ sync[x].cursor = Len(feed))
                 \/ bank.cursor = Len(feed)
        <4>1. sync[s].cursor = Len(feed)
          BY <1>0, <1>t, <2>0, <3>2 DEF Here, ReadRight
        <4> QED
          BY <1>0, <1>b, <4>1 DEF Attended
      <3> QED
        BY <3>1, <3>2 DEF Attended
    <2> QED
      BY <2>1, <2>2, <2>3 DEF Kept
  <1> QED
    BY <1>0, <1>2, <1>3, <1>4, <1>5 DEF BankInv

\* Where a sync fails or dies.
LEMMA EndKeeps ==
  ASSUME BankInv, NEW s \in Syncs, EndSync(s)
  PROVE  BankInv'
  <1>0. /\ sync[s].at # "idle" /\ sync' = [sync EXCEPT ![s] = Sleeping]
        /\ \/ UNCHANGED bank
           \/ \E status \in {bank.status, "reauthorize"} :
                bank' = [bank EXCEPT !.sync = "failed", !.status = status]
        /\ \/ UNCHANGED <<tasks, unseen>>
           \/ tasks' = tasks \ {sync[s].task} /\ unseen' = TRUE
        /\ UNCHANGED <<feed, ended, live, news, links, transactions, keys, leaving, connectedEvents>>
    BY DEF EndSync
  <1>t. /\ BankRows /\ Numbered /\ GoneMeansGone /\ bank \in Banks
    BY DEF BankInv, BankRows
  <1>b. bank' \in Banks /\ bank'.id = bank.id /\ bank'.cursor = bank.cursor
    BY <1>0, <1>t DEF Banks
  <1>1. /\ sync' \in [Syncs -> SyncRows] /\ sync'[s].at = "idle"
        /\ \A x \in Syncs : x # s => sync'[x] = sync[x]
    <2>1. Sleeping \in SyncRows /\ Sleeping.at = "idle"
      <3>1. <<>> \in Seq(Pages)
        OBVIOUS
      <3> QED
        BY <3>1, BankSyncAssumption DEF Sleeping, SyncRows
    <2> QED
      BY <1>0, <1>t, <2>1 DEF BankRows
  <1>2. BankRows'
    BY <1>0, <1>1, <1>b, <1>t DEF BankRows
  <1>h. /\ ~Here(s)' /\ ~Busy(s)'
        /\ \A x \in Syncs : x # s => (Here(x)' <=> Here(x)) /\ (Busy(x)' <=> Busy(x))
    BY <1>1, <1>b DEF Here, Busy
  <1>3. Numbered'
    BY <1>0, <1>1, <1>b, <1>h, <1>t DEF Numbered
  <1>4. GoneMeansGone'
    BY <1>0, <1>b, <1>t DEF GoneMeansGone
  <1>5. ASSUME bank.id # 0, ~unseen'
        PROVE  Kept'
    <2>0. Kept /\ UNCHANGED tasks
      BY <1>0, <1>5 DEF BankInv
    <2>1. transactions' = Reported(bank.cursor)'
      BY <1>0, <1>b, <1>t, <2>0, RowsStay DEF Kept
    <2>2. \A x \in Syncs : Here(x)' => sync'[x].task \in tasks' /\ ReadRight(sync[x])'
      <3> SUFFICES ASSUME NEW x \in Syncs, Here(x)'
                   PROVE  sync'[x].task \in tasks' /\ ReadRight(sync[x])'
        OBVIOUS
      <3>1. x # s /\ Here(x)
        BY <1>h
      <3>2. sync'[x] = sync[x] /\ sync[x].task \in tasks /\ ReadRight(sync[x])
        BY <1>1, <2>0, <3>1 DEF Kept
      <3> QED
        BY <1>0, <1>b, <2>0, <3>2 DEF ReadRight, Continues
    <2>3. live' /\ ~news' => Attended'
      <3> SUFFICES ASSUME Attended
                   PROVE  Attended'
        BY <1>0, <2>0 DEF Kept
      <3>1. CASE \E k \in tasks : \A x \in Syncs : Here(x) => sync[x].task # k
        BY <1>1, <1>h, <2>0, <3>1 DEF Attended
      <3>2. CASE \E x \in Syncs : Here(x) /\ (sync[x].at = "reading" \/ sync[x].cursor = Len(feed))
        <4>1. PICK x \in Syncs : Here(x) /\ (sync[x].at = "reading" \/ sync[x].cursor = Len(feed))
          BY <3>2
        <4>2. CASE x = s
          <5>1. sync[s].task \in tasks'
            BY <2>0, <4>1, <4>2 DEF Kept
          <5>2. \A y \in Syncs : ~Here(y)'
            BY <1>h, <2>0, <4>1, <4>2 DEF Kept, Here
          <5> QED
            BY <5>1, <5>2 DEF Attended
        <4>3. CASE x # s
          BY <1>0, <1>1, <1>h, <4>1, <4>3 DEF Attended
        <4> QED
          BY <4>2, <4>3
      <3>3. CASE bank.cursor = Len(feed)
        BY <1>0, <1>b, <3>3 DEF Attended
      <3> QED
        BY <3>1, <3>2, <3>3 DEF Attended
    <2>4. \A x, other \in Syncs : Here(x)' /\ Busy(other)' => x = other
      BY <1>h, <2>0 DEF Kept
    <2>5. \A x \in Syncs : Busy(x)' /\ ~Here(x)' => LinkTask \in tasks'
      BY <1>h, <2>0 DEF Kept
    <2> QED
      BY <2>1, <2>2, <2>3, <2>4, <2>5 DEF Kept
  <1> QED
    BY <1>b, <1>2, <1>3, <1>4, <1>5 DEF BankInv

\* A webhook: what it drops, somebody will read or is counted as unseen.
LEMMA WebhookKeeps ==
  ASSUME BankInv, Webhook
  PROVE  BankInv'
  <1>0. /\ news' \in BOOLEAN /\ bank.id # 0
        /\ UNCHANGED <<feed, ended, live, bank, links, transactions, sync, leaving, connectedEvents>>
        /\ \/ /\ unseen' = (unseen \/ (~news' /\ ~SomebodyWillLook))
              /\ UNCHANGED <<keys, tasks>>
           \/ /\ bank.cursor \notin keys /\ UNCHANGED unseen
              /\ keys' = keys \cup {bank.cursor} /\ tasks' = tasks \cup {bank.cursor}
    BY DEF Webhook
  <1>t. /\ BankRows /\ Numbered /\ GoneMeansGone /\ bank.cursor \in 0..FeedLength
    BY DEF BankInv, BankRows, Banks
  <1>2. BankRows'
    BY <1>0, <1>t DEF BankRows
  <1>h. \A x \in Syncs : (Here(x)' <=> Here(x)) /\ (Busy(x)' <=> Busy(x))
    BY <1>0 DEF Here, Busy
  <1>k. keys \subseteq keys' /\ tasks \subseteq tasks'
    BY <1>0
  <1>3. Numbered'
    BY <1>0, <1>h, <1>k, <1>t DEF Numbered
  <1>4. GoneMeansGone'
    BY <1>0 DEF GoneMeansGone
  <1>5. ASSUME ~unseen'
        PROVE  Kept'
    <2>u. ~unseen
      <3>1. CASE unseen' = (unseen \/ (~news' /\ ~SomebodyWillLook))
        BY <1>5, <3>1
      <3>2. CASE UNCHANGED unseen
        BY <1>5, <3>2
      <3> QED
        BY <1>0, <3>1, <3>2
    <2>0. Kept
      BY <1>0, <2>u DEF BankInv
    <2>1. transactions' = Reported(bank.cursor)'
      BY <1>0, <1>t, <2>0, RowsStay DEF Kept
    <2>2. \A x \in Syncs : Here(x)' => sync'[x].task \in tasks' /\ ReadRight(sync[x])'
      BY <1>0, <1>h, <1>k, <2>0 DEF Kept, ReadRight, Continues
    <2>3. ~news' => Attended'
      <3>1. CASE UNCHANGED <<keys, tasks>> /\ SomebodyWillLook
        <4>1. CASE \E k \in tasks : \A x \in Syncs : sync[x].task # k
          BY <1>0, <1>h, <3>1, <4>1 DEF Attended
        <4>2. CASE \E x \in Syncs : sync[x].at = "reading"
          <5>1. PICK x \in Syncs : sync[x].at = "reading"
            BY <4>2
          <5>2. CASE Here(x)
            BY <1>0, <1>h, <5>1, <5>2 DEF Attended
          <5>3. CASE ~Here(x)
            <6>1. Busy(x)
              BY <5>1 DEF Busy
            <6>2. LinkTask \in tasks' /\ \A y \in Syncs : ~Here(y)'
              BY <1>h, <2>0, <3>1, <5>3, <6>1 DEF Kept
            <6> QED
              BY <6>2 DEF Attended
          <5> QED
            BY <5>2, <5>3
        <4> QED
          BY <3>1, <4>1, <4>2 DEF SomebodyWillLook
      <3>2. CASE bank.cursor \notin keys /\ tasks' = tasks \cup {bank.cursor}
        <4>1. \A x \in Syncs : Here(x)' => sync'[x].task # bank.cursor
          <5>1. bank.cursor # LinkTask
            BY <1>t, BankSyncAssumption DEF LinkTask
          <5>2. \A x \in Syncs : Here(x) => sync[x].task \in keys \cup {LinkTask}
            BY <1>t DEF Numbered
          <5> QED
            BY <1>0, <1>h, <3>2, <5>1, <5>2
        <4> QED
          BY <3>2, <4>1 DEF Attended
      <3> QED
        BY <1>0, <1>5, <3>1, <3>2
    <2>4. \A x, other \in Syncs : Here(x)' /\ Busy(other)' => x = other
      BY <1>h, <2>0 DEF Kept
    <2>5. \A x \in Syncs : Busy(x)' /\ ~Here(x)' => LinkTask \in tasks'
      BY <1>h, <1>k, <2>0 DEF Kept
    <2> QED
      BY <2>1, <2>2, <2>3, <2>4, <2>5 DEF Kept
  <1> QED
    BY <1>0, <1>2, <1>3, <1>4, <1>5 DEF BankInv

\* Linking: nothing of a removed connection is left but syncs that can no longer commit.
LEMMA LinkKeeps ==
  ASSUME BankInv, Link
  PROVE  BankInv'
  <1>0. /\ bank.id = 0 /\ links < Links /\ links' = links + 1 /\ live' = TRUE
        /\ feed' = <<>> /\ ended' = 0 /\ keys' = {} /\ news' = FALSE
        /\ bank' = [id |-> links + 1, cursor |-> 0, status |-> "active", sync |-> "pending"]
        /\ tasks' = {LinkTask} /\ unseen' = FALSE
        /\ UNCHANGED <<transactions, sync, leaving, connectedEvents>>
    BY DEF Link
  <1>t. BankRows /\ Numbered /\ GoneMeansGone /\ links \in Nat
    BY BankSyncAssumption DEF BankInv, BankRows
  <1>f. feed' \in Seq(Updates) /\ Len(feed') = 0
    BY <1>0
  <1>b. /\ bank' \in Banks /\ bank'.id = links + 1 /\ bank'.cursor = 0 /\ bank'.id # 0
        /\ links' \in 0..Links
    BY <1>0, <1>t, BankSyncAssumption DEF Banks
  <1>2. BankRows'
    <2>1. /\ feed' \in Seq(Updates) /\ Len(feed') <= FeedLength /\ ended' \in 0..FeedLength
          /\ {live', news', unseen'} \subseteq BOOLEAN
      <3>1. feed' \in Seq(Updates) /\ Len(feed') <= FeedLength /\ ended' \in 0..FeedLength
        BY <1>0, <1>f, BankSyncAssumption
      <3>2. live' \in BOOLEAN /\ news' \in BOOLEAN /\ unseen' \in BOOLEAN
        BY <1>0
      <3> QED
        BY <3>1, <3>2
    <2>2. keys' \subseteq 0..FeedLength /\ tasks' \subseteq keys' \cup {LinkTask}
      BY <1>0
    <2> QED
      BY <1>0, <1>b, <1>t, <2>1, <2>2 DEF BankRows
  <1>h. \A x \in Syncs : ~Here(x)' /\ (Busy(x)' <=> Busy(x))
    BY <1>0, <1>b, <1>t DEF Here, Busy, Numbered
  <1>3. Numbered'
    BY <1>0, <1>b, <1>f, <1>h, <1>t DEF Numbered
  <1>4. GoneMeansGone'
    BY <1>b DEF GoneMeansGone
  <1>5. Kept'
    <2>1. transactions' = Reported(bank.cursor)'
      <3>1. transactions = NoRows
        BY <1>0, <1>t DEF GoneMeansGone
      <3>2. Reported(0)' = NoRows
        BY DEF Reported, NoRows
      <3> QED
        BY <1>0, <1>b, <3>1, <3>2 DEF Reported
    <2> QED
      BY <1>0, <1>b, <1>f, <1>h, <2>1 DEF Kept, Attended
  <1> QED
    BY <1>2, <1>3, <1>4, <1>5 DEF BankInv

\* Steps that touch neither the feed nor a sync.
LEMMA QuietKeeps ==
  ASSUME BankInv,
         Relink \/ BeginLeaving \/ CommitLeaving \/ FailLeaving \/ UNCHANGED bankVars
  PROVE  BankInv'
  <1>t. /\ BankRows /\ Numbered /\ GoneMeansGone /\ bank \in Banks /\ links \in Nat
        /\ bank.id \in 0..Links /\ ended \in Nat
    BY BankSyncAssumption DEF BankInv, BankRows, Banks
  <1>0. UNCHANGED <<feed, ended, links, sync, connectedEvents>>
    BY DEF Relink, BeginLeaving, CommitLeaving, FailLeaving, bankVars
  <1>1. CASE Relink \/ BeginLeaving \/ FailLeaving \/ UNCHANGED bankVars
    <2>0. /\ bank' \in Banks /\ bank'.id = bank.id /\ bank'.cursor = bank.cursor
          /\ tasks' = tasks \/ (tasks' = tasks \cup {LinkTask} /\ bank.id # 0)
          /\ live' \in BOOLEAN /\ (live' => live) /\ leaving' \in 0..Links
          /\ UNCHANGED <<news, transactions, keys, unseen>>
      <3>1. CASE Relink
        <4>1. /\ bank.id # 0 /\ bank' = [bank EXCEPT !.status = "active", !.sync = "pending"]
              /\ tasks' = tasks \cup {LinkTask}
              /\ UNCHANGED <<live, leaving, news, transactions, keys, unseen>>
          BY <3>1 DEF Relink
        <4>2. bank' \in Banks /\ bank'.id = bank.id /\ bank'.cursor = bank.cursor
          BY <1>t, <4>1 DEF Banks
        <4> QED
          BY <1>t, <4>1, <4>2 DEF BankRows
      <3>2. CASE BeginLeaving \/ FailLeaving \/ UNCHANGED bankVars
        <4>1. UNCHANGED <<bank, tasks, news, transactions, keys, unseen>>
          BY <3>2 DEF BeginLeaving, FailLeaving, bankVars
        <4>2. (live' = FALSE \/ live' = live) /\ leaving' \in {0, bank.id, leaving}
          BY <3>2 DEF BeginLeaving, FailLeaving, bankVars
        <4>3. leaving \in 0..Links /\ 0 \in 0..Links /\ live \in BOOLEAN
          BY <1>t, BankSyncAssumption DEF BankRows
        <4>4. live' \in BOOLEAN /\ (live' => live)
          <5>1. CASE live' = FALSE
            BY <5>1
          <5>2. CASE live' = live
            BY <4>3, <5>2
          <5> QED
            BY <4>2, <5>1, <5>2
        <4>5. leaving' \in 0..Links
          BY <1>t, <4>2, <4>3
        <4> QED
          BY <1>t, <4>1, <4>4, <4>5
      <3> QED
        BY <1>1, <3>1, <3>2
    <2>2. BankRows'
      BY <1>0, <1>t, <2>0 DEF BankRows
    <2>h. \A x \in Syncs : (Here(x)' <=> Here(x)) /\ (Busy(x)' <=> Busy(x))
      BY <1>0, <2>0 DEF Here, Busy
    <2>3. Numbered'
      BY <1>0, <1>t, <2>0, <2>h DEF Numbered
    <2>4. GoneMeansGone'
      BY <1>t, <2>0 DEF GoneMeansGone
    <2>5. ASSUME bank.id # 0, ~unseen
          PROVE  Kept'
      <3>0. Kept
        BY <2>5 DEF BankInv
      <3>1. transactions' = Reported(bank.cursor)'
        BY <1>0, <1>t, <2>0, <3>0, RowsStay DEF Kept
      <3>2. \A x \in Syncs : Here(x)' => sync'[x].task \in tasks' /\ ReadRight(sync[x])'
        BY <1>0, <2>0, <2>h, <3>0 DEF Kept, ReadRight, Continues
      <3>3. Attended => Attended'
        BY <1>0, <2>0, <2>h DEF Attended
      <3> QED
        BY <2>0, <2>h, <3>0, <3>1, <3>2, <3>3 DEF Kept
    <2> QED
      BY <2>0, <2>2, <2>3, <2>4, <2>5 DEF BankInv
  <1>2. CASE CommitLeaving
    <2>0. /\ bank' = NoBank /\ transactions' = NoRows /\ tasks' = {} /\ keys' = {} /\ leaving' = 0
          /\ UNCHANGED <<live, news, unseen>>
      BY <1>2 DEF CommitLeaving
    <2>1. NoBank \in Banks /\ NoBank.id = 0 /\ NoBank.cursor = 0
      BY BankSyncAssumption DEF NoBank, Banks
    <2>2. BankRows'
      <3>1. NoRows \in [Txs -> 0..FeedLength] /\ 0 \in 0..Links
        BY BankSyncAssumption DEF NoRows
      <3> QED
        BY <1>0, <1>t, <2>0, <2>1, <3>1 DEF BankRows
    <2>3. Numbered'
      <3>1. \A x \in Syncs : (Busy(x)' <=> Busy(x)) /\ ~Here(x)'
        BY <1>0, <1>t, <2>0, <2>1 DEF Here, Busy, Numbered
      <3> QED
        BY <1>0, <1>t, <2>0, <2>1, <3>1 DEF Numbered
    <2>4. GoneMeansGone'
      BY <2>0, <2>1 DEF GoneMeansGone
    <2> QED
      BY <2>0, <2>1, <2>2, <2>3, <2>4 DEF BankInv
  <1> QED
    BY <1>1, <1>2

\* BankInv holds at first.
LEMMA BankInitially == BankInit => BankInv
  <1> SUFFICES ASSUME BankInit
               PROVE  BankInv
    OBVIOUS
  <1>1. BankRows
    <2>1. NoBank \in Banks /\ NoRows \in [Txs -> 0..FeedLength]
      BY BankSyncAssumption DEF NoBank, Banks, NoRows
    <2>2. Sleeping \in SyncRows
      <3>1. <<>> \in Seq(Pages)
        OBVIOUS
      <3> QED
        BY <3>1, BankSyncAssumption DEF Sleeping, SyncRows
    <2>3. <<>> \in Seq(Updates) /\ Len(<<>>) = 0
      OBVIOUS
    <2>4. /\ feed \in Seq(Updates) /\ Len(feed) <= FeedLength /\ ended \in 0..FeedLength
          /\ {live, news, unseen} \subseteq BOOLEAN
      <3>1. feed = <<>> /\ ended = 0
        BY DEF BankInit
      <3>2. live \in BOOLEAN /\ news \in BOOLEAN /\ unseen \in BOOLEAN
        BY DEF BankInit
      <3> QED
        BY <2>3, <3>1, <3>2, BankSyncAssumption
    <2>5. /\ bank \in Banks /\ {links, leaving} \subseteq 0..Links
          /\ transactions \in [Txs -> 0..FeedLength] /\ connectedEvents \subseteq 1..Links
      BY <2>1, BankSyncAssumption DEF BankInit
    <2>6. /\ keys \subseteq 0..FeedLength /\ tasks \subseteq keys \cup {LinkTask}
          /\ sync \in [Syncs -> SyncRows]
      BY <2>2 DEF BankInit
    <2> QED
      BY <2>4, <2>5, <2>6 DEF BankRows
  <1>2. bank.id = 0 /\ bank.cursor = 0 /\ ended = 0 /\ links = 0 /\ Len(feed) = 0
    BY DEF BankInit, NoBank
  <1>3. \A s \in Syncs : ~Busy(s) /\ ~Here(s)
    BY DEF BankInit, Busy, Here, Sleeping
  <1> QED
    BY <1>1, <1>2, <1>3 DEF BankInit, BankInv, Numbered, GoneMeansGone

\* Every step keeps it.
LEMMA BankKeeps == BankInv /\ [BankNext]_bankVars => BankInv'
  BY PostKeeps, AmendKeeps, ReadKeeps, BeginKeeps, CommitKeeps, EndKeeps, WebhookKeeps, LinkKeeps,
     QuietKeeps DEF BankNext

\* What the invariant says of the rows.
LEMMA BankSays == BankInv => RowsFollowTheFeed /\ BankTypeOK
  <1> SUFFICES ASSUME BankInv
               PROVE  RowsFollowTheFeed /\ BankTypeOK
    OBVIOUS
  <1>0. BankRows /\ Numbered /\ GoneMeansGone /\ (bank.id # 0 /\ ~unseen => Kept)
    BY DEF BankInv
  <1>1. RowsAreTheFeeds
    BY <1>0 DEF RowsAreTheFeeds, Kept
  <1>2. CaughtUp
    BY <1>0 DEF CaughtUp, Kept, Attended
  <1>3. BankTypeOK
    <2>1. ASSUME NEW s \in Syncs
          PROVE  /\ sync[s].at \in {"idle", "reading", "loaded"} /\ sync[s].id \in 0..Links
                 /\ sync[s].task \in 0..LinkTask \cup {NoTask}
                 /\ {sync[s].from, sync[s].cursor} \subseteq 0..FeedLength
                 /\ sync[s].pages \in Seq([tx : Txs, kind : {"put", "remove"}, at : 1..FeedLength])
                 /\ sync[s].tries \in 0..2 /\ sync[s].amended \in BOOLEAN
      <3>1. sync[s] \in SyncRows
        BY <1>0 DEF BankRows
      <3> QED
        BY <3>1 DEF SyncRows, Pages
    <2>2. tasks \subseteq 0..LinkTask
      BY <1>0, BankSyncAssumption DEF BankRows, LinkTask
    <2> QED
      BY <1>0, <2>1, <2>2 DEF BankTypeOK, BankRows, Banks
  <1> QED
    BY <1>0, <1>1, <1>2, <1>3 DEF RowsFollowTheFeed

\* The rows of a bank connection are what Plaid's feed says up to the cursor, nothing is left
\* unread when no webhook and no task is, and nothing is left of a connection that was removed:
\* whatever is posted, amended, delivered twice, failed, given up, or removed during a sync.
THEOREM FeedFollowed == BankSpec => []RowsFollowTheFeed
  <1> QED
    BY BankInitially, BankKeeps, BankSays, PTL DEF BankSpec

\* The connection, its rows and the syncs of services/finance.py stay of their types.
THEOREM BankTypes == BankSpec => []BankTypeOK
  <1> QED
    BY BankInitially, BankKeeps, BankSays, PTL DEF BankSpec
==============================================================================
