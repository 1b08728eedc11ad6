-------------------------- MODULE CollectorProofs --------------------------
(***************************************************************************)
(* Proofs about Collector, for any members, memberships and reactions: what *)
(* a round leaves in the table and in the snapshots of the dashboard.      *)
(***************************************************************************)
EXTENDS Collector, TLAPS

\* Where a round may be, and its members still to scrape, to complete and to store.
Rounds == [pc : {"wait", "sync", "scrape", "lease", "store"},
           todo : SUBSET Ids, got : SUBSET Ids, done : SUBSET Ids]

\* The members of the round that are scraped and not stored yet.
Open == round.got \cup round.done

\* The snapshot of i, if it is shown up, is the newest row, or Store failed for it.
Kept(i) == latest[i] # None /\ latest[i].up => i \in lost \/ table[i] = latest[i]

(* Where a round is: it ends empty, completes only once everything is scraped, and *)
(* what is open was scraped in this round and is not scraped again.                *)
RoundInv ==
  /\ round.pc \in {"wait", "sync"} => round.todo = {} /\ Open = {}
  /\ round.pc \in {"lease", "store"} => round.todo = {} /\ round.got = {}
  /\ round.todo \cap Open = {}
  /\ \A i \in Open : latest[i] \in Snapshot /\ latest[i].up /\ gap[i] = 0

\* What is not open was stored or lost, or is not shown up.
StoredInv == \A i \in Ids : i \notin Open => Kept(i)

\* The inductive invariant behind the three theorems.
IInv == TypeOK /\ RoundInv /\ StoredInv

\* The sentinel is neither a counter nor the time of a scrape.
LEMMA NoneFacts == None \notin Counts /\ None \notin 0..MaxGap /\ MaxGap \in Nat \ {0}
  BY CollectorAssumption DEF Counts

\* Every listed id is scraped at a member.
LEMMA ScrapedType == ASSUME NEW i \in Ids PROVE Scraped(i) \in Members
  BY CollectorAssumption DEF Scraped, Ids

\* A rate is a growth within the bound of the counter over a time that is known.
LEMMA RateType ==
  ASSUME TypeOK, NEW i \in Ids
  PROVE  RateOf(i) \in Rate \cup {None}
<1>. DEFINE c == count[Scraped(i)]
<1>1. c \in Counts /\ gap[i] \in 0..MaxGap \cup {None} /\ prev[i] \in Counts \cup {None}
  BY ScrapedType DEF TypeOK
<1>2. MaxCount \in Nat
  BY CollectorAssumption
<1>3. ASSUME gap[i] \in 1..MaxGap, prev[i] # None, c >= prev[i]
      PROVE  [grown |-> c - prev[i], over |-> gap[i]] \in Rate
  <2>1. prev[i] \in Counts
    BY <1>1, <1>3
  <2>2. c - prev[i] \in Counts
    BY <1>1, <1>2, <1>3, <2>1 DEF Counts
  <2>. HIDE DEF c
  <2>. QED
    BY <1>3, <2>2 DEF Rate
<1>. QED
  BY <1>3 DEF RateOf

\* What MarkDown writes is a snapshot that is not up.
LEMMA MarkDownType ==
  ASSUME TypeOK, NEW i \in Ids
  PROVE  MarkDown(i) \in Snapshot /\ ~MarkDown(i).up
<1>1. latest[i] \in Snapshot \cup {None}
  BY DEF TypeOK
<1>. QED
  BY <1>1 DEF MarkDown, Snapshot

\* Between two rounds nothing is to be done.
LEMMA WaitingType == Waiting \in Rounds
  BY DEF Waiting, Rounds

\* A server that starts knows nothing.
LEMMA Initially == Init => IInv
<1>. SUFFICES ASSUME Init PROVE IInv
  OBVIOUS
<1>1. count \in [Members -> Counts] /\ restarts \in 0..MaxRestarts
  BY CollectorAssumption DEF Init, Counts
<1>2. TypeOK
  BY <1>1, WaitingType DEF Init, TypeOK, NothingKnown, Rounds
<1>3. RoundInv
  BY DEF Init, RoundInv, Open, Waiting
<1>4. StoredInv
  BY DEF Init, StoredInv, Kept, history, NothingKnown
<1>. QED
  BY <1>2, <1>3, <1>4 DEF IInv

-----------------------------------------------------------------------------

\* A step that leaves the round and what it completes alone.
LEMMA Unseen ==
  ASSUME IInv, TypeOK', UNCHANGED <<round, latest, gap, history>>
  PROVE  IInv'
  BY DEF IInv, RoundInv, StoredInv, Open, Kept, history

\* A new round, or the list for it, with nothing scraped yet.
LEMMA Fresh ==
  ASSUME IInv, TypeOK', round.pc \in {"wait", "sync"}, round'.pc \in {"sync", "scrape"},
         round'.got = {}, round'.done = {}, round'.pc = "sync" => round'.todo = {},
         UNCHANGED <<latest, history>>
  PROVE  IInv'
<1>1. Open = {} /\ Open' = {}
  BY DEF IInv, RoundInv, Open
<1>2. RoundInv'
  BY <1>1 DEF RoundInv
<1>3. StoredInv'
  BY <1>1 DEF IInv, StoredInv, Kept, history
<1>. QED
  BY <1>2, <1>3 DEF IInv

\* A tick begins a round with nothing scraped.
LEMMA TickKeeps == IInv /\ Tick => IInv'
<1>. SUFFICES ASSUME IInv, Tick PROVE IInv'
  OBVIOUS
<1>1. members \in SUBSET Ids
  BY DEF IInv, TypeOK
<1>2. /\ round' \in Rounds /\ round'.got = {} /\ round'.done = {}
      /\ round'.pc \in {"sync", "scrape"}
      /\ round'.pc = "sync" => round'.todo = {}
  BY <1>1 DEF Tick, Waiting, Rounds
<1>3. gap' \in [Ids -> 0..MaxGap \cup {None}]
  <2>1. ASSUME NEW i \in Ids
        PROVE  (IF gap[i] \in 0..(MaxGap - 1) THEN gap[i] + 1 ELSE gap[i]) \in 0..MaxGap \cup {None}
    <3>1. gap[i] \in 0..MaxGap \cup {None}
      BY DEF IInv, TypeOK
    <3>. QED
      BY <3>1, NoneFacts
  <2>. QED
    BY <2>1 DEF Tick
<1>4. TypeOK'
  BY <1>2, <1>3 DEF Tick, IInv, TypeOK, env, history, Rounds
<1>5. round.pc = "wait"
  BY DEF Tick, Waiting
<1>. QED
  BY <1>2, <1>4, <1>5, Fresh DEF Tick

\* The discovery settles whom the round scrapes, before it scrapes.
LEMMA SyncKeeps == ASSUME IInv, NEW found, Sync(found) PROVE IInv'
<1>1. Synced(found) \in SUBSET Ids
  BY CollectorAssumption DEF Sync, Synced, IInv, TypeOK, Ids
<1>2. /\ round' \in Rounds /\ round'.got = {} /\ round'.done = {} /\ round'.pc = "scrape"
      /\ round.pc = "sync"
  BY <1>1 DEF Sync, Waiting, Rounds
<1>3. TypeOK'
  BY <1>1, <1>2 DEF Sync, IInv, TypeOK, env, history, Rounds
<1>. QED
  BY <1>2, <1>3, Fresh DEF Sync

\* A scrape that succeeds opens the member: its snapshot is up and has its row to come.
LEMMA ParseKeeps == ASSUME IInv, NEW i \in Ids, Parse(i) PROVE IInv'
<1>. DEFINE new == [up |-> TRUE, count |-> count[Scraped(i)], rate |-> RateOf(i),
                    raft |-> FALSE, lease |-> FALSE]
<1>1. TypeOK /\ RoundInv /\ StoredInv /\ round \in Rounds
  BY DEF IInv, TypeOK, Rounds
<1>2. new \in Snapshot
  <2>1. count[Scraped(i)] \in Counts /\ RateOf(i) \in Rate \cup {None}
    BY <1>1, ScrapedType, RateType DEF TypeOK
  <2>. QED
    BY <2>1 DEF Snapshot
<1>3. new.up = TRUE
  OBVIOUS
<1>4. /\ latest' = [latest EXCEPT ![i] = new] /\ gap' = [gap EXCEPT ![i] = 0]
      /\ round' = [round EXCEPT !.todo = @ \ {i}, !.got = @ \cup {i}]
      /\ prev' = [prev EXCEPT ![i] = IF latest[i] = None THEN None ELSE latest[i].count]
      /\ lost' = lost \ {i} /\ UNCHANGED <<env, members, syncDue, table>> /\ i \in round.todo
  BY DEF Parse
<1>. HIDE DEF new
<1>5. /\ round' \in Rounds /\ round'.todo = round.todo \ {i} /\ round'.pc = round.pc
      /\ round'.got = round.got \cup {i} /\ round'.done = round.done
  BY <1>1, <1>4 DEF Rounds
<1>6. prev' \in [Ids -> Counts \cup {None}]
  BY <1>1, <1>4 DEF TypeOK, Snapshot
<1>7. TypeOK'
  BY <1>1, <1>2, <1>4, <1>5, <1>6, NoneFacts DEF TypeOK, env, history, Rounds
<1>8. round.pc = "scrape"
  BY <1>1, <1>4 DEF RoundInv, Rounds
<1>9. RoundInv'
  BY <1>1, <1>2, <1>3, <1>4, <1>5, <1>8 DEF RoundInv, Open, TypeOK
<1>10. StoredInv'
  BY <1>1, <1>4, <1>5 DEF StoredInv, Kept, history, Open, TypeOK
<1>. QED
  BY <1>7, <1>9, <1>10 DEF IInv

\* A member that cannot be connected to is marked down, which owes no row.
LEMMA UnreachableKeeps == ASSUME IInv, NEW i \in Ids, Unreachable(i) PROVE IInv'
<1>1. TypeOK /\ RoundInv /\ StoredInv /\ round \in Rounds
  BY DEF IInv, TypeOK, Rounds
<1>2. /\ latest' = [latest EXCEPT ![i] = MarkDown(i)] /\ i \in round.todo
      /\ round' = [round EXCEPT !.todo = @ \ {i}]
      /\ UNCHANGED <<env, members, syncDue, prev, gap, history>>
  BY DEF Unreachable
<1>3. MarkDown(i) \in Snapshot /\ ~MarkDown(i).up
  BY <1>1, MarkDownType
<1>4. /\ round' \in Rounds /\ round'.todo = round.todo \ {i} /\ round'.pc = round.pc
      /\ round'.got = round.got /\ round'.done = round.done
  BY <1>1, <1>2 DEF Rounds
<1>5. TypeOK'
  BY <1>1, <1>2, <1>3, <1>4 DEF TypeOK, env, history, Rounds
<1>6. i \notin Open
  BY <1>1, <1>2 DEF RoundInv
<1>7. RoundInv'
  BY <1>1, <1>2, <1>4, <1>6 DEF RoundInv, Open, TypeOK
<1>8. StoredInv'
  BY <1>1, <1>2, <1>3, <1>4 DEF StoredInv, Kept, history, Open, TypeOK
<1>. QED
  BY <1>5, <1>7, <1>8 DEF IInv

\* An answer that is not 200 changes no snapshot: what was shown stays with its row.
LEMMA RefusedKeeps == ASSUME IInv, NEW i \in Ids, Refused(i) PROVE IInv'
<1>1. TypeOK /\ RoundInv /\ StoredInv /\ round \in Rounds
  BY DEF IInv, TypeOK, Rounds
<1>2. /\ round' \in Rounds /\ round'.todo = round.todo \ {i} /\ round'.pc = round.pc
      /\ round'.got = round.got /\ round'.done = round.done
  BY <1>1 DEF Refused, Rounds
<1>3. UNCHANGED <<env, members, syncDue, latest, prev, gap, history>>
  BY DEF Refused
<1>4. TypeOK'
  BY <1>1, <1>2, <1>3 DEF TypeOK, env, history, Rounds
<1>5. RoundInv' /\ StoredInv'
  BY <1>1, <1>2, <1>3 DEF RoundInv, StoredInv, Kept, history, Open
<1>. QED
  BY <1>4, <1>5 DEF IInv

\* Completing a published snapshot changes one that is open.
LEMMA InjectRaftKeeps ==
  ASSUME IInv, NEW i \in Ids, NEW known \in BOOLEAN, InjectRaft(i, known)
  PROVE  IInv'
<1>. DEFINE new == [latest[i] EXCEPT !.raft = known]
<1>1. TypeOK /\ RoundInv /\ StoredInv /\ round \in Rounds /\ i \in round.got /\ i \in Open
  BY DEF IInv, TypeOK, Rounds, InjectRaft, Open
<1>2. new \in Snapshot /\ new.up = latest[i].up
  BY <1>1 DEF RoundInv, Snapshot
<1>3. /\ latest' = [latest EXCEPT ![i] = new] /\ round.pc = "scrape"
      /\ round' = [round EXCEPT !.got = @ \ {i}, !.done = @ \cup {i}]
      /\ UNCHANGED <<env, members, syncDue, prev, gap, history>>
  BY DEF InjectRaft
<1>. HIDE DEF new
<1>4. /\ round' \in Rounds /\ round'.todo = round.todo /\ round'.pc = round.pc
      /\ round'.got = round.got \ {i} /\ round'.done = round.done \cup {i}
  BY <1>1, <1>3 DEF Rounds
<1>5. TypeOK'
  BY <1>1, <1>2, <1>3, <1>4 DEF TypeOK, env, history, Rounds
<1>6. Open' = Open
  BY <1>1, <1>4 DEF Open
<1>7. RoundInv'
  BY <1>1, <1>2, <1>3, <1>4, <1>6 DEF RoundInv, TypeOK
<1>8. StoredInv'
  BY <1>1, <1>3, <1>6 DEF StoredInv, Kept, history, TypeOK
<1>. QED
  BY <1>5, <1>7, <1>8 DEF IInv

\* The round goes on to the leases when every member is scraped and completed.
LEMMA ScrapeEndKeeps == IInv /\ ScrapeEnd => IInv'
<1>. SUFFICES ASSUME IInv, ScrapeEnd PROVE IInv'
  OBVIOUS
<1>1. TypeOK /\ RoundInv /\ StoredInv /\ round \in Rounds
  BY DEF IInv, TypeOK, Rounds
<1>2. /\ round' \in Rounds /\ round'.todo = {} /\ round'.pc = "lease" /\ round'.got = {}
      /\ round'.done = round.done /\ round.got = {} /\ round.todo = {}
  BY <1>1 DEF ScrapeEnd, Rounds
<1>3. UNCHANGED <<env, members, syncDue, latest, prev, gap, history>>
  BY DEF ScrapeEnd
<1>4. TypeOK'
  BY <1>1, <1>2, <1>3 DEF TypeOK, env, history, Rounds
<1>5. RoundInv' /\ StoredInv'
  BY <1>1, <1>2, <1>3 DEF RoundInv, StoredInv, Kept, history, Open
<1>. QED
  BY <1>4, <1>5 DEF IInv

\* The leases complete the snapshots of the open members only.
LEMMA InjectLeaseKeeps == ASSUME IInv, NEW known \in BOOLEAN, InjectLease(known) PROVE IInv'
<1>1. TypeOK /\ RoundInv /\ StoredInv /\ round \in Rounds
  BY DEF IInv, TypeOK, Rounds
<1>2. /\ round' \in Rounds /\ round'.todo = round.todo /\ round'.pc = "store"
      /\ round'.got = round.got /\ round'.done = round.done /\ round.pc = "lease"
  BY <1>1 DEF InjectLease, Rounds
<1>3. /\ latest' = [i \in Ids |-> IF i \in round.done THEN [latest[i] EXCEPT !.lease = known]
                                  ELSE latest[i]]
      /\ UNCHANGED <<env, members, syncDue, prev, gap, history>>
  BY DEF InjectLease
<1>4. ASSUME NEW i \in round.done
      PROVE  [latest[i] EXCEPT !.lease = known] \in Snapshot /\ latest[i].up
             /\ [latest[i] EXCEPT !.lease = known].up = latest[i].up
  BY <1>1 DEF RoundInv, Open, Snapshot
<1>5. latest' \in [Ids -> Snapshot \cup {None}]
  BY <1>1, <1>3, <1>4 DEF TypeOK
<1>6. TypeOK'
  BY <1>1, <1>2, <1>3, <1>5 DEF TypeOK, env, history, Rounds
<1>7. RoundInv'
  BY <1>1, <1>2, <1>3, <1>4 DEF RoundInv, Open, Rounds
<1>8. StoredInv'
  BY <1>1, <1>2, <1>3 DEF StoredInv, Kept, history, Open
<1>. QED
  BY <1>6, <1>7, <1>8 DEF IInv

\* Storing a row closes its member, with what it shows as the newest row.
LEMMA StoreRowKeeps == ASSUME IInv, NEW i \in Ids, StoreRow(i) PROVE IInv'
<1>1. TypeOK /\ RoundInv /\ StoredInv /\ round \in Rounds
  BY DEF IInv, TypeOK, Rounds
<1>2. /\ round' \in Rounds /\ round'.todo = round.todo /\ round'.pc = round.pc
      /\ round'.got = round.got /\ round'.done = round.done \ {i} /\ round.pc = "store"
  BY <1>1 DEF StoreRow, Rounds
<1>3. /\ table' = [table EXCEPT ![i] = latest[i]]
      /\ UNCHANGED <<env, members, syncDue, latest, prev, gap, lost>>
  BY DEF StoreRow
<1>4. TypeOK'
  BY <1>1, <1>2, <1>3 DEF TypeOK, env, history, Rounds
<1>5. RoundInv'
  BY <1>1, <1>2, <1>3 DEF RoundInv, Open
<1>6. StoredInv'
  BY <1>1, <1>2, <1>3 DEF StoredInv, Kept, history, Open, TypeOK
<1>. QED
  BY <1>4, <1>5, <1>6 DEF IInv

\* A failing Store closes its member too, which is lost.
LEMMA StoreFailsKeeps == ASSUME IInv, NEW i \in Ids, StoreFails(i) PROVE IInv'
<1>1. TypeOK /\ RoundInv /\ StoredInv /\ round \in Rounds
  BY DEF IInv, TypeOK, Rounds
<1>2. /\ round' \in Rounds /\ round'.todo = round.todo /\ round'.pc = round.pc
      /\ round'.got = round.got /\ round'.done = round.done \ {i} /\ round.pc = "store"
  BY <1>1 DEF StoreFails, Rounds
<1>3. /\ lost' = lost \cup {i}
      /\ UNCHANGED <<env, members, syncDue, latest, prev, gap, table>>
  BY DEF StoreFails
<1>4. TypeOK'
  BY <1>1, <1>2, <1>3 DEF TypeOK, env, Rounds
<1>5. RoundInv'
  BY <1>1, <1>2, <1>3 DEF RoundInv, Open
<1>6. StoredInv'
  BY <1>1, <1>2, <1>3 DEF StoredInv, Kept, Open
<1>. QED
  BY <1>4, <1>5, <1>6 DEF IInv

\* A round ends when nothing is open.
LEMMA RoundEndKeeps == IInv /\ RoundEnd => IInv'
<1>. SUFFICES ASSUME IInv, RoundEnd PROVE IInv'
  OBVIOUS
<1>1. TypeOK /\ RoundInv /\ StoredInv
  BY DEF IInv
<1>2. round' = Waiting /\ Open = {} /\ UNCHANGED <<env, members, syncDue, latest, prev, gap, history>>
  BY <1>1 DEF RoundEnd, RoundInv, Open
<1>3. TypeOK'
  BY <1>1, <1>2, WaitingType DEF TypeOK, env, history, Rounds
<1>4. RoundInv'
  BY <1>2 DEF RoundInv, Open, Waiting
<1>5. StoredInv'
  BY <1>1, <1>2 DEF StoredInv, Kept, history
<1>. QED
  BY <1>3, <1>4, <1>5 DEF IInv

\* A crash forgets the snapshots, and what was shown owes nothing any more.
LEMMA CrashKeeps == IInv /\ Crash => IInv'
<1>. SUFFICES ASSUME IInv, Crash PROVE IInv'
  OBVIOUS
<1>1. TypeOK'
  BY WaitingType, CollectorAssumption DEF Crash, IInv, TypeOK, NothingKnown, Rounds
<1>2. RoundInv' /\ StoredInv'
  BY DEF Crash, RoundInv, StoredInv, Kept, history, Open, Waiting, NothingKnown
<1>. QED
  BY <1>1, <1>2 DEF IInv

\* What etcd and its members do is no step of the collector.
LEMMA SurroundingsKeep ==
  ASSUME IInv,
         \/ SyncDue
         \/ \E ms \in Clusters : Reconfigure(ms)
         \/ \E m \in Members, a \in Reactions : Change(m, a)
         \/ \E m \in Members : Count(m)
         \/ UNCHANGED vars
  PROVE  IInv'
<1>1. TypeOK
  BY DEF IInv
<1>2. CASE SyncDue
  BY <1>1, <1>2, Unseen DEF SyncDue, TypeOK, env, history
<1>3. ASSUME NEW ms \in Clusters, Reconfigure(ms) PROVE IInv'
  BY <1>1, <1>3, Unseen DEF Reconfigure, TypeOK, memory, history
<1>4. ASSUME NEW m \in Members, NEW a \in Reactions, Change(m, a) PROVE IInv'
  BY <1>1, <1>4, Unseen DEF Change, TypeOK, memory, history
<1>5. ASSUME NEW m \in Members, Count(m) PROVE IInv'
  BY <1>1, <1>5, Unseen DEF Count, TypeOK, memory, history
<1>6. CASE UNCHANGED vars
  BY <1>1, <1>6, Unseen DEF vars, TypeOK, history
<1>. QED
  BY <1>2, <1>3, <1>4, <1>5, <1>6

\* Every step keeps the invariant.
LEMMA Step == IInv /\ [Next]_vars => IInv'
<1>. SUFFICES ASSUME IInv, [Next]_vars PROVE IInv'
  OBVIOUS
<1>1. ASSUME NEW i \in Ids, Parse(i) \/ Unreachable(i) \/ Refused(i) PROVE IInv'
  BY <1>1, ParseKeeps, UnreachableKeeps, RefusedKeeps
<1>2. ASSUME NEW i \in Ids, NEW known \in BOOLEAN, InjectRaft(i, known) PROVE IInv'
  BY <1>2, InjectRaftKeeps
<1>3. ASSUME NEW known \in BOOLEAN, InjectLease(known) PROVE IInv'
  BY <1>3, InjectLeaseKeeps
<1>4. ASSUME NEW i \in Ids, StoreRow(i) \/ StoreFails(i) PROVE IInv'
  BY <1>4, StoreRowKeeps, StoreFailsKeeps
<1>5. ASSUME NEW found, Sync(found) PROVE IInv'
  BY <1>5, SyncKeeps
<1>. QED
  BY <1>1, <1>2, <1>3, <1>4, <1>5, TickKeeps, ScrapeEndKeeps, RoundEndKeeps, CrashKeeps,
     SurroundingsKeep DEF Next, RoundStep, Outcomes

\* IInv is an invariant of the specification.
LEMMA Invariant == Spec => []IInv
  BY Initially, Step, PTL DEF Spec

\* The types of the collector, for any members and bounds.
THEOREM CollectorTypeCorrect == Spec => []TypeOK
<1>1. IInv => TypeOK
  BY DEF IInv
<1>. QED
  BY <1>1, Invariant, PTL

\* Collector.LatestIsStored for any members, memberships and failures: when a round is
\* over, a member shown up is shown by the row stored last, with all that was completed
\* after the snapshot was published, unless the Store of its own last snapshot failed.
THEOREM DashboardMatchesHistory == Spec => []LatestIsStored
<1>1. IInv => LatestIsStored
  BY DEF IInv, RoundInv, StoredInv, Kept, LatestIsStored
<1>. QED
  BY <1>1, Invariant, PTL

\* Collector.RowsAreNew for any members, memberships and failures: a row that enters the
\* table was scraped in the round that stores it.
THEOREM StoresFreshRows == Spec => RowsAreNew
<1>. DEFINE New == \A i \in Ids : table'[i] # table[i] => table'[i].up /\ gap[i] = 0
<1>1. IInv /\ [Next]_vars => [New]_vars
  <2>. SUFFICES ASSUME IInv, Next, NEW j \in Ids, table'[j] # table[j]
                PROVE  table'[j].up /\ gap[j] = 0
    BY DEF vars
  <2>1. PICK i \in Ids : StoreRow(i)
    BY DEF Next, RoundStep, Tick, Sync, Parse, Unreachable, Refused, InjectRaft, ScrapeEnd,
           InjectLease, StoreFails, RoundEnd, history, SyncDue, Crash, Reconfigure, Change, Count
  <2>2. j = i /\ table'[j] = latest[j] /\ j \in Open
    BY <2>1 DEF StoreRow, IInv, TypeOK, Open
  <2>. QED
    BY <2>2 DEF IInv, RoundInv
<1>. QED
  BY <1>1, Invariant, PTL DEF Spec, RowsAreNew
=============================================================================
