----------------------------- MODULE Collector -----------------------------
(***************************************************************************)
(* The collector goroutine: it refreshes the list of members when the last  *)
(* refresh is a minute old, scrapes all listed members in parallel, derives *)
(* rates from the counters, completes the snapshots by RPCs and stores them *)
(* one after the other.                                                    *)
(*                                                                         *)
(* One counter stands for all counters of a member that computeRates turns  *)
(* into rates.  The snapshot of a member is one Go map: parseMetrics        *)
(* publishes it in c.latest, and the later steps of the round complete that *)
(* same map, so a reader of the API sees it grow.  (That this happens       *)
(* without the lock readers hold is a data race; the abort of the process   *)
(* the Go runtime answers it with is one of the crashes below.)             *)
(***************************************************************************)
EXTENDS Integers

CONSTANTS
  Members,   \* members the cluster may have
  Clusters,  \* the memberships it may have
  Reactions, \* what GET /metrics may meet: "ok", "refused" (not 200), "down"
  Fails,     \* the calls that may fail: "MemberList", "Status", "Leases", "Store"
  Local,     \* the member the first configured endpoint belongs to
  Fallback,  \* the id "default", listed when the first discovery fails
  MaxCount,  \* bound of the counter
  MaxRestarts,\* bounds the restarts of the server
  MaxGap,    \* rounds without a scrape beyond which elapsed times look alike
  None

Ids == Members \cup {Fallback}

ASSUME CollectorAssumption ==
  /\ Clusters \subseteq (SUBSET Members) \ {{}}
  /\ Reactions \subseteq {"ok", "refused", "down"}
  /\ Fails \subseteq {"MemberList", "Status", "Leases", "Store"}
  /\ Local \in Members /\ Fallback \notin Members
  /\ MaxCount \in Nat /\ MaxGap \in Nat \ {0}
  /\ None \notin Int /\ MaxRestarts \in Nat

VARIABLES
  cluster,   \* the members etcd has
  answers,   \* what GET /metrics of a member meets
  count,     \* the counter of each member; a restart of the member resets it
  members,   \* Collector.members, the ids; empty for nil
  syncDue,   \* time.Since(lastMemberSync) is a minute or more
  round,     \* where collect is: pc, the ids to scrape, scraped, completed, stored
  latest,    \* Collector.latest
  prev,      \* Collector.prev: of the earlier map only the counter matters
  gap,       \* time since prevTs in rounds; None before the first scrape
  table,     \* the newest row of each id in the table metrics
  lost,      \* history: the ids whose newest snapshot Store failed to write
  restarts   \* of the server

env == <<cluster, answers, count, restarts>>
memory == <<members, syncDue, round, latest, prev, gap>>
history == <<table, lost>>
vars == <<cluster, answers, count, members, syncDue, round, latest, prev, gap, table, lost, restarts>>

Counts == 0..MaxCount
Rate == [grown : Counts, over : 1..MaxGap]
\* count is None in the map made for a member that never answered.
Snapshot == [up : BOOLEAN, count : Counts \cup {None}, rate : Rate \cup {None},
             raft : BOOLEAN, lease : BOOLEAN]
Waiting == [pc |-> "wait", todo |-> {}, got |-> {}, done |-> {}]

TypeOK ==
  /\ cluster \in Clusters
  /\ answers \in [Members -> Reactions]
  /\ count \in [Members -> Counts]
  /\ members \subseteq Ids
  /\ syncDue \in BOOLEAN
  /\ round \in [pc : {"wait", "sync", "scrape", "lease", "store"},
                todo : SUBSET Ids, got : SUBSET Ids, done : SUBSET Ids]
  /\ latest \in [Ids -> Snapshot \cup {None}]
  /\ prev \in [Ids -> Counts \cup {None}]
  /\ gap \in [Ids -> 0..MaxGap \cup {None}]
  /\ table \in [Ids -> Snapshot \cup {None}]
  /\ lost \subseteq Ids
  /\ restarts \in 0..MaxRestarts

\* Whether a call comes back with what it was asked for.
Outcomes(call) == IF call \in Fails THEN BOOLEAN ELSE {TRUE}

NothingKnown == [i \in Ids |-> None]

Init ==
  /\ cluster \in Clusters
  /\ answers \in [Members -> Reactions]
  /\ count = [m \in Members |-> 0]
  /\ members = {} /\ syncDue = TRUE /\ round = Waiting
  /\ latest = NothingKnown /\ prev = NothingKnown /\ gap = NothingKnown
  /\ table = NothingKnown /\ lost = {}
  /\ restarts = 0

-----------------------------------------------------------------------------
(* collect: the list of members. *)

\* The ticker fires (the first round starts at once); everybody's scrape is a round older.
Tick ==
  /\ round = Waiting
  /\ round' = IF syncDue THEN [Waiting EXCEPT !.pc = "sync"]
              ELSE [Waiting EXCEPT !.pc = "scrape", !.todo = members]
  /\ gap' = [i \in Ids |-> IF gap[i] \in 0..(MaxGap - 1) THEN gap[i] + 1 ELSE gap[i]]
  /\ UNCHANGED <<env, members, syncDue, latest, prev, history>>

\* The list after MemberList: a failure keeps the list, and falls back to the
\* configured endpoint only if there is none.
Synced(found) ==
  IF found # {} THEN found ELSE IF members # {} THEN members ELSE {Fallback}

SyncMerges(found) ==
  /\ round.pc = "sync"
  /\ found \in {cluster, {}}
  /\ members' = IF found # {} THEN (members \ {Fallback}) \cup found ELSE Synced(found)
  /\ syncDue' = FALSE
  /\ round' = [Waiting EXCEPT !.pc = "scrape", !.todo = members']
  /\ UNCHANGED <<env, latest, prev, gap, history>>

Sync(found) ==
  /\ round.pc = "sync"
  /\ found \in {cluster, {}}
  /\ members' = Synced(found)
  /\ syncDue' = FALSE
  /\ round' = [Waiting EXCEPT !.pc = "scrape", !.todo = Synced(found)]
  /\ UNCHANGED <<env, latest, prev, gap, history>>

-----------------------------------------------------------------------------
(* collect: one goroutine per member. *)

\* The fallback member is scraped at the configured endpoint.
Scraped(i) == IF i = Fallback THEN Local ELSE i

\* computeRates: from the counter of c.prev, over the time since prevTs; none after a
\* reset of the counter.
RateOf(i) ==
  IF gap[i] \in 1..MaxGap /\ prev[i] # None /\ count[Scraped(i)] >= prev[i]
  THEN [grown |-> count[Scraped(i)] - prev[i], over |-> gap[i]]
  ELSE None

ParseNoUp(i) ==
  /\ i \in round.todo /\ answers[Scraped(i)] = "ok"
  /\ prev' = [prev EXCEPT ![i] = IF latest[i] = None THEN None ELSE latest[i].count]
  /\ gap' = [gap EXCEPT ![i] = 0]
  /\ latest' = [latest EXCEPT ![i] = [up |-> FALSE, count |-> count[Scraped(i)],
                                      rate |-> RateOf(i), raft |-> FALSE, lease |-> FALSE]]
  /\ round' = [round EXCEPT !.todo = @ \ {i}, !.got = @ \cup {i}]
  /\ lost' = lost \ {i}
  /\ UNCHANGED <<env, members, syncDue, table>>

\* parseMetrics: c.prev becomes what c.latest was, and the new map is published.
Parse(i) ==
  /\ i \in round.todo /\ answers[Scraped(i)] = "ok"
  /\ prev' = [prev EXCEPT ![i] = IF latest[i] = None THEN None ELSE latest[i].count]
  /\ gap' = [gap EXCEPT ![i] = 0]
  /\ latest' = [latest EXCEPT ![i] = [up |-> TRUE, count |-> count[Scraped(i)],
                                      rate |-> RateOf(i), raft |-> FALSE, lease |-> FALSE]]
  /\ round' = [round EXCEPT !.todo = @ \ {i}, !.got = @ \cup {i}]
  /\ lost' = lost \ {i}
  /\ UNCHANGED <<env, members, syncDue, table>>

MarkUnlessKnown(i) ==
  IF latest[i] = None
  THEN [up |-> FALSE, count |-> None, rate |-> None, raft |-> FALSE, lease |-> FALSE]
  ELSE latest[i]

\* collector_up = 0 is written into the map of the last scrape.
MarkDown(i) ==
  IF latest[i] = None
  THEN [up |-> FALSE, count |-> None, rate |-> None, raft |-> FALSE, lease |-> FALSE]
  ELSE [latest[i] EXCEPT !.up = FALSE]

UnreachableStored(i) ==
  /\ i \in round.todo /\ answers[Scraped(i)] = "down"
  /\ latest' = [latest EXCEPT ![i] = MarkDown(i)]
  /\ round' = [round EXCEPT !.todo = @ \ {i}, !.got = @ \cup {i}]
  /\ UNCHANGED <<env, members, syncDue, prev, gap, history>>

\* No connection: the member is marked.
Unreachable(i) ==
  /\ i \in round.todo /\ answers[Scraped(i)] = "down"
  /\ latest' = [latest EXCEPT ![i] = MarkDown(i)]
  /\ round' = [round EXCEPT !.todo = @ \ {i}]
  /\ UNCHANGED <<env, members, syncDue, prev, gap, history>>

\* Another status than 200, the attempt without credentials included: nothing changes.
Refused(i) ==
  /\ i \in round.todo /\ answers[Scraped(i)] = "refused"
  /\ round' = [round EXCEPT !.todo = @ \ {i}]
  /\ UNCHANGED <<env, members, syncDue, latest, prev, gap, history>>

-----------------------------------------------------------------------------
(* collect: completing and storing the snapshots, in one goroutine. *)

\* injectRaftStatus, while other members are still being scraped; Status may fail.
InjectRaft(i, known) ==
  /\ round.pc = "scrape" /\ i \in round.got
  /\ latest' = [latest EXCEPT ![i].raft = known]
  /\ round' = [round EXCEPT !.got = @ \ {i}, !.done = @ \cup {i}]
  /\ UNCHANGED <<env, members, syncDue, prev, gap, history>>

ScrapeEnd ==
  /\ round.pc = "scrape" /\ round.todo = {} /\ round.got = {}
  /\ round' = [round EXCEPT !.pc = "lease"]
  /\ UNCHANGED <<env, members, syncDue, latest, prev, gap, history>>

\* injectLeaseCount: one call for all of them, which may fail.
InjectLease(known) ==
  /\ round.pc = "lease"
  /\ latest' = [i \in Ids |-> IF i \in round.done THEN [latest[i] EXCEPT !.lease = known]
                              ELSE latest[i]]
  /\ round' = [round EXCEPT !.pc = "store"]
  /\ UNCHANGED <<env, members, syncDue, prev, gap, history>>

StoreRatesOnly(i) ==
  /\ round.pc = "store" /\ i \in round.done
  /\ table' = [table EXCEPT ![i] = [up |-> latest[i].up, rate |-> latest[i].rate]]
  /\ round' = [round EXCEPT !.done = @ \ {i}]
  /\ UNCHANGED <<env, members, syncDue, latest, prev, gap, lost>>

StoreRow(i) ==
  /\ round.pc = "store" /\ i \in round.done
  /\ table' = [table EXCEPT ![i] = latest[i]]
  /\ round' = [round EXCEPT !.done = @ \ {i}]
  /\ UNCHANGED <<env, members, syncDue, latest, prev, gap, lost>>

StoreStops(i) ==
  /\ "Store" \in Fails
  /\ round.pc = "store" /\ i \in round.done
  /\ lost' = lost \cup {i}
  /\ round' = [round EXCEPT !.done = {}]
  /\ UNCHANGED <<env, members, syncDue, latest, prev, gap, table>>

\* The transaction fails: the row is lost, which is only logged, and the round goes on.
StoreFails(i) ==
  /\ "Store" \in Fails
  /\ round.pc = "store" /\ i \in round.done
  /\ lost' = lost \cup {i}
  /\ round' = [round EXCEPT !.done = @ \ {i}]
  /\ UNCHANGED <<env, members, syncDue, latest, prev, gap, table>>

RoundEnd ==
  /\ round.pc = "store" /\ round.done = {}
  /\ round' = Waiting
  /\ UNCHANGED <<env, members, syncDue, latest, prev, gap, history>>

-----------------------------------------------------------------------------
(* The surroundings. *)

\* A minute has passed since the last refresh.
SyncDue ==
  /\ syncDue' = TRUE
  /\ UNCHANGED <<env, members, round, latest, prev, gap, history>>

\* Restart of the server; only the table is left.
Crash ==
  /\ restarts < MaxRestarts /\ restarts' = restarts + 1
  /\ members' = {} /\ syncDue' = TRUE /\ round' = Waiting
  /\ latest' = NothingKnown /\ prev' = NothingKnown /\ gap' = NothingKnown
  /\ lost' = {}
  /\ UNCHANGED <<cluster, answers, count, table>>

Reconfigure(ms) ==
  /\ cluster' = ms
  /\ UNCHANGED <<answers, count, memory, history, restarts>>

Change(m, a) ==
  /\ answers' = [answers EXCEPT ![m] = a]
  /\ UNCHANGED <<cluster, count, memory, history, restarts>>

\* The counter grows, up to the bound of the model, or the member restarts.
Count(m) ==
  /\ \E n \in {0, count[m] + 1} \cap Counts : count' = [count EXCEPT ![m] = n]
  /\ UNCHANGED <<cluster, answers, memory, history, restarts>>

-----------------------------------------------------------------------------

RoundStep ==
  \/ Tick
  \/ \E answered \in Outcomes("MemberList") : Sync(IF answered THEN cluster ELSE {})
  \/ \E i \in Ids : Parse(i) \/ Unreachable(i) \/ Refused(i)
  \/ \E i \in Ids, known \in Outcomes("Status") : InjectRaft(i, known)
  \/ ScrapeEnd
  \/ \E known \in Outcomes("Leases") : InjectLease(known)
  \/ \E i \in Ids : StoreRow(i) \/ StoreFails(i)
  \/ RoundEnd

Next ==
  \/ RoundStep
  \/ SyncDue
  \/ Crash
  \/ \E ms \in Clusters : Reconfigure(ms)
  \/ \E m \in Members, a \in Reactions : Change(m, a)
  \/ \E m \in Members : Count(m)

Spec == Init /\ [][Next]_vars

(* Every call of a round has a timeout and the ticker keeps firing; a       *)
(* minute passes again and again; neither MemberList nor the Store of a     *)
(* member fails for ever.                                                  *)
FairSpec ==
  /\ Spec /\ WF_vars(RoundStep) /\ WF_vars(SyncDue)
  /\ SF_vars(Sync(cluster)) /\ \A i \in Ids : SF_vars(StoreRow(i))

-----------------------------------------------------------------------------
(* Correctness. *)

(* Between rounds the dashboard's snapshot of a member that is up is the    *)
(* newest row of its history, unless its own Store failed in its last       *)
(* round: what was completed after parseMetrics had published the map       *)
(* reached both, and a failing Store keeps no other member's row away.      *)
LatestIsStored ==
  round.pc = "wait" =>
    \A i \in Ids \ lost : latest[i] # None /\ latest[i].up => table[i] = latest[i]

(* A round stores only members it scraped in that round: a row is new.      *)
RowsAreNew ==
  [][\A i \in Ids : table'[i] # table[i] => table'[i].up /\ gap[i] = 0]_vars

(* The list follows the cluster, however many discoveries failed before.    *)
ListFollows == \A ms \in Clusters : <>[](cluster = ms) => <>[](members = ms)

(* A member that answers is shown up again and again, and its history grows. *)
ShownUp ==
  \A m \in Members :
    <>[](m \in cluster /\ answers[m] = "ok")
      => <>[](latest[m] # None /\ latest[m].up) /\ []<>(table[m] = latest[m])

(* A member that cannot be reached any more is not shown up for ever.       *)
ShownDown ==
  \A m \in Members :
    <>[](m \in cluster /\ answers[m] = "down") => <>[](latest[m] = None \/ ~latest[m].up)

(* collector.go:31-32 call prev and prevTs the metrics and the time of the  *)
(* previous collection: the growth a rate states is the growth since then.  *)
RateIsGrowth ==
  [][\A i \in Ids :
       Parse(i) /\ latest[i] # None /\ latest'[i].rate # None /\ latest'[i].count >= latest[i].count
         => latest'[i].rate.grown = latest'[i].count - latest[i].count]_vars
=============================================================================
