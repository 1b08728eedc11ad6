# etcdmonitor in TLA+

Models, model-checking runs and machine-checked proofs of the server in this
repository: a Go program that collects metrics of an etcd cluster, stores them
in SQLite, and serves a dashboard, an ops panel and a browser of keys over
several clusters.

## Inventory of the system

| part | state | operations | reads and writes |
|---|---|---|---|
| KV tab registry (`kvmanager/tabs/repo.go`, `handler.go`, `manager.go`) | rows of `kv_cluster_tabs` | create, patch, delete, reorder, list, test | etcd clusters (connection test, member list), the database |
| tab probe (`tabs/scheduler.go`, `Manager.Ping`) | failure counters, the goroutine | tick, ping, stop | the registry's rows, by id alone |
| KV handlers (`kvmanager/handler.go`) | none of their own | resolve a tab, call etcd, mark the tab | registry, clients |
| KV clients (`client_v3.go`, `client_v2.go`) | the v2 flag `available` | connect, get, tree, put, delete | etcd |
| tab credentials (`tabs/keys.go`) | the key file | load or create, encrypt, decrypt | disk |
| metrics store (`storage/storage.go`) | tables `metrics`, `meta`, `ops_audit_log` | open (wipe on a changed address), store, query, sweep | disk; opened by the server and by the admin command |
| collector (`collector/`) | members, latest and previous snapshots | discover, scrape, derive rates, complete, store | etcd, the store; read by the API |
| accounts (`auth/bootstrap.go`, `auth/handler.go`, `storage/user_repo.go`) | the row of `admin`, the initial password file | first start, login, lockout, change of password | database, disk |
| sessions (`auth/auth.go`) | a map in memory | create, get, delete, clean up | read by every request |
| admin command (`cmd/etcdmonitor/admin_cli.go`) | none | reset-password, unlock | the database, from another process |
| health manager (`health/manager.go`) | the list of healthy endpoints | probe all, refresh, try in order | etcd; read by collector, ops, KV clients |
| ops panel (`ops/handler.go`) | none | defragment, snapshot, alarms, move leader, hash, compact | etcd, audit log |
| preferences (`prefs/prefs.go`) | one file per user | load with merge, save | disk |
| API (`api/`) | none | read-only queries, session check | collector, store |
| configuration, TLS, logger, auth detector | read once | | |

What is hard about it:

* **Concurrency.** HTTP handlers run in a goroutine each. The database has one
  connection, so a statement or a transaction is atomic and nothing else is: every
  handler that runs two statements can be interrupted between them, and the
  connection tests that lie between two statements last seconds. The probe, the
  collector and the retention loop are goroutines of their own. The admin command
  is another process on the same database file.
* **Failure.** etcd members and remote clusters come and go; discovery, scrapes,
  probes and calls fail independently. The process can be killed between any two
  statements or file operations.
* **Staleness.** Handlers act on rows they read earlier; the probe writes verdicts
  on endpoints it read earlier; the collector publishes a map and completes it later.
* **Time.** Retention, lockouts, timeouts and tickers.

What makes each part correct:

* registry: a user's tabs are only the user's; the limit; distinct positions; a
  deleted tab stays deleted.
* probe: the mark follows the endpoint; a single lost probe marks nothing; stop stops.
* store: one cluster's samples only; nothing young is lost; what is old leaves; the
  audit log lives its own life.
* collector: the dashboard and the history agree; the list of members follows the
  cluster; a dead member is not shown alive; rates are rates.
* key browser: the tree shows what is stored and can be opened; a deletion takes what
  was named and nothing else; an answer of ok is true.
* ops: nothing is compacted that was to be kept; the consistency check overlooks no
  diverged member among those that answered, and accuses members that did not diverge only
  after a compaction that one had applied and another had not. (With one answer or none it
  says "consistent".)
* preferences and key file: a kill in the middle of a write is never taken for something
  saved; at worst the layout falls back to the defaults, and no password depends on a key
  that is not on the disk.
* percentiles: they are those of the scraped histogram.
* accounts: somebody knows the password; the initial one only serves to be changed;
  its file disappears; the lockout locks. The first and the third fail with the call
  that is to ensure them (see the disagreements below).

## Modules

| module | models |
|---|---|
| `Tabs` | registry, probe, and the marking of tabs by KV requests |
| `TabRegistry` | abstract: what the registry promises the users of its API |
| `Storage` | the database file under the server and the admin command |
| `ClusterHistory` | abstract: what the metrics table promises its readers |
| `Collector` | the collector with discovery and the newest row per member |
| `Accounts` | account, initial password file, lockout, sessions, admin command |
| `Health` | the health manager and the members it probes |
| `Ops` | MoveLeader and Compact on top of `Health`, and the etcd cluster they act on |
| `KVClient` | the v3 client: key trees, Put and Delete in several calls, other clients |
| `HashKV` | the consistency check and the members that answer it |
| `KeyFile` | the key of the tab passwords: loading, creating, encrypting |
| `Prefs` | the preferences file: merge, load and save |
| `MCTabs`, `MCStorage`, `MCCollector`, `MCAccounts`, `MCOps` | instances for TLC |
| `Histogram` | the percentiles the collector takes from a scraped histogram |
| `Enumerations` | the numbers of a set in their order, for `Prefs` and `Histogram` |
| `MCBrowser` | instance for TLC of `KVClient`, `HashKV`, `KeyFile`, `Prefs` and `Histogram` |
| `TabsProofs`, `StorageProofs`, `CollectorProofs`, `AccountsProofs`, `OpsProofs`, `BrowserProofs` | theorems |
| `ReadingProofs` | the inductive invariants of `HashKV` and `Histogram`, for `BrowserProofs` |
| `IntegerSets` | facts about finite sets of integers that the proofs share |

Operators placed just before the definition they resemble (`FoundAnyOwner` before
`Found`, and so on) are that definition with a plausible bug; `PROJECT.json` pairs
each of them with the property that notices it. No specification uses them.

### Tabs and TabRegistry

`rows` is the table, `failureCount` the map of `Manager`, `sched` the goroutine of
`PingScheduler.run`, and `req` what each request goroutine still has to do. A request
is one action per SQL statement and per call to etcd:

* POST: `CreateBegin` (limit) – `CreateVerify` (connection test, member check) –
  `CreateOrder` (SELECT MAX) – `CreateInsert`;
* PATCH: `PatchBegin` (Get) – `PatchVerify` – `PatchStatus` (by id) – `PatchUpdate`
  (by id and user);
* DELETE: `DeleteBegin` – `Delete`; PUT order: `Reorder`, one transaction;
* a KV request: `CallBegin` (Resolve) – `CallEnd` (etcd answers or not) –
  `CallFailed`, or `CallReset` and `CallMarkOk`, the two halves of MarkStatus;
* the probe: `Tick` – `PingRead` – `PingProbe` – `PingReset` or `PingBump` –
  `PingWrite`, and `SchedExit` when the context is done.

`reachable` is the world: an endpoint goes up or down at any time. A UUID is an
element of `TabIds` drawn once (`used`). Counts from `Threshold` on are alike in the
code, so `failureCount` saturates there. A user in `SerialUsers` sends the next
request after the answer to the last and permutes the tabs it was shown, as the
front end does; others overlap and may repeat an id in an order.

`TabRegistry` says what remains of this for the users of the API: a request to add, move
or remove a tab acts in one step of its user, or is refused, and only a removal of one's
own tab is never refused. `Tabs` implements it (`IsRegistry`), with `rows` cut down to owner
and endpoint, and with what a handler in flight will still do (`Asked`) as the request its
worker serves. A PATCH that keeps the endpoint asks for nothing there.

Not in the model: names, credentials and their encryption, error texts, time stamps,
the audit trail, failing SQL, the cached member list, and the routes that only read
(`handleList`, `handleTest`). A password that cannot be decrypted makes Ping return
before it writes, which is a ping that does not happen.

### Storage and ClusterHistory

Both programs run `storage.New`: `Start` (the configuration is read once), then the
statements of `CheckEndpointChange` one by one: `CheckRead`, and `CheckInsert` on a
first run or `CheckPurge` and `CheckStamp` on another address. `Store` and
`StoreAuditLog` insert; `SweepStart`, `SweepMetrics`, `SweepAudit`, `SweepFails` are the
retention loop, whose first error skips the rest of a round; `Exit` is an end or a kill
anywhere; `EditConfig` is the operator. Rows carry the cluster they were collected
from (the code does not store it: this is what must not be mixed) and their age in
days. `Together` says whether the admin command may run beside the server.

`ClusterHistory` is the promise: one recorded cluster at a time, samples enter as that
cluster's, and leave by age or all together when another cluster may take their place.
`IsHistory` maps `meta` and `metrics` to it.

### Collector

`round` is where `collect` is and which members it still has to scrape, complete and
store. `Sync` is the discovery with its fallbacks, `Parse`, `Unreachable` and `Refused`
are the three ways a scrape ends, `InjectRaft` runs while other members are still being
scraped, `InjectLease` and `StoreRow` follow. A snapshot is a Go map that `parseMetrics`
publishes and later steps complete in place: `latest` changes in those steps. `prev`
and `gap` are `c.prev` and the time since `c.prevTs`. One counter stands for all the
counters `computeRates` converts. `table` keeps the newest row of each member only.
Discovery reports the members `etcd` has or nothing; the fallback member `default` is
scraped at the configured endpoint.

`Fails` says which calls may fail in an instance: the discovery, the two RPCs, and the
insert of a member (`StoreFails`), which is logged while the round goes on with the next
member. `lost` is history: the members whose newest snapshot was not written.

Not in the model: the names of metrics, the two rates that are computed without
`computeRates`, the choice of the default member. The data race on the
published map can abort the process; that abort is a `Crash`.

### Accounts

`user` is the row, `file` the initial password file, `server` the start of the server
(`Look`, `CreateUser`, `WriteFile`, `Rollback`), `req` the requests, `sessions` the
passwords that opened a session. `handleFailedAttempt` is three actions
(`CountAttempt`, `ReadAttempts`, `SetLocked`), a login is `Login`, `ResetLoginState`,
`OpenSession`, a change is `ChangeBegin`, `ChangeUpdate`, `ChangeDeleteFile`.
`ResetPassword` and `Unlock` are the admin command; `LockExpires` is time. A request
compares the password with the row it has just read, so reading and comparing are one
action; everything it does later is on the row as it is then.

Every statement and file operation may fail, with the branch the code has for it: a start
ends (`Look`, `CreateUser`), or goes on to the rollback (`WriteFile`), which may fail too;
a failed attempt ends at the first of its statements that fails, a change at its UPDATE;
a login ignores the error of `ResetLoginState`, and a change that of
`ChangeDeleteFile`. Four history variables tell what was cut off: `orphan` (a start left
its account behind), `undeleted` (a removal of the file that was due was not made),
`dropped` (requests that counted a failure and ended before the lockout) and `kills`.

### Health and Ops

`Health` has the state and the steps of the manager: `CheckBegin` (the ticker, or the
start), one `Probe` per endpoint in any order, `CheckEnd`, which publishes what answered,
and `Fatal` when nothing did. `up` is the world: a member is up when it answers Status
within the timeout of a probe, so a slow member and a dead one are the same. `Restart` is
the service manager (`Restart=always` in `install.sh`). `Ops` extends `Health`; its `Next`
composes each step of the manager with the requests.

A MoveLeader request is `MoveBegin` (client from the healthy list) – `MoveList` (the list
once more) – `MoveFind`, one Status per endpoint – `MoveMembers` – `MoveCall`, or
`MoveNotFound`. The Status calls share one context of ten seconds, so an endpoint that
hangs may end the search. A Compact is `CompactBegin` – `StatusList`, `StatusError`,
`StatusOk` or `StatusFails`, the steps of `StatusFromHealthy` – `CompactCall`. `Answer`
ends both. The cluster is external: MoveLeader is refused unless the called member leads
and the target answers; Compact is refused outside of `compacted + 1 .. rev`; either may
succeed without the answer arriving; a member that lags reports an older revision.

Three history variables serve the properties: `steady` (endpoints up since the round
began), `answering` (endpoints up since a status was asked for) and `calm` (MoveLeader
requests that have met no fault, no election and no outdated list).

Not in the model: Defragment, Snapshot and the alarms (one call and one audit row each),
the read-only routes, the contents of audit rows, TLS and credentials,
and a Status that names a leader deposed a moment ago.

### KVClient

`store` is the set of keys in etcd and `req` what each worker is doing. The calls to etcd
are one action each and may fail before or after they took effect: a Put is `PutBegin` –
`Grant`, with a TTL – `Put` – `PutRead`; a Delete is `DeleteBegin` – `DeleteKey` –
`DeleteBelow`, for a directory; `Answer` ends both. `Elsewhere` is another client, or a
lease that expires. `Tree(p)` is what `getTree` builds from one prefix read: `Read` is the
range, `RelSegs` cuts as many segments off a key as the path has, `Node` collects what
goes through a place of the tree and what ends there, and `NodeKey` is the key shown for
it. A key is its segments and whether it begins with the separator, since the code goes
by segments and etcd by bytes: `BeginsWith` is etcd's, with `LongerName` for names one of
which begins with the other. `DirectoryPrefix` is what `Delete` builds for its second
call, the path and a separator: a prefix whose last name is empty. That it takes in the keys
that lie in the directory by their segments (`Below`), and no others, is proved.

Left out: values, revisions, TTLs looked up for display, keys with doubled or trailing
separators (segments that are empty are skipped by the code, so such keys would share
nodes, like bare keys and keys with a leading separator do here).

### HashKV

`call` is the request: `HashBegin` – `HashStatus` (the revision, from any member that
answers) or `HashStatusFails` – `HashAnswer` or `HashError` per member, in any order –
`HashVerdict` – `HashEnd`. The cluster is external: one log of writes and compactions,
`applied` says how much of it a member has applied, a hash covers the data at the revision
and what the member's own compaction left of older ones, and a member refuses a revision
it has not reached or has compacted. `Diverged` members have other data from `DivergedAt`.

### KeyFile

`LoadKey` reads the file, or draws a key that `CreateKeyFile` and `WriteKey` put on the
disk; only then is it installed. Each may fail, which disables the tabs until a restart, and
`KeyKill` may come anywhere. `StorePassword` is a POST or PATCH with a password.
`RemoveKeyFile` is the operator, between two starts; `removed` remembers the keys lost
that way. A short file, left by a kill inside of the write, is never replaced.

### Prefs

`version` is the program, as the panels it knows; `lock` the write lock of `FileStore`;
`pref` the requests. `Load` reads and merges under the read lock, which is one action since
it excludes the writer; a Save is `SaveBegin` – `SaveLock` – `SaveTruncate` – `SaveWrite`,
where the file may not be writable or the write may fail after the truncation. `PrefsKill`
ends the process anywhere and may start another version. `saved` and `damaged` are history:
the last list that was written whole, and whether a write was broken off since. The loops of
`mergeWithDefaults` are written with `InOrder`, the places that are kept and those that are
lacking in their order, as the prover cannot look into the library's `SelectSeq` and sorts.

### Histogram

`Scrape` brings a family of one or more series, cumulative counts at the same bounds;
`ExtractHistogram` throws the buckets together in an order of ascending bounds (`Sorted`,
with any order among equal ones, as `sort.Slice` is not stable) and interpolates
(`Percentile`); `HistEnd` ends the scrape, as each begins with a new map. Values are exact
fractions. `PercentilesRight` compares with a definition that does not search: on which
side of each bound the rank lies.

### MCBrowser

These five share no state with each other. A behaviour of `MCBrowser` is one of a single
part while the others rest: their states add up and do not multiply.

## Runs

Deadlock is checked in every run, as no part of the system may stop for good.

| run | instance | checks |
|---|---|---|
| `registry` | 2 users (one serial), 4 ids, 2 endpoints (one belongs to the default cluster), 2 workers, limit 1 | `TypeOK`, `LimitOvershoot`, `RequestOwnsTab`, `OwnerAlone`, `IsRegistry` |
| `overshoot` | 2 users, 2 ids, 2 workers, limit 1 | finds `LimitKept` violated |
| `probe` | 1 user, 1 id, 2 endpoints, 2 workers, threshold 2 | `ShowsUp`, `ShowsDown`, `StopEnds` |
| `flap` | as `probe`, 2 ids, 1 worker | finds `ErrorNeedsThreshold` violated |
| `alone` | 3 spellings of 2 clusters, one program at a time, retention 1 and 2 | `TypeOK`, `NoMixing`, `IsHistory`, `RecentKept`, `ExpiredLeave` |
| `together` | as `alone`, both programs | finds `NoMixing` violated |
| `rounds` | 2 members, of which the cluster has one or both, all three ways a scrape ends, inserts fail, 1 restart | `TypeOK`, `LatestIsStored`, `RowsAreNew` |
| `live` | 2 members, of which the cluster has one or both, discovery fails, scrapes succeed or cannot connect | `ListFollows`, `ShownUp`, `ShownDown` |
| `rate` | 1 member, counter up to 2 | finds `RateIsGrowth` violated |
| `login` | 3 workers, threshold 2, 2 initial and 2 chosen passwords, 1 kill, 1 statement of the lockout fails, any others | `TypeOK`, `PasswordKnown`, `KnownStays`, `InitialOpensNothing`, `FileGone`, `AttemptsBounded` |
| `parts` | 6 keys in 3 depths, with and without a leading separator, names `app` and `app2`, 1 worker; 3 members, 1 diverged from revision 2, logs of 3; 2 tabs, 3 keys; 2 versions with 2 and 3 panels, 4 lists, 2 handlers; up to 2 series, 2 finite bounds, counts up to 10 | `TypeOK`, `TreeReadable`, `OkMeansDone`, `DeletesOnlyBelow`, `VerdictRight`, `KeyOnDisk`, `LoadShowsSave`, `PercentilesRight` |
| `ops` | 2 members, both configured, 1 worker, retain 1, revisions up to 3 | `TypeOK`, `GivesUpInOutage`, `StatusFailsInOutage`, `MoveSucceeds`, `RetainsEnough`, `HealthyFollows` |

Bounds and why they suffice: two requests of one user and one of another are what a race
on a limit or an owner needs; with a limit of one they may have two tabs and the serial user one,
and there are four ids, so that either bound could be exceeded. A
threshold of two is the code's. In `probe` two requests overlap on one tab, and nothing of it
concerns a second tab, whose mark and counter are its own. Two endpoints let a tab move while a
probe of the old one is in flight. Two clusters with one spelled twice cover equal,
re-spelled and different addresses; ages up to one above the longer retention cover the
boundary on both sides. In `rounds` two members overlap their scrapes and one of them comes
and goes, in `live` too, so that a list is too short, too long or the fallback before it follows; a counter is not
needed there (`MaxCount = 0`) and in `rate` reaches the three values two intervals need.
`MaxGap` is how many rounds without a scrape are told apart. `MaxFailed`, `MaxKills` and
`MaxDropped` bound the failed attempts, the kills and the failing statements of the lockout;
the assumption on `MaxFailed` keeps the counter from saturating below the bound that `AttemptsBounded` states. In `ops` two
endpoints let the list be full, partial, outdated or empty, and let the leader be on it or
move to the other; requests meet each other only through the cluster, whose elections,
writes and compactions are steps of the surroundings, so one worker is enough; three
revisions let a member lag, the log grow after the status and another client compact first.
In `parts` one worker is enough, since another client writes and deletes at any time; the
six keys let a node be a key, a directory or both, be shared by two keys, and lie next to a
directory with a longer name. Three members let two agree against one, one lag and one not
answer; a log of three holds a write, a compaction and one more of either. Two handlers let
a Load meet a Save; counts up to 10 tell the ranks of 50, 90 and 99 percent apart and hit
one of them exactly; the versions add one panel and drop another, and the lists hold repeated, unknown and
missing panels. Symmetry is used in
`registry`, `overshoot` and `login` only, which check no liveness.

Fairness. `Tabs`: `WF` of the probe's next step, since the ticker fires again and every
probe has a timeout, and `SF` of `SchedExit`, since a `select` with a ready `ctx.Done()`
does not pick the ticker for ever. Requests get none. `Storage`: `WF` of opening and of the
hourly tick, `SF` of the two DELETEs, which do not fail for ever. `Collector`: `WF` of a
round's next step and of the minute that makes a refresh due, `SF` of a discovery that
succeeds and of an insert of each member that does (needed where inserts may fail, which
`live` leaves to `rounds`), since neither etcd nor the disk refuses for ever; nothing is assumed of members, of counters or of restarts, which are bounded.
`Ops`: `WF` of the server's own steps, as the ticker fires again and every probe has a
timeout; none of requests, of members or of a restart. `Accounts` and the parts of `MCBrowser` state safety only.

What the four violations show is in `PROJECT.json` under `findings`:

1. `flap`: Ping reads the status, probes for up to ten seconds and, below the threshold,
   writes the status it read. A KV request that succeeded meanwhile had set it to ok and
   cleared the counter; the old `error` comes back after one failure, where the comment
   in `manager.go` asks for N in a row.
2. `together`: `docs/DATA_RETENTION.md` promises a wipe that avoids mixing clusters. Run
   `etcdmonitor unlock` after an edit of `etcd.endpoint` and before the restart: the
   command wipes and records the new address, the server keeps storing the old cluster's
   samples, and the restart finds nothing to wipe.
3. `rate`: `c.prev` is one snapshot older than `c.prevTs`, so every rate from the third
   scrape on is the growth over two intervals divided by one.
4. `overshoot`: `README.md:92` says "up to 10 remote etcd clusters per user", and the handler
   tells the user so when it refuses. It counts the rows, tests the connection for seconds and
   then inserts without another look, so requests of one user that overlap all pass. By how
   much is what `LimitOvershoot` says, in `registry` and as a theorem.

Disagreements seen while modelling that have no run, because one line or branch of the code
shows them:

* `auth/bootstrap.go:50`: the comment at line 38 says a rollback avoids an account whose
  password nobody knows. When the file cannot be written and `DeleteUser` fails as well, that
  is logged and the account stays; the next start finds it and serves. A kill between the
  two writes does the same, and `etcdmonitor reset-password` is the way out. In the model
  `NoUnknownPassword` fails in eight steps; that nothing else can make it fail, whatever
  fails or overlaps, is `PasswordKnown`, which sets these starts apart by `orphan`.
* `auth/handler.go:328`: `CHANGELOG.md:47` and `docs/SECURITY_CHECKLIST.md:67` say the initial
  password file is deleted after the first change. A removal that fails is logged, the
  change is answered with ok, and no later change tries again; the same after a kill before the
  removal. In the model `FileDeleted` fails in eight steps; that the file goes in all other
  cases is `FileGone`, which sets these apart by `undeleted`.
* `client_v3.go:216`: `getTree` reads with the path itself as the prefix and cuts as many
  segments off each key as the path has, so `/app2/x` is listed as the child `x` of `/app`, where
  the comment at line 195 and `docs/API.md:33` speak of what is under the path. `Delete`
  does add the separator (`DeletesOnlyBelow`). The front end opens the browser with
  `keys`, whose prefix is empty, and refreshes a directory with `getpath`
  (`web/kv.js`, `kvRefreshChildren`): after that the child shown below `/app` is the
  key of the other directory, and editing or deleting it acts on that key.
* `docs/SECURITY_CHECKLIST.md:79` lists `etcdmonitor unlock` among the ways to end a
  session that does not expire; the command changes one row of the database and sessions
  are in the server's memory.
* `client_v2.go:151` clears `available` on any error of Connect and nothing sets it again:
  one failed call turns the v2 routes of the default tab off until a restart, where the
  comment at `kvmanager/handler.go:592` speaks of a check of the initialisation.
* The round trip times of all peers are one family, whose buckets `ExtractHistogram`
  mixes: p50, p90 and p99 ascend and stay within the bounds (`PercentilesRight`), but they
  combine the rank of one peer with the counts of another.
* A directory deleted as `/app` leaves a key `app/x` without the leading separator, which
  the tree shows under the same node, since `NodeKey` goes by segments and `Delete` by
  bytes.
* `prefs.go:194` says missing panels are ordered at the end. They get `len(result)` and on,
  which saved panels with gaps in their orders may already have: `LoadShowsSave` promises a
  list without gaps for a list without gaps only.
* `storage.go` speaks of at most about 360 points per range query; 48 hours in steps of
  five minutes are 577.

## Proofs

All theorems are for every value of the constants that satisfies the named assumption of
the module (`TabsAssumption`, `StorageAssumption`, `CollectorAssumption`,
`AccountsAssumption`, `HealthAssumption`, `OpsAssumption`, `KVAssumption`, `HashAssumption`,
`KeyAssumption`, `PrefsAssumption`, `HistogramAssumption`). What these ask for is what the
program has: finitely many buckets with positive bounds, panels whose names differ within a
version, sentinels that are no values. Every safety property of a passing run is a theorem.

* `TabsProofs`. Type correctness first, with lemmas that say what each constructor of a
  request or of the scheduler's state is. `RequestOwnsTab` is inductive with the typing:
  an id enters `used` when its row is inserted and never leaves, so a request that found it
  cannot meet it again under another owner. `NoResurrection` is an action property from
  the same invariant: only `CreateInsert` makes a row, and under an unused id.
  `LimitOvershoot` needs a stronger invariant: the rows of a user plus the creations of
  that user past the limit check stay within the limit plus the other workers, because a
  creation passes the check only while the user is under the limit. It counts finite
  sets with the library's theorems. `OwnerAlone` goes through the actions: what they leave
  of a row is all of it, all but its status, what its owner's request says, or a place in
  an order of its owner's. `SerialOrdersDistinct`, which no run checks, needs `SerialInv`: a serial user has one
  request under way, and a place drawn for a new tab lies beyond those of the tabs there
  are until it is used. `NextServes` says how a step may change the requests, and `NextPositions`
  that nothing but an insertion or a reordering moves a tab; a reordering numbers each tab
  by its last place in the list, and distinct tabs have distinct last places. `IsRegistry`
  is the refinement, one step per action: `CreateInsert` maps to `Add`, `PatchUpdate` to
  `Move` and `Delete` to `Remove` where they find the row, the rejections to `Refuse`, the
  first step of a handler to `Ask`, and all else, with the status writes and `Reorder`, to a
  stutter. That `Add` stays within the limit is `LimitOvershoot` in the state after it.
  `NoResurrection` has no run of its own: what TLC checks of it is part of `IsRegistry`.
* `StorageProofs`. `TypeOK` holds with two programs; `NoMixing` and `IsHistory` are proved
  under `~Together` (the run `together` shows they fail without it). The invariant behind
  both ties the address a program loaded to `meta` once it is up, and says that the table
  holds the recorded cluster's samples only, or is empty in the middle of a wipe.
  `RecentKept` adds `WipeIsDue`: a program about to purge has read another address than its
  own, and under `~Together` nobody has changed it since.
  `IsHistory` is the refinement: initial states map to initial states, each action to a
  step of `ClusterHistory` or to a stutter.
* `CollectorProofs`. One inductive invariant for all three theorems. `RoundInv` says where a
  round is: a member is *open* from its scrape to its row, an open one was scraped in this
  round, is shown up and is not scraped again, and none is open when a round ends. `StoredInv`: who
  is not open is shown by the newest row, or not shown up, or its own insert failed (`lost`). A snapshot is completed in place
  only while it is open, so what is completed late reaches the row, hence `LatestIsStored`;
  only open members are stored, hence `RowsAreNew`.
* `AccountsProofs`. One inductive invariant, `IInv`, for all six theorems: typing; where
  the start of the server is against the row; that whoever is past a verified password
  that must change holds a chosen one; that the password is known, the start is between
  its two writes, or one left its account behind (`orphan`); that the file is gone, its
  removal is pending, or one was not made (`undeleted`); and the count of failed
  attempts. `AttemptsBounded` counts the requests between their failure and their lock, and
  those a kill or a failing statement ended there (`dropped`). No theorem is restricted to
  behaviours without kills or failures.
* `OpsProofs`. `IInv` is typing and four parts, each inductive with the typing alone.
  `RoundInv`: an endpoint up since the round began is found or still to be probed, hence
  `GivesUpInOutage`. `StatusInv`: an endpoint up since the status was asked for was not
  tried in vain, and a failing status has tried them all, hence `StatusFailsInOutage`.
  `CompactInv`: target plus `retain_count` is at most the revision, which only grows, hence
  `RetainsEnough`, whatever old revision a member reported. `CalmInv`: an undisturbed
  MoveLeader holds lists of endpoints that answer and the leader there is, so no step of
  it can fail, hence `MoveSucceeds`.
* `BrowserProofs`, on `MCBrowser`, where each step is one of a part and leaves the others
  alone. `KeyInv`: the file holds no key while one is being made, and a server that is up
  uses the one in the file, hence `KeyOnDisk`. `KVInv` says what a request knows at each of
  its calls: a Put that reads back has written; what a Delete is still to delete is stored,
  and after its first call lies below the path. `PrefixIsDirectory` relates the bytes to the
  segments: a key begins with the path and a separator just when it lies in the directory,
  as the separator ends the last name; the root, whose prefix is a separator alone, needs
  that a key has a segment. Hence `OkMeansDone` in one direction and `DeletesOnlyBelow`
  in the other. `TreeReadable` needs of
  it only that stored keys are keys: what lies below a path begins with its bytes too, so it is
  read, has a segment left after the cut, and the node of all its segments ends there.
  `HashInv` (in `ReadingProofs`): each hash
  was taken from what the member had applied of the one log, at a point that has the
  revision. Two hashes of members that did not diverge differ only in a compaction that one
  had applied and the other, already at the revision, had not; so it came later, hence
  `VerdictRight`. `PrefsInv`: the writer holds the lock, and a file nobody writes is the list
  saved last or was broken off; with `MergeRight`, which says for any list what a merge keeps,
  adds and how it numbers, hence `LoadShowsSave`. `HistInv` (in `ReadingProofs`) stands on what the
  sort gives (`SortedFacts`: ascending bounds, whatever order buckets of one bound come in) and on the two
  ways a percentile is found (`NoneReaches`, `OneReaches`): it lies between the bounds of the
  first bucket that reaches the rank, and a higher rank is reached in a later bucket or
  further into the same one, hence `PercentilesRight`.
* `IntegerSets`. A finite set of integers has a least and a greatest member and one ascending
  sequence (`InOrderFacts`). The last needs an induction over finite sets, which is done with
  a smallest counterexample, as the library's induction theorems cannot be instantiated.

Only model-checked: everything temporal under fairness (`ShowsUp`, `ShowsDown`,
`StopEnds`, `ExpiredLeave`, `ListFollows`, `ShownUp`, `ShownDown`, `HealthyFollows`), since the
prover has no `ENABLED`. Facts that need induction over data or `RECURSIVE` operators are out
of its reach; no module here uses the latter. The assumption `Together = FALSE` of three
theorems about the store cannot be dropped: the run `together` shows what happens without it.

## Plan

In order of importance:

1. An abstract account (known password, chosen sessions) that `Accounts` implements.
2. The audit rows of all operations, with Defragment, Snapshot and the alarms.

## Not modelled, and why

* The web front end renders what the API returns; the shell scripts are outside of the
  running program; TLS, logging and the auth detector configure libraries.
* The v2 client: one call to etcd per operation, and one flag (above).
* The text parser works on characters; `Histogram` takes over where it has found the
  buckets. The sums over label values and the ten busiest methods are plain additions.
* The read-only queries of the store and the handlers of the API change no state. That
  the member list and the default id are read one after the other shows for seconds, and
  only in the display.
* The overview cards of the preferences, whose number is checked before a save.

`PROJECT.json` lists every component with its status and every hazard with the properties
that cover it.
