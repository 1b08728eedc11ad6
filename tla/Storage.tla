------------------------------ MODULE Storage ------------------------------
(***************************************************************************)
(* The database file shared by the server and the admin command: opening it *)
(* (storage.New with CheckEndpointChange), the collector's inserts, the     *)
(* audit log and the retention loop.  Both programs open it in the same     *)
(* way, under the configuration file as it was when they started.           *)
(*                                                                         *)
(* Every SQL statement and every transaction is one action; a program may   *)
(* die between two of them, and the other one may run.  Rows keep their     *)
(* age instead of their timestamp.  The values, names and members of a      *)
(* sample are left out, as are failing inserts (the sample is lost) and the *)
(* VACUUMs, whose result is ignored.                                       *)
(***************************************************************************)
EXTENDS Naturals

CONSTANTS
  Spellings,   \* ways to write the first address of etcd.endpoint
  Endpoints,   \* normalized addresses: each names a cluster
  Normalize,   \* config.NormalizeEndpoint, as a function from Spellings to Endpoints
  NoEndpoint,  \* nothing recorded yet
  Together,    \* whether the admin command is run while the server is
  MaxAge,      \* storage.retention_days
  AuditAge     \* ops.audit_retention_days

Programs == {"server", "cli"}
Oldest == (IF MaxAge < AuditAge THEN AuditAge ELSE MaxAge) + 1

ASSUME StorageAssumption ==
  /\ Spellings # {} /\ Normalize \in [Spellings -> Endpoints]
  /\ NoEndpoint \notin Endpoints
  /\ Together \in BOOLEAN
  /\ MaxAge \in Nat /\ AuditAge \in Nat

VARIABLES
  config,   \* the first address in config.yaml
  meta,     \* the row etcd_endpoint of the table meta
  metrics,  \* the table metrics; cluster is where a row was collected
  audit,    \* the ages of the rows of ops_audit_log
  prog      \* each program: where it is, the address it loaded, its retention loop

vars == <<config, meta, metrics, audit, prog>>

Metric == [cluster : Endpoints, age : 0..Oldest]
Down == [pc |-> "down"]
Running == [pc : {"check", "insert", "purge", "stamp", "up"}, ep : Endpoints,
            sweep : {"idle", "metrics", "audit"}]

TypeOK ==
  /\ config \in Spellings
  /\ meta \in Endpoints \cup {NoEndpoint}
  /\ metrics \subseteq Metric
  /\ audit \subseteq 0..Oldest
  /\ prog \in [Programs -> {Down} \cup Running]

Init ==
  /\ config \in Spellings
  /\ meta = NoEndpoint
  /\ metrics = {}
  /\ audit = {}
  /\ prog = [p \in Programs |-> Down]

-----------------------------------------------------------------------------

At(p, pc) == prog[p].pc = pc
Goto(p, pc) == prog' = [prog EXCEPT ![p].pc = pc]

\* storage.New returns; its retention loop starts with a cleanup.
Opened(p) == prog' = [prog EXCEPT ![p].pc = "up", ![p].sweep = "metrics"]

StartRaw(p) ==
  /\ prog[p] = Down
  /\ Together \/ \A q \in Programs : prog[q] = Down
  /\ prog' = [prog EXCEPT ![p] = [pc |-> "check", ep |-> config, sweep |-> "idle"]]
  /\ UNCHANGED <<config, meta, metrics, audit>>

\* config.Load, and the connection is opened.
Start(p) ==
  /\ prog[p] = Down
  /\ Together \/ \A q \in Programs : prog[q] = Down
  /\ prog' = [prog EXCEPT ![p] = [pc |-> "check", ep |-> Normalize[config], sweep |-> "idle"]]
  /\ UNCHANGED <<config, meta, metrics, audit>>

\* CheckEndpointChange, the SELECT.
CheckRead(p) ==
  /\ At(p, "check")
  /\ \/ meta = NoEndpoint /\ Goto(p, "insert")
     \/ meta = prog[p].ep /\ Opened(p)
     \/ meta \notin {NoEndpoint, prog[p].ep} /\ Goto(p, "purge")
  /\ UNCHANGED <<config, meta, metrics, audit>>

\* First run: the key is unique, so the INSERT of a program that comes second fails
\* and the program ends.
CheckInsert(p) ==
  /\ At(p, "insert")
  /\ \/ meta = NoEndpoint /\ meta' = prog[p].ep /\ Opened(p)
     \/ meta # NoEndpoint /\ meta' = meta /\ prog' = [prog EXCEPT ![p] = Down]
  /\ UNCHANGED <<config, metrics, audit>>

PurgeForgotten(p) ==
  /\ At(p, "purge")
  /\ Goto(p, "stamp")
  /\ UNCHANGED <<config, meta, metrics, audit>>

PurgeAuditToo(p) ==
  /\ At(p, "purge")
  /\ metrics' = {} /\ audit' = {}
  /\ Goto(p, "stamp")
  /\ UNCHANGED <<config, meta>>

\* DELETE FROM metrics comes before the new address is recorded.
CheckPurge(p) ==
  /\ At(p, "purge")
  /\ metrics' = {}
  /\ Goto(p, "stamp")
  /\ UNCHANGED <<config, meta, audit>>

CheckStamp(p) ==
  /\ At(p, "stamp")
  /\ meta' = prog[p].ep
  /\ Opened(p)
  /\ UNCHANGED <<config, metrics, audit>>

StoreReadsConfig ==
  /\ At("server", "up")
  /\ metrics' = metrics \cup {[cluster |-> Normalize[config], age |-> 0]}
  /\ UNCHANGED <<config, meta, audit, prog>>

\* Store: the samples of one member, in one transaction.  Only the server collects.
Store ==
  /\ At("server", "up")
  /\ metrics' = metrics \cup {[cluster |-> prog["server"].ep, age |-> 0]}
  /\ UNCHANGED <<config, meta, audit, prog>>

StoreAuditLog(p) ==
  /\ At(p, "up")
  /\ audit' = audit \cup {0}
  /\ UNCHANGED <<config, meta, metrics, prog>>

-----------------------------------------------------------------------------
(* cleanup, every hour: an error of the first DELETE skips the second one. *)

KeptTooFew(rows) == {r \in rows : r.age < MaxAge}

Kept(rows) == {r \in rows : r.age <= MaxAge}
KeptAudit(ages) == {a \in ages : a <= AuditAge}

SweepStart(p) ==
  /\ At(p, "up") /\ prog[p].sweep = "idle"
  /\ prog' = [prog EXCEPT ![p].sweep = "metrics"]
  /\ UNCHANGED <<config, meta, metrics, audit>>

SweepMetrics(p) ==
  /\ At(p, "up") /\ prog[p].sweep = "metrics"
  /\ metrics' = Kept(metrics)
  /\ prog' = [prog EXCEPT ![p].sweep = "audit"]
  /\ UNCHANGED <<config, meta, audit>>

SweepAuditForgotten(p) ==
  /\ At(p, "up") /\ prog[p].sweep = "audit"
  /\ prog' = [prog EXCEPT ![p].sweep = "idle"]
  /\ UNCHANGED <<config, meta, metrics, audit>>

SweepAudit(p) ==
  /\ At(p, "up") /\ prog[p].sweep = "audit"
  /\ audit' = KeptAudit(audit)
  /\ prog' = [prog EXCEPT ![p].sweep = "idle"]
  /\ UNCHANGED <<config, meta, metrics>>

SweepFails(p) ==
  /\ At(p, "up") /\ prog[p].sweep # "idle"
  /\ prog' = [prog EXCEPT ![p].sweep = "idle"]
  /\ UNCHANGED <<config, meta, metrics, audit>>

-----------------------------------------------------------------------------

\* The program ends or is killed, wherever it is.
Exit(p) ==
  /\ prog[p] # Down
  /\ prog' = [prog EXCEPT ![p] = Down]
  /\ UNCHANGED <<config, meta, metrics, audit>>

\* The operator edits config.yaml; programs that run do not notice.
EditConfig(s) ==
  /\ config' = s
  /\ UNCHANGED <<meta, metrics, audit, prog>>

Older(a) == IF a < Oldest THEN a + 1 ELSE a

TimePasses ==
  /\ metrics' = {[r EXCEPT !.age = Older(@)] : r \in metrics}
  /\ audit' = {Older(a) : a \in audit}
  /\ UNCHANGED <<config, meta, prog>>

Opening(p) == CheckRead(p) \/ CheckInsert(p) \/ CheckPurge(p) \/ CheckStamp(p)

Next ==
  \/ \E p \in Programs :
       Start(p) \/ Opening(p) \/ StoreAuditLog(p) \/ SweepStart(p) \/ SweepMetrics(p)
         \/ SweepAudit(p) \/ SweepFails(p) \/ Exit(p)
  \/ Store
  \/ \E s \in Spellings : EditConfig(s)
  \/ TimePasses

Spec == Init /\ [][Next]_vars

(* The ticker of the retention loop keeps firing while the server runs, and *)
(* a DELETE that is retried every hour does not fail for ever.              *)
FairSpec ==
  /\ Spec
  /\ \A p \in Programs :
       WF_vars(Opening(p)) /\ WF_vars(SweepStart(p)) /\ SF_vars(SweepMetrics(p))
         /\ SF_vars(SweepAudit(p))

-----------------------------------------------------------------------------
(* Correctness. *)

(* docs/DATA_RETENTION.md: the wipe avoids mixing clusters.  Whatever the    *)
(* table holds comes from one cluster, across edits of the configuration    *)
(* and crashes between the statements of CheckEndpointChange.               *)
NoMixing == \A r1, r2 \in metrics : r1.cluster = r2.cluster

(* The store is a history of one cluster, the recorded one: it implements   *)
(* ClusterHistory, also when a program dies in the middle of a wipe.        *)
History == INSTANCE ClusterHistory
             WITH Clusters <- Endpoints, NoCluster <- NoEndpoint,
                  cluster <- meta, samples <- metrics
IsHistory == History!Spec

(* A sample younger than its retention is lost only to a program that       *)
(* loaded another address than the recorded one: restarts, crashes in the   *)
(* middle of a wipe and another spelling of the address keep it.  The audit *)
(* log has a retention of its own, which a change of the address does not   *)
(* touch (the comment in cleanup).                                         *)
RecentKept ==
  [][/\ \/ \A r \in metrics :
              r.age <= MaxAge => \E n \in metrics' : n.age \in {r.age, Older(r.age)}
        \/ \E p \in Programs : At(p, "purge") /\ meta \notin {NoEndpoint, prog[p].ep}
     /\ \A a \in audit : a <= AuditAge => \E n \in audit' : n \in {a, Older(a)}]_vars

(* While the server runs, expired samples and expired audit rows are gone   *)
(* again and again, although a failing DELETE of the first kind skips the   *)
(* second.                                                                 *)
ExpiredLeave ==
  <>[]At("server", "up") => []<>(metrics = Kept(metrics)) /\ []<>(audit = KeptAudit(audit))
=============================================================================
