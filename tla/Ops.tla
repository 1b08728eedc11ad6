-------------------------------- MODULE Ops --------------------------------
(***************************************************************************)
(* The requests of the ops panel that take several steps: MoveLeader, which *)
(* looks for the leader and then calls it, and Compact, which asks a member *)
(* for the revision through StatusFromHealthy and then compacts below it.   *)
(* Every read of the list of healthy endpoints and every call to etcd is an *)
(* action.  The audit row is written with the answer, and its contents and  *)
(* who sent the request are left out.                                       *)
(*                                                                         *)
(* Defragment, Snapshot and the alarms are one call and an audit row;       *)
(* HashKV and the routes that only read are left out.                       *)
(*                                                                         *)
(* etcd is external: one leader or none, the revision of the log, and the   *)
(* revision up to which it is compacted.  A member may lag: it reports any  *)
(* revision the log has had.  It names the leader there is, or none.        *)
(***************************************************************************)
EXTENDS Health

CONSTANTS
  Workers,    \* goroutines serving requests
  Retains,    \* values of retain_count
  MaxRev,     \* bounds the revisions
  NoLeader

ASSUME OpsAssumption ==
  Retains \subseteq Nat \ {0} /\ MaxRev \in Nat \ {0} /\ NoLeader \notin Members

VARIABLES
  leader,     \* of the etcd cluster
  rev,        \* its revision
  compacted,  \* it is compacted up to this revision
  req,        \* what each worker is doing
  calm,       \* history: workers whose MoveLeader has met no fault and no election
  answering   \* history: endpoints that have been up since the worker asked for the status

cluster == <<leader, rev, compacted>>
history == <<calm, answering>>
vars == <<healthVars, cluster, req, history>>

Revs == 1..MaxRev
Idle == [pc |-> "idle"]
Lists == SUBSET Endpoints

\* cli is the list the client was made from, eps the copy to try.
Moving == [pc : {"moveList", "moveFind", "moveMembers", "moveCall"}, target : Members,
           cli : Lists, eps : Lists, leader : Members \cup {NoLeader}]
Asking == [pc : {"statusList"}, retain : Retains]
              \cup [pc : {"status"}, retain : Retains, eps : Lists, tried : Lists]
Compacting == [pc : {"compactCall"}, retain : Retains, target : Revs]
Ended == [pc : {"done", "moveFailed", "statusFailed", "compactFailed"}]
Request == {Idle} \cup Moving \cup Asking \cup Compacting \cup Ended

TypeOK ==
  /\ HealthTypeOK
  /\ leader \in Members \cup {NoLeader}
  /\ rev \in Revs /\ compacted \in 0..MaxRev
  /\ req \in [Workers -> Request]
  /\ calm \subseteq Workers
  /\ answering \in [Workers -> SUBSET Endpoints]

Init ==
  /\ HealthInit
  /\ leader \in Members \cup {NoLeader}
  /\ rev = 1 /\ compacted = 0
  /\ req = [w \in Workers |-> Idle]
  /\ calm = {} /\ answering = [w \in Workers |-> {}]

Become(w, r) == req' = [req EXCEPT ![w] = r]
Ends(w, pc) == Become(w, [pc |-> pc])

\* newEtcdClient fails on an empty list.
Asks(w) == server = "running" /\ req[w] = Idle

\* A list of probes older than an outage, or than the end of one.
Outdated(list) == list = {} \/ ~(list \subseteq up)

-----------------------------------------------------------------------------
(* MoveLeader. *)

MoveBegin(w, t) ==
  /\ Asks(w)
  /\ IF healthy = {} THEN Ends(w, "moveFailed")
     ELSE Become(w, [pc |-> "moveList", target |-> t, cli |-> healthy, eps |-> {},
                     leader |-> NoLeader])
  /\ calm' = IF ~Outdated(healthy) /\ {leader, t} \subseteq up THEN calm \cup {w} ELSE calm
  /\ UNCHANGED <<healthVars, cluster, answering>>

\* The list is read once more.
MoveList(w) ==
  /\ req[w].pc = "moveList"
  /\ Become(w, [req[w] EXCEPT !.pc = "moveFind", !.eps = healthy])
  /\ UNCHANGED <<healthVars, cluster, history>>

\* Status of one endpoint after the other, until one names a leader.  All share ten
\* seconds: an endpoint that hangs uses them up.
MoveFind(w) ==
  /\ req[w].pc = "moveFind" /\ req[w].eps # {}
  /\ LET e == First(req[w].eps) IN
     \/ /\ e \in up /\ leader # NoLeader
        /\ Become(w, [req[w] EXCEPT !.pc = "moveMembers", !.leader = leader])
     \/ /\ e \notin up \/ leader = NoLeader
        /\ Become(w, [req[w] EXCEPT !.eps = @ \ {e}])
     \/ e \notin up /\ Ends(w, "moveFailed")
  /\ UNCHANGED <<healthVars, cluster, history>>

MoveNotFound(w) ==
  /\ req[w].pc = "moveFind" /\ req[w].eps = {}
  /\ Ends(w, "moveFailed")
  /\ UNCHANGED <<healthVars, cluster, history>>

\* MemberList, through the client, gives the URLs of the leader.
MoveMembers(w) ==
  /\ req[w].pc = "moveMembers"
  /\ \/ req[w].cli \cap up # {} /\ leader # NoLeader /\ Become(w, [req[w] EXCEPT !.pc = "moveCall"])
     \/ (~(req[w].cli \subseteq up) \/ leader = NoLeader) /\ Ends(w, "moveFailed")
  /\ UNCHANGED <<healthVars, cluster, history>>

CalledAnyMember(w) == First(req[w].cli)

\* The member the last call goes to.
Called(w) == req[w].leader

\* etcd refuses unless the called member leads and the target answers.  An answer that
\* is lost is a fault.
MoveCall(w) ==
  /\ req[w].pc = "moveCall"
  /\ \/ /\ Called(w) = leader /\ {leader, req[w].target} \subseteq up
        /\ leader' = req[w].target
        /\ \/ Ends(w, "done") /\ calm' = IF leader' = leader THEN calm ELSE {}
           \/ Ends(w, "moveFailed") /\ calm' = {}
     \/ /\ Called(w) # leader \/ ~({leader, req[w].target} \subseteq up)
        /\ Ends(w, "moveFailed")
        /\ UNCHANGED <<leader, calm>>
  /\ UNCHANGED <<healthVars, rev, compacted, answering>>

-----------------------------------------------------------------------------
(* Compact. *)

CompactBegin(w, n) ==
  /\ Asks(w)
  /\ IF healthy = {} THEN Ends(w, "compactFailed")
     ELSE Become(w, [pc |-> "statusList", retain |-> n])
  /\ UNCHANGED <<healthVars, cluster, history>>

\* StatusFromHealthy copies the list.
StatusList(w) ==
  /\ req[w].pc = "statusList"
  /\ Become(w, [pc |-> "status", retain |-> req[w].retain, eps |-> healthy, tried |-> {}])
  /\ answering' = [answering EXCEPT ![w] = up \cap Endpoints]
  /\ UNCHANGED <<healthVars, cluster, calm>>

UntriedHealthy(r) == r.eps \ r.tried

\* The list first, then the other endpoints.
Untried(r) == IF r.eps \subseteq r.tried THEN Endpoints \ r.tried ELSE r.eps \ r.tried

TargetOffByOne(seen, retain) == seen - retain + 1
Target(seen, retain) == seen - retain

NeverTooLarge(target) == FALSE
TooLarge(target) == target <= 0

\* A status arrives; a retain_count too large for it is answered with 400 at once.
StatusOk(w, seen) ==
  /\ req[w].pc = "status" /\ Untried(req[w]) # {}
  /\ First(Untried(req[w])) \in up /\ seen <= rev
  /\ LET target == Target(seen, req[w].retain) IN
     Become(w, IF TooLarge(target) THEN Idle
               ELSE [pc |-> "compactCall", retain |-> req[w].retain, target |-> target])
  /\ answering' = [answering EXCEPT ![w] = {}]
  /\ UNCHANGED <<healthVars, cluster, calm>>

StatusError(w) ==
  /\ req[w].pc = "status" /\ Untried(req[w]) # {}
  /\ First(Untried(req[w])) \notin up
  /\ Become(w, [req[w] EXCEPT !.tried = @ \cup {First(Untried(req[w]))}])
  /\ UNCHANGED <<healthVars, cluster, history>>

StatusFails(w) ==
  /\ req[w].pc = "status" /\ Untried(req[w]) = {}
  /\ Ends(w, "statusFailed")
  /\ UNCHANGED <<healthVars, cluster, history>>

\* etcd compacts below its revision and above what is compacted.  The call may fail for
\* any reason, and the answer may be lost.
CompactCall(w) ==
  /\ req[w].pc = "compactCall"
  /\ \/ /\ leader \in up /\ req[w].target \in (compacted + 1)..rev
        /\ compacted' = req[w].target
        /\ \E pc \in {"done", "compactFailed"} : Ends(w, pc)
     \/ Ends(w, "compactFailed") /\ UNCHANGED compacted
  /\ UNCHANGED <<healthVars, leader, rev, history>>

-----------------------------------------------------------------------------

\* The audit row and the answer.
Answer(w) ==
  /\ req[w] \in Ended
  /\ Become(w, Idle)
  /\ calm' = calm \ {w} /\ answering' = [answering EXCEPT ![w] = {}]
  /\ UNCHANGED <<healthVars, cluster>>

RequestStep(w) ==
  \/ \E t \in Members : MoveBegin(w, t)
  \/ MoveList(w) \/ MoveFind(w) \/ MoveNotFound(w) \/ MoveMembers(w) \/ MoveCall(w)
  \/ \E n \in Retains : CompactBegin(w, n)
  \/ StatusList(w) \/ StatusError(w) \/ StatusFails(w) \/ CompactCall(w)
  \/ \E seen \in Revs : StatusOk(w, seen)
  \/ Answer(w)

\* Another leader, or none for a while.
Election(l) ==
  /\ l # leader
  /\ leader' = l /\ calm' = {}
  /\ UNCHANGED <<healthVars, rev, compacted, req, answering>>

Write ==
  /\ rev < MaxRev /\ leader \in up
  /\ rev' = rev + 1
  /\ UNCHANGED <<healthVars, leader, compacted, req, history>>

\* Another client, or etcd's own auto-compaction.
CompactElsewhere(n) ==
  /\ n \in (compacted + 1)..rev
  /\ compacted' = n
  /\ UNCHANGED <<healthVars, leader, rev, req, history>>

\* Fatal takes the requests of the process with it.
ServerStep ==
  \/ CheckBegin /\ UNCHANGED <<cluster, req, history>>
  \/ \E e \in Endpoints : Probe(e) /\ UNCHANGED <<cluster, req, history>>
  \/ /\ CheckEnd
     /\ calm' = IF Outdated(healthy') THEN {} ELSE calm
     /\ UNCHANGED <<cluster, req, answering>>
  \/ /\ Fatal
     /\ req' = [w \in Workers |-> Idle]
     /\ calm' = {} /\ answering' = [w \in Workers |-> {}]
     /\ UNCHANGED cluster

Surroundings ==
  \/ Restart /\ UNCHANGED <<cluster, req, history>>
  \/ \E m \in Members :
       /\ Toggle(m)
       /\ calm' = {} /\ answering' = [w \in Workers |-> answering[w] \cap up']
       /\ UNCHANGED <<cluster, req>>
  \/ \E l \in Members \cup {NoLeader} : Election(l)
  \/ Write
  \/ \E n \in Revs : CompactElsewhere(n)

Next == ServerStep \/ Surroundings \/ \E w \in Workers : RequestStep(w)

Spec == Init /\ [][Next]_vars

(* The ticker keeps firing and every probe has a timeout.                   *)
FairSpec == Spec /\ WF_vars(ServerStep)

-----------------------------------------------------------------------------

(* StatusFromHealthy fails only if every endpoint was down at some moment of *)
(* the call, also when the list is older than the recovery of an endpoint.  *)
StatusFailsInOutage == \A w \in Workers : req[w].pc = "statusFailed" => answering[w] = {}

(* MoveLeader calls the leader itself: in a cluster with a leader, where the *)
(* listed endpoints, the leader and the target answer, it fails only if a   *)
(* member stopped answering, an answer was lost, the leader changed or an   *)
(* outdated list was published after it began.                              *)
MoveSucceeds == \A w \in Workers : req[w].pc = "moveFailed" => w \notin calm

(* A compaction keeps at least retain_count revisions: the revision it       *)
(* starts from may be old by the time etcd compacts, and a member that lags *)
(* may have reported it, but never too new.                                 *)
RetainsEnough ==
  [][\A w \in Workers :
       CompactCall(w) /\ compacted' # compacted => compacted' + req[w].retain <= rev]_vars
=============================================================================
