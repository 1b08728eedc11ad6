------------------------------- MODULE Health -------------------------------
(***************************************************************************)
(* The health manager: which of the configured etcd endpoints answer.  They *)
(* are probed in parallel when the server starts and every 15 seconds, and  *)
(* the list of those that answered replaces the old one when the round is   *)
(* over; readers copy it.  The server ends when none answered.              *)
(*                                                                         *)
(* An endpoint is its position in etcd.endpoint.  A member is up when it    *)
(* answers Status within the timeout of a probe.  Restart is the service    *)
(* manager of install.sh.                                                   *)
(***************************************************************************)
EXTENDS Integers

CONSTANTS
  NumMembers,    \* members of the etcd cluster
  NumEndpoints   \* the first of them are configured

ASSUME HealthAssumption ==
  NumMembers \in Nat /\ NumEndpoints \in 1..NumMembers

VARIABLES
  up,       \* the members that answer right now
  server,   \* the process
  healthy,  \* Manager.healthy
  round,    \* probeAll: the endpoints still to probe, and those that answered
  steady    \* history: the endpoints that have been up since the round began

healthVars == <<up, server, healthy, round, steady>>

Members == 1..NumMembers
Endpoints == 1..NumEndpoints

NoRound == [pc |-> "wait", todo |-> {}, found |-> {}]
AllProbed == [pc |-> "probe", todo |-> Endpoints, found |-> {}]

HealthTypeOK ==
  /\ up \subseteq Members
  /\ server \in {"starting", "running", "dead"}
  /\ healthy \subseteq Endpoints
  /\ round \in [pc : {"wait", "probe", "fatal"}, todo : SUBSET Endpoints, found : SUBSET Endpoints]
  /\ steady \subseteq Endpoints

\* The first in configured order.
First(eps) == CHOOSE e \in eps : \A f \in eps : e <= f

HealthInit ==
  /\ up \in SUBSET Members
  /\ server = "starting" /\ healthy = {} /\ round = AllProbed
  /\ steady = up \cap Endpoints

\* The ticker fires.
CheckBegin ==
  /\ server = "running" /\ round = NoRound
  /\ round' = AllProbed
  /\ steady' = up \cap Endpoints
  /\ UNCHANGED <<up, server, healthy>>

\* One of the parallel probes ends.
Probe(e) ==
  /\ e \in round.todo
  /\ round' = [round EXCEPT !.todo = @ \ {e}, !.found = IF e \in up THEN @ \cup {e} ELSE @]
  /\ UNCHANGED <<up, server, healthy, steady>>

OnlyStillHealthy(found) == IF server = "starting" THEN found ELSE healthy \cap found

\* What the list becomes: whatever answered, recovered endpoints included.
Refreshed(found) == found

\* All probes have ended.  New returns an error when none answered, and main gives up;
\* runHealthCheck publishes the empty list first.
CheckEnd ==
  /\ round.pc = "probe" /\ round.todo = {}
  /\ healthy' = Refreshed(round.found)
  /\ round' = IF healthy' = {} THEN [NoRound EXCEPT !.pc = "fatal"] ELSE NoRound
  /\ server' = IF healthy' # {} THEN "running" ELSE server
  /\ steady' = IF healthy' # {} THEN {} ELSE steady
  /\ UNCHANGED up

\* logger.Fatalf ends the process.
Fatal ==
  /\ round.pc = "fatal"
  /\ server' = "dead" /\ healthy' = {} /\ round' = NoRound /\ steady' = {}
  /\ UNCHANGED up

Restart ==
  /\ server = "dead"
  /\ server' = "starting" /\ round' = AllProbed
  /\ steady' = up \cap Endpoints
  /\ UNCHANGED <<up, healthy>>

\* A member stops answering, or answers again.
Toggle(m) ==
  /\ up' = IF m \in up THEN up \ {m} ELSE up \cup {m}
  /\ steady' = steady \cap up'
  /\ UNCHANGED <<server, healthy, round>>

CheckStep == CheckBegin \/ (\E e \in Endpoints : Probe(e)) \/ CheckEnd \/ Fatal

-----------------------------------------------------------------------------

(* The process gives up only when every endpoint was down at some moment of  *)
(* the round, although the probes of one round end at different moments.    *)
GivesUpInOutage == round.pc = "fatal" => steady = {}

(* While an endpoint stays up the list ends up with it, for good, and while  *)
(* it stays down without it, however it was before: every client made from  *)
(* the list then avoids the dead endpoints.                                 *)
HealthyFollows ==
  \A e \in Endpoints :
    /\ <>[](e \in up /\ server # "dead") => <>[](e \in healthy)
    /\ <>[](e \notin up) => <>[](e \notin healthy)
=============================================================================
