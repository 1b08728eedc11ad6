----------------------------- MODULE OpsProofs -----------------------------
(***************************************************************************)
(* Proofs about Health and Ops, for any number of members, endpoints and    *)
(* workers: when the process gives up, when a status fails, when moving the *)
(* leader fails, and how much a compaction keeps.                          *)
(***************************************************************************)
EXTENDS Ops, IntegerSets, TLAPS

USE DEF Idle, NoRound

MovePcs == {"moveList", "moveFind", "moveMembers", "moveCall"}

\* An endpoint that has been up since the round began was found, or is still to be probed.
RoundInv ==
  /\ round.pc = "probe" => steady \subseteq up /\ steady \subseteq round.todo \cup round.found
  /\ round.pc = "fatal" => steady = {}

\* An endpoint that has been up since the status was asked for was not tried in vain.
StatusInv ==
  \A w \in Workers :
    /\ answering[w] \subseteq up
    /\ req[w].pc = "status" => answering[w] \cap req[w].tried = {}
    /\ req[w].pc = "statusFailed" => answering[w] = {}

CompactInv ==
  \A w \in Workers : req[w].pc = "compactCall" => req[w].target + req[w].retain <= rev

\* What an undisturbed MoveLeader relies on is still so.
CalmFor(w) ==
  /\ req[w].pc \in MovePcs \cup {"done"}
  /\ ~Outdated(healthy) /\ leader \in up
  /\ req[w].pc \in MovePcs => req[w].target \in up /\ ~Outdated(req[w].cli)
  /\ req[w].pc = "moveFind" => ~Outdated(req[w].eps)
  /\ req[w].pc \in {"moveMembers", "moveCall"} => req[w].leader = leader

CalmInv == \A w \in calm : CalmFor(w)

IInv == TypeOK /\ RoundInv /\ StatusInv /\ CompactInv /\ CalmInv

-----------------------------------------------------------------------------
(* Facts about the definitions. *)

\* The first endpoint of a non-empty set of endpoints is one of them.
LEMMA FirstIn ==
  ASSUME NEW eps \in SUBSET Endpoints, eps # {}
  PROVE  First(eps) \in eps
<1>0. Endpoints \in SUBSET Int /\ IsFiniteSet(Endpoints)
  BY HealthAssumption, FS_Interval DEF Endpoints
<1>1. IsFiniteSet(eps)
  BY <1>0, FS_Subset
<1>2. PICK e \in eps : \A f \in eps : e <= f
  BY <1>0, <1>1, FiniteMin
<1>. QED  BY <1>2 DEF First

\* The constants that arithmetic is done with are integers.
LEMMA Numbers == Retains \subseteq Int /\ Revs \subseteq Int
<1>1. Retains \subseteq Int
  BY OpsAssumption
<1>2. Revs \subseteq Int
  BY DEF Revs
<1>. QED  BY <1>1, <1>2

\* What pc says about the other fields of a request.
LEMMA RequestShape ==
  ASSUME NEW r \in Request
  PROVE  /\ r.pc = "idle" <=> r = Idle
         /\ r.pc \in MovePcs => r \in Moving
         /\ r.pc = "statusList" => r \in [pc : {"statusList"}, retain : Retains]
         /\ r.pc = "status" =>
              r \in [pc : {"status"}, retain : Retains, eps : Lists, tried : Lists]
         /\ r.pc = "compactCall" => r \in Compacting
BY DEF Request, Moving, Asking, Compacting, Ended, MovePcs

\* A request that has ended is a request.
LEMMA EndedRequest ==
  \A pc \in {"done", "moveFailed", "statusFailed", "compactFailed"} : [pc |-> pc] \in Request
BY DEF Request, Ended

\* Giving one worker a request keeps req well typed and the other workers as they are.
LEMMA BecomeType ==
  ASSUME TypeOK, NEW w \in Workers, NEW r \in Request, Become(w, r)
  PROVE  /\ req' \in [Workers -> Request]
         /\ req'[w] = r
         /\ \A v \in Workers \ {w} : req'[v] = req[v]
BY DEF Become, TypeOK

\* The same for any value.
LEMMA BecomeIs ==
  ASSUME TypeOK, NEW w \in Workers, NEW r, Become(w, r)
  PROVE  req'[w] = r /\ \A v \in Workers \ {w} : req'[v] = req[v]
BY DEF Become, TypeOK

\* The endpoint StatusFromHealthy tries next is a configured one that it has not tried.
LEMMA UntriedIn ==
  ASSUME NEW r \in Request, r.pc = "status", Untried(r) # {}
  PROVE  First(Untried(r)) \in Endpoints /\ First(Untried(r)) \in Untried(r)
<1>1. r.eps \subseteq Endpoints
  BY RequestShape DEF Lists
<1>2. Untried(r) \subseteq Endpoints
  BY <1>1 DEF Untried
<1>. QED  BY <1>2, FirstIn

-----------------------------------------------------------------------------
(* Typing. *)

\* The initial states are well typed.
LEMMA InitTypeOK == Init => TypeOK
BY HealthAssumption, OpsAssumption
   DEF Init, HealthInit, TypeOK, HealthTypeOK, AllProbed, Request, Members, Endpoints, Revs

\* The steps of the health manager keep its state well typed.
LEMMA HealthStepTypeOK ==
  ASSUME HealthTypeOK, CheckStep \/ Restart \/ \E m \in Members : Toggle(m)
  PROVE  HealthTypeOK'
<1>1. CASE CheckBegin
  BY <1>1 DEF CheckBegin, HealthTypeOK, AllProbed
<1>2. CASE \E e \in Endpoints : Probe(e)
  <2>1. PICK e \in Endpoints : Probe(e)
    BY <1>2
  <2>2. round' \in [pc : {"wait", "probe", "fatal"}, todo : SUBSET Endpoints,
                    found : SUBSET Endpoints]
    BY <2>1 DEF Probe, HealthTypeOK
  <2>. QED  BY <2>1, <2>2 DEF Probe, HealthTypeOK
<1>3. CASE CheckEnd
  BY <1>3 DEF CheckEnd, Refreshed, HealthTypeOK
<1>4. CASE Fatal
  BY <1>4 DEF Fatal, HealthTypeOK
<1>5. CASE Restart
  BY <1>5 DEF Restart, HealthTypeOK, AllProbed
<1>6. CASE \E m \in Members : Toggle(m)
  BY <1>6 DEF Toggle, HealthTypeOK
<1>. QED  BY <1>1, <1>2, <1>3, <1>4, <1>5, <1>6 DEF CheckStep

\* So do the steps of a request.
LEMMA RequestTypeOK ==
  ASSUME TypeOK, NEW w \in Workers, RequestStep(w)
  PROVE  TypeOK'
<1>. USE EndedRequest
<1>0. req[w] \in Request /\ healthy \in Lists /\ Idle \in Request
  BY DEF TypeOK, HealthTypeOK, Lists, Request
<1>1. CASE \E t \in Members : MoveBegin(w, t)
  <2>1. PICK t \in Members : MoveBegin(w, t)
    BY <1>1
  <2>2. [pc |-> "moveList", target |-> t, cli |-> healthy, eps |-> {}, leader |-> NoLeader]
          \in Request
    BY <1>0 DEF Request, Moving, Lists
  <2>3. req' \in [Workers -> Request]
    BY <2>1, <2>2, BecomeType DEF MoveBegin, Ends
  <2>. QED  BY <2>1, <2>3 DEF MoveBegin, TypeOK, HealthTypeOK, healthVars, cluster
<1>2. CASE MoveList(w) \/ MoveFind(w) \/ MoveNotFound(w) \/ MoveMembers(w)
  <2>1. req[w] \in Moving
    BY <1>0, <1>2, RequestShape DEF MoveList, MoveFind, MoveNotFound, MoveMembers, MovePcs
  <2>2. [req[w] EXCEPT !.pc = "moveFind", !.eps = healthy] \in Request
    BY <1>0, <2>1 DEF Request, Moving
  <2>3. [req[w] EXCEPT !.pc = "moveMembers", !.leader = leader] \in Request
    BY <2>1 DEF Request, Moving, TypeOK
  <2>4. \A e : [req[w] EXCEPT !.eps = @ \ {e}] \in Request
    BY <2>1 DEF Request, Moving, Lists
  <2>5. [req[w] EXCEPT !.pc = "moveCall"] \in Request
    BY <2>1 DEF Request, Moving
  <2>6. req' \in [Workers -> Request]
    BY <1>2, <2>2, <2>3, <2>4, <2>5, BecomeType
       DEF MoveList, MoveFind, MoveNotFound, MoveMembers, Ends
  <2>7. UNCHANGED <<healthVars, cluster, history>>
    BY <1>2 DEF MoveList, MoveFind, MoveNotFound, MoveMembers
  <2>. QED  BY <2>6, <2>7 DEF TypeOK, HealthTypeOK, healthVars, cluster, history
<1>3. CASE MoveCall(w)
  <2>1. req[w].target \in Members
    BY <1>0, <1>3, RequestShape DEF MoveCall, MovePcs, Moving
  <2>2. req' \in [Workers -> Request]
    BY <1>3, BecomeType DEF MoveCall, Ends
  <2>3. leader' \in Members \cup {NoLeader} /\ calm' \subseteq Workers
    BY <1>3, <2>1 DEF MoveCall, TypeOK
  <2>. QED  BY <1>3, <2>2, <2>3 DEF MoveCall, TypeOK, HealthTypeOK, healthVars
<1>4. CASE \E n \in Retains : CompactBegin(w, n)
  <2>1. \A n \in Retains : [pc |-> "statusList", retain |-> n] \in Request
    BY DEF Request, Asking
  <2>2. req' \in [Workers -> Request]
    BY <1>4, <2>1, BecomeType DEF CompactBegin, Ends
  <2>. QED  BY <1>4, <2>2
            DEF CompactBegin, TypeOK, HealthTypeOK, healthVars, cluster, history
<1>5. CASE StatusList(w)
  <2>1. req[w].retain \in Retains
    BY <1>0, <1>5, RequestShape DEF StatusList
  <2>2. [pc |-> "status", retain |-> req[w].retain, eps |-> healthy, tried |-> {}] \in Request
    BY <1>0, <2>1 DEF Request, Asking, Lists
  <2>3. req' \in [Workers -> Request]
    BY <1>5, <2>2, BecomeType DEF StatusList
  <2>. QED  BY <1>5, <2>3 DEF StatusList, TypeOK, HealthTypeOK, healthVars, cluster
<1>6. CASE \E seen \in Revs : StatusOk(w, seen)
  <2>1. PICK seen \in Revs : StatusOk(w, seen)
    BY <1>6
  <2>2. req[w].retain \in Retains
    BY <1>0, <2>1, RequestShape DEF StatusOk
  <2>3. Target(seen, req[w].retain) \in Int /\ Target(seen, req[w].retain) <= MaxRev
    <3>1. seen \in 1..MaxRev /\ MaxRev \in Nat /\ req[w].retain \in Nat
      BY <2>2, OpsAssumption DEF Revs
    <3>. QED  BY <3>1 DEF Target
  <2>4. ~TooLarge(Target(seen, req[w].retain)) => Target(seen, req[w].retain) \in Revs
    BY <2>3, OpsAssumption DEF TooLarge, Revs
  <2>5. ~TooLarge(Target(seen, req[w].retain)) =>
          [pc |-> "compactCall", retain |-> req[w].retain,
           target |-> Target(seen, req[w].retain)] \in Request
    BY <2>2, <2>4 DEF Request, Compacting
  <2>6. req' \in [Workers -> Request]
    BY <1>0, <2>1, <2>5, BecomeType DEF StatusOk
  <2>. QED  BY <2>1, <2>6 DEF StatusOk, TypeOK, HealthTypeOK, healthVars, cluster
<1>7. CASE StatusError(w) \/ StatusFails(w)
  <2>1. req[w] \in [pc : {"status"}, retain : Retains, eps : Lists, tried : Lists]
    BY <1>0, <1>7, RequestShape DEF StatusError, StatusFails
  <2>2. \A e \in Endpoints : [req[w] EXCEPT !.tried = @ \cup {e}] \in Request
    BY <2>1 DEF Request, Asking, Lists
  <2>3. req' \in [Workers -> Request]
    BY <1>0, <1>7, <2>2, UntriedIn, BecomeType DEF StatusError, StatusFails, Ends
  <2>4. UNCHANGED <<healthVars, cluster, history>>
    BY <1>7 DEF StatusError, StatusFails
  <2>. QED  BY <2>3, <2>4 DEF TypeOK, HealthTypeOK, healthVars, cluster, history
<1>8. CASE CompactCall(w)
  <2>1. req[w].target \in 0..MaxRev
    BY <1>0, <1>8, RequestShape, OpsAssumption DEF CompactCall, Compacting, Revs
  <2>2. req' \in [Workers -> Request]
    BY <1>8, BecomeType DEF CompactCall, Ends
  <2>3. compacted' \in 0..MaxRev
    BY <1>8, <2>1 DEF CompactCall, TypeOK
  <2>. QED  BY <1>8, <2>2, <2>3 DEF CompactCall, TypeOK, HealthTypeOK, healthVars, history
<1>9. CASE Answer(w)
  <2>1. req' \in [Workers -> Request]
    BY <1>0, <1>9, BecomeType DEF Answer
  <2>. QED  BY <1>9, <2>1 DEF Answer, TypeOK, HealthTypeOK, healthVars, cluster
<1>. QED  BY <1>1, <1>2, <1>3, <1>4, <1>5, <1>6, <1>7, <1>8, <1>9 DEF RequestStep

\* What a step that is no request's does to the health variables.
LEMMA ServerStepHealth ==
  ASSUME ServerStep \/ Surroundings
  PROVE  \/ CheckStep \/ Restart \/ \E m \in Members : Toggle(m)
         \/ UNCHANGED healthVars
BY DEF ServerStep, Surroundings, CheckStep, Election, Write, CompactElsewhere

\* Every step keeps the types.
LEMMA NextTypeOK == TypeOK /\ [Next]_vars => TypeOK'
<1>. SUFFICES ASSUME TypeOK, [Next]_vars PROVE TypeOK'
  OBVIOUS
<1>1. CASE ServerStep \/ Surroundings
  <2>1. HealthTypeOK'
    BY <1>1, ServerStepHealth, HealthStepTypeOK DEF TypeOK, HealthTypeOK, healthVars
  <2>2. leader' \in Members \cup {NoLeader} /\ rev' \in Revs /\ compacted' \in 0..MaxRev
    BY <1>1, OpsAssumption DEF ServerStep, Surroundings, Election, Write, CompactElsewhere,
          TypeOK, Revs, cluster
  <2>3. req' \in [Workers -> Request] /\ calm' \subseteq Workers
    BY <1>1 DEF ServerStep, Surroundings, Election, Write, CompactElsewhere,
          TypeOK, history, Request
  <2>4. answering' \in [Workers -> SUBSET Endpoints]
    BY <1>1 DEF ServerStep, Surroundings, Election, Write, CompactElsewhere,
          TypeOK, history
  <2>. QED  BY <2>1, <2>2, <2>3, <2>4 DEF TypeOK
<1>2. CASE \E w \in Workers : RequestStep(w)
  BY <1>2, RequestTypeOK
<1>3. CASE UNCHANGED vars
  BY <1>3 DEF vars, healthVars, cluster, history, TypeOK, HealthTypeOK
<1>. QED  BY <1>1, <1>2, <1>3 DEF Next

(* Every variable keeps its type: in particular a compaction never asks for  *)
(* a revision below one, since a retain_count too large is refused before.  *)
THEOREM Typed == Spec => []TypeOK
  BY InitTypeOK, NextTypeOK, PTL DEF Spec

-----------------------------------------------------------------------------
(* The parts of the invariant. *)

\* Requests read the list of endpoints and change nothing of it.
LEMMA RequestStepUp ==
  ASSUME NEW w \in Workers, RequestStep(w) PROVE UNCHANGED healthVars /\ up' = up
BY DEF RequestStep, MoveBegin, MoveList, MoveFind, MoveNotFound, MoveMembers, MoveCall,
     CompactBegin, StatusList, StatusOk, StatusError, StatusFails, CompactCall, Answer, healthVars

\* What a step does to the health variables.
LEMMA HealthSteps ==
  ASSUME [Next]_vars
  PROVE  \/ CheckStep \/ Restart \/ \E m \in Members : Toggle(m)
         \/ UNCHANGED healthVars
BY RequestStepUp, ServerStepHealth DEF Next, vars

\* An endpoint that stays up through a round is found by it.
LEMMA NextRoundInv == HealthTypeOK /\ RoundInv /\ [Next]_vars => RoundInv'
<1>. SUFFICES ASSUME HealthTypeOK, RoundInv, [Next]_vars PROVE RoundInv'
  OBVIOUS
<1>1. CASE CheckBegin \/ Restart
  BY <1>1 DEF CheckBegin, Restart, RoundInv, AllProbed
<1>2. CASE \E e \in Endpoints : Probe(e)
  BY <1>2 DEF Probe, RoundInv, HealthTypeOK
<1>3. CASE CheckEnd
  BY <1>3 DEF CheckEnd, Refreshed, RoundInv
<1>4. CASE Fatal
  BY <1>4 DEF Fatal, RoundInv
<1>5. CASE \E m \in Members : Toggle(m)
  BY <1>5 DEF Toggle, RoundInv
<1>6. CASE UNCHANGED healthVars
  BY <1>6 DEF healthVars, RoundInv
<1>. QED  BY <1>1, <1>2, <1>3, <1>4, <1>5, <1>6, HealthSteps DEF CheckStep

\* Requests of other workers and the history of this one are as they were.
LEMMA OthersAlone ==
  ASSUME TypeOK, NEW w \in Workers, RequestStep(w), NEW v \in Workers, v # w
  PROVE  req'[v] = req[v] /\ answering'[v] = answering[v]
BY DEF RequestStep, MoveBegin, MoveList, MoveFind, MoveNotFound, MoveMembers, MoveCall,
     CompactBegin, StatusList, StatusOk, StatusError, StatusFails, CompactCall, Answer,
     Ends, Become, TypeOK, history

\* A step of a MoveLeader request.
MoveStep(w) ==
  \/ \E t \in Members : MoveBegin(w, t)
  \/ MoveList(w) \/ MoveFind(w) \/ MoveNotFound(w) \/ MoveMembers(w) \/ MoveCall(w)

\* A MoveLeader request stays one or ends, and touches neither the log nor a status.
LEMMA MoveStepPc ==
  ASSUME TypeOK, NEW w \in Workers, MoveStep(w)
  PROVE  /\ req'[w].pc \in MovePcs \cup {"moveFailed", "done"}
         /\ answering' = answering /\ UNCHANGED <<rev, compacted>>
<1>1. CASE \E t \in Members : MoveBegin(w, t)
  BY <1>1 DEF MoveBegin, Ends, Become, TypeOK, MovePcs, cluster
<1>2. CASE MoveNotFound(w) \/ MoveCall(w)
  BY <1>2 DEF MoveNotFound, MoveCall, Ends, Become, TypeOK, cluster, history
<1>3. CASE MoveList(w) \/ MoveFind(w) \/ MoveMembers(w)
  <2>1. req[w] \in Moving
    BY <1>3, RequestShape DEF MoveList, MoveFind, MoveMembers, MovePcs, TypeOK
  <2>2. UNCHANGED <<cluster, history>>
    BY <1>3 DEF MoveList, MoveFind, MoveMembers
  <2>3. CASE MoveList(w)
    BY <2>1, <2>2, <2>3 DEF MoveList, Become, TypeOK, Moving, MovePcs, cluster, history
  <2>4. CASE MoveFind(w)
    <3>1. \/ req'[w] = [req[w] EXCEPT !.pc = "moveMembers", !.leader = leader]
          \/ req'[w] = [req[w] EXCEPT !.eps = @ \ {First(@)}]
          \/ req'[w] = [pc |-> "moveFailed"]
      BY <2>4, BecomeIs DEF MoveFind, Ends
    <3>2. req[w].pc = "moveFind"
      BY <2>4 DEF MoveFind
    <3>3. req'[w].pc \in {"moveMembers", "moveFind", "moveFailed"}
      <4>1. CASE req'[w] = [req[w] EXCEPT !.pc = "moveMembers", !.leader = leader]
        BY <2>1, <4>1 DEF Moving
      <4>2. CASE req'[w] = [req[w] EXCEPT !.eps = @ \ {First(@)}]
        BY <2>1, <3>2, <4>2 DEF Moving
      <4>3. CASE req'[w] = [pc |-> "moveFailed"]
        BY <4>3
      <4>. QED  BY <3>1, <4>1, <4>2, <4>3
    <3>. QED  BY <3>3, <2>2 DEF MovePcs, cluster, history
  <2>5. CASE MoveMembers(w)
    <3>1. \/ req'[w] = [req[w] EXCEPT !.pc = "moveCall"]
          \/ req'[w] = [pc |-> "moveFailed"]
      BY <2>5, BecomeIs DEF MoveMembers, Ends
    <3>2. req'[w].pc \in {"moveCall", "moveFailed"}
      BY <2>1, <3>1 DEF Moving
    <3>. QED  BY <3>2, <2>2 DEF MovePcs, cluster, history
  <2>. QED  BY <1>3, <2>3, <2>4, <2>5
<1>. QED  BY <1>1, <1>2, <1>3 DEF MoveStep

\* An endpoint that stays up through StatusFromHealthy is not tried in vain.
LEMMA NextStatusInv == TypeOK /\ StatusInv /\ [Next]_vars => StatusInv'
<1>. SUFFICES ASSUME TypeOK, StatusInv, [Next]_vars, NEW v \in Workers
              PROVE  /\ answering'[v] \subseteq up'
                     /\ req'[v].pc = "status" => answering'[v] \cap req'[v].tried = {}
                     /\ req'[v].pc = "statusFailed" => answering'[v] = {}
  BY DEF StatusInv
<1>. USE DEF StatusInv
<1>0. req[v] \in Request
  BY DEF TypeOK
<1>1. CASE ServerStep
  BY <1>1 DEF ServerStep, CheckBegin, Probe, CheckEnd, Fatal, history
<1>2. CASE Surroundings
  BY <1>2 DEF Surroundings, Restart, Toggle, Election, Write, CompactElsewhere,
       healthVars, history
<1>3. ASSUME NEW w \in Workers, RequestStep(w), v # w
      PROVE  req'[v] = req[v] /\ answering'[v] = answering[v] /\ up' = up
  BY <1>3, OthersAlone, RequestStepUp
<1>4. CASE RequestStep(v)
  <2>0. up' = up
    BY <1>4, RequestStepUp
  <2>1. CASE MoveStep(v)
    BY <2>0, <2>1, MoveStepPc DEF MovePcs
  <2>2. CASE (\E n \in Retains : CompactBegin(v, n)) \/ CompactCall(v) \/ Answer(v)
    BY <2>0, <2>2 DEF CompactBegin, CompactCall, Answer, Ends, Become, TypeOK, history
  <2>3. CASE StatusList(v)
    BY <2>0, <2>3 DEF StatusList, Become, TypeOK
  <2>4. CASE \E seen \in Revs : StatusOk(v, seen)
    BY <2>0, <2>4 DEF StatusOk, Become, TypeOK
  <2>5. CASE StatusError(v)
    <3>1. req[v] \in [pc : {"status"}, retain : Retains, eps : Lists, tried : Lists]
      BY <1>0, <2>5, RequestShape DEF StatusError
    <3>2. /\ req'[v].pc = "status" /\ answering'[v] = answering[v]
          /\ req'[v].tried = req[v].tried \cup {First(Untried(req[v]))}
      BY <2>5, <3>1 DEF StatusError, Become, TypeOK, history
    <3>. QED  BY <2>0, <2>5, <3>2 DEF StatusError
  <2>6. CASE StatusFails(v)
    <3>1. Endpoints \subseteq req[v].tried
      BY <2>6 DEF StatusFails, Untried
    <3>2. answering[v] = {} /\ answering' = answering
      BY <2>6, <3>1 DEF StatusFails, TypeOK, history
    <3>. QED  BY <2>0, <2>6, <3>2 DEF StatusFails, Ends, Become, TypeOK
  <2>. QED  BY <1>4, <2>1, <2>2, <2>3, <2>4, <2>5, <2>6 DEF RequestStep, MoveStep
<1>5. CASE UNCHANGED vars
  BY <1>5 DEF vars, healthVars, history
<1>. QED  BY <1>1, <1>2, <1>3, <1>4, <1>5 DEF Next

\* The revision a compaction asks for is retain_count below the log's, which only grows.
LEMMA NextCompactInv == TypeOK /\ CompactInv /\ [Next]_vars => CompactInv'
<1>. SUFFICES ASSUME TypeOK, CompactInv, [Next]_vars, NEW v \in Workers,
                     req'[v].pc = "compactCall"
              PROVE  req'[v].target + req'[v].retain <= rev'
  BY DEF CompactInv
<1>0. req[v] \in Request /\ rev \in Nat /\ rev' \in Nat /\ rev <= rev'
  <2>1. rev \in Nat
    BY OpsAssumption DEF TypeOK, Revs
  <2>2. rev' = rev \/ Write
    BY DEF Next, ServerStep, Surroundings, Election, CompactElsewhere, RequestStep, MoveBegin,
         MoveList, MoveFind, MoveNotFound, MoveMembers, MoveCall, CompactBegin, StatusList,
         StatusOk, StatusError, StatusFails, CompactCall, Answer, vars, cluster
  <2>. QED  BY <2>1, <2>2 DEF TypeOK, Write
<1>1. CASE req'[v] = req[v]
  <2>1. req[v] \in Compacting
    BY <1>0, <1>1, RequestShape
  <2>2. req[v].target \in Int /\ req[v].retain \in Int
    BY <2>1, Numbers DEF Compacting
  <2>. QED  BY <1>0, <1>1, <2>2 DEF CompactInv
<1>2. CASE \E seen \in Revs : StatusOk(v, seen)
  <2>1. PICK seen \in Revs : StatusOk(v, seen)
    BY <1>2
  <2>2. req[v].retain \in Int /\ seen \in Int
    <3>1. req[v].retain \in Retains
      BY <1>0, <2>1, RequestShape DEF StatusOk
    <3>. QED  BY <3>1, Numbers
  <2>3. seen <= rev /\ rev' = rev
    BY <2>1 DEF StatusOk, cluster
  <2>4. req'[v] = IF TooLarge(Target(seen, req[v].retain)) THEN Idle
                  ELSE [pc |-> "compactCall", retain |-> req[v].retain,
                        target |-> Target(seen, req[v].retain)]
    BY <2>1 DEF StatusOk, Become, TypeOK
  <2>5. req'[v].target = Target(seen, req[v].retain) /\ req'[v].retain = req[v].retain
    BY <2>4
  <2>. QED  BY <2>2, <2>3, <2>5 DEF Target
<1>3. req'[v] = req[v] \/ \E seen \in Revs : StatusOk(v, seen)
  <2>1. ASSUME NEW w \in Workers, RequestStep(w), v # w PROVE req'[v] = req[v]
    BY <2>1, OthersAlone
  <2>2. CASE ServerStep \/ Surroundings
    BY <2>2 DEF ServerStep, Surroundings, Election, Write, CompactElsewhere, history
  <2>3. CASE RequestStep(v)
    <3>1. ~MoveStep(v)
      BY MoveStepPc DEF MovePcs
    <3>2. ~StatusError(v)
      <4>1. SUFFICES ASSUME StatusError(v) PROVE FALSE
        OBVIOUS
      <4>2. req[v] \in [pc : {"status"}, retain : Retains, eps : Lists, tried : Lists]
        BY <1>0, <4>1, RequestShape DEF StatusError
      <4>. QED  BY <4>1, <4>2 DEF StatusError, Become, TypeOK
    <3>3. ~((\E n \in Retains : CompactBegin(v, n)) \/ StatusList(v) \/ StatusFails(v)
            \/ CompactCall(v) \/ Answer(v))
      BY DEF CompactBegin, StatusList, StatusFails, CompactCall, Answer, Ends, Become, TypeOK
    <3>. QED  BY <2>3, <3>1, <3>2, <3>3 DEF RequestStep, MoveStep
  <2>. QED  BY <2>1, <2>2, <2>3 DEF Next, vars
<1>. QED  BY <1>1, <1>2, <1>3

\* A step of a calm worker's own MoveLeader.
LEMMA OwnCalm ==
  ASSUME TypeOK, NEW w \in Workers, MoveStep(w), w \in calm => CalmFor(w), w \in calm'
  PROVE  CalmFor(w)'
<1>. USE DEF CalmFor, MovePcs
<1>0. up' = up /\ healthy' = healthy
  BY RequestStepUp DEF RequestStep, MoveStep, healthVars
<1>0a. \A l : Outdated(l)' <=> Outdated(l)
  BY <1>0 DEF Outdated
<1>1. CASE \E t \in Members : MoveBegin(w, t)
  <2>1. PICK t \in Members : MoveBegin(w, t)
    BY <1>1
  <2>2. w \notin calm
    BY <2>1 DEF MoveBegin, Asks
  <2>3. ~Outdated(healthy) /\ {leader, t} \subseteq up /\ leader' = leader
    BY <2>1, <2>2 DEF MoveBegin, cluster
  <2>4. req'[w] = [pc |-> "moveList", target |-> t, cli |-> healthy, eps |-> {},
                   leader |-> NoLeader]
    BY <2>1, <2>3, BecomeIs DEF MoveBegin, Outdated
  <2>. QED  BY <1>0, <2>3, <2>4 DEF Outdated
<1>2. CASE MoveList(w) \/ MoveFind(w) \/ MoveNotFound(w) \/ MoveMembers(w)
  <2>0. leader' = leader /\ calm' = calm
    BY <1>2 DEF MoveList, MoveFind, MoveNotFound, MoveMembers, cluster, history
  <2>1. req[w] \in Moving /\ CalmFor(w)
    BY <1>2, <2>0, RequestShape
       DEF MoveList, MoveFind, MoveNotFound, MoveMembers, TypeOK
  <2>2. leader \in Members
    BY <2>1 DEF TypeOK, HealthTypeOK
  <2>3. leader # NoLeader
    BY <2>2, OpsAssumption
  <2>4. CASE MoveList(w)
    <3>1. req'[w] = [req[w] EXCEPT !.pc = "moveFind", !.eps = healthy]
      BY <2>4, BecomeIs DEF MoveList
    <3>2. /\ req'[w].pc = "moveFind" /\ req'[w].target = req[w].target
          /\ req'[w].cli = req[w].cli /\ req'[w].eps = healthy
      BY <2>1, <3>1 DEF Moving
    <3>3. req[w].pc = "moveList"
      BY <2>4 DEF MoveList
    <3>. QED  BY <1>0, <2>0, <2>1, <3>2, <3>3 DEF Outdated
  <2>5. CASE MoveFind(w)
    <3>1. req[w].pc = "moveFind" /\ req[w].eps \in SUBSET Endpoints /\ req[w].eps # {}
      BY <2>1, <2>5 DEF MoveFind, Moving, Lists
    <3>2. First(req[w].eps) \in up
      BY <2>1, <3>1, FirstIn DEF Outdated
    <3>3. req'[w] = [req[w] EXCEPT !.pc = "moveMembers", !.leader = leader]
      BY <2>3, <2>5, <3>2, BecomeIs DEF MoveFind
    <3>4. /\ req'[w].pc = "moveMembers" /\ req'[w].target = req[w].target
          /\ req'[w].cli = req[w].cli /\ req'[w].leader = leader
      BY <2>1, <3>3 DEF Moving
    <3>. QED  BY <1>0, <2>0, <2>1, <3>1, <3>4 DEF Outdated
  <2>6. CASE MoveNotFound(w)
    BY <2>1, <2>6 DEF MoveNotFound, Outdated
  <2>7. CASE MoveMembers(w)
    <3>1. req[w].pc = "moveMembers"
      BY <2>7 DEF MoveMembers
    <3>2. req'[w] = [req[w] EXCEPT !.pc = "moveCall"]
      BY <2>1, <2>3, <2>7, <3>1, BecomeIs DEF MoveMembers, Outdated
    <3>3. /\ req'[w].pc = "moveCall" /\ req'[w].target = req[w].target
          /\ req'[w].cli = req[w].cli /\ req'[w].leader = req[w].leader
      BY <2>1, <3>2 DEF Moving
    <3>. QED  BY <1>0, <2>0, <2>1, <3>1, <3>3 DEF Outdated
  <2>. QED  BY <1>2, <2>4, <2>5, <2>6, <2>7
<1>3. CASE MoveCall(w)
  <2>1. calm' = calm \/ calm' = {}
    BY <1>3 DEF MoveCall
  <2>2. CalmFor(w) /\ calm' = calm
    BY <2>1
  <2>3. req[w].pc = "moveCall"
    BY <1>3 DEF MoveCall
  <2>4. Called(w) = leader /\ {leader, req[w].target} \subseteq up
    BY <2>2, <2>3 DEF Called
  <2>5. leader' = leader /\ req'[w] = [pc |-> "done"]
    <3>1. w \in calm
      BY <2>2
    <3>. QED  BY <1>3, <2>4, <3>1, BecomeIs DEF MoveCall, Ends
  <2>. QED  BY <1>0, <2>2, <2>5 DEF Outdated
<1>. QED  BY <1>1, <1>2, <1>3 DEF MoveStep

\* What an undisturbed MoveLeader relies on stays so, whoever steps.
LEMMA NextCalmInv == TypeOK /\ CalmInv /\ [Next]_vars => CalmInv'
<1>. SUFFICES ASSUME TypeOK, CalmInv, [Next]_vars, NEW v \in Workers, v \in calm'
              PROVE  CalmFor(v)'
  BY NextTypeOK DEF CalmInv, TypeOK
<1>0. v \in calm => CalmFor(v)
  BY DEF CalmInv
<1>1. CASE ServerStep
  <2>1. CASE CheckEnd /\ calm' # {}
    <3>1. ~Outdated(healthy') /\ v \in calm /\ UNCHANGED <<cluster, req, up>>
      BY <1>1, <2>1 DEF ServerStep, CheckBegin, Probe, Fatal, CheckEnd, history, Outdated, NoRound
    <3>. QED  BY <1>0, <3>1 DEF CalmFor, Outdated, cluster
  <2>2. CASE \/ CheckBegin \/ \E e \in Endpoints : Probe(e)
    <3>1. UNCHANGED <<healthy, up, leader>> /\ v \in calm /\ req' = req
      BY <1>1, <2>2 DEF ServerStep, CheckBegin, Probe, CheckEnd, Fatal, cluster, history, AllProbed
    <3>. QED  BY <1>0, <3>1 DEF CalmFor, Outdated
  <2>. QED  BY <1>1, <2>1, <2>2 DEF ServerStep
<1>2. CASE Surroundings
  <2>1. v \in calm /\ UNCHANGED <<healthy, up, leader, req>>
    BY <1>2 DEF Surroundings, Restart, Toggle, Election, Write, CompactElsewhere, healthVars,
         cluster, history
  <2>. QED  BY <1>0, <2>1 DEF CalmFor, Outdated
<1>3. ASSUME NEW w \in Workers, RequestStep(w), v # w PROVE CalmFor(v)'
  <2>1. req'[v] = req[v] /\ healthy' = healthy /\ up' = up
    BY <1>3, OthersAlone, RequestStepUp DEF healthVars
  <2>2. v \in calm /\ leader' = leader
    BY <1>3 DEF RequestStep, MoveBegin, MoveList, MoveFind, MoveNotFound, MoveMembers, MoveCall,
         CompactBegin, StatusList, StatusOk, StatusError, StatusFails, CompactCall, Answer,
         cluster, history
  <2>. QED  BY <1>0, <2>1, <2>2 DEF CalmFor, Outdated
<1>4. CASE RequestStep(v)
  <2>1. CASE MoveStep(v)
    BY <1>0, <2>1, OwnCalm
  <2>2. CASE Answer(v)
    BY <2>2 DEF Answer
  <2>3. CASE \/ (\E n \in Retains : CompactBegin(v, n)) \/ StatusList(v) \/ StatusError(v)
             \/ StatusFails(v) \/ CompactCall(v) \/ \E seen \in Revs : StatusOk(v, seen)
    <3>1. v \notin calm
      <4>1. req[v].pc \in {"idle", "statusList", "status", "compactCall"}
        <5>1. CASE \E n \in Retains : CompactBegin(v, n)
          BY <5>1 DEF CompactBegin, Asks
        <5>2. CASE StatusList(v) \/ CompactCall(v)
          BY <5>2 DEF StatusList, CompactCall
        <5>3. CASE StatusError(v) \/ StatusFails(v) \/ \E seen \in Revs : StatusOk(v, seen)
          BY <5>3 DEF StatusError, StatusFails, StatusOk
        <5>. QED  BY <2>3, <5>1, <5>2, <5>3
      <4>. QED  BY <1>0, <4>1 DEF CalmFor, MovePcs
    <3>2. calm' = calm
      BY <2>3 DEF CompactBegin, StatusList, StatusError, StatusFails, CompactCall, StatusOk,
           history
    <3>. QED  BY <3>1, <3>2
  <2>. QED  BY <1>4, <2>1, <2>2, <2>3 DEF RequestStep, MoveStep
<1>5. CASE UNCHANGED vars
  BY <1>0, <1>5 DEF vars, healthVars, cluster, history, CalmFor, Outdated
<1>. QED  BY <1>1, <1>2, <1>3, <1>4, <1>5 DEF Next

-----------------------------------------------------------------------------
(* The theorems. *)

\* The invariant holds at the beginning.
LEMMA InitIInv == Init => IInv
<1>. SUFFICES ASSUME Init PROVE RoundInv /\ StatusInv /\ CompactInv /\ CalmInv
  BY InitTypeOK DEF IInv
<1>. QED  BY DEF Init, HealthInit, AllProbed, RoundInv, StatusInv, CompactInv, CalmInv

(* All of the above together is inductive: the four properties below are its *)
(* consequences.                                                            *)
THEOREM Inductive == Spec => []IInv
<1>1. IInv /\ [Next]_vars => IInv'
  BY NextTypeOK, NextRoundInv, NextStatusInv, NextCompactInv, NextCalmInv DEF IInv, TypeOK
<1>. QED  BY InitIInv, <1>1, PTL DEF Spec

(* The process ends itself only when every endpoint was down at some moment  *)
(* of one round, for any number of endpoints.                               *)
THEOREM GivesUp == Spec => []GivesUpInOutage
<1>1. IInv => GivesUpInOutage
  BY DEF IInv, RoundInv, GivesUpInOutage
<1>. QED  BY Inductive, <1>1, PTL

(* StatusFromHealthy fails only if every endpoint was down at some moment of *)
(* the call, whatever list of healthy endpoints it started from.            *)
THEOREM StatusFailure == Spec => []StatusFailsInOutage
<1>1. IInv => StatusFailsInOutage
  BY DEF IInv, StatusInv, StatusFailsInOutage
<1>. QED  BY Inductive, <1>1, PTL

(* A MoveLeader that fails met a fault, an election or an outdated list.     *)
THEOREM MoveFailsDisturbed == Spec => []MoveSucceeds
<1>1. IInv => MoveSucceeds
  BY DEF IInv, CalmInv, CalmFor, MoveSucceeds, MovePcs
<1>. QED  BY Inductive, <1>1, PTL

(* No compaction ever keeps less than the request asked for, whichever       *)
(* member reported the revision and whatever was written meanwhile.         *)
THEOREM CompactionRetains == Spec => RetainsEnough
<1>1. IInv /\ [Next]_vars =>
        [\A w \in Workers :
           CompactCall(w) /\ compacted' # compacted => compacted' + req[w].retain <= rev]_vars
  <2>. SUFFICES ASSUME IInv, NEW w \in Workers, CompactCall(w), compacted' # compacted
                PROVE  compacted' + req[w].retain <= rev
    OBVIOUS
  <2>1. compacted' = req[w].target /\ req[w].pc = "compactCall"
    BY DEF CompactCall
  <2>. QED  BY <2>1 DEF IInv, CompactInv
<1>. QED  BY Inductive, <1>1, PTL DEF Spec, RetainsEnough

=============================================================================
