----------------------------- MODULE TabsProofs -----------------------------
(***************************************************************************)
(* Proofs about Tabs: types, ownership, the limit per user, the positions   *)
(* of a user who sends one request at a time, and the abstract registry.    *)
(***************************************************************************)
EXTENDS Tabs, IntegerSets, TLAPS

(* The shapes a request can have, told apart by pc. *)
LEMMA RequestShape ==
  ASSUME NEW r \in Request
  PROVE  /\ r.pc = "idle" <=> r = Idle
         /\ r.pc \in {"createVerify", "createOrder", "createInsert"} => r \in Creating
         /\ r.pc \in {"patchVerify", "patchStatus", "patchUpdate"} => r \in Patching
         /\ r.pc = "delete" => r \in Deleting
         /\ r.pc \in {"kvCall", "kvFailed", "kvReset", "kvMarkOk"} => r \in Calling
  BY DEF Request, Idle, Creating, Patching, Deleting, Calling

\* What the pc of the probe says about its other fields.
LEMMA SchedShape ==
  ASSUME NEW s \in Scheduler
  PROVE  /\ s.pc = "loop" => s \in Looping
         /\ s.pc \in {"probe", "succeeded", "failed"} => s \in Probing
         /\ s.pc = "write" => s \in Writing
  BY DEF Scheduler, Waiting, Looping, Probing, Writing

(* A status write keeps the type of the table. *)
LEMMA UpdateStatusType ==
  ASSUME rows \in [TabIds -> Row \cup {NoRow}], NEW t \in TabIds, NEW s \in Status
  PROVE  UpdateStatus(t, s) \in [TabIds -> Row \cup {NoRow}]
<1>1. CASE rows[t] = NoRow
  BY <1>1 DEF UpdateStatus
<1>2. CASE rows[t] # NoRow
  <2>1. [rows[t] EXCEPT !.status = s] \in Row
    BY <1>2 DEF Row
  <2>. QED  BY <1>2, <2>1 DEF UpdateStatus
<1>. QED  BY <1>1, <1>2

\* The tabs of a user are a finite set of rows with that owner.
LEMMA OwnedFacts ==
  ASSUME NEW u \in Users, rows \in [TabIds -> Row \cup {NoRow}]
  PROVE  /\ Owned(u) \subseteq TabIds
         /\ IsFiniteSet(Owned(u))
         /\ \A t \in Owned(u) : rows[t] \in Row /\ rows[t].owner = u
<1>1. Owned(u) \subseteq TabIds
  BY DEF Owned, Live
<1>2. IsFiniteSet(Owned(u))
  BY <1>1, TabsAssumption, FS_Subset
<1>. QED  BY <1>1, <1>2 DEF Owned, Live

(* COALESCE(MAX(sort_order), -1) + 1 is a position, and lies beyond those of  *)
(* all rows of the user.                                                     *)
LEMMA NextOrderFacts ==
  ASSUME NEW u \in Users, rows \in [TabIds -> Row \cup {NoRow}]
  PROVE  /\ NextOrder(u) \in Nat
         /\ \A t \in Owned(u) : rows[t].order < NextOrder(u)
<1>. DEFINE ord == [t \in Owned(u) |-> rows[t].order]
            C == {0} \cup {rows[t].order + 1 : t \in Owned(u)}
            OK(n) == \A t \in Owned(u) : rows[t].order < n
<1>1. \A t \in Owned(u) : rows[t].order \in Nat
  BY OwnedFacts DEF Row
<1>2. \E n \in C : OK(n)
  <2>1. CASE Owned(u) = {}
    BY <2>1
  <2>2. CASE Owned(u) # {}
    <3>1. ord \in Surjection(Owned(u), Range(ord))
      BY DEF Surjection, Range
    <3>2. IsFiniteSet(Range(ord))
      BY <3>1, OwnedFacts, FS_Surjection
    <3>3. Range(ord) \in SUBSET Int /\ Range(ord) # {}
      BY <1>1, <2>2 DEF Range
    <3>4. PICK m \in Range(ord) : \A x \in Range(ord) : x <= m
      BY <3>2, <3>3, FiniteMax
    <3>5. PICK t0 \in Owned(u) : m = rows[t0].order
      BY <3>4 DEF Range
    <3>6. \A t \in Owned(u) : rows[t].order <= rows[t0].order
      BY <3>4, <3>5 DEF Range
    <3>7. OK(rows[t0].order + 1)
      BY <1>1, <3>6
    <3>. QED  BY <3>7
  <2>. QED  BY <2>1, <2>2
<1>3. NextOrder(u) \in C /\ OK(NextOrder(u))
  <2>. DEFINE P(n) == n \in C /\ OK(n)
  <2>1. NextOrder(u) = CHOOSE n \in C : OK(n)
    BY DEF NextOrder
  <2>. HIDE DEF C, OK
  <2>. QED  BY <1>2, <2>1
<1>. QED  BY <1>1, <1>3

(* The last occurrence of an id in an order is one of its positions. *)
LEMMA LastIndexFacts ==
  ASSUME NEW n \in Nat, NEW ids \in [1..n -> TabIds], NEW i \in 1..n
  PROVE  LastIndexOf(ids, ids[i]) \in 1..n /\ ids[LastIndexOf(ids, ids[i])] = ids[i]
<1>. DEFINE S == {j \in 1..n : ids[j] = ids[i]}
<1>1. IsFiniteSet(S)
  BY FS_Interval, FS_Subset
<1>2. PICK m \in S : \A x \in S : x <= m
  <2>1. S \in SUBSET Int /\ S # {}
    OBVIOUS
  <2>. QED  BY <1>1, <2>1, FiniteMax
<1>3. \E k \in DOMAIN ids : ids[k] = ids[i] /\ \A j \in DOMAIN ids : ids[j] = ids[i] => j <= k
  BY <1>2
<1>. QED  BY <1>3 DEF LastIndexOf

\* The values that stand for nothing are no rows and no endpoints.
LEMMA NoRowFacts == NoRow \notin Row /\ KeepEndpoint \notin Endpoints
  BY TabsAssumption DEF Row, Status

-----------------------------------------------------------------------------

\* The initial state is well typed.
LEMMA InitTypeOK == Init => TypeOK
<1>1. Idle \in Request /\ Waiting \in Scheduler /\ 0 \in 0..Threshold
  BY TabsAssumption DEF Request, Scheduler
<1>. QED  BY <1>1 DEF Init, TypeOK

(* A request takes its next shape, and the other workers keep theirs. *)
LEMMA BecomeType ==
  ASSUME req \in [Workers -> Request], NEW w \in Workers, NEW r \in Request, Become(w, r)
  PROVE  req' \in [Workers -> Request]
  BY DEF Become

\* Every step keeps the types.
LEMMA NextTypeOK == TypeOK /\ [Next]_vars => TypeOK'
<1>. SUFFICES ASSUME TypeOK, [Next]_vars PROVE TypeOK'
  OBVIOUS
<1>. USE DEF TypeOK
<1>1. ASSUME NEW w \in Workers, NEW u \in Users, NEW e \in Endpoints, CreateBegin(w, u, e)
      PROVE  TypeOK'
  <2>1. [pc |-> "createVerify", user |-> u, ep |-> e, order |-> 0] \in Request
    BY DEF Request, Creating
  <2>. QED  BY <1>1, <2>1, BecomeType DEF CreateBegin
<1>2. ASSUME NEW w \in Workers, CreateVerify(w) PROVE TypeOK'
  <2>1. req[w] \in Creating
    BY <1>2, RequestShape DEF CreateVerify
  <2>2. [req[w] EXCEPT !.pc = "createOrder"] \in Request /\ Idle \in Request
    BY <2>1 DEF Request, Creating
  <2>. QED  BY <1>2, <2>2 DEF CreateVerify, Become, Goto
<1>3. ASSUME NEW w \in Workers, CreateOrder(w) PROVE TypeOK'
  <2>1. req[w] \in Creating
    BY <1>3, RequestShape DEF CreateOrder
  <2>2. NextOrder(req[w].user) \in Nat
    BY <2>1, NextOrderFacts DEF Creating
  <2>3. [req[w] EXCEPT !.pc = "createInsert", !.order = NextOrder(req[w].user)] \in Request
    BY <2>1, <2>2 DEF Request, Creating
  <2>. QED  BY <1>3, <2>3, BecomeType DEF CreateOrder
<1>4. ASSUME NEW w \in Workers, NEW t \in TabIds, CreateInsert(w, t) PROVE TypeOK'
  <2>1. req[w] \in Creating
    BY <1>4, RequestShape DEF CreateInsert
  <2>2. [owner |-> req[w].user, ep |-> req[w].ep, order |-> req[w].order, status |-> "ok"] \in Row
    BY <2>1 DEF Creating, Row, Status
  <2>3. Idle \in Request
    BY DEF Request
  <2>. QED  BY <1>4, <2>2, <2>3, BecomeType DEF CreateInsert
<1>5. ASSUME NEW w \in Workers, NEW u \in Users, NEW t \in TabIds,
             NEW e \in Endpoints \cup {KeepEndpoint}, PatchBegin(w, u, t, e)
      PROVE  TypeOK'
  <2>1. /\ [pc |-> "patchUpdate", user |-> u, tab |-> t, ep |-> KeepEndpoint] \in Request
        /\ [pc |-> "patchVerify", user |-> u, tab |-> t, ep |-> e] \in Request
    BY DEF Request, Patching
  <2>. QED  BY <1>5, <2>1 DEF PatchBegin, Become
<1>6. ASSUME NEW w \in Workers, PatchVerify(w) PROVE TypeOK'
  <2>1. req[w] \in Patching
    BY <1>6, RequestShape DEF PatchVerify
  <2>2. [req[w] EXCEPT !.pc = "patchStatus"] \in Request /\ Idle \in Request
    BY <2>1 DEF Request, Patching
  <2>. QED  BY <1>6, <2>2 DEF PatchVerify, Become, Goto
<1>7. ASSUME NEW w \in Workers, PatchStatus(w) PROVE TypeOK'
  <2>1. req[w] \in Patching
    BY <1>7, RequestShape DEF PatchStatus
  <2>2. [req[w] EXCEPT !.pc = "patchUpdate"] \in Request
    BY <2>1 DEF Request, Patching
  <2>3. UpdateStatus(req[w].tab, "ok") \in [TabIds -> Row \cup {NoRow}]
    BY <2>1, UpdateStatusType DEF Patching, Status
  <2>. QED  BY <1>7, <2>2, <2>3 DEF PatchStatus, Goto
<1>8. ASSUME NEW w \in Workers, PatchUpdate(w) PROVE TypeOK'
  <2>1. req[w] \in Patching
    BY <1>8, RequestShape DEF PatchUpdate
  <2>2. ASSUME Found(req[w].user, req[w].tab), req[w].ep # KeepEndpoint
        PROVE  [rows[req[w].tab] EXCEPT !.ep = req[w].ep] \in Row
    BY <2>1, <2>2 DEF Found, Owned, Live, Patching, Row
  <2>3. rows' \in [TabIds -> Row \cup {NoRow}]
    BY <1>8, <2>1, <2>2 DEF PatchUpdate, Patching
  <2>4. Idle \in Request
    BY DEF Request
  <2>. QED  BY <1>8, <2>3, <2>4, BecomeType DEF PatchUpdate
<1>9. ASSUME NEW w \in Workers, NEW u \in Users, NEW t \in TabIds, DeleteBegin(w, u, t)
      PROVE  TypeOK'
  <2>1. [pc |-> "delete", user |-> u, tab |-> t] \in Request
    BY DEF Request, Deleting
  <2>. QED  BY <1>9, <2>1, BecomeType DEF DeleteBegin
<1>10. ASSUME NEW w \in Workers, Delete(w) PROVE TypeOK'
  <2>1. Idle \in Request
    BY DEF Request
  <2>2. rows' \in [TabIds -> Row \cup {NoRow}]
    BY <1>10 DEF Delete
  <2>. QED  BY <1>10, <2>1, <2>2, BecomeType DEF Delete
<1>11. ASSUME NEW u \in Users, NEW ids \in Orders(u), Reorder(u, ids) PROVE TypeOK'
  <2>1. PICK n \in Nat : ids \in [1..n -> TabIds]
    BY TabsAssumption, FS_CardinalityType DEF Orders
  <2>2. ASSUME NEW i \in 1..n
        PROVE  [rows[ids[i]] EXCEPT !.order = LastIndexOf(ids, ids[i]) - 1] \in Row
    <3>. DEFINE last == LastIndexOf(ids, ids[i])
    <3>1. last - 1 \in Nat
      <4>1. last \in 1..n
        BY <2>1, LastIndexFacts
      <4>. HIDE DEF last
      <4>. QED  BY <4>1
    <3>2. rows[ids[i]] \in Row
      BY <1>11, <2>1 DEF Reorder, Found, Owned, Live
    <3>. QED  BY <3>1, <3>2 DEF Row
  <2>3. rows' \in [TabIds -> Row \cup {NoRow}]
    BY <1>11, <2>1, <2>2 DEF Reorder
  <2>. QED  BY <1>11, <2>3 DEF Reorder
<1>12. ASSUME NEW w \in Workers, NEW u \in Users, NEW t \in TabIds, CallBegin(w, u, t)
       PROVE  TypeOK'
  <2>1. rows[t] \in Row
    BY <1>12 DEF CallBegin, Found, Owned, Live
  <2>2. [pc |-> "kvCall", user |-> u, tab |-> t, ep |-> rows[t].ep] \in Request
    BY <2>1 DEF Request, Calling, Row
  <2>. QED  BY <1>12, <2>2, BecomeType DEF CallBegin
<1>13. ASSUME NEW w \in Workers, CallEnd(w) PROVE TypeOK'
  <2>1. req[w] \in Calling
    BY <1>13, RequestShape DEF CallEnd
  <2>2. /\ [req[w] EXCEPT !.pc = "kvFailed"] \in Request
        /\ [req[w] EXCEPT !.pc = "kvReset"] \in Request
        /\ Idle \in Request
    BY <2>1 DEF Request, Calling
  <2>. QED  BY <1>13, <2>2 DEF CallEnd, Become, Goto
<1>14. ASSUME NEW w \in Workers, CallFailed(w) PROVE TypeOK'
  <2>1. req[w] \in Calling
    BY <1>14, RequestShape DEF CallFailed
  <2>2. UpdateStatus(req[w].tab, "error") \in [TabIds -> Row \cup {NoRow}]
    BY <2>1, UpdateStatusType DEF Calling, Status
  <2>3. Idle \in Request
    BY DEF Request
  <2>. QED  BY <1>14, <2>2, <2>3, BecomeType DEF CallFailed
<1>15. ASSUME NEW w \in Workers, CallReset(w) PROVE TypeOK'
  <2>1. req[w] \in Calling
    BY <1>15, RequestShape DEF CallReset
  <2>2. [req[w] EXCEPT !.pc = "kvMarkOk"] \in Request
    BY <2>1 DEF Request, Calling
  <2>3. failureCount' \in [TabIds -> 0..Threshold]
    BY <1>15, <2>1, TabsAssumption DEF CallReset, Calling
  <2>. QED  BY <1>15, <2>2, <2>3 DEF CallReset, Goto
<1>16. ASSUME NEW w \in Workers, CallMarkOk(w) PROVE TypeOK'
  <2>1. req[w] \in Calling
    BY <1>16, RequestShape DEF CallMarkOk
  <2>2. UpdateStatus(req[w].tab, "ok") \in [TabIds -> Row \cup {NoRow}]
    BY <2>1, UpdateStatusType DEF Calling, Status
  <2>3. Idle \in Request
    BY DEF Request
  <2>. QED  BY <1>16, <2>2, <2>3, BecomeType DEF CallMarkOk
<1>17. CASE Tick
  BY <1>17 DEF Tick, Scheduler, Looping, Live
<1>18. CASE TickEnd
  BY <1>18 DEF TickEnd, Scheduler
<1>19. ASSUME NEW t \in TabIds, PingRead(t) PROVE TypeOK'
  <2>1. sched \in Looping
    BY <1>19, SchedShape DEF PingRead
  <2>2. [sched EXCEPT !.todo = @ \ {t}] \in Scheduler
    BY <2>1 DEF Scheduler, Looping
  <2>3. ASSUME rows[t] # NoRow
        PROVE  [pc |-> "probe", todo |-> sched.todo \ {t}, tab |-> t,
                ep |-> rows[t].ep, status |-> rows[t].status] \in Scheduler
    BY <2>1, <2>3 DEF Scheduler, Probing, Looping, Row
  <2>. QED  BY <1>19, <2>2, <2>3 DEF PingRead
<1>20. CASE PingProbe
  <2>1. sched \in Probing
    BY <1>20, SchedShape DEF PingProbe
  <2>2. /\ [sched EXCEPT !.pc = "succeeded"] \in Scheduler
        /\ [sched EXCEPT !.pc = "failed"] \in Scheduler
    BY <2>1 DEF Scheduler, Probing
  <2>. QED  BY <1>20, <2>2 DEF PingProbe
<1>21. CASE PingReset
  <2>1. sched \in Probing
    BY <1>21, SchedShape DEF PingReset
  <2>2. sched' \in Scheduler
    BY <1>21, <2>1, TabsAssumption DEF PingReset, Probing, Scheduler, Writing, Status
  <2>3. failureCount' \in [TabIds -> 0..Threshold]
    BY <1>21, <2>1, TabsAssumption DEF PingReset, Probing
  <2>. QED  BY <1>21, <2>2, <2>3 DEF PingReset
<1>22. CASE PingBump
  <2>1. sched \in Probing
    BY <1>22, SchedShape DEF PingBump
  <2>. DEFINE count == Bumped(failureCount[sched.tab])
  <2>2. count \in 0..Threshold
    BY <2>1, TabsAssumption DEF Bumped, Probing
  <2>3. sched' \in Scheduler
    BY <1>22, <2>1, <2>2 DEF PingBump, Probing, Scheduler, Writing, Status
  <2>4. failureCount' \in [TabIds -> 0..Threshold]
    BY <1>22, <2>1, <2>2 DEF PingBump, Probing
  <2>. QED  BY <1>22, <2>3, <2>4 DEF PingBump
<1>23. CASE PingWrite
  <2>1. sched \in Writing
    BY <1>23, SchedShape DEF PingWrite
  <2>2. UpdateStatus(sched.tab, sched.status) \in [TabIds -> Row \cup {NoRow}]
    BY <2>1, UpdateStatusType DEF Writing
  <2>3. sched' \in Scheduler
    BY <1>23, <2>1 DEF PingWrite, Writing, Scheduler, Looping
  <2>. QED  BY <1>23, <2>2, <2>3 DEF PingWrite
<1>24. CASE SchedExit
  BY <1>24 DEF SchedExit, Scheduler
<1>25. CASE Cancel
  BY <1>25 DEF Cancel
<1>26. ASSUME NEW e \in Endpoints, Toggle(e) PROVE TypeOK'
  BY <1>26 DEF Toggle
<1>27. CASE UNCHANGED vars
  BY <1>27 DEF vars
<1>. QED
  BY <1>1, <1>2, <1>3, <1>4, <1>5, <1>6, <1>7, <1>8, <1>9, <1>10, <1>11, <1>12, <1>13,
     <1>14, <1>15, <1>16, <1>17, <1>18, <1>19, <1>20, <1>21, <1>22, <1>23, <1>24, <1>25,
     <1>26, <1>27
     DEF Next, RequestStep, ProbeStep

(* The table, the requests in flight and the scheduler keep their shapes. *)
THEOREM TypeCorrect == Spec => []TypeOK
  BY InitTypeOK, NextTypeOK, PTL DEF Spec

-----------------------------------------------------------------------------
(* Ownership. *)

\* The ids of the rows were drawn.
UsedInv == Live \subseteq used

\* What any step may do to a row: keep its owner, or put it under a fresh id.
RowStep(t) ==
  /\ rows[t] # NoRow /\ rows'[t] # NoRow => rows'[t].owner = rows[t].owner
  /\ rows[t] = NoRow /\ rows'[t] # NoRow => t \notin used /\ t \in used'

\* A status write is a step every row may take.
LEMMA UpdateStatusRowStep ==
  ASSUME TypeOK, NEW t \in TabIds, NEW s \in Status, rows' = UpdateStatus(t, s), NEW r \in TabIds
  PROVE  RowStep(r)
<1>1. CASE rows[t] = NoRow
  BY <1>1 DEF UpdateStatus, RowStep
<1>2. CASE rows[t] # NoRow
  <2>1. rows[t] \in Row
    BY <1>2 DEF TypeOK
  <2>2. rows' = [rows EXCEPT ![t].status = s]
    BY <1>2 DEF UpdateStatus
  <2>3. CASE r = t
    BY <2>1, <2>2, <2>3, <1>2 DEF RowStep, TypeOK, Row
  <2>4. CASE r # t
    BY <2>2, <2>4 DEF RowStep, TypeOK
  <2>. QED  BY <2>3, <2>4
<1>. QED  BY <1>1, <1>2

\* Every step is one each row may take, and ids stay used.
LEMMA NextRowStep ==
  ASSUME TypeOK, UsedInv, [Next]_vars
  PROVE  /\ \A t \in TabIds : RowStep(t)
         /\ used \subseteq used'
<1>1. CASE rows' = rows /\ used' = used
  BY <1>1 DEF RowStep
<1>2. ASSUME NEW w \in Workers, NEW t \in TabIds, CreateInsert(w, t)
      PROVE  (\A r \in TabIds : RowStep(r)) /\ used \subseteq used'
  BY <1>2 DEF CreateInsert, RowStep, TypeOK, UsedInv, Live
<1>3. ASSUME NEW w \in Workers, PatchStatus(w)
      PROVE  (\A r \in TabIds : RowStep(r)) /\ used \subseteq used'
  <2>1. req[w] \in Patching
    BY <1>3, RequestShape DEF PatchStatus, TypeOK
  <2>. QED  BY <1>3, <2>1, UpdateStatusRowStep DEF PatchStatus, Patching, Status
<1>4. ASSUME NEW w \in Workers, PatchUpdate(w)
      PROVE  (\A r \in TabIds : RowStep(r)) /\ used \subseteq used'
  <2>1. req[w] \in Patching
    BY <1>4, RequestShape DEF PatchUpdate, TypeOK
  <2>2. CASE rows' = rows
    BY <1>4, <2>2 DEF PatchUpdate, RowStep
  <2>3. CASE Found(req[w].user, req[w].tab) /\ rows' = [rows EXCEPT ![req[w].tab].ep = req[w].ep]
    <3>1. rows[req[w].tab] \in Row
      BY <2>3 DEF Found, Owned, Live, TypeOK
    <3>. QED  BY <1>4, <2>1, <2>3, <3>1 DEF PatchUpdate, RowStep, TypeOK, Patching, Row,
                                            Found, Owned, Live
  <2>. QED  BY <1>4, <2>2, <2>3 DEF PatchUpdate
<1>5. ASSUME NEW w \in Workers, Delete(w)
      PROVE  (\A r \in TabIds : RowStep(r)) /\ used \subseteq used'
  BY <1>5 DEF Delete, RowStep, TypeOK
<1>6. ASSUME NEW u \in Users, NEW ids \in Orders(u), Reorder(u, ids)
      PROVE  (\A r \in TabIds : RowStep(r)) /\ used \subseteq used'
  <2>1. ASSUME NEW t \in TabIds, rows'[t] # rows[t]
        PROVE  rows[t] \in Row /\ rows'[t] = [rows[t] EXCEPT !.order = LastIndexOf(ids, t) - 1]
    BY <1>6, <2>1 DEF Reorder, Found, Owned, Live, TypeOK
  <2>2. ASSUME NEW t \in TabIds PROVE RowStep(t)
    BY <2>1, NoRowFacts DEF RowStep, Row
  <2>. QED  BY <1>6, <2>2 DEF Reorder
<1>7. ASSUME NEW w \in Workers, CallFailed(w) \/ CallMarkOk(w)
      PROVE  (\A r \in TabIds : RowStep(r)) /\ used \subseteq used'
  <2>1. req[w] \in Calling
    BY <1>7, RequestShape DEF CallFailed, CallMarkOk, TypeOK
  <2>. QED  BY <1>7, <2>1, UpdateStatusRowStep DEF CallFailed, CallMarkOk, Calling, Status
<1>8. CASE PingWrite
  <2>1. sched \in Writing
    BY <1>8, SchedShape DEF PingWrite, TypeOK
  <2>. QED  BY <1>8, <2>1, UpdateStatusRowStep DEF PingWrite, Writing
<1>. QED
  BY <1>1, <1>2, <1>3, <1>4, <1>5, <1>6, <1>7, <1>8
     DEF Next, RequestStep, ProbeStep, vars, CreateBegin, CreateVerify, CreateOrder, PatchBegin,
         PatchVerify, DeleteBegin, CallBegin, CallEnd, CallReset, Tick, TickEnd, PingRead,
         PingProbe, PingReset, PingBump, SchedExit, Cancel, Toggle

(* A request that holds a tab after a step held it before, or looked it up    *)
(* in this step.                                                             *)
LEMMA NextHolding ==
  ASSUME TypeOK, [Next]_vars, NEW w \in Workers, req'[w].pc \in Holding
  PROVE  \/ /\ req[w].pc \in Holding
            /\ req'[w].tab = req[w].tab /\ req'[w].user = req[w].user
         \/ /\ req'[w].tab \in TabIds /\ Found(req'[w].user, req'[w].tab)
            /\ rows' = rows
<1>. DEFINE Goal == \/ /\ req[w].pc \in Holding
                       /\ req'[w].tab = req[w].tab /\ req'[w].user = req[w].user
                    \/ /\ req'[w].tab \in TabIds /\ Found(req'[w].user, req'[w].tab)
                       /\ rows' = rows
<1>. SUFFICES Goal
  OBVIOUS
<1>1. CASE req'[w] = req[w]
  BY <1>1
<1>2. ASSUME NEW x \in Workers, NEW r, Become(x, r), r.pc \notin Holding
      PROVE  Goal
  BY <1>2 DEF Become, TypeOK
<1>3. ASSUME NEW x \in Workers, req[x].pc \in Holding, NEW pc, Goto(x, pc)
      PROVE  Goal
  <2>1. req[x] \in Patching \cup Calling
    BY <1>3, RequestShape DEF Holding, TypeOK
  <2>2. CASE x = w
    BY <1>3, <2>1, <2>2 DEF Goto, TypeOK, Patching, Calling
  <2>3. CASE x # w
    BY <1>3, <2>3 DEF Goto, TypeOK
  <2>. QED  BY <2>2, <2>3
<1>4. Idle.pc \notin Holding
  BY DEF Idle, Holding
<1>5. ASSUME NEW x \in Workers, NEW u \in Users, NEW e \in Endpoints, CreateBegin(x, u, e)
      PROVE  Goal
  BY <1>5, <1>2 DEF CreateBegin, Holding
<1>6. ASSUME NEW x \in Workers, CreateVerify(x) PROVE Goal
  <2>1. CASE Goto(x, "createOrder")
    <3>1. req[x] \in Creating
      BY <1>6, RequestShape DEF CreateVerify, TypeOK
    <3>2. req' = [req EXCEPT ![x] = [req[x] EXCEPT !.pc = "createOrder"]]
      BY <2>1 DEF Goto
    <3>3. [req[x] EXCEPT !.pc = "createOrder"].pc \notin Holding
      BY <3>1 DEF Creating, Holding
    <3>. QED  BY <3>2, <3>3, <1>2 DEF Become
  <2>. QED  BY <1>6, <1>2, <1>4, <2>1 DEF CreateVerify
<1>7. ASSUME NEW x \in Workers, CreateOrder(x) PROVE Goal
  <2>1. req[x] \in Creating
    BY <1>7, RequestShape DEF CreateOrder, TypeOK
  <2>2. [req[x] EXCEPT !.pc = "createInsert", !.order = NextOrder(req[x].user)].pc \notin Holding
    BY <2>1 DEF Creating, Holding
  <2>. QED  BY <1>7, <2>2, <1>2 DEF CreateOrder
<1>8. ASSUME NEW x \in Workers, NEW u \in Users, NEW t \in TabIds,
             NEW e \in Endpoints \cup {KeepEndpoint}, PatchBegin(x, u, t, e)
      PROVE  Goal
  <2>. DEFINE r == IF e \in {KeepEndpoint, rows[t].ep}
                   THEN [pc |-> "patchUpdate", user |-> u, tab |-> t, ep |-> KeepEndpoint]
                   ELSE [pc |-> "patchVerify", user |-> u, tab |-> t, ep |-> e]
  <2>1. r.user = u /\ r.tab = t
    OBVIOUS
  <2>2. req' = [req EXCEPT ![x] = r] /\ Found(u, t) /\ rows' = rows
    BY <1>8 DEF PatchBegin, Become
  <2>. HIDE DEF r
  <2>. QED  BY <1>1, <2>1, <2>2 DEF TypeOK
<1>9. ASSUME NEW x \in Workers, PatchVerify(x) \/ PatchStatus(x) \/ PatchUpdate(x) PROVE Goal
  BY <1>9, <1>2, <1>3, <1>4 DEF PatchVerify, PatchStatus, PatchUpdate, Holding
<1>10. ASSUME NEW x \in Workers, NEW u \in Users, NEW t \in TabIds, DeleteBegin(x, u, t)
       PROVE  Goal
  BY <1>10, <1>2 DEF DeleteBegin, Holding
<1>11. ASSUME NEW x \in Workers, Delete(x) PROVE Goal
  BY <1>11, <1>2, <1>4 DEF Delete
<1>12. ASSUME NEW x \in Workers, NEW u \in Users, NEW t \in TabIds, CallBegin(x, u, t)
       PROVE  Goal
  BY <1>12, <1>1 DEF CallBegin, Become, TypeOK
<1>13. ASSUME NEW x \in Workers,
              CallEnd(x) \/ CallFailed(x) \/ CallReset(x) \/ CallMarkOk(x)
       PROVE  Goal
  BY <1>13, <1>2, <1>3, <1>4 DEF CallEnd, CallFailed, CallReset, CallMarkOk, Holding
<1>14. CASE UNCHANGED req
  BY <1>1, <1>14
<1>15. ASSUME NEW u \in Users, NEW ids \in Orders(u), Reorder(u, ids) PROVE Goal
  BY <1>14, <1>15 DEF Reorder
<1>16. ASSUME NEW x \in Workers, NEW t \in TabIds, CreateInsert(x, t) PROVE Goal
  BY <1>16, <1>2, <1>4 DEF CreateInsert
<1>17. ASSUME ~RequestStep PROVE UNCHANGED req
  BY <1>17 DEF Next, ProbeStep, vars, Tick, TickEnd, PingRead, PingProbe,
               PingReset, PingBump, PingWrite, SchedExit, Cancel, Toggle
<1>. HIDE DEF Goal
<1>18. CASE RequestStep
  BY <1>5, <1>6, <1>7, <1>8, <1>9, <1>10, <1>11, <1>12, <1>13, <1>15, <1>18,
     <1>16 DEF RequestStep
<1>. QED  BY <1>14, <1>17, <1>18

\* The id of a row is a used one.
LEMMA NextUsedInv == TypeOK /\ UsedInv /\ [Next]_vars => UsedInv'
<1>. SUFFICES ASSUME TypeOK, UsedInv, [Next]_vars, NEW t \in TabIds, rows'[t] # NoRow
              PROVE  t \in used'
  BY DEF UsedInv, Live
<1>. QED  BY NextRowStep DEF UsedInv, Live, RowStep

\* A request that holds a tab id goes on holding one of its own user's.
LEMMA NextRequestOwnsTab ==
  TypeOK /\ UsedInv /\ RequestOwnsTab /\ [Next]_vars => RequestOwnsTab'
<1>. SUFFICES ASSUME TypeOK, UsedInv, RequestOwnsTab, [Next]_vars, NEW w \in Workers,
                     req'[w].pc \in Holding
              PROVE  /\ req'[w].tab \in used'
                     /\ req'[w].tab \in Live' => rows'[req'[w].tab].owner = req'[w].user
  BY DEF RequestOwnsTab, Holding
<1>1. CASE /\ req[w].pc \in Holding
           /\ req'[w].tab = req[w].tab /\ req'[w].user = req[w].user
  <2>1. /\ req[w].tab \in used
        /\ req[w].tab \in Live => rows[req[w].tab].owner = req[w].user
    BY <1>1 DEF RequestOwnsTab, Holding
  <2>2. req[w].tab \in TabIds /\ RowStep(req[w].tab) /\ used \subseteq used'
    BY <2>1, NextRowStep DEF TypeOK
  <2>. QED  BY <1>1, <2>1, <2>2 DEF RowStep, Live
<1>2. CASE /\ req'[w].tab \in TabIds /\ Found(req'[w].user, req'[w].tab)
           /\ rows' = rows
  <2>1. used \subseteq used'
    BY NextRowStep
  <2>. QED  BY <1>2, <2>1 DEF Found, Owned, Live, UsedInv
<1>. QED  BY <1>1, <1>2, NextHolding

(* A status written by id alone reaches no other user's tab. *)
THEOREM RequestsOwnTheirTabs == Spec => []RequestOwnsTab
<1>1. Init => UsedInv /\ RequestOwnsTab
  BY DEF Init, UsedInv, RequestOwnsTab, Live, Idle, Holding
<1>. QED
  BY <1>1, NextUsedInv, NextRequestOwnsTab, TypeCorrect, PTL DEF Spec

(* No late write brings a deleted tab back. *)
THEOREM DeletedStaysDeleted == Spec => NoResurrection
<1>1. Init => UsedInv
  BY DEF Init, UsedInv, Live
<1>2. TypeOK /\ UsedInv /\ [Next]_vars
        => [\A t \in used : rows[t] = NoRow => rows'[t] = NoRow]_vars
  <2>. SUFFICES ASSUME TypeOK, UsedInv, [Next]_vars, NEW t \in used, rows[t] = NoRow
                PROVE  rows'[t] = NoRow
    OBVIOUS
  <2>. QED  BY NextRowStep DEF RowStep, TypeOK
<1>. QED  BY <1>1, <1>2, NextUsedInv, TypeCorrect, PTL DEF Spec, NoResurrection
-----------------------------------------------------------------------------
(* The limit per user. *)

Pending(u) ==
  {w \in Workers : /\ req[w].pc \in {"createVerify", "createOrder", "createInsert"}
                   /\ req[w].user = u}

\* Tabs and creations past the limit check together respect the bound.
LimitInv ==
  \A u \in Users :
    Cardinality(Owned(u)) + Cardinality(Pending(u)) <= MaxTabs - 1 + Concurrency(u)

\* The sets the limit counts are finite.
LEMMA PendingFacts ==
  ASSUME NEW u \in Users
  PROVE  /\ IsFiniteSet(Owned(u)) /\ Cardinality(Owned(u)) \in Nat
         /\ IsFiniteSet(Owned(u)') /\ Cardinality(Owned(u)') \in Nat
         /\ IsFiniteSet(Pending(u)) /\ Cardinality(Pending(u)) \in Nat
         /\ IsFiniteSet(Pending(u)') /\ Cardinality(Pending(u)') \in Nat
         /\ Concurrency(u) \in Nat /\ Concurrency(u)' = Concurrency(u)
         /\ MaxTabs \in Nat \ {0}
<1>1. Owned(u) \subseteq TabIds /\ Owned(u)' \subseteq TabIds
  BY DEF Owned, Live
<1>2. Pending(u) \subseteq Workers /\ Pending(u)' \subseteq Workers
  BY DEF Pending
<1>. QED
  BY <1>1, <1>2, TabsAssumption, FS_Subset, FS_CardinalityType DEF Concurrency

(* Only a creation that passes the limit check becomes pending. *)
LEMMA NextPending ==
  ASSUME TypeOK, [Next]_vars, NEW v \in Users,
         ~ \E w \in Workers, e \in Endpoints : CreateBegin(w, v, e)
  PROVE  Pending(v)' \subseteq Pending(v)
<1>. DEFINE pcs == {"createVerify", "createOrder", "createInsert"}
<1>. SUFFICES ASSUME NEW x \in Workers, req'[x].pc \in pcs, req'[x].user = v
              PROVE  req[x].pc \in pcs /\ req[x].user = v
  BY DEF Pending
<1>1. CASE req'[x] = req[x]
  BY <1>1
<1>2. ASSUME NEW w \in Workers, NEW r, Become(w, r), r.pc \notin pcs
      PROVE  req'[x] = req[x]
  BY <1>2 DEF Become, TypeOK
<1>3. ASSUME NEW w \in Workers, NEW pc, Goto(w, pc), req[w] \in Patching \cup Calling,
             pc \notin pcs
      PROVE  req'[x] = req[x]
  <2>1. [req[w] EXCEPT !.pc = pc].pc \notin pcs
    BY <1>3 DEF Patching, Calling
  <2>. HIDE DEF pcs
  <2>. QED  BY <1>3, <2>1 DEF Goto, TypeOK
<1>4. Idle.pc \notin pcs
  BY DEF Idle
<1>5. ASSUME NEW w \in Workers, NEW u \in Users, NEW e \in Endpoints, CreateBegin(w, u, e)
      PROVE  req'[x] = req[x]
  BY <1>5 DEF CreateBegin, Become, TypeOK
<1>6. ASSUME NEW w \in Workers, CreateVerify(w) \/ CreateOrder(w)
      PROVE  req[x].pc \in pcs /\ req[x].user = v
  <2>1. req[w] \in Creating
    BY <1>6, RequestShape DEF CreateVerify, CreateOrder, TypeOK
  <2>2. CASE x = w
    <3>1. CASE req'[w] = Idle
      BY <3>1, <2>2, <1>4
    <3>2. CASE req'[w].user = req[w].user
      BY <3>2, <2>1, <2>2 DEF Creating
    <3>. QED
      BY <1>6, <2>1, <3>1, <3>2 DEF CreateVerify, CreateOrder, Become, Goto, TypeOK, Creating
  <2>3. CASE x # w
    BY <1>1, <1>6, <2>3 DEF CreateVerify, CreateOrder, Become, Goto, TypeOK
  <2>. QED  BY <2>2, <2>3
<1>7. ASSUME NEW w \in Workers, NEW t \in TabIds, CreateInsert(w, t) PROVE req'[x] = req[x]
  BY <1>7, <1>2, <1>4 DEF CreateInsert
<1>8. ASSUME NEW w \in Workers, NEW u \in Users, NEW t \in TabIds,
             NEW e \in Endpoints \cup {KeepEndpoint}, PatchBegin(w, u, t, e)
      PROVE  req'[x] = req[x]
  BY <1>8, <1>2 DEF PatchBegin
<1>9. ASSUME NEW w \in Workers, PatchVerify(w) \/ PatchStatus(w) \/ PatchUpdate(w)
      PROVE  req'[x] = req[x]
  <2>1. req[w] \in Patching
    BY <1>9, RequestShape DEF PatchVerify, PatchStatus, PatchUpdate, TypeOK
  <2>. QED  BY <1>9, <2>1, <1>2, <1>3, <1>4 DEF PatchVerify, PatchStatus, PatchUpdate
<1>10. ASSUME NEW w \in Workers, NEW u \in Users, NEW t \in TabIds,
              DeleteBegin(w, u, t) \/ CallBegin(w, u, t)
       PROVE  req'[x] = req[x]
  BY <1>10, <1>2 DEF DeleteBegin, CallBegin
<1>11. ASSUME NEW w \in Workers, Delete(w) PROVE req'[x] = req[x]
  BY <1>11, <1>2, <1>4 DEF Delete
<1>12. ASSUME NEW w \in Workers, CallEnd(w) \/ CallFailed(w) \/ CallReset(w) \/ CallMarkOk(w)
       PROVE  req'[x] = req[x]
  <2>1. req[w] \in Calling
    BY <1>12, RequestShape DEF CallEnd, CallFailed, CallReset, CallMarkOk, TypeOK
  <2>. QED  BY <1>12, <2>1, <1>2, <1>3, <1>4 DEF CallEnd, CallFailed, CallReset, CallMarkOk
<1>13. CASE UNCHANGED req
  BY <1>13
<1>14. ASSUME NEW u \in Users, NEW ids \in Orders(u), Reorder(u, ids) PROVE UNCHANGED req
  BY <1>14 DEF Reorder
<1>15. ASSUME ~RequestStep PROVE UNCHANGED req
  BY <1>15 DEF Next, ProbeStep, vars, Tick, TickEnd, PingRead, PingProbe,
               PingReset, PingBump, PingWrite, SchedExit, Cancel, Toggle
<1>. HIDE DEF pcs
<1>16. CASE RequestStep
  BY <1>1, <1>5, <1>6, <1>7, <1>8, <1>9, <1>10, <1>11, <1>12, <1>13, <1>14, <1>16
     DEF RequestStep
<1>. QED  BY <1>13, <1>15, <1>16

(* Only an insertion adds a tab. *)
LEMMA NextOwned ==
  ASSUME TypeOK, UsedInv, [Next]_vars, NEW v \in Users, used' = used
  PROVE  Owned(v)' \subseteq Owned(v)
  BY NextRowStep DEF RowStep, Owned, Live

\* A user's rows and admitted creations stay within the bound.
LEMMA NextLimitInv == TypeOK /\ UsedInv /\ LimitInv /\ [Next]_vars => LimitInv'
<1>. SUFFICES ASSUME TypeOK, UsedInv, LimitInv, [Next]_vars, NEW v \in Users
              PROVE  Cardinality(Owned(v)') + Cardinality(Pending(v)')
                       <= MaxTabs - 1 + Concurrency(v)
  BY DEF LimitInv, Concurrency
<1>1. Cardinality(Owned(v)) + Cardinality(Pending(v)) <= MaxTabs - 1 + Concurrency(v)
  BY DEF LimitInv
<1>2. CASE \E w \in Workers, e \in Endpoints : CreateBegin(w, v, e)
  <2>1. PICK w \in Workers, e \in Endpoints : CreateBegin(w, v, e)
    BY <1>2
  <2>2. Owned(v)' = Owned(v) /\ Cardinality(Owned(v)) < MaxTabs
    BY <2>1 DEF CreateBegin, Owned, Live, UnderLimit
  <2>3. Cardinality(Pending(v)') <= Concurrency(v)
    <3>1. CASE v \in SerialUsers
      <4>1. Pending(v)' \subseteq {w}
        BY <2>1, <3>1 DEF CreateBegin, Sends, Busy, Pending, Become, TypeOK, Idle
      <4>2. IsFiniteSet({w}) /\ Cardinality({w}) = 1
        BY FS_Singleton
      <4>3. Cardinality(Pending(v)') <= 1
        BY <4>1, <4>2, FS_Subset
      <4>. QED  BY <3>1, <4>3 DEF Concurrency
    <3>2. CASE v \notin SerialUsers
      <4>1. Pending(v)' \subseteq Workers
        BY DEF Pending
      <4>. QED  BY <3>2, <4>1, TabsAssumption, FS_Subset DEF Concurrency
    <3>. QED  BY <3>1, <3>2
  <2>. QED  BY <2>2, <2>3, PendingFacts
<1>3. ASSUME NEW w \in Workers, NEW t \in TabIds, CreateInsert(w, t)
      PROVE  Cardinality(Owned(v)') + Cardinality(Pending(v)')
               <= Cardinality(Owned(v)) + Cardinality(Pending(v))
  <2>1. req[w] \in Creating
    BY <1>3, RequestShape DEF CreateInsert, TypeOK
  <2>2. CASE req[w].user = v
    <3>1. Owned(v)' \subseteq Owned(v) \cup {t}
      BY <1>3 DEF CreateInsert, Owned, Live, TypeOK
    <3>2. Pending(v)' \subseteq Pending(v) \ {w} /\ w \in Pending(v)
      BY <1>3, <2>2 DEF CreateInsert, Pending, Become, TypeOK, Idle
    <3>3. Cardinality(Owned(v)') <= Cardinality(Owned(v)) + 1
      <4>1. /\ IsFiniteSet(Owned(v) \cup {t})
            /\ Cardinality(Owned(v) \cup {t}) <= Cardinality(Owned(v)) + 1
        <5>. DEFINE S == Owned(v)
        <5>1. IsFiniteSet(S) /\ Cardinality(S) \in Nat
          BY PendingFacts
        <5>. HIDE DEF S
        <5>2. /\ IsFiniteSet(S \cup {t})
              /\ Cardinality(S \cup {t}) = IF t \in S THEN Cardinality(S) ELSE Cardinality(S) + 1
          BY <5>1, FS_AddElement
        <5>3. IsFiniteSet(S \cup {t}) /\ Cardinality(S \cup {t}) <= Cardinality(S) + 1
          BY <5>1, <5>2
        <5>. QED  BY <5>3 DEF S
      <4>2. Cardinality(Owned(v)') <= Cardinality(Owned(v) \cup {t})
        BY <3>1, <4>1, FS_Subset
      <4>. QED  BY <4>1, <4>2, PendingFacts, FS_CardinalityType
    <3>4. Cardinality(Pending(v)') <= Cardinality(Pending(v)) - 1
      <4>1. /\ IsFiniteSet(Pending(v) \ {w})
            /\ Cardinality(Pending(v) \ {w}) = Cardinality(Pending(v)) - 1
        BY <3>2, PendingFacts, FS_RemoveElement
      <4>2. Cardinality(Pending(v)') <= Cardinality(Pending(v) \ {w})
        BY <3>2, <4>1, FS_Subset
      <4>. QED  BY <4>1, <4>2
    <3>. QED  BY <3>3, <3>4, PendingFacts
  <2>3. CASE req[w].user # v
    <3>1. Owned(v)' \subseteq Owned(v)
      BY <1>3, <2>1, <2>3 DEF CreateInsert, Owned, Live, TypeOK
    <3>2. Pending(v)' \subseteq Pending(v)
      BY <1>3, <2>3 DEF CreateInsert, Pending, Become, TypeOK, Idle
    <3>. QED  BY <3>1, <3>2, PendingFacts, FS_Subset
  <2>. QED  BY <2>2, <2>3
<1>4. CASE /\ ~ \E w \in Workers, e \in Endpoints : CreateBegin(w, v, e)
           /\ ~ \E w \in Workers, t \in TabIds : CreateInsert(w, t)
  <2>1. used' = used
    BY <1>4 DEF Next, RequestStep, ProbeStep, vars, CreateBegin, CreateVerify, CreateOrder,
                PatchBegin, PatchVerify, PatchStatus, PatchUpdate, DeleteBegin, Delete, Reorder,
                CallBegin, CallEnd, CallFailed, CallReset, CallMarkOk, Tick, TickEnd, PingRead,
                PingProbe, PingReset, PingBump, PingWrite, SchedExit, Cancel, Toggle
  <2>2. Owned(v)' \subseteq Owned(v) /\ Pending(v)' \subseteq Pending(v)
    BY <1>4, <2>1, NextOwned, NextPending
  <2>. QED  BY <1>1, <2>2, PendingFacts, FS_Subset
<1>. QED  BY <1>1, <1>2, <1>3, <1>4, PendingFacts

(* Whatever the number of workers, a user exceeds the limit by no more than   *)
(* the creations in flight.                                                  *)
THEOREM LimitHolds == Spec => []LimitOvershoot
<1>1. Init => UsedInv /\ LimitInv
  <2>. SUFFICES ASSUME Init, NEW u \in Users
                PROVE  Cardinality(Owned(u)) + Cardinality(Pending(u))
                         <= MaxTabs - 1 + Concurrency(u)
    BY DEF UsedInv, LimitInv, Live, Init
  <2>1. Owned(u) = {} /\ Pending(u) = {}
    BY DEF Init, Owned, Live, Pending, Idle
  <2>. QED  BY <2>1, FS_EmptySet, PendingFacts
<1>2. LimitInv => LimitOvershoot
  BY PendingFacts DEF LimitInv, LimitOvershoot
<1>. QED  BY <1>1, <1>2, NextUsedInv, NextLimitInv, TypeCorrect, PTL DEF Spec
-----------------------------------------------------------------------------
(* What a step may do to the row of another user, and the positions of a    *)
(* user who sends one request at a time.                                    *)

\* The row of t keeps all but its status.
StatusOnly(t) ==
  \/ rows'[t] = rows[t]
  \/ rows'[t] # NoRow /\ rows'[t] = [rows[t] EXCEPT !.status = rows'[t].status]

\* A request of the owner of t ends, and deletes the row or changes its endpoint.
ByOwner(t) ==
  \E w \in Workers :
    /\ req[w].pc \in {"delete", "patchUpdate"} /\ req'[w] = Idle
    /\ req[w].user = rows[t].owner
    /\ IF req[w].pc = "delete" THEN rows'[t] = NoRow
       ELSE rows'[t] # NoRow /\ rows'[t] = [rows[t] EXCEPT !.ep = rows'[t].ep]

\* Some user orders tabs.
Reordering == \E u \in Users : \E ids \in Orders(u) : Reorder(u, ids)

\* A status write changes at most the status of each row.
LEMMA UpdateStatusOnly ==
  ASSUME TypeOK, NEW t \in TabIds, NEW s \in Status, rows' = UpdateStatus(t, s), NEW r \in Live
  PROVE  StatusOnly(r)
<1>1. CASE rows'[r] = rows[r]
  BY <1>1 DEF StatusOnly
<1>2. CASE r = t /\ rows' = [rows EXCEPT ![t] = [rows[t] EXCEPT !.status = s]]
  <2>1. rows[t] \in Row
    BY <1>2 DEF Live, TypeOK
  <2>2. rows'[t] = [rows[t] EXCEPT !.status = s]
    BY <1>2 DEF TypeOK
  <2>3. rows'[t].status = s /\ rows'[t] \in Row
    BY <2>1, <2>2 DEF Row
  <2>. QED
    BY <1>2, <2>2, <2>3, NoRowFacts DEF StatusOnly
<1>. QED
  BY <1>1, <1>2 DEF UpdateStatus, Live, TypeOK

\* What happens to a row is a status write, a request of its owner, or a new order.
LEMMA NextRowFate ==
  ASSUME TypeOK, UsedInv, [Next]_vars, NEW r \in Live
  PROVE  StatusOnly(r) \/ ByOwner(r) \/ Reordering
<1>1. CASE rows' = rows
  BY <1>1 DEF StatusOnly
<1>2. ASSUME NEW w \in Workers, NEW t \in TabIds, CreateInsert(w, t)
      PROVE  StatusOnly(r)
  <2>1. r # t
    BY <1>2 DEF CreateInsert, UsedInv
  <2>. QED
    BY <1>2, <2>1 DEF CreateInsert, StatusOnly, TypeOK, Live
<1>3. ASSUME NEW w \in Workers, PatchStatus(w)
      PROVE  StatusOnly(r)
  <2>1. req[w] \in Patching
    BY <1>3, RequestShape DEF PatchStatus, TypeOK
  <2>. QED  BY <1>3, <2>1, UpdateStatusOnly DEF PatchStatus, Patching, Status
<1>4. ASSUME NEW w \in Workers, PatchUpdate(w)
      PROVE  StatusOnly(r) \/ ByOwner(r)
  <2>1. req[w] \in Patching
    BY <1>4, RequestShape DEF PatchUpdate, TypeOK
  <2>2. CASE rows'[r] = rows[r]
    BY <2>2 DEF StatusOnly
  <2>3. CASE /\ r = req[w].tab /\ Found(req[w].user, r) /\ req[w].ep # KeepEndpoint
             /\ rows' = [rows EXCEPT ![r] = [rows[r] EXCEPT !.ep = req[w].ep]]
    <3>1. rows[r] \in Row /\ rows[r].owner = req[w].user
      BY <2>3 DEF Found, Owned, Live, TypeOK
    <3>2. rows'[r] = [rows[r] EXCEPT !.ep = req[w].ep]
      BY <2>3 DEF TypeOK, Live
    <3>3. rows'[r].ep = req[w].ep
      BY <3>1, <3>2 DEF Row
    <3>4. rows'[r] # NoRow
      BY <2>1, <2>3, <3>1, <3>2, NoRowFacts DEF Patching, Row
    <3>5. req[w].pc = "patchUpdate" /\ req'[w] = Idle
      BY <1>4 DEF PatchUpdate, Become, TypeOK
    <3>. QED
      BY <3>1, <3>2, <3>3, <3>4, <3>5 DEF ByOwner
  <2>. QED  BY <1>4, <2>2, <2>3 DEF PatchUpdate, TypeOK, Live, Found, Owned
<1>5. ASSUME NEW w \in Workers, Delete(w)
      PROVE  StatusOnly(r) \/ ByOwner(r)
  <2>1. CASE rows'[r] = rows[r]
    BY <2>1 DEF StatusOnly
  <2>2. CASE r = req[w].tab /\ Found(req[w].user, r) /\ rows' = [rows EXCEPT ![r] = NoRow]
    <3>1. rows'[r] = NoRow /\ rows[r].owner = req[w].user
      BY <2>2 DEF TypeOK, Live, Found, Owned
    <3>2. req[w].pc = "delete" /\ req'[w] = Idle
      BY <1>5 DEF Delete, Become, TypeOK
    <3>. QED
      BY <3>1, <3>2 DEF ByOwner
  <2>. QED  BY <1>5, <2>1, <2>2 DEF Delete, TypeOK, Live, Found, Owned
<1>6. ASSUME NEW w \in Workers, CallFailed(w) \/ CallMarkOk(w)
      PROVE  StatusOnly(r)
  <2>1. req[w] \in Calling
    BY <1>6, RequestShape DEF CallFailed, CallMarkOk, TypeOK
  <2>. QED  BY <1>6, <2>1, UpdateStatusOnly DEF CallFailed, CallMarkOk, Calling, Status
<1>7. CASE PingWrite
  <2>1. sched \in Writing
    BY <1>7, SchedShape DEF PingWrite, TypeOK
  <2>. QED  BY <1>7, <2>1, UpdateStatusOnly DEF PingWrite, Writing
<1>. QED
  BY <1>1, <1>2, <1>3, <1>4, <1>5, <1>6, <1>7
     DEF Next, RequestStep, ProbeStep, Reordering, vars, CreateBegin, CreateVerify, CreateOrder,
         PatchBegin, PatchVerify, DeleteBegin, CallBegin, CallEnd, CallReset, Tick, TickEnd,
         PingRead, PingProbe, PingReset, PingBump, SchedExit, Cancel, Toggle

\* A new order changes the positions of that user's rows, and nothing else.
LEMMA ReorderRows ==
  ASSUME TypeOK, NEW u \in Users, NEW ids \in Orders(u), Reorder(u, ids), NEW r \in Live
  PROVE  \/ rows'[r] = rows[r]
         \/ /\ rows[r].owner = u /\ rows'[r] # NoRow
            /\ rows'[r] = [rows[r] EXCEPT !.order = rows'[r].order]
<1>1. CASE \E i \in DOMAIN ids : ids[i] = r
  <2>1. r \in Owned(u) /\ rows[r] \in Row
    BY <1>1 DEF Reorder, Found, Live, TypeOK
  <2>2. rows'[r] = [rows[r] EXCEPT !.order = LastIndexOf(ids, r) - 1]
    BY <1>1 DEF Reorder, Live
  <2>3. rows'[r].order = LastIndexOf(ids, r) - 1
    BY <2>1, <2>2 DEF Row
  <2>4. rows'[r] # NoRow
    <3>1. PICK n \in Nat : ids \in [1..n -> TabIds]
      BY TabsAssumption, FS_CardinalityType DEF Orders
    <3>2. PICK i \in 1..n : ids[i] = r
      BY <1>1, <3>1
    <3>3. LastIndexOf(ids, r) \in 1..n
      BY <3>1, <3>2, LastIndexFacts
    <3>. DEFINE last == LastIndexOf(ids, r)
    <3>. HIDE DEF last
    <3>4. last - 1 \in Nat
      BY <3>3 DEF last
    <3>5. rows'[r] \in Row
      BY <2>1, <2>2, <3>4 DEF Row, last
    <3>. QED  BY <3>5, NoRowFacts
  <2>. QED
    BY <2>1, <2>2, <2>3, <2>4 DEF Owned
<1>2. CASE ~ \E i \in DOMAIN ids : ids[i] = r
  BY <1>2 DEF Reorder, Live
<1>. QED
  BY <1>1, <1>2

(* A tab is changed by its owner's requests; the probe and other users' requests *)
(* change at most its status.                                                    *)
THEOREM OnlyTheOwner == Spec => OwnerAlone
<1>1. Init => UsedInv
  BY DEF Init, UsedInv, Live
<1>. DEFINE Moved(r) ==
              /\ rows'[r] # NoRow /\ rows'[r] = [rows[r] EXCEPT !.order = rows'[r].order]
              /\ UNCHANGED req
              /\ \A t2 \in Live : rows'[t2] # rows[t2] => rows[t2].owner = rows[r].owner
            Fate == \A r \in Live : StatusOnly(r) \/ ByOwner(r) \/ Moved(r)
<1>2. TypeOK /\ UsedInv /\ [Next]_vars => [Fate]_vars
  <2>. SUFFICES ASSUME TypeOK, UsedInv, [Next]_vars, NEW r \in Live
                PROVE  StatusOnly(r) \/ ByOwner(r) \/ Moved(r)
    OBVIOUS
  <2>1. ASSUME NEW u \in Users, NEW ids \in Orders(u), Reorder(u, ids)
        PROVE  StatusOnly(r) \/ Moved(r)
    <3>1. UNCHANGED req
      BY <2>1 DEF Reorder
    <3>2. \A t2 \in Live : rows'[t2] # rows[t2] => rows[t2].owner = u
      BY <2>1, ReorderRows
    <3>. QED
      BY <2>1, <3>1, <3>2, ReorderRows DEF StatusOnly
  <2>. HIDE DEF Moved
  <2>. QED
    BY <2>1, NextRowFate DEF Reordering
<1>3. [Fate]_vars => [\A t \in Live :
       \/ rows'[t] = rows[t]
       \/ rows'[t] # NoRow /\ rows'[t] = [rows[t] EXCEPT !.status = rows'[t].status]
       \/ \E w \in Workers :
            /\ req[w].pc \in {"delete", "patchUpdate"} /\ req'[w] = Idle
            /\ req[w].user = rows[t].owner
            /\ IF req[w].pc = "delete" THEN rows'[t] = NoRow
               ELSE rows'[t] # NoRow /\ rows'[t] = [rows[t] EXCEPT !.ep = rows'[t].ep]
       \/ /\ rows'[t] # NoRow /\ rows'[t] = [rows[t] EXCEPT !.order = rows'[t].order]
          /\ UNCHANGED req
          /\ \A t2 \in Live : rows'[t2] # rows[t2] => rows[t2].owner = rows[t].owner]_vars
  BY DEF StatusOnly, ByOwner
<1>. QED
  BY <1>1, <1>2, <1>3, NextUsedInv, TypeCorrect, PTL DEF Spec, OwnerAlone

\* Worker w has a request of user u.
Serving(w, u) == req[w] # Idle /\ req[w].user = u

\* A serial user has one request at a time, no two tabs in one position, and a
\* position drawn for the next tab that lies beyond those of all others.
SerialInv ==
  \A u \in SerialUsers :
    /\ \A w1, w2 \in Workers : Serving(w1, u) /\ Serving(w2, u) => w1 = w2
    /\ \A t1, t2 \in Owned(u) : rows[t1].order = rows[t2].order => t1 = t2
    /\ \A w \in Workers : req[w].pc = "createInsert" /\ req[w].user = u =>
         \A t \in Owned(u) : rows[t].order < req[w].order

\* Worker w goes on with its request, ends it, or begins one its user may send.
Serves(w) ==
  \/ req'[w] = Idle
  \/ req[w] # Idle /\ req'[w].user = req[w].user
  \/ req'[w].user \in SerialUsers => ~Busy(req'[w].user)

\* A step moves one worker at most, and only CreateOrder takes it to an insertion.
LEMMA NextServes ==
  ASSUME TypeOK, [Next]_vars
  PROVE  \/ req' = req
         \/ \E w \in Workers :
              /\ Serves(w) /\ \A x \in Workers : x # w => req'[x] = req[x]
              /\ req'[w].pc = "createInsert" => CreateOrder(w)
<1>. DEFINE Goal == \E w \in Workers :
              /\ Serves(w) /\ \A x \in Workers : x # w => req'[x] = req[x]
              /\ req'[w].pc = "createInsert" => CreateOrder(w)
<1>1. ASSUME NEW w \in Workers, NEW r, Become(w, r), r.pc # "createInsert",
             \/ r = Idle
             \/ req[w] # Idle /\ r.user = req[w].user
             \/ r.user \in SerialUsers => ~Busy(r.user)
      PROVE  Goal
  <2>1. req'[w] = r /\ \A x \in Workers : x # w => req'[x] = req[x]
    BY <1>1 DEF Become, TypeOK
  <2>. QED
    BY <1>1, <2>1 DEF Serves
<1>2. ASSUME NEW w \in Workers, NEW pc, Goto(w, pc), pc # "createInsert", req[w] # Idle
      PROVE  Goal
  <2>1. req[w] \in Creating \cup Patching \cup Calling \cup Deleting
    BY <1>2 DEF TypeOK, Request
  <2>. DEFINE r == [req[w] EXCEPT !.pc = pc]
  <2>2. r.pc = pc /\ r.user = req[w].user
    BY <2>1 DEF Creating, Patching, Calling, Deleting
  <2>3. req' = [req EXCEPT ![w] = r]
    BY <1>2 DEF Goto
  <2>. HIDE DEF r, Goal
  <2>. QED
    BY <1>1, <1>2, <2>2, <2>3 DEF Become
<1>3. Idle.pc = "idle"
  BY DEF Idle
<1>4. ASSUME NEW w \in Workers, CreateOrder(w) PROVE Goal
  <2>1. req[w] \in Creating
    BY <1>4, RequestShape DEF CreateOrder, TypeOK
  <2>2. req[w] # Idle /\ req'[w].user = req[w].user /\ \A x \in Workers : x # w => req'[x] = req[x]
    BY <1>4, <2>1 DEF CreateOrder, Become, TypeOK, Creating, Idle
  <2>. QED
    BY <1>4, <2>2 DEF Serves
<1>. HIDE DEF Goal
<1>5. ASSUME NEW w \in Workers, NEW u \in Users, NEW e \in Endpoints, CreateBegin(w, u, e)
      PROVE  Goal
  BY <1>1, <1>5 DEF CreateBegin, Sends
<1>6. ASSUME NEW w \in Workers, CreateVerify(w) \/ CallEnd(w) \/ PatchVerify(w)
      PROVE  Goal
  BY <1>1, <1>2, <1>3, <1>6 DEF CreateVerify, CallEnd, PatchVerify
<1>7. ASSUME NEW w \in Workers, PatchStatus(w) \/ CallReset(w) PROVE Goal
  BY <1>2, <1>3, <1>7 DEF PatchStatus, CallReset
<1>8. ASSUME NEW w \in Workers, PatchUpdate(w) \/ Delete(w) \/ CallFailed(w) \/ CallMarkOk(w)
      PROVE  Goal
  BY <1>1, <1>3, <1>8 DEF PatchUpdate, Delete, CallFailed, CallMarkOk
<1>9. ASSUME NEW w \in Workers, NEW t \in TabIds, CreateInsert(w, t) PROVE Goal
  BY <1>1, <1>3, <1>9 DEF CreateInsert
<1>10. ASSUME NEW w \in Workers, NEW u \in Users, NEW t \in TabIds, DeleteBegin(w, u, t) \/ CallBegin(w, u, t)
       PROVE  Goal
  BY <1>1, <1>10 DEF DeleteBegin, CallBegin, Sends
<1>11. ASSUME NEW w \in Workers, NEW u \in Users, NEW t \in TabIds,
              NEW e \in Endpoints \cup {KeepEndpoint}, PatchBegin(w, u, t, e)
       PROVE  Goal
  <2>. DEFINE r == IF e \in {KeepEndpoint, rows[t].ep}
                   THEN [pc |-> "patchUpdate", user |-> u, tab |-> t, ep |-> KeepEndpoint]
                   ELSE [pc |-> "patchVerify", user |-> u, tab |-> t, ep |-> e]
  <2>1. r.user = u /\ r.pc # "createInsert"
    OBVIOUS
  <2>2. Become(w, r) /\ (u \in SerialUsers => ~Busy(u))
    BY <1>11 DEF PatchBegin, Sends
  <2>. HIDE DEF r
  <2>. QED
    BY <1>1, <2>1, <2>2
<1>12. CASE ~RequestStep
  BY <1>12 DEF Next, ProbeStep, vars, Tick, TickEnd, PingRead, PingProbe,
               PingReset, PingBump, PingWrite, SchedExit, Cancel, Toggle
<1>13. ASSUME NEW u \in Users, NEW ids \in Orders(u), Reorder(u, ids) PROVE req' = req
  BY <1>13 DEF Reorder
<1>14. CASE RequestStep
  BY <1>4, <1>5, <1>6, <1>7, <1>8, <1>9, <1>10, <1>11, <1>13, <1>14 DEF RequestStep, Goal
<1>. QED
  BY <1>12, <1>14

\* Apart from a creation and a new order of the user, its rows keep their positions.
LEMMA NextPositions ==
  ASSUME TypeOK, UsedInv, [Next]_vars, NEW u \in Users, NEW t \in Owned(u)',
         ~ \E w \in Workers, r \in TabIds : CreateInsert(w, r) /\ req[w].user = u,
         ~ \E ids \in Orders(u) : Reorder(u, ids)
  PROVE  t \in Owned(u) /\ rows'[t].order = rows[t].order
<1>1. t \in TabIds /\ rows'[t] # NoRow /\ rows'[t].owner = u
  BY DEF Owned, Live
<1>2. CASE t \in Live
  <2>1. rows[t] \in Row /\ rows[t].owner = u
    BY <1>1, <1>2, NextRowStep DEF RowStep, Live, TypeOK
  <2>2. ASSUME StatusOnly(t) PROVE rows'[t].order = rows[t].order
    <3>1. CASE rows'[t] = [rows[t] EXCEPT !.status = rows'[t].status]
      <4>. DEFINE s == rows'[t].status
      <4>1. [rows[t] EXCEPT !.status = s].order = rows[t].order
        BY <2>1 DEF Row
      <4>. QED
        BY <3>1, <4>1
    <3>. QED
      BY <2>2, <3>1 DEF StatusOnly
  <2>3. ASSUME ByOwner(t) PROVE rows'[t].order = rows[t].order
    <3>1. rows'[t] = [rows[t] EXCEPT !.ep = rows'[t].ep]
      BY <1>1, <2>3 DEF ByOwner
    <3>. DEFINE e == rows'[t].ep
    <3>2. [rows[t] EXCEPT !.ep = e].order = rows[t].order
      BY <2>1 DEF Row
    <3>. QED
      BY <3>1, <3>2
  <2>4. ASSUME NEW v \in Users, NEW ids \in Orders(v), Reorder(v, ids)
        PROVE  rows'[t] = rows[t]
    BY <1>2, <2>1, <2>4, ReorderRows
  <2>. QED
    BY <1>2, <2>1, <2>2, <2>3, <2>4, NextRowFate DEF Owned, Reordering
<1>3. CASE t \notin Live
  <2>1. t \notin used /\ t \in used'
    BY <1>1, <1>3, NextRowStep DEF RowStep, Live
  <2>2. PICK w \in Workers, r \in TabIds : CreateInsert(w, r)
    BY <2>1 DEF Next, RequestStep, ProbeStep, vars, CreateBegin, CreateVerify, CreateOrder,
                PatchBegin, PatchVerify, PatchStatus, PatchUpdate, DeleteBegin, Delete, Reorder,
                CallBegin, CallEnd, CallFailed, CallReset, CallMarkOk, Tick, TickEnd, PingRead,
                PingProbe, PingReset, PingBump, PingWrite, SchedExit, Cancel, Toggle
  <2>3. r = t /\ rows'[t].owner = req[w].user
    BY <1>1, <2>1, <2>2 DEF CreateInsert, TypeOK
  <2>. QED
    BY <1>1, <2>2, <2>3
<1>. QED
  BY <1>2, <1>3

\* A serial user's order names each of its tabs once, so all get positions of their own.
LEMMA ReorderDistinct ==
  ASSUME TypeOK, NEW u \in SerialUsers, NEW ids \in Orders(u), Reorder(u, ids)
  PROVE  \A t1, t2 \in Owned(u)' : rows'[t1].order = rows'[t2].order => t1 = t2
<1>1. PICK n \in Nat : ids \in [1..n -> TabIds] /\ \A i, j \in 1..n : ids[i] = ids[j] => i = j
  BY TabsAssumption, FS_CardinalityType DEF Orders
<1>2. u \in Users /\ Len(ids) = n /\ DOMAIN ids = 1..n
  BY <1>1, TabsAssumption
<1>3. ids \in Injection(1..n, Owned(u))
  BY <1>1, <1>2 DEF Reorder, Found, Injection, IsInjective
<1>4. IsFiniteSet(Owned(u)) /\ Cardinality(1..n) = Cardinality(Owned(u))
  <2>1. IsFiniteSet(Owned(u))
    BY <1>2, OwnedFacts DEF TypeOK
  <2>2. Cardinality(1..n) = n
    BY FS_Interval
  <2>3. Len(ids) = Cardinality(Owned(u))
    BY DEF Reorder
  <2>. QED
    BY <1>2, <2>1, <2>2, <2>3
<1>5. ids \in Surjection(1..n, Owned(u))
  BY <1>3, <1>4, FS_Injection
<1>6. ASSUME NEW t \in Owned(u)'
      PROVE  \E i \in 1..n : ids[i] = t /\ rows'[t].order = i - 1
  <2>1. t \in Owned(u)
    <3>1. t \in Live
      BY DEF Reorder, Owned, Live, Found, TypeOK
    <3>. QED
      BY <1>2, <3>1, ReorderRows, NoRowFacts DEF Owned, Live, TypeOK, Row
  <2>2. PICK i \in 1..n : ids[i] = t
    BY <1>5, <2>1 DEF Surjection
  <2>3. LastIndexOf(ids, t) = i
    BY <1>1, <2>2, LastIndexFacts
  <2>4. rows[t] \in Row
    BY <1>2, <2>1, OwnedFacts DEF TypeOK
  <2>5. rows'[t] = [rows[t] EXCEPT !.order = i - 1]
    BY <1>2, <2>1, <2>2, <2>3 DEF Reorder, Owned, Live
  <2>. QED
    BY <2>2, <2>4, <2>5 DEF Row
<1>. QED
  BY <1>6

\* Every step keeps what SerialInv says of the users who send one request at a time.
LEMMA NextSerialInv == TypeOK /\ UsedInv /\ SerialInv /\ [Next]_vars => SerialInv'
<1>. SUFFICES ASSUME TypeOK, UsedInv, SerialInv, [Next]_vars, NEW u \in SerialUsers
              PROVE  /\ \A w1, w2 \in Workers : Serving(w1, u)' /\ Serving(w2, u)' => w1 = w2
                     /\ \A t1, t2 \in Owned(u)' : rows'[t1].order = rows'[t2].order => t1 = t2
                     /\ \A w \in Workers : req'[w].pc = "createInsert" /\ req'[w].user = u =>
                          \A t \in Owned(u)' : rows'[t].order < req'[w].order
  BY DEF SerialInv
<1>1. u \in Users
  BY TabsAssumption
<1>2. /\ \A w1, w2 \in Workers : Serving(w1, u) /\ Serving(w2, u) => w1 = w2
      /\ \A t1, t2 \in Owned(u) : rows[t1].order = rows[t2].order => t1 = t2
      /\ \A w \in Workers : req[w].pc = "createInsert" /\ req[w].user = u =>
           \A t \in Owned(u) : rows[t].order < req[w].order
  BY DEF SerialInv
<1>3. \A w1, w2 \in Workers : Serving(w1, u)' /\ Serving(w2, u)' => w1 = w2
  BY <1>2, NextServes DEF Serving, Serves, Busy
<1>4. \A t1, t2 \in Owned(u)' : rows'[t1].order = rows'[t2].order => t1 = t2
  <2>1. CASE \E ids \in Orders(u) : Reorder(u, ids)
    BY <2>1, ReorderDistinct
  <2>2. ASSUME NEW w \in Workers, NEW r \in TabIds, CreateInsert(w, r), req[w].user = u
        PROVE  \A t1, t2 \in Owned(u)' : rows'[t1].order = rows'[t2].order => t1 = t2
    <3>1. req[w] \in Creating /\ \A t \in Owned(u) : rows[t].order < req[w].order
      BY <1>2, <2>2, RequestShape DEF CreateInsert, TypeOK
    <3>2. r \notin Owned(u) /\ rows'[r].order = req[w].order
      BY <2>2 DEF CreateInsert, UsedInv, Owned, TypeOK
    <3>3. \A t \in Owned(u)' : t = r \/ (t \in Owned(u) /\ rows'[t].order = rows[t].order)
      BY <2>2 DEF CreateInsert, Owned, Live, TypeOK
    <3>4. req[w].order \in Nat /\ \A t \in Owned(u) : rows[t].order \in Nat
      BY <1>1, <3>1, OwnedFacts DEF Creating, TypeOK, Row
    <3>. QED
      BY <1>2, <3>1, <3>2, <3>3, <3>4
  <2>3. CASE /\ ~ \E w \in Workers, r \in TabIds : CreateInsert(w, r) /\ req[w].user = u
             /\ ~ \E ids \in Orders(u) : Reorder(u, ids)
    BY <1>1, <1>2, <2>3, NextPositions
  <2>. QED
    BY <2>1, <2>2, <2>3
<1>5. ASSUME NEW w \in Workers, req'[w].pc = "createInsert", req'[w].user = u
      PROVE  \A t \in Owned(u)' : rows'[t].order < req'[w].order
  <2>1. CASE req'[w] = req[w]
    <3>1. Serving(w, u)
      BY <1>5, <2>1 DEF Serving, Idle
    <3>2. ~ \E ids \in Orders(u) : Reorder(u, ids)
      BY <3>1 DEF Reorder, Sends, Busy, Serving
    <3>3. ASSUME NEW x \in Workers, NEW r \in TabIds, CreateInsert(x, r), req[x].user = u
          PROVE  FALSE
      <4>1. Serving(x, u)
        BY <3>3 DEF CreateInsert, Serving, Idle
      <4>2. x = w
        BY <1>2, <3>1, <4>1
      <4>. QED
        BY <1>5, <3>3, <4>2 DEF CreateInsert, Become, TypeOK, Idle
    <3>. QED
      BY <1>1, <1>2, <1>5, <2>1, <3>2, <3>3, NextPositions
  <2>2. CASE CreateOrder(w)
    <3>1. req[w] \in Creating
      BY <2>2, RequestShape DEF CreateOrder, TypeOK
    <3>2. req'[w].order = NextOrder(req[w].user) /\ req'[w].user = req[w].user /\ rows' = rows
      BY <2>2, <3>1 DEF CreateOrder, Become, TypeOK, Creating
    <3>. QED
      BY <1>1, <1>5, <3>2, NextOrderFacts DEF TypeOK, Owned, Live
  <2>. QED
    BY <1>5, <2>1, <2>2, NextServes
<1>. QED
  BY <1>3, <1>4, <1>5

(* A user who sends one request at a time and permutes what it was shown never has *)
(* two tabs in one position.                                                       *)
THEOREM SerialOrders == Spec => []SerialOrdersDistinct
<1>1. Init => UsedInv /\ SerialInv
  BY DEF Init, UsedInv, SerialInv, Owned, Live, Serving, Idle
<1>2. SerialInv => SerialOrdersDistinct
  BY DEF SerialInv, SerialOrdersDistinct
<1>. QED
  BY <1>1, <1>2, NextUsedInv, NextSerialInv, TypeCorrect, PTL DEF Spec

-----------------------------------------------------------------------------
(* The abstract registry. *)

\* The registry as its users see it, and what the requests ask of it.
Kept == [t \in Live |-> [owner |-> rows[t].owner, ep |-> rows[t].ep]]
Asking == [w \in Workers |-> Asked(req[w])]

\* Status and position are not part of what is kept.
LEMMA KeptSame ==
  ASSUME TypeOK,
         \A t \in TabIds : \/ rows'[t] = rows[t]
                           \/ /\ rows[t] # NoRow /\ rows'[t] # NoRow
                              /\ rows'[t].owner = rows[t].owner /\ rows'[t].ep = rows[t].ep
  PROVE  Kept' = Kept
<1>1. Live' = Live
  BY DEF Live
<1>2. \A t \in Live : rows'[t].owner = rows[t].owner /\ rows'[t].ep = rows[t].ep
  BY DEF Live
<1>. QED
  BY <1>1, <1>2 DEF Kept

\* A status write leaves what is kept alone.
LEMMA UpdateStatusKept ==
  ASSUME TypeOK, NEW t \in TabIds, NEW s \in Status, rows' = UpdateStatus(t, s)
  PROVE  Kept' = Kept
<1>1. CASE rows[t] = NoRow
  BY <1>1, KeptSame DEF UpdateStatus
<1>2. CASE rows[t] # NoRow
  <2>1. rows[t] \in Row
    BY <1>2 DEF TypeOK
  <2>2. [rows[t] EXCEPT !.status = s] \in Row
    BY <2>1 DEF Row
  <2>3. rows' = [rows EXCEPT ![t] = [rows[t] EXCEPT !.status = s]]
    BY <1>2 DEF UpdateStatus
  <2>4. rows'[t] # NoRow /\ rows'[t].owner = rows[t].owner /\ rows'[t].ep = rows[t].ep
    BY <2>1, <2>2, <2>3, NoRowFacts DEF TypeOK, Row
  <2>. QED
    BY <1>2, <2>3, <2>4, KeptSame DEF TypeOK
<1>. QED
  BY <1>1, <1>2

\* The request of one worker changes, and with it what that worker asks.
LEMMA BecomeAsking ==
  ASSUME TypeOK, NEW w \in Workers, NEW r, Become(w, r)
  PROVE  Asking' = [Asking EXCEPT ![w] = Asked(r)]
<1>1. \A x \in Workers : req'[x] = IF x = w THEN r ELSE req[x]
  BY DEF Become, TypeOK
<1>. QED
  BY <1>1 DEF Asking

\* The requests that ask for nothing.
LEMMA AskedNothing ==
  /\ Asked(Idle) = Idle
  /\ \A r \in Calling : Asked(r) = Idle
  BY DEF Asked, Idle, Calling

\* What a creation, a PATCH and a DELETE ask.
LEMMA AskedSomething ==
  /\ \A r \in Creating : Asked(r) = [op |-> "add", user |-> r.user, ep |-> r.ep]
  /\ \A r \in Patching : Asked(r) = IF r.ep = KeepEndpoint THEN Idle
        ELSE [op |-> "move", user |-> r.user, tab |-> r.tab, ep |-> r.ep]
  /\ \A r \in Deleting : Asked(r) = [op |-> "remove", user |-> r.user, tab |-> r.tab]
<1>1. ASSUME NEW r \in Creating PROVE Asked(r) = [op |-> "add", user |-> r.user, ep |-> r.ep]
  BY DEF Asked, Creating
<1>2. ASSUME NEW r \in Patching PROVE Asked(r) = IF r.ep = KeepEndpoint THEN Idle
        ELSE [op |-> "move", user |-> r.user, tab |-> r.tab, ep |-> r.ep]
  BY DEF Asked, Patching
<1>3. ASSUME NEW r \in Deleting PROVE Asked(r) = [op |-> "remove", user |-> r.user, tab |-> r.tab]
  BY DEF Asked, Deleting
<1>. QED
  BY <1>1, <1>2, <1>3

\* The abstract registry counts like the library.
LEMMA SameCardinality ==
  ASSUME NEW S
  PROVE  Registry!Cardinality(S) = Cardinality(S)
  BY DEF Registry!Cardinality, Cardinality

(* No tabs and no requests: the registry starts empty. *)
LEMMA RegistryInit == Init => Registry!Init
<1>. SUFFICES ASSUME Init PROVE Registry!Init
  OBVIOUS
<1>1. Live = {}
  BY DEF Init, Live
<1>2. \A w \in Workers : Asked(req[w]) = Idle
  BY AskedNothing DEF Init
<1>. QED
  BY <1>1, <1>2 DEF Registry!Init, Init

\* A step of a handler is a step of the registry or changes nothing of it: the
\* insertion, the UPDATE of a PATCH and the DELETE act, a rejection refuses.
LEMMA RegistryNext ==
  ASSUME TypeOK, UsedInv, LimitOvershoot', [Next]_vars
  PROVE  Registry!Next \/ UNCHANGED <<Kept, used, Asking>>
<1>. USE DEF TypeOK
<1>1. ASSUME NEW w \in Workers, NEW r \in Request, req[w] = Idle, Become(w, r),
             UNCHANGED <<rows, used>>, r \notin Calling
      PROVE  Registry!Next \/ UNCHANGED <<Kept, used, Asking>>
  <2>1. Kept' = Kept /\ Live' = Live
    BY <1>1 DEF Kept, Live
  <2>2. Asking' = [Asking EXCEPT ![w] = Asked(r)] /\ Asking[w] = Idle
    BY <1>1, BecomeAsking, AskedNothing DEF Asking
  <2>3. CASE Asked(r) = Idle
    BY <1>1, <2>1, <2>2, <2>3 DEF Asking
  <2>4. CASE Asked(r) # Idle
    <3>1. Asked(r) \in Registry!Adding \cup Registry!Moving \cup Registry!Removing
      BY <1>1, <2>4, AskedNothing, AskedSomething
         DEF Request, Registry!Adding, Registry!Moving, Registry!Removing, Creating,
             Patching, Deleting
    <3>2. Registry!Ask(w)
      BY <1>1, <2>1, <2>2, <3>1 DEF Registry!Ask, Asking, Kept
    <3>. QED
      BY <3>2 DEF Registry!Next
  <2>. QED
    BY <2>3, <2>4
<1>2. ASSUME NEW w \in Workers, NEW r, Become(w, r), Asked(r) = Asked(req[w]),
             Kept' = Kept, used' = used
      PROVE  UNCHANGED <<Kept, used, Asking>>
  BY <1>2, BecomeAsking DEF Asking
<1>3. ASSUME NEW w \in Workers, Become(w, Idle), Asked(req[w]) \notin Registry!Removing,
             UNCHANGED <<rows, used>>
      PROVE  Registry!Next
  <2>1. Kept' = Kept
    BY <1>3 DEF Kept, Live
  <2>2. Asking' = [Asking EXCEPT ![w] = Idle] /\ Asking[w] = Asked(req[w])
    BY <1>3, BecomeAsking, AskedNothing DEF Asking
  <2>3. Registry!Refuse(w)
    BY <1>3, <2>1, <2>2 DEF Registry!Refuse, Registry!Answer, Kept, Asking
  <2>. QED
    BY <2>3 DEF Registry!Next
<1>4. ASSUME req' = req, Kept' = Kept, used' = used
      PROVE  UNCHANGED <<Kept, used, Asking>>
  BY <1>4 DEF Asking
<1>5. ASSUME UNCHANGED <<rows, used, req>>
      PROVE  UNCHANGED <<Kept, used, Asking>>
  BY <1>5 DEF Kept, Live, Asking
<1>6. ASSUME rows' = rows PROVE Kept' = Kept
  BY <1>6 DEF Kept, Live
<1>. DEFINE Goal == Registry!Next \/ UNCHANGED <<Kept, used, Asking>>
<1>11. ASSUME NEW w \in Workers, NEW u \in Users, NEW e \in Endpoints, CreateBegin(w, u, e)
      PROVE  Goal
  <2>1. [pc |-> "createVerify", user |-> u, ep |-> e, order |-> 0] \in Creating
    BY DEF Creating
  <2>. QED
    BY <1>1, <1>11, <2>1 DEF CreateBegin, Request, Calling, Creating
<1>12. ASSUME NEW w \in Workers, CreateVerify(w) PROVE Goal
  <2>1. req[w] \in Creating
    BY <1>12, RequestShape DEF CreateVerify
  <2>2. CASE Goto(w, "createOrder")
    <3>1. [req[w] EXCEPT !.pc = "createOrder"] \in Creating
      BY <2>1 DEF Creating
    <3>2. Asked([req[w] EXCEPT !.pc = "createOrder"]) = Asked(req[w])
      BY <2>1, <3>1, AskedSomething DEF Creating
    <3>3. Become(w, [req[w] EXCEPT !.pc = "createOrder"])
      BY <2>2 DEF Goto, Become
    <3>. QED
      BY <1>2, <1>6, <1>12, <3>2, <3>3 DEF CreateVerify
  <2>3. CASE Become(w, Idle)
    <3>1. Asked(req[w]) \notin Registry!Removing
      BY <2>1, AskedSomething DEF Registry!Removing
    <3>. QED
      BY <1>3, <1>12, <2>3, <3>1 DEF CreateVerify
  <2>. QED
    BY <1>12, <2>2, <2>3 DEF CreateVerify
<1>13. ASSUME NEW w \in Workers, CreateOrder(w) PROVE Goal
  <2>1. req[w] \in Creating
    BY <1>13, RequestShape DEF CreateOrder
  <2>. DEFINE r == [req[w] EXCEPT !.pc = "createInsert", !.order = NextOrder(req[w].user)]
  <2>2. r \in Creating /\ r.user = req[w].user /\ r.ep = req[w].ep
    BY <2>1, NextOrderFacts DEF Creating
  <2>3. Become(w, r)
    BY <1>13 DEF CreateOrder
  <2>. HIDE DEF r
  <2>4. Asked(r) = Asked(req[w])
    BY <2>1, <2>2, AskedSomething
  <2>. QED
    BY <1>2, <1>6, <1>13, <2>3, <2>4 DEF CreateOrder
<1>14. ASSUME NEW w \in Workers, NEW t \in TabIds, CreateInsert(w, t) PROVE Goal
  <2>1. req[w] \in Creating
    BY <1>14, RequestShape DEF CreateInsert
  <2>. PICK u \in Users : u = req[w].user
    BY <2>1 DEF Creating
  <2>2. Asking' = [Asking EXCEPT ![w] = Idle]
    BY <1>14, BecomeAsking, AskedNothing DEF CreateInsert
  <2>3. Asking[w] = [op |-> "add", user |-> u, ep |-> req[w].ep]
    BY <2>1, AskedSomething DEF Asking
  <2>4. rows' = [rows EXCEPT ![t] = [owner |-> u, ep |-> req[w].ep,
                                     order |-> req[w].order, status |-> "ok"]]
    BY <1>14 DEF CreateInsert
  <2>5. t \notin used /\ t \notin Live
    BY <1>14 DEF CreateInsert, UsedInv
  <2>6. rows'[t].owner = u /\ rows'[t].ep = req[w].ep /\ rows'[t] # NoRow
    BY <2>1, <2>4, NoRowFacts DEF Creating, Row, Status
  <2>7. Live' = Live \cup {t} /\ \A i \in Live : rows'[i] = rows[i]
    BY <2>4, <2>5, <2>6 DEF Live
  <2>8. Kept' = [i \in Live \cup {t} |->
                   IF i = t THEN [owner |-> u, ep |-> req[w].ep] ELSE Kept[i]]
    BY <2>5, <2>6, <2>7 DEF Kept
  <2>9. Cardinality(Owned(u)) < MaxTabs - 1 + Concurrency(u)
    <3>1. Owned(u)' = Owned(u) \cup {t} /\ t \notin Owned(u)
      BY <2>5, <2>6, <2>7 DEF Owned
    <3>2. IsFiniteSet(Owned(u)) /\ Cardinality(Owned(u)) \in Nat
      BY <2>1, OwnedFacts, FS_CardinalityType
    <3>3. Cardinality(Owned(u) \cup {t}) = Cardinality(Owned(u)) + 1
      BY <3>1, <3>2, FS_AddElement
    <3>4. Cardinality(Owned(u) \cup {t}) <= MaxTabs - 1 + Concurrency(u)
      BY <2>1, <3>1 DEF LimitOvershoot, Concurrency
    <3>5. MaxTabs - 1 + Concurrency(u) \in Int
      BY TabsAssumption, FS_CardinalityType DEF Concurrency
    <3>. QED
      BY <3>2, <3>3, <3>4, <3>5
  <2>10. Registry!Of(u) = Owned(u)
    BY DEF Registry!Of, Owned
  <2>11. Asking[w] \in Registry!Adding
    BY <2>1, <2>3 DEF Registry!Adding, Creating
  <2>12. Registry!Add(w, t)
    <3>1. used' = used \cup {t}
      BY <1>14 DEF CreateInsert
    <3>2. Asking[w].user = u /\ Asking[w].ep = req[w].ep
      BY <2>3
    <3>3. Cardinality(Registry!Of(Asking[w].user))
            < [v \in Users |-> MaxTabs - 1 + Concurrency(v)][Asking[w].user]
      BY <2>9, <2>10, <3>2
    <3>4. Kept' = [i \in DOMAIN Kept \cup {t} |->
                     IF i = t THEN [owner |-> Asking[w].user, ep |-> Asking[w].ep] ELSE Kept[i]]
      BY <2>8, <3>2 DEF Kept
    <3>. QED
      BY <2>2, <2>5, <2>11, <3>1, <3>3, <3>4, SameCardinality
         DEF Registry!Add, Registry!Answer, Kept, Asking
  <2>. QED
    BY <2>12 DEF Registry!Next
<1>15. ASSUME NEW w \in Workers, NEW u \in Users, NEW t \in TabIds,
             NEW e \in Endpoints \cup {KeepEndpoint}, PatchBegin(w, u, t, e)
      PROVE  Goal
  <2>. DEFINE r == IF e \in {KeepEndpoint, rows[t].ep}
                   THEN [pc |-> "patchUpdate", user |-> u, tab |-> t, ep |-> KeepEndpoint]
                   ELSE [pc |-> "patchVerify", user |-> u, tab |-> t, ep |-> e]
  <2>1. r \in Patching
    BY DEF Patching
  <2>2. Become(w, r) /\ req[w] = Idle /\ UNCHANGED <<rows, used>>
    BY <1>15 DEF PatchBegin
  <2>. HIDE DEF r
  <2>3. r \in Request /\ r \notin Calling
    BY <2>1 DEF Request, Calling, Patching
  <2>. QED
    BY <1>1, <2>2, <2>3
<1>16. ASSUME NEW w \in Workers, PatchVerify(w) PROVE Goal
  <2>1. req[w] \in Patching
    BY <1>16, RequestShape DEF PatchVerify
  <2>2. CASE Goto(w, "patchStatus")
    <3>. DEFINE r == [req[w] EXCEPT !.pc = "patchStatus"]
    <3>1. r \in Patching /\ r.user = req[w].user /\ r.tab = req[w].tab /\ r.ep = req[w].ep
      BY <2>1 DEF Patching
    <3>2. Become(w, r)
      BY <2>2 DEF Goto, Become
    <3>. HIDE DEF r
    <3>3. Asked(r) = Asked(req[w])
      BY <2>1, <3>1, AskedSomething
    <3>. QED
      BY <1>2, <1>6, <1>16, <3>2, <3>3 DEF PatchVerify
  <2>3. CASE Become(w, Idle)
    <3>1. Asked(req[w]) \notin Registry!Removing
      BY <2>1, AskedSomething DEF Registry!Removing, Idle
    <3>. QED
      BY <1>3, <1>16, <2>3, <3>1 DEF PatchVerify
  <2>. QED
    BY <1>16, <2>2, <2>3 DEF PatchVerify
<1>17. ASSUME NEW w \in Workers, PatchStatus(w) PROVE Goal
  <2>. DEFINE r == [req[w] EXCEPT !.pc = "patchUpdate"]
  <2>1. req[w] \in Patching
    BY <1>17, RequestShape DEF PatchStatus
  <2>2. r \in Patching /\ r.user = req[w].user /\ r.tab = req[w].tab /\ r.ep = req[w].ep
    BY <2>1 DEF Patching
  <2>3. Become(w, r)
    BY <1>17 DEF PatchStatus, Goto, Become
  <2>4. Kept' = Kept
    BY <1>17, <2>1, UpdateStatusKept DEF PatchStatus, Patching, Status
  <2>. HIDE DEF r
  <2>5. Asked(r) = Asked(req[w])
    BY <2>1, <2>2, AskedSomething
  <2>. QED
    BY <1>2, <1>17, <2>3, <2>4, <2>5 DEF PatchStatus
<1>18. ASSUME NEW w \in Workers, PatchUpdate(w) PROVE Goal
  <2>1. req[w] \in Patching
    BY <1>18, RequestShape DEF PatchUpdate
  <2>2. Become(w, Idle) /\ used' = used
    BY <1>18 DEF PatchUpdate
  <2>3. CASE req[w].ep = KeepEndpoint
    <3>1. Asked(Idle) = Asked(req[w]) /\ rows' = rows
      BY <1>18, <2>1, <2>3, AskedNothing, AskedSomething DEF PatchUpdate
    <3>. QED
      BY <1>2, <1>6, <2>2, <3>1
  <2>4. CASE req[w].ep # KeepEndpoint /\ ~Found(req[w].user, req[w].tab)
    <3>1. Asked(req[w]) \notin Registry!Removing /\ rows' = rows
      BY <1>18, <2>1, <2>4, AskedSomething DEF PatchUpdate, Registry!Removing
    <3>. QED
      BY <1>3, <2>2, <3>1
  <2>5. CASE req[w].ep # KeepEndpoint /\ Found(req[w].user, req[w].tab)
    <3>. PICK t \in TabIds : t = req[w].tab
      BY <2>1 DEF Patching
    <3>. PICK e \in Endpoints : e = req[w].ep
      BY <2>1, <2>5 DEF Patching
    <3>1. Asking' = [Asking EXCEPT ![w] = Idle]
      BY <2>2, BecomeAsking, AskedNothing
    <3>2. Asking[w] = [op |-> "move", user |-> req[w].user, tab |-> t, ep |-> e]
      BY <2>1, <2>5, AskedSomething DEF Asking
    <3>3. Asking[w] \in Registry!Moving
      BY <2>1, <3>2 DEF Registry!Moving, Patching
    <3>4. t \in Live /\ t \in Registry!Of(req[w].user)
      BY <2>5 DEF Found, Owned, Registry!Of
    <3>5. rows[t] \in Row /\ [rows[t] EXCEPT !.ep = e] \in Row
      BY <3>4 DEF Live, Row
    <3>6. rows' = [rows EXCEPT ![t] = [rows[t] EXCEPT !.ep = e]]
      BY <1>18, <2>5 DEF PatchUpdate
    <3>7. /\ Live' = Live /\ \A i \in Live : i # t => rows'[i] = rows[i]
          /\ rows'[t].owner = rows[t].owner /\ rows'[t].ep = e
      BY <3>4, <3>5, <3>6, NoRowFacts DEF Live, Row
    <3>8. Kept' = [i \in Live |-> IF i = t THEN [owner |-> rows[t].owner, ep |-> e] ELSE Kept[i]]
      BY <3>7 DEF Kept
    <3>9. Kept' = [Kept EXCEPT ![t].ep = e]
      BY <3>4, <3>8 DEF Kept
    <3>10. Asking[w].tab = t /\ Asking[w].ep = e /\ Asking[w].user = req[w].user
      BY <3>2
    <3>11. Registry!Move(w)
      BY <2>2, <3>1, <3>3, <3>4, <3>9, <3>10 DEF Registry!Move, Registry!Answer, Kept, Asking
    <3>. QED
      BY <3>11 DEF Registry!Next
  <2>. QED
    BY <2>3, <2>4, <2>5
<1>19. ASSUME NEW w \in Workers, NEW u \in Users, NEW t \in TabIds, DeleteBegin(w, u, t)
      PROVE  Goal
  <2>1. [pc |-> "delete", user |-> u, tab |-> t] \in Request \ Calling
    BY DEF Deleting, Request, Calling
  <2>. QED
    BY <1>1, <1>19, <2>1 DEF DeleteBegin
<1>20. ASSUME NEW w \in Workers, Delete(w) PROVE Goal
  <2>1. req[w] \in Deleting
    BY <1>20, RequestShape DEF Delete
  <2>. PICK t \in TabIds : t = req[w].tab
    BY <2>1 DEF Deleting
  <2>2. Become(w, Idle) /\ used' = used
    BY <1>20 DEF Delete
  <2>3. Asking' = [Asking EXCEPT ![w] = Idle]
    BY <2>2, BecomeAsking, AskedNothing
  <2>4. Asking[w] = [op |-> "remove", user |-> req[w].user, tab |-> t]
    BY <2>1, AskedSomething DEF Asking
  <2>5. Asking[w].tab = t /\ Asking[w].user = req[w].user
    BY <2>4
  <2>6. Registry!Of(req[w].user) = Owned(req[w].user)
    BY DEF Registry!Of, Owned
  <2>7. CASE Found(req[w].user, t)
    <3>1. Asking[w] \in Registry!Removing
      BY <2>1, <2>4 DEF Registry!Removing, Deleting
    <3>2. rows' = [rows EXCEPT ![t] = NoRow]
      BY <1>20, <2>7 DEF Delete
    <3>3. Live' = Live \ {t} /\ \A i \in Live : i # t => rows'[i] = rows[i]
      BY <3>2 DEF Live
    <3>4. Kept' = [i \in DOMAIN Kept \ {t} |-> Kept[i]]
      BY <3>3 DEF Kept
    <3>5. Registry!Remove(w)
      BY <2>2, <2>3, <2>5, <2>6, <2>7, <3>1, <3>4
         DEF Found, Registry!Remove, Registry!Answer, Kept, Asking
    <3>. QED
      BY <3>5 DEF Registry!Next
  <2>8. CASE ~Found(req[w].user, t)
    <3>1. Kept' = Kept
      BY <1>6, <1>20, <2>8 DEF Delete
    <3>2. Registry!Refuse(w)
      BY <2>2, <2>3, <2>5, <2>6, <2>8, <3>1 DEF Found, Registry!Refuse, Registry!Answer, Kept, Asking
    <3>. QED
      BY <3>2 DEF Registry!Next
  <2>. QED
    BY <2>7, <2>8
<1>21. ASSUME NEW u \in Users, NEW ids \in Orders(u), Reorder(u, ids) PROVE Goal
  <2>1. PICK n \in Nat : ids \in [1..n -> TabIds]
    BY TabsAssumption, FS_CardinalityType DEF Orders
  <2>2. ASSUME NEW t \in TabIds
        PROVE  \/ rows'[t] = rows[t]
               \/ /\ rows[t] # NoRow /\ rows'[t] # NoRow
                  /\ rows'[t].owner = rows[t].owner /\ rows'[t].ep = rows[t].ep
    <3>1. CASE ~ \E i \in DOMAIN ids : ids[i] = t
      BY <1>21, <3>1 DEF Reorder
    <3>2. CASE \E i \in DOMAIN ids : ids[i] = t
      <4>1. rows[t] \in Row /\ rows[t] # NoRow
        BY <1>21, <3>2 DEF Reorder, Found, Owned, Live
      <4>2. PICK n2 \in Nat : LastIndexOf(ids, t) - 1 = n2
        <5>1. LastIndexOf(ids, t) \in 1..n
          BY <2>1, <3>2, LastIndexFacts
        <5>. QED
          BY <5>1
      <4>3. rows'[t] = [rows[t] EXCEPT !.order = n2]
        BY <1>21, <3>2, <4>2 DEF Reorder
      <4>4. rows'[t] \in Row /\ rows'[t].owner = rows[t].owner /\ rows'[t].ep = rows[t].ep
        BY <4>1, <4>3 DEF Row
      <4>. QED
        BY <4>1, <4>4, NoRowFacts
    <3>. QED
      BY <3>1, <3>2
  <2>3. Kept' = Kept
    BY <2>2, KeptSame
  <2>. QED
    BY <1>4, <1>21, <2>3 DEF Reorder
<1>22. ASSUME NEW w \in Workers, NEW u \in Users, NEW t \in TabIds, CallBegin(w, u, t) PROVE Goal
  <2>1. rows[t] \in Row
    BY <1>22 DEF CallBegin, Found, Owned, Live
  <2>2. [pc |-> "kvCall", user |-> u, tab |-> t, ep |-> rows[t].ep] \in Calling
    BY <2>1 DEF Calling, Row
  <2>3. Asked([pc |-> "kvCall", user |-> u, tab |-> t, ep |-> rows[t].ep]) = Asked(req[w])
    BY <1>22, <2>2, AskedNothing DEF CallBegin
  <2>. QED
    BY <1>2, <1>6, <1>22, <2>3 DEF CallBegin
<1>23. ASSUME NEW w \in Workers, NEW pc \in {"kvFailed", "kvReset", "kvMarkOk"},
              req[w] \in Calling, Goto(w, pc), UNCHANGED <<rows, used>>
       PROVE  Goal
  <2>1. [req[w] EXCEPT !.pc = pc] \in Calling
    BY <1>23 DEF Calling
  <2>2. Become(w, [req[w] EXCEPT !.pc = pc])
    BY <1>23 DEF Goto, Become
  <2>. QED
    BY <1>2, <1>6, <1>23, <2>1, <2>2, AskedNothing
<1>24. ASSUME NEW w \in Workers, CallEnd(w) PROVE Goal
  <2>1. req[w] \in Calling
    BY <1>24, RequestShape DEF CallEnd
  <2>2. CASE Become(w, Idle)
    BY <1>2, <1>6, <1>24, <2>1, <2>2, AskedNothing DEF CallEnd
  <2>. QED
    BY <1>23, <1>24, <2>1, <2>2 DEF CallEnd
<1>25. ASSUME NEW w \in Workers, CallFailed(w) \/ CallMarkOk(w) PROVE Goal
  <2>1. req[w] \in Calling
    BY <1>25, RequestShape DEF CallFailed, CallMarkOk
  <2>2. Kept' = Kept
    BY <1>25, <2>1, UpdateStatusKept DEF CallFailed, CallMarkOk, Calling, Status
  <2>. QED
    BY <1>2, <1>25, <2>1, <2>2, AskedNothing DEF CallFailed, CallMarkOk
<1>26. ASSUME NEW w \in Workers, CallReset(w) PROVE Goal
  <2>1. req[w] \in Calling
    BY <1>26, RequestShape DEF CallReset
  <2>. QED
    BY <1>23, <1>26, <2>1 DEF CallReset
<1>27. CASE PingWrite
  <2>1. sched \in Writing
    BY <1>27, SchedShape DEF PingWrite
  <2>2. Kept' = Kept
    BY <1>27, <2>1, UpdateStatusKept DEF PingWrite, Writing
  <2>. QED
    BY <1>4, <1>27, <2>2 DEF PingWrite
<1>28. CASE ~RequestStep /\ ~PingWrite
  BY <1>5, <1>28 DEF Next, ProbeStep, vars, Tick, TickEnd, PingRead, PingProbe,
                     PingReset, PingBump, SchedExit, Cancel, Toggle
<1>. HIDE DEF Goal, TypeOK
<1>29. CASE RequestStep
  BY <1>11, <1>12, <1>13, <1>14, <1>15, <1>16, <1>17, <1>18, <1>19, <1>20, <1>21, <1>22,
     <1>24, <1>25, <1>26, <1>29 DEF RequestStep, Goal
<1>. QED
  BY <1>27, <1>28, <1>29 DEF Goal

(* The handlers, split into statements and interleaved with everything else, act  *)
(* on the registry like the steps of its abstract specification.                  *)
THEOREM TabsAreARegistry == Spec => IsRegistry
<1>1. TypeOK /\ UsedInv /\ LimitOvershoot' /\ [Next]_vars
        => Registry!Next \/ UNCHANGED <<Kept, used, Asking>>
  BY RegistryNext
<1>2. TypeOK /\ UsedInv /\ LimitOvershoot' /\ [Next]_vars
        => [Registry!Next]_<<[t \in Live |-> [owner |-> rows[t].owner, ep |-> rows[t].ep]],
                             used, [w \in Workers |-> Asked(req[w])]>>
  BY <1>1 DEF Kept, Asking
<1>3. Init => UsedInv
  BY DEF Init, UsedInv, Live
<1>. QED
  BY <1>2, <1>3, RegistryInit, NextUsedInv, TypeCorrect, LimitHolds, PTL
     DEF Spec, IsRegistry, Registry!Spec

=============================================================================
