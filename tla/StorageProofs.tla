--------------------------- MODULE StorageProofs ---------------------------
(***************************************************************************)
(* Proofs about Storage when the admin command is not run beside the        *)
(* server: the table never mixes clusters, the store implements             *)
(* ClusterHistory, and only a change of the address takes a recent sample. *)
(***************************************************************************)
EXTENDS Storage, TLAPS

\* The pc of a program tells a running one from one that is down.
LEMMA RunningShape ==
  ASSUME NEW r \in {Down} \cup Running
  PROVE  /\ r.pc \in {"check", "insert", "purge", "stamp", "up"} => r \in Running
         /\ r # Down => r \in Running /\ r.pc # "down"
  BY DEF Down, Running

\* Both retention times end before the saturated age.
LEMMA OldestFacts == Oldest \in Nat /\ MaxAge < Oldest /\ AuditAge < Oldest
  BY StorageAssumption DEF Oldest

\* Ageing stays within the ages.
LEMMA OlderFacts == \A a \in 0..Oldest : Older(a) \in 0..Oldest
  BY OldestFacts DEF Older

-----------------------------------------------------------------------------

\* A running program other than the only one there is does not exist.
OneProgram == \A p, q \in Programs : prog[p] # Down /\ prog[q] # Down => p = q

\* The table agrees with the recorded address, and a program that may write with it.
Consistent ==
  /\ \A r \in metrics : r.cluster = meta
  /\ \A p \in Programs : At(p, "up") => prog[p].ep = meta
  /\ \A p \in Programs : At(p, "insert") => meta = NoEndpoint
  /\ \A p \in Programs : At(p, "stamp") => metrics = {}

IInv == TypeOK /\ OneProgram /\ Consistent

\* The invariant holds at the beginning.
LEMMA InitIInv == Init => IInv
  BY StorageAssumption DEF Init, IInv, TypeOK, OneProgram, Consistent, At, Down

\* Every step keeps the types, also with two programs.
LEMMA NextTypeOK == TypeOK /\ [Next]_vars => TypeOK'
<1>. SUFFICES ASSUME TypeOK, [Next]_vars PROVE TypeOK'
  OBVIOUS
<1>. USE DEF TypeOK
<1>1. ASSUME NEW p \in Programs, Start(p) PROVE TypeOK'
  <2>1. [pc |-> "check", ep |-> Normalize[config], sweep |-> "idle"] \in Running
    BY StorageAssumption DEF Running
  <2>. QED  BY <1>1, <2>1 DEF Start
<1>2. ASSUME NEW p \in Programs, prog[p] \in Running, NEW pc \in {"insert", "purge", "stamp"},
             Goto(p, pc)
      PROVE  prog' \in [Programs -> {Down} \cup Running]
  <2>1. [prog[p] EXCEPT !.pc = pc] \in Running
    BY <1>2 DEF Running
  <2>. QED  BY <1>2, <2>1 DEF Goto
<1>3. ASSUME NEW p \in Programs, prog[p] \in Running, Opened(p)
      PROVE  prog' \in [Programs -> {Down} \cup Running]
  <2>1. [prog[p] EXCEPT !.pc = "up", !.sweep = "metrics"] \in Running
    BY <1>3 DEF Running
  <2>. QED  BY <1>3, <2>1 DEF Opened
<1>4. ASSUME NEW p \in Programs, prog[p] \in Running, NEW s \in {"idle", "metrics", "audit"},
             prog' = [prog EXCEPT ![p].sweep = s]
      PROVE  prog' \in [Programs -> {Down} \cup Running]
  <2>1. [prog[p] EXCEPT !.sweep = s] \in Running
    BY <1>4 DEF Running
  <2>. QED  BY <1>4, <2>1
<1>5. ASSUME NEW p \in Programs, Opening(p) PROVE TypeOK'
  <2>1. prog[p] \in Running
    BY <1>5, RunningShape DEF Opening, CheckRead, CheckInsert, CheckPurge, CheckStamp, At
  <2>2. prog[p].ep \in Endpoints
    BY <2>1 DEF Running
  <2>3. CASE CheckRead(p)
    BY <1>2, <1>3, <2>1, <2>3 DEF CheckRead
  <2>4. CASE CheckInsert(p)
    BY <1>3, <2>1, <2>2, <2>4 DEF CheckInsert
  <2>5. CASE CheckPurge(p)
    BY <1>2, <2>1, <2>5 DEF CheckPurge
  <2>6. CASE CheckStamp(p)
    BY <1>3, <2>1, <2>2, <2>6 DEF CheckStamp
  <2>. QED  BY <1>5, <2>3, <2>4, <2>5, <2>6 DEF Opening
<1>6. ASSUME NEW p \in Programs, StoreAuditLog(p) PROVE TypeOK'
  BY <1>6, OldestFacts DEF StoreAuditLog
<1>7. ASSUME NEW p \in Programs, SweepStart(p) \/ SweepMetrics(p) \/ SweepAudit(p) \/ SweepFails(p)
      PROVE  TypeOK'
  <2>1. prog[p] \in Running
    BY <1>7, RunningShape DEF SweepStart, SweepMetrics, SweepAudit, SweepFails, At
  <2>2. prog' \in [Programs -> {Down} \cup Running]
    BY <1>4, <1>7, <2>1 DEF SweepStart, SweepMetrics, SweepAudit, SweepFails
  <2>. QED  BY <1>7, <2>2 DEF SweepStart, SweepMetrics, SweepAudit, SweepFails, Kept, KeptAudit
<1>8. ASSUME NEW p \in Programs, Exit(p) PROVE TypeOK'
  BY <1>8 DEF Exit
<1>9. CASE Store
  <2>1. prog["server"] \in Running
    BY <1>9, RunningShape DEF Store, At, Programs
  <2>2. [cluster |-> prog["server"].ep, age |-> 0] \in Metric
    BY <2>1, OldestFacts DEF Metric, Running
  <2>. QED  BY <1>9, <2>2 DEF Store
<1>10. ASSUME NEW s \in Spellings, EditConfig(s) PROVE TypeOK'
  BY <1>10 DEF EditConfig
<1>11. CASE TimePasses
  <2>1. ASSUME NEW r \in metrics PROVE [r EXCEPT !.age = Older(@)] \in Metric
    BY <2>1, OlderFacts DEF Metric
  <2>. QED  BY <1>11, <2>1, OlderFacts DEF TimePasses
<1>12. CASE UNCHANGED vars
  BY <1>12 DEF vars
<1>. QED
  BY <1>1, <1>5, <1>6, <1>7, <1>8, <1>9, <1>10, <1>11, <1>12 DEF Next

(* A program starts only when no other runs. *)
LEMMA NextOneProgram == ~Together /\ TypeOK /\ OneProgram /\ [Next]_vars => OneProgram'
<1>. SUFFICES ASSUME ~Together, TypeOK, OneProgram, [Next]_vars PROVE OneProgram'
  OBVIOUS
<1>. USE DEF TypeOK, OneProgram
<1>1. ASSUME NEW p \in Programs, Start(p) PROVE OneProgram'
  BY <1>1 DEF Start
<1>2. ASSUME NEW p \in Programs, prog[p] # Down, \E r : prog' = [prog EXCEPT ![p] = r]
      PROVE  OneProgram'
  BY <1>2
<1>3. ASSUME NEW p \in Programs,
             Opening(p) \/ SweepStart(p) \/ SweepMetrics(p) \/ SweepAudit(p) \/ SweepFails(p)
               \/ Exit(p)
      PROVE  OneProgram'
  <2>1. prog[p] # Down
    BY <1>3 DEF Opening, CheckRead, CheckInsert, CheckPurge, CheckStamp, SweepStart, SweepMetrics,
                SweepAudit, SweepFails, Exit, At, Down
  <2>2. \E r : prog' = [prog EXCEPT ![p] = r]
    BY <1>3 DEF Opening, CheckRead, CheckInsert, CheckPurge, CheckStamp, SweepStart, SweepMetrics,
                SweepAudit, SweepFails, Exit, Goto, Opened
  <2>. QED  BY <1>2, <2>1, <2>2
<1>4. CASE UNCHANGED prog
  BY <1>4
<1>. QED
  BY <1>1, <1>3, <1>4 DEF Next, vars, StoreAuditLog, Store, EditConfig, TimePasses

\* With one program, the table keeps agreeing with the recorded address.
LEMMA NextConsistent == ~Together /\ IInv /\ [Next]_vars => Consistent'
<1>. SUFFICES ASSUME ~Together, IInv, [Next]_vars PROVE Consistent'
  OBVIOUS
<1>. USE DEF IInv, TypeOK, Consistent, OneProgram, At
<1>1. ASSUME NEW p \in Programs, Start(p) PROVE Consistent'
  BY <1>1 DEF Start, Down
<1>2. ASSUME NEW p \in Programs, CheckRead(p) PROVE Consistent'
  <2>1. prog[p] \in Running
    BY <1>2, RunningShape DEF CheckRead
  <2>2. CASE meta = NoEndpoint /\ Goto(p, "insert")
    BY <1>2, <2>1, <2>2 DEF CheckRead, Goto, Running
  <2>3. CASE meta = prog[p].ep /\ Opened(p)
    BY <1>2, <2>1, <2>3 DEF CheckRead, Opened, Running
  <2>4. CASE Goto(p, "purge")
    BY <1>2, <2>1, <2>4 DEF CheckRead, Goto, Running
  <2>. QED  BY <1>2, <2>2, <2>3, <2>4 DEF CheckRead
<1>3. ASSUME NEW p \in Programs, CheckInsert(p) PROVE Consistent'
  <2>1. prog[p] \in Running /\ meta = NoEndpoint /\ metrics = {}
    BY <1>3, RunningShape, StorageAssumption DEF CheckInsert, Metric
  <2>2. \A q \in Programs \ {p} : prog[q] = Down
    BY <2>1 DEF Running, Down
  <2>. QED  BY <1>3, <2>1, <2>2 DEF CheckInsert, Opened, Running, Down
<1>4. ASSUME NEW p \in Programs, CheckPurge(p) PROVE Consistent'
  <2>1. prog[p] \in Running
    BY <1>4, RunningShape DEF CheckPurge
  <2>. QED  BY <1>4, <2>1 DEF CheckPurge, Goto, Running
<1>5. ASSUME NEW p \in Programs, CheckStamp(p) PROVE Consistent'
  <2>1. prog[p] \in Running /\ metrics = {}
    BY <1>5, RunningShape DEF CheckStamp
  <2>2. \A q \in Programs \ {p} : prog[q] = Down
    BY <1>5, <2>1 DEF CheckStamp, Down
  <2>. QED  BY <1>5, <2>1, <2>2 DEF CheckStamp, Opened, Running, Down
<1>6. ASSUME NEW p \in Programs, SweepStart(p) \/ SweepMetrics(p) \/ SweepAudit(p) \/ SweepFails(p)
      PROVE  Consistent'
  <2>1. prog[p] \in Running
    BY <1>6, RunningShape DEF SweepStart, SweepMetrics, SweepAudit, SweepFails
  <2>2. metrics' \subseteq metrics /\ meta' = meta
    BY <1>6 DEF SweepStart, SweepMetrics, SweepAudit, SweepFails, Kept
  <2>3. \A q \in Programs : prog'[q].pc = prog[q].pc /\ (At(q, "up") => prog'[q].ep = prog[q].ep)
    BY <1>6, <2>1 DEF SweepStart, SweepMetrics, SweepAudit, SweepFails, Running
  <2>. QED  BY <2>2, <2>3
<1>7. ASSUME NEW p \in Programs, StoreAuditLog(p) PROVE Consistent'
  BY <1>7 DEF StoreAuditLog
<1>8. ASSUME NEW p \in Programs, Exit(p) PROVE Consistent'
  BY <1>8 DEF Exit, Down
<1>9. CASE Store
  <2>1. "server" \in Programs
    BY DEF Programs
  <2>2. \A q \in Programs \ {"server"} : prog[q] = Down
    BY <1>9, <2>1 DEF Store, Down
  <2>. QED  BY <1>9, <2>1, <2>2 DEF Store, Down
<1>10. ASSUME NEW s \in Spellings, EditConfig(s) PROVE Consistent'
  BY <1>10 DEF EditConfig
<1>11. CASE TimePasses
  <2>1. \A r \in metrics : [r EXCEPT !.age = Older(@)].cluster = r.cluster
    BY DEF Metric
  <2>. QED  BY <1>11, <2>1 DEF TimePasses
<1>12. CASE UNCHANGED vars
  BY <1>12 DEF vars
<1>. QED
  BY <1>1, <1>2, <1>3, <1>4, <1>5, <1>6, <1>7, <1>8, <1>9, <1>10, <1>11, <1>12
     DEF Next, Opening

\* The invariant is inductive for one program.
LEMMA NextIInv == ~Together /\ IInv /\ [Next]_vars => IInv'
  BY NextTypeOK, NextOneProgram, NextConsistent DEF IInv

(* Types hold however the programs are run. *)
THEOREM StorageTypeCorrect == Spec => []TypeOK
<1>1. Init => TypeOK
  BY InitIInv DEF IInv
<1>. QED  BY <1>1, NextTypeOK, PTL DEF Spec

(* With one program at a time the table never holds rows of two clusters. *)
THEOREM NeverMixed == ASSUME ~Together PROVE Spec => []NoMixing
<1>1. IInv /\ [Next]_vars => IInv'
  BY NextIInv
<1>2. IInv => NoMixing
  BY DEF IInv, Consistent, NoMixing
<1>. QED  BY InitIInv, <1>1, <1>2, PTL DEF Spec

(* Every step of the store is a step of the history it promises, or none. *)
LEMMA NextHistory ==
  ASSUME ~Together, IInv, IInv', [Next]_vars
  PROVE  [History!Next]_<<meta, metrics>>
<1>. USE DEF IInv, TypeOK, Consistent, At
<1>. DEFINE Goal == History!Next \/ UNCHANGED <<meta, metrics>>
<1>1. CASE metrics' = {} /\ meta' \in Endpoints \cup {NoEndpoint}
  BY <1>1 DEF History!Next, History!Switch
<1>2. ASSUME NEW p \in Programs, Opening(p) PROVE Goal
  <2>1. CASE CheckRead(p)
    BY <2>1 DEF CheckRead
  <2>2. CASE CheckInsert(p)
    <3>1. metrics = {}
      BY <2>2, StorageAssumption DEF CheckInsert, Metric
    <3>. QED  BY <1>1, <2>2, <3>1 DEF CheckInsert
  <2>3. CASE CheckPurge(p)
    BY <1>1, <2>3 DEF CheckPurge
  <2>4. CASE CheckStamp(p)
    BY <1>1, <2>4 DEF CheckStamp
  <2>. QED  BY <1>2, <2>1, <2>2, <2>3, <2>4 DEF Opening
<1>3. ASSUME NEW p \in Programs, SweepMetrics(p) PROVE Goal
  BY <1>3 DEF SweepMetrics, Kept, History!Next, History!Expire
<1>4. ASSUME NEW p \in Programs,
             Start(p) \/ StoreAuditLog(p) \/ SweepStart(p) \/ SweepAudit(p) \/ SweepFails(p)
               \/ Exit(p)
      PROVE  Goal
  BY <1>4 DEF Start, StoreAuditLog, SweepStart, SweepAudit, SweepFails, Exit
<1>5. CASE Store
  <2>1. prog["server"] \in Running /\ prog["server"].ep = meta
    BY <1>5, RunningShape DEF Store, Programs
  <2>2. meta \in Endpoints
    BY <2>1 DEF Running
  <2>. QED  BY <1>5, <2>1, <2>2 DEF Store, History!Next, History!Record
<1>6. ASSUME NEW s \in Spellings, EditConfig(s) PROVE Goal
  BY <1>6 DEF EditConfig
<1>7. CASE TimePasses
  <2>1. metrics' = {[r EXCEPT !.age = IF @ < Oldest THEN @ + 1 ELSE @] : r \in metrics}
    BY <1>7, Zenon DEF TimePasses, Older
  <2>. QED  BY <1>7, <2>1 DEF TimePasses, History!Next, History!GrowOlder
<1>8. CASE UNCHANGED vars
  BY <1>8 DEF vars
<1>. QED
  BY <1>2, <1>3, <1>4, <1>5, <1>6, <1>7, <1>8 DEF Next

(* The store implements the history of one cluster at a time, crashes in the  *)
(* middle of a wipe included.                                                *)
THEOREM StoreIsHistory == ASSUME ~Together PROVE Spec => IsHistory
<1>1. Init => History!Init
  BY DEF Init, History!Init
<1>2. IInv /\ [Next]_vars => IInv'
  BY NextIInv
<1>3. IInv /\ IInv' /\ [Next]_vars => [History!Next]_<<meta, metrics>>
  BY NextHistory
<1>. QED  BY InitIInv, <1>1, <1>2, <1>3, PTL DEF Spec, IsHistory, History!Spec

(* A program that is about to wipe the table loaded another address than the  *)
(* recorded one: nobody stamps or inserts between its SELECT and its DELETE.  *)
WipeIsDue == \A p \in Programs : At(p, "purge") => meta \notin {NoEndpoint, prog[p].ep}

\* With one program, the outcome of the SELECT still holds at the DELETE.
LEMMA NextWipeIsDue == ~Together /\ IInv /\ WipeIsDue /\ [Next]_vars => WipeIsDue'
<1>. SUFFICES ASSUME ~Together, IInv, WipeIsDue, [Next]_vars PROVE WipeIsDue'
  OBVIOUS
<1>. USE DEF IInv, TypeOK, OneProgram, WipeIsDue, At
<1>1. ASSUME NEW p \in Programs, Start(p) PROVE WipeIsDue'
  BY <1>1 DEF Start, Down
<1>2. ASSUME NEW p \in Programs, CheckRead(p) PROVE WipeIsDue'
  <2>1. prog[p] \in Running
    BY <1>2, RunningShape DEF CheckRead
  <2>2. CASE meta = NoEndpoint /\ Goto(p, "insert")
    BY <1>2, <2>1, <2>2 DEF CheckRead, Goto, Running
  <2>3. CASE Opened(p)
    BY <1>2, <2>1, <2>3 DEF CheckRead, Opened, Running
  <2>4. CASE meta \notin {NoEndpoint, prog[p].ep} /\ Goto(p, "purge")
    BY <1>2, <2>1, <2>4 DEF CheckRead, Goto, Running
  <2>. QED  BY <1>2, <2>2, <2>3, <2>4 DEF CheckRead
<1>3. ASSUME NEW p \in Programs, CheckInsert(p) \/ CheckPurge(p) \/ CheckStamp(p)
      PROVE  WipeIsDue'
  <2>1. prog[p] \in Running /\ \A q \in Programs \ {p} : prog[q] = Down
    BY <1>3, RunningShape DEF CheckInsert, CheckPurge, CheckStamp, Down
  <2>. QED  BY <1>3, <2>1 DEF CheckInsert, CheckPurge, CheckStamp, Opened, Goto, Running, Down
<1>4. ASSUME NEW p \in Programs, SweepStart(p) \/ SweepMetrics(p) \/ SweepAudit(p) \/ SweepFails(p)
      PROVE  WipeIsDue'
  <2>1. prog[p] \in Running
    BY <1>4, RunningShape DEF SweepStart, SweepMetrics, SweepAudit, SweepFails
  <2>. QED  BY <1>4, <2>1 DEF SweepStart, SweepMetrics, SweepAudit, SweepFails, Running
<1>5. ASSUME NEW p \in Programs, Exit(p) PROVE WipeIsDue'
  BY <1>5 DEF Exit, Down
<1>6. CASE UNCHANGED <<meta, prog>>
  BY <1>6
<1>. QED
  BY <1>1, <1>2, <1>3, <1>4, <1>5, <1>6
     DEF Next, Opening, vars, StoreAuditLog, Store, EditConfig, TimePasses

\* What RecentKept says of one step.
RowsStay ==
  \A r \in metrics : r.age <= MaxAge => \E n \in metrics' : n.age \in {r.age, Older(r.age)}
AuditStays == \A a \in audit : a <= AuditAge => \E n \in audit' : n \in {a, Older(a)}

\* Only a wipe that is due takes a recent sample, and nothing a recent audit row.
LEMMA NextKeepsRecent ==
  ASSUME TypeOK, WipeIsDue, [Next]_vars
  PROVE  /\ RowsStay \/ \E p \in Programs : At(p, "purge") /\ meta \notin {NoEndpoint, prog[p].ep}
         /\ AuditStays
<1>. USE DEF TypeOK
<1>1. metrics \subseteq metrics' => RowsStay
  BY DEF RowsStay
<1>2. audit \subseteq audit' => AuditStays
  BY DEF AuditStays
<1>3. ASSUME NEW p \in Programs, CheckPurge(p)
      PROVE  /\ \E q \in Programs : At(q, "purge") /\ meta \notin {NoEndpoint, prog[q].ep}
             /\ AuditStays
  BY <1>2, <1>3 DEF CheckPurge, WipeIsDue
<1>4. ASSUME NEW p \in Programs, SweepMetrics(p) PROVE RowsStay /\ AuditStays
  BY <1>2, <1>4 DEF SweepMetrics, Kept, RowsStay
<1>5. ASSUME NEW p \in Programs, SweepAudit(p) PROVE RowsStay /\ AuditStays
  BY <1>1, <1>5 DEF SweepAudit, KeptAudit, AuditStays
<1>6. CASE TimePasses
  <2>1. ASSUME NEW r \in metrics
        PROVE  \E n \in metrics' : n.age \in {r.age, Older(r.age)}
    <3>1. [r EXCEPT !.age = Older(@)] \in metrics'
      BY <1>6 DEF TimePasses
    <3>2. [r EXCEPT !.age = Older(@)].age = Older(r.age)
      BY DEF Metric
    <3>. QED  BY <3>1, <3>2
  <2>. QED  BY <1>6, <2>1 DEF TimePasses, RowsStay, AuditStays
<1>7. CASE metrics \subseteq metrics' /\ audit \subseteq audit'
  BY <1>1, <1>2, <1>7
<1>. QED
  BY <1>3, <1>4, <1>5, <1>6, <1>7
     DEF Next, Opening, vars, Start, CheckRead, CheckInsert, CheckStamp, StoreAuditLog,
         SweepStart, SweepFails, Exit, Store, EditConfig

(* A recent sample is lost only to a change of the address, and a recent audit  *)
(* row never, whatever crashes in between (cleanup and CheckEndpointChange,     *)
(* storage.go).                                                                *)
THEOREM RecentSurvives == ASSUME ~Together PROVE Spec => RecentKept
<1>1. Init => WipeIsDue
  BY DEF Init, WipeIsDue, At, Down
<1>2. IInv /\ [Next]_vars => IInv'
  BY NextIInv
<1>3. IInv /\ WipeIsDue /\ [Next]_vars => WipeIsDue'
  BY NextWipeIsDue
<1>4. IInv /\ WipeIsDue /\ [Next]_vars =>
        [/\ RowsStay \/ \E p \in Programs : At(p, "purge") /\ meta \notin {NoEndpoint, prog[p].ep}
         /\ AuditStays]_vars
  BY NextKeepsRecent DEF IInv
<1>. QED  BY InitIInv, <1>1, <1>2, <1>3, <1>4, PTL DEF Spec, RecentKept, RowsStay, AuditStays

=============================================================================
