--------------------------- MODULE AccountsProofs ---------------------------
(***************************************************************************)
(* Proofs about Accounts, for any number of workers, passwords and kills:   *)
(* what the initial password is good for, when the password is known, and   *)
(* how many failures the lockout lets through.                             *)
(***************************************************************************)
EXTENDS Accounts, TLAPS, FiniteSetTheorems

USE DEF Idle, Stopped, history

\* The row is there, and somebody can tell its password.
Known == user # NoUser /\ (user.pass \in Chosen \/ file = user.pass)

\* What the server's start has done so far.
StartInv ==
  /\ server.pc = "create" => user = NoUser /\ server.pass # file
  /\ server.pc = "write" =>
       /\ user # NoUser /\ user.must /\ server.pass # file
       /\ user.pass \in Chosen \/ user.pass = server.pass
  /\ ~Serving => \A w \in Workers : req[w] = Idle
  /\ Serving => user # NoUser

\* Past the first change the password was chosen, and so was that of every session.
ChosenInv ==
  /\ user # NoUser /\ ~user.must => user.pass \in Chosen
  /\ sessions \cap Random = {}
  /\ \A w \in Workers : req[w].pc \in {"reset", "session"} => req[w].pass \in Chosen
  /\ \A w \in Workers : req[w].pc = "deleteFile" => user # NoUser /\ user.pass \in Chosen

\* An account is known once its file is written, unless its start was not finished.
KnownInv ==
  user # NoUser /\ server.pc \notin {"write", "rollback"} => Known \/ orphan

\* The file that a later change would leave behind is gone already.
Removed == file = NoFile \/ Deleting # {} \/ undeleted
FileInv ==
  /\ user # NoUser /\ ~user.must => Removed
  /\ \A w \in Workers : req[w].pc = "update" /\ ~req[w].first => Removed

IInv == TypeOK /\ StartInv /\ ChosenInv /\ KnownInv /\ FileInv /\ AttemptsBounded

-----------------------------------------------------------------------------

\* What the pc of a request, and of the start, says about its other fields.
LEMMA Shapes ==
  ASSUME TypeOK
  PROVE  /\ user # NoUser => user \in Account
         /\ \A w \in Workers :
              /\ req[w].pc \in {"count", "countRead", "lock"} => req[w] \in Counting
              /\ req[w].pc \in {"reset", "session"} => req[w] \in LoggingIn
              /\ req[w].pc = "update" => req[w] \in Changing
         /\ server.pc \in {"create", "write"} => server.pass \in Random
<1>1. ASSUME NEW w \in Workers
      PROVE  /\ req[w].pc \in {"count", "countRead", "lock"} => req[w] \in Counting
             /\ req[w].pc \in {"reset", "session"} => req[w] \in LoggingIn
             /\ req[w].pc = "update" => req[w] \in Changing
  <2>1. req[w] \in Request
    BY DEF TypeOK
  <2>. QED  BY <2>1 DEF Request, Counting, LoggingIn, Changing
<1>. QED  BY <1>1 DEF TypeOK

\* The history variables keep their types.
LEMMA HistoryTypes ==
  ASSUME TypeOK, [Next]_vars
  PROVE  orphan' \in BOOLEAN /\ undeleted' \in BOOLEAN /\ dropped' \in Nat /\ kills' \in 0..MaxKills
<1>1. TypeOK /\ MaxKills \in Nat /\ Cardinality(Late) \in Nat
  BY AccountsAssumption, FS_Subset, FS_CardinalityType DEF Late
<1>2. CASE Start \/ Look \/ CreateUser \/ WriteFile \/ Rollback
  BY <1>1, <1>2 DEF Start, Look, CreateUser, WriteFile, Rollback, TypeOK
<1>3. CASE Kill
  BY <1>1, <1>3 DEF Kill, TypeOK
<1>4. ASSUME NEW w \in Workers, RequestStep(w)
      PROVE  orphan' \in BOOLEAN /\ undeleted' \in BOOLEAN /\ dropped' \in Nat /\ kills' \in 0..MaxKills
  <2>1. CASE ReadAttempts(w) \/ SetLocked(w)
    BY <1>1, <2>1 DEF ReadAttempts, SetLocked, Drop, TypeOK
  <2>2. CASE ChangeDeleteFile(w)
    BY <1>1, <2>2 DEF ChangeDeleteFile, TypeOK
  <2>3. CASE ~(ReadAttempts(w) \/ SetLocked(w) \/ ChangeDeleteFile(w))
    <3>1. UNCHANGED history
      BY <1>4, <2>3 DEF RequestStep, WrongPassword, CountAttempt, Login, ResetLoginState, OpenSession,
           ChangeBegin, ChangeUpdate
    <3>. QED  BY <1>1, <3>1 DEF TypeOK
  <2>. QED  BY <2>1, <2>2, <2>3
<1>5. CASE \/ \E p \in Passwords : CloseSession(p)
           \/ \E p \in Chosen : ResetPassword(p)
           \/ Unlock \/ LockExpires \/ UNCHANGED vars
  BY <1>1, <1>5 DEF CloseSession, ResetPassword, Unlock, LockExpires, vars, TypeOK
<1>. QED  BY <1>2, <1>3, <1>4, <1>5 DEF Next

\* Every request finds the server serving and the account there, and leaves both so.
LEMMA RequestServes ==
  ASSUME TypeOK, StartInv, NEW w \in Workers, RequestStep(w)
  PROVE  Serving /\ user \in Account /\ UNCHANGED <<server, kills>>
<1>1. ASSUME req[w].pc # "idle" PROVE Serving
  BY <1>1 DEF StartInv
<1>2. Serving /\ UNCHANGED <<server, kills>>
  <2>1. CASE WrongPassword(w) \/ Login(w) \/ \E new \in Chosen : ChangeBegin(w, new)
    BY <2>1 DEF WrongPassword, Login, ChangeBegin, Asks
  <2>2. CASE CountAttempt(w) \/ ReadAttempts(w) \/ SetLocked(w)
    BY <1>1, <2>2 DEF CountAttempt, ReadAttempts, SetLocked, Drop
  <2>3. CASE ResetLoginState(w) \/ OpenSession(w)
    BY <1>1, <2>3 DEF ResetLoginState, OpenSession
  <2>4. CASE ChangeUpdate(w) \/ ChangeDeleteFile(w)
    BY <1>1, <2>4 DEF ChangeUpdate, ChangeDeleteFile
  <2>. QED  BY <2>1, <2>2, <2>3, <2>4 DEF RequestStep
<1>. QED  BY <1>2, Shapes DEF StartInv

\* The invariant holds at the beginning.
LEMMA InitIInv == Init => IInv
<1>. SUFFICES ASSUME Init PROVE IInv
  OBVIOUS
<1>. USE DEF Init
<1>1. TypeOK
  <2>0. orphan \in BOOLEAN /\ undeleted \in BOOLEAN
    BY Zenon
  <2>1. dropped \in Nat /\ kills \in 0..MaxKills
    BY AccountsAssumption
  <2>2. /\ user \in Account \cup {NoUser} /\ file \in Random \cup {NoFile, Unreadable}
        /\ req \in [Workers -> Request] /\ sessions \subseteq Passwords /\ server = Stopped
    BY DEF Request
  <2>. QED  BY <2>0, <2>1, <2>2 DEF TypeOK
<1>2. StartInv /\ ChosenInv /\ KnownInv /\ FileInv /\ AttemptsBounded
  BY DEF StartInv, ChosenInv, KnownInv, FileInv, AttemptsBounded, Serving
<1>. QED  BY <1>1, <1>2 DEF IInv

\* A request is only under way while the server serves, and there is an account then.
LEMMA NextTypeOK == TypeOK /\ StartInv /\ [Next]_vars => TypeOK'
<1>. SUFFICES ASSUME TypeOK, StartInv, [Next]_vars PROVE TypeOK'
  OBVIOUS
<1>0. 0 \in 0..MaxFailed
  BY AccountsAssumption
<1>1. ASSUME NEW w \in Workers, NEW r \in Request, Become(w, r)
      PROVE  req' \in [Workers -> Request]
  BY <1>1 DEF Become, TypeOK
<1>2. ASSUME NEW p \in Passwords, NEW must \in BOOLEAN
      PROVE  [pass |-> p, must |-> must, failed |-> 0, lock |-> "none"] \in Account
  BY <1>0 DEF Account
<1>3. CASE Start \/ Look
  BY <1>3 DEF Start, Look, TypeOK
<1>4. CASE CreateUser
  <2>1. server.pass \in Random
    BY <1>4, Shapes DEF CreateUser
  <2>2. [server EXCEPT !.pc = "write"] \in [pc : {"create", "write"}, pass : Random]
    BY <1>4 DEF CreateUser, TypeOK
  <2>3. [pass |-> server.pass, must |-> TRUE, failed |-> 0, lock |-> "none"] \in Account
    BY <1>2, <2>1 DEF Passwords
  <2>4. user' \in Account \cup {NoUser}
    BY <1>4, <2>3 DEF CreateUser, TypeOK
  <2>5. server' \in {Stopped} \cup [pc : {"create", "write"}, pass : Random]
    BY <1>4, <2>2 DEF CreateUser
  <2>. QED  BY <1>4, <2>4, <2>5 DEF CreateUser, TypeOK
<1>5. CASE WriteFile \/ Rollback
  BY <1>5, Shapes, HistoryTypes DEF WriteFile, Rollback, TypeOK
<1>6. CASE Kill
  BY <1>6, HistoryTypes DEF Kill, TypeOK, Request
<1>7. ASSUME NEW w \in Workers, RequestStep(w) PROVE TypeOK'
  <2>. user \in Account
    BY <1>7, RequestServes
  <2>1. CASE WrongPassword(w)
    <3>1. [pc |-> "count"] \in Request
      BY DEF Request, Counting
    <3>. QED  BY <1>1, <2>1, <3>1 DEF WrongPassword, TypeOK
  <2>2. CASE CountAttempt(w)
    <3>1. [pc |-> "countRead"] \in Request
      BY DEF Request, Counting
    <3>2. user' \in Account \cup {NoUser}
      BY <2>2, AccountsAssumption DEF CountAttempt, Account
    <3>3. Idle \in Request
      BY DEF Request
    <3>. QED  BY <1>1, <2>2, <3>1, <3>2, <3>3 DEF CountAttempt, TypeOK
  <2>3. CASE ReadAttempts(w)
    <3>1. [pc |-> "lock"] \in Request /\ Idle \in Request
      BY DEF Request, Counting
    <3>. QED  BY <1>1, <2>3, <3>1, HistoryTypes DEF ReadAttempts, Drop, TypeOK
  <2>4. CASE SetLocked(w)
    <3>1. user' \in Account \cup {NoUser}
      BY <2>4 DEF SetLocked, Account
    <3>. QED  BY <1>1, <2>4, <3>1, HistoryTypes DEF SetLocked, Drop, TypeOK, Request
  <2>5. CASE Login(w)
    <3>1. [pc |-> "reset", pass |-> user.pass] \in Request
      BY <2>5 DEF Login, Asks, TypeOK, Account, Request, LoggingIn
    <3>. QED  BY <1>1, <2>5, <3>1 DEF Login, TypeOK
  <2>6. CASE ResetLoginState(w)
    <3>1. [req[w] EXCEPT !.pc = "session"] \in Request
      BY <2>6, Shapes DEF ResetLoginState, LoggingIn, Request
    <3>2. user' \in Account \cup {NoUser}
      BY <1>0, <2>6 DEF ResetLoginState, Unlocked, Account
    <3>. QED  BY <1>1, <2>6, <3>1, <3>2 DEF ResetLoginState, TypeOK
  <2>7. CASE OpenSession(w)
    <3>1. req[w].pass \in Passwords
      BY <2>7, Shapes DEF OpenSession, LoggingIn
    <3>. QED  BY <1>1, <2>7, <3>1 DEF OpenSession, TypeOK, Request
  <2>8. ASSUME NEW new \in Chosen, ChangeBegin(w, new) PROVE TypeOK'
    <3>1. [pc |-> "update", new |-> new, first |-> user.must] \in Request
      BY <2>8 DEF ChangeBegin, Asks, TypeOK, Account, Request, Changing
    <3>. QED  BY <1>1, <2>8, <3>1 DEF ChangeBegin, TypeOK
  <2>9. CASE ChangeUpdate(w)
    <3>0. req[w].new \in Passwords
      BY <2>9, Shapes DEF ChangeUpdate, Changing, Passwords
    <3>1. user' \in Account
      BY <1>2, <2>9, <3>0 DEF ChangeUpdate
    <3>2. [pc |-> "deleteFile"] \in Request /\ Idle \in Request
      BY DEF Request
    <3>. QED  BY <1>1, <2>9, <3>1, <3>2 DEF ChangeUpdate, TypeOK
  <2>10. CASE ChangeDeleteFile(w)
    BY <1>1, <2>10, HistoryTypes DEF ChangeDeleteFile, TypeOK, Request
  <2>. QED
    BY <1>7, <2>1, <2>2, <2>3, <2>4, <2>5, <2>6, <2>7, <2>8, <2>9, <2>10 DEF RequestStep
<1>8. ASSUME NEW p \in Passwords, CloseSession(p) PROVE TypeOK'
  BY <1>8 DEF CloseSession, TypeOK
<1>9. ASSUME NEW p \in Chosen, ResetPassword(p) PROVE TypeOK'
  BY <1>2, <1>9 DEF ResetPassword, TypeOK, Passwords
<1>10. CASE Unlock \/ LockExpires
  BY <1>0, <1>10 DEF Unlock, Unlocked, LockExpires, TypeOK, Account
<1>11. CASE UNCHANGED vars
  BY <1>11 DEF vars, TypeOK
<1>. QED
  BY <1>3, <1>4, <1>5, <1>6, <1>7, <1>8, <1>9, <1>10, <1>11 DEF Next

(* What a step of a request or of the admin command makes of the row. *)
LEMMA AccountStep ==
  ASSUME TypeOK, user \in Account,
         \/ \E w \in Workers : RequestStep(w)
         \/ \E p \in Chosen : ResetPassword(p)
         \/ Unlock \/ LockExpires
  PROVE  /\ user' \in Account
         /\ \/ user'.pass = user.pass /\ user'.must = user.must
            \/ user'.pass \in Chosen
<1>1. 0 \in 0..MaxFailed
  BY AccountsAssumption
<1>2. ASSUME NEW w \in Workers, RequestStep(w)
      PROVE  \/ user' \in Account /\ user'.pass = user.pass /\ user'.must = user.must
             \/ user' \in Account /\ user'.pass \in Chosen
  <2>1. CASE WrongPassword(w) \/ Login(w) \/ \E new \in Chosen : ChangeBegin(w, new)
    BY <2>1 DEF WrongPassword, Login, ChangeBegin
  <2>2. CASE CountAttempt(w)
    BY <2>2, AccountsAssumption DEF CountAttempt, Account
  <2>3. CASE SetLocked(w)
    BY <2>3 DEF SetLocked, Account
  <2>4. CASE ResetLoginState(w)
    BY <1>1, <2>4 DEF ResetLoginState, Unlocked, Account
  <2>5. CASE ReadAttempts(w) \/ OpenSession(w) \/ ChangeDeleteFile(w)
    BY <2>5 DEF ReadAttempts, OpenSession, ChangeDeleteFile
  <2>6. CASE ChangeUpdate(w)
    <3>1. req[w].new \in Chosen
      BY <2>6, Shapes DEF ChangeUpdate, Changing
    <3>2. CASE user' = user
      BY <3>2
    <3>3. CASE user' = [pass |-> req[w].new, must |-> FALSE, failed |-> 0, lock |-> "none"]
      BY <1>1, <3>1, <3>3 DEF Account, Passwords
    <3>. QED  BY <2>6, <3>2, <3>3 DEF ChangeUpdate
  <2>. QED  BY <1>2, <2>1, <2>2, <2>3, <2>4, <2>5, <2>6 DEF RequestStep
<1>3. ASSUME NEW p \in Chosen, ResetPassword(p)
      PROVE  user' \in Account /\ user'.pass \in Chosen
  BY <1>1, <1>3 DEF ResetPassword, Account, Passwords
<1>4. ASSUME Unlock \/ LockExpires
      PROVE  user' \in Account /\ user'.pass = user.pass /\ user'.must = user.must
  BY <1>1, <1>4 DEF Unlock, Unlocked, LockExpires, Account
<1>. QED  BY <1>2, <1>3, <1>4

\* The start of the server is alone with the admin command.
LEMMA NextStartInv == TypeOK /\ StartInv /\ [Next]_vars => StartInv'
<1>. SUFFICES ASSUME TypeOK, StartInv, [Next]_vars PROVE StartInv'
  OBVIOUS
<1>0. NoUser \notin Account
  BY AccountsAssumption DEF Account, Passwords
<1>. USE DEF Serving
<1>1. CASE Start \/ Look
  BY <1>1 DEF Start, Look, StartInv
<1>2. CASE CreateUser
  <2>. DEFINE new == [pass |-> server.pass, must |-> TRUE, failed |-> 0, lock |-> "none"]
  <2>1. new # NoUser
    <3>1. server.pass \in Random
      BY <1>2, Shapes DEF CreateUser
    <3>2. new \in Account
      BY <3>1, AccountsAssumption DEF Account, Passwords
    <3>. QED  BY <1>0, <3>2
  <2>2. CASE user' = new /\ server' = [server EXCEPT !.pc = "write"]
    BY <1>2, <2>1, <2>2 DEF CreateUser, StartInv, TypeOK
  <2>3. CASE server' = Stopped
    BY <1>2, <2>3 DEF CreateUser, StartInv
  <2>. QED  BY <1>2, <2>2, <2>3 DEF CreateUser
<1>3. CASE WriteFile
  BY <1>3 DEF WriteFile, StartInv
<1>4. CASE Rollback \/ Kill
  BY <1>4 DEF Rollback, Kill, StartInv
<1>5. ASSUME NEW w \in Workers, RequestStep(w) PROVE StartInv'
  <2>1. Serving /\ server' = server /\ user' \in Account
    BY <1>5, RequestServes, AccountStep
  <2>. QED  BY <1>0, <2>1 DEF StartInv
<1>6. ASSUME NEW p \in Passwords, CloseSession(p) PROVE StartInv'
  BY <1>6 DEF CloseSession, StartInv
<1>7. ASSUME UNCHANGED <<file, server, req>>,
             (\E p \in Chosen : ResetPassword(p)) \/ Unlock \/ LockExpires
      PROVE  StartInv'
  <2>1. user # NoUser
    BY <1>7 DEF ResetPassword, Unlock, LockExpires
  <2>2. user \in Account
    BY <2>1, Shapes
  <2>3. user' \in Account /\ (user'.pass = user.pass \/ user'.pass \in Chosen)
    BY <1>7, <2>2, AccountStep
  <2>4. user'.must \/ user'.must = user.must
    <3>1. ASSUME NEW p \in Chosen, ResetPassword(p) PROVE user'.must
      BY <3>1 DEF ResetPassword
    <3>2. ASSUME Unlock \/ LockExpires PROVE user'.must = user.must
      BY <2>2, <3>2 DEF Unlock, Unlocked, LockExpires, Account
    <3>. QED  BY <1>7, <3>1, <3>2
  <2>. QED  BY <1>0, <1>7, <2>1, <2>3, <2>4 DEF StartInv
<1>8. ASSUME NEW p \in Chosen, ResetPassword(p) PROVE StartInv'
  BY <1>7, <1>8 DEF ResetPassword
<1>9. CASE Unlock \/ LockExpires
  BY <1>7, <1>9 DEF Unlock, LockExpires
<1>10. CASE UNCHANGED vars
  BY <1>10 DEF vars, StartInv
<1>. QED
  BY <1>1, <1>2, <1>3, <1>4, <1>5, <1>6, <1>8, <1>9, <1>10 DEF Next

\* A session is opened for a password that had been changed, so for a chosen one.
LEMMA NextChosenInv == TypeOK /\ StartInv /\ ChosenInv /\ [Next]_vars => ChosenInv'
<1>. SUFFICES ASSUME TypeOK, StartInv, ChosenInv, [Next]_vars PROVE ChosenInv'
  OBVIOUS
<1>0. NoUser \notin Account
  BY AccountsAssumption DEF Account, Passwords
<1>1. CASE Start \/ Look
  BY <1>1 DEF Start, Look, ChosenInv
<1>2. CASE CreateUser
  <2>1. \A w \in Workers : req[w] = Idle
    BY <1>2 DEF CreateUser, StartInv, Serving
  <2>. QED  BY <1>2, <2>1 DEF CreateUser, ChosenInv
<1>3. CASE WriteFile
  BY <1>3 DEF WriteFile, ChosenInv
<1>4. CASE Rollback
  <2>1. \A w \in Workers : req[w] = Idle
    BY <1>4 DEF Rollback, StartInv, Serving
  <2>. QED  BY <1>4, <2>1 DEF Rollback, ChosenInv
<1>5. CASE Kill
  BY <1>5 DEF Kill, ChosenInv
<1>6. ASSUME NEW w \in Workers, RequestStep(w) PROVE ChosenInv'
  <2>1. user \in Account /\ user # NoUser
    BY <1>0, <1>6, RequestServes
  <2>2. user' \in Account /\ user' # NoUser
    BY <1>0, <1>6, <2>1, AccountStep
  <2>3. CASE WrongPassword(w)
    BY <2>3 DEF WrongPassword, Become, ChosenInv, TypeOK
  <2>4. CASE CountAttempt(w)
    <3>1. user'.pass = user.pass /\ user'.must = user.must
      BY <2>1, <2>4 DEF CountAttempt, Account
    <3>. QED  BY <2>1, <2>2, <2>4, <3>1 DEF CountAttempt, Become, ChosenInv, TypeOK
  <2>5. CASE ReadAttempts(w)
    BY <2>5 DEF ReadAttempts, Drop, Become, ChosenInv, TypeOK
  <2>6. CASE SetLocked(w)
    <3>1. user'.pass = user.pass /\ user'.must = user.must
      BY <2>1, <2>6 DEF SetLocked, Account
    <3>. QED  BY <2>1, <2>2, <2>6, <3>1 DEF SetLocked, Drop, Become, ChosenInv, TypeOK
  <2>7. CASE Login(w)
    BY <2>1, <2>7 DEF Login, Asks, Become, ChosenInv, TypeOK
  <2>8. CASE ResetLoginState(w)
    <3>1. user'.pass = user.pass /\ user'.must = user.must
      BY <2>1, <2>8 DEF ResetLoginState, Unlocked, Account
    <3>2. req'[w].pass = req[w].pass
      BY <2>8, Shapes DEF ResetLoginState, Become, LoggingIn, TypeOK
    <3>. QED  BY <2>1, <2>2, <2>8, <3>1, <3>2 DEF ResetLoginState, Become, ChosenInv, TypeOK
  <2>9. CASE OpenSession(w)
    BY <2>9, AccountsAssumption DEF OpenSession, Become, ChosenInv, TypeOK
  <2>10. ASSUME NEW new \in Chosen, ChangeBegin(w, new) PROVE ChosenInv'
    BY <2>10 DEF ChangeBegin, Become, ChosenInv, TypeOK
  <2>11. CASE ChangeUpdate(w)
    <3>1. req[w].new \in Chosen
      BY <2>11, Shapes DEF ChangeUpdate, Changing
    <3>2. CASE user' = user /\ Become(w, Idle)
      BY <2>11, <3>2 DEF ChangeUpdate, Become, ChosenInv, TypeOK
    <3>3. CASE user' = [pass |-> req[w].new, must |-> FALSE, failed |-> 0, lock |-> "none"]
      BY <2>2, <2>11, <3>1, <3>3 DEF ChangeUpdate, Become, ChosenInv, TypeOK
    <3>. QED  BY <2>11, <3>2, <3>3 DEF ChangeUpdate
  <2>12. CASE ChangeDeleteFile(w)
    BY <2>12 DEF ChangeDeleteFile, Become, ChosenInv, TypeOK
  <2>. QED
    BY <1>6, <2>3, <2>4, <2>5, <2>6, <2>7, <2>8, <2>9, <2>10, <2>11, <2>12 DEF RequestStep
<1>7. ASSUME NEW p \in Passwords, CloseSession(p) PROVE ChosenInv'
  BY <1>7 DEF CloseSession, ChosenInv
<1>8. ASSUME NEW p \in Chosen, ResetPassword(p) PROVE ChosenInv'
  <2>1. user' \in Account /\ user' # NoUser
    BY <1>0, <1>8, Shapes, AccountStep DEF ResetPassword
  <2>. QED  BY <1>8, <2>1 DEF ResetPassword, ChosenInv
<1>9. CASE Unlock \/ LockExpires
  <2>1. user # NoUser /\ user \in Account
    BY <1>9, Shapes DEF Unlock, LockExpires
  <2>2. user'.pass = user.pass /\ user'.must = user.must /\ user' # NoUser
    BY <1>0, <1>9, <2>1, AccountStep DEF Unlock, Unlocked, LockExpires, Account
  <2>. QED  BY <1>9, <2>1, <2>2 DEF Unlock, LockExpires, ChosenInv
<1>10. CASE UNCHANGED vars
  BY <1>10 DEF vars, ChosenInv
<1>. QED
  BY <1>1, <1>2, <1>3, <1>4, <1>5, <1>6, <1>7, <1>8, <1>9, <1>10 DEF Next

(* While somebody knows the password, the only step that removes the account *)
(* is the rollback of its creation, and the file goes once it is not needed. *)
LEMMA KnownStep ==
  ASSUME TypeOK, StartInv, ChosenInv, Known, [Next]_vars
  PROVE  Known' \/ Rollback
<1>0. user \in Account /\ NoUser \notin Account /\ user # NoUser
  BY AccountsAssumption, Shapes DEF Account, Passwords, Known
<1>1. CASE Start \/ Look \/ Kill
  BY <1>1 DEF Start, Look, Kill, Known
<1>2. CASE CreateUser
  BY <1>0, <1>2 DEF CreateUser, StartInv
<1>3. CASE WriteFile
  <2>1. user.pass \in Chosen
    BY <1>3 DEF WriteFile, StartInv, Known
  <2>. QED  BY <1>3, <2>1 DEF WriteFile, Known
<1>4. ASSUME \/ \E w \in Workers : RequestStep(w)
             \/ \E p \in Chosen : ResetPassword(p)
             \/ Unlock \/ LockExpires
      PROVE  Known'
  <2>1. user' # NoUser /\ (user'.pass = user.pass \/ user'.pass \in Chosen)
    BY <1>0, <1>4, AccountStep
  <2>2. CASE file' = file
    BY <2>1, <2>2 DEF Known
  <2>3. CASE file' # file
    <3>1. PICK w \in Workers : ChangeDeleteFile(w)
      BY <1>4, <2>3 DEF RequestStep, WrongPassword, CountAttempt, ReadAttempts, SetLocked, Login,
                ResetLoginState, OpenSession, ChangeBegin, ChangeUpdate, ResetPassword, Unlock,
                LockExpires
    <3>. QED  BY <2>1, <3>1 DEF ChangeDeleteFile, ChosenInv, Known
  <2>. QED  BY <2>2, <2>3
<1>5. ASSUME NEW p \in Passwords, CloseSession(p) PROVE Known'
  BY <1>5 DEF CloseSession, Known
<1>6. CASE UNCHANGED vars
  BY <1>6 DEF vars, Known
<1>. QED
  BY <1>1, <1>2, <1>3, <1>4, <1>5, <1>6 DEF Next

\* An account comes to be in one go with its file, is removed again, or is an orphan.
LEMMA NextKnownInv ==
  TypeOK /\ StartInv /\ ChosenInv /\ KnownInv /\ [Next]_vars => KnownInv'
<1>. SUFFICES ASSUME TypeOK, StartInv, ChosenInv, KnownInv, [Next]_vars,
                     user' # NoUser, server'.pc \notin {"write", "rollback"}
              PROVE  Known' \/ orphan'
  BY DEF KnownInv
<1>1. CASE Start \/ Look
  BY <1>1 DEF Start, Look, KnownInv, Known
<1>2. CASE CreateUser \/ Rollback
  BY <1>2 DEF CreateUser, Rollback, StartInv, TypeOK
<1>3. CASE WriteFile
  BY <1>3 DEF WriteFile, StartInv, Known
<1>4. CASE Kill
  BY <1>4 DEF Kill, KnownInv, Known, TypeOK
<1>5. ASSUME UNCHANGED <<server, orphan>>, ~Rollback PROVE Known' \/ orphan'
  <2>1. CASE user = NoUser
    <3>1. \A w \in Workers : ~RequestStep(w)
      BY <2>1, RequestServes, AccountsAssumption DEF Account, Passwords
    <3>2. CreateUser
      BY <1>5, <2>1, <3>1 DEF Next, Start, Look, WriteFile, Kill, CloseSession, ResetPassword,
           Unlock, LockExpires, vars
    <3>. QED  BY <1>2, <3>2
  <2>2. CASE user # NoUser
    BY <1>5, <2>2, KnownStep DEF KnownInv
  <2>. QED  BY <2>1, <2>2
<1>6. ASSUME NEW w \in Workers, RequestStep(w) PROVE UNCHANGED <<server, orphan>> /\ ~Rollback
  <2>1. UNCHANGED orphan
    BY <1>6 DEF RequestStep, WrongPassword, CountAttempt, ReadAttempts, SetLocked, Drop, Login,
       ResetLoginState, OpenSession, ChangeBegin, ChangeUpdate, ChangeDeleteFile
  <2>. QED  BY <1>6, <2>1, RequestServes DEF Rollback, Serving
<1>7. ASSUME \/ \E p \in Passwords : CloseSession(p)
             \/ \E p \in Chosen : ResetPassword(p)
             \/ Unlock \/ LockExpires \/ UNCHANGED vars
      PROVE  UNCHANGED <<server, orphan>> /\ ~Rollback
  BY <1>7 DEF CloseSession, ResetPassword, Unlock, LockExpires, vars, Rollback
<1>. QED
  BY <1>1, <1>2, <1>3, <1>4, <1>5, <1>6, <1>7 DEF Next

\* A request that will remove the file is there before the account is past its first change.
LEMMA NextFileInv == TypeOK /\ StartInv /\ FileInv /\ [Next]_vars => FileInv'
<1>. SUFFICES ASSUME TypeOK, StartInv, FileInv, [Next]_vars PROVE FileInv'
  OBVIOUS
<1>1. CASE Start \/ Look \/ CreateUser \/ WriteFile \/ Rollback
  <2>1. \A w \in Workers : req'[w] = Idle
    BY <1>1 DEF Start, Look, CreateUser, WriteFile, Rollback, StartInv, Serving
  <2>2. ASSUME user' # NoUser, ~user'.must PROVE Removed'
    <3>1. CASE Start \/ Look \/ Rollback
      BY <2>2, <3>1 DEF Start, Look, Rollback, FileInv, Removed, Deleting
    <3>2. CASE CreateUser \/ WriteFile
      BY <2>2, <3>2 DEF CreateUser, WriteFile, StartInv, FileInv, Removed, Deleting
    <3>. QED  BY <1>1, <3>1, <3>2
  <2>. QED  BY <2>1, <2>2 DEF FileInv
<1>2. CASE Kill
  BY <1>2 DEF Kill, FileInv, Removed, Deleting
<1>3. ASSUME NEW w \in Workers, RequestStep(w) PROVE FileInv'
  <2>1. user \in Account /\ user # NoUser
    BY <1>3, RequestServes, AccountsAssumption DEF Account, Passwords
  <2>2. ASSUME UNCHANGED <<file, undeleted>>, req'[w].pc # "update", req[w].pc # "deleteFile",
               \A v \in Workers \ {w} : req'[v] = req[v], user'.must = user.must
        PROVE  FileInv'
    <3>1. Removed => Removed'
      BY <2>2 DEF Removed, Deleting
    <3>. QED  BY <2>1, <2>2, <3>1 DEF FileInv
  <2>3. CASE WrongPassword(w) \/ ReadAttempts(w) \/ Login(w) \/ OpenSession(w)
    <3>1. req'[w].pc # "update" /\ req[w].pc # "deleteFile"
      BY <2>3 DEF WrongPassword, ReadAttempts, Login, OpenSession, Drop, Asks, Become, TypeOK
    <3>2. \A v \in Workers \ {w} : req'[v] = req[v]
      BY <2>3 DEF WrongPassword, ReadAttempts, Login, OpenSession, Drop, Become, TypeOK
    <3>3. UNCHANGED <<user, file, undeleted>>
      BY <2>3 DEF WrongPassword, ReadAttempts, Drop, Login, OpenSession
    <3>. QED  BY <2>2, <3>1, <3>2, <3>3
  <2>4. CASE CountAttempt(w) \/ SetLocked(w) \/ ResetLoginState(w)
    <3>1. req'[w].pc # "update" /\ req[w].pc # "deleteFile"
      BY <2>4, Shapes
         DEF CountAttempt, SetLocked, ResetLoginState, Drop, Become, TypeOK, LoggingIn
    <3>2. \A v \in Workers \ {w} : req'[v] = req[v]
      BY <2>4 DEF CountAttempt, SetLocked, ResetLoginState, Drop, Become, TypeOK
    <3>3. user'.must = user.must /\ UNCHANGED <<file, undeleted>>
      BY <2>1, <2>4 DEF CountAttempt, SetLocked, ResetLoginState, Drop, Unlocked, Account
    <3>. QED  BY <2>2, <3>1, <3>2, <3>3
  <2>5. ASSUME NEW new \in Chosen, ChangeBegin(w, new) PROVE FileInv'
    <3>1. /\ UNCHANGED <<user, file, undeleted>> /\ req[w].pc # "deleteFile"
          /\ req' = [req EXCEPT ![w] = [pc |-> "update", new |-> new, first |-> user.must]]
      BY <2>5 DEF ChangeBegin, Asks, Become
    <3>2. Removed => Removed'
      BY <3>1 DEF Removed, Deleting, TypeOK
    <3>. QED  BY <2>1, <3>1, <3>2 DEF FileInv, TypeOK
  <2>6. CASE ChangeUpdate(w)
    <3>1. CASE user' = user /\ Become(w, Idle)
      <4>1. UNCHANGED <<file, undeleted>> /\ req[w].pc # "deleteFile"
        BY <2>6 DEF ChangeUpdate
      <4>. QED  BY <2>2, <3>1, <4>1 DEF Become, TypeOK
    <3>2. CASE Become(w, IF req[w].first THEN [pc |-> "deleteFile"] ELSE Idle)
      <4>1. CASE req[w].first
        <5>1. w \in Deleting'
          BY <2>6, <3>2, <4>1 DEF Become, TypeOK, Deleting
        <5>. QED  BY <5>1 DEF FileInv, Removed
      <4>2. CASE ~req[w].first
        <5>1. Removed
          BY <2>6, <4>2 DEF ChangeUpdate, FileInv
        <5>2. Removed'
          BY <2>6, <3>2, <4>2, <5>1 DEF ChangeUpdate, Become, TypeOK, Removed, Deleting
        <5>. QED  BY <5>2 DEF FileInv
      <4>. QED  BY <4>1, <4>2
    <3>. QED  BY <2>6, <3>1, <3>2 DEF ChangeUpdate
  <2>7. CASE ChangeDeleteFile(w)
    <3>1. Removed'
      BY <2>7 DEF ChangeDeleteFile, Removed
    <3>. QED  BY <3>1 DEF FileInv
  <2>. QED
    BY <1>3, <2>3, <2>4, <2>5, <2>6, <2>7 DEF RequestStep
<1>4. CASE \/ \E p \in Passwords : CloseSession(p)
           \/ \E p \in Chosen : ResetPassword(p)
           \/ Unlock \/ LockExpires \/ UNCHANGED vars
  <2>1. UNCHANGED <<req, file, undeleted>>
    BY <1>4 DEF CloseSession, ResetPassword, Unlock, LockExpires, vars
  <2>2. user' # NoUser /\ ~user'.must => user # NoUser /\ ~user.must
    <3>1. CASE Unlock \/ LockExpires
      BY <3>1, Shapes DEF Unlock, Unlocked, LockExpires, Account
    <3>. QED  BY <1>4, <3>1 DEF CloseSession, ResetPassword, vars
  <2>. QED  BY <2>1, <2>2 DEF FileInv, Removed, Deleting
<1>. QED  BY <1>1, <1>2, <1>3, <1>4 DEF Next

\* The requests between a failure and its lock are no more than the workers.
LEMMA LateFacts ==
  /\ Cardinality(Workers) \in Nat
  /\ Cardinality(Late) \in Nat /\ IsFiniteSet(Late)
  /\ Cardinality(Late) <= Cardinality(Workers)
BY AccountsAssumption, FS_Subset, FS_CardinalityType DEF Late

\* More of them count for more.
LEMMA MoreLate ==
  ASSUME Late \subseteq Late'
  PROVE  Cardinality(Late) <= Cardinality(Late')
<1>1. IsFiniteSet(Late')
  BY AccountsAssumption, FS_Subset DEF Late
<1>. QED  BY <1>1, FS_Subset

\* A failure that reaches the threshold stays late until the account is locked.
LEMMA NextAttempts == TypeOK /\ StartInv /\ AttemptsBounded /\ [Next]_vars => AttemptsBounded'
<1>. SUFFICES ASSUME TypeOK, StartInv, AttemptsBounded, [Next]_vars,
                     user' # NoUser, user'.lock = "none"
              PROVE  user'.failed < Threshold + Cardinality(Late') + dropped'
  BY DEF AttemptsBounded
<1>. DEFINE Bound == Threshold + Cardinality(Late) + dropped
            Bound2 == Threshold + Cardinality(Late') + dropped'
<1>1. Threshold \in Nat \ {0} /\ MaxFailed \in Nat /\ dropped \in Nat
  BY AccountsAssumption DEF TypeOK
<1>2. Cardinality(Late) \in Nat /\ Cardinality(Late') \in Nat /\ IsFiniteSet(Late')
      /\ Cardinality(Late) <= Cardinality(Workers)
  BY LateFacts, AccountsAssumption, FS_Subset, FS_CardinalityType DEF Late
<1>3. dropped' \in Nat
  BY HistoryTypes
<1>4. ASSUME user'.failed = 0 PROVE user'.failed < Bound2
  BY <1>1, <1>2, <1>3, <1>4
<1>5. ASSUME dropped' = dropped, user # NoUser, user.lock = "none", user'.failed = user.failed,
             Late \subseteq Late'
      PROVE  user'.failed < Bound2
  <2>1. user.failed \in Nat /\ user.failed < Bound
    BY <1>5, <1>1, Shapes DEF AttemptsBounded, Account
  <2>. QED  BY <1>1, <1>2, <1>5, <2>1, MoreLate
<1>6. CASE Start \/ Look \/ WriteFile
  <2>1. dropped' = dropped /\ user' = user /\ req' = req
    BY <1>6 DEF Start, Look, WriteFile
  <2>. QED  BY <1>5, <2>1 DEF Late
<1>7. CASE CreateUser
  BY <1>4, <1>5, <1>7 DEF CreateUser, StartInv, Late
<1>8. CASE Rollback
  BY <1>5, <1>8 DEF Rollback, Late
<1>9. CASE Kill
  <2>1. user' = user /\ dropped' = dropped + Cardinality(Late)
    BY <1>9 DEF Kill
  <2>2. user.failed \in Nat /\ user.failed < Bound
    BY <1>1, <2>1, Shapes DEF AttemptsBounded, Account
  <2>. QED  BY <1>1, <1>2, <2>1, <2>2
<1>10. ASSUME NEW w \in Workers, RequestStep(w) PROVE user'.failed < Bound2
  <2>1. user \in Account /\ user # NoUser
    BY <1>10, RequestServes, AccountsAssumption DEF Account, Passwords
  <2>2. user.failed \in Nat /\ (user.lock = "none" => user.failed < Bound)
    BY <1>1, <2>1 DEF AttemptsBounded, Account
  <2>3. CASE WrongPassword(w) \/ Login(w) \/ \E new \in Chosen : ChangeBegin(w, new)
    <3>1. user' = user /\ Late \subseteq Late' /\ dropped' = dropped
      BY <2>3 DEF WrongPassword, Login, ChangeBegin, Asks, Become, Late, TypeOK
    <3>. QED  BY <1>5, <2>1, <3>1
  <2>4. CASE CountAttempt(w)
    <3>0. dropped' = dropped /\ w \notin Late
      BY <2>4 DEF CountAttempt, Late
    <3>1. CASE Become(w, Idle) /\ user' = user
      <4>1. Late \subseteq Late'
        BY <3>0, <3>1 DEF Become, Late, TypeOK
      <4>. QED  BY <1>5, <2>1, <3>0, <3>1, <4>1
    <3>2. CASE /\ user' = [user EXCEPT !.failed = IF @ < MaxFailed THEN @ + 1 ELSE @]
               /\ Become(w, [pc |-> "countRead"])
      <4>1. user.lock = "none" /\ user'.failed <= user.failed + 1 /\ user'.failed \in Nat
        BY <1>1, <2>1, <3>2 DEF Account
      <4>2. Late' = Late \cup {w}
        BY <3>2 DEF Become, Late, TypeOK
      <4>3. Cardinality(Late') = Cardinality(Late) + 1
        BY <3>0, <4>2, LateFacts, FS_AddElement
      <4>. QED  BY <1>1, <1>2, <2>2, <3>0, <4>1, <4>3
    <3>. QED  BY <2>4, <3>1, <3>2 DEF CountAttempt
  <2>5. ASSUME w \in Late, Drop(w), user' = user PROVE user'.failed < Bound2
    <3>1. Late' = Late \ {w} /\ dropped' = dropped + 1
      BY <2>5 DEF Drop, Become, Late, TypeOK
    <3>2. Cardinality(Late') = Cardinality(Late) - 1
      BY <2>5, <3>1, LateFacts, FS_RemoveElement
    <3>. QED  BY <1>1, <1>2, <2>2, <2>5, <3>1, <3>2
  <2>6. CASE ReadAttempts(w)
    <3>0. w \in Late /\ user' = user
      BY <2>6 DEF ReadAttempts, Late
    <3>1. CASE Become(w, IF user.failed >= Threshold THEN [pc |-> "lock"] ELSE Idle) /\ dropped' = dropped
      <4>1. CASE user.failed >= Threshold
        <5>1. Late \subseteq Late'
          BY <3>1, <4>1 DEF Become, Late, TypeOK
        <5>. QED  BY <1>5, <2>1, <3>0, <3>1, <5>1
      <4>2. CASE ~(user.failed >= Threshold)
        BY <1>1, <1>2, <1>3, <2>2, <3>0, <4>2
      <4>. QED  BY <4>1, <4>2
    <3>. QED  BY <2>5, <2>6, <3>0, <3>1 DEF ReadAttempts
  <2>7. CASE SetLocked(w)
    <3>1. CASE user' = [user EXCEPT !.lock = "locked"]
      BY <2>1, <3>1 DEF Account
    <3>2. w \in Late
      BY <2>7 DEF SetLocked, Late
    <3>. QED  BY <2>5, <2>7, <3>1, <3>2 DEF SetLocked
  <2>8. CASE ResetLoginState(w) \/ ChangeUpdate(w)
    <3>1. dropped' = dropped /\ Late \subseteq Late'
      BY <2>8, Shapes DEF ResetLoginState, ChangeUpdate, Become, Late, TypeOK, LoggingIn
    <3>2. user'.failed = 0 \/ user' = user
      <4>1. CASE ResetLoginState(w)
        BY <2>1, <4>1 DEF ResetLoginState, Unlocked, Account
      <4>2. CASE ChangeUpdate(w)
        BY <4>2 DEF ChangeUpdate
      <4>. QED  BY <2>8, <4>1, <4>2
    <3>. QED  BY <1>4, <1>5, <2>1, <3>1, <3>2
  <2>9. CASE OpenSession(w) \/ ChangeDeleteFile(w)
    <3>1. user' = user /\ Late \subseteq Late' /\ dropped' = dropped
      BY <2>9 DEF OpenSession, ChangeDeleteFile, Become, Late, TypeOK
    <3>. QED  BY <1>5, <2>1, <3>1
  <2>. QED
    BY <1>10, <2>3, <2>4, <2>6, <2>7, <2>8, <2>9 DEF RequestStep
<1>11. CASE (\E p \in Passwords : CloseSession(p)) \/ UNCHANGED vars
  BY <1>5, <1>11 DEF CloseSession, vars, Late
<1>12. CASE \E p \in Chosen : ResetPassword(p)
  BY <1>4, <1>12 DEF ResetPassword
<1>13. CASE Unlock
  BY <1>4, <1>13, Shapes DEF Unlock, Unlocked, Account
<1>14. CASE LockExpires
  <2>1. user'.lock = "over"
    BY <1>14, Shapes DEF LockExpires, Account
  <2>. QED  BY <2>1
<1>. QED
  BY <1>6, <1>7, <1>8, <1>9, <1>10, <1>11, <1>12, <1>13, <1>14 DEF Next

-----------------------------------------------------------------------------

(* The inductive invariant: how far the start is, which passwords were       *)
(* chosen, what the file is still needed for, and the bound on failures.    *)
THEOREM Invariance == Spec => []IInv
<1>1. Init => IInv
  BY InitIInv
<1>2. IInv /\ [Next]_vars => IInv'
  BY NextTypeOK, NextStartInv, NextChosenInv, NextKnownInv, NextFileInv, NextAttempts DEF IInv
<1>. QED  BY <1>1, <1>2, PTL DEF Spec

(* The state of the account, the file, the requests and the sessions is      *)
(* always of its type: no statement meets a row that is not there.          *)
THEOREM AccountsTypeCorrect == Spec => []TypeOK
<1>1. IInv => TypeOK
  BY DEF IInv
<1>. QED  BY <1>1, Invariance, PTL

(* EnsureDefaultAdmin, with the admin command beside it: a serving server    *)
(* has an account whose password is known, or one that an earlier start     *)
(* could neither complete nor remove.                                      *)
THEOREM AccountsAreKnown == Spec => []PasswordKnown
<1>1. IInv => PasswordKnown
  BY DEF IInv, StartInv, KnownInv, Known, PasswordKnown, NoUnknownPassword, Serving
<1>. QED  BY <1>1, Invariance, PTL

(* Killed or not: a known password stays known until the account is gone.    *)
THEOREM KnownForGood == Spec => KnownStays
<1>1. IInv /\ [Next]_vars
        => [user # NoUser /\ (user.pass \in Chosen \/ file = user.pass)
              => user' = NoUser \/ user'.pass \in Chosen \/ file' = user'.pass]_vars
  BY KnownStep DEF IInv, Known, Rollback
<1>. QED  BY <1>1, Invariance, PTL DEF Spec, KnownStays

(* HandleLogin opens no session with an initial password.                    *)
THEOREM InitialPasswordOpensNothing == Spec => []InitialOpensNothing
<1>1. IInv => InitialOpensNothing
  BY DEF IInv, ChosenInv, InitialOpensNothing
<1>. QED  BY <1>1, Invariance, PTL

(* HandleChangePassword removes the file with the first change, however many *)
(* changes overlap, or its one attempt to remove it failed or was cut off.  *)
THEOREM FileRemoved == Spec => []FileGone
<1>1. IInv => FileGone
  BY DEF IInv, FileInv, Removed, FileGone, FileDeleted
<1>. QED  BY <1>1, Invariance, PTL

(* handleFailedAttempt lets no more failures through than the threshold, the *)
(* requests that overlap and those cut off before they locked the account.  *)
THEOREM LockoutBound == Spec => []AttemptsBounded
<1>1. IInv => AttemptsBounded
  BY DEF IInv
<1>. QED  BY <1>1, Invariance, PTL

=============================================================================
