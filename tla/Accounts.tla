------------------------------ MODULE Accounts ------------------------------
(***************************************************************************)
(* The admin account, the only row the table users can have: its creation   *)
(* when the server first starts, the file that tells the initial password,  *)
(* logins, password changes, the lockout, the admin command and sessions.   *)
(*                                                                         *)
(* A request reads the row once and works on that copy; every later SQL     *)
(* statement, file operation and access to the session store is an action   *)
(* of its own.  Comparing a hash is comparing the password, which needs the *)
(* copy only, so it is one action with the read.  Every statement and file  *)
(* operation may fail; a read that fails ends its request, as if it had not *)
(* been made.  Sessions with the same password are one, timestamps and the  *)
(* audit log are left out.                                                 *)
(***************************************************************************)
EXTENDS Integers, FiniteSets

CONSTANTS
  Random,      \* what GenerateInitialPassword may draw; nobody types these as a new one
  Chosen,      \* passwords people set: they know them
  Workers,     \* goroutines serving requests: bounds the concurrent requests
  Threshold,   \* auth.lockout_threshold
  MaxFailed,   \* failed attempts from which on counts look alike
  MaxKills,    \* bounds how often the server is killed
  MaxDropped,  \* bounds the statements of the lockout that fail
  NoUser, NoFile,
  Unreadable   \* the file after a failed write

ASSUME AccountsAssumption ==
  /\ Random \cap Chosen = {} /\ {NoFile, Unreadable} \cap (Random \cup Chosen) = {}
  /\ IsFiniteSet(Workers)
  /\ Threshold \in Nat \ {0} /\ MaxFailed \in Nat /\ MaxKills \in Nat /\ MaxDropped \in Nat
  /\ MaxFailed >= Threshold + MaxDropped + Cardinality(Workers) * (1 + MaxKills)
  /\ NoUser \notin [pass : Random \cup Chosen, must : BOOLEAN, failed : 0..MaxFailed,
                    lock : {"none", "locked", "over"}]

VARIABLES
  user,      \* the row, or NoUser
  file,      \* data/initial-admin-password
  server,    \* where the start of the server is, and the password it drew
  req,       \* what each worker is doing
  sessions,  \* the passwords that opened the sessions in memory
  orphan,    \* history: a start ended, other than serving, without removing its account
  undeleted, \* history: a removal of the file was due and failed, or was never made
  dropped,   \* history: requests that counted a failure and ended before its lockout
  kills      \* of the server, so far

history == <<orphan, undeleted, dropped, kills>>
vars == <<user, file, server, req, sessions, orphan, undeleted, dropped, kills>>

Passwords == Random \cup Chosen
\* locked_until is 0, in the future, or over.
Account == [pass : Passwords, must : BOOLEAN, failed : 0..MaxFailed,
            lock : {"none", "locked", "over"}]

Idle == [pc |-> "idle"]
Stopped == [pc |-> "down"]
Counting == [pc : {"count", "countRead", "lock"}]
LoggingIn == [pc : {"reset", "session"}, pass : Passwords]
Changing == [pc : {"update"}, new : Chosen, first : BOOLEAN]
Request == {Idle, [pc |-> "deleteFile"]} \cup Counting \cup LoggingIn \cup Changing

TypeOK ==
  /\ user \in Account \cup {NoUser}
  /\ file \in Random \cup {NoFile, Unreadable}
  /\ server \in {Stopped, [pc |-> "look"], [pc |-> "rollback"], [pc |-> "serving"]}
                \cup [pc : {"create", "write"}, pass : Random]
  /\ req \in [Workers -> Request]
  /\ sessions \subseteq Passwords
  /\ orphan \in BOOLEAN /\ undeleted \in BOOLEAN
  /\ dropped \in Nat
  /\ kills \in 0..MaxKills

Init ==
  /\ user = NoUser /\ file = NoFile
  /\ server = Stopped
  /\ req = [w \in Workers |-> Idle]
  /\ sessions = {}
  /\ orphan = FALSE /\ undeleted = FALSE /\ dropped = 0 /\ kills = 0

Serving == server.pc = "serving"
Become(w, r) == req' = [req EXCEPT ![w] = r]
Unlocked(u) == [u EXCEPT !.failed = 0, !.lock = "none"]

-----------------------------------------------------------------------------
(* EnsureDefaultAdmin, when the server starts. *)

Start ==
  /\ server = Stopped
  /\ server' = [pc |-> "look"]
  /\ UNCHANGED <<user, file, req, sessions, history>>

\* Any account will do; else a fresh password is drawn.  Without an answer the start ends.
Look ==
  /\ server.pc = "look"
  /\ \/ user # NoUser /\ server' = [pc |-> "serving"]
     \/ /\ user = NoUser
        /\ \E p \in Random \ {file} : server' = [pc |-> "create", pass |-> p]
     \/ server' = Stopped
  /\ UNCHANGED <<user, file, req, sessions, history>>

CreateMayKeep ==
  /\ server.pc = "create"
  /\ user' = [pass |-> server.pass, must |-> FALSE, failed |-> 0, lock |-> "none"]
  /\ server' = [server EXCEPT !.pc = "write"]
  /\ UNCHANGED <<file, req, sessions, history>>

CreateUnlocked ==
  /\ server.pc = "create"
  /\ user' = [pass |-> server.pass, must |-> TRUE, failed |-> 0]
  /\ server' = [server EXCEPT !.pc = "write"]
  /\ UNCHANGED <<file, req, sessions, history>>

CreateUser ==
  /\ server.pc = "create"
  /\ \/ /\ user' = [pass |-> server.pass, must |-> TRUE, failed |-> 0, lock |-> "none"]
        /\ server' = [server EXCEPT !.pc = "write"]
     \/ UNCHANGED user /\ server' = Stopped
  /\ UNCHANGED <<file, req, sessions, history>>

\* The file cannot be opened, or is truncated and then not written.
WriteFile ==
  /\ server.pc = "write"
  /\ \/ file' = server.pass /\ server' = [pc |-> "serving"]
     \/ file' \in {file, Unreadable} /\ server' = [pc |-> "rollback"]
  /\ UNCHANGED <<user, req, sessions, history>>

RollbackForgotten ==
  /\ server.pc = "rollback"
  /\ server' = Stopped
  /\ UNCHANGED <<user, file, req, sessions, history>>

\* The account is removed again, unless DeleteUser fails; the server does not start.
Rollback ==
  /\ server.pc = "rollback"
  /\ \/ user' = NoUser /\ UNCHANGED orphan
     \/ UNCHANGED user /\ orphan' = TRUE
  /\ server' = Stopped
  /\ UNCHANGED <<file, req, sessions, undeleted, dropped, kills>>

\* The requests about to remove the file, and those between a failure and its lockout.
Deleting == {w \in Workers : req[w].pc = "deleteFile"}
Late == {w \in Workers : req[w].pc \in {"countRead", "lock"}}

\* Whatever is in memory is gone.
Kill ==
  /\ server # Stopped /\ kills < MaxKills
  /\ server' = Stopped /\ kills' = kills + 1
  /\ req' = [w \in Workers |-> Idle]
  /\ sessions' = {}
  /\ orphan' = (orphan \/ server.pc \in {"write", "rollback"})
  /\ undeleted' = (undeleted \/ Deleting # {})
  /\ dropped' = dropped + Cardinality(Late)
  /\ UNCHANGED <<user, file>>

-----------------------------------------------------------------------------
(* Requests. *)

\* The row is read and not locked.
Asks(w) == Serving /\ req[w] = Idle /\ user # NoUser /\ user.lock # "locked"

\* A wrong password, in a login or as the old one of a change.
WrongPassword(w) ==
  /\ Asks(w)
  /\ \E p \in Passwords : p # user.pass
  /\ Become(w, [pc |-> "count"])
  /\ UNCHANGED <<user, file, server, sessions, history>>

\* handleFailedAttempt: UPDATE, SELECT, and the lock as a third statement; the first of
\* them that fails is the last.
CountAttempt(w) ==
  /\ req[w].pc = "count"
  /\ \/ /\ user' = [user EXCEPT !.failed = IF @ < MaxFailed THEN @ + 1 ELSE @]
        /\ Become(w, [pc |-> "countRead"])
     \/ UNCHANGED user /\ Become(w, Idle)
  /\ UNCHANGED <<file, server, sessions, history>>

Drop(w) ==
  /\ dropped < MaxDropped /\ dropped' = dropped + 1
  /\ Become(w, Idle)
  /\ UNCHANGED <<orphan, undeleted, kills>>

ReadAttemptsExactly(w) ==
  /\ req[w].pc = "countRead"
  /\ Become(w, IF user.failed = Threshold THEN [pc |-> "lock"] ELSE Idle)
  /\ UNCHANGED <<user, file, server, sessions, history>>

ReadAttempts(w) ==
  /\ req[w].pc = "countRead"
  /\ \/ /\ Become(w, IF user.failed >= Threshold THEN [pc |-> "lock"] ELSE Idle)
        /\ UNCHANGED history
     \/ Drop(w)
  /\ UNCHANGED <<user, file, server, sessions>>

SetLocked(w) ==
  /\ req[w].pc = "lock"
  /\ \/ user' = [user EXCEPT !.lock = "locked"] /\ Become(w, Idle) /\ UNCHANGED history
     \/ UNCHANGED user /\ Drop(w)
  /\ UNCHANGED <<file, server, sessions>>

\* The right password; an account that must change it gets no session, and nothing happens.
Login(w) ==
  /\ Asks(w) /\ ~user.must
  /\ Become(w, [pc |-> "reset", pass |-> user.pass])
  /\ UNCHANGED <<user, file, server, sessions, history>>

\* Its error is ignored.
ResetLoginState(w) ==
  /\ req[w].pc = "reset"
  /\ user' \in {Unlocked(user), user}
  /\ Become(w, [req[w] EXCEPT !.pc = "session"])
  /\ UNCHANGED <<file, server, sessions, history>>

OpenSession(w) ==
  /\ req[w].pc = "session"
  /\ sessions' = sessions \cup {req[w].pass}
  /\ Become(w, Idle)
  /\ UNCHANGED <<user, file, server, history>>

\* Logout, expiry or the cleanup of expired sessions.
CloseSession(p) ==
  /\ p \in sessions
  /\ sessions' = sessions \ {p}
  /\ UNCHANGED <<user, file, server, req, history>>

\* The right old password and another new one.
ChangeBegin(w, new) ==
  /\ Asks(w) /\ new # user.pass
  /\ Become(w, [pc |-> "update", new |-> new, first |-> user.must])
  /\ UNCHANGED <<user, file, server, sessions, history>>

ChangeDeletesFirst(w) ==
  /\ req[w].pc = "update"
  /\ IF req[w].first /\ file # NoFile
     THEN file' = NoFile /\ UNCHANGED <<user, req>>
     ELSE /\ user' = [pass |-> req[w].new, must |-> FALSE, failed |-> 0, lock |-> "none"]
          /\ Become(w, Idle) /\ UNCHANGED file
  /\ UNCHANGED <<server, sessions, history>>

ChangeKeepsFile(w) ==
  /\ req[w].pc = "update"
  /\ user' = [pass |-> req[w].new, must |-> FALSE, failed |-> 0, lock |-> "none"]
  /\ Become(w, Idle)
  /\ UNCHANGED <<file, server, sessions, history>>

\* UpdatePassword clears the lockout too; a first change goes on to remove the file.
ChangeUpdate(w) ==
  /\ req[w].pc = "update"
  /\ \/ /\ user' = [pass |-> req[w].new, must |-> FALSE, failed |-> 0, lock |-> "none"]
        /\ Become(w, IF req[w].first THEN [pc |-> "deleteFile"] ELSE Idle)
     \/ UNCHANGED user /\ Become(w, Idle)
  /\ UNCHANGED <<file, server, sessions, history>>

\* A failure is logged; nobody tries again.
ChangeDeleteFile(w) ==
  /\ req[w].pc = "deleteFile"
  /\ \/ file' = NoFile /\ UNCHANGED undeleted
     \/ UNCHANGED file /\ undeleted' = TRUE
  /\ Become(w, Idle)
  /\ UNCHANGED <<user, server, sessions, orphan, dropped, kills>>

-----------------------------------------------------------------------------
(* The admin command, in a process of its own; and time. *)

ResetPassword(p) ==
  /\ user # NoUser
  /\ user' = [pass |-> p, must |-> TRUE, failed |-> 0, lock |-> "none"]
  /\ UNCHANGED <<file, server, req, sessions, history>>

Unlock ==
  /\ user # NoUser
  /\ user' = Unlocked(user)
  /\ UNCHANGED <<file, server, req, sessions, history>>

LockExpires ==
  /\ user # NoUser /\ user.lock = "locked"
  /\ user' = [user EXCEPT !.lock = "over"]
  /\ UNCHANGED <<file, server, req, sessions, history>>

-----------------------------------------------------------------------------

RequestStep(w) ==
  \/ WrongPassword(w) \/ CountAttempt(w) \/ ReadAttempts(w) \/ SetLocked(w)
  \/ Login(w) \/ ResetLoginState(w) \/ OpenSession(w)
  \/ \E new \in Chosen : ChangeBegin(w, new)
  \/ ChangeUpdate(w) \/ ChangeDeleteFile(w)

Next ==
  \/ Start \/ Look \/ CreateUser \/ WriteFile \/ Rollback \/ Kill
  \/ \E w \in Workers : RequestStep(w)
  \/ \E p \in Passwords : CloseSession(p)
  \/ \E p \in Chosen : ResetPassword(p)
  \/ Unlock \/ LockExpires

Spec == Init /\ [][Next]_vars

-----------------------------------------------------------------------------
(* Correctness. *)

(* bootstrap.go:38: a rollback avoids "an account whose password nobody       *)
(* knows".  Whoever finds the server serving can log in: the file tells the *)
(* password or somebody has set it.                                        *)
NoUnknownPassword ==
  Serving => user # NoUser /\ (user.pass \in Chosen \/ file = user.pass)

(* It is so, whatever else fails, is killed or starts again and even if the  *)
(* admin command runs in the middle of a start, unless a start left its     *)
(* account behind: killed before its file was written, or with a rollback   *)
(* that failed.                                                            *)
PasswordKnown == NoUnknownPassword \/ orphan

(* Killed or not, a password that was known stays known: the file is never   *)
(* removed while the account still has the password it tells.               *)
KnownStays ==
  [][user # NoUser /\ (user.pass \in Chosen \/ file = user.pass)
       => user' = NoUser \/ user'.pass \in Chosen \/ file' = user'.pass]_vars

(* The initial password only serves to set another one: no session is ever   *)
(* opened with it, whatever requests and admin commands overlap.            *)
InitialOpensNothing == sessions \cap Random = {}

(* CHANGELOG.md:47, SECURITY_CHECKLIST.md:67: once the account is past its   *)
(* first change the file is gone, or the change that removes it is under    *)
(* way.                                                                    *)
FileDeleted ==
  user # NoUser /\ ~user.must => file = NoFile \/ Deleting # {}

(* It is so, also when several changes verified the old password at once,    *)
(* the admin command reset it in between or the server starts again, unless *)
(* a removal that was due failed or was cut off by a kill.                  *)
FileGone == FileDeleted \/ undeleted

(* The lockout is three statements, and other requests run between them; an  *)
(* account that was not locked since its last success has seen fewer        *)
(* failures than the threshold, but for requests that are still about to    *)
(* lock it and those that a kill or a failing statement ended before.       *)
AttemptsBounded ==
  user # NoUser /\ user.lock = "none" =>
    user.failed < Threshold + Cardinality(Late) + dropped
=============================================================================
