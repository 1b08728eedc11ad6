-------------------------------- MODULE Tabs --------------------------------
(***************************************************************************)
(* The multi-cluster tabs of the KV manager: the rows of kv_cluster_tabs,   *)
(* the HTTP handlers that create, patch, delete and reorder them, the KV    *)
(* requests that go through a tab, and the background liveness probe.       *)
(*                                                                         *)
(* The database has a single connection, so every SQL statement (and every  *)
(* transaction) is atomic; a handler is split into one action per statement *)
(* it runs and per call to etcd it makes, and anything may happen between   *)
(* two of them.  Credentials, names, timestamps, the audit trail and        *)
(* database errors are left out.  The member check that follows a           *)
(* connection test only reads, so the two are one action.  A default tab is *)
(* never stored and has no row.                                             *)
(***************************************************************************)
EXTENDS Integers, FiniteSets, Sequences

CONSTANTS
  Users,
  TabIds,        \* the UUIDs that can be drawn: bounds the number of creations
  Endpoints,
  DefaultMembers,\* endpoints of the default cluster, as its MemberList reports them
  Fallback,      \* the configured endpoints, compared when MemberList fails
  Workers,       \* goroutines serving HTTP requests: bounds the concurrent requests
  SerialUsers,   \* users who wait for an answer before they send the next request
  Work,          \* the kinds of work a run exercises
  MaxTabs,       \* the limit per user (10 in the code)
  Threshold,     \* failed probes in a row before a tab is marked (2 in the code)
  NoRow,         \* "no row with this id"
  KeepEndpoint   \* a PATCH that does not name another endpoint

ASSUME TabsAssumption ==
  /\ MaxTabs \in Nat \ {0}
  /\ Threshold \in Nat \ {0}
  /\ IsFiniteSet(TabIds)
  /\ IsFiniteSet(Workers)
  /\ SerialUsers \subseteq Users
  /\ Fallback \subseteq Endpoints /\ DefaultMembers \subseteq Endpoints
  /\ Work \subseteq {"create", "patch", "delete", "reorder", "kv", "probe"}
  /\ NoRow \notin [owner : Users, ep : Endpoints, order : Nat, status : {"ok", "error"}]
  /\ KeepEndpoint \notin Endpoints

VARIABLES
  rows,          \* kv_cluster_tabs: TabIds -> a row or NoRow
  used,          \* ids drawn so far: a UUID is never drawn twice
  failureCount,  \* Manager.failureCount; counts from Threshold on are alike
  reachable,     \* the endpoints that answer right now
  req,           \* what each worker is doing
  sched,         \* the goroutine of PingScheduler.run
  cancelled      \* its context was cancelled by Stop

vars == <<rows, used, failureCount, reachable, req, sched, cancelled>>

Status == {"ok", "error"}
Row == [owner : Users, ep : Endpoints, order : Nat, status : Status]

Idle == [pc |-> "idle"]
Waiting == [pc |-> "wait"]

\* A creation that passed the limit check; order is drawn in its second step.
Creating == [pc : {"createVerify", "createOrder", "createInsert"},
             user : Users, ep : Endpoints, order : Nat]
\* A PATCH that read the row; ep is what it will store.
Patching == [pc : {"patchVerify", "patchStatus", "patchUpdate"},
             user : Users, tab : TabIds, ep : Endpoints \cup {KeepEndpoint}]
\* A KV request that resolved its tab; ep is the endpoint it talks to.
Calling == [pc : {"kvCall", "kvFailed", "kvReset", "kvMarkOk"},
            user : Users, tab : TabIds, ep : Endpoints]
Deleting == [pc : {"delete"}, user : Users, tab : TabIds]
Request == {Idle} \cup Creating \cup Patching \cup Deleting \cup Calling

\* The scheduler between two pings, and inside of one.
Looping == [pc : {"loop"}, todo : SUBSET TabIds]
Probing == [pc : {"probe", "succeeded", "failed"}, todo : SUBSET TabIds, tab : TabIds,
            ep : Endpoints, status : Status]
Writing == [pc : {"write"}, todo : SUBSET TabIds, tab : TabIds, status : Status,
            count : 0..Threshold]
Scheduler == {Waiting, [pc |-> "stopped"]} \cup Looping \cup Probing \cup Writing

TypeOK ==
  /\ rows \in [TabIds -> Row \cup {NoRow}]
  /\ used \subseteq TabIds
  /\ failureCount \in [TabIds -> 0..Threshold]
  /\ reachable \subseteq Endpoints
  /\ req \in [Workers -> Request]
  /\ sched \in Scheduler
  /\ cancelled \in BOOLEAN

-----------------------------------------------------------------------------
(* The repository. *)

Live == {t \in TabIds : rows[t] # NoRow}

Owned(u) == {t \in Live : rows[t].owner = u}

UnderLimitOffByOne(u) == Cardinality(Owned(u)) <= MaxTabs

UnderLimit(u) == Cardinality(Owned(u)) < MaxTabs

NextOrderNoIncrement(u) ==
  CHOOSE n \in {-1} \cup {rows[t].order : t \in Owned(u)} :
    \A t \in Owned(u) : rows[t].order <= n

\* COALESCE(MAX(sort_order), -1) + 1 over the user's rows.
NextOrder(u) ==
  CHOOSE n \in {0} \cup {rows[t].order + 1 : t \in Owned(u)} :
    \A t \in Owned(u) : rows[t].order < n

UpsertStatus(t, s) ==
  [rows EXCEPT ![t] = IF @ = NoRow
                      THEN [owner |-> CHOOSE u \in Users : TRUE, order |-> 0, status |-> s,
                            ep |-> CHOOSE e \in Endpoints : TRUE]
                      ELSE [@ EXCEPT !.status = s]]

\* UPDATE ... SET last_status WHERE id: no user filter, no effect without a row.
UpdateStatus(t, s) ==
  IF rows[t] = NoRow THEN rows ELSE [rows EXCEPT ![t].status = s]

FoundAnyOwner(u, t) == t \in Live

\* WHERE id AND created_by_user_id matched a row.
Found(u, t) == t \in Owned(u)

LastIndexOf(ids, t) ==
  CHOOSE i \in DOMAIN ids : ids[i] = t /\ \A j \in DOMAIN ids : ids[j] = t => j <= i

Init ==
  /\ rows = [t \in TabIds |-> NoRow]
  /\ used = {}
  /\ failureCount = [t \in TabIds |-> 0]
  /\ reachable = Endpoints
  /\ req = [w \in Workers |-> Idle]
  /\ sched = Waiting
  /\ cancelled = FALSE

-----------------------------------------------------------------------------
(* Requests of users. *)

Busy(u) == \E w \in Workers : req[w] # Idle /\ req[w].user = u

\* A user sends a request of this kind; a serial user has none outstanding.
Sends(u, kind) == kind \in Work /\ (u \in SerialUsers => ~Busy(u))

Become(w, r) == req' = [req EXCEPT ![w] = r]
Goto(w, pc) == req' = [req EXCEPT ![w].pc = pc]

\* The endpoint is a member of the default cluster; a failed MemberList degrades
\* the comparison to the configured endpoints.
BelongsToDefault(e, degraded) == e \in IF degraded THEN Fallback ELSE DefaultMembers

\* TestConnection succeeds and the member check does not match.
Verified(e) == e \in reachable /\ \E degraded \in BOOLEAN : ~BelongsToDefault(e, degraded)
Rejected(e) == e \notin reachable \/ \E degraded \in BOOLEAN : BelongsToDefault(e, degraded)

\* POST: the user is under the limit and the connection test starts.
CreateBegin(w, u, e) ==
  /\ req[w] = Idle /\ Sends(u, "create")
  /\ UnderLimit(u)
  /\ Become(w, [pc |-> "createVerify", user |-> u, ep |-> e, order |-> 0])
  /\ UNCHANGED <<rows, used, failureCount, reachable, sched, cancelled>>

CreateVerify(w) ==
  /\ req[w].pc = "createVerify"
  /\ \/ Verified(req[w].ep) /\ Goto(w, "createOrder")
     \/ Rejected(req[w].ep) /\ Become(w, Idle)
  /\ UNCHANGED <<rows, used, failureCount, reachable, sched, cancelled>>

\* Repo.Create, first statement.
CreateOrder(w) ==
  /\ req[w].pc = "createOrder"
  /\ Become(w, [req[w] EXCEPT !.pc = "createInsert", !.order = NextOrder(req[w].user)])
  /\ UNCHANGED <<rows, used, failureCount, reachable, sched, cancelled>>

\* Repo.Create, second statement, under a fresh id.
CreateInsert(w, t) ==
  /\ req[w].pc = "createInsert" /\ t \notin used
  /\ rows' = [rows EXCEPT ![t] = [owner |-> req[w].user, ep |-> req[w].ep,
                                  order |-> req[w].order, status |-> "ok"]]
  /\ used' = used \cup {t}
  /\ Become(w, Idle)
  /\ UNCHANGED <<failureCount, reachable, sched, cancelled>>

\* PATCH: the row is read; another endpoint is verified before anything is written.
PatchBegin(w, u, t, e) ==
  /\ req[w] = Idle /\ Sends(u, "patch")
  /\ Found(u, t)
  /\ Become(w, IF e \in {KeepEndpoint, rows[t].ep}
               THEN [pc |-> "patchUpdate", user |-> u, tab |-> t, ep |-> KeepEndpoint]
               ELSE [pc |-> "patchVerify", user |-> u, tab |-> t, ep |-> e])
  /\ UNCHANGED <<rows, used, failureCount, reachable, sched, cancelled>>

PatchVerify(w) ==
  /\ req[w].pc = "patchVerify"
  /\ \/ Verified(req[w].ep) /\ Goto(w, "patchStatus")
     \/ Rejected(req[w].ep) /\ Become(w, Idle)
  /\ UNCHANGED <<rows, used, failureCount, reachable, sched, cancelled>>

\* The status is cleared first, by id alone.
PatchStatus(w) ==
  /\ req[w].pc = "patchStatus"
  /\ rows' = UpdateStatus(req[w].tab, "ok")
  /\ Goto(w, "patchUpdate")
  /\ UNCHANGED <<used, failureCount, reachable, sched, cancelled>>

\* UpdateByUser: no row of this user, or the fields named by the request.
PatchUpdate(w) ==
  /\ req[w].pc = "patchUpdate"
  /\ rows' = IF Found(req[w].user, req[w].tab) /\ req[w].ep # KeepEndpoint
             THEN [rows EXCEPT ![req[w].tab].ep = req[w].ep]
             ELSE rows
  /\ Become(w, Idle)
  /\ UNCHANGED <<used, failureCount, reachable, sched, cancelled>>

\* DELETE is one statement; the failure count of the tab stays behind.
DeleteBegin(w, u, t) ==
  /\ req[w] = Idle /\ Sends(u, "delete")
  /\ Become(w, [pc |-> "delete", user |-> u, tab |-> t])
  /\ UNCHANGED <<rows, used, failureCount, reachable, sched, cancelled>>

Delete(w) ==
  /\ req[w].pc = "delete"
  /\ rows' = IF Found(req[w].user, req[w].tab) THEN [rows EXCEPT ![req[w].tab] = NoRow] ELSE rows
  /\ Become(w, Idle)
  /\ UNCHANGED <<used, failureCount, reachable, sched, cancelled>>

\* PUT order is one transaction: the count must match and every id must be a row of
\* the user; an id given twice gets the position of its last occurrence.
Reorder(u, ids) ==
  /\ Sends(u, "reorder")
  /\ Len(ids) = Cardinality(Owned(u))
  /\ \A i \in DOMAIN ids : Found(u, ids[i])
  /\ rows' = [t \in TabIds |->
                IF \E i \in DOMAIN ids : ids[i] = t
                THEN [rows[t] EXCEPT !.order = LastIndexOf(ids, t) - 1]
                ELSE rows[t]]
  /\ UNCHANGED <<used, failureCount, reachable, req, sched, cancelled>>

\* The orders a client can send; a serial user permutes the tabs it was shown.
Orders(u) ==
  {ids \in UNION {[1..n -> TabIds] : n \in 0..Cardinality(TabIds)} :
     u \in SerialUsers => \A i, j \in DOMAIN ids : ids[i] = ids[j] => i = j}

\* A KV request resolves its tab to an endpoint, then talks to etcd.
CallBegin(w, u, t) ==
  /\ req[w] = Idle /\ Sends(u, "kv")
  /\ Found(u, t)
  /\ Become(w, [pc |-> "kvCall", user |-> u, tab |-> t, ep |-> rows[t].ep])
  /\ UNCHANGED <<rows, used, failureCount, reachable, sched, cancelled>>

\* The call fails (the endpoint is down or etcd returns an error), succeeds on a
\* route that says so (connect, keys), or succeeds on one that does not.
CallEnd(w) ==
  /\ req[w].pc = "kvCall"
  /\ \/ Goto(w, "kvFailed")
     \/ req[w].ep \in reachable /\ Goto(w, "kvReset")
     \/ req[w].ep \in reachable /\ Become(w, Idle)
  /\ UNCHANGED <<rows, used, failureCount, reachable, sched, cancelled>>

\* MarkStatus(tab, "error") leaves the failure count alone.
CallFailed(w) ==
  /\ req[w].pc = "kvFailed"
  /\ rows' = UpdateStatus(req[w].tab, "error")
  /\ Become(w, Idle)
  /\ UNCHANGED <<used, failureCount, reachable, sched, cancelled>>

\* MarkStatus(tab, "ok"): the failure count under its mutex, then the row.
CallReset(w) ==
  /\ req[w].pc = "kvReset"
  /\ failureCount' = [failureCount EXCEPT ![req[w].tab] = 0]
  /\ Goto(w, "kvMarkOk")
  /\ UNCHANGED <<rows, used, reachable, sched, cancelled>>

CallMarkOk(w) ==
  /\ req[w].pc = "kvMarkOk"
  /\ rows' = UpdateStatus(req[w].tab, "ok")
  /\ Become(w, Idle)
  /\ UNCHANGED <<used, failureCount, reachable, sched, cancelled>>

-----------------------------------------------------------------------------
(* The probe: one goroutine, one tab at a time. *)

\* A tick lists the tabs; the ticker can win against a cancelled context.
Tick ==
  /\ sched = Waiting /\ "probe" \in Work
  /\ sched' = [pc |-> "loop", todo |-> Live]
  /\ UNCHANGED <<rows, used, failureCount, reachable, req, cancelled>>

\* The round is over, or the context was cancelled between two pings.
TickEnd ==
  /\ sched.pc = "loop" /\ (sched.todo = {} \/ cancelled)
  /\ sched' = Waiting
  /\ UNCHANGED <<rows, used, failureCount, reachable, req, cancelled>>

\* Ping reads all rows again; a tab deleted in between is skipped.
PingRead(t) ==
  /\ sched.pc = "loop" /\ ~cancelled /\ t \in sched.todo
  /\ sched' = IF rows[t] = NoRow
              THEN [sched EXCEPT !.todo = @ \ {t}]
              ELSE [pc |-> "probe", todo |-> sched.todo \ {t}, tab |-> t,
                    ep |-> rows[t].ep, status |-> rows[t].status]
  /\ UNCHANGED <<rows, used, failureCount, reachable, req, cancelled>>

PingProbe ==
  /\ sched.pc = "probe"
  /\ sched' = [sched EXCEPT !.pc = IF sched.ep \in reachable THEN "succeeded" ELSE "failed"]
  /\ UNCHANGED <<rows, used, failureCount, reachable, req, cancelled>>

PingResetOnly ==
  /\ sched.pc = "succeeded"
  /\ failureCount' = [failureCount EXCEPT ![sched.tab] = 0]
  /\ sched' = [pc |-> "loop", todo |-> sched.todo]
  /\ UNCHANGED <<rows, used, reachable, req, cancelled>>

\* A success: the count is cleared under its mutex, the row is written next.
PingReset ==
  /\ sched.pc = "succeeded"
  /\ failureCount' = [failureCount EXCEPT ![sched.tab] = 0]
  /\ sched' = [pc |-> "write", todo |-> sched.todo, tab |-> sched.tab,
               status |-> "ok", count |-> 0]
  /\ UNCHANGED <<rows, used, reachable, req, cancelled>>

BumpStuck(n) == IF n < Threshold - 1 THEN n + 1 ELSE n

\* failureCount[tabID]++, saturated where the code no longer tells counts apart.
Bumped(n) == IF n < Threshold THEN n + 1 ELSE n

\* Below the threshold the status read before the probe is written back.
Suppressed(count) == count < Threshold

PingBump ==
  /\ sched.pc = "failed"
  /\ LET count == Bumped(failureCount[sched.tab]) IN
     /\ failureCount' = [failureCount EXCEPT ![sched.tab] = count]
     /\ sched' = [pc |-> "write", todo |-> sched.todo, tab |-> sched.tab,
                  status |-> IF Suppressed(count) THEN sched.status ELSE "error",
                  count |-> count]
  /\ UNCHANGED <<rows, used, reachable, req, cancelled>>

PingWrite ==
  /\ sched.pc = "write"
  /\ rows' = UpdateStatus(sched.tab, sched.status)
  /\ sched' = [pc |-> "loop", todo |-> sched.todo]
  /\ UNCHANGED <<used, failureCount, reachable, req, cancelled>>

ExitForgotten ==
  /\ sched = Waiting /\ cancelled
  /\ sched' = Waiting
  /\ UNCHANGED <<rows, used, failureCount, reachable, req, cancelled>>

SchedExit ==
  /\ sched = Waiting /\ cancelled
  /\ sched' = [pc |-> "stopped"]
  /\ UNCHANGED <<rows, used, failureCount, reachable, req, cancelled>>

\* PingScheduler.Stop
Cancel ==
  /\ ~cancelled /\ "probe" \in Work
  /\ cancelled' = TRUE
  /\ UNCHANGED <<rows, used, failureCount, reachable, req, sched>>

\* A cluster becomes reachable or unreachable.
Toggle(e) ==
  /\ reachable' = IF e \in reachable THEN reachable \ {e} ELSE reachable \cup {e}
  /\ UNCHANGED <<rows, used, failureCount, req, sched, cancelled>>

-----------------------------------------------------------------------------

RequestStep ==
  \/ \E w \in Workers, u \in Users, e \in Endpoints : CreateBegin(w, u, e)
  \/ \E w \in Workers : CreateVerify(w)
  \/ \E w \in Workers : CreateOrder(w)
  \/ \E w \in Workers, t \in TabIds : CreateInsert(w, t)
  \/ \E w \in Workers, u \in Users, t \in TabIds, e \in Endpoints \cup {KeepEndpoint} :
       PatchBegin(w, u, t, e)
  \/ \E w \in Workers : PatchVerify(w)
  \/ \E w \in Workers : PatchStatus(w)
  \/ \E w \in Workers : PatchUpdate(w)
  \/ \E w \in Workers, u \in Users, t \in TabIds : DeleteBegin(w, u, t)
  \/ \E w \in Workers : Delete(w)
  \/ \E u \in Users : \E ids \in Orders(u) : Reorder(u, ids)
  \/ \E w \in Workers, u \in Users, t \in TabIds : CallBegin(w, u, t)
  \/ \E w \in Workers : CallEnd(w)
  \/ \E w \in Workers : CallFailed(w)
  \/ \E w \in Workers : CallReset(w)
  \/ \E w \in Workers : CallMarkOk(w)

ProbeStep ==
  \/ Tick
  \/ TickEnd
  \/ \E t \in TabIds : PingRead(t)
  \/ PingProbe
  \/ PingReset
  \/ PingBump
  \/ PingWrite
  \/ SchedExit

Next ==
  \/ RequestStep
  \/ ProbeStep
  \/ Cancel
  \/ \E e \in Endpoints : Toggle(e)

Spec == Init /\ [][Next]_vars

(* The goroutine is never starved (the ticker always fires again), and the  *)
(* select of run picks a ready ctx.Done in the end.                         *)
FairSpec == Spec /\ WF_vars(ProbeStep) /\ SF_vars(SchedExit)

-----------------------------------------------------------------------------
(* Correctness. *)

\* Requests for u that can be in flight at once.
Concurrency(u) == IF u \in SerialUsers THEN 1 ELSE Cardinality(Workers)

(* README.md:92: "up to 10 remote etcd clusters per user".                  *)
LimitKept == \A u \in Users : Cardinality(Owned(u)) <= MaxTabs

(* The limit is checked long before the row is inserted (a connection test  *)
(* lies between), so it can be overshot, but by no more than the other      *)
(* requests of that user in flight; who sends one at a time keeps it.       *)
LimitOvershoot ==
  \A u \in Users : Cardinality(Owned(u)) <= MaxTabs - 1 + Concurrency(u)

(* A user who sends one request at a time, and permutes the tabs it was     *)
(* shown, never has two tabs in one position, whatever other users do       *)
(* between the SELECT MAX and the INSERT of a creation.                     *)
SerialOrdersDistinct ==
  \A u \in SerialUsers : \A t1, t2 \in Owned(u) :
    rows[t1].order = rows[t2].order => t1 = t2

\* The requests that hold the id of a tab they looked up for their user.
Holding == {"patchVerify", "patchStatus", "patchUpdate",
            "kvCall", "kvFailed", "kvReset", "kvMarkOk"}

(* PATCH and KV requests write a status by id alone, after a Get that        *)
(* matched the user: the row they write, if it is still there, is that       *)
(* user's, and the next creation cannot draw its id again.                   *)
RequestOwnsTab ==
  \A w \in Workers :
    req[w].pc \in Holding =>
      /\ req[w].tab \in used
      /\ req[w].tab \in Live => rows[req[w].tab].owner = req[w].user

(* A deleted tab stays deleted: no late status write of a ping, a PATCH or   *)
(* a KV request that still holds its id brings the row back.                 *)
NoResurrection == [][\A t \in used : rows[t] = NoRow => rows'[t] = NoRow]_vars

(* A tab keeps its owner, and goes away or moves to another endpoint or      *)
(* position only in a step of its owner's request: the probe and other       *)
(* users' requests change at most its status.                                *)
OwnerAlone ==
  [][\A t \in Live :
       \/ rows'[t] = rows[t]
       \/ rows'[t] # NoRow /\ rows'[t] = [rows[t] EXCEPT !.status = rows'[t].status]
       \/ \E w \in Workers :
            /\ req[w].pc \in {"delete", "patchUpdate"} /\ req'[w] = Idle
            /\ req[w].user = rows[t].owner
            /\ IF req[w].pc = "delete" THEN rows'[t] = NoRow
               ELSE rows'[t] # NoRow /\ rows'[t] = [rows[t] EXCEPT !.ep = rows'[t].ep]
       \/ /\ rows'[t] # NoRow /\ rows'[t] = [rows[t] EXCEPT !.order = rows'[t].order]
          /\ UNCHANGED req
          /\ \A t2 \in Live : rows'[t2] # rows[t2] => rows[t2].owner = rows[t].owner]_vars

(* What a request will do to the registry, from its first read to its last   *)
(* write; a KV request, or a PATCH that keeps the endpoint, asks for nothing. *)
Asked(r) ==
  IF r.pc \in {"createVerify", "createOrder", "createInsert"}
  THEN [op |-> "add", user |-> r.user, ep |-> r.ep]
  ELSE IF r.pc \in {"patchVerify", "patchStatus", "patchUpdate"} /\ r.ep # KeepEndpoint
  THEN [op |-> "move", user |-> r.user, tab |-> r.tab, ep |-> r.ep]
  ELSE IF r.pc = "delete"
  THEN [op |-> "remove", user |-> r.user, tab |-> r.tab]
  ELSE Idle

Registry == INSTANCE TabRegistry WITH
  Ids <- TabIds,
  Nothing <- Idle,
  Limit <- [u \in Users |-> MaxTabs - 1 + Concurrency(u)],
  tabs <- [t \in Live |-> [owner |-> rows[t].owner, ep |-> rows[t].ep]],
  drawn <- used,
  asked <- [w \in Workers |-> Asked(req[w])]

(* POST, PATCH and DELETE are several statements with connection tests of     *)
(* seconds between them, while other requests and the probe write the same    *)
(* rows: each acts on the registry as one step for its user, or not at all.   *)
IsRegistry == Registry!Spec

(* While the endpoint of a tab stays reachable the probe shows it as ok     *)
(* again and again, whatever stale verdicts pings of an older endpoint and  *)
(* failing KV requests wrote.                                               *)
ShowsUp ==
  \A t \in TabIds, e \in Endpoints :
    <>[](~cancelled /\ rows[t] # NoRow /\ rows[t].ep = e /\ e \in reachable)
      => []<>(rows[t] # NoRow /\ rows[t].status = "ok")

(* While the endpoint of a tab stays unreachable the tab ends up marked, for *)
(* good: late ok writes of requests that began before are overwritten.       *)
ShowsDown ==
  \A t \in TabIds, e \in Endpoints :
    <>[](~cancelled /\ rows[t] # NoRow /\ rows[t].ep = e /\ e \notin reachable)
      => <>[](rows[t] # NoRow /\ rows[t].status = "error")

(* Stop ends the goroutine, even if the ticker wins against the cancelled    *)
(* context for some rounds and a ping is in flight when it is called.        *)
StopEnds == cancelled ~> sched.pc = "stopped"

(* manager.go says that last_status becomes "error" only after Threshold     *)
(* failed probes in a row.                                                   *)
ErrorNeedsThreshold ==
  [][\A t \in Live :
       PingWrite /\ rows[t].status = "ok" /\ rows'[t].status = "error"
         => sched.count >= Threshold]_vars
=============================================================================
