------------------------------- MODULE HashKV -------------------------------
(***************************************************************************)
(* The consistency check of the ops panel: handleHashKV takes a revision   *)
(* from one member, asks all members in parallel for their hash at that    *)
(* revision, and compares the hashes of those that answered.               *)
(*                                                                         *)
(* etcd is external: one log of writes and compactions that each member    *)
(* applies at its own pace, a revision per write.  The hash of a member    *)
(* covers its data at the revision and what its own compaction has left of *)
(* the revisions before it.  A diverged member has other data from one     *)
(* revision on.  The steps of StatusFromHealthy are part of Ops; here it   *)
(* is one step that any member answers, or fails.                          *)
(***************************************************************************)
EXTENDS Naturals, FiniteSets, SequencesExt

CONSTANTS
  Members,    \* the collector's list
  Diverged,   \* members whose data differ
  DivergedAt, \* ... from this revision on
  MaxLog,     \* bounds the log
  NoHash      \* the result of a member that has not answered

ASSUME HashAssumption ==
  /\ IsFiniteSet(Members) /\ Diverged \subseteq Members
  /\ DivergedAt \in Nat \ {0} /\ MaxLog \in Nat

VARIABLES
  log,        \* writes, and compactions to a revision
  applied,    \* how much of it each member has applied
  answers,    \* members that answer at the moment
  call        \* the request

hashVars == <<log, applied, answers, call>>

Write == [op |-> "write", rev |-> 0]
Compact(r) == [op |-> "compact", rev |-> r]
Revs == 0..(MaxLog + 1)

\* A log begins at revision 1.
Revision(n) == 1 + Cardinality({i \in 1..n : log[i] = Write})
CompactedTo(n) == Max({0} \cup {log[i].rev : i \in 1..n})

\* What member m answers for revision r.
Hash(m, r) ==
  [rev |-> r, compacted |-> CompactedTo(applied[m]),
   data |-> IF m \in Diverged /\ r >= DivergedAt THEN {m} ELSE {}]
Hashes == [rev : Revs, compacted : Revs, data : SUBSET Members]

Quiet == [pc |-> "idle"]
Call ==
  {Quiet} \cup [pc : {"failed"}] \cup [pc : {"status"}]
    \cup [pc : {"hash"}, rev : Revs, left : SUBSET Members,
          results : [Members -> Hashes \cup {NoHash}]]
    \cup [pc : {"answered"}, rev : Revs, consistent : BOOLEAN, by : SUBSET Members]

HashTypeOK ==
  /\ log \in Seq({Write} \cup {Compact(r) : r \in Revs}) /\ Len(log) <= MaxLog
  /\ applied \in [Members -> 0..Len(log)]
  /\ answers \subseteq Members
  /\ call \in Call

HashInit ==
  /\ log = <<>>
  /\ applied = [m \in Members |-> 0]
  /\ answers = Members
  /\ call = Quiet

-----------------------------------------------------------------------------
(* The request. *)

\* There may be no client, when the healthy list is empty, and no members yet.
HashBegin ==
  /\ call = Quiet
  /\ call' \in {[pc |-> "status"], [pc |-> "failed"]}
  /\ UNCHANGED <<log, applied, answers>>

HashStatus(m) ==
  /\ call.pc = "status" /\ m \in answers
  /\ call' = [pc |-> "hash", rev |-> Revision(applied[m]), left |-> Members,
              results |-> [x \in Members |-> NoHash]]
  /\ UNCHANGED <<log, applied, answers>>

\* Every endpoint was tried while it did not answer.
HashStatusFails ==
  /\ call.pc = "status" /\ answers # Members
  /\ call' = [pc |-> "failed"]
  /\ UNCHANGED <<log, applied, answers>>

LatestRevision(m) == Revision(applied[m])

\* Every member is asked for the hash at the same revision.
HashedRevision(m) == call.rev

\* A member refuses a revision it has not reached or has compacted; whether the one it
\* is compacted to counts as such depends on its version.
Hashable(m, r) == m \in answers /\ r \in CompactedTo(applied[m])..Revision(applied[m])

HashAnswer(m) ==
  /\ call.pc = "hash" /\ m \in call.left /\ Hashable(m, HashedRevision(m))
  /\ call' = [call EXCEPT !.left = @ \ {m},
                          !.results = [@ EXCEPT ![m] = Hash(m, HashedRevision(m))]]
  /\ UNCHANGED <<log, applied, answers>>

HashError(m) ==
  /\ call.pc = "hash" /\ m \in call.left
  /\ \/ m \notin answers
     \/ call.rev \notin (CompactedTo(applied[m]) + 1)..Revision(applied[m])
  /\ call' = [call EXCEPT !.left = @ \ {m}]
  /\ UNCHANGED <<log, applied, answers>>

Answered(results) == {m \in Members : results[m] # NoHash}

ErrorIsHash(results) == Cardinality(Range(results)) <= 1

\* Members with an error are skipped.
Agree(results) == Cardinality({results[m] : m \in Answered(results)}) <= 1

HashVerdict ==
  /\ call.pc = "hash" /\ call.left = {}
  /\ call' = [pc |-> "answered", rev |-> call.rev, consistent |-> Agree(call.results),
              by |-> Answered(call.results)]
  /\ UNCHANGED <<log, applied, answers>>

HashEnd ==
  /\ call.pc \in {"answered", "failed"}
  /\ call' = Quiet
  /\ UNCHANGED <<log, applied, answers>>

-----------------------------------------------------------------------------
(* The cluster. *)

Proposes(entry) ==
  /\ Len(log) < MaxLog
  /\ log' = Append(log, entry)
  /\ UNCHANGED <<applied, answers, call>>

LogWrite == Proposes(Write)
LogCompact(r) ==
  /\ r \in (CompactedTo(Len(log)) + 1)..Revision(Len(log))
  /\ Proposes(Compact(r))

Apply(m) ==
  /\ m \in answers /\ applied[m] < Len(log)
  /\ applied' = [applied EXCEPT ![m] = @ + 1]
  /\ UNCHANGED <<log, answers, call>>

HashToggle(m) ==
  /\ answers' = IF m \in answers THEN answers \ {m} ELSE answers \cup {m}
  /\ UNCHANGED <<log, applied, call>>

HashNext ==
  \/ HashBegin \/ HashStatusFails \/ HashVerdict \/ HashEnd
  \/ \E m \in Members : HashStatus(m) \/ HashAnswer(m) \/ HashError(m) \/ Apply(m) \/ HashToggle(m)
  \/ LogWrite \/ \E r \in Revs : LogCompact(r)

-----------------------------------------------------------------------------

\* A compaction came after the write of revision r.
CompactedAfter(r) ==
  \E i \in DOMAIN log : log[i].op = "compact" /\ Revision(i) >= r

(* The members apply writes and compactions while they are asked, at their   *)
(* own pace, and some do not answer.  The verdict is right about those that *)
(* did: consistent only if none of them diverged or it is alone, and        *)
(* inconsistent only if one of them diverged, or the cluster was compacted  *)
(* after the revision, which one member has applied and another has not.    *)
VerdictRight ==
  call.pc = "answered" =>
    LET bad == IF call.rev >= DivergedAt THEN Diverged \cap call.by ELSE {} IN
    /\ call.consistent => bad = {} \/ Cardinality(call.by) = 1
    /\ ~call.consistent => bad # {} \/ CompactedAfter(call.rev)
=============================================================================
