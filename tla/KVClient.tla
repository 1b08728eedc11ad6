------------------------------ MODULE KVClient ------------------------------
(***************************************************************************)
(* The v3 client of the key browser: the tree that getTree builds from the *)
(* keys of one prefix read, and the writes that take several calls to etcd *)
(* (Put with its lease and its read-back, Delete of a directory).  Each    *)
(* call to etcd is an action, and any of them may fail, before or after it *)
(* took effect.                                                            *)
(*                                                                         *)
(* etcd is external.  A key is the sequence of its segments and whether it *)
(* begins with the separator; keys with repeated or trailing separators    *)
(* are left out.  Values, revisions and the TTLs that are looked up for    *)
(* display are left out, and so are Get and Connect, one read each.  The   *)
(* marks of the tab are part of Tabs.                                      *)
(***************************************************************************)
EXTENDS Naturals, FiniteSets, SequencesExt

CONSTANTS
  Keys,       \* the keys that may be stored, in the order of their bytes
  LongerName, \* <<m, n>>: the name n is longer than the name m and begins with it
  Workers     \* goroutines serving requests

Root == [slash |-> TRUE, segs |-> <<>>]
KeySet == ToSet(Keys)

ASSUME KVAssumption ==
  /\ Keys \in Seq([slash : BOOLEAN, segs : Seq(STRING) \ {<<>>}])
  /\ \A i \in DOMAIN Keys : "" \notin ToSet(Keys[i].segs)
  /\ \A i, j \in DOMAIN Keys : i # j => Keys[i] # Keys[j]

VARIABLES
  store,      \* keys that exist in etcd
  req         \* what each worker is doing

kvVars == <<store, req>>

-----------------------------------------------------------------------------
(* Prefixes.  A prefix whose last name is empty ends in the separator. *)

\* The bytes of the name n begin with those of m.
NameBegins(m, n) == m \in {"", n} \/ <<m, n>> \in LongerName

\* The bytes of k begin with those of p.
BeginsWith(k, p) ==
  \/ p = Root /\ k.slash
  \/ LET n == Len(p.segs) IN
     /\ p # Root /\ k.slash = p.slash /\ Len(k.segs) >= n
     /\ SubSeq(k.segs, 1, n - 1) = SubSeq(p.segs, 1, n - 1)
     /\ NameBegins(p.segs[n], k.segs[n])

\* In the hierarchy of the segments, k lies in the directory p.
Below(k, p) ==
  k.slash = p.slash /\ Len(k.segs) > Len(p.segs) /\ IsPrefix(p.segs, k.segs)

-----------------------------------------------------------------------------
(* The tree of a path.  Nodes are named by their segments below it. *)

\* The prefix read takes in every key for the separator, and has no separator at its
\* end for other paths.
Read(p) == IF p = Root THEN store ELSE {k \in store : BeginsWith(k, p)}

RelSegs(k, p) == SubSeq(k.segs, Len(p.segs) + 1, Len(k.segs))

Entries(p) == {k \in Read(p) \ {p} : RelSegs(k, p) # <<>>}

FirstKey(ks) == Keys[CHOOSE i \in DOMAIN Keys : Keys[i] \in ks /\ \A j \in 1..(i - 1) : Keys[j] \notin ks]
LastKey(ks) == Keys[CHOOSE i \in DOMAIN Keys : Keys[i] \in ks /\ \A j \in (i + 1)..Len(Keys) : Keys[j] \notin ks]

Constructed(k, n) == [slash |-> TRUE, segs |-> SubSeq(k.segs, 1, n)]

ConstructedKeys(here, through, n) == Constructed(FirstKey(through), n)

\* The key shown for a node: the stored one, the last if several have these segments,
\* and otherwise the path up to it.
NodeKey(here, through, n) ==
  IF here = {} THEN Constructed(FirstKey(through), n) ELSE LastKey(here)

Node(p, path) ==
  LET through == {k \in Entries(p) : IsPrefix(path, RelSegs(k, p))}
      here == {k \in through : RelSegs(k, p) = path}
  IN [path |-> path, dir |-> through # here,
      key |-> NodeKey(here, through, Len(p.segs) + Len(path))]

Tree(p) ==
  {Node(p, path) : path \in UNION {{SubSeq(RelSegs(k, p), 1, i) : i \in 1..Len(RelSegs(k, p))}
                                     : k \in Entries(p)}}

-----------------------------------------------------------------------------
(* Requests.  doomed is a history variable: the keys a deletion is to delete that were *)
(* there when it began and have not been written since; wrote says that the Put took   *)
(* effect.                                                                             *)

Idle == [pc |-> "idle"]
Putting == [pc : {"grant", "put", "putRead", "done"}, op : {"put"}, key : KeySet, wrote : BOOLEAN]
Deleting == [pc : {"deleteKey", "deleteBelow", "done"}, op : {"delete"},
             key : KeySet \cup {Root}, dir : BOOLEAN, doomed : SUBSET KeySet]
Failed == [pc |-> "failed"]
KVRequest == {Idle, Failed} \cup Putting \cup Deleting

KVTypeOK ==
  /\ store \subseteq KeySet
  /\ req \in [Workers -> KVRequest]

KVInit ==
  /\ store = {}
  /\ req = [w \in Workers |-> Idle]

Become(w, r) == req' = [req EXCEPT ![w] = r]
Goto(w, pc) == Become(w, [req[w] EXCEPT !.pc = pc])
Fails(w) == Become(w, Failed)

Doomed(r) == IF r.pc \in {"deleteKey", "deleteBelow", "done"} /\ r.op = "delete" THEN r.doomed ELSE {}

\* What the others note when the keys ks are written or deleted.
Noting(ks, reqs) ==
  [w \in Workers |-> IF Doomed(reqs[w]) = {} THEN reqs[w]
                     ELSE [reqs[w] EXCEPT !.doomed = @ \ ks]]

PutBegin(w, k, lease) ==
  /\ req[w] = Idle
  /\ Become(w, [pc |-> IF lease THEN "grant" ELSE "put", op |-> "put", key |-> k, wrote |-> FALSE])
  /\ UNCHANGED store

Grant(w) ==
  /\ req[w].pc = "grant"
  /\ Goto(w, "put") \/ Fails(w)
  /\ UNCHANGED store

PutUnchecked(w) ==
  /\ req[w].pc = "put"
  /\ \/ /\ store' = store \cup {req[w].key}
        /\ req' = Noting({req[w].key}, [req EXCEPT ![w] = [@ EXCEPT !.pc = "putRead", !.wrote = TRUE]])
     \/ Goto(w, "putRead") /\ UNCHANGED store

Put(w) ==
  /\ req[w].pc = "put"
  /\ \/ /\ store' = store \cup {req[w].key}
        /\ \E r \in {[req[w] EXCEPT !.pc = "putRead", !.wrote = TRUE], Failed} :
             req' = Noting({req[w].key}, [req EXCEPT ![w] = r])
     \/ Fails(w) /\ UNCHANGED store

\* The key may be gone again: deleted by another client, or its lease expired.
PutRead(w) ==
  /\ req[w].pc = "putRead"
  /\ \/ req[w].key \in store /\ Goto(w, "done")
     \/ Fails(w)
  /\ UNCHANGED store

DeleteBegin(w, k, dir) ==
  /\ req[w] = Idle
  /\ Become(w, [pc |-> "deleteKey", op |-> "delete", key |-> k, dir |-> dir,
                doomed |-> {x \in store : x = k \/ (dir /\ Below(x, k))}])
  /\ UNCHANGED store

\* A deletion of ks that is answered leads on to r.
Removes(w, ks, r) ==
  \/ /\ store' = store \ ks
     /\ \E s \in {r, Failed} : req' = Noting(ks, [req EXCEPT ![w] = s])
  \/ Fails(w) /\ UNCHANGED store

DeleteKey(w) ==
  /\ req[w].pc = "deleteKey"
  /\ Removes(w, {req[w].key}, [req[w] EXCEPT !.pc = IF req[w].dir THEN "deleteBelow" ELSE "done"])

NoSeparator(p) == p
DoubledRoot(p) ==
  IF p = Root THEN [Root EXCEPT !.segs = <<"", "">>] ELSE [p EXCEPT !.segs = Append(@, "")]

\* The prefix of a directory: its path and a separator, or the separator alone.
DirectoryPrefix(p) == IF p = Root THEN Root ELSE [p EXCEPT !.segs = Append(@, "")]

DeleteBelow(w) ==
  /\ req[w].pc = "deleteBelow"
  /\ Removes(w, {k \in store : BeginsWith(k, DirectoryPrefix(req[w].key))},
             [req[w] EXCEPT !.pc = "done"])

\* The audit row and the answer.
Answer(w) ==
  /\ req[w].pc \in {"done", "failed"}
  /\ Become(w, Idle)
  /\ UNCHANGED store

\* Another client writes or deletes a key, or a lease expires.
Elsewhere(k) ==
  /\ \/ store' = store \cup {k}
     \/ k \in store /\ store' = store \ {k}
  /\ req' = Noting({k}, req)

KVRequestStep(w) ==
  \/ \E k \in KeySet, lease \in BOOLEAN : PutBegin(w, k, lease)
  \/ Grant(w) \/ Put(w) \/ PutRead(w)
  \/ \E k \in KeySet \cup {Root}, dir \in BOOLEAN : DeleteBegin(w, k, dir)
  \/ DeleteKey(w) \/ DeleteBelow(w) \/ Answer(w)

KVNext == (\E w \in Workers : KVRequestStep(w)) \/ \E k \in KeySet : Elsewhere(k)

-----------------------------------------------------------------------------

Paths == KeySet \cup {Root} \cup {Constructed(k, 1) : k \in KeySet}

(* The key of a node that is no directory can be opened, and every key below *)
(* the path has a node with a stored key: only a key with the same segments *)
(* takes its place.  The tree goes by segments, where a key and the path    *)
(* constructed for it may differ.                                          *)
TreeReadable ==
  \A p \in Paths :
    /\ \A n \in Tree(p) : ~n.dir => n.key \in store
    /\ \A k \in store :
         p = Root \/ Below(k, p) =>
           \E n \in Tree(p) : n.path = RelSegs(k, p) /\ n.key \in store

(* The second call of a deletion names a prefix of bytes, and yet deletes   *)
(* nothing but what lies in the directory by its segments: nothing of a     *)
(* directory whose name only begins alike, or that lies elsewhere.  The     *)
(* deletion of a single key spares the keys below it.                      *)
DeletesOnlyBelow ==
  [][\A w \in Workers :
       DeleteKey(w) \/ DeleteBelow(w) =>
         \A k \in store \ store' : k = req[w].key \/ (req[w].dir /\ Below(k, req[w].key))]_kvVars

(* A request that is answered with ok did all it was asked for, although    *)
(* the read-back of a Put may find an older key and a deletion takes two    *)
(* calls: the key was written, and nothing below a deleted directory is     *)
(* left but what was written after the request had begun.                  *)
OkMeansDone ==
  \A w \in Workers :
    /\ req[w].pc = "done" /\ req[w].op = "put" => req[w].wrote
    /\ req[w].pc = "done" /\ req[w].op = "delete" => req[w].doomed = {}
=============================================================================
