--------------------------- MODULE BrowserProofs ---------------------------
(***************************************************************************)
(* Theorems about MCBrowser, whose behaviours are those of its parts: the  *)
(* writes, deletions and trees of the key browser, the key of the tab      *)
(* passwords and the preferences, for any keys, workers, tabs, panels and  *)
(* handlers, and the consistency check and the percentiles on the lemmas   *)
(* of ReadingProofs.                                                       *)
(***************************************************************************)
EXTENDS MCBrowser, ReadingProofs

\* The file holds no key while one is being made, and the key of a server that is up is the
\* one in the file.
KeyInv ==
  /\ KeyTypeOK
  /\ keyServer \in {"create", "write"} => keyFile \notin Drawn /\ key \in Drawn
  /\ keyServer = "up" => key = keyFile
  /\ KeyOnDisk

\* The server starts with no key and no password.
LEMMA KeyInitially == KeyInit => KeyInv
  BY KeyAssumption DEF KeyInit, KeyInv, KeyTypeOK, KeyOnDisk, Drawn, NoKey, ShortFile, NoKeyFile

\* Every step of the start, of the tabs and of the operator keeps the key invariant.
LEMMA KeyStep == KeyInv /\ KeyNext => KeyInv'
<1>. SUFFICES ASSUME KeyInv, KeyNext PROVE KeyInv'
  OBVIOUS
<1>. USE KeyAssumption DEF KeyInv, KeyTypeOK, KeyOnDisk, Drawn, NoKey, ShortFile, NoKeyFile
<1>1. CASE LoadKey
  BY <1>1 DEF LoadKey, Disables
<1>2. CASE CreateKeyFile
  BY <1>2 DEF CreateKeyFile, Disables
<1>3. CASE WriteKey
  BY <1>3 DEF WriteKey, Disables
<1>4. CASE KeyKill
  BY <1>4 DEF KeyKill
<1>5. CASE RemoveKeyFile
  BY <1>5 DEF RemoveKeyFile
<1>6. ASSUME NEW t \in KeyTabs, StorePassword(t)
      PROVE  KeyInv'
  BY <1>6 DEF StorePassword
<1>. QED
  BY <1>1, <1>2, <1>3, <1>4, <1>5, <1>6 DEF KeyNext

\* KeyInv is an invariant of the specification.
LEMMA KeyHolds == Spec => []KeyInv
<1>1. Init => KeyInv
  BY KeyInitially DEF Init
<1>2. KeyInv /\ [Next]_vars => KeyInv'
  <2>. SUFFICES ASSUME KeyInv, [Next]_vars PROVE KeyInv'
    OBVIOUS
  <2>1. CASE KeyNext
    BY <2>1, KeyStep
  <2>2. CASE UNCHANGED keyVars
    BY <2>2 DEF KeyInv, KeyTypeOK, KeyOnDisk, keyVars
  <2>. QED
    BY <2>1, <2>2 DEF Next, Rest, vars
<1>. QED
  BY <1>1, <1>2, PTL DEF Spec

\* KeyFile.KeyOnDisk for any number of tabs and keys: whenever the process is killed
\* and whatever file operation fails, no stored password needs a key that is neither
\* on the disk nor removed by the operator.
THEOREM PasswordsDecryptable == Spec => []KeyOnDisk
<1>1. KeyInv => KeyOnDisk
  BY DEF KeyInv
<1>. QED
  BY <1>1, KeyHolds, PTL

-----------------------------------------------------------------------------

\* What a request r becomes when the keys ks are written or deleted.
Note(r, ks) == IF Doomed(r) = {} THEN r ELSE [r EXCEPT !.doomed = @ \ ks]

\* What a request of the key browser knows, when the keys s are stored.
Holds(r, s) ==
  /\ r.pc = "putRead" \/ (r.pc = "done" /\ r.op = "put") => r.wrote = TRUE
  /\ r.pc = "deleteKey" =>
       \A x \in r.doomed : x \in s /\ (x = r.key \/ (r.dir = TRUE /\ Below(x, r.key)))
  /\ r.pc = "deleteBelow" => r.dir = TRUE /\ \A x \in r.doomed : x \in s /\ Below(x, r.key)
  /\ r.pc = "done" /\ r.op = "delete" => r.doomed = {}

\* The inductive invariant of the key browser's client.
KVInv == KVTypeOK /\ \A w \in Workers : Holds(req[w], store)

\* A request that notes a write or a deletion of ks still knows what it knew.
LEMMA NoteKeeps ==
  ASSUME NEW r \in KVRequest, NEW s, NEW s2, NEW ks, Holds(r, s), s \ ks \subseteq s2
  PROVE  Note(r, ks) \in KVRequest /\ Holds(Note(r, ks), s2)
<1>1. CASE Doomed(r) = {}
  <2>1. Note(r, ks) = r
    BY <1>1 DEF Note
  <2>2. Holds(r, s2)
    BY <1>1 DEF Doomed, Holds, KVRequest, Idle, Failed, Putting, Deleting
  <2>. QED
    BY <2>1, <2>2
<1>2. CASE Doomed(r) # {}
  <2>1. r \in Deleting /\ Note(r, ks) = [r EXCEPT !.doomed = @ \ ks]
    BY <1>2 DEF Note, Doomed, KVRequest, Idle, Failed, Putting, Deleting
  <2>2. [r EXCEPT !.doomed = @ \ ks] \in Deleting
    BY <2>1 DEF Deleting
  <2>3. Holds([r EXCEPT !.doomed = @ \ ks], s2)
    BY <2>1 DEF Holds, Deleting
  <2>. QED
    BY <2>1, <2>2, <2>3 DEF KVRequest
<1>. QED
  BY <1>1, <1>2

\* There are no keys and no requests at first.
LEMMA KVInitially == KVInit => KVInv
  BY DEF KVInit, KVInv, KVTypeOK, KVRequest, Idle, Holds

\* A step of one worker that stores and removes nothing.
LEMMA Alone ==
  ASSUME KVInv, NEW w \in Workers, NEW r \in KVRequest, Holds(r, store), Become(w, r), UNCHANGED store
  PROVE  KVInv'
  BY DEF KVInv, KVTypeOK, Become

\* A step that writes or removes the keys ks, of a worker that goes on with r.
LEMMA Noted ==
  ASSUME KVInv, NEW w \in Workers, NEW r \in KVRequest, NEW ks, Holds(Note(r, ks), store'),
         Note(r, ks) \in KVRequest,
         req' = Noting(ks, [req EXCEPT ![w] = r]), store' \subseteq KeySet, store \ ks \subseteq store'
  PROVE  KVInv'
<1>1. \A v \in Workers : req'[v] = Note([req EXCEPT ![w] = r][v], ks)
  BY DEF Noting, Note, KVInv, KVTypeOK
<1>2. \A v \in Workers : req'[v] \in KVRequest /\ Holds(req'[v], store')
  <2>. TAKE v \in Workers
  <2>1. CASE v = w
    BY <1>1, <2>1 DEF KVInv, KVTypeOK
  <2>2. CASE v # w
    <3>1. req'[v] = Note(req[v], ks)
      BY <1>1, <2>2 DEF KVInv, KVTypeOK
    <3>. QED
      BY <3>1, NoteKeeps DEF KVInv, KVTypeOK
  <2>. QED
    BY <2>1, <2>2
<1>3. req' \in [Workers -> KVRequest]
  BY <1>2 DEF Noting
<1>. QED
  BY <1>2, <1>3 DEF KVInv, KVTypeOK

\* Noting changes the keys of a deletion and nothing else of it.
LEMMA Dropped ==
  ASSUME NEW r \in Deleting, NEW ks
  PROVE  LET n == [r EXCEPT !.doomed = @ \ ks] IN
         /\ n \in Deleting /\ n.doomed = r.doomed \ ks
         /\ n.pc = r.pc /\ n.op = r.op /\ n.key = r.key /\ n.dir = r.dir
  BY DEF Deleting

\* A failed request knows nothing and notes nothing.
LEMMA FailedFine == Failed \in KVRequest /\ (\A s, ks : Holds(Failed, s) /\ Note(Failed, ks) = Failed)
  BY DEF Failed, KVRequest, Holds, Note, Doomed

\* A call that fails without an effect.
LEMMA FailureKeeps ==
  ASSUME KVInv, NEW w \in Workers, Fails(w), UNCHANGED store
  PROVE  KVInv'
  BY FailedFine, Alone DEF Fails

\* The Put, answered or not.
LEMMA PutKeeps ==
  ASSUME KVInv, NEW w \in Workers, Put(w)
  PROVE  KVInv'
<1>. DEFINE k == req[w].key
            r == [req[w] EXCEPT !.pc = "putRead", !.wrote = TRUE]
<1>1. CASE Fails(w) /\ UNCHANGED store
  BY <1>1, FailureKeeps
<1>2. CASE /\ store' = store \cup {k}
           /\ \E x \in {r, Failed} : req' = Noting({k}, [req EXCEPT ![w] = x])
  <2>1. req[w] \in Putting
    BY DEF Put, KVInv, KVTypeOK, KVRequest, Idle, Failed, Deleting
  <2>2. r \in Putting /\ r.pc = "putRead" /\ r.wrote = TRUE /\ k \in KeySet
    BY <2>1 DEF Putting
  <2>3. r \in KVRequest /\ Note(r, {k}) = r /\ Holds(r, store')
    BY <2>2 DEF KVRequest, Note, Doomed, Holds
  <2>4. store' \subseteq KeySet /\ store \ {k} \subseteq store'
    BY <1>2, <2>2 DEF KVInv, KVTypeOK
  <2>. PICK x \in {r, Failed} : req' = Noting({k}, [req EXCEPT ![w] = x])
    BY <1>2
  <2>5. x \in KVRequest /\ Note(x, {k}) \in KVRequest /\ Holds(Note(x, {k}), store')
    BY <2>3, FailedFine
  <2>. HIDE DEF r, k
  <2>. QED
    BY <2>4, <2>5, Noted
<1>. QED
  BY <1>1, <1>2 DEF Put

\* A deletion of ks, answered or not, that leads on to r.
LEMMA RemovesKeeps ==
  ASSUME KVInv, NEW w \in Workers, NEW ks, NEW r \in KVRequest,
         Note(r, ks) \in KVRequest, Holds(Note(r, ks), store \ ks), Removes(w, ks, r)
  PROVE  KVInv'
<1>1. CASE Fails(w) /\ UNCHANGED store
  BY <1>1, FailureKeeps
<1>2. CASE /\ store' = store \ ks
           /\ \E x \in {r, Failed} : req' = Noting(ks, [req EXCEPT ![w] = x])
  <2>1. store' \subseteq KeySet
    BY <1>2 DEF KVInv, KVTypeOK
  <2>. QED
    BY <1>2, <2>1, FailedFine, Noted
<1>. QED
  BY <1>1, <1>2 DEF Removes

\* The deletion of the key itself leaves only keys below it to be deleted.
LEMMA DeleteKeyKeeps ==
  ASSUME KVInv, NEW w \in Workers, DeleteKey(w)
  PROVE  KVInv'
<1>. DEFINE old == req[w]
            ks == {old.key}
            r == [old EXCEPT !.pc = IF old.dir THEN "deleteBelow" ELSE "done"]
<1>1. old \in Deleting /\ old.pc = "deleteKey" /\ Holds(old, store)
  BY DEF DeleteKey, KVInv, KVTypeOK, KVRequest, Idle, Failed, Putting
<1>2. r \in Deleting /\ r.doomed = old.doomed /\ r.key = old.key /\ r.dir = old.dir
        /\ r.op = "delete" /\ r.pc \in {"deleteBelow", "done"} /\ (r.pc = "deleteBelow" <=> old.dir = TRUE)
  BY <1>1 DEF Deleting
<1>3. Note(r, ks) = [r EXCEPT !.doomed = @ \ ks]
  BY <1>2 DEF Note, Doomed, Deleting
<1>. HIDE DEF r, ks, old
<1>4. /\ Note(r, ks) \in Deleting /\ Note(r, ks).doomed = old.doomed \ ks
      /\ Note(r, ks).pc = r.pc /\ Note(r, ks).op = r.op
      /\ Note(r, ks).key = old.key /\ Note(r, ks).dir = old.dir
  BY <1>2, <1>3, Dropped
<1>5. Holds(Note(r, ks), store \ ks)
  BY <1>1, <1>2, <1>4 DEF Holds, ks
<1>6. r \in KVRequest /\ Note(r, ks) \in KVRequest
  BY <1>2, <1>4 DEF KVRequest
<1>7. Removes(w, ks, r)
  BY DEF DeleteKey, r, ks, old
<1>. QED
  BY <1>5, <1>6, <1>7, RemovesKeeps

\* What the assumption says of a key that may be stored.
LEMMA KeysNamed ==
  ASSUME NEW k \in KeySet
  PROVE  k \in [slash : BOOLEAN, segs : Seq(STRING) \ {<<>>}]
<1>. DEFINE Named == [slash : BOOLEAN, segs : Seq(STRING) \ {<<>>}]
<1>1. PICK i \in DOMAIN Keys : k = Keys[i]
  BY DEF KeySet, ToSet
<1>2. Keys \in Seq(Named)
  BY KVAssumption
<1>. HIDE DEF Named
<1>3. Keys[i] \in Named
  BY <1>2
<1>. QED
  BY <1>1, <1>3 DEF Named

\* Every key that begins with the separator is below the root.
LEMMA RootAbove ==
  ASSUME NEW k \in KeySet, k.slash
  PROVE  Below(k, Root)
<1>1. k.segs \in Seq(STRING) /\ k.segs # <<>> /\ k.slash \in BOOLEAN
  BY KeysNamed
<1>2. Len(k.segs) \in Nat /\ Len(k.segs) > 0
  BY <1>1
<1>3. IsPrefix(<<>>, k.segs)
  BY <1>2 DEF IsPrefix
<1>4. Root.slash = TRUE /\ Root.segs = <<>>
  BY DEF Root
<1>5. Len(<<>>) = 0
  OBVIOUS
<1>. QED
  BY <1>1, <1>2, <1>3, <1>4, <1>5 DEF Below

\* A sequence with one more name.
LEMMA OneMore ==
  ASSUME NEW S, NEW s \in Seq(S), NEW e \in S
  PROVE  /\ Append(s, e) \in Seq(S) /\ Len(Append(s, e)) = Len(s) + 1
         /\ Append(s, e)[Len(s) + 1] = e
         /\ SubSeq(Append(s, e), 1, Len(s)) = s
<1>1. Len(s) \in Nat
  OBVIOUS
<1>2. /\ Append(s, e) \in Seq(S) /\ Len(Append(s, e)) = Len(s) + 1
      /\ Append(s, e)[Len(s) + 1] = e
      /\ \A i \in 1..Len(s) : Append(s, e)[i] = s[i]
  BY AppendProperties
<1>. DEFINE t == Append(s, e)
            n == Len(s)
<1>. HIDE DEF t
<1>3. /\ SubSeq(t, 1, n) \in Seq(S) /\ Len(SubSeq(t, 1, n)) = n
      /\ \A i \in 1..n : SubSeq(t, 1, n)[i] = t[i]
  BY <1>1, <1>2 DEF t
<1>4. \A i \in 1..n : SubSeq(t, 1, n)[i] = s[i]
  BY <1>2, <1>3 DEF t
<1>5. SubSeq(t, 1, n) = s
  BY <1>3, <1>4, SeqEqual
<1>. QED
  BY <1>2, <1>5 DEF t

\* The keys that begin with the prefix of a directory are those that lie in it: the
\* separator at its end rules out the names that only begin like the directory's.
LEMMA PrefixIsDirectory ==
  ASSUME NEW k \in KeySet, NEW p \in KeySet \cup {Root}
  PROVE  BeginsWith(k, DirectoryPrefix(p)) <=> Below(k, p)
<1>1. k.segs \in Seq(STRING) /\ k.segs # <<>> /\ k.slash \in BOOLEAN /\ Len(k.segs) \in Nat
  BY KeysNamed
<1>2. CASE p = Root
  <2>1. DirectoryPrefix(p) = Root
    BY <1>2 DEF DirectoryPrefix
  <2>2. Below(k, p) => k.slash
    BY <1>2 DEF Below, Root
  <2>3. BeginsWith(k, Root) => k.slash
    BY <1>1 DEF BeginsWith, Root
  <2>4. k.slash => BeginsWith(k, Root)
    BY DEF BeginsWith
  <2>. QED
    BY <1>2, <2>1, <2>2, <2>3, <2>4, RootAbove
<1>3. CASE p # Root
  <2>. DEFINE d == DirectoryPrefix(p)
              n == Len(p.segs)
  <2>1. /\ p \in [slash : BOOLEAN, segs : Seq(STRING) \ {<<>>}]
        /\ p.segs \in Seq(STRING) /\ p.segs # <<>>
    BY <1>3, KeysNamed
  <2>2. n \in Nat \ {0}
    BY <2>1
  <2>3. PICK e : e = ""
    BY Zenon
  <2>. DEFINE S == STRING \cup {e}
  <2>4. d = [p EXCEPT !.segs = Append(@, e)]
    BY <1>3, <2>3 DEF DirectoryPrefix
  <2>. HIDE DEF d
  <2>5. d.slash = p.slash /\ d.segs = Append(p.segs, e)
    BY <2>1, <2>4
  <2>6. /\ Len(d.segs) = n + 1 /\ d.segs[n + 1] = e
        /\ SubSeq(d.segs, 1, n) = p.segs
    <3>1. p.segs \in Seq(S) /\ e \in S
      BY <2>1
    <3>. HIDE DEF S
    <3>. QED
      BY <2>5, <3>1, OneMore
  <2>7. d # Root
    <3>1. Len(Root.segs) = 0
      BY DEF Root
    <3>. QED
      BY <2>2, <2>6, <3>1
  <2>8. NameBegins(d.segs[n + 1], k.segs[n + 1])
    BY <2>3, <2>6 DEF NameBegins
  <2>. HIDE DEF n
  <2>9. (n + 1) - 1 = n /\ n + 1 > n
    BY <2>2
  <2>10. BeginsWith(k, d) <=> /\ k.slash = p.slash /\ Len(k.segs) >= n + 1
                              /\ SubSeq(k.segs, 1, n) = p.segs
    BY <2>5, <2>6, <2>7, <2>8, <2>9 DEF BeginsWith
  <2>11. Len(k.segs) >= n + 1 <=> Len(k.segs) > n
    BY <1>1, <2>2
  <2>12. IsPrefix(p.segs, k.segs) <=> n <= Len(k.segs) /\ p.segs = SubSeq(k.segs, 1, n)
    BY <1>1, <2>1, SubSeqFull DEF IsPrefix, n
  <2>. QED
    BY <1>1, <2>2, <2>10, <2>11, <2>12 DEF Below, d, n
<1>. QED
  BY <1>2, <1>3

\* The deletion of the directory leaves nothing to be deleted: what is below its path
\* is within the prefix.
LEMMA DeleteBelowKeeps ==
  ASSUME KVInv, NEW w \in Workers, DeleteBelow(w)
  PROVE  KVInv'
<1>. DEFINE old == req[w]
            ks == {x \in store : BeginsWith(x, DirectoryPrefix(old.key))}
            r == [old EXCEPT !.pc = "done"]
<1>1. old \in Deleting /\ old.pc = "deleteBelow" /\ Holds(old, store)
  BY DEF DeleteBelow, KVInv, KVTypeOK, KVRequest, Idle, Failed, Putting
<1>2. r \in Deleting /\ r.doomed = old.doomed /\ r.op = "delete" /\ r.pc = "done"
  BY <1>1 DEF Deleting
<1>3. \A x \in old.doomed : x \in ks
  <2>. SUFFICES ASSUME NEW x \in old.doomed PROVE x \in ks
    OBVIOUS
  <2>1. x \in store /\ Below(x, old.key) /\ x \in KeySet /\ old.key \in KeySet \cup {Root}
    BY <1>1 DEF Holds, KVInv, KVTypeOK, Deleting
  <2>. QED
    BY <2>1, PrefixIsDirectory
<1>4. Note(r, ks) = [r EXCEPT !.doomed = {}]
  BY <1>2, <1>3 DEF Note, Doomed, Deleting
<1>5. Note(r, ks) \in Deleting /\ Holds(Note(r, ks), store \ ks)
  BY <1>2, <1>4 DEF Holds, Deleting
<1>. QED
  BY <1>2, <1>5, RemovesKeeps DEF DeleteBelow, KVRequest

\* A write or a removal by another client is noted by every worker.
LEMMA ElsewhereKeeps ==
  ASSUME KVInv, NEW k \in KeySet, Elsewhere(k)
  PROVE  KVInv'
<1>1. \A v \in Workers : req'[v] = Note(req[v], {k})
  BY DEF Elsewhere, Noting, Note
<1>2. store' \subseteq KeySet /\ store \ {k} \subseteq store'
  BY DEF Elsewhere, KVInv, KVTypeOK
<1>3. \A v \in Workers : req'[v] \in KVRequest /\ Holds(req'[v], store')
  BY <1>1, <1>2, NoteKeeps DEF KVInv, KVTypeOK
<1>4. req' \in [Workers -> KVRequest]
  BY <1>3 DEF Elsewhere, Noting
<1>. QED
  BY <1>2, <1>3, <1>4 DEF KVInv, KVTypeOK

\* A new Put knows nothing yet.
LEMMA PutBeginKeeps ==
  ASSUME KVInv, NEW w \in Workers, NEW k \in KeySet, NEW lease \in BOOLEAN, PutBegin(w, k, lease)
  PROVE  KVInv'
<1>. DEFINE r == [pc |-> IF lease THEN "grant" ELSE "put", op |-> "put", key |-> k, wrote |-> FALSE]
<1>1. r \in Putting /\ r.pc \in {"grant", "put"}
  BY DEF Putting
<1>2. r \in KVRequest /\ Holds(r, store)
  BY <1>1 DEF KVRequest, Holds
<1>3. Become(w, r) /\ UNCHANGED store
  BY DEF PutBegin
<1>. QED
  BY <1>2, <1>3, Alone

\* The lease, granted or not.
LEMMA GrantKeeps ==
  ASSUME KVInv, NEW w \in Workers, Grant(w)
  PROVE  KVInv'
<1>. DEFINE r == [req[w] EXCEPT !.pc = "put"]
<1>1. req[w] \in Putting
  BY DEF Grant, KVInv, KVTypeOK, KVRequest, Idle, Failed, Deleting
<1>2. r \in Putting /\ r.pc = "put"
  BY <1>1 DEF Putting
<1>3. r \in KVRequest /\ Holds(r, store)
  BY <1>2 DEF KVRequest, Holds
<1>4. CASE Goto(w, "put")
  BY <1>3, <1>4, Alone DEF Grant, Goto
<1>5. CASE Fails(w)
  BY <1>5, FailureKeeps DEF Grant
<1>. QED
  BY <1>4, <1>5 DEF Grant

\* The read-back is reached only after the Put took effect.
LEMMA PutReadKeeps ==
  ASSUME KVInv, NEW w \in Workers, PutRead(w)
  PROVE  KVInv'
<1>. DEFINE r == [req[w] EXCEPT !.pc = "done"]
<1>1. req[w] \in Putting /\ req[w].pc = "putRead" /\ Holds(req[w], store)
  BY DEF PutRead, KVInv, KVTypeOK, KVRequest, Idle, Failed, Deleting
<1>2. r \in Putting /\ r.pc = "done" /\ r.op = "put" /\ r.wrote = TRUE
  BY <1>1 DEF Putting, Holds
<1>3. r \in KVRequest /\ Holds(r, store)
  BY <1>2 DEF KVRequest, Holds
<1>4. CASE Goto(w, "done")
  BY <1>3, <1>4, Alone DEF PutRead, Goto
<1>5. CASE Fails(w)
  BY <1>5, FailureKeeps DEF PutRead
<1>. QED
  BY <1>4, <1>5 DEF PutRead

\* A new deletion is to delete keys that are stored, at its path or below it.
LEMMA DeleteBeginKeeps ==
  ASSUME KVInv, NEW w \in Workers, NEW k \in KeySet \cup {Root}, NEW dir \in BOOLEAN,
         DeleteBegin(w, k, dir)
  PROVE  KVInv'
<1>. DEFINE gone == {x \in store : x = k \/ (dir /\ Below(x, k))}
            r == [pc |-> "deleteKey", op |-> "delete", key |-> k, dir |-> dir, doomed |-> gone]
<1>1. gone \subseteq KeySet
  BY DEF KVInv, KVTypeOK
<1>2. r \in Deleting
  BY <1>1 DEF Deleting
<1>3. Holds(r, store)
  BY DEF Holds
<1>4. Become(w, r) /\ UNCHANGED store
  BY DEF DeleteBegin
<1>. QED
  BY <1>2, <1>3, <1>4, Alone DEF KVRequest

\* The answer ends a request.
LEMMA AnswerKeeps ==
  ASSUME KVInv, NEW w \in Workers, Answer(w)
  PROVE  KVInv'
<1>1. Idle \in KVRequest /\ Holds(Idle, store)
  BY DEF Idle, KVRequest, Holds
<1>. QED
  BY <1>1, Alone DEF Answer

\* Every step of a request or of another client keeps KVInv.
LEMMA KVStep == KVInv /\ KVNext => KVInv'
<1>. SUFFICES ASSUME KVInv, KVNext PROVE KVInv'
  OBVIOUS
<1>1. ASSUME NEW w \in Workers, KVRequestStep(w)
      PROVE  KVInv'
  <2>1. ASSUME NEW k \in KeySet, NEW lease \in BOOLEAN, PutBegin(w, k, lease)
        PROVE  KVInv'
    BY <2>1, PutBeginKeeps
  <2>2. ASSUME NEW k \in KeySet \cup {Root}, NEW dir \in BOOLEAN, DeleteBegin(w, k, dir)
        PROVE  KVInv'
    BY <2>2, DeleteBeginKeeps
  <2>3. CASE Grant(w)
    BY <2>3, GrantKeeps
  <2>4. CASE Put(w)
    BY <2>4, PutKeeps
  <2>5. CASE PutRead(w)
    BY <2>5, PutReadKeeps
  <2>6. CASE DeleteKey(w)
    BY <2>6, DeleteKeyKeeps
  <2>7. CASE DeleteBelow(w)
    BY <2>7, DeleteBelowKeeps
  <2>8. CASE Answer(w)
    BY <2>8, AnswerKeeps
  <2>. QED
    BY <1>1, <2>1, <2>2, <2>3, <2>4, <2>5, <2>6, <2>7, <2>8 DEF KVRequestStep
<1>2. ASSUME NEW k \in KeySet, Elsewhere(k)
      PROVE  KVInv'
  BY <1>2, ElsewhereKeeps
<1>. QED
  BY <1>1, <1>2 DEF KVNext

\* KVInv is an invariant of the specification.
LEMMA KVHolds == Spec => []KVInv
<1>1. Init => KVInv
  BY KVInitially DEF Init
<1>2. KVInv /\ [Next]_vars => KVInv'
  <2>. SUFFICES ASSUME KVInv, [Next]_vars PROVE KVInv'
    OBVIOUS
  <2>1. CASE KVNext
    BY <2>1, KVStep
  <2>2. CASE UNCHANGED kvVars
    BY <2>2 DEF KVInv, KVTypeOK, kvVars
  <2>. QED
    BY <2>1, <2>2 DEF Next, Rest, vars
<1>. QED
  BY <1>1, <1>2, PTL DEF Spec

\* HashInv is an invariant of the specification.
LEMMA HashHolds == Spec => []HashInv
<1>1. Init => HashInv
  BY HashInitially DEF Init
<1>2. HashInv /\ [Next]_vars => HashInv'
  <2>. SUFFICES ASSUME HashInv, [Next]_vars PROVE HashInv'
    OBVIOUS
  <2>1. CASE HashNext
    BY <2>1, HashStep
  <2>2. CASE UNCHANGED hashVars
    BY <2>2, MemberKeeps DEF HashInv, HashTypeOK, hashVars
  <2>. QED
    BY <2>1, <2>2 DEF Next, Rest, vars
<1>. QED
  BY <1>1, <1>2, PTL DEF Spec

\* HashKV.VerdictRight for any number of members and any log: "consistent" means that
\* no two members that answered differ, "inconsistent" that one of them diverged or that
\* the cluster was compacted after the revision.
THEOREM VerdictMeans == Spec => []VerdictRight
<1>1. HashInv => VerdictRight
  BY DEF HashInv
<1>. QED
  BY <1>1, HashHolds, PTL

\* KVClient.OkMeansDone for any keys and workers: a Put that is answered with ok wrote
\* its key, and a Delete left nothing of what it was to delete.
THEOREM OkNotPremature == Spec => []OkMeansDone
<1>1. KVInv => OkMeansDone
  BY DEF KVInv, Holds, OkMeansDone
<1>. QED
  BY <1>1, KVHolds, PTL

\* KVClient.DeletesOnlyBelow for any keys: deleting a directory spares the directories
\* whose name only begins alike and all that lies elsewhere.
THEOREM DeletesNothingElse == Spec => DeletesOnlyBelow
<1>. DEFINE Spares == \A w \in Workers :
              DeleteKey(w) \/ DeleteBelow(w) =>
                \A k \in store \ store' : k = req[w].key \/ (req[w].dir /\ Below(k, req[w].key))
<1>1. KVInv /\ [Next]_vars => [Spares]_kvVars
  <2>. SUFFICES ASSUME KVInv, NEW w \in Workers, NEW k \in store \ store'
                PROVE  /\ DeleteKey(w) => k = req[w].key
                       /\ DeleteBelow(w) => req[w].dir /\ Below(k, req[w].key)
    OBVIOUS
  <2>1. DeleteKey(w) => k = req[w].key
    BY DEF DeleteKey, Removes
  <2>2. ASSUME DeleteBelow(w)
        PROVE  req[w].dir /\ Below(k, req[w].key)
    <3>1. BeginsWith(k, DirectoryPrefix(req[w].key))
      BY <2>2 DEF DeleteBelow, Removes
    <3>2. k \in KeySet
      BY DEF KVInv, KVTypeOK
    <3>3. /\ req[w].pc = "deleteBelow" /\ req[w] \in KVRequest
          /\ req[w].pc = "deleteBelow" => req[w].dir = TRUE
      BY <2>2 DEF DeleteBelow, KVInv, KVTypeOK, Holds
    <3>4. req[w].key \in KeySet \cup {Root}
      BY <3>3 DEF KVRequest, Idle, Failed, Putting, Deleting
    <3>. QED
      BY <3>1, <3>2, <3>3, <3>4, PrefixIsDirectory
  <2>. QED
    BY <2>1, <2>2
<1>. QED
  BY <1>1, KVHolds, PTL DEF Spec, DeletesOnlyBelow

-----------------------------------------------------------------------------

\* A key has at least one segment, and none is the separator alone.
LEMMA KeyShape ==
  /\ DOMAIN Keys = 1..Len(Keys) /\ Len(Keys) \in Nat
  /\ \A k \in KeySet : /\ k \in [slash : BOOLEAN, segs : Seq(STRING)]
                       /\ Len(k.segs) \in Nat \ {0} /\ k # Root
<1>1. DOMAIN Keys = 1..Len(Keys) /\ Len(Keys) \in Nat
  <2>. DEFINE Named == [slash : BOOLEAN, segs : Seq(STRING) \ {<<>>}]
  <2>1. Keys \in Seq(Named)
    BY KVAssumption
  <2>. HIDE DEF Named
  <2>. QED
    BY <2>1
<1>2. ASSUME NEW k \in KeySet
      PROVE  /\ k \in [slash : BOOLEAN, segs : Seq(STRING)]
             /\ Len(k.segs) \in Nat \ {0} /\ k # Root
  <2>1. k \in [slash : BOOLEAN, segs : Seq(STRING) \ {<<>>}]
    BY KeysNamed
  <2>2. k.segs \in Seq(STRING) /\ k.segs # <<>>
    BY <2>1
  <2>3. Len(k.segs) \in Nat \ {0}
    BY <2>2, EmptySeq
  <2>. QED  BY <2>1, <2>2, <2>3 DEF Root
<1>. QED  BY <1>1, <1>2

\* The last of some keys is one of them.
LEMMA LastKeyFacts ==
  ASSUME NEW ks \in SUBSET KeySet, ks # {}
  PROVE  LastKey(ks) \in ks
<1>. DEFINE I == {i \in DOMAIN Keys : Keys[i] \in ks}
            Latest(i) == Keys[i] \in ks /\ \A j \in (i + 1)..Len(Keys) : Keys[j] \notin ks
<1>1. I \in SUBSET Int /\ IsFiniteSet(I) /\ I # {}
  <2>1. I \subseteq 1..Len(Keys) /\ Len(Keys) \in Nat
    BY KeyShape
  <2>2. IsFiniteSet(I)
    BY <2>1, FS_Interval, FS_Subset
  <2>3. PICK k \in ks : TRUE
    OBVIOUS
  <2>4. PICK i \in DOMAIN Keys : Keys[i] = k
    BY <2>3 DEF KeySet, ToSet
  <2>. QED  BY <2>1, <2>2, <2>3, <2>4
<1>2. PICK m \in I : \A x \in I : x <= m
  BY <1>1, FiniteMax
<1>3. m \in DOMAIN Keys /\ Latest(m)
  <2>1. ASSUME NEW j \in (m + 1)..Len(Keys), Keys[j] \in ks
        PROVE  FALSE
    <3>1. m \in 1..Len(Keys) /\ j \in Int /\ m + 1 <= j /\ j <= Len(Keys) /\ Len(Keys) \in Nat
      BY <2>1, KeyShape
    <3>2. j \in I
      BY <2>1, <3>1, KeyShape
    <3>. QED  BY <1>2, <3>1, <3>2
  <2>. QED  BY <1>2, <2>1
<1>4. Latest(CHOOSE i \in DOMAIN Keys : Latest(i))
  BY <1>3
<1>. QED  BY <1>4 DEF LastKey

\* A path is the separator or has a segment.
LEMMA PathShape ==
  ASSUME NEW p \in Paths
  PROVE  /\ p \in [slash : BOOLEAN, segs : Seq(STRING)] /\ Len(p.segs) \in Nat
         /\ p # Root => Len(p.segs) > 0
<1>1. CASE p \in KeySet
  BY <1>1, KeyShape
<1>2. CASE p = Root
  BY <1>2 DEF Root
<1>3. ASSUME NEW k \in KeySet, p = Constructed(k, 1)
      PROVE  p.segs \in Seq(STRING) /\ Len(p.segs) = 1 /\ p.slash = TRUE
                /\ p \in [slash : BOOLEAN, segs : Seq(STRING)]
  <2>1. k.segs \in Seq(STRING) /\ Len(k.segs) \in Nat \ {0}
    BY KeyShape
  <2>2. SubSeq(k.segs, 1, 1) \in Seq(STRING) /\ Len(SubSeq(k.segs, 1, 1)) = 1
    BY <2>1
  <2>. QED  BY <1>3, <2>2 DEF Constructed
<1>4. p \in KeySet \/ p = Root \/ \E k \in KeySet : p = Constructed(k, 1)
  BY DEF Paths
<1>5. CASE \E k \in KeySet : p = Constructed(k, 1)
  <2>1. PICK k \in KeySet : p = Constructed(k, 1)
    BY <1>5
  <2>2. p.segs \in Seq(STRING) /\ Len(p.segs) = 1 /\ p \in [slash : BOOLEAN, segs : Seq(STRING)]
    BY <1>3, <2>1
  <2>. QED  BY <2>2
<1>. QED  BY <1>1, <1>2, <1>4, <1>5

\* The rest of a sequence.
LEMMA RestType ==
  ASSUME NEW s \in Seq(STRING), NEW n \in Nat
  PROVE  LET rest == SubSeq(s, n + 1, Len(s)) IN
         rest \in Seq(STRING) /\ Len(rest) = IF n < Len(s) THEN Len(s) - n ELSE 0
<1>1. Len(s) \in Nat /\ \A i \in (n + 1)..Len(s) : s[i] \in STRING
  OBVIOUS
<1>2. CASE n < Len(s)
  BY <1>1, <1>2, SubSeqProperties
<1>3. CASE ~(n < Len(s))
  <2>1. SubSeq(s, n + 1, Len(s)) = <<>>
    BY <1>1, <1>3, SubSeqEmpty
  <2>. QED  BY <1>3, <2>1
<1>. QED  BY <1>2, <1>3

\* The segments below a path.
LEMMA RelSegsFacts ==
  ASSUME NEW k \in KeySet, NEW p \in Paths
  PROVE  /\ RelSegs(k, p) \in Seq(STRING) /\ Len(RelSegs(k, p)) \in Nat
         /\ Len(k.segs) > Len(p.segs) => Len(RelSegs(k, p)) = Len(k.segs) - Len(p.segs)
<1>1. k.segs \in Seq(STRING) /\ Len(k.segs) \in Nat
  BY KeyShape
<1>2. Len(p.segs) \in Nat
  BY PathShape
<1>3. /\ SubSeq(k.segs, Len(p.segs) + 1, Len(k.segs)) \in Seq(STRING)
      /\ Len(SubSeq(k.segs, Len(p.segs) + 1, Len(k.segs))) =
           (IF Len(p.segs) < Len(k.segs) THEN Len(k.segs) - Len(p.segs) ELSE 0)
  BY <1>1, <1>2, RestType
<1>4. RelSegs(k, p) = SubSeq(k.segs, Len(p.segs) + 1, Len(k.segs))
  BY DEF RelSegs
<1>. DEFINE rest == RelSegs(k, p)
            m == Len(k.segs)
            n == Len(p.segs)
<1>5. rest \in Seq(STRING) /\ Len(rest) = (IF n < m THEN m - n ELSE 0)
  BY <1>3, <1>4, Zenon
<1>6. m \in Nat /\ n \in Nat
  BY <1>1, <1>2
<1>. HIDE DEF rest, m, n
<1>7. Len(rest) \in Nat /\ (m > n => Len(rest) = m - n)
  BY <1>5, <1>6
<1>. QED  BY <1>5, <1>7 DEF rest, m, n

\* The segments up to a node are a prefix of those of every key it was made from.
LEMMA PathIsPrefix ==
  ASSUME NEW s \in Seq(STRING), NEW i \in 1..Len(s)
  PROVE  IsPrefix(SubSeq(s, 1, i), s)
<1>1. Len(s) \in Nat
  OBVIOUS
<1>2. Len(SubSeq(s, 1, i)) = i
  BY <1>1
<1>3. SubSeq(SubSeq(s, 1, i), 1, i) = SubSeq(s, 1, i)
  <2>1. SubSeq(s, 1, i) \in Seq(STRING)
    BY <1>1
  <2>. QED  BY <1>2, <2>1, SubSeqFull
<1>. QED  BY <1>1, <1>2, <1>3 DEF IsPrefix

\* What lies below a path is read for its tree.
LEMMA BelowIsEntry ==
  ASSUME NEW p \in Paths, NEW k \in KeySet, k \in store, p = Root \/ Below(k, p)
  PROVE  k \in Entries(p) /\ RelSegs(k, p) # <<>>
<1>1. k.segs \in Seq(STRING) /\ Len(k.segs) \in Nat \ {0} /\ k # Root
  BY KeyShape
<1>2. /\ p.segs \in Seq(STRING) /\ Len(p.segs) \in Nat
      /\ p # Root => Len(p.segs) > 0
  BY PathShape
<1>3. Len(k.segs) > Len(p.segs)
  BY <1>1, <1>2 DEF Below, Root
<1>4. k # p
  BY <1>1, <1>2, <1>3
<1>5. RelSegs(k, p) # <<>>
  BY <1>1, <1>2, <1>3, RelSegsFacts, EmptySeq
<1>6. p # Root => BeginsWith(k, p)
  <2>. SUFFICES ASSUME p # Root PROVE BeginsWith(k, p)
    OBVIOUS
  <2>. DEFINE n == Len(p.segs)
  <2>1. SubSeq(p.segs, 1, n) = SubSeq(k.segs, 1, n) /\ k.slash = p.slash
    BY DEF Below, IsPrefix
  <2>2. n \in Nat \ {0} /\ n <= Len(k.segs) /\ n = Len(p.segs)
    BY <1>1, <1>2, <1>3
  <2>. HIDE DEF n
  <2>3. \A i \in 1..n : p.segs[i] = k.segs[i]
    <3>1. \A i \in 1..n : SubSeq(p.segs, 1, n)[i] = p.segs[i]
      BY <1>2, <2>2
    <3>2. \A i \in 1..n : SubSeq(k.segs, 1, n)[i] = k.segs[i]
      BY <1>1, <2>2
    <3>. QED  BY <2>1, <3>1, <3>2
  <2>4. SubSeq(k.segs, 1, n - 1) = SubSeq(p.segs, 1, n - 1)
    <3>1. /\ SubSeq(k.segs, 1, n - 1) \in Seq(STRING)
          /\ Len(SubSeq(k.segs, 1, n - 1)) = n - 1
          /\ \A i \in 1..(n - 1) : SubSeq(k.segs, 1, n - 1)[i] = k.segs[i]
      BY <1>1, <2>2
    <3>2. /\ SubSeq(p.segs, 1, n - 1) \in Seq(STRING)
          /\ Len(SubSeq(p.segs, 1, n - 1)) = n - 1
          /\ \A i \in 1..(n - 1) : SubSeq(p.segs, 1, n - 1)[i] = p.segs[i]
      BY <1>2, <2>2
    <3>3. \A i \in 1..(n - 1) : SubSeq(k.segs, 1, n - 1)[i] = SubSeq(p.segs, 1, n - 1)[i]
      BY <2>2, <2>3, <3>1, <3>2
    <3>. QED  BY <3>1, <3>2, <3>3, SeqEqual
  <2>5. k.segs[n] = p.segs[n]
    BY <2>2, <2>3
  <2>. QED  BY <2>1, <2>2, <2>4, <2>5 DEF BeginsWith, NameBegins
<1>. QED  BY <1>4, <1>5, <1>6 DEF Entries, Read

\* The tree of a path can be opened, whatever is stored.
LEMMA TreeOpens ==
  ASSUME store \subseteq KeySet
  PROVE  TreeReadable
<1>. SUFFICES ASSUME NEW p \in Paths
              PROVE  /\ \A n \in Tree(p) : ~n.dir => n.key \in store
                     /\ \A k \in store :
                          p = Root \/ Below(k, p) =>
                            \E n \in Tree(p) : n.path = RelSegs(k, p) /\ n.key \in store
  BY DEF TreeReadable
<1>. DEFINE Through(path) == {k \in Entries(p) : IsPrefix(path, RelSegs(k, p))}
            Here(path) == {k \in Through(path) : RelSegs(k, p) = path}
<1>1. Entries(p) \subseteq store
  BY DEF Entries, Read
<1>2. ASSUME NEW path
      PROVE  /\ Node(p, path).path = path
             /\ Node(p, path).dir <=> Through(path) # Here(path)
             /\ Here(path) # {} => Node(p, path).key \in store
  <2>1. Here(path) \in SUBSET KeySet /\ Here(path) \subseteq store
    BY <1>1
  <2>2. Here(path) # {} => LastKey(Here(path)) \in store
    BY <2>1, LastKeyFacts
  <2>. QED  BY <2>2 DEF Node, NodeKey
<1>3. ASSUME NEW k \in Entries(p), NEW i \in 1..Len(RelSegs(k, p))
      PROVE  k \in Through(SubSeq(RelSegs(k, p), 1, i))
  <2>1. RelSegs(k, p) \in Seq(STRING)
    BY <1>1, RelSegsFacts
  <2>. QED  BY <2>1, PathIsPrefix
<1>4. ASSUME NEW n \in Tree(p), ~n.dir
      PROVE  n.key \in store
  <2>1. PICK k \in Entries(p) : \E i \in 1..Len(RelSegs(k, p)) :
          n = Node(p, SubSeq(RelSegs(k, p), 1, i))
    BY DEF Tree
  <2>2. PICK i \in 1..Len(RelSegs(k, p)) : n = Node(p, SubSeq(RelSegs(k, p), 1, i))
    BY <2>1
  <2>. QED  BY <1>2, <1>3, <1>4, <2>2
<1>5. ASSUME NEW k \in store, p = Root \/ Below(k, p)
      PROVE  \E n \in Tree(p) : n.path = RelSegs(k, p) /\ n.key \in store
  <2>. DEFINE path == RelSegs(k, p)
  <2>1. k \in Entries(p) /\ path # <<>>
    BY <1>5, BelowIsEntry
  <2>2. path \in Seq(STRING) /\ Len(path) \in Nat
    BY RelSegsFacts
  <2>. HIDE DEF path
  <2>3. Len(path) \in 1..Len(path) /\ SubSeq(path, 1, Len(path)) = path
    BY <2>1, <2>2, SubSeqFull, EmptySeq
  <2>4. Node(p, path) \in Tree(p)
    BY <2>1, <2>3 DEF Tree, path
  <2>5. k \in Here(path)
    BY <1>3, <2>1, <2>3 DEF path
  <2>. QED  BY <1>2, <2>4, <2>5 DEF path
<1>. QED  BY <1>4, <1>5

\* KVClient.TreeReadable for any keys: whatever is stored, the tree of every directory
\* leads to each key below it, and names no key that is not there.
THEOREM TreeAlwaysReadable == Spec => []TreeReadable
<1>1. KVInv => TreeReadable
  BY TreeOpens DEF KVInv, KVTypeOK
<1>. QED
  BY <1>1, KVHolds, PTL

-----------------------------------------------------------------------------

\* The panels of a version, each known by its name.
LEMMA DefaultsFacts ==
  ASSUME version \in DOMAIN PanelsOf
  PROVE  LET defaults == PanelsOf[version] IN
         /\ defaults \in Seq([id : STRING, visible : BOOLEAN])
         /\ Len(defaults) \in Nat /\ DOMAIN defaults = 1..Len(defaults)
         /\ \A i, j \in DOMAIN defaults : defaults[i].id = defaults[j].id => i = j
         /\ \A i \in DOMAIN defaults : defaults[i].id \in STRING /\ defaults[i].visible \in BOOLEAN
<1>. DEFINE P == [id : STRING, visible : BOOLEAN]
            d == PanelsOf[version]
<1>1. PanelsOf \in Seq(Seq(P))
  BY PrefsAssumption
<1>. HIDE DEF P
<1>2. d \in Seq(P)
  BY <1>1
<1>3. \A i, j \in DOMAIN d : d[i].id = d[j].id => i = j
  BY PrefsAssumption
<1>4. Len(d) \in Nat /\ DOMAIN d = 1..Len(d) /\ \A i \in DOMAIN d : d[i] \in P
  BY <1>2
<1>5. \A i \in DOMAIN d : d[i].id \in STRING /\ d[i].visible \in BOOLEAN
  BY <1>4 DEF P
<1>. QED  BY <1>2, <1>3, <1>4, <1>5 DEF P

\* The first half of a merged list: the known panels of the one sent, each once.
Kept(panels) ==
  LET places == InOrder(Firsts(panels)) IN [i \in DOMAIN places |-> panels[places[i]]]

\* The places of the panels that the first half lacks.
Lacking(panels) ==
  {i \in DOMAIN PanelsOf[version] : PanelsOf[version][i].id \notin Ids(Kept(panels))}

\* The second half: those panels, numbered on.
Added(panels) ==
  LET lacking == InOrder(Lacking(panels)) IN
  [i \in DOMAIN lacking |-> [id |-> PanelsOf[version][lacking[i]].id,
                             visible |-> PanelsOf[version][lacking[i]].visible,
                             order |-> Len(Kept(panels)) + i - 1]]

\* A merged list is its two halves.
LEMMA MergeHalves ==
  ASSUME NEW panels
  PROVE  MergeWithDefaults(panels) = Kept(panels) \o Added(panels)
  BY DEF MergeWithDefaults, Kept, Added, Lacking

\* An element of a list.
LEMMA ItemFacts ==
  ASSUME NEW panels \in Seq(PanelItem)
  PROVE  /\ Len(panels) \in Nat /\ DOMAIN panels = 1..Len(panels)
         /\ \A i \in DOMAIN panels : /\ panels[i] \in PanelItem /\ panels[i].id \in STRING
                                    /\ panels[i].visible \in BOOLEAN /\ panels[i].order \in Int
<1>1. Len(panels) \in Nat /\ DOMAIN panels = 1..Len(panels)
  OBVIOUS
<1>2. \A i \in DOMAIN panels : panels[i] \in PanelItem
  OBVIOUS
<1>. QED  BY <1>1, <1>2 DEF PanelItem

\* A function on 1..n is a list of length n.
LEMMA IsList ==
  ASSUME NEW S, NEW n \in Nat, NEW f \in [1..n -> S]
  PROVE  f \in Seq(S) /\ Len(f) = n /\ DOMAIN f = 1..n
  OBVIOUS

\* Kept are the known panels, each at its first occurrence.
LEMMA KeptFacts ==
  ASSUME NEW panels \in Seq(PanelItem)
  PROVE  LET kept == Kept(panels) IN
         /\ kept \in Seq(PanelItem) /\ Len(kept) = Cardinality(Firsts(panels))
         /\ \A i, j \in 1..Len(kept) : kept[i].id = kept[j].id => i = j
         /\ \A i \in 1..Len(kept) :
              /\ kept[i].id \in KnownIds
              /\ \E j \in DOMAIN panels :
                   panels[j] = kept[i] /\ \A l \in 1..(j - 1) : panels[l].id # kept[i].id
         /\ \A x \in Ids(panels) \cap KnownIds : \E i \in 1..Len(kept) : kept[i].id = x
<1>. DEFINE kept == Kept(panels)
            I == Firsts(panels)
            n == Cardinality(I)
            f == InOrder(I)
<1>1. Len(panels) \in Nat /\ DOMAIN panels = 1..Len(panels)
        /\ \A i \in DOMAIN panels : panels[i] \in PanelItem
  BY ItemFacts
<1>2. I \in SUBSET (1..Len(panels))
  BY <1>1 DEF Firsts
<1>3. /\ n \in Nat /\ f \in [1..n -> I] /\ DOMAIN f = 1..n
      /\ \A i, j \in 1..n : i < j => f[i] < f[j]
      /\ \A x \in I : \E i \in 1..n : f[i] = x
  BY <1>1, <1>2, PlacesFacts
<1>4. kept = [i \in DOMAIN f |-> panels[f[i]]]
  BY DEF Kept
<1>5. \A j \in I : /\ j \in 1..Len(panels) /\ panels[j].id \in KnownIds
                  /\ \A l \in 1..(j - 1) : panels[l].id # panels[j].id
  BY <1>2 DEF Firsts
<1>6. ASSUME NEW j \in 1..Len(panels), panels[j].id \in KnownIds
      PROVE  \E m \in I : panels[m].id = panels[j].id
  <2>. DEFINE J == {m \in 1..Len(panels) : panels[m].id = panels[j].id}
  <2>1. J \in SUBSET Int /\ IsFiniteSet(J) /\ J # {}
    BY <1>1, PositionsFinite
  <2>2. PICK m \in J : \A x \in J : m <= x
    BY <2>1, FiniteMin
  <2>3. \A l \in 1..(m - 1) : panels[l].id # panels[m].id
    <3>. SUFFICES ASSUME NEW l \in 1..(m - 1), panels[l].id = panels[m].id PROVE FALSE
      OBVIOUS
    <3>1. l \in J /\ l < m
      BY <1>1, <2>2
    <3>. QED  BY <1>1, <2>2, <3>1
  <2>4. m \in I
    BY <1>1, <1>6, <2>2, <2>3 DEF Firsts
  <2>. QED  BY <2>2, <2>4
<1>. HIDE DEF kept, I, n, f
<1>7. kept \in [1..n -> PanelItem]
  BY <1>1, <1>3, <1>4, <1>5
<1>8. kept \in Seq(PanelItem) /\ Len(kept) = n
  BY <1>3, <1>7, IsList
<1>9. \A i \in 1..n : kept[i] = panels[f[i]] /\ f[i] \in I
  BY <1>3, <1>4
<1>10. ASSUME NEW i \in 1..n, NEW j \in 1..n, kept[i].id = kept[j].id
       PROVE  i = j
  <2>1. ASSUME NEW a \in 1..n, NEW b \in 1..n, a < b, kept[a].id = kept[b].id
        PROVE  FALSE
    <3>1. f[a] < f[b] /\ f[a] \in 1..Len(panels) /\ f[b] \in 1..Len(panels)
      BY <1>3, <1>5, <1>9, <2>1
    <3>2. f[a] \in 1..(f[b] - 1)
      BY <1>1, <3>1
    <3>. QED  BY <1>5, <1>9, <2>1, <3>2
  <2>2. i < j \/ j < i \/ i = j
    BY <1>3
  <2>. QED  BY <1>10, <2>1, <2>2
<1>11. ASSUME NEW i \in 1..n
       PROVE  /\ kept[i].id \in KnownIds
              /\ \E j \in DOMAIN panels :
                   panels[j] = kept[i] /\ \A l \in 1..(j - 1) : panels[l].id # kept[i].id
  BY <1>1, <1>5, <1>9
<1>12. ASSUME NEW x \in Ids(panels) \cap KnownIds
       PROVE  \E i \in 1..n : kept[i].id = x
  <2>1. PICK j \in 1..Len(panels) : panels[j].id = x
    BY <1>1 DEF Ids
  <2>2. PICK m \in I : panels[m].id = x
    BY <1>6, <2>1
  <2>3. PICK i \in 1..n : f[i] = m
    BY <1>3
  <2>. QED  BY <1>9, <2>2, <2>3
<1>. QED  BY <1>8, <1>10, <1>11, <1>12 DEF kept, n, I

\* Added are the panels that are not kept, numbered from the kept ones on.
LEMMA AddedFacts ==
  ASSUME version \in DOMAIN PanelsOf, NEW panels \in Seq(PanelItem)
  PROVE  LET kept == Kept(panels)
             added == Added(panels) IN
         /\ added \in Seq(PanelItem)
         /\ \A i, j \in 1..Len(added) : added[i].id = added[j].id => i = j
         /\ \A i \in 1..Len(added) :
              added[i].id \in KnownIds \ Ids(kept) /\ added[i].order = Len(kept) + i - 1
         /\ \A x \in KnownIds \ Ids(kept) : \E i \in 1..Len(added) : added[i].id = x
<1>. DEFINE kept == Kept(panels)
            added == Added(panels)
            d == PanelsOf[version]
            I == Lacking(panels)
            n == Cardinality(I)
            f == InOrder(I)
<1>1. /\ Len(d) \in Nat /\ DOMAIN d = 1..Len(d)
      /\ \A i, j \in DOMAIN d : d[i].id = d[j].id => i = j
      /\ \A i \in DOMAIN d : d[i].id \in STRING /\ d[i].visible \in BOOLEAN
  BY DefaultsFacts
<1>2. I \in SUBSET (1..Len(d))
  BY <1>1 DEF Lacking
<1>3. /\ n \in Nat /\ f \in [1..n -> I] /\ DOMAIN f = 1..n
      /\ \A i, j \in 1..n : i < j => f[i] < f[j]
      /\ \A x \in I : \E i \in 1..n : f[i] = x
  BY <1>1, <1>2, PlacesFacts
<1>4. added = [i \in DOMAIN f |-> [id |-> d[f[i]].id, visible |-> d[f[i]].visible,
                                  order |-> Len(kept) + i - 1]]
  BY DEF Added
<1>5. Len(kept) \in Nat
  BY KeptFacts
<1>6. \A j \in I : j \in 1..Len(d) /\ d[j].id \notin Ids(kept)
  BY <1>2 DEF Lacking
<1>7. \A j \in 1..Len(d) : d[j].id \notin Ids(kept) => j \in I
  BY <1>1 DEF Lacking
<1>8. KnownIds = {d[i].id : i \in 1..Len(d)}
  BY <1>1 DEF KnownIds, Ids
<1>. HIDE DEF kept, added, d, I, n, f
<1>9. \A i \in 1..n : f[i] \in I /\ f[i] \in 1..Len(d)
  BY <1>3, <1>6
<1>10. \A i \in 1..n : added[i] = [id |-> d[f[i]].id, visible |-> d[f[i]].visible,
                                   order |-> Len(kept) + i - 1]
  BY <1>3, <1>4
<1>11. \A i \in 1..n : added[i] \in PanelItem /\ added[i].id = d[f[i]].id
                          /\ added[i].order = Len(kept) + i - 1
  <2>. TAKE i \in 1..n
  <2>1. d[f[i]].id \in STRING /\ d[f[i]].visible \in BOOLEAN /\ Len(kept) + i - 1 \in Int
    BY <1>1, <1>3, <1>5, <1>9
  <2>. DEFINE x == d[f[i]].id
              v == d[f[i]].visible
              o == Len(kept) + i - 1
  <2>2. added[i] = [id |-> x, visible |-> v, order |-> o]
    BY <1>10
  <2>3. x \in STRING /\ v \in BOOLEAN /\ o \in Int
    BY <2>1
  <2>. HIDE DEF x, v, o
  <2>4. [id |-> x, visible |-> v, order |-> o] \in PanelItem
    BY <2>3 DEF PanelItem
  <2>5. added[i].id = x /\ added[i].order = o
    BY <2>2
  <2>. QED  BY <2>2, <2>4, <2>5 DEF x, o
<1>12. added \in [1..n -> PanelItem]
  BY <1>3, <1>4, <1>11
<1>13. added \in Seq(PanelItem) /\ Len(added) = n
  BY <1>3, <1>12, IsList
<1>14. ASSUME NEW i \in 1..n, NEW j \in 1..n, added[i].id = added[j].id
       PROVE  i = j
  <2>1. f[i] = f[j]
    BY <1>1, <1>9, <1>11, <1>14
  <2>2. f[i] \in Int /\ (i < j => f[i] < f[j]) /\ (j < i => f[j] < f[i])
    BY <1>3, <1>9
  <2>3. i < j \/ j < i \/ i = j
    BY <1>3
  <2>. QED  BY <2>1, <2>2, <2>3
<1>15. \A i \in 1..n : added[i].id \in KnownIds \ Ids(kept)
  BY <1>6, <1>8, <1>9, <1>11
<1>16. ASSUME NEW x \in KnownIds \ Ids(kept)
       PROVE  \E i \in 1..n : added[i].id = x
  <2>1. PICK j \in 1..Len(d) : d[j].id = x
    BY <1>8
  <2>2. PICK i \in 1..n : f[i] = j
    BY <1>3, <1>7, <2>1
  <2>. QED  BY <1>11, <2>1, <2>2
<1>. QED  BY <1>11, <1>13, <1>14, <1>15, <1>16 DEF kept, added

\* What a client is shown of a list.
ShownRight(shown, from) ==
  /\ Ids(shown) = KnownIds /\ \A id \in KnownIds : Once(shown, id)
  /\ \A i \in DOMAIN shown :
       shown[i].id \in Ids(from) =>
         \E j \in DOMAIN from : from[j] = shown[i] /\ \A l \in 1..(j - 1) : from[l].id # shown[i].id
  /\ Current(from) => Current(shown)

\* A list with each name once has as many names as elements, and conversely.
LEMMA DistinctIds ==
  ASSUME NEW panels \in Seq(PanelItem)
  PROVE  Cardinality(Ids(panels)) = Len(panels) <=>
           \A i, j \in 1..Len(panels) : panels[i].id = panels[j].id => i = j
<1>. DEFINE n == Len(panels)
            g == [i \in 1..n |-> panels[i].id]
<1>1. n \in Nat /\ DOMAIN panels = 1..n
  BY ItemFacts
<1>2. Ids(panels) = {panels[i].id : i \in 1..n}
  BY <1>1 DEF Ids
<1>3. g \in Surjection(1..n, Ids(panels))
  BY <1>2 DEF Surjection
<1>4. IsFiniteSet(1..n) /\ Cardinality(1..n) = n
  BY <1>1, FS_Interval
<1>. HIDE DEF g, n
<1>5. Cardinality(Ids(panels)) = n <=> g \in Injection(1..n, Ids(panels))
  BY <1>3, <1>4, FS_Surjection
<1>6. g \in Injection(1..n, Ids(panels)) <=> \A i, j \in 1..n : g[i] = g[j] => i = j
  BY <1>3 DEF Injection, Surjection, IsInjective
<1>7. \A i \in 1..n : g[i] = panels[i].id
  BY DEF g
<1>. QED  BY <1>5, <1>6, <1>7 DEF n

\* Whatever list is merged, the panels of this version are shown, each once.
LEMMA MergeRight ==
  ASSUME version \in DOMAIN PanelsOf, NEW panels \in Seq(PanelItem)
  PROVE  /\ MergeWithDefaults(panels) \in Seq(PanelItem)
         /\ ShownRight(MergeWithDefaults(panels), panels)
<1>. DEFINE kept == Kept(panels)
            added == Added(panels)
            shown == MergeWithDefaults(panels)
            m == Len(kept)
            n == Len(added)
<1>1. /\ kept \in Seq(PanelItem)
      /\ m = Cardinality(Firsts(panels))
      /\ \A i, j \in 1..m : kept[i].id = kept[j].id => i = j
      /\ \A i \in 1..m :
           /\ kept[i].id \in KnownIds
           /\ \E j \in DOMAIN panels :
                panels[j] = kept[i] /\ \A l \in 1..(j - 1) : panels[l].id # kept[i].id
      /\ \A x \in Ids(panels) \cap KnownIds : \E i \in 1..m : kept[i].id = x
  BY KeptFacts
<1>2. /\ added \in Seq(PanelItem)
      /\ \A i, j \in 1..n : added[i].id = added[j].id => i = j
      /\ \A i \in 1..n : added[i].id \in KnownIds \ Ids(kept) /\ added[i].order = m + i - 1
      /\ \A x \in KnownIds \ Ids(kept) : \E i \in 1..n : added[i].id = x
  BY AddedFacts
<1>3. shown = kept \o added
  BY MergeHalves
<1>4. m \in Nat /\ n \in Nat /\ DOMAIN kept = 1..m
  BY <1>1, <1>2
<1>5. Ids(kept) = {kept[i].id : i \in 1..m}
  BY <1>4 DEF Ids
<1>6. kept = [i \in DOMAIN InOrder(Firsts(panels)) |-> panels[InOrder(Firsts(panels))[i]]]
  BY DEF Kept
<1>. HIDE DEF kept, added, shown, m, n
<1>7. /\ shown \in Seq(PanelItem) /\ Len(shown) = m + n /\ DOMAIN shown = 1..(m + n)
      /\ \A i \in 1..m : shown[i] = kept[i]
      /\ \A i \in 1..n : shown[m + i] = added[i]
  <2>1. /\ kept \o added \in Seq(PanelItem)
        /\ Len(kept \o added) = Len(kept) + Len(added)
        /\ \A i \in 1..(Len(kept) + Len(added)) :
             (kept \o added)[i] = IF i <= Len(kept) THEN kept[i] ELSE added[i - Len(kept)]
    BY <1>1, <1>2, ConcatProperties
  <2>2. /\ shown \in Seq(PanelItem) /\ Len(shown) = m + n
        /\ \A i \in 1..(m + n) : shown[i] = IF i <= m THEN kept[i] ELSE added[i - m]
    BY <1>3, <2>1 DEF m, n
  <2>3. DOMAIN shown = 1..(m + n)
    BY <2>2
  <2>. QED  BY <1>4, <2>2, <2>3
<1>8. ASSUME NEW i \in 1..(m + n)
      PROVE  \/ i \in 1..m /\ shown[i] = kept[i]
             \/ i - m \in 1..n /\ shown[i] = added[i - m]
  BY <1>4, <1>7
<1>9. Ids(shown) = {shown[i].id : i \in 1..(m + n)}
  BY <1>7 DEF Ids
<1>10. Ids(shown) = KnownIds
  <2>1. ASSUME NEW i \in 1..(m + n)
        PROVE  shown[i].id \in KnownIds
    BY <1>1, <1>2, <1>8
  <2>2. ASSUME NEW x \in KnownIds
        PROVE  \E i \in 1..(m + n) : shown[i].id = x
    <3>1. CASE x \in Ids(kept)
      <4>1. PICK i \in 1..m : kept[i].id = x
        BY <1>5, <3>1
      <4>2. i \in 1..(m + n)
        BY <1>4
      <4>. QED  BY <1>7, <4>1, <4>2
    <3>2. CASE x \notin Ids(kept)
      <4>1. PICK i \in 1..n : added[i].id = x
        BY <1>2, <3>2
      <4>2. m + i \in 1..(m + n)
        BY <1>4
      <4>. QED  BY <1>7, <4>1, <4>2
    <3>. QED  BY <3>1, <3>2
  <2>. QED  BY <1>9, <2>1, <2>2
<1>11. ASSUME NEW i \in 1..(m + n), NEW j \in 1..(m + n), shown[i].id = shown[j].id
       PROVE  i = j
  <2>1. \A a \in 1..m, b \in 1..n : kept[a].id # added[b].id
    BY <1>2, <1>5
  <2>2. CASE i \in 1..m /\ shown[i] = kept[i]
    BY <1>1, <1>8, <1>11, <2>1, <2>2
  <2>3. CASE i - m \in 1..n /\ shown[i] = added[i - m]
    <3>1. j - m \in 1..n /\ shown[j] = added[j - m]
      BY <1>8, <1>11, <2>1, <2>3
    <3>2. i - m = j - m
      BY <1>2, <1>11, <2>3, <3>1
    <3>. QED  BY <1>4, <3>2
  <2>. QED  BY <1>8, <2>2, <2>3
<1>12. ASSUME NEW id \in KnownIds
       PROVE  Once(shown, id)
  <2>1. PICK i \in 1..(m + n) : shown[i].id = id
    BY <1>9, <1>10
  <2>2. {j \in DOMAIN shown : shown[j].id = id} = {i}
    BY <1>7, <1>11, <2>1
  <2>. QED  BY <2>2, FS_Singleton DEF Once
<1>13. ASSUME NEW i \in DOMAIN shown, shown[i].id \in Ids(panels)
       PROVE  \E j \in DOMAIN panels :
                panels[j] = shown[i] /\ \A l \in 1..(j - 1) : panels[l].id # shown[i].id
  <2>1. CASE i \in 1..m /\ shown[i] = kept[i]
    BY <1>1, <2>1
  <2>2. CASE i - m \in 1..n /\ shown[i] = added[i - m]
    BY <1>1, <1>2, <1>5, <1>13, <2>2
  <2>. QED  BY <1>7, <1>8, <2>1, <2>2
<1>14. ASSUME Current(panels)
       PROVE  Current(shown)
  <2>. DEFINE k == Len(panels)
  <2>1. k \in Nat /\ DOMAIN panels = 1..k
    BY ItemFacts
  <2>2. \A i, j \in 1..k : panels[i].id = panels[j].id => i = j
    BY <1>14, DistinctIds DEF Current
  <2>3. \A i \in 1..k : panels[i].id \in KnownIds /\ panels[i].order = i - 1
    BY <1>14, <2>1 DEF Current, Ids
  <2>4. Firsts(panels) = 1..k
    BY <2>1, <2>2, <2>3 DEF Firsts
  <2>5. m = k /\ \A i \in 1..k : InOrder(1..k)[i] = i
    BY <1>1, <2>1, <2>4, AllInOrder
  <2>6. DOMAIN InOrder(1..k) = 1..k
    BY <2>1, AllInOrder, PlacesFacts
  <2>7. \A i \in 1..m : kept[i] = panels[i]
    BY <1>6, <2>4, <2>5, <2>6
  <2>. HIDE DEF k
  <2>8. \A i \in 1..(m + n) : shown[i].order = i - 1
    <3>. TAKE i \in 1..(m + n)
    <3>1. CASE i \in 1..m /\ shown[i] = kept[i]
      BY <2>3, <2>5, <2>7, <3>1
    <3>2. CASE i - m \in 1..n /\ shown[i] = added[i - m]
      BY <1>2, <1>4, <3>2
    <3>. QED  BY <1>8, <3>1, <3>2
  <2>9. Cardinality(Ids(shown)) = Len(shown)
    BY <1>7, <1>11, DistinctIds
  <2>. QED  BY <1>7, <1>10, <2>8, <2>9 DEF Current
<1>15. ShownRight(shown, panels)
  BY <1>10, <1>12, <1>13, <1>14 DEF ShownRight
<1>. QED  BY <1>7, <1>15 DEF shown

\* What is shown of a file, read or not.
LEMMA LoadedRight ==
  ASSUME version \in DOMAIN PanelsOf, NEW from \in Contents
  PROVE  /\ Loaded(from) \in Seq(PanelItem)
         /\ Ids(Loaded(from)) = KnownIds /\ \A id \in KnownIds : Once(Loaded(from), id)
         /\ from \notin {NoFile, Corrupt} => ShownRight(Loaded(from), from)
<1>1. CASE from \in {NoFile, Corrupt}
  <2>1. <<>> \in Seq(PanelItem)
    OBVIOUS
  <2>2. Loaded(from) = MergeWithDefaults(<<>>)
    BY <1>1 DEF Loaded, DefaultConfig
  <2>. QED  BY <1>1, <2>1, <2>2, MergeRight DEF ShownRight
<1>2. CASE from \notin {NoFile, Corrupt}
  <2>1. from \in Seq(PanelItem) /\ Loaded(from) = MergeWithDefaults(from)
    BY <1>2, PrefsAssumption DEF Contents, Loaded
  <2>. QED  BY <2>1, MergeRight DEF ShownRight
<1>. QED  BY <1>1, <1>2

\* A list on its way to a client is what the file said.
Shows(r) ==
  r.pc = "loaded" =>
    /\ r.panels = Loaded(r.from)
    /\ r.from = r.last \/ (r.from = Corrupt /\ r.broken = TRUE)

\* The writer holds the lock, and a file that nobody writes is the one saved last, unless a
\* write was broken off.
PrefsInv ==
  /\ PrefsTypeOK
  /\ \A w \in Handlers : /\ pref[w].pc \in {"truncate", "write"} => lock = w
                         /\ pref[w].pc = "write" => prefsFile = Corrupt
                         /\ Shows(pref[w])
  /\ (\A w \in Handlers : pref[w].pc # "write") =>
       prefsFile = saved \/ (prefsFile = Corrupt /\ damaged = TRUE)

\* What a request that is under way is.
LEMMA PrefShape ==
  ASSUME NEW r \in {Resting} \cup Saving \cup Showing
  PROVE  /\ r.pc \in {"lock", "truncate", "write"} => r \in Saving
         /\ r.pc = "loaded" => r \in Showing
  BY DEF Resting, Saving, Showing

\* There is no file at first, and no request.
LEMMA PrefsInitially == PrefsInit => PrefsInv
<1>. SUFFICES ASSUME PrefsInit PROVE PrefsInv
  OBVIOUS
<1>1. \A w \in Handlers : pref[w] = Resting /\ pref[w].pc = "idle"
  BY DEF PrefsInit, Resting
<1>2. PrefsTypeOK
  BY DEF PrefsInit, PrefsTypeOK, Contents
<1>. QED  BY <1>1, <1>2 DEF PrefsInit, PrefsInv, Shows

\* A step of one handler that leaves the file, the history and the version.
LEMMA HandlerAlone ==
  ASSUME PrefsInv, NEW w \in Handlers, NEW r \in {Resting} \cup Saving \cup Showing,
         Serves(w, r), UNCHANGED <<version, prefsFile, saved, damaged>>,
         lock' \in Handlers \cup {NoLock},
         \A v \in Handlers \ {w} : pref[v].pc \in {"truncate", "write"} => lock' = v,
         r.pc \in {"truncate", "write"} => lock' = w,
         r.pc # "write", pref[w].pc # "write", Shows(r)
  PROVE  PrefsInv'
<1>. USE DEF PrefsInv, PrefsTypeOK
<1>1. pref' \in [Handlers -> {Resting} \cup Saving \cup Showing] /\ pref'[w] = r
        /\ \A v \in Handlers \ {w} : pref'[v] = pref[v]
  BY DEF Serves
<1>2. \A x : Loaded(x)' = Loaded(x)
  BY DEF Loaded, DefaultConfig, MergeWithDefaults, Firsts, KnownIds
<1>3. PrefsTypeOK'
  BY <1>1
<1>4. \A v \in Handlers : Shows(pref[v])'
  BY <1>1, <1>2 DEF Shows
<1>5. \A v \in Handlers : /\ pref'[v].pc \in {"truncate", "write"} => lock' = v
                         /\ pref'[v].pc = "write" => prefsFile' = Corrupt
  BY <1>1
<1>. QED  BY <1>1, <1>3, <1>4, <1>5

\* Reading needs the lock to be free, so that no write is in progress.
LEMMA LoadKeeps ==
  ASSUME PrefsInv, NEW w \in Handlers, Load(w)
  PROVE  PrefsInv'
<1>. DEFINE r == [pc |-> "loaded", panels |-> Loaded(prefsFile),
                  from |-> prefsFile, last |-> saved, broken |-> damaged]
<1>1. prefsFile \in Contents /\ saved \in Contents /\ damaged \in BOOLEAN
        /\ version \in DOMAIN PanelsOf
  BY DEF PrefsInv, PrefsTypeOK
<1>2. Loaded(prefsFile) \in Seq(PanelItem)
  BY <1>1, LoadedRight
<1>3. r \in Showing
  BY <1>1, <1>2 DEF Showing
<1>4. \A v \in Handlers : pref[v].pc \notin {"truncate", "write"}
  BY PrefsAssumption DEF Load, Readable, PrefsInv
<1>5. Shows(r)
  BY <1>4 DEF Shows, PrefsInv
<1>6. Serves(w, r) /\ UNCHANGED <<version, prefsFile, lock, saved, damaged>> /\ r.pc = "loaded"
  BY DEF Load
<1>. HIDE DEF r
<1>. QED  BY <1>3, <1>4, <1>5, <1>6, HandlerAlone DEF PrefsInv, PrefsTypeOK

\* A new request, the end of one, the lock, and a truncation that fails.
LEMMA LightStepKeeps ==
  ASSUME PrefsInv, NEW w \in Handlers,
         \/ LoadEnd(w) \/ SaveLock(w)
         \/ \E panels \in Submitted : SaveBegin(w, panels)
         \/ pref[w].pc = "truncate" /\ Serves(w, Resting) /\ lock' = NoLock
              /\ UNCHANGED <<version, prefsFile, saved, damaged>>
  PROVE  PrefsInv'
<1>1. lock \in Handlers \cup {NoLock} /\ pref[w] \in {Resting} \cup Saving \cup Showing
        /\ (\A v \in Handlers : pref[v].pc \in {"truncate", "write"} => lock = v)
  BY DEF PrefsInv, PrefsTypeOK
<1>2. Resting.pc = "idle" /\ Shows(Resting)
  BY DEF Resting, Shows
<1>3. CASE LoadEnd(w)
  BY <1>1, <1>2, <1>3, HandlerAlone DEF LoadEnd
<1>4. CASE SaveLock(w)
  <2>. DEFINE r == [pref[w] EXCEPT !.pc = "truncate"]
  <2>1. pref[w] \in Saving
    BY <1>1, <1>4, PrefShape DEF SaveLock
  <2>2. r \in Saving /\ r.pc = "truncate" /\ Shows(r)
    BY <2>1 DEF Saving, Shows
  <2>3. \A v \in Handlers : pref[v].pc \notin {"truncate", "write"}
    BY <1>1, <1>4, PrefsAssumption DEF SaveLock
  <2>4. Serves(w, r) /\ lock' = w /\ UNCHANGED <<version, prefsFile, saved, damaged>>
    BY <1>4 DEF SaveLock
  <2>. HIDE DEF r
  <2>. QED  BY <2>2, <2>3, <2>4, HandlerAlone
<1>5. ASSUME NEW panels \in Submitted, SaveBegin(w, panels)
      PROVE  PrefsInv'
  <2>. DEFINE r == [pc |-> "lock", panels |-> panels]
  <2>1. r \in Saving /\ r.pc = "lock" /\ Shows(r)
    BY DEF Saving, Shows
  <2>2. Serves(w, r) /\ UNCHANGED <<version, prefsFile, lock, saved, damaged>> /\ pref[w] = Resting
    BY <1>5 DEF SaveBegin
  <2>. HIDE DEF r
  <2>. QED  BY <1>1, <1>2, <2>1, <2>2, HandlerAlone
<1>6. CASE pref[w].pc = "truncate" /\ Serves(w, Resting) /\ lock' = NoLock
            /\ UNCHANGED <<version, prefsFile, saved, damaged>>
  <2>1. \A v \in Handlers \ {w} : pref[v].pc \notin {"truncate", "write"}
    BY <1>1, <1>6
  <2>. QED  BY <1>1, <1>2, <1>6, <2>1, HandlerAlone
<1>. QED  BY <1>3, <1>4, <1>5, <1>6

\* While a file is written it is corrupt, and its writer holds the lock.
LEMMA TruncateKeeps ==
  ASSUME PrefsInv, NEW w \in Handlers, SaveTruncate(w), prefsFile' = Corrupt,
         Serves(w, [pref[w] EXCEPT !.pc = "write"]), UNCHANGED lock
  PROVE  PrefsInv'
<1>. USE DEF PrefsInv, PrefsTypeOK
<1>. DEFINE r == [pref[w] EXCEPT !.pc = "write"]
<1>1. pref[w] \in Saving /\ pref[w].pc = "truncate" /\ lock = w
  BY PrefShape DEF SaveTruncate
<1>2. r \in Saving /\ r.pc = "write" /\ Shows(r)
  BY <1>1 DEF Saving, Shows
<1>3. pref' = [pref EXCEPT ![w] = r]
  BY DEF Serves
<1>. HIDE DEF r
<1>4. \A x : Loaded(x)' = Loaded(x)
  BY DEF SaveTruncate, Loaded, DefaultConfig, MergeWithDefaults, Firsts, KnownIds
<1>5. pref' \in [Handlers -> {Resting} \cup Saving \cup Showing] /\ pref'[w] = r
        /\ \A v \in Handlers \ {w} : pref'[v] = pref[v]
  BY <1>2, <1>3
<1>6. \A v \in Handlers : Shows(pref[v])'
  BY <1>2, <1>4, <1>5 DEF Shows
<1>7. PrefsTypeOK'
  BY <1>5 DEF SaveTruncate, Contents
<1>. QED  BY <1>1, <1>2, <1>5, <1>6, <1>7

\* A write that is completed is what was saved last; one that fails was broken off.
LEMMA WriteKeeps ==
  ASSUME PrefsInv, NEW w \in Handlers, SaveWrite(w)
  PROVE  PrefsInv'
<1>. USE DEF PrefsInv, PrefsTypeOK
<1>1. pref[w] \in Saving /\ lock = w /\ prefsFile = Corrupt
  BY PrefShape DEF SaveWrite
<1>2. pref[w].panels \in Submitted
  BY <1>1 DEF Saving
<1>3. Resting.pc = "idle" /\ Shows(Resting)
  BY DEF Resting, Shows
<1>4. \A x : Loaded(x)' = Loaded(x)
  BY DEF SaveWrite, Loaded, DefaultConfig, MergeWithDefaults, Firsts, KnownIds
<1>5. pref' \in [Handlers -> {Resting} \cup Saving \cup Showing] /\ pref'[w] = Resting
        /\ \A v \in Handlers \ {w} : pref'[v] = pref[v]
  BY DEF SaveWrite, Serves
<1>6. \A v \in Handlers : Shows(pref[v])'
  BY <1>3, <1>4, <1>5 DEF Shows
<1>7. \A v \in Handlers : pref'[v].pc \notin {"truncate", "write"}
  BY <1>1, <1>3, <1>5
<1>8. PrefsTypeOK' /\ (prefsFile' = saved' \/ (prefsFile' = Corrupt /\ damaged' = TRUE))
  BY <1>1, <1>2, <1>5 DEF SaveWrite, Contents
<1>. QED  BY <1>6, <1>7, <1>8

\* A kill ends all requests; the write it breaks off leaves a corrupt file.
LEMMA PrefsKillKeeps ==
  ASSUME PrefsInv, NEW v \in DOMAIN PanelsOf, PrefsKill(v)
  PROVE  PrefsInv'
<1>. USE DEF PrefsInv, PrefsTypeOK
<1>1. \A w \in Handlers : pref'[w] = Resting /\ pref'[w].pc = "idle"
  BY DEF PrefsKill, Resting
<1>2. damaged' \in BOOLEAN
  BY DEF PrefsKill
<1>3. PrefsTypeOK'
  BY <1>2 DEF PrefsKill
<1>4. \A w \in Handlers : Shows(pref[w])'
  BY <1>1 DEF Shows
<1>5. prefsFile' = saved' \/ (prefsFile' = Corrupt /\ damaged' = TRUE)
  <2>1. CASE \E w \in Handlers : pref[w].pc = "write"
    BY <1>2, <2>1 DEF PrefsKill
  <2>2. CASE \A w \in Handlers : pref[w].pc # "write"
    BY <1>2, <2>2 DEF PrefsKill
  <2>. QED  BY <2>1, <2>2
<1>. QED  BY <1>1, <1>3, <1>4, <1>5

\* Every step of the handlers and every kill keeps PrefsInv.
LEMMA PrefsStep == PrefsInv /\ PrefsNext => PrefsInv'
<1>. SUFFICES ASSUME PrefsInv, PrefsNext PROVE PrefsInv'
  OBVIOUS
<1>1. ASSUME NEW w \in Handlers, SaveTruncate(w)
      PROVE  PrefsInv'
  BY <1>1, TruncateKeeps, LightStepKeeps DEF SaveTruncate
<1>. QED
  BY <1>1, LoadKeeps, LightStepKeeps, WriteKeeps, PrefsKillKeeps DEF PrefsNext

\* What a client is shown follows from the invariant.
LEMMA ShowsWhatWasSaved == PrefsInv => LoadShowsSave
<1>. SUFFICES ASSUME PrefsInv, NEW w \in Handlers, pref[w].pc = "loaded"
              PROVE  LET shown == pref[w].panels
                         from == pref[w].from IN
                     /\ Ids(shown) = KnownIds /\ \A id \in KnownIds : Once(shown, id)
                     /\ from = pref[w].last \/ (from = Corrupt /\ pref[w].broken)
                     /\ from \notin {NoFile, Corrupt} =>
                          /\ \A i \in DOMAIN shown :
                               shown[i].id \in Ids(from) =>
                                 \E j \in DOMAIN from :
                                   /\ from[j] = shown[i]
                                   /\ \A l \in 1..(j - 1) : from[l].id # shown[i].id
                          /\ Current(from) => Current(shown)
  BY DEF LoadShowsSave
<1>1. pref[w] \in Showing /\ version \in DOMAIN PanelsOf /\ Shows(pref[w])
  BY PrefShape DEF PrefsInv, PrefsTypeOK
<1>2. pref[w].from \in Contents
  BY <1>1 DEF Showing
<1>3. pref[w].panels = Loaded(pref[w].from)
  BY <1>1 DEF Shows
<1>4. pref[w].from = pref[w].last \/ (pref[w].from = Corrupt /\ pref[w].broken)
  BY <1>1 DEF Shows
<1>. QED  BY <1>1, <1>2, <1>3, <1>4, LoadedRight DEF ShownRight

\* While the other parts run the preferences stand still.
LEMMA PrefsStand == PrefsInv /\ UNCHANGED prefsVars => PrefsInv'
<1>. SUFFICES ASSUME PrefsInv, UNCHANGED prefsVars PROVE PrefsInv'
  OBVIOUS
<1>1. UNCHANGED <<version, prefsFile, lock, pref, saved, damaged>>
  BY DEF prefsVars
<1>2. \A x : Loaded(x)' = Loaded(x)
  BY <1>1 DEF Loaded, DefaultConfig, MergeWithDefaults, Firsts, KnownIds
<1>3. \A w \in Handlers : Shows(pref[w])'
  BY <1>1, <1>2 DEF PrefsInv, Shows
<1>. QED
  BY <1>1, <1>3 DEF PrefsInv, PrefsTypeOK

\* PrefsInv is an invariant of the specification.
LEMMA PrefsHold == Spec => []PrefsInv
<1>1. Init => PrefsInv
  BY PrefsInitially DEF Init
<1>2. PrefsInv /\ [Next]_vars => PrefsInv'
  <2>. SUFFICES ASSUME PrefsInv, [Next]_vars PROVE PrefsInv'
    OBVIOUS
  <2>1. CASE PrefsNext
    BY <2>1, PrefsStep
  <2>2. CASE UNCHANGED prefsVars
    BY <2>2, PrefsStand
  <2>. QED
    BY <2>1, <2>2 DEF Next, Rest, vars
<1>. QED
  BY <1>1, <1>2, PTL DEF Spec

\* Prefs.LoadShowsSave for any panels, versions and handlers: whatever list was sent and
\* whenever the process is killed, a client is shown every panel of this version once, in
\* the order of the list saved last unless a write of it was broken off.
THEOREM ShownWhatWasSaved == Spec => []LoadShowsSave
  BY ShowsWhatWasSaved, PrefsHold, PTL

\* HistInv is an invariant of the specification.
LEMMA HistHolds == Spec => []HistInv
<1>1. Init => HistInv
  BY HistInitially DEF Init
<1>2. HistInv /\ [Next]_vars => HistInv'
  BY HistStep DEF Next, Rest, vars
<1>. QED
  BY <1>1, <1>2, PTL DEF Spec

\* Histogram.PercentilesRight for any bounds, counts and number of series: in whatever
\* order buckets of one bound are sorted, the percentiles ascend and stay within the
\* bounds, and those of one series lie on the side of each bound on which the rank lies.
THEOREM PercentilesAreRight == Spec => []PercentilesRight
<1>1. HistInv => PercentilesRight
  BY DEF HistInv
<1>. QED
  BY <1>1, HistHolds, PTL

\* MCBrowser.TypeOK: the types of the five parts.
THEOREM BrowserTypeCorrect == Spec => []TypeOK
<1>1. KVInv /\ HashInv /\ KeyInv /\ PrefsInv /\ HistInv => TypeOK
  BY DEF KVInv, HashInv, KeyInv, PrefsInv, HistInv, TypeOK
<1>. QED
  BY <1>1, KVHolds, HashHolds, KeyHolds, PrefsHold, HistHolds, PTL
=============================================================================
