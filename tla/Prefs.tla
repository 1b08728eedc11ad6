------------------------------- MODULE Prefs -------------------------------
(***************************************************************************)
(* The preferences of a user: a file of panels that GET reads and merges   *)
(* with the panels of this version of the program, and that PUT truncates  *)
(* and writes again, under the lock of FileStore.  A version may add and   *)
(* drop panels.  A write may fail and the process may be killed between    *)
(* any two steps.                                                          *)
(*                                                                         *)
(* One user, as there is one account; the overview cards, whose number is  *)
(* checked, are left out.  An empty file and one that ends early are both  *)
(* corrupt.                                                                *)
(***************************************************************************)
EXTENDS Integers, Sequences, FiniteSets, Enumerations

CONSTANTS
  PanelsOf,    \* DefaultPanels of each version: a sequence of [id, visible]
  Submitted,   \* lists of [id, visible, order] that a client may send
  Handlers,    \* goroutines serving requests
  NoFile, Corrupt, NoLock

PanelItem == [id : STRING, visible : BOOLEAN, order : Int]

ASSUME PrefsAssumption ==
  /\ PanelsOf \in Seq(Seq([id : STRING, visible : BOOLEAN]))
  /\ \A v \in DOMAIN PanelsOf : \A i, j \in DOMAIN PanelsOf[v] :
       PanelsOf[v][i].id = PanelsOf[v][j].id => i = j
  /\ Submitted \subseteq Seq(PanelItem)
  /\ NoFile # Corrupt /\ {NoFile, Corrupt} \cap Submitted = {}
  /\ NoLock \notin Handlers

VARIABLES
  version,     \* of the program
  prefsFile,
  lock,        \* who holds the write lock
  pref,        \* what each handler is doing
  saved,       \* history: the list of the last write that was completed
  damaged      \* history: a write was broken off since

prefsVars == <<version, prefsFile, lock, pref, saved, damaged>>

Resting == [pc |-> "idle"]
Contents == Submitted \cup {NoFile, Corrupt}

Saving == [pc : {"lock", "truncate", "write"}, panels : Submitted]
Showing == [pc : {"loaded"}, panels : Seq(PanelItem), from : Contents, last : Contents,
            broken : BOOLEAN]

PrefsTypeOK ==
  /\ version \in DOMAIN PanelsOf
  /\ {prefsFile, saved} \subseteq Contents
  /\ lock \in Handlers \cup {NoLock}
  /\ pref \in [Handlers -> {Resting} \cup Saving \cup Showing]
  /\ damaged \in BOOLEAN

PrefsInit ==
  /\ version \in DOMAIN PanelsOf
  /\ prefsFile = NoFile /\ saved = NoFile
  /\ lock = NoLock /\ pref = [w \in Handlers |-> Resting]
  /\ damaged = FALSE

-----------------------------------------------------------------------------
(* Merge with the defaults. *)

Ids(panels) == {panels[i].id : i \in DOMAIN panels}

KnownIds == Ids(PanelsOf[version])

EveryKnown(panels) == {i \in DOMAIN panels : panels[i].id \in KnownIds}

\* Known panels, each at its first occurrence.
Firsts(panels) ==
  {i \in DOMAIN panels : panels[i].id \in KnownIds /\ \A j \in 1..(i - 1) : panels[j].id # panels[i].id}

\* What is kept, and behind it the panels it lacks as this version shows them.
MergeWithDefaults(panels) ==
  LET places == InOrder(Firsts(panels))
      kept == [i \in DOMAIN places |-> panels[places[i]]]
      defaults == PanelsOf[version]
      lacking == InOrder({i \in DOMAIN defaults : defaults[i].id \notin Ids(kept)})
      added == [i \in DOMAIN lacking |->
                  [id |-> defaults[lacking[i]].id, visible |-> defaults[lacking[i]].visible,
                   order |-> Len(kept) + i - 1]]
  IN kept \o added

DefaultConfig == MergeWithDefaults(<<>>)

Loaded(contents) ==
  IF contents \in {NoFile, Corrupt} THEN DefaultConfig ELSE MergeWithDefaults(contents)

-----------------------------------------------------------------------------
(* Requests. *)

Serves(w, r) == pref' = [pref EXCEPT ![w] = r]

Anytime == TRUE

\* Readers exclude the writer.
Readable == lock = NoLock

Load(w) ==
  /\ pref[w] = Resting /\ Readable
  /\ Serves(w, [pc |-> "loaded", panels |-> Loaded(prefsFile),
                from |-> prefsFile, last |-> saved, broken |-> damaged])
  /\ UNCHANGED <<version, prefsFile, lock, saved, damaged>>

SaveBegin(w, panels) ==
  /\ pref[w] = Resting
  /\ Serves(w, [pc |-> "lock", panels |-> panels])
  /\ UNCHANGED <<version, prefsFile, lock, saved, damaged>>

SaveLock(w) ==
  /\ pref[w].pc = "lock" /\ lock = NoLock
  /\ lock' = w
  /\ Serves(w, [pref[w] EXCEPT !.pc = "truncate"])
  /\ UNCHANGED <<version, prefsFile, saved, damaged>>

\* The directory or the file may not be writable.
SaveTruncate(w) ==
  /\ pref[w].pc = "truncate"
  /\ \/ /\ prefsFile' = Corrupt
        /\ Serves(w, [pref[w] EXCEPT !.pc = "write"])
        /\ UNCHANGED lock
     \/ /\ Serves(w, Resting) /\ lock' = NoLock
        /\ UNCHANGED prefsFile
  /\ UNCHANGED <<version, saved, damaged>>

SaveWrite(w) ==
  /\ pref[w].pc = "write"
  /\ \/ prefsFile' = pref[w].panels /\ saved' = pref[w].panels /\ damaged' = FALSE
     \/ damaged' = TRUE /\ UNCHANGED <<prefsFile, saved>>
  /\ lock' = NoLock
  /\ Serves(w, Resting)
  /\ UNCHANGED version

LoadEnd(w) ==
  /\ pref[w].pc = "loaded"
  /\ Serves(w, Resting)
  /\ UNCHANGED <<version, prefsFile, lock, saved, damaged>>

\* The process is killed and another version may be started.
PrefsKill(v) ==
  /\ version' = v
  /\ pref' = [w \in Handlers |-> Resting] /\ lock' = NoLock
  /\ damaged' = (damaged \/ \E w \in Handlers : pref[w].pc = "write")
  /\ UNCHANGED <<prefsFile, saved>>

PrefsNext ==
  \/ \E w \in Handlers :
       \/ Load(w) \/ LoadEnd(w)
       \/ \E panels \in Submitted : SaveBegin(w, panels)
       \/ SaveLock(w) \/ SaveTruncate(w) \/ SaveWrite(w)
  \/ \E v \in DOMAIN PanelsOf : PrefsKill(v)

-----------------------------------------------------------------------------

\* The list is numbered in its order and all of it is known.
Current(panels) ==
  /\ Ids(panels) \subseteq KnownIds /\ Cardinality(Ids(panels)) = Len(panels)
  /\ \A i \in DOMAIN panels : panels[i].order = i - 1

Once(panels, id) == Cardinality({i \in DOMAIN panels : panels[i].id = id}) = 1

(* A client is shown the panels of the program's version, each once,         *)
(* whatever list an older or a newer version or another client left: what   *)
(* was saved last as it was saved, numbered without gaps if it was and has  *)
(* lost no panel.  Only a write that was broken off brings the defaults     *)
(* back; a write in progress is never seen.                                *)
LoadShowsSave ==
  \A w \in Handlers : pref[w].pc = "loaded" =>
    LET shown == pref[w].panels
        from == pref[w].from IN
    /\ Ids(shown) = KnownIds /\ \A id \in KnownIds : Once(shown, id)
    /\ from = pref[w].last \/ (from = Corrupt /\ pref[w].broken)
    /\ from \notin {NoFile, Corrupt} =>
         /\ \A i \in DOMAIN shown :
              shown[i].id \in Ids(from) =>
                \E j \in DOMAIN from : from[j] = shown[i] /\ \A l \in 1..(j - 1) : from[l].id # shown[i].id
         /\ Current(from) => Current(shown)
=============================================================================
