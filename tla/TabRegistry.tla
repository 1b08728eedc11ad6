---------------------------- MODULE TabRegistry ----------------------------
(***************************************************************************)
(* What the tab registry promises the users of its API: a request that adds, *)
(* moves or removes a tab takes effect in one step between being sent and    *)
(* being answered, for its user, once or not at all.  A tab has one owner    *)
(* for good, an id is never given out twice, and a user is given tabs up to  *)
(* a limit.  Positions and liveness marks are no part of this.              *)
(***************************************************************************)
EXTENDS Naturals, FiniteSets

CONSTANTS
  Users, Ids, Endpoints, Workers,
  Limit,   \* the tabs each user can have
  Nothing  \* no such request is being served

VARIABLES
  tabs,    \* owner and endpoint of each tab, by id
  drawn,   \* the ids given out so far
  asked    \* the request each worker serves

Adding == [op : {"add"}, user : Users, ep : Endpoints]
Moving == [op : {"move"}, user : Users, tab : Ids, ep : Endpoints]
Removing == [op : {"remove"}, user : Users, tab : Ids]

Of(u) == {t \in DOMAIN tabs : tabs[t].owner = u}

Init ==
  /\ tabs = [t \in {} |-> Nothing]
  /\ drawn = {}
  /\ asked = [w \in Workers |-> Nothing]

Ask(w) ==
  /\ asked[w] = Nothing
  /\ asked'[w] \in Adding \cup Moving \cup Removing
  /\ asked' = [asked EXCEPT ![w] = asked'[w]]
  /\ UNCHANGED <<tabs, drawn>>

Answer(w) == asked' = [asked EXCEPT ![w] = Nothing]

Add(w, t) ==
  /\ asked[w] \in Adding
  /\ t \notin drawn
  /\ Cardinality(Of(asked[w].user)) < Limit[asked[w].user]
  /\ tabs' = [i \in DOMAIN tabs \cup {t} |->
                IF i = t THEN [owner |-> asked[w].user, ep |-> asked[w].ep] ELSE tabs[i]]
  /\ drawn' = drawn \cup {t}
  /\ Answer(w)

Move(w) ==
  /\ asked[w] \in Moving /\ asked[w].tab \in Of(asked[w].user)
  /\ tabs' = [tabs EXCEPT ![asked[w].tab].ep = asked[w].ep]
  /\ Answer(w)
  /\ UNCHANGED drawn

Remove(w) ==
  /\ asked[w] \in Removing /\ asked[w].tab \in Of(asked[w].user)
  /\ tabs' = [i \in DOMAIN tabs \ {asked[w].tab} |-> tabs[i]]
  /\ Answer(w)
  /\ UNCHANGED drawn

\* A tab of one's own can always be removed.
Refuse(w) ==
  /\ asked[w] \in Removing => asked[w].tab \notin Of(asked[w].user)
  /\ Answer(w)
  /\ UNCHANGED <<tabs, drawn>>

Next ==
  \E w \in Workers :
    \/ Ask(w)
    \/ \E t \in Ids : Add(w, t)
    \/ Move(w)
    \/ Remove(w)
    \/ Refuse(w)

Spec == Init /\ [][Next]_<<tabs, drawn, asked>>
=============================================================================
