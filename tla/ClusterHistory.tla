--------------------------- MODULE ClusterHistory ---------------------------
(***************************************************************************)
(* What the metrics store promises its readers, as docs/DATA_RETENTION.md   *)
(* puts it: a history of one cluster at a time.  A sample enters as a       *)
(* sample of the recorded cluster, leaves when it is older than the         *)
(* retention, and otherwise only together with all the others, when another *)
(* cluster may take their place.                                           *)
(***************************************************************************)
EXTENDS Naturals

CONSTANTS Clusters, NoCluster, MaxAge, Oldest

VARIABLES cluster, samples

Sample == [cluster : Clusters, age : 0..Oldest]

Init == cluster = NoCluster /\ samples = {}

Record ==
  /\ cluster \in Clusters
  /\ samples' = samples \cup {[cluster |-> cluster, age |-> 0]}
  /\ UNCHANGED cluster

GrowOlder ==
  /\ samples' = {[s EXCEPT !.age = IF @ < Oldest THEN @ + 1 ELSE @] : s \in samples}
  /\ UNCHANGED cluster

Expire ==
  /\ samples' = {s \in samples : s.age <= MaxAge}
  /\ UNCHANGED cluster

Switch ==
  /\ cluster' \in Clusters \cup {NoCluster}
  /\ samples' = {}

Next == Record \/ GrowOlder \/ Expire \/ Switch

Spec == Init /\ [][Next]_<<cluster, samples>>
=============================================================================
