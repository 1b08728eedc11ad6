----------------------------- MODULE MCBrowser -----------------------------
(***************************************************************************)
(* Instances for TLC of five parts of the server that share no state: the  *)
(* key browser's client, the consistency check, the key file, the          *)
(* preferences and the percentiles of a histogram.  A behaviour is one of  *)
(* one part while the others rest, so that TLC adds their states up and    *)
(* does not multiply them.                                                 *)
(***************************************************************************)
EXTENDS KVClient, HashKV, KeyFile, Prefs, Histogram

VARIABLE part

Rest(a, b, c, d) == UNCHANGED <<a, b, c, d, part>>

Init ==
  /\ part \in {"browser", "hash", "key", "prefs", "histogram"}
  /\ KVInit /\ HashInit /\ KeyInit /\ PrefsInit /\ HistInit
  /\ part # "prefs" => version = 1

vars == <<kvVars, hashVars, keyVars, prefsVars, histVars, part>>

Next ==
  \/ part = "browser" /\ KVNext /\ Rest(hashVars, keyVars, prefsVars, histVars)
  \/ part = "hash" /\ HashNext /\ Rest(kvVars, keyVars, prefsVars, histVars)
  \/ part = "key" /\ KeyNext /\ Rest(kvVars, hashVars, prefsVars, histVars)
  \/ part = "prefs" /\ PrefsNext /\ Rest(kvVars, hashVars, keyVars, histVars)
  \/ part = "histogram" /\ HistNext /\ Rest(kvVars, hashVars, keyVars, prefsVars)

Spec == Init /\ [][Next]_vars

Slash(s) == [slash |-> TRUE, segs |-> s]
Bare(s) == [slash |-> FALSE, segs |-> s]

MCKeys ==
  <<Slash(<<"app">>), Slash(<<"app", "x">>), Slash(<<"app", "x", "y">>), Slash(<<"app2", "x">>),
    Bare(<<"app">>), Bare(<<"app", "x">>)>>
MCLonger == {<<"app", "app2">>}

Panel(p) == [id |-> p, visible |-> p # "b"]
MCPanels == <<<<Panel("a"), Panel("b")>>, <<Panel("b"), Panel("c"), Panel("d")>>>>

Item(p, v, n) == [id |-> p, visible |-> v, order |-> n]

\* A list of the first version as the front end sends it, one of the second, one with
\* repeated and unknown panels, and none.
MCSubmitted ==
  {<<Item("b", TRUE, 0), Item("a", FALSE, 1)>>,
   <<Item("d", FALSE, 0), Item("b", TRUE, 1), Item("c", TRUE, 2)>>,
   <<Item("c", TRUE, 0), Item("z", TRUE, 1), Item("c", FALSE, 2), Item("b", FALSE, 7)>>,
   <<>>}

TypeOK == KVTypeOK /\ HashTypeOK /\ KeyTypeOK /\ PrefsTypeOK /\ HistTypeOK
=============================================================================
