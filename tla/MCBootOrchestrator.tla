------------------------- MODULE MCBootOrchestrator -------------------------
(* TLC instance of BootOrchestrator. *)
EXTENDS BootOrchestrator

CONSTANTS http, https

MCComponents == 1..3
MCBefore(c, d) == c < d

(* Every graph in which names are against the order of starting, one that goes with
   the names, and every graph with a cycle of one or two. *)
MCAgainstNames == {g \in [MCComponents -> SUBSET MCComponents] : \A c \in MCComponents : \A d \in g[c] : c < d}
MCWithNames == {[c \in MCComponents |-> 1..(c - 1)]}
MCCyclic ==
  {g \in [MCComponents -> SUBSET MCComponents] : \E c \in MCComponents : c \in g[c] \/ \E d \in g[c] : c \in g[d]}
MCGraphs == MCAgainstNames \cup MCWithNames \cup MCCyclic

MCTwo == {http, https}
MCOne == {http}
=============================================================================
