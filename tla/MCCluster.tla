----------------------------- MODULE MCCluster -----------------------------
(* Small clusters for TLC: nodes are numbered, the masters come first. *)
EXTENDS Cluster

\* All nodes have the same view t.
Agreed(t) == [n \in Nodes |-> t]

\* Masters 1, 2 and 3 serve a slot each; 4 and 5 are slaves of master 3, which
\* was given epoch e.
TwoSlaves(e) ==
    [cfg |-> [n \in Nodes |-> IF n = 3 THEN e ELSE 0], own |-> [s \in Slots |-> s],
     slaveof |-> [n \in Nodes |-> IF n > 3 THEN 3 ELSE None]]
Rivals == {Agreed(TwoSlaves(0))}
\* Two candidates and two more epochs, or only candidate 4 and three epochs.
Retries ==
    {Agreed(TwoSlaves(1)), Agreed([TwoSlaves(0) EXCEPT !.slaveof[5] = 1])}

\* Masters 1 to 5 serve a slot each; 6 and 7 are slaves of master 5.  Slave 6
\* has no link to masters 3 and 4 and has not heard of their slots, nor has 7
\* of those of 1 and 2.
Unheard(n) == CASE n = 6 -> {3, 4} [] n = 7 -> {1, 2} [] OTHER -> {}
HalfHeard ==
    {[n \in Nodes |->
        [cfg |-> [m \in Nodes |-> 0],
         own |-> [s \in Slots |-> IF s \in Unheard(n) THEN None ELSE s],
         slaveof |-> [m \in Nodes |-> IF m > 5 THEN 5 ELSE None]]]}

\* Masters 1 and 2 and slave 3 of master 2, numbered by redis-trib.
OneSlave == [cfg |-> [n \in Nodes |-> n], own |-> [s \in Slots |-> s],
             slaveof |-> [n \in Nodes |-> IF n > 2 THEN 2 ELSE None]]
\* Three masters, one without slots, that all have epoch 0.
Unnumbered == [cfg |-> [n \in Nodes |-> 0], own |-> [s \in Slots |-> s],
               slaveof |-> [n \in Nodes |-> None]]
Heals == {Agreed(OneSlave), Agreed(Unnumbered)}

NoPairs == {}
Ring == {<<1, 2>>, <<2, 3>>, <<3, 1>>}
AllLinks == Nodes \X Nodes
\* The slaves 4 and 5 cannot reach each other.
Split45 == AllLinks \ {<<4, 5>>, <<5, 4>>}
\* Slave 6 reaches masters 1 and 2, slave 7 masters 3 and 4 and slave 6.
HalfLinks == AllLinks \ {<<6, 3>>, <<6, 4>>, <<7, 1>>, <<7, 2>>, <<6, 7>>}
=============================================================================
