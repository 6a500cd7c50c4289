------------------------------- MODULE Topology -------------------------------
(***************************************************************************)
(* Topology: the edges between nodes, and which edges and nodes have       *)
(* failed.  `g` is any record with the fields edges (a function of the set *)
(* of an edge's two ends), failedNodes and allToAll; the simulator's state *)
(* and the trawler's are such records.                                     *)
(*                                                                         *)
(* In the all-to-all mode the code makes an edge when it is first looked   *)
(* for; here such an edge is one that has the default options until it is  *)
(* changed.                                                                *)
(***************************************************************************)
EXTENDS Integers, FiniteSets, TLC

\* EdgeOptions.
defaultOptions == [lossRate |-> "0.0", delay |-> 1, bw |-> 10000, bt |-> 250]

NewEdge(ends) ==
    [live |-> TRUE, options |-> defaultOptions, nextSendTime |-> [n \in ends |-> 0]]

hasEdge(g, ends) == g.allToAll \/ ends \in DOMAIN g.edges

getEdge(g, ends) == IF ends \in DOMAIN g.edges THEN g.edges[ends] ELSE NewEdge(ends)

putEdge(g, ends, edge) ==
    [g EXCEPT !.edges =
        [e \in DOMAIN @ \cup {ends} |-> IF e = ends THEN edge ELSE @[e]]]

isNodeAlive(g, n) == n \notin g.failedNodes

hasLiveEdge(g, a, b) ==
    /\ hasEdge(g, {a, b})
    /\ getEdge(g, {a, b}).live
    /\ isNodeAlive(g, a) /\ isNodeAlive(g, b)

newEdge(g, a, b, options) ==
    putEdge(g, {a, b}, [getEdge(g, {a, b}) EXCEPT !.options = options])

\* failEdge and restartEdge; an edge that does not exist stays so.
changeEdge(g, ends, live) ==
    IF hasEdge(g, ends)
    THEN putEdge(g, ends, [getEdge(g, ends) EXCEPT !.live = live])
    ELSE g

\* failNode and restartNode.
changeNode(g, n, live) ==
    [g EXCEPT !.failedNodes = IF live THEN @ \ {n} ELSE @ \cup {n}]

=============================================================================
