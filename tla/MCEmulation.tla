----------------------------- MODULE MCEmulation -----------------------------
(***************************************************************************)
(* Instances of Emulation for TLC.                                         *)
(***************************************************************************)
EXTENDS Emulation

CONSTANTS p1, p2, p3

Words ==
    LET numbers == {0, 1, 2, 80, 250, 10000, 19001, 19002, 19003}
    IN  [w \in {ToString(n) : n \in numbers} |-> CHOOSE n \in numbers : ToString(n) = w]

later == <<"time", "1">>

edge(delay) == <<"edge", "0", "1", "lossRate", "0.0", "delay", delay>>

\* No file; an edge, or a node, that fails and is restarted at later joins; the edge
\* is also changed, before, and after it an edge fails that is not there.
Files ==
    {<<>>,
     <<edge("1"), later, edge("2"), <<"fail", "0", "1">>, later, <<"restart", "0", "1">>,
       <<"fail", "0", "2">>, <<"exit">>>>,
     <<edge("1"), later, <<"fail", "1">>, later, <<"restart", "0", "1">>, <<"restart", "1">>>>}

\* The edge of a node that has failed is restarted.
RestartedEdge == {<<edge("1"), later, <<"fail", "1">>, later, <<"restart", "0", "1">>>>}

\* The third process has the first one's port, another, or one that is not allowed.
Ports == {p1 :> 19001 @@ p2 :> 19002 @@ p3 :> n : n \in {19001, 19003, 80}}

\* A broadcast from the process that is later replaced.
Broadcast == {[proc |-> p1, dest |-> BROADCAST_ADDRESS]}

=============================================================================
