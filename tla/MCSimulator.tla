----------------------------- MODULE MCSimulator -----------------------------
(***************************************************************************)
(* Instances of Simulator for TLC.  A millisecond has two microseconds, so *)
(* that truncating the clock matters; a packet takes a second over the bw. *)
(***************************************************************************)
EXTENDS Simulator

Words == "-1" :> -1 @@ "0" :> 0 @@ "1" :> 1 @@ "2" :> 2 @@ "3" :> 3 @@ "4" :> 4
            @@ "500" :> 500 @@ "1000" :> 1000 @@ "4000" :> 4000

Rates == {"0.0", "0.5", "1.0"}

edge(rate, delay, bw, bt) ==
    <<"edge", "0", "1", "lossRate", rate, "delay", delay, "bw", bw, "bt", bt>>

ping(a, b, msg) == <<a, b, msg>>

\* Bursts from the constructor over an edge with a short buffer, slow or lossy, and
\* an edge to a node that does not exist.
Bursts ==
    {<<e, ping("0", "1", "x"), ping("0", "1", "x"), ping("0", "1", "y"), <<"time", "0">>,
       <<"edge", "1", "3">>, ping("1", "3", "x"), ping("1", "0", "x")>> :
        e \in {edge("0.5", "0", "500", "4"), edge("0.0", "3", "500", "2"),
               edge("0.0", "3", "4000", "2")}}

\* Failures, repairs, another edge and a broadcast (to address 4) while packets
\* travel.
Commands ==
    {<<c, ping("1", "0", "y"), <<"time", "+", "2">>, d, ping("0", "1", "x")>> :
        c \in {<<"fail", "0", "1">>, <<"fail", "1">>, edge("1.0", "0", "1000", "4"),
               <<"fail", "x">>, <<"time", "1">>, ping("0", "4", "z")},
        d \in {<<"restart", "0", "1">>, <<"restart", "1", "-1">>}}

\* Lines from the console.
Typed == {<<ping("1", "0", "z"), <<"exit">>>>, <<<<"#", "comment">>>>, <<<<"echo", "x">>>>}

=============================================================================
