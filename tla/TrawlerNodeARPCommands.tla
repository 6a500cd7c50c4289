------------------------ MODULE TrawlerNodeARPCommands ------------------------
(***************************************************************************)
(* The lines by which the trawler tells a node of its neighbours.  As in   *)
(* CommandsParser a line is the sequence of its words, and a word that     *)
(* std::stoi takes is in the domain of Numbers; ToString is what an        *)
(* ostringstream makes of a number.  A loss rate is a word throughout.     *)
(*                                                                         *)
(* What receives a line returns a set: what it says, or nothing.           *)
(***************************************************************************)
EXTENDS CommandsParser

addNeighbor(nodeId, ip, port) ==
    <<"add", ToString(nodeId), ip, ToString(port)>>

addNeighborOptions(nodeId, ip, port, o) ==
    addNeighbor(nodeId, ip, port) \o
        <<"lossRate", o.lossRate, "delay", ToString(o.delay), "bw", ToString(o.bw),
          "bt", ToString(o.bt)>>

removeNeighbor(nodeId) == <<"remove", ToString(nodeId)>>

reset == <<"reset">>

\* [nodeId, ipAddress, port, options]; options is a set of one or none.
result(args, options) ==
    {[nodeId |-> Numbers[args[2]], ipAddress |-> args[3], port |-> Numbers[args[4]],
      options |-> options]}

receiveAddNeighborOptions(args) ==
    IF /\ Len(args) = 12 /\ args[1] = "add" /\ args[5] = "lossRate"
       /\ args[7] = "delay" /\ args[9] = "bw" /\ args[11] = "bt"
       /\ \A i \in {2, 4, 8, 10, 12} : isNumber(args, i)
       /\ args[6] \in LossRates
    THEN result(args, {[lossRate |-> args[6], delay |-> Numbers[args[8]],
                        bw |-> Numbers[args[10]], bt |-> Numbers[args[12]]]})
    ELSE {}

receiveAddNeighbor(args) ==
    IF receiveAddNeighborOptions(args) # {} THEN receiveAddNeighborOptions(args)
    ELSE IF Len(args) = 4 /\ args[1] = "add" /\ isNumber(args, 2) /\ isNumber(args, 4)
         THEN result(args, {})
         ELSE {}

receiveRemoveNeighbor(args) ==
    IF Len(args) = 2 /\ args[1] = "remove" /\ isNumber(args, 2)
    THEN {Numbers[args[2]]} ELSE {}

receiveReset(args) == args = reset

=============================================================================
