---------------------------- MODULE CommandsParser ----------------------------
(***************************************************************************)
(* CommandsParser and SimulationCommandsParser: what a line of a topology  *)
(* file, a command file or the console means, and how a StackNode takes a  *)
(* command.  A line is the sequence of its words; an empty line is <<"">>. *)
(*                                                                         *)
(* parseLine returns a record whose field op says what is to be done; the  *)
(* Simulator does it.  A word is a number, as std::stoi and std::stoll read*)
(* it, or it is not; a loss rate stays a word.                             *)
(***************************************************************************)
EXTENDS Topology, Sequences

CONSTANTS
    Numbers,        \* the words that are numbers, with their values
    LossRates,      \* the words that are loss rates
    MicrosPerMs     \* 1000 in the code

ASSUME ParserConstants ==
    /\ \A word \in DOMAIN Numbers : Numbers[word] \in Int
    /\ {"0.0"} \subseteq LossRates
    /\ MicrosPerMs \in Nat \ {0}

isNumber(cmd, i) == i <= Len(cmd) /\ cmd[i] \in DOMAIN Numbers

nothing == [op |-> "none"]

\* A word that begins with # or // stands here as that beginning.
skipLine(cmd) == cmd[1] \in {"", "#", "//"}

-----------------------------------------------------------------------------
(* edge A B [lossRate R [delay D [bw W [bt T]]]] *)

\* A number option at word i, if the line is that long and names it there.
option(cmd, i, name, default) ==
    IF Len(cmd) > i /\ cmd[i] = name THEN Numbers[cmd[i + 1]] ELSE default

edgeOptions(cmd) ==
    [lossRate |-> IF Len(cmd) > 4 /\ cmd[4] = "lossRate" THEN cmd[5] ELSE "0.0",
     delay |-> option(cmd, 6, "delay", defaultOptions.delay),
     bw |-> option(cmd, 8, "bw", defaultOptions.bw),
     bt |-> option(cmd, 10, "bt", defaultOptions.bt)]

\* Anything else ends in "Error parsing edge command".
edgeWellFormed(cmd) ==
    /\ Len(cmd) \in {3, 5, 7, 9, 11}
    /\ isNumber(cmd, 2) /\ isNumber(cmd, 3)
    /\ Len(cmd) > 4 /\ cmd[4] = "lossRate" => cmd[5] \in LossRates
    /\ Len(cmd) > 6 /\ cmd[6] = "delay" => isNumber(cmd, 7)
    /\ Len(cmd) > 8 /\ cmd[8] = "bw" => isNumber(cmd, 9)
    /\ Len(cmd) > 10 /\ cmd[10] = "bt" => isNumber(cmd, 11)

parseEdge(cmd) ==
    IF edgeWellFormed(cmd)
    THEN [op |-> "edge", a |-> Numbers[cmd[2]], b |-> Numbers[cmd[3]],
          options |-> edgeOptions(cmd)]
    ELSE nothing

-----------------------------------------------------------------------------
(* fail A [B], restart A [B]: an edge, or a node if B is missing or -1. *)

parseFailOrRestart(cmd) ==
    LET live == cmd[1] = "restart"
    IN  CASE ~isNumber(cmd, 2) \/ (Len(cmd) > 2 /\ ~isNumber(cmd, 3)) -> nothing
          [] isNumber(cmd, 2) /\ isNumber(cmd, 3) /\ Numbers[cmd[3]] # -1 ->
                [op |-> "changeEdge", a |-> Numbers[cmd[2]], b |-> Numbers[cmd[3]],
                 live |-> live]
          [] OTHER -> [op |-> "changeNode", a |-> Numbers[cmd[2]], live |-> live]

-----------------------------------------------------------------------------
(* time N, time + N: a point in microseconds until which parsing is deferred. *)

parseTime(cmd, nowMicros) ==
    IF Len(cmd) > 1 /\ cmd[2] = "+"
    THEN IF isNumber(cmd, 3)
         THEN [op |-> "defer", till |-> nowMicros + Numbers[cmd[3]] * MicrosPerMs]
         ELSE nothing
    ELSE IF isNumber(cmd, 2)
         THEN [op |-> "defer", till |-> Numbers[cmd[2]] * MicrosPerMs]
         ELSE nothing

\* SimulationCommandsParser: the words after a node's address are its command.
parseNodeCmd(cmd) ==
    IF Len(cmd) > 1 /\ isNumber(cmd, 1)
    THEN [op |-> "node", node |-> Numbers[cmd[1]], args |-> Tail(cmd)]
    ELSE nothing

parseLine(cmd, nowMicros) ==
    CASE skipLine(cmd) -> nothing
      [] cmd[1] = "edge" -> parseEdge(cmd)
      [] cmd[1] \in {"fail", "restart"} -> parseFailOrRestart(cmd)
      [] cmd[1] = "exit" -> [op |-> "exit"]
      [] cmd[1] = "echo" -> nothing
      [] cmd[1] = "time" -> parseTime(cmd, nowMicros)
      [] OTHER -> parseNodeCmd(cmd)

-----------------------------------------------------------------------------
(* StackNode::onCommand tries transfer, server and ping, in this order. *)

allNumbers(cmd, i) == \A j \in i .. Len(cmd) : isNumber(cmd, j)

isTransfer(args) ==
    args[1] = "transfer" /\ Len(args) \in 5 .. 7 /\ allNumbers(args, 2)

isServer(args) ==
    args[1] = "server" /\ Len(args) \in 3 .. 6 /\ allNumbers(args, 2)

isPing(args) == Len(args) > 1 /\ isNumber(args, 1)

onCommand(args) ==
    CASE isTransfer(args) -> "transfer"
      [] ~isTransfer(args) /\ isServer(args) -> "server"
      [] ~isTransfer(args) /\ ~isServer(args) /\ isPing(args) -> "ping"
      [] OTHER -> "unrecognized"

=============================================================================
