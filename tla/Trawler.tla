-------------------------------- MODULE Trawler --------------------------------
(***************************************************************************)
(* TrawlerService with its EmulatedNodes and its TrawlerCommandsParser: who*)
(* is told what when a node joins or quits, or the topology changes.  The  *)
(* functions of the code are operators from a trawler to a trawler; the    *)
(* accept loop that calls them is in Emulation.                            *)
(*                                                                         *)
(* What is written to whom is kept in the field out until the step ends.   *)
(***************************************************************************)
EXTENDS TrawlerNodeARPCommands, SequencesExt

CONSTANTS
    Procs,              \* emulator processes, by the sockets they connect with
    BROADCAST_ADDRESS   \* 255 in the code; addresses are the numbers below

\* std::stoi reads an address as std::to_string wrote it.
ASSUME TrawlerConstants ==
    /\ BROADCAST_ADDRESS \in Nat
    /\ \A a \in 0 .. BROADCAST_ADDRESS :
        ToString(a) \in DOMAIN Numbers /\ Numbers[ToString(a)] = a

\* topology (edges, failedNodes, allToAll); emulatedNodes_, by address:
\* [proc, ipAddress, udpPort, alive]; what the present step writes to whom; the
\* processes a write to which fails in this step, and whether one has failed.
NewTrawler(allToAll) ==
    [edges |-> <<>>, failedNodes |-> {}, allToAll |-> allToAll,
     nodes |-> <<>>, out |-> [p \in Procs |-> <<>>],
     broken |-> {}, writeFailed |-> FALSE]

-----------------------------------------------------------------------------
(* EmulatedNode. *)

\* Node a is sent lines[a]; a write to a process in broken fails.
writeLines(t, lines) ==
    LET failing == {a \in DOMAIN lines : lines[a] # <<>> /\ t.nodes[a].proc \in t.broken}
        to(p) == {a \in DOMAIN lines \ failing : t.nodes[a].proc = p}
    IN  [t EXCEPT !.nodes = [a \in DOMAIN @ |->
                                IF a \in failing THEN [@[a] EXCEPT !.alive = FALSE] ELSE @[a]],
                  !.out = [p \in Procs |->
                                IF to(p) = {} THEN @[p]
                                ELSE @[p] \o lines[CHOOSE a \in to(p) : TRUE]],
                  !.writeFailed = @ \/ failing # {}]

writeLine(t, a, line) == writeLines(t, [x \in {a} |-> <<line>>])

\* Without options if the edge, or one of the nodes, has failed.
addNeighborLine(t, a, peer) ==
    LET n == t.nodes[peer]
    IN  IF hasLiveEdge(t, a, peer)
        THEN addNeighborOptions(peer, n.ipAddress, n.udpPort, getEdge(t, {a, peer}).options)
        ELSE addNeighbor(peer, n.ipAddress, n.udpPort)

sendAddNeighbor(t, a, peer) == writeLine(t, a, addNeighborLine(t, a, peer))

sendRemoveNeighbor(t, a, peer) == writeLine(t, a, removeNeighbor(peer))

sendReset(t, a) == writeLine(t, a, reset)

-----------------------------------------------------------------------------
(* TrawlerService. *)

\* The nodes that a loop over emulatedNodes_ tells of b.
liveNeighbors(t, b) ==
    {a \in DOMAIN t.nodes \ {b} : hasLiveEdge(t, a, b) /\ t.nodes[a].alive}

removeAsNeighbor(t, dying) ==
    writeLines(t, [a \in liveNeighbors(t, dying) |-> <<removeNeighbor(dying)>>])

\* Each neighbour hears of the node that starts, and this one of each neighbour, in
\* the order of unordered_map.
updateNeighbors(t, starting) ==
    LET order == SetToSeq(liveNeighbors(t, starting))
        lines == [a \in liveNeighbors(t, starting) \cup {starting} |->
                    IF a = starting
                    THEN [i \in DOMAIN order |-> addNeighborLine(t, starting, order[i])]
                    ELSE <<addNeighborLine(t, a, starting)>>]
    IN  IF starting \in DOMAIN t.nodes THEN writeLines(t, lines) ELSE t

\* What checkNodesQuit does when it comes to node a.
removeQuit(t, a) ==
    IF t.nodes[a].alive THEN t
    ELSE removeAsNeighbor([t EXCEPT !.nodes = [b \in DOMAIN @ \ {a} |-> @[b]]], a)

bothRegistered(t, a, b) == {a, b} \subseteq DOMAIN t.nodes

startEdge(t, a, b) ==
    IF bothRegistered(t, a, b)
    THEN sendAddNeighbor(sendAddNeighbor(t, a, b), b, a) ELSE t

failEdge(t, a, b) ==
    IF bothRegistered(t, a, b)
    THEN sendRemoveNeighbor(sendRemoveNeighbor(t, a, b), b, a) ELSE t

failNode(t, a) ==
    IF a \in DOMAIN t.nodes THEN removeAsNeighbor(sendReset(t, a), a) ELSE t

freeAddresses(t) == 0 .. BROADCAST_ADDRESS - 1 \ DOMAIN t.nodes

freeFishAddr_Count(t) == Cardinality(DOMAIN t.nodes)

freeFishAddr(t) == CHOOSE a \in freeAddresses(t) : \A b \in freeAddresses(t) : a <= b

portConflict(t, ip, port) ==
    \E a \in DOMAIN t.nodes : t.nodes[a].ipAddress = ip /\ t.nodes[a].udpPort = port

register(t, a, p, ip, port) ==
    LET node == [proc |-> p, ipAddress |-> ip, udpPort |-> port, alive |-> TRUE]
    IN  [t EXCEPT !.nodes = [b \in DOMAIN @ \cup {a} |-> IF b = a THEN node ELSE @[b]]]

\* The line that answers a port.
sendAddress(t, p, a) ==
    [t EXCEPT !.out[p] = Append(@, <<ToString(a)>>)]

welcome_NeighborsFirst(t, a, p, ip, port) ==
    sendAddress(updateNeighbors(register(t, a, p, ip, port), a), p, a)

welcome(t, a, p, ip, port) ==
    updateNeighbors(register(sendAddress(t, p, a), a, p, ip, port), a)

-----------------------------------------------------------------------------
(* TrawlerCommandsParser: the hooks that parseLine's commands call. *)

edgeHook(t, a, b, live) ==
    LET changed == changeEdge(t, {a, b}, live)
    IN  CASE ~hasEdge(t, {a, b}) -> t
          [] hasEdge(t, {a, b}) /\ live -> startEdge(changed, a, b)
          [] hasEdge(t, {a, b}) /\ ~live -> failEdge(changed, a, b)

failNodeHook_TopologyFirst(t, a) == failNode(changeNode(t, a, FALSE), a)

\* The neighbours are told before the topology forgets that they are.
failNodeHook(t, a) == changeNode(failNode(t, a), a, FALSE)

restartNodeHook(t, a) == updateNeighbors(changeNode(t, a, TRUE), a)

execute(t, line) ==
    CASE line.op = "edge" ->
            startEdge(newEdge(t, line.a, line.b, line.options), line.a, line.b)
      [] line.op = "changeEdge" -> edgeHook(t, line.a, line.b, line.live)
      [] line.op = "changeNode" /\ line.live -> restartNodeHook(t, line.a)
      [] line.op = "changeNode" /\ ~line.live -> failNodeHook(t, line.a)
      [] OTHER -> t

=============================================================================
