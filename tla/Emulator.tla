-------------------------------- MODULE Emulator --------------------------------
(***************************************************************************)
(* The ARP cache of an Emulator and what it sends to whom.  `arp` is a     *)
(* function from addresses to [ipAddress, udpPort, link]; link holds the   *)
(* options of the entry's EmulatedLink, or nothing, and learned is history:*)
(* whether the entry was made by a received packet.                        *)
(***************************************************************************)
EXTENDS TrawlerNodeARPCommands

arpData(ip, port, link, learned) ==
    [ipAddress |-> ip, udpPort |-> port, link |-> link, learned |-> learned]

set(arp, a, data) == [b \in DOMAIN arp \cup {a} |-> IF b = a THEN data ELSE arp[b]]

\* refreshARP: one line of the trawler.  The checks that the address in it is valid are
\* left out: the trawler writes no other (EmulationProofs: only addresses are cached).
refresh(arp, line) ==
    CASE receiveReset(line) -> <<>>
      [] receiveRemoveNeighbor(line) # {} ->
            [a \in DOMAIN arp \ receiveRemoveNeighbor(line) |-> arp[a]]
      [] receiveAddNeighbor(line) # {} ->
            LET add == CHOOSE r \in receiveAddNeighbor(line) : TRUE
            IN  set(arp, add.nodeId, arpData(add.ipAddress, add.port, add.options, FALSE))
      [] OTHER -> arp

\* processUdpPacket: a sender that is unknown, or known elsewhere.
learn(arp, pkt) ==
    IF pkt.src \in DOMAIN arp /\ arp[pkt.src].ipAddress = pkt.fromIp
                              /\ arp[pkt.src].udpPort = pkt.fromPort
    THEN arp
    ELSE set(arp, pkt.src, arpData(pkt.fromIp, pkt.fromPort, {}, TRUE))

\* sendPkt: the datagrams for dest; none for a node that is not a neighbour.  Those
\* that a link drops or loses are among them, as some that never arrive.
datagrams(arp, broadcast, pkt) ==
    {[toIp |-> arp[a].ipAddress, toPort |-> arp[a].udpPort, pkt |-> pkt] :
        a \in {b \in DOMAIN arp : pkt.dest \in {b, broadcast}}}

=============================================================================
