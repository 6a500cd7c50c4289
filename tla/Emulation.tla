------------------------------- MODULE Emulation -------------------------------
(***************************************************************************)
(* A trawler and the emulator processes that join it, each on a host with  *)
(* a UDP port of its own choice, pinging each other over UDP.              *)
(*                                                                         *)
(* Between the trawler and a process there is a TCP connection, a queue of *)
(* lines.  A datagram that was sent may arrive at any later time, any      *)
(* number of times or never.  A process may end at any time; the trawler   *)
(* notices at most that a write to it fails, and such a write may also end *)
(* the trawler, by SIGPIPE.  Whether the time of a deferred line has come  *)
(* is open at every join.  All processes run on one host.                  *)
(***************************************************************************)
EXTENDS Trawler, Emulator

CONSTANTS
    TopoFiles,     \* topology files, <<>> for none
    PortChoices,   \* functions from Procs to UDP ports
    Pings          \* the pings the users give, each once: [proc, dest]

\* Pings are given to processes; and std::stoi reads whatever it has read before, the
\* options an edge has by default, and a port, as std::to_string wrote them.
ASSUME EmulationConstants ==
    /\ \A c \in Pings : c.proc \in Procs
    /\ \A n \in {Numbers[word] : word \in DOMAIN Numbers}
            \cup {defaultOptions.delay, defaultOptions.bw, defaultOptions.bt}
            \cup UNION {{ports[p] : p \in Procs} : ports \in PortChoices} :
        ToString(n) \in DOMAIN Numbers /\ Numbers[ToString(n)] = n

VARIABLES
    port,      \* port[p]: the local UDP port that process p is started with
    t,         \* the trawler's state
    pc,        \* where its thread is
    topo,      \* lines of the topology file still to parse
    deferTill, \* deferParsingTill of the accept loop
    queue,     \* processes that have connected and were not accepted yet
    client,    \* the process accepted last
    visit,     \* the nodes to which the loop of checkNodesQuit has yet to come
    status,    \* status[p]: off, connected, asked (for an address), running, gone
    asked,     \* the processes that have sent their port to the trawler
    addr,      \* addr[p]: assignedNodeId_
    inbox,     \* inbox[p]: lines on their way from the trawler to p
    arp,       \* arp[p]: the ARP cache of p
    reply,     \* reply[p]: whose ping p has yet to answer: one address or none
    udp,       \* the datagrams sent so far
    todo       \* the pings still to be given

trawlerVars == <<t, pc, topo, deferTill, queue, client, visit>>
emulatorVars == <<status, asked, addr, arp, reply, udp, todo>>
vars == <<port, trawlerVars, emulatorVars, inbox>>

HOST == "127.0.0.1"

Init ==
    /\ port \in PortChoices
    /\ topo \in TopoFiles
    /\ t = NewTrawler(topo = <<>>)
    /\ pc = "topo"
    /\ deferTill = -1
    /\ queue = <<>>
    /\ client = {}
    /\ visit = {}
    /\ status = [p \in Procs |-> "off"]
    /\ asked = {}
    /\ addr = [p \in Procs |-> -1]
    /\ inbox = [p \in Procs |-> <<>>]
    /\ arp = [p \in Procs |-> <<>>]
    /\ reply = [p \in Procs |-> {}]
    /\ udp = {}
    /\ todo = Pings

gone == {p \in Procs : status[p] = "gone"}

-----------------------------------------------------------------------------
(* The trawler: TrawlerService::run. *)

\* The sets of processes to which writes may fail: some that have ended, with all
\* those to which one has failed before.
brokenSets ==
    {b \in SUBSET gone : \A a \in DOMAIN t.nodes : t.nodes[a].alive \/ t.nodes[a].proc \in b}

\* The step has made r of the trawler, its writes included.
Written(r) ==
    /\ t' = [r EXCEPT !.out = [p \in Procs |-> <<>>], !.broken = {}, !.writeFailed = FALSE]
    /\ inbox' = [p \in Procs |-> IF p \in gone THEN <<>> ELSE inbox[p] \o r.out[p]]

Killed(r) ==
    /\ r.writeFailed
    /\ pc' = "exited"
    /\ UNCHANGED <<t, inbox, topo, deferTill, client, visit>>

with(b) == [t EXCEPT !.broken = b]

afterTopo == IF client = {} THEN "accept" ELSE "reading"

\* parseFile before it listens, parseRemainder after that.
parseRemainder ==
    /\ pc = "topo" /\ topo # <<>>
    /\ LET line == parseLine(Head(topo), 0)
       IN  \E b \in brokenSets :
            LET r == execute(with(b), line)
            IN  \/ /\ Written(r)
                   /\ pc' = CASE line.op = "exit" -> "exited"
                              [] line.op = "defer" -> afterTopo
                              [] OTHER -> pc
                   /\ deferTill' = IF line.op = "defer" THEN line.till ELSE deferTill
                   /\ topo' = Tail(topo)
                   /\ UNCHANGED <<client, visit>>
                \/ Killed(r)
    /\ UNCHANGED <<queue, port, emulatorVars>>

topoParsed ==
    /\ pc = "topo" /\ topo = <<>>
    /\ pc' = afterTopo
    /\ deferTill' = -1
    /\ UNCHANGED <<t, topo, queue, client, visit, port, emulatorVars, inbox>>

accept ==
    /\ pc = "accept" /\ queue # <<>>
    /\ queue' = Tail(queue)
    /\ client' = {Head(queue)}
    /\ visit' = DOMAIN t.nodes
    /\ pc' = "quits"
    /\ UNCHANGED <<t, topo, deferTill, port, emulatorVars, inbox>>

\* The loop comes to the nodes in the order of unordered_map.
checkNodesQuit ==
    /\ pc = "quits"
    /\ \E a \in visit, b \in brokenSets :
        LET r == removeQuit(with(b), a)
        IN  \/ /\ Written(r)
               /\ visit' = visit \ {a}
               /\ UNCHANGED <<pc, topo, deferTill, client>>
            \/ Killed(r)
    /\ UNCHANGED <<queue, port, emulatorVars>>

quitsChecked ==
    /\ pc = "quits" /\ visit = {}
    /\ pc' \in {"reading"} \cup (IF deferTill > -1 THEN {"topo"} ELSE {})
    /\ UNCHANGED <<t, topo, deferTill, queue, client, visit, port, emulatorVars, inbox>>

\* The accepted process has ended without a line.
clientClosed ==
    /\ pc = "reading"
    /\ \E p \in client : p \in gone \ asked
    /\ pc' = "accept"
    /\ client' = {}
    /\ UNCHANGED <<t, topo, deferTill, queue, visit, port, emulatorVars, inbox>>

refused(p) == port[p] < 1024 \/ portConflict(t, HOST, port[p]) \/ freeAddresses(t) = {}

refuse_Silent ==
    /\ pc = "reading"
    /\ \E p \in client \cap asked : refused(p)
    /\ pc' = "accept"
    /\ client' = {}
    /\ UNCHANGED <<t, topo, deferTill, queue, visit, port, emulatorVars, inbox>>

refuse ==
    /\ pc = "reading"
    /\ \E p \in client \cap asked :
        refused(p) /\ Written(sendAddress(t, p, BROADCAST_ADDRESS))
    /\ pc' = "accept"
    /\ client' = {}
    /\ UNCHANGED <<topo, deferTill, queue, visit, port, emulatorVars>>

assign ==
    /\ pc = "reading"
    /\ \E p \in client \cap asked, b \in brokenSets :
        LET r == welcome(with(b), freeFishAddr(t), p, HOST, port[p])
        IN  /\ ~refused(p)
            /\ \/ Written(r) /\ pc' = "accept" /\ client' = {}
                  /\ UNCHANGED <<topo, deferTill, visit>>
               \/ Killed(r)
    /\ UNCHANGED <<queue, port, emulatorVars>>

TrawlerStep ==
    \/ parseRemainder \/ topoParsed
    \/ accept \/ checkNodesQuit \/ quitsChecked
    \/ clientClosed \/ refuse \/ assign

-----------------------------------------------------------------------------
(* An emulator: Emulator::start. *)

listening == pc # "exited" /\ ~(pc = "topo" /\ client = {})

\* The first half of connectToTrawler succeeds only if somebody listens.
connectToTrawler(p) ==
    /\ status[p] = "off"
    /\ IF listening
       THEN status' = [status EXCEPT ![p] = "connected"] /\ queue' = Append(queue, p)
       ELSE status' = [status EXCEPT ![p] = "gone"] /\ UNCHANGED queue
    /\ UNCHANGED <<port, t, pc, topo, deferTill, client, visit, asked, addr, inbox, arp, reply, udp, todo>>

portInUse(p) ==
    \E q \in Procs \ {p} : port[q] = port[p] /\ status[q] \in {"asked", "running"}

\* bind() fails for a port in use; otherwise the port is sent to the trawler.
openUdpSocket(p) ==
    /\ status[p] = "connected"
    /\ IF portInUse(p)
       THEN status' = [status EXCEPT ![p] = "gone"] /\ UNCHANGED asked
       ELSE status' = [status EXCEPT ![p] = "asked"] /\ asked' = asked \cup {p}
    /\ UNCHANGED <<port, trawlerVars, addr, inbox, arp, reply, udp, todo>>

trawlerClosed_InHandshake(p) == pc = "exited" /\ status[p] = "asked"

\* recv() from the trawler returns 0.
trawlerClosed(p) == pc = "exited"

\* The address in the first line from the trawler.
assigned(p) == Numbers[inbox[p][1][1]]

\* The rest of the handshake: the address, or the end of the connection.
handshake(p) ==
    /\ status[p] = "asked"
    /\ \/ /\ inbox[p] # <<>> /\ assigned(p) # BROADCAST_ADDRESS
          /\ status' = [status EXCEPT ![p] = "running"]
          /\ addr' = [addr EXCEPT ![p] = assigned(p)]
          /\ inbox' = [inbox EXCEPT ![p] = Tail(@)]
       \/ /\ inbox[p] # <<>> /\ assigned(p) = BROADCAST_ADDRESS
          /\ status' = [status EXCEPT ![p] = "gone"]
          /\ inbox' = [inbox EXCEPT ![p] = <<>>]
          /\ UNCHANGED addr
       \/ /\ inbox[p] = <<>> /\ trawlerClosed(p)
          /\ status' = [status EXCEPT ![p] = "gone"]
          /\ UNCHANGED <<addr, inbox>>
    /\ UNCHANGED <<port, trawlerVars, asked, arp, reply, udp, todo>>

\* "Trawler socket closed" and exit, or the lines that have arrived, one by one.
refreshARP(p) ==
    /\ status[p] = "running"
    /\ IF trawlerClosed(p)
       THEN /\ status' = [status EXCEPT ![p] = "gone"]
            /\ inbox' = [inbox EXCEPT ![p] = <<>>]
            /\ UNCHANGED arp
       ELSE /\ inbox[p] # <<>>
            /\ arp' = [arp EXCEPT ![p] = refresh(@, Head(inbox[p]))]
            /\ inbox' = [inbox EXCEPT ![p] = Tail(@)]
            /\ UNCHANGED status
    /\ UNCHANGED <<port, trawlerVars, asked, addr, reply, udp, todo>>

packet(p, dest, protocol) ==
    [fromIp |-> HOST, fromPort |-> port[p], dest |-> dest, src |-> addr[p],
     protocol |-> protocol]

sendPkt(p, dest, protocol) ==
    udp' = udp \cup datagrams(arp[p], BROADCAST_ADDRESS, packet(p, dest, protocol))

\* p runs, and is not about to answer.
idle(p) == status[p] = "running" /\ reply[p] = {} /\ pc # "exited"

ping(c) ==
    /\ c \in todo /\ idle(c.proc)
    /\ sendPkt(c.proc, c.dest, "PING_PKT")
    /\ todo' = todo \ {c}
    /\ UNCHANGED <<port, trawlerVars, status, asked, addr, inbox, arp, reply>>

\* Of a packet for p, a ping is what has an effect: it will be answered.
processUdpPacket(p, d) ==
    /\ idle(p)
    /\ d.toPort = port[p]
    /\ arp' = [arp EXCEPT ![p] = learn(@, d.pkt)]
    /\ reply' = [reply EXCEPT ![p] =
            IF d.pkt.dest \in {addr[p], BROADCAST_ADDRESS} /\ d.pkt.protocol = "PING_PKT"
            THEN {d.pkt.src} ELSE {}]
    /\ UNCHANGED <<port, trawlerVars, status, asked, addr, inbox, udp, todo>>

\* Before that, sendPkt calls refreshARP, which takes the lines there are by then.
answer(p) ==
    /\ status[p] = "running" /\ pc # "exited"
    /\ \E dest \in reply[p] : sendPkt(p, dest, "PING_REPLY_PKT")
    /\ reply' = [reply EXCEPT ![p] = {}]
    /\ UNCHANGED <<port, trawlerVars, status, asked, addr, inbox, arp, todo>>

\* `exit`, a signal or a crash.
quit(p) ==
    /\ status[p] \in {"connected", "asked", "running"}
    /\ status' = [status EXCEPT ![p] = "gone"]
    /\ inbox' = [inbox EXCEPT ![p] = <<>>]
    /\ UNCHANGED <<port, trawlerVars, asked, addr, arp, reply, udp, todo>>

EmulatorStep(p) == openUdpSocket(p) \/ handshake(p) \/ refreshARP(p)

Next ==
    \/ TrawlerStep
    \/ \E p \in Procs : connectToTrawler(p) \/ EmulatorStep(p) \/ answer(p) \/ quit(p)
    \/ \E c \in Pings : ping(c)
    \/ \E p \in Procs, d \in udp : processUdpPacket(p, d)

Spec == Init /\ [][Next]_vars

\* Where the trawler waits in accept() or for a line, and an emulator in poll() or
\* for its address.
TrawlerWaits ==
    \/ pc = "exited"
    \/ pc = "accept" /\ queue = <<>>
    \/ pc = "reading" /\ client \cap (asked \cup gone) = {}

EmulatorWaits(p) ==
    \/ status[p] \in {"off", "gone"}
    \/ status[p] \in {"asked", "running"} /\ inbox[p] = <<>> /\ ~trawlerClosed(p)

\* The trawler serves who has connected, and each emulator, woken by poll() when
\* the trawler has written or closed, goes on; nobody has to start, ping or quit.
\* This is weak fairness of TrawlerStep and of each EmulatorStep(p), written out.
FairSpec ==
    /\ Spec
    /\ []<>TrawlerWaits \/ []<><<TRUE>>_<<pc, topo, visit>>
    /\ \A p \in Procs :
        \/ []<>EmulatorWaits(p)
        \/ []<><<status'[p] # status[p] \/ Len(inbox'[p]) < Len(inbox[p])>>_vars

-----------------------------------------------------------------------------
(* Properties. *)

running == {p \in Procs : status[p] = "running"}

TypeOK ==
    /\ pc \in {"topo", "accept", "quits", "reading", "exited"}
    /\ client \subseteq Procs /\ Cardinality(client) <= 1
    /\ DOMAIN t.nodes \subseteq 0 .. BROADCAST_ADDRESS - 1
    /\ \A p \in Procs :
        /\ status[p] \in {"off", "connected", "asked", "running", "gone"}
        /\ p \in running => addr[p] \in 0 .. BROADCAST_ADDRESS - 1
        /\ DOMAIN arp[p] \subseteq 0 .. BROADCAST_ADDRESS - 1
        /\ status[p] = "asked" /\ inbox[p] # <<>> => inbox[p][1][1] \in DOMAIN Numbers

\* freeFishAddr, checkNodesQuit: a process that runs is registered under the address
\* it was given for as long as the trawler lives, so that no two have the same.
AddressHeld ==
    pc # "exited" =>
        \A p \in running : addr[p] \in DOMAIN t.nodes /\ t.nodes[addr[p]].proc = p

\* TrawlerCommandsParser, updateNeighbors, refreshARP: once a process has read what
\* the trawler wrote, its cache has every live neighbour, and each entry it paces
\* is one of them, at its endpoint and with the options of the edge.
ArpAgrees ==
    pc # "exited" =>
        \A p \in running : inbox[p] = <<>> =>
            LET a == addr[p]
            IN  /\ \A b \in DOMAIN t.nodes \ {a} :
                    hasLiveEdge(t, a, b) /\ t.nodes[b].alive => b \in DOMAIN arp[p]
                /\ \A b \in DOMAIN arp[p] : arp[p][b].link # {} =>
                    /\ b \in DOMAIN t.nodes /\ hasLiveEdge(t, a, b)
                    /\ arp[p][b].udpPort = t.nodes[b].udpPort
                    /\ arp[p][b].link = {getEdge(t, {a, b}).options}

\* The accept loop: whoever connects gets an address or ends, whatever the others
\* do, quit in the middle of their handshake included.
JoinAnswered ==
    \A p \in Procs : status[p] = "connected" ~> status[p] \in {"running", "gone"}

\* refreshARP: when the trawler has ended, every emulator does.
ExitSpreads == pc = "exited" ~> \A p \in Procs : status[p] \in {"off", "gone"}

\* "when null the ARP entry was learned implicitly from a received packet"
\* (emulator.hpp).  It need not: startEdge adds a neighbour without options when
\* the edge, or one of its nodes, has failed.
UnshapedIsLearned ==
    \A p \in running : \A b \in DOMAIN arp[p] : arp[p][b].link = {} => arp[p][b].learned

=============================================================================
