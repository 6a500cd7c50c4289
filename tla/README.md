# A TLA+ verification of cpp_tcp

cpp_tcp is a userland TCP over a small network layer, with a simulator that runs
any number of nodes in one process, an emulator that runs one node per process
over UDP, and a *trawler* that tells emulated nodes who their neighbours are.
This directory holds TLA+ models of it, TLC configurations that check them on
small instances, and TLAPS proofs of the main safety results for all instances.
Paths below are relative to the repository.

- `tlc -config StreamFifo.cfg MCTcpStream` checks a run; `PROJECT.json` lists
  which module goes with which configuration, and what is expected of it.
- `tlapm TcpStreamProofs.tla` checks the proofs of a module; those with proofs are
  the `*Proofs` modules and `TcpStreamRefinement`.
- `PROJECT.json` also maps each definition to the lines of code it models, and
  lists for each property a faulty variant of the code that violates it. These
  variants are the operators with an underscore in their names
  (`finDue_NoDrain`); the specifications do not use them.

## 1. Inventory

| Component | State | Operations | Used by, and how |
|---|---|---|---|
| `TcpSocket` (`src/node/tcp_socket.cpp`) | connection state, send window (`sndUna_`, `sndNxt_`, `outstanding_`), congestion window, deadline, receive buffer, `finSeq_`, `peerFinReceived_`, backlog queue | bind, listen, accept, connect, write, read, close, release, and the `set`/`mark` methods of the manager | called by the applications and by `TcpManager`; sends through `TcpManager` |
| `TcpManager` (`src/node/tcp_manager.cpp`) | all sockets, three tables: listeners by port, SYN-pending and established by (address, port, port) | `onSyn`, `onAck`, `onFin`, `onData`, `retransmissionTick`, register/unregister | gets packets from `StackNode`, its tick from `RuntimeManager` |
| Transfer application (`src/apps`) | amount, position and status of `TransferClient`, `TransferServer`, `TransferWorker` | one `execute()` each, called by a `TimerTask` at an interval | polls its socket |
| `StackNode` (`src/node/stack_node.cpp`) | pings waiting for a reply | commands `transfer`, `server`, ping; dispatch of packets; ping timeout | gets commands from a parser, packets from the simulator or emulator |
| `Simulator`, `RuntimeManager`, `OrderedEventQueue` | event queue, clock, statistics, position in the command file | the event loop, `sendPkt`, `addTimer`, `readCommandFile` | owns the nodes |
| `Topology`, `Edge` | edges with options and `nextSendTime` per direction, failed nodes | `newEdge`, fail/restart, `schedulePkt` | asked by `Simulator::sendPkt`; changed by the parsers |
| `CommandsParser` and subclasses | the open file | `parseLine`, `parseRemainder` | simulator, emulator and trawler |
| `ConsoleIoThread` | queue of lines, `stopping_` | the reading thread, `waitForLine` | the only second thread; shares its queue under a mutex |
| `Emulator`, `EmulatedLink` | assigned address, ARP cache, link per neighbour, event queue | handshake, poll loop, `refreshARP`, `processUdpPacket`, `sendPkt` | UDP to other nodes, TCP to the trawler |
| `TrawlerService`, `EmulatedNode` | nodes that joined, by address; its own topology | the accept loop, `startEdge`, `failEdge`, `failNode`, `restartNode`, `checkNodesQuit` | writes `add`/`remove`/`reset` lines to emulators |
| `Packet`, `Transport`, `EmulatorPacket`, `LinkState` | none | pack, unpack | everyone |

What is hard here: packets are lost, and over UDP duplicated and reordered; a
retransmission races the acknowledgement; close waits for the window to drain
and shares sequence numbers with the data; data and FIN arrive at a child socket
before `accept()`; a SYN that comes twice makes two children of one connection; ports
are used again, or by two transfers at once; buffers (receive buffer, link buffer,
backlog, addresses) fill up; deferred files, console and events share one loop;
the trawler, its emulators and the datagrams between these run side by side, and
each learns late, or never, that another has ended. Each of
these is a line of `hazards` in `PROJECT.json`, with the properties aimed at it.
Within a process there is only one thread besides the main loop, so that every
handler is atomic; interleaving is between nodes, timers, applications and the
network, and between the processes of an emulation.

What makes each part correct:

- connection: what is read is a prefix of what was written; what is
  acknowledged was received; nothing unacknowledged is forgotten; the end of the
  stream is seen exactly at its end; "closed" means received; progress;
- manager: its tables take each packet to the one socket it is for;
- transfer: what client and worker report is true; every transfer ends;
- simulator: a link keeps the order and loses only what it counts; pings and
  replies match; files are read to their ends;
- wire formats and emulated link: a segment arrives as it was sent, in order and
  at the rate of its edge;
- trawler and emulators: an address belongs to one process; each ARP cache
  follows the topology; everyone who joins is answered; the end spreads.

## 2. Modules

    TcpSocket ---- TcpStream --- MCTcpStream           ReliableStream (abstract)
         |             |                                    ^ implemented by TcpStream
         |       TcpStreamProofs --- TcpStreamRefinement
         |
         +--- TcpManager --- Transfer --- MCTransfer
                                \_______ TransferProofs
    Topology --- CommandsParser --- Simulator --- MCSimulator
                       |                |    \_____________ SimulatorProofs
                       |                |                        |
                       |          OrderedEventQueue --- OrderedEventQueueProofs
                       |                |                             \
                       |          EmulatedLink --- MCEmulatedLink      \
                       |                |      \_________________ EmulatedLinkProofs
                       |           WireFormats --- WireFormatsProofs __/
                       |
               TrawlerNodeARPCommands --- Trawler --+-- Emulation --- MCEmulation
                                    \____ Emulator __/        \___ EmulationProofs

**TcpSocket** has one operator per method of `TcpSocket`, from a socket record to
a socket record, with the code's field names. `armed` is
`nextRtoDeadlineMs_ != 0`; the RTT estimate is absent because nothing reads it.
`acked` and `acceptable` are the two decisions of `onAck` and `onData` that both
users of the module share.

**TcpStream** is one connection from the end of its handshake: two sockets, their
entries in `establishedByKey_`, the two applications and the packets in between.
One action per branch of the handlers: `onSyn`, `onAckOfFin`, `onAckOfNew`,
`onAckOfOld`, `onAckIgnored`, `onDataAccepted`, `onDataRejected`, `onDataDropped`,
`onFinTaken`, `onFinDropped`, `retransmissionTick`, and `AppAccept`, `AppWrite`,
`AppClose`, `AppRead` for what the applications do. A byte is its own position in the
stream, so that a byte out of place is visible. `Reorder` chooses the network:
in order with loss and a drop-tail buffer, as the simulator's edges, or with
duplication and reordering too, as UDP below the emulator. UDP may deliver the handshake's
packets again as well: a second SYN-ACK, which is one more acknowledgement, and a
second SYN, for which `onSyn` makes another child and `registerEstablished` puts it
into the table in place of the first. `sock[Server]` is then the new child; the old one moves
to `replaced`, where its worker still accepts and reads it (`UseReplaced`) but no packet
reaches it. Data, ACKs and FIN of the client go to the new child, which starts at byte 1.

**ReliableStream** says what a connection promises, with no packets, windows and
timers. `ReliableStreamContract` in TcpStream is the refinement.

**TcpManager** has the tables, the complete handlers (listening, handshake, refused
connections, ports) and the methods of `TcpSocket` that use them; a method
yields the manager and the packets it sends.

**Transfer** is a network of nodes on which the user gives `transfer` and
`server` commands. `ClientTick`, `ServerTick`, `WorkerTick` are the three
`execute()` functions; `Receive*` and `retransmissionTick` are the manager's.
The byte pattern is modelled: client and worker compute it as the code does.
`bind()` and `connect()` look at no table, so that a `transfer` may be given ports that an
earlier one still uses. `shared` is history: the connections to which that has happened.
`conn` in a client or worker is the connection it was made for.

**Topology** and **OrderedEventQueue** are what the simulator shares with the
trawler and with the emulator. **CommandsParser** maps a line, a sequence of words,
to what is to be done.

**Simulator** is the main loop: `parseRemainder` (topology file), `start`,
`readCommandFile`, `userInput`/`advance` (the two outcomes of `waitForLine`),
`runEvent`; `Edge::schedulePkt` with its clock in microseconds, and pings. Two loops of
the code take a step per round: the one of `start` over the nodes (`starting` are those
to come), and the one of `sendPkt` over the edges of a broadcast (`sendCopy`; `sending`
are the copies to come). No other step of the main thread is taken before `sending` is
empty, so that both are as atomic as in the code, save for the console thread. The pings of a
node that wait are a set; each has the number of its packet, which gives the order of
the code's list. `pushLine` and `endOfInput` are the console thread.
TCP's own traffic is not in this module; the module shows (`LinkInOrder`) the
property of edges that Transfer and TcpStream with `Reorder = FALSE` assume.

**WireFormats** has `pack` and `unpack` of `Transport`, `Packet` and
`EmulatorPacket`, byte by byte, with the checks of each; a value that a
constructor or `unpack` refuses is an empty set.

**EmulatedLink** is the sending side of an emulator: `sendPkt` packs a segment
three times, paces it through the link and puts it into the event queue;
`beginTurn`, `physicalSend`, `eventsDone` are a turn of the loop, which runs all
events due at the time it read at its start; `addNeighbor` replaces the link and
`wallClock` sets the clock to any time, forwards or back. `log` is history: what
was sent when, over which link, and `work`, the time the link has spent on sending
up to and with that packet.

**TrawlerNodeARPCommands** has the lines between trawler and emulator, written and
parsed. **Trawler** has one operator per function of `TrawlerService`,
`EmulatedNode` and `TrawlerCommandsParser`, from a trawler to a trawler; what
is written in a step is collected and put on the connections at its end. A loop that writes to
several nodes is one `writeLines`, since no write in it depends on another.
**Emulator** has the ARP cache. **Emulation** composes them: the thread of the
trawler (`parseRemainder`, `topoParsed`, `accept`, `checkNodesQuit`, which is one round of its
loop, `quitsChecked`, `clientClosed`, `refuse`, `assign`), the emulators (`connectToTrawler`, `openUdpSocket`, `handshake`,
`refreshARP`, which takes one line, `ping`, `processUdpPacket`, `answer`), and `quit`, which is a process that
ends at any point, in the middle of its handshake too. `sendPkt` calls `refreshARP` before it
sends; so a process that has received a ping is about to answer it (`reply`), takes the lines
that have arrived by then, and does nothing else before `answer`. A datagram once sent may
arrive at any time, again and again, or never. A write to a process that has ended
may succeed, fail, or raise SIGPIPE, which the program does not ignore, and end
the trawler. Whether the time of a deferred line has come is open at each join.
How packets are paced does not matter here: a datagram arrives late anyway.

`MC*` modules hold the values of constants that a `.cfg` file cannot express.

## 3. Runs

All numbers are small, because what matters is their relation: a segment that
does not fit into what is left of the receive buffer, a window of several
segments, a link with less room than the window, more losses than one.

| Run | Instance | Shows |
|---|---|---|
| `stream_fifo` | 3 bytes one way, MSS 2, buffer 2, link of 2 packets, two losses; the client closes | `NoOverrun`, `WindowNeverShrinks`, end of stream, refinement of `ReliableStream`; under fairness `EventuallyAcked`, `EofReached` |
| `stream_udp` | 3 bytes one way, MSS 1, buffer 2, link of 2 packets; packets duplicated and in any order, one second SYN; the client closes | integrity, acknowledgement, recovery, window and close under reordering, for all children of the server; the refinement until the second SYN; `ConnInv`, the invariant that is proved |
| `syn_repeated` (violation) | the same, MSS 2 | a client is told that all is well, no child has all its bytes and the FIN |
| `zero_window` (violation) | no loss, link with room for all | a transfer stalls (section 5) |
| `fin_lost` (violation) | one loss | a FIN is never sent again |
| `transfers` | four scenarios: two transfers over one connection, in turn or at once, with one loss and two timeouts; three clients, one with a buffer of its own size, one that aborts, one with nothing to send; three bytes through a buffer of two beside an invalid port, with one loss and two timeouts; the ports of a client that aborted, used again, with one loss and one timeout | tables, reports, no orphans, no false alarm; `release()` takes away nothing but its own |
| `transfer_live` | a transfer and a refused one with two timeouts; two that may share a connection and a refused one; no loss | `TransferEnds` |
| `backlog_full` (violation) | two clients, backlog 1, no loss | a client reports success, nobody reads its data |
| `simulation` | 3 topology files with bursts over a slow, a lossy and a fast edge, an edge to a node that does not exist and a deferral; 12 command files with failures, a changed edge, deferrals, a broadcast; console lines; any loss pattern | `LinkInOrder`, `BoundedQueueing`, statistics, pings and replies, `FilesRead` |
| `emulated_link` | segments of the extreme sizes and numbers, three sent; links with room for one or two full packets, with and without delay and loss, replaced once; any clock | `Intact`, `DepartsInOrder`, `Paced` |
| `emulation` | three processes, two addresses; the third process has the port of the first, one of its own, or an illegal one; no topology file, or one whose edge or node changes, fails and is restarted, and that may end with `exit`; a broadcast from the first process | `AddressHeld`, `ArpAgrees`, `JoinAnswered`, `ExitSpreads` |
| `unshaped_entry` (violation) | the same processes; a node fails and its edge is restarted | an entry without a link that no packet taught |

Bounds, beside the sizes above: `MaxLoss` and `LinkBuf`; `MaxSyn`, how many repeated SYNs
the server takes: the second child of a connection is treated as the third would be, so
that one shows what a repeated SYN does (over UDP losses are left to the full link, `MaxLoss`
is 0: what arrives after everything else is as good as lost for a safety property); `losses` and `timeouts`
of a scenario (Transfer: each deadline that passes sends the window again);
`MaxTime` and `MaxLate` (Simulator: where its clock stops, and by how much a line
may be read too late); `MaxSent`, `MaxLinks` and `MaxTime` (EmulatedLink: three
packets are one more than a buffer holds, two links are an old and a new one).
In Emulation, three processes and two addresses are the least with which an
address is reused, the last one is taken, and two are linked while a third joins;
each process lives once, so that a restarted emulator is another process. A millisecond of MCSimulator has two microseconds, so that cutting the
clock to milliseconds matters. CHECK_DEADLOCK is off everywhere: a
connection that has closed, a program that has ended or reached `MaxTime`, and
a trawler whose processes are all gone, stop.

### Fairness

- *TcpStream* (`FairSpec`): packets on a link are delivered, applications are run
  and the retransmission tick recurs. The simulator's loop runs every event in
  its queue; `TimerTask::tick` and `retransmissionTick` put themselves back into it.
  Losses are finite (`MaxLoss`), as for any such claim; a full link, by contrast,
  may drop again and again. The run sends one way, as `transfer` does (the theorems
  on its safety properties are for any two amounts): with deadlines that may pass at
  every tick, two senders could fill the links with retransmissions for ever,
  which the code's growing timeout makes unlikely and the abstraction of time
  does not exclude.
- *Transfer*: weak fairness of `Run`, the event loop as a whole, without loss and
  with a receive buffer larger than a transfer. With loss `TransferEnds` is not
  true of the code: SYN and FIN are sent once (`fin_lost`), and a full buffer
  stalls (`zero_window`). Nor is it of two transfers that share a connection: the first
  has lost its child and may wait for ever.
- *Simulator*: the main thread goes on unless the program has ended or its clock
  is at the bound. Nothing is assumed of the console. The condition is written
  out in terms of `sim` and `pc` instead of as `WF_vars(Main)`, which is the same here
  and far slower to evaluate.
- *Emulation*: the trawler does not stop while somebody it has accepted or could
  accept has sent a line or ended; an emulator does not stop while it has a line to
  read or the trawler has closed. accept(), recv() and poll() return in these
  cases. Again written out (`TrawlerWaits`, `EmulatorWaits`). Nobody need start,
  ping, or quit, and no datagram need arrive.

## 4. Proofs

Each theorem holds for every value of the constants that the named assumptions
allow (`SocketConstants`, `StreamConstants`, `TransferConstants`, `LinkConstants`,
`TrawlerConstants`, `EmulationConstants`, `ParserConstants`, `SimulatorConstants`, `EdgeLines`: sizes are positive, the ends of a connection differ, a command names a
node that exists, `std::stoi` reads an address, a port or an option as `std::to_string` wrote it), with any number of packets, connections, losses and timeouts.

| Module | Theorem | Property |
|---|---|---|
| `TcpStreamProofs` | `ConnInvariant` | `ConnInv` |
| | `TypeCorrect` | `TypeOK` |
| | `Integrity` | `StreamIntegrity` |
| | `AcknowledgedReceived` | `AckedIsReceived` |
| | `AlwaysRecoverable` | `Recoverable` |
| | `WindowOutstanding` | `WindowIsOutstanding` |
| | `EndOfStreamComplete` | `EofComplete` |
| | `ClosedReceived` | `CloseMeansReceived` |
| | `OnlyForward` | `ForwardOnly` |
| | `PromiseKept` | `WindowNeverShrinks` |
| `TcpStreamRefinement` | `StreamRefined` | `ReliableStreamContract`, for `~Reorder` |
| | `RefinedUntilSyn` | `ContractUntilSyn` |
| | `SenderNeverOverruns` | `NoOverrun` |
| `TransferProofs` | `TransferTables` | `TablesConsistent` |
| `OrderedEventQueueProofs` | `AddEventSorted` | (about `addEvent`) |
| `WireFormatsProofs` | `TransportRoundTrip`, `PacketRoundTrip`, `EmulatorRoundTrip` | (about `pack` and `unpack`) |
| `EmulatedLinkProofs` | `LinkTypes` | `TypeOK` |
| | `ArrivesIntact` | `Intact` |
| | `LinkSendsInOrder` | `DepartsInOrder` |
| | `LinkPaced` | `Paced` |
| `EmulationProofs` | `RunningHoldsAddress` | `AddressHeld` |
| | `EmulationTyped` | `TypeOK` |
| | `CachesAgree` | `ArpAgrees` |
| `SimulatorProofs` | `SimTypes` | `TypeOK` |
| | `LinksKeepOrder` | `LinkInOrder` |
| | `QueueingBounded` | `BoundedQueueing` |
| | `PacketsConserved` | `Conservation` |
| | `PingsTimeOut` | `PingAge` |
| | `RepliesFound` | `RepliesAccounted` |

**The connection.** None of the properties is inductive. What an ACK does depends on
what is in the network, and what is in the network may be as old as the connection.
`ConnInv` says what is true of a socket (`WindowOK`: `outstanding_` is the window, cut
into numbered segments), of the pair (`PairOK`: the receiver has taken whole segments,
so that `rcvNxt_` is a boundary of the sender's window), of each packet
(`PktOK`: an ACK that is not stale acknowledges whole segments; a data
segment that is not stale is one of those outstanding; a FIN carries `finSeq_`),
and of what the application has read. `PairOK`'s boundary is what makes
`popAckedThrough`, which drops whole segments and sets `sndUna_`, lose nothing.

All that is about two sockets that have only each other (`PairInv`). A repeated SYN ends
it: the new child misses what the old one has acknowledged, and may take a FIN without
the bytes before it. What remains is about the client's stream and all children together
(`UploadInv`): each child has read a prefix of the stream; every number the client takes
for acknowledged, and every ACK on its way to it, comes from one of them; no FIN was taken
before the client had sent it. The properties are stated accordingly: of one socket where
there is one, of the server's sockets together after a repeated SYN; and nothing is
claimed of the streams that two children send to one client. `ConnInv` is `UploadInv`, always, and
`PairInv` as long as there is one child. `UploadInv` needs one fact more than the pair does, that
no data packet on its way is cut by `sndUna_` (`NoCut`): a fresh child may take a segment that is
stale to the client.

The proof rests on one order on socket states, `Advance`: sequence numbers grow,
flags stay set, boundaries and segments that are not acknowledged remain.
`PktAdvance` and `PairAdvance` show that what is true of packets and of the pair
survives any steps that advance; so each action needs only that it advances its own
socket, keeps that socket's part, and sends packets that are right
(`SocketStep`, `SendStep`, `ReplyStep`). There is one lemma per action
(`AppWriteOK`, `OnAckOfNewOK`, ...), and `PairNextOK` puts them together; likewise for `UploadInv`
(`WriteKeepsUpload`, `SynKeepsUpload`, ..., `UploadNextOK`).

**The refinement.** `TcpStreamRefinement` says first what each action does to the
fields of the one socket it changes, and to nothing else. With `ConnInv` these effects
give each step its counterpart: an accepted segment or a FIN taken is a delivery, an
acknowledgement of the FIN is the end of that direction, a call of the application is
itself, and the rest (retransmissions, duplicates, stale and refused packets, windows)
leaves all that `ReliableStream` sees as it is. On links that keep the order no SYN comes twice,
and the contract holds; over UDP it holds step by step until one does (`ContractUntilSyn`).

**Flow control.** `NoOverrun` is about the sender's window and the receiver's buffer at
the same time, while what connects them is on its way. `FlowInv` therefore says, beside
that a sender's numbers and its window lie within the right edge of its peer, that every
ACK on its way promises no more than the receiver has room for now, and that the
numbers of the ACKs on a link do not go down. The second part holds on links that keep the
order only; over UDP an old ACK may enlarge the window again, and the property is
stated for `~Reorder`.

**The tables.** The argument of `TransferProofs` is local to a node: whatever packet
arrives, from whomever, a handler keeps the invariant of its manager (`OnSynKeeps`,
`OnAckKeeps`, `OnFinKeeps`, `OnDataKeeps`), and so does each call of an application
(`ConnectKeeps`, `ListenKeeps`, `AcceptKeeps`, `ReadKeeps`, `WriteKeeps`, `CloseKeeps`,
`ReleaseKeeps`). `TablesConsistent` is not inductive: `accept()` sets the state of whatever
its queue holds, and `connect()` registers its key whether or not it is established
already. `TablesInv` adds who owns which socket: an entry of
`synPendingByKey_` is a client that runs, one of `establishedByKey_` a client that runs and
is open, or a child on a port with a listener; a queue of pending connections and the
workers have children only. From it a client that reports "connection closed" has no
entry any more, although `release()` takes none away from a socket that is CLOSED, and
its port may be used again. TLC has checked `TablesInv` on the instance of `transfers`.

The last part of `TablesConsistent`, that no key is in SYN_SENT and established at once, has two
exceptions, because `bind()` does not look who has a port, and both are needed. A second
transfer on the ports of one that runs registers its key as pending beside the established one; so
`SharedOnly` says that a key in both tables is one to which that has happened. And when two nodes listen on
a port each and start transfers to each other from those ports, a SYN makes a child under the key
under which the node's own client waits for its answer (`BothUse`). Every other step adds no such
key (`Mixes`), which `connect()` does for its own only (`Gains`).

**Queue, bytes and link.** `AddEventSorted` says where `addEvent` puts an event: behind all that are
not later, and nothing else moves. The round trips go through the bytes of each header, with
numbers of 32 bits in two's complement, for every value a constructor accepts.
`LinkInv` puts both together: each event in the queue holds the bytes of the segment in the
log, and what a link has in the queue is no later than the time at which its next packet would
be due; so that the next one goes behind it, whatever the clock has done in between. For the
pace, `Busy` says that between the time a packet is due and the time its link is free again
lies the work done since.

**Addresses.** A process learns its address from the first line it reads, long after the
trawler has written it; in between others join and quit. So `Core` says that the first line
on its way to a process that has asked is the refusal or the number of the node it is
registered as (`FirstLine`); that nothing has been written to one that still waits, because
lines go to registered processes only and who waits is in the queue once (`NotYetTold`,
`QueuedOnce`); and that a node is marked dead only after its process has ended (`DeadAreGone`),
which is why `checkNodesQuit` takes no address from anyone who runs. `Tells` is what all
operations of the trawler have in common, each of them a lemma (`WriteLinesTells`,
`RemoveAsNeighborTells`, `UpdateNeighborsTells`, `EdgesTell`, `ExecuteTells`): no node comes or
goes, one dies of a failed write only, and lines are added behind those there were. `Inv` adds
that the loop of `checkNodesQuit` comes to nodes that are there; TLC has checked it on
the instance of `emulation`.

**ARP caches.** `ArpAgrees` is about a process that has read everything, and what it has read
was written at many different times. So `Informed` looks ahead: `Settled(m, a, b, q, cache)`
says of the process at address a, with the lines q still to come, that the last of them that
concerns b, or its entry when there is none, says of b what the topology says. Reading a line
keeps that (`RefreshSettles`), and so does a packet that teaches an address, whose entry has no link
(`LearnSettles`). When the trawler goes from w to r, what it writes must make up for what it changes:
`Informs(w, r)` says that to every process that can hear, for each address b, either the new lines say
of b what r says (`Says`), or they are silent and r asks no more of an entry for b, and calls no entry
wrong, than w did (`Weaker`). Each command is a lemma: `EdgeInforms`, `FailNodeInforms`,
`RestartNodeInforms`, `RemoveQuitInforms`, `WelcomeInforms`. That is where the order matters in which the
code changes the topology and writes: `failNodeHook` tells the neighbours before the node is
marked as failed, when it can still find them. Below these lie lemmas on the lines themselves,
that what is parsed is what was written (`ReadReset`, `ReadRemove`, `ReadAdd`, `ReadAddOptions`).
`Whole` is the invariant; TLC has checked its parts on the instance of `emulation`.

**The simulation.** All six invariants of Simulator are read off one inductive invariant,
`Inv`. Its main part is an operator of a sim, `SimInv(s)`, since the functions of the code take
a sim to a sim, and each of them is a lemma (`ExecuteKeeps`, `CopyKeeps`, `DeliverKeeps`,
`TimeoutKeeps`, `TickKeeps`, `StartKeeps`, `ClockAdvances`).

- *Order.* Where a packet goes in the queue depends on its time, and the time on
  `nextSendTime_`. `OnTime` says that whatever is on its way arrives no later than what its edge
  will take next; since `addEvent` puts an event behind those of the same time, the next one
  goes behind all of its link (`Inserted`, from `OrderedEventQueueProofs`). `Sent` says that a copy in `sending` is newer
  than all on its link, between two rounds of a broadcast as well. Of an edge in `changed`
  nothing is claimed: a shorter delay lets later packets overtake (see the hazards).
- *Bound.* `schedulePkt` compares the time at which the edge will be free with `bt` when the
  packet is taken; from then on the clock only comes closer.
- *Statistics.* `Counted` is `Conservation`; between the rounds of a broadcast it needs `Handed`, the
  state in which one copy has been given to an edge and is not yet anywhere.
- *Pings.* `Timers` says that every node that has been started has its timer in the queue, no
  later than two periods after any of its pings: `pingTimedOut` leaves no ping that is older than one
  period and sets the timer one period ahead. While no event is due, the timer lies in the future;
  cutting times to milliseconds costs nothing, because timers are set in whole milliseconds.
- *Replies.* `Room` balances what is on its way for a node, and what is about to be sent, against the
  pings that wait, have timed out or were broadcast. A ping that arrives becomes a reply with the same
  balance; a reply that arrives takes a ping away or is counted as unexpected.

`EdgeLines` is the only assumption on the files: a delay is not negative and a bandwidth is
positive, in those lines of the files that are `edge` commands. `parseEdge` takes any number; with a
negative delay or bandwidth packets arrive before they are sent, and with 0 the program divides by it.
TLC has checked each part of `Inv` on the instance of `simulation`.

Checked by TLC only:

- liveness, which this prover cannot prove: `EventuallyAcked`, `EofReached`, `TransferEnds`,
  `FilesRead`, `JoinAnswered`, `ExitSpreads`;
- of Transfer, what relates the two ends of a transfer over their whole lives
  (`ConnectedToChild`, `ReportedIsReceived`, `NoOrphan`, `NoFalseAlarm`, `WorkerReadAll`).
  They would need `ConnInv` for every pair of sockets. Its `TypeOK` bounds the number of
  sockets by counting SYNs.

What the properties of Transfer leave out, each exception named in the property: of two running
transfers that share a connection nothing is claimed of the first (`ConnectedToChild`,
`ReportedIsReceived`, `NoOrphan`, `WorkerReadAll`, `TransferEnds`); an aborted client sends no
FIN, so that its child waits until its ports are used again and for ever after (`NoOrphan`); a
worker lets go of a child whose data it finds corrupt (`ConnectedToChild`), which it does where the
two buffer sizes differ (`NoFalseAlarm`). TLC finds each property violated without its exceptions.
`Paced` is about the times at which datagrams are due; a loop that is late sends several at once.

## 5. Where the code and what is said of it part

- **A window of 0 is never reopened** (`zero_window`). `read()` frees buffer and
  sends nothing; a sender with nothing outstanding has no timer and no probe.
  A transfer longer than the receive buffer can stall without any loss.
- **A FIN is sent once** (`fin_lost`); so are SYN and its answer.
- **A SYN that comes twice splits a connection** (`syn_repeated`). `onSyn` makes a new child, which
  takes the table entry of the one there is. If that happens before the data, the child that was
  accepted first gets nothing; if it happens in between, the client sends again and again what the
  new child, waiting for byte 1, refuses, or closes with its bytes in one child and its FIN
  in another.
- **A full backlog is acknowledged** (`backlog_full`). `enqueueAccepted` drops the
  child, `onSyn` registers and acknowledges it all the same.
- **A restarted edge of a failed node carries traffic** (`unshaped_entry`).
  `startEdge` sends an `add` without options when the edge is not live, which an
  emulator takes for a neighbour without a link. `ArpAgrees` holds all the same,
  because it says nothing of entries without a link: there are always such as
  packets have taught, the late packets of a node that has been removed or
  replaced included.

Smaller ones, for which there is no run:

- `transfer` takes a local port that another transfer to the same destination is using: the second
  SYN replaces the child of the first, which goes on sending to a child that is not its own;
- the child of a client that aborts is told nothing; its worker polls it for ever;
- each side of a transfer restarts the byte pattern at multiples of its own buffer
  size, so that an intact stream is reported as corrupt when the sizes differ
  (`NoFalseAlarm` therefore allows it for a client whose size is not the server's);
- at the end of the input no exit line is queued, although a comment of
  `ConsoleIoThread::run` says so;
- the README's `fail edge A B` is an error to `parseFail`, which takes `fail A B`;
- an emulator that is refused says "Port ... is already in use", but for a port
  really in use `bind()` has failed before; it is refused for a port below 1024,
  when no address is free, or when the trawler has not noticed that the former
  user of the port has ended;
- `TrawlerService::remove`, "called when an emulated node's TCP socket goes away",
  is never called: a node that quits is noticed when a write to it fails, or
  ends the trawler by SIGPIPE, and its neighbours are told at the next join.

## 6. Not modelled, and the plan

Not modelled: wall-clock time in TCP (deadlines may pass at any tick), the RTT
estimate, log output, the splitting of lines into words, `bw` of 0 and other
undefined cases, overflow of sequence numbers after 2^31 bytes, argument handling
in the two `main` files, `LinkState` (no caller), `TrawlerService::remove` (no
caller), the text of a loss rate (`javaDouble`), emulators on several hosts (the
address by which the trawler sees a node is then not always the one its
neighbours see).

Built so far, in this order: TcpSocket, TcpStream with ReliableStream and its
proofs; TcpManager and Transfer; CommandsParser and Simulator; WireFormats and
EmulatedLink; Trawler, Emulator and Emulation; the refinement and flow control; the
queue, the bytes and the link; the tables; the addresses; the simulation; the ARP caches. Next:

1. one model: Transfer over a reordering network, with packets of an earlier
   connection on the same ports still on their way (TcpStream has those of its own);
2. `ReportedIsReceived` and `WorkerReadAll`, with `ConnInv` for every pair of sockets of a Transfer.
