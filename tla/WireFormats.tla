------------------------------ MODULE WireFormats ------------------------------
(***************************************************************************)
(* Packet, Transport and EmulatorPacket as bytes: pack() and unpack(), with*)
(* the constants of the code.  A byte is a number in 0 .. 255 and an int   *)
(* one of 32 bits.  unpack returns a set: what the bytes say, or nothing   *)
(* if they are refused.                                                    *)
(***************************************************************************)
EXTENDS Integers, Sequences

Bytes == 0 .. 255

\* int
Int32 == {v \in Int : -2147483647 - 1 <= v /\ v <= 2147483647}

\* static_cast<std::uint8_t>
byte(v) == v % 256

\* Shifts and masks: two's complement, the most significant byte first.
bigEndian32(v) ==
    <<byte(v \div 16777216), byte(v \div 65536), byte(v \div 256), byte(v)>>

int32(d, i) ==
    (IF d[i] >= 128 THEN d[i] - 256 ELSE d[i]) * 16777216
        + d[i + 1] * 65536 + d[i + 2] * 256 + d[i + 3]

-----------------------------------------------------------------------------
(* Packet. *)

PACKET_HEADER == 9
MAX_PACKET_SIZE == 128
MAX_TTL == 15
TRANSPORT_PKT == 4

Packet ==
    [dest : Int32, src : Int32, ttl : Int32, protocol : Int32, seq : Int32,
     payload : Seq(Bytes)]

validAddress(a) == a \in 0 .. 255

validPacket(p) ==
    /\ validAddress(p.dest) /\ validAddress(p.src)
    /\ p.protocol \in 0 .. 4 /\ p.ttl \in 0 .. MAX_TTL
    /\ Len(p.payload) + PACKET_HEADER <= MAX_PACKET_SIZE

packPacket(p) ==
    <<byte(p.dest), byte(p.src), byte(p.ttl), byte(p.protocol),
      byte(Len(p.payload) + PACKET_HEADER)>> \o bigEndian32(p.seq) \o p.payload

unpackPacket(d) ==
    IF Len(d) < PACKET_HEADER THEN {}
    ELSE LET p == [dest |-> d[1], src |-> d[2], ttl |-> d[3], protocol |-> d[4],
                   seq |-> int32(d, 6),
                   payload |-> SubSeq(d, PACKET_HEADER + 1, Len(d))]
         IN  IF Len(d) = d[5] /\ validPacket(p) THEN {p} ELSE {}

\* RuntimeManager::sendPkt throws for anything else.
validToSend(from, to, d) ==
    /\ Len(d) <= MAX_PACKET_SIZE /\ validAddress(to) /\ validAddress(from)
    /\ \E p \in unpackPacket(d) : p.ttl > 0

-----------------------------------------------------------------------------
(* Transport. *)

TRANSPORT_HEADER == 12
MAX_TRANSPORT_PAYLOAD == MAX_PACKET_SIZE - PACKET_HEADER - TRANSPORT_HEADER

Transport ==
    [srcPort : Int32, destPort : Int32, type : Int32, window : Int32, seqNum : Int32,
     payload : Seq(Bytes)]

validTransport(t) ==
    /\ t.srcPort \in 0 .. 255 /\ t.destPort \in 0 .. 255 /\ t.type \in 0 .. 3
    /\ Len(t.payload) <= MAX_TRANSPORT_PAYLOAD

packTransport_NoHeader(t) ==
    <<byte(t.srcPort), byte(t.destPort), byte(t.type)>>
        \o bigEndian32(t.window) \o bigEndian32(t.seqNum)
        \o <<byte(Len(t.payload))>> \o t.payload

packTransport(t) ==
    <<byte(t.srcPort), byte(t.destPort), byte(t.type)>>
        \o bigEndian32(t.window) \o bigEndian32(t.seqNum)
        \o <<byte(TRANSPORT_HEADER + Len(t.payload))>> \o t.payload

unpackTransport(d) ==
    IF Len(d) < TRANSPORT_HEADER THEN {}
    ELSE LET t == [srcPort |-> d[1], destPort |-> d[2], type |-> d[3],
                   window |-> int32(d, 4), seqNum |-> int32(d, 8),
                   payload |-> SubSeq(d, TRANSPORT_HEADER + 1, Len(d))]
         IN  IF Len(d) = d[12] /\ validTransport(t) THEN {t} ELSE {}

-----------------------------------------------------------------------------
(* EmulatorPacket: [dest, src, payload]. *)

EMULATOR_HEADER == 3

packEmulator(e) ==
    <<byte(e.dest), byte(e.src), byte(EMULATOR_HEADER + Len(e.payload))>> \o e.payload

\* What follows the bytes that the length counts is ignored.
unpackEmulator(d) ==
    IF Len(d) < EMULATOR_HEADER \/ d[3] < EMULATOR_HEADER \/ d[3] > Len(d)
        \/ d[3] > MAX_PACKET_SIZE + EMULATOR_HEADER
    THEN {}
    ELSE {[dest |-> d[1], src |-> d[2], payload |-> SubSeq(d, EMULATOR_HEADER + 1, d[3])]}

=============================================================================
