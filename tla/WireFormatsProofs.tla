-------------------------- MODULE WireFormatsProofs --------------------------
(***************************************************************************)
(* unpack() undoes pack(), for every packet, transport segment and         *)
(* emulator packet that the constructors accept: byte by byte, with the    *)
(* numbers of 32 bits that no bounded run can go through.                  *)
(***************************************************************************)
EXTENDS WireFormats, TLAPS, SequenceTheorems

-----------------------------------------------------------------------------
(* Numbers and sequences of bytes. *)

\* What a cast to std::uint8_t leaves alone, and that it always gives a byte.
LEMMA ByteOK ==
    /\ \A v \in Int : byte(v) \in Bytes
    /\ \A v \in Bytes : byte(v) = v
PROOF
    BY SMT DEF byte, Bytes

LEMMA ByteRange == \A v \in Nat : v <= 255 => v \in Bytes
PROOF
    BY SMT DEF Bytes

\* writeBigEndian32: four bytes.
LEMMA BigEndianElems ==
    ASSUME NEW v \in Int32
    PROVE  bigEndian32(v) \in Seq(Bytes) /\ Len(bigEndian32(v)) = 4
PROOF
    <1>1. v \in Int
        BY SMT DEF Int32
    <1>2. /\ byte(v \div 16777216) \in Bytes /\ byte(v \div 65536) \in Bytes
          /\ byte(v \div 256) \in Bytes /\ byte(v) \in Bytes
        BY <1>1, ByteOK, SMT
    <1> QED  BY <1>2, SMT DEF bigEndian32

\* writeBigEndian32 and the shifts of unpack: wherever the four bytes are, they say
\* the int that was written, a negative one too.
LEMMA Int32RoundTrip ==
    ASSUME NEW v \in Int32, NEW d, NEW i \in Nat,
           \A k \in 1 .. 4 : d[i + k - 1] = bigEndian32(v)[k]
    PROVE  int32(d, i) = v
PROOF
    <1> DEFINE a == v \div 16777216
               b == v \div 65536
               c == v \div 256
    <1>1. v \in Int /\ -2147483648 <= v /\ v <= 2147483647
        BY SMT DEF Int32
    <1>2. a \in Int /\ b \in Int /\ c \in Int /\ a >= -128 /\ a <= 127
        BY <1>1, SMT
    <1>3. b % 256 = b - 256 * a
        BY <1>1, SMT
    <1>4. c % 256 = c - 256 * b
        BY <1>1, SMT
    <1>5. v % 256 = v - 256 * c
        BY <1>1, SMT
    <1>6. (IF a % 256 >= 128 THEN (a % 256) - 256 ELSE a % 256) = a
        BY <1>2, SMT
    <1>7. /\ d[i] = a % 256 /\ d[i + 1] = b % 256
          /\ d[i + 2] = c % 256 /\ d[i + 3] = v % 256
        <2>1. /\ d[i] = bigEndian32(v)[1] /\ d[i + 1] = bigEndian32(v)[2]
              /\ d[i + 2] = bigEndian32(v)[3] /\ d[i + 3] = bigEndian32(v)[4]
            OBVIOUS
        <2> QED  BY <2>1, SMT DEF bigEndian32, byte
    <1>8. int32(d, i) = a * 16777216 + (b % 256) * 65536 + (c % 256) * 256
                         + (v % 256)
        BY <1>6, <1>7, SMT DEF int32
    <1> HIDE DEF a, b, c
    <1> QED  BY <1>1, <1>2, <1>3, <1>4, <1>5, <1>8, SMT

\* Bytes behind other bytes.
LEMMA ConcatBytes ==
    ASSUME NEW h \in Seq(Bytes), NEW q \in Seq(Bytes)
    PROVE  /\ h \o q \in Seq(Bytes)
           /\ Len(h \o q) = Len(h) + Len(q)
           /\ \A i \in 1 .. Len(h) : (h \o q)[i] = h[i]
           /\ \A i \in 1 .. Len(q) : (h \o q)[Len(h) + i] = q[i]
PROOF
    OBVIOUS

\* What is behind a header is what was put there.
LEMMA BehindHeader ==
    ASSUME NEW h \in Seq(Bytes), NEW q \in Seq(Bytes)
    PROVE  SubSeq(h \o q, Len(h) + 1, Len(h \o q)) = q
PROOF
    <1> DEFINE d == h \o q
               r == SubSeq(d, Len(h) + 1, Len(d))
    <1>1. /\ d \in Seq(Bytes) /\ Len(d) = Len(h) + Len(q)
          /\ Len(h) \in Nat /\ Len(q) \in Nat
          /\ \A i \in 1 .. Len(q) : d[Len(h) + i] = q[i]
        BY ConcatBytes, LenProperties
    <1> HIDE DEF d
    <1>2. \A i \in Len(h) + 1 .. Len(d) : d[i] \in Bytes
        BY <1>1
    <1>3. /\ r \in Seq(Bytes) /\ Len(r) = Len(q)
        BY <1>1, <1>2, SubSeqProperties
    <1>4. ASSUME NEW i \in 1 .. Len(q)  PROVE  r[i] = q[i]
        <2>1. r[i] = d[(Len(h) + 1) + i - 1]
            BY <1>1, <1>2, SubSeqProperties
        <2> QED  BY <2>1, <1>1
    <1> HIDE DEF r
    <1>5. r = q
        BY <1>3, <1>4, SeqEqual
    <1> QED  BY <1>5 DEF r, d

-----------------------------------------------------------------------------
(* Where pack() puts what. *)

TransportBytes(d, a, b, c, e, w, n, p) ==
    /\ d \in Seq(Bytes) /\ Len(d) = 12 + Len(p)
    /\ d[1] = a /\ d[2] = b /\ d[3] = c /\ d[12] = e
    /\ \A i \in 1 .. 4 : d[3 + i] = w[i]
    /\ \A i \in 1 .. 4 : d[7 + i] = n[i]
    /\ SubSeq(d, 12 + 1, Len(d)) = p

LEMMA TransportLayout ==
    ASSUME NEW a \in Bytes, NEW b \in Bytes, NEW c \in Bytes, NEW e \in Bytes,
           NEW w \in Seq(Bytes), NEW n \in Seq(Bytes), NEW p \in Seq(Bytes),
           Len(w) = 4, Len(n) = 4
    PROVE  TransportBytes(<<a, b, c>> \o w \o n \o <<e>> \o p, a, b, c, e, w, n, p)
PROOF
    <1> DEFINE h1 == <<a, b, c>>
               h2 == h1 \o w
               h3 == h2 \o n
               one == <<e>>
               h == h3 \o one
               r == h \o p
    <1>1. h1 \in Seq(Bytes) /\ one \in Seq(Bytes)
        OBVIOUS
    <1>2. /\ h1[1] = a /\ h1[2] = b /\ h1[3] = c /\ one[1] = e
          /\ Len(h1) = 3 /\ Len(one) = 1 /\ Len(p) \in Nat
        OBVIOUS
    <1> HIDE DEF h1, one
    <1>3. /\ h2 \in Seq(Bytes) /\ Len(h2) = 7
          /\ \A i \in 1 .. 3 : h2[i] = h1[i]
          /\ \A i \in 1 .. 4 : h2[3 + i] = w[i]
        <2>1. /\ h2 \in Seq(Bytes) /\ Len(h2) = Len(h1) + Len(w)
              /\ \A i \in 1 .. Len(h1) : h2[i] = h1[i]
              /\ \A i \in 1 .. Len(w) : h2[Len(h1) + i] = w[i]
            BY <1>1, <1>2, ConcatBytes, Zenon
        <2> HIDE DEF h2
        <2> QED  BY <2>1, <1>2, <1>2
    <1> HIDE DEF h2
    <1>4. /\ h3 \in Seq(Bytes) /\ Len(h3) = 11
          /\ \A i \in 1 .. 7 : h3[i] = h2[i]
          /\ \A i \in 1 .. 4 : h3[7 + i] = n[i]
        <2>1. /\ h3 \in Seq(Bytes) /\ Len(h3) = Len(h2) + Len(n)
              /\ \A i \in 1 .. Len(h2) : h3[i] = h2[i]
              /\ \A i \in 1 .. Len(n) : h3[Len(h2) + i] = n[i]
            BY <1>1, <1>3, ConcatBytes, Zenon
        <2> HIDE DEF h3
        <2> QED  BY <2>1, <1>2, <1>3
    <1> HIDE DEF h3
    <1>5. /\ h \in Seq(Bytes) /\ Len(h) = 12
          /\ \A i \in 1 .. 11 : h[i] = h3[i]
          /\ \A i \in 1 .. 1 : h[11 + i] = one[i]
        <2>1. /\ h \in Seq(Bytes) /\ Len(h) = Len(h3) + Len(one)
              /\ \A i \in 1 .. Len(h3) : h[i] = h3[i]
              /\ \A i \in 1 .. Len(one) : h[Len(h3) + i] = one[i]
            BY <1>1, <1>4, ConcatBytes, Zenon
        <2> HIDE DEF h
        <2> QED  BY <2>1, <1>2, <1>4
    <1> HIDE DEF h
    <1>6. /\ r \in Seq(Bytes) /\ Len(r) = 12 + Len(p)
          /\ \A i \in 1 .. 12 : r[i] = h[i]
          /\ \A i \in 1 .. Len(p) : r[12 + i] = p[i]
        <2>1. /\ r \in Seq(Bytes) /\ Len(r) = Len(h) + Len(p)
              /\ \A i \in 1 .. Len(h) : r[i] = h[i]
              /\ \A i \in 1 .. Len(p) : r[Len(h) + i] = p[i]
            BY <1>1, <1>5, ConcatBytes, Zenon
        <2> HIDE DEF r
        <2> QED  BY <2>1, <1>2, <1>5
    <1> HIDE DEF r
    <1>7. <<a, b, c>> \o w \o n \o <<e>> \o p = r
        BY DEF r, h, h3, h2, h1, one
    <1>8. \A i \in 1 .. 4 : r[3 + i] = w[i]
        BY <1>3, <1>4, <1>5, <1>6
    <1>9. \A i \in 1 .. 4 : r[7 + i] = n[i]
        BY <1>4, <1>5, <1>6
    <1>10. r[1] = a /\ r[2] = b /\ r[3] = c /\ r[12] = e
        BY <1>2, <1>3, <1>4, <1>5, <1>6
    <1>11. SubSeq(r, Len(h) + 1, Len(r)) = p
        BY <1>5, BehindHeader, Zenon DEF r
    <1> QED  BY <1>5, <1>6, <1>7, <1>8, <1>9, <1>10, <1>11, Zenon DEF TransportBytes

PacketBytes(d, a, b, c, e, f, n, p) ==
    /\ d \in Seq(Bytes) /\ Len(d) = 9 + Len(p)
    /\ d[1] = a /\ d[2] = b /\ d[3] = c /\ d[4] = e /\ d[5] = f
    /\ \A i \in 1 .. 4 : d[5 + i] = n[i]
    /\ SubSeq(d, 9 + 1, Len(d)) = p

LEMMA PacketLayout ==
    ASSUME NEW a \in Bytes, NEW b \in Bytes, NEW c \in Bytes, NEW e \in Bytes,
           NEW f \in Bytes, NEW n \in Seq(Bytes), NEW p \in Seq(Bytes),
           Len(n) = 4
    PROVE  PacketBytes(<<a, b, c, e, f>> \o n \o p, a, b, c, e, f, n, p)
PROOF
    <1> DEFINE h1 == <<a, b, c, e, f>>
               h == h1 \o n
               r == h \o p
    <1>1. h1 \in Seq(Bytes)
        OBVIOUS
    <1>2. /\ h1[1] = a /\ h1[2] = b /\ h1[3] = c /\ h1[4] = e /\ h1[5] = f
          /\ Len(h1) = 5 /\ Len(p) \in Nat
        OBVIOUS
    <1> HIDE DEF h1
    <1>3. /\ h \in Seq(Bytes) /\ Len(h) = 9
          /\ \A i \in 1 .. 5 : h[i] = h1[i]
          /\ \A i \in 1 .. 4 : h[5 + i] = n[i]
        <2>1. /\ h \in Seq(Bytes) /\ Len(h) = Len(h1) + Len(n)
              /\ \A i \in 1 .. Len(h1) : h[i] = h1[i]
              /\ \A i \in 1 .. Len(n) : h[Len(h1) + i] = n[i]
            BY <1>1, <1>2, ConcatBytes, Zenon
        <2> HIDE DEF h
        <2> QED  BY <2>1, <1>2, <1>2
    <1> HIDE DEF h
    <1>4. /\ r \in Seq(Bytes) /\ Len(r) = 9 + Len(p)
          /\ \A i \in 1 .. 9 : r[i] = h[i]
          /\ \A i \in 1 .. Len(p) : r[9 + i] = p[i]
        <2>1. /\ r \in Seq(Bytes) /\ Len(r) = Len(h) + Len(p)
              /\ \A i \in 1 .. Len(h) : r[i] = h[i]
              /\ \A i \in 1 .. Len(p) : r[Len(h) + i] = p[i]
            BY <1>1, <1>3, ConcatBytes, Zenon
        <2> HIDE DEF r
        <2> QED  BY <2>1, <1>2, <1>3
    <1> HIDE DEF r
    <1>5. <<a, b, c, e, f>> \o n \o p = r
        BY DEF r, h, h1
    <1>6. \A i \in 1 .. 4 : r[5 + i] = n[i]
        BY <1>3, <1>4
    <1>7. r[1] = a /\ r[2] = b /\ r[3] = c /\ r[4] = e /\ r[5] = f
        BY <1>2, <1>3, <1>4
    <1>8. SubSeq(r, Len(h) + 1, Len(r)) = p
        BY <1>3, BehindHeader, Zenon DEF r
    <1> QED  BY <1>3, <1>4, <1>5, <1>6, <1>7, <1>8, Zenon DEF PacketBytes

LEMMA EmulatorLayout ==
    ASSUME NEW a \in Bytes, NEW b \in Bytes, NEW c \in Bytes, NEW p \in Seq(Bytes),
           NEW d, d = <<a, b, c>> \o p
    PROVE  /\ d \in Seq(Bytes) /\ Len(d) = 3 + Len(p)
           /\ d[1] = a /\ d[2] = b /\ d[3] = c
           /\ SubSeq(d, 3 + 1, Len(d)) = p
PROOF
    <1> DEFINE h == <<a, b, c>>
               r == h \o p
    <1>1. h \in Seq(Bytes)
        OBVIOUS
    <1>2. h[1] = a /\ h[2] = b /\ h[3] = c /\ Len(h) = 3 /\ Len(p) \in Nat
        OBVIOUS
    <1> HIDE DEF h
    <1>3. /\ r \in Seq(Bytes) /\ Len(r) = 3 + Len(p)
          /\ \A i \in 1 .. 3 : r[i] = h[i]
          /\ \A i \in 1 .. Len(p) : r[3 + i] = p[i]
        <2>1. /\ r \in Seq(Bytes) /\ Len(r) = Len(h) + Len(p)
              /\ \A i \in 1 .. Len(h) : r[i] = h[i]
              /\ \A i \in 1 .. Len(p) : r[Len(h) + i] = p[i]
            BY <1>1, <1>2, ConcatBytes, Zenon
        <2> HIDE DEF r
        <2> QED  BY <2>1, <1>2, <1>2
    <1> HIDE DEF r
    <1>4. d = r
        BY DEF r, h
    <1>5. r[1] = a /\ r[2] = b /\ r[3] = c
        BY <1>2, <1>3
    <1>6. SubSeq(r, Len(h) + 1, Len(r)) = p
        BY <1>1, BehindHeader, Zenon DEF r
    <1> QED  BY <1>2, <1>3, <1>4, <1>5, <1>6, Zenon

-----------------------------------------------------------------------------
(* The three formats. *)

\* Transport::pack and unpack: the other side reads what was written, and nothing
\* that the constructor accepts is refused.
THEOREM TransportRoundTrip ==
    ASSUME NEW t \in Transport, validTransport(t)
    PROVE  /\ packTransport(t) \in Seq(Bytes)
           /\ Len(packTransport(t)) = TRANSPORT_HEADER + Len(t.payload)
           /\ unpackTransport(packTransport(t)) = {t}
PROOF
    <1> DEFINE w == bigEndian32(t.window)
               n == bigEndian32(t.seqNum)
               len == TRANSPORT_HEADER + Len(t.payload)
               d == packTransport(t)
    <1>1. t.window \in Int32 /\ t.seqNum \in Int32 /\ t.payload \in Seq(Bytes)
        BY DEF Transport
    <1>2. /\ t.srcPort \in Bytes /\ t.destPort \in Bytes /\ t.type \in Bytes
          /\ Len(t.payload) \in Nat /\ len \in Bytes
        <2>1. t.srcPort \in Bytes /\ t.destPort \in Bytes
            BY DEF validTransport, Bytes
        <2>2. t.type \in Bytes
            BY DEF validTransport, Bytes
        <2>3. Len(t.payload) \in Nat
            BY <1>1, LenProperties
        <2>4. Len(t.payload) <= 107
            BY DEF validTransport, MAX_TRANSPORT_PAYLOAD, MAX_PACKET_SIZE, PACKET_HEADER,
                   TRANSPORT_HEADER
        <2>5. len \in Bytes
            BY <2>3, <2>4, ByteRange DEF TRANSPORT_HEADER
        <2> QED  BY <2>1, <2>2, <2>3, <2>5
    <1>3. /\ byte(t.srcPort) = t.srcPort /\ byte(t.destPort) = t.destPort
          /\ byte(t.type) = t.type /\ byte(len) = len
        BY <1>2, ByteOK, Zenon
    <1>4. w \in Seq(Bytes) /\ Len(w) = 4 /\ n \in Seq(Bytes) /\ Len(n) = 4
        BY <1>1, BigEndianElems, Zenon
    <1>5. d = <<t.srcPort, t.destPort, t.type>> \o w \o n \o <<len>> \o t.payload
        BY <1>3, Zenon DEF packTransport
    <1> HIDE DEF w, n, len, d
    <1>6. /\ d \in Seq(Bytes) /\ Len(d) = 12 + Len(t.payload)
          /\ d[1] = t.srcPort /\ d[2] = t.destPort /\ d[3] = t.type /\ d[12] = len
          /\ \A i \in 1 .. 4 : d[3 + i] = w[i]
          /\ \A i \in 1 .. 4 : d[7 + i] = n[i]
          /\ SubSeq(d, 12 + 1, Len(d)) = t.payload
        <2>1. TransportBytes(d, t.srcPort, t.destPort, t.type, len, w, n, t.payload)
            BY <1>1, <1>2, <1>4, <1>5, TransportLayout, Zenon DEF len
        <2> QED  BY <2>1, Zenon DEF TransportBytes
    <1>7. int32(d, 4) = t.window
        <2>1. \A i \in 1 .. 4 : d[4 + i - 1] = bigEndian32(t.window)[i]
            BY <1>6 DEF w
        <2> QED  BY <2>1, <1>1, Int32RoundTrip
    <1>8. int32(d, 8) = t.seqNum
        <2>1. \A i \in 1 .. 4 : d[8 + i - 1] = bigEndian32(t.seqNum)[i]
            BY <1>6 DEF n
        <2> QED  BY <2>1, <1>1, Int32RoundTrip
    <1> DEFINE u == [srcPort |-> d[1], destPort |-> d[2], type |-> d[3],
                     window |-> int32(d, 4), seqNum |-> int32(d, 8),
                     payload |-> SubSeq(d, TRANSPORT_HEADER + 1, Len(d))]
    <1>9. u = t
        <2>1. u = [srcPort |-> t.srcPort, destPort |-> t.destPort, type |-> t.type,
                   window |-> t.window, seqNum |-> t.seqNum, payload |-> t.payload]
            BY <1>6, <1>7, <1>8, Zenon DEF TRANSPORT_HEADER
        <2> QED  BY <2>1 DEF Transport
    <1>10. Len(d) = d[12]
        BY <1>6 DEF len, TRANSPORT_HEADER
    <1>11. ~(Len(d) < TRANSPORT_HEADER)
        BY <1>2, <1>6 DEF TRANSPORT_HEADER
    <1>12. unpackTransport(d) = {u}
        <2>1. validTransport(u)
            BY <1>9, Zenon
        <2> QED  BY <2>1, <1>10, <1>11, Zenon DEF unpackTransport
    <1>13. Len(d) = TRANSPORT_HEADER + Len(t.payload)
        BY <1>6 DEF TRANSPORT_HEADER
    <1> HIDE DEF u
    <1> QED  BY <1>6, <1>9, <1>12, <1>13, Zenon DEF d

\* Packet::pack and unpack: the same for the network layer.
THEOREM PacketRoundTrip ==
    ASSUME NEW p \in Packet, validPacket(p)
    PROVE  /\ packPacket(p) \in Seq(Bytes)
           /\ Len(packPacket(p)) = PACKET_HEADER + Len(p.payload)
           /\ unpackPacket(packPacket(p)) = {p}
PROOF
    <1> DEFINE n == bigEndian32(p.seq)
               len == Len(p.payload) + PACKET_HEADER
               d == packPacket(p)
    <1>1. p.seq \in Int32 /\ p.payload \in Seq(Bytes)
        BY DEF Packet
    <1>2. /\ p.dest \in Bytes /\ p.src \in Bytes /\ p.ttl \in Bytes /\ p.protocol \in Bytes
          /\ Len(p.payload) \in Nat /\ len \in Bytes
        <2>1. p.dest \in Bytes /\ p.src \in Bytes
            BY DEF validPacket, validAddress, Bytes
        <2>2. p.ttl \in Bytes
            BY DEF validPacket, MAX_TTL, Bytes
        <2>3. p.protocol \in Bytes
            BY DEF validPacket, Bytes
        <2>4. Len(p.payload) \in Nat
            BY <1>1, LenProperties
        <2>5. len \in Bytes
            BY <2>4, ByteRange DEF validPacket, MAX_PACKET_SIZE, PACKET_HEADER
        <2> QED  BY <2>1, <2>2, <2>3, <2>4, <2>5
    <1>3. /\ byte(p.dest) = p.dest /\ byte(p.src) = p.src /\ byte(p.ttl) = p.ttl
          /\ byte(p.protocol) = p.protocol /\ byte(len) = len
        BY <1>2, ByteOK, Zenon
    <1>4. n \in Seq(Bytes) /\ Len(n) = 4
        BY <1>1, BigEndianElems, Zenon
    <1>5. d = <<p.dest, p.src, p.ttl, p.protocol, len>> \o n \o p.payload
        BY <1>3, Zenon DEF packPacket
    <1> HIDE DEF n, len, d
    <1>6. /\ d \in Seq(Bytes) /\ Len(d) = 9 + Len(p.payload)
          /\ d[1] = p.dest /\ d[2] = p.src /\ d[3] = p.ttl /\ d[4] = p.protocol
          /\ d[5] = len
          /\ \A i \in 1 .. 4 : d[5 + i] = n[i]
          /\ SubSeq(d, 9 + 1, Len(d)) = p.payload
        <2>1. PacketBytes(d, p.dest, p.src, p.ttl, p.protocol, len, n, p.payload)
            BY <1>1, <1>2, <1>4, <1>5, PacketLayout, Zenon DEF len
        <2> QED  BY <2>1, Zenon DEF PacketBytes
    <1>7. int32(d, 6) = p.seq
        <2>1. \A i \in 1 .. 4 : d[6 + i - 1] = bigEndian32(p.seq)[i]
            BY <1>6 DEF n
        <2> QED  BY <2>1, <1>1, Int32RoundTrip
    <1> DEFINE u == [dest |-> d[1], src |-> d[2], ttl |-> d[3], protocol |-> d[4],
                     seq |-> int32(d, 6),
                     payload |-> SubSeq(d, PACKET_HEADER + 1, Len(d))]
    <1>8. u = p
        <2>1. u = [dest |-> p.dest, src |-> p.src, ttl |-> p.ttl,
                   protocol |-> p.protocol, seq |-> p.seq, payload |-> p.payload]
            BY <1>6, <1>7, Zenon DEF PACKET_HEADER
        <2> QED  BY <2>1 DEF Packet
    <1>9. Len(d) = d[5]
        BY <1>2, <1>6 DEF len, PACKET_HEADER
    <1>10. ~(Len(d) < PACKET_HEADER)
        BY <1>2, <1>6 DEF PACKET_HEADER
    <1>11. unpackPacket(d) = {u}
        <2>1. validPacket(u)
            BY <1>8, Zenon
        <2> QED  BY <2>1, <1>9, <1>10, Zenon DEF unpackPacket
    <1>12. Len(d) = PACKET_HEADER + Len(p.payload)
        BY <1>6 DEF PACKET_HEADER
    <1> HIDE DEF u
    <1> QED  BY <1>6, <1>8, <1>11, <1>12, Zenon DEF d

\* EmulatorPacket::pack and unpack: the frame around a packet that fits.
THEOREM EmulatorRoundTrip ==
    ASSUME NEW to, validAddress(to), NEW from, validAddress(from),
           NEW q \in Seq(Bytes), Len(q) <= MAX_PACKET_SIZE
    PROVE  LET e == [dest |-> to, src |-> from, payload |-> q]
           IN  /\ packEmulator(e) \in Seq(Bytes)
               /\ Len(packEmulator(e)) = EMULATOR_HEADER + Len(q)
               /\ unpackEmulator(packEmulator(e)) = {e}
PROOF
    <1> DEFINE e == [dest |-> to, src |-> from, payload |-> q]
               len == EMULATOR_HEADER + Len(q)
               d == packEmulator(e)
    <1>1. Len(q) \in Nat /\ Len(q) <= 128
        BY LenProperties DEF MAX_PACKET_SIZE
    <1>2. to \in Bytes /\ from \in Bytes
        BY DEF validAddress, Bytes
    <1>3. len \in Bytes
        BY <1>1, ByteRange DEF EMULATOR_HEADER
    <1>4. byte(to) = to /\ byte(from) = from /\ byte(len) = len
        BY <1>2, <1>3, ByteOK, Zenon
    <1>5. d = <<to, from, len>> \o q
        <2>1. e.dest = to /\ e.src = from /\ e.payload = q
            OBVIOUS
        <2> HIDE DEF e
        <2> QED  BY <2>1, <1>4, Zenon DEF packEmulator
    <1> HIDE DEF len, d
    <1>6. /\ d \in Seq(Bytes) /\ Len(d) = 3 + Len(q)
          /\ d[1] = to /\ d[2] = from /\ d[3] = len
          /\ SubSeq(d, 3 + 1, Len(d)) = q
        BY <1>2, <1>3, <1>5, EmulatorLayout
    <1>7. Len(d) = d[3]
        BY <1>6 DEF len, EMULATOR_HEADER
    <1>8. ~(Len(d) < EMULATOR_HEADER)
        BY <1>1, <1>6 DEF EMULATOR_HEADER
    <1>9. ~(d[3] < EMULATOR_HEADER \/ d[3] > Len(d)
                \/ d[3] > MAX_PACKET_SIZE + EMULATOR_HEADER)
        BY <1>1, <1>6, <1>7 DEF EMULATOR_HEADER, MAX_PACKET_SIZE
    <1>10. SubSeq(d, EMULATOR_HEADER + 1, d[3]) = q
        BY <1>6, <1>7, Zenon DEF EMULATOR_HEADER
    <1>11. unpackEmulator(d) = {[dest |-> d[1], src |-> d[2],
                                 payload |-> SubSeq(d, EMULATOR_HEADER + 1, d[3])]}
        BY <1>8, <1>9, Zenon DEF unpackEmulator
    <1>12. unpackEmulator(d) = {e}
        BY <1>6, <1>10, <1>11, Zenon
    <1>13. Len(d) = EMULATOR_HEADER + Len(q)
        BY <1>6 DEF EMULATOR_HEADER
    <1> QED  BY <1>6, <1>12, <1>13, Zenon DEF d

=============================================================================
