---------------------------- MODULE MCEmulatedLink ----------------------------
(***************************************************************************)
(* An instance of EmulatedLink for TLC.                                    *)
(***************************************************************************)
EXTENDS EmulatedLink

payload(n) == [i \in 1 .. n |-> 255 - i]

\* The largest data segment there can be, and an acknowledgement of the last byte
\* that an int can count.
Edges ==
    {[srcPort |-> 0, destPort |-> 255, type |-> 3, window |-> 0,
      seqNum |-> 16909060, payload |-> payload(MAX_TRANSPORT_PAYLOAD)],
     [srcPort |-> 255, destPort |-> 0, type |-> 1, window |-> 65535,
      seqNum |-> 2147483647, payload |-> <<>>]}

\* A full packet takes 1.28 ms, the smallest 0.21: buffers for two full packets or
\* for one, with a delay and without.
Slow ==
    {[mayLose |-> TRUE, delay |-> 1, bw |-> 100000, bt |-> 3],
     [mayLose |-> FALSE, delay |-> 0, bw |-> 100000, bt |-> 2]}

=============================================================================
