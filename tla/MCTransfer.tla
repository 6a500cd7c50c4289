------------------------------ MODULE MCTransfer ------------------------------
(***************************************************************************)
(* Instances of Transfer for TLC.                                          *)
(***************************************************************************)
EXTENDS Transfer

transfer(id, port, localPort, amount, sz) ==
    [id |-> id, node |-> 1, dest |-> 2, port |-> port,
     localPort |-> localPort, amount |-> amount, sz |-> sz]

scenario(cmds, loss, late) == [transfers |-> cmds, losses |-> loss, timeouts |-> late]

OneServer == {[node |-> 2, port |-> 1, backlog |-> 1, sz |-> 2]}

Mixed ==
    { \* Two transfers over the same connection, one after the other or at once.
      scenario({transfer(1, 1, 3, 2, 2), transfer(2, 1, 3, 1, 2)}, 1, 2),
      \* Three clients at once, one with a buffer of another size than the server's
      \* and one told to send less than nothing.
      scenario({transfer(1, 1, 3, 3, 3), transfer(2, 1, 4, 0, 2), transfer(3, 1, 2, -1, 2)},
               0, 1),
      \* More bytes than the buffer holds, and a port number that connect() refuses.
      scenario({transfer(1, 1, 3, 3, 2), transfer(2, -1, 4, 1, 2)}, 1, 2),
      \* The port of a client that gave up, used again.
      scenario({transfer(1, 1, 2, -1, 2), transfer(2, 1, 2, 1, 2)}, 1, 1)}

\* Two clients at once and room for one.
TwoClients == {scenario({transfer(1, 1, 3, 1, 2), transfer(2, 1, 4, 1, 2)}, 0, 0)}

\* A transfer, and one to a port on which nobody listens; and the latter beside
\* two that may share their connection.
OneRefused ==
    LET unheard == transfer(3, 2, 4, 1, 2)
    IN  {scenario({transfer(1, 1, 3, 2, 2), unheard}, 0, 2),
         scenario({transfer(1, 1, 3, 1, 2), transfer(2, 1, 3, 0, 2), unheard}, 0, 0)}

=============================================================================
