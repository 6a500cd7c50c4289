----------------------------- MODULE MCTcpStream -----------------------------
(***************************************************************************)
(* Instances of TcpStream for TLC.                                         *)
(***************************************************************************)
EXTENDS TcpStream

\* Only the client sends, as in `transfer`.
ShortUpload == [e \in Ends |-> IF e = Client THEN 3 ELSE 0]

Both == Ends
OnlyClient == {Client}
OnlyServer == {Server}

=============================================================================
