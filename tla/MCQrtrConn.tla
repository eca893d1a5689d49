----------------------------- MODULE MCQrtrConn -----------------------------
(***************************************************************************)
(* QrtrConn on a small instance: one reader, one writer and one closer, as *)
(* uim.Client uses the connection.                                         *)
(***************************************************************************)
EXTENDS QrtrConn

\* A message of the service, one too big for the buffer, and an empty datagram
\* of another port.
MCPackets == { [from |-> "service", size |-> 1],
               [from |-> "service", size |-> 2],
               [from |-> "other",   size |-> 0] }
=============================================================================
