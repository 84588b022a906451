----------------------------- MODULE TCPStream -----------------------------
(***************************************************************************)
(* A TCP session implements the reliable stream of ReliableStream, as long *)
(* as packets on one route keep their order.                               *)
(*                                                                         *)
(* The stream is read off the two connections: the payloads sent are       *)
(* packets_sent, those the sender knows delivered are the ones below       *)
(* SND.UNA, and those delivered are the ones the server consumed, below    *)
(* its RCV.NXT.  The FIN moves RCV.NXT past whatever is missing, so from   *)
(* then on they are counted by what has arrived without a gap, which must  *)
(* be the same number.                                                     *)
(***************************************************************************)
EXTENDS TCPSession

\* The number of the first payload of the stream.
FirstNumber == (conn["client"].seq - packetsSent) % SeqSize

Gapless ==
  {k \in 0 .. packetsSent :
     \A j \in 0 .. k - 1 : (FirstNumber + j) % SeqSize \in arrived}

\* Has the server, once established, been closed by the client's FIN?  Its
\* numbers start at 0 and leave it when the handshake ends.
StreamEnded ==
  \/ conn["server"].state = "LAST_ACK"
  \/ conn["server"].state = "CLOSED" /\ conn["server"].seq # 0

DeliveredLength ==
  CASE ~ generated  -> 0
    [] StreamEnded  -> CHOOSE k \in Gapless : \A j \in Gapless : j <= k
    [] OTHER        ->
         packetsSent - ((conn["client"].seq - conn["server"].expected) % SeqSize)

Stream == INSTANCE ReliableStream WITH
  Total       <- PacketsPerRoute,
  sent        <- packetsSent,
  delivered   <- DeliveredLength,
  acked       <- packetsSent - InFlight(conn["client"]),
  writing     <- ~ (generated /\ ~ IsEstablished(conn["client"])),
  ended       <- StreamEnded,
  impaired    <- losses + refusals > 0

(***************************************************************************)
(* Every behaviour of the session is one of the stream: in-order, gapless, *)
(* exactly-once delivery, acknowledgements of delivered data only, and, as *)
(* long as no packet was lost or refused, nothing sent is cut off by the   *)
(* FIN.                                                                    *)
(***************************************************************************)
ImplementsStream == Stream!Spec

=============================================================================
