--------------------------- MODULE ReliableStream ---------------------------
(***************************************************************************)
(* What a TCP session promises the application of the simulator: a stream  *)
(* of Total payloads, numbered from 1, that the receiver gets in order,    *)
(* without gaps and without repetition, and whose acknowledgements never   *)
(* run ahead of it.  sent, delivered and acked are lengths of prefixes of  *)
(* that stream.                                                            *)
(*                                                                         *)
(* The sender stops writing, by closing or by giving up, and the receiver  *)
(* ends the stream when it hears of that.  The network may fail at any     *)
(* moment (impaired); as long as it has not, the end comes after the last  *)
(* payload sent.                                                           *)
(***************************************************************************)
EXTENDS Integers

CONSTANT Total  \* payloads the sender wants to send

VARIABLES
  sent,       \* payloads the sender has handed to the network
  delivered,  \* payloads the receiver has got, in order
  acked,      \* payloads the sender knows to be delivered
  writing,    \* may the sender still send?
  ended,      \* has the receiver seen the end of the stream?
  impaired    \* has the network lost or refused anything?

vars == <<sent, delivered, acked, writing, ended, impaired>>

Init ==
  /\ sent = 0 /\ delivered = 0 /\ acked = 0
  /\ writing = TRUE /\ ended = FALSE /\ impaired = FALSE

Write ==
  /\ writing /\ sent < Total
  /\ sent' = sent + 1
  /\ UNCHANGED <<delivered, acked, writing, ended>>

\* A segment that fills a hole delivers those buffered behind it too.
Deliver ==
  /\ ~ ended
  /\ delivered' \in delivered + 1 .. sent
  /\ UNCHANGED <<sent, acked, writing, ended>>

Acknowledge ==
  /\ writing
  /\ acked' \in acked + 1 .. delivered
  /\ UNCHANGED <<sent, delivered, writing, ended>>

Finish ==
  /\ writing /\ writing' = FALSE
  /\ UNCHANGED <<sent, delivered, acked, ended>>

End ==
  /\ ~ writing /\ ~ ended
  /\ impaired \/ delivered = sent
  /\ ended' = TRUE
  /\ UNCHANGED <<sent, delivered, acked, writing>>

\* The network fails for the first time, in a step of its own or in one of
\* the others.
NetworkMayFail == impaired' \in {impaired, TRUE}

Next ==
  /\ NetworkMayFail
  /\ \/ Write \/ Deliver \/ Acknowledge \/ Finish \/ End
     \/ UNCHANGED <<sent, delivered, acked, writing, ended>>

Spec == Init /\ [][Next]_vars

-----------------------------------------------------------------------------

(***************************************************************************)
(* What the stream comes to: nothing is acknowledged that was not          *)
(* delivered, nor delivered that was not sent, nor sent that was not       *)
(* wanted; and an end without a failure of the network is the end of all   *)
(* that was sent.                                                          *)
(***************************************************************************)
Promise ==
  /\ 0 <= acked /\ acked <= delivered /\ delivered <= sent /\ sent <= Total
  /\ ended /\ ~ impaired => delivered = sent

=============================================================================
