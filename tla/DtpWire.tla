------------------------------ MODULE DtpWire ------------------------------
(***************************************************************************)
(* What client and server share: the payload as packets, and the CSP link  *)
(* from the server to the client.                                          *)
(*                                                                         *)
(* The link delivers in order (one CSP route) and is a sequence of         *)
(* messages, oldest first: data packets, which may be lost or delivered    *)
(* twice, and the response to a request, which travels on the reliable     *)
(* control connection but over the same route.                             *)
(***************************************************************************)
EXTENDS DtpIntervals

CONSTANTS
    Chunk,              \* request.mtu - 2 * sizeof(uint32_t)
    PayloadSize         \* bytes in the payload

ASSUME WireAssumption ==
    /\ Chunk \in Nat \ {0}
    /\ PayloadSize \in Nat \ {0}

VARIABLE net            \* messages on their way to the client

LastSeq == (PayloadSize - 1) \div Chunk

Seqs == 0..LastSeq

\* A datagram: the offset in the payload and the number of data bytes.
DataPacket(off, len) == [kind |-> "data", off |-> off, len |-> len]

\* dtp_meta_resp_t.  live says that the client still holds the connection.
Response(size, live) == [kind |-> "resp", size |-> size, live |-> live]
=============================================================================
