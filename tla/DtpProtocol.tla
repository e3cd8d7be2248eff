---------------------------- MODULE DtpProtocol ----------------------------
(***************************************************************************)
(* What both sides compute from the intervals of a request                 *)
(* (src/src/dtp_protocol.c, and compute_transfer_size of                   *)
(* src/src/dtp_server.c).  chunk is the mtu less the two header words.     *)
(***************************************************************************)
EXTENDS DtpIntervals

\* The loop over the intervals, adding up their sizes.
SumOver(sizes) ==
    LET sum[i \in 0 .. Len(sizes)] == IF i = 0 THEN 0 ELSE sum[i - 1] + sizes[i]
    IN  sum[Len(sizes)]

----------------------------------------------------------------------------
(* compute_dtp_metrics, the part that depends on the intervals.            *)

IntervalEnd(r, size, chunk) == IF r.end = UINT32_MAX THEN size \div chunk ELSE r.end

nof_packets(req, size, chunk) ==
    SumOver([i \in DOMAIN req |-> IntervalEnd(req[i], size, chunk) - req[i].start + 1])

last_packet(req, size, chunk) == IntervalEnd(req[Len(req)], size, chunk)

\* The number of bytes the server announces for the transfer.
compute_transfer_size(req, size, chunk) ==
    SumOver([i \in DOMAIN req |-> IF req[i].end = UINT32_MAX THEN size - req[i].start * chunk
                                  ELSE req[i].end * chunk - req[i].start * chunk])
=============================================================================
