-------------------------- MODULE DtpServerSystem --------------------------
(***************************************************************************)
(* The sending side by itself: requests of the shapes the client builds,   *)
(* stop requests from another task, and payloads that are deleted while    *)
(* they are being sent (dtp_file_payload_del), against the transfer loop   *)
(* of DtpServer.  net keeps every packet of the current transfer.          *)
(***************************************************************************)
EXTENDS DtpServer, DtpProtocol

CONSTANTS
    Requests,           \* interval lists a client may ask for
    BufferPool          \* number of CSP buffers

\* What dtp_acquire_session and create_meta_data put in a request: the whole
\* payload, or ascending disjoint intervals that start inside the payload.
Askable(r) ==
    /\ r \in Seq(Intervals)
    /\ \A i \in DOMAIN r : /\ r[i].start * Chunk < PayloadSize
                           /\ r[i].end # UINT32_MAX => r[i].start <= r[i].end
    /\ \A i, j \in DOMAIN r : i < j => r[i].end # UINT32_MAX /\ r[i].end < r[j].start

ASSUME RequestsAssumption == \A r \in Requests : Askable(r)
ASSUME BufferAssumption == BufferPool \in Nat

VARIABLES
    asked,              \* the request as it came in
    present,            \* the payload is still registered
    lost_buffers,       \* buffers taken and never given back
    stopped,            \* a stop request came during this transfer
    after_stop          \* history: packets sent since that stop

vars == <<serverVars, net, asked, present, lost_buffers, stopped, after_stop>>

histories == <<asked, present, stopped, after_stop>>

----------------------------------------------------------------------------
Init ==
    /\ ServerInit
    /\ net = <<>>
    /\ asked = <<>>
    /\ present = TRUE
    /\ lost_buffers = 0
    /\ stopped = FALSE
    /\ after_stop = 0

\* A request for a payload that is registered; get_payload_meta refuses others.
Request(r) ==
    /\ present
    /\ start_sending_data(r)
    /\ net' = <<>>
    /\ asked' = r
    /\ stopped' = FALSE
    /\ after_stop' = 0
    /\ UNCHANGED <<present, lost_buffers>>

Send ==
    /\ present
    /\ SendPacket
    /\ after_stop' = IF stopped THEN after_stop + 1 ELSE after_stop
    /\ UNCHANGED <<asked, present, lost_buffers, stopped>>

\* payload_read returns 0 once the payload is gone: the round is cut short and
\* the buffer it had taken is not given back.
ReadNothing ==
    /\ spc = "send"
    /\ ~present
    /\ PollReturn
    /\ lost_buffers' = lost_buffers + 1
    /\ UNCHANGED histories

GetBuffer ==
    /\ lost_buffers < BufferPool
    /\ LoopEnter
    /\ UNCHANGED <<lost_buffers, histories>>

Control ==
    /\ NextInterval \/ TransferDone \/ PollWakeup \/ LoopExit \/ NoBuffer
    /\ UNCHANGED <<lost_buffers, histories>>

Stop ==
    /\ StopSending
    /\ stopped' = TRUE
    /\ UNCHANGED <<asked, present, lost_buffers, after_stop>>

\* dtp_file_payload_del, and dtp_file_payload_add of the same id afterwards.
PayloadDel == /\ present
              /\ present' = FALSE
              /\ UNCHANGED <<serverVars, net, asked, lost_buffers, stopped, after_stop>>

PayloadAdd == /\ ~present
              /\ present' = TRUE
              /\ UNCHANGED <<serverVars, net, asked, lost_buffers, stopped, after_stop>>

Next == \/ \E r \in Requests : Request(r)
        \/ Send \/ ReadNothing \/ GetBuffer \/ Control \/ Stop
        \/ PayloadDel \/ PayloadAdd

\* The server task keeps running, and a loop that asks for a buffer again and
\* again gets one while the pool has any.
Fairness == /\ WF_vars(Send \/ ReadNothing \/ GetBuffer \/ Control)
            /\ SF_vars(GetBuffer)

Spec == Init /\ [][Next]_vars /\ Fairness

----------------------------------------------------------------------------
(* Properties                                                              *)

DataPackets == [kind : {"data"}, off : Nat, len : Nat]

ControlPoints == {"idle", "interval", "poll", "test", "send"}

\* Types of the transfer state and its histories.
TypeOK ==
    /\ spc \in ControlPoints
    /\ intervals \in Seq(Intervals)
    /\ idx \in Nat \ {0}
    /\ keep_running \in BOOLEAN
    /\ bytes_sent \in Nat /\ sent_in_interval \in Nat /\ bytes_in_interval \in Nat
    /\ pkt_cnt \in Nat
    /\ net \in Seq(DataPackets)
    /\ asked \in Seq(Intervals)
    /\ present \in BOOLEAN /\ stopped \in BOOLEAN
    /\ lost_buffers \in Nat /\ after_stop \in Nat

\* Packet p carries a whole chunk of interval r, or the cut last chunk of the
\* payload.
CarriesChunkOf(p, r) ==
    /\ \E q \in 0 .. PayloadSize : p.off = q * Chunk
    /\ r.start * Chunk <= p.off
    /\ 0 < p.len
    /\ p.off + p.len <= interval_stop(r)
    /\ p.len = Chunk \/ (p.len < Chunk /\ p.off + p.len = PayloadSize)

\* A packet starts at a multiple of the chunk size and lies in one interval.
ChunksOfRequest ==
    \A k \in DOMAIN net : \E i \in DOMAIN asked : CarriesChunkOf(net[k], asked[i])

\* Within a transfer offsets only go up.
OffsetsAscend ==
    \A j, k \in DOMAIN net : j < k => net[j].off + net[j].len <= net[k].off

\* Every packet dtp_server_poll_loop sends is a chunk of one requested interval,
\* and none is sent twice, across rounds, cut rounds and interval changes: the
\* client recovers the sequence number by dividing the offset, so a packet
\* across a boundary would be filed under the wrong number.
PacketsFollowRequest == ChunksOfRequest /\ OffsetsAscend

\* The bytes of the payload that a request names.
AskedBytes(req) ==
    {b \in 0 .. PayloadSize - 1 : \E i \in DOMAIN req :
        /\ req[i].start * Chunk <= b
        /\ req[i].end = UINT32_MAX \/ b < (req[i].end + 1) * Chunk}

\* The bytes in the packets of this transfer.
SentBytes == UNION {net[k].off .. net[k].off + net[k].len - 1 : k \in DOMAIN net}

Sender == INSTANCE DtpSender WITH
    Questions <- {AskedBytes(r) : r \in Requests},
    busy <- spc # "idle",
    stop <- spc # "idle" /\ ~keep_running,
    todo <- IF spc = "idle" THEN {} ELSE AskedBytes(asked) \ SentBytes,
    packets <- Len(net)

\* The server implements DtpSender: its packets carry every byte that was asked
\* for, once and in ascending order, across rounds, cut rounds and changes of
\* the interval, and it ends when nothing is left or after a stop.
ImplementsSender == Sender!Spec

\* keep_running is tested before every packet: a stop lets at most the packet
\* in hand go out.
AtMostOneAfterStop == after_stop <= 1

\* The transfer has run to its end, and nobody stopped it.
RanToEnd == spc = "interval" /\ idx > Len(intervals) /\ keep_running

\* The bytes it has sent.
TotalSent == SumOver([k \in DOMAIN net |-> net[k].len])

\* compute_transfer_size gives the "Total size of payload data to be sent during
\* this transfer" (include/dtp/dtp_protocol.h:53): it is what a transfer that
\* runs to its end sends.
AnnouncedIsSent ==
    RanToEnd => compute_transfer_size(asked, PayloadSize, Chunk) = TotalSent

\* A transfer comes to an end whatever rounds the buffer pool cuts short, and
\* after a stop even when reads fail and the pool has run dry: it polls for
\* ever only if the payload is gone or the pool empty, and nobody stops it.
TransferEnds ==
    (spc # "idle") ~>
        (spc = "idle" \/ (keep_running /\ (~present \/ lost_buffers >= BufferPool)))
=============================================================================
