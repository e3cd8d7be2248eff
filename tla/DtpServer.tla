----------------------------- MODULE DtpServer -----------------------------
(***************************************************************************)
(* The sending side (src/src/dtp_server.c): start_sending_data walks the   *)
(* requested intervals and dtp_server_poll_loop sends each interval in     *)
(* rounds of PacketsPerRound packets.  os_hal_start_poll_operation (the    *)
(* sleeping loop around the poll function, src/src/dtp_os_hal.c) is the    *)
(* "poll" control point.                                                   *)
(*                                                                         *)
(* keep_running lives in the global server_transfer_ctx and is cleared by  *)
(* other tasks while the loop runs, so an iteration is two steps: the loop *)
(* test (with csp_buffer_get) and the send.                                *)
(*                                                                         *)
(* The model is in bytes.  Chunk is the mtu less the two header words;     *)
(* a packet is its offset and its number of data bytes.                    *)
(***************************************************************************)
EXTENDS DtpWire

CONSTANTS
    PacketsPerRound,    \* metric.packets_per_round
    KeepAlive           \* request.keep_alive_interval > 0

ASSUME RoundAssumption ==
    /\ PacketsPerRound \in Nat \ {0}
    /\ KeepAlive \in BOOLEAN

VARIABLES
    spc,                \* control point: "idle", "interval", "poll", "test", "send"
    intervals,          \* server_transfer_ctx.request.intervals
    idx,                \* loop index i of start_sending_data, from 1
    keep_running,       \* server_transfer_ctx.keep_running
    bytes_sent,         \* dtp_server_transfer_t: offset of the next packet
    sent_in_interval,
    bytes_in_interval,
    pkt_cnt             \* local of dtp_server_poll_loop

serverVars == <<spc, intervals, idx, keep_running, bytes_sent,
                sent_in_interval, bytes_in_interval, pkt_cnt>>

----------------------------------------------------------------------------
ServerInit ==
    /\ spc = "idle"
    /\ intervals = <<>>
    /\ idx = 1
    /\ keep_running = FALSE
    /\ bytes_sent = 0
    /\ sent_in_interval = 0
    /\ bytes_in_interval = 0
    /\ pkt_cnt = 0

\* The stop offset start_sending_data computes for interval r.
interval_stop(r) ==
    IF r.end # UINT32_MAX /\ (r.end + 1) * Chunk <= PayloadSize
    THEN (r.end + 1) * Chunk
    ELSE PayloadSize

\* The sequence number it writes back over UINT32_MAX.
fixed_end == IF PayloadSize % Chunk # 0 THEN PayloadSize \div Chunk
                                        ELSE PayloadSize \div Chunk - 1

\* dtp_server_run after setup_server_transfer, up to the interval loop.
start_sending_data(request) ==
    /\ spc = "idle"
    /\ spc' = "interval"
    /\ intervals' = request
    /\ keep_running' = TRUE
    /\ UNCHANGED <<idx, bytes_sent, sent_in_interval, bytes_in_interval, pkt_cnt>>

\* One pass of the for loop, up to os_hal_start_poll_operation.
NextInterval ==
    /\ spc = "interval"
    /\ idx <= Len(intervals)
    /\ keep_running
    /\ LET r == intervals[idx] IN
       /\ intervals' = [intervals EXCEPT ![idx].end = IF @ = UINT32_MAX THEN fixed_end ELSE @]
       /\ sent_in_interval' = 0
       /\ bytes_sent' = r.start * Chunk
       /\ bytes_in_interval' = interval_stop(r) - r.start * Chunk
    /\ spc' = "poll"
    /\ UNCHANGED <<idx, keep_running, pkt_cnt, net>>

\* The locals of start_sending_data go out of scope.
ForgetTransfer ==
    /\ idx' = 1
    /\ bytes_sent' = 0
    /\ sent_in_interval' = 0
    /\ bytes_in_interval' = 0
    /\ pkt_cnt' = 0

\* The for loop ends: all intervals done, or stopped.  dtp_server_run clears
\* keep_running and closes the connection.
TransferDone ==
    /\ spc = "interval"
    /\ idx > Len(intervals) \/ ~keep_running
    /\ spc' = "idle"
    /\ keep_running' = FALSE
    /\ ForgetTransfer
    /\ UNCHANGED <<intervals, net>>

\* The poll operation wakes up and calls dtp_server_poll_loop.
PollWakeup ==
    /\ spc = "poll"
    /\ spc' = "test"
    /\ UNCHANGED <<intervals, idx, keep_running, bytes_sent, sent_in_interval,
                   bytes_in_interval, pkt_cnt, net>>

\* mutant: keep_running is not tested before a packet.
LoopEnterAnyway ==
    /\ spc = "test"
    /\ pkt_cnt < PacketsPerRound
    /\ spc' = "send"
    /\ UNCHANGED <<intervals, idx, keep_running, bytes_sent, sent_in_interval,
                   bytes_in_interval, pkt_cnt, net>>

\* The while condition holds and csp_buffer_get succeeds.
LoopEnter ==
    /\ spc = "test"
    /\ pkt_cnt < PacketsPerRound
    /\ keep_running
    /\ spc' = "send"
    /\ UNCHANGED <<intervals, idx, keep_running, bytes_sent, sent_in_interval,
                   bytes_in_interval, pkt_cnt, net>>

\* dtp_server_poll_loop returns: poll again, or back to the interval loop with
\* its next index.  cnt is what the packet counter of the next round starts at.
PollReturnTo(again, next, cnt) ==
    /\ spc' = IF again THEN "poll" ELSE "interval"
    /\ idx' = IF again THEN idx ELSE next
    /\ pkt_cnt' = cnt
    /\ UNCHANGED <<intervals, keep_running, bytes_sent, sent_in_interval,
                   bytes_in_interval, net>>

MoreToSend == sent_in_interval < bytes_in_interval

\* mutants: the index advanced twice; the counter kept from round to round; a
\* stop not seen by the poll operation.
PollReturnSkipping == PollReturnTo(MoreToSend /\ keep_running, idx + 2, 0)
PollReturnCounting == PollReturnTo(MoreToSend /\ keep_running, idx + 1, pkt_cnt)
PollReturnUnstopped == PollReturnTo(MoreToSend, idx + 1, 0)

PollReturn == PollReturnTo(MoreToSend /\ keep_running, idx + 1, 0)

\* The while condition fails.
LoopExit ==
    /\ spc = "test"
    /\ pkt_cnt >= PacketsPerRound \/ ~keep_running
    /\ PollReturn

\* csp_buffer_get returns NULL: the round is cut short.
NoBuffer ==
    /\ spc = "test"
    /\ pkt_cnt < PacketsPerRound
    /\ keep_running
    /\ PollReturn

remaining == bytes_in_interval - sent_in_interval

\* mutant: the last packet is not cut.
packet_length_uncut == Chunk

packet_length == IF remaining > Chunk THEN Chunk ELSE remaining

\* Fill in and send one packet.  The last packet of the interval ends the
\* round.  The payload's read function delivers what is asked for.  A client
\* that has not been heard of for too long (at any moment, time is abstract)
\* ends the transfer.
SendPacket ==
    /\ spc = "send"
    /\ net' = Append(net, DataPacket(bytes_sent, packet_length))
    /\ bytes_sent' = bytes_sent + packet_length
    /\ sent_in_interval' = sent_in_interval + packet_length
    /\ pkt_cnt' = (IF remaining > Chunk THEN pkt_cnt ELSE PacketsPerRound) + 1
    /\ spc' = "test"
    /\ \/ UNCHANGED keep_running
       \/ KeepAlive /\ keep_running' = FALSE
    /\ UNCHANGED <<intervals, idx, bytes_in_interval>>

ServerStep == \/ NextInterval \/ TransferDone \/ PollWakeup \/ LoopEnter
              \/ LoopExit \/ NoBuffer \/ SendPacket

\* Another task clears keep_running: the STOP request of the VMEM handler.
StopSending ==
    /\ keep_running
    /\ keep_running' = FALSE
    /\ UNCHANGED <<spc, intervals, idx, bytes_sent, sent_in_interval,
                   bytes_in_interval, pkt_cnt, net>>
=============================================================================
