----------------------------- MODULE DtpClient -----------------------------
(***************************************************************************)
(* The receiving side: dtp_client_main with its session (dtp_client.c,     *)
(* dtp.c, dtp_protocol.c) and the POSIX hooks that write the output file   *)
(* and the .meta file (dtp_client_posix_session_hooks.c).                  *)
(*                                                                         *)
(* Time is abstract: the receive loop may find its deadline passed at any  *)
(* turn, and a wait for a packet may time out at any moment; the number of *)
(* silent waits the session timeout allows is TimeoutRounds.               *)
(*                                                                         *)
(* Files are sets of packet sequence numbers.  A packet written to the     *)
(* output stays in the stdio buffer (unflushed) until the next fseek or    *)
(* fclose; a crash may lose it.                                            *)
(***************************************************************************)
EXTENDS DtpWire, DtpProtocol, DtpSegmentLists

CONSTANTS
    MaxIntervals,       \* size of dtp_meta_req_t.intervals
    TimeoutRounds,      \* silent waits before idle_ms exceeds the timeout
    Backlog             \* connections the server's socket queues

ASSUME ClientAssumption ==
    /\ MaxIntervals \in Nat \ {0}
    /\ TimeoutRounds \in Nat
    /\ Backlog \in Nat \ {0}

VARIABLES
    pc,                 \* control point of the client
    session,            \* the dtp_t: bytes_received, payload_size, request, active
    hook,               \* the hook_ctx_t: segments and received_segments
    loop,               \* locals of start_receiving_data
    result,             \* outcome of the last call of dtp_client_main
    output,             \* packets in the output file
    unflushed,          \* packet in its stdio buffer
    meta,               \* the .meta file
    reqs                \* connections with a request, waiting for the server

clientVars == <<pc, session, hook, loop, result, output, unflushed, meta, reqs>>

NoList == [none |-> TRUE]

NoHook == [segments |-> init_segments_ctx, received |-> NoList]

NoLoop == [nof |-> 0, prev |-> -1, idle |-> 0]

NoMeta == [state |-> "none"]

TornMeta == [state |-> "torn"]

\* The slot of a process that has not run a session yet.
FreshSlot == [bytes_received |-> 0, payload_size |-> 0, request |-> <<>>, active |-> FALSE]

ClientInit ==
    /\ pc = "idle"
    /\ session = FreshSlot
    /\ hook = NoHook
    /\ loop = NoLoop
    /\ result = "none"
    /\ output = {}
    /\ unflushed = {}
    /\ meta = NoMeta
    /\ reqs = <<>>

----------------------------------------------------------------------------
(* Releasing a session: apm_on_release, csp_close, dtp_release_session.    *)
(* The slot keeps its payload_size and active flag.                        *)

\* csp_close: the peer's answer to a pending request finds nobody.
Hangup(msgs) == [i \in DOMAIN msgs |->
                    IF "live" \in DOMAIN msgs[i] THEN [msgs[i] EXCEPT !.live = FALSE]
                                                 ELSE msgs[i]]

CloseConn == /\ reqs' = Hangup(reqs)
             /\ net' = Hangup(net)

dtp_release_session ==
    /\ hook' = NoHook
    /\ session' = [session EXCEPT !.bytes_received = 0, !.request = <<>>]

\* dtp_client_main fails: the session is released before it returns.
FailWith(res) ==
    /\ pc' = "idle"
    /\ result' = res
    /\ dtp_release_session

----------------------------------------------------------------------------
(* dtp_prepare_session                                                     *)

dtp_acquire_session ==
    [session EXCEPT !.bytes_received = 0, !.active = FALSE, !.request = WholePayload]

\* mutant: create_meta_data keeps the last intervals, not the first.
RequestForLast(received, size) ==
    LET missing == get_complement_segment(received, 0, size \div Chunk)
    IN  SubSeq(missing.segments, IF missing.nof > MaxIntervals THEN missing.nof - MaxIntervals + 1 ELSE 1,
               missing.nof)

\* The intervals create_meta_data copies from the complement of a list.
RequestFor(received, size) ==
    LET missing == get_complement_segment(received, 0, size \div Chunk)
    IN  SubSeq(missing.segments, 1,
               IF missing.nof < MaxIntervals THEN missing.nof ELSE MaxIntervals)

\* The session and hook context after apm_on_deserialize.  A file without the
\* version stamp (torn) changes nothing and raises no error.
apm_on_deserialize ==
    IF meta.state = "saved"
    THEN LET received == LoadSegments(meta.segments) IN
         [session |-> [dtp_acquire_session EXCEPT
                          !.bytes_received = meta.bytes_received,
                          !.payload_size = meta.payload_size,
                          !.request = RequestFor(received, meta.payload_size)],
          hook |-> [segments |-> init_segments_ctx, received |-> received]]
    ELSE [session |-> dtp_acquire_session, hook |-> NoHook]

\* mutant: off by one on nof_intervals.
ExhaustedEarly(s) == s.bytes_received = s.payload_size \/ Len(s.request) <= 1

\* Nothing left to fetch, as dtp_prepare_session decides it.
Exhausted(s) == s.bytes_received = s.payload_size \/ s.request = <<>>

\* A resume finds a .meta file it believes complete.
PrepareExhausted ==
    /\ pc = "idle"
    /\ meta # NoMeta
    /\ Exhausted(apm_on_deserialize.session)
    /\ session' = [apm_on_deserialize.session EXCEPT !.bytes_received = 0, !.request = <<>>]
    /\ hook' = NoHook
    /\ result' = "exhausted"
    /\ UNCHANGED <<pc, loop, output, unflushed, meta, reqs, net>>

\* A resume with something to fetch.
PrepareResume ==
    /\ pc = "idle"
    /\ meta # NoMeta
    /\ ~Exhausted(apm_on_deserialize.session)
    /\ session' = apm_on_deserialize.session
    /\ hook' = apm_on_deserialize.hook
    /\ pc' = "prepared"
    /\ result' = "none"
    /\ UNCHANGED <<loop, output, unflushed, meta, reqs, net>>

\* No resume asked for, or no .meta file to resume from: the whole payload.
PrepareFresh ==
    /\ pc = "idle"
    /\ session' = dtp_acquire_session
    /\ hook' = NoHook
    /\ pc' = "prepared"
    /\ result' = "none"
    /\ UNCHANGED <<loop, output, unflushed, meta, reqs, net>>

----------------------------------------------------------------------------
(* dtp_start_transfer: connect, request, response.                         *)

\* csp_connect and send_remote_meta_req.
Connect ==
    /\ pc = "prepared"
    /\ Len(reqs) < Backlog
    /\ reqs' = Append(reqs, [request |-> session.request, live |-> TRUE])
    /\ pc' = "meta"
    /\ UNCHANGED <<session, hook, loop, result, output, unflushed, meta, net>>

\* csp_connect fails (no answer, the backlog is full) or there is no buffer
\* for the request.
ConnectFails ==
    /\ pc = "prepared"
    /\ FailWith("error")
    /\ UNCHANGED <<loop, output, unflushed, meta, reqs, net>>

\* mutant: csp_read waits for ever.
MetaTimeoutNever == FALSE

\* read_remote_meta_resp times out.
MetaTimeout ==
    /\ pc = "meta"
    /\ FailWith("error")
    /\ CloseConn
    /\ UNCHANGED <<loop, output, unflushed, meta>>

\* The output file as apm_on_start opens it: "r+b" or "wb".
OpenedOutput == IF session.bytes_received > 0 THEN output ELSE {}

\* read_remote_meta_resp, then start_receiving_data up to csp_bind: on_start
\* opens the output file, truncating it unless something was received before.
ReadResponse ==
    /\ pc = "meta"
    /\ net # <<>>
    /\ Head(net).kind = "resp" /\ Head(net).live
    /\ net' = Tail(net)
    /\ session' = [session EXCEPT !.payload_size = Head(net).size, !.active = TRUE]
    /\ output' = OpenedOutput
    /\ pc' = "bind"
    /\ UNCHANGED <<hook, loop, result, unflushed, meta, reqs>>

----------------------------------------------------------------------------
(* start_receiving_data                                                    *)

BindFails ==
    /\ pc = "bind"
    /\ FailWith("error")
    /\ CloseConn
    /\ UNCHANGED <<loop, output, unflushed, meta>>

Bind ==
    /\ pc = "bind"
    /\ loop' = NoLoop
    /\ pc' = "loop"
    /\ UNCHANGED <<session, hook, result, output, unflushed, meta, reqs, net>>

metric_nof_packets == nof_packets(session.request, session.payload_size, Chunk)

metric_last_packet == last_packet(session.request, session.payload_size, Chunk)

\* Leaving the loop other than by the last packet: result is DTP_CANCELLED.
LeaveLoop(s) ==
    /\ session' = s
    /\ result' = "cancelled"
    /\ pc' = "end"

\* The while condition fails because the expected end of transfer has passed.
DeadlinePassed ==
    /\ pc = "loop"
    /\ LeaveLoop(session)
    /\ UNCHANGED <<hook, loop, output, unflushed, meta, reqs, net>>

\* It fails because the expected number of packets was received, or the loop
\* body finds the session stopped.
StopReceiving ==
    /\ pc = "loop"
    /\ loop.nof >= metric_nof_packets \/ ~session.active
    /\ LeaveLoop(session)
    /\ UNCHANGED <<hook, loop, output, unflushed, meta, reqs, net>>

\* mutant: active is not tested.
WaitAnyway ==
    /\ pc = "loop"
    /\ loop.nof < metric_nof_packets
    /\ pc' = "recv"
    /\ UNCHANGED <<session, hook, loop, result, output, unflushed, meta, reqs, net>>

\* Into csp_recvfrom.
Wait ==
    /\ pc = "loop"
    /\ loop.nof < metric_nof_packets
    /\ session.active
    /\ pc' = "recv"
    /\ UNCHANGED <<session, hook, loop, result, output, unflushed, meta, reqs, net>>

\* mutant: the idle time is never compared with the timeout.
RecvTimeoutIgnored ==
    /\ pc = "recv"
    /\ loop' = [loop EXCEPT !.idle = @ + 1]
    /\ pc' = "loop"
    /\ UNCHANGED <<session, result, hook, output, unflushed, meta, reqs, net>>

\* csp_recvfrom returns NULL.
RecvTimeout ==
    /\ pc = "recv"
    /\ loop' = [loop EXCEPT !.idle = @ + 1]
    /\ IF loop.idle + 1 > TimeoutRounds
       THEN LeaveLoop([session EXCEPT !.active = FALSE])
       ELSE pc' = "loop" /\ UNCHANGED <<session, result>>
    /\ UNCHANGED <<hook, output, unflushed, meta, reqs, net>>

packet_seq(p) == p.off \div Chunk

\* mutant: repetitions are not filtered.
IsDuplicateNever(p) == FALSE

IsDuplicate(p) == packet_seq(p) = loop.prev

\* The same sequence number as the packet before: discarded.
ReceiveDuplicate(p) ==
    /\ pc = "recv"
    /\ IsDuplicate(p)
    /\ loop' = [loop EXCEPT !.idle = 0]
    /\ pc' = "loop"
    /\ UNCHANGED <<session, hook, result, output, unflushed, meta, reqs>>

\* mutant: strictly beyond the last packet.
IsLastPacketBeyond(seq) == seq > metric_last_packet

IsLastPacket(seq) == seq >= metric_last_packet

\* mutant: the last packet means success, whatever was lost.
LastPacketResultAlwaysOk(bytes) == "ok"

LastPacketResult(bytes) == IF bytes = session.payload_size THEN "ok" ELSE "cancelled"

\* What the memory of a freed node of the list may read as.
AnyNode == {Segment(s, e) : s, e \in Seqs}

\* A packet: counted, written, recorded, and checked for being the last one.
\* apm_on_data_packet's fseek writes out what the stdio buffer held.
ReceivePacket(p) ==
    LET seq   == packet_seq(p)
        bytes == session.bytes_received + p.len
    IN  /\ pc = "recv"
        /\ ~IsDuplicate(p)
        /\ loop' = [nof |-> loop.nof + 1, prev |-> seq, idle |-> 0]
        /\ session' = [session EXCEPT !.bytes_received = bytes]
        /\ output' = output \cup unflushed
        /\ unflushed' = {seq}
        /\ \E d \in Readings(update_segments(hook.segments, seq, TRUE), AnyNode) :
              hook' = [hook EXCEPT !.segments = d]
        /\ IF IsLastPacket(seq)
           THEN /\ pc' = "end"
                /\ result' = LastPacketResult(bytes)
           ELSE /\ pc' = "loop"
                /\ UNCHANGED result
        /\ UNCHANGED <<meta, reqs>>

\* mutant: the list that was loaded is forgotten.
apm_on_end_unmerged ==
    /\ pc = "end"
    /\ output' = output \cup unflushed
    /\ unflushed' = {}
    /\ hook' = [hook EXCEPT !.segments = close_segments(@)]
    /\ pc' = "returned"
    /\ CloseConn
    /\ loop' = NoLoop
    /\ UNCHANGED <<session, result, meta>>

\* apm_on_end: the output file is closed, the list of this attempt is closed
\* and merged with the one that was loaded; dtp_start_transfer closes the
\* connection and dtp_client_main hands the session to its caller.  When
\* close_segments has freed a node of the list (a second attempt on the session
\* only), print_segments and merge_segments read whatever is there, or the
\* process dies (Crash).
apm_on_end ==
    /\ pc = "end"
    /\ output' = output \cup unflushed
    /\ unflushed' = {}
    /\ \E closed \in Readings(close_segments(hook.segments), AnyNode) :
          hook' = [hook EXCEPT !.segments = IF hook.received = NoList THEN closed
                                            ELSE merge_segments(closed, hook.received)]
    /\ pc' = "returned"
    /\ CloseConn
    /\ loop' = NoLoop
    /\ UNCHANGED <<session, result, meta>>

----------------------------------------------------------------------------
(* The caller of dtp_client_main: it serializes the session or not, and    *)
(* releases it.  dtp_serialize_session is two steps: apm_on_serialize      *)
(* truncates the .meta file when it opens it, and the (buffered) content   *)
(* reaches the file when it closes it.                                     *)

SerializeOpen ==
    /\ pc = "returned"
    /\ meta' = TornMeta
    /\ pc' = "saving"
    /\ UNCHANGED <<session, hook, loop, result, output, unflushed, reqs, net>>

SerializeClose ==
    /\ pc = "saving"
    /\ meta' = [state |-> "saved",
                bytes_received |-> session.bytes_received,
                payload_size |-> session.payload_size,
                segments |-> hook.segments.segments]
    /\ pc' = "saved"
    /\ UNCHANGED <<session, hook, loop, result, output, unflushed, reqs, net>>

Release ==
    /\ pc \in {"returned", "saved"}
    /\ pc' = "idle"
    /\ dtp_release_session
    /\ UNCHANGED <<loop, result, output, unflushed, meta, reqs, net>>

\* dtp_stop_transfer, called from another thread.
dtp_stop_transfer ==
    /\ pc # "idle"
    /\ session' = [session EXCEPT !.active = FALSE]
    /\ UNCHANGED <<pc, hook, loop, result, output, unflushed, meta, reqs, net>>

\* The client process dies and is started again.
Crash ==
    /\ pc # "idle"
    /\ pc' = "idle"
    /\ session' = FreshSlot
    /\ hook' = NoHook
    /\ loop' = NoLoop
    /\ result' = "none"
    /\ \E kept \in SUBSET unflushed : output' = output \cup kept
    /\ unflushed' = {}
    /\ CloseConn
    /\ UNCHANGED meta
=============================================================================
