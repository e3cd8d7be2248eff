---------------------------- MODULE DtpTransfer ----------------------------
(***************************************************************************)
(* A download over its whole life: the client (DtpClient) and the server   *)
(* (DtpServer) over a link that loses and repeats data packets, through    *)
(* interruptions, time-outs, crashes of the client and resumed sessions.   *)
(***************************************************************************)
EXTENDS DtpClient, DtpServer

CONSTANT MaxInFlight    \* bound: messages on the link at once

ASSUME LinkAssumption == MaxInFlight \in Nat

VARIABLE after_stop     \* history: packets taken since dtp_stop_transfer, or NoStop

NoStop == -1

vars == <<clientVars, serverVars, net, after_stop>>

Init ==
    /\ ClientInit
    /\ ServerInit
    /\ net = <<>>
    /\ after_stop = NoStop

----------------------------------------------------------------------------
(* The server's task on the control port: dtp_server_run.                  *)

\* setup_server_transfer answers and the transfer starts; that the client has
\* hung up meanwhile is not noticed.
Accept ==
    /\ spc = "idle"
    /\ reqs # <<>>
    /\ Len(net) < MaxInFlight
    /\ start_sending_data(Head(reqs).request)
    /\ net' = Append(net, Response(PayloadSize, Head(reqs).live))
    /\ reqs' = Tail(reqs)
    /\ UNCHANGED <<pc, session, hook, loop, result, output, unflushed,
                   meta, after_stop>>

\* No request arrives on the connection, the payload is not known, or there is
\* no buffer for the response.  The request stays in server_transfer_ctx, which
\* nobody reads before the next one overwrites it.
AcceptNoReply ==
    /\ spc = "idle"
    /\ reqs # <<>>
    /\ reqs' = Tail(reqs)
    /\ UNCHANGED <<serverVars, net, pc, session, hook, loop, result, output, unflushed,
                   meta, after_stop>>

Serve ==
    /\ spc = "send" => Len(net) < MaxInFlight
    /\ ServerStep
    /\ UNCHANGED <<clientVars, after_stop>>

----------------------------------------------------------------------------
(* The link.                                                               *)

\* The oldest message is lost: a data packet (also when nobody listens on the
\* data port), or a response to a connection that is closed.
Lose ==
    /\ net # <<>>
    /\ Head(net).kind = "resp" => ~Head(net).live
    /\ net' = Tail(net)
    /\ UNCHANGED <<clientVars, serverVars, after_stop>>

\* The oldest message is a data packet and the client receives it; a repeated
\* packet stays on the link.  after_stop need not count beyond 2.
Deliver ==
    /\ net # <<>>
    /\ Head(net).kind = "data"
    /\ \/ /\ ReceivePacket(Head(net))
          /\ after_stop' = IF after_stop \in {0, 1} THEN after_stop + 1 ELSE after_stop
       \/ /\ ReceiveDuplicate(Head(net))
          /\ UNCHANGED after_stop
    /\ net' = Tail(net) \/ net' = net
    /\ UNCHANGED serverVars

----------------------------------------------------------------------------
(* The client's thread, its caller, and the calls that race with it.       *)

\* The caller resumes whenever there is a .meta file.
Prepare ==
    /\ \/ PrepareExhausted
       \/ PrepareResume
       \/ meta = NoMeta /\ PrepareFresh
    /\ after_stop' = NoStop
    /\ UNCHANGED serverVars

Receive ==
    /\ \/ Connect \/ ConnectFails \/ MetaTimeout \/ ReadResponse
       \/ BindFails \/ Bind
       \/ DeadlinePassed \/ StopReceiving \/ Wait \/ RecvTimeout
       \/ apm_on_end
    /\ UNCHANGED <<serverVars, after_stop>>

Caller ==
    /\ SerializeOpen \/ SerializeClose \/ Release
    /\ UNCHANGED <<serverVars, after_stop>>

StopCalled ==
    /\ dtp_stop_transfer
    /\ after_stop' = IF after_stop = NoStop THEN 0 ELSE after_stop
    /\ UNCHANGED serverVars

\* A stop request for a session that is receiving.
Stop == session.active /\ pc \in {"bind", "loop", "recv"} /\ StopCalled

ClientCrash == Crash /\ UNCHANGED <<serverVars, after_stop>>

Next ==
    \/ Prepare \/ Receive \/ Caller \/ Stop \/ ClientCrash
    \/ Accept \/ AcceptNoReply \/ Serve
    \/ Lose \/ Deliver

\* The client thread and the server task keep running, the link delivers or
\* loses what it holds, and time passes: a loop that keeps turning reaches its
\* deadline.  A server that keeps asking for a packet buffer gets one.
Fairness ==
    /\ WF_vars(Receive)
    /\ SF_vars(DeadlinePassed /\ UNCHANGED <<serverVars, after_stop>>)
    /\ WF_vars(Accept \/ AcceptNoReply \/ Serve)
    /\ SF_vars(LoopEnter /\ UNCHANGED <<clientVars, after_stop>>)
    /\ WF_vars(Lose \/ Deliver)

SafetySpec == Init /\ [][Next]_vars

Spec == SafetySpec /\ Fairness

----------------------------------------------------------------------------
(* Properties                                                              *)

\* Data bytes in the packet with sequence number q.
PacketLen(q) == IF q < LastSeq THEN Chunk ELSE PayloadSize - LastSeq * Chunk

\* The sequence numbers of the payload a request names.
Wanted(req) == {q \in Seqs : \E i \in DOMAIN req :
                    /\ req[i].start <= q
                    /\ req[i].end = UINT32_MAX \/ q <= req[i].end}

\* Data bytes in the packets S: the sum of their lengths.
Bytes(S) ==
    LET sum[n \in 0 .. LastSeq + 1] ==
            IF n = 0 THEN 0 ELSE sum[n - 1] + IF n - 1 \in S THEN PacketLen(n - 1) ELSE 0
    IN  sum[LastSeq + 1]

SavedMeta == [state : {"saved"}, bytes_received : Nat, payload_size : Nat,
              segments : Seq([start : Nat, end : Nat])]

\* Types of the client's and the link's state.
TypeOK ==
    /\ pc \in {"idle", "prepared", "meta", "bind", "loop", "recv", "end",
               "returned", "saving", "saved"}
    /\ session \in [bytes_received : Nat, payload_size : Nat, request : Seq(Intervals),
                    active : BOOLEAN]
    /\ loop \in [nof : Nat, prev : Nat \cup {-1}, idle : 0 .. TimeoutRounds + 1]
    /\ result \in {"none", "ok", "cancelled", "error", "exhausted"}
    /\ output \subseteq Seqs /\ unflushed \subseteq Seqs
    /\ meta \in SavedMeta \cup {NoMeta, TornMeta}
    /\ Len(reqs) <= Backlog /\ Len(net) <= MaxInFlight

Claimed == IF meta.state = "saved" THEN Cover(meta.segments) ELSE {}

Receiving == pc \in {"prepared", "meta", "bind", "loop", "recv"}

\* bytes_received in the .meta file is the size of the claimed packets: a
\* session resumed any number of times never counts a packet twice.
BytesMatchClaims ==
    meta.state = "saved" => meta.bytes_received = Bytes(Cover(meta.segments))

\* DTP_OK means the output file has every packet.
OkMeansComplete == pc = "returned" /\ result = "ok" => output = Seqs

\* When the session is handed back as cancelled ("Session can be resumed"),
\* its list of segments has a hole: a finished download is reported as an
\* interrupted one only when compute_dtp_metrics puts the last packet, "The
\* highest packet number occurring in this transmission", beyond the payload.
\* It does when the payload is a whole number of chunks.
CancelledMeansMissing ==
    pc = "returned" /\ result = "cancelled" =>
        \/ Cover(hook.segments.segments) # Seqs
        \/ metric_last_packet > LastSeq /\ PayloadSize % Chunk = 0

\* How far a request goes: to the end of the payload, or to the end of its
\* last interval when create_meta_data ran out of intervals.
Reach(req) == IF Len(req) < MaxIntervals \/ req[Len(req)].end > LastSeq THEN LastSeq
              ELSE req[Len(req)].end

\* A resumed session asks for nothing it has, and for all it misses as far as
\* the request's intervals go; the one packet it may leave out is the last
\* one of the payload, when the one before it has been received.
ResumeAsksForMissing ==
    Receiving /\ meta.state = "saved" =>
        /\ Wanted(session.request) \cap Claimed = {}
        /\ (0 .. Reach(session.request)) \ Claimed \subseteq
               Wanted(session.request) \cup IF LastSeq - 1 \in Claimed THEN {LastSeq} ELSE {}

\* What "No more data to fetch" really tells: everything is there, or the last
\* packet alone is missing, or the .meta file is empty of claims.
ExhaustedCharacterised ==
    pc = "idle" /\ result = "exhausted" =>
        Claimed = {} \/ Seqs \ Claimed \subseteq {LastSeq}

\* After dtp_stop_transfer the receive loop takes at most the packet it is
\* waiting for.
StopInterrupts == after_stop <= 1

Download == INSTANCE DtpDownload WITH
    Packets <- Seqs,
    stored <- output,
    claims <- IF pc = "saving" THEN Cover(hook.segments.segments) ELSE Claimed,
    writing <- pc = "saving",
    told <- result = "ok" /\ pc \in {"returned", "saving", "saved"}

\* Client, hooks, link and server implement DtpDownload: the output file is
\* truncated only when nothing is claimed, a saved session claims all that the
\* one before it did and no more than the file has, claims are lost only by a
\* crash that interrupts the writing of the .meta file, and DTP_OK is said of
\* a complete file.  So what the .meta file claims is always in the output
\* file, wherever the client crashed.
ImplementsDownload == Download!Spec

\* Every download attempt comes to an end, whatever the link and the server do.
AttemptEnds == Receiving ~> pc \in {"idle", "returned"}

\* The server finishes every transfer and is ready for the next request, also
\* when the client is gone.
ServerReturns == spc # "idle" ~> spc = "idle"
=============================================================================
