-------------------------- MODULE DtpReceiveClock --------------------------
(***************************************************************************)
(* The time of start_receiving_data (src/src/dtp_client.c): the deadline   *)
(* it computes from the metric and moves with the throughput it measures,  *)
(* the idle time it counts, and the keep-alives it sends.  What a packet   *)
(* holds is left to DtpClient, where the deadline may pass at any moment.  *)
(*                                                                         *)
(* clock is the true time in milliseconds.  csp_get_ms and every time      *)
(* stamp are uint32_t, so they are kept modulo Word and compared as they   *)
(* are; the products with mtu are size_t and keep all their digits.        *)
(***************************************************************************)
EXTENDS DtpMetrics

CONSTANTS
    Word,                   \* 2^32
    PacketCounts,           \* metric.nof_packets
    Timeouts,               \* session->timeout, in seconds
    KeepAlives,             \* request.keep_alive_interval, 0 for none
    BootTimes,              \* values of the clock when a session starts
    Delays,                 \* how long a datagram may take, in ms
    MaxRepeats,             \* bound: repeated packets in a session
    MaxSilent               \* bound: silent waits in a row

ASSUME ClockAssumption ==
    /\ Word \in Nat \ {0}
    /\ PacketCounts \subseteq Nat \ {0}
    /\ Timeouts \subseteq Nat
    /\ KeepAlives \subseteq Nat
    /\ BootTimes \subseteq Nat
    /\ Delays \subseteq Nat
    /\ MaxRepeats \in Nat /\ MaxSilent \in Nat

VARIABLES
    rpc,                    \* "off", "loop" or "done"
    outcome,                \* how the loop ended
    opts,                   \* what the session was prepared with
    clock,
    rx,                     \* the locals of start_receiving_data
    past,                   \* history, in true time
    exact                   \* history: no sum or product has wrapped

clockVars == <<rpc, outcome, opts, clock, rx, past, exact>>

NoOpts == [packets |-> 1, timeout |-> 0, keep |-> 0]

NoLocals == [start |-> 0, now |-> 0, idle |-> 0, eot |-> 0, nof |-> 0, alive |-> 0]

\* When the loop started, a datagram, a new packet and a keep-alive were last
\* seen; the packets and the time that the deadline was last computed from.
NoPast == [start |-> 0, heard |-> 0, packet |-> 0, alive |-> 0,
           est_nof |-> 0, est_ts |-> 0, repeats |-> 0]

ClockInit ==
    /\ Init
    /\ rpc = "off" /\ outcome = "none"
    /\ opts = NoOpts /\ clock = 0 /\ rx = NoLocals /\ past = NoPast /\ exact = TRUE

----------------------------------------------------------------------------
\* total_duration_ms of the metric, and two rounds.
FirstWait(n) ==
    LET total_duration_ms == ((n * round_time_ms) % Word) \div packets_per_round
    IN  (IF total_duration_ms < 1000 THEN 1000 ELSE total_duration_ms) + 2 * round_time_ms

\* Up to the loop, after compute_dtp_metrics.
StartLoop(o, t) ==
    /\ rpc = "off"
    /\ mpc = "done"
    /\ rpc' = "loop"
    /\ opts' = o
    /\ clock' = t
    /\ rx' = [NoLocals EXCEPT !.start = t % Word, !.now = t % Word, !.alive = t % Word,
                              !.eot = (t + FirstWait(o.packets)) % Word]
    /\ past' = [NoPast EXCEPT !.start = t, !.heard = t, !.packet = t, !.alive = t]
    /\ exact' = (o.packets * round_time_ms < Word /\ t + FirstWait(o.packets) < Word)
    /\ UNCHANGED <<outcome, vars>>

\* The loop test, on unsigned words.
InTime == (rx.now + rx.idle) % Word < rx.eot

LoopsOnPacket == rpc = "loop" /\ InTime /\ rx.nof < opts.packets

Ends(how) ==
    /\ rpc' = "done"
    /\ outcome' = how

\* The loop test fails.
LoopOver ==
    /\ rpc = "loop"
    /\ ~InTime \/ rx.nof >= opts.packets
    /\ Ends(IF rx.nof >= opts.packets THEN "all" ELSE "late")
    /\ UNCHANGED <<opts, clock, rx, past, exact, vars>>

\* dtp_is_active is false.
Interrupted ==
    /\ LoopsOnPacket
    /\ Ends("stopped")
    /\ UNCHANGED <<opts, clock, rx, past, exact, vars>>

\* What a wait of two rounds adds to idle_ms.
IdleStep == round_time_ms

\* mutant: the timeout is taken for milliseconds.
IdleLimit_ms == opts.timeout

\* What idle_ms is compared with: the timeout is in seconds.
IdleLimit == opts.timeout * 1000

\* csp_recvfrom returns NULL after two rounds; now_ts_ms stays as it was.
Silence ==
    LET idle == rx.idle + IdleStep IN
    /\ LoopsOnPacket
    /\ rx.idle < MaxSilent * round_time_ms
    /\ clock' = clock + 2 * round_time_ms
    /\ rx' = [rx EXCEPT !.idle = idle]
    /\ exact' = (exact /\ clock' < Word)
    /\ IF idle > IdleLimit THEN Ends("idle") ELSE UNCHANGED <<rpc, outcome>>
    /\ UNCHANGED <<opts, past, vars>>

\* A datagram comes within the wait of csp_recvfrom, d ms after the last event.
Arrives(d) == LoopsOnPacket /\ d <= 2 * round_time_ms

\* The previous packet again.
Repeated(d) ==
    /\ Arrives(d)
    /\ rx.nof > 0
    /\ past.repeats < MaxRepeats
    /\ clock' = clock + d
    /\ rx' = [rx EXCEPT !.idle = 0, !.now = clock' % Word]
    /\ past' = [past EXCEPT !.heard = clock', !.repeats = @ + 1]
    /\ exact' = (exact /\ clock' < Word)
    /\ UNCHANGED <<rpc, outcome, opts, vars>>

\* Bytes per millisecond after nof packets in ts ms.
curr_throughput(nof, ts) == ((nof * chunk) % Word) \div ts

\* mutant: the estimate leaves out the last packet.
adj_eot_short(nof, ts) == (chunk * (opts.packets - 1)) \div curr_throughput(nof, ts)

\* How long the whole transfer takes at that throughput.
adj_eot(nof, ts) == (chunk * opts.packets) \div curr_throughput(nof, ts)

\* mutant: a keep-alive every third interval.
AliveDue_third(t) == opts.keep > 0 /\ (t - rx.alive) % Word >= 3 * opts.keep

\* It is time for a keep-alive.
AliveDue(t) == opts.keep > 0 /\ (t - rx.alive) % Word >= opts.keep

\* A new packet.  last: its number is metric.last_packet or more, which ends
\* the loop however many came before.
Packet(d, last) ==
    LET now == (clock + d) % Word
        nof == rx.nof + 1
        ts == (now - rx.start) % Word
        measured == ts > 0 /\ curr_throughput(nof, ts) > 0
        eot == rx.start + adj_eot(nof, ts)
    IN  /\ Arrives(d)
        /\ clock' = clock + d
        /\ rx' = [rx EXCEPT !.idle = 0, !.now = now, !.nof = nof,
                            !.eot = IF measured THEN eot % Word ELSE @,
                            !.alive = IF AliveDue(now) THEN now ELSE @]
        /\ past' = [past EXCEPT !.heard = clock', !.packet = clock',
                                !.alive = IF AliveDue(now) THEN clock' ELSE @,
                                !.est_nof = IF measured THEN nof ELSE @,
                                !.est_ts = IF measured THEN ts ELSE @]
        /\ exact' = (/\ exact /\ clock' < Word /\ nof * chunk < Word
                     /\ measured => eot < Word)
        /\ IF last THEN Ends("last") ELSE UNCHANGED <<rpc, outcome>>
        /\ UNCHANGED <<opts, vars>>

\* start_receiving_data returns; its locals are gone.
Return ==
    /\ rpc = "done"
    /\ rpc' = "off" /\ outcome' = "none"
    /\ opts' = NoOpts /\ clock' = 0 /\ rx' = NoLocals /\ past' = NoPast /\ exact' = TRUE
    /\ UNCHANGED vars

Options == [packets : PacketCounts, timeout : Timeouts, keep : KeepAlives]

ClockNext ==
    \/ rpc = "off" /\ Next /\ UNCHANGED clockVars
    \/ \E o \in Options, t \in BootTimes : StartLoop(o, t)
    \/ LoopOver \/ Interrupted \/ Silence \/ Return
    \/ \E d \in Delays : Repeated(d) \/ \E last \in BOOLEAN : Packet(d, last)

ClockSpec ==
    /\ ClockInit
    /\ [][ClockNext]_<<vars, clockVars>>
    /\ WF_vars(rpc = "off" /\ (ShortenRound \/ RollBack))

----------------------------------------------------------------------------
(* Properties                                                              *)

\* What the deadline is worth: as long as no 32-bit sum or product wraps, the
\* loop gives up only when all packets were due, but for a millisecond lost in
\* the quotients.  Before a throughput could be measured they are due two rounds
\* after what the pace of the request takes, or after a second if that is more;
\* then, when they would be there at the average pace of the packets so far.
LateMeansOverdue ==
    outcome = "late" /\ exact =>
        LET waited == past.heard - past.start + rx.idle
            beyond == waited - 2 * round_time_ms
        IN  IF past.est_nof = 0
            THEN /\ beyond >= 1000
                 /\ opts.packets * round_time_ms < packets_per_round * (beyond + 1)
            ELSE opts.packets * past.est_ts < past.est_nof * (waited + 1)

\* start_receiving_data gives up for silence only when nothing at all, not even
\* a repeated packet, has come for longer than the session's timeout, whatever
\* came and was waited for before; and the silence was of bounded length.
IdleMeansSilent ==
    outcome = "idle" =>
        /\ clock - past.heard > 1000 * opts.timeout
        /\ clock - past.heard <= 2000 * opts.timeout + 2 * round_time_ms

\* The timeout is the "Idle timeout that will stop the session"
\* (include/dtp/dtp.h:77): a session that is stopped for silence is stopped by
\* the first wait of two rounds that exceeds it.
IdleStopsInTime ==
    outcome = "idle" => clock - past.heard <= 1000 * opts.timeout + 2 * round_time_ms

\* A keep-alive is sent only when a new packet comes.  While the last one is at
\* most keep_alive_interval + 500 ms old, the limit that dtp_server_poll_loop
\* sets (twice the interval and 500 ms) has not passed since the last one, also
\* when the 32-bit clock wraps in between (unless it turns a whole round).
AliveWithinLimit ==
    /\ rpc = "loop" /\ opts.keep > 0
    /\ past.packet - past.alive < Word
    /\ clock - past.packet <= opts.keep + 500
    => clock - past.alive <= 2 * opts.keep + 500
=============================================================================
