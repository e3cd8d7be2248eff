------------------------- MODULE DtpSegmentTracker -------------------------
(***************************************************************************)
(* The life of the list of received segments inside one client session:    *)
(* apm_on_start creates it, apm_on_data_packet feeds it one sequence       *)
(* number per packet, apm_on_end closes it, apm_on_release frees it        *)
(* (src/src/dtp_client_posix_session_hooks.c).  Between its end and its    *)
(* release the session may be started again (dtp_start_transfer on a       *)
(* session that was interrupted): apm_on_start then keeps the list.        *)
(*                                                                         *)
(* Packets arrive in ANY order and number: the data port is connectionless *)
(* and the receive loop filters nothing but an immediate repetition, so    *)
(* what is shown here does not rest on the order the link keeps.           *)
(***************************************************************************)
EXTENDS DtpSegments

CONSTANTS
    LastSeq,                \* highest sequence number of the payload
    MaxStarts               \* bound on the starts of one session

ASSUME LastSeqAssumption == LastSeq \in Nat

VARIABLES
    ctx,                    \* the segments_ctx_t of the session
    starts,                 \* history: how often the session was started
    phase,                  \* "open", "closed", or "faulted" (process died)
    rx,                     \* history: sequence numbers written to the output file
    ahead                   \* history: those that arrived above all earlier ones

trackerVars == <<ctx, phase, rx, ahead, starts>>

Seqs == 0..LastSeq

Phases == {"open", "closed", "faulted"}

\* Sequence numbers the list and the segment under construction claim.
Recorded == Cover(ctx.segments) \cup (ctx.cur.start .. ctx.cur.end)

----------------------------------------------------------------------------
TrackerInit ==
    /\ ctx = init_segments_ctx
    /\ phase = "open"
    /\ rx = {}
    /\ ahead = {}
    /\ starts = 1

CurIsNull == ctx.started /\ ctx.cur = NoSegment

\* What the memory of a freed node may hold.
AnyNode == {Segment(s, e) : s, e \in Seqs}

\* A call that leaves the list in state c.  From the moment the list holds a
\* freed node its contents are the allocator's, and the process may die of it.
Leaves(c, goes_on) ==
    /\ ctx' \in Readings(c, AnyNode)
    /\ phase' \in IF c.freed THEN {goes_on, "faulted"} ELSE {goes_on}

\* apm_on_data_packet: the packet is written to the file first, then recorded.
on_data_packet(p) ==
    /\ phase = "open"
    /\ ~CurIsNull
    /\ Leaves(update_segments(ctx, p, TRUE), "open")
    /\ rx' = rx \cup {p}
    /\ ahead' = IF \A q \in rx : q < p THEN ahead \cup {p} ELSE ahead
    /\ UNCHANGED starts

\* The same call when malloc fails.  The hook returns false, which
\* start_receiving_data only logs: the loop goes on.
on_data_packet_no_memory(p) ==
    /\ phase = "open"
    /\ ~CurIsNull
    /\ Allocates(ctx, p)
    /\ Leaves(update_segments(ctx, p, FALSE), "open")
    /\ rx' = rx \cup {p}
    /\ UNCHANGED <<ahead, starts>>

\* ... and the next packet dereferences the NULL cur_segment.
on_data_packet_null(p) ==
    /\ phase = "open"
    /\ CurIsNull
    /\ rx' = rx \cup {p}
    /\ phase' = "faulted"
    /\ UNCHANGED <<ctx, ahead, starts>>

\* mutant: the list is closed once more before it is walked.
on_end_twice ==
    /\ phase = "open"
    /\ Leaves(close_segments(close_segments(ctx)), "closed")
    /\ UNCHANGED <<rx, ahead, starts>>

\* apm_on_end, the part that closes the list and walks it.
on_end ==
    /\ phase = "open"
    /\ Leaves(close_segments(ctx), "closed")
    /\ UNCHANGED <<rx, ahead, starts>>

\* dtp_start_transfer again before the session is released: apm_on_start finds
\* the hook context and keeps its list, with cur_segment at the tail node.
on_start_again ==
    /\ phase = "closed"
    /\ starts < MaxStarts
    /\ phase' = "open"
    /\ starts' = starts + 1
    /\ UNCHANGED <<ctx, rx, ahead>>

\* apm_on_release and the next session's apm_on_start; after a fault, the
\* restarted process begins from a fresh list too.
on_release ==
    /\ phase \in {"closed", "faulted"}
    /\ ctx' = init_segments_ctx
    /\ phase' = "open"
    /\ rx' = {}
    /\ ahead' = {}
    /\ starts' = 1

TrackerNext ==
    \/ \E p \in Seqs : \/ on_data_packet(p)
                       \/ on_data_packet_no_memory(p)
                       \/ on_data_packet_null(p)
    \/ on_end
    \/ on_start_again
    \/ on_release

TrackerSpec == TrackerInit /\ [][TrackerNext]_trackerVars

----------------------------------------------------------------------------
(* Properties                                                              *)

\* The list, its count, its flags and the histories keep their types.
TrackerTypeOK ==
    /\ ctx \in SegmentsCtx
    /\ phase \in Phases
    /\ rx \subseteq Seqs
    /\ ahead \subseteq Seqs
    /\ starts \in Nat

\* The list is ascending with a gap between neighbours, and counted.
NodesSeparated ==
    /\ Separated(ctx.segments)
    /\ ctx.nof = Len(ctx.segments)
    /\ ctx.cur # NoSegment /\ ~ctx.linked =>
           \A i \in DOMAIN ctx.segments : ctx.segments[i].end + 1 < ctx.cur.start

\* Whatever the arrival order, whichever malloc fails and however often the
\* session is started again, append_segment leaves an ascending list with a gap
\* between neighbours, and nof_segments counts its nodes, as long as no node the
\* list holds was freed: this is what get_complement_segment and merge_segments
\* silently rely on.
ListWellFormed == ~ctx.freed => NodesSeparated

\* append_segment frees a node the list still holds only in a session that was
\* started again: its end linked cur_segment as the tail node, which the next
\* append takes for a second segment that overlaps the tail.
FreedByRestartOnly == ctx.freed => starts > 1

\* The list claims exactly the packets that arrived above every earlier one:
\* a packet that arrives late (below the segment under construction) is
\* written to the file and forgotten, and nothing that was not received is
\* ever claimed, also across a second start, as long as no node was freed.
RecordsExactlyAhead == ~ctx.freed => Recorded = ahead
=============================================================================
