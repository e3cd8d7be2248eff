---------------------------- MODULE DtpSegments ----------------------------
(***************************************************************************)
(* The segment lists of the POSIX client                                   *)
(* (src/src/dtp_client_posix_segments_utils.c).                            *)
(*                                                                         *)
(* A segment is a closed interval of packet sequence numbers.  A           *)
(* segments_ctx_t owns a linked list of segments (here a sequence), the    *)
(* segment under construction cur_segment, a count and a started flag.     *)
(*                                                                         *)
(* Two facts about pointers matter and are kept: after an append the       *)
(* cur_segment pointer still points at the tail node of the list (linked), *)
(* and append_segment may free a node the list still holds (freed).        *)
(***************************************************************************)
EXTENDS Integers, Sequences

Segment(s, e) == [start |-> s, end |-> e]

\* The NULL cur_segment: no real segment ends before it starts.
NoSegment == Segment(1, 0)

\* What malloc returns for a new cur_segment.
malloc_segment(ok, s, e) == IF ok THEN Segment(s, e) ELSE NoSegment

init_segments_ctx ==
    [segments |-> <<>>, cur |-> NoSegment, nof |-> 0, started |-> FALSE,
     linked |-> FALSE, freed |-> FALSE]

----------------------------------------------------------------------------
(* append_segment: the first node cur overlaps in the ways the code tests  *)
(* absorbs it and cur is freed; otherwise cur becomes the tail node.       *)

StartsInside(cur, r) == r.start <= cur.start /\ cur.start <= r.end

Absorbs(r, cur) ==
    IF StartsInside(cur, r)
    THEN cur.end >= r.end
    ELSE cur.start <= r.start /\ cur.end >= r.start

Absorbed(r, cur) ==
    IF StartsInside(cur, r) THEN [r EXCEPT !.end = cur.end]
                            ELSE [r EXCEPT !.start = cur.start]

\* The index of the first node that absorbs cur, 0 if none does.
AbsorbedBy(ctx) ==
    LET nodes == {i \in DOMAIN ctx.segments : Absorbs(ctx.segments[i], ctx.cur)}
    IN  IF nodes = {} THEN 0 ELSE CHOOSE i \in nodes : \A j \in nodes : i <= j

append_segment(ctx) ==
    LET i == AbsorbedBy(ctx)
    IN  IF i = 0
        THEN [ctx EXCEPT !.segments = Append(@, ctx.cur),
                         !.nof = @ + 1,
                         !.linked = TRUE]
        ELSE [ctx EXCEPT !.segments = [ctx.segments EXCEPT ![i] = Absorbed(@, ctx.cur)],
                         !.cur = NoSegment,
                         !.linked = FALSE,
                         !.freed = @ \/ ctx.linked]

----------------------------------------------------------------------------
(* update_segments_range and update_segments.  ok is the outcome of the    *)
(* malloc on the two paths that allocate.                                  *)

Allocates(ctx, s) == ~ctx.started \/ ctx.cur.end + 1 < s

ExtendCur(ctx, e) ==
    [ctx EXCEPT !.cur.end = e,
                !.segments = IF ctx.linked
                             THEN [ctx.segments EXCEPT ![Len(ctx.segments)].end = e]
                             ELSE @]

\* mutant: a segment that only touches the current one starts a new node.
update_segments_range_touching(ctx, s, e, ok) ==
    IF ~ctx.started
    THEN [ctx EXCEPT !.nof = 0, !.started = TRUE,
                     !.cur = malloc_segment(ok, s, e), !.linked = FALSE]
    ELSE IF ctx.cur.end >= s
         THEN IF ctx.cur.end >= e THEN ctx ELSE ExtendCur(ctx, e)
         ELSE [append_segment(ctx) EXCEPT !.cur = malloc_segment(ok, s, e),
                                          !.linked = FALSE]

\* mutant: the end is overwritten even by a smaller one.
update_segments_range_shrinking(ctx, s, e, ok) ==
    IF ~ctx.started
    THEN [ctx EXCEPT !.nof = 0, !.started = TRUE,
                     !.cur = malloc_segment(ok, s, e), !.linked = FALSE]
    ELSE IF ctx.cur.end + 1 >= s
         THEN ExtendCur(ctx, e)
         ELSE [append_segment(ctx) EXCEPT !.cur = malloc_segment(ok, s, e),
                                          !.linked = FALSE]

update_segments_range(ctx, s, e, ok) ==
    IF ~ctx.started
    THEN [ctx EXCEPT !.nof = 0, !.started = TRUE,
                     !.cur = malloc_segment(ok, s, e), !.linked = FALSE]
    ELSE IF ctx.cur.end + 1 >= s
         THEN IF ctx.cur.end >= e THEN ctx ELSE ExtendCur(ctx, e)
         ELSE [append_segment(ctx) EXCEPT !.cur = malloc_segment(ok, s, e),
                                          !.linked = FALSE]

update_segments(ctx, received, ok) ==
    update_segments_range(ctx, received, received, ok)

close_segments(ctx) == IF ctx.cur # NoSegment THEN append_segment(ctx) ELSE ctx

\* The memory of a node that was freed while the list still holds it belongs to
\* the allocator: a walk over the list may find any of nodes in its place.
Readings(ctx, nodes) ==
    IF ctx.freed
    THEN {[ctx EXCEPT !.segments = [ctx.segments EXCEPT ![Len(ctx.segments)] = n]] : n \in nodes}
    ELSE {ctx}

----------------------------------------------------------------------------
(* The steps of get_complement_segment: it walks the list, emitting the    *)
(* gap before each node, then the tail gap.                                *)

\* mutant: a gap starts one packet late.
append_gap_late(complements, s, e) ==
    append_segment([complements EXCEPT !.cur = Segment(s + 1, e), !.linked = FALSE])

append_gap(complements, s, e) ==
    append_segment([complements EXCEPT !.cur = Segment(s, e), !.linked = FALSE])

\* The locals of the walk.
complement_start == [out |-> init_segments_ctx, seg_start |-> 0, seg_end |-> 0]

\* The body of the loop, for node r.
complement_node(walk, r, start, end) ==
    IF r.start = start /\ r.end + 1 < end
    THEN [walk EXCEPT !.seg_start = r.end + 1]
    ELSE IF r.start > 0 /\ walk.seg_start <= r.start - 1
         THEN [out |-> append_gap(walk.out, walk.seg_start, r.start - 1),
               seg_start |-> r.end + 1, seg_end |-> r.start - 1]
         ELSE walk

\* What follows the loop.
complement_tail(walk, end) ==
    IF walk.seg_start < end /\ walk.seg_end < walk.seg_start
    THEN append_gap(walk.out, walk.seg_start, end)
    ELSE walk.out

----------------------------------------------------------------------------
add_segment(ctx, s, e) ==
    [ctx EXCEPT !.segments = Append(@, Segment(s, e)), !.nof = @ + 1]

----------------------------------------------------------------------------
(* Reference vocabulary for the properties (no code behind it).            *)

Segments == [start : Nat, end : Nat]

SegmentsCtx == [segments : Seq(Segments), cur : Segments, nof : Nat,
                started : BOOLEAN, linked : BOOLEAN, freed : BOOLEAN]

\* The sequence numbers a list of segments claims.
Cover(segs) == UNION {segs[i].start .. segs[i].end : i \in DOMAIN segs}

\* A list is separated: ascending, with at least one number missing between
\* consecutive segments, so every maximal run of numbers is one node.
Separated(segs) ==
    /\ \A i \in DOMAIN segs : segs[i].start <= segs[i].end
    /\ \A i, j \in DOMAIN segs : i < j => segs[i].end + 1 < segs[j].start
=============================================================================
