-------------------------- MODULE DtpSegmentLists --------------------------
(***************************************************************************)
(* get_complement_segment and merge_segments                               *)
(* (src/src/dtp_client_posix_segments_utils.c) as functions of whole       *)
(* lists, with memory for every node: recursive functions of the number of *)
(* turns their loops have made.  DtpResumeLists has the turns as steps.    *)
(***************************************************************************)
EXTENDS DtpSegments

get_complement_segment(ctx, start, end) ==
    LET walk[n \in 0 .. Len(ctx.segments)] ==
            IF n = 0 THEN complement_start
            ELSE complement_node(walk[n - 1], ctx.segments[n], start, end)
    IN  complement_tail(walk[Len(ctx.segments)], end)

\* add_segment for every node of a list read from a file.
LoadSegments(segs) ==
    LET load[n \in 0 .. Len(segs)] ==
            IF n = 0 THEN init_segments_ctx
            ELSE add_segment(load[n - 1], segs[n].start, segs[n].end)
    IN  load[Len(segs)]

----------------------------------------------------------------------------
\* The locals of merge_segments.
merge_start == [iter_a |-> 1, iter_b |-> 1, res |-> init_segments_ctx]

\* The node of a is next: the smaller start, b on a tie.
TakesA(m, a, b) ==
    /\ m.iter_a <= Len(a)
    /\ m.iter_b <= Len(b) => a[m.iter_a].start < b[m.iter_b].start

\* The body of the loop: consume a node of a or of b.
merge_node(m, a, b) ==
    IF TakesA(m, a, b)
    THEN [m EXCEPT !.iter_a = @ + 1,
                   !.res = update_segments_range(@, a[m.iter_a].start, a[m.iter_a].end, TRUE)]
    ELSE [m EXCEPT !.iter_b = @ + 1,
                   !.res = update_segments_range(@, b[m.iter_b].start, b[m.iter_b].end, TRUE)]

merge_segments(a, b) ==
    LET turns == Len(a.segments) + Len(b.segments)
        merge[n \in 0 .. turns] ==
            IF n = 0 THEN merge_start
            ELSE merge_node(merge[n - 1], a.segments, b.segments)
    IN  close_segments(merge[turns].res)

----------------------------------------------------------------------------
(* For the proofs.                                                         *)

\* Segments with a number in them.
RealSegments == {s \in Segments : s.start <= s.end}

\* A list under construction: cur_segment is beyond it and not linked.
Building(c) ==
    /\ c \in SegmentsCtx
    /\ Separated(c.segments)
    /\ c.nof = Len(c.segments)
    /\ c.linked = FALSE /\ c.freed = FALSE
    /\ c.started = FALSE => c.segments = <<>> /\ c.cur = NoSegment
    /\ c.cur # NoSegment =>
          /\ c.cur \in RealSegments
          /\ \A i \in 1 .. Len(c.segments) : c.segments[i].end + 1 < c.cur.start

\* The numbers that the list and the segment under construction claim.
Claims(c) == Cover(c.segments) \cup (c.cur.start .. c.cur.end)
=============================================================================
