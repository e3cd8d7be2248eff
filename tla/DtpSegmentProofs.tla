-------------------------- MODULE DtpSegmentProofs --------------------------
(***************************************************************************)
(* Proofs about lists of segments.  DtpSegmentTracker: the list of one     *)
(* session, for every payload and every order of arrival.  DtpResumeLists: *)
(* merge_segments and get_complement_segment, for lists of any length and  *)
(* any number of attempts.                                                 *)
(***************************************************************************)
EXTENDS DtpSegmentTracker, DtpResumeLists, DtpSegmentLemmas

----------------------------------------------------------------------------
(* One session.                                                            *)

\* The inductive invariant.  The link between the histories and the code's
\* state is Frontier: while a segment is under construction its end is the
\* highest sequence number received so far, so "above every earlier packet"
\* and "above cur_segment->end" are the same test.
Frontier ==
    ctx.cur # NoSegment => /\ ctx.cur \in RealSegments
                           /\ \A q \in rx : q <= ctx.cur.end
                           /\ ctx.cur.end \in rx

Blank ==
    ~ctx.started => /\ ctx.segments = <<>>
                    /\ ctx.cur = NoSegment
                    /\ ctx.nof = 0
                    /\ rx = {}

\* A cur_segment that is linked is the tail node itself.
TailIsCur ==
    ctx.linked => /\ ctx.cur # NoSegment
                  /\ Len(ctx.segments) > 0
                  /\ ctx.segments[Len(ctx.segments)] = ctx.cur

\* What holds until a node is freed.
Sound == NodesSeparated /\ Recorded = ahead /\ Frontier /\ Blank /\ TailIsCur

IInv ==
    /\ TrackerTypeOK
    /\ ctx.freed = FALSE => Sound
    /\ starts >= 1
    /\ ctx.freed # FALSE => starts > 1
    /\ phase = "open" /\ ctx.linked # FALSE => starts > 1

----------------------------------------------------------------------------
(* What any call keeps, also on a list that holds a freed node.            *)

\* The node that absorbs cur is a node of the list, and there is one if cur is
\* itself the tail node.
LEMMA AbsorbedByNode ==
    ASSUME NEW c \in SegmentsCtx
    PROVE  /\ AbsorbedBy(c) \in 0 .. Len(c.segments)
           /\ \A k \in 1 .. Len(c.segments) : Absorbs(c.segments[k], c.cur) => AbsorbedBy(c) # 0
  <1> DEFINE nodes == {i \in DOMAIN c.segments : Absorbs(c.segments[i], c.cur)}
  <1>1. DOMAIN c.segments = 1 .. Len(c.segments) /\ Len(c.segments) \in Nat
    BY DEF SegmentsCtx
  <1>2. CASE nodes = {}
    <2>1. AbsorbedBy(c) = 0
      BY <1>2 DEF AbsorbedBy
    <2>2. \A k \in 1 .. Len(c.segments) : ~Absorbs(c.segments[k], c.cur)
      BY <1>1, <1>2
    <2> QED BY <1>1, <2>1, <2>2
  <1>3. CASE nodes # {}
    <2>1. nodes \in SUBSET Nat
      BY <1>1
    <2>2. \E i \in nodes : \A j \in nodes : i <= j
      <3> HIDE DEF nodes
      <3> QED BY <1>3, <2>1, LeastNatural, Zenon
    <2>3. AbsorbedBy(c) \in nodes
      BY <1>3, <2>2, Zenon DEF AbsorbedBy
    <2> QED BY <1>1, <2>3
  <1> QED BY <1>2, <1>3

\* append_segment keeps the types and forgets no freed node.
LEMMA AppendTypes ==
    ASSUME NEW c \in SegmentsCtx
    PROVE  /\ append_segment(c) \in SegmentsCtx
           /\ append_segment(c).freed = (c.freed \/ (AbsorbedBy(c) # 0 /\ c.linked))
  <1> DEFINE i == AbsorbedBy(c)
  <1>1. /\ c.segments \in Seq(Segments) /\ c.cur \in Segments /\ c.nof \in Nat
        /\ c.linked \in BOOLEAN /\ c.freed \in BOOLEAN /\ i \in 0 .. Len(c.segments)
    BY AbsorbedByNode DEF SegmentsCtx
  <1>2. CASE i = 0
    <2> DEFINE t == Append(c.segments, c.cur)
               n == c.nof + 1
    <2>1. append_segment(c) = [c EXCEPT !.segments = t, !.nof = n, !.linked = TRUE]
      BY <1>2, Zenon DEF append_segment
    <2>2. t \in Seq(Segments) /\ n \in Nat
      BY <1>1
    <2> HIDE DEF t, n
    <2>3. append_segment(c) \in SegmentsCtx /\ append_segment(c).freed = c.freed
      BY <2>1, <2>2, Zenon DEF SegmentsCtx
    <2> QED BY <1>2, <2>3, <1>1, Zenon
  <1>3. CASE i # 0
    <2> DEFINE r == Absorbed(c.segments[i], c.cur)
               t == [c.segments EXCEPT ![i] = r]
               f == c.freed \/ c.linked
    <2>1. append_segment(c) = [c EXCEPT !.segments = t, !.cur = NoSegment, !.linked = FALSE, !.freed = f]
      <3> DEFINE b == [c EXCEPT !.segments = t, !.cur = NoSegment, !.linked = FALSE]
      <3>1. append_segment(c) = [b EXCEPT !.freed = b.freed \/ c.linked]
        BY <1>3, Zenon DEF append_segment
      <3>2. b.freed = c.freed
        BY Zenon DEF SegmentsCtx
      <3> QED BY <3>1, <3>2, Zenon
    <2>2. i \in 1 .. Len(c.segments) /\ c.segments[i] \in Segments
      BY <1>1, <1>3
    <2>3. r \in Segments
      BY <1>1, <2>2, Zenon DEF Absorbed, Segments
    <2> HIDE DEF r, i
    <2>4. t \in Seq(Segments)
      BY <1>1, <2>2, <2>3
    <2>5. f \in BOOLEAN /\ NoSegment \in Segments
      BY <1>1 DEF NoSegment, Segment, Segments
    <2> HIDE DEF t, f
    <2>6. append_segment(c) \in SegmentsCtx /\ append_segment(c).freed = f
      BY <2>1, <2>4, <2>5, Zenon DEF SegmentsCtx
    <2> QED BY <1>3, <2>6, <1>1, Zenon DEF f, i
  <1> QED BY <1>2, <1>3, Zenon

\* A list with another tail node is a list.
LEMMA TailTypes ==
    ASSUME NEW segs \in Seq(Segments), NEW n, Len(segs) # 0 => n \in Segments
    PROVE  [segs EXCEPT ![Len(segs)] = n] \in Seq(Segments)
  <1>1. CASE Len(segs) # 0
    BY <1>1
  <1>2. CASE Len(segs) = 0
    <2>1. DOMAIN segs = {} /\ segs = <<>>
      BY <1>2
    <2>2. [segs EXCEPT ![Len(segs)] = n] = [i \in DOMAIN segs |-> IF i = Len(segs) THEN n ELSE segs[i]]
      BY Zenon
    <2>3. [i \in DOMAIN segs |-> IF i = Len(segs) THEN n ELSE segs[i]] = [i \in {} |-> segs[i]]
      BY <2>1
    <2>4. segs = [i \in DOMAIN segs |-> segs[i]]
      BY <2>1
    <2> QED BY <2>1, <2>2, <2>3, <2>4, Zenon
  <1> QED BY <1>1, <1>2

\* update_segments keeps the types and forgets no freed node.
LEMMA UpdateTypes ==
    ASSUME NEW c \in SegmentsCtx, NEW p \in Nat, NEW ok \in BOOLEAN
    PROVE  /\ update_segments(c, p, ok) \in SegmentsCtx
           /\ c.freed => update_segments(c, p, ok).freed
  <1> DEFINE X == malloc_segment(ok, p, p)
             d == update_segments(c, p, ok)
  <1>1. /\ c.segments \in Seq(Segments) /\ c.cur \in Segments /\ c.nof \in Nat
        /\ c.linked \in BOOLEAN /\ c.freed \in BOOLEAN /\ c.started \in BOOLEAN
    BY DEF SegmentsCtx
  <1>2. X \in Segments
    BY DEF malloc_segment, NoSegment, Segment, Segments
  <1>3. \/ d = [c EXCEPT !.nof = 0, !.started = TRUE, !.cur = X, !.linked = FALSE]
        \/ d = c
        \/ d = ExtendCur(c, p)
        \/ d = [append_segment(c) EXCEPT !.cur = X, !.linked = FALSE]
    BY Zenon DEF update_segments, update_segments_range
  <1> HIDE DEF X, d
  <1>4. CASE d = [c EXCEPT !.nof = 0, !.started = TRUE, !.cur = X, !.linked = FALSE]
    <2>1. d \in SegmentsCtx /\ d.freed = c.freed
      BY <1>1, <1>2, <1>4, Zenon DEF SegmentsCtx
    <2> QED BY <2>1 DEF d
  <1>5. CASE d = c
    BY <1>5 DEF d
  <1>6. CASE d = ExtendCur(c, p)
    <2> DEFINE Y == [c.cur EXCEPT !.end = p]
               n == [c.segments[Len(c.segments)] EXCEPT !.end = p]
               t == IF c.linked THEN [c.segments EXCEPT ![Len(c.segments)] = n] ELSE c.segments
    <2>1. Y \in Segments
      BY <1>1, SMTT(30) DEF Segments
    <2>2. t \in Seq(Segments)
      <3>1. Len(c.segments) # 0 => n \in Segments
        <4> HAVE Len(c.segments) # 0
        <4>1. c.segments[Len(c.segments)] \in Segments
          BY <1>1
        <4> QED BY <4>1 DEF Segments
      <3> HIDE DEF n
      <3> QED BY <1>1, <3>1, TailTypes
    <2>3. d = [c EXCEPT !.cur = Y, !.segments = t]
      BY <1>6, Zenon DEF ExtendCur
    <2> HIDE DEF Y, t
    <2>4. d \in SegmentsCtx /\ d.freed = c.freed
      BY <2>1, <2>2, <2>3, Zenon DEF SegmentsCtx
    <2> QED BY <2>4 DEF d
  <1>7. CASE d = [append_segment(c) EXCEPT !.cur = X, !.linked = FALSE]
    <2> DEFINE a == append_segment(c)
    <2>1. a \in SegmentsCtx /\ (c.freed => a.freed)
      BY AppendTypes, Zenon
    <2> HIDE DEF a
    <2>2. d \in SegmentsCtx /\ d.freed = a.freed
      BY <1>2, <1>7, <2>1, Zenon DEF SegmentsCtx, a
    <2> QED BY <2>1, <2>2, Zenon DEF d
  <1> QED BY <1>3, <1>4, <1>5, <1>6, <1>7, Zenon

\* close_segments keeps the types and forgets no freed node.
LEMMA CloseTypes ==
    ASSUME NEW c \in SegmentsCtx
    PROVE  close_segments(c) \in SegmentsCtx /\ (c.freed => close_segments(c).freed)
  BY AppendTypes, Zenon DEF close_segments

\* A call that leaves no freed node leaves the list as it is.
LEMMA LeavesSound ==
    ASSUME NEW c, NEW g, Leaves(c, g), c.freed = FALSE
    PROVE  ctx' = c /\ phase' = g
  BY DEF Leaves, Readings

\* A call that leaves a freed node leaves a list of the right type.
LEMMA LeavesFreed ==
    ASSUME NEW c \in SegmentsCtx, NEW g \in Phases, Leaves(c, g), c.freed
    PROVE  ctx' \in SegmentsCtx /\ ctx'.freed = TRUE /\ phase' \in Phases
  <1>1. phase' \in Phases
    BY DEF Leaves, Phases
  <1>2. PICK n \in AnyNode : ctx' = [c EXCEPT !.segments = [c.segments EXCEPT ![Len(c.segments)] = n]]
    BY Zenon DEF Leaves, Readings
  <1>3. n \in Segments
    BY LastSeqAssumption DEF AnyNode, Seqs, Segment, Segments
  <1> DEFINE t == [c.segments EXCEPT ![Len(c.segments)] = n]
  <1>4. t \in Seq(Segments)
    BY <1>3, TailTypes DEF SegmentsCtx
  <1>5. c.freed = TRUE
    BY DEF SegmentsCtx
  <1> HIDE DEF t
  <1>6. ctx' = [c EXCEPT !.segments = t]
    BY <1>2, Zenon DEF t
  <1>7. ctx' \in SegmentsCtx /\ ctx'.freed = TRUE
    BY <1>4, <1>5, <1>6, Zenon DEF SegmentsCtx
  <1> QED BY <1>1, <1>7

\* Once a node is freed the invariant only asks for types.
LEMMA FreedStep ==
    ASSUME IInv, starts > 1, starts' = starts, rx' \subseteq Seqs, ahead' \subseteq Seqs,
           NEW c \in SegmentsCtx, NEW g \in Phases, Leaves(c, g), c.freed
    PROVE  IInv'
  <1>1. ctx' \in SegmentsCtx /\ ctx'.freed = TRUE /\ phase' \in Phases
    BY LeavesFreed, Zenon
  <1>2. TrackerTypeOK'
    BY <1>1, Zenon DEF TrackerTypeOK, IInv
  <1> QED BY <1>1, <1>2, Zenon DEF IInv

----------------------------------------------------------------------------
\* In a state of the invariant with a segment under construction that is not
\* yet linked, append_segment appends it.
LEMMA AppendCur ==
    ASSUME TrackerTypeOK, Sound, ctx.cur # NoSegment, ~ctx.linked
    PROVE  /\ append_segment(ctx) = [ctx EXCEPT !.segments = Append(@, ctx.cur),
                                                !.nof = @ + 1,
                                                !.linked = TRUE]
           /\ Append(ctx.segments, ctx.cur) \in Seq(Segments)
           /\ Len(Append(ctx.segments, ctx.cur)) = Len(ctx.segments) + 1
           /\ Separated(Append(ctx.segments, ctx.cur))
           /\ Cover(Append(ctx.segments, ctx.cur)) = Recorded
  <1>1. /\ ctx \in SegmentsCtx /\ ctx.segments \in Seq(Segments)
        /\ ctx.cur \in RealSegments /\ ctx.cur \in Segments
        /\ DOMAIN ctx.segments = 1..Len(ctx.segments)
    BY DEF Sound, TrackerTypeOK, SegmentsCtx, Frontier, RealSegments
  <1>2. /\ Separated(ctx.segments)
        /\ \A i \in 1..Len(ctx.segments) : ctx.segments[i].end + 1 < ctx.cur.start
    BY <1>1 DEF Sound, NodesSeparated
  <1>3. \A i \in 1..Len(ctx.segments) : /\ ctx.segments[i].start <= ctx.segments[i].end
                                        /\ ctx.segments[i].end < ctx.cur.start
    <2> TAKE i \in 1..Len(ctx.segments)
    <2>1. ctx.segments[i] \in Segments
      BY <1>1
    <2>2. ctx.segments[i].end \in Nat /\ ctx.cur.start \in Nat
      BY <1>1, <2>1, SMTT(30) DEF Segments
    <2>3. ctx.segments[i].start <= ctx.segments[i].end
      BY <1>1, <1>2 DEF Separated
    <2> QED BY <1>2, <2>2, <2>3
  <1>4. Separated(Append(ctx.segments, ctx.cur))
    BY <1>1, <1>2, SeparatedAppend
  <1>5. Cover(Append(ctx.segments, ctx.cur)) = Recorded
    BY <1>1, CoverAppend DEF Recorded
  <1>6. append_segment(ctx) = [ctx EXCEPT !.segments = Append(@, ctx.cur),
                                          !.nof = @ + 1,
                                          !.linked = TRUE]
    BY <1>1, <1>3, AppendBeyond, Zenon
  <1>7. /\ Append(ctx.segments, ctx.cur) \in Seq(Segments)
        /\ Len(Append(ctx.segments, ctx.cur)) = Len(ctx.segments) + 1
    BY <1>1
  <1> QED BY <1>4, <1>5, <1>6, <1>7, Zenon

\* The facts every step of the invariance proof starts from.
LEMMA CtxFacts ==
    ASSUME TrackerTypeOK
    PROVE  /\ ctx \in SegmentsCtx /\ ctx.segments \in Seq(Segments)
           /\ ctx.cur \in Segments /\ ctx.cur.start \in Nat /\ ctx.cur.end \in Nat
           /\ ctx.nof \in Nat /\ ctx.started \in BOOLEAN
           /\ ctx.linked \in BOOLEAN /\ ctx.freed \in BOOLEAN
           /\ Len(ctx.segments) \in Nat
  <1>1. /\ ctx \in SegmentsCtx /\ ctx.segments \in Seq(Segments) /\ ctx.cur \in Segments
        /\ ctx.nof \in Nat /\ ctx.started \in BOOLEAN
        /\ ctx.linked \in BOOLEAN /\ ctx.freed \in BOOLEAN
    BY DEF TrackerTypeOK, SegmentsCtx
  <1>2. Len(ctx.segments) \in Nat
    BY <1>1
  <1>3. ctx.cur.start \in Nat /\ ctx.cur.end \in Nat
    BY <1>1 DEF Segments
  <1> QED BY <1>1, <1>2, <1>3

\* The empty list of a new session is in the invariant.
LEMMA InitInv == TrackerInit => IInv
  <1> SUFFICES ASSUME TrackerInit PROVE IInv
    OBVIOUS
  <1> USE DEF TrackerInit
  <1>1. NoSegment \in Segments /\ <<>> \in Seq(Segments)
    BY DEF NoSegment, Segment, Segments
  <1>2. /\ ctx.segments = <<>> /\ ctx.cur = NoSegment /\ ctx.nof = 0
        /\ ctx.started = FALSE /\ ctx.linked = FALSE /\ ctx.freed = FALSE
    BY DEF init_segments_ctx
  <1>3. ctx \in SegmentsCtx
    BY <1>1 DEF init_segments_ctx, SegmentsCtx
  <1>4. TrackerTypeOK
    BY <1>3 DEF TrackerTypeOK, Phases, Seqs
  <1>5. Separated(<<>>) /\ Len(<<>>) = 0
    BY DEF Separated
  <1>6. Cover(<<>>) = {}
    BY DEF Cover
  <1>7. NoSegment.start .. NoSegment.end = {}
    BY DEF NoSegment, Segment
  <1>8. NodesSeparated
    BY <1>2, <1>5 DEF NodesSeparated
  <1>9. Recorded = ahead
    BY <1>2, <1>6, <1>7, Zenon DEF Recorded
  <1>10. Sound
    BY <1>2, <1>8, <1>9 DEF Sound, Frontier, Blank, TailIsCur
  <1>11. starts >= 1 /\ ctx.freed = FALSE /\ ctx.linked = FALSE
    BY <1>2
  <1> HIDE DEF TrackerInit
  <1> QED BY <1>4, <1>10, <1>11, Zenon DEF IInv

\* A step that frees nothing and keeps the list sound keeps the invariant.
LEMMA SoundStep ==
    ASSUME IInv, ctx' \in SegmentsCtx, ctx'.freed = FALSE, phase' \in Phases, rx' \subseteq Seqs,
           ahead' \subseteq Seqs, starts' = starts, Sound',
           phase' = "open" /\ ctx'.linked # FALSE => starts > 1
    PROVE  IInv'
  <1>1. TrackerTypeOK'
    BY Zenon DEF TrackerTypeOK, IInv
  <1> QED BY <1>1, Zenon DEF IInv

\* append_segment of the tail node to its own list frees it.
LEMMA LinkedFrees ==
    ASSUME TrackerTypeOK, Sound, ctx.linked
    PROVE  append_segment(ctx).freed
  <1> DEFINE k == Len(ctx.segments)
  <1>1. /\ ctx \in SegmentsCtx /\ k \in 1 .. k /\ ctx.segments[k] = ctx.cur /\ ctx.cur \in RealSegments
    BY CtxFacts DEF Sound, TailIsCur, Frontier
  <1>2. Absorbs(ctx.cur, ctx.cur)
    BY <1>1 DEF Absorbs, StartsInside, RealSegments, Segments
  <1>3. AbsorbedBy(ctx) # 0
    BY <1>1, <1>2, AbsorbedByNode, Zenon
  <1> QED BY <1>1, <1>3, AppendTypes, Zenon

\* Closing the list links the segment under construction; what is claimed
\* does not change.
LEMMA EndStep == ASSUME IInv, on_end PROVE IInv'
  <1> DEFINE c == close_segments(ctx)
  <1>1. /\ ctx \in SegmentsCtx /\ Leaves(c, "closed") /\ rx' = rx /\ ahead' = ahead /\ starts' = starts
        /\ rx \subseteq Seqs /\ ahead \subseteq Seqs /\ phase = "open" /\ TrackerTypeOK
        /\ "closed" \in Phases
    BY DEF on_end, IInv, TrackerTypeOK, Phases
  <1>2. c \in SegmentsCtx /\ (ctx.freed => c.freed)
    BY <1>1, CloseTypes, Zenon
  <1>3. CASE ctx.freed # FALSE
    <2>1. ctx.freed /\ starts > 1
      BY <1>1, <1>3, CtxFacts, Zenon DEF IInv
    <2> QED BY <1>1, <1>2, <2>1, FreedStep, Zenon
  <1>4. CASE ctx.freed = FALSE /\ ctx.linked # FALSE
    <2>1. Sound /\ ctx.linked /\ starts > 1
      BY <1>1, <1>4, CtxFacts, Zenon DEF IInv
    <2>2. c.freed
      BY <1>1, <2>1, LinkedFrees, Zenon DEF close_segments, Sound, TailIsCur
    <2> QED BY <1>1, <1>2, <2>1, <2>2, FreedStep, Zenon
  <1>5. CASE ctx.freed = FALSE /\ ctx.linked = FALSE /\ ctx.cur = NoSegment
    <2>1. c = ctx /\ Sound
      BY <1>5 DEF close_segments, IInv
    <2>2. ctx' = ctx /\ phase' = "closed"
      BY <1>1, <1>5, <2>1, LeavesSound, Zenon
    <2>3. Sound'
      BY <1>1, <2>1, <2>2 DEF Sound, NodesSeparated, Recorded, Frontier, Blank, TailIsCur
    <2> QED BY <1>1, <1>5, <2>2, <2>3, SoundStep, Zenon
  <1>6. CASE ctx.freed = FALSE /\ ctx.linked = FALSE /\ ctx.cur # NoSegment
    <2> DEFINE t == Append(ctx.segments, ctx.cur)
               n == ctx.nof + 1
    <2>1. Sound /\ ~ctx.linked
      BY <1>6 DEF IInv
    <2>2. /\ c = [ctx EXCEPT !.segments = t, !.nof = n, !.linked = TRUE]
          /\ t \in Seq(Segments) /\ Len(t) = Len(ctx.segments) + 1
          /\ Separated(t) /\ Cover(t) = Recorded
      BY <1>1, <1>6, <2>1, AppendCur, Zenon DEF close_segments
    <2>3. ctx.nof \in Nat /\ ctx.nof = Len(ctx.segments) /\ ctx.started
      BY <1>1, <1>6, <2>1, CtxFacts DEF Sound, NodesSeparated, Blank
    <2>4. n \in Nat /\ n = Len(t) /\ Len(t) > 0 /\ t[Len(t)] = ctx.cur
      BY <1>1, <2>2, <2>3, CtxFacts
    <2> HIDE DEF t, n, c
    <2>5. /\ c.segments = t /\ c.nof = n /\ c.linked = TRUE /\ c.cur = ctx.cur
          /\ c.started = ctx.started /\ c.freed = FALSE
      BY <1>1, <1>6, <2>2, Zenon DEF SegmentsCtx
    <2>6. ctx' = c /\ phase' = "closed"
      BY <1>1, <2>5, LeavesSound, Zenon
    <2>7. NodesSeparated'
      BY <2>2, <2>4, <2>5, <2>6 DEF NodesSeparated
    <2>8. (Recorded = ahead)'
      BY <1>1, <2>1, <2>2, <2>5, <2>6, Zenon DEF Sound, Recorded
    <2>9. Frontier' /\ Blank' /\ TailIsCur'
      BY <1>1, <1>6, <2>1, <2>3, <2>4, <2>5, <2>6, Zenon DEF Sound, Frontier, Blank, TailIsCur
    <2>10. Sound'
      BY <2>7, <2>8, <2>9 DEF Sound
    <2> QED BY <1>1, <1>2, <2>5, <2>6, <2>10, SoundStep, Zenon
  <1> QED BY <1>3, <1>4, <1>5, <1>6, Zenon

\* A second start keeps the list.
LEMMA StartAgainStep == ASSUME IInv, on_start_again PROVE IInv'
  <1>1. /\ ctx' = ctx /\ rx' = rx /\ ahead' = ahead /\ phase' = "open" /\ starts' = starts + 1
        /\ starts \in Nat /\ starts >= 1
    BY DEF on_start_again, IInv, TrackerTypeOK
  <1>2. starts' \in Nat /\ starts' > 1
    BY <1>1
  <1>3. TrackerTypeOK'
    BY <1>1, <1>2 DEF IInv, TrackerTypeOK, Phases
  <1>4. ctx.freed = FALSE => Sound'
    BY <1>1 DEF IInv, Sound, NodesSeparated, Recorded, Frontier, Blank, TailIsCur
  <1>5. (ctx.freed = FALSE => Sound)'
    BY <1>1, <1>4, Zenon
  <1>6. (starts >= 1)'
    BY <1>2
  <1> QED BY <1>2, <1>3, <1>5, <1>6, Zenon DEF IInv

\* The first packet of a session starts the first segment.
LEMMA FirstPacket ==
    ASSUME TrackerTypeOK, Sound, NEW p \in Seqs, on_data_packet(p), ctx.freed = FALSE, ~ctx.started
    PROVE  Sound' /\ ctx'.freed = FALSE /\ ctx'.linked = FALSE /\ phase' = "open"
  <1>1. /\ ctx \in SegmentsCtx /\ ctx.segments = <<>> /\ ctx.cur = NoSegment
        /\ rx = {} /\ p \in Nat
    BY CtxFacts, LastSeqAssumption DEF Sound, Blank, Seqs
  <1>2. ahead = {}
    <2>1. Cover(<<>>) = {} /\ NoSegment.start .. NoSegment.end = {}
      BY DEF Cover, NoSegment, Segment
    <2> QED BY <1>1, <2>1, Zenon DEF Sound, Recorded
  <1> DEFINE c == update_segments(ctx, p, TRUE)
  <1>3. /\ c = [ctx EXCEPT !.nof = 0, !.started = TRUE, !.cur = Segment(p, p), !.linked = FALSE]
        /\ rx' = {p} /\ ahead' = {p} /\ Leaves(c, "open")
    BY <1>1, <1>2 DEF on_data_packet, update_segments, update_segments_range, malloc_segment
  <1> HIDE DEF c
  <1>4. /\ c.segments = <<>> /\ c.nof = 0 /\ c.linked = FALSE /\ c.started = TRUE
        /\ c.cur = Segment(p, p) /\ c.freed = FALSE
    BY <1>1, <1>3, Zenon DEF SegmentsCtx
  <1>5. ctx' = c /\ phase' = "open"
    BY <1>3, <1>4, LeavesSound, Zenon
  <1>6. NodesSeparated'
    BY <1>4, <1>5 DEF NodesSeparated, Separated
  <1>7. (Recorded = ahead)'
    <2>1. Cover(<<>>) = {} /\ Segment(p, p).start .. Segment(p, p).end = {p}
      BY <1>1 DEF Cover, Segment
    <2> QED BY <1>3, <1>4, <1>5, <2>1, Zenon DEF Recorded
  <1>8. Frontier'
    BY <1>1, <1>3, <1>4, <1>5 DEF Frontier, RealSegments, Segments, Segment
  <1>9. Blank' /\ TailIsCur'
    BY <1>4, <1>5 DEF Blank, TailIsCur
  <1> QED BY <1>4, <1>5, <1>6, <1>7, <1>8, <1>9 DEF Sound

\* What a packet finds when a segment is under construction.
LEMMA PacketFacts ==
    ASSUME TrackerTypeOK, Sound, ctx.freed = FALSE, ctx.started, ~CurIsNull, NEW p \in Seqs
    PROVE  /\ ctx \in SegmentsCtx /\ ctx.segments \in Seq(Segments) /\ ctx.nof = Len(ctx.segments)
           /\ ctx.cur \in Segments /\ ctx.cur \in RealSegments /\ ctx.cur # NoSegment
           /\ ctx.cur.start \in Nat /\ ctx.cur.end \in Nat /\ p \in Nat
           /\ ctx.cur.start <= ctx.cur.end
           /\ (\A q \in rx : q <= ctx.cur.end) /\ ctx.cur.end \in rx
           /\ rx \subseteq Nat /\ rx \subseteq Seqs /\ ctx.started = TRUE
  <1>1. ctx.cur # NoSegment /\ rx \subseteq Seqs /\ ctx.started = TRUE
    BY CtxFacts DEF CurIsNull, TrackerTypeOK
  <1>2. rx \subseteq Nat /\ p \in Nat
    BY <1>1, LastSeqAssumption DEF Seqs
  <1>3. /\ ctx.cur \in RealSegments /\ (\A q \in rx : q <= ctx.cur.end) /\ ctx.cur.end \in rx
        /\ ctx.nof = Len(ctx.segments)
    BY <1>1, Zenon DEF Sound, Frontier, NodesSeparated
  <1> QED BY <1>1, <1>2, <1>3, CtxFacts DEF RealSegments

\* A packet at or below the end of the segment under construction changes
\* nothing.
LEMMA OldPacket ==
    ASSUME TrackerTypeOK, Sound, NEW p \in Seqs, on_data_packet(p), ctx.freed = FALSE, ctx.started,
           ctx.cur.end >= p
    PROVE  Sound' /\ ctx' = ctx /\ phase' = "open"
  <1>1. /\ (\A q \in rx : q <= ctx.cur.end) /\ ctx.cur.end \in rx /\ ctx.cur.end \in Nat /\ p \in Nat
        /\ rx \subseteq Nat
    BY PacketFacts, Zenon DEF on_data_packet
  <1>2. update_segments(ctx, p, TRUE) = ctx
    BY <1>1 DEF update_segments, update_segments_range
  <1>3. ctx' = ctx /\ phase' = "open" /\ rx' = rx \cup {p}
    BY <1>2, LeavesSound, Zenon DEF on_data_packet
  <1>4. ahead' = ahead
    BY <1>1 DEF on_data_packet
  <1>5. NodesSeparated' /\ (Recorded = ahead)'
    BY <1>3, <1>4, Zenon DEF Sound, NodesSeparated, Recorded
  <1>6. Frontier' /\ Blank' /\ TailIsCur'
    BY <1>1, <1>3 DEF Sound, Frontier, Blank, TailIsCur
  <1> QED BY <1>3, <1>5, <1>6 DEF Sound

\* The end of the segment under construction moves to p, in the tail node too
\* if that is the same object.
LEMMA ExtendedList ==
    ASSUME TrackerTypeOK, Sound, ctx.freed = FALSE, ctx.cur # NoSegment, NEW p \in Nat, p = ctx.cur.end + 1
    PROVE  LET c == ExtendCur(ctx, p) IN
           /\ c.cur = [ctx.cur EXCEPT !.end = p] /\ c.nof = ctx.nof /\ c.started = ctx.started
           /\ c.linked = ctx.linked /\ c.freed = FALSE
           /\ Len(c.segments) = Len(ctx.segments) /\ c.segments \in Seq(Segments)
           /\ \A i \in 1 .. Len(ctx.segments) :
                c.segments[i] = IF ctx.linked /\ i = Len(ctx.segments) THEN c.cur ELSE ctx.segments[i]
  <1> DEFINE Y == [ctx.cur EXCEPT !.end = p]
             k == Len(ctx.segments)
             t == IF ctx.linked THEN [ctx.segments EXCEPT ![k] = [ctx.segments[k] EXCEPT !.end = p]]
                                ELSE ctx.segments
             c == ExtendCur(ctx, p)
  <1>1. ctx \in SegmentsCtx /\ ctx.segments \in Seq(Segments) /\ ctx.cur \in Segments
    BY CtxFacts
  <1>2. Y \in Segments
    BY <1>1 DEF Segments
  <1>3. c = [ctx EXCEPT !.cur = Y, !.segments = t]
    BY Zenon DEF ExtendCur
  <1>4. /\ Len(t) = k /\ t \in Seq(Segments)
        /\ \A i \in 1 .. k : t[i] = IF ctx.linked /\ i = k THEN Y ELSE ctx.segments[i]
    <2>1. CASE ~ctx.linked
      BY <1>1, <2>1
    <2>2. CASE ctx.linked
      <3>1. k > 0 /\ ctx.segments[k] = ctx.cur
        BY <2>2 DEF Sound, TailIsCur
      <3>2. t = [ctx.segments EXCEPT ![k] = Y]
        BY <2>2, <3>1
      <3> HIDE DEF Y, t
      <3> QED BY <1>1, <1>2, <2>2, <3>1, <3>2
    <2> QED BY <2>1, <2>2
  <1> HIDE DEF Y, t, c
  <1>5. /\ c.cur = Y /\ c.segments = t /\ c.nof = ctx.nof /\ c.started = ctx.started
        /\ c.linked = ctx.linked /\ c.freed = FALSE
    BY <1>1, <1>3, Zenon DEF SegmentsCtx
  <1>6. Len(c.segments) = k /\ c.segments \in Seq(Segments)
    BY <1>4, <1>5
  <1>7. \A i \in 1 .. k : c.segments[i] = IF ctx.linked /\ i = k THEN c.cur ELSE ctx.segments[i]
    BY <1>4, <1>5, Zenon
  <1> QED BY <1>5, <1>6, <1>7, Zenon DEF Y, c

\* A packet next to the segment under construction extends it.
LEMMA NextPacket ==
    ASSUME TrackerTypeOK, Sound, NEW p \in Seqs, on_data_packet(p), ctx.freed = FALSE, ctx.started,
           p = ctx.cur.end + 1
    PROVE  Sound' /\ ctx'.freed = FALSE /\ ctx'.linked = ctx.linked /\ phase' = "open"
  <1> DEFINE c == ExtendCur(ctx, p)
             k == Len(ctx.segments)
  <1>1. /\ ctx \in SegmentsCtx /\ ctx.segments \in Seq(Segments) /\ ctx.nof = k
        /\ ctx.cur \in Segments /\ ctx.cur \in RealSegments /\ ctx.cur # NoSegment
        /\ ctx.cur.start \in Nat /\ ctx.cur.end \in Nat /\ p \in Nat
        /\ ctx.cur.start <= ctx.cur.end
        /\ (\A q \in rx : q <= ctx.cur.end) /\ rx \subseteq Nat /\ ctx.started = TRUE
        /\ k \in Nat
    BY PacketFacts, CtxFacts, Zenon DEF on_data_packet
  <1>2. update_segments(ctx, p, TRUE) = c
    BY <1>1 DEF update_segments, update_segments_range
  <1>3. /\ c.cur = [ctx.cur EXCEPT !.end = p] /\ c.nof = ctx.nof /\ c.started = ctx.started
        /\ c.linked = ctx.linked /\ c.freed = FALSE
        /\ Len(c.segments) = k /\ c.segments \in Seq(Segments)
        /\ \A i \in 1 .. k :
             c.segments[i] = IF ctx.linked /\ i = k THEN c.cur ELSE ctx.segments[i]
    BY <1>1, ExtendedList, Zenon
  <1>4. Leaves(c, "open") /\ rx' = rx \cup {p} /\ ahead' = ahead \cup {p}
    <2>1. \A q \in rx : q < p
      BY <1>1
    <2> QED BY <1>2, <2>1, Zenon DEF on_data_packet
  <1> HIDE DEF c
  <1>5. ctx' = c /\ phase' = "open"
    BY <1>3, <1>4, LeavesSound, Zenon
  <1>6. /\ c.cur.start = ctx.cur.start /\ c.cur.end = p /\ c.cur \in RealSegments /\ c.cur # NoSegment
        /\ ctx.cur.start .. p = (ctx.cur.start .. ctx.cur.end) \cup {p}
    BY <1>1, <1>3 DEF Segments, RealSegments, NoSegment, Segment
  <1>7. /\ Separated(ctx.segments) /\ DOMAIN ctx.segments = 1 .. k /\ DOMAIN c.segments = 1 .. k
        /\ ctx.linked => k > 0 /\ ctx.segments[k] = ctx.cur
        /\ ~ctx.linked => \A i \in 1 .. k : ctx.segments[i].end + 1 < ctx.cur.start
    BY <1>1, <1>3 DEF Sound, NodesSeparated, TailIsCur
  <1>8. \A i \in 1 .. k : /\ c.segments[i].start = ctx.segments[i].start
                          /\ c.segments[i].end = IF ctx.linked /\ i = k THEN p ELSE ctx.segments[i].end
    BY <1>3, <1>6, <1>7, Zenon
  <1>9. Separated(c.segments)
    <2>1. \A i \in 1 .. k : c.segments[i].start <= c.segments[i].end
      <3> TAKE i \in 1 .. k
      <3>1. ctx.segments[i].start <= ctx.segments[i].end
        BY <1>7 DEF Separated
      <3>2. CASE ctx.linked /\ i = k
        <4>1. c.segments[i] = c.cur
          BY <1>3, <3>2
        <4> QED BY <1>6, <4>1 DEF RealSegments
      <3>3. CASE ~(ctx.linked /\ i = k)
        BY <1>3, <3>1, <3>3
      <3> QED BY <3>2, <3>3
    <2>2. ASSUME NEW i \in 1 .. k, NEW j \in 1 .. k, i < j
          PROVE  c.segments[i].end + 1 < c.segments[j].start
      <3>1. ctx.segments[i].end + 1 < ctx.segments[j].start /\ i # k
        <4>1. ctx.segments[i].end + 1 < ctx.segments[j].start
          BY <1>7, <2>2 DEF Separated
        <4>2. i # k
          BY <1>1, <2>2
        <4> QED BY <4>1, <4>2
      <3> QED BY <1>8, <3>1
    <2> QED BY <1>7, <2>1, <2>2 DEF Separated
  <1>10. NodesSeparated'
    <2>1. ~ctx.linked => \A i \in 1 .. k : c.segments[i].end + 1 < c.cur.start
      BY <1>6, <1>7, <1>8
    <2> QED BY <1>1, <1>3, <1>5, <1>7, <1>9, <2>1, Zenon DEF NodesSeparated
  <1>11. Cover(c.segments) \cup (c.cur.start .. c.cur.end) = Recorded \cup {p}
    <2>1. ASSUME NEW x PROVE x \in Cover(c.segments) \cup (c.cur.start .. c.cur.end) <=> x \in Recorded \cup {p}
      <3>1. x \in Cover(c.segments) <=> \E i \in 1 .. k : x \in c.segments[i].start .. c.segments[i].end
        BY <1>3, CoverMember
      <3>2. x \in Cover(ctx.segments) <=> \E i \in 1 .. k : x \in ctx.segments[i].start .. ctx.segments[i].end
        BY <1>1, CoverMember
      <3>3. \A i \in 1 .. k : x \in c.segments[i].start .. c.segments[i].end =>
                \/ x \in ctx.segments[i].start .. ctx.segments[i].end \/ x = p
        BY <1>6, <1>7, <1>8
      <3>4. \A i \in 1 .. k : x \in ctx.segments[i].start .. ctx.segments[i].end =>
                x \in c.segments[i].start .. c.segments[i].end
        BY <1>6, <1>7, <1>8
      <3>5. x \in c.cur.start .. c.cur.end <=> x \in ctx.cur.start .. ctx.cur.end \/ x = p
        BY <1>6
      <3> QED BY <3>1, <3>2, <3>3, <3>4, <3>5, Zenon DEF Recorded
    <2> QED BY <2>1
  <1>12. (Recorded = ahead)'
    BY <1>4, <1>5, <1>11, Zenon DEF Sound, Recorded
  <1>13. Frontier'
    BY <1>1, <1>4, <1>5, <1>6 DEF Frontier
  <1>14. Blank' /\ TailIsCur'
    <2>1. c.started = TRUE
      BY <1>1, <1>3
    <2>2. c.linked => k > 0 /\ c.segments[k] = c.cur /\ c.cur # NoSegment
      BY <1>1, <1>3, <1>6, <1>7
    <2> QED BY <1>3, <1>5, <2>1, <2>2, Zenon DEF Blank, TailIsCur
  <1> QED BY <1>3, <1>5, <1>10, <1>12, <1>13, <1>14 DEF Sound

\* A packet beyond the segment under construction: the list grows by that
\* segment and X (new, or NULL when malloc failed) takes its place.
LEMMA GapCtx ==
    ASSUME TrackerTypeOK, Sound, ctx.freed = FALSE, ctx.cur # NoSegment, ctx.linked = FALSE,
           NEW X \in Segments
    PROVE  LET d == [append_segment(ctx) EXCEPT !.cur = X, !.linked = FALSE] IN
           /\ d.cur = X /\ d.linked = FALSE /\ d.started = ctx.started /\ d.freed = FALSE
           /\ d.segments = Append(ctx.segments, ctx.cur)
           /\ Separated(d.segments) /\ d.nof = Len(d.segments)
           /\ Cover(d.segments) = Recorded
  <1> DEFINE t == Append(ctx.segments, ctx.cur)
             n == ctx.nof + 1
             d == [append_segment(ctx) EXCEPT !.cur = X, !.linked = FALSE]
  <1>1. /\ d = [[ctx EXCEPT !.segments = t, !.nof = n, !.linked = TRUE]
                    EXCEPT !.cur = X, !.linked = FALSE]
        /\ Len(t) = Len(ctx.segments) + 1 /\ Separated(t) /\ Cover(t) = Recorded
    BY AppendCur, Zenon
  <1>2. ctx \in SegmentsCtx /\ ctx.nof = Len(ctx.segments)
    BY CtxFacts DEF Sound, NodesSeparated
  <1>3. n = Len(t)
    BY <1>1, <1>2
  <1> HIDE DEF t, n, d
  <1>4. /\ d.cur = X /\ d.linked = FALSE /\ d.started = ctx.started /\ d.freed = FALSE
        /\ d.segments = t /\ d.nof = n
    BY <1>1, <1>2, Zenon DEF SegmentsCtx
  <1> QED BY <1>1, <1>3, <1>4, Zenon DEF t, d

\* A packet that leaves a gap closes the current segment and starts another.
LEMMA GapPacket ==
    ASSUME TrackerTypeOK, Sound, NEW p \in Seqs, on_data_packet(p), ctx.freed = FALSE, ctx.started,
           ctx.linked = FALSE, ~(ctx.cur.end + 1 >= p)
    PROVE  Sound' /\ ctx'.freed = FALSE /\ ctx'.linked = FALSE /\ phase' = "open"
  <1> DEFINE X == Segment(p, p)
             c == [append_segment(ctx) EXCEPT !.cur = X, !.linked = FALSE]
  <1>1. /\ ctx.cur.end \in Nat /\ p \in Nat /\ ctx.cur # NoSegment
        /\ (\A q \in rx : q <= ctx.cur.end) /\ rx \subseteq Nat
        /\ ctx.segments \in Seq(Segments) /\ ctx.cur \in Segments
        /\ ctx.cur.start \in Nat /\ ctx.cur.start <= ctx.cur.end /\ ctx.started = TRUE
    BY PacketFacts, Zenon DEF on_data_packet
  <1>2. X \in Segments /\ X.start = p /\ X.end = p /\ X \in RealSegments /\ X # NoSegment
    BY <1>1 DEF Segment, Segments, RealSegments, NoSegment
  <1>3. update_segments(ctx, p, TRUE) = c
    BY <1>1 DEF update_segments, update_segments_range, malloc_segment
  <1>4. /\ c.cur = X /\ c.linked = FALSE /\ c.started = ctx.started /\ c.freed = FALSE
        /\ c.segments = Append(ctx.segments, ctx.cur)
        /\ Separated(c.segments) /\ c.nof = Len(c.segments)
        /\ Cover(c.segments) = Recorded
    BY <1>1, <1>2, GapCtx, Zenon
  <1> HIDE DEF X, c
  <1>5. ctx' = c /\ phase' = "open" /\ rx' = rx \cup {p}
    BY <1>3, <1>4, LeavesSound, Zenon DEF on_data_packet
  <1>6. ahead' = ahead \cup {p}
    <2>1. \A q \in rx : q < p
      BY <1>1
    <2> QED BY <2>1, Zenon DEF on_data_packet
  <1>7. NodesSeparated'
    <2>1. ASSUME NEW i \in DOMAIN c.segments
          PROVE  c.segments[i].end + 1 < p
      <3>1. \/ i \in 1..Len(ctx.segments) /\ c.segments[i] = ctx.segments[i]
            \/ c.segments[i] = ctx.cur
        BY <1>1, <1>4
      <3>2. CASE c.segments[i] = ctx.cur
        BY <1>1, <3>2
      <3>3. CASE i \in 1..Len(ctx.segments) /\ c.segments[i] = ctx.segments[i]
        <4>1. ctx.segments[i].end + 1 < ctx.cur.start
          BY <1>1, <3>3 DEF Sound, NodesSeparated
        <4>2. ctx.segments[i] \in Segments
          BY <1>1, <3>3
        <4>3. ctx.segments[i].end \in Nat
          BY <4>2 DEF Segments
        <4>4. ctx.segments[i].end + 1 < p
          <5>1. ctx.cur.start \in Nat /\ ctx.cur.start <= ctx.cur.end /\ ctx.cur.end \in Nat /\ p \in Nat
            BY <1>1
          <5> QED BY <4>1, <4>3, <5>1
        <4> QED BY <3>3, <4>4
      <3> QED BY <3>1, <3>2, <3>3
    <2> QED BY <1>2, <1>4, <1>5, <2>1, Zenon DEF NodesSeparated
  <1>8. (Recorded = ahead)'
    <2>1. p .. p = {p}
      BY <1>1
    <2> QED BY <1>2, <1>4, <1>5, <1>6, <2>1, Zenon DEF Sound, Recorded
  <1>9. Frontier'
    BY <1>1, <1>2, <1>4, <1>5 DEF Frontier
  <1>10. Blank' /\ TailIsCur'
    BY <1>1, <1>4, <1>5, Zenon DEF Blank, TailIsCur
  <1> QED BY <1>4, <1>5, <1>7, <1>8, <1>9, <1>10 DEF Sound

\* Types after any call.
LEMMA LeavesTypes ==
    ASSUME NEW c \in SegmentsCtx, NEW g \in Phases, Leaves(c, g)
    PROVE  ctx' \in SegmentsCtx /\ phase' \in Phases
  <1>1. CASE c.freed
    BY <1>1, LeavesFreed, Zenon
  <1>2. CASE ~c.freed
    <2>1. c.freed = FALSE
      BY <1>2 DEF SegmentsCtx
    <2> QED BY <2>1, LeavesSound, Zenon
  <1> QED BY <1>1, <1>2

\* A packet, whatever the list is like.
LEMMA PacketStep ==
    ASSUME IInv, NEW p \in Seqs, on_data_packet(p)
    PROVE  IInv'
  <1> DEFINE c == update_segments(ctx, p, TRUE)
  <1>1. /\ TrackerTypeOK /\ phase = "open" /\ starts' = starts /\ Leaves(c, "open")
        /\ rx' = rx \cup {p} /\ ahead' \in {ahead, ahead \cup {p}} /\ ~CurIsNull
    BY Zenon DEF IInv, on_data_packet
  <1>2. /\ p \in Nat /\ rx' \subseteq Seqs /\ ahead' \subseteq Seqs /\ "open" \in Phases
        /\ ctx \in SegmentsCtx /\ ctx.freed \in BOOLEAN /\ ctx.linked \in BOOLEAN
    BY <1>1, LastSeqAssumption, CtxFacts DEF TrackerTypeOK, Seqs, Phases
  <1>3. c \in SegmentsCtx /\ (ctx.freed => c.freed)
    BY <1>2, UpdateTypes, Zenon
  <1>4. ctx' \in SegmentsCtx /\ phase' \in Phases
    BY <1>1, <1>2, <1>3, LeavesTypes, Zenon
  <1>5. CASE ctx.freed # FALSE
    <2>1. ctx.freed /\ starts > 1
      BY <1>2, <1>5, Zenon DEF IInv
    <2> QED BY <1>1, <1>2, <1>3, <2>1, FreedStep, Zenon
  <1>6. CASE ctx.freed = FALSE
    <2>1. Sound /\ (ctx.linked # FALSE => starts > 1)
      BY <1>1, <1>6, Zenon DEF IInv
    <2>2. CASE ~ctx.started
      <3>1. Sound' /\ ctx'.freed = FALSE /\ ctx'.linked = FALSE /\ phase' = "open"
        BY <1>1, <1>6, <2>1, <2>2, FirstPacket, Zenon
      <3> QED BY <1>1, <1>2, <1>4, <3>1, SoundStep, Zenon
    <2>3. CASE ctx.started /\ ctx.cur.end >= p
      <3>1. Sound' /\ ctx' = ctx /\ phase' = "open"
        BY <1>1, <1>6, <2>1, <2>3, OldPacket, Zenon
      <3>2. ctx'.freed = FALSE /\ ctx'.linked = ctx.linked
        BY <1>6, <3>1
      <3> QED BY <1>1, <1>2, <1>4, <2>1, <3>1, <3>2, SoundStep, Zenon
    <2>4. CASE ctx.started /\ p = ctx.cur.end + 1
      <3>1. Sound' /\ ctx'.freed = FALSE /\ ctx'.linked = ctx.linked /\ phase' = "open"
        BY <1>1, <1>6, <2>1, <2>4, NextPacket, Zenon
      <3> QED BY <1>1, <1>2, <1>4, <2>1, <3>1, SoundStep, Zenon
    <2>5. CASE ctx.started /\ ~(ctx.cur.end + 1 >= p) /\ ctx.linked = FALSE
      <3>1. Sound' /\ ctx'.freed = FALSE /\ ctx'.linked = FALSE /\ phase' = "open"
        BY <1>1, <1>6, <2>1, <2>5, GapPacket, Zenon
      <3> QED BY <1>1, <1>2, <1>4, <3>1, SoundStep, Zenon
    <2>6. CASE ctx.started /\ ~(ctx.cur.end + 1 >= p) /\ ctx.linked # FALSE
      <3>1. c = [append_segment(ctx) EXCEPT !.cur = Segment(p, p), !.linked = FALSE]
        BY <2>6, Zenon DEF update_segments, update_segments_range, malloc_segment
      <3>2. append_segment(ctx) \in SegmentsCtx /\ append_segment(ctx).freed
        BY <1>1, <1>2, <2>1, <2>6, AppendTypes, LinkedFrees, Zenon
      <3>3. c.freed
        BY <3>1, <3>2, Zenon DEF SegmentsCtx
      <3> QED BY <1>1, <1>2, <1>3, <2>1, <2>6, <3>3, FreedStep, Zenon
    <2>7. ctx.cur.end \in Nat
      BY <1>1, CtxFacts
    <2>8. ctx.cur.end >= p \/ p = ctx.cur.end + 1 \/ ~(ctx.cur.end + 1 >= p)
      BY <1>2, <2>7
    <2> QED BY <1>2, <2>2, <2>3, <2>4, <2>5, <2>6, <2>8, Zenon
  <1> QED BY <1>5, <1>6, Zenon

\* When malloc fails the current segment, if any, is still appended and the
\* packet goes unrecorded.
LEMMA NoMemorySound ==
    ASSUME TrackerTypeOK, Sound, NEW p \in Seqs, on_data_packet_no_memory(p), ctx.freed = FALSE,
           ctx.linked = FALSE
    PROVE  Sound' /\ ctx'.freed = FALSE /\ ctx'.linked = FALSE /\ phase' = "open"
  <1> DEFINE c == update_segments(ctx, p, FALSE)
  <1>1. NoSegment \in Segments /\ NoSegment.start .. NoSegment.end = {}
    BY DEF NoSegment, Segment, Segments
  <1>2. rx' = rx \cup {p} /\ ahead' = ahead /\ Leaves(c, "open") /\ ctx \in SegmentsCtx
    BY CtxFacts, Zenon DEF on_data_packet_no_memory
  <1>3. CASE ~ctx.started
    <2>1. ctx.segments = <<>> /\ ctx.cur = NoSegment
      BY <1>3 DEF Sound, Blank
    <2>2. c = [ctx EXCEPT !.nof = 0, !.started = TRUE, !.cur = NoSegment, !.linked = FALSE]
      BY <1>3 DEF update_segments, update_segments_range, malloc_segment
    <2> HIDE DEF c
    <2>3. /\ c.segments = <<>> /\ c.nof = 0 /\ c.linked = FALSE
          /\ c.started = TRUE /\ c.cur = NoSegment /\ c.freed = FALSE
      BY <1>2, <2>1, <2>2, Zenon DEF SegmentsCtx
    <2>4. ctx' = c /\ phase' = "open"
      BY <1>2, <2>3, LeavesSound, Zenon
    <2>5. NodesSeparated'
      BY <2>3, <2>4 DEF NodesSeparated, Separated
    <2>6. (Recorded = ahead)'
      BY <1>2, <2>1, <2>3, <2>4, Zenon DEF Sound, Recorded
    <2> QED BY <2>3, <2>4, <2>5, <2>6 DEF Sound, Frontier, Blank, TailIsCur
  <1>4. CASE ctx.started
    <2>1. ctx.cur # NoSegment /\ ~(ctx.cur.end + 1 >= p) /\ ctx.started = TRUE
      BY <1>4, CtxFacts, LastSeqAssumption
         DEF on_data_packet_no_memory, CurIsNull, Allocates, Seqs
    <2>2. c = [append_segment(ctx) EXCEPT !.cur = NoSegment, !.linked = FALSE]
      BY <1>4, <2>1 DEF update_segments, update_segments_range, malloc_segment
    <2> HIDE DEF c
    <2>3. /\ c.cur = NoSegment /\ c.linked = FALSE /\ c.started = ctx.started /\ c.freed = FALSE
          /\ Separated(c.segments) /\ c.nof = Len(c.segments) /\ Cover(c.segments) = Recorded
      BY <1>1, <2>1, <2>2, GapCtx, Zenon
    <2>4. ctx' = c /\ phase' = "open"
      BY <1>2, <2>3, LeavesSound, Zenon
    <2>5. NodesSeparated'
      BY <2>3, <2>4 DEF NodesSeparated
    <2>6. (Recorded = ahead)'
      BY <1>1, <1>2, <2>3, <2>4, Zenon DEF Sound, Recorded
    <2> QED BY <2>1, <2>3, <2>4, <2>5, <2>6 DEF Sound, Frontier, Blank, TailIsCur
  <1> QED BY <1>3, <1>4, Zenon

\* A packet without memory, whatever the list is like.
LEMMA NoMemoryPacket ==
    ASSUME IInv, NEW p \in Seqs, on_data_packet_no_memory(p)
    PROVE  IInv'
  <1> DEFINE c == update_segments(ctx, p, FALSE)
  <1>1. /\ TrackerTypeOK /\ phase = "open" /\ starts' = starts /\ Leaves(c, "open")
        /\ rx' = rx \cup {p} /\ ahead' = ahead /\ ~CurIsNull /\ Allocates(ctx, p)
    BY Zenon DEF IInv, on_data_packet_no_memory
  <1>2. /\ p \in Nat /\ rx' \subseteq Seqs /\ ahead' \subseteq Seqs /\ "open" \in Phases
        /\ ctx \in SegmentsCtx /\ ctx.freed \in BOOLEAN /\ ctx.linked \in BOOLEAN
        /\ ctx.started \in BOOLEAN /\ ctx.cur.end \in Nat
    BY <1>1, LastSeqAssumption, CtxFacts DEF TrackerTypeOK, Seqs, Phases
  <1>3. c \in SegmentsCtx /\ (ctx.freed => c.freed)
    BY <1>2, UpdateTypes, Zenon
  <1>4. ctx' \in SegmentsCtx /\ phase' \in Phases
    BY <1>1, <1>2, <1>3, LeavesTypes, Zenon
  <1>5. CASE ctx.freed # FALSE
    <2>1. ctx.freed /\ starts > 1
      BY <1>2, <1>5, Zenon DEF IInv
    <2> QED BY <1>1, <1>2, <1>3, <2>1, FreedStep, Zenon
  <1>6. CASE ctx.freed = FALSE /\ ctx.linked = FALSE
    <2>1. Sound
      BY <1>6, Zenon DEF IInv
    <2>2. Sound' /\ ctx'.freed = FALSE /\ ctx'.linked = FALSE /\ phase' = "open"
      BY <1>1, <1>6, <2>1, NoMemorySound, Zenon
    <2> QED BY <1>1, <1>2, <1>4, <2>2, SoundStep, Zenon
  <1>7. CASE ctx.freed = FALSE /\ ctx.linked # FALSE
    <2>1. Sound /\ starts > 1 /\ ctx.linked
      BY <1>1, <1>2, <1>7, Zenon DEF IInv
    <2>2. ctx.started = TRUE /\ ~(ctx.cur.end + 1 >= p)
      <3>1. ctx.started = TRUE
        BY <1>2, <2>1, Zenon DEF Sound, Blank, TailIsCur
      <3> QED BY <1>1, <1>2, <3>1 DEF Allocates
    <2>3. c = [append_segment(ctx) EXCEPT !.cur = NoSegment, !.linked = FALSE]
      BY <2>2, Zenon DEF update_segments, update_segments_range, malloc_segment
    <2>4. append_segment(ctx) \in SegmentsCtx /\ append_segment(ctx).freed
      BY <1>1, <1>2, <2>1, AppendTypes, LinkedFrees, Zenon
    <2>5. c.freed
      BY <2>3, <2>4, Zenon DEF SegmentsCtx
    <2> QED BY <1>1, <1>2, <1>3, <2>1, <2>5, FreedStep, Zenon
  <1> QED BY <1>5, <1>6, <1>7, Zenon

\* The packet after a failed malloc ends the process and touches no list.
LEMMA NullPacket ==
    ASSUME IInv, NEW p \in Seqs, on_data_packet_null(p)
    PROVE  IInv'
  <1>1. /\ ctx' = ctx /\ ahead' = ahead /\ phase' = "faulted" /\ rx' = rx \cup {p} /\ starts' = starts
        /\ ctx.started /\ ctx.cur = NoSegment
    BY DEF on_data_packet_null, CurIsNull
  <1>2. TrackerTypeOK'
    BY <1>1 DEF IInv, TrackerTypeOK, Phases
  <1>3. (ctx.freed = FALSE => Sound)'
    BY <1>1 DEF IInv, Sound, NodesSeparated, Recorded, Frontier, Blank, TailIsCur
  <1> QED BY <1>1, <1>2, <1>3, Zenon DEF IInv

----------------------------------------------------------------------------
\* The invariant of the tracker holds in every reachable state, for every
\* payload length and every order in which packets arrive.
THEOREM TrackerInvariant == TrackerSpec => []IInv
  <1>1. IInv /\ [TrackerNext]_trackerVars => IInv' \/ TrackerInit'
    <2> SUFFICES ASSUME IInv, [TrackerNext]_trackerVars PROVE IInv' \/ TrackerInit'
      OBVIOUS
    <2>1. ASSUME NEW p \in Seqs, on_data_packet(p) PROVE IInv'
      BY <2>1, PacketStep
    <2>2. ASSUME NEW p \in Seqs, on_data_packet_no_memory(p) PROVE IInv'
      BY <2>2, NoMemoryPacket
    <2>3. ASSUME NEW p \in Seqs, on_data_packet_null(p) PROVE IInv'
      BY <2>3, NullPacket
    <2>4. CASE on_end
      BY <2>4, EndStep
    <2>7. CASE on_start_again
      BY <2>7, StartAgainStep
    <2>5. CASE on_release
      BY <2>5 DEF on_release, TrackerInit
    <2>6. CASE UNCHANGED trackerVars
      BY <2>6, Zenon DEF trackerVars, IInv, Sound, TrackerTypeOK, NodesSeparated, Recorded,
                  Frontier, Blank, TailIsCur
    <2> QED BY <2>1, <2>2, <2>3, <2>4, <2>5, <2>6, <2>7 DEF TrackerNext
  <1> QED BY <1>1, InitInv, PTL DEF TrackerSpec

\* Types of the tracker's state.
THEOREM TrackerTypeCorrect == TrackerSpec => []TrackerTypeOK
  <1>1. IInv => TrackerTypeOK
    BY DEF IInv
  <1> QED BY <1>1, TrackerInvariant, PTL

\* apm_on_data_packet and apm_on_end keep the list ascending with gaps and its
\* count right, whatever the arrival order and however often the session is
\* started, until a node of the list is freed.
THEOREM TrackerListWellFormed == TrackerSpec => []ListWellFormed
  <1>1. IInv => ListWellFormed
    BY CtxFacts DEF IInv, Sound, ListWellFormed
  <1> QED BY <1>1, TrackerInvariant, PTL

\* A node of the list is freed only in a session that was started again: within
\* one start apm_on_data_packet and apm_on_end free none.
THEOREM TrackerFreedByRestartOnly == TrackerSpec => []FreedByRestartOnly
  <1>1. IInv => FreedByRestartOnly
    BY DEF IInv, FreedByRestartOnly
  <1> QED BY <1>1, TrackerInvariant, PTL

\* The list claims exactly the packets that arrived above all earlier ones.
THEOREM TrackerRecordsExactlyAhead == TrackerSpec => []RecordsExactlyAhead
  <1>1. IInv => RecordsExactlyAhead
    BY CtxFacts DEF IInv, Sound, RecordsExactlyAhead
  <1> QED BY <1>1, TrackerInvariant, PTL

----------------------------------------------------------------------------
(* Resumed sessions: the inductive invariant.                              *)

Types ==
    /\ TypeOK
    /\ iter_b \in 1 .. Len(saved) + 1
    /\ Separated(saved) /\ Separated(attempt)
    /\ Cover(saved) \subseteq 0 .. End

\* While merge_segments runs: res has what was consumed, and what is left starts
\* at or after the segment under construction.
Consumed == Before(attempt, iter_a) \cup Before(saved, iter_b)

MergeInv ==
    lpc = "merge" =>
        /\ Building(res)
        /\ res.started = FALSE => iter_a = 1 /\ iter_b = 1
        /\ res.cur # NoSegment =>
              /\ \A k \in iter_a .. Len(attempt) : res.cur.start <= attempt[k].start
              /\ \A k \in iter_b .. Len(saved) : res.cur.start <= saved[k].start
        /\ NullCur => failed
        /\ Claims(res) \subseteq Consumed
        /\ ~failed => Claims(res) = Consumed
        /\ Cover(attempt) \cup Cover(saved) \subseteq got
        /\ ~failed => Cover(attempt) \cup Cover(saved) = got

\* Otherwise res is a closed list, or was never used.
ResInv ==
    /\ res \in SegmentsCtx /\ Separated(res.segments) /\ res.nof = Len(res.segments) /\ res.freed = FALSE

\* While get_complement_segment runs: all that is missing up to the node it is
\* at was found.
WalkInv == lpc = "walk" => Walked(walk, saved, iter_b, End)

Inv == Types /\ MergeInv /\ ResInv /\ WalkInv /\ SavedIsUnion /\ AsksForMissing

\* The first walk starts with the list of the first attempt.
LEMMA InvInit == Init => Inv
<1> SUFFICES ASSUME Init PROVE Inv
  OBVIOUS
<1>1. saved \in Seq(Segments) /\ Separated(saved) /\ Cover(saved) \subseteq 0 .. End /\ End \in Nat
  BY ListsAssumption DEF Init
<1>2. complement_start \in [out : SegmentsCtx, seg_start : Nat, seg_end : Nat]
  BY WalkStarts DEF Walked, Walks
<1>5. Types
  <2>1. 1 \in 1 .. Len(<<>>) + 1 /\ 1 \in 1 .. Len(saved) + 1 /\ 1 \in Nat \ {0}
    BY <1>1, EmptyList
  <2>2. iter_a \in 1 .. Len(attempt) + 1 /\ iter_b \in 1 .. Len(saved) + 1 /\ iter_b \in Nat \ {0}
    BY <2>1 DEF Init
  <2>3. saved \in Seq(Segments) /\ attempt \in Seq(Segments) /\ asked \in Seq(Segments) /\ Separated(attempt)
    BY <1>1, EmptyList DEF Init
  <2>4. res \in SegmentsCtx /\ walk \in [out : SegmentsCtx, seg_start : Nat, seg_end : Nat]
    BY <1>2, EmptyList DEF Init
  <2>5. lpc \in {"walk", "asked", "merge", "faulted"} /\ got \subseteq 0 .. End /\ failed \in BOOLEAN
    BY <1>1, Zenon DEF Init
  <2> QED BY <1>1, <2>2, <2>3, <2>4, <2>5 DEF Types, TypeOK
<1>6. ResInv /\ WalkInv
  BY EmptyList, WalkStarts DEF Init, ResInv, WalkInv
<1> QED BY <1>5, <1>6 DEF Init, Inv, MergeInv, SavedIsUnion, AsksForMissing

\* What the steps start from.
LEMMA Facts ==
    ASSUME Inv
    PROVE  /\ saved \in Seq(Segments) /\ attempt \in Seq(Segments) /\ asked \in Seq(Segments)
           /\ Separated(saved) /\ Separated(attempt) /\ Cover(saved) \subseteq 0 .. End
           /\ Len(saved) \in Nat /\ Len(attempt) \in Nat
           /\ iter_a \in 1 .. Len(attempt) + 1 /\ iter_b \in 1 .. Len(saved) + 1
           /\ walk \in [out : SegmentsCtx, seg_start : Nat, seg_end : Nat]
           /\ walk.out \in SegmentsCtx /\ walk.seg_start \in Nat /\ walk.seg_end \in Nat
           /\ walk.out.segments \in Seq(Segments)
           /\ got \subseteq 0 .. End /\ failed \in BOOLEAN /\ End \in Nat
<1>1. /\ saved \in Seq(Segments) /\ attempt \in Seq(Segments) /\ asked \in Seq(Segments)
      /\ Separated(saved) /\ Separated(attempt) /\ Cover(saved) \subseteq 0 .. End
      /\ iter_a \in 1 .. Len(attempt) + 1 /\ iter_b \in 1 .. Len(saved) + 1
      /\ walk \in [out : SegmentsCtx, seg_start : Nat, seg_end : Nat]
      /\ got \subseteq 0 .. End /\ failed \in BOOLEAN /\ End \in Nat
  BY ListsAssumption DEF Inv, Types, TypeOK
<1>2. walk.out \in SegmentsCtx /\ walk.seg_start \in Nat /\ walk.seg_end \in Nat
  BY <1>1
<1>3. walk.out.segments \in Seq(Segments)
  BY <1>2 DEF SegmentsCtx
<1> QED BY <1>1, <1>2, <1>3

\* A turn of the walk, for a node.
LEMMA WalkNodeInv == ASSUME Inv, WalkNode PROVE Inv'
<1>1. /\ lpc = "walk" /\ lpc' = "walk" /\ iter_b <= Len(saved) /\ iter_b' = iter_b + 1
      /\ walk' = complement_node(walk, saved[iter_b], 0, End)
      /\ UNCHANGED <<saved, attempt, iter_a, res, asked, got, failed>>
  BY DEF WalkNode
<1>2. /\ iter_b \in 1 .. Len(saved) /\ iter_b' \in 1 .. Len(saved') + 1 /\ iter_b' \in Nat \ {0}
  BY <1>1, Facts, SMTT(30)
<1>3. Walked(walk', saved, iter_b + 1, End)
  <2>1. Walked(walk, saved, iter_b, End)
    BY <1>1 DEF Inv, WalkInv
  <2> QED BY <1>1, <1>2, <2>1, Facts, WalkNext, Zenon
<1>4. WalkInv' /\ walk' \in [out : SegmentsCtx, seg_start : Nat, seg_end : Nat]
  BY <1>1, <1>3, Zenon DEF WalkInv, Walked, Walks
<1> QED BY <1>1, <1>2, <1>4, Zenon DEF Inv, Types, TypeOK, MergeInv, ResInv, SavedIsUnion, AsksForMissing

\* What follows the loop of the walk makes the request.
LEMMA WalkTailInv == ASSUME Inv, WalkTail PROVE Inv'
<1> DEFINE d == complement_tail(walk, End)
           M == (0 .. End) \ Cover(saved)
<1>1. /\ lpc = "walk" /\ lpc' = "asked" /\ iter_b > Len(saved) /\ asked' = d.segments
      /\ UNCHANGED <<saved, attempt, iter_a, iter_b, res, walk, got, failed>>
  BY DEF WalkTail
<1>2. iter_b = Len(saved) + 1
  BY <1>1, Facts
<1>3. Walked(walk, saved, Len(saved) + 1, End)
  BY <1>1, <1>2 DEF Inv, WalkInv
<1>4. /\ d \in SegmentsCtx /\ Separated(d.segments)
      /\ Cover(d.segments) = IF saved = <<>> THEN {} ELSE IF End - 1 \in M THEN M ELSE M \ {End}
  BY <1>3, Facts, WalkEnds, Zenon
<1> HIDE DEF d
<1>5. Separated(asked') /\ asked' \in Seq(Segments) /\ AsksForMissing'
  <2>1. d.segments \in Seq(Segments)
    BY <1>4 DEF SegmentsCtx
  <2> QED BY <1>1, <1>4, <2>1 DEF AsksForMissing, Missing
<1>6. Types' /\ ResInv'
  BY <1>1, <1>5 DEF Inv, Types, TypeOK, ResInv
<1>7. MergeInv' /\ WalkInv' /\ SavedIsUnion'
  BY <1>1 DEF Inv, MergeInv, WalkInv, SavedIsUnion
<1> QED BY <1>5, <1>6, <1>7 DEF Inv

\* A fault stops the loops and leaves the lists.
LEMMA FaultInv == ASSUME Inv, WalkNoMemory \/ MergeNull PROVE Inv'
<1>1. lpc' = "faulted" /\ UNCHANGED <<saved, attempt, iter_a, iter_b, res, walk, asked, got, failed>>
  BY DEF WalkNoMemory, MergeNull
<1> QED BY <1>1 DEF Inv, Types, TypeOK, MergeInv, ResInv, WalkInv, SavedIsUnion, AsksForMissing

\* A restart walks the list of the .meta file again.
LEMMA RestartInv == ASSUME Inv, Restart PROVE Inv'
<1>1. /\ lpc' = "walk" /\ walk' = complement_start /\ iter_b' = 1 /\ got' = Cover(saved) /\ failed' = FALSE
      /\ UNCHANGED <<saved, attempt, iter_a, res, asked>>
  BY DEF Restart
<1>2. 1 \in 1 .. Len(saved) + 1
  BY Facts
<1>3. Types'
  <2>1. Types /\ TypeOK /\ Cover(saved) \subseteq 0 .. End
    BY DEF Inv, Types
  <2>2. walk' \in [out : SegmentsCtx, seg_start : Nat, seg_end : Nat]
    BY <1>1, WalkStarts DEF Walked, Walks
  <2>3. iter_b' \in Nat \ {0} /\ (iter_b \in 1 .. Len(saved) + 1)'
    BY <1>1, <1>2
  <2>4. TypeOK'
    BY <1>1, <2>1, <2>2, <2>3, Zenon DEF TypeOK
  <2> QED BY <1>1, <2>1, <2>3, <2>4 DEF Types
<1>4. WalkInv'
  BY <1>1, WalkStarts DEF WalkInv
<1> QED BY <1>1, <1>3, <1>4 DEF Inv, MergeInv, ResInv, SavedIsUnion, AsksForMissing

\* An attempt ends, and the merge starts with an empty result.
LEMMA EndAttemptInv == ASSUME Inv, NEW list \in Lists, EndAttempt(list) PROVE Inv'
<1>1. /\ lpc = "asked" /\ lpc' = "merge" /\ attempt' = list /\ got' = got \cup Cover(list)
      /\ iter_a' = 1 /\ iter_b' = 1 /\ res' = init_segments_ctx
      /\ UNCHANGED <<saved, walk, asked, failed>>
  BY DEF EndAttempt
<1>2. list \in Seq(Segments) /\ Separated(list) /\ Cover(list) \subseteq 0 .. End
  BY ListsAssumption
<1>3. /\ init_segments_ctx \in SegmentsCtx /\ init_segments_ctx.segments = <<>>
      /\ init_segments_ctx.nof = 0 /\ init_segments_ctx.freed = FALSE /\ init_segments_ctx.linked = FALSE
      /\ init_segments_ctx.started = FALSE /\ init_segments_ctx.cur = NoSegment
      /\ Len(<<>>) = 0 /\ Separated(<<>>)
  BY EmptyList
<1>4. Building(res') /\ Claims(res') = {} /\ ResInv'
  <2>1. Cover(<<>>) = {} /\ NoSegment.start .. NoSegment.end = {}
    BY DEF Cover, NoSegment, Segment
  <2>2. Claims(init_segments_ctx) = {} \cup {}
    BY <1>3, <2>1, Zenon DEF Claims
  <2>3. Building(init_segments_ctx)
    BY <1>3 DEF Building
  <2> QED BY <1>1, <1>3, <2>2, <2>3 DEF ResInv
<1>5. Consumed' = {}
  <2>1. Before(list, 1) = {} /\ Before(saved, 1) = {}
    BY <1>2, Facts, BeforeEnds
  <2> QED BY <1>1, <2>1 DEF Consumed
<1>6. Types'
  <2>1. Types /\ TypeOK
    BY DEF Inv, Types
  <2>2. 1 \in 1 .. Len(list) + 1 /\ 1 \in 1 .. Len(saved) + 1
    BY <1>2, Facts
  <2>3. got' \subseteq 0 .. End
    BY <1>1, <1>2, <2>1, Zenon DEF TypeOK
  <2>4. attempt' \in Seq(Segments) /\ (iter_a \in 1 .. Len(attempt) + 1)' /\ (iter_b \in 1 .. Len(saved) + 1)'
        /\ iter_b' \in Nat \ {0} /\ Separated(attempt)'
    BY <1>1, <1>2, <2>2
  <2>5. res' \in SegmentsCtx
    BY <1>1, <1>3
  <2>6. TypeOK'
    BY <1>1, <2>1, <2>3, <2>4, <2>5 DEF TypeOK
  <2> QED BY <1>1, <2>1, <2>4, <2>6 DEF Types
<1>7. Cover(saved) \subseteq got /\ (~failed => Cover(saved) = got)
  BY <1>1 DEF Inv, SavedIsUnion
<1>8. MergeInv'
  <2>1. res'.cur = NoSegment /\ res'.started = FALSE /\ ~NullCur'
    BY <1>1, <1>3 DEF NullCur
  <2>2. /\ (Cover(attempt) \cup Cover(saved) \subseteq got)'
        /\ (~failed => Cover(attempt) \cup Cover(saved) = got)'
    BY <1>1, <1>7
  <2> QED BY <1>1, <1>4, <1>5, <2>1, <2>2 DEF MergeInv
<1> QED BY <1>1, <1>4, <1>6, <1>8 DEF Inv, WalkInv, SavedIsUnion, AsksForMissing

\* The end of merge_segments closes the result, which becomes the saved list.
LEMMA MergeEndInv == ASSUME Inv, MergeEnd PROVE Inv'
<1> DEFINE d == close_segments(res)
<1>1. /\ lpc = "merge" /\ lpc' = "walk" /\ ~Merging /\ saved' = d.segments /\ res' = d
      /\ walk' = complement_start /\ iter_b' = 1
      /\ UNCHANGED <<attempt, iter_a, asked, got, failed>>
  BY DEF MergeEnd
<1>2. /\ Building(res) /\ Claims(res) \subseteq Consumed /\ (~failed => Claims(res) = Consumed)
      /\ Cover(attempt) \cup Cover(saved) \subseteq got
      /\ (~failed => Cover(attempt) \cup Cover(saved) = got)
  BY <1>1 DEF Inv, MergeInv
<1>3. /\ d \in SegmentsCtx /\ Separated(d.segments) /\ d.nof = Len(d.segments) /\ d.freed = FALSE
      /\ Cover(d.segments) = Claims(res)
  BY <1>2, CloseBuilt, Zenon
<1> HIDE DEF d
<1>4. iter_a = Len(attempt) + 1 /\ iter_b = Len(saved) + 1
  BY <1>1, Facts DEF Merging
<1>5. Consumed = Cover(attempt) \cup Cover(saved)
  <2>1. Before(attempt, iter_a) = Cover(attempt) /\ Before(saved, iter_b) = Cover(saved)
    BY <1>4, Facts, BeforeEnds
  <2> QED BY <2>1 DEF Consumed
<1>6. Cover(saved') \subseteq got /\ (~failed => Cover(saved') = got) /\ Cover(saved') \subseteq 0 .. End
  BY <1>1, <1>2, <1>3, <1>5, Facts, Zenon
<1>7. d.segments \in Seq(Segments) /\ 1 \in 1 .. Len(d.segments) + 1
  BY <1>3 DEF SegmentsCtx
<1>8. Types'
  <2>1. Types /\ TypeOK
    BY DEF Inv, Types
  <2>2. walk' \in [out : SegmentsCtx, seg_start : Nat, seg_end : Nat]
    BY <1>1, WalkStarts DEF Walked, Walks
  <2>3. iter_b' \in Nat \ {0} /\ (iter_b \in 1 .. Len(saved) + 1)' /\ saved' \in Seq(Segments)
        /\ Separated(saved')
    BY <1>1, <1>3, <1>7
  <2>4. res' \in SegmentsCtx
    BY <1>1, <1>3
  <2>5. TypeOK'
    BY <1>1, <2>1, <2>2, <2>3, <2>4 DEF TypeOK
  <2> QED BY <1>1, <1>6, <2>1, <2>3, <2>5 DEF Types
<1>9. WalkInv'
  BY <1>1, WalkStarts DEF WalkInv
<1>10. ResInv'
  BY <1>1, <1>3 DEF ResInv
<1>11. SavedIsUnion'
  BY <1>1, <1>6 DEF SavedIsUnion
<1> QED BY <1>1, <1>8, <1>9, <1>10, <1>11, Zenon DEF Inv, MergeInv, AsksForMissing

\* The node that merge_segments takes next starts first of all that are left.
LEMMA NextIsLeast ==
    ASSUME Inv, Merging
    PROVE  /\ NextNode \in RealSegments /\ NextNode.start \in Nat
           /\ \A k \in iter_a .. Len(attempt) : NextNode.start <= attempt[k].start
           /\ \A k \in iter_b .. Len(saved) : NextNode.start <= saved[k].start
           /\ TakesFromA => iter_a \in 1 .. Len(attempt) /\ NextNode = attempt[iter_a]
           /\ ~TakesFromA => iter_b \in 1 .. Len(saved) /\ NextNode = saved[iter_b]
<1>1. /\ iter_a \in 1 .. Len(attempt) + 1 /\ iter_b \in 1 .. Len(saved) + 1
      /\ iter_a <= Len(attempt) \/ iter_b <= Len(saved)
      /\ Len(attempt) \in Nat /\ Len(saved) \in Nat
  BY Facts DEF Merging
<1>2. CASE TakesFromA
  <2>1. /\ NextNode = attempt[iter_a] /\ iter_a <= Len(attempt)
        /\ iter_b <= Len(saved) => attempt[iter_a].start < saved[iter_b].start
    BY <1>2 DEF TakesFromA, NextNode
  <2>2. iter_a \in 1 .. Len(attempt)
    BY <1>1, <2>1
  <2> QED BY <1>1, <1>2, <2>1, <2>2, Facts, LeastNode
<1>3. CASE ~TakesFromA
  <2>1. NextNode = saved[iter_b] /\ iter_b <= Len(saved)
    BY <1>1, <1>3 DEF TakesFromA, NextNode
  <2>2. iter_a <= Len(attempt) => ~(attempt[iter_a].start < saved[iter_b].start)
    BY <1>3, <2>1 DEF TakesFromA
  <2>3. iter_b \in 1 .. Len(saved)
    BY <1>1, <2>1
  <2> QED BY <1>1, <1>3, <2>1, <2>2, <2>3, Facts, LeastNode
<1> QED BY <1>2, <1>3

\* What a turn of merge_segments leaves alone.
LEMMA MergeKeeps ==
    ASSUME Inv, lpc' = "merge", UNCHANGED <<saved, attempt, walk, asked, got>>,
           iter_a' \in 1 .. Len(attempt) + 1, iter_b' \in 1 .. Len(saved) + 1,
           failed' \in BOOLEAN, Building(res'), MergeInv'
    PROVE  Inv'
<1>1. Types /\ TypeOK
  BY DEF Inv, Types
<1>2. res' \in SegmentsCtx /\ ResInv'
  BY DEF Building, ResInv
<1>3. iter_b' \in Nat \ {0}
  BY Facts
<1>4. TypeOK'
  BY <1>1, <1>2, <1>3 DEF TypeOK
<1>5. Types'
  BY <1>1, <1>4 DEF Types
<1> QED BY <1>2, <1>5 DEF Inv, WalkInv, SavedIsUnion, AsksForMissing

\* A turn of merge_segments, with and without memory.
LEMMA MergeNodeInv == ASSUME Inv, NEW ok \in BOOLEAN, MergeNode(ok) PROVE Inv'
<1> DEFINE r == NextNode
           d == update_segments_range(res, r.start, r.end, ok)
<1>1. /\ lpc = "merge" /\ lpc' = "merge" /\ Merging /\ ~NullCur
      /\ ok \/ Allocates(res, r.start)
      /\ res' = d
      /\ UNCHANGED <<saved, attempt, walk, asked, got>>
  BY DEF MergeNode, Merging
<1>2. failed' = (failed \/ ~ok)
  BY DEF MergeNode
<1>3. /\ r \in RealSegments /\ r.start \in Nat
      /\ \A k \in iter_a .. Len(attempt) : r.start <= attempt[k].start
      /\ \A k \in iter_b .. Len(saved) : r.start <= saved[k].start
  BY <1>1, NextIsLeast
<1>4. MergeInv /\ Building(res)
  BY <1>1, Zenon DEF Inv, MergeInv
<1>5. res.started # FALSE => res.cur # NoSegment /\ res.cur.start <= r.start
  <2>1. ASSUME res.started # FALSE PROVE res.cur # NoSegment
    <3>1. res.started \in BOOLEAN
      BY <1>4 DEF Building, SegmentsCtx
    <3> QED BY <1>1, <2>1, <3>1, Zenon DEF NullCur
  <2>2. ASSUME res.cur # NoSegment PROVE res.cur.start <= r.start
    <3>1. /\ \A k \in iter_a .. Len(attempt) : res.cur.start <= attempt[k].start
          /\ \A k \in iter_b .. Len(saved) : res.cur.start <= saved[k].start
      BY <1>1, <1>4, <2>2 DEF MergeInv
    <3>2. CASE TakesFromA
      <4>1. iter_a \in iter_a .. Len(attempt) /\ r = attempt[iter_a]
        BY <1>1, <3>2, NextIsLeast
      <4> HIDE DEF r
      <4> QED BY <3>1, <4>1
    <3>3. CASE ~TakesFromA
      <4>1. iter_b \in iter_b .. Len(saved) /\ r = saved[iter_b]
        BY <1>1, <3>3, NextIsLeast
      <4> HIDE DEF r
      <4> QED BY <3>1, <4>1
    <3> QED BY <3>2, <3>3
  <2> QED BY <2>1, <2>2
<1>6. /\ Consumed' = Consumed \cup (r.start .. r.end)
      /\ iter_a' \in iter_a .. Len(attempt) + 1 /\ iter_b' \in iter_b .. Len(saved) + 1
      /\ iter_a' \in 1 .. Len(attempt) + 1 /\ iter_b' \in 1 .. Len(saved) + 1
  <2>0. iter_a \in 1 .. Len(attempt) + 1 /\ iter_b \in 1 .. Len(saved) + 1
    BY Facts
  <2>1. CASE TakesFromA
    <3>1. iter_a' = iter_a + 1 /\ iter_b' = iter_b
      BY <2>1 DEF MergeNode
    <3>2. iter_a \in 1 .. Len(attempt) /\ r = attempt[iter_a]
      BY <1>1, <2>1, NextIsLeast
    <3> HIDE DEF r
    <3>3. Before(attempt, iter_a + 1) = Before(attempt, iter_a) \cup (r.start .. r.end)
      BY <3>2, Facts, BeforeNext
    <3>4. Consumed' = Consumed \cup (r.start .. r.end)
      <4>1. Consumed' = Before(attempt, iter_a + 1) \cup Before(saved, iter_b)
        BY <1>1, <3>1 DEF Consumed
      <4> QED BY <3>3, <4>1 DEF Consumed
    <3> QED BY <2>0, <3>1, <3>2, <3>4
  <2>2. CASE ~TakesFromA
    <3>1. iter_b' = iter_b + 1 /\ iter_a' = iter_a
      BY <2>2 DEF MergeNode
    <3>2. iter_b \in 1 .. Len(saved) /\ r = saved[iter_b]
      BY <1>1, <2>2, NextIsLeast
    <3> HIDE DEF r
    <3>3. Before(saved, iter_b + 1) = Before(saved, iter_b) \cup (r.start .. r.end)
      BY <3>2, Facts, BeforeNext
    <3>4. Consumed' = Consumed \cup (r.start .. r.end)
      <4>1. Consumed' = Before(attempt, iter_a) \cup Before(saved, iter_b + 1)
        BY <1>1, <3>1 DEF Consumed
      <4> QED BY <3>3, <4>1 DEF Consumed
    <3> QED BY <2>0, <3>1, <3>2, <3>4
  <2> QED BY <2>1, <2>2
<1> HIDE DEF r
<1>7. CASE ok = TRUE
  <2>1. /\ Building(d) /\ d.started = TRUE /\ d.cur # NoSegment /\ d.cur.start <= r.start
        /\ Claims(d) = Claims(res) \cup (r.start .. r.end)
    BY <1>3, <1>4, <1>5, <1>7, UpdateClaims, Zenon
  <2> HIDE DEF d
  <2>2. failed' = failed
    <3>1. failed \in BOOLEAN
      BY Facts
    <3> QED BY <1>2, <1>7, <3>1, Zenon
  <2>3. Claims(res') \subseteq Consumed' /\ (~failed' => Claims(res') = Consumed')
    <3>1. Claims(res) \subseteq Consumed /\ (~failed => Claims(res) = Consumed)
      BY <1>1, <1>4 DEF MergeInv
    <3>2. Claims(res') = Claims(res) \cup (r.start .. r.end)
      BY <1>1, <2>1
    <3> QED BY <1>6, <2>2, <3>1, <3>2
  <2>4. /\ \A k \in iter_a' .. Len(attempt) : d.cur.start <= attempt[k].start
        /\ \A k \in iter_b' .. Len(saved) : d.cur.start <= saved[k].start
    <3>1. d.cur.start \in Nat
      BY <2>1 DEF Building, RealSegments, Segments
    <3>2. ASSUME NEW k \in iter_a' .. Len(attempt) PROVE d.cur.start <= attempt[k].start
      <4>1. k \in iter_a .. Len(attempt) /\ k \in 1 .. Len(attempt)
        BY <1>6, Facts
      <4>2. attempt[k].start \in Nat
        BY <4>1, Facts, Nodes
      <4> QED BY <1>3, <2>1, <3>1, <4>1, <4>2
    <3>3. ASSUME NEW k \in iter_b' .. Len(saved) PROVE d.cur.start <= saved[k].start
      <4>1. k \in iter_b .. Len(saved) /\ k \in 1 .. Len(saved)
        BY <1>6, Facts
      <4>2. saved[k].start \in Nat
        BY <4>1, Facts, Nodes
      <4> QED BY <1>3, <2>1, <3>1, <4>1, <4>2
    <3> QED BY <3>2, <3>3
  <2>5. Building(res') /\ ~NullCur' /\ res'.started = TRUE /\ res'.cur = d.cur
    BY <1>1, <2>1 DEF NullCur
  <2>6. MergeInv'
    <3>1. /\ (Cover(attempt) \cup Cover(saved) \subseteq got)'
          /\ (~failed => Cover(attempt) \cup Cover(saved) = got)'
      BY <1>1, <1>4, <2>2 DEF MergeInv
    <3>2. /\ (\A k \in iter_a .. Len(attempt) : res.cur.start <= attempt[k].start)'
          /\ (\A k \in iter_b .. Len(saved) : res.cur.start <= saved[k].start)'
      BY <1>1, <2>4, <2>5
    <3> QED BY <2>3, <2>5, <3>1, <3>2 DEF MergeInv
  <2> QED BY <1>1, <1>6, <2>2, <2>5, <2>6, Facts, MergeKeeps
<1>8. CASE ok = FALSE
  <2>1. Building(d) /\ d.started = TRUE /\ d.cur = NoSegment /\ Claims(d) = Claims(res)
    BY <1>1, <1>3, <1>4, <1>5, <1>8, UpdateNoMemory, Zenon
  <2> HIDE DEF d
  <2>2. failed' = TRUE
    BY <1>2, <1>8, Zenon
  <2>3. Claims(res') \subseteq Consumed'
    <3>1. Claims(res) \subseteq Consumed
      BY <1>1, <1>4 DEF MergeInv
    <3> QED BY <1>1, <1>6, <2>1, <3>1
  <2>4. Building(res') /\ res'.started = TRUE /\ res'.cur = NoSegment
    BY <1>1, <2>1
  <2>5. MergeInv'
    <3>1. (Cover(attempt) \cup Cover(saved) \subseteq got)'
      BY <1>1, <1>4 DEF MergeInv
    <3> QED BY <2>2, <2>3, <2>4, <3>1 DEF MergeInv
  <2> QED BY <1>1, <1>6, <2>2, <2>4, <2>5, MergeKeeps
<1> QED BY <1>7, <1>8, Zenon

\* Each step keeps the invariant.
LEMMA InvNext == Inv /\ [Next]_vars => Inv'
<1> SUFFICES ASSUME Inv, [Next]_vars PROVE Inv'
  OBVIOUS
<1>1. CASE UNCHANGED vars
  BY <1>1, Zenon DEF vars, Inv, Types, TypeOK, MergeInv, Consumed, NullCur, ResInv, WalkInv,
              SavedIsUnion, AsksForMissing, Missing
<1>2. CASE Next
  BY <1>2, WalkNodeInv, WalkTailInv, FaultInv, EndAttemptInv, MergeNodeInv, MergeEndInv, RestartInv DEF Next
<1> QED BY <1>1, <1>2

\* The invariant holds in every state.
LEMMA InvAlways == Spec => []Inv
  BY InvInit, InvNext, PTL DEF Spec

----------------------------------------------------------------------------
\* The lists and the locals of get_complement_segment and merge_segments keep
\* their types: the count is never negative and the iterators stay in their lists.
THEOREM ListTypes == Spec => []TypeOK
<1>1. Inv => TypeOK
  BY DEF Inv, Types
<1> QED BY <1>1, InvAlways, PTL

\* merge_segments leaves a list that is ascending, with gaps, correctly counted
\* and without a freed node, for all lists and wherever malloc fails.
THEOREM MergeSeparates == Spec => []MergedSeparated
<1>1. Inv => MergedSeparated
  BY DEF Inv, Types, ResInv, MergedSeparated
<1> QED BY <1>1, InvAlways, PTL

\* After any number of attempts, of any lists, the .meta file has exactly what
\* they recorded, and never more when a malloc failed in merge_segments.
THEOREM MergesExactly == Spec => []SavedIsUnion
<1>1. Inv => SavedIsUnion
  BY DEF Inv
<1> QED BY <1>1, InvAlways, PTL

\* get_complement_segment asks for exactly what is missing, for every list and
\* every payload size, but for the two exceptions that AsksForMissing names.
THEOREM AsksExactly == Spec => []AsksForMissing
<1>1. Inv => AsksForMissing
  BY DEF Inv
<1> QED BY <1>1, InvAlways, PTL

----------------------------------------------------------------------------
(* The loops of DtpResumeLists, turn by turn, against the functions of     *)
(* whole lists in DtpSegmentLists, which DtpTransfer uses.                 *)

\* The locals of merge_segments after each of its turns over the two lists.
MergeTurns(m) ==
    /\ IsMerge(m, attempt, saved)
    /\ \A n \in 0 .. Len(attempt) + Len(saved) : m[n] \in Merges

Locals(x, i, j, r) == x.iter_a = i /\ x.iter_b = j /\ x.res = r

\* The locals are those of the function after as many turns.
SameTurns ==
    /\ lpc = "walk" => \A w : IsWalk(w, saved, End) => walk = w[iter_b - 1]
    /\ lpc = "merge" /\ ~failed =>
          \A m : MergeTurns(m) => Locals(m[iter_a + iter_b - 2], iter_a, iter_b, res)

\* The request is what get_complement_segment makes of the loaded list.
AskedAtOnce == lpc = "asked" => asked = get_complement_segment(LoadSegments(saved), 0, End).segments

\* The .meta file gets what merge_segments makes of the list of the attempt and
\* the loaded list, when every malloc succeeds.
MergedAtOnce ==
    MergeEnd /\ ~failed =>
        \A c \in SegmentsCtx : c.segments = attempt =>
            saved' = merge_segments(c, LoadSegments(saved)).segments

\* A loaded list is a context with that list.
LEMMA LoadedList ==
    ASSUME NEW segs \in Seq(Segments)
    PROVE  LoadSegments(segs) \in SegmentsCtx /\ LoadSegments(segs).segments = segs
<1>1. NoSegment \in Segments /\ Len(segs) \in Nat
  BY EmptyList DEF SegmentsCtx
<1> DEFINE c == [segments |-> segs, cur |-> NoSegment, nof |-> Len(segs),
                 started |-> FALSE, linked |-> FALSE, freed |-> FALSE]
<1>2. c \in SegmentsCtx /\ c.segments = segs
  BY <1>1, Zenon DEF SegmentsCtx
<1>3. LoadSegments(segs) = c
  BY Loads, Zenon
<1> HIDE DEF c
<1> QED BY <1>2, <1>3, Zenon

\* The turns of a walk.
LEMMA WalkTurn ==
    ASSUME NEW segs \in Seq(Segments), NEW w, IsWalk(w, segs, End)
    PROVE  /\ w[0] = complement_start
           /\ \A n \in 1 .. Len(segs) : w[n] = complement_node(w[n - 1], segs[n], 0, End)
<1>1. 0 \in 0 .. Len(segs) /\ \A n \in 1 .. Len(segs) : n \in 0 .. Len(segs) /\ n # 0
  OBVIOUS
<1> QED BY <1>1, Zenon DEF IsWalk

\* The turns of a merge.
LEMMA MergeTurn ==
    ASSUME NEW a \in Seq(Segments), NEW b \in Seq(Segments), NEW m, IsMerge(m, a, b)
    PROVE  /\ m[0] = merge_start
           /\ \A n \in 1 .. Len(a) + Len(b) : m[n] = merge_node(m[n - 1], a, b)
<1>1. /\ 0 \in 0 .. Len(a) + Len(b)
      /\ \A n \in 1 .. Len(a) + Len(b) : n \in 0 .. Len(a) + Len(b) /\ n # 0
  OBVIOUS
<1> QED BY <1>1, Zenon DEF IsMerge

\* A walk that starts is at its first turn.
LEMMA WalkFirst ==
    ASSUME Inv', lpc' = "walk", walk' = complement_start, iter_b' = 1
    PROVE  SameTurns'
<1>1. saved' \in Seq(Segments)
  BY DEF Inv, Types, TypeOK
<1>2. \A w : IsWalk(w, saved', End) => w[0] = complement_start
  BY <1>1, WalkTurn
<1>3. 1 - 1 = 0
  OBVIOUS
<1> QED BY <1>2, <1>3 DEF SameTurns

\* A node of the walk is a turn.
LEMMA WalkNodeTurn == ASSUME Inv, SameTurns, WalkNode PROVE SameTurns'
<1>1. /\ lpc = "walk" /\ lpc' = "walk" /\ iter_b <= Len(saved) /\ iter_b' = iter_b + 1
      /\ walk' = complement_node(walk, saved[iter_b], 0, End) /\ saved' = saved
  BY DEF WalkNode
<1>2. iter_b \in 1 .. Len(saved) /\ iter_b + 1 - 1 = iter_b /\ saved \in Seq(Segments)
  BY <1>1, Facts
<1>3. ASSUME NEW w, IsWalk(w, saved, End) PROVE walk' = w[iter_b]
  <2>1. w[iter_b] = complement_node(w[iter_b - 1], saved[iter_b], 0, End)
    BY <1>2, <1>3, WalkTurn
  <2>2. walk = w[iter_b - 1]
    BY <1>1, <1>3 DEF SameTurns
  <2> QED BY <1>1, <2>1, <2>2
<1> QED BY <1>1, <1>2, <1>3 DEF SameTurns

\* After its last turn the walk makes the request that the function makes.
LEMMA WalkTailAtOnce == ASSUME Inv, SameTurns, WalkTail PROVE AskedAtOnce'
<1> DEFINE c == LoadSegments(saved)
<1>1. /\ lpc = "walk" /\ iter_b > Len(saved) /\ asked' = complement_tail(walk, End).segments
      /\ saved' = saved
  BY DEF WalkTail
<1>2. iter_b - 1 = Len(saved)
  BY <1>1, Facts
<1>3. c \in SegmentsCtx /\ c.segments = saved
  BY Facts, LoadedList
<1> HIDE DEF c
<1>4. PICK w : /\ IsWalk(w, c.segments, End)
               /\ get_complement_segment(c, 0, End) = complement_tail(w[Len(c.segments)], End)
  BY <1>3, Facts, ComplementRun, Zenon
<1>5. walk = w[Len(saved)]
  BY <1>1, <1>2, <1>3, <1>4 DEF SameTurns
<1>6. asked' = get_complement_segment(c, 0, End).segments
  BY <1>1, <1>3, <1>4, <1>5
<1> QED BY <1>1, <1>6 DEF AskedAtOnce, c

\* merge_segments starts as the function does.
LEMMA MergeFirst == ASSUME Inv', NEW list \in Lists, EndAttempt(list) PROVE SameTurns'
<1>1. lpc' = "merge" /\ iter_a' = 1 /\ iter_b' = 1 /\ res' = init_segments_ctx
  BY DEF EndAttempt
<1>2. saved' \in Seq(Segments) /\ attempt' \in Seq(Segments)
  BY DEF Inv, Types, TypeOK
<1>3. ASSUME NEW m, MergeTurns(m)' PROVE m[0] = merge_start
  BY <1>2, <1>3, MergeTurn DEF MergeTurns
<1>4. 1 + 1 - 2 = 0
  OBVIOUS
<1>5. Locals(merge_start, 1, 1, init_segments_ctx)
  BY DEF Locals, merge_start
<1> QED BY <1>1, <1>3, <1>4, <1>5 DEF SameTurns

\* The locals of merge_segments with one iterator and the result replaced.
LEMMA ReplaceLocals ==
    ASSUME NEW x \in Merges, NEW n, NEW d
    PROVE  /\ Locals([x EXCEPT !.iter_a = n, !.res = d], n, x.iter_b, d)
           /\ Locals([x EXCEPT !.iter_b = n, !.res = d], x.iter_a, n, d)
  BY DEF Merges, Locals

\* A node of merge_segments is a turn, if malloc succeeds.
LEMMA MergeNodeTurn == ASSUME Inv, SameTurns, NEW ok \in BOOLEAN, MergeNode(ok) PROVE SameTurns'
<1>1. /\ lpc = "merge" /\ lpc' = "merge" /\ Merging
      /\ res' = update_segments_range(res, NextNode.start, NextNode.end, ok)
      /\ failed' = (failed \/ ~ok)
      /\ IF TakesFromA THEN iter_a' = iter_a + 1 /\ iter_b' = iter_b
                       ELSE iter_b' = iter_b + 1 /\ iter_a' = iter_a
      /\ saved' = saved /\ attempt' = attempt
  BY DEF MergeNode, Merging
<1> SUFFICES ASSUME ~failed', NEW m, MergeTurns(m)
             PROVE  Locals(m[iter_a' + iter_b' - 2], iter_a', iter_b', res')
  BY <1>1, Zenon DEF SameTurns, MergeTurns, Locals
<1> DEFINE k == iter_a + iter_b - 2
<1>2. /\ iter_a \in 1 .. Len(attempt) + 1 /\ iter_b \in 1 .. Len(saved) + 1
      /\ iter_a <= Len(attempt) \/ iter_b <= Len(saved)
      /\ Len(attempt) \in Nat /\ Len(saved) \in Nat
      /\ attempt \in Seq(Segments) /\ saved \in Seq(Segments)
  BY <1>1, Facts DEF Merging
<1>3. k + 1 \in 1 .. Len(attempt) + Len(saved) /\ (k + 1) - 1 = k
  BY <1>2
<1>4. iter_a' + iter_b' - 2 = k + 1
  BY <1>1, <1>2
<1>5. ok = TRUE /\ ~failed
  BY <1>1, Zenon
<1>6. m[k].iter_a = iter_a /\ m[k].iter_b = iter_b /\ m[k].res = res
  BY <1>1, <1>5 DEF SameTurns, Locals
<1> HIDE DEF k
<1>7. m[k + 1] = merge_node(m[k], attempt, saved)
  BY <1>2, <1>3, MergeTurn DEF MergeTurns
<1>8. TakesA(m[k], attempt, saved) <=> TakesFromA
  BY <1>6 DEF TakesA, TakesFromA
<1>9. CASE TakesFromA
  <2> DEFINE d == update_segments_range(res, attempt[iter_a].start, attempt[iter_a].end, TRUE)
  <2>1. res' = d /\ iter_a' = iter_a + 1 /\ iter_b' = iter_b
    BY <1>1, <1>5, <1>9, Zenon DEF NextNode
  <2>2. Locals(merge_node(m[k], attempt, saved), iter_a + 1, iter_b, d)
    <3>1. merge_node(m[k], attempt, saved) = [m[k] EXCEPT !.iter_a = iter_a + 1, !.res = d]
      BY <1>6, <1>8, <1>9, Zenon DEF merge_node
    <3> HIDE DEF d
    <3>2. m[k] \in Merges
      BY <1>2, <1>3 DEF MergeTurns
    <3>3. Locals([m[k] EXCEPT !.iter_a = iter_a + 1, !.res = d], iter_a + 1, m[k].iter_b, d)
      BY <3>2, ReplaceLocals, Zenon
    <3> QED BY <1>6, <3>1, <3>3
  <2> HIDE DEF d
  <2> QED BY <1>4, <1>7, <2>1, <2>2
<1>10. CASE ~TakesFromA
  <2> DEFINE d == update_segments_range(res, saved[iter_b].start, saved[iter_b].end, TRUE)
  <2>1. res' = d /\ iter_b' = iter_b + 1 /\ iter_a' = iter_a
    BY <1>1, <1>5, <1>10, Zenon DEF NextNode
  <2>2. Locals(merge_node(m[k], attempt, saved), iter_a, iter_b + 1, d)
    <3>1. merge_node(m[k], attempt, saved) = [m[k] EXCEPT !.iter_b = iter_b + 1, !.res = d]
      BY <1>6, <1>8, <1>10, Zenon DEF merge_node
    <3> HIDE DEF d
    <3>2. m[k] \in Merges
      BY <1>2, <1>3 DEF MergeTurns
    <3>3. Locals([m[k] EXCEPT !.iter_b = iter_b + 1, !.res = d], m[k].iter_a, iter_b + 1, d)
      BY <3>2, ReplaceLocals, Zenon
    <3> QED BY <1>6, <3>1, <3>3
  <2> HIDE DEF d
  <2> QED BY <1>4, <1>7, <2>1, <2>2
<1> QED BY <1>9, <1>10

\* After its last turn the merge leaves the list that the function leaves.
LEMMA MergeEndAtOnce == ASSUME Inv, SameTurns PROVE MergedAtOnce
<1> SUFFICES ASSUME MergeEnd, ~failed, NEW p \in SegmentsCtx, p.segments = attempt
             PROVE  saved' = merge_segments(p, LoadSegments(saved)).segments
  BY DEF MergedAtOnce
<1> DEFINE q == LoadSegments(saved)
           N == Len(attempt) + Len(saved)
<1>1. lpc = "merge" /\ ~Merging /\ saved' = close_segments(res).segments
  BY DEF MergeEnd
<1>2. /\ iter_a = Len(attempt) + 1 /\ iter_b = Len(saved) + 1
      /\ Len(attempt) \in Nat /\ Len(saved) \in Nat
  BY <1>1, Facts DEF Merging
<1>3. iter_a + iter_b - 2 = N
  BY <1>2
<1>4. q \in SegmentsCtx /\ q.segments = saved
  BY Facts, LoadedList
<1> HIDE DEF q
<1>5. PICK m : /\ IsMerge(m, attempt, saved)
               /\ merge_segments(p, q) = close_segments(m[N].res)
               /\ \A n \in 0 .. N : Merged(m[n], attempt, saved, n)
  <2>1. Separated(p.segments) /\ Separated(q.segments)
    BY <1>4, Facts
  <2> QED BY <1>4, <2>1, MergeRun, Zenon
<1>6. MergeTurns(m)
  <2>1. \A n \in 0 .. N : m[n] \in Merges
    BY <1>5, Zenon DEF Merged
  <2> QED BY <1>5, <2>1, Zenon DEF MergeTurns
<1>7. m[N].res = res
  BY <1>1, <1>3, <1>6 DEF SameTurns, Locals
<1> QED BY <1>1, <1>5, <1>7, Zenon DEF q

\* Every step keeps in turn with the functions.
LEMMA TurnsNext ==
    ASSUME Inv, Inv', SameTurns, AskedAtOnce, [Next]_vars
    PROVE  SameTurns' /\ AskedAtOnce'
<1>1. CASE WalkNode
  <2>1. lpc' = "walk"
    BY <1>1 DEF WalkNode
  <2> QED BY <1>1, <2>1, WalkNodeTurn DEF AskedAtOnce
<1>2. CASE WalkTail
  <2>1. lpc' = "asked"
    BY <1>2 DEF WalkTail
  <2> QED BY <1>2, <2>1, WalkTailAtOnce DEF SameTurns
<1>3. CASE WalkNoMemory \/ MergeNull
  <2>1. lpc' = "faulted"
    BY <1>3 DEF WalkNoMemory, MergeNull
  <2> QED BY <2>1 DEF SameTurns, AskedAtOnce
<1>4. ASSUME NEW list \in Lists, EndAttempt(list) PROVE SameTurns' /\ AskedAtOnce'
  <2>1. lpc' = "merge"
    BY <1>4 DEF EndAttempt
  <2> QED BY <1>4, <2>1, MergeFirst DEF AskedAtOnce
<1>5. ASSUME NEW ok \in BOOLEAN, MergeNode(ok) PROVE SameTurns' /\ AskedAtOnce'
  <2>1. lpc' = "merge"
    BY <1>5 DEF MergeNode, Merging
  <2> QED BY <1>5, <2>1, MergeNodeTurn DEF AskedAtOnce
<1>6. CASE MergeEnd \/ Restart
  <2>1. lpc' = "walk" /\ walk' = complement_start /\ iter_b' = 1
    BY <1>6 DEF MergeEnd, Restart
  <2> QED BY <2>1, WalkFirst DEF AskedAtOnce
<1>7. CASE UNCHANGED vars
  <2>1. UNCHANGED <<lpc, saved, attempt, iter_a, iter_b, res, walk, asked, failed>>
    BY <1>7 DEF vars
  <2>2. SameTurns'
    BY <2>1, Zenon DEF SameTurns, MergeTurns, Locals
  <2> QED BY <2>1, <2>2, Zenon DEF AskedAtOnce
<1> QED BY <1>1, <1>2, <1>3, <1>4, <1>5, <1>6, <1>7 DEF Next

\* For all lists, payloads and any number of attempts: the loops, made turn by
\* turn with malloc failing anywhere, ask for exactly what get_complement_segment
\* gives as a function of the list in the .meta file, and write exactly what
\* merge_segments gives as a function of the two lists unless a malloc failed.
\* DtpTransfer takes each of the two calls as one step.
THEOREM LoopsAreFunctions == Spec => []AskedAtOnce /\ [][MergedAtOnce]_vars
<1>1. Init => SameTurns /\ AskedAtOnce
  <2> SUFFICES ASSUME Init PROVE SameTurns /\ AskedAtOnce
    OBVIOUS
  <2>1. lpc = "walk" /\ walk = complement_start /\ iter_b = 1 /\ saved \in Seq(Segments)
    BY ListsAssumption DEF Init
  <2>2. \A w : IsWalk(w, saved, End) => w[0] = complement_start
    BY <2>1, WalkTurn
  <2>3. 1 - 1 = 0
    OBVIOUS
  <2> QED BY <2>1, <2>2, <2>3 DEF SameTurns, AskedAtOnce
<1>2. Inv /\ Inv' /\ SameTurns /\ AskedAtOnce /\ [Next]_vars => SameTurns' /\ AskedAtOnce'
  BY TurnsNext
<1>3. Inv /\ SameTurns => MergedAtOnce
  BY MergeEndAtOnce
<1> QED BY <1>1, <1>2, <1>3, InvAlways, PTL DEF Spec
=============================================================================
