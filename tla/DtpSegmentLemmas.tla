-------------------------- MODULE DtpSegmentLemmas --------------------------
(***************************************************************************)
(* What the operations on a segment list do to it, for lists of any        *)
(* length: the lemmas on which the proofs about lists (DtpSegmentProofs)   *)
(* and about the download that uses them (DtpTransferProofs) rest.         *)
(***************************************************************************)
EXTENDS DtpSegmentLists, WellFoundedInduction, TLAPS

----------------------------------------------------------------------------
\* Membership in the numbers a list claims.
LEMMA CoverMember ==
    ASSUME NEW S, NEW segs \in Seq(S), NEW x
    PROVE  x \in Cover(segs) <=> \E i \in 1..Len(segs) : x \in segs[i].start .. segs[i].end
  BY DEF Cover

\* Appending a segment adds its numbers to the claimed ones.
LEMMA CoverAppend ==
    ASSUME NEW segs \in Seq(Segments), NEW s \in Segments
    PROVE  Cover(Append(segs, s)) = Cover(segs) \cup (s.start .. s.end)
  <1> DEFINE t == Append(segs, s)
  <1>1. /\ t \in Seq(Segments) /\ Len(t) = Len(segs) + 1
        /\ \A i \in 1..Len(segs) : t[i] = segs[i]
        /\ t[Len(segs) + 1] = s
    OBVIOUS
  <1>2. ASSUME NEW x PROVE x \in Cover(t) <=> x \in Cover(segs) \/ x \in s.start .. s.end
    <2>1. x \in Cover(t) <=> \E i \in 1..Len(t) : x \in t[i].start .. t[i].end
      BY <1>1, CoverMember, Zenon
    <2>2. x \in Cover(segs) <=> \E i \in 1..Len(segs) : x \in segs[i].start .. segs[i].end
      BY CoverMember
    <2>3. \A i \in 1..Len(t) : i \in 1..Len(segs) \/ i = Len(segs) + 1
      BY <1>1
    <2>4. Len(segs) + 1 \in 1..Len(t) /\ \A i \in 1..Len(segs) : i \in 1..Len(t)
      BY <1>1
    <2> HIDE DEF t
    <2> QED BY <1>1, <2>1, <2>2, <2>3, <2>4
  <1> QED BY <1>2

\* When every node ends before cur starts, append_segment absorbs nothing and
\* links cur as the new tail.
LEMMA AppendBeyond ==
    ASSUME NEW c \in SegmentsCtx,
           \A i \in 1..Len(c.segments) : /\ c.segments[i].start <= c.segments[i].end
                                         /\ c.segments[i].end < c.cur.start
    PROVE  append_segment(c) = [c EXCEPT !.segments = Append(@, c.cur),
                                         !.nof = @ + 1,
                                         !.linked = TRUE]
  <1>1. ASSUME NEW i \in 1..Len(c.segments) PROVE ~Absorbs(c.segments[i], c.cur)
    <2>1. c.segments[i] \in Segments /\ c.cur \in Segments
      BY DEF SegmentsCtx
    <2> QED BY <2>1 DEF Absorbs, StartsInside, Segments
  <1>2. AbsorbedBy(c) = 0
    <2>1. DOMAIN c.segments = 1 .. Len(c.segments)
      BY DEF SegmentsCtx
    <2>2. {i \in DOMAIN c.segments : Absorbs(c.segments[i], c.cur)} = {}
      BY <1>1, <2>1
    <2> QED BY <2>2 DEF AbsorbedBy
  <1> QED BY <1>2 DEF append_segment

\* A separated list stays separated when a real segment beyond it is appended.
LEMMA SeparatedAppend ==
    ASSUME NEW segs \in Seq(Segments), NEW s \in RealSegments, Separated(segs),
           \A i \in 1..Len(segs) : segs[i].end + 1 < s.start
    PROVE  Separated(Append(segs, s))
  <1> DEFINE t == Append(segs, s)
  <1>1. /\ Len(t) = Len(segs) + 1 /\ DOMAIN t = 1..Len(t) /\ DOMAIN segs = 1..Len(segs)
        /\ Len(segs) \in Nat
        /\ \A i \in 1..Len(segs) : t[i] = segs[i]
        /\ t[Len(segs) + 1] = s
    BY DEF RealSegments
  <1> HIDE DEF t
  <1>2. \A i \in DOMAIN t : i \in DOMAIN segs \/ i = Len(segs) + 1
    BY <1>1
  <1>3. \A i \in DOMAIN t : t[i].start <= t[i].end
    BY <1>1, <1>2 DEF Separated, RealSegments
  <1>4. ASSUME NEW i \in DOMAIN t, NEW j \in DOMAIN t, i < j
        PROVE  t[i].end + 1 < t[j].start
    <2>1. i \in DOMAIN segs
      BY <1>1, <1>4
    <2> QED BY <1>1, <1>2, <1>4, <2>1 DEF Separated
  <1> QED BY <1>3, <1>4 DEF Separated, t

----------------------------------------------------------------------------
(* update_segments_range and close_segments on a list that is being built. *)

\* append_segment of a segment under construction links it.
LEMMA LinkCur ==
    ASSUME NEW c, Building(c), c.cur # NoSegment
    PROVE  /\ append_segment(c) = [c EXCEPT !.segments = Append(@, c.cur), !.nof = @ + 1, !.linked = TRUE]
           /\ Append(c.segments, c.cur) \in Seq(Segments)
           /\ Len(Append(c.segments, c.cur)) = Len(c.segments) + 1
           /\ Separated(Append(c.segments, c.cur))
           /\ Cover(Append(c.segments, c.cur)) = Claims(c)
<1>1. /\ c \in SegmentsCtx /\ c.segments \in Seq(Segments) /\ c.cur \in Segments /\ c.cur \in RealSegments
      /\ Separated(c.segments) /\ DOMAIN c.segments = 1 .. Len(c.segments)
      /\ \A i \in 1 .. Len(c.segments) : c.segments[i].end + 1 < c.cur.start
  BY DEF Building, SegmentsCtx, RealSegments
<1>2. ASSUME NEW i \in 1 .. Len(c.segments)
      PROVE  c.segments[i].start <= c.segments[i].end /\ c.segments[i].end < c.cur.start
  <2>1. c.segments[i] \in Segments
    BY <1>1
  <2>2. c.segments[i].end \in Nat /\ c.cur.start \in Nat
    BY <1>1, <2>1 DEF Segments
  <2>3. c.segments[i].start <= c.segments[i].end
    BY <1>1 DEF Separated
  <2> QED BY <1>1, <2>2, <2>3
<1>3. append_segment(c) = [c EXCEPT !.segments = Append(@, c.cur), !.nof = @ + 1, !.linked = TRUE]
  BY <1>1, <1>2, AppendBeyond, Zenon
<1>4. Separated(Append(c.segments, c.cur))
  BY <1>1, SeparatedAppend
<1>5. Cover(Append(c.segments, c.cur)) = Claims(c)
  BY <1>1, CoverAppend DEF Claims
<1>6. Append(c.segments, c.cur) \in Seq(Segments) /\ Len(Append(c.segments, c.cur)) = Len(c.segments) + 1
  BY <1>1
<1> QED BY <1>3, <1>4, <1>5, <1>6, Zenon

\* close_segments claims what was claimed before, in a well-formed list.
LEMMA CloseBuilt ==
    ASSUME NEW c, Building(c)
    PROVE  LET d == close_segments(c) IN
           /\ d \in SegmentsCtx /\ Separated(d.segments) /\ d.nof = Len(d.segments) /\ d.freed = FALSE
           /\ Cover(d.segments) = Claims(c)
<1> DEFINE d == close_segments(c)
<1>1. CASE c.cur = NoSegment
  <2>1. d = c
    BY <1>1 DEF close_segments
  <2>2. c.cur.start .. c.cur.end = {}
    BY <1>1 DEF NoSegment, Segment
  <2>3. Cover(c.segments) = Claims(c)
    BY <2>2, Zenon DEF Claims
  <2> QED BY <2>1, <2>3 DEF Building
<1>2. CASE c.cur # NoSegment
  <2> DEFINE t == Append(c.segments, c.cur)
             n == c.nof + 1
  <2>1. /\ d = [c EXCEPT !.segments = t, !.nof = n, !.linked = TRUE]
        /\ t \in Seq(Segments) /\ Len(t) = Len(c.segments) + 1 /\ Separated(t) /\ Cover(t) = Claims(c)
    BY <1>2, LinkCur, Zenon DEF close_segments
  <2>2. c \in SegmentsCtx /\ c.nof \in Nat /\ c.nof = Len(c.segments) /\ c.freed = FALSE
    BY DEF Building, SegmentsCtx
  <2>3. n \in Nat /\ n = Len(t)
    BY <2>1, <2>2
  <2> HIDE DEF t, n, d
  <2>4. d \in SegmentsCtx /\ d.segments = t /\ d.nof = n /\ d.freed = FALSE
    BY <2>1, <2>2, <2>3, Zenon DEF SegmentsCtx
  <2>5. /\ d \in SegmentsCtx /\ Separated(d.segments) /\ d.nof = Len(d.segments) /\ d.freed = FALSE
        /\ Cover(d.segments) = Claims(c)
    BY <2>1, <2>3, <2>4
  <2> QED BY <2>5 DEF d
<1> QED BY <1>1, <1>2, Zenon

\* Arithmetic of three segments in a row.
LEMMA Between ==
    ASSUME NEW a \in Nat, NEW b \in Nat, NEW c \in Nat, NEW d \in Nat, a + 1 < b, b <= c, c + 1 < d
    PROVE  a + 1 < d
  OBVIOUS

\* A segment beyond the current one: the current one is linked and X (the new
\* segment, or NULL without memory) takes its place.
LEMMA BeyondCur ==
    ASSUME NEW c, Building(c), c.cur # NoSegment, NEW X \in Segments,
           X # NoSegment => X \in RealSegments /\ c.cur.end + 1 < X.start
    PROVE  LET d == [append_segment(c) EXCEPT !.cur = X, !.linked = FALSE] IN
           /\ Building(d) /\ d.cur = X /\ d.started = c.started
           /\ Cover(d.segments) = Claims(c)
<1> DEFINE d == [append_segment(c) EXCEPT !.cur = X, !.linked = FALSE]
           t == Append(c.segments, c.cur)
           n == c.nof + 1
<1>1. /\ d = [[c EXCEPT !.segments = t, !.nof = n, !.linked = TRUE] EXCEPT !.cur = X, !.linked = FALSE]
      /\ t \in Seq(Segments) /\ Len(t) = Len(c.segments) + 1 /\ Separated(t) /\ Cover(t) = Claims(c)
  BY LinkCur, Zenon
<1>2. /\ c \in SegmentsCtx /\ c.nof \in Nat /\ c.nof = Len(c.segments) /\ c.freed = FALSE
      /\ c.started \in BOOLEAN /\ c.segments \in Seq(Segments) /\ c.cur \in Segments
      /\ c.cur \in RealSegments /\ (\A i \in 1 .. Len(c.segments) : c.segments[i].end + 1 < c.cur.start)
  BY DEF Building, SegmentsCtx, RealSegments
<1>s. c.started # FALSE
  BY Zenon DEF Building
<1>3. n \in Nat /\ n = Len(t)
  BY <1>1, <1>2
<1>4. ASSUME X # NoSegment, NEW i \in 1 .. Len(t)
      PROVE  t[i].end + 1 < X.start
  <2>1. c.cur.start \in Nat /\ c.cur.end \in Nat /\ c.cur.start <= c.cur.end /\ X.start \in Nat
    BY <1>2 DEF Segments, RealSegments
  <2>2. CASE i = Len(c.segments) + 1
    <3>1. t[i] = c.cur
      BY <1>2, <2>2
    <3> QED BY <1>4, <3>1
  <2>3. CASE i # Len(c.segments) + 1
    <3>1. i \in 1 .. Len(c.segments) /\ t[i] = c.segments[i] /\ c.segments[i] \in Segments
      BY <1>1, <1>2, <2>3
    <3>2. c.segments[i].end \in Nat /\ c.segments[i].end + 1 < c.cur.start /\ c.cur.end + 1 < X.start
      BY <1>2, <1>4, <3>1, Zenon DEF Segments
    <3>3. c.segments[i].end + 1 < X.start
      BY <2>1, <3>2, Between, Zenon
    <3> QED BY <3>1, <3>3
  <2> QED BY <2>2, <2>3
<1> HIDE DEF t, n, d
<1>5. /\ d \in SegmentsCtx /\ d.segments = t /\ d.nof = n /\ d.freed = FALSE /\ d.linked = FALSE
      /\ d.cur = X /\ d.started = c.started
  BY <1>1, <1>2, <1>3, Zenon DEF SegmentsCtx
<1>6. Building(d)
  BY <1>1, <1>s, <1>3, <1>4, <1>5 DEF Building
<1>7. Cover(d.segments) = Claims(c)
  BY <1>1, <1>5
<1> QED BY <1>5, <1>6, <1>7 DEF d

\* update_segments_range with memory, for a segment that starts at or after the
\* current one: it is claimed, and nothing else.
LEMMA UpdateClaims ==
    ASSUME NEW c, Building(c), NEW r \in RealSegments,
           c.started # FALSE => c.cur # NoSegment /\ c.cur.start <= r.start
    PROVE  LET d == update_segments_range(c, r.start, r.end, TRUE) IN
           /\ Building(d) /\ d.started = TRUE /\ d.cur # NoSegment /\ d.cur.start <= r.start
           /\ Claims(d) = Claims(c) \cup (r.start .. r.end)
<1> DEFINE d == update_segments_range(c, r.start, r.end, TRUE)
           X == Segment(r.start, r.end)
<1>1. /\ c \in SegmentsCtx /\ c.nof \in Nat /\ c.nof = Len(c.segments) /\ c.freed = FALSE /\ c.linked = FALSE
      /\ c.started \in BOOLEAN /\ c.segments \in Seq(Segments) /\ c.cur \in Segments
      /\ r.start \in Nat /\ r.end \in Nat /\ r.start <= r.end
      /\ Separated(c.segments)
  BY DEF Building, SegmentsCtx, RealSegments, Segments
<1>2. X \in Segments /\ X \in RealSegments /\ X.start = r.start /\ X.end = r.end /\ X # NoSegment
  BY <1>1 DEF Segment, Segments, RealSegments, NoSegment
<1>3. CASE c.started = FALSE
  <2>1. c.segments = <<>> /\ c.cur = NoSegment
    BY <1>3 DEF Building
  <2>2. d = [c EXCEPT !.nof = 0, !.started = TRUE, !.cur = X, !.linked = FALSE]
    BY <1>3 DEF update_segments_range, malloc_segment
  <2> HIDE DEF d, X
  <2>3. /\ d \in SegmentsCtx /\ d.segments = <<>> /\ d.nof = 0 /\ d.linked = FALSE /\ d.freed = FALSE
        /\ d.started = TRUE /\ d.cur = X
    BY <1>1, <1>2, <2>1, <2>2, Zenon DEF SegmentsCtx
  <2>4. Building(d)
    BY <1>2, <2>3 DEF Building, Separated
  <2>5. Claims(c) = {} /\ Claims(d) = r.start .. r.end
    <3>1. Cover(<<>>) = {} /\ NoSegment.start .. NoSegment.end = {}
      BY DEF Cover, NoSegment, Segment
    <3>2. Claims(c) = {} 
      BY <2>1, <3>1, Zenon DEF Claims
    <3>3. Claims(d) = {} \cup (X.start .. X.end)
      BY <2>3, <3>1, Zenon DEF Claims
    <3> QED BY <1>2, <3>2, <3>3
  <2>6. d.cur # NoSegment /\ d.cur.start <= r.start
    BY <1>1, <1>2, <2>3
  <2>7. Claims(d) = Claims(c) \cup (r.start .. r.end)
    BY <2>5
  <2> QED BY <2>3, <2>4, <2>6, <2>7, Zenon DEF d
<1>4. CASE c.started # FALSE /\ c.cur.end + 1 >= r.start
  <2>1. /\ c.started = TRUE /\ c.cur # NoSegment /\ c.cur.start <= r.start /\ c.cur \in RealSegments
        /\ c.cur.start \in Nat /\ c.cur.end \in Nat /\ c.cur.start <= c.cur.end
    BY <1>1, <1>4 DEF Building, RealSegments, Segments
  <2>2. CASE c.cur.end >= r.end
    <3>1. d = c
      BY <1>4, <2>1, <2>2, Zenon DEF update_segments_range
    <3>2. r.start .. r.end \subseteq c.cur.start .. c.cur.end
      BY <1>1, <2>1, <2>2
    <3>3. Claims(c) = Claims(c) \cup (r.start .. r.end)
      BY <3>2 DEF Claims
    <3> QED BY <2>1, <3>1, <3>3, Zenon
  <2>3. CASE ~(c.cur.end >= r.end)
    <3> DEFINE Y == [c.cur EXCEPT !.end = r.end]
    <3>1. d = [c EXCEPT !.cur = Y]
      <4>1. d = ExtendCur(c, r.end)
        BY <1>4, <2>1, <2>3, Zenon DEF update_segments_range
      <4>2. ExtendCur(c, r.end) = [c EXCEPT !.cur.end = r.end, !.segments = @]
        BY <1>1, Zenon DEF ExtendCur
      <4> QED BY <1>1, <4>1, <4>2, Zenon DEF SegmentsCtx
    <3>2. Y \in Segments /\ Y.start = c.cur.start /\ Y.end = r.end
      BY <1>1 DEF Segments
    <3> HIDE DEF d, Y
    <3>3. /\ d \in SegmentsCtx /\ d.segments = c.segments /\ d.nof = c.nof /\ d.linked = FALSE
          /\ d.freed = FALSE /\ d.started = TRUE /\ d.cur = Y
      BY <1>1, <2>1, <3>1, <3>2 DEF SegmentsCtx
    <3>4. Y \in RealSegments /\ Y # NoSegment
      BY <1>1, <2>1, <3>2 DEF RealSegments, NoSegment, Segment
    <3>5. Building(d)
      BY <1>1, <2>1, <3>2, <3>3, <3>4 DEF Building
    <3>6. Y.start .. Y.end = (c.cur.start .. c.cur.end) \cup (r.start .. r.end)
      BY <1>1, <1>4, <2>1, <2>3, <3>2
    <3>7. Claims(d) = Claims(c) \cup (r.start .. r.end)
      BY <3>3, <3>6, Zenon DEF Claims
    <3> QED BY <2>1, <3>2, <3>3, <3>4, <3>5, <3>7, Zenon DEF d
  <2> QED BY <2>2, <2>3, Zenon
<1>5. CASE c.started # FALSE /\ ~(c.cur.end + 1 >= r.start)
  <2>1. c.cur # NoSegment /\ c.cur.end \in Nat
    BY <1>1, <1>5 DEF Segments
  <2>2. d = [append_segment(c) EXCEPT !.cur = X, !.linked = FALSE]
    BY <1>1, <1>5, Zenon DEF update_segments_range, malloc_segment
  <2>3. c.cur.end + 1 < X.start
    BY <1>1, <1>2, <1>5, <2>1
  <2> HIDE DEF X, d
  <2>4. Building(d) /\ d.cur = X /\ d.started = c.started /\ Cover(d.segments) = Claims(c)
    BY <1>2, <2>1, <2>2, <2>3, BeyondCur, Zenon
  <2>5. Claims(d) = Claims(c) \cup (r.start .. r.end)
    BY <1>2, <2>4, Zenon DEF Claims
  <2>6. d.cur # NoSegment /\ d.cur.start <= r.start
    BY <1>1, <1>2, <2>4
  <2>7. d.started = TRUE
    BY <1>1, <1>5, <2>4, Zenon
  <2> QED BY <2>4, <2>5, <2>6, <2>7, Zenon DEF d
<1> QED BY <1>3, <1>4, <1>5, Zenon

\* Without memory nothing more is claimed, and there is no current segment.
LEMMA UpdateNoMemory ==
    ASSUME NEW c, Building(c), NEW r \in RealSegments,
           c.started # FALSE => c.cur # NoSegment,
           Allocates(c, r.start)
    PROVE  LET d == update_segments_range(c, r.start, r.end, FALSE) IN
           Building(d) /\ d.started = TRUE /\ d.cur = NoSegment /\ Claims(d) = Claims(c)
<1> DEFINE d == update_segments_range(c, r.start, r.end, FALSE)
<1>1. /\ c \in SegmentsCtx /\ c.freed = FALSE /\ c.started \in BOOLEAN
      /\ c.cur \in Segments /\ c.cur.end \in Nat /\ r.start \in Nat
  BY DEF Building, SegmentsCtx, RealSegments, Segments
<1>2. NoSegment \in Segments /\ NoSegment.start .. NoSegment.end = {}
  BY DEF NoSegment, Segment, Segments
<1>3. CASE c.started = FALSE
  <2>1. c.segments = <<>> /\ c.cur = NoSegment
    BY <1>3 DEF Building
  <2>2. d = [c EXCEPT !.nof = 0, !.started = TRUE, !.cur = NoSegment, !.linked = FALSE]
    BY <1>3 DEF update_segments_range, malloc_segment
  <2> HIDE DEF d
  <2>3. /\ d \in SegmentsCtx /\ d.segments = <<>> /\ d.nof = 0 /\ d.linked = FALSE /\ d.freed = FALSE
        /\ d.started = TRUE /\ d.cur = NoSegment
    BY <1>1, <1>2, <2>1, <2>2, Zenon DEF SegmentsCtx
  <2>4. Building(d)
    BY <2>3 DEF Building, Separated
  <2> QED BY <2>1, <2>3, <2>4, Zenon DEF d, Claims
<1>4. CASE c.started # FALSE
  <2>0. c.started = TRUE /\ c.cur # NoSegment
    BY <1>1, <1>4, Zenon
  <2>1. ~(c.cur.end + 1 >= r.start)
    <3>1. c.cur.end + 1 < r.start
      BY <2>0, Zenon DEF Allocates
    <3> QED BY <1>1, <3>1
  <2>2. d = [append_segment(c) EXCEPT !.cur = NoSegment, !.linked = FALSE]
    BY <2>0, <2>1, Zenon DEF update_segments_range, malloc_segment
  <2> HIDE DEF d
  <2>3. Building(d) /\ d.cur = NoSegment /\ d.started = c.started /\ Cover(d.segments) = Claims(c)
    BY <1>2, <2>0, <2>2, BeyondCur, Zenon
  <2>4. Claims(d) = Claims(c)
    <3>1. Claims(d) = Cover(d.segments) \cup {}
      BY <1>2, <2>3, Zenon DEF Claims
    <3> QED BY <2>3, <3>1
  <2> QED BY <2>0, <2>3, <2>4, Zenon DEF d
<1> QED BY <1>3, <1>4, Zenon

\* A gap beyond those found so far is appended to the complement.
LEMMA AppendGap ==
    ASSUME NEW c \in SegmentsCtx, Separated(c.segments), NEW s \in Nat, NEW e \in Nat, s <= e,
           \A i \in 1 .. Len(c.segments) : c.segments[i].end + 1 < s
    PROVE  LET d == append_gap(c, s, e) IN
           /\ d \in SegmentsCtx /\ Separated(d.segments)
           /\ d.nof = c.nof + 1 /\ Len(d.segments) = Len(c.segments) + 1
           /\ Cover(d.segments) = Cover(c.segments) \cup (s .. e)
           /\ \A i \in 1 .. Len(d.segments) : d.segments[i].end <= e
<1> DEFINE X == Segment(s, e)
           b == [c EXCEPT !.cur = X, !.linked = FALSE]
           d == append_gap(c, s, e)
           t == Append(c.segments, X)
<1>1. X \in Segments /\ X \in RealSegments /\ X.start = s /\ X.end = e
  BY DEF Segment, Segments, RealSegments
<1>2. c.segments \in Seq(Segments) /\ c.nof \in Nat
  BY DEF SegmentsCtx
<1>3. d = append_segment(b)
  BY DEF append_gap
<1> HIDE DEF X
<1>4. b \in SegmentsCtx /\ b.segments = c.segments /\ b.cur = X /\ b.nof = c.nof
  BY <1>1, Zenon DEF SegmentsCtx
<1> HIDE DEF b, d
<1>5. ASSUME NEW i \in 1 .. Len(c.segments)
      PROVE  /\ c.segments[i].start <= c.segments[i].end /\ c.segments[i].end < s
             /\ c.segments[i].end \in Nat
  <2>1. c.segments[i] \in Segments
    BY <1>2
  <2>2. c.segments[i].end \in Nat
    BY <2>1 DEF Segments
  <2>3. c.segments[i].start <= c.segments[i].end
    BY <1>2 DEF Separated
  <2> QED BY <2>2, <2>3
<1>6. append_segment(b) = [b EXCEPT !.segments = Append(@, b.cur), !.nof = @ + 1, !.linked = TRUE]
  BY <1>1, <1>4, <1>5, AppendBeyond, Zenon
<1> DEFINE n == c.nof + 1
<1>7. d = [b EXCEPT !.segments = t, !.nof = n, !.linked = TRUE]
  BY <1>3, <1>4, <1>6, Zenon
<1>8. /\ t \in Seq(Segments) /\ n \in Nat /\ Len(t) = Len(c.segments) + 1
      /\ Separated(t) /\ Cover(t) = Cover(c.segments) \cup (s .. e)
  BY <1>1, <1>2, SeparatedAppend, CoverAppend
<1>9. ASSUME NEW i \in 1 .. Len(t) PROVE t[i].end <= e
  <2>1. CASE i = Len(c.segments) + 1
    <3>1. t[i] = X
      BY <1>2, <2>1
    <3> QED BY <1>1, <3>1
  <2>2. CASE i # Len(c.segments) + 1
    <3>1. i \in 1 .. Len(c.segments) /\ t[i] = c.segments[i]
      BY <1>2, <1>8, <2>2
    <3> HIDE DEF t
    <3> QED BY <1>5, <3>1
  <2> QED BY <2>1, <2>2
<1> HIDE DEF t, n
<1>10. d \in SegmentsCtx /\ d.segments = t /\ d.nof = n
  BY <1>4, <1>7, <1>8, Zenon DEF SegmentsCtx
<1> QED BY <1>8, <1>9, <1>10 DEF d, n
----------------------------------------------------------------------------
\* The nodes of a separated list.
LEMMA Nodes ==
    ASSUME NEW segs \in Seq(Segments), Separated(segs)
    PROVE  /\ \A k \in 1 .. Len(segs) : /\ segs[k] \in RealSegments
                                        /\ segs[k].start \in Nat /\ segs[k].end \in Nat
                                        /\ segs[k].start <= segs[k].end
           /\ \A k, l \in 1 .. Len(segs) : k < l => segs[k].end + 1 < segs[l].start
<1>1. \A k \in 1 .. Len(segs) : segs[k] \in Segments /\ segs[k].start <= segs[k].end
  BY DEF Separated
<1>2. \A k, l \in 1 .. Len(segs) : k < l => segs[k].end + 1 < segs[l].start
  BY DEF Separated
<1> QED BY <1>1, <1>2 DEF RealSegments, Segments


\* The numbers of the nodes before node n.
Before(segs, n) == UNION {segs[k].start .. segs[k].end : k \in 1 .. n - 1}

\* Walking over a node.
LEMMA BeforeNext ==
    ASSUME NEW segs \in Seq(Segments), NEW n \in 1 .. Len(segs)
    PROVE  Before(segs, n + 1) = Before(segs, n) \cup (segs[n].start .. segs[n].end)
<1>1. n \in Nat /\ \A k \in Int : k \in 1 .. (n + 1) - 1 <=> k \in 1 .. n - 1 \/ k = n
  OBVIOUS
<1> QED BY <1>1 DEF Before

\* Before the first node there is nothing, past the last one is all.
LEMMA BeforeEnds ==
    ASSUME NEW segs \in Seq(Segments)
    PROVE  Before(segs, 1) = {} /\ Before(segs, Len(segs) + 1) = Cover(segs)
<1>1. 1 .. 1 - 1 = {} /\ 1 .. (Len(segs) + 1) - 1 = DOMAIN segs
  OBVIOUS
<1> QED BY <1>1 DEF Before, Cover

----------------------------------------------------------------------------
(* get_complement_segment, node by node.                                   *)

Walks == [out : SegmentsCtx, seg_start : Nat, seg_end : Nat]

\* The walk over segs is at node i: nothing was found yet, and nothing will be
\* in a list whose first node goes from 0 to the end; or all that is missing up
\* to seg_start was found.
Walked(w, segs, i, end) ==
    /\ w \in Walks
    /\ Separated(w.out.segments) /\ w.out.nof = Len(w.out.segments)
    /\ \/ /\ w.seg_start = 0 /\ w.seg_end = 0 /\ w.out.segments = <<>>
          /\ i = 1 \/ (i = 2 /\ Len(segs) = 1 /\ segs[1].start = 0 /\ segs[1].end + 1 >= end)
       \/ /\ i > 1 /\ w.seg_start = segs[i - 1].end + 1
          /\ w.seg_end < w.seg_start
          /\ \A k \in 1 .. Len(w.out.segments) : w.out.segments[k].end + 1 < w.seg_start
          /\ Cover(w.out.segments) = (0 .. w.seg_start - 1) \ Cover(segs)

\* An empty list.
LEMMA EmptyList ==
    /\ init_segments_ctx \in SegmentsCtx /\ init_segments_ctx.segments = <<>>
    /\ init_segments_ctx.nof = 0 /\ init_segments_ctx.freed = FALSE /\ init_segments_ctx.linked = FALSE
    /\ init_segments_ctx.started = FALSE /\ init_segments_ctx.cur = NoSegment
    /\ <<>> \in Seq(Segments) /\ Len(<<>>) = 0 /\ Separated(<<>>) /\ Cover(<<>>) = {}
<1>1. NoSegment \in Segments /\ <<>> \in Seq(Segments) /\ Len(<<>>) = 0 /\ Separated(<<>>)
  BY DEF NoSegment, Segment, Segments, Separated
<1>2. Cover(<<>>) = {}
  BY DEF Cover
<1> QED BY <1>1, <1>2 DEF init_segments_ctx, SegmentsCtx

\* The locals of get_complement_segment when it starts.
LEMMA WalkStarts == ASSUME NEW segs, NEW end PROVE Walked(complement_start, segs, 1, end)
  BY EmptyList DEF complement_start, Walked, Walks

\* A turn of the loop, for node i.
LEMMA WalkNext ==
    ASSUME NEW segs \in Seq(Segments), Separated(segs), NEW end \in Nat, Cover(segs) \subseteq 0 .. end,
           NEW i \in 1 .. Len(segs), NEW w, Walked(w, segs, i, end)
    PROVE  Walked(complement_node(w, segs[i], 0, end), segs, i + 1, end)
<1> DEFINE r == segs[i]
           s == w.seg_start
           v == complement_node(w, r, 0, end)
<1>f. /\ segs \in Seq(Segments) /\ Separated(segs) /\ Cover(segs) \subseteq 0 .. end
      /\ w \in Walks /\ w.out \in SegmentsCtx /\ w.out.segments \in Seq(Segments)
      /\ w.seg_start \in Nat /\ w.seg_end \in Nat
  BY DEF Walked, Walks, SegmentsCtx
<1>0. /\ i \in Nat /\ 1 <= i /\ i <= Len(segs) /\ Len(segs) \in Nat /\ end \in Nat /\ s \in Nat
  BY <1>f
<1>1. v = complement_node(w, r, 0, end)
  OBVIOUS
<1>2. i \in 1 .. Len(segs) /\ (i + 1) - 1 = i /\ (i + 1) > 1
  BY <1>0
<1>3. /\ r \in RealSegments /\ r.start \in Nat /\ r.end \in Nat /\ r.start <= r.end
      /\ \A k \in 1 .. Len(segs) : k < i => segs[k].end + 1 < r.start
      /\ \A k \in 1 .. Len(segs) : k > i => r.end + 1 < segs[k].start
      /\ \A k \in 1 .. Len(segs) : segs[k].start \in Nat /\ segs[k].end \in Nat /\ segs[k].start <= segs[k].end
  BY <1>2, Nodes
<1> SUFFICES Walked(v, segs, i + 1, end)
  OBVIOUS
<1> HIDE DEF v
<1>4. r.end <= end
  <2>1. r.end \in r.start .. r.end
    BY <1>3
  <2>2. r.end \in Cover(segs)
    BY <1>2, <2>1, <1>f, CoverMember
  <2> QED BY <2>2, <1>f
<1>5. \A x \in Nat : x \in r.start .. r.end => x \in Cover(segs)
  BY <1>2, <1>f, CoverMember
<1> HIDE DEF r
<1>6. Separated(w.out.segments) /\ w.out.nof = Len(w.out.segments)
  BY DEF Walked
<1>7. CASE w.seg_start = 0 /\ w.seg_end = 0 /\ w.out.segments = <<>> /\ i = 1 /\ r.start = 0
  <2>1. \A x \in Nat : x <= r.end => x \in Cover(segs)
    BY <1>3, <1>5, <1>7
  <2>2. CASE r.end + 1 < end
    <3>1. v = [w EXCEPT !.seg_start = r.end + 1]
      BY <1>1, <1>7, <2>2 DEF complement_node
    <3>2. /\ v.out = w.out /\ v.seg_start = r.end + 1 /\ v.seg_end = 0
          /\ v \in Walks
      <4>1. w \in Walks /\ r.end + 1 \in Nat
        BY <1>3, <1>f
      <4> QED BY <1>7, <3>1, <4>1 DEF Walks
    <3>3. Cover(v.out.segments) = (0 .. v.seg_start - 1) \ Cover(segs)
      <4>1. Cover(<<>>) = {}
        BY DEF Cover
      <4>2. (0 .. r.end) \ Cover(segs) = {}
        BY <1>3, <2>1
      <4>3. v.seg_start - 1 = r.end
        BY <1>3, <3>2
      <4> QED BY <1>7, <3>2, <4>1, <4>2, <4>3
    <3>4. v.seg_end < v.seg_start /\ v.out.segments = <<>> /\ v.seg_start = segs[i].end + 1
      BY <1>3, <1>7, <3>2 DEF r
    <3> QED BY <1>2, <1>6, <1>7, <3>2, <3>3, <3>4 DEF Walked
  <2>3. CASE ~(r.end + 1 < end)
    <3>1. v = w
      BY <1>1, <1>7, <2>3 DEF complement_node
    <3>2. Len(segs) = 1
      <4>1. ASSUME Len(segs) # 1 PROVE FALSE
        <5>1. 2 \in 1 .. Len(segs)
          <6> DEFINE L == Len(segs)
          <6>1. L \in Nat /\ 1 <= L /\ L # 1
            BY <1>0, <4>1
          <6> HIDE DEF L
          <6>2. 2 \in 1 .. L
            BY <6>1
          <6> QED BY <6>2 DEF L
        <5>2. segs[2].start \in Nat /\ segs[2].start > r.end + 1 /\ segs[2].start <= segs[2].end /\ segs[2].end \in Nat
          BY <1>3, <1>7, <5>1
        <5>3. segs[2].start \in Cover(segs)
          <6>1. segs[2].start \in segs[2].start .. segs[2].end
            BY <5>2
          <6> QED BY <5>1, <6>1, <1>f, CoverMember
        <5>4. segs[2].start <= end
          BY <5>3, <1>f
        <5> QED BY <1>0, <1>3, <2>3, <5>2, <5>4
      <4> QED BY <4>1
    <3>3. i + 1 = 2 /\ segs[1].start = 0 /\ segs[1].end + 1 >= end
      BY <1>0, <1>3, <1>7, <2>3 DEF r
    <3> QED BY <1>6, <1>7, <1>f, <3>1, <3>2, <3>3 DEF Walked
  <2> QED BY <2>2, <2>3
<1>8. CASE /\ s < r.start
           /\ \/ w.seg_start = 0 /\ w.out.segments = <<>> /\ i = 1
              \/ /\ i > 1 /\ w.seg_start = segs[i - 1].end + 1
                 /\ \A k \in 1 .. Len(w.out.segments) : w.out.segments[k].end + 1 < w.seg_start
                 /\ Cover(w.out.segments) = (0 .. w.seg_start - 1) \ Cover(segs)
  <2> DEFINE d == append_gap(w.out, s, r.start - 1)
  <2>1. /\ s \in Nat /\ r.start > 0 /\ r.start - 1 \in Nat /\ s <= r.start - 1
        /\ \A k \in 1 .. Len(w.out.segments) : w.out.segments[k].end + 1 < s
        /\ Cover(w.out.segments) = (0 .. s - 1) \ Cover(segs)
    <3>1. s \in Nat /\ r.start > 0 /\ r.start - 1 \in Nat /\ s <= r.start - 1
      BY <1>0, <1>3, <1>8
    <3>2. CASE w.seg_start = 0 /\ w.out.segments = <<>>
      <4>1. Cover(<<>>) = {} /\ 0 .. 0 - 1 = {} /\ Len(<<>>) = 0
        BY DEF Cover
      <4> QED BY <3>1, <3>2, <4>1
    <3> QED BY <1>8, <3>1, <3>2
  <2>2. v = [out |-> d, seg_start |-> r.end + 1, seg_end |-> r.start - 1]
    BY <1>1, <1>3, <2>1 DEF complement_node
  <2> HIDE DEF s
  <2>3. /\ d \in SegmentsCtx /\ Separated(d.segments)
        /\ d.nof = w.out.nof + 1 /\ Len(d.segments) = Len(w.out.segments) + 1
        /\ Cover(d.segments) = Cover(w.out.segments) \cup (s .. r.start - 1)
        /\ \A k \in 1 .. Len(d.segments) : d.segments[k].end <= r.start - 1
    BY <1>6, <2>1, <1>f, AppendGap, Zenon
  <2> HIDE DEF d
  <2>4. /\ v.out = d /\ v.seg_start = r.end + 1 /\ v.seg_end = r.start - 1
        /\ v \in Walks
    BY <1>3, <2>1, <2>2, <2>3 DEF Walks
  <2>5. \A x \in Nat : s <= x /\ x < r.start => x \notin Cover(segs)
    <3> SUFFICES ASSUME NEW x \in Nat, s <= x, x < r.start, x \in Cover(segs) PROVE FALSE
      OBVIOUS
    <3>1. PICK k \in 1 .. Len(segs) : x \in segs[k].start .. segs[k].end
      BY <1>f, CoverMember
    <3>2. k < i
      <4>1. CASE k = i
        BY <1>3, <3>1, <4>1 DEF r
      <4>2. CASE k > i
        BY <1>3, <3>1, <4>2
      <4> QED BY <1>2, <4>1, <4>2
    <3>3. i > 1 /\ s = segs[i - 1].end + 1 /\ i - 1 \in 1 .. Len(segs)
      BY <1>2, <1>8, <3>2, <1>f DEF s
    <3>4. segs[k].end <= segs[i - 1].end
      <4>1. CASE k = i - 1
        BY <1>3, <3>1, <4>1
      <4>2. CASE k < i - 1
        <5>1. segs[k].end + 1 < segs[i - 1].start
          BY <3>3, <4>2, <1>f, Nodes
        <5>2. /\ segs[k].end \in Nat /\ segs[i - 1].start \in Nat /\ segs[i - 1].end \in Nat
              /\ segs[i - 1].start <= segs[i - 1].end
          BY <1>3, <3>3
        <5> QED BY <5>1, <5>2, SMTT(30)
      <4> QED BY <1>0, <3>2, <4>1, <4>2
    <3>5. segs[k].end \in Nat /\ segs[i - 1].end \in Nat /\ x <= segs[k].end
      BY <1>3, <3>1, <3>3
    <3> QED BY <3>3, <3>4, <3>5, SMTT(30)
  <2>6. ((0 .. s - 1) \ Cover(segs)) \cup (s .. r.start - 1) = (0 .. r.end) \ Cover(segs)
    <3>1. ASSUME NEW x \in Int
          PROVE  x \in ((0 .. s - 1) \ Cover(segs)) \cup (s .. r.start - 1) <=> x \in (0 .. r.end) \ Cover(segs)
      <4>1. CASE x < s
        BY <1>3, <2>1, <4>1
      <4>2. CASE s <= x /\ x < r.start
        BY <1>3, <2>1, <2>5, <4>2
      <4>3. CASE r.start <= x
        BY <1>3, <1>5, <2>1, <4>3
      <4> QED BY <1>3, <2>1, <4>1, <4>2, <4>3
    <3> QED BY <3>1
  <2>7. v.seg_start - 1 = r.end /\ v.seg_end < v.seg_start
        /\ \A k \in 1 .. Len(d.segments) : d.segments[k].end + 1 < v.seg_start
    <3>1. d.segments \in Seq(Segments)
      BY <2>3 DEF SegmentsCtx
    <3>2. \A k \in 1 .. Len(d.segments) : d.segments[k].end \in Nat
      <4>1. \A k \in 1 .. Len(d.segments) : d.segments[k] \in Segments
        BY <3>1
      <4> QED BY <4>1 DEF Segments
    <3>3. v.seg_start - 1 = r.end /\ v.seg_end < v.seg_start
      BY <1>3, <2>1, <2>4
    <3>4. ASSUME NEW k \in 1 .. Len(d.segments) PROVE d.segments[k].end + 1 < v.seg_start
      <4>1. d.segments[k].end \in Nat /\ d.segments[k].end <= r.start - 1
        BY <2>3, <3>2
      <4>2. r.start \in Nat /\ r.end \in Nat /\ r.start <= r.end
        BY <1>3
      <4> DEFINE x == d.segments[k].end
      <4>3. x \in Nat /\ x <= r.start - 1
        BY <4>1
      <4> HIDE DEF x
      <4>4. x + 1 < r.end + 1
        BY <4>2, <4>3
      <4> QED BY <2>4, <4>4 DEF x
    <3> QED BY <3>3, <3>4
  <2>8. Cover(v.out.segments) = (0 .. v.seg_start - 1) \ Cover(segs)
    BY <2>1, <2>3, <2>4, <2>6, <2>7
  <2>9. v.out.nof = Len(v.out.segments) /\ v.seg_start = segs[(i + 1) - 1].end + 1
    BY <1>2, <1>6, <2>3, <2>4 DEF r
  <2> QED BY <1>2, <2>3, <2>4, <2>7, <2>8, <2>9 DEF Walked
<1> QED
  <2>1. CASE i = 1
    <3>1. w.seg_start = 0 /\ w.seg_end = 0 /\ w.out.segments = <<>>
      BY <2>1, <1>f DEF Walked
    <3> QED BY <1>3, <1>7, <1>8, <2>1, <3>1
  <2>2. CASE i # 1
    <3>1. /\ i > 1 /\ w.seg_start = segs[i - 1].end + 1
          /\ \A k \in 1 .. Len(w.out.segments) : w.out.segments[k].end + 1 < w.seg_start
          /\ Cover(w.out.segments) = (0 .. w.seg_start - 1) \ Cover(segs)
      <4>1. i \in Nat /\ ~(i = 2 /\ Len(segs) = 1)
        <5> DEFINE L == Len(segs)
        <5>1. i \in Nat /\ i <= L
          BY <1>0
        <5> HIDE DEF L
        <5>2. i \in Nat /\ ~(i = 2 /\ L = 1)
          BY <5>1
        <5> QED BY <5>2 DEF L
      <4> QED BY <2>2, <4>1 DEF Walked
    <3>2. segs[i - 1].end + 1 < r.start
      <4>1. i - 1 \in 1 .. Len(segs) /\ i - 1 < i
        BY <1>0, <1>2, <3>1
      <4> QED BY <1>3, <4>1
    <3>3. w.seg_start < r.start
      BY <1>3, <3>1, <3>2
    <3> QED BY <1>8, <3>1, <3>3
  <2> QED BY <2>1, <2>2

\* What follows the loop: the complement is what is missing, with the two
\* exceptions of an empty list and of the last number alone.
LEMMA WalkEnds ==
    ASSUME NEW segs \in Seq(Segments), Separated(segs), NEW end \in Nat, Cover(segs) \subseteq 0 .. end,
           NEW w, Walked(w, segs, Len(segs) + 1, end)
    PROVE  LET d == complement_tail(w, end)
               M == (0 .. end) \ Cover(segs)
           IN  /\ d \in SegmentsCtx /\ Separated(d.segments) /\ d.nof = Len(d.segments)
               /\ Cover(d.segments) = IF segs = <<>> THEN {} ELSE IF end - 1 \in M THEN M ELSE M \ {end}
<1> DEFINE d == complement_tail(w, end)
           L == Len(segs)
           s == w.seg_start
           i == L + 1
<1>2. /\ L \in Nat /\ i = L + 1 /\ end \in Nat /\ s \in Nat /\ w.seg_end \in Nat
      /\ w.out \in SegmentsCtx /\ w.out.segments \in Seq(Segments)
      /\ segs \in Seq(Segments) /\ Separated(segs) /\ Cover(segs) \subseteq 0 .. end
  BY DEF Walked, Walks, SegmentsCtx
<1>3. Separated(w.out.segments) /\ w.out.nof = Len(w.out.segments) /\ Walked(w, segs, i, end)
  BY DEF Walked
<1> HIDE DEF i
<1>4. \A k \in 1 .. L : /\ segs[k].start \in Nat /\ segs[k].end \in Nat /\ segs[k].start <= segs[k].end
                        /\ \A x \in Nat : x \in segs[k].start .. segs[k].end => x \in Cover(segs)
  BY <1>2, Nodes, CoverMember
<1>e. L = 0 <=> segs = <<>>
  BY <1>2
<1>5. ASSUME L > 0, NEW x \in Nat, x > segs[L].end PROVE x \notin Cover(segs)
  <2> SUFFICES ASSUME x \in Cover(segs) PROVE FALSE
    OBVIOUS
  <2>1. PICK k \in 1 .. L : x \in segs[k].start .. segs[k].end
    BY <1>2, CoverMember
  <2>2. L \in 1 .. L
    BY <1>2, <1>5
  <2>3. CASE k = L
    BY <1>4, <1>5, <2>1, <2>2, <2>3
  <2>4. CASE k < L
    <3>1. segs[k].end + 1 < segs[L].start
      BY <1>2, <2>2, <2>4, Nodes
    <3> QED BY <1>4, <1>5, <2>1, <2>2, <3>1
  <2> QED BY <1>2, <2>3, <2>4
<1> DEFINE M == (0 .. end) \ Cover(segs)
           Goal == /\ d \in SegmentsCtx /\ Separated(d.segments) /\ d.nof = Len(d.segments)
                   /\ Cover(d.segments) = IF segs = <<>> THEN {} ELSE IF end - 1 \in M THEN M ELSE M \ {end}
<1>c. Cover(<<>>) = {}
  BY DEF Cover
<1>6. ASSUME s = 0, w.seg_end = 0, w.out.segments = <<>> PROVE Goal
  <2>1. d = w.out
    BY <1>6 DEF complement_tail
  <2>2. CASE L = 0
    BY <1>2, <1>3, <1>6, <1>c, <1>e, <2>1, <2>2
  <2>3. CASE L # 0
    <3>1. L = 1 /\ segs[1].start = 0 /\ segs[1].end + 1 >= end
      <4>1. i # 1 /\ L > 0
        BY <1>2, <2>3
      <4> HIDE DEF L
      <4>2. CASE i = 2 /\ Len(segs) = 1 /\ segs[1].start = 0 /\ segs[1].end + 1 >= end
        BY <4>2 DEF L
      <4>3. CASE i > 1 /\ s = segs[i - 1].end + 1
        <5>1. i - 1 \in 1 .. L
          BY <1>2, <4>1
        <5>2. segs[i - 1].end \in Nat
          BY <1>4, <5>1
        <5> QED BY <1>6, <4>3, <5>2
      <4> QED BY <1>3, <4>1, <4>2, <4>3 DEF Walked
    <3>2. segs[1].end \in Nat /\ \A x \in Nat : x <= segs[1].end => x \in Cover(segs)
      <4>1. 1 \in 1 .. L
        BY <3>1
      <4> QED BY <1>4, <3>1, <4>1
    <3>3. \A x \in 0 .. end : x # end => x \in Cover(segs)
      BY <1>2, <3>1, <3>2
    <3>4. M \ {end} = {}
      BY <3>3
    <3>5. end - 1 \in M => FALSE
      BY <1>2, <3>3
    <3> QED BY <1>3, <1>2, <1>6, <1>c, <1>e, <2>1, <2>3, <3>4, <3>5, Zenon
  <2> QED BY <2>2, <2>3
<1>7. ASSUME L > 0, s = segs[L].end + 1, w.seg_end < s,
             \A k \in 1 .. Len(w.out.segments) : w.out.segments[k].end + 1 < s,
             Cover(w.out.segments) = (0 .. s - 1) \ Cover(segs)
      PROVE  Goal
  <2>1. segs[L].end \in Nat /\ \A x \in Nat : x >= s => x \notin Cover(segs)
    <3>1. L \in 1 .. L
      BY <1>2, <1>7
    <3>2. segs[L].end \in Nat
      BY <1>4, <3>1
    <3> QED BY <1>5, <1>7, <3>2
  <2>2. s - 1 \in Cover(segs) /\ s - 1 \in Nat
    <3>1. L \in 1 .. L
      BY <1>2, <1>7
    <3>2. segs[L].end \in segs[L].start .. segs[L].end /\ s - 1 = segs[L].end
      BY <1>4, <1>7, <2>1, <3>1
    <3> QED BY <1>4, <2>1, <3>1, <3>2
  <2>3. s - 1 <= end
    BY <2>2, <1>2
  <2>4. CASE s < end
    <3>1. d = append_gap(w.out, s, end)
      BY <1>7, <2>4 DEF complement_tail
    <3>2. /\ d \in SegmentsCtx /\ Separated(d.segments) /\ d.nof = Len(d.segments)
          /\ Cover(d.segments) = Cover(w.out.segments) \cup (s .. end)
      <4>1. s <= end
        BY <1>2, <2>4
      <4>2. /\ w.out \in SegmentsCtx /\ Separated(w.out.segments) /\ s \in Nat /\ end \in Nat
            /\ \A k \in 1 .. Len(w.out.segments) : w.out.segments[k].end + 1 < s
        BY <1>2, <1>3, <1>7
      <4> HIDE DEF s, d
      <4> QED BY <1>3, <3>1, <4>1, <4>2, AppendGap, SMTT(30)
    <3>3. ((0 .. s - 1) \ Cover(segs)) \cup (s .. end) = M
      BY <1>2, <2>1, <2>4
    <3>4. end - 1 \in M
      BY <1>2, <2>1, <2>4
    <3> QED BY <1>7, <1>e, <3>2, <3>3, <3>4
  <2>5. CASE ~(s < end)
    <3>1. d = w.out
      BY <2>5 DEF complement_tail
    <3>2. (0 .. s - 1) \ Cover(segs) = IF end - 1 \in M THEN M ELSE M \ {end}
      <4>1. CASE s = end
        <5>1. end - 1 \notin M
          BY <1>2, <2>2, <4>1
        <5>2. (0 .. end - 1) \ Cover(segs) = ((0 .. end) \ Cover(segs)) \ {end}
          BY <1>2
        <5> QED BY <4>1, <5>1, <5>2
      <4>2. CASE s = end + 1
        <5>1. end \in Cover(segs) /\ s - 1 = end
          BY <1>2, <2>2, <4>2
        <5>2. M = M \ {end}
          BY <5>1
        <5> QED BY <5>1, <5>2
      <4> QED BY <1>2, <2>2, <2>3, <2>5, <4>1, <4>2
    <3>3. segs # <<>>
      BY <1>7, <1>e
    <3>4. Cover(d.segments) = IF end - 1 \in M THEN M ELSE M \ {end}
      BY <1>7, <3>1, <3>2, Zenon
    <3>5. d \in SegmentsCtx /\ Separated(d.segments) /\ d.nof = Len(d.segments)
      BY <1>2, <1>3, <3>1
    <3> HIDE DEF M, d
    <3> QED BY <3>3, <3>4, <3>5
  <2> QED BY <2>4, <2>5
<1>8. Goal
  <2>1. CASE i = 1
    <3>1. s = 0 /\ w.seg_end = 0 /\ w.out.segments = <<>>
      BY <1>3, <2>1 DEF Walked
    <3> QED BY <1>6, <3>1
  <2>2. CASE i # 1
    <3>1. L > 0 /\ i - 1 = L
      BY <1>2, <2>2
    <3> HIDE DEF L, Goal
    <3>2. \/ s = 0 /\ w.seg_end = 0 /\ w.out.segments = <<>>
          \/ /\ s = segs[i - 1].end + 1 /\ w.seg_end < s
             /\ \A k \in 1 .. Len(w.out.segments) : w.out.segments[k].end + 1 < s
             /\ Cover(w.out.segments) = (0 .. s - 1) \ Cover(segs)
      BY <1>3 DEF Walked
    <3> HIDE DEF s
    <3> QED BY <1>6, <1>7, <3>1, <3>2
  <2> QED BY <2>1, <2>2
<1> QED BY <1>8

----------------------------------------------------------------------------
(* Induction over the turns of a loop.  The library's induction rules take *)
(* a predicate as a parameter; these take a set.                           *)

\* A nonempty set of natural numbers has a least element.
LEMMA LeastNatural ==
    ASSUME NEW T \in SUBSET Nat, T # {}
    PROVE  \E m \in T : \A k \in T : m <= k
<1>1. IsWellFoundedOn(OpToRel(<, Nat), Nat)
  BY NatLessThanWellFounded, Zenon
<1>2. PICK m \in T : \A k \in T : ~(<<k, m>> \in OpToRel(<, Nat))
  BY <1>1, WFMin, Zenon
<1>3. \A k \in T : ~(k < m)
  BY <1>2, Zenon DEF OpToRel
<1> QED BY <1>3

\* What holds before the first turn, and after a turn if it held before, holds
\* after every turn.
LEMMA TurnInduction ==
    ASSUME NEW N \in Nat, NEW T, 0 \in T, \A n \in 1 .. N : n - 1 \in T => n \in T
    PROVE  \A n \in 0 .. N : n \in T
<1> SUFFICES ASSUME (0 .. N) \ T # {} PROVE FALSE
  OBVIOUS
<1>1. PICK m \in (0 .. N) \ T : \A k \in (0 .. N) \ T : m <= k
  <2>1. (0 .. N) \ T \in SUBSET Nat
    OBVIOUS
  <2> QED BY <2>1, LeastNatural, Zenon
<1>2. m \in 1 .. N /\ m - 1 \in 0 .. N /\ m - 1 < m
  BY <1>1
<1> QED BY <1>1, <1>2

\* The states of a loop of m turns, from start.
IsRun(w, m, W, start, turn) ==
    /\ w = [n \in 0 .. m |-> IF n = 0 THEN start ELSE turn[n][w[n - 1]]]
    /\ \A n \in 0 .. m : w[n] \in W[n]

\* A loop of N turns has a run: its turn n takes a member of W[n - 1] to one of
\* W[n].
LEMMA RunExists ==
    ASSUME NEW N \in Nat, NEW W, NEW start \in W[0], NEW turn,
           \A n \in 1 .. N : \A x \in W[n - 1] : turn[n][x] \in W[n]
    PROVE  \E w : IsRun(w, N, W, start, turn)
<1> DEFINE Run(m, w) == IsRun(w, m, W, start, turn)
           T == {m \in 0 .. N : \E w : Run(m, w)}
<1>1. 0 \in T
  <2> DEFINE w == [n \in 0 .. 0 |-> start]
  <2>1. \A n \in 0 .. 0 : w[n] = (IF n = 0 THEN start ELSE turn[n][w[n - 1]]) /\ w[n] \in W[n]
    OBVIOUS
  <2>2. Run(0, w)
    BY <2>1 DEF IsRun
  <2>3. 0 \in 0 .. N
    OBVIOUS
  <2> HIDE DEF Run
  <2> QED BY <2>2, <2>3
<1>2. ASSUME NEW m \in 1 .. N, m - 1 \in T PROVE m \in T
  <2>1. PICK w : Run(m - 1, w)
    BY <1>2
  <2> DEFINE v == [n \in 0 .. m |-> IF n = m THEN turn[m][w[m - 1]] ELSE w[n]]
  <2>2. ASSUME NEW n \in 0 .. m
        PROVE  v[n] = (IF n = 0 THEN start ELSE turn[n][v[n - 1]]) /\ v[n] \in W[n]
    <3>1. CASE n = m
      <4>1. m - 1 \in 0 .. m - 1 /\ m - 1 \in 0 .. m /\ m - 1 # m /\ n # 0
        BY <3>1
      <4>2. w[m - 1] \in W[m - 1]
        BY <2>1, <4>1, Zenon DEF IsRun
      <4>3. v[m - 1] = w[m - 1] /\ v[m] = turn[m][w[m - 1]]
        BY <4>1
      <4> HIDE DEF v
      <4> QED BY <3>1, <4>1, <4>2, <4>3
    <3>2. CASE n # m
      <4>1. n \in 0 .. m - 1 /\ v[n] = w[n]
        BY <3>2
      <4>2. w[n] = (IF n = 0 THEN start ELSE turn[n][w[n - 1]]) /\ w[n] \in W[n]
        BY <2>1, <4>1, Zenon DEF IsRun
      <4>3. n # 0 => v[n - 1] = w[n - 1]
        BY <4>1
      <4> QED BY <4>1, <4>2, <4>3
    <3> QED BY <3>1, <3>2
  <2>3. v = [n \in 0 .. m |-> IF n = 0 THEN start ELSE turn[n][v[n - 1]]]
    BY <2>2
  <2>4. Run(m, v)
    BY <2>2, <2>3, Zenon DEF IsRun
  <2>5. m \in 0 .. N
    OBVIOUS
  <2> HIDE DEF Run
  <2> QED BY <2>4, <2>5
<1>3. N \in T
  <2>1. N \in 0 .. N
    OBVIOUS
  <2> HIDE DEF T
  <2> QED BY <1>1, <1>2, <2>1, TurnInduction
<1> QED BY <1>3

----------------------------------------------------------------------------
(* get_complement_segment, the loading of a list and merge_segments, for   *)
(* lists of any length.                                                    *)

\* The walk of get_complement_segment over segs: its locals after each turn.
IsWalk(w, segs, end) ==
    w = [n \in 0 .. Len(segs) |-> IF n = 0 THEN complement_start
                                  ELSE complement_node(w[n - 1], segs[n], 0, end)]

\* get_complement_segment is what follows the last turn of its walk.
LEMMA ComplementRun ==
    ASSUME NEW c \in SegmentsCtx, Separated(c.segments), NEW end \in Nat,
           Cover(c.segments) \subseteq 0 .. end
    PROVE  \E w : /\ IsWalk(w, c.segments, end)
                  /\ get_complement_segment(c, 0, end) = complement_tail(w[Len(c.segments)], end)
                  /\ \A n \in 0 .. Len(c.segments) : Walked(w[n], c.segments, n + 1, end)
<1> DEFINE segs == c.segments
           N == Len(segs)
           walk[n \in 0 .. N] == IF n = 0 THEN complement_start
                                 ELSE complement_node(walk[n - 1], segs[n], 0, end)
           W == [n \in 0 .. N |-> {w \in Walks : Walked(w, segs, n + 1, end)}]
           turn == [n \in 1 .. N |-> [x \in W[n - 1] |-> complement_node(x, segs[n], 0, end)]]
<1>1. segs \in Seq(Segments) /\ N \in Nat /\ Separated(segs) /\ Cover(segs) \subseteq 0 .. end
  BY DEF SegmentsCtx
<1>2. get_complement_segment(c, 0, end) = complement_tail(walk[N], end)
  BY DEF get_complement_segment
<1> HIDE DEF segs, N
<1>3. complement_start \in W[0]
  <2>1. Walked(complement_start, segs, 0 + 1, end) /\ 0 \in 0 .. N
    BY <1>1, WalkStarts
  <2>2. complement_start \in Walks
    BY <2>1 DEF Walked
  <2> QED BY <2>1, <2>2
<1>4. ASSUME NEW n \in 1 .. N, NEW x \in W[n - 1]
      PROVE  complement_node(x, segs[n], 0, end) \in W[n] /\ turn[n][x] = complement_node(x, segs[n], 0, end)
  <2>1. n - 1 \in 0 .. N /\ n \in 0 .. N /\ (n - 1) + 1 = n
    BY <1>1
  <2>2. Walked(x, segs, n, end)
    BY <2>1
  <2>3. Walked(complement_node(x, segs[n], 0, end), segs, n + 1, end)
    BY <1>1, <2>2, WalkNext, Zenon DEF N
  <2>4. complement_node(x, segs[n], 0, end) \in Walks
    BY <2>3 DEF Walked
  <2> QED BY <2>1, <2>3, <2>4
<1>5. \E w : w = [n \in 0 .. N |-> IF n = 0 THEN complement_start
                                   ELSE complement_node(w[n - 1], segs[n], 0, end)]
  <2>1. \A n \in 1 .. N : \A x \in W[n - 1] : turn[n][x] \in W[n]
    BY <1>4, Zenon
  <2> HIDE DEF W, turn
  <2>2. PICK w : IsRun(w, N, W, complement_start, turn)
    BY <1>1, <1>3, <2>1, RunExists, Zenon
  <2>3. ASSUME NEW n \in 0 .. N, n # 0 PROVE turn[n][w[n - 1]] = complement_node(w[n - 1], segs[n], 0, end)
    <3>1. n \in 1 .. N /\ n - 1 \in 0 .. N
      BY <1>1, <2>3
    <3> QED BY <1>4, <2>2, <3>1 DEF IsRun
  <2>4. w = [n \in 0 .. N |-> IF n = 0 THEN complement_start
                              ELSE complement_node(w[n - 1], segs[n], 0, end)]
    BY <2>2, <2>3, Zenon DEF IsRun
  <2> QED BY <2>4, Zenon
<1>6. walk = [n \in 0 .. N |-> IF n = 0 THEN complement_start
                               ELSE complement_node(walk[n - 1], segs[n], 0, end)]
  BY <1>5, Zenon DEF walk
<1> HIDE DEF walk, turn
<1>7. \A n \in 0 .. N : walk[n] \in W[n]
  <2> DEFINE T == {n \in 0 .. N : walk[n] \in W[n]}
  <2>1. 0 \in T
    BY <1>1, <1>3, <1>6
  <2>2. ASSUME NEW n \in 1 .. N, n - 1 \in T PROVE n \in T
    <3>1. walk[n] = complement_node(walk[n - 1], segs[n], 0, end) /\ n \in 0 .. N
      BY <1>1, <1>6
    <3> QED BY <1>4, <2>2, <3>1, Zenon
  <2> HIDE DEF W
  <2>3. \A n \in 0 .. N : n \in T
    <3> HIDE DEF T
    <3> QED BY <1>1, <2>1, <2>2, TurnInduction
  <2> QED BY <2>3
<1>8. \A n \in 0 .. N : Walked(walk[n], segs, n + 1, end)
  BY <1>7
<1>9. IsWalk(walk, segs, end)
  BY <1>6, Zenon DEF IsWalk, N
<1> HIDE DEF W
<1> QED BY <1>2, <1>8, <1>9, Zenon DEF segs, N

\* get_complement_segment returns what is missing up to end, in an ascending
\* list with gaps, but for the two exceptions.
LEMMA Complement ==
    ASSUME NEW c \in SegmentsCtx, Separated(c.segments), NEW end \in Nat,
           Cover(c.segments) \subseteq 0 .. end
    PROVE  LET d == get_complement_segment(c, 0, end)
               M == (0 .. end) \ Cover(c.segments)
           IN  /\ d \in SegmentsCtx /\ Separated(d.segments) /\ d.nof = Len(d.segments)
               /\ Cover(d.segments) = IF c.segments = <<>> THEN {}
                                      ELSE IF end - 1 \in M THEN M ELSE M \ {end}
<1> DEFINE segs == c.segments
           N == Len(segs)
<1>1. segs \in Seq(Segments) /\ N \in Nat /\ N \in 0 .. N
      /\ Separated(segs) /\ Cover(segs) \subseteq 0 .. end
  BY DEF SegmentsCtx
<1>2. PICK w : /\ get_complement_segment(c, 0, end) = complement_tail(w[N], end)
               /\ \A n \in 0 .. N : Walked(w[n], segs, n + 1, end)
  BY ComplementRun, Zenon
<1>3. Walked(w[N], segs, Len(segs) + 1, end)
  BY <1>1, <1>2
<1> HIDE DEF segs, N
<1>4. LET d == complement_tail(w[N], end)
          M == (0 .. end) \ Cover(segs)
      IN  /\ d \in SegmentsCtx /\ Separated(d.segments) /\ d.nof = Len(d.segments)
          /\ Cover(d.segments) = IF segs = <<>> THEN {} ELSE IF end - 1 \in M THEN M ELSE M \ {end}
  BY <1>1, <1>3, WalkEnds, Zenon
<1> QED BY <1>2, <1>4 DEF segs

\* Loading a list from a file, one add_segment per node, gives that list.
LEMMA Loads ==
    ASSUME NEW segs \in Seq(Segments)
    PROVE  LoadSegments(segs) = [segments |-> segs, cur |-> NoSegment, nof |-> Len(segs),
                                 started |-> FALSE, linked |-> FALSE, freed |-> FALSE]
<1> DEFINE N == Len(segs)
           load[n \in 0 .. N] == IF n = 0 THEN init_segments_ctx
                                 ELSE add_segment(load[n - 1], segs[n].start, segs[n].end)
           Loaded(n) == [segments |-> SubSeq(segs, 1, n), cur |-> NoSegment, nof |-> n,
                         started |-> FALSE, linked |-> FALSE, freed |-> FALSE]
           W == [n \in 0 .. N |-> {Loaded(n)}]
           turn == [n \in 1 .. N |-> [x \in W[n - 1] |-> add_segment(x, segs[n].start, segs[n].end)]]
<1>1. N \in Nat /\ LoadSegments(segs) = load[N]
  BY DEF LoadSegments
<1>2. init_segments_ctx \in W[0]
  <2>1. SubSeq(segs, 1, 0) = <<>>
    OBVIOUS
  <2>2. Loaded(0) = init_segments_ctx
    BY <2>1, Zenon DEF init_segments_ctx
  <2> QED BY <1>1, <2>2
<1>3. ASSUME NEW n \in 1 .. N
      PROVE  add_segment(Loaded(n - 1), segs[n].start, segs[n].end) = Loaded(n)
  <2>1. segs[n] = Segment(segs[n].start, segs[n].end)
    <3>1. segs[n] \in Segments
      OBVIOUS
    <3> QED BY <3>1 DEF Segments, Segment
  <2>2. Append(SubSeq(segs, 1, n - 1), segs[n]) = SubSeq(segs, 1, n) /\ (n - 1) + 1 = n
    OBVIOUS
  <2> DEFINE A == SubSeq(segs, 1, n - 1)
             B == SubSeq(segs, 1, n)
             x == segs[n]
  <2>3. Append(A, Segment(x.start, x.end)) = B /\ (n - 1) + 1 = n
    BY <2>1, <2>2
  <2> HIDE DEF A, B, x
  <2> DEFINE c == [segments |-> A, cur |-> NoSegment, nof |-> n - 1,
                   started |-> FALSE, linked |-> FALSE, freed |-> FALSE]
  <2>4. c.segments = A /\ c.nof = n - 1
    OBVIOUS
  <2>5. [c EXCEPT !.segments = B, !.nof = n] =
            [segments |-> B, cur |-> NoSegment, nof |-> n,
             started |-> FALSE, linked |-> FALSE, freed |-> FALSE]
    <3>1. c \in [segments : {A}, cur : {NoSegment}, nof : {n - 1}, started : {FALSE},
                 linked : {FALSE}, freed : {FALSE}]
      OBVIOUS
    <3> HIDE DEF c
    <3> DEFINE d == [c EXCEPT !.segments = B, !.nof = n]
    <3>2. d \in [segments : {B}, cur : {NoSegment}, nof : {n}, started : {FALSE},
                 linked : {FALSE}, freed : {FALSE}]
      BY <3>1, Zenon
    <3> HIDE DEF d
    <3>3. d = [segments |-> B, cur |-> NoSegment, nof |-> n,
               started |-> FALSE, linked |-> FALSE, freed |-> FALSE]
      BY <3>2, Zenon
    <3> QED BY <3>3 DEF d
  <2>6. add_segment(c, x.start, x.end) = [c EXCEPT !.segments = B, !.nof = n]
    <3> HIDE DEF c
    <3> QED BY <2>3, <2>4, Zenon DEF add_segment
  <2> QED BY <2>5, <2>6 DEF A, B, x
<1> HIDE DEF Loaded, N
<1>4. ASSUME NEW n \in 1 .. N, NEW x \in W[n - 1]
      PROVE  /\ add_segment(x, segs[n].start, segs[n].end) \in W[n]
             /\ turn[n][x] = add_segment(x, segs[n].start, segs[n].end)
  <2>1. n - 1 \in 0 .. N /\ n \in 0 .. N
    BY <1>1
  <2>2. x = Loaded(n - 1)
    BY <2>1
  <2> QED BY <1>3, <2>1, <2>2
<1>5. \E w : w = [n \in 0 .. N |-> IF n = 0 THEN init_segments_ctx
                                   ELSE add_segment(w[n - 1], segs[n].start, segs[n].end)]
  <2>1. \A n \in 1 .. N : \A x \in W[n - 1] : turn[n][x] \in W[n]
    BY <1>4, Zenon
  <2> HIDE DEF W, turn
  <2>2. PICK w : IsRun(w, N, W, init_segments_ctx, turn)
    BY <1>1, <1>2, <2>1, RunExists, Zenon
  <2>3. ASSUME NEW n \in 0 .. N, n # 0
        PROVE  turn[n][w[n - 1]] = add_segment(w[n - 1], segs[n].start, segs[n].end)
    <3>1. n \in 1 .. N /\ n - 1 \in 0 .. N
      BY <1>1, <2>3
    <3> QED BY <1>4, <2>2, <3>1 DEF IsRun
  <2>4. w = [n \in 0 .. N |-> IF n = 0 THEN init_segments_ctx
                              ELSE add_segment(w[n - 1], segs[n].start, segs[n].end)]
    BY <2>2, <2>3, Zenon DEF IsRun
  <2> QED BY <2>4, Zenon
<1>6. load = [n \in 0 .. N |-> IF n = 0 THEN init_segments_ctx
                               ELSE add_segment(load[n - 1], segs[n].start, segs[n].end)]
  BY <1>5, Zenon DEF load
<1> HIDE DEF load, turn
<1>7. \A n \in 0 .. N : load[n] \in W[n]
  <2> DEFINE T == {n \in 0 .. N : load[n] \in W[n]}
  <2>1. 0 \in T
    BY <1>1, <1>2, <1>6
  <2>2. ASSUME NEW n \in 1 .. N, n - 1 \in T PROVE n \in T
    <3>1. load[n] = add_segment(load[n - 1], segs[n].start, segs[n].end) /\ n \in 0 .. N
      BY <1>1, <1>6
    <3> QED BY <1>4, <2>2, <3>1, Zenon
  <2> HIDE DEF W
  <2>3. \A n \in 0 .. N : n \in T
    <3> HIDE DEF T
    <3> QED BY <1>1, <2>1, <2>2, TurnInduction, Zenon
  <2> QED BY <2>3
<1>8. load[N] = Loaded(N)
  BY <1>1, <1>7
<1>9. SubSeq(segs, 1, Len(segs)) = segs
  OBVIOUS
<1> QED BY <1>1, <1>8, <1>9, Zenon DEF Loaded, N

\* From node i of a list that is separated, the starts ascend.
LEMMA StartsAscend ==
    ASSUME NEW a \in Seq(Segments), Separated(a), NEW i \in 1 .. Len(a) + 1, NEW k \in i .. Len(a)
    PROVE  /\ i \in 1 .. Len(a) /\ k \in 1 .. Len(a)
           /\ a[i].start \in Nat /\ a[k].start \in Nat /\ a[i].start <= a[k].start
<1>1. i \in 1 .. Len(a) /\ k \in 1 .. Len(a) /\ i \in Nat /\ k \in Nat /\ i <= k
  OBVIOUS
<1>2. /\ a[i].start \in Nat /\ a[k].start \in Nat /\ a[i].end \in Nat /\ a[i].start <= a[i].end
      /\ i < k => a[i].end + 1 < a[k].start
  BY <1>1, Nodes
<1>3. CASE i = k
  BY <1>1, <1>2, <1>3
<1>4. CASE i < k
  BY <1>1, <1>2, <1>4
<1> QED BY <1>1, <1>3, <1>4

\* The node that merge_segments takes next starts first of all that are left.
LEMMA LeastNode ==
    ASSUME NEW a \in Seq(Segments), Separated(a), NEW b \in Seq(Segments), Separated(b),
           NEW i \in 1 .. Len(a) + 1, NEW j \in 1 .. Len(b) + 1, NEW r,
           \/ i <= Len(a) /\ r = a[i] /\ (j <= Len(b) => a[i].start < b[j].start)
           \/ j <= Len(b) /\ r = b[j] /\ (i <= Len(a) => ~(a[i].start < b[j].start))
    PROVE  /\ r \in RealSegments /\ r.start \in Nat
           /\ \A k \in i .. Len(a) : r.start <= a[k].start
           /\ \A k \in j .. Len(b) : r.start <= b[k].start
<1>1. CASE i <= Len(a) /\ r = a[i] /\ (j <= Len(b) => a[i].start < b[j].start)
  <2>1. i \in 1 .. Len(a) /\ r \in RealSegments /\ r.start \in Nat
    <3>1. i \in 1 .. Len(a)
      BY <1>1
    <3> QED BY <1>1, <3>1, Nodes
  <2>2. \A k \in i .. Len(a) : r.start <= a[k].start
    BY <1>1, StartsAscend
  <2>3. ASSUME NEW k \in j .. Len(b) PROVE r.start <= b[k].start
    <3>1. j \in 1 .. Len(b) /\ b[j].start \in Nat /\ b[k].start \in Nat /\ b[j].start <= b[k].start
      BY StartsAscend
    <3>2. r.start < b[j].start
      BY <1>1, <3>1
    <3> QED BY <2>1, <3>1, <3>2, SMTT(30)
  <2> QED BY <2>1, <2>2, <2>3
<1>2. CASE j <= Len(b) /\ r = b[j] /\ (i <= Len(a) => ~(a[i].start < b[j].start))
  <2>1. j \in 1 .. Len(b) /\ r \in RealSegments /\ r.start \in Nat
    <3>1. j \in 1 .. Len(b)
      BY <1>2
    <3> QED BY <1>2, <3>1, Nodes
  <2>2. \A k \in j .. Len(b) : r.start <= b[k].start
    BY <1>2, StartsAscend
  <2>3. ASSUME NEW k \in i .. Len(a) PROVE r.start <= a[k].start
    <3>1. i \in 1 .. Len(a) /\ a[i].start \in Nat /\ a[k].start \in Nat /\ a[i].start <= a[k].start
      BY StartsAscend
    <3>2. ~(a[i].start < r.start)
      BY <1>2, <3>1
    <3> QED BY <2>1, <3>1, <3>2, SMTT(30)
  <2> QED BY <2>1, <2>2, <2>3
<1> QED BY <1>1, <1>2

Merges == [iter_a : Nat, iter_b : Nat, res : SegmentsCtx]

\* merge_segments after n turns: the result claims what was consumed, and what is
\* left starts at or after the segment under construction.
Merged(m, a, b, n) ==
    /\ m \in Merges
    /\ m.iter_a \in 1 .. Len(a) + 1 /\ m.iter_b \in 1 .. Len(b) + 1 /\ m.iter_a + m.iter_b = n + 2
    /\ Building(m.res)
    /\ m.res.started # FALSE => m.res.cur # NoSegment
    /\ m.res.cur # NoSegment =>
          /\ \A k \in m.iter_a .. Len(a) : m.res.cur.start <= a[k].start
          /\ \A k \in m.iter_b .. Len(b) : m.res.cur.start <= b[k].start
    /\ Claims(m.res) = Before(a, m.iter_a) \cup Before(b, m.iter_b)

\* Before the first turn.
LEMMA MergeStarts ==
    ASSUME NEW a \in Seq(Segments), NEW b \in Seq(Segments)
    PROVE  Merged(merge_start, a, b, 0)
<1>1. /\ merge_start \in Merges /\ merge_start.iter_a = 1 /\ merge_start.iter_b = 1
      /\ merge_start.res = init_segments_ctx
  BY EmptyList DEF merge_start, Merges
<1>2. 1 \in 1 .. Len(a) + 1 /\ 1 \in 1 .. Len(b) + 1 /\ 1 + 1 = 0 + 2
  OBVIOUS
<1>3. Building(init_segments_ctx)
  BY EmptyList DEF Building
<1>4. Claims(init_segments_ctx) = {}
  <2>1. NoSegment.start .. NoSegment.end = {}
    BY DEF NoSegment, Segment
  <2>2. Claims(init_segments_ctx) = {} \cup {}
    BY <2>1, EmptyList, Zenon DEF Claims
  <2> QED BY <2>2
<1>5. Before(a, 1) = {} /\ Before(b, 1) = {}
  BY BeforeEnds
<1> QED BY <1>1, <1>2, <1>3, <1>4, <1>5, EmptyList, Zenon DEF Merged

\* What a turn makes of the result, when node r is consumed and i, j are next.
LEMMA MergeConsumes ==
    ASSUME NEW a \in Seq(Segments), Separated(a), NEW b \in Seq(Segments), Separated(b),
           NEW n \in Nat, NEW m, Merged(m, a, b, n), NEW r \in RealSegments,
           \A k \in m.iter_a .. Len(a) : r.start <= a[k].start,
           \A k \in m.iter_b .. Len(b) : r.start <= b[k].start,
           m.res.cur # NoSegment => m.res.cur.start <= r.start,
           NEW i \in m.iter_a .. Len(a) + 1, NEW j \in m.iter_b .. Len(b) + 1, i + j = n + 3,
           Before(a, i) \cup Before(b, j) =
               (Before(a, m.iter_a) \cup Before(b, m.iter_b)) \cup (r.start .. r.end)
    PROVE  Merged([iter_a |-> i, iter_b |-> j,
                   res |-> update_segments_range(m.res, r.start, r.end, TRUE)], a, b, n + 1)
<1> DEFINE d == update_segments_range(m.res, r.start, r.end, TRUE)
           v == [iter_a |-> i, iter_b |-> j, res |-> d]
<1>1. /\ Building(m.res) /\ (m.res.started # FALSE => m.res.cur # NoSegment)
      /\ Claims(m.res) = Before(a, m.iter_a) \cup Before(b, m.iter_b)
      /\ m.iter_a \in 1 .. Len(a) + 1 /\ m.iter_b \in 1 .. Len(b) + 1
  BY Zenon DEF Merged
<1>2. /\ Building(d) /\ d.started = TRUE /\ d.cur # NoSegment /\ d.cur.start <= r.start
      /\ Claims(d) = Claims(m.res) \cup (r.start .. r.end)
  BY <1>1, UpdateClaims, Zenon
<1> HIDE DEF d
<1>3. d \in SegmentsCtx /\ d.cur.start \in Nat /\ r.start \in Nat
  BY <1>2 DEF Building, RealSegments, Segments
<1>4. /\ i \in 1 .. Len(a) + 1 /\ j \in 1 .. Len(b) + 1 /\ i \in Nat /\ j \in Nat /\ i + j = (n + 1) + 2
      /\ m.iter_a <= i /\ m.iter_b <= j
  BY <1>1
<1>5. ASSUME NEW k \in i .. Len(a) PROVE d.cur.start <= a[k].start
  <2>1. k \in m.iter_a .. Len(a) /\ k \in 1 .. Len(a)
    BY <1>1, <1>4, SMTT(30)
  <2>2. a[k].start \in Nat /\ r.start <= a[k].start
    BY <2>1, Nodes
  <2> QED BY <1>2, <1>3, <2>2, SMTT(30)
<1>6. ASSUME NEW k \in j .. Len(b) PROVE d.cur.start <= b[k].start
  <2>1. k \in m.iter_b .. Len(b) /\ k \in 1 .. Len(b)
    BY <1>1, <1>4
  <2>2. b[k].start \in Nat /\ r.start <= b[k].start /\ d.cur.start <= r.start
    BY <1>2, <2>1, Nodes
  <2> DEFINE x == d.cur.start
             y == b[k].start
  <2>3. x \in Nat /\ y \in Nat /\ r.start \in Nat /\ x <= r.start /\ r.start <= y
    BY <1>3, <2>2
  <2> HIDE DEF x, y
  <2>4. x <= y
    BY <2>3
  <2> QED BY <2>4 DEF x, y
<1>7. Claims(d) = Before(a, i) \cup Before(b, j)
  BY <1>1, <1>2
<1>8. v \in Merges /\ v.iter_a = i /\ v.iter_b = j /\ v.res = d
  BY <1>3, <1>4 DEF Merges
<1> HIDE DEF v
<1>9. Merged(v, a, b, n + 1)
  BY <1>2, <1>4, <1>5, <1>6, <1>7, <1>8, Zenon DEF Merged
<1> QED BY <1>9 DEF v, d

\* A turn of merge_segments.
LEMMA MergeNext ==
    ASSUME NEW a \in Seq(Segments), Separated(a), NEW b \in Seq(Segments), Separated(b),
           NEW n \in Nat, n < Len(a) + Len(b), NEW m, Merged(m, a, b, n)
    PROVE  Merged(merge_node(m, a, b), a, b, n + 1)
<1>1. /\ m \in Merges /\ m.iter_a \in 1 .. Len(a) + 1 /\ m.iter_b \in 1 .. Len(b) + 1
      /\ m.iter_a + m.iter_b = n + 2 /\ Len(a) \in Nat /\ Len(b) \in Nat
      /\ (m.res.cur # NoSegment => \A k \in m.iter_a .. Len(a) : m.res.cur.start <= a[k].start)
      /\ (m.res.cur # NoSegment => \A k \in m.iter_b .. Len(b) : m.res.cur.start <= b[k].start)
  BY DEF Merged
<1>2. /\ m.iter_a \in Nat /\ m.iter_b \in Nat /\ m.iter_a <= Len(a) + 1 /\ m.iter_b <= Len(b) + 1
      /\ m.iter_a + m.iter_b = n + 2 /\ Len(a) \in Nat /\ Len(b) \in Nat
  BY <1>1
<1>3. CASE TakesA(m, a, b)
  <2> DEFINE r == a[m.iter_a]
             i == m.iter_a + 1
             d == update_segments_range(m.res, r.start, r.end, TRUE)
  <2>1. m.iter_a <= Len(a) /\ (m.iter_b <= Len(b) => r.start < b[m.iter_b].start)
    BY <1>3 DEF TakesA
  <2>2. /\ r \in RealSegments
        /\ \A k \in m.iter_a .. Len(a) : r.start <= a[k].start
        /\ \A k \in m.iter_b .. Len(b) : r.start <= b[k].start
    BY <1>1, <2>1, LeastNode, Zenon
  <2>3. m.iter_a \in 1 .. Len(a) /\ m.iter_a \in m.iter_a .. Len(a)
    BY <1>1, <2>1
  <2>4. Before(a, i) = Before(a, m.iter_a) \cup (r.start .. r.end)
    BY <2>3, BeforeNext
  <2>5. /\ i \in m.iter_a .. Len(a) + 1 /\ m.iter_b \in m.iter_b .. Len(b) + 1
        /\ i + m.iter_b = n + 3
    <3>1. PICK x \in Nat, y \in Nat : x = m.iter_a /\ y = m.iter_b
      BY <1>2, Zenon
    <3>2. PICK u \in Nat, v \in Nat : u = Len(a) /\ v = Len(b)
      BY <1>2, Zenon
    <3>3. x <= u /\ y <= v + 1 /\ x + y = n + 2
      BY <1>2, <2>1, <3>1, <3>2, Zenon
    <3>4. x + 1 \in x .. u + 1 /\ y \in y .. v + 1 /\ x + 1 + y = n + 3
      BY <3>3
    <3> QED BY <3>1, <3>2, <3>4, Zenon
  <2>6. m.res.cur # NoSegment => m.res.cur.start <= r.start
    BY <1>1, <2>3
  <2>7. merge_node(m, a, b) = [iter_a |-> i, iter_b |-> m.iter_b, res |-> d]
    <3>1. merge_node(m, a, b) = [m EXCEPT !.iter_a = i, !.res = d]
      BY <1>3, Zenon DEF merge_node
    <3> HIDE DEF i, d
    <3> QED BY <1>1, <3>1, Zenon DEF Merges
  <2>8. Before(a, i) \cup Before(b, m.iter_b) =
            (Before(a, m.iter_a) \cup Before(b, m.iter_b)) \cup (r.start .. r.end)
    BY <2>4
  <2> HIDE DEF r, i
  <2> QED BY <2>2, <2>5, <2>6, <2>7, <2>8, MergeConsumes, Zenon
<1>4. CASE ~TakesA(m, a, b)
  <2> DEFINE r == b[m.iter_b]
             j == m.iter_b + 1
             d == update_segments_range(m.res, r.start, r.end, TRUE)
  <2>1. m.iter_b <= Len(b) /\ (m.iter_a <= Len(a) => ~(a[m.iter_a].start < r.start))
    <3>1. m.iter_b <= Len(b)
      BY <1>1, <1>4 DEF TakesA
    <3> QED BY <1>4, <3>1 DEF TakesA
  <2>2. /\ r \in RealSegments
        /\ \A k \in m.iter_a .. Len(a) : r.start <= a[k].start
        /\ \A k \in m.iter_b .. Len(b) : r.start <= b[k].start
    BY <1>1, <2>1, LeastNode, Zenon
  <2>3. m.iter_b \in 1 .. Len(b) /\ m.iter_b \in m.iter_b .. Len(b)
    BY <1>1, <2>1
  <2>4. Before(b, j) = Before(b, m.iter_b) \cup (r.start .. r.end)
    BY <2>3, BeforeNext
  <2>5. /\ j \in m.iter_b .. Len(b) + 1 /\ m.iter_a \in m.iter_a .. Len(a) + 1
        /\ m.iter_a + j = n + 3
    <3>1. PICK x \in Nat, y \in Nat : x = m.iter_a /\ y = m.iter_b
      BY <1>2, Zenon
    <3>2. PICK u \in Nat, v \in Nat : u = Len(a) /\ v = Len(b)
      BY <1>2, Zenon
    <3>3. x <= u + 1 /\ y <= v /\ x + y = n + 2
      BY <1>2, <2>1, <3>1, <3>2, Zenon
    <3>4. y + x = n + 2
      BY <3>3
    <3>5. y + 1 \in y .. v + 1 /\ x \in x .. u + 1 /\ x + (y + 1) = n + 3
      BY <3>3, <3>4
    <3> QED BY <3>1, <3>2, <3>5, Zenon
  <2>6. m.res.cur # NoSegment => m.res.cur.start <= r.start
    BY <1>1, <2>3
  <2>7. merge_node(m, a, b) = [iter_a |-> m.iter_a, iter_b |-> j, res |-> d]
    <3>1. merge_node(m, a, b) = [m EXCEPT !.iter_b = j, !.res = d]
      BY <1>4, Zenon DEF merge_node
    <3> HIDE DEF j, d
    <3> QED BY <1>1, <3>1, Zenon DEF Merges
  <2>8. Before(a, m.iter_a) \cup Before(b, j) =
            (Before(a, m.iter_a) \cup Before(b, m.iter_b)) \cup (r.start .. r.end)
    BY <2>4
  <2> HIDE DEF r, j
  <2> QED BY <2>2, <2>5, <2>6, <2>7, <2>8, MergeConsumes, Zenon
<1> QED BY <1>3, <1>4

\* The turns of merge_segments over a and b: its locals after each.
IsMerge(m, a, b) ==
    m = [n \in 0 .. Len(a) + Len(b) |-> IF n = 0 THEN merge_start ELSE merge_node(m[n - 1], a, b)]

\* merge_segments closes the list that its last turn leaves.
LEMMA MergeRun ==
    ASSUME NEW p \in SegmentsCtx, Separated(p.segments), NEW q \in SegmentsCtx, Separated(q.segments)
    PROVE  LET a == p.segments
               b == q.segments
               N == Len(a) + Len(b)
           IN  \E m : /\ IsMerge(m, a, b)
                      /\ merge_segments(p, q) = close_segments(m[N].res)
                      /\ \A n \in 0 .. N : Merged(m[n], a, b, n)
<1> DEFINE a == p.segments
           b == q.segments
           N == Len(a) + Len(b)
           merge[n \in 0 .. N] == IF n = 0 THEN merge_start ELSE merge_node(merge[n - 1], a, b)
           W == [n \in 0 .. N |-> {m \in Merges : Merged(m, a, b, n)}]
           turn == [n \in 1 .. N |-> [x \in W[n - 1] |-> merge_node(x, a, b)]]
<1>1. /\ a \in Seq(Segments) /\ Separated(a) /\ b \in Seq(Segments) /\ Separated(b)
      /\ Len(a) \in Nat /\ Len(b) \in Nat /\ N \in Nat
  BY DEF SegmentsCtx
<1>2. merge_segments(p, q) = close_segments(merge[N].res)
  BY DEF merge_segments
<1> HIDE DEF a, b, N
<1>3. merge_start \in W[0]
  <2>1. Merged(merge_start, a, b, 0) /\ 0 \in 0 .. N
    BY <1>1, MergeStarts
  <2>2. merge_start \in Merges
    BY <2>1 DEF Merged
  <2> QED BY <2>1, <2>2
<1>4. ASSUME NEW n \in 1 .. N, NEW x \in W[n - 1]
      PROVE  merge_node(x, a, b) \in W[n] /\ turn[n][x] = merge_node(x, a, b)
  <2>1. n - 1 \in 0 .. N /\ n \in 0 .. N /\ (n - 1) + 1 = n /\ n - 1 \in Nat /\ n - 1 < N
    BY <1>1
  <2>2. Merged(x, a, b, n - 1)
    BY <2>1
  <2>3. Merged(merge_node(x, a, b), a, b, (n - 1) + 1)
    BY <1>1, <2>1, <2>2, MergeNext DEF N
  <2>4. merge_node(x, a, b) \in Merges
    BY <2>3 DEF Merged
  <2> QED BY <2>1, <2>3, <2>4
<1>5. \E w : w = [n \in 0 .. N |-> IF n = 0 THEN merge_start ELSE merge_node(w[n - 1], a, b)]
  <2>1. \A n \in 1 .. N : \A x \in W[n - 1] : turn[n][x] \in W[n]
    BY <1>4, Zenon
  <2> HIDE DEF W, turn
  <2>2. PICK w : IsRun(w, N, W, merge_start, turn)
    BY <1>1, <1>3, <2>1, RunExists, Zenon
  <2>3. ASSUME NEW n \in 0 .. N, n # 0 PROVE turn[n][w[n - 1]] = merge_node(w[n - 1], a, b)
    <3>1. n \in 1 .. N /\ n - 1 \in 0 .. N
      BY <1>1, <2>3
    <3> QED BY <1>4, <2>2, <3>1 DEF IsRun
  <2>4. w = [n \in 0 .. N |-> IF n = 0 THEN merge_start ELSE merge_node(w[n - 1], a, b)]
    BY <2>2, <2>3, Zenon DEF IsRun
  <2> QED BY <2>4, Zenon
<1>6. merge = [n \in 0 .. N |-> IF n = 0 THEN merge_start ELSE merge_node(merge[n - 1], a, b)]
  BY <1>5, Zenon DEF merge
<1> HIDE DEF merge, turn
<1>7. \A n \in 0 .. N : merge[n] \in W[n]
  <2> DEFINE T == {n \in 0 .. N : merge[n] \in W[n]}
  <2>1. 0 \in T
    BY <1>1, <1>3, <1>6
  <2>2. ASSUME NEW n \in 1 .. N, n - 1 \in T PROVE n \in T
    <3>1. merge[n] = merge_node(merge[n - 1], a, b) /\ n \in 0 .. N
      BY <1>1, <1>6
    <3> QED BY <1>4, <2>2, <3>1, Zenon
  <2> HIDE DEF W
  <2>3. \A n \in 0 .. N : n \in T
    <3> HIDE DEF T
    <3> QED BY <1>1, <2>1, <2>2, TurnInduction, Zenon
  <2> QED BY <2>3
<1>8. \A n \in 0 .. N : Merged(merge[n], a, b, n)
  BY <1>7
<1>9. IsMerge(merge, a, b)
  BY <1>6, Zenon DEF IsMerge, N
<1> HIDE DEF W
<1> QED BY <1>2, <1>8, <1>9, Zenon DEF a, b, N

\* merge_segments as a whole, with memory for every node: a separated list of
\* what either list has.
LEMMA MergeOf ==
    ASSUME NEW p \in SegmentsCtx, Separated(p.segments), NEW q \in SegmentsCtx, Separated(q.segments)
    PROVE  LET d == merge_segments(p, q) IN
           /\ d \in SegmentsCtx /\ Separated(d.segments) /\ d.nof = Len(d.segments) /\ d.freed = FALSE
           /\ Cover(d.segments) = Cover(p.segments) \cup Cover(q.segments)
<1> DEFINE a == p.segments
           b == q.segments
           N == Len(a) + Len(b)
<1>1. /\ a \in Seq(Segments) /\ Separated(a) /\ b \in Seq(Segments) /\ Separated(b)
      /\ Len(a) \in Nat /\ Len(b) \in Nat /\ N \in Nat /\ N \in 0 .. N
  BY DEF SegmentsCtx
<1>2. PICK merge : /\ merge_segments(p, q) = close_segments(merge[N].res)
                   /\ \A n \in 0 .. N : Merged(merge[n], a, b, n)
  BY MergeRun, Zenon
<1>3. Merged(merge[N], a, b, N)
  BY <1>1, <1>2, Zenon
<1> HIDE DEF a, b, N
<1> DEFINE m == merge[N]
<1>4. /\ Building(m.res) /\ Claims(m.res) = Before(a, m.iter_a) \cup Before(b, m.iter_b)
      /\ m.iter_a = Len(a) + 1 /\ m.iter_b = Len(b) + 1
  <2>1. /\ Building(m.res) /\ Claims(m.res) = Before(a, m.iter_a) \cup Before(b, m.iter_b)
        /\ m.iter_a \in 1 .. Len(a) + 1 /\ m.iter_b \in 1 .. Len(b) + 1
        /\ m.iter_a + m.iter_b = N + 2
    BY <1>3 DEF Merged
  <2> QED BY <1>1, <2>1 DEF N
<1>5. Claims(m.res) = Cover(a) \cup Cover(b)
  BY <1>1, <1>4, BeforeEnds
<1> HIDE DEF m
<1> DEFINE d == close_segments(m.res)
<1>6. /\ d \in SegmentsCtx /\ Separated(d.segments) /\ d.nof = Len(d.segments) /\ d.freed = FALSE
       /\ Cover(d.segments) = Cover(a) \cup Cover(b)
  BY <1>4, <1>5, CloseBuilt, Zenon
<1>7. merge_segments(p, q) = d
  BY <1>2 DEF m
<1> HIDE DEF d
<1> QED BY <1>6, <1>7 DEF a, b
=============================================================================
