--------------------------- MODULE DtpResumeLists ---------------------------
(***************************************************************************)
(* The lists of a download that is resumed again and again, loop by loop   *)
(* (src/src/dtp_client_posix_segments_utils.c, called by                   *)
(* src/src/dtp_client_posix_session_hooks.c).                              *)
(*                                                                         *)
(* apm_on_deserialize loads the list of the .meta file and walks it for    *)
(* the complement, which becomes the request; apm_on_end merges the list   *)
(* of the attempt with the loaded one, and the result goes to the .meta    *)
(* file.  Each turn of a loop is a step, and so malloc may fail in each.   *)
(***************************************************************************)
EXTENDS DtpSegments

CONSTANTS
    Lists,          \* lists that an attempt may end with
    End             \* payload_size / (mtu - 2 * sizeof(uint32_t))

ASSUME ListsAssumption ==
    /\ End \in Nat
    /\ \A s \in Lists : s \in Seq(Segments) /\ Separated(s) /\ Cover(s) \subseteq 0 .. End

VARIABLES
    lpc,            \* "walk", "asked", "merge" or "faulted"
    saved,          \* the list of the .meta file
    attempt,        \* the closed list of the attempt
    iter_a, iter_b, \* nodes the loops are at, in attempt and in saved
    res,            \* the result of merge_segments
    walk,           \* locals of get_complement_segment
    asked,          \* its result
    got,            \* history: all that the attempts have recorded
    failed          \* history: a malloc failed and the loop went on

vars == <<lpc, saved, attempt, iter_a, iter_b, res, walk, asked, got, failed>>

\* A first attempt has left its list in the .meta file.
Init ==
    /\ lpc = "walk"
    /\ saved \in Lists
    /\ attempt = <<>>
    /\ iter_a = 1 /\ iter_b = 1
    /\ res = init_segments_ctx
    /\ walk = complement_start
    /\ asked = <<>>
    /\ got = Cover(saved)
    /\ failed = FALSE

----------------------------------------------------------------------------
(* get_complement_segment(received, 0, End)                                *)

WalkNode ==
    /\ lpc = "walk" /\ iter_b <= Len(saved)
    /\ walk' = complement_node(walk, saved[iter_b], 0, End)
    /\ iter_b' = iter_b + 1
    /\ UNCHANGED <<lpc, saved, attempt, iter_a, res, asked, got, failed>>

WalkTail ==
    /\ lpc = "walk" /\ iter_b > Len(saved)
    /\ asked' = complement_tail(walk, End).segments
    /\ lpc' = "asked"
    /\ UNCHANGED <<saved, attempt, iter_a, iter_b, res, walk, got, failed>>

\* The result of malloc is used without a test.
WalkNoMemory ==
    /\ lpc = "walk"
    /\ IF iter_b <= Len(saved)
       THEN complement_node(walk, saved[iter_b], 0, End).out # walk.out
       ELSE complement_tail(walk, End) # walk.out
    /\ lpc' = "faulted"
    /\ UNCHANGED <<saved, attempt, iter_a, iter_b, res, walk, asked, got, failed>>

----------------------------------------------------------------------------
\* The attempt ends with a list of its own, and apm_on_end merges the two.
EndAttempt(list) ==
    /\ lpc = "asked"
    /\ attempt' = list
    /\ got' = got \cup Cover(list)
    /\ lpc' = "merge"
    /\ iter_a' = 1 /\ iter_b' = 1
    /\ res' = init_segments_ctx
    /\ UNCHANGED <<saved, walk, asked, failed>>

(* merge_segments(attempt, saved)                                          *)

\* mutant: the attempt is merged first, then the rest.
TakesFromA_first == iter_a <= Len(attempt)

\* The node of attempt is next: the smaller start, saved on a tie.
TakesFromA ==
    /\ iter_a <= Len(attempt)
    /\ iter_b <= Len(saved) => attempt[iter_a].start < saved[iter_b].start

Merging == lpc = "merge" /\ (iter_a <= Len(attempt) \/ iter_b <= Len(saved))

NextNode == IF TakesFromA THEN attempt[iter_a] ELSE saved[iter_b]

\* update_segments_range has no segment to extend: an earlier malloc failed.
NullCur == res.started /\ res.cur = NoSegment

MergeNode(ok) ==
    /\ Merging /\ ~NullCur
    /\ ok \/ Allocates(res, NextNode.start)
    /\ res' = update_segments_range(res, NextNode.start, NextNode.end, ok)
    /\ failed' = (failed \/ ~ok)
    /\ IF TakesFromA THEN iter_a' = iter_a + 1 /\ UNCHANGED iter_b
                     ELSE iter_b' = iter_b + 1 /\ UNCHANGED iter_a
    /\ UNCHANGED <<lpc, saved, attempt, walk, asked, got>>

\* The result of update_segments_range is ignored, and the next call finds no
\* current segment.
MergeNull ==
    /\ Merging /\ NullCur
    /\ lpc' = "faulted"
    /\ UNCHANGED <<saved, attempt, iter_a, iter_b, res, walk, asked, got, failed>>

\* close_segments; the list is serialized, and loaded again by the next
\* attempt (add_segment for each node).
MergeEnd ==
    /\ lpc = "merge" /\ ~Merging
    /\ saved' = close_segments(res).segments
    /\ res' = close_segments(res)
    /\ walk' = complement_start
    /\ iter_b' = 1
    /\ lpc' = "walk"
    /\ UNCHANGED <<attempt, iter_a, asked, got, failed>>

\* The process is started again, with the .meta file as it was.
Restart ==
    /\ lpc = "faulted"
    /\ lpc' = "walk"
    /\ walk' = complement_start
    /\ iter_b' = 1
    /\ got' = Cover(saved)
    /\ failed' = FALSE
    /\ UNCHANGED <<saved, attempt, iter_a, res, asked>>

Next ==
    \/ WalkNode \/ WalkTail \/ WalkNoMemory
    \/ \E list \in Lists : EndAttempt(list)
    \/ \E ok \in BOOLEAN : MergeNode(ok)
    \/ MergeNull \/ MergeEnd \/ Restart

Spec == Init /\ [][Next]_vars

----------------------------------------------------------------------------
(* Properties                                                              *)

\* The lists, the iterators and the locals.
TypeOK ==
    /\ lpc \in {"walk", "asked", "merge", "faulted"}
    /\ saved \in Seq(Segments) /\ attempt \in Seq(Segments) /\ asked \in Seq(Segments)
    /\ iter_a \in 1 .. Len(attempt) + 1 /\ iter_b \in Nat \ {0}
    /\ res \in SegmentsCtx
    /\ walk \in [out : SegmentsCtx, seg_start : Nat, seg_end : Nat]
    /\ got \subseteq 0 .. End
    /\ failed \in BOOLEAN

\* What merge_segments makes of two lists has an ascending list with a gap
\* between neighbours, correctly counted and without a freed node, also when
\* malloc fails: the next walk and the next merge rely on it.
MergedSeparated ==
    /\ Separated(saved)
    /\ Separated(res.segments)
    /\ res.nof = Len(res.segments)
    /\ ~res.freed

\* After any number of attempts the .meta file has exactly what they recorded,
\* or less when a malloc failed: never a packet that no attempt received.
SavedIsUnion ==
    lpc \in {"walk", "asked"} =>
        /\ Cover(saved) \subseteq got
        /\ ~failed => Cover(saved) = got

Missing == (0 .. End) \ Cover(saved)

\* The request asks for what is missing, in ascending intervals with gaps,
\* with two exceptions: for nothing when the list is empty (seg_end < seg_start
\* is false from the start), and not for the packet End alone (seg_start < end
\* is strict).
AsksForMissing ==
    lpc = "asked" =>
        /\ Separated(asked)
        /\ Cover(asked) = IF saved = <<>> THEN {}
                          ELSE IF End - 1 \in Missing THEN Missing
                          ELSE Missing \ {End}
=============================================================================
