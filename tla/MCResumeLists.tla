--------------------------- MODULE MCResumeLists ---------------------------
(***************************************************************************)
(* DtpResumeLists with all lists of a small payload.                       *)
(***************************************************************************)
EXTENDS DtpResumeLists, SequencesExt

\* The separated list that claims the numbers in S.
ListOf(S) ==
    LET Runs == {r \in {Segment(s, e) : s \in S, e \in S} :
                    /\ r.start <= r.end /\ r.start .. r.end \subseteq S
                    /\ r.start - 1 \notin S /\ r.end + 1 \notin S}
    IN  SetToSortSeq(Runs, LAMBDA x, y : x.start < y.start)

MCLists == {ListOf(S) : S \in SUBSET (0 .. End)}
=============================================================================
