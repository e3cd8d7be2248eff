------------------------------ MODULE MCServer ------------------------------
EXTENDS DtpServerSystem

\* The whole payload, and lists of at most two missing intervals; the last may
\* end beyond the payload, as the complement of a divisible payload does.
MCRequests ==
    LET last == PayloadSize \div Chunk
        One == {<<Interval(s, e)>> : s \in 0..(last - 1), e \in 0..last}
        Two == {<<Interval(s, e), Interval(t, u)>> :
                    s \in 0..1, e \in 0..1, t \in 2..(last - 1), u \in 2..last}
    IN  {<<Interval(0, UINT32_MAX)>>} \cup {r \in One \cup Two : Askable(r)}
=============================================================================
