---------------------------- MODULE DtpIntervals ----------------------------
(***************************************************************************)
(* The intervals of a request (interval_t and dtp_meta_req_t of            *)
(* src/include/dtp/dtp_protocol.h): ranges of packet sequence numbers.     *)
(***************************************************************************)
EXTENDS Integers, Sequences

\* The end 0xffffffff means "to the end of the payload"; the code only ever
\* compares with it.
UINT32_MAX == -1

Interval(s, e) == [start |-> s, end |-> e]

\* interval_t
Intervals == [start : Nat, end : Nat \cup {UINT32_MAX}]

WholePayload == <<Interval(0, UINT32_MAX)>>
=============================================================================
