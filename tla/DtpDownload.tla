---------------------------- MODULE DtpDownload ----------------------------
(***************************************************************************)
(* What a resumable download promises: a file, the claims about it that    *)
(* survive the process, and the verdict given to the caller.  No packets   *)
(* on a link, segments, intervals or byte counts: the client, the POSIX    *)
(* hooks and the server together implement it (DtpTransfer).               *)
(***************************************************************************)
CONSTANT Packets        \* the packets of the payload

VARIABLES
    stored,             \* packets in the output file
    claims,             \* packets recorded as received
    writing,            \* the record is being written
    told                \* the caller was told DTP_OK

vars == <<stored, claims, writing, told>>

Init == stored = {} /\ claims = {} /\ writing = FALSE /\ told = FALSE

\* The file grows, and is only ever emptied when there are no claims about it.
Store ==
    /\ ~told /\ ~writing
    /\ stored \subseteq stored' /\ stored' \subseteq Packets
    /\ UNCHANGED <<claims, writing, told>>

Truncate ==
    /\ ~told /\ ~writing /\ claims = {}
    /\ stored' = {}
    /\ UNCHANGED <<claims, writing, told>>

\* DTP_OK is said of a complete file.
Finish ==
    /\ ~told /\ told' = TRUE
    /\ stored \subseteq stored' /\ stored' = Packets
    /\ UNCHANGED <<claims, writing>>

\* The claims grow, to no more than the file has.
Save ==
    /\ ~writing /\ writing' = TRUE
    /\ claims \subseteq claims' /\ claims' \subseteq stored
    /\ UNCHANGED <<stored, told>>

Saved == writing /\ writing' = FALSE /\ UNCHANGED <<stored, claims, told>>

Release == ~writing /\ told' = FALSE /\ UNCHANGED <<stored, claims, writing>>

\* A crash keeps the file, and all claims or, while they are written, none.
Crash ==
    /\ told' = FALSE /\ writing' = FALSE
    /\ stored \subseteq stored' /\ stored' \subseteq Packets
    /\ IF writing THEN claims' = {} ELSE UNCHANGED claims

Next == Store \/ Truncate \/ Finish \/ Save \/ Saved \/ Release \/ Crash

Spec == Init /\ [][Next]_vars
=============================================================================
