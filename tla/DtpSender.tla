----------------------------- MODULE DtpSender -----------------------------
(***************************************************************************)
(* What a DTP server promises, in bytes: everything that was asked for is  *)
(* sent once and in ascending order, "until the entire requested data is   *)
(* sent or a request to stop is received".  No intervals, rounds, buffers  *)
(* or chunks: src/src/dtp_server.c implements it (DtpServerSystem).        *)
(***************************************************************************)
EXTENDS Integers

CONSTANT Questions      \* sets of bytes that may be asked for

VARIABLES
    busy,               \* a transfer is going on
    stop,               \* it has been told to end
    todo,               \* bytes that it has not sent
    packets             \* number of packets sent

vars == <<busy, stop, todo, packets>>

Init == busy = FALSE /\ stop = FALSE /\ todo = {} /\ packets = 0

Begin ==
    /\ ~busy /\ busy' = TRUE
    /\ stop' = FALSE
    /\ todo' \in Questions
    /\ packets' = 0

\* One packet: the next bytes, and none is left out between them.  The server
\* may give up at the same moment.
Emit ==
    /\ busy /\ busy' = TRUE
    /\ todo' \subseteq todo /\ todo' # todo
    /\ \A x \in todo \ todo', y \in todo' : x < y
    /\ \A x, y \in todo \ todo' : \A z \in x .. y : z \in todo
    /\ packets' = packets + 1
    /\ stop => stop'

StopRequest ==
    /\ busy /\ busy' = TRUE
    /\ stop' = TRUE
    /\ UNCHANGED <<todo, packets>>

\* The transfer is over when all is sent, or after a stop.
End ==
    /\ busy /\ busy' = FALSE
    /\ todo = {} \/ stop
    /\ stop' = FALSE
    /\ todo' = {}
    /\ UNCHANGED packets

Next == Begin \/ Emit \/ StopRequest \/ End

Spec == Init /\ [][Next]_vars
=============================================================================
