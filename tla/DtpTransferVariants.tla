------------------------ MODULE DtpTransferVariants ------------------------
(***************************************************************************)
(* DtpTransfer with a caller that does more than resume from the .meta     *)
(* file: three other uses of the interface that the headers and README.rst *)
(* allow.  The properties they promise are those of DtpTransfer.           *)
(***************************************************************************)
EXTENDS DtpTransfer

\* dtp_client_main with resume = false while a .meta file exists.
PrepareFreshOverMeta ==
    /\ meta # NoMeta
    /\ PrepareFresh
    /\ after_stop' = NoStop
    /\ UNCHANGED serverVars

FreshOverMetaSpec == Init /\ [][Next \/ PrepareFreshOverMeta]_vars

\* dtp_stop_transfer from another thread before the response has arrived.
EarlyStop == pc \in {"prepared", "meta"} /\ StopCalled

EarlyStopSpec == Init /\ [][Next \/ EarlyStop]_vars

\* dtp_start_transfer on the session dtp_client_main handed back.  Once a node
\* of its list is freed the session is not followed into another attempt.
Restart ==
    /\ pc = "returned"
    /\ result = "cancelled"
    /\ ~hook.segments.freed
    /\ pc' = "prepared"
    /\ result' = "none"
    /\ UNCHANGED <<session, hook, loop, output, unflushed, meta, reqs, net,
                   serverVars, after_stop>>

RestartSpec == Init /\ [][Next \/ Restart]_vars
=============================================================================
