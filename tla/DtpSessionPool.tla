--------------------------- MODULE DtpSessionPool ---------------------------
(***************************************************************************)
(* The static sessions (dtp.c) under the threads of a client process, each *)
(* of which runs dtp_client_main, or a VMEM download made of               *)
(* dtp_prepare_session, vmem_request_dtp_start_download and                *)
(* dtp_vmem_client_main (dtp_client.c, dtp_vmem_client.c), while others    *)
(* call dtp_stop_transfer.                                                 *)
(*                                                                         *)
(* Modelled is who has which session, connection and output stream, and    *)
(* what the error numbers say; the data are the subject of DtpClient.      *)
(* CSP is external: csp_connect hands out any free connection of a pool,   *)
(* csp_close frees a connection whoever has it by now, and a port is bound *)
(* once.                                                                   *)
(***************************************************************************)
EXTENDS Integers, FiniteSets

CONSTANTS
    Users,              \* threads that download
    VmemUsers,          \* those that make VMEM downloads
    NofSessions,        \* DTP_NOF_STATIC_SESSIONS, 5 in the code
    Conns               \* connections of CSP

VARIABLES
    slots,              \* static_sessions
    last_error,         \* the error number without a session
    conns,              \* who opened each connection
    port,               \* who has bound port 8
    user,               \* the threads
    collided            \* two calls of dtp_acquire_session took one session

vars == <<slots, last_error, conns, port, user, collided>>

Slots == 1 .. NofSessions

\* The values of user[u].slot and of a connection pointer that is NULL.
NoSlot == 0

Null == "null"

\* Of a connection: closed, or left open by a call that returned without it.
Free == "free"

Lost == "lost"

ASSUME PoolAssumption ==
    /\ NofSessions \in Nat \ {0}
    /\ VmemUsers \subseteq Users
    /\ Null \notin Conns
    /\ {Free, Lost} \cap Users = {}

\* dtp_client_main has one session id for all, other callers choose theirs.
Ids == {"socket", "vmem"}

IdOf(u) == IF u \in VmemUsers THEN "vmem" ELSE "socket"

\* A thread: its control point and session; the connection of
\* dtp_start_transfer and that of a VMEM call; whether its caller has the
\* session; whether it was stopped since it became active; its output stream;
\* and whether port 8 was taken when it was last to be bound.
Idle == [pc |-> "idle", slot |-> NoSlot, conn |-> Null, vmem |-> Null,
         held |-> FALSE, stopped |-> FALSE, stream |-> "closed", unbound |-> FALSE]

Init ==
    /\ slots = [s \in Slots |-> [in_use |-> FALSE, active |-> FALSE, errno |-> "no_err",
                                 conn |-> Null, session_id |-> "none"]]
    /\ last_error = "no_err"
    /\ conns = [h \in Conns |-> Free]
    /\ port = Free
    /\ user = [u \in Users |-> Idle]
    /\ collided = FALSE

----------------------------------------------------------------------------
(* Helpers.                                                                *)

\* Two threads on one session are not followed any further.
At(u, pc) == ~collided /\ user[u].pc = pc

Step(u, pc) == user' = [user EXCEPT ![u].pc = pc]

SlotOf(u) == slots[user[u].slot]

csp_close(cs, h) == IF h = Null THEN cs ELSE [cs EXCEPT ![h] = Free]

\* csp_connect: fails without a free connection, and may fail with one.
csp_connect(u, h) ==
    /\ conns[h] = Free
    /\ conns' = [conns EXCEPT ![h] = u]

\* mutant: the slot is not given back.
Release_kept(u, pc) ==
    /\ conns' = csp_close(conns, SlotOf(u).conn)
    /\ last_error' = SlotOf(u).errno
    /\ user' = [user EXCEPT ![u] = [Idle EXCEPT !.pc = pc, !.slot = user[u].slot]]
    /\ UNCHANGED <<slots, port, collided>>

\* dtp_release_session of the session of u up to in_use, which is cleared before
\* the error number is.  The slot keeps active, conn and the session id.
Release(u, pc) ==
    /\ slots' = [slots EXCEPT ![user[u].slot].in_use = FALSE]
    /\ conns' = csp_close(conns, SlotOf(u).conn)
    /\ last_error' = SlotOf(u).errno
    /\ user' = [user EXCEPT ![u] = [Idle EXCEPT !.pc = pc, !.slot = user[u].slot]]
    /\ UNCHANGED <<port, collided>>

\* mutant: the error number stays.
ClearErrno_kept(u) ==
    /\ At(u, "clear") \/ At(u, "clear_null")
    /\ user' = [user EXCEPT ![u] = [Idle EXCEPT !.pc = IF user[u].pc = "clear" THEN "idle" ELSE "null"]]
    /\ UNCHANGED <<slots, last_error, conns, port, collided>>

\* The rest of dtp_release_session, whoever has the slot by now.
ClearErrno(u) ==
    /\ At(u, "clear") \/ At(u, "clear_null")
    /\ slots' = [slots EXCEPT ![user[u].slot].errno = "no_err"]
    /\ user' = [user EXCEPT ![u] = [Idle EXCEPT !.pc = IF user[u].pc = "clear" THEN "idle" ELSE "null"]]
    /\ UNCHANGED <<last_error, conns, port, collided>>

\* dtp_release_session(NULL), in dtp_prepare_session when it got no session
\* ("no_session") and again in dtp_client_main.
ReleaseNull(u) ==
    /\ At(u, "no_session") \/ At(u, "null")
    /\ last_error' = "session_not_found"
    /\ user' = [user EXCEPT ![u] = [Idle EXCEPT !.pc = IF user[u].pc = "no_session" /\ u \notin VmemUsers
                                                      THEN "null" ELSE "idle"]]
    /\ UNCHANGED <<slots, conns, port, collided>>

\* Back in dtp_client_main, which will release the session unless the caller
\* has it.
Back(u) == [user[u] EXCEPT !.pc = IF user[u].held THEN "returned" ELSE "release",
                           !.conn = Null, !.stopped = FALSE]

\* dtp_start_transfer fails, and closes its connection.
TransferFails(u, errno) ==
    /\ slots' = [slots EXCEPT ![user[u].slot].errno = errno]
    /\ conns' = csp_close(conns, user[u].conn)
    /\ user' = [user EXCEPT ![u] = [Back(u) EXCEPT !.unbound = @ \/ user[u].pc = "bind"]]
    /\ UNCHANGED <<last_error, port, collided>>

----------------------------------------------------------------------------
(* dtp_acquire_session, in two steps: nothing guards the scan for a slot.  *)

AcquireScan(u) ==
    /\ At(u, "idle")
    /\ \E s \in Slots :
          /\ ~slots[s].in_use
          /\ \A r \in Slots : r < s => slots[r].in_use
          /\ user' = [user EXCEPT ![u] = [Idle EXCEPT !.pc = "take", !.slot = s, !.held = (u \in VmemUsers)]]
    /\ UNCHANGED <<slots, last_error, conns, port, collided>>

\* No slot is free.
AcquireFails(u) ==
    /\ At(u, "idle")
    /\ \A s \in Slots : slots[s].in_use
    /\ last_error' = "no_more"
    /\ Step(u, "no_session")
    /\ UNCHANGED <<slots, conns, port, collided>>

AcquireTake(u) ==
    /\ At(u, "take")
    /\ collided' = (collided \/ SlotOf(u).in_use)
    /\ slots' = [slots EXCEPT ![user[u].slot] = [@ EXCEPT !.in_use = TRUE, !.active = FALSE,
                                                          !.session_id = "none"]]
    /\ last_error' = "no_err"
    /\ Step(u, "prepare")
    /\ UNCHANGED <<conns, port>>

----------------------------------------------------------------------------
(* dtp_prepare_session                                                     *)

\* A download of everything or a resume: the session id is that of the calling
\* function, also in the .meta file.  A resume without a .meta file leaves an
\* error number, and one that finds an error number downloads everything.
Prepare(u, no_meta) ==
    /\ At(u, "prepare")
    /\ slots' = [slots EXCEPT ![user[u].slot] =
                     [SlotOf(u) EXCEPT !.errno = IF no_meta THEN "failed" ELSE @, !.session_id = IdOf(u)]]
    /\ Step(u, "prepared")
    /\ UNCHANGED <<last_error, conns, port, collided>>

\* A resume with nothing to fetch.
PrepareExhausted(u) ==
    /\ At(u, "prepare")
    /\ SlotOf(u).errno = "no_err"
    /\ slots' = [slots EXCEPT ![user[u].slot].errno = "exhausted"]
    /\ Step(u, "exhausted")
    /\ UNCHANGED <<last_error, conns, port, collided>>

\* The session is released; dtp_client_main is given NULL, and releases that.
ReleaseExhausted(u) ==
    /\ At(u, "exhausted")
    /\ Release(u, IF u \in VmemUsers THEN "clear" ELSE "clear_null")

----------------------------------------------------------------------------
(* dtp_start_transfer: connection, request and response.                   *)

Connect(u, h) ==
    /\ At(u, "prepared") /\ u \notin VmemUsers
    /\ csp_connect(u, h)
    /\ slots' = [slots EXCEPT ![user[u].slot].conn = h]
    /\ user' = [user EXCEPT ![u] = [@ EXCEPT !.pc = "request", !.conn = h]]
    /\ UNCHANGED <<last_error, port, collided>>

ConnectFails(u) ==
    /\ At(u, "prepared") /\ u \notin VmemUsers
    /\ TransferFails(u, "failed")

\* send_remote_meta_req gets no buffer, and sets no error number.
RequestFails(u) ==
    /\ At(u, "request")
    /\ TransferFails(u, SlotOf(u).errno)

\* read_remote_meta_resp: what comes on the connection, whosever it is by now.
Response(u) ==
    /\ At(u, "request")
    /\ conns[user[u].conn] # Free
    /\ Step(u, "start")
    /\ UNCHANGED <<slots, last_error, conns, port, collided>>

NoResponse(u) ==
    /\ At(u, "request")
    /\ TransferFails(u, "failed")

----------------------------------------------------------------------------
(* The calls of dtp_vmem_client.c: one connection, one packet.  A VMEM     *)
(* download begins with one, the receive loop makes one for each ALIVE.    *)

VmemConnect(u, h) ==
    /\ \/ At(u, "prepared") /\ u \in VmemUsers
       \/ At(u, "loop")
    /\ user[u].vmem = Null
    /\ csp_connect(u, h)
    /\ user' = [user EXCEPT ![u].vmem = h]
    /\ UNCHANGED <<slots, last_error, port, collided>>

\* A download is not begun without a connection; an ALIVE is given up.
VmemConnectFails(u) ==
    /\ At(u, "prepared") /\ u \in VmemUsers
    /\ user[u].vmem = Null
    /\ user' = [user EXCEPT ![u] = Back(u)]
    /\ UNCHANGED <<slots, last_error, conns, port, collided>>

\* mutant: the connection is left open.
VmemSend_open(u) ==
    /\ ~collided /\ user[u].vmem # Null
    /\ user' = [user EXCEPT ![u] = IF @.pc = "prepared" THEN [@ EXCEPT !.vmem = Null, !.pc = "start"]
                                   ELSE [@ EXCEPT !.vmem = Null]]
    /\ UNCHANGED <<slots, last_error, conns, port, collided>>

VmemSend(u) ==
    /\ ~collided /\ user[u].vmem # Null
    /\ conns' = csp_close(conns, user[u].vmem)
    /\ user' = [user EXCEPT ![u] = IF @.pc = "prepared" THEN [@ EXCEPT !.vmem = Null, !.pc = "start"]
                                   ELSE [@ EXCEPT !.vmem = Null]]
    /\ UNCHANGED <<slots, last_error, port, collided>>

\* csp_buffer_get fails: the call returns with the connection open.
VmemNoBuffer(u) ==
    LET h == user[u].vmem IN
    /\ ~collided /\ h # Null
    /\ conns' = [conns EXCEPT ![h] = IF @ = u THEN Lost ELSE @]
    /\ user' = [user EXCEPT ![u] = IF @.pc = "prepared" THEN [@ EXCEPT !.vmem = Null, !.pc = "returned"]
                                   ELSE [@ EXCEPT !.vmem = Null]]
    /\ UNCHANGED <<slots, last_error, port, collided>>

----------------------------------------------------------------------------
(* start_receiving_data                                                    *)

\* on_start opens the output stream, and the session becomes active.
StartReceiving(u) ==
    /\ At(u, "start")
    /\ slots' = [slots EXCEPT ![user[u].slot].active = TRUE]
    /\ user' = [user EXCEPT ![u] = [@ EXCEPT !.pc = "bind", !.stream = "open", !.stopped = FALSE,
                                             !.unbound = FALSE]]
    /\ UNCHANGED <<last_error, conns, port, collided>>

Bind(u) ==
    /\ At(u, "bind")
    /\ port = Free
    /\ port' = u
    /\ Step(u, "loop")
    /\ UNCHANGED <<slots, last_error, conns, collided>>

\* The port is taken: no on_end, no error number.
BindFails(u) ==
    /\ At(u, "bind")
    /\ port # Free
    /\ TransferFails(u, SlotOf(u).errno)

\* mutant: on_end is called for complete transfers only.
ClosedStream_ok(stream, active) == IF active THEN "closed" ELSE stream

\* apm_on_end.
ClosedStream(stream, active) == "closed"

\* The loop is left: all packets came or the time is over (active stays set),
\* the session was stopped, or nothing came for the timeout.  The port and the
\* connection are closed and the session goes to the caller, or is released
\* when the caller has no use for it.
EndReceiving(u, active, wanted) ==
    /\ At(u, "loop") /\ user[u].vmem = Null
    /\ active => SlotOf(u).active
    /\ port' = Free
    /\ slots' = [slots EXCEPT ![user[u].slot].active = active]
    /\ conns' = csp_close(conns, user[u].conn)
    /\ user' = [user EXCEPT ![u] = [Back(u) EXCEPT !.held = user[u].held \/ wanted,
                                                   !.pc = IF wanted THEN "returned" ELSE @,
                                                   !.stream = ClosedStream(@, active)]]
    /\ UNCHANGED <<last_error, collided>>

----------------------------------------------------------------------------
(* The caller, and other threads.                                          *)

\* By dtp_client_main or by its caller.
ReleaseSession(u) ==
    /\ At(u, "release") \/ At(u, "returned")
    /\ Release(u, "clear")

\* dtp_start_transfer, or the VMEM download, again with the same session.
CallerRestarts(u) ==
    /\ At(u, "returned")
    /\ Step(u, "prepared")
    /\ UNCHANGED <<slots, last_error, conns, port, collided>>

\* mutant: a session id stops all sessions.
Named_all(s, id) == slots[s].in_use

Named(s, id) == slots[s].in_use /\ id \in {"all", slots[s].session_id}

\* id "all" is 0.
dtp_stop_transfer(id) ==
    /\ ~collided
    /\ slots' = [s \in Slots |-> IF Named(s, id) THEN [slots[s] EXCEPT !.active = FALSE] ELSE slots[s]]
    /\ user' = [u \in Users |->
                   IF user[u].pc \in {"bind", "loop"} /\ id \in {"all", SlotOf(u).session_id}
                   THEN [user[u] EXCEPT !.stopped = TRUE] ELSE user[u]]
    /\ UNCHANGED <<last_error, conns, port, collided>>

Next ==
    \/ \E u \in Users, no_meta \in BOOLEAN : Prepare(u, no_meta)
    \/ \E u \in Users, h \in Conns : Connect(u, h) \/ VmemConnect(u, h)
    \/ \E u \in Users, active, wanted \in BOOLEAN : EndReceiving(u, active, wanted)
    \/ \E u \in Users :
          \/ AcquireScan(u) \/ AcquireFails(u) \/ AcquireTake(u)
          \/ PrepareExhausted(u) \/ ReleaseExhausted(u)
          \/ ConnectFails(u) \/ RequestFails(u) \/ Response(u) \/ NoResponse(u)
          \/ VmemConnectFails(u) \/ VmemSend(u) \/ VmemNoBuffer(u)
          \/ StartReceiving(u) \/ Bind(u) \/ BindFails(u)
          \/ ReleaseSession(u) \/ ClearErrno(u) \/ ReleaseNull(u) \/ CallerRestarts(u)
    \/ \E id \in Ids \cup {"all"} : dtp_stop_transfer(id)

Spec == Init /\ [][Next]_vars

----------------------------------------------------------------------------
(* Properties                                                              *)

Clearing == {"clear", "clear_null"}

Holds(u, s) ==
    user[u].slot = s /\ user[u].pc \notin {"idle", "take", "clear", "clear_null", "no_session", "null"}

Errors == {"no_err", "no_more", "session_not_found", "failed", "exhausted"}

SlotType == [in_use : BOOLEAN, active : BOOLEAN, errno : Errors, conn : Conns \cup {Null},
             session_id : Ids \cup {"none"}]

Points == {"idle", "take", "prepare", "exhausted", "prepared", "request", "start", "bind", "loop", "release", "returned",
           "clear", "clear_null", "no_session", "null"}

UserType == [pc : Points, slot : Slots \cup {NoSlot}, conn : Conns \cup {Null}, vmem : Conns \cup {Null},
             held : BOOLEAN, stopped : BOOLEAN, stream : {"open", "closed"}, unbound : BOOLEAN]

\* The state of the static sessions, of CSP and of the threads.
TypeOK ==
    /\ slots \in [Slots -> SlotType]
    /\ last_error \in Errors
    /\ conns \in [Conns -> Users \cup {Free, Lost}]
    /\ port \in Users \cup {Free}
    /\ user \in [Users -> UserType]
    /\ collided \in BOOLEAN

\* A session is in use exactly while one thread has it, on every path of
\* dtp_prepare_session, dtp_client_main and their callers, as long as no two
\* scans of dtp_acquire_session have overlapped on a slot.
SlotsExclusive ==
    ~collided =>
        /\ \A s \in Slots : slots[s].in_use <=> \E u \in Users : Holds(u, s)
        /\ \A s \in Slots, u, v \in Users : Holds(u, s) /\ Holds(v, s) => u = v

\* While a session receives, it is inactive exactly when dtp_stop_transfer has
\* named it since it became active: no stop of another session, release or
\* acquisition touches it.
StopHeard ==
    ~collided =>
        \A u \in Users : user[u].pc \in {"bind", "loop"} => (SlotOf(u).active <=> ~user[u].stopped)

\* An open connection belongs to a call in progress, or was left by a call of
\* dtp_vmem_client.c that got no buffer.
ConnsAccounted ==
    \A h \in Conns, u \in Users : conns[h] = u => h \in {user[u].conn, user[u].vmem}

\* The output stream is closed when a call is over, unless port 8 could not be
\* bound.
StreamsClosed ==
    \A u \in Users : user[u].pc \in {"release", "returned"} /\ user[u].stream = "open" => user[u].unbound

\* The error number by which dtp_prepare_session chooses between a resume and a
\* download of everything is not left over from an earlier use of the session,
\* which dtp_acquire_session would not clear, unless the thread that released
\* the session has yet to clear it.
NoStaleError ==
    ~collided =>
        \A u \in Users : user[u].pc = "prepare" =>
            \/ SlotOf(u).errno = "no_err"
            \/ \E v \in Users : user[v].pc \in Clearing /\ user[v].slot = user[u].slot
=============================================================================
