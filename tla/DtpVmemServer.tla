--------------------------- MODULE DtpVmemServer ---------------------------
(***************************************************************************)
(* Transfers started over VMEM (src/src/dtp_vmem_server.c and              *)
(* dtp_vmem_client.c, dtp_vmem_server_run of dtp_server.c), beside the     *)
(* server on the control socket (dtp_server_run).                          *)
(*                                                                         *)
(* Three threads meet here: the VMEM handler, the VMEM task it feeds       *)
(* through a queue, and the socket task.  Both tasks run                   *)
(* start_sending_data on the one global server_transfer_ctx, and the       *)
(* handler writes its keep_running and client_alive_ts.  Nothing is        *)
(* locked.  How an interval is cut into packets is the subject of          *)
(* DtpServer; here every interval of a request is one packet.              *)
(*                                                                         *)
(* Time is counted from client_alive_ts: age is what csp_get_ms() -        *)
(* client_alive_ts would be now, and a task's gap is that difference for   *)
(* the moment it read the clock.  A stamp renewed in between makes the gap *)
(* negative, and the subtraction on uint32_t wraps.                        *)
(***************************************************************************)
EXTENDS Integers, Sequences

CONSTANTS
    Clients,            \* CSP nodes that send requests
    BigEndian,          \* those whose byte order is big endian
    ServerBigEndian,    \* the server's
    KeepAliveInterval,  \* request.keep_alive_interval
    Grace,              \* 500 in the code, in units of the model's clock
    Wrap,               \* 2^32 in the code
    VmemPackets,        \* intervals of a request over VMEM
    FilePackets,        \* intervals of a request on the control socket
    QueueLength,        \* 10 in the code
    MaxJobs             \* bound: transfers asked for

Limit == 2 * KeepAliveInterval + Grace

ASSUME VmemAssumption ==
    /\ BigEndian \subseteq Clients
    /\ ServerBigEndian \in BOOLEAN
    /\ KeepAliveInterval \in Nat /\ Grace \in Nat
    /\ Wrap \in Nat /\ Wrap > 2 * (Limit + 1)
    /\ VmemPackets \in Nat /\ FilePackets \in Nat /\ QueueLength \in Nat \ {0}
    /\ MaxJobs \in Nat

VARIABLES
    jobs,               \* transfers asked for so far; their session ids count up
    session_id,         \* dtp_vmem_context_t.session_id, 0 for none
    queue,              \* dtp_vmem_context_t.queue
    ctx,                \* server_transfer_ctx: request and payload of a job
    keep_running,       \* server_transfer_ctx.keep_running
    age,
    task,               \* control point, job, packets sent and gap of each task
    accepted, begun,    \* history: session ids queued, and begun by the VMEM task
    seen                \* history of each task's transfer, see Fresh

vars == <<jobs, session_id, queue, ctx, keep_running, age, task, accepted, begun, seen>>

Tasks == {"vmem", "socket"}

Other(t) == IF t = "vmem" THEN "socket" ELSE "vmem"

\* Between the two writes to keep_running: at the loop test, about to send,
\* about to look at the client's last sign of life, or without a reply packet
\* and so without anything to send.
Engaged == {"test", "send", "check", "refused"}

NoJob == [session |-> 0, client |-> 0, source |-> "none", packets |-> 0, keep_alive |-> 0]

IdleTask == [pc |-> "idle", job |-> NoJob, sent |-> 0, gap |-> 0]

NoStop == -1

\* What is remembered of a transfer: that the other task wrote the context,
\* that a packet carried another job's data, and the packets since a STOP.
Fresh == [shared |-> FALSE, astray |-> FALSE, after_stop |-> NoStop]

Init ==
    /\ jobs = 0 /\ session_id = 0 /\ age = 0
    /\ queue = <<>> /\ accepted = <<>> /\ begun = <<>>
    /\ ctx = NoJob
    /\ keep_running = FALSE
    /\ task = [t \in Tasks |-> IdleTask]
    /\ seen = [t \in Tasks |-> Fresh]

----------------------------------------------------------------------------
(* keep_alive_interval is a uint16_t that the client passes through        *)
(* htobe32 and the server through be32toh.  On the wire it is the number   *)
(* its two bytes mean in network order.                                    *)

swap16(x) == (x % 256) * 256 + x \div 256

\* The low half of a byte-swapped 32-bit number.
swap32_low(x) == (swap16(x) * 65536) % 65536

keep_alive_on_wire(c, ms) == IF c \in BigEndian THEN ms ELSE swap16(swap32_low(ms))

keep_alive_read(field) == IF ServerBigEndian THEN field ELSE swap32_low(swap16(field))

\* A request of client c as the server reads it.
Job(c, source, packets) ==
    [session |-> jobs + 1, client |-> c, source |-> source, packets |-> packets,
     keep_alive |-> keep_alive_read(keep_alive_on_wire(c, KeepAliveInterval))]

----------------------------------------------------------------------------
(* The client's calls (vmem_request_dtp_start_download and the others open *)
(* a connection each, send one request and close it) and what              *)
(* vmem_dtp_request_handler does with the request.  Clients call at any    *)
(* time, so a request that is late or lost is one that is not made.        *)

\* client_alive_ts = csp_get_ms(), seen from a task that has read the clock; a
\* negative gap need not count below -1.
Stamped == [t \in Tasks |->
               IF task[t].pc = "check"
               THEN [task[t] EXCEPT !.gap = IF @ >= age THEN @ - age ELSE -1]
               ELSE task[t]]

\* message_queue_send; the message is dropped when the queue is full, and the
\* result is ignored.
Queued(job) ==
    IF Len(queue) < QueueLength
    THEN queue' = Append(queue, job) /\ accepted' = Append(accepted, job.session)
    ELSE UNCHANGED <<queue, accepted>>

HandleStart(c) ==
    /\ jobs < MaxJobs
    /\ jobs' = jobs + 1
    /\ session_id' = jobs + 1
    /\ age' = 0
    /\ task' = Stamped
    /\ Queued(Job(c, "vmem", VmemPackets))
    /\ UNCHANGED <<ctx, keep_running, begun, seen>>

\* The session id in the request is printed, not compared.
HandleStop ==
    /\ keep_running' = FALSE
    /\ session_id' = 0
    /\ seen' = [t \in Tasks |-> IF task[t].pc \in Engaged /\ seen[t].after_stop = NoStop
                                THEN [seen[t] EXCEPT !.after_stop = 0]
                                ELSE seen[t]]
    /\ UNCHANGED <<jobs, queue, accepted, ctx, age, task, begun>>

\* The answer to a STATUS request, which changes nothing.
StatusResponse == [session_id |-> session_id, busy |-> keep_running]

HandleAlive ==
    /\ keep_running
    /\ age' = 0
    /\ task' = Stamped
    /\ UNCHANGED <<jobs, session_id, queue, accepted, ctx, keep_running,
                   begun, seen>>

----------------------------------------------------------------------------
(* The two tasks, up to start_sending_data.                                *)

\* mutant: the latest message first.
Dequeue_newest ==
    /\ task["vmem"].pc = "idle"
    /\ queue # <<>>
    /\ queue' = SubSeq(queue, 1, Len(queue) - 1)
    /\ task' = [task EXCEPT !["vmem"].pc = "setup", !["vmem"].job = queue[Len(queue)]]
    /\ UNCHANGED <<jobs, session_id, accepted, ctx, keep_running, age,
                   begun, seen>>

\* dtp_vmem_server_run: the message is in a local.
Dequeue ==
    /\ task["vmem"].pc = "idle"
    /\ queue # <<>>
    /\ queue' = Tail(queue)
    /\ task' = [task EXCEPT !["vmem"].pc = "setup", !["vmem"].job = Head(queue)]
    /\ UNCHANGED <<jobs, session_id, accepted, ctx, keep_running, age,
                   begun, seen>>

\* Task t overwrites the context under the other task's transfer.
Overwritten(t) ==
    LET u == Other(t) IN
    [seen EXCEPT ![u].shared = @ \/ task[u].pc \in Engaged
                                \/ (u = "socket" /\ task[u].pc = "setup")]

\* setup_server_transfer.  It prepares no reply for a payload that is not known
\* (the context is then left without one) or when no buffer is free.
SocketSetup(c, outcome) ==
    LET job == Job(c, "file", FilePackets) IN
    /\ task["socket"].pc = "idle"
    /\ jobs < MaxJobs
    /\ jobs' = jobs + 1
    /\ task' = [task EXCEPT !["socket"].pc = IF outcome = "reply" THEN "setup" ELSE "no_reply",
                            !["socket"].job = job]
    /\ ctx' = [job EXCEPT !.source = IF outcome = "unknown" THEN "none" ELSE @]
    /\ seen' = Overwritten("socket")
    /\ UNCHANGED <<session_id, queue, accepted, keep_running, age, begun>>

\* keep_running is set, for whoever is sending: a STOP that came before is
\* undone.
Revived(h) == [t \in Tasks |-> [h[t] EXCEPT !.after_stop = NoStop]]

\* mutant: the request is not copied into the context.
VmemBegin_no_request ==
    /\ task["vmem"].pc = "setup"
    /\ keep_running' = TRUE
    /\ age' = 0
    /\ task' = [Stamped EXCEPT !["vmem"].pc = "test"]
    /\ seen' = Revived(Overwritten("vmem"))
    /\ begun' = Append(begun, task["vmem"].job.session)
    /\ UNCHANGED <<jobs, session_id, queue, accepted, ctx>>

\* dtp_vmem_server_run up to the first interval.  The code
\* writes the fields of the context one by one; here they change together, so a
\* context that mixes the jobs of two tasks that set up at once is left out.
VmemBegin ==
    /\ task["vmem"].pc = "setup"
    /\ ctx' = task["vmem"].job
    /\ keep_running' = TRUE
    /\ age' = 0
    /\ task' = [Stamped EXCEPT !["vmem"].pc = "test"]
    /\ seen' = Revived(Overwritten("vmem"))
    /\ begun' = Append(begun, task["vmem"].job.session)
    /\ UNCHANGED <<jobs, session_id, queue, accepted>>

\* dtp_server_run after the setup: keep_running is set whether there is
\* something to send or not.
SocketBegin ==
    /\ keep_running' = TRUE
    /\ seen' = Revived(seen)
    /\ \/ /\ task["socket"].pc = "setup"
          /\ age' = 0
          /\ task' = [Stamped EXCEPT !["socket"].pc = "test"]
       \/ /\ task["socket"].pc = "no_reply"
          /\ task' = [task EXCEPT !["socket"].pc = "refused"]
          /\ UNCHANGED age
    /\ UNCHANGED <<jobs, session_id, queue, accepted, ctx, begun>>

----------------------------------------------------------------------------
(* start_sending_data in task t.                                           *)

\* mutant: keep_running is not tested before a packet.
GoesOn_always(t) == task[t].sent < ctx.packets

\* The number of intervals is read from the context every time.
GoesOn(t) == task[t].sent < ctx.packets /\ keep_running

LoopTest(t) ==
    /\ task[t].pc = "test"
    /\ GoesOn(t)
    /\ task' = [task EXCEPT ![t].pc = "send"]
    /\ UNCHANGED <<jobs, session_id, queue, accepted, ctx, keep_running,
                   age, begun, seen>>

\* mutant: keep_running is not cleared at the end.
Finish_busy(t) ==
    /\ \/ task[t].pc = "test" /\ ~GoesOn(t)
       \/ task[t].pc = "refused"
    /\ task' = [task EXCEPT ![t] = IdleTask]
    /\ seen' = [seen EXCEPT ![t] = Fresh]
    /\ UNCHANGED <<jobs, session_id, queue, accepted, ctx, keep_running, age, begun>>

\* The transfer is over, and keep_running is cleared, whoever uses it.
Finish(t) ==
    /\ \/ task[t].pc = "test" /\ ~GoesOn(t)
       \/ task[t].pc = "refused"
    /\ keep_running' = FALSE
    /\ task' = [task EXCEPT ![t] = IdleTask]
    /\ seen' = [seen EXCEPT ![t] = Fresh]
    /\ UNCHANGED <<jobs, session_id, queue, accepted, ctx, age, begun>>

\* mutant: the packet is not counted.
SendPacket_again(t) ==
    /\ task[t].pc = "send"
    /\ task' = [task EXCEPT ![t].pc = "check", ![t].gap = age]
    /\ seen' = [seen EXCEPT ![t].astray = @ \/ ctx # task[t].job,
                            ![t].after_stop = IF @ \in {0, 1} THEN @ + 1 ELSE @]
    /\ UNCHANGED <<jobs, session_id, queue, accepted, ctx, keep_running,
                   age, begun>>

\* The packet is made from the context: its session, its destination, its
\* payload.  Then the clock is read.
SendPacket(t) ==
    /\ task[t].pc = "send"
    /\ task' = [task EXCEPT ![t].pc = "check", ![t].sent = @ + 1, ![t].gap = age]
    /\ seen' = [seen EXCEPT ![t].astray = @ \/ ctx # task[t].job,
                            ![t].after_stop = IF @ \in {0, 1} THEN @ + 1 ELSE @]
    /\ UNCHANGED <<jobs, session_id, queue, accepted, ctx, keep_running,
                   age, begun>>

\* mutant: one keep-alive interval of silence is enough.
TooLong_once(gap) == ctx.keep_alive > 0 /\ gap % Wrap > ctx.keep_alive + Grace

\* The difference is unsigned: a stamp that is renewed after the clock was read
\* makes it huge.
TooLong(gap) == ctx.keep_alive > 0 /\ gap % Wrap > 2 * ctx.keep_alive + Grace

CheckAlive(t) ==
    /\ task[t].pc = "check"
    /\ task' = [task EXCEPT ![t].pc = "test", ![t].gap = 0]
    /\ keep_running' = (keep_running /\ ~TooLong(task[t].gap))
    /\ UNCHANGED <<jobs, session_id, queue, accepted, ctx, age, begun, seen>>

Send(t) == LoopTest(t) \/ Finish(t) \/ SendPacket(t) \/ CheckAlive(t)

\* Time passes.  It matters only to a transfer with a keep-alive interval, and
\* beyond Limit + 1 more silence makes no difference.
Tick ==
    /\ age <= Limit
    /\ ctx.keep_alive > 0
    /\ \E t \in Tasks : task[t].pc \in Engaged
    /\ age' = age + 1
    /\ UNCHANGED <<jobs, session_id, queue, accepted, ctx, keep_running,
                   task, begun, seen>>

Next ==
    \/ \E c \in Clients : HandleStart(c)
    \/ HandleStop \/ HandleAlive
    \/ Dequeue \/ VmemBegin
    \/ \E c \in Clients, outcome \in {"reply", "unknown", "no_buffer"} : SocketSetup(c, outcome)
    \/ SocketBegin
    \/ \E t \in Tasks : Send(t)
    \/ Tick

SafetySpec == Init /\ [][Next]_vars

\* The two tasks keep running.
Spec == /\ SafetySpec
        /\ WF_vars(Dequeue \/ VmemBegin \/ Send("vmem"))
        /\ WF_vars(SocketBegin \/ Send("socket"))

----------------------------------------------------------------------------
(* Properties                                                              *)

\* The messages dtp_vmem_server_run has received and not begun.
InHand == IF task["vmem"].pc = "setup" THEN 1 ELSE 0

JobType == [session : Nat, client : Clients \cup {0}, source : {"none", "vmem", "file"},
            packets : Nat, keep_alive : Nat]

TaskType == [pc : Engaged \cup {"idle", "setup", "no_reply"}, job : JobType,
             sent : Nat, gap : Nat \cup {-1}]

SeenType == [shared : BOOLEAN, astray : BOOLEAN, after_stop : NoStop .. 2]

\* The state of vmem_dtp_request_handler and of the two tasks.
TypeOK ==
    /\ jobs \in Nat /\ session_id \in Nat /\ age \in Nat
    /\ queue \in Seq(JobType) /\ Len(queue) <= QueueLength
    /\ ctx \in JobType
    /\ keep_running \in BOOLEAN
    /\ task \in [Tasks -> TaskType]
    /\ accepted \in Seq(Nat) /\ begun \in Seq(Nat)
    /\ seen \in [Tasks -> SeenType]

\* Every START that the queue took is begun exactly once, in the order of
\* arrival, whatever else the handler does meanwhile.
ServedInOrder ==
    /\ Len(accepted) = Len(begun) + InHand + Len(queue)
    /\ \A i \in DOMAIN begun : accepted[i] = begun[i]
    /\ InHand = 1 => accepted[Len(begun) + 1] = task["vmem"].job.session
    /\ \A i \in DOMAIN queue : accepted[Len(begun) + InHand + i] = queue[i].session

\* STATUS answers BUSY only while a task serves a request: keep_running is
\* never left set behind a transfer.
BusyMeansEngaged == StatusResponse.busy => \E t \in Tasks : task[t].pc \in Engaged

\* A packet carries the session, destination and payload of the transfer it
\* belongs to, unless the other task has used server_transfer_ctx meanwhile.
PacketsAreOwn == \A t \in Tasks : seen[t].astray => seen[t].shared

\* After a STOP a transfer under way sends at most the packet in hand, unless
\* the start of another transfer sets keep_running again.
StopHolds == \A t \in Tasks : seen[t].after_stop <= 1

\* A transfer is given up for a client that is no longer alive only when its
\* last sign of life is older than the limit, or came after csp_get_ms was
\* called and before the stamp was subtracted.
AbortMeansSilent ==
    [][\A t \in Tasks : task[t].pc = "check" /\ task'[t].pc = "test" /\ keep_running /\ ~keep_running'
           => age > Limit \/ task[t].gap = -1]_vars

\* The VMEM task takes the next START whenever one waits, so no transfer
\* blocks it for ever.
QueueDrains == (queue # <<>>) ~> (task["vmem"].pc = "setup")
=============================================================================
