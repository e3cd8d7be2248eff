------------------------ MODULE DtpVmemServerProofs ------------------------
(***************************************************************************)
(* What is proved of DtpVmemServer, for any clients, byte orders, queue    *)
(* length, numbers of packets and jobs.                                    *)
(***************************************************************************)
EXTENDS DtpVmemServer, SequenceTheorems, TLAPS

\* A byte-swapped 32-bit number made from a 16-bit one has nothing in its low
\* half, so keep_alive_interval is lost wherever the conversion swaps.
LEMMA SwapLoses == \A x \in Nat : swap16(x) \in Nat /\ swap32_low(x) = 0
<1>1. \A n \in Nat : (n * 65536) % 65536 = 0
  OBVIOUS
<1>2. \A x \in Nat : swap16(x) \in Nat
  BY DEF swap16
<1> QED BY <1>1, <1>2 DEF swap32_low

\* The interval the server reads is the client's if both are big endian, and
\* 0 otherwise.
THEOREM KeepAliveRead ==
    ASSUME NEW c \in Clients, NEW ms \in Nat
    PROVE  keep_alive_read(keep_alive_on_wire(c, ms)) =
               IF c \in BigEndian /\ ServerBigEndian THEN ms ELSE 0
<1>1. swap32_low(ms) = 0 /\ swap16(0) = 0 /\ swap32_low(swap16(ms)) = 0 /\ swap32_low(0) = 0
  BY SwapLoses DEF swap16
<1> QED BY <1>1 DEF keep_alive_read, keep_alive_on_wire

----------------------------------------------------------------------------
(* The helpers of the actions keep the types, and what each leaves alone.  *)

\* A request read by the server is a job.
LEMMA JobTyped ==
    ASSUME TypeOK, NEW c \in Clients, NEW source \in {"vmem", "file"}, NEW n \in Nat
    PROVE  Job(c, source, n) \in JobType
<1>1. keep_alive_read(keep_alive_on_wire(c, KeepAliveInterval)) \in Nat
  BY KeepAliveRead, VmemAssumption
<1> QED BY <1>1 DEF Job, JobType, TypeOK

\* A stamp changes nothing but gaps.
LEMMA StampedTyped ==
    ASSUME TypeOK
    PROVE  /\ Stamped \in [Tasks -> TaskType]
           /\ \A t \in Tasks : /\ Stamped[t].pc = task[t].pc
                               /\ Stamped[t].job = task[t].job
                               /\ Stamped[t].sent = task[t].sent
<1> SUFFICES ASSUME NEW t \in Tasks
             PROVE  /\ Stamped[t] \in TaskType
                    /\ Stamped[t].pc = task[t].pc
                    /\ Stamped[t].job = task[t].job
                    /\ Stamped[t].sent = task[t].sent
  BY DEF Stamped
<1>1. task[t] \in TaskType /\ age \in Nat
  BY DEF TypeOK
<1>2. CASE task[t].pc = "check"
  <2> DEFINE g == IF task[t].gap >= age THEN task[t].gap - age ELSE -1
  <2>1. g \in Nat \cup {-1}
    BY <1>1 DEF TaskType
  <2>2. Stamped[t] = [task[t] EXCEPT !.gap = g]
    BY <1>2 DEF Stamped
  <2> HIDE DEF g
  <2> QED BY <1>1, <2>1, <2>2 DEF TaskType
<1>3. CASE task[t].pc # "check"
  BY <1>1, <1>3 DEF Stamped
<1> QED BY <1>2, <1>3

\* Overwriting the context is recorded for the other task and nothing else.
LEMMA OverwrittenTyped ==
    ASSUME TypeOK, NEW t \in Tasks
    PROVE  /\ Overwritten(t) \in [Tasks -> SeenType]
           /\ \A u \in Tasks : /\ Overwritten(t)[u].astray = seen[u].astray
                               /\ Overwritten(t)[u].after_stop = seen[u].after_stop
                               /\ seen[u].shared => Overwritten(t)[u].shared
           /\ Overwritten(t)[t] = seen[t]
           /\ task[Other(t)].pc \in Engaged => Overwritten(t)[Other(t)].shared
           /\ t = "vmem" /\ task["socket"].pc = "setup" => Overwritten(t)["socket"].shared
<1> DEFINE u == Other(t)
           b == seen[u].shared \/ task[u].pc \in Engaged \/ (u = "socket" /\ task[u].pc = "setup")
<1>1. u \in Tasks /\ u # t /\ \A w \in Tasks : w = t \/ w = u
  BY Zenon DEF Other, Tasks
<1>2. t = "vmem" => u = "socket"
  BY DEF Other
<1>3. seen \in [Tasks -> SeenType] /\ b \in BOOLEAN
  BY <1>1, Zenon DEF TypeOK, SeenType
<1>4. Overwritten(t) = [seen EXCEPT ![u] = [seen[u] EXCEPT !.shared = b]]
  BY Zenon DEF Overwritten
<1> HIDE DEF u
<1>5. [seen[u] EXCEPT !.shared = b] \in SeenType
  BY <1>1, <1>3, Zenon DEF SeenType
<1>6. Overwritten(t) \in [Tasks -> SeenType] /\ Overwritten(t)[t] = seen[t]
      /\ Overwritten(t)[u] = [seen[u] EXCEPT !.shared = b]
  <2> DEFINE r == [seen[u] EXCEPT !.shared = b]
  <2>1. r \in SeenType /\ Overwritten(t) = [seen EXCEPT ![u] = r]
    BY <1>4, <1>5
  <2> HIDE DEF r
  <2>2. [seen EXCEPT ![u] = r] \in [Tasks -> SeenType]
    BY <1>3, <2>1
  <2>3. [seen EXCEPT ![u] = r][t] = seen[t] /\ [seen EXCEPT ![u] = r][u] = r
    BY <1>1, <1>3, Zenon
  <2> QED BY <2>1, <2>2, <2>3, Zenon DEF r
<1>7. /\ Overwritten(t)[u].astray = seen[u].astray
      /\ Overwritten(t)[u].after_stop = seen[u].after_stop
      /\ Overwritten(t)[u].shared = b
  BY <1>1, <1>3, <1>6, Zenon DEF SeenType
<1> QED BY <1>1, <1>2, <1>6, <1>7, Zenon DEF u

\* Setting keep_running clears the record of stops.
LEMMA RevivedTyped ==
    ASSUME NEW h \in [Tasks -> SeenType]
    PROVE  /\ Revived(h) \in [Tasks -> SeenType]
           /\ \A t \in Tasks : /\ Revived(h)[t].shared = h[t].shared
                               /\ Revived(h)[t].astray = h[t].astray
                               /\ Revived(h)[t].after_stop = NoStop
<1> SUFFICES ASSUME NEW t \in Tasks
             PROVE  /\ Revived(h)[t] \in SeenType
                    /\ Revived(h)[t].shared = h[t].shared
                    /\ Revived(h)[t].astray = h[t].astray
                    /\ Revived(h)[t].after_stop = NoStop
  BY DEF Revived
<1>1. NoStop \in NoStop .. 2
  BY DEF NoStop
<1>2. Revived(h)[t] = [h[t] EXCEPT !.after_stop = NoStop]
  BY DEF Revived
<1> QED BY <1>1, <1>2, Zenon DEF SeenType

----------------------------------------------------------------------------
(* Types, and the length of the queue.                                     *)

\* A step of a task changes its record to one of the right type.
LEMMA TaskExcept ==
    ASSUME NEW f \in [Tasks -> TaskType], NEW t \in Tasks, NEW r \in TaskType
    PROVE  [f EXCEPT ![t] = r] \in [Tasks -> TaskType]
  OBVIOUS

\* So does a change of its control point alone.
LEMMA PcExcept ==
    ASSUME NEW f \in [Tasks -> TaskType], NEW t \in Tasks,
           NEW pc \in {"idle", "setup", "no_reply", "test", "send", "check", "refused"}
    PROVE  [f EXCEPT ![t].pc = pc] \in [Tasks -> TaskType]
<1>1. f[t] \in TaskType
  OBVIOUS
<1>2. pc \in Engaged \cup {"idle", "setup", "no_reply"}
  BY DEF Engaged
<1>3. [f[t] EXCEPT !.pc = pc] \in TaskType
  BY <1>1, <1>2, Zenon DEF TaskType
<1> QED BY <1>3, TaskExcept

\* message_queue_send keeps the types and the length of the queue.
LEMMA QueuedTyped ==
    ASSUME TypeOK, NEW job \in JobType, Queued(job)
    PROVE  /\ queue' \in Seq(JobType) /\ Len(queue') <= QueueLength
           /\ accepted' \in Seq(Nat)
<1>1. job.session \in Nat
  BY DEF JobType
<1>2. CASE Len(queue) < QueueLength
  <2>1. queue' = Append(queue, job) /\ accepted' = Append(accepted, job.session)
    BY <1>2 DEF Queued
  <2>2. queue \in Seq(JobType) /\ accepted \in Seq(Nat) /\ QueueLength \in Nat
    BY VmemAssumption DEF TypeOK
  <2> QED BY <1>1, <1>2, <2>1, <2>2
<1>3. CASE ~(Len(queue) < QueueLength)
  BY <1>3 DEF Queued, TypeOK
<1> QED BY <1>2, <1>3

\* The state keeps its types, and the queue its length, under every step.
THEOREM Types == SafetySpec => []TypeOK
<1>1. Init => TypeOK
  <2> SUFFICES ASSUME Init PROVE TypeOK
    OBVIOUS
  <2>1. NoJob \in JobType
    BY DEF NoJob, JobType
  <2>2. IdleTask \in TaskType
    BY <2>1 DEF IdleTask, TaskType
  <2>3. Fresh \in SeenType
    <3>1. NoStop \in NoStop .. 2
      BY DEF NoStop
    <3> QED BY <3>1, Zenon DEF Fresh, SeenType
  <2>4. queue \in Seq(JobType) /\ Len(queue) <= QueueLength
        /\ accepted \in Seq(Nat) /\ begun \in Seq(Nat)
    BY VmemAssumption DEF Init
  <2>5. task \in [Tasks -> TaskType] /\ seen \in [Tasks -> SeenType]
    BY <2>2, <2>3, Zenon DEF Init
  <2> QED BY <2>1, <2>4, <2>5 DEF Init, TypeOK
<1>2. TypeOK /\ [Next]_vars => TypeOK'
  <2> SUFFICES ASSUME TypeOK, [Next]_vars PROVE TypeOK'
    OBVIOUS
  <2>0. /\ jobs \in Nat /\ session_id \in Nat /\ age \in Nat
        /\ queue \in Seq(JobType) /\ Len(queue) <= QueueLength
        /\ ctx \in JobType /\ keep_running \in BOOLEAN
        /\ task \in [Tasks -> TaskType]
        /\ accepted \in Seq(Nat) /\ begun \in Seq(Nat)
        /\ seen \in [Tasks -> SeenType]
    BY Zenon DEF TypeOK
  <2>a. "vmem" \in Tasks /\ "socket" \in Tasks
    BY DEF Tasks
  <2>1. ASSUME NEW c \in Clients, HandleStart(c) PROVE TypeOK'
    <3>1. Job(c, "vmem", VmemPackets) \in JobType
      BY JobTyped, VmemAssumption
    <3>2. queue' \in Seq(JobType) /\ Len(queue') <= QueueLength /\ accepted' \in Seq(Nat)
      BY <2>1, <3>1, QueuedTyped DEF HandleStart
    <3>3. jobs' \in Nat /\ session_id' \in Nat /\ age' \in Nat
      BY <2>0, <2>1 DEF HandleStart
    <3>4. task' \in [Tasks -> TaskType]
      BY <2>1, StampedTyped DEF HandleStart
    <3> QED BY <2>0, <2>1, <3>2, <3>3, <3>4, Zenon DEF HandleStart, TypeOK
  <2>2. CASE HandleStop
    <3>1. \A t \in Tasks : seen'[t] \in SeenType
      <4> SUFFICES ASSUME NEW t \in Tasks PROVE seen'[t] \in SeenType
        OBVIOUS
      <4>1. seen[t] \in SeenType /\ 0 \in NoStop .. 2
        BY <2>0 DEF NoStop
      <4>2. seen'[t] = seen[t] \/ seen'[t] = [seen[t] EXCEPT !.after_stop = 0]
        BY <2>2 DEF HandleStop
      <4> QED BY <4>1, <4>2, Zenon DEF SeenType
    <3>2. seen' \in [Tasks -> SeenType]
      BY <2>2, <3>1 DEF HandleStop
    <3>3. session_id' \in Nat
      BY <2>2 DEF HandleStop
    <3> QED BY <2>0, <2>2, <3>2, <3>3, Zenon DEF HandleStop, TypeOK
  <2>3. CASE HandleAlive
    BY <2>0, <2>3, StampedTyped DEF HandleAlive, TypeOK
  <2>4. CASE Dequeue
    <3>1. Head(queue) \in JobType /\ queue' \in Seq(JobType) /\ Len(queue') <= QueueLength
      BY <2>0, <2>4, HeadTailProperties, VmemAssumption DEF Dequeue
    <3>2. task' \in [Tasks -> TaskType]
      <4>1. task["vmem"] \in TaskType
        BY <2>0, <2>a
      <4>2. [task["vmem"] EXCEPT !.pc = "setup", !.job = Head(queue)] \in TaskType
        BY <3>1, <4>1, Zenon DEF TaskType
      <4>3. task' = [task EXCEPT !["vmem"] =
                         [task["vmem"] EXCEPT !.pc = "setup", !.job = Head(queue)]]
        BY <2>0, <2>4, <2>a DEF Dequeue
      <4> QED BY <2>0, <2>a, <4>2, <4>3, TaskExcept
    <3> QED BY <2>0, <2>4, <3>1, <3>2, Zenon DEF Dequeue, TypeOK
  <2>5. CASE VmemBegin
    <3>1. task' \in [Tasks -> TaskType]
      BY <2>5, <2>a, StampedTyped, PcExcept DEF VmemBegin
    <3>2. seen' \in [Tasks -> SeenType]
      BY <2>5, <2>a, OverwrittenTyped, RevivedTyped DEF VmemBegin
    <3>3. ctx' \in JobType /\ begun' \in Seq(Nat) /\ age' \in Nat
      <4>1. task["vmem"].job \in JobType
        BY <2>0, <2>a DEF TaskType
      <4>2. task["vmem"].job.session \in Nat
        BY <4>1 DEF JobType
      <4> QED BY <2>0, <2>5, <4>1, <4>2 DEF VmemBegin
    <3> QED BY <2>0, <2>5, <3>1, <3>2, <3>3, Zenon DEF VmemBegin, TypeOK
  <2>6. ASSUME NEW c \in Clients, NEW outcome, SocketSetup(c, outcome) PROVE TypeOK'
    <3> DEFINE job == Job(c, "file", FilePackets)
    <3>1. job \in JobType
      BY JobTyped, VmemAssumption
    <3>2. jobs' \in Nat
      BY <2>0, <2>6 DEF SocketSetup
    <3>3. ctx' \in JobType
      BY <2>0, <2>6, <3>1 DEF SocketSetup, JobType
    <3>4. task' \in [Tasks -> TaskType]
      <4> DEFINE pc == IF outcome = "reply" THEN "setup" ELSE "no_reply"
      <4>1. task["socket"] \in TaskType
        BY <2>0, <2>a
      <4>2. [task["socket"] EXCEPT !.pc = pc, !.job = job] \in TaskType
        BY <3>1, <4>1 DEF TaskType
      <4>3. task' = [task EXCEPT !["socket"] = [task["socket"] EXCEPT !.pc = pc, !.job = job]]
        BY <2>0, <2>6, <2>a DEF SocketSetup
      <4> QED BY <2>0, <2>a, <4>2, <4>3, TaskExcept
    <3>5. seen' \in [Tasks -> SeenType]
      BY <2>6, <2>a, OverwrittenTyped DEF SocketSetup
    <3> QED BY <2>0, <2>6, <3>2, <3>3, <3>4, <3>5, Zenon DEF SocketSetup, TypeOK
  <2>7. CASE SocketBegin
    <3>1. task' \in [Tasks -> TaskType] /\ age' \in Nat
      <4>1. CASE task["socket"].pc = "setup"
        <5>1. task' = [Stamped EXCEPT !["socket"].pc = "test"] /\ age' = 0
          BY <2>7, <4>1 DEF SocketBegin
        <5> QED BY <2>a, <5>1, StampedTyped, PcExcept
      <4>2. CASE task["socket"].pc # "setup"
        <5>1. task' = [task EXCEPT !["socket"].pc = "refused"] /\ age' = age
          BY <2>7, <4>2 DEF SocketBegin
        <5> QED BY <2>0, <2>a, <5>1, PcExcept
      <4> QED BY <4>1, <4>2
    <3>2. seen' \in [Tasks -> SeenType]
      BY <2>0, <2>7, RevivedTyped DEF SocketBegin
    <3> QED BY <2>0, <2>7, <3>1, <3>2, Zenon DEF SocketBegin, TypeOK
  <2>8. ASSUME NEW t \in Tasks, LoopTest(t) PROVE TypeOK'
    <3>1. task' \in [Tasks -> TaskType]
      BY <2>0, <2>8, PcExcept DEF LoopTest
    <3> QED BY <2>0, <2>8, <3>1, Zenon DEF LoopTest, TypeOK
  <2>9. ASSUME NEW t \in Tasks, Finish(t) PROVE TypeOK'
    <3>1. IdleTask \in TaskType
      BY DEF IdleTask, NoJob, TaskType, JobType
    <3>2. Fresh \in SeenType
      <4>1. NoStop \in NoStop .. 2
        BY DEF NoStop
      <4> QED BY <4>1, Zenon DEF Fresh, SeenType
    <3>3. seen' \in [Tasks -> SeenType] /\ task' \in [Tasks -> TaskType]
      BY <2>0, <2>9, <3>1, <3>2, Zenon DEF Finish
    <3> QED BY <2>0, <2>9, <3>3, Zenon DEF Finish, TypeOK
  <2>10. ASSUME NEW t \in Tasks, SendPacket(t) PROVE TypeOK'
    <3>1. task' \in [Tasks -> TaskType]
      <4>1. task[t] \in TaskType
        BY <2>0
      <4> DEFINE n == task[t].sent + 1
      <4>2. n \in Nat /\ "check" \in Engaged
        BY <4>1 DEF TaskType, Engaged
      <4>3. task' = [task EXCEPT ![t] = [task[t] EXCEPT !.pc = "check", !.sent = n, !.gap = age]]
        BY <2>0, <2>10 DEF SendPacket
      <4> HIDE DEF n
      <4>4. [task[t] EXCEPT !.pc = "check", !.sent = n, !.gap = age] \in TaskType
        BY <2>0, <4>1, <4>2, Zenon DEF TaskType
      <4> QED BY <2>0, <4>3, <4>4, TaskExcept
    <3>2. seen' \in [Tasks -> SeenType]
      <4> DEFINE n == IF seen[t].after_stop \in {0, 1} THEN seen[t].after_stop + 1
                                                       ELSE seen[t].after_stop
                 b == seen[t].astray \/ ctx # task[t].job
      <4>1. seen[t] \in SeenType
        BY <2>0
      <4>2. n \in NoStop .. 2
        BY <4>1 DEF SeenType, NoStop
      <4>3. seen' = [seen EXCEPT ![t] = [seen[t] EXCEPT !.astray = b, !.after_stop = n]]
        BY <2>0, <2>10, Zenon DEF SendPacket
      <4>4. b \in BOOLEAN
        BY <4>1, Zenon DEF SeenType
      <4> HIDE DEF n, b
      <4>5. [seen[t] EXCEPT !.astray = b, !.after_stop = n] \in SeenType
        BY <4>1, <4>2, <4>4, Zenon DEF SeenType
      <4> QED BY <2>0, <4>3, <4>5, Zenon
    <3> QED BY <2>0, <2>10, <3>1, <3>2, Zenon DEF SendPacket, TypeOK
  <2>11. ASSUME NEW t \in Tasks, CheckAlive(t) PROVE TypeOK'
    <3>1. task' \in [Tasks -> TaskType]
      <4>1. task[t] \in TaskType /\ "test" \in Engaged /\ 0 \in Nat
        BY <2>0 DEF Engaged
      <4>2. [task[t] EXCEPT !.pc = "test", !.gap = 0] \in TaskType
        BY <4>1, Zenon DEF TaskType
      <4>3. task' = [task EXCEPT ![t] = [task[t] EXCEPT !.pc = "test", !.gap = 0]]
        BY <2>0, <2>11 DEF CheckAlive
      <4> QED BY <2>0, <4>2, <4>3, TaskExcept
    <3>2. seen' \in [Tasks -> SeenType] /\ keep_running' \in BOOLEAN
      BY <2>0, <2>11, Zenon DEF CheckAlive
    <3> QED BY <2>0, <2>11, <3>1, <3>2, Zenon DEF CheckAlive, TypeOK
  <2>12. CASE Tick
    BY <2>0, <2>12 DEF Tick, TypeOK
  <2>13. CASE UNCHANGED vars
    BY <2>13, Zenon DEF vars, TypeOK
  <2> QED BY <2>1, <2>2, <2>3, <2>4, <2>5, <2>6, <2>7, <2>8, <2>9, <2>10, <2>11, <2>12, <2>13
          DEF Next, Send
<1> QED BY <1>1, <1>2, PTL DEF SafetySpec

----------------------------------------------------------------------------
(* The queue.                                                              *)

\* A step that leaves the queue, the histories and the VMEM task's message
\* alone keeps the order.
LEMMA OrderKept ==
    ASSUME ServedInOrder, UNCHANGED <<queue, accepted, begun>>,
           task'["vmem"].pc = "setup" <=> task["vmem"].pc = "setup",
           task'["vmem"].pc = "setup" => task'["vmem"].job = task["vmem"].job
    PROVE  ServedInOrder'
  BY DEF ServedInOrder, InHand

\* Every START that the queue took is begun exactly once and in order, for any
\* interleaving of the handler and the two tasks.
THEOREM QueueOrder == SafetySpec => []ServedInOrder
<1>1. Init => ServedInOrder
  <2> SUFFICES ASSUME Init PROVE ServedInOrder
    OBVIOUS
  <2>1. InHand = 0
    BY DEF Init, InHand, IdleTask, Tasks
  <2> QED BY <2>1 DEF Init, ServedInOrder
<1>2. TypeOK /\ ServedInOrder /\ [Next]_vars => ServedInOrder'
  <2> SUFFICES ASSUME TypeOK, ServedInOrder, [Next]_vars PROVE ServedInOrder'
    OBVIOUS
  <2>0. queue \in Seq(JobType) /\ begun \in Seq(Nat) /\ accepted \in Seq(Nat)
        /\ InHand \in {0, 1} /\ task \in [Tasks -> TaskType]
    BY DEF TypeOK, InHand
  <2>d. /\ Len(accepted) = Len(begun) + InHand + Len(queue)
        /\ \A i \in 1 .. Len(begun) : accepted[i] = begun[i]
        /\ InHand = 1 => accepted[Len(begun) + 1] = task["vmem"].job.session
        /\ \A i \in 1 .. Len(queue) : accepted[Len(begun) + InHand + i] = queue[i].session
        /\ Len(begun) \in Nat /\ Len(queue) \in Nat /\ Len(accepted) \in Nat
    <3>1. DOMAIN begun = 1 .. Len(begun) /\ DOMAIN queue = 1 .. Len(queue)
          /\ Len(begun) \in Nat /\ Len(queue) \in Nat /\ Len(accepted) \in Nat
      BY <2>0
    <3> QED BY <3>1, Zenon DEF ServedInOrder
  <2>a. "vmem" \in Tasks /\ "socket" \in Tasks /\ "vmem" # "socket"
    BY DEF Tasks
  <2>b. \A t \in Tasks : Stamped[t].pc = task[t].pc /\ Stamped[t].job = task[t].job
    BY StampedTyped
  <2>c. Stamped \in [Tasks -> TaskType]
    BY StampedTyped
  <2>1. ASSUME NEW c \in Clients, HandleStart(c) PROVE ServedInOrder'
    <3> DEFINE job == Job(c, "vmem", VmemPackets)
    <3>1. job \in JobType /\ job.session \in Nat
      BY JobTyped, VmemAssumption DEF JobType
    <3>2. InHand' = InHand /\ begun' = begun
      BY <2>1, <2>a, <2>b DEF HandleStart, InHand
    <3>3. CASE Len(queue) < QueueLength
      <4>1. queue' = Append(queue, job) /\ accepted' = Append(accepted, job.session)
        BY <2>1, <3>3 DEF HandleStart, Queued
      <4> HIDE DEF job
      <4>2. /\ Len(queue') = Len(queue) + 1 /\ Len(accepted') = Len(accepted) + 1
            /\ \A i \in 1 .. Len(queue) : queue'[i] = queue[i]
            /\ queue'[Len(queue) + 1] = job
            /\ \A i \in 1 .. Len(accepted) : accepted'[i] = accepted[i]
            /\ accepted'[Len(accepted) + 1] = job.session
            /\ DOMAIN queue' = 1 .. Len(queue) + 1
        BY <2>0, <3>1, <4>1
      <4>3. task'["vmem"].job = task["vmem"].job
        BY <2>1, <2>a, <2>b DEF HandleStart
      <4>4. \A i \in DOMAIN queue' : accepted'[Len(begun) + InHand + i] = queue'[i].session
        <5> SUFFICES ASSUME NEW i \in 1 .. Len(queue) + 1
                     PROVE  accepted'[Len(begun) + InHand + i] = queue'[i].session
          BY <4>2
        <5>1. CASE i = Len(queue) + 1
          BY <2>0, <2>d, <4>2, <5>1
        <5>2. CASE i # Len(queue) + 1
          <6>1. i \in 1 .. Len(queue)
            BY <2>d, <5>2
          <6>2. Len(begun) + InHand + i \in 1 .. Len(accepted)
            BY <2>0, <2>d, <6>1
          <6> QED BY <2>d, <4>2, <6>1, <6>2
        <5> QED BY <5>1, <5>2
      <4>5. /\ Len(accepted') = Len(begun) + InHand + Len(queue')
            /\ \A i \in 1 .. Len(begun) : accepted'[i] = begun[i]
            /\ InHand = 1 => accepted'[Len(begun) + 1] = task["vmem"].job.session
        <5>1. Len(accepted') = Len(begun) + InHand + Len(queue')
          BY <2>0, <2>d, <4>2
        <5>2. \A i \in 1 .. Len(begun) : i \in 1 .. Len(accepted)
          BY <2>0, <2>d
        <5>3. InHand = 1 => Len(begun) + 1 \in 1 .. Len(accepted)
          BY <2>0, <2>d
        <5> QED BY <2>d, <4>2, <5>1, <5>2, <5>3
      <4>6. DOMAIN begun = 1 .. Len(begun)
        BY <2>0
      <4> QED BY <3>2, <4>3, <4>4, <4>5, <4>6, Zenon DEF ServedInOrder
    <3>4. CASE ~(Len(queue) < QueueLength)
      <4>1. UNCHANGED <<queue, accepted>>
        BY <2>1, <3>4 DEF HandleStart, Queued
      <4>2. task'["vmem"].job = task["vmem"].job /\ task'["vmem"].pc = task["vmem"].pc
        BY <2>1, <2>a, <2>b DEF HandleStart
      <4> QED BY <3>2, <4>1, <4>2, OrderKept
    <3> QED BY <3>3, <3>4
  <2>2. CASE HandleStop
    BY <2>2, OrderKept DEF HandleStop
  <2>3. CASE HandleAlive
    BY <2>3, <2>a, <2>b, OrderKept DEF HandleAlive
  <2>4. CASE Dequeue
    <3>1. InHand = 0 /\ queue # <<>> /\ UNCHANGED <<accepted, begun>>
      BY <2>4 DEF Dequeue, InHand
    <3>2. InHand' = 1 /\ task'["vmem"].job = queue[1]
      BY <2>0, <2>4, <2>a DEF Dequeue, InHand, TaskType
    <3>3. /\ Len(queue') = Len(queue) - 1 /\ DOMAIN queue' = 1 .. Len(queue) - 1
          /\ Len(queue) >= 1
          /\ \A i \in 1 .. Len(queue) - 1 : queue'[i] = queue[i + 1]
      BY <2>0, <2>4, <3>1 DEF Dequeue
    <3>4. \A i \in 1 .. Len(queue) - 1 : accepted[Len(begun) + 1 + i] = queue[i + 1].session
      <4> SUFFICES ASSUME NEW i \in 1 .. Len(queue) - 1
                   PROVE  accepted[Len(begun) + 1 + i] = queue[i + 1].session
        OBVIOUS
      <4>1. i + 1 \in 1 .. Len(queue) /\ Len(begun) + 0 + (i + 1) = Len(begun) + 1 + i
        BY <2>d
      <4> QED BY <2>d, <3>1, <4>1
    <3>5. accepted[Len(begun) + 1] = queue[1].session
      BY <2>d, <3>1, <3>3
    <3>6. Len(accepted) = Len(begun) + 1 + Len(queue')
      BY <2>d, <3>1, <3>3
    <3>7. \A i \in DOMAIN queue' : accepted[Len(begun) + 1 + i] = queue'[i].session
      BY <3>3, <3>4
    <3>8. \A i \in DOMAIN begun : accepted[i] = begun[i]
      BY DEF ServedInOrder
    <3> QED BY <3>1, <3>2, <3>5, <3>6, <3>7, <3>8 DEF ServedInOrder
  <2>5. CASE VmemBegin
    <3> DEFINE s == task["vmem"].job.session
    <3>1. InHand = 1 /\ begun' = Append(begun, s) /\ UNCHANGED <<queue, accepted>>
      BY <2>5 DEF VmemBegin, InHand
    <3>2. InHand' = 0
      BY <2>5, <2>a, <2>c DEF VmemBegin, InHand, TaskType
    <3>3. s \in Nat
      <4>1. task["vmem"].job \in JobType
        BY <2>0, <2>a DEF TaskType
      <4> QED BY <4>1 DEF JobType
    <3>4. accepted[Len(begun) + 1] = s
      BY <2>d, <3>1
    <3> HIDE DEF s
    <3>5. /\ Len(begun') = Len(begun) + 1 /\ DOMAIN begun' = 1 .. Len(begun) + 1
          /\ \A i \in 1 .. Len(begun) : begun'[i] = begun[i]
          /\ begun'[Len(begun) + 1] = s
      BY <2>0, <3>1, <3>3
    <3>6. \A i \in DOMAIN begun' : accepted[i] = begun'[i]
      BY <2>d, <3>4, <3>5
    <3>7. \A i \in DOMAIN queue : accepted[Len(begun') + 0 + i] = queue[i].session
      <4>1. DOMAIN queue = 1 .. Len(queue)
        BY <2>0
      <4>2. \A i \in 1 .. Len(queue) : Len(begun) + 1 + i = Len(begun') + 0 + i
        BY <2>d, <3>5
      <4> QED BY <2>d, <3>1, <4>1, <4>2
    <3>8. Len(accepted) = Len(begun') + 0 + Len(queue)
      BY <2>d, <3>1, <3>5
    <3> QED BY <3>1, <3>2, <3>6, <3>7, <3>8 DEF ServedInOrder
  <2>6. ASSUME NEW c \in Clients, NEW outcome, SocketSetup(c, outcome) PROVE ServedInOrder'
    <3>1. task'["vmem"] = task["vmem"]
      BY <2>0, <2>6, <2>a DEF SocketSetup
    <3> QED BY <2>6, <3>1, OrderKept DEF SocketSetup
  <2>7. CASE SocketBegin
    <3>1. task'["vmem"].pc = task["vmem"].pc /\ task'["vmem"].job = task["vmem"].job
      BY <2>0, <2>7, <2>a, <2>b, <2>c DEF SocketBegin
    <3> QED BY <2>7, <3>1, OrderKept DEF SocketBegin
  <2>8. ASSUME NEW t \in Tasks, Send(t) PROVE ServedInOrder'
    <3>1. UNCHANGED <<queue, accepted, begun>>
      BY <2>8 DEF Send, LoopTest, Finish, SendPacket, CheckAlive
    <3>2. CASE t = "vmem"
      <4>1. task["vmem"].pc # "setup" /\ task'["vmem"].pc # "setup"
        BY <2>0, <2>8, <2>a, <3>2 DEF Send, LoopTest, Finish, SendPacket, CheckAlive, IdleTask, TaskType
      <4> QED BY <3>1, <4>1, OrderKept
    <3>3. CASE t # "vmem"
      <4>1. task'["vmem"] = task["vmem"]
        BY <2>0, <2>8, <2>a, <3>3 DEF Send, LoopTest, Finish, SendPacket, CheckAlive
      <4> QED BY <3>1, <4>1, OrderKept
    <3> QED BY <3>2, <3>3
  <2>9. CASE Tick
    BY <2>9, OrderKept DEF Tick
  <2>10. CASE UNCHANGED vars
    BY <2>10, OrderKept DEF vars
  <2> QED BY <2>1, <2>2, <2>3, <2>4, <2>5, <2>6, <2>7, <2>8, <2>9, <2>10 DEF Next
<1> QED BY <1>1, <1>2, Types, PTL DEF SafetySpec

----------------------------------------------------------------------------
(* keep_running and the shared context.                                    *)

\* A task that has filled the context or is sending from it.
Using(t) == task[t].pc \in {"test", "send", "check"} \/ (t = "socket" /\ task[t].pc = "setup")

\* Strengthens PacketsAreOwn: the context is the task's own until the other
\* task writes it.
Own(t) ==
    /\ seen[t].astray => seen[t].shared
    /\ Using(t) /\ ~seen[t].shared => ctx = task[t].job

\* Strengthens StopHolds: a STOP that was not undone has left keep_running
\* clear, and after the packet in hand no other is begun.
StopSeen(t) ==
    /\ seen[t].after_stop # NoStop => ~keep_running
    /\ seen[t].after_stop <= 1
    /\ seen[t].after_stop = 1 => task[t].pc # "send"

FlagInv ==
    /\ BusyMeansEngaged
    /\ \A t \in Tasks : Own(t) /\ StopSeen(t)

\* It says what the runs check.
LEMMA FlagInvImplies ==
    FlagInv => BusyMeansEngaged /\ PacketsAreOwn /\ StopHolds
<1> SUFFICES ASSUME FlagInv PROVE BusyMeansEngaged /\ PacketsAreOwn /\ StopHolds
  OBVIOUS
<1>1. BusyMeansEngaged /\ \A t \in Tasks : Own(t) /\ StopSeen(t)
  BY Zenon DEF FlagInv
<1>2. PacketsAreOwn /\ StopHolds
  BY <1>1, Zenon DEF Own, StopSeen, PacketsAreOwn, StopHolds
<1> QED BY <1>1, <1>2

\* A step that changes no more of a task than its gap, and neither the context
\* nor keep_running, keeps the invariant.
LEMMA FlagKept ==
    ASSUME FlagInv, UNCHANGED <<ctx, keep_running, seen>>,
           \A t \in Tasks : task'[t].pc = task[t].pc /\ task'[t].job = task[t].job
    PROVE  FlagInv'
  BY Zenon DEF FlagInv, BusyMeansEngaged, StatusResponse, Own, Using, StopSeen

\* Every step keeps the invariant.
LEMMA FlagStep ==
    ASSUME TypeOK, FlagInv, [Next]_vars
    PROVE  FlagInv'
<1>0. /\ ctx \in JobType /\ keep_running \in BOOLEAN
      /\ task \in [Tasks -> TaskType]
      /\ seen \in [Tasks -> SeenType]
  BY Zenon DEF TypeOK
<1>a. "vmem" \in Tasks /\ "socket" \in Tasks /\ \A t \in Tasks : t \in {"vmem", "socket"}
  BY DEF Tasks
<1>b. StatusResponse.busy = keep_running /\ StatusResponse'.busy = keep_running'
  BY DEF StatusResponse
<1>c. \A t \in Tasks : Own(t) /\ StopSeen(t)
  BY DEF FlagInv
<1>d. keep_running => \E t \in Tasks : task[t].pc \in Engaged
  BY <1>b DEF FlagInv, BusyMeansEngaged
<1>1. ASSUME NEW c \in Clients, HandleStart(c) PROVE FlagInv'
  BY <1>1, StampedTyped, FlagKept DEF HandleStart
<1>2. CASE HandleStop
  <2>1. ~keep_running' /\ ctx' = ctx /\ task' = task
    BY <1>2 DEF HandleStop
  <2>2. ASSUME NEW t \in Tasks
        PROVE  /\ seen'[t].astray = seen[t].astray /\ seen'[t].shared = seen[t].shared
               /\ seen'[t].after_stop = seen[t].after_stop \/ seen'[t].after_stop = 0
    <3>1. seen'[t] = seen[t] \/ seen'[t] = [seen[t] EXCEPT !.after_stop = 0]
      BY <1>2 DEF HandleStop
    <3>2. seen[t] \in SeenType
      BY <1>0
    <3> QED BY <3>1, <3>2, Zenon DEF SeenType
  <2>3. BusyMeansEngaged'
    BY <1>b, <2>1 DEF BusyMeansEngaged
  <2>4. \A t \in Tasks : Own(t)'
    BY <1>c, <2>1, <2>2, Zenon DEF Own, Using
  <2>5. \A t \in Tasks : StopSeen(t)'
    BY <1>c, <2>1, <2>2 DEF StopSeen
  <2> QED BY <2>3, <2>4, <2>5, Zenon DEF FlagInv
<1>3. CASE HandleAlive
  BY <1>3, StampedTyped, FlagKept DEF HandleAlive
<1>4. CASE Dequeue
  <2>1. UNCHANGED <<ctx, keep_running, seen>>
    BY <1>4 DEF Dequeue
  <2>2. task["vmem"].pc = "idle" /\ task'["vmem"].pc = "setup" /\ task'["socket"] = task["socket"]
    BY <1>0, <1>4, <1>a DEF Dequeue, TaskType
  <2>3. BusyMeansEngaged'
    BY <1>a, <1>b, <1>d, <2>1, <2>2 DEF BusyMeansEngaged, Engaged
  <2>4. \A t \in Tasks : Own(t)' /\ StopSeen(t)'
    BY <1>a, <1>c, <2>1, <2>2 DEF Own, Using, StopSeen, Engaged
  <2> QED BY <2>3, <2>4, Zenon DEF FlagInv
<1>5. CASE VmemBegin
  <2> DEFINE h == Overwritten("vmem")
  <2>1. keep_running' /\ ctx' = task["vmem"].job /\ seen' = Revived(h)
    BY <1>5 DEF VmemBegin
  <2>2. Stamped \in [Tasks -> TaskType] /\ task["vmem"].pc = "setup"
        /\ task' = [Stamped EXCEPT !["vmem"].pc = "test"]
    BY <1>5, StampedTyped DEF VmemBegin
  <2>3. task'["vmem"].pc = "test" /\ task'["vmem"].job = task["vmem"].job
        /\ task'["socket"].pc = task["socket"].pc /\ task'["socket"].job = task["socket"].job
    BY <1>a, <2>2, StampedTyped DEF TaskType
  <2>4. h \in [Tasks -> SeenType]
    BY <1>a, OverwrittenTyped
  <2>5. h["vmem"] = seen["vmem"] /\ h["socket"].astray = seen["socket"].astray
        /\ (seen["socket"].shared => h["socket"].shared)
        /\ (task["socket"].pc \in Engaged \cup {"setup"} => h["socket"].shared)
    <3>1. Other("vmem") = "socket"
      BY DEF Other
    <3> QED BY <1>a, <3>1, OverwrittenTyped, Zenon
  <2> HIDE DEF h
  <2>6. \A t \in Tasks : seen'[t].after_stop = NoStop
                         /\ seen'[t].shared = h[t].shared /\ seen'[t].astray = h[t].astray
    BY <2>1, <2>4, RevivedTyped, Zenon
  <2>7. BusyMeansEngaged'
    BY <1>a, <2>3 DEF BusyMeansEngaged, Engaged
  <2>8. \A t \in Tasks : StopSeen(t)'
    BY <2>1, <2>6 DEF StopSeen, NoStop
  <2>9. Own("vmem")' /\ Own("socket")'
    BY <1>a, <1>c, <2>1, <2>3, <2>5, <2>6 DEF Own, Using, Engaged
  <2> QED BY <1>a, <2>7, <2>8, <2>9 DEF FlagInv
<1>6. ASSUME NEW c \in Clients, NEW outcome, SocketSetup(c, outcome) PROVE FlagInv'
  <2> DEFINE job == Job(c, "file", FilePackets)
  <2>1. keep_running' = keep_running /\ task["socket"].pc = "idle"
        /\ seen' = Overwritten("socket")
        /\ ctx' = [job EXCEPT !.source = IF outcome = "unknown" THEN "none" ELSE @]
    BY <1>6 DEF SocketSetup
  <2>2. job \in JobType
    BY JobTyped, VmemAssumption
  <2>3. task'["vmem"] = task["vmem"] /\ task'["socket"].job = job
        /\ task'["socket"].pc = IF outcome = "reply" THEN "setup" ELSE "no_reply"
    BY <1>0, <1>6, <1>a DEF SocketSetup, TaskType
  <2>4. outcome = "reply" => ctx' = job
    BY <2>1, <2>2 DEF JobType
  <2>5. seen'["socket"] = seen["socket"] /\ seen'["vmem"].astray = seen["vmem"].astray
        /\ seen'["vmem"].after_stop = seen["vmem"].after_stop
        /\ (seen["vmem"].shared => seen'["vmem"].shared)
        /\ (task["vmem"].pc \in Engaged => seen'["vmem"].shared)
    <3>1. Other("socket") = "vmem"
      BY DEF Other
    <3> DEFINE h == Overwritten("socket")
    <3>2. h["socket"] = seen["socket"]
      BY <1>a, OverwrittenTyped, Zenon
    <3>5. h["vmem"].astray = seen["vmem"].astray
          /\ h["vmem"].after_stop = seen["vmem"].after_stop
          /\ (seen["vmem"].shared => h["vmem"].shared)
      BY <1>a, OverwrittenTyped
    <3>3. task["vmem"].pc \in Engaged => h["vmem"].shared
      BY <1>a, <3>1, OverwrittenTyped, Zenon
    <3>4. seen' = h
      BY <2>1
    <3> HIDE DEF h
    <3> QED BY <3>2, <3>3, <3>4, <3>5, Zenon
  <2> HIDE DEF job
  <2>6. BusyMeansEngaged'
    BY <1>a, <1>b, <1>d, <2>1, <2>3 DEF BusyMeansEngaged, Engaged
  <2>7. Own("vmem")' /\ Own("socket")'
    BY <1>a, <1>c, <2>1, <2>3, <2>4, <2>5 DEF Own, Using, Engaged
  <2>8. StopSeen("vmem")' /\ StopSeen("socket")'
    BY <1>a, <1>c, <2>1, <2>3, <2>5 DEF StopSeen, Engaged
  <2> QED BY <1>a, <2>6, <2>7, <2>8 DEF FlagInv
<1>7. CASE SocketBegin
  <2>1. keep_running' /\ ctx' = ctx /\ seen' = Revived(seen)
    BY <1>7 DEF SocketBegin
  <2>2. /\ task'["vmem"].pc = task["vmem"].pc /\ task'["vmem"].job = task["vmem"].job
        /\ task'["socket"].job = task["socket"].job
        /\ \/ task["socket"].pc = "setup" /\ task'["socket"].pc = "test"
           \/ task'["socket"].pc = "refused"
    <3>1. CASE task["socket"].pc = "setup"
      <4>1. task' = [Stamped EXCEPT !["socket"].pc = "test"]
        BY <1>7, <3>1 DEF SocketBegin
      <4> QED BY <1>a, <3>1, <4>1, StampedTyped DEF TaskType
    <3>2. CASE task["socket"].pc # "setup"
      <4>1. task' = [task EXCEPT !["socket"].pc = "refused"]
        BY <1>7, <3>2 DEF SocketBegin
      <4> QED BY <1>0, <1>a, <4>1 DEF TaskType
    <3> QED BY <3>1, <3>2
  <2>3. \A t \in Tasks : seen'[t].after_stop = NoStop
                         /\ seen'[t].shared = seen[t].shared /\ seen'[t].astray = seen[t].astray
    BY <1>0, <2>1, RevivedTyped, Zenon
  <2>4. BusyMeansEngaged'
    BY <1>a, <2>2 DEF BusyMeansEngaged, Engaged
  <2>5. \A t \in Tasks : StopSeen(t)'
    BY <2>1, <2>3 DEF StopSeen, NoStop
  <2>6. Own("vmem")' /\ Own("socket")'
    BY <1>a, <1>c, <2>1, <2>2, <2>3 DEF Own, Using
  <2> QED BY <1>a, <2>4, <2>5, <2>6 DEF FlagInv
<1>8. ASSUME NEW t \in Tasks, LoopTest(t) PROVE FlagInv'
  <2>1. UNCHANGED <<ctx, keep_running, seen>> /\ keep_running
    BY <1>8 DEF LoopTest, GoesOn
  <2>2. task[t].pc = "test" /\ task'[t].pc = "send" /\ task'[t].job = task[t].job
        /\ \A u \in Tasks : u # t => task'[u] = task[u]
    BY <1>0, <1>8 DEF LoopTest, TaskType
  <2>3. BusyMeansEngaged'
    BY <2>2 DEF BusyMeansEngaged, Engaged
  <2>4. \A u \in Tasks : Own(u)' /\ StopSeen(u)'
    BY <1>c, <2>1, <2>2 DEF Own, Using, StopSeen, NoStop
  <2> QED BY <2>3, <2>4 DEF FlagInv
<1>9. ASSUME NEW t \in Tasks, Finish(t) PROVE FlagInv'
  <2>1. ~keep_running' /\ ctx' = ctx
    BY <1>9 DEF Finish
  <2>2. task'[t].pc = "idle" /\ seen'[t] = Fresh
        /\ \A u \in Tasks : u # t => task'[u] = task[u] /\ seen'[u] = seen[u]
    BY <1>0, <1>9 DEF Finish, IdleTask
  <2>3. BusyMeansEngaged'
    BY <1>b, <2>1 DEF BusyMeansEngaged
  <2>4. Own(t)' /\ StopSeen(t)'
    BY <2>1, <2>2 DEF Own, Using, StopSeen, Fresh, Engaged, NoStop
  <2>5. ASSUME NEW u \in Tasks, u # t PROVE Own(u)' /\ StopSeen(u)'
    BY <1>c, <2>1, <2>2, <2>5 DEF Own, Using, StopSeen
  <2> QED BY <2>3, <2>4, <2>5 DEF FlagInv
<1>10. ASSUME NEW t \in Tasks, SendPacket(t) PROVE FlagInv'
  <2>1. UNCHANGED <<ctx, keep_running>>
    BY <1>10 DEF SendPacket
  <2>2. task[t].pc = "send" /\ task'[t].pc = "check" /\ task'[t].job = task[t].job
        /\ \A u \in Tasks : u # t => task'[u] = task[u]
    BY <1>0, <1>10 DEF SendPacket, TaskType
  <2>3. /\ seen'[t].shared = seen[t].shared
        /\ seen'[t].astray => seen[t].astray \/ ctx # task[t].job
        /\ seen'[t].after_stop = IF seen[t].after_stop \in {0, 1} THEN seen[t].after_stop + 1
                                                                  ELSE seen[t].after_stop
        /\ \A u \in Tasks : u # t => seen'[u] = seen[u]
    <3> DEFINE n == IF seen[t].after_stop \in {0, 1} THEN seen[t].after_stop + 1
                                                     ELSE seen[t].after_stop
               b == seen[t].astray \/ ctx # task[t].job
    <3>1. seen[t] \in SeenType
      BY <1>0
    <3>2. seen' = [seen EXCEPT ![t] = [seen[t] EXCEPT !.astray = b, !.after_stop = n]]
      BY <1>0, <1>10, Zenon DEF SendPacket
    <3> HIDE DEF n, b
    <3>3. seen'[t] = [seen[t] EXCEPT !.astray = b, !.after_stop = n]
          /\ \A u \in Tasks : u # t => seen'[u] = seen[u]
      BY <1>0, <3>2, Zenon
    <3>4. seen'[t].shared = seen[t].shared
          /\ seen'[t].astray = b /\ seen'[t].after_stop = n
      BY <3>1, <3>3, Zenon DEF SeenType
    <3> QED BY <3>3, <3>4, Zenon DEF n, b
  <2>4. BusyMeansEngaged'
    BY <2>2 DEF BusyMeansEngaged, Engaged
  <2>5. Own(t)'
    BY <1>c, <2>1, <2>2, <2>3, Zenon DEF Own, Using, Engaged
  <2>6. StopSeen(t)'
    <3>1. seen[t].after_stop \in NoStop .. 2
      BY <1>0 DEF SeenType
    <3> QED BY <1>c, <2>1, <2>2, <2>3, <3>1 DEF StopSeen, NoStop
  <2>7. ASSUME NEW u \in Tasks, u # t PROVE Own(u)' /\ StopSeen(u)'
    BY <1>c, <2>1, <2>2, <2>3, <2>7 DEF Own, Using, StopSeen
  <2> QED BY <2>4, <2>5, <2>6, <2>7 DEF FlagInv
<1>11. ASSUME NEW t \in Tasks, CheckAlive(t) PROVE FlagInv'
  <2>1. ctx' = ctx
    BY <1>11 DEF CheckAlive
  <2>2. task[t].pc = "check" /\ task'[t].pc = "test" /\ task'[t].job = task[t].job
        /\ \A u \in Tasks : u # t => task'[u] = task[u]
    BY <1>0, <1>11 DEF CheckAlive, TaskType
  <2>3. seen' = seen /\ (~keep_running => ~keep_running')
    BY <1>11, Zenon DEF CheckAlive
  <2>5. BusyMeansEngaged'
    BY <2>2 DEF BusyMeansEngaged, Engaged
  <2>6. \A u \in Tasks : Own(u)'
    BY <1>c, <2>1, <2>2, <2>3 DEF Own, Using
  <2>7. \A u \in Tasks : StopSeen(u)'
    BY <1>c, <2>2, <2>3 DEF StopSeen
  <2> QED BY <2>5, <2>6, <2>7 DEF FlagInv
<1>12. CASE Tick
  BY <1>12, FlagKept DEF Tick
<1>13. CASE UNCHANGED vars
  BY <1>13, FlagKept DEF vars
<1> QED BY <1>1, <1>2, <1>3, <1>4, <1>5, <1>6, <1>7, <1>8, <1>9, <1>10, <1>11, <1>12, <1>13
        DEF Next, Send

\* The handler and the two tasks keep the flags, the context and the account of
\* who wrote them consistent, in any interleaving.
THEOREM FlagsInvariant == SafetySpec => []FlagInv
<1>1. Init => FlagInv
  <2> SUFFICES ASSUME Init PROVE FlagInv
    OBVIOUS
  <2>1. ~keep_running /\ \A t \in Tasks : task[t].pc = "idle" /\ seen[t] = Fresh
    BY DEF Init, IdleTask
  <2>2. BusyMeansEngaged
    BY <2>1 DEF BusyMeansEngaged, StatusResponse
  <2>3. \A t \in Tasks : Own(t) /\ StopSeen(t)
    BY <2>1 DEF Own, Using, StopSeen, Fresh, Engaged, NoStop
  <2> QED BY <2>2, <2>3 DEF FlagInv
<1>2. TypeOK /\ FlagInv /\ [Next]_vars => FlagInv'
  BY FlagStep
<1> QED BY <1>1, <1>2, Types, PTL DEF SafetySpec

\* STATUS answers BUSY only while a task serves a request.
THEOREM BusyIsEngaged == SafetySpec => []BusyMeansEngaged
  BY FlagsInvariant, FlagInvImplies, PTL

\* A packet carries the data of another transfer only after the other task
\* wrote the shared context.
THEOREM PacketsOwn == SafetySpec => []PacketsAreOwn
  BY FlagsInvariant, FlagInvImplies, PTL

\* A transfer sends at most one packet after a STOP that no other start undoes.
THEOREM StopIsKept == SafetySpec => []StopHolds
  BY FlagsInvariant, FlagInvImplies, PTL

----------------------------------------------------------------------------
(* keep_alive_interval.                                                    *)

\* A job has the client's interval, and only if both ends are big endian.
FromBigEndian(job) ==
    /\ job.keep_alive \in {0, KeepAliveInterval}
    /\ job.keep_alive > 0 => job.client \in BigEndian /\ ServerBigEndian

AllFromBigEndian ==
    /\ FromBigEndian(ctx)
    /\ \A t \in Tasks : FromBigEndian(task[t].job)
    /\ \A i \in DOMAIN queue : FromBigEndian(queue[i])

\* A request read by the server satisfies it.
LEMMA JobFromBigEndian ==
    ASSUME NEW c \in Clients, NEW source, NEW n
    PROVE  FromBigEndian(Job(c, source, n))
<1>1. keep_alive_read(keep_alive_on_wire(c, KeepAliveInterval)) =
          IF c \in BigEndian /\ ServerBigEndian THEN KeepAliveInterval ELSE 0
  BY KeepAliveRead, VmemAssumption
<1> QED BY <1>1 DEF Job, FromBigEndian

\* It holds of every job there is.
LEMMA FromBigEndianAlways == SafetySpec => []AllFromBigEndian
<1>1. Init => AllFromBigEndian
  BY VmemAssumption DEF Init, AllFromBigEndian, FromBigEndian, IdleTask, NoJob
<1>2. TypeOK /\ AllFromBigEndian /\ [Next]_vars => AllFromBigEndian'
  <2> SUFFICES ASSUME TypeOK, AllFromBigEndian, [Next]_vars PROVE AllFromBigEndian'
    OBVIOUS
  <2>0. queue \in Seq(JobType) /\ task \in [Tasks -> TaskType]
    BY DEF TypeOK
  <2>a. "vmem" \in Tasks /\ "socket" \in Tasks
    BY DEF Tasks
  <2>b. Stamped \in [Tasks -> TaskType] /\ \A t \in Tasks : Stamped[t].job = task[t].job
    BY StampedTyped
  <2>c. \A t \in Tasks : FromBigEndian(task[t].job)
    BY DEF AllFromBigEndian
  <2>d. \A i \in 1 .. Len(queue) : FromBigEndian(queue[i])
    BY <2>0 DEF AllFromBigEndian
  <2>f. FromBigEndian(ctx)
    BY DEF AllFromBigEndian
  <2>e. ASSUME UNCHANGED queue, FromBigEndian(ctx'), \A t \in Tasks : FromBigEndian(task'[t].job)
        PROVE  AllFromBigEndian'
    BY <2>e DEF AllFromBigEndian, FromBigEndian
  <2>1. ASSUME NEW c \in Clients, HandleStart(c) PROVE AllFromBigEndian'
    <3> DEFINE job == Job(c, "vmem", VmemPackets)
    <3>1. FromBigEndian(job) /\ job \in JobType
      BY JobFromBigEndian, JobTyped, VmemAssumption
    <3>2. \A t \in Tasks : task'[t].job = task[t].job
      BY <2>1, <2>b DEF HandleStart
    <3>3. queue' = Append(queue, job) \/ queue' = queue
      BY <2>1 DEF HandleStart, Queued
    <3> HIDE DEF job
    <3>4. \A i \in DOMAIN queue' : queue'[i] = job \/ (i \in 1 .. Len(queue) /\ queue'[i] = queue[i])
      BY <2>0, <3>1, <3>3
    <3>5. \A i \in DOMAIN queue' : FromBigEndian(queue'[i])
      BY <2>d, <3>1, <3>4
    <3>6. UNCHANGED ctx
      BY <2>1 DEF HandleStart
    <3> QED BY <2>c, <2>f, <3>2, <3>5, <3>6 DEF AllFromBigEndian, FromBigEndian
  <2>2. CASE Dequeue
    <3>1. /\ Head(queue) = queue[1] /\ 1 \in 1 .. Len(queue)
          /\ DOMAIN queue' = 1 .. Len(queue) - 1
          /\ \A i \in 1 .. Len(queue) - 1 : queue'[i] = queue[i + 1]
          /\ \A i \in 1 .. Len(queue) - 1 : i + 1 \in 1 .. Len(queue)
      BY <2>0, <2>2 DEF Dequeue
    <3>2. \A i \in DOMAIN queue' : FromBigEndian(queue'[i])
      BY <2>d, <3>1
    <3>3. task'["vmem"].job = queue[1] /\ task'["socket"] = task["socket"]
      BY <2>0, <2>2, <2>a, <3>1 DEF Dequeue, TaskType
    <3>4. \A t \in Tasks : FromBigEndian(task'[t].job)
      BY <2>c, <2>d, <3>1, <3>3 DEF Tasks
    <3>5. UNCHANGED ctx
      BY <2>2 DEF Dequeue
    <3> QED BY <2>f, <3>2, <3>4, <3>5 DEF AllFromBigEndian, FromBigEndian
  <2>3. ASSUME NEW c \in Clients, NEW outcome, SocketSetup(c, outcome) PROVE AllFromBigEndian'
    <3>1. task'["socket"].job = Job(c, "file", FilePackets) /\ task'["vmem"] = task["vmem"]
      BY <2>0, <2>3, <2>a DEF SocketSetup, TaskType
    <3>2. \A t \in Tasks : FromBigEndian(task'[t].job)
      BY <2>c, <3>1, JobFromBigEndian DEF Tasks
    <3>3. UNCHANGED queue
      BY <2>3 DEF SocketSetup
    <3>4. FromBigEndian(ctx')
      <4> DEFINE job == Job(c, "file", FilePackets)
      <4>1. FromBigEndian(job) /\ job \in JobType
        BY JobFromBigEndian, JobTyped, VmemAssumption
      <4>2. ctx' = [job EXCEPT !.source = IF outcome = "unknown" THEN "none" ELSE @]
        BY <2>3 DEF SocketSetup
      <4> HIDE DEF job
      <4> QED BY <4>1, <4>2 DEF FromBigEndian, JobType
    <3> QED BY <2>e, <3>2, <3>3, <3>4
  <2>4. CASE HandleStop \/ HandleAlive \/ VmemBegin \/ SocketBegin \/ Tick \/ UNCHANGED vars
    <3>1. UNCHANGED queue
      BY <2>4 DEF HandleStop, HandleAlive, VmemBegin, SocketBegin, Tick, vars
    <3>2. \A t \in Tasks : task'[t].job = task[t].job
      <4>1. CASE HandleStop \/ HandleAlive \/ Tick \/ UNCHANGED vars
        BY <2>b, <4>1 DEF HandleStop, HandleAlive, Tick, vars
      <4>2. CASE VmemBegin
        BY <2>a, <2>b, <4>2 DEF VmemBegin, TaskType
      <4>3. CASE SocketBegin
        <5>1. \/ task' = [Stamped EXCEPT !["socket"].pc = "test"]
              \/ task' = [task EXCEPT !["socket"].pc = "refused"]
          BY <4>3 DEF SocketBegin
        <5> QED BY <2>0, <2>a, <2>b, <5>1 DEF TaskType
      <4> QED BY <2>4, <4>1, <4>2, <4>3
    <3>3. ctx' = ctx \/ ctx' = task["vmem"].job
      BY <2>4 DEF HandleStop, HandleAlive, VmemBegin, SocketBegin, Tick, vars
    <3> QED BY <2>a, <2>c, <2>e, <2>f, <3>1, <3>2, <3>3
  <2>5. ASSUME NEW t \in Tasks, Send(t) PROVE AllFromBigEndian'
    <3>1. UNCHANGED <<queue, ctx>>
      BY <2>5 DEF Send, LoopTest, Finish, SendPacket, CheckAlive
    <3>2. \A u \in Tasks : task'[u].job = task[u].job \/ task'[u].job = NoJob
      <4>1. CASE LoopTest(t)
        BY <2>0, <4>1 DEF LoopTest, TaskType
      <4>2. CASE Finish(t)
        BY <2>0, <4>2 DEF Finish, IdleTask
      <4>3. CASE SendPacket(t)
        BY <2>0, <4>3 DEF SendPacket, TaskType
      <4>4. CASE CheckAlive(t)
        BY <2>0, <4>4 DEF CheckAlive, TaskType
      <4> QED BY <2>5, <4>1, <4>2, <4>3, <4>4 DEF Send
    <3>3. FromBigEndian(NoJob)
      BY DEF FromBigEndian, NoJob
    <3> QED BY <2>c, <2>e, <2>f, <3>1, <3>2, <3>3
  <2> QED BY <2>1, <2>2, <2>3, <2>4, <2>5 DEF Next
<1> QED BY <1>1, <1>2, Types, PTL DEF SafetySpec

----------------------------------------------------------------------------
(* The clock.                                                              *)

\* Unless the stamp was renewed, what a task found is no more than what it
\* would find now.
ClockInv ==
    /\ age <= Limit + 1
    /\ \A t \in Tasks : task[t].pc = "check" => task[t].gap = -1 \/ task[t].gap <= age

\* It holds at every step.
LEMMA ClockAlways == SafetySpec => []ClockInv
<1>0. Limit \in Nat
  BY VmemAssumption DEF Limit
<1>1. Init => ClockInv
  BY <1>0 DEF Init, ClockInv, IdleTask
<1>2. TypeOK /\ ClockInv /\ [Next]_vars => ClockInv'
  <2> SUFFICES ASSUME TypeOK, ClockInv, [Next]_vars PROVE ClockInv'
    OBVIOUS
  <2>0. task \in [Tasks -> TaskType] /\ age \in Nat /\ "vmem" \in Tasks /\ "socket" \in Tasks
    BY DEF TypeOK, Tasks
  <2>a. Stamped \in [Tasks -> TaskType] /\ \A t \in Tasks : Stamped[t].pc = task[t].pc
    BY StampedTyped
  <2>b. \A t \in Tasks : Stamped[t].pc = "check" => Stamped[t].gap = -1 \/ Stamped[t].gap <= 0
    <3> SUFFICES ASSUME NEW t \in Tasks, task[t].pc = "check"
                 PROVE  Stamped[t].gap = -1 \/ Stamped[t].gap <= 0
      BY <2>a
    <3>1. task[t] \in TaskType /\ task[t].gap \in Nat \cup {-1}
      BY <2>0 DEF TaskType
    <3>2. Stamped[t].gap = IF task[t].gap >= age THEN task[t].gap - age ELSE -1
      BY <3>1 DEF Stamped, TaskType
    <3> QED BY <2>0, <3>1, <3>2 DEF ClockInv
  <2>c. age <= Limit + 1 /\ \A t \in Tasks : task[t].pc = "check" => task[t].gap = -1 \/ task[t].gap <= age
    BY DEF ClockInv
  <2>1. ASSUME task' = Stamped, age' = 0 PROVE ClockInv'
    BY <1>0, <2>1, <2>b DEF ClockInv, Limit
  <2>2. ASSUME NEW t \in Tasks, NEW x, x \in {"test", "setup"}, task' = [Stamped EXCEPT ![t].pc = x], age' = 0
        PROVE  ClockInv'
    <3>1. \A u \in Tasks : task'[u].pc = "check" => task'[u] = Stamped[u]
      BY <2>2, <2>a DEF TaskType
    <3> QED BY <1>0, <2>2, <2>b, <3>1 DEF ClockInv, Limit
  <2>3. ASSUME age' = age, \A u \in Tasks : task'[u].pc = "check" => task'[u] = task[u]
        PROVE  ClockInv'
    BY <2>3, <2>c DEF ClockInv, Limit
  <2>4. ASSUME NEW c \in Clients, HandleStart(c) PROVE ClockInv'
    BY <2>1, <2>4 DEF HandleStart
  <2>5. CASE HandleAlive
    BY <2>1, <2>5 DEF HandleAlive
  <2>6. CASE VmemBegin
    BY <2>0, <2>2, <2>6 DEF VmemBegin
  <2>7. CASE HandleStop \/ UNCHANGED vars
    BY <2>3, <2>7 DEF HandleStop, vars
  <2>8. CASE Dequeue
    <3>1. age' = age /\ task' = [task EXCEPT !["vmem"].pc = "setup", !["vmem"].job = Head(queue)]
      BY <2>8 DEF Dequeue
    <3>2. task'["vmem"].pc = "setup" /\ task'["socket"] = task["socket"]
      BY <2>0, <3>1 DEF TaskType
    <3> QED BY <2>3, <3>1, <3>2 DEF Tasks
  <2>9. ASSUME NEW c \in Clients, NEW outcome, SocketSetup(c, outcome) PROVE ClockInv'
    <3>1. age' = age
      BY <2>9 DEF SocketSetup
    <3>2. task'["socket"].pc # "check" /\ task'["vmem"] = task["vmem"]
      BY <2>0, <2>9 DEF SocketSetup, TaskType
    <3> QED BY <2>3, <3>1, <3>2 DEF Tasks
  <2>10. CASE SocketBegin
    <3>1. CASE age' = 0 /\ task' = [Stamped EXCEPT !["socket"].pc = "test"]
      BY <2>0, <2>2, <3>1
    <3>2. CASE age' = age /\ task' = [task EXCEPT !["socket"].pc = "refused"]
      <4>1. task'["socket"].pc = "refused" /\ task'["vmem"] = task["vmem"]
        BY <2>0, <3>2 DEF TaskType
      <4> QED BY <2>3, <3>2, <4>1 DEF Tasks
    <3> QED BY <2>10, <3>1, <3>2 DEF SocketBegin
  <2>11. ASSUME NEW t \in Tasks, LoopTest(t) \/ Finish(t) \/ CheckAlive(t) PROVE ClockInv'
    <3>1. age' = age /\ \A u \in Tasks : task'[u] = task[u] \/ task'[u].pc # "check"
      BY <2>0, <2>11 DEF LoopTest, Finish, CheckAlive, TaskType, IdleTask
    <3> QED BY <2>3, <3>1
  <2>12. ASSUME NEW t \in Tasks, SendPacket(t) PROVE ClockInv'
    <3>1. age' = age /\ \A u \in Tasks : task'[u] = task[u] \/ task'[u].gap = age
      BY <2>0, <2>12 DEF SendPacket, TaskType
    <3> QED BY <2>0, <2>c, <3>1 DEF ClockInv, Limit
  <2>13. CASE Tick
    <3>1. age' = age + 1 /\ age <= Limit /\ task' = task
      BY <2>13 DEF Tick
    <3>2. \A t \in Tasks : task[t].gap \in Nat \cup {-1}
      BY <2>0 DEF TaskType
    <3> QED BY <1>0, <2>0, <2>c, <3>1, <3>2 DEF ClockInv, Limit
  <2> QED BY <2>4, <2>5, <2>6, <2>7, <2>8, <2>9, <2>10, <2>11, <2>12, <2>13 DEF Next, Send
<1> QED BY <1>1, <1>2, Types, PTL DEF SafetySpec

\* For every interval and grace time: a transfer is given up only for a client
\* that was silent for longer than the limit, or whose stamp was renewed after
\* the clock was read.
THEOREM AbortForSilence == SafetySpec => AbortMeansSilent
<1>1. TypeOK /\ ClockInv /\ AllFromBigEndian /\ [Next]_vars
      => [\A t \in Tasks : task[t].pc = "check" /\ task'[t].pc = "test" /\ keep_running /\ ~keep_running'
              => age > Limit \/ task[t].gap = -1]_vars
  <2> SUFFICES ASSUME TypeOK, ClockInv, AllFromBigEndian, Next, NEW t \in Tasks,
                      task[t].pc = "check", task'[t].pc = "test", keep_running, ~keep_running',
                      task[t].gap # -1
               PROVE  age > Limit
    BY DEF vars
  <2>0. /\ task \in [Tasks -> TaskType] /\ age \in Nat /\ task[t].gap \in Nat /\ task[t].gap <= age
        /\ age <= Limit + 1 /\ Limit \in Nat /\ Wrap \in Nat /\ Wrap > 2 * (Limit + 1)
        /\ ctx.keep_alive \in {0, KeepAliveInterval} /\ KeepAliveInterval \in Nat /\ Grace \in Nat
    <3>1. task \in [Tasks -> TaskType] /\ age \in Nat
      BY DEF TypeOK
    <3>2. task[t].gap \in Nat /\ task[t].gap <= age /\ age <= Limit + 1
      BY <3>1 DEF ClockInv, TaskType
    <3>3. Limit \in Nat /\ Wrap \in Nat /\ Wrap > 2 * (Limit + 1) /\ KeepAliveInterval \in Nat /\ Grace \in Nat
      BY VmemAssumption DEF Limit
    <3>4. ctx.keep_alive \in {0, KeepAliveInterval}
      BY DEF AllFromBigEndian, FromBigEndian
    <3> QED BY <3>1, <3>2, <3>3, <3>4
  <2>1. CheckAlive(t) /\ TooLong(task[t].gap)
    <3>1. \A c \in Clients : ~HandleStart(c)
      BY <2>0, StampedTyped DEF HandleStart
    <3>2. ~HandleStop /\ ~HandleAlive /\ ~Tick /\ ~VmemBegin /\ ~SocketBegin
      BY DEF HandleStop, HandleAlive, Tick, VmemBegin, SocketBegin
    <3>3. ~Dequeue /\ \A c \in Clients, outcome \in {"reply", "unknown", "no_buffer"} : ~SocketSetup(c, outcome)
      BY DEF Dequeue, SocketSetup
    <3>4. PICK u \in Tasks : Send(u)
      BY <3>1, <3>2, <3>3 DEF Next
    <3>5. u = t
      BY <2>0, <3>4 DEF Send, LoopTest, Finish, SendPacket, CheckAlive
    <3> QED BY <3>4, <3>5 DEF Send, LoopTest, Finish, SendPacket, CheckAlive
  <2>2. task[t].gap % Wrap = task[t].gap
    BY <2>0
  <2> QED BY <2>0, <2>1, <2>2 DEF TooLong, Limit
<1> QED BY <1>1, Types, ClockAlways, FromBigEndianAlways, PTL DEF SafetySpec, AbortMeansSilent
====
