# A verification project for libdtp

libdtp transfers a payload from a server to a client over CSP datagrams. A
transfer can be interrupted and resumed: the client records which packets it
has, saves that record in a `.meta` file and later asks only for the rest. The
project models both sides, the threads around them, their composition and the
data structures they rest on in TLA+, checks small instances with TLC and
proves all of the safety properties for all instances with TLAPS.

## The system and its parts

| part | source | module(s) | status |
|---|---|---|---|
| segment lists | `src/dtp_client_posix_segments_utils.c` | `DtpSegments`, `DtpSegmentLists`, `DtpSegmentTracker`, `DtpResumeLists` | partly |
| POSIX session hooks (output and `.meta` file) | `src/dtp_client_posix_session_hooks.c` | `DtpClient`, `DtpSegmentTracker`, `DtpResumeLists` | partly |
| client: preparation, receive loop | `src/dtp_client.c` | `DtpClient`, `DtpTransfer`, `DtpReceiveClock`, `DtpSessionPool` | modelled |
| session pool and options | `src/dtp.c` | `DtpSessionPool`, `DtpClient` | partly |
| request, response, derived numbers | `src/dtp_protocol.c` | `DtpIntervals`, `DtpProtocol`, `DtpWire` | modelled |
| pace of a transfer | `src/dtp_protocol.c` | `DtpMetrics`, `DtpReceiveClock` | modelled |
| server: transfer loop | `src/dtp_server.c` | `DtpServer`, `DtpServerSystem` | modelled |
| polling loop | `src/dtp_os_hal.c` | `DtpServer` | modelled |
| payload registry | `src/dtp_file_payload.c`, `src/payload_api.c` | `DtpServerSystem` | partly |
| VMEM server | `src/dtp_vmem_server.c`, `src/dtp_server.c` | `DtpVmemServer` | modelled |
| VMEM client | `src/dtp_vmem_client.c` | `DtpVmemServer`, `DtpSessionPool` | modelled |
| logging, `session-meta`, tests | | | not modelled |

A download runs like this. `dtp_client_main` takes a session from a static
pool. With `resume` it loads the `.meta` file and turns the complement of the
received segments into at most eight intervals; otherwise it asks for
everything. It connects to the server's control port, sends the request, reads
the response and then receives datagrams until the last packet, the deadline,
the idle time-out or a stop. The server answers one request at a time: it walks
the intervals and sends rounds of packets, each carrying its byte offset, from
which the client recovers the sequence number. Nothing is acknowledged. The
caller of `dtp_client_main` then saves the session or not, and releases it. A
memory region is downloaded the same way, but the transfer is started, stopped,
queried and kept alive by requests to the VMEM server, and sent by a second task
that shares one global context with the socket server.

## Modules

**`DtpSegments`** has the operations on a `segments_ctx_t` as operators. The
linked list is a sequence. Two facts about pointers are kept because the code
depends on them: whether `cur_segment` still points at the tail node (`linked`),
and whether a node was freed while the list holds it (`freed`).
**`DtpSegmentLists`** runs the steps of the complement, the loading and the merge
over whole lists (recursive functions of the turns), for the modules that use
them in one step.

**`DtpSegmentTracker`** is the life of one list: created by `apm_on_start`, fed
by `apm_on_data_packet` in any order, closed by `apm_on_end`, freed by
`apm_on_release`. `malloc` may fail at each allocation; the code logs the
failure and dereferences NULL at the next packet, which is the `faulted` phase.
A session may be started again before it is released (`on_start_again`), and then
keeps its list with `cur_segment` at the tail node. The next append, at a packet
or at the second end, frees that node while the list holds it. From then on the
node may read as anything, and each later call may end the process (`Leaves`).

**`DtpResumeLists`** is what happens to lists between attempts, one turn of a
loop per step: the walk of `get_complement_segment` that makes the request, the
merge of an attempt's list with the loaded one, the save, and so on without
bound. `malloc` may fail at each turn. In the merge the failure is ignored and
the next turn dereferences NULL; in the walk the result of `malloc` is not tested.

**`DtpIntervals`** has intervals of a request, **`DtpProtocol`** what both sides
compute from a request (number of packets, last packet, announced size), and
**`DtpWire`** the payload as packets and the link. Intervals are in packets,
offsets and lengths in bytes; `Chunk` is the mtu less two header words.

**`DtpMetrics`** is `compute_dtp_metrics`, one step per turn of its do-while loop.
The comparison of floats is done on integers, and values are assumed to fit in 32
bits. A request with no throughput, or whose mtu has no room for data, makes the
first divisions fail (`DivideByZero`): the call ends as `faulted`.
**`DtpReceiveClock`** extends it with the time of `start_receiving_data`: the
deadline from the metric, moved with every packet by the throughput measured so far;
the idle time; the keep-alives. `clock` is the true time, the program's stamps are
kept modulo `Word`. The `past` record has the same moments in true time, and `exact`
says that no sum has wrapped; both are history.

**`DtpServer`** is `start_sending_data` with `dtp_server_poll_loop`. Other tasks
clear `keep_running`, so a turn of the inner loop is two steps, the test and the
send. **`DtpServerSystem`** surrounds it with requests, stop requests and a
payload that may be deleted and registered again; a failed read loses its
buffer, as in the code. **`DtpSender`** is the abstract specification it
implements: a set of bytes still to send, of which every packet removes the next
ones, and which is left unsent only after a stop.

**`DtpVmemServer`** has three threads: the VMEM request handler, the task it feeds
through a queue, and the socket task. The two tasks run transfers on the one
`server_transfer_ctx`, which nothing guards. A packet is made from whatever the
context holds at that moment. A task's set-up of the context is one step each
(`SocketSetup`, and `VmemBegin` up to `keep_running`), although its assignments are
not guarded either: a context that mixes the fields of two transfers set up at the
same moment is not modelled. A transfer is one packet per interval here; how an
interval is cut is left to `DtpServer`. The 16-bit keep-alive interval passes
through `htobe32` and `be32toh`, which is modelled on its bytes. `age` is the time
since `client_alive_ts`, and a task's `gap` the difference it is about to compute: a
keep-alive between the two reads makes it negative, and the unsigned subtraction
huge.

**`DtpSessionPool`** has threads that download, restart, stop and release on a
few static sessions with a few connections and the one data port. Acquiring is two
steps, because the scan is not guarded; when two threads take the same slot the
model stops there (`collided`). Releasing is two steps as well: `in_use` is
cleared first and the error number after it, whoever has the slot by then. A slot
keeps its connection pointer when it is released. A failed preparation releases
NULL, in `dtp_prepare_session` and again in `dtp_client_main`, which sets
`last_error` (`ReleaseNull`).

**`DtpClient`** is the client with its files. The `pc` values follow the code:
`prepared` (session ready), `meta` (waiting for the response), `bind`, `loop`
(at the while condition), `recv` (in `csp_recvfrom`), `end`, `returned` (session
handed to the caller), `saving` and `saved`. Files are sets of sequence
numbers. A packet that was written stays in the stdio buffer until the next
`fseek` or `fclose`. Saving is two steps: `fopen` truncates the `.meta` file and
`fclose` fills it. A process that crashes in between leaves a file without a
version stamp.

**`DtpTransfer`** composes client, server and link: data packets are lost or
repeated, the client is stopped, times out, crashes and resumes any number of
times, the server answers requests of clients that are gone. It implements
**`DtpDownload`**, the abstract resumable download: a file, the claims about it
that survive the process, and the verdict. **`DtpTransferVariants`** adds three
uses of the interface that the documentation allows and `DtpTransfer` leaves out:
a fresh download over an existing `.meta` file, a stop before the response, and
`dtp_start_transfer` on a session that was handed back.

`PROJECT.json` maps every definition to its lines. Definitions named
`X_something` or `XSomething` with a comment that begins with "mutant" are wrong
variants of `X`, kept to show that the properties can tell them apart.

## Runs that pass

| run | asks |
|---|---|
| `segment_tracker` | Does the list stay sorted, separated and counted; what exactly does it claim; when does it hold a freed node? |
| `resume_lists` | After any number of resumed attempts, does the saved list claim exactly what they recorded; what does the next request ask for; what is left after a failed `malloc`? |
| `server` | Is every packet a chunk of the request, sent once, and all of them sent unless stopped (`ImplementsSender`); how much is sent after a stop; do transfers end? |
| `receive_clock` | Which requests divide by zero, does the pace match the request; can the deadline pass too early, when does the idle time-out strike, are the keep-alives in time; does the loop end? |
| `transfer` | Is it a resumable download (`ImplementsDownload`: the `.meta` file claims what the output file has, `DTP_OK` means complete); does the byte count agree through all interruptions; does `DTP_CANCELLED` mean incomplete; does a resume ask for what is missing, also when a request cannot name all gaps; does a stop work; does every attempt and every transfer end? |
| `vmem` | With two tasks and a handler on one context: are requests served in order, can a status, a packet or a stop be wrong, and only for which reason; is a live client given up; does the queue drain? |
| `pool` | With several threads: is a session ever shared, does a stop reach the right sessions, which connections and streams are left open, can a session start with the error of an earlier one? |

`TypeOK` is checked in `transfer`; like that of the other modules it is part of
the inductive invariant and proved. Some properties are exact descriptions where
the plain expectation fails:

- `FreedByRestartOnly`: the list holds a freed node only in a session that was
  started again. `ListWellFormed` and `RecordsExactlyAhead` hold until then.
- `RecordsExactlyAhead`: a packet that arrives late is written to the file but
  not recorded.
- `AsksForMissing`: the complement leaves out a lone missing last packet and is
  empty for an empty list. `ExhaustedCharacterised` and the exception in
  `ResumeAsksForMissing` follow: "No more data in the current DTP session"
  (`dtp.h:42`) is also said when the `.meta` file is empty of claims or only the
  last packet is missing.
- `CancelledMeansMissing`: when the payload is a whole number of chunks, the
  "highest packet number occurring in this transmission" (`dtp_protocol.h:63`)
  does not occur, and a complete download ends as cancelled.
- `RoundIsUsable`: a throughput or a chunk of zero is not refused and divides by
  zero; no other request does.
- `PaceKeepsThroughput` is limited to throughputs of at least a chunk per second:
  below, `secs_packet` is a truncated quotient, and 100 bytes/s with chunks of
  150 bytes gives a packet per second.
- `LateMeansOverdue` holds while nothing wraps, with a slack of one millisecond:
  a very fast transfer may end within a truncated millisecond. When the clock is
  about to wrap, the plain comparison of words can end a session at once.
- `IdleMeansSilent`: the idle time-out never strikes before the configured time of
  silence, and not later than twice that time and two rounds. The second bound is
  not slack (`idle_timeout` below).
- `AliveWithinLimit`: a keep-alive 'every "keep_alive_interval" milliseconds'
  (`dtp_protocol.h:35`) is sent only while new packets come.
- `PacketsAreOwn`, `StopHolds`, `AbortMeansSilent`: each names the one
  interleaving that breaks the plain statement.
- `NoStaleError`: `dtp_acquire_session` does not clear the error number by which
  `dtp_prepare_session` decides to resume. It is one of an earlier session only for
  a thread that takes the slot between the two last assignments of
  `dtp_release_session`.
- `ConnsAccounted`, `StreamsClosed`, `SlotsExclusive`: a VMEM call without a
  buffer leaks its connection, a failed `csp_bind` skips `on_end` ("Called when
  session is done (for whatever reason...)", `dtp.h:110`), and two scans may take
  one slot.
- `TransferEnds`: a server whose payload is gone, or that has lost all buffers to
  failed reads, polls until somebody stops it.

## Runs that find a disagreement

Each checks one statement of a header, a comment or `README.rst` that the code
does not keep. `findings` in `PROJECT.json` has the quotations.

| run | what happens |
|---|---|
| `fresh_over_meta` | An interrupted fresh download leaves an old `.meta` file in charge, and a later resume ends with `DTP_OK` and holes. |
| `restart` | `dtp_start_transfer` on an interrupted session counts packets twice and can return `DTP_OK` with holes. It also frees the tail node of its list and goes on to walk it (`segment_tracker`). |
| `early_stop` | A stop before reception starts is overwritten. |
| `announced_size` | A transfer sends more than the response announces: the last packet of every interval that has an end is not counted. |
| `idle_timeout` | A silent session is stopped after twice the configured time, because a wait of two rounds is counted as one. |

## Bounds

- `segment_tracker`: five sequence numbers, so that three separate segments fit
  with gaps between them, and two starts (`MaxStarts`): the first restart frees a
  node, and after it every reading of the node is tried.
- `resume_lists`: every list over six numbers as the saved and as the attempt's;
  the number of attempts and failures is not bounded.
- `server`: a payload of nine bytes in chunks of two: five packets, the last one
  cut. Two packets per round, so an interval takes up to three rounds. All requests
  of one interval and, split after packet 1, of two, that a client can make; the
  last interval may end beyond the last byte. A pool of two buffers, so it can run
  dry.
- `receive_clock`: throughputs and chunk sizes of zero and on both sides of a packet
  per second and of the 5% and 10 ms tests, sessions that start at 0 and shortly
  before a wrap (`Word` is 2^21 here, so that it is more than every product with a
  reasonable size and less than some), up to three packets after any of six delays
  (`Delays`: none, a millisecond, and just below two rounds of 10 ms, 100 ms, a
  second and 100 s), one repetition (`MaxRepeats`), and eleven silent waits in a row
  (`MaxSilent`), which is enough for a time-out of 0 s, and of 1 s with rounds of
  100 ms or more.
- `transfer`: seven bytes in chunks of two: four packets, the last one cut. A
  request has one interval, so it is too small as soon as there are two gaps; two
  messages on the link, one silent wait allowed, a backlog of one as in the code.
  The number of attempts, crashes and stops is not bounded. The violation runs on
  transfers have two intervals and one message on the link. A payload of a whole
  number of chunks is left to the proofs, which hold for every size.
- `vmem`: three transfers (`MaxJobs`), two of which may wait in a queue of two
  while a third finds it full; two clients of either byte order; two packets over
  VMEM. Time stops mattering beyond the limit.
- `pool`: two socket users and a VMEM user on two sessions and two connections,
  so that slots and connections both run out. Deadlock is not checked because
  the model stops when two threads have taken one session. Symmetry of threads
  and connections is used; all properties are invariants. The view of the run
  leaves out what no later step and no property reads (`last_error`, which error
  it is, and the fields of a slot that the next acquisition overwrites).
- `after_stop` counts to 2, which is all its property compares.

## Abstractions

- Time. In `DtpTransfer` the deadline may pass at any turn, an idle wait may end
  at any moment, the client may be found silent after any packet (`KeepAlive`).
  This includes every value that `DtpReceiveClock` computes. `KeepAlive` is FALSE
  in the transfer runs: on a little-endian host the interval arrives as 0 (theorem
  `KeepAliveRead`), and the server never looks.
- The products with the mtu in the receive loop are `size_t` and taken as 64 bits.
- The link keeps the order of packets, as one CSP route does. The tracker does
  not use this: there packets come in any order.
- The control connection is reliable while both ends hold it. A response to a
  connection the client has closed is dropped.
- A payload read delivers everything or nothing. Opening the output file does
  not fail. The payload does not change between attempts.
- `DtpTransfer` has one session; several are in `DtpSessionPool`, without the
  data.

## Fairness

The server task, the VMEM task and the client thread are loops that block only
in calls with time-outs: weak fairness of their steps. The link delivers or loses
what it carries. The deadline is compared with a clock that advances, so a loop
that comes back to its condition for ever finds it passed: strong fairness of
`DeadlinePassed`. A server that asks for a buffer again and again gets one while
any is left: strong fairness of `LoopEnter` (in `DtpServerSystem`, of `GetBuffer`).
This is an assumption on the other users of the buffer pool; without it a
transfer can poll for ever, which is what the code does. Nothing is assumed of
callers, stop requests, keep-alives or crashes.

## Proofs

All proofs are by an inductive invariant, stated in the proof modules.

`DtpSegmentLemmas` has what the operations on lists do to the set of numbers a
list claims, and that of the complement, the loading and the merge of whole lists.

`DtpSegmentProofs` has the proofs on one list and on the lists between attempts.
For the first, for every payload length, arrival order and number of starts, the
invariant adds to the properties where the segment under construction is: beyond
every node, where `append_segment` takes its appending branch (`AppendBeyond`), or
the tail node itself, after the end of a session. In the second case an append
absorbs the node into itself and frees it; it can only come after a restart
(`TrackerFreedByRestartOnly`), and the list is as it was until then.
For the second, for every payload length, set of separated lists and number of
attempts, the invariant of the merge says that the nodes taken so far are those
that start below both iterators, that the result and its current segment cover
exactly them, and that the current segment starts no later than what is to come.
That of the walk says that the complement built so far is exact below
`seg_start`. `MergedSeparated`, `SavedIsUnion` and `AsksForMissing` follow.
`LoopsAreFunctions` joins the two models of these loops: the locals after so many
turns of `DtpResumeLists` are those of the recursive functions of
`DtpSegmentLists` after as many (`SameTurns`), so the request and, unless a malloc
failed, the saved list are the values of those functions, which `DtpTransfer` uses.

`DtpServerProofs`, for every payload size, chunk size, round length and every
set of requests that are lists of ascending disjoint intervals starting inside
the payload (`RequestsAssumption`). The invariant adds that intervals not yet
visited are as they were asked for (the loop overwrites the open end of the one
it visits), where the next packet lies in the current interval, that everything
sent lies behind it, and that a stop has been seen by the flag unless the packet
in hand is still to be sent. Besides the invariants, `ServerImplementsSender`
shows that every step is a step of `DtpSender` or none. What is left to send is
mapped to the requested bytes that no packet has carried. `Exact` says that these
are the ones from the loop's position (`Frontier`) on, until a stopped transfer
leaves an interval early: a packet carries just the bytes the position moves over,
and the change to the next interval passes none that was asked for.
`ServerAnnounces` says how far the announced size is from what is sent, for every
request: by the last packet of every interval that has an end (`AnnouncedShort`).
It rests on `Counted`: unless stopped, the bytes on the link are
those of the intervals passed and of the part sent of the current one.
`ServerGoesForward` is the part of `TransferEnds` that needs no fairness: intervals,
bytes and place in the round that are to go decrease, in this order, with every
step of the server but `NoBuffer` and `ReadNothing`, and these two, a stop and a
change of the payload add no interval and no byte. It needs that a round starts with
no packet counted (`RoundStart`).

`DtpReceiveClockProofs` first has `compute_dtp_metrics`, for every throughput and
chunk size, zero included. The invariant says that the round at the start of the
loop has at least a second, a factor that passed leaves 10 ms, and a packet is left
in the round: were there none, the shortened throughput would be 0, 100% off. From
it follows `RoundIsUsable`; with the bounds of the last factor that passed,
`PaceKeepsThroughput`. Each turn takes from the room between the factor and the
round (`MetricsLoopRunsOut`).

Then it has the receive loop, for every word size and every set of throughputs,
chunks, counts, time-outs, clocks and delays. The invariant ties the stamps to true time:
the idle time is half of the silence (`IdleTimeout`, and from it
`IdleOnlyWhenSilent`), the deadline is the sum it was computed
from as long as `exact` holds, and the last keep-alive lies less than an interval
before the last packet.

`DtpVmemServerProofs`, for any clients, byte orders, queue length, limits and
number of jobs. The order of service is an invariant on `accepted`, the job in
hand and the queue. `FlagsInvariant` says for each task which writes of
`keep_running` and of the context it has been exposed to; `BusyIsEngaged`,
`PacketsOwn` and `StopIsKept` follow. `AbortForSilence` bounds a task's gap by
`age`. `KeepAliveRead` computes what is left of a keep-alive interval for each
pair of byte orders.

`DtpSessionPoolProofs`, for any number of threads, sessions and connections. The
invariant relates each control point to the slot, connection and stream the thread
holds there; steps are grouped by what they do to the slot (taking, keeping or
giving it back). For `ErrorsAreOwn` it adds that a slot nobody has carries no error
number, unless a thread that released it has yet to clear it (`CleanInv`).

`DtpTransferLemmas` and `DtpTransferProofs`, for every payload size, chunk size,
number of intervals, round length, time-out, capacity of the link and backlog. The
invariant `Inv`, stated in the first, has six parts besides the types:

- `LinkInv`: the request of the live session is the last one queued, or it has
  been answered. What the link carries after the answer are packets of the
  request in ascending order (`StreamFrom`), and the server has only later ones
  to send (`Behind`); its place in the request is as in `DtpServerProofs`. What
  earlier sessions left on the link is never after the live answer. Without this a
  client could take packets of a dead session for its own.
- `MetaInv`: what a complete `.meta` file claims is in the output file, and its
  byte count is the size of these packets.
- `SessionInv`: within a session, what is claimed is disjoint from what is asked
  for, the list under construction claims only what was asked for and has been
  handed to stdio, and `bytes_received` is the size of both together. The last
  needs that a packet is counted once: it comes later than every one before it, or
  is the last one repeated. So does the verdict: the receive loop compares
  `bytes_received` with the payload size, and only a set of all packets has it
  (`Bytes` is a sum over a set, and monotonic).
- `DoneInv`: the same for the merged list of a session that was handed back.
- `FilesInv`, `StopInv`: the stdio buffer is empty outside of reception, and a
  stop has been seen by the flag or the packet in hand is still to be taken.

The first module has the steps of the server, the link and the receive loop; the
second, with the lemmas on lists, those that load, record, merge and save.
`TransferImplementsDownload` shows that each step is one of `DtpDownload` or none:
the file grows when the buffer is flushed; a crash may lose what is buffered but
nothing that is claimed. While the `.meta` file is written (`saving`) the claims are
mapped to the list being saved, so that `SerializeOpen` is the step that saves, and
a crash before `SerializeClose` the one that loses the claims.

What a loop computes over a whole list or sequence is proved by taking the least
turn at which it could fail (`TurnInduction`). A recursive function is used through
one fact, that a function with its equations exists.

Only model-checked: liveness (`AttemptEnds`, `ServerReturns`, `TransferEnds`,
`LoopEnds`, `QueueDrains`), which rests on fairness and is out of TLAPS's reach,
and the five disagreements, which are counterexamples. Of `TransferEnds` and
`LoopEnds` the decreasing measures are proved, not that the steps are taken.

## Not modelled

The linked list of payloads and short reads of a file that changes while it is
served: a short read moves all later offsets of the transfer off the chunk grid,
and the model's packets are on it. Reordering of packets in a whole download:
`bytes_received` then counts repetitions that are not adjacent, and nothing in the
sources says what should hold. Connections and buffers on the server side.
`remove_segment`, which has no caller. `dtp_get_opt`, `dtp_strerror`, the default
hooks, logging, printing, and the `session-meta` utility, which keep no state.

## Running

    tlc -config MCTransfer.cfg DtpTransfer
    tlapm DtpServerProofs.tla

`PROJECT.json` names the module and the configuration of each run.
