----------------------------- MODULE DtpMetrics -----------------------------
(***************************************************************************)
(* The pace of a transfer: compute_dtp_metrics (src/src/dtp_protocol.c),   *)
(* the part that turns the requested throughput into rounds of             *)
(* packets_per_round packets every round_time_ms.  Both sides compute it   *)
(* from the same request, on every transfer.                               *)
(*                                                                         *)
(* Each turn of its do-while loop is a step.  The code multiplies factor   *)
(* before the test and divides it after the loop; here factor is the last  *)
(* value that passed.  Divisions are on uint32_t, as \div.                 *)
(***************************************************************************)
EXTENDS Integers

CONSTANTS
    Throughputs,            \* request.throughput
    Chunks                  \* request.mtu - 2 * sizeof(uint32_t)

ASSUME MetricsAssumption ==
    /\ Throughputs \subseteq Nat
    /\ Chunks \subseteq Nat

VARIABLES
    mpc,                    \* "idle", "shorten", "done" or "faulted"
    throughput, chunk,      \* the request
    round_time_ms, packets_per_round,
    factor

vars == <<mpc, throughput, chunk, round_time_ms, packets_per_round, factor>>

Init ==
    /\ mpc = "idle"
    /\ throughput \in Throughputs
    /\ chunk \in Chunks
    /\ round_time_ms = 0
    /\ packets_per_round = 0
    /\ factor = 1

----------------------------------------------------------------------------
\* No calculation is under way; one that was cut short is taken up by a restarted
\* process.
Ready == mpc # "shorten"

\* A request without a throughput, or whose mtu has no room for data, is not
\* refused: the first divisions are by zero, which C leaves undefined (on the
\* POSIX build the process dies).
DivideByZero(t, c) ==
    /\ Ready
    /\ t = 0 \/ c = 0
    /\ mpc' = "faulted"
    /\ throughput' = t /\ chunk' = c
    /\ round_time_ms' = 0 /\ packets_per_round' = 0 /\ factor' = 1

\* The call, up to the loop.
compute_dtp_metrics(t, c) ==
    LET packets_sec == t \div c
        secs_packet == c \div t
    IN  /\ Ready
        /\ t > 0 /\ c > 0
        /\ mpc' = "shorten"
        /\ throughput' = t /\ chunk' = c
        /\ round_time_ms' = IF secs_packet > packets_sec THEN secs_packet * 1000 ELSE 1000
        /\ packets_per_round' = IF secs_packet > packets_sec THEN 1 ELSE packets_sec
        /\ factor' = 1

\* __throughput: the rate of a round shortened by f.
ShortenedThroughput(f) ==
    (((packets_per_round \div f) * chunk) \div (round_time_ms \div f)) * 1000

Distance(a, b) == IF a > b THEN a - b ELSE b - a

\* mutants: a round of 1 ms is long enough; half the rate may be lost.
LoopsOnTinyRound(f) ==
    /\ round_time_ms \div f >= 1
    /\ 100 * Distance(throughput, ShortenedThroughput(f)) < 5 * throughput
LoopsOnLoose(f) ==
    /\ round_time_ms \div f >= 10
    /\ 100 * Distance(throughput, ShortenedThroughput(f)) < 50 * throughput

\* The loop goes on: the round has 10 ms left and the rate is off by less than 5%.
LoopsOn(f) ==
    /\ round_time_ms \div f >= 10
    /\ 100 * Distance(throughput, ShortenedThroughput(f)) < 5 * throughput

\* mutant: factor is not multiplied.
ShortenRoundSame == mpc = "shorten" /\ LoopsOn(factor * 10) /\ UNCHANGED vars

ShortenRound ==
    /\ mpc = "shorten"
    /\ LoopsOn(factor * 10)
    /\ factor' = factor * 10
    /\ UNCHANGED <<mpc, throughput, chunk, round_time_ms, packets_per_round>>

\* "Roll back one factor of 10" and apply what is left.
RollBack ==
    /\ mpc = "shorten"
    /\ ~LoopsOn(factor * 10)
    /\ mpc' = "done"
    /\ round_time_ms' = round_time_ms \div factor
    /\ packets_per_round' = packets_per_round \div factor
    /\ UNCHANGED <<throughput, chunk, factor>>

Next ==
    \/ \E t \in Throughputs, c \in Chunks : compute_dtp_metrics(t, c) \/ DivideByZero(t, c)
    \/ ShortenRound
    \/ RollBack

Spec == Init /\ [][Next]_vars /\ WF_vars(ShortenRound \/ RollBack)

----------------------------------------------------------------------------
(* Properties                                                              *)

\* The metrics keep their types.
TypeOK ==
    /\ mpc \in {"idle", "shorten", "done", "faulted"}
    /\ throughput \in Nat
    /\ chunk \in Nat
    /\ round_time_ms \in Nat
    /\ packets_per_round \in Nat
    /\ factor \in Nat \ {0}

\* compute_dtp_metrics divides by zero for no request but one whose throughput
\* or chunk is zero itself, which it does not check: neither the divisor of
\* __throughput nor, afterwards, packets_per_round (the divisor of
\* total_duration_ms) is ever zero, and a server given this metric sends at
\* least a packet per round.
RoundIsUsable ==
    /\ mpc = "faulted" => throughput = 0 \/ chunk = 0
    /\ mpc = "shorten" => round_time_ms \div (factor * 10) >= 1
    /\ mpc = "done" => round_time_ms >= 10 /\ packets_per_round >= 1

\* The bytes per second of the final rounds, times the length of a round.
Rate == packets_per_round * chunk * 1000

\* When a packet fits in a second, the pace never exceeds the requested
\* throughput (otherwise it may: secs_packet is a truncated quotient); and a
\* round that was shortened is within 5% of it, although the do-while compares
\* truncated quotients.
PaceKeepsThroughput ==
    mpc = "done" /\ throughput >= chunk =>
        /\ Rate <= throughput * round_time_ms
        /\ factor > 1 => 20 * (throughput * round_time_ms - Rate) < throughput * round_time_ms

\* The do-while loop ends.
LoopEnds == mpc = "shorten" ~> mpc = "done"
=============================================================================
