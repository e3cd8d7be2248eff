----------------------- MODULE DtpReceiveClockProofs -----------------------
(***************************************************************************)
(* For every throughput and chunk size: compute_dtp_metrics divides by     *)
(* zero only when one of them is zero, and otherwise leaves a round with   *)
(* at least one packet in it and keeps to the requested throughput.  For   *)
(* every request, pace, start of the clock and set of delays: the receive  *)
(* loop gives up at its deadline only when all packets were due, and for   *)
(* silence only after the timeout (in fact after twice the timeout), and a *)
(* client that gets packets stays within the server's keep-alive limit.    *)
(***************************************************************************)
EXTENDS DtpReceiveClock, TLAPS

----------------------------------------------------------------------------
(* compute_dtp_metrics.                                                    *)

\* While the loop runs, the factor that passed fits ten times in the round
\* time and once in the packets of the round.
IInv ==
    /\ TypeOK
    /\ mpc = "faulted" => throughput = 0 \/ chunk = 0
    /\ mpc \in {"shorten", "done"} => throughput > 0 /\ chunk > 0
    /\ mpc = "shorten" => /\ round_time_ms >= factor * 10
                          /\ packets_per_round >= factor
    /\ mpc = "done" => round_time_ms >= 10 /\ packets_per_round >= 1

\* Integer division by a positive divisor, in terms of multiplication.
LEMMA DivGe == ASSUME NEW a \in Nat, NEW b \in Nat \ {0}, NEW k \in Nat
               PROVE  a \div b >= k <=> a >= k * b
  OBVIOUS

\* A zero numerator.
LEMMA ZeroDiv == ASSUME NEW b \in Nat \ {0} PROVE 0 \div b = 0
  OBVIOUS

\* A natural number divided by a positive one is a natural number.
LEMMA DivNat == ASSUME NEW a \in Nat, NEW b \in Nat \ {0} PROVE a \div b \in Nat
  OBVIOUS

\* The round the call starts from lasts at least a second and has a packet.
LEMMA FirstRound ==
    ASSUME NEW t \in Nat \ {0}, NEW c \in Nat \ {0}
    PROVE  /\ t \div c \in Nat /\ c \div t \in Nat
           /\ c \div t > t \div c \/ t \div c >= 1
  <1>1. t \div c \in Nat /\ c \div t \in Nat
    BY DivNat
  <1>2. CASE t >= c
    <2>1. t \div c >= 1
      BY <1>2, DivGe
    <2> QED BY <1>1, <2>1
  <1>3. CASE t < c
    <2>1. c \div t >= 1
      BY <1>3, DivGe
    <2> QED BY <1>1, <2>1
  <1> QED BY <1>2, <1>3

\* A factor that passes the test of the loop leaves a packet in the round.
LEMMA PassedFactor ==
    ASSUME IInv, mpc = "shorten", NEW f \in Nat \ {0}, LoopsOn(f)
    PROVE  round_time_ms >= 10 * f /\ packets_per_round >= f
  <1> DEFINE r == round_time_ms \div f
             p == packets_per_round \div f
  <1>1. r \in Nat /\ p \in Nat
    BY DivNat DEF IInv, TypeOK
  <1>2. r >= 10
    BY DEF LoopsOn
  <1>3. round_time_ms >= 10 * f
    BY <1>2, DivGe DEF IInv, TypeOK
  <1>4. p # 0
    <2> SUFFICES ASSUME p = 0 PROVE FALSE
      OBVIOUS
    <2>1. ShortenedThroughput(f) = ((p * chunk) \div r) * 1000
      BY DEF ShortenedThroughput
    <2>2. p * chunk = 0
      BY DEF IInv, TypeOK
    <2>3. 0 \div r = 0
      BY <1>1, <1>2, ZeroDiv
    <2>4. ShortenedThroughput(f) = 0
      BY <2>1, <2>2, <2>3
    <2>5. Distance(throughput, 0) = throughput
      BY DEF Distance, IInv, TypeOK
    <2>6. 100 * throughput < 5 * throughput
      BY <2>4, <2>5 DEF LoopsOn
    <2> QED BY <2>6 DEF IInv, TypeOK
  <1>5. p >= 1
    BY <1>1, <1>4
  <1>6. packets_per_round >= f
    <2>1. packets_per_round >= 1 * f
      BY <1>5, DivGe DEF IInv, TypeOK
    <2> QED BY <2>1
  <1> QED BY <1>3, <1>6

\* Every step of the computation keeps the invariant.
LEMMA MetricsStep == ASSUME IInv, [Next]_vars PROVE IInv'
  <1> USE MetricsAssumption
  <1>1. ASSUME NEW t \in Throughputs, NEW c \in Chunks, compute_dtp_metrics(t, c)
        PROVE  IInv'
    <2>1. t \in Nat \ {0} /\ c \in Nat \ {0}
      BY <1>1 DEF compute_dtp_metrics
    <2>2. /\ t \div c \in Nat /\ c \div t \in Nat
          /\ c \div t > t \div c \/ t \div c >= 1
      BY <2>1, FirstRound
    <2> DEFINE ps == t \div c
               sp == c \div t
    <2>3. /\ mpc' = "shorten" /\ throughput' = t /\ chunk' = c /\ factor' = 1
          /\ round_time_ms' = IF sp > ps THEN sp * 1000 ELSE 1000
          /\ packets_per_round' = IF sp > ps THEN 1 ELSE ps
      BY <1>1 DEF compute_dtp_metrics
    <2>4. ps \in Nat /\ sp \in Nat /\ (sp > ps \/ ps >= 1)
      BY <2>2
    <2> HIDE DEF ps, sp
    <2>5. /\ round_time_ms' \in Nat /\ round_time_ms' >= 10
          /\ packets_per_round' \in Nat /\ packets_per_round' >= 1
      BY <2>3, <2>4
    <2> QED BY <2>1, <2>3, <2>5 DEF IInv, TypeOK
  <1>5. ASSUME NEW t \in Throughputs, NEW c \in Chunks, DivideByZero(t, c)
        PROVE  IInv'
    BY <1>5 DEF DivideByZero, IInv, TypeOK
  <1>2. CASE ShortenRound
    <2>1. factor * 10 \in Nat \ {0}
      BY DEF IInv, TypeOK
    <2>2. round_time_ms >= 10 * (factor * 10) /\ packets_per_round >= factor * 10
      BY <1>2, <2>1, PassedFactor DEF ShortenRound
    <2> QED BY <1>2, <2>1, <2>2 DEF ShortenRound, IInv, TypeOK
  <1>3. CASE RollBack
    <2>1. /\ round_time_ms \div factor \in Nat
          /\ packets_per_round \div factor \in Nat
      BY DivNat DEF IInv, TypeOK
    <2>2. round_time_ms >= 10 * factor /\ packets_per_round >= 1 * factor
      BY <1>3 DEF RollBack, IInv, TypeOK
    <2>3. round_time_ms \div factor >= 10 /\ packets_per_round \div factor >= 1
      BY <2>2, DivGe DEF IInv, TypeOK
    <2> QED BY <1>3, <2>1, <2>3 DEF RollBack, IInv, TypeOK
  <1>4. CASE UNCHANGED vars
    BY <1>4 DEF vars, IInv, TypeOK
  <1> QED BY <1>1, <1>2, <1>3, <1>4, <1>5 DEF Next

\* It holds from the start.
LEMMA MetricsStart == Init => IInv
  BY MetricsAssumption DEF Init, IInv, TypeOK

\* The invariant is inductive.
THEOREM MetricsInvariant == Spec => []IInv
  <1>1. IInv /\ [Next]_vars => IInv'
    BY MetricsStep
  <1> QED BY <1>1, MetricsStart, PTL DEF Spec

\* For every mtu and throughput, zero included: compute_dtp_metrics divides by
\* zero only when the throughput or the chunk is zero, and every calculation it
\* completes leaves a round of at least 10 ms with at least one packet.
THEOREM MetricsRoundIsUsable == Spec => []RoundIsUsable
  <1>1. IInv => RoundIsUsable
    <2> SUFFICES ASSUME IInv PROVE RoundIsUsable
      OBVIOUS
    <2>1. ASSUME mpc = "shorten" PROVE round_time_ms \div (factor * 10) >= 1
      <3>1. factor * 10 \in Nat \ {0}
        BY DEF IInv, TypeOK
      <3>2. round_time_ms >= 1 * (factor * 10)
        BY <2>1 DEF IInv, TypeOK
      <3> QED BY <3>1, <3>2, DivGe DEF IInv, TypeOK
    <2> QED BY <2>1 DEF IInv, RoundIsUsable
  <1> QED BY <1>1, MetricsInvariant, PTL

\* What the factor may still grow by.
RoomToShorten == IF mpc = "shorten" THEN round_time_ms - factor ELSE 0

\* A turn that passes the test multiplies the factor, and the next factor still
\* fits in the round.
TurnTakesRoom ==
    ShortenRound => RoomToShorten' < RoomToShorten /\ 10 * factor' <= round_time_ms

\* The part of LoopEnds that needs no fairness, for every mtu and throughput:
\* each turn of the do-while loop takes from a natural number, so it has a last
\* one, whatever the truncated quotients it compares.
THEOREM MetricsLoopRunsOut == Spec => [](RoomToShorten \in Nat) /\ [][TurnTakesRoom]_vars
  <1>1. IInv => RoomToShorten \in Nat
    BY DEF IInv, TypeOK, RoomToShorten
  <1>2. IInv /\ [Next]_vars => [TurnTakesRoom]_vars
    <2> SUFFICES ASSUME IInv, ShortenRound PROVE TurnTakesRoom
      BY DEF TurnTakesRoom
    <2>1. factor * 10 \in Nat \ {0} /\ factor \in Nat \ {0} /\ round_time_ms \in Nat
      BY DEF IInv, TypeOK
    <2>2. /\ mpc = "shorten" /\ mpc' = "shorten" /\ factor' = factor * 10
          /\ round_time_ms' = round_time_ms
      BY DEF ShortenRound
    <2>3. round_time_ms >= 10 * (factor * 10)
      BY <2>1, <2>2, PassedFactor DEF ShortenRound
    <2> QED BY <2>1, <2>2, <2>3 DEF TurnTakesRoom, RoomToShorten
  <1> QED BY <1>1, <1>2, MetricsInvariant, PTL DEF Spec

----------------------------------------------------------------------------
(* The pace.                                                               *)

\* The first round is of a second and stays within the throughput; every factor
\* that passed divides it, and was within 5%.
PaceInv ==
    throughput >= chunk =>
        /\ mpc = "shorten" =>
               /\ round_time_ms = 1000
               /\ packets_per_round * chunk <= throughput
               /\ factor \in {1, 10, 100}
               /\ factor > 1 => LoopsOn(factor)
        /\ mpc = "done" => PaceKeepsThroughput

\* A quotient, in terms of multiplication.
LEMMA QuotientBounds ==
    ASSUME NEW a \in Nat, NEW b \in Nat \ {0}
    PROVE  a \div b \in Nat /\ b * (a \div b) <= a
  OBVIOUS

\* The round that RollBack leaves keeps the throughput.
LEMMA RollBackPace ==
    ASSUME IInv, PaceInv, RollBack, throughput >= chunk
    PROVE  PaceKeepsThroughput'
  <1> DEFINE p == packets_per_round \div factor
             r == 1000 \div factor
             q == (p * chunk) \div r
  <1>1. /\ mpc = "shorten" /\ round_time_ms = 1000 /\ packets_per_round * chunk <= throughput
        /\ factor \in {1, 10, 100}
        /\ factor > 1 => LoopsOn(factor)
    BY DEF PaceInv, RollBack
  <1>2. /\ packets_per_round' = p /\ round_time_ms' = r
        /\ throughput' = throughput /\ chunk' = chunk /\ factor' = factor
    BY <1>1 DEF RollBack
  <1>3. /\ throughput \in Nat \ {0} /\ chunk \in Nat \ {0} /\ packets_per_round \in Nat
        /\ factor \in Nat \ {0}
    BY <1>1 DEF IInv, TypeOK
  <1>4. p \in Nat /\ factor * p <= packets_per_round
    BY <1>3, QuotientBounds
  <1>5. r \in Nat \ {0} /\ r * factor = 1000
    <2>1. CASE factor = 1
      BY <2>1
    <2>2. CASE factor = 10
      BY <2>2
    <2>3. CASE factor = 100
      BY <2>3
    <2> QED BY <1>1, <2>1, <2>2, <2>3
  <1>6. q \in Nat /\ r * q <= p * chunk
    <2>1. p * chunk \in Nat
      BY <1>3, <1>4
    <2> QED BY <1>5, <2>1, QuotientBounds
  <1>7. factor > 1 => 100 * Distance(throughput, q * 1000) < 5 * throughput
    <2>1. ShortenedThroughput(factor) = q * 1000
      BY <1>1, Zenon DEF ShortenedThroughput
    <2> HIDE DEF p, r, q
    <2>2. LoopsOn(factor) => 100 * Distance(throughput, ShortenedThroughput(factor))
                                 < 5 * throughput
      BY DEF LoopsOn
    <2> QED BY <1>1, <2>1, <2>2
  <1> HIDE DEF p, r, q
  <1>8. (factor * p) * chunk <= throughput
    <2>1. (factor * p) * chunk <= packets_per_round * chunk
      BY <1>3, <1>4
    <2>2. (factor * p) * chunk \in Nat /\ packets_per_round * chunk \in Nat
      BY <1>3, <1>4
    <2> QED BY <1>1, <1>3, <2>1, <2>2
  <1>9. p * chunk * 1000 <= throughput * r
    <2>1. ((factor * p) * chunk) * r <= throughput * r
      BY <1>3, <1>4, <1>5, <1>8
    <2>2. ((factor * p) * chunk) * r = (p * chunk) * (r * factor)
      BY <1>3, <1>4, <1>5
    <2> QED BY <1>5, <2>1, <2>2
  <1>10. ASSUME factor > 1
         PROVE  20 * (throughput * r - p * chunk * 1000) < throughput * r
    <2> DEFINE x == p * chunk
               T == q * 1000
    <2>1. x \in Nat /\ T \in Nat /\ r * T <= x * 1000
      BY <1>3, <1>4, <1>5, <1>6
    <2>2. 19 * throughput < 20 * T
      <3> HIDE DEF T
      <3> QED BY <1>3, <1>7, <1>10, <2>1 DEF Distance, T
    <2>3. (19 * throughput) * r < (20 * T) * r
      <3> HIDE DEF T
      <3>1. 19 * throughput + 1 <= 20 * T /\ 19 * throughput \in Nat /\ 20 * T \in Nat
        BY <1>3, <2>1, <2>2
      <3> DEFINE u == 19 * throughput
                 v == 20 * T
      <3> HIDE DEF u, v
      <3>2. u \in Nat /\ v \in Nat /\ u + 1 <= v
        BY <3>1 DEF u, v
      <3>3. (u + 1) * r <= v * r /\ (u + 1) * r = u * r + r
        BY <1>5, <3>2
      <3>4. u * r \in Nat /\ v * r \in Nat
        BY <1>5, <3>2
      <3>5. u * r < v * r
        BY <1>5, <3>3, <3>4
      <3> QED BY <3>5 DEF u, v
    <2> DEFINE y == throughput * r
               z == r * T
    <2>4. (19 * throughput) * r = 19 * y /\ (20 * T) * r = 20 * z /\ y \in Nat /\ z \in Nat
      BY <1>3, <1>5, <2>1
    <2> HIDE DEF x, T, y, z
    <2>5. z <= x * 1000
      BY <2>1 DEF z
    <2>6. 20 * (y - x * 1000) < y
      BY <2>1, <2>3, <2>4, <2>5
    <2> QED BY <2>6 DEF x, y
  <1>11. Rate' = p * chunk * 1000
    BY <1>2 DEF Rate
  <1> QED BY <1>2, <1>9, <1>10, <1>11 DEF PaceKeepsThroughput

\* compute_dtp_metrics never exceeds the requested throughput when a packet
\* fits in a second, and a shortened round is within 5% of it, for every mtu
\* and throughput.
THEOREM MetricsPace == Spec => []PaceKeepsThroughput
  <1>1. Init => PaceInv
    BY DEF Init, PaceInv
  <1>2. IInv /\ PaceInv /\ [Next]_vars => PaceInv'
    <2> SUFFICES ASSUME IInv, PaceInv, [Next]_vars PROVE PaceInv'
      OBVIOUS
    <2>1. ASSUME NEW t \in Throughputs, NEW c \in Chunks, compute_dtp_metrics(t, c)
          PROVE  PaceInv'
      <3> DEFINE ps == t \div c
                 sp == c \div t
      <3>1. t \in Nat \ {0} /\ c \in Nat \ {0}
        BY <2>1, MetricsAssumption DEF compute_dtp_metrics
      <3>2. ps \in Nat /\ c * ps <= t /\ sp \in Nat /\ t * sp <= c
        BY <3>1, QuotientBounds
      <3>3. /\ mpc' = "shorten" /\ throughput' = t /\ chunk' = c /\ factor' = 1
            /\ round_time_ms' = IF sp > ps THEN sp * 1000 ELSE 1000
            /\ packets_per_round' = IF sp > ps THEN 1 ELSE ps
        BY <2>1 DEF compute_dtp_metrics
      <3>4. t >= c => ps >= 1 /\ ~(sp > ps)
        <4>1. t >= c => ps >= 1
          BY <3>1, DivGe
        <4>2. t >= c => sp <= 1
          <5> SUFFICES ASSUME t >= c, sp >= 2 PROVE FALSE
            BY <3>2
          <5>1. c >= 2 * t
            BY <3>1, DivGe
          <5> QED BY <3>1, <5>1
        <4> HIDE DEF ps, sp
        <4> QED BY <3>2, <4>1, <4>2
      <3> HIDE DEF ps, sp
      <3>5. ps * c <= t
        BY <3>1, <3>2
      <3> QED BY <3>1, <3>3, <3>4, <3>5 DEF PaceInv
    <2>5. ASSUME NEW t \in Throughputs, NEW c \in Chunks, DivideByZero(t, c)
          PROVE  PaceInv'
      BY <2>5 DEF DivideByZero, PaceInv
    <2>2. CASE ShortenRound
      <3>1. factor * 10 \in Nat \ {0} /\ LoopsOn(factor * 10)
        BY <2>2 DEF ShortenRound, IInv, TypeOK
      <3>2. round_time_ms >= 10 * (factor * 10)
        BY <2>2, <3>1, PassedFactor DEF ShortenRound
      <3>3. /\ factor' = factor * 10
            /\ UNCHANGED <<mpc, throughput, chunk, round_time_ms, packets_per_round>>
        BY <2>2 DEF ShortenRound
      <3>4. LoopsOn(factor)' = LoopsOn(factor * 10)
        BY <3>3 DEF LoopsOn, ShortenedThroughput
      <3>5. ASSUME throughput >= chunk PROVE factor * 10 \in {1, 10, 100}
        <4>1. factor \in {1, 10, 100} /\ round_time_ms = 1000
          BY <2>2, <3>5 DEF PaceInv, ShortenRound
        <4> QED BY <3>2, <4>1
      <3> QED BY <2>2, <3>1, <3>3, <3>4, <3>5 DEF PaceInv, ShortenRound
    <2>3. CASE RollBack
      <3>1. mpc' = "done" /\ throughput' = throughput /\ chunk' = chunk
        BY <2>3 DEF RollBack
      <3> QED BY <2>3, <3>1, RollBackPace DEF PaceInv
    <2>4. CASE UNCHANGED vars
      BY <2>4 DEF vars, PaceInv, PaceKeepsThroughput, Rate, LoopsOn, ShortenedThroughput
    <2> QED BY <2>1, <2>2, <2>3, <2>4, <2>5 DEF Next
  <1>3. PaceInv => PaceKeepsThroughput
    BY DEF PaceInv, PaceKeepsThroughput
  <1> QED BY <1>1, <1>2, <1>3, MetricsInvariant, PTL DEF Spec

----------------------------------------------------------------------------
(* The receive loop.                                                       *)

Locals == [start : Nat, now : Nat, idle : Nat, eot : Nat, nof : Nat, alive : Nat]

Histories == [start : Nat, heard : Nat, packet : Nat, alive : Nat,
              est_nof : Nat, est_ts : Nat, repeats : Nat]

ClockTypes ==
    /\ IInv
    /\ rpc \in {"off", "loop", "done"}
    /\ rpc # "off" => mpc = "done"
    /\ opts \in [packets : Nat \ {0}, timeout : Nat, keep : Nat]
    /\ clock \in Nat
    /\ rx \in Locals
    /\ past \in Histories

\* idle_ms is half of the silence, and below the limit while the loop runs.
IdleInv ==
    rpc = "loop" => /\ clock = past.heard + 2 * rx.idle
                    /\ rx.idle <= opts.timeout * 1000

\* What the loop does for silence, exactly: a wait of two rounds counts for one
\* (start_receiving_data adds round_time_ms to idle_ms), so a session whose
\* timeout is t seconds is stopped after 2 * t seconds, never earlier, and at
\* most two rounds later.
IdleTakesTwice ==
    outcome = "idle" =>
        /\ clock - past.heard > 2000 * opts.timeout
        /\ clock - past.heard <= 2000 * opts.timeout + 2 * round_time_ms

\* The packets are due at the deadline t, counted from the start.
Due(t) ==
    IF past.est_nof = 0
    THEN /\ t >= 1000 + 2 * round_time_ms
         /\ opts.packets * round_time_ms < packets_per_round * (t - 2 * round_time_ms + 1)
    ELSE opts.packets * past.est_ts < past.est_nof * (t + 1)

\* Before anything wraps the time stamps are true times, and the deadline is
\* one at which all packets are due.
DeadlineInv ==
    rpc = "loop" /\ exact =>
        /\ clock < Word
        /\ rx.start = past.start /\ rx.now = past.heard /\ past.start <= past.heard
        /\ past.start <= rx.eot
        /\ Due(rx.eot - past.start)

\* A new packet at least the interval after the last keep-alive sends one.
AliveInv ==
    rpc = "loop" =>
        /\ past.alive <= past.packet /\ past.packet <= clock
        /\ rx.alive = past.alive % Word
        /\ opts.keep > 0 => \/ past.packet - past.alive < opts.keep
                            \/ past.packet - past.alive >= Word

CInv ==
    /\ ClockTypes
    /\ rpc # "done" => outcome = "none"
    /\ IdleInv
    /\ DeadlineInv
    /\ AliveInv
    /\ LateMeansOverdue
    /\ IdleTakesTwice

----------------------------------------------------------------------------
(* Words.                                                                  *)

\* A number that fits in a word is its own remainder.
LEMMA ModSmall == ASSUME NEW a \in Nat, a < Word PROVE a % Word = a
  BY ClockAssumption

\* A remainder fits in a word.
LEMMA ModRange == ASSUME NEW a \in Int PROVE a % Word \in Nat /\ a % Word < Word
  BY ClockAssumption

\* Multiples of a word that differ by less than a word are the same.
LEMMA SameTurn ==
    ASSUME NEW j \in Int, NEW k \in Int, NEW r \in Nat, NEW s \in Nat, r < Word, s < Word,
           Word * j + r = Word * k + s
    PROVE  r = s
  <1>1. Word \in Nat \ {0}
    BY ClockAssumption
  <1>2. ASSUME NEW d \in Int, d >= 1 PROVE Word * d >= Word
    BY <1>1, <1>2
  <1>3. Word * (j - k) = s - r /\ Word * (k - j) = r - s
    BY <1>1
  <1>4. CASE j - k >= 1
    <2>1. Word * (j - k) >= Word
      BY <1>2, <1>4
    <2> QED BY <2>1, <1>3, <1>1
  <1>5. CASE k - j >= 1
    <2>1. Word * (k - j) >= Word
      BY <1>2, <1>5
    <2> QED BY <2>1, <1>3, <1>1
  <1>6. CASE j = k
    BY <1>6, <1>1
  <1> QED BY <1>4, <1>5, <1>6

\* A number is its turns and its remainder.
LEMMA Turns ==
    ASSUME NEW a \in Int
    PROVE  a \div Word \in Int /\ a = Word * (a \div Word) + (a % Word)
  BY ClockAssumption

\* The difference of two time stamps less than a turn apart is the true one.
LEMMA ModDifference ==
    ASSUME NEW a \in Nat, NEW b \in Nat, b <= a, a - b < Word
    PROVE  ((a % Word) - (b % Word)) % Word = a - b
  <1> DEFINE p == a % Word
             q == b % Word
             x == p - q
  <1>1. p \in Nat /\ q \in Nat /\ x \in Int
    BY ModRange
  <1>2. /\ a \div Word \in Int /\ a = Word * (a \div Word) + p
        /\ b \div Word \in Int /\ b = Word * (b \div Word) + q
    BY Turns
  <1>3. x \div Word \in Int /\ x = Word * (x \div Word) + (x % Word)
    BY <1>1, Turns
  <1>4. x % Word \in Nat /\ x % Word < Word
    BY <1>1, ModRange
  <1> DEFINE i == a \div Word
             j == b \div Word
             k == x \div Word
             m == x % Word
  <1>5. Word * (j - i) + (a - b) = Word * k + m
    <2> HIDE DEF i, j, k, m, p, q
    <2>1. Word \in Nat /\ i \in Int /\ j \in Int /\ k \in Int /\ m \in Nat
      BY <1>2, <1>3, <1>4, ClockAssumption DEF i, j, k, m
    <2>2. a = Word * i + p /\ b = Word * j + q /\ p - q = Word * k + m
      BY <1>2, <1>3 DEF i, j, k, m
    <2>3. Word * (j - i) = Word * j - Word * i
      BY <2>1
    <2> QED BY <1>1, <2>1, <2>2, <2>3
  <1>6. j - i \in Int /\ k \in Int /\ a - b \in Nat
    BY <1>2, <1>3
  <1> HIDE DEF i, j, k, m
  <1>7. a - b = m
    BY <1>4, <1>5, <1>6, SameTurn DEF m
  <1> QED BY <1>7 DEF m

----------------------------------------------------------------------------
(* The deadline.                                                           *)

\* A quotient, in terms of multiplication.
LEMMA DivBounds ==
    ASSUME NEW a \in Nat, NEW b \in Nat \ {0}
    PROVE  a \div b \in Nat /\ b * (a \div b) <= a /\ a < b * (a \div b + 1)
  OBVIOUS

\* Both factors grow.
LEMMA ProductMono ==
    ASSUME NEW a \in Nat, NEW b \in Nat, NEW c \in Nat, a <= b
    PROVE  a * c <= b * c /\ c * a <= c * b
  OBVIOUS

\* A common factor can be left out.
LEMMA ProductCancel ==
    ASSUME NEW a \in Nat, NEW b \in Nat, NEW c \in Nat \ {0}, c * a < c * b
    PROVE  a < b
  <1> SUFFICES ASSUME b <= a PROVE FALSE
    OBVIOUS
  <1> QED BY ProductMono

\* The estimate is late enough: at the average pace of nof packets in ts ms all
\* of them are there.
LEMMA EstimateIsDue ==
    ASSUME NEW c \in Nat \ {0}, NEW total \in Nat, NEW nof \in Nat, NEW ts \in Nat \ {0},
           NEW rate, rate = (nof * c) \div ts, rate > 0
    PROVE  /\ (c * total) \div rate \in Nat
           /\ total * ts < nof * ((c * total) \div rate + 1)
  <1> DEFINE e == (c * total) \div rate
  <1>1. rate \in Nat \ {0} /\ ts * rate <= nof * c
    BY DivBounds
  <1>2. c * total \in Nat
    OBVIOUS
  <1>3. e \in Nat /\ c * total < rate * (e + 1)
    BY <1>1, <1>2, DivBounds
  <1> HIDE DEF e
  <1>4. ts * (c * total) < ts * (rate * (e + 1))
    <2> DEFINE u == c * total
               v == rate * (e + 1)
    <2>1. u \in Nat /\ v \in Nat /\ u + 1 <= v
      BY <1>1, <1>2, <1>3
    <2> HIDE DEF u, v
    <2>2. ts * (u + 1) <= ts * v /\ ts * (u + 1) = ts * u + ts
      BY <2>1, ProductMono
    <2>3. ts * u \in Nat /\ ts * v \in Nat
      BY <2>1
    <2>4. ts * u < ts * v
      BY <2>2, <2>3
    <2> QED BY <2>4 DEF u, v
  <1>5. ts * (rate * (e + 1)) = (ts * rate) * (e + 1)
    <2>1. rate \in Nat /\ ts \in Nat /\ e + 1 \in Nat
      BY <1>1, <1>3
    <2> QED BY <2>1
  <1>6. (ts * rate) * (e + 1) <= (nof * c) * (e + 1)
    BY <1>1, <1>3, ProductMono
  <1>7. (nof * c) * (e + 1) = c * (nof * (e + 1)) /\ ts * (c * total) = c * (total * ts)
    BY <1>3
  <1>8. c * (total * ts) < c * (nof * (e + 1))
    BY <1>1, <1>3, <1>4, <1>5, <1>6, <1>7
  <1>9. total * ts \in Nat /\ nof * (e + 1) \in Nat
    BY <1>3
  <1>10. total * ts < nof * (e + 1)
    BY <1>8, <1>9, ProductCancel
  <1> QED BY <1>3, <1>10 DEF e

\* So is the first deadline.
LEMMA FirstIsDue ==
    ASSUME IInv, mpc = "done", NEW n \in Nat, n * round_time_ms < Word
    PROVE  /\ FirstWait(n) \in Nat
           /\ FirstWait(n) >= 1000 + 2 * round_time_ms
           /\ n * round_time_ms < packets_per_round * (FirstWait(n) - 2 * round_time_ms + 1)
  <1> DEFINE a == n * round_time_ms
             d == a \div packets_per_round
             w == IF d < 1000 THEN 1000 ELSE d
  <1>1. a \in Nat /\ packets_per_round \in Nat \ {0} /\ round_time_ms \in Nat
    BY DEF IInv, TypeOK
  <1>2. d \in Nat /\ a < packets_per_round * (d + 1)
    BY <1>1, DivBounds
  <1>3. FirstWait(n) = w + 2 * round_time_ms
    BY <1>1, ModSmall DEF FirstWait
  <1> HIDE DEF a, d
  <1>4. w \in Nat /\ d <= w /\ w >= 1000
    BY <1>2
  <1>5. packets_per_round * (d + 1) <= packets_per_round * (w + 1)
    BY <1>1, <1>2, <1>4, ProductMono
  <1> HIDE DEF w
  <1>6. a < packets_per_round * (w + 1)
    BY <1>1, <1>2, <1>4, <1>5
  <1>7. FirstWait(n) - 2 * round_time_ms + 1 = w + 1
    BY <1>1, <1>3, <1>4
  <1> QED BY <1>1, <1>3, <1>4, <1>6, <1>7 DEF a

\* What is due stays due later.
LEMMA DueLater ==
    ASSUME ClockTypes, NEW t \in Nat, NEW u \in Nat, t <= u, Due(t)
    PROVE  Due(u)
  <1>1. /\ past.est_nof \in Nat /\ past.est_ts \in Nat /\ opts.packets \in Nat
        /\ packets_per_round \in Nat /\ round_time_ms \in Nat
    BY DEF ClockTypes, IInv, TypeOK, Histories
  <1>2. CASE past.est_nof = 0
    <2> DEFINE x == t - 2 * round_time_ms + 1
               y == u - 2 * round_time_ms + 1
    <2>1. x \in Nat /\ y \in Nat /\ x <= y
      BY <1>1, <1>2 DEF Due
    <2>2. packets_per_round * x <= packets_per_round * y
      BY <1>1, <2>1, ProductMono
    <2>3. opts.packets * round_time_ms < packets_per_round * x
      BY <1>2 DEF Due
    <2>4. /\ packets_per_round * x \in Nat /\ packets_per_round * y \in Nat
          /\ opts.packets * round_time_ms \in Nat
      BY <1>1, <2>1
    <2>5. opts.packets * round_time_ms < packets_per_round * y
      BY <2>2, <2>3, <2>4
    <2> QED BY <1>1, <1>2, <2>5 DEF Due
  <1>3. CASE past.est_nof # 0
    <2>1. past.est_nof * (t + 1) <= past.est_nof * (u + 1)
      BY <1>1, ProductMono
    <2>2. /\ past.est_nof * (t + 1) \in Nat /\ past.est_nof * (u + 1) \in Nat
          /\ opts.packets * past.est_ts \in Nat
      BY <1>1
    <2> QED BY <1>3, <2>1, <2>2 DEF Due
  <1> QED BY <1>2, <1>3

----------------------------------------------------------------------------
(* The steps.                                                              *)

\* The loop leaves the metric alone.
LEMMA SameMetric == ASSUME IInv, UNCHANGED vars PROVE IInv'
  BY DEF vars, IInv, TypeOK

\* The types of the fields.
LEMMA Fields ==
    ASSUME ClockTypes
    PROVE  /\ rx.start \in Nat /\ rx.now \in Nat /\ rx.idle \in Nat /\ rx.eot \in Nat
           /\ rx.nof \in Nat /\ rx.alive \in Nat
           /\ past.start \in Nat /\ past.heard \in Nat /\ past.packet \in Nat
           /\ past.alive \in Nat /\ past.est_nof \in Nat /\ past.est_ts \in Nat
           /\ past.repeats \in Nat
           /\ opts.packets \in Nat \ {0} /\ opts.timeout \in Nat /\ opts.keep \in Nat
           /\ clock \in Nat /\ round_time_ms \in Nat /\ packets_per_round \in Nat
           /\ chunk \in Nat /\ (rpc # "off" => chunk \in Nat \ {0})
  BY DEF ClockTypes, Locals, Histories, IInv, TypeOK

\* The loop starts.
LEMMA StartStep ==
    ASSUME CInv, NEW o \in Options, NEW t \in BootTimes, StartLoop(o, t)
    PROVE  CInv'
  <1> DEFINE w == FirstWait(o.packets)
  <1>1. /\ rpc = "off" /\ mpc = "done" /\ rpc' = "loop" /\ opts' = o /\ clock' = t
        /\ outcome = "none" /\ outcome' = "none" /\ UNCHANGED vars
    BY DEF StartLoop, CInv
  <1>2. /\ t \in Nat /\ o.packets \in Nat \ {0} /\ o.timeout \in Nat /\ o.keep \in Nat
        /\ o \in [packets : Nat \ {0}, timeout : Nat, keep : Nat]
    BY ClockAssumption, Zenon DEF Options
  <1>3. IInv /\ round_time_ms \in Nat /\ packets_per_round \in Nat \ {0}
    BY <1>1 DEF CInv, ClockTypes, IInv, TypeOK
  <1>4. w \in Nat
    <2>1. (o.packets * round_time_ms) % Word \in Nat
      BY <1>2, <1>3, ModRange
    <2>2. ((o.packets * round_time_ms) % Word) \div packets_per_round \in Nat
      BY <1>3, <2>1, DivBounds
    <2> QED BY <1>3, <2>2 DEF FirstWait
  <1>5. t % Word \in Nat /\ (t + w) % Word \in Nat
    BY <1>2, <1>4, ModRange
  <1>6. /\ rx' = [start |-> t % Word, now |-> t % Word, idle |-> 0, eot |-> (t + w) % Word,
                  nof |-> 0, alive |-> t % Word]
        /\ past' = [start |-> t, heard |-> t, packet |-> t, alive |-> t, est_nof |-> 0,
                    est_ts |-> 0, repeats |-> 0]
    BY Zenon DEF StartLoop, NoLocals, NoPast
  <1>7. exact' => o.packets * round_time_ms < Word /\ t + w < Word
    BY Zenon DEF StartLoop
  <1> HIDE DEF w
  <1>8. ClockTypes'
    <2>1. IInv' /\ mpc' = "done"
      BY <1>1, <1>3, SameMetric DEF vars
    <2>2. rx' \in Locals /\ past' \in Histories
      BY <1>2, <1>5, <1>6 DEF Locals, Histories
    <2> QED BY <1>1, <1>2, <2>1, <2>2 DEF ClockTypes
  <1>9. IdleInv'
    BY <1>1, <1>2, <1>6 DEF IdleInv
  <1>10. DeadlineInv'
    <2> SUFFICES ASSUME exact'
                 PROVE  /\ clock' < Word
                        /\ (rx.start = past.start /\ rx.now = past.heard)'
                        /\ (past.start <= past.heard /\ past.start <= rx.eot)'
                        /\ Due(rx.eot - past.start)'
      BY DEF DeadlineInv
    <2>0. t + w \in Nat /\ t + w < Word /\ t < Word
      BY <1>2, <1>4, <1>7, ClockAssumption
    <2>1. t % Word = t /\ (t + w) % Word = t + w
      BY <1>2, <2>0, ModSmall
    <2>2. rx'.eot - past'.start = w /\ past'.est_nof = 0
      BY <1>2, <1>4, <1>6, <2>1
    <2>3. /\ w >= 1000 + 2 * round_time_ms
          /\ o.packets * round_time_ms < packets_per_round * (w - 2 * round_time_ms + 1)
      BY <1>1, <1>2, <1>3, <1>7, FirstIsDue DEF w
    <2>4. round_time_ms' = round_time_ms /\ packets_per_round' = packets_per_round
      BY <1>1 DEF vars
    <2>5. Due(rx.eot - past.start)'
      BY <1>1, <2>2, <2>3, <2>4 DEF Due
    <2> QED BY <1>1, <1>2, <1>4, <1>6, <2>0, <2>1, <2>5
  <1>11. AliveInv'
    BY <1>1, <1>2, <1>6 DEF AliveInv
  <1>12. LateMeansOverdue' /\ IdleTakesTwice'
    BY <1>1 DEF LateMeansOverdue, IdleTakesTwice
  <1> QED BY <1>1, <1>8, <1>9, <1>10, <1>11, <1>12 DEF CInv

\* The loop ends at its test, or because the session was stopped.
LEMMA EndStep == ASSUME CInv, LoopOver \/ Interrupted PROVE CInv'
  <1>1. /\ rpc = "loop" /\ rpc' = "done" /\ UNCHANGED <<opts, clock, rx, past, exact, vars>>
        /\ outcome' \in {"all", "late", "stopped"}
        /\ outcome' = "late" => ~InTime
    BY DEF LoopOver, Interrupted, LoopsOnPacket, Ends
  <1>2. ClockTypes'
    <2>1. IInv' /\ mpc' = "done"
      BY <1>1, SameMetric DEF CInv, ClockTypes, vars
    <2> QED BY <1>1, <2>1 DEF CInv, ClockTypes
  <1>3. IdleTakesTwice' /\ IdleInv' /\ DeadlineInv' /\ AliveInv'
    BY <1>1 DEF IdleTakesTwice, IdleInv, DeadlineInv, AliveInv
  <1>4. LateMeansOverdue'
    <2> DEFINE waited == past.heard - past.start + rx.idle
    <2>1. ASSUME outcome' = "late", exact PROVE Due(waited)
      <3>1. /\ clock < Word /\ rx.now = past.heard /\ past.start <= past.heard
            /\ past.start <= rx.eot /\ Due(rx.eot - past.start)
            /\ clock = past.heard + 2 * rx.idle
        BY <1>1, <2>1 DEF CInv, DeadlineInv, IdleInv
      <3>2. ClockTypes
        BY DEF CInv
      <3>3. rx.now + rx.idle \in Nat /\ rx.now + rx.idle < Word
        BY <3>1, <3>2, Fields, ClockAssumption
      <3>4. (rx.now + rx.idle) % Word = rx.now + rx.idle
        BY <3>3, ModSmall
      <3>5. rx.eot <= rx.now + rx.idle
        BY <1>1, <2>1, <3>2, <3>4, Fields DEF InTime
      <3>6. rx.eot - past.start \in Nat /\ waited \in Nat /\ rx.eot - past.start <= waited
        BY <3>1, <3>2, <3>5, Fields
      <3> HIDE DEF waited
      <3> QED BY <3>1, <3>2, <3>6, DueLater
    <2>2. waited \in Int /\ round_time_ms \in Nat
      BY Fields DEF CInv
    <2>3. ASSUME Due(waited)
          PROVE  IF past.est_nof = 0
                 THEN /\ waited - 2 * round_time_ms >= 1000
                      /\ opts.packets * round_time_ms
                             < packets_per_round * ((waited - 2 * round_time_ms) + 1)
                 ELSE opts.packets * past.est_ts < past.est_nof * (waited + 1)
      <3> HIDE DEF waited
      <3> QED BY <2>2, <2>3 DEF Due
    <2> QED BY <1>1, <2>1, <2>3 DEF LateMeansOverdue, vars
  <1> QED BY <1>1, <1>2, <1>3, <1>4 DEF CInv

\* Two rounds pass in silence.
LEMMA SilenceStep == ASSUME CInv, Silence PROVE CInv'
  <1> DEFINE idle == rx.idle + round_time_ms
  <1>1. /\ rpc = "loop" /\ outcome = "none"
        /\ clock' = clock + 2 * round_time_ms
        /\ rx' = [rx EXCEPT !.idle = idle]
        /\ exact' => exact /\ clock' < Word
        /\ IF idle > opts.timeout * 1000 THEN rpc' = "done" /\ outcome' = "idle"
                                         ELSE rpc' = rpc /\ outcome' = outcome
        /\ UNCHANGED <<opts, past, vars>>
    BY Zenon DEF Silence, IdleStep, IdleLimit, LoopsOnPacket, Ends, CInv
  <1>2. ClockTypes
    BY DEF CInv
  <1>3. idle \in Nat /\ rx \in Locals
    BY <1>2, Fields DEF ClockTypes
  <1> HIDE DEF idle
  <1>4. /\ rx' \in Locals /\ rx'.idle = idle /\ rx'.start = rx.start /\ rx'.now = rx.now
        /\ rx'.eot = rx.eot /\ rx'.alive = rx.alive
    BY <1>1, <1>3 DEF Locals
  <1>5. /\ clock = past.heard + 2 * rx.idle /\ rx.idle <= opts.timeout * 1000
        /\ clock' = past.heard + 2 * idle /\ clock' \in Nat /\ clock <= clock'
    BY <1>1, <1>2, Fields DEF CInv, IdleInv, idle
  <1>6. ClockTypes'
    <2>1. IInv' /\ mpc' = "done" /\ rpc' \in {"off", "loop", "done"}
      BY <1>1, <1>2, SameMetric DEF ClockTypes, vars
    <2> QED BY <1>1, <1>2, <1>4, <1>5, <2>1 DEF ClockTypes
  <1>7. IdleInv'
    BY <1>1, <1>2, <1>3, <1>4, <1>5, Fields DEF IdleInv
  <1>8. DeadlineInv'
    <2>1. CASE rpc' = "loop" /\ exact'
      <3>1. Due(rx.eot - past.start)' = Due(rx.eot - past.start)
        BY <1>1, <1>4 DEF Due, vars
      <3> QED BY <1>1, <1>4, <2>1, <3>1 DEF CInv, DeadlineInv
    <2> QED BY <2>1 DEF DeadlineInv
  <1>9. AliveInv'
    BY <1>1, <1>2, <1>4, <1>5, Fields DEF CInv, AliveInv
  <1>10. LateMeansOverdue'
    BY <1>1 DEF LateMeansOverdue
  <1>11. IdleTakesTwice'
    <2>1. /\ clock' - past.heard = 2 * idle /\ idle <= opts.timeout * 1000 + round_time_ms
          /\ opts.timeout * 1000 \in Nat /\ round_time_ms \in Nat
          /\ 2000 * opts.timeout = 2 * (opts.timeout * 1000)
      BY <1>2, <1>3, <1>5, Fields DEF idle
    <2>2. opts' = opts /\ past' = past /\ round_time_ms' = round_time_ms
      BY <1>1 DEF vars
    <2>3. outcome' = "idle" => idle > opts.timeout * 1000
      BY <1>1
    <2> QED BY <1>3, <2>1, <2>2, <2>3 DEF IdleTakesTwice
  <1>12. rpc' # "done" => outcome' = "none"
    BY <1>1
  <1> QED BY <1>6, <1>7, <1>8, <1>9, <1>10, <1>11, <1>12 DEF CInv

\* A wait is never negative.
LEMMA DelayIsNat == ASSUME NEW d \in Delays PROVE d \in Nat
  BY ClockAssumption

\* The previous packet comes again.
LEMMA RepeatedStep == ASSUME CInv, NEW d \in Delays, Repeated(d) PROVE CInv'
  <1> DEFINE c == clock + d
  <1>1. /\ rpc = "loop" /\ rpc' = "loop" /\ outcome' = "none" /\ clock' = c
        /\ rx' = [rx EXCEPT !.idle = 0, !.now = c % Word]
        /\ past' = [past EXCEPT !.heard = c, !.repeats = past.repeats + 1]
        /\ exact' => exact /\ c < Word
        /\ UNCHANGED <<opts, vars>>
    BY Zenon DEF Repeated, Arrives, LoopsOnPacket, CInv
  <1>2. ClockTypes /\ rx \in Locals /\ past \in Histories
    BY DEF CInv, ClockTypes
  <1>3. d \in Nat /\ c \in Nat /\ clock <= c
    BY <1>1, <1>2, DelayIsNat, Fields
  <1> HIDE DEF c
  <1>4. c % Word \in Nat /\ past.repeats + 1 \in Nat
    BY <1>2, <1>3, ModRange, Fields
  <1>5. /\ rx' \in Locals /\ rx'.idle = 0 /\ rx'.start = rx.start /\ rx'.now = c % Word
        /\ rx'.eot = rx.eot /\ rx'.alive = rx.alive
    BY <1>1, <1>2, <1>4, Zenon DEF Locals
  <1>6. /\ past' \in Histories /\ past'.heard = c /\ past'.start = past.start
        /\ past'.packet = past.packet /\ past'.alive = past.alive
        /\ past'.est_nof = past.est_nof /\ past'.est_ts = past.est_ts
    BY <1>1, <1>2, <1>3, <1>4, Zenon DEF Histories
  <1>7. ClockTypes'
    <2>1. IInv' /\ mpc' = "done"
      BY <1>1, <1>2, SameMetric DEF ClockTypes, vars
    <2> QED BY <1>1, <1>2, <1>3, <1>5, <1>6, <2>1 DEF ClockTypes
  <1>8. IdleInv'
    BY <1>1, <1>2, <1>3, <1>5, <1>6, Fields DEF IdleInv
  <1>9. DeadlineInv'
    <2>1. CASE exact'
      <3>1. Due(rx.eot - past.start)' = Due(rx.eot - past.start)
        BY <1>1, <1>5, <1>6 DEF Due, vars
      <3>2. c % Word = c
        BY <1>1, <1>3, <2>1, ModSmall
      <3>3. past.start <= past.heard /\ past.heard <= clock
        BY <1>1, <1>2, <2>1, Fields DEF CInv, DeadlineInv, IdleInv
      <3>4. past.start <= c
        BY <1>2, <1>3, <3>3, Fields
      <3> QED BY <1>1, <1>5, <1>6, <2>1, <3>1, <3>2, <3>4 DEF CInv, DeadlineInv
    <2> QED BY <2>1 DEF DeadlineInv
  <1>10. AliveInv'
    BY <1>1, <1>2, <1>3, <1>5, <1>6, Fields DEF CInv, AliveInv
  <1>11. LateMeansOverdue' /\ IdleTakesTwice'
    BY <1>1 DEF LateMeansOverdue, IdleTakesTwice
  <1> QED BY <1>1, <1>7, <1>8, <1>9, <1>10, <1>11 DEF CInv

\* A new packet comes.
LEMMA PacketStep ==
    ASSUME CInv, NEW d \in Delays, NEW last \in BOOLEAN, Packet(d, last)
    PROVE  CInv'
  <1> DEFINE c == clock + d
             now == c % Word
             nof == rx.nof + 1
             ts == (now - rx.start) % Word
             rate == curr_throughput(nof, ts)
             meas == ts > 0 /\ rate > 0
             e == adj_eot(nof, ts)
             due == AliveDue(now)
             eot1 == IF meas THEN (rx.start + e) % Word ELSE rx.eot
             alive1 == IF due THEN now ELSE rx.alive
             palive1 == IF due THEN c ELSE past.alive
             nof1 == IF meas THEN nof ELSE past.est_nof
             ts1 == IF meas THEN ts ELSE past.est_ts
  <1>1. /\ rpc = "loop" /\ outcome = "none" /\ clock' = c
        /\ rx' = [rx EXCEPT !.idle = 0, !.now = now, !.nof = nof, !.eot = eot1,
                            !.alive = alive1]
        /\ past' = [past EXCEPT !.heard = c, !.packet = c, !.alive = palive1,
                                !.est_nof = nof1, !.est_ts = ts1]
        /\ UNCHANGED <<opts, vars>>
    BY DEF Packet, Arrives, LoopsOnPacket, CInv
  <1>2. exact' => /\ exact /\ c < Word /\ nof * chunk < Word
                  /\ meas => rx.start + e < Word
    BY Zenon DEF Packet
  <1>3. \/ rpc' = "done" /\ outcome' = "last"
        \/ rpc' = "loop" /\ outcome' = "none"
    BY DEF Packet, Ends, Arrives, LoopsOnPacket, CInv
  <1>4. ClockTypes /\ rx \in Locals /\ past \in Histories
    BY DEF CInv, ClockTypes
  <1>5. d \in Nat /\ c \in Nat /\ clock <= c
    BY <1>1, <1>4, DelayIsNat, Fields
  <1>6. due <=> opts.keep > 0 /\ (now - rx.alive) % Word >= opts.keep
    BY DEF AliveDue
  <1>7. /\ rate = ((nof * chunk) % Word) \div ts
        /\ e = (chunk * opts.packets) \div rate
    BY DEF curr_throughput, adj_eot
  <1> HIDE DEF c, rate, e, due
  <1>8. now \in Nat
    BY <1>5, ModRange
  <1>9. nof \in Nat \ {0} /\ now - rx.start \in Int
    BY <1>4, <1>8, Fields
  <1>10. ts \in Nat
    BY <1>9, ModRange
  <1> HIDE DEF now, nof, ts
  <1>11. ts > 0 => rate \in Nat
    <2>1. nof * chunk \in Int
      BY <1>4, <1>9, Fields
    <2>2. (nof * chunk) % Word \in Nat
      BY <2>1, ModRange
    <2> QED BY <1>7, <1>10, <2>2, DivBounds
  <1>12. meas => e \in Nat /\ rate \in Nat \ {0} /\ ts \in Nat \ {0}
    <2>1. chunk * opts.packets \in Nat
      BY <1>4, Fields
    <2> QED BY <1>7, <1>10, <1>11, <2>1, DivBounds
  <1>13. meas => (rx.start + e) % Word \in Nat
    <2>1. meas => rx.start + e \in Int
      BY <1>4, <1>12, Fields
    <2> HIDE DEF meas
    <2> QED BY <2>1, ModRange
  <1> HIDE DEF meas
  <1>14. eot1 \in Nat /\ alive1 \in Nat /\ palive1 \in Nat /\ nof1 \in Nat /\ ts1 \in Nat
    BY <1>4, <1>5, <1>8, <1>9, <1>10, <1>13, Fields
  <1>15. eot1 = IF meas THEN (rx.start + e) % Word ELSE rx.eot
    OBVIOUS
  <1>16. alive1 = (IF due THEN now ELSE rx.alive) /\ palive1 = (IF due THEN c ELSE past.alive)
    OBVIOUS
  <1>17. nof1 = (IF meas THEN nof ELSE past.est_nof) /\ ts1 = (IF meas THEN ts ELSE past.est_ts)
    OBVIOUS
  <1> HIDE DEF eot1, alive1, palive1, nof1, ts1
  <1>18. /\ rx' \in Locals /\ rx'.idle = 0 /\ rx'.start = rx.start /\ rx'.now = now
         /\ rx'.eot = eot1 /\ rx'.alive = alive1
    BY <1>1, <1>4, <1>8, <1>9, <1>14, Zenon DEF Locals
  <1>19. /\ past' \in Histories /\ past'.heard = c /\ past'.start = past.start
         /\ past'.packet = c /\ past'.alive = palive1
         /\ past'.est_nof = nof1 /\ past'.est_ts = ts1
    BY <1>1, <1>4, <1>5, <1>14, Zenon DEF Histories
  <1>20. ClockTypes'
    <2>1. IInv' /\ mpc' = "done" /\ rpc' \in {"off", "loop", "done"}
      BY <1>1, <1>3, <1>4, SameMetric DEF ClockTypes, vars
    <2> QED BY <1>1, <1>4, <1>5, <1>18, <1>19, <2>1 DEF ClockTypes
  <1>21. IdleInv'
    BY <1>1, <1>4, <1>5, <1>18, <1>19, Fields DEF IdleInv
  <1>22. DeadlineInv'
    <2> SUFFICES ASSUME rpc' = "loop", exact'
                 PROVE  /\ clock' < Word
                        /\ (rx.start = past.start /\ rx.now = past.heard)'
                        /\ (past.start <= past.heard /\ past.start <= rx.eot)'
                        /\ Due(rx.eot - past.start)'
      BY DEF DeadlineInv
    <2>1. /\ clock < Word /\ rx.start = past.start /\ past.start <= past.heard
          /\ past.heard <= clock /\ past.start <= rx.eot /\ Due(rx.eot - past.start)
      BY <1>1, <1>2, <1>4, Fields DEF CInv, DeadlineInv, IdleInv
    <2>2. c < Word /\ nof * chunk < Word /\ past.start <= c
      BY <1>2, <1>4, <1>5, <2>1, Fields
    <2>3. now = c
      BY <1>5, <2>2, ModSmall DEF now
    <2>4. opts' = opts /\ round_time_ms' = round_time_ms
          /\ packets_per_round' = packets_per_round
      BY <1>1 DEF vars
    <2>5. CASE meas
      <3>1. rx.start + e \in Nat /\ rx.start + e < Word /\ e \in Nat
        BY <1>2, <1>4, <1>12, <2>5, Fields
      <3>2. eot1 = rx.start + e /\ nof1 = nof /\ ts1 = ts
        BY <1>15, <1>17, <2>5, <3>1, ModSmall
      <3>3. nof * chunk \in Nat /\ (nof * chunk) % Word = nof * chunk
        BY <1>4, <1>9, <2>2, Fields, ModSmall
      <3>4. rate = (nof * chunk) \div ts /\ rate > 0
        BY <1>7, <1>12, <2>5, <3>3
      <3>5. opts.packets * ts < nof * (e + 1)
        <4>1. chunk \in Nat \ {0} /\ opts.packets \in Nat /\ nof \in Nat
          BY <1>1, <1>4, <1>9, Fields
        <4> QED BY <1>7, <1>12, <2>5, <3>4, <4>1, EstimateIsDue, Zenon
      <3>6. rx'.eot - past'.start = e /\ past.start <= rx'.eot
        BY <1>4, <1>18, <1>19, <2>1, <3>1, <3>2, Fields
      <3>7. Due(rx.eot - past.start)'
        BY <1>9, <1>19, <2>4, <3>2, <3>5, <3>6 DEF Due
      <3> QED BY <1>1, <1>18, <1>19, <2>1, <2>2, <2>3, <3>6, <3>7
    <2>6. CASE ~meas
      <3>1. eot1 = rx.eot /\ nof1 = past.est_nof /\ ts1 = past.est_ts
        BY <1>15, <1>17, <2>6
      <3>2. Due(rx.eot - past.start)' = Due(rx.eot - past.start)
        BY <1>18, <1>19, <2>4, <3>1 DEF Due
      <3> QED BY <1>1, <1>18, <1>19, <2>1, <2>2, <2>3, <3>1, <3>2
    <2> QED BY <2>5, <2>6
  <1>23. AliveInv'
    <2>1. /\ past.alive <= past.packet /\ past.packet <= clock
          /\ rx.alive = past.alive % Word
      BY <1>1 DEF CInv, AliveInv
    <2>2. past.alive <= c
      BY <1>4, <1>5, <2>1, Fields
    <2>3. CASE due
      BY <1>1, <1>4, <1>5, <1>16, <1>18, <1>19, <2>3, Fields, ClockAssumption
         DEF AliveInv, now
    <2>4. CASE ~due
      <3>1. ASSUME opts.keep > 0, c - past.alive < Word PROVE c - past.alive < opts.keep
        <4>1. (now - rx.alive) % Word = c - past.alive
          BY <1>4, <1>5, <2>1, <2>2, <3>1, ModDifference, Fields DEF now
        <4> QED BY <1>4, <1>5, <1>6, <2>2, <2>4, <3>1, <4>1, Fields
      <3>2. alive1 = rx.alive /\ palive1 = past.alive
        BY <1>16, <2>4
      <3>3. c - past.alive \in Int /\ Word \in Int
        BY <1>4, <1>5, Fields, ClockAssumption
      <3> QED BY <1>1, <1>5, <1>18, <1>19, <2>1, <2>2, <3>1, <3>2, <3>3 DEF AliveInv
    <2> QED BY <2>3, <2>4
  <1>24. LateMeansOverdue' /\ IdleTakesTwice' /\ (rpc' # "done" => outcome' = "none")
    BY <1>3 DEF LateMeansOverdue, IdleTakesTwice
  <1> QED BY <1>20, <1>21, <1>22, <1>23, <1>24 DEF CInv

----------------------------------------------------------------------------
(* The theorems.                                                           *)

\* The invariant holds initially and every step keeps it.
THEOREM ClockInvariant == ClockSpec => []CInv
  <1>1. ClockInit => CInv
    <2> SUFFICES ASSUME ClockInit PROVE CInv
      OBVIOUS
    <2>1. IInv /\ rpc = "off" /\ outcome = "none" /\ clock = 0
      BY MetricsStart DEF ClockInit
    <2>2. /\ opts \in [packets : Nat \ {0}, timeout : Nat, keep : Nat]
          /\ rx \in Locals /\ past \in Histories
      BY DEF ClockInit, NoOpts, NoLocals, NoPast, Locals, Histories
    <2>3. ClockTypes
      BY <2>1, <2>2 DEF ClockTypes
    <2> QED BY <2>1, <2>3 DEF CInv, IdleInv, DeadlineInv, AliveInv, LateMeansOverdue,
                              IdleTakesTwice
  <1>2. CInv /\ [ClockNext]_<<vars, clockVars>> => CInv'
    <2> SUFFICES ASSUME CInv, [ClockNext]_<<vars, clockVars>> PROVE CInv'
      OBVIOUS
    <2>1. CASE rpc = "off" /\ Next /\ UNCHANGED clockVars
      <3>1. IInv'
        BY <2>1, MetricsStep DEF CInv, ClockTypes
      <3>2. /\ rpc = "off" /\ outcome = "none"
            /\ UNCHANGED <<rpc, outcome, opts, clock, rx, past, exact>>
        BY <2>1 DEF CInv, clockVars
      <3>3. ClockTypes'
        BY <3>1, <3>2 DEF CInv, ClockTypes
      <3> QED BY <3>2, <3>3 DEF CInv, IdleInv, DeadlineInv, AliveInv, LateMeansOverdue,
                                IdleTakesTwice
    <2>2. CASE \E o \in Options, t \in BootTimes : StartLoop(o, t)
      BY <2>2, StartStep
    <2>3. CASE LoopOver \/ Interrupted
      BY <2>3, EndStep
    <2>4. CASE Silence
      BY <2>4, SilenceStep
    <2>5. CASE Return
      <3>1. /\ rpc' = "off" /\ outcome' = "none" /\ clock' = 0
            /\ opts' \in [packets : Nat \ {0}, timeout : Nat, keep : Nat]
            /\ rx' \in Locals /\ past' \in Histories /\ UNCHANGED vars
        BY <2>5 DEF Return, NoOpts, NoLocals, NoPast, Locals, Histories
      <3>2. IInv'
        BY <3>1, SameMetric DEF CInv, ClockTypes
      <3>3. ClockTypes'
        BY <3>1, <3>2 DEF ClockTypes
      <3> QED BY <3>1, <3>3 DEF CInv, IdleInv, DeadlineInv, AliveInv, LateMeansOverdue,
                                IdleTakesTwice
    <2>6. CASE \E d \in Delays : Repeated(d) \/ \E last \in BOOLEAN : Packet(d, last)
      BY <2>6, RepeatedStep, PacketStep
    <2>7. CASE UNCHANGED <<vars, clockVars>>
      <3>1. UNCHANGED vars
        BY <2>7
      <3>2. IInv'
        BY <3>1, SameMetric DEF CInv, ClockTypes
      <3>3. /\ UNCHANGED <<rpc, outcome, opts, clock, rx, past, exact, mpc, round_time_ms>>
            /\ UNCHANGED packets_per_round
        BY <2>7 DEF vars, clockVars
      <3>4. ClockTypes'
        BY <3>2, <3>3 DEF CInv, ClockTypes
      <3> QED BY <3>3, <3>4 DEF CInv, IdleInv, DeadlineInv, AliveInv, LateMeansOverdue,
                                IdleTakesTwice, Due
    <2> QED BY <2>1, <2>2, <2>3, <2>4, <2>5, <2>6, <2>7 DEF ClockNext
  <1> QED BY <1>1, <1>2, PTL DEF ClockSpec

\* The receive loop gives up at its deadline only when all packets were due.
THEOREM DeadlineIsFair == ClockSpec => []LateMeansOverdue
  BY ClockInvariant, PTL DEF CInv

\* The idle time-out fires after twice the configured time.
THEOREM IdleTimeout == ClockSpec => []IdleTakesTwice
  BY ClockInvariant, PTL DEF CInv

\* start_receiving_data never gives up for silence before the session's timeout
\* has passed without a datagram, whatever the delays before.
THEOREM IdleOnlyWhenSilent == ClockSpec => []IdleMeansSilent
  <1>1. CInv => IdleMeansSilent
    <2> SUFFICES ASSUME CInv PROVE IdleMeansSilent
      OBVIOUS
    <2>1. ClockTypes /\ IdleTakesTwice
      BY DEF CInv
    <2> QED BY <2>1, Fields DEF IdleTakesTwice, IdleMeansSilent
  <1> QED BY <1>1, ClockInvariant, PTL

\* A client that gets packets stays within the server's keep-alive limit.
THEOREM AliveInTime == ClockSpec => []AliveWithinLimit
  <1>1. CInv => AliveWithinLimit
    <2> SUFFICES ASSUME CInv PROVE AliveWithinLimit
      OBVIOUS
    <2>1. ClockTypes
      BY DEF CInv
    <2> QED BY <2>1, Fields, ClockAssumption DEF CInv, AliveInv, AliveWithinLimit
  <1> QED BY <1>1, ClockInvariant, PTL
=============================================================================
