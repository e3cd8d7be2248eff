-------------------------- MODULE DtpServerProofs --------------------------
(***************************************************************************)
(* For every payload size, chunk size, round length and list of intervals: *)
(* the server sends whole chunks of the requested intervals, in ascending  *)
(* order, and at most one packet after a stop; and the loop implements the *)
(* abstract sender DtpSender: nothing asked for is skipped or sent twice.  *)
(***************************************************************************)
EXTENDS DtpServerSystem, TLAPS

\* First byte of interval i of the request, and the byte after its last.
From(i) == asked[i].start * Chunk
To(i) == interval_stop(asked[i])

Sending == spc \in {"poll", "test", "send"}

\* The intervals the loop has not reached are as the client sent them.
RestAsAsked ==
    spc # "idle" =>
        /\ Len(intervals) = Len(asked)
        /\ \A i \in DOMAIN asked :
               idx < i \/ (idx = i /\ spc = "interval") => intervals[i] = asked[i]

\* Where the transfer stands inside interval idx.
Position ==
    Sending =>
        /\ idx \in DOMAIN asked
        /\ bytes_sent = From(idx) + sent_in_interval
        /\ From(idx) + bytes_in_interval = To(idx)
        /\ MoreToSend => \E q \in 0 .. PayloadSize : bytes_sent = q * Chunk
        /\ sent_in_interval <= bytes_in_interval
        /\ spc # "test" \/ pkt_cnt < PacketsPerRound => MoreToSend

\* Nothing of what is still to be sent has been sent.
SentIsBehind ==
    \A k \in DOMAIN net :
        /\ Sending => net[k].off + net[k].len <= bytes_sent
        /\ spc = "interval" => \A i \in DOMAIN asked :
               idx <= i => net[k].off + net[k].len <= From(i)

\* A stop request has cleared keep_running, and no packet is in hand after the
\* first one that followed it.
StopIsSeen ==
    /\ stopped => ~keep_running
    /\ ~stopped => after_stop = 0
    /\ after_stop <= 1
    /\ after_stop = 1 => spc # "send"

IInv ==
    /\ TypeOK
    /\ Askable(asked)
    /\ RestAsAsked
    /\ Position
    /\ SentIsBehind
    /\ ChunksOfRequest
    /\ OffsetsAscend
    /\ StopIsSeen

----------------------------------------------------------------------------
(* Elements of sequences; arithmetic of chunks.                            *)

\* An element of a sequence has its type.
LEMMA ElementType == ASSUME NEW S, NEW s \in Seq(S), NEW i \in DOMAIN s PROVE s[i] \in S
  OBVIOUS

\* Multiplying by the chunk size keeps the order.
LEMMA MulMono == ASSUME NEW a \in Nat, NEW b \in Nat, a <= b
                 PROVE  a * Chunk <= b * Chunk
  BY WireAssumption

\* A larger number starts at least a chunk later.
LEMMA MulStrict == ASSUME NEW a \in Nat, NEW b \in Nat, a < b
                   PROVE  a * Chunk + Chunk <= b * Chunk
  <1>1. (a + 1) * Chunk <= b * Chunk
    BY MulMono
  <1>2. (a + 1) * Chunk = a * Chunk + Chunk
    BY WireAssumption
  <1>3. a * Chunk \in Nat /\ b * Chunk \in Nat /\ Chunk \in Nat
    BY WireAssumption
  <1> QED BY <1>1, <1>2, <1>3

\* A number is at most its number of bytes.
LEMMA MulGrows == ASSUME NEW a \in Nat PROVE a <= a * Chunk
  BY WireAssumption

\* A requested interval is not empty, ends inside the payload, and ends at a
\* chunk boundary or with the payload.
LEMMA IntervalBounds ==
    ASSUME Askable(asked), NEW i \in DOMAIN asked
    PROVE  /\ From(i) \in Nat /\ To(i) \in Nat
           /\ From(i) < To(i) /\ To(i) <= PayloadSize
           /\ \/ To(i) = PayloadSize
              \/ \E e \in Nat : To(i) = (e + 1) * Chunk
  <1> DEFINE s == asked[i].start
             e == asked[i].end
  <1>1. asked[i] \in Intervals
    BY ElementType, Zenon DEF Askable
  <1>2. s \in Nat /\ e \in Nat \cup {UINT32_MAX}
    BY <1>1 DEF Intervals
  <1>3. s * Chunk < PayloadSize /\ (e # UINT32_MAX => s <= e)
    BY DEF Askable
  <1>4. From(i) = s * Chunk /\ s * Chunk \in Nat
    BY <1>2, WireAssumption DEF From
  <1>5. To(i) = IF e # UINT32_MAX /\ (e + 1) * Chunk <= PayloadSize
                THEN (e + 1) * Chunk ELSE PayloadSize
    BY DEF To, interval_stop
  <1> HIDE DEF s, e
  <1>6. CASE e # UINT32_MAX /\ (e + 1) * Chunk <= PayloadSize
    <2>1. e \in Nat /\ e + 1 \in Nat /\ s < e + 1
      BY <1>2, <1>3, <1>6
    <2>2. s * Chunk + Chunk <= (e + 1) * Chunk
      BY <2>1, <1>2, MulStrict
    <2>3. (e + 1) * Chunk \in Nat /\ Chunk \in Nat \ {0}
      BY <2>1, WireAssumption
    <2> QED BY <1>4, <1>5, <1>6, <2>1, <2>2, <2>3
  <1>7. CASE ~(e # UINT32_MAX /\ (e + 1) * Chunk <= PayloadSize)
    BY <1>3, <1>4, <1>5, <1>7, WireAssumption
  <1> QED BY <1>6, <1>7

\* Later intervals start behind earlier ones.
LEMMA IntervalsAscend ==
    ASSUME Askable(asked), NEW i \in DOMAIN asked, NEW j \in DOMAIN asked, i < j
    PROVE  To(i) <= From(j)
  <1> DEFINE e == asked[i].end
             s == asked[j].start
  <1>1. asked[i] \in Intervals
        /\ asked[j] \in Intervals
    BY ElementType, Zenon DEF Askable
  <1>2. e # UINT32_MAX /\ e < s /\ e \in Nat /\ s \in Nat
    BY <1>1 DEF Askable, Intervals
  <1>3. To(i) = IF (e + 1) * Chunk <= PayloadSize THEN (e + 1) * Chunk ELSE PayloadSize
    BY <1>2 DEF To, interval_stop
  <1>4. From(j) = s * Chunk
    BY DEF From
  <1> HIDE DEF e, s
  <1>5. (e + 1) * Chunk <= s * Chunk
    BY <1>2, MulMono
  <1>6. (e + 1) * Chunk \in Nat /\ s * Chunk \in Nat /\ PayloadSize \in Nat
    BY <1>2, WireAssumption
  <1> QED BY <1>3, <1>4, <1>5, <1>6

----------------------------------------------------------------------------
(* Every action keeps the invariant.                                       *)

\* Steps that leave the packets alone keep what is said about packets only.
LEMMA SamePackets ==
    ASSUME ChunksOfRequest, OffsetsAscend, Askable(asked), UNCHANGED <<net, asked>>
    PROVE  ChunksOfRequest' /\ OffsetsAscend' /\ Askable(asked)'
  BY DEF ChunksOfRequest, OffsetsAscend, CarriesChunkOf, interval_stop, Askable

\* A request starts with nothing sent.
LEMMA RequestStep == ASSUME IInv, NEW r \in Requests, Request(r) PROVE IInv'
  <1>1. /\ spc' = "interval" /\ idx' = idx /\ intervals' = r /\ asked' = r
        /\ keep_running' = TRUE /\ net' = <<>> /\ stopped' = FALSE /\ after_stop' = 0
        /\ UNCHANGED <<bytes_sent, sent_in_interval, bytes_in_interval, pkt_cnt,
                       present, lost_buffers>>
    BY DEF Request, start_sending_data
  <1>2. Askable(r) /\ r \in Seq(Intervals)
    BY RequestsAssumption DEF Askable
  <1>3. Askable(asked)'
    BY <1>1, <1>2 DEF Askable
  <1>4. TypeOK'
    <2>1. net' \in Seq(DataPackets)
      BY <1>1
    <2> QED BY <1>1, <1>2, <2>1, Zenon DEF IInv, TypeOK, ControlPoints
  <1>5. RestAsAsked'
    BY <1>1, <1>2 DEF RestAsAsked
  <1>6. Position' /\ SentIsBehind' /\ ChunksOfRequest' /\ OffsetsAscend'
    BY <1>1 DEF Position, Sending, SentIsBehind, ChunksOfRequest, OffsetsAscend
  <1>7. StopIsSeen'
    BY <1>1 DEF StopIsSeen
  <1> QED BY <1>3, <1>4, <1>5, <1>6, <1>7 DEF IInv

\* The loop turns to an interval it has not touched.
LEMMA NextIntervalStep ==
    ASSUME IInv, NextInterval, UNCHANGED <<lost_buffers, histories>>
    PROVE  IInv'
  <1>1. /\ spc = "interval" /\ spc' = "poll" /\ idx <= Len(intervals)
        /\ UNCHANGED <<idx, keep_running, pkt_cnt, net, asked, present, stopped,
                       after_stop, lost_buffers>>
        /\ sent_in_interval' = 0
        /\ bytes_sent' = intervals[idx].start * Chunk
        /\ bytes_in_interval' = interval_stop(intervals[idx]) - intervals[idx].start * Chunk
        /\ intervals' = [intervals EXCEPT ![idx].end =
                             IF @ = UINT32_MAX THEN fixed_end ELSE @]
    BY DEF NextInterval, histories
  <1>2. /\ asked \in Seq(Intervals) /\ intervals \in Seq(Intervals)
        /\ idx \in Nat \ {0} /\ Len(intervals) = Len(asked)
    BY <1>1 DEF IInv, TypeOK, RestAsAsked
  <1>3. idx \in DOMAIN asked /\ idx \in DOMAIN intervals
    BY <1>1, <1>2
  <1>4. intervals[idx] = asked[idx]
    BY <1>1, <1>3 DEF IInv, RestAsAsked
  <1>5. /\ From(idx) \in Nat /\ To(idx) \in Nat
        /\ From(idx) < To(idx)
    BY <1>3, IntervalBounds DEF IInv
  <1>6. bytes_sent' = From(idx) /\ bytes_in_interval' = To(idx) - From(idx)
    BY <1>1, <1>4 DEF From, To
  <1>7. bytes_in_interval' \in Nat /\ 0 < bytes_in_interval' /\ bytes_sent' \in Nat
        /\ From(idx) + bytes_in_interval' = To(idx)
    BY <1>5, <1>6
  <1>8. intervals' \in Seq(Intervals) /\ Len(intervals') = Len(intervals)
        /\ \A i \in DOMAIN asked : i # idx => intervals'[i] = intervals[i]
    <2>1. intervals[idx] \in Intervals
      BY <1>2, <1>3, ElementType, Zenon
    <2>2. fixed_end \in Nat
      BY WireAssumption DEF fixed_end
    <2> QED BY <1>1, <1>2, <1>3, <2>1, <2>2 DEF Intervals
  <1>9. TypeOK'
    BY <1>1, <1>7, <1>8 DEF IInv, TypeOK, ControlPoints
  <1>10. RestAsAsked'
    BY <1>1, <1>2, <1>8 DEF IInv, RestAsAsked
  <1>11. Position'
    <2>1. From(idx)' = From(idx) /\ To(idx)' = To(idx)
      BY <1>1 DEF From, To, interval_stop
    <2>2. \E q \in 0 .. PayloadSize : bytes_sent' = q * Chunk
      <3> asked[idx] \in Intervals
        BY <1>2, <1>3, ElementType, Zenon
      <3>1. asked[idx].start \in Nat
        BY DEF Intervals
      <3>2. asked[idx].start <= From(idx) /\ To(idx) <= PayloadSize
        BY <3>1, <1>3, MulGrows, IntervalBounds DEF From, IInv
      <3>3. asked[idx].start \in 0 .. PayloadSize
        BY <3>1, <3>2, <1>5, WireAssumption
      <3> QED BY <3>3, <1>6 DEF From
    <2>3. From(idx') = From(idx) /\ To(idx') = To(idx) /\ idx' \in DOMAIN asked'
      BY <1>1, <1>3
    <2> QED BY <1>1, <1>3, <1>5, <1>6, <1>7, <2>1, <2>2 DEF Position, MoreToSend
  <1>12. SentIsBehind'
    <2> SUFFICES ASSUME NEW k \in DOMAIN net
                 PROVE  net[k].off + net[k].len <= bytes_sent'
      BY <1>1 DEF SentIsBehind, Sending
    <2> QED BY <1>1, <1>2, <1>3, <1>6 DEF IInv, SentIsBehind
  <1>13. StopIsSeen'
    BY <1>1 DEF IInv, StopIsSeen
  <1> QED BY <1>1, <1>9, <1>10, <1>11, <1>12, <1>13, SamePackets DEF IInv

\* The transfer is over; its locals are gone.
LEMMA TransferDoneStep ==
    ASSUME IInv, TransferDone, UNCHANGED <<lost_buffers, histories>>
    PROVE  IInv'
  <1>1. /\ spc' = "idle" /\ idx' = 1 /\ keep_running' = FALSE
        /\ bytes_sent' = 0 /\ sent_in_interval' = 0 /\ bytes_in_interval' = 0
        /\ pkt_cnt' = 0
        /\ UNCHANGED <<intervals, net, asked, present, stopped, after_stop, lost_buffers>>
    BY DEF TransferDone, ForgetTransfer, histories
  <1>2. TypeOK'
    <2>1. spc' \in ControlPoints /\ keep_running' \in BOOLEAN
      BY <1>1, Zenon DEF ControlPoints
    <2>2. /\ idx' \in Nat \ {0} /\ pkt_cnt' \in Nat /\ bytes_sent' \in Nat
          /\ sent_in_interval' \in Nat /\ bytes_in_interval' \in Nat
      BY <1>1
    <2> QED BY <1>1, <2>1, <2>2, Zenon DEF IInv, TypeOK
  <1>3. RestAsAsked' /\ Position' /\ SentIsBehind'
    BY <1>1 DEF RestAsAsked, Position, SentIsBehind, Sending
  <1>4. StopIsSeen'
    BY <1>1 DEF IInv, StopIsSeen
  <1> QED BY <1>1, <1>2, <1>3, <1>4, SamePackets DEF IInv

\* Moving between the control points of a round, with a packet's worth left.
LEMMA RoundStep ==
    ASSUME IInv, spc \in {"poll", "test"}, spc' \in {"test", "send"}, MoreToSend,
           UNCHANGED <<intervals, idx, keep_running, bytes_sent, sent_in_interval,
                       bytes_in_interval, pkt_cnt, net, asked, present, stopped,
                       after_stop, lost_buffers>>,
           spc' = "send" => keep_running
    PROVE  IInv'
  <1>1. TypeOK'
    <2>1. spc' \in ControlPoints
      BY DEF ControlPoints
    <2> QED BY <2>1, Zenon DEF IInv, TypeOK
  <1>2. RestAsAsked'
    BY DEF IInv, RestAsAsked
  <1>3. Position'
    BY DEF IInv, Position, Sending, MoreToSend, From, To, interval_stop
  <1>4. SentIsBehind'
    BY DEF IInv, SentIsBehind, Sending
  <1>5. StopIsSeen'
    BY DEF IInv, StopIsSeen
  <1> QED BY <1>1, <1>2, <1>3, <1>4, <1>5, SamePackets DEF IInv

\* dtp_server_poll_loop returns, for whatever reason.
LEMMA PollReturnStep ==
    ASSUME IInv, spc \in {"test", "send"}, PollReturn,
           UNCHANGED histories, lost_buffers' \in Nat
    PROVE  IInv'
  <1> DEFINE again == MoreToSend /\ keep_running
  <1>1. /\ spc' = IF again THEN "poll" ELSE "interval"
        /\ idx' = IF again THEN idx ELSE idx + 1
        /\ pkt_cnt' = 0
        /\ UNCHANGED <<intervals, keep_running, bytes_sent, sent_in_interval,
                       bytes_in_interval, net, asked, present, stopped, after_stop>>
    BY DEF PollReturn, PollReturnTo, histories
  <1>2. idx \in DOMAIN asked /\ idx \in Nat \ {0} /\ Sending
    BY DEF IInv, Position, Sending, TypeOK
  <1>3. TypeOK'
    BY <1>1, <1>2 DEF IInv, TypeOK, ControlPoints
  <1>4. StopIsSeen'
    BY <1>1 DEF IInv, StopIsSeen
  <1>5. CASE again
    <2>1. spc' = "poll" /\ idx' = idx
      BY <1>1, <1>5
    <2>2. RestAsAsked'
      BY <1>1, <1>2, <2>1 DEF IInv, RestAsAsked, Sending
    <2>3. Position'
      BY <1>1, <1>2, <1>5, <2>1
         DEF IInv, Position, Sending, MoreToSend, From, To, interval_stop
    <2>4. SentIsBehind'
      BY <1>1, <1>2, <2>1 DEF IInv, SentIsBehind, Sending
    <2> QED BY <1>1, <1>3, <1>4, <2>2, <2>3, <2>4, SamePackets DEF IInv
  <1>6. CASE ~again
    <2>1. spc' = "interval" /\ idx' = idx + 1
      BY <1>1, <1>6
    <2>2. RestAsAsked'
      <3>1. \A i \in DOMAIN asked : idx < i => intervals[i] = asked[i]
        BY <1>2 DEF IInv, RestAsAsked, Sending
      <3>2. \A i \in DOMAIN asked : i \in Nat
        BY DEF IInv, TypeOK
      <3>3. Len(intervals) = Len(asked)
        BY <1>2 DEF IInv, RestAsAsked, Sending
      <3> QED BY <1>1, <1>2, <2>1, <3>1, <3>2, <3>3 DEF RestAsAsked
    <2>3. Position'
      BY <2>1 DEF Position, Sending
    <2>4. SentIsBehind'
      <3> SUFFICES ASSUME NEW k \in DOMAIN net, NEW i \in DOMAIN asked, idx + 1 <= i
                   PROVE  net[k].off + net[k].len <= asked[i].start * Chunk
        BY <1>1, <2>1 DEF SentIsBehind, Sending, From
      <3>1. net[k].off + net[k].len <= bytes_sent
        BY <1>2 DEF IInv, SentIsBehind
      <3>2. i \in Nat
        BY DEF IInv, TypeOK
      <3>3. To(idx) <= From(i)
        BY <1>2, <3>2, IntervalsAscend DEF IInv
      <3>4. To(idx) \in Nat /\ From(i) \in Nat /\ From(idx) \in Nat
        BY <1>2, IntervalBounds DEF IInv
      <3>5. bytes_sent <= To(idx)
        BY <1>2, <3>4 DEF IInv, Position, TypeOK
      <3>6. net[k] \in DataPackets
        BY ElementType, Zenon DEF IInv, TypeOK
      <3>7. net[k].off \in Nat /\ net[k].len \in Nat /\ bytes_sent \in Nat
        BY <3>6 DEF DataPackets, IInv, TypeOK
      <3> QED BY <3>1, <3>3, <3>4, <3>5, <3>7 DEF From
    <2> QED BY <1>1, <1>3, <1>4, <2>2, <2>3, <2>4, SamePackets DEF IInv
  <1> QED BY <1>5, <1>6

\* One packet goes out.
LEMMA SendStep == ASSUME IInv, Send PROVE IInv'
  <1> DEFINE len == packet_length
             new == DataPacket(bytes_sent, len)
  <1>1. /\ spc = "send" /\ spc' = "test"
        /\ net' = Append(net, new)
        /\ bytes_sent' = bytes_sent + len
        /\ sent_in_interval' = sent_in_interval + len
        /\ pkt_cnt' = (IF remaining > Chunk THEN pkt_cnt ELSE PacketsPerRound) + 1
        /\ after_stop' = IF stopped THEN after_stop + 1 ELSE after_stop
        /\ keep_running' = keep_running \/ keep_running' = FALSE
        /\ UNCHANGED <<intervals, idx, bytes_in_interval, asked, present, lost_buffers,
                       stopped>>
    BY DEF Send, SendPacket
  <1>2. /\ bytes_sent \in Nat /\ sent_in_interval \in Nat /\ bytes_in_interval \in Nat
        /\ pkt_cnt \in Nat /\ PacketsPerRound \in Nat /\ Chunk \in Nat \ {0}
        /\ PayloadSize \in Nat /\ after_stop \in Nat
    BY WireAssumption, RoundAssumption DEF IInv, TypeOK
  <1>3. /\ idx \in DOMAIN asked
        /\ bytes_sent = From(idx) + sent_in_interval
        /\ From(idx) + bytes_in_interval = To(idx)
        /\ sent_in_interval < bytes_in_interval
    BY <1>1 DEF IInv, Position, Sending, MoreToSend
  <1>4. PICK q \in 0 .. PayloadSize : bytes_sent = q * Chunk
    BY <1>1 DEF IInv, Position, Sending, MoreToSend
  <1>5. /\ From(idx) \in Nat /\ To(idx) \in Nat /\ To(idx) <= PayloadSize
        /\ \/ To(idx) = PayloadSize
           \/ \E e \in Nat : To(idx) = (e + 1) * Chunk
    BY <1>3, IntervalBounds DEF IInv
  <1>6. len = IF remaining > Chunk THEN Chunk ELSE remaining
    BY DEF packet_length
  <1>7. /\ remaining \in Nat /\ remaining > 0
        /\ bytes_sent + remaining = To(idx)
    BY <1>2, <1>3, <1>5 DEF remaining
  <1> HIDE DEF len
  <1>8. len \in Nat /\ 0 < len /\ len <= remaining /\ len <= Chunk
    BY <1>2, <1>6, <1>7
  <1>9. bytes_sent + len <= To(idx)
    BY <1>2, <1>5, <1>7, <1>8
  <1>10. len = Chunk \/ (len < Chunk /\ bytes_sent + len = PayloadSize)
    <2>1. CASE remaining > Chunk
      BY <2>1, <1>6
    <2>2. CASE remaining <= Chunk /\ To(idx) = PayloadSize
      BY <2>2, <1>2, <1>6, <1>7, <1>8
    <2>3. CASE remaining <= Chunk /\ \E e \in Nat : To(idx) = (e + 1) * Chunk
      <3>1. PICK e \in Nat : To(idx) = (e + 1) * Chunk
        BY <2>3
      <3>2. q \in Nat /\ e + 1 \in Nat /\ q * Chunk < (e + 1) * Chunk
        BY <1>2, <1>4, <1>5, <1>7, <3>1
      <3>3. q < e + 1
        <4> SUFFICES ASSUME e + 1 <= q PROVE FALSE
          BY <3>2
        <4>1. (e + 1) * Chunk <= q * Chunk
          BY <3>2, MulMono
        <4>2. (e + 1) * Chunk \in Nat /\ q * Chunk \in Nat
          BY <1>2, <3>2
        <4> QED BY <3>2, <4>1, <4>2
      <3>4. q * Chunk + Chunk <= (e + 1) * Chunk
        BY <3>2, <3>3, MulStrict
      <3>5. remaining >= Chunk
        BY <1>2, <1>4, <1>5, <1>7, <3>1, <3>4
      <3> QED BY <2>3, <3>5, <1>2, <1>6, <1>7
    <2> QED BY <2>1, <2>2, <2>3, <1>2, <1>5, <1>7
  <1>11. new \in DataPackets /\ new.off = bytes_sent /\ new.len = len
    BY <1>2, <1>8 DEF DataPacket, DataPackets
  <1> HIDE DEF new
  <1>12. /\ net \in Seq(DataPackets) /\ net' \in Seq(DataPackets)
         /\ Len(net') = Len(net) + 1
         /\ \A k \in DOMAIN net : net'[k] = net[k]
         /\ net'[Len(net) + 1] = new
         /\ DOMAIN net' = DOMAIN net \cup {Len(net) + 1}
         /\ \A k \in DOMAIN net : k \in Nat /\ k < Len(net) + 1
    <2>1. net \in Seq(DataPackets)
      BY DEF IInv, TypeOK
    <2> QED BY <1>1, <1>11, <2>1
  <1>13. bytes_sent' \in Nat /\ sent_in_interval' \in Nat /\ pkt_cnt' \in Nat
         /\ after_stop' \in Nat
    BY <1>1, <1>2, <1>8
  <1>14. TypeOK'
    <2>1. keep_running' \in BOOLEAN /\ spc' \in ControlPoints
      BY <1>1, Zenon DEF IInv, TypeOK, ControlPoints
    <2> QED BY <1>1, <1>12, <1>13, <2>1, Zenon DEF IInv, TypeOK
  <1>15. RestAsAsked'
    BY <1>1 DEF IInv, RestAsAsked
  <1>16. Position'
    <2>1. From(idx)' = From(idx) /\ To(idx)' = To(idx) /\ idx' = idx /\ asked' = asked
      BY <1>1 DEF From, To, interval_stop
    <2>2. bytes_sent' = From(idx) + sent_in_interval'
      BY <1>1, <1>2, <1>3, <1>5, <1>8
    <2>3. sent_in_interval' <= bytes_in_interval
      BY <1>1, <1>2, <1>8 DEF remaining
    <2>4. ASSUME remaining > Chunk
          PROVE  /\ \E r \in 0 .. PayloadSize : bytes_sent' = r * Chunk
                 /\ sent_in_interval' < bytes_in_interval
      <3>1. len = Chunk
        BY <2>4, <1>6
      <3>2. bytes_sent' = (q + 1) * Chunk
        BY <1>1, <1>2, <1>4, <3>1
      <3>3. q + 1 \in Nat /\ q + 1 <= (q + 1) * Chunk
        BY <1>4, MulGrows
      <3>4. (q + 1) * Chunk <= PayloadSize
        BY <1>1, <1>2, <1>5, <1>9, <3>2
      <3>5. (q + 1) * Chunk \in Nat
        BY <1>2, <3>3
      <3>6. q + 1 \in 0 .. PayloadSize
        BY <3>3, <3>4, <3>5, <1>2
      <3>7. sent_in_interval' < bytes_in_interval
        BY <2>4, <3>1, <1>1, <1>2 DEF remaining
      <3> QED BY <3>2, <3>6, <3>7
    <2>5. ASSUME ~(remaining > Chunk)
          PROVE  ~(sent_in_interval' < bytes_in_interval) /\ ~(pkt_cnt' < PacketsPerRound)
      <3>1. len = remaining
        BY <2>5, <1>6
      <3> QED BY <2>5, <3>1, <1>1, <1>2 DEF remaining
    <2>6. /\ idx' \in DOMAIN asked' /\ bytes_sent' = (From(idx) + sent_in_interval)'
          /\ (From(idx) + bytes_in_interval = To(idx))'
          /\ (sent_in_interval <= bytes_in_interval)'
      BY <1>1, <1>3, <2>1, <2>2, <2>3
    <2> QED BY <1>1, <2>4, <2>5, <2>6 DEF Position, MoreToSend
  <1>17. SentIsBehind'
    <2> SUFFICES ASSUME NEW k \in DOMAIN net' PROVE net'[k].off + net'[k].len <= bytes_sent'
      BY <1>1 DEF SentIsBehind, Sending
    <2>1. CASE k \in DOMAIN net
      <3>1. net[k].off + net[k].len <= bytes_sent
        BY <1>1, <2>1 DEF IInv, SentIsBehind, Sending
      <3>2. net[k] \in DataPackets
        BY <1>12, <2>1, ElementType, Zenon
      <3>3. net[k].off \in Nat /\ net[k].len \in Nat
        BY <3>2 DEF DataPackets
      <3> QED BY <1>1, <1>2, <1>8, <1>12, <2>1, <3>1, <3>3
    <2>2. CASE k = Len(net) + 1
      BY <1>1, <1>2, <1>8, <1>11, <1>12, <2>2
    <2> QED BY <1>12, <2>1, <2>2
  <1>18. ChunksOfRequest'
    <2>1. CarriesChunkOf(new, asked[idx])
      <3>1. \E r \in 0 .. PayloadSize : new.off = r * Chunk
        BY <1>4, <1>11
      <3>2. asked[idx].start * Chunk <= new.off
        BY <1>2, <1>3, <1>5, <1>11 DEF From
      <3>3. new.off + new.len <= interval_stop(asked[idx])
        BY <1>9, <1>11 DEF To
      <3> QED BY <3>1, <3>2, <3>3, <1>8, <1>10, <1>11 DEF CarriesChunkOf
    <2> SUFFICES ASSUME NEW k \in DOMAIN net'
                 PROVE  \E i \in DOMAIN asked : CarriesChunkOf(net'[k], asked[i])
      BY <1>1 DEF ChunksOfRequest, CarriesChunkOf, interval_stop
    <2>2. CASE k \in DOMAIN net
      BY <1>12, <2>2 DEF IInv, ChunksOfRequest
    <2>3. CASE k = Len(net) + 1
      BY <1>3, <1>12, <2>1, <2>3
    <2> QED BY <1>12, <2>2, <2>3
  <1>19. OffsetsAscend'
    <2> SUFFICES ASSUME NEW j \in DOMAIN net', NEW k \in DOMAIN net', j < k
                 PROVE  net'[j].off + net'[j].len <= net'[k].off
      BY DEF OffsetsAscend
    <2>1. CASE k \in DOMAIN net
      <3>1. j \in DOMAIN net
        BY <1>12, <2>1
      <3> QED BY <1>12, <2>1, <3>1 DEF IInv, OffsetsAscend
    <2>2. CASE k = Len(net) + 1
      <3>1. j \in DOMAIN net
        BY <1>12, <2>2
      <3>2. net[j].off + net[j].len <= bytes_sent
        BY <1>1, <3>1 DEF IInv, SentIsBehind, Sending
      <3> QED BY <1>11, <1>12, <2>2, <3>1, <3>2
    <2> QED BY <1>12, <2>1, <2>2
  <1>20. StopIsSeen'
    BY <1>1, <1>2 DEF IInv, StopIsSeen
  <1>21. Askable(asked)'
    BY <1>1 DEF IInv, Askable
  <1> QED BY <1>14, <1>15, <1>16, <1>17, <1>18, <1>19, <1>20, <1>21 DEF IInv

----------------------------------------------------------------------------
(* The theorems.                                                           *)

\* Steps that touch none of the transfer's own state.
LEMMA OutsideStep ==
    ASSUME IInv, UNCHANGED <<spc, intervals, idx, bytes_sent, sent_in_interval,
                             bytes_in_interval, pkt_cnt, net, asked, lost_buffers>>,
           TypeOK', StopIsSeen'
    PROVE  IInv'
  <1>1. RestAsAsked'
    BY DEF IInv, RestAsAsked
  <1>2. Position'
    BY DEF IInv, Position, Sending, MoreToSend, From, To, interval_stop
  <1>3. SentIsBehind'
    BY DEF IInv, SentIsBehind, Sending, From
  <1> QED BY <1>1, <1>2, <1>3, SamePackets DEF IInv

\* The invariant holds initially and every step keeps it.
THEOREM ServerInvariant == Spec => []IInv
  <1>1. Init => IInv
    <2> SUFFICES ASSUME Init PROVE IInv
      OBVIOUS
    <2>1. /\ spc = "idle" /\ intervals = <<>> /\ idx = 1 /\ keep_running = FALSE
          /\ bytes_sent = 0 /\ sent_in_interval = 0 /\ bytes_in_interval = 0
          /\ pkt_cnt = 0 /\ net = <<>> /\ asked = <<>> /\ present = TRUE
          /\ lost_buffers = 0 /\ stopped = FALSE /\ after_stop = 0
      BY DEF Init, ServerInit
    <2>2. <<>> \in Seq(Intervals) /\ <<>> \in Seq(DataPackets)
      OBVIOUS
    <2>3. TypeOK
      <3>1. /\ spc \in ControlPoints
            /\ keep_running \in BOOLEAN /\ present \in BOOLEAN /\ stopped \in BOOLEAN
        BY <2>1, Zenon DEF ControlPoints
      <3>2. /\ idx \in Nat \ {0} /\ bytes_sent \in Nat /\ sent_in_interval \in Nat
            /\ bytes_in_interval \in Nat /\ pkt_cnt \in Nat /\ lost_buffers \in Nat
            /\ after_stop \in Nat
        BY <2>1
      <3> QED BY <2>1, <2>2, <3>1, <3>2, Zenon DEF TypeOK
    <2>4. Askable(asked) /\ RestAsAsked /\ Position /\ SentIsBehind
      BY <2>1, <2>2 DEF Askable, RestAsAsked, Position, SentIsBehind, Sending
    <2>5. ChunksOfRequest /\ OffsetsAscend /\ StopIsSeen
      BY <2>1 DEF ChunksOfRequest, OffsetsAscend, StopIsSeen
    <2> QED BY <2>3, <2>4, <2>5 DEF IInv
  <1>2. IInv /\ [Next]_vars => IInv'
    <2> SUFFICES ASSUME IInv, [Next]_vars PROVE IInv'
      OBVIOUS
    <2>1. ASSUME NEW r \in Requests, Request(r) PROVE IInv'
      BY <2>1, RequestStep
    <2>2. CASE Send
      BY <2>2, SendStep
    <2>3. CASE ReadNothing
      <3>1. lost_buffers' \in Nat
        BY <2>3 DEF ReadNothing, IInv, TypeOK
      <3> QED BY <2>3, <3>1, PollReturnStep DEF ReadNothing
    <2>4. CASE GetBuffer
      <3>1. MoreToSend
        BY <2>4 DEF GetBuffer, LoopEnter, IInv, Position, Sending
      <3> QED BY <2>4, <3>1, RoundStep DEF GetBuffer, LoopEnter, histories
    <2>5. CASE Control
      <3>1. CASE NextInterval
        BY <2>5, <3>1, NextIntervalStep DEF Control
      <3>2. CASE TransferDone
        BY <2>5, <3>2, TransferDoneStep DEF Control
      <3>3. CASE PollWakeup
        <4>1. MoreToSend
          BY <3>3 DEF PollWakeup, IInv, Position, Sending
        <4> QED BY <2>5, <3>3, <4>1, RoundStep DEF Control, PollWakeup, histories
      <3>4. CASE LoopExit \/ NoBuffer
        <4>1. lost_buffers' \in Nat /\ UNCHANGED histories
          BY <2>5 DEF Control, IInv, TypeOK
        <4> QED BY <3>4, <4>1, PollReturnStep DEF LoopExit, NoBuffer
      <3> QED BY <2>5, <3>1, <3>2, <3>3, <3>4 DEF Control
    <2>6. CASE Stop
      <3>1. /\ keep_running' = FALSE /\ stopped' = TRUE
            /\ UNCHANGED <<spc, intervals, idx, bytes_sent, sent_in_interval,
                           bytes_in_interval, pkt_cnt, net, asked, present,
                           lost_buffers, after_stop>>
        BY <2>6 DEF Stop, StopSending
      <3>2. TypeOK'
        BY <3>1, Zenon DEF IInv, TypeOK
      <3>3. StopIsSeen'
        BY <3>1 DEF IInv, StopIsSeen
      <3> QED BY <3>1, <3>2, <3>3, OutsideStep
    <2>7. CASE PayloadDel \/ PayloadAdd
      <3>1. /\ present' \in BOOLEAN
            /\ UNCHANGED <<serverVars, net, asked, lost_buffers, stopped, after_stop>>
        BY <2>7, Zenon DEF PayloadDel, PayloadAdd
      <3>2. TypeOK'
        BY <3>1, Zenon DEF IInv, TypeOK, serverVars
      <3>3. StopIsSeen'
        BY <3>1 DEF IInv, StopIsSeen, serverVars
      <3> QED BY <3>1, <3>2, <3>3, OutsideStep DEF serverVars
    <2>8. CASE UNCHANGED vars
      <3>1. TypeOK' /\ StopIsSeen'
        BY <2>8 DEF IInv, TypeOK, StopIsSeen, vars, serverVars
      <3> QED BY <2>8, <3>1, OutsideStep DEF vars, serverVars
    <2> QED BY <2>1, <2>2, <2>3, <2>4, <2>5, <2>6, <2>7, <2>8 DEF Next
  <1> QED BY <1>1, <1>2, PTL DEF Spec

\* The state of the transfer loop keeps its types.
THEOREM ServerTypeCorrect == Spec => []TypeOK
  BY ServerInvariant, PTL DEF IInv

\* Every packet the server sends is a whole chunk of one requested interval, or
\* the cut last chunk of the payload, and it never sends a byte twice.
THEOREM ServerPacketsFollowRequest == Spec => []PacketsFollowRequest
  <1>1. IInv => PacketsFollowRequest
    BY DEF IInv, PacketsFollowRequest
  <1> QED BY <1>1, ServerInvariant, PTL

\* After a stop request at most the packet in hand is sent.
THEOREM ServerAtMostOneAfterStop == Spec => []AtMostOneAfterStop
  <1>1. IInv => AtMostOneAfterStop
    BY DEF IInv, StopIsSeen, AtMostOneAfterStop
  <1> QED BY <1>1, ServerInvariant, PTL

----------------------------------------------------------------------------
(* The server implements DtpSender.                                        *)

\* Where the transfer stands in the payload.
Frontier ==
    IF spc # "interval" THEN bytes_sent
    ELSE IF idx <= Len(asked) THEN asked[idx].start * Chunk ELSE PayloadSize

\* The bytes that are left according to the locals of start_sending_data, and
\* according to the packets, as Sender maps them.
Todo == IF spc = "idle" THEN {} ELSE {b \in AskedBytes(asked) : Frontier <= b}

Left == IF spc = "idle" THEN {} ELSE AskedBytes(asked) \ SentBytes

\* The two agree, until a stopped transfer leaves an interval before its end.
Exact == spc # "idle" /\ (keep_running \/ spc # "interval") => Left = Todo

\* Between transfers the locals are as at the start and keep_running is clear.
IdleClear == spc = "idle" => idx = 1 /\ ~keep_running

\* IdleClear holds: TransferDone is the only way back to idle.
LEMMA IdleIsClear == Spec => []IdleClear
  <1>1. Init => IdleClear
    BY DEF Init, ServerInit, IdleClear
  <1>2. IdleClear /\ [Next]_vars => IdleClear'
    <2> SUFFICES ASSUME IdleClear, [Next]_vars PROVE IdleClear'
      OBVIOUS
    <2>1. ASSUME NEW r \in Requests, Request(r) PROVE IdleClear'
      BY <2>1 DEF Request, start_sending_data, IdleClear
    <2>2. CASE Send \/ ReadNothing \/ GetBuffer
      BY <2>2 DEF Send, SendPacket, ReadNothing, GetBuffer, LoopEnter, PollReturn,
                  PollReturnTo, IdleClear
    <2>3. CASE Control
      BY <2>3 DEF Control, NextInterval, TransferDone, ForgetTransfer, PollWakeup,
                  LoopExit, NoBuffer, PollReturn, PollReturnTo, IdleClear
    <2>4. CASE Stop \/ PayloadDel \/ PayloadAdd \/ UNCHANGED vars
      BY <2>4 DEF Stop, StopSending, PayloadDel, PayloadAdd, vars, serverVars, IdleClear
    <2> QED BY <2>1, <2>2, <2>3, <2>4 DEF Next
  <1> QED BY <1>1, <1>2, PTL DEF Spec

\* The bytes a request names are those of its intervals as start_sending_data
\* bounds them.
LEMMA AskedByte ==
    ASSUME Askable(asked), NEW b
    PROVE  b \in AskedBytes(asked) <=> \E i \in DOMAIN asked : b \in From(i) .. To(i) - 1
  <1>1. ASSUME NEW i \in DOMAIN asked, b \in Int
        PROVE  /\ b \in 0 .. PayloadSize - 1
               /\ asked[i].start * Chunk <= b
               /\ asked[i].end = UINT32_MAX \/ b < (asked[i].end + 1) * Chunk
               <=> b \in From(i) .. To(i) - 1
    <2> DEFINE e == asked[i].end
               s == asked[i].start * Chunk
               stop == (e + 1) * Chunk
    <2>1. asked[i] \in Intervals
      BY ElementType, Zenon DEF Askable
    <2>2. e \in Nat \cup {UINT32_MAX}
      BY <2>1 DEF Intervals
    <2>3. From(i) = s /\ From(i) \in Nat /\ To(i) \in Nat /\ PayloadSize \in Nat
      BY IntervalBounds, WireAssumption DEF From
    <2>4. To(i) = IF e # UINT32_MAX /\ stop <= PayloadSize THEN stop ELSE PayloadSize
      BY DEF To, interval_stop
    <2>5. e # UINT32_MAX => stop \in Nat
      BY <2>2, WireAssumption
    <2> HIDE DEF e, s, stop
    <2>6. /\ b \in 0 .. PayloadSize - 1
          /\ s <= b
          /\ e = UINT32_MAX \/ b < stop
          <=> b \in From(i) .. To(i) - 1
      BY <1>1, <2>3, <2>4, <2>5
    <2> QED BY <2>6 DEF e, s, stop
  <1>2. ASSUME NEW i \in DOMAIN asked PROVE From(i) .. To(i) - 1 \subseteq Int
    OBVIOUS
  <1>3. PayloadSize \in Nat
    BY WireAssumption
  <1> QED BY <1>1, <1>2, <1>3 DEF AskedBytes

\* A transfer begins with every byte of the request to do.
LEMMA TodoAtRequest ==
    ASSUME NEW r, Askable(r), asked' = r, spc' = "interval", idx' = 1
    PROVE  Todo' = AskedBytes(r)
  <1>1. Len(r) \in Nat /\ DOMAIN r = 1 .. Len(r) /\ r \in Seq(Intervals)
    BY DEF Askable
  <1>2. ASSUME NEW b \in AskedBytes(r) PROVE Frontier' <= b
    <2>1. PICK i \in DOMAIN r : r[i].start * Chunk <= b
      BY DEF AskedBytes
    <2>2. 1 \in DOMAIN r /\ i \in Nat /\ 1 <= i /\ 1 <= Len(r)
      BY <1>1, <2>1
    <2>3. r[1] \in Intervals /\ r[i] \in Intervals
      BY <1>1, <2>2, ElementType, Zenon
    <2>4. r[1].start \in Nat /\ r[i].start \in Nat /\ r[1].end \in Nat \cup {UINT32_MAX}
      BY <2>3 DEF Intervals
    <2>5. r[1].start <= r[i].start
      <3>1. CASE i = 1
        BY <2>4, <3>1
      <3>2. CASE 1 < i
        <4>1. r[1].end # UINT32_MAX /\ r[1].end < r[i].start /\ r[1].start <= r[1].end
          BY <2>2, <3>2 DEF Askable
        <4> QED BY <2>4, <4>1
      <3> QED BY <2>2, <3>1, <3>2
    <2>6. r[1].start * Chunk <= r[i].start * Chunk
      BY <2>4, <2>5, MulMono
    <2>7. Frontier' = r[1].start * Chunk
      BY <2>2 DEF Frontier
    <2>8. b \in Int /\ r[1].start * Chunk \in Nat /\ r[i].start * Chunk \in Nat
      BY <2>4, WireAssumption DEF AskedBytes
    <2> QED BY <2>1, <2>6, <2>7, <2>8
  <1>3. Todo' = {b \in AskedBytes(r) : Frontier' <= b}
    BY DEF Todo, AskedBytes
  <1> QED BY <1>2, <1>3

\* Leaving an interval that is sent leaves the same bytes to do: none was asked
\* for between its end and the next interval.
LEMMA TodoAtIntervalEnd ==
    ASSUME IInv, Sending, ~MoreToSend,
           spc' = "interval", idx' = idx + 1, asked' = asked
    PROVE  Todo' = Todo
  <1>1. /\ Askable(asked) /\ Len(asked) \in Nat /\ DOMAIN asked = 1 .. Len(asked)
        /\ idx \in DOMAIN asked /\ PayloadSize \in Nat
    BY WireAssumption DEF IInv, Askable, Position
  <1>2. bytes_sent = To(idx) /\ To(idx) \in Nat
    <2>1. /\ bytes_sent = From(idx) + sent_in_interval
          /\ From(idx) + bytes_in_interval = To(idx)
          /\ sent_in_interval <= bytes_in_interval
          /\ sent_in_interval \in Nat /\ bytes_in_interval \in Nat
      BY DEF IInv, Position, TypeOK
    <2>2. sent_in_interval = bytes_in_interval
      BY <2>1 DEF MoreToSend
    <2> QED BY <1>1, <2>1, <2>2, IntervalBounds
  <1>3. Frontier = To(idx)
    BY <1>2 DEF Frontier, Sending
  <1>4. ASSUME NEW b \in AskedBytes(asked) PROVE Frontier' <= b <=> Frontier <= b
    <2>1. PICK i \in DOMAIN asked : b \in From(i) .. To(i) - 1
      BY <1>1, AskedByte
    <2>2. /\ From(i) \in Nat /\ To(i) \in Nat /\ To(i) <= PayloadSize /\ b \in Nat
          /\ i \in Nat /\ idx \in Nat /\ b < To(i) /\ From(i) <= b
      BY <1>1, <2>1, IntervalBounds
    <2>3. CASE i <= idx
      <3>1. To(i) <= To(idx)
        <4>1. CASE i = idx
          BY <4>1, <1>2
        <4>2. CASE i < idx
          <5>1. To(i) <= From(idx) /\ From(idx) < To(idx) /\ From(idx) \in Nat
            BY <1>1, <4>2, IntervalsAscend, IntervalBounds
          <5> QED BY <5>1, <2>2, <1>2
        <4> QED BY <2>3, <2>2, <4>1, <4>2
      <3>2. ~(Frontier <= b)
        BY <1>2, <1>3, <2>2, <3>1
      <3>3. Frontier' \in Nat /\ To(idx) <= Frontier'
        <4>1. CASE idx + 1 <= Len(asked)
          <5>1. idx + 1 \in DOMAIN asked
            BY <1>1, <4>1
          <5>2. Frontier' = From(idx + 1)
            BY <4>1 DEF Frontier, From
          <5>3. To(idx) <= From(idx + 1) /\ From(idx + 1) \in Nat
            BY <1>1, <2>2, <5>1, IntervalsAscend, IntervalBounds
          <5> QED BY <5>2, <5>3
        <4>2. CASE ~(idx + 1 <= Len(asked))
          <5>1. Frontier' = PayloadSize
            BY <4>2 DEF Frontier
          <5> QED BY <1>1, <5>1, IntervalBounds
        <4> QED BY <4>1, <4>2
      <3>4. ~(Frontier' <= b)
        BY <1>2, <2>2, <3>1, <3>3
      <3> QED BY <3>2, <3>4
    <2>4. CASE idx < i
      <3>1. idx + 1 \in DOMAIN asked /\ idx + 1 <= i /\ idx + 1 <= Len(asked)
        BY <1>1, <2>2, <2>4
      <3>2. Frontier' = From(idx + 1)
        BY <3>1 DEF Frontier, From
      <3>3. From(idx + 1) \in Nat /\ From(idx + 1) <= From(i)
        <4>1. CASE i = idx + 1
          BY <4>1, <2>2
        <4>2. CASE idx + 1 < i
          <5>1. /\ To(idx + 1) <= From(i) /\ From(idx + 1) < To(idx + 1)
                /\ From(idx + 1) \in Nat /\ To(idx + 1) \in Nat
            BY <1>1, <3>1, <4>2, IntervalsAscend, IntervalBounds
          <5> QED BY <5>1, <2>2
        <4> QED BY <2>2, <3>1, <4>1, <4>2
      <3>4. To(idx) <= From(i)
        BY <1>1, <2>4, IntervalsAscend
      <3> QED BY <1>2, <1>3, <2>2, <3>2, <3>3, <3>4
    <2> QED BY <2>2, <2>3, <2>4
  <1> QED BY <1>4 DEF Todo, Sending

\* A packet takes the next bytes off, and no byte in between is skipped.
LEMMA TodoAtSend ==
    ASSUME IInv, Send
    PROVE  \E n \in Nat \ {0} :
              /\ net' = Append(net, DataPacket(bytes_sent, n))
              /\ bytes_sent .. bytes_sent + n - 1 \subseteq Todo
              /\ Todo' = {b \in Todo : bytes_sent + n <= b}
  <1> DEFINE n == packet_length
  <1>1. /\ spc = "send" /\ spc' = "test" /\ asked' = asked
        /\ bytes_sent' = bytes_sent + n
        /\ net' = Append(net, DataPacket(bytes_sent, n))
    BY DEF Send, SendPacket
  <1>2. /\ idx \in DOMAIN asked /\ Askable(asked) /\ PayloadSize \in Nat
        /\ bytes_sent = From(idx) + sent_in_interval
        /\ From(idx) + bytes_in_interval = To(idx)
        /\ sent_in_interval < bytes_in_interval
        /\ sent_in_interval \in Nat /\ bytes_in_interval \in Nat /\ bytes_sent \in Nat
    BY <1>1, WireAssumption DEF IInv, Position, Sending, MoreToSend, TypeOK
  <1>3. From(idx) \in Nat /\ To(idx) \in Nat
    BY <1>2, IntervalBounds
  <1>4. n \in Nat \ {0} /\ bytes_sent + n <= To(idx)
    BY <1>2, <1>3, WireAssumption DEF packet_length, remaining
  <1> HIDE DEF n
  <1>5. Frontier = bytes_sent /\ Frontier' = bytes_sent + n
    BY <1>1 DEF Frontier
  <1>6. /\ Todo = {b \in AskedBytes(asked) : bytes_sent <= b}
        /\ Todo' = {b \in AskedBytes(asked) : bytes_sent + n <= b}
    BY <1>1, <1>5 DEF Todo
  <1>7. bytes_sent .. bytes_sent + n - 1 \subseteq Todo
    <2> SUFFICES ASSUME NEW b \in bytes_sent .. bytes_sent + n - 1 PROVE b \in Todo
      OBVIOUS
    <2>1. b \in From(idx) .. To(idx) - 1 /\ bytes_sent <= b
      BY <1>2, <1>3, <1>4
    <2> QED BY <1>2, <1>6, <2>1, AskedByte
  <1>8. \A b \in AskedBytes(asked) : b \in Int
    BY DEF AskedBytes
  <1>9. Todo' = {b \in Todo : bytes_sent + n <= b}
    BY <1>2, <1>4, <1>6, <1>8
  <1> QED BY <1>1, <1>4, <1>7, <1>9

\* A packet adds its bytes to those sent.
LEMMA SentAfter ==
    ASSUME net \in Seq(DataPackets), NEW o, NEW n, net' = Append(net, DataPacket(o, n))
    PROVE  SentBytes' = SentBytes \cup (o .. o + n - 1)
  <1>1. /\ Len(net) \in Nat /\ DOMAIN net = 1 .. Len(net)
        /\ DOMAIN net' = 1 .. Len(net) + 1
        /\ \A k \in 1 .. Len(net) : net'[k] = net[k]
        /\ net'[Len(net) + 1] = DataPacket(o, n)
    OBVIOUS
  <1>2. DataPacket(o, n).off = o /\ DataPacket(o, n).len = n
    BY DEF DataPacket
  <1>3. ASSUME NEW b
        PROVE  b \in SentBytes' <=> \E k \in DOMAIN net' : b \in net'[k].off .. net'[k].off + net'[k].len - 1
    BY Zenon DEF SentBytes
  <1>4. ASSUME NEW b
        PROVE  b \in SentBytes <=> \E k \in DOMAIN net : b \in net[k].off .. net[k].off + net[k].len - 1
    BY Zenon DEF SentBytes
  <1>5. ASSUME NEW b PROVE b \in SentBytes' <=> b \in SentBytes \/ b \in o .. o + n - 1
    <2>1. ASSUME b \in SentBytes' PROVE b \in SentBytes \/ b \in o .. o + n - 1
      <3>1. PICK k \in DOMAIN net' : b \in net'[k].off .. net'[k].off + net'[k].len - 1
        BY <1>3, <2>1
      <3>2. CASE k \in 1 .. Len(net)
        BY <1>1, <1>4, <3>1, <3>2
      <3>3. CASE k = Len(net) + 1
        BY <1>1, <1>2, <3>1, <3>3
      <3> QED BY <1>1, <3>1, <3>2, <3>3
    <2>2. ASSUME b \in SentBytes PROVE b \in SentBytes'
      <3>1. PICK k \in DOMAIN net : b \in net[k].off .. net[k].off + net[k].len - 1
        BY <1>4, <2>2
      <3>2. k \in DOMAIN net' /\ net'[k] = net[k]
        BY <1>1, <3>1
      <3> QED BY <1>3, <3>1, <3>2
    <2>3. ASSUME b \in o .. o + n - 1 PROVE b \in SentBytes'
      <3>1. Len(net) + 1 \in DOMAIN net'
        BY <1>1
      <3> QED BY <1>1, <1>2, <1>3, <2>3, <3>1
    <2> QED BY <2>1, <2>2, <2>3
  <1> QED BY <1>5

\* Steps that leave the packets and the request alone leave the same bytes.
LEMMA LeftSame ==
    ASSUME UNCHANGED <<net, asked>>, spc' = "idle" <=> spc = "idle"
    PROVE  Left' = Left
  <1>1. SentBytes' = SentBytes /\ AskedBytes(asked)' = AskedBytes(asked)
    BY DEF SentBytes, AskedBytes
  <1> QED BY <1>1 DEF Left

\* The return from dtp_server_poll_loop keeps the two in agreement.
LEMMA ExactAtPollReturn ==
    ASSUME IInv, Exact, PollReturn, spc \in {"test", "send"}, asked' = asked
    PROVE  Exact'
  <1>1. /\ spc' = IF MoreToSend /\ keep_running THEN "poll" ELSE "interval"
        /\ idx' = IF MoreToSend /\ keep_running THEN idx ELSE idx + 1
        /\ UNCHANGED <<intervals, keep_running, bytes_sent, sent_in_interval,
                       bytes_in_interval, net>>
    BY DEF PollReturn, PollReturnTo
  <1>2. Left' = Left
    BY <1>1, LeftSame
  <1>3. CASE MoreToSend /\ keep_running
    <2>1. Todo' = Todo
      BY <1>1, <1>3 DEF Todo, Frontier
    <2> QED BY <1>2, <2>1 DEF Exact
  <1>4. CASE ~MoreToSend
    <2>1. Todo' = Todo
      BY <1>1, <1>4, TodoAtIntervalEnd DEF Sending
    <2> QED BY <1>2, <2>1 DEF Exact
  <1>5. CASE MoreToSend /\ ~keep_running
    BY <1>1, <1>5 DEF Exact
  <1> QED BY <1>3, <1>4, <1>5

\* A packet carries exactly the bytes the locals move over.
LEMMA ExactAtSend ==
    ASSUME IInv, Exact, Send
    PROVE  Left = Todo /\ Left' = Todo'
  <1>1. PICK n \in Nat \ {0} :
            /\ net' = Append(net, DataPacket(bytes_sent, n))
            /\ bytes_sent .. bytes_sent + n - 1 \subseteq Todo
            /\ Todo' = {b \in Todo : bytes_sent + n <= b}
    BY TodoAtSend
  <1>2. /\ spc = "send" /\ spc' = "test" /\ asked' = asked
        /\ bytes_sent \in Nat /\ net \in Seq(DataPackets)
    BY DEF Send, SendPacket, IInv, TypeOK
  <1>3. Left = Todo
    BY <1>2 DEF Exact
  <1>4. SentBytes' = SentBytes \cup (bytes_sent .. bytes_sent + n - 1)
    BY <1>1, <1>2, SentAfter
  <1>5. Left' = Left \ (bytes_sent .. bytes_sent + n - 1)
    <2>1. AskedBytes(asked)' = AskedBytes(asked)
      BY <1>2 DEF AskedBytes
    <2> QED BY <1>2, <1>4, <2>1 DEF Left
  <1>6. \A b \in Todo : b \in Int /\ bytes_sent <= b
    BY <1>2 DEF Todo, AskedBytes, Frontier
  <1>7. \A b \in Todo : b \notin bytes_sent .. bytes_sent + n - 1 <=> bytes_sent + n <= b
    BY <1>2, <1>6
  <1> QED BY <1>1, <1>3, <1>5, <1>7

\* Every step keeps the locals in agreement with the packets.
LEMMA ExactStep ==
    ASSUME IInv, IdleClear, Exact, [Next]_vars
    PROVE  Exact'
  <1>0. ASSUME UNCHANGED <<net, asked>>, spc' = "idle" <=> spc = "idle", Todo' = Todo,
               (keep_running' \/ spc' # "interval") => (keep_running \/ spc # "interval")
        PROVE  Exact'
    BY <1>0, LeftSame DEF Exact
  <1>1. ASSUME NEW r \in Requests, Request(r) PROVE Exact'
    <2>1. /\ spc' = "interval" /\ asked' = r /\ idx' = 1 /\ net' = <<>>
      BY <1>1 DEF Request, start_sending_data, IdleClear
    <2>2. Todo' = AskedBytes(r)
      BY <2>1, RequestsAssumption, TodoAtRequest
    <2>3. SentBytes' = {}
      BY <2>1 DEF SentBytes
    <2>4. Left' = AskedBytes(r)
      BY <2>1, <2>3 DEF Left, AskedBytes
    <2> QED BY <2>2, <2>4 DEF Exact
  <1>2. CASE Send
    BY <1>2, ExactAtSend DEF Exact
  <1>3. CASE ReadNothing
    BY <1>3, ExactAtPollReturn DEF ReadNothing, histories
  <1>4. CASE GetBuffer
    <2>1. /\ UNCHANGED <<net, asked, keep_running>> /\ spc = "test" /\ spc' = "send"
          /\ Todo' = Todo
      BY <1>4 DEF GetBuffer, LoopEnter, histories, Todo, Frontier
    <2> QED BY <1>0, <2>1
  <1>5. CASE Control
    <2>1. asked' = asked
      BY <1>5 DEF Control, histories
    <2>2. CASE NextInterval
      <3>1. /\ spc = "interval" /\ spc' = "poll" /\ idx <= Len(intervals) /\ keep_running
            /\ bytes_sent' = intervals[idx].start * Chunk /\ net' = net
        BY <2>2 DEF NextInterval
      <3>2. Frontier' = Frontier
        <4>1. /\ idx \in Nat \ {0} /\ Len(intervals) = Len(asked)
              /\ DOMAIN asked = 1 .. Len(asked) /\ Len(asked) \in Nat
          BY <3>1 DEF IInv, TypeOK, RestAsAsked, Askable
        <4>2. idx \in DOMAIN asked
          BY <3>1, <4>1
        <4>3. intervals[idx] = asked[idx]
          BY <3>1, <4>2 DEF IInv, RestAsAsked
        <4> QED BY <3>1, <4>1, <4>3 DEF Frontier
      <3>3. Todo' = Todo
        BY <2>1, <3>1, <3>2 DEF Todo
      <3> QED BY <1>0, <2>1, <3>1, <3>3
    <2>3. CASE TransferDone
      BY <2>3 DEF TransferDone, Exact
    <2>4. CASE PollWakeup
      <3>1. /\ UNCHANGED <<net, keep_running>> /\ spc = "poll" /\ spc' = "test" /\ Todo' = Todo
        BY <2>1, <2>4 DEF PollWakeup, Todo, Frontier
      <3> QED BY <1>0, <2>1, <3>1
    <2>5. CASE LoopExit \/ NoBuffer
      BY <2>1, <2>5, ExactAtPollReturn DEF LoopExit, NoBuffer
    <2> QED BY <1>5, <2>2, <2>3, <2>4, <2>5 DEF Control
  <1>6. CASE Stop
    <2>1. UNCHANGED <<net, asked, spc>> /\ keep_running /\ Todo' = Todo
      BY <1>6 DEF Stop, StopSending, Todo, Frontier
    <2> QED BY <1>0, <2>1
  <1>7. CASE PayloadDel \/ PayloadAdd \/ UNCHANGED vars
    <2>1. UNCHANGED <<net, asked, spc, keep_running>> /\ Todo' = Todo
      BY <1>7, Zenon DEF PayloadDel, PayloadAdd, vars, serverVars, Todo, Frontier
    <2> QED BY <1>0, <2>1
  <1> QED BY <1>1, <1>2, <1>3, <1>4, <1>5, <1>6, <1>7 DEF Next

\* Every step of the server is a step of DtpSender or leaves it alone.
LEMMA SenderStep ==
    ASSUME IInv, IdleClear, Exact, [Next]_vars
    PROVE  [Sender!Next]_(Sender!vars)
  <1>0. ASSUME UNCHANGED <<net, asked, keep_running>>, spc' = "idle" <=> spc = "idle"
        PROVE  UNCHANGED Sender!vars
    BY <1>0, LeftSame DEF Sender!vars, Left
  <1>1. ASSUME NEW r \in Requests, Request(r) PROVE [Sender!Next]_(Sender!vars)
    <2>1. /\ spc = "idle" /\ spc' = "interval" /\ keep_running' = TRUE
          /\ asked' = r /\ net' = <<>>
      BY <1>1 DEF Request, start_sending_data
    <2>2. SentBytes' = {} /\ Len(net)' = 0
      BY <2>1 DEF SentBytes
    <2>3. Left' = AskedBytes(r)
      BY <2>1, <2>2 DEF Left, AskedBytes
    <2>4. Sender!Begin
      BY <2>1, <2>2, <2>3 DEF Sender!Begin, Left
    <2> QED BY <2>4 DEF Sender!Next
  <1>2. CASE Send
    <2>0. Left = Todo /\ Left' = Todo'
      BY <1>2, ExactAtSend
    <2>1. PICK n \in Nat \ {0} :
              /\ net' = Append(net, DataPacket(bytes_sent, n))
              /\ bytes_sent .. bytes_sent + n - 1 \subseteq Todo
              /\ Todo' = {b \in Todo : bytes_sent + n <= b}
      BY <1>2, TodoAtSend
    <2>2. /\ spc = "send" /\ spc' = "test" /\ bytes_sent \in Nat
          /\ keep_running' = keep_running \/ keep_running' = FALSE
          /\ net \in Seq(DataPackets)
      BY <1>2 DEF Send, SendPacket, IInv, TypeOK
    <2>3. \A x \in Todo : x \in Int /\ bytes_sent <= x
      BY <2>2 DEF Todo, AskedBytes, Frontier
    <2>4. \A x \in Todo \ Todo' : x \in Int /\ bytes_sent <= x /\ x < bytes_sent + n
      BY <2>1, <2>2, <2>3
    <2>5. Todo' \subseteq Todo
      BY <2>1
    <2>6. Todo' # Todo
      <3>1. bytes_sent \in Todo /\ ~(bytes_sent + n <= bytes_sent)
        BY <2>1, <2>2
      <3> QED BY <2>1, <3>1
    <2>7. \A x \in Todo \ Todo', y \in Todo' : x < y
      BY <2>1, <2>2, <2>3, <2>4
    <2>8. \A x, y \in Todo \ Todo' : \A z \in x .. y : z \in Todo
      BY <2>1, <2>2, <2>4
    <2>9. Len(net)' = Len(net) + 1
      BY <2>1, <2>2
    <2>10. /\ Left' \subseteq Left /\ Left' # Left
           /\ \A x \in Left \ Left', y \in Left' : x < y
           /\ \A x, y \in Left \ Left' : \A z \in x .. y : z \in Left
      BY <2>0, <2>5, <2>6, <2>7, <2>8
    <2>11. Sender!Emit
      BY <2>2, <2>9, <2>10 DEF Sender!Emit, Left
    <2> QED BY <2>11 DEF Sender!Next
  <1>3. CASE ReadNothing \/ GetBuffer
    <2>1. /\ UNCHANGED <<net, asked, keep_running>>
          /\ spc # "idle" /\ spc' # "idle"
      BY <1>3 DEF ReadNothing, GetBuffer, LoopEnter, PollReturn, PollReturnTo, histories
    <2> QED BY <1>0, <2>1
  <1>4. CASE Control
    <2>1. CASE NextInterval \/ PollWakeup \/ LoopExit \/ NoBuffer
      <3>1. /\ UNCHANGED <<net, asked, keep_running>>
            /\ spc # "idle" /\ spc' # "idle"
        BY <1>4, <2>1 DEF Control, NextInterval, PollWakeup, LoopExit, NoBuffer, PollReturn,
                          PollReturnTo, histories
      <3> QED BY <1>0, <3>1
    <2>2. CASE TransferDone
      <3>1. /\ spc = "interval" /\ spc' = "idle" /\ net' = net
            /\ idx > Len(intervals) \/ ~keep_running
            /\ Len(intervals) = Len(asked)
        BY <2>2 DEF TransferDone, IInv, RestAsAsked
      <3>2. ASSUME keep_running PROVE Left = {}
        <4>1. Frontier = PayloadSize /\ PayloadSize \in Nat
          BY <3>1, <3>2, WireAssumption DEF Frontier, IInv, TypeOK
        <4>2. Todo = {}
          BY <4>1 DEF Todo, AskedBytes
        <4> QED BY <3>1, <3>2, <4>2 DEF Exact
      <3>3. Sender!End
        BY <3>1, <3>2 DEF Sender!End, Left
      <3> QED BY <3>3 DEF Sender!Next
    <2> QED BY <1>4, <2>1, <2>2 DEF Control
  <1>5. CASE Stop
    <2>1. /\ spc # "idle" /\ spc' = spc /\ keep_running' = FALSE
          /\ UNCHANGED <<net, asked>>
      BY <1>5 DEF Stop, StopSending, IdleClear
    <2>2. Left' = Left
      BY <2>1, LeftSame
    <2>3. Sender!StopRequest
      BY <2>1, <2>2 DEF Sender!StopRequest, Left
    <2> QED BY <2>3 DEF Sender!Next
  <1>6. CASE PayloadDel \/ PayloadAdd \/ UNCHANGED vars
    <2>1. UNCHANGED <<net, asked, keep_running, spc>>
      BY <1>6 DEF PayloadDel, PayloadAdd, vars, serverVars
    <2> QED BY <1>0, <2>1
  <1> QED BY <1>1, <1>2, <1>3, <1>4, <1>5, <1>6 DEF Next

\* dtp_server_run implements DtpSender for every payload, chunk size, round
\* length and list of requests: its packets carry each byte asked for once, in
\* order, and the transfer ends early only after a stop.
THEOREM ServerImplementsSender == Spec => ImplementsSender
  <1>1. Init => Sender!Init
    BY DEF Init, ServerInit, Sender!Init
  <1>2. Init => Exact
    BY DEF Init, ServerInit, Exact
  <1>3. IInv /\ IdleClear /\ Exact /\ [Next]_vars => Exact'
    BY ExactStep
  <1>4. IInv /\ IdleClear /\ Exact /\ [Next]_vars => [Sender!Next]_(Sender!vars)
    BY SenderStep
  <1> QED BY <1>1, <1>2, <1>3, <1>4, ServerInvariant, IdleIsClear, PTL
          DEF Spec, ImplementsSender, Sender!Spec

----------------------------------------------------------------------------
(* Adding up sizes.                                                        *)

LOCAL INSTANCE WellFoundedInduction

\* What holds before the first turn of a loop, and after a turn if it held
\* before, holds after every turn.
LEMMA TurnInduction ==
    ASSUME NEW N \in Nat, NEW T, 0 \in T, \A n \in 1 .. N : n - 1 \in T => n \in T
    PROVE  \A n \in 0 .. N : n \in T
  <1> SUFFICES ASSUME (0 .. N) \ T # {} PROVE FALSE
    OBVIOUS
  <1>1. IsWellFoundedOn(OpToRel(<, Nat), Nat)
    BY NatLessThanWellFounded, Zenon
  <1>2. PICK D : D = (0 .. N) \ T
    BY Zenon
  <1>3. D \subseteq Nat /\ D # {}
    BY <1>2
  <1>4. PICK m \in D : \A k \in D : ~(<<k, m>> \in OpToRel(<, Nat))
    BY <1>1, <1>3, WFMin, Zenon
  <1>5. \A k \in D : ~(k < m)
    BY <1>3, <1>4, Zenon DEF OpToRel
  <1>6. m \in 1 .. N /\ m - 1 \in 0 .. N /\ m - 1 < m
    BY <1>2
  <1> QED BY <1>2, <1>5, <1>6

\* The partial sums of v.
Sums(f, v) == /\ f \in [0 .. Len(v) -> Int] /\ f[0] = 0
              /\ \A n \in 1 .. Len(v) : f[n] = f[n - 1] + v[n]

\* SumOver is the last partial sum.
LEMMA SumRun == ASSUME NEW v \in Seq(Int) PROVE \E f : Sums(f, v) /\ SumOver(v) = f[Len(v)]
  <1> DEFINE sum[i \in 0 .. Len(v)] == IF i = 0 THEN 0 ELSE sum[i - 1] + v[i]
  <1>1. /\ Len(v) \in Nat /\ Len(v) \in 0 .. Len(v) /\ \A n \in 1 .. Len(v) : v[n] \in Int
    OBVIOUS
  <1>2. SumOver(v) = sum[Len(v)]
    BY DEF SumOver
  <1>3. \E f : Sums(f, v)
    <2> DEFINE Upto(f, n) == /\ f \in [0 .. n -> Int] /\ f[0] = 0
                             /\ \A k \in 1 .. n : f[k] = f[k - 1] + v[k]
               T == {n \in 0 .. Len(v) : \E f : Upto(f, n)}
    <2>1. 0 \in T
      <3> DEFINE g == [k \in 0 .. 0 |-> 0]
      <3>1. Upto(g, 0) /\ 0 \in 0 .. Len(v)
        BY <1>1
      <3> HIDE DEF Upto, g
      <3> QED BY <3>1
    <2>2. ASSUME NEW n \in 1 .. Len(v), n - 1 \in T PROVE n \in T
      <3>1. PICK f : Upto(f, n - 1)
        BY <2>2, Zenon
      <3> DEFINE g == [k \in 0 .. n |-> IF k = n THEN f[n - 1] + v[n] ELSE f[k]]
      <3>2. n - 1 \in 0 .. n - 1 /\ v[n] \in Int /\ f[n - 1] \in Int /\ n \in Nat /\ n # 0
        BY <1>1, <3>1
      <3>3. g \in [0 .. n -> Int] /\ g[0] = 0
        BY <3>1, <3>2
      <3>4. ASSUME NEW k \in 1 .. n PROVE g[k] = g[k - 1] + v[k]
        <4>1. k \in 0 .. n /\ k - 1 \in 0 .. n /\ k - 1 # n /\ g[k - 1] = f[k - 1]
          BY <3>2
        <4>2. CASE k = n
          BY <3>2, <4>1, <4>2
        <4>3. CASE k # n
          <5>1. k \in 1 .. n - 1 /\ g[k] = f[k]
            BY <3>2, <4>1, <4>3
          <5> QED BY <3>1, <4>1, <5>1
        <4> QED BY <4>2, <4>3
      <3> HIDE DEF g
      <3>5. Upto(g, n) /\ n \in 0 .. Len(v)
        BY <1>1, <3>3, <3>4
      <3> HIDE DEF Upto
      <3> QED BY <3>5
    <2>3. Len(v) \in T
      <3> HIDE DEF T
      <3> QED BY <1>1, <2>1, <2>2, TurnInduction, Zenon
    <2> QED BY <2>3 DEF Sums
  <1>4. PICK f : Sums(f, v)
    BY <1>3
  <1>5. f = [i \in 0 .. Len(v) |-> IF i = 0 THEN 0 ELSE f[i - 1] + v[i]]
    BY <1>1, <1>4 DEF Sums
  <1>6. sum = [i \in 0 .. Len(v) |-> IF i = 0 THEN 0 ELSE sum[i - 1] + v[i]]
    BY <1>5, Zenon DEF sum
  <1> HIDE DEF sum
  <1>7. sum[0] = 0 /\ \A n \in 1 .. Len(v) : sum[n] = sum[n - 1] + v[n]
    BY <1>1, <1>6
  <1>8. \A n \in 0 .. Len(v) : sum[n] \in Int
    <2> DEFINE T == {n \in 0 .. Len(v) : sum[n] \in Int}
    <2>1. 0 \in T
      BY <1>1, <1>7
    <2>2. ASSUME NEW n \in 1 .. Len(v), n - 1 \in T PROVE n \in T
      BY <1>1, <1>7, <2>2
    <2>3. \A n \in 0 .. Len(v) : n \in T
      <3> HIDE DEF T
      <3> QED BY <1>1, <2>1, <2>2, TurnInduction, Zenon
    <2> QED BY <2>3
  <1>9. sum \in [0 .. Len(v) -> Int]
    BY <1>6, <1>8
  <1> QED BY <1>2, <1>7, <1>9 DEF Sums

\* Two sequences that agree up to n have the same partial sums there.
LEMMA SumsAgree ==
    ASSUME NEW v \in Seq(Int), NEW w \in Seq(Int), NEW f, NEW g, Sums(f, v), Sums(g, w),
           NEW N \in Nat, N <= Len(v), N <= Len(w), \A i \in 1 .. N : v[i] = w[i]
    PROVE  f[N] = g[N] /\ f[N] \in Int
  <1> DEFINE T == {n \in 0 .. N : f[n] = g[n]}
  <1>1. 0 \in T
    BY DEF Sums
  <1>2. ASSUME NEW n \in 1 .. N, n - 1 \in T PROVE n \in T
    <2>1. n \in 1 .. Len(v) /\ n \in 1 .. Len(w) /\ n \in 0 .. N
      OBVIOUS
    <2>2. f[n] = f[n - 1] + v[n] /\ g[n] = g[n - 1] + w[n]
      BY <2>1 DEF Sums
    <2> QED BY <1>2, <2>1, <2>2
  <1>3. N \in 0 .. N /\ N \in 0 .. Len(v)
    OBVIOUS
  <1>4. N \in T
    <2> HIDE DEF T
    <2> QED BY <1>1, <1>2, <1>3, TurnInduction, Zenon
  <1> QED BY <1>3, <1>4, Zenon DEF Sums

\* A sum grows by what is appended.
LEMMA SumAppend ==
    ASSUME NEW v \in Seq(Int), NEW x \in Int
    PROVE  SumOver(Append(v, x)) = SumOver(v) + x /\ SumOver(v) \in Int
  <1>0. Append(v, x) \in Seq(Int)
    OBVIOUS
  <1>1. PICK w \in Seq(Int) : w = Append(v, x)
    BY <1>0, Zenon
  <1>2. /\ Len(v) \in Nat /\ Len(w) = Len(v) + 1 /\ w[Len(w)] = x
        /\ Len(v) <= Len(v) /\ Len(v) <= Len(w) /\ Len(w) \in 1 .. Len(w) /\ Len(w) - 1 = Len(v)
        /\ \A i \in 1 .. Len(v) : v[i] = w[i]
    BY <1>1
  <1>3. PICK f : Sums(f, v) /\ SumOver(v) = f[Len(v)]
    BY SumRun
  <1>4. PICK g : Sums(g, w) /\ SumOver(w) = g[Len(w)]
    BY SumRun
  <1>5. f[Len(v)] = g[Len(v)] /\ f[Len(v)] \in Int
    BY <1>2, <1>3, <1>4, SumsAgree, Zenon
  <1>6. g[Len(w)] = g[Len(w) - 1] + w[Len(w)]
    BY <1>2, <1>4, Zenon DEF Sums
  <1> QED BY <1>1, <1>2, <1>3, <1>4, <1>5, <1>6

\* Nothing adds up to 0.
LEMMA SumNothing == ASSUME NEW v \in Seq(Int), Len(v) = 0 PROVE SumOver(v) = 0
  BY SumRun, Zenon DEF Sums

\* The sum of differences is the difference of the sums.
LEMMA SumMinus ==
    ASSUME NEW u \in Seq(Int), NEW v \in Seq(Int), NEW w \in Seq(Int),
           Len(u) = Len(v), Len(w) = Len(v), \A i \in 1 .. Len(v) : u[i] = v[i] - w[i]
    PROVE  SumOver(u) = SumOver(v) - SumOver(w)
  <1>1. PICK f : Sums(f, u) /\ SumOver(u) = f[Len(u)]
    BY SumRun
  <1>2. PICK g : Sums(g, v) /\ SumOver(v) = g[Len(v)]
    BY SumRun
  <1>3. PICK h : Sums(h, w) /\ SumOver(w) = h[Len(w)]
    BY SumRun
  <1> DEFINE N == Len(v)
             T == {n \in 0 .. N : f[n] = g[n] - h[n]}
  <1>4. N \in Nat /\ N \in 0 .. N
    OBVIOUS
  <1>5. 0 \in T
    BY <1>1, <1>2, <1>3, <1>4 DEF Sums
  <1>6. ASSUME NEW n \in 1 .. N, n - 1 \in T PROVE n \in T
    <2>1. f[n] = f[n - 1] + u[n] /\ g[n] = g[n - 1] + v[n] /\ h[n] = h[n - 1] + w[n]
      BY <1>1, <1>2, <1>3 DEF Sums
    <2>2. n - 1 \in 0 .. N /\ n \in 0 .. N /\ u[n] = v[n] - w[n] /\ v[n] \in Int /\ w[n] \in Int
      BY <1>4
    <2>3. g[n - 1] \in Int /\ h[n - 1] \in Int
      BY <1>2, <1>3, <2>2, Zenon DEF Sums
    <2>4. f[n - 1] = g[n - 1] - h[n - 1]
      BY <1>6
    <2>5. f[n] = g[n] - h[n]
      <3>1. PICK a \in Int, b \in Int, c \in Int, d \in Int :
                a = g[n - 1] /\ b = h[n - 1] /\ c = v[n] /\ d = w[n]
        BY <2>2, <2>3, Zenon
      <3>2. f[n] = (a - b) + (c - d) /\ g[n] = a + c /\ h[n] = b + d
        BY <2>1, <2>2, <2>4, <3>1
      <3> QED BY <3>2
    <2> QED BY <2>2, <2>5
  <1>7. N \in T
    <2> HIDE DEF T, N
    <2> QED BY <1>4, <1>5, <1>6, TurnInduction, Zenon
  <1> QED BY <1>1, <1>2, <1>3, <1>7

----------------------------------------------------------------------------
(* The announced size.                                                     *)

Lens == [k \in DOMAIN net |-> net[k].len]

Span(i) == To(i) - From(i)

\* The sizes of the first n intervals as they are sent.
Spans(n) == [i \in 1 .. n |-> Span(i)]

\* Until a stop the packets have the bytes of the intervals behind the loop and
\* those sent of the interval it is at.
Counted ==
    spc # "idle" /\ keep_running =>
        /\ idx <= Len(asked) + 1
        /\ SumOver(Lens) = SumOver(Spans(idx - 1)) + IF Sending THEN sent_in_interval ELSE 0

\* A sequence that has the elements of s and then x is s with x appended.
LEMMA IsAppend ==
    ASSUME NEW s \in Seq(Int), NEW x \in Int, NEW t \in Seq(Int), Len(t) = Len(s) + 1,
           \A i \in 1 .. Len(s) : t[i] = s[i], t[Len(s) + 1] = x
    PROVE  t = Append(s, x)
  <1>1. PICK u \in Seq(Int) : u = Append(s, x)
    <2>1. Append(s, x) \in Seq(Int)
      OBVIOUS
    <2> QED BY <2>1
  <1>2. Len(u) = Len(t) /\ Len(t) \in Nat /\ (\A i \in 1 .. Len(t) : t[i] = u[i])
    BY <1>1
  <1>3. t = [i \in 1 .. Len(t) |-> t[i]] /\ u = [i \in 1 .. Len(t) |-> u[i]]
    BY <1>2
  <1> QED BY <1>1, <1>2, <1>3

\* The lengths of packets are numbers.
LEMMA LensType == ASSUME net \in Seq(DataPackets) PROVE Lens \in Seq(Int) /\ Len(Lens) = Len(net)
  <1>1. \A k \in 1 .. Len(net) : net[k].len \in Int
    <2> TAKE k \in 1 .. Len(net)
    <2>1. net[k] \in DataPackets
      OBVIOUS
    <2> QED BY <2>1 DEF DataPackets
  <1>2. DOMAIN net = 1 .. Len(net) /\ Len(net) \in Nat
    OBVIOUS
  <1> QED BY <1>1, <1>2 DEF Lens

\* The sizes of one more interval.
LEMMA SpansType ==
    ASSUME Askable(asked), NEW n \in 0 .. Len(asked)
    PROVE  /\ Spans(n) \in Seq(Int) /\ Len(Spans(n)) = n
           /\ n < Len(asked) => Span(n + 1) \in Int /\ Spans(n + 1) = Append(Spans(n), Span(n + 1))
  <1>1. Len(asked) \in Nat /\ DOMAIN asked = 1 .. Len(asked)
    BY DEF Askable
  <1>2. \A i \in 1 .. Len(asked) : Span(i) \in Int
    BY <1>1, IntervalBounds DEF Span
  <1>3. Spans(n) \in Seq(Int) /\ Len(Spans(n)) = n
    BY <1>1, <1>2 DEF Spans
  <1>4. ASSUME n < Len(asked) PROVE Span(n + 1) \in Int /\ Spans(n + 1) = Append(Spans(n), Span(n + 1))
    <2>1. n + 1 \in 1 .. Len(asked) /\ n + 1 \in Nat /\ n \in Nat
      BY <1>1, <1>4
    <2>2. PICK s \in Seq(Int) : s = Spans(n)
      BY <1>3
    <2>3. PICK x \in Int : x = Span(n + 1)
      BY <1>2, <2>1
    <2>4. Len(s) = n /\ \A i \in 1 .. n : s[i] = Span(i)
      BY <1>3, <2>2 DEF Spans
    <2>5. PICK t \in Seq(Int) : t = Spans(n + 1)
      <3>1. Spans(n + 1) \in Seq(Int)
        BY <1>1, <1>2, <2>1 DEF Spans
      <3> QED BY <3>1
    <2>6. Len(t) = n + 1 /\ \A i \in 1 .. n + 1 : t[i] = Span(i)
      BY <2>1, <2>5 DEF Spans
    <2>7. \A i \in 1 .. Len(s) : t[i] = s[i]
      BY <2>1, <2>4, <2>6
    <2>8. t[Len(s) + 1] = x /\ Len(t) = Len(s) + 1
      BY <2>1, <2>3, <2>4, <2>6
    <2> QED BY <2>2, <2>3, <2>5, <2>7, <2>8, IsAppend
  <1> QED BY <1>3, <1>4

\* The return from dtp_server_poll_loop: an interval that is left before a stop
\* has been sent to its end.
LEMMA CountedAtPollReturn ==
    ASSUME IInv, Counted, PollReturn, spc \in {"test", "send"}, asked' = asked
    PROVE  Counted'
  <1>1. /\ spc' = IF MoreToSend /\ keep_running THEN "poll" ELSE "interval"
        /\ idx' = IF MoreToSend /\ keep_running THEN idx ELSE idx + 1
        /\ UNCHANGED <<keep_running, sent_in_interval, net>>
    BY DEF PollReturn, PollReturnTo
  <1>2. Lens' = Lens /\ (\A n : Spans(n)' = Spans(n))
    BY <1>1 DEF Lens, Spans, Span, From, To
  <1>3. /\ idx \in DOMAIN asked /\ Askable(asked) /\ From(idx) + bytes_in_interval = To(idx)
        /\ sent_in_interval \in Nat /\ bytes_in_interval \in Nat
        /\ sent_in_interval <= bytes_in_interval
    BY DEF IInv, Position, Sending, TypeOK
  <1>4. /\ Len(asked) \in Nat /\ idx \in 1 .. Len(asked) /\ idx - 1 \in 0 .. Len(asked)
        /\ idx - 1 < Len(asked) /\ (idx - 1) + 1 = idx
    BY <1>3 DEF Askable
  <1> SUFFICES ASSUME keep_running PROVE Counted'
    BY <1>1 DEF Counted
  <1>5. SumOver(Lens) = SumOver(Spans(idx - 1)) + sent_in_interval
    BY DEF Counted, Sending
  <1>6. CASE MoreToSend
    BY <1>1, <1>2, <1>4, <1>5, <1>6 DEF Counted, Sending
  <1>7. CASE ~MoreToSend
    <2>1. sent_in_interval = Span(idx)
      <3>1. From(idx) \in Nat /\ To(idx) \in Nat
        BY <1>3, IntervalBounds
      <3>2. PICK a \in Nat, b \in Nat : a = From(idx) /\ b = To(idx)
        BY <3>1
      <3>3. a + bytes_in_interval = b /\ bytes_in_interval = sent_in_interval
        BY <1>3, <1>7, <3>2 DEF MoreToSend
      <3>4. sent_in_interval = b - a
        BY <1>3, <3>3
      <3> QED BY <3>2, <3>4 DEF Span
    <2>2. /\ Spans(idx - 1) \in Seq(Int) /\ Span(idx) \in Int
          /\ Spans(idx) = Append(Spans(idx - 1), Span(idx))
      <3>1. PICK n \in 0 .. Len(asked) : n = idx - 1
        BY <1>4
      <3> QED BY <1>3, <1>4, <3>1, SpansType, Zenon
    <2>3. SumOver(Spans(idx)) = SumOver(Lens) /\ SumOver(Lens) \in Int
      BY <1>5, <2>1, <2>2, SumAppend
    <2>4. idx' = idx + 1 /\ spc' = "interval" /\ idx' - 1 = idx /\ idx' <= Len(asked) + 1
      BY <1>1, <1>4, <1>7
    <2> QED BY <1>2, <2>3, <2>4 DEF Counted, Sending
  <1> QED BY <1>6, <1>7

\* A packet adds its length to both sides.
LEMMA CountedAtSend == ASSUME IInv, Counted, Send PROVE Counted'
  <1>1. /\ spc = "send" /\ spc' = "test" /\ UNCHANGED <<idx, asked>>
        /\ net' = Append(net, DataPacket(bytes_sent, packet_length))
        /\ sent_in_interval' = sent_in_interval + packet_length
        /\ keep_running' => keep_running
    BY DEF Send, SendPacket
  <1>2. /\ net \in Seq(DataPackets) /\ sent_in_interval \in Nat /\ bytes_in_interval \in Nat
        /\ Askable(asked) /\ idx \in DOMAIN asked
    BY <1>1 DEF IInv, TypeOK, Position, Sending
  <1>3. packet_length \in Int
    BY <1>2, WireAssumption DEF packet_length, remaining
  <1> SUFFICES ASSUME keep_running PROVE Counted'
    BY <1>1 DEF Counted
  <1>4. idx <= Len(asked) + 1 /\ SumOver(Lens) = SumOver(Spans(idx - 1)) + sent_in_interval
    BY <1>1 DEF Counted, Sending
  <1>5. Lens' = Append(Lens, packet_length)
    <2>1. PICK n \in Nat : n = Len(net)
      BY <1>2
    <2>2. /\ DOMAIN net = 1 .. n /\ DOMAIN net' = 1 .. n + 1
          /\ \A k \in 1 .. n : net'[k] = net[k]
          /\ net'[n + 1].len = packet_length
      BY <1>1, <1>2, <2>1 DEF DataPacket
    <2>3. PICK s \in Seq(Int) : s = Lens /\ Len(s) = n
      BY <1>2, <2>1, LensType
    <2>4. /\ Lens' = [k \in 1 .. n + 1 |-> net'[k].len]
          /\ \A k \in 1 .. n : s[k] = net[k].len
      BY <2>2, <2>3 DEF Lens
    <2>5. \A k \in 1 .. n + 1 : net'[k].len \in Int
      <3>1. \A k \in 1 .. n : net[k].len \in Int
        BY <2>3, <2>4
      <3> QED BY <1>3, <2>2, <3>1
    <2>6. PICK t \in Seq(Int) : t = Lens'
      <3>1. Lens' \in Seq(Int)
        BY <2>4, <2>5
      <3> QED BY <3>1
    <2>7. Len(t) = n + 1 /\ \A k \in 1 .. n + 1 : t[k] = net'[k].len
      BY <2>4, <2>6
    <2>8. (\A k \in 1 .. Len(s) : t[k] = s[k]) /\ t[Len(s) + 1] = packet_length /\ Len(t) = Len(s) + 1
      BY <2>2, <2>3, <2>4, <2>7
    <2> QED BY <1>3, <2>3, <2>6, <2>8, IsAppend
  <1>6. SumOver(Lens') = SumOver(Lens) + packet_length
    BY <1>2, <1>3, <1>5, LensType, SumAppend
  <1>7. Spans(idx - 1)' = Spans(idx - 1)
    BY <1>1 DEF Spans, Span, From, To
  <1>8. SumOver(Spans(idx - 1)) \in Int
    <2>1. PICK n \in 0 .. Len(asked) : n = idx - 1
      BY <1>2 DEF Askable
    <2>2. Spans(n) \in Seq(Int)
      BY <1>2, SpansType
    <2> QED BY <2>1, <2>2, SumAppend
  <1> QED BY <1>1, <1>2, <1>3, <1>4, <1>6, <1>7, <1>8 DEF Counted, Sending

\* Every step keeps the count.
LEMMA CountedStep ==
    ASSUME IInv, IdleClear, Counted, [Next]_vars
    PROVE  Counted'
  <1>0. ASSUME UNCHANGED <<net, asked, idx>>, spc # "idle", keep_running' => keep_running,
               (IF Sending THEN sent_in_interval ELSE 0)' = IF Sending THEN sent_in_interval ELSE 0
        PROVE  Counted'
    <2>1. Lens' = Lens /\ Spans(idx - 1)' = Spans(idx - 1)
      BY <1>0 DEF Lens, Spans, Span, From, To
    <2> QED BY <1>0, <2>1 DEF Counted
  <1>1. ASSUME NEW r \in Requests, Request(r) PROVE Counted'
    <2>1. spc' = "interval" /\ asked' = r /\ idx' = 1 /\ net' = <<>>
      BY <1>1 DEF Request, start_sending_data, IdleClear
    <2>2. Len(r) \in Nat
      BY RequestsAssumption DEF Askable
    <2>3. /\ Lens' \in Seq(Int) /\ Len(Lens') = 0
          /\ Spans(0)' \in Seq(Int) /\ Len(Spans(0)') = 0
      BY <2>1 DEF Lens, Spans
    <2>4. SumOver(Lens') = 0 /\ SumOver(Spans(0)') = 0
      BY <2>3, SumNothing
    <2>5. 1 - 1 = 0 /\ 0 + 0 = 0 /\ 1 <= Len(r) + 1
      BY <2>2
    <2>6. SumOver(Spans(idx - 1))' = 0
      BY <2>1, <2>4, <2>5 DEF Spans, Span, From, To
    <2> QED BY <2>1, <2>4, <2>5, <2>6 DEF Counted, Sending
  <1>2. CASE Send
    BY <1>2, CountedAtSend
  <1>3. CASE ReadNothing
    BY <1>3, CountedAtPollReturn DEF ReadNothing, histories
  <1>4. CASE GetBuffer
    <2>1. UNCHANGED <<net, asked, idx, keep_running, sent_in_interval>> /\ spc = "test" /\ spc' = "send"
      BY <1>4 DEF GetBuffer, LoopEnter, histories
    <2> QED BY <1>0, <2>1 DEF Sending
  <1>5. CASE Control
    <2>1. asked' = asked
      BY <1>5 DEF Control, histories
    <2>2. CASE NextInterval
      <3>1. /\ spc = "interval" /\ spc' = "poll" /\ sent_in_interval' = 0
            /\ UNCHANGED <<net, idx, keep_running>>
        BY <2>2 DEF NextInterval
      <3> QED BY <1>0, <2>1, <3>1 DEF Sending
    <2>3. CASE TransferDone
      BY <2>3 DEF TransferDone, Counted
    <2>4. CASE PollWakeup
      <3>1. /\ UNCHANGED <<net, idx, keep_running, sent_in_interval>>
            /\ spc = "poll" /\ spc' = "test"
        BY <2>4 DEF PollWakeup
      <3> QED BY <1>0, <2>1, <3>1 DEF Sending
    <2>5. CASE LoopExit \/ NoBuffer
      BY <2>1, <2>5, CountedAtPollReturn DEF LoopExit, NoBuffer
    <2> QED BY <1>5, <2>2, <2>3, <2>4, <2>5 DEF Control
  <1>6. CASE Stop
    BY <1>6 DEF Stop, StopSending, Counted
  <1>7. CASE PayloadDel \/ PayloadAdd \/ UNCHANGED vars
    <2>1. UNCHANGED <<net, asked, idx, spc, keep_running, sent_in_interval>>
      BY <1>7 DEF PayloadDel, PayloadAdd, vars, serverVars
    <2>2. CASE spc = "idle"
      BY <2>1, <2>2 DEF Counted
    <2>3. CASE spc # "idle"
      BY <1>0, <2>1, <2>3 DEF Sending
    <2> QED BY <2>2, <2>3
  <1> QED BY <1>1, <1>2, <1>3, <1>4, <1>5, <1>6, <1>7 DEF Next

\* What the server announces, exactly: an open interval as it is sent, each
\* interval with an end without its last packet.
AnnouncedShort ==
    RanToEnd =>
        LET cut == SumOver([i \in DOMAIN asked |->
                       IF asked[i].end = UINT32_MAX THEN 0
                       ELSE interval_stop(asked[i]) - asked[i].end * Chunk])
        IN  compute_transfer_size(asked, PayloadSize, Chunk) = TotalSent - cut

\* An interval is announced with its size as sent, less its last packet if it
\* has an end.
LEMMA AnnouncedIs ==
    ASSUME IInv, Counted
    PROVE  AnnouncedShort
  <1> SUFFICES ASSUME spc = "interval", idx > Len(intervals), keep_running
               PROVE  AnnouncedShort
    BY DEF AnnouncedShort, RanToEnd
  <1> DEFINE n == Len(asked)
             size(i) == IF asked[i].end = UINT32_MAX THEN PayloadSize - asked[i].start * Chunk
                        ELSE asked[i].end * Chunk - asked[i].start * Chunk
             cut(i) == IF asked[i].end = UINT32_MAX THEN 0
                       ELSE interval_stop(asked[i]) - asked[i].end * Chunk
             sizes == [i \in DOMAIN asked |-> size(i)]
             cuts == [i \in DOMAIN asked |-> cut(i)]
  <1>1. /\ Askable(asked) /\ n \in Nat /\ DOMAIN asked = 1 .. n /\ n \in 0 .. n
        /\ idx \in Nat /\ Len(intervals) = n /\ asked \in Seq(Intervals)
    BY DEF IInv, TypeOK, RestAsAsked, Askable
  <1>2. idx - 1 = n /\ SumOver(Lens) = SumOver(Spans(n)) + 0
    <2>1. idx <= n + 1 /\ SumOver(Lens) = SumOver(Spans(idx - 1)) + 0
      BY DEF Counted, Sending
    <2>2. idx - 1 = n
      BY <1>1, <2>1
    <2> QED BY <2>1, <2>2
  <1>3. Spans(n) \in Seq(Int) /\ Len(Spans(n)) = n
    BY <1>1, SpansType
  <1>4. ASSUME NEW i \in 1 .. n PROVE size(i) \in Int /\ cut(i) \in Int /\ size(i) = Span(i) - cut(i)
    <2>1. asked[i] \in Intervals
      BY <1>1
    <2>2. PICK a \in Int, b \in Int : a = asked[i].start * Chunk /\ b = interval_stop(asked[i])
      <3>1. From(i) \in Nat /\ To(i) \in Nat
        BY <1>1, IntervalBounds
      <3> QED BY <3>1 DEF From, To
    <2>3. Span(i) = b - a
      BY <2>2 DEF Span, From, To
    <2>4. CASE asked[i].end = UINT32_MAX
      <3>1. b = PayloadSize /\ PayloadSize \in Int
        BY <2>2, <2>4, WireAssumption DEF interval_stop
      <3>2. size(i) = PayloadSize - a /\ cut(i) = 0
        BY <2>2, <2>4
      <3> HIDE DEF size, cut
      <3> QED BY <2>3, <3>1, <3>2
    <2>5. CASE asked[i].end # UINT32_MAX
      <3>1. PICK c \in Int : c = asked[i].end * Chunk
        <4>1. asked[i].end \in Nat
          BY <2>1, <2>5 DEF Intervals
        <4> QED BY <4>1, WireAssumption
      <3>2. size(i) = c - a /\ cut(i) = b - c
        BY <2>2, <2>5, <3>1
      <3> HIDE DEF size, cut
      <3> QED BY <2>3, <3>1, <3>2
    <2> QED BY <2>4, <2>5, Zenon
  <1> HIDE DEF size, cut
  <1>5. /\ sizes \in Seq(Int) /\ cuts \in Seq(Int) /\ Len(sizes) = n /\ Len(cuts) = n
        /\ \A i \in 1 .. n : sizes[i] = size(i) /\ cuts[i] = cut(i) /\ Spans(n)[i] = Span(i)
    BY <1>1, <1>4 DEF Spans
  <1>6. SumOver(sizes) = SumOver(Spans(n)) - SumOver(cuts)
    <2>1. \A i \in 1 .. n : sizes[i] = Spans(n)[i] - cuts[i]
      BY <1>4, <1>5, Zenon
    <2>2. Len(Spans(n)) = n /\ Len(sizes) = Len(Spans(n)) /\ Len(cuts) = Len(Spans(n))
      BY <1>3, <1>5
    <2>3. \A i \in 1 .. Len(Spans(n)) : sizes[i] = Spans(n)[i] - cuts[i]
      BY <2>1, <2>2, Zenon
    <2> HIDE DEF sizes, cuts, n
    <2> QED BY <1>3, <1>5, <2>2, <2>3, SumMinus, Zenon
  <1>7. SumOver(Lens) = SumOver(Spans(n))
    BY <1>2, <1>3, SumAppend
  <1>8. compute_transfer_size(asked, PayloadSize, Chunk) = SumOver(sizes)
    BY DEF compute_transfer_size, size
  <1>9. compute_transfer_size(asked, PayloadSize, Chunk) = SumOver(Lens) - SumOver(cuts)
    BY <1>6, <1>7, <1>8
  <1> QED BY <1>9 DEF AnnouncedShort, TotalSent, Lens, cut

\* For every request: the size that compute_transfer_size announces is that of
\* the packets of a transfer nobody stopped, less the last packet of every
\* interval that has an end.
THEOREM ServerAnnounces == Spec => []AnnouncedShort
  <1>1. Init => Counted
    BY DEF Init, ServerInit, Counted
  <1>2. IInv /\ IdleClear /\ Counted /\ [Next]_vars => Counted'
    BY CountedStep
  <1>3. IInv /\ Counted => AnnouncedShort
    BY AnnouncedIs
  <1> QED BY <1>1, <1>2, <1>3, ServerInvariant, IdleIsClear, PTL DEF Spec

----------------------------------------------------------------------------
(* How far a transfer is from its end.                                     *)

\* Intervals to go, counting the way out of the loop; bytes to go in the
\* interval the server is in; and the place in a round.  A round that has sent
\* its packets comes before the sleep that ends it.
IntervalsToGo == IF spc = "idle" THEN 0 ELSE Len(asked) + 2 - idx

BytesToGo == IF Sending THEN remaining ELSE PayloadSize + 1

PlaceInRound == IF spc = "test"
                THEN IF pkt_cnt >= PacketsPerRound THEN 3 ELSE 1
                ELSE IF spc = "poll" THEN 2 ELSE 0

ToGo == IntervalsToGo \in Nat /\ BytesToGo \in Nat /\ PlaceInRound \in 0 .. 3

Nearer ==
    \/ IntervalsToGo' < IntervalsToGo
    \/ /\ IntervalsToGo' = IntervalsToGo
       /\ \/ BytesToGo' < BytesToGo
          \/ BytesToGo' = BytesToGo /\ PlaceInRound' < PlaceInRound

NotFarther ==
    \/ IntervalsToGo' < IntervalsToGo
    \/ IntervalsToGo' = IntervalsToGo /\ BytesToGo' <= BytesToGo

\* Every step of the server task but two gets the transfer nearer to its end:
\* only a round without a buffer and a read from a payload that is gone do not.
\* These two lose nothing, and neither does a stop or a change of the payload.
\* So a transfer that does not end waits for ever for one of the two.
Forward ==
    /\ Send \/ GetBuffer \/ (Control /\ ~NoBuffer) => Nearer
    /\ spc # "idle" => NotFarther

\* A round starts with no packet counted, and the index is in the request or
\* just behind it.
RoundStart ==
    /\ spc \in {"interval", "poll"} => pkt_cnt = 0
    /\ spc = "idle" => pkt_cnt = 0
    /\ spc # "idle" => idx <= Len(asked) + 1

\* RoundStart holds: every way out of dtp_server_poll_loop forgets the count.
LEMMA RoundStartStep ==
    ASSUME IInv, IdleClear, RoundStart, [Next]_vars
    PROVE  RoundStart'
  <1>1. idx \in Nat /\ Len(asked) \in Nat
    BY DEF IInv, TypeOK
  <1>2. Sending => idx <= Len(asked)
    BY DEF IInv, Position, TypeOK
  <1>3. ASSUME NEW r \in Requests, Request(r) PROVE RoundStart'
    <2>1. spc = "idle" /\ spc' = "interval" /\ idx' = 1 /\ asked' = r /\ pkt_cnt' = pkt_cnt
      BY <1>3 DEF Request, start_sending_data, IdleClear
    <2>2. Len(r) \in Nat
      BY RequestsAssumption DEF Askable
    <2> QED BY <2>1, <2>2 DEF RoundStart
  <1>4. CASE Send
    BY <1>1, <1>2, <1>4 DEF Send, SendPacket, RoundStart, Sending
  <1>5. ASSUME PollReturn, spc \in {"test", "send"}, asked' = asked PROVE RoundStart'
    BY <1>1, <1>2, <1>5 DEF PollReturn, PollReturnTo, RoundStart, Sending
  <1>6. CASE ReadNothing
    BY <1>5, <1>6 DEF ReadNothing, histories
  <1>7. CASE GetBuffer
    BY <1>7 DEF GetBuffer, LoopEnter, histories, RoundStart
  <1>8. CASE Control
    <2>1. asked' = asked
      BY <1>8 DEF Control, histories
    <2>2. CASE NextInterval
      BY <2>1, <2>2 DEF NextInterval, RoundStart
    <2>3. CASE TransferDone
      BY <2>3 DEF TransferDone, ForgetTransfer, RoundStart
    <2>4. CASE PollWakeup
      BY <2>1, <2>4 DEF PollWakeup, RoundStart
    <2>5. CASE LoopExit \/ NoBuffer
      BY <1>5, <2>1, <2>5 DEF LoopExit, NoBuffer
    <2> QED BY <1>8, <2>2, <2>3, <2>4, <2>5 DEF Control
  <1>9. CASE Stop \/ PayloadDel \/ PayloadAdd \/ UNCHANGED vars
    <2>1. UNCHANGED <<spc, idx, asked, pkt_cnt>>
      BY <1>9 DEF Stop, StopSending, PayloadDel, PayloadAdd, vars, serverVars
    <2> QED BY <2>1 DEF RoundStart
  <1> QED BY <1>3, <1>4, <1>6, <1>7, <1>8, <1>9 DEF Next

\* What is to go is counted in natural numbers.
LEMMA ToGoType == ASSUME IInv, RoundStart PROVE ToGo
  <1>1. /\ idx \in Nat /\ Len(asked) \in Nat /\ sent_in_interval \in Nat
        /\ bytes_in_interval \in Nat
    BY DEF IInv, TypeOK
  <1>2. IntervalsToGo \in Nat
    BY <1>1 DEF IntervalsToGo, RoundStart
  <1>3. BytesToGo \in Nat
    BY <1>1, WireAssumption DEF BytesToGo, remaining, IInv, Position
  <1>4. PlaceInRound \in 0 .. 3
    BY DEF PlaceInRound
  <1> QED BY <1>2, <1>3, <1>4 DEF ToGo

\* The way out of a round: the interval is done or dropped, or the round sleeps.
LEMMA PollReturnForward ==
    ASSUME IInv, spc \in {"test", "send"}, PollReturn, asked' = asked
    PROVE  /\ NotFarther
           /\ spc = "test" /\ pkt_cnt >= PacketsPerRound => Nearer
           /\ ~keep_running => Nearer
  <1>1. idx \in Nat /\ Len(asked) \in Nat /\ sent_in_interval \in Nat /\ bytes_in_interval \in Nat
    BY DEF IInv, TypeOK
  <1>2. UNCHANGED remaining /\ remaining \in Int
    BY <1>1 DEF PollReturn, PollReturnTo, remaining
  <1>3. CASE MoreToSend /\ keep_running
    <2>1. spc' = "poll" /\ idx' = idx
      BY <1>3 DEF PollReturn, PollReturnTo
    <2>2. IntervalsToGo' = IntervalsToGo
      BY <2>1 DEF IntervalsToGo
    <2>3. BytesToGo' = BytesToGo /\ BytesToGo \in Int
      BY <1>2, <2>1 DEF BytesToGo, Sending
    <2>4. spc = "test" /\ pkt_cnt >= PacketsPerRound => PlaceInRound' < PlaceInRound
      BY <2>1 DEF PlaceInRound
    <2> QED BY <1>3, <2>2, <2>3, <2>4 DEF Nearer, NotFarther
  <1>4. CASE ~(MoreToSend /\ keep_running)
    <2>1. spc' = "interval" /\ idx' = idx + 1
      BY <1>4 DEF PollReturn, PollReturnTo
    <2>2. IntervalsToGo' < IntervalsToGo
      BY <1>1, <2>1 DEF IntervalsToGo
    <2> QED BY <2>2 DEF Nearer, NotFarther
  <1> QED BY <1>3, <1>4

\* Every step goes forward.
LEMMA ForwardStep ==
    ASSUME IInv, RoundStart, ToGo', Next
    PROVE  Forward
  <1>1. /\ idx \in Nat /\ Len(asked) \in Nat /\ sent_in_interval \in Nat
        /\ bytes_in_interval \in Nat /\ pkt_cnt \in Nat
        /\ PacketsPerRound \in Nat \ {0} /\ Chunk \in Nat \ {0} /\ PayloadSize \in Nat
    BY RoundAssumption, WireAssumption DEF IInv, TypeOK
  <1>2. BytesToGo \in Int /\ IntervalsToGo \in Int
    BY ToGoType DEF ToGo
  <1>3. Nearer => NotFarther
    BY <1>2 DEF Nearer, NotFarther, ToGo
  <1>4. ASSUME NEW r \in Requests, Request(r) PROVE Forward
    BY <1>4 DEF Request, start_sending_data, Forward, Send, SendPacket, GetBuffer, LoopEnter,
                Control, NextInterval, TransferDone, PollWakeup, LoopExit, NoBuffer
  <1>5. CASE Send
    <2>1. /\ spc = "send" /\ spc' = "test" /\ idx' = idx /\ asked' = asked
          /\ sent_in_interval' = sent_in_interval + packet_length
          /\ bytes_in_interval' = bytes_in_interval
      BY <1>5 DEF Send, SendPacket
    <2>2. MoreToSend
      BY <2>1 DEF IInv, Position, Sending
    <2>3. packet_length \in Nat \ {0}
      BY <1>1, <2>2 DEF packet_length, remaining, MoreToSend
    <2>4. BytesToGo' < BytesToGo
      BY <1>1, <2>1, <2>3 DEF BytesToGo, Sending, remaining
    <2>5. IntervalsToGo' = IntervalsToGo
      BY <2>1 DEF IntervalsToGo
    <2> QED BY <1>3, <2>4, <2>5 DEF Nearer, Forward
  <1>6. CASE ReadNothing
    <2>1. spc = "send" /\ ~present /\ NotFarther
      BY <1>6, PollReturnForward DEF ReadNothing, histories
    <2> QED BY <2>1 DEF Forward, Send, GetBuffer, LoopEnter, Control, NextInterval,
                        TransferDone, PollWakeup, LoopExit, NoBuffer
  <1>7. CASE GetBuffer
    <2>1. /\ spc = "test" /\ pkt_cnt < PacketsPerRound /\ spc' = "send"
          /\ UNCHANGED <<idx, asked, sent_in_interval, bytes_in_interval>>
      BY <1>7 DEF GetBuffer, LoopEnter, histories
    <2>2. IntervalsToGo' = IntervalsToGo /\ BytesToGo' = BytesToGo
      BY <2>1 DEF IntervalsToGo, BytesToGo, Sending, remaining
    <2>3. PlaceInRound' < PlaceInRound
      BY <1>1, <2>1 DEF PlaceInRound
    <2> QED BY <1>3, <2>2, <2>3 DEF Nearer, Forward
  <1>8. CASE Control
    <2>1. asked' = asked
      BY <1>8 DEF Control, histories
    <2>2. CASE NextInterval
      <3>1. /\ spc = "interval" /\ spc' = "poll" /\ idx' = idx /\ sent_in_interval' = 0
            /\ bytes_in_interval' = interval_stop(intervals[idx]) - intervals[idx].start * Chunk
            /\ idx <= Len(intervals)
        BY <2>2 DEF NextInterval
      <3>2. idx \in DOMAIN asked /\ intervals[idx] = asked[idx]
        BY <1>1, <3>1 DEF IInv, RestAsAsked, TypeOK
      <3>3. bytes_in_interval' = To(idx) - From(idx)
        BY <3>1, <3>2 DEF To, From
      <3>4. To(idx) \in Nat /\ From(idx) \in Nat /\ To(idx) <= PayloadSize
        BY <3>2, IntervalBounds DEF IInv
      <3>5. BytesToGo = PayloadSize + 1 /\ BytesToGo' = To(idx) - From(idx) - 0
        BY <3>1, <3>3 DEF BytesToGo, Sending, remaining
      <3>6. BytesToGo' < BytesToGo
        BY <1>1, <3>4, <3>5
      <3>7. IntervalsToGo' = IntervalsToGo
        BY <2>1, <3>1 DEF IntervalsToGo
      <3> QED BY <1>3, <3>6, <3>7 DEF Nearer, Forward
    <2>3. CASE TransferDone
      <3>1. spc = "interval" /\ spc' = "idle"
        BY <2>3 DEF TransferDone
      <3>2. IntervalsToGo' < IntervalsToGo
        BY <1>1, <3>1 DEF IntervalsToGo, RoundStart
      <3> QED BY <1>3, <3>2 DEF Nearer, Forward
    <2>4. CASE PollWakeup
      <3>1. /\ spc = "poll" /\ spc' = "test"
            /\ UNCHANGED <<idx, sent_in_interval, bytes_in_interval, pkt_cnt>>
        BY <2>4 DEF PollWakeup
      <3>2. IntervalsToGo' = IntervalsToGo /\ BytesToGo' = BytesToGo
        BY <2>1, <3>1 DEF IntervalsToGo, BytesToGo, Sending, remaining
      <3>3. PlaceInRound' < PlaceInRound
        BY <1>1, <3>1 DEF PlaceInRound, RoundStart
      <3> QED BY <1>3, <3>2, <3>3 DEF Nearer, Forward
    <2>5. CASE LoopExit
      <3>1. Nearer
        BY <2>1, <2>5, PollReturnForward DEF LoopExit
      <3> QED BY <1>3, <3>1 DEF Forward
    <2>6. CASE NoBuffer
      <3>1. NotFarther /\ spc = "test" /\ pkt_cnt < PacketsPerRound /\ keep_running
        BY <2>1, <2>6, PollReturnForward DEF NoBuffer
      <3>2. ~Send /\ ~(Control /\ ~NoBuffer)
        BY <2>6, <3>1 DEF Send, SendPacket
      <3>3. ~GetBuffer
        BY <2>6 DEF GetBuffer, LoopEnter, NoBuffer, PollReturn, PollReturnTo
      <3> QED BY <3>1, <3>2, <3>3 DEF Forward
    <2> QED BY <1>8, <2>2, <2>3, <2>4, <2>5, <2>6 DEF Control
  <1>9. CASE Stop \/ PayloadDel \/ PayloadAdd
    <2>1. UNCHANGED <<spc, idx, asked, sent_in_interval, bytes_in_interval>>
      BY <1>9 DEF Stop, StopSending, PayloadDel, PayloadAdd, serverVars
    <2>2. IntervalsToGo' = IntervalsToGo /\ BytesToGo' = BytesToGo
      BY <2>1 DEF IntervalsToGo, BytesToGo, Sending, remaining
    <2>3. NotFarther
      BY <1>2, <2>2 DEF NotFarther
    <2>4. ~Send /\ ~GetBuffer
      BY <2>1 DEF Send, SendPacket, GetBuffer, LoopEnter
    <2>5. ~Control \/ NoBuffer
      BY <2>1 DEF Control, NextInterval, TransferDone, PollWakeup, LoopExit, PollReturn,
                  PollReturnTo
    <2> QED BY <2>3, <2>4, <2>5 DEF Forward
  <1> QED BY <1>4, <1>5, <1>6, <1>7, <1>8, <1>9 DEF Next

\* The part of TransferEnds that needs no fairness, for every request, payload,
\* pool and round length: what is to go is counted in natural numbers and every
\* step of the server but a round without a buffer and a read from a payload that
\* is gone takes something from it, while nothing that happens during a transfer
\* adds to it.
THEOREM ServerGoesForward == Spec => []ToGo /\ [][Forward]_vars
  <1>1. Init => RoundStart
    BY DEF Init, ServerInit, RoundStart
  <1>2. IInv /\ IdleClear /\ RoundStart /\ [Next]_vars => RoundStart'
    BY RoundStartStep
  <1>3. IInv /\ RoundStart => ToGo
    BY ToGoType
  <1>4. IInv /\ RoundStart /\ ToGo' /\ [Next]_vars => [Forward]_vars
    BY ForwardStep
  <1> QED BY <1>1, <1>2, <1>3, <1>4, ServerInvariant, IdleIsClear, PTL DEF Spec
=============================================================================
