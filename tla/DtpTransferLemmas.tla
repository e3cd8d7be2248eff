------------------------- MODULE DtpTransferLemmas -------------------------
(***************************************************************************)
(* The inductive invariant of DtpTransfer, and that the steps which leave  *)
(* the lists of segments alone keep it: those of the server, the link and  *)
(* the receive loop.  The other steps are in DtpTransferProofs.            *)
(***************************************************************************)
EXTENDS DtpTransfer, TLAPS

----------------------------------------------------------------------------
(* The inductive invariant.                                                *)

Messages == [kind : {"data"}, off : Int, len : Int]
            \cup [kind : {"resp"}, size : Nat, live : BOOLEAN]

Types ==
    /\ TypeOK
    /\ hook \in [segments : SegmentsCtx, received : SegmentsCtx \cup {NoList}]
    /\ reqs \in Seq([request : Seq(Intervals), live : BOOLEAN])
    /\ net \in Seq(Messages)
    /\ spc \in {"idle", "interval", "poll", "test", "send"}
    /\ intervals \in Seq(Intervals) /\ idx \in Nat \ {0}
    /\ bytes_sent \in Int /\ sent_in_interval \in Int /\ bytes_in_interval \in Int
    /\ pkt_cnt \in Nat
    /\ spc = "idle" => idx = 1
    /\ after_stop \in Int

\* What a session may ask for: ascending intervals that start inside the
\* payload; only the last one may be open.
Askable(req) ==
    /\ req \in Seq(Intervals) /\ req # <<>>
    /\ \A i \in DOMAIN req :
          /\ req[i].start <= LastSeq
          /\ req[i].end # UINT32_MAX =>
                req[i].start <= req[i].end /\ req[i].end <= PayloadSize \div Chunk
    /\ \A i, j \in DOMAIN req : i < j => req[i].end # UINT32_MAX /\ req[i].end < req[j].start

Sending == spc \in {"poll", "test", "send"}

\* Where the server stands in interval r.
Position(r) ==
    /\ bytes_sent = r.start * Chunk + sent_in_interval
    /\ r.start * Chunk + bytes_in_interval = interval_stop(r)
    /\ 0 <= sent_in_interval /\ sent_in_interval <= bytes_in_interval
    /\ MoreToSend => \E q \in 0 .. PayloadSize : bytes_sent = q * Chunk
    /\ spc # "test" \/ pkt_cnt < PacketsPerRound => MoreToSend

\* The server, when it is at work, serves req: the intervals the loop has not
\* reached are as the client sent them.
Serves(req) ==
    spc # "idle" =>
        /\ Len(intervals) = Len(req)
        /\ \A i \in DOMAIN req :
               idx < i \/ (idx = i /\ spc = "interval") => intervals[i] = req[i]
        /\ Sending => idx \in DOMAIN req /\ Position(req[idx])

\* The server has yet to send only what comes after offset off.
Behind(off, req) ==
    /\ Sending => off < bytes_sent
    /\ spc = "interval" => \A i \in DOMAIN req : idx <= i => off < req[i].start * Chunk

\* A packet a request asks for, as the server sends it.
Carries(m, req) == \E q \in Wanted(req) : m = DataPacket(q * Chunk, PacketLen(q))

\* From message n on, the link has the packets of this session, in order, and
\* the server serves it or has done so.
StreamFrom(n) ==
    /\ reqs = <<>>
    /\ Serves(session.request)
    /\ \A k \in n .. Len(net) : Carries(net[k], session.request)
    /\ \A k, l \in n .. Len(net) : k < l => net[k].off < net[l].off
    /\ \A k \in n .. Len(net) : Behind(net[k].off, session.request)

IsLive(m) == m.kind = "resp" /\ m.live

\* The session's connection: its request is the last one queued, or has been
\* answered, and what follows the answer is this session's.
LinkInv ==
    /\ \A i \in DOMAIN reqs : reqs[i].live =>
          pc = "meta" /\ i = Len(reqs) /\ reqs[i].request = session.request
    /\ \A i \in DOMAIN net : IsLive(net[i]) =>
          pc = "meta" /\ net[i].size = PayloadSize /\ StreamFrom(i + 1)
    /\ pc \in {"bind", "loop", "recv"} => StreamFrom(1)
    /\ pc \in {"loop", "recv"} =>
          /\ \A k \in DOMAIN net : loop.prev * Chunk <= net[k].off
          /\ Behind(loop.prev * Chunk, session.request)

\* What the .meta file says is true of the output file.
MetaInv ==
    meta.state = "saved" =>
        /\ meta.payload_size = PayloadSize
        /\ meta.bytes_received = Bytes(Claimed)
        /\ Separated(meta.segments)
        /\ Claimed \subseteq Seqs /\ Claimed \subseteq output

InSession == pc \in {"prepared", "meta", "bind", "loop", "recv", "end"}

Loaded == IF meta.state = "saved" THEN LoadSegments(meta.segments) ELSE NoList

\* The packets received in this session.
Got == Claims(hook.segments)

\* A download that is given up has a hole, unless compute_dtp_metrics waits for
\* a packet beyond the payload.
Interrupted(S) == S # Seqs \/ (metric_last_packet > LastSeq /\ PayloadSize % Chunk = 0)

\* The list under construction and the count of bytes are of the packets that
\* were asked for and written.
SessionInv ==
    InSession =>
        /\ hook.received = Loaded
        /\ Askable(session.request)
        /\ meta.state = "saved" => ResumeAsksForMissing
        /\ Wanted(session.request) \cap Claimed = {}
        /\ Building(hook.segments)
        /\ hook.segments.started # FALSE => hook.segments.cur # NoSegment
        /\ Got \subseteq Wanted(session.request)
        /\ Got \subseteq output \cup unflushed
        /\ session.bytes_received = Bytes(Claimed \cup Got)
        /\ pc \in {"prepared", "meta", "bind"} => Got = {}
        /\ pc \in {"bind", "loop", "recv", "end"} => session.payload_size = PayloadSize
        /\ pc \in {"loop", "recv"} =>
              Got \subseteq 0 .. loop.prev /\ loop.prev < metric_last_packet /\ loop.idle <= TimeoutRounds
        /\ pc = "end" => /\ result = "ok" => Claimed \cup Got = Seqs
                         /\ result = "cancelled" => Interrupted(Claimed \cup Got)
                         /\ result \in {"ok", "cancelled"}

\* The session that is handed back.
DoneInv ==
    pc \in {"returned", "saving", "saved"} =>
        /\ Separated(hook.segments.segments)
        /\ Cover(hook.segments.segments) \subseteq Seqs
        /\ Cover(hook.segments.segments) \subseteq output
        /\ session.bytes_received = Bytes(Cover(hook.segments.segments))
        /\ session.payload_size = PayloadSize
        /\ result \in {"ok", "cancelled"}
        /\ result = "ok" => output = Seqs
        /\ pc = "returned" => /\ Claimed \subseteq Cover(hook.segments.segments)
                              /\ result = "cancelled" => Interrupted(Cover(hook.segments.segments))
        /\ pc = "saving" => meta = TornMeta

FilesInv ==
    /\ pc \notin {"loop", "recv", "end"} => unflushed = {}
    /\ pc # "idle" => result # "exhausted"
    /\ ExhaustedCharacterised

\* A stop is seen before the second packet.
StopInv ==
    /\ pc \in {"prepared", "meta"} => after_stop = NoStop
    /\ pc \in {"bind", "loop", "recv"} /\ after_stop # NoStop => ~session.active
    /\ pc = "recv" /\ after_stop # NoStop => after_stop = 0
    /\ after_stop \in {NoStop, 0, 1}

Inv == Types /\ LinkInv /\ MetaInv /\ SessionInv /\ DoneInv /\ FilesInv /\ StopInv

----------------------------------------------------------------------------
(* Arithmetic of chunks; elements of sequences.                            *)

\* An element of a sequence has its type.
LEMMA ElementType == ASSUME NEW S, NEW s \in Seq(S), NEW i \in DOMAIN s PROVE s[i] \in S
  OBVIOUS

\* The fields of a .meta file that was written to the end.
LEMMA SavedFields ==
    ASSUME Types, meta.state = "saved"
    PROVE  meta.segments \in Seq(Segments) /\ meta.bytes_received \in Nat
  <1>1. meta \in SavedMeta \cup {NoMeta, TornMeta}
    BY DEF Types, TypeOK
  <1>2. meta \in SavedMeta
    BY <1>1 DEF NoMeta, TornMeta
  <1> QED BY <1>2 DEF SavedMeta, Segments

\* Multiplying by the chunk size keeps the order.
LEMMA MulMono == ASSUME NEW a \in Int, NEW b \in Int, a <= b
                 PROVE  a * Chunk <= b * Chunk /\ a * Chunk \in Int /\ b * Chunk \in Int
  BY WireAssumption

\* A larger number starts at least a chunk later.
LEMMA MulStrict == ASSUME NEW a \in Int, NEW b \in Int, a < b
                   PROVE  /\ a * Chunk + Chunk <= b * Chunk /\ a * Chunk < b * Chunk
                          /\ (a + 1) * Chunk = a * Chunk + Chunk
  <1>1. (a + 1) * Chunk <= b * Chunk
    BY MulMono
  <1>2. (a + 1) * Chunk = a * Chunk + Chunk
    BY WireAssumption
  <1>3. a * Chunk \in Int /\ b * Chunk \in Int /\ Chunk \in Nat /\ Chunk > 0
    BY WireAssumption
  <1> QED BY <1>1, <1>2, <1>3

\* The order of offsets is that of the numbers.
LEMMA MulOrder == ASSUME NEW a \in Int, NEW b \in Int
                  PROVE  /\ a * Chunk < b * Chunk <=> a < b
                         /\ a * Chunk <= b * Chunk <=> a <= b
                         /\ a * Chunk = b * Chunk <=> a = b
  <1>1. a * Chunk \in Int /\ b * Chunk \in Int
    BY WireAssumption
  <1>2. CASE a < b
    BY <1>1, <1>2, MulStrict
  <1>3. CASE a = b
    BY <1>1, <1>3
  <1>4. CASE b < a
    BY <1>1, <1>4, MulStrict
  <1> QED BY <1>2, <1>3, <1>4

\* The packet number computed from an offset.
LEMMA SeqOf == ASSUME NEW q \in Nat PROVE (q * Chunk) \div Chunk = q
  BY WireAssumption

\* The last packet of the payload.
LEMMA LastPacket ==
    /\ LastSeq \in Nat
    /\ LastSeq * Chunk < PayloadSize
    /\ PayloadSize <= (LastSeq + 1) * Chunk
    /\ LastSeq * Chunk \in Nat /\ (LastSeq + 1) * Chunk = LastSeq * Chunk + Chunk
  <1> DEFINE x == PayloadSize - 1
  <1>1. x \in Nat /\ Chunk \in Nat /\ Chunk > 0
    BY WireAssumption
  <1>2. PayloadSize = x + 1 /\ LastSeq = x \div Chunk
    BY WireAssumption DEF LastSeq
  <1> HIDE DEF x
  <1>3. /\ x \div Chunk \in Nat /\ (x \div Chunk) * Chunk <= x
        /\ x < (x \div Chunk) * Chunk + Chunk
    BY <1>1
  <1>4. (LastSeq + 1) * Chunk = LastSeq * Chunk + Chunk /\ LastSeq * Chunk \in Nat
    BY <1>1, <1>2, <1>3
  <1> QED BY <1>1, <1>2, <1>3, <1>4

\* The end of the list that get_complement_segment is called with is the last
\* packet, or the one after it when the payload is a whole number of chunks.
LEMMA EndOfPayload ==
    /\ PayloadSize \div Chunk \in Nat
    /\ \/ PayloadSize \div Chunk = LastSeq
       \/ PayloadSize \div Chunk = LastSeq + 1 /\ PayloadSize % Chunk = 0
  <1> DEFINE e == PayloadSize \div Chunk
             m == PayloadSize % Chunk
  <1>1. Chunk \in Nat /\ Chunk > 0 /\ PayloadSize \in Nat
    BY WireAssumption
  <1>2. e \in Nat /\ m \in Nat /\ PayloadSize = e * Chunk + m /\ m < Chunk /\ e * Chunk \in Nat
    BY <1>1
  <1>3. PayloadSize % Chunk = m /\ PayloadSize \div Chunk = e
    OBVIOUS
  <1> HIDE DEF e, m
  <1>4. e <= LastSeq + 1
    <2>1. e * Chunk <= (LastSeq + 1) * Chunk
      BY <1>1, <1>2, LastPacket
    <2> QED BY <1>2, <2>1, LastPacket, MulOrder
  <1>5. LastSeq <= e
    <2>1. (e + 1) * Chunk = e * Chunk + Chunk
      BY <1>1, <1>2
    <2>2. LastSeq * Chunk < (e + 1) * Chunk
      BY <1>1, <1>2, <2>1, LastPacket
    <2>3. LastSeq < e + 1
      BY <1>2, <2>2, LastPacket, MulOrder
    <2> QED BY <1>2, <2>3, LastPacket
  <1>6. e = LastSeq + 1 => m = 0
    BY <1>1, <1>2, LastPacket
  <1> QED BY <1>2, <1>3, <1>4, <1>5, <1>6, LastPacket

\* Every packet has at least one byte and at most a chunk.
LEMMA PacketLength == ASSUME NEW q \in Seqs PROVE PacketLen(q) \in Nat /\ 0 < PacketLen(q) /\ PacketLen(q) <= Chunk
  BY LastPacket, WireAssumption DEF PacketLen, Seqs

----------------------------------------------------------------------------
(* The server serves a request.                                            *)

\* The bytes of an interval: not empty, and up to a chunk boundary or the end.
LEMMA IntervalBounds ==
    ASSUME NEW req, Askable(req), NEW i \in DOMAIN req
    PROVE  /\ req[i] \in Intervals /\ req[i].start \in Nat
           /\ req[i].start * Chunk \in Nat /\ interval_stop(req[i]) \in Nat
           /\ req[i].start * Chunk < interval_stop(req[i]) /\ interval_stop(req[i]) <= PayloadSize
           /\ \/ interval_stop(req[i]) = PayloadSize
              \/ req[i].end \in Nat /\ interval_stop(req[i]) = (req[i].end + 1) * Chunk
           /\ req[i].end # UINT32_MAX =>
                 req[i].end \in Nat /\ interval_stop(req[i]) <= (req[i].end + 1) * Chunk
  <1> DEFINE s == req[i].start
             e == req[i].end
             To == interval_stop(req[i])
  <1>1. req[i] \in Intervals
    BY ElementType, Zenon DEF Askable
  <1>2. s \in Nat /\ e \in Nat \cup {UINT32_MAX}
    BY <1>1 DEF Intervals
  <1>3. s <= LastSeq /\ (e # UINT32_MAX => s <= e)
    BY DEF Askable
  <1>4. To = IF e # UINT32_MAX /\ (e + 1) * Chunk <= PayloadSize
             THEN (e + 1) * Chunk ELSE PayloadSize
    BY DEF interval_stop
  <1> HIDE DEF s, e, To
  <1>5. s * Chunk \in Nat /\ s * Chunk < PayloadSize /\ PayloadSize \in Nat
    <2>1. s * Chunk <= LastSeq * Chunk /\ s * Chunk \in Nat
      BY <1>2, <1>3, LastPacket, MulMono, WireAssumption
    <2> QED BY <2>1, LastPacket, WireAssumption
  <1>6. e # UINT32_MAX => e \in Nat /\ (e + 1) * Chunk \in Nat /\ s * Chunk < (e + 1) * Chunk
    <2> SUFFICES ASSUME e # UINT32_MAX PROVE e \in Nat /\ (e + 1) * Chunk \in Nat /\ s * Chunk < (e + 1) * Chunk
      OBVIOUS
    <2>1. e \in Nat /\ e + 1 \in Int /\ s < e + 1
      BY <1>2, <1>3
    <2> QED BY <1>2, <2>1, MulStrict, WireAssumption
  <1>7. /\ To \in Nat /\ s * Chunk < To /\ To <= PayloadSize
        /\ To = PayloadSize \/ (e \in Nat /\ To = (e + 1) * Chunk)
        /\ e # UINT32_MAX => e \in Nat /\ To <= (e + 1) * Chunk
    BY <1>4, <1>5, <1>6
  <1> QED BY <1>1, <1>2, <1>5, <1>7 DEF s, e, To

\* Later intervals start behind earlier ones.
LEMMA IntervalsAscend ==
    ASSUME NEW req, Askable(req), NEW i \in DOMAIN req, NEW j \in DOMAIN req, i < j
    PROVE  interval_stop(req[i]) <= req[j].start * Chunk
  <1> DEFINE s == req[j].start
             e == req[i].end
             To == interval_stop(req[i])
  <1>1. e # UINT32_MAX /\ e < s
    BY DEF Askable
  <1>2. s \in Nat /\ e \in Nat /\ To \in Nat /\ To <= (e + 1) * Chunk
    BY <1>1, IntervalBounds
  <1> HIDE DEF s, e, To
  <1>3. (e + 1) * Chunk <= s * Chunk /\ (e + 1) * Chunk \in Int /\ s * Chunk \in Int
    BY <1>1, <1>2, MulMono
  <1>4. To <= s * Chunk
    BY <1>2, <1>3
  <1> QED BY <1>4 DEF s, To

\* A packet that starts at a chunk boundary inside an interval is the packet the
\* request asks for, with all of its bytes.
LEMMA PacketOf ==
    ASSUME NEW req, Askable(req), NEW i \in DOMAIN req, NEW q \in Nat,
           req[i].start * Chunk <= q * Chunk, q * Chunk < interval_stop(req[i]),
           NEW rest \in Nat, q * Chunk + rest = interval_stop(req[i])
    PROVE  /\ q \in Wanted(req)
           /\ PacketLen(q) = IF rest > Chunk THEN Chunk ELSE rest
  <1> DEFINE s == req[i].start
             e == req[i].end
             To == interval_stop(req[i])
  <1>1. /\ s \in Nat /\ To \in Nat /\ To <= PayloadSize
        /\ To = PayloadSize \/ (e \in Nat /\ To = (e + 1) * Chunk)
        /\ e # UINT32_MAX => e \in Nat /\ To <= (e + 1) * Chunk
    BY IntervalBounds
  <1>2. s * Chunk <= q * Chunk /\ q * Chunk < To /\ q * Chunk + rest = To
    OBVIOUS
  <1>3. s = req[i].start /\ e = req[i].end
    OBVIOUS
  <1> HIDE DEF s, e, To
  <1>4. q * Chunk \in Nat /\ PayloadSize \in Nat /\ Chunk \in Nat /\ Chunk > 0
    BY WireAssumption
  <1>5. s <= q
    BY <1>1, <1>2, MulOrder
  <1>6. q <= LastSeq
    <2>1. q * Chunk < (LastSeq + 1) * Chunk
      BY <1>1, <1>2, <1>4, LastPacket
    <2>2. q < LastSeq + 1
      BY <2>1, LastPacket, MulOrder
    <2> QED BY <2>2, LastPacket
  <1>7. e # UINT32_MAX => q <= e
    <2> SUFFICES ASSUME e # UINT32_MAX PROVE q <= e
      OBVIOUS
    <2>1. e \in Nat /\ To <= (e + 1) * Chunk /\ (e + 1) * Chunk \in Int
      BY <1>1, WireAssumption
    <2>2. q * Chunk < (e + 1) * Chunk
      BY <1>1, <1>2, <1>4, <2>1
    <2>3. q < e + 1
      BY <2>1, <2>2, MulOrder
    <2> QED BY <2>1, <2>3
  <1>8. q \in Wanted(req)
    BY <1>3, <1>5, <1>6, <1>7, LastPacket DEF Wanted, Seqs
  <1>9. PacketLen(q) = IF rest > Chunk THEN Chunk ELSE rest
    <2>1. CASE q < LastSeq
      <3>1. q * Chunk + Chunk <= LastSeq * Chunk
        BY <2>1, LastPacket, MulStrict
      <3>2. q * Chunk + Chunk <= PayloadSize
        BY <1>4, <3>1, LastPacket
      <3>3. rest >= Chunk
        <4>1. CASE To = PayloadSize
          BY <1>2, <1>4, <3>2, <4>1
        <4>2. CASE e \in Nat /\ To = (e + 1) * Chunk
          <5>1. e # UINT32_MAX
            BY <4>2 DEF UINT32_MAX
          <5>2. q < e + 1 /\ e + 1 \in Int
            BY <1>7, <4>2, <5>1
          <5>3. q * Chunk + Chunk <= (e + 1) * Chunk
            BY <5>2, MulStrict
          <5> QED BY <1>1, <1>2, <1>4, <4>2, <5>3
        <4> QED BY <1>1, <4>1, <4>2
      <3> QED BY <1>4, <2>1, <3>3 DEF PacketLen
    <2>2. CASE q = LastSeq
      <3>1. To = PayloadSize
        <4> SUFFICES ASSUME e \in Nat, To = (e + 1) * Chunk PROVE To = PayloadSize
          BY <1>1
        <4>1. e # UINT32_MAX
          BY DEF UINT32_MAX
        <4>2. LastSeq + 1 <= e + 1
          BY <1>7, <2>2, <4>1, LastPacket
        <4>3. (LastSeq + 1) * Chunk <= (e + 1) * Chunk
          BY <4>2, LastPacket, MulMono
        <4> QED BY <1>1, <1>4, <4>3, LastPacket
      <3>2. rest = PayloadSize - LastSeq * Chunk /\ rest <= Chunk
        BY <1>2, <1>4, <2>2, <3>1, LastPacket
      <3> QED BY <1>4, <2>2, <3>2, LastPacket DEF PacketLen
    <2> QED BY <1>6, <2>1, <2>2, LastPacket
  <1> QED BY <1>8, <1>9

\* The request of the session and what the server has in hand, for its steps.
Answering == Types /\ Askable(session.request) /\ Serves(session.request) /\ session' = session

\* Nothing that was behind the server comes in front of it.
StaysBehind ==
    \A off \in Int : Behind(off, session.request) => Behind(off, session.request)'

\* The loop turns to an interval it has not touched.
LEMMA NextIntervalServes ==
    ASSUME Answering, NextInterval
    PROVE  Serves(session.request)' /\ StaysBehind /\ net' = net
  <1> DEFINE req == session.request
             r == intervals[idx]
  <1>1. /\ spc = "interval" /\ spc' = "poll" /\ idx <= Len(intervals)
        /\ UNCHANGED <<idx, keep_running, pkt_cnt, net>>
        /\ sent_in_interval' = 0
        /\ bytes_sent' = r.start * Chunk
        /\ bytes_in_interval' = interval_stop(r) - r.start * Chunk
        /\ intervals' = [intervals EXCEPT ![idx].end = IF @ = UINT32_MAX THEN fixed_end ELSE @]
    BY DEF NextInterval
  <1>2. /\ Askable(req) /\ session' = session /\ intervals \in Seq(Intervals) /\ idx \in Nat \ {0}
        /\ Len(intervals) = Len(req) /\ req \in Seq(Intervals)
        /\ \A i \in DOMAIN req : idx < i \/ idx = i => intervals[i] = req[i]
    BY <1>1 DEF Answering, Types, Serves, Askable
  <1>3. idx \in DOMAIN req /\ idx \in DOMAIN intervals /\ DOMAIN req = 1 .. Len(req)
    BY <1>1, <1>2
  <1>4. r = req[idx]
    BY <1>2, <1>3
  <1> DEFINE From == req[idx].start * Chunk
             To == interval_stop(req[idx])
  <1>5. From \in Nat /\ To \in Nat /\ From < To /\ req[idx].start \in Nat /\ To <= PayloadSize
    BY <1>2, <1>3, IntervalBounds
  <1>6. bytes_sent' = From /\ bytes_in_interval' = To - From
    BY <1>1, <1>4
  <1>7. /\ Len(intervals') = Len(intervals)
        /\ \A i \in DOMAIN req : i # idx => intervals'[i] = intervals[i]
    BY <1>1, <1>2, <1>3
  <1>8. Position(req[idx])'
    <2>1. From \in Int /\ To \in Int /\ (req[idx])' = req[idx] /\ interval_stop(req[idx])' = To
      BY <1>1, <1>2, <1>5 DEF interval_stop
    <2>2. /\ bytes_sent' = From + sent_in_interval' /\ From + bytes_in_interval' = To
          /\ 0 <= sent_in_interval' /\ sent_in_interval' <= bytes_in_interval'
          /\ sent_in_interval' < bytes_in_interval'
      <3> HIDE DEF From, To
      <3> QED BY <1>1, <1>5, <1>6
    <2>3. \E q \in 0 .. PayloadSize : bytes_sent' = q * Chunk
      <3>1. req[idx].start \in 0 .. PayloadSize
        <4> DEFINE s == req[idx].start
        <4>1. s \in Nat /\ s * Chunk < PayloadSize
          BY <1>5, WireAssumption
        <4> HIDE DEF s
        <4>2. s <= s * Chunk
          BY <4>1, WireAssumption
        <4>3. s \in 0 .. PayloadSize
          BY <4>1, <4>2, WireAssumption
        <4> QED BY <4>3 DEF s
      <3> QED BY <1>6, <3>1
    <2> QED BY <1>2, <2>1, <2>2, <2>3 DEF Position, MoreToSend
  <1>9. Serves(session.request)'
    <2>1. Len(intervals') = Len(session'.request)
      BY <1>2, <1>7
    <2>2. \A i \in DOMAIN session'.request :
             idx' < i \/ (idx' = i /\ spc' = "interval") => intervals'[i] = session'.request[i]
      BY <1>1, <1>2, <1>3, <1>7
    <2>3. idx' \in DOMAIN session'.request
      BY <1>1, <1>2, <1>3
    <2>4. (Position(session.request[idx]))'
      BY <1>8
    <2> QED BY <2>1, <2>2, <2>3, <2>4 DEF Serves
  <1>10. StaysBehind
    <2> SUFFICES ASSUME NEW off \in Int, Behind(off, session.request)
                 PROVE  off < bytes_sent'
      BY <1>1 DEF StaysBehind, Behind, Sending
    <2> QED BY <1>1, <1>2, <1>3, <1>6 DEF Behind
  <1> QED BY <1>1, <1>9, <1>10

\* The transfer is over.
LEMMA TransferDoneServes ==
    ASSUME Answering, TransferDone
    PROVE  Serves(session.request)' /\ StaysBehind /\ net' = net
  <1>1. spc' = "idle" /\ net' = net
    BY DEF TransferDone
  <1> QED BY <1>1 DEF Serves, StaysBehind, Behind, Sending

\* Moving between the control points of a round, with a packet's worth left.
LEMMA RoundServes ==
    ASSUME Answering, PollWakeup \/ LoopEnter
    PROVE  Serves(session.request)' /\ StaysBehind /\ net' = net
  <1>1. /\ spc \in {"poll", "test"} /\ spc' \in {"test", "send"}
        /\ UNCHANGED <<intervals, idx, keep_running, bytes_sent, sent_in_interval,
                       bytes_in_interval, pkt_cnt, net>>
        /\ spc = "test" => pkt_cnt < PacketsPerRound
    BY DEF PollWakeup, LoopEnter
  <1>2. /\ Serves(session.request) /\ session' = session
        /\ idx \in DOMAIN session.request /\ Position(session.request[idx])
        /\ Len(intervals) = Len(session.request)
        /\ \A i \in DOMAIN session.request : idx < i => intervals[i] = session.request[i]
    BY <1>1 DEF Answering, Serves, Sending
  <1>3. MoreToSend
    BY <1>1, <1>2 DEF Position
  <1>4. (Position(session.request[idx]))'
    BY <1>1, <1>2, <1>3 DEF Position, MoreToSend, interval_stop
  <1>5. Serves(session.request)'
    BY <1>1, <1>2, <1>4 DEF Serves
  <1>6. StaysBehind
    BY <1>1, <1>2 DEF StaysBehind, Behind, Sending
  <1> QED BY <1>1, <1>5, <1>6

\* dtp_server_poll_loop returns.
LEMMA PollReturnServes ==
    ASSUME Answering, LoopExit \/ NoBuffer
    PROVE  Serves(session.request)' /\ StaysBehind /\ net' = net
  <1> DEFINE req == session.request
             again == MoreToSend /\ keep_running
  <1>1. /\ spc = "test"
        /\ spc' = IF again THEN "poll" ELSE "interval"
        /\ idx' = IF again THEN idx ELSE idx + 1
        /\ pkt_cnt' = 0
        /\ UNCHANGED <<intervals, keep_running, bytes_sent, sent_in_interval, bytes_in_interval, net>>
    BY DEF LoopExit, NoBuffer, PollReturn, PollReturnTo
  <1>2. /\ Askable(req) /\ session' = session /\ req \in Seq(Intervals)
        /\ idx \in DOMAIN req /\ Position(req[idx])
        /\ Len(intervals) = Len(req)
        /\ \A i \in DOMAIN req : idx < i => intervals[i] = req[i]
        /\ idx \in Nat \ {0} /\ \A i \in DOMAIN req : i \in Nat
        /\ bytes_sent \in Int /\ sent_in_interval \in Int /\ bytes_in_interval \in Int
    BY <1>1, SMTT(30) DEF Answering, Serves, Sending, Askable, Types
  <1>3. CASE again
    <2>1. spc' = "poll" /\ idx' = idx
      BY <1>1, <1>3
    <2>2. (Position(session.request[idx]))'
      BY <1>1, <1>2, <1>3, <2>1 DEF Position, MoreToSend, interval_stop
    <2>3. Serves(session.request)'
      BY <1>1, <1>2, <2>1, <2>2 DEF Serves
    <2>4. StaysBehind
      BY <1>1, <1>2, <2>1 DEF StaysBehind, Behind, Sending
    <2> QED BY <1>1, <2>3, <2>4
  <1>4. CASE ~again
    <2>1. spc' = "interval" /\ idx' = idx + 1
      BY <1>1, <1>4
    <2>2. Serves(session.request)'
      <3>1. \A i \in DOMAIN req : idx + 1 <= i => idx < i
        BY <1>2
      <3>2. \A i \in DOMAIN session'.request : (idx' < i \/ idx' = i) => intervals'[i] = session'.request[i]
        BY <1>1, <1>2, <2>1, <3>1
      <3>3. Len(intervals') = Len(session'.request) /\ ~Sending'
        BY <1>1, <1>2, <2>1 DEF Sending
      <3> QED BY <3>2, <3>3 DEF Serves
    <2>3. StaysBehind
      <3> SUFFICES ASSUME NEW off \in Int, Behind(off, session.request), NEW i \in DOMAIN req, idx + 1 <= i
                   PROVE  off < req[i].start * Chunk
        BY <1>1, <1>2, <2>1 DEF StaysBehind, Behind, Sending
      <3>1. off < bytes_sent
        BY <1>1 DEF Behind, Sending
      <3>2. interval_stop(req[idx]) <= req[i].start * Chunk
        BY <1>2, IntervalsAscend
      <3>3. /\ interval_stop(req[idx]) \in Int /\ req[i].start * Chunk \in Int /\ req[idx].start * Chunk \in Int
        BY <1>2, IntervalBounds, SMTT(30)
      <3>4. bytes_sent <= interval_stop(req[idx])
        <4> DEFINE From == req[idx].start * Chunk
                   To == interval_stop(req[idx])
        <4>1. /\ bytes_sent = From + sent_in_interval /\ From + bytes_in_interval = To
              /\ sent_in_interval <= bytes_in_interval
          BY <1>2 DEF Position
        <4>2. From \in Int /\ To \in Int
          BY <3>3
        <4> HIDE DEF From, To
        <4>3. bytes_sent <= To
          BY <1>2, <4>1, <4>2
        <4> QED BY <4>3 DEF To
      <3> DEFINE x == req[i].start * Chunk
                 To == interval_stop(req[idx])
      <3>5. x \in Int /\ To \in Int /\ bytes_sent <= To /\ To <= x /\ bytes_sent \in Int
        BY <1>2, <3>2, <3>3, <3>4
      <3> HIDE DEF x, To
      <3>6. off < x
        BY <3>1, <3>5
      <3> QED BY <3>6 DEF x
    <2> QED BY <1>1, <2>2, <2>3
  <1> QED BY <1>3, <1>4

\* A packet goes out: one the session asks for, whole, and after all that went
\* before.
LEMMA SendServes ==
    ASSUME Answering, SendPacket
    PROVE  \E q \in Wanted(session.request) :
              /\ net' = Append(net, DataPacket(q * Chunk, PacketLen(q)))
              /\ Serves(session.request)' /\ StaysBehind
              /\ \A off \in Int : Behind(off, session.request) => off < q * Chunk
              /\ Behind(q * Chunk, session.request)'
  <1> DEFINE req == session.request
             From == req[idx].start * Chunk
             To == interval_stop(req[idx])
             len == packet_length
  <1>1. /\ spc = "send" /\ spc' = "test"
        /\ net' = Append(net, DataPacket(bytes_sent, len))
        /\ bytes_sent' = bytes_sent + len
        /\ sent_in_interval' = sent_in_interval + len
        /\ pkt_cnt' = (IF remaining > Chunk THEN pkt_cnt ELSE PacketsPerRound) + 1
        /\ UNCHANGED <<intervals, idx, bytes_in_interval>>
    BY DEF SendPacket
  <1>2. /\ Askable(req) /\ session' = session /\ req \in Seq(Intervals)
        /\ idx \in DOMAIN req /\ Position(req[idx])
        /\ Len(intervals) = Len(req)
        /\ \A i \in DOMAIN req : idx < i => intervals[i] = req[i]
        /\ bytes_sent \in Int /\ sent_in_interval \in Int /\ bytes_in_interval \in Int /\ pkt_cnt \in Nat
    BY <1>1, Zenon DEF Answering, Serves, Sending, Askable, Types
  <1>3. /\ bytes_sent = From + sent_in_interval /\ From + bytes_in_interval = To
        /\ 0 <= sent_in_interval /\ sent_in_interval < bytes_in_interval
        /\ \E q \in 0 .. PayloadSize : bytes_sent = q * Chunk
    BY <1>1, <1>2 DEF Position, MoreToSend
  <1>4. From \in Nat /\ To \in Nat /\ To <= PayloadSize
    BY <1>2, IntervalBounds
  <1>5. PICK q \in 0 .. PayloadSize : bytes_sent = q * Chunk
    BY <1>3
  <1>6. q \in Nat /\ Chunk \in Nat /\ Chunk > 0 /\ q * Chunk \in Nat /\ PayloadSize \in Nat
    BY WireAssumption
  <1>7. len = IF remaining > Chunk THEN Chunk ELSE remaining
    BY DEF packet_length
  <1>8. remaining = bytes_in_interval - sent_in_interval
    BY DEF remaining
  <1> HIDE DEF From, To, len
  <1>9. /\ remaining \in Nat /\ remaining > 0 /\ q * Chunk + remaining = To
        /\ From <= q * Chunk /\ q * Chunk < To
    BY <1>2, <1>3, <1>4, <1>5, <1>6, <1>8
  <1>10. /\ q \in Wanted(req) /\ PacketLen(q) = IF remaining > Chunk THEN Chunk ELSE remaining
    <2>1. /\ req[idx].start * Chunk <= q * Chunk /\ q * Chunk < interval_stop(req[idx])
          /\ q * Chunk + remaining = interval_stop(req[idx])
      BY <1>9 DEF From, To
    <2>2. Askable(req) /\ idx \in DOMAIN req /\ q \in Nat /\ remaining \in Nat
      BY <1>2, <1>6, <1>9
    <2> HIDE DEF req
    <2>3. q \in Wanted(req) /\ PacketLen(q) = IF remaining > Chunk THEN Chunk ELSE remaining
      BY <2>1, <2>2, PacketOf
    <2> QED BY <2>3 DEF req
  <1>11. net' = Append(net, DataPacket(q * Chunk, PacketLen(q)))
    BY <1>1, <1>5, <1>7, <1>10
  <1>12. len \in Nat /\ 0 < len /\ len <= remaining
    BY <1>6, <1>7, <1>9
  <1>13. (Position(session.request[idx]))'
    <2>1. /\ (session.request[idx])' = req[idx] /\ interval_stop(req[idx])' = To
      BY <1>1, <1>2 DEF interval_stop, To
    <2>2. /\ bytes_sent' = From + sent_in_interval' /\ From + bytes_in_interval' = To
          /\ 0 <= sent_in_interval' /\ sent_in_interval' <= bytes_in_interval'
      <3>1. bytes_in_interval' = bytes_in_interval /\ sent_in_interval' = sent_in_interval + len
        BY <1>1
      <3>2. bytes_sent' = From + sent_in_interval'
        <4>1. bytes_sent' = bytes_sent + len /\ bytes_sent = From + sent_in_interval
          BY <1>1, <1>3
        <4>2. From \in Int /\ sent_in_interval \in Int /\ len \in Int
          BY <1>2, <1>4, <1>12
        <4> QED BY <3>1, <4>1, <4>2
      <3>3. sent_in_interval + remaining = bytes_in_interval
        BY <1>2, <1>8, <1>9
      <3> QED BY <1>2, <1>3, <1>9, <1>12, <3>1, <3>2, <3>3
    <2>3. ASSUME sent_in_interval' < bytes_in_interval'
          PROVE  \E p \in 0 .. PayloadSize : bytes_sent' = p * Chunk
      <3>1. remaining > Chunk
        BY <1>1, <1>2, <1>6, <1>7, <1>8, <1>9, <2>3
      <3>2. bytes_sent' = (q + 1) * Chunk
        BY <1>1, <1>5, <1>6, <1>7, <3>1
      <3>3. q + 1 \in 0 .. PayloadSize
        <4>1. (q + 1) * Chunk < To
          BY <1>4, <1>5, <1>6, <1>9, <3>1
        <4>2. q + 1 <= (q + 1) * Chunk /\ (q + 1) * Chunk \in Nat
          BY <1>6
        <4> QED BY <1>4, <1>6, <4>1, <4>2
      <3> QED BY <3>2, <3>3
    <2>4. pkt_cnt' < PacketsPerRound => sent_in_interval' < bytes_in_interval'
      <3> SUFFICES ASSUME pkt_cnt' < PacketsPerRound PROVE sent_in_interval' < bytes_in_interval'
        OBVIOUS
      <3>1. remaining > Chunk
        BY <1>1, RoundAssumption
      <3> QED BY <1>1, <1>2, <1>6, <1>7, <1>8, <3>1
    <2>5. /\ (session.request[idx])'.start * Chunk = From /\ (interval_stop(session.request[idx]))' = To
      BY <2>1 DEF From, To, interval_stop
    <2> QED BY <1>1, <2>2, <2>3, <2>4, <2>5 DEF Position, MoreToSend
  <1>14. Serves(session.request)'
    BY <1>1, <1>2, <1>13 DEF Serves, Sending
  <1>15. bytes_sent < bytes_sent'
    BY <1>1, <1>2, <1>12
  <1>16. StaysBehind
    <2> SUFFICES ASSUME NEW off \in Int, Behind(off, session.request) PROVE off < bytes_sent'
      BY <1>1 DEF StaysBehind, Behind, Sending
    <2>1. off < bytes_sent
      BY <1>1 DEF Behind, Sending
    <2> QED BY <1>1, <1>2, <1>12, <1>15, <2>1
  <1>17. \A off \in Int : Behind(off, session.request) => off < q * Chunk
    BY <1>1, <1>5 DEF Behind, Sending
  <1>18. Behind(q * Chunk, session.request)'
    BY <1>1, <1>5, <1>15 DEF Behind, Sending
  <1> QED BY <1>10, <1>11, <1>14, <1>16, <1>17, <1>18

----------------------------------------------------------------------------
(* The steps of the server.                                                *)

\* What is said of the client's own state.
ClientInv == MetaInv /\ SessionInv /\ DoneInv /\ FilesInv /\ StopInv

\* A step of the others leaves it alone.
LEMMA ClientFrame ==
    ASSUME ClientInv, UNCHANGED <<pc, session, hook, loop, result, output, unflushed, meta, after_stop>>
    PROVE  ClientInv'
  <1>1. MetaInv'
    BY DEF ClientInv, MetaInv, Claimed
  <1>2. SessionInv'
    <2>1. Loaded' = Loaded /\ Got' = Got /\ Claimed' = Claimed
      BY DEF Loaded, Got, Claimed
    <2>2. metric_last_packet' = metric_last_packet
      BY DEF metric_last_packet
    <2>3. ResumeAsksForMissing' <=> ResumeAsksForMissing
      BY <2>1 DEF ResumeAsksForMissing, Receiving
    <2> QED BY <2>1, <2>2, <2>3, Zenon DEF ClientInv, SessionInv, InSession, Interrupted
  <1>3. DoneInv'
    BY Zenon DEF ClientInv, DoneInv, Claimed, Interrupted, metric_last_packet
  <1>4. FilesInv' /\ StopInv'
    BY DEF ClientInv, FilesInv, StopInv, ExhaustedCharacterised, Claimed
  <1> QED BY <1>1, <1>2, <1>3, <1>4 DEF ClientInv

\* The steps of the server keep the types.
LEMMA ServeTypes == ASSUME Types, Serve PROVE Types'
  <1>1. /\ UNCHANGED clientVars /\ after_stop' = after_stop
        /\ ServerStep /\ (spc = "send" => Len(net) < MaxInFlight)
    BY DEF Serve
  <1>2. /\ intervals \in Seq(Intervals) /\ idx \in Nat \ {0} /\ net \in Seq(Messages)
        /\ bytes_sent \in Int /\ sent_in_interval \in Int /\ bytes_in_interval \in Int
        /\ pkt_cnt \in Nat /\ spc \in {"idle", "interval", "poll", "test", "send"}
        /\ Chunk \in Nat /\ PayloadSize \in Nat /\ PacketsPerRound \in Nat /\ MaxInFlight \in Nat
        /\ Len(net) <= MaxInFlight
    BY WireAssumption, RoundAssumption, LinkAssumption DEF Types, TypeOK
  <1> DEFINE Goal == /\ intervals' \in Seq(Intervals) /\ idx' \in Nat \ {0} /\ net' \in Seq(Messages)
                     /\ bytes_sent' \in Int /\ sent_in_interval' \in Int /\ bytes_in_interval' \in Int
                     /\ pkt_cnt' \in Nat /\ spc' \in {"idle", "interval", "poll", "test", "send"}
                     /\ spc' = "idle" => idx' = 1
                     /\ Len(net') <= MaxInFlight
  <1>3. Goal
    <2>1. CASE NextInterval
      <3> DEFINE r == intervals[idx]
      <3>1. /\ idx \in DOMAIN intervals /\ spc' = "poll" /\ UNCHANGED <<idx, pkt_cnt, net>>
            /\ sent_in_interval' = 0
            /\ bytes_sent' = r.start * Chunk
            /\ bytes_in_interval' = interval_stop(r) - r.start * Chunk
            /\ intervals' = [intervals EXCEPT ![idx].end = IF @ = UINT32_MAX THEN fixed_end ELSE @]
        BY <1>2, <2>1 DEF NextInterval
      <3>2. r \in Intervals
        BY <1>2, <3>1, ElementType, Zenon
      <3>3. fixed_end \in Nat
        <4>1. fixed_end = PayloadSize \div Chunk \/ fixed_end = PayloadSize \div Chunk - 1
          BY DEF fixed_end
        <4>2. PayloadSize % Chunk = 0 => PayloadSize \div Chunk >= 1
          BY WireAssumption
        <4> QED BY <4>2, EndOfPayload, LastPacket, WireAssumption DEF fixed_end
      <3>4. intervals' \in Seq(Intervals)
        <4> DEFINE new == [intervals[idx] EXCEPT !.end = IF @ = UINT32_MAX THEN fixed_end ELSE @]
        <4>1. new \in Intervals
          BY <3>2, <3>3 DEF Intervals
        <4>2. intervals' = [intervals EXCEPT ![idx] = new]
          BY <3>1
        <4>3. idx \in DOMAIN intervals /\ intervals \in Seq(Intervals)
          BY <1>2, <3>1
        <4> HIDE DEF new
        <4> QED BY <4>1, <4>2, <4>3
      <3>5. r.start \in Nat /\ interval_stop(r) \in Int
        <4>1. r.start \in Nat /\ r.end \in Int
          BY <3>2 DEF Intervals, UINT32_MAX
        <4>2. (r.end + 1) * Chunk \in Int
          <5> HIDE DEF r
          <5> QED BY <1>2, <4>1
        <4> QED BY <1>2, <4>1, <4>2 DEF interval_stop
      <3>6. bytes_sent' \in Int /\ bytes_in_interval' \in Int
        <4> DEFINE s == r.start
                   t == interval_stop(r)
        <4>1. s \in Nat /\ t \in Int /\ bytes_sent' = s * Chunk /\ bytes_in_interval' = t - s * Chunk
          BY <3>1, <3>5
        <4> HIDE DEF s, t
        <4> QED BY <1>2, <4>1
      <3> HIDE DEF r
      <3> QED BY <1>2, <3>1, <3>4, <3>6, SMTT(30)
    <2>2. CASE TransferDone
      BY <1>2, <2>2 DEF TransferDone, ForgetTransfer
    <2>3. CASE PollWakeup \/ LoopEnter
      BY <1>2, <2>3, Zenon DEF PollWakeup, LoopEnter
    <2>4. CASE LoopExit \/ NoBuffer
      BY <1>2, <2>4, SMTT(30) DEF LoopExit, NoBuffer, PollReturn, PollReturnTo
    <2>5. CASE SendPacket
      <3>1. packet_length \in Int
        BY <1>2 DEF packet_length, remaining
      <3>2. DataPacket(bytes_sent, packet_length) \in Messages
        BY <1>2, <3>1 DEF DataPacket, Messages
      <3>3. net' \in Seq(Messages) /\ Len(net') <= MaxInFlight
        BY <1>1, <1>2, <2>5, <3>2 DEF SendPacket
      <3>4. /\ bytes_sent' \in Int /\ sent_in_interval' \in Int /\ bytes_in_interval' \in Int
            /\ pkt_cnt' \in Nat /\ spc' = "test" /\ intervals' = intervals /\ idx' = idx
        BY <1>2, <2>5, <3>1 DEF SendPacket
      <3> QED BY <1>2, <3>3, <3>4
    <2> QED BY <1>1, <2>1, <2>2, <2>3, <2>4, <2>5 DEF ServerStep
  <1> HIDE DEF Goal
  <1>4. TypeOK'
    BY <1>1, <1>3, Zenon DEF Types, TypeOK, clientVars, Goal
  <1> QED BY <1>1, <1>3, <1>4 DEF Types, clientVars, Goal

\* What the link carries, as a sequence.
LEMMA NetIsSeq == ASSUME Types PROVE net \in Seq(Messages) /\ Len(net) \in Nat /\ DOMAIN net = 1 .. Len(net)
  <1>1. net \in Seq(Messages)
    BY Zenon DEF Types
  <1> QED BY <1>1

\* What the link has for the session stays in order, and grows by packets of it.
LEMMA ServeStream ==
    ASSUME Types, Askable(session.request), Serve, NEW n \in Nat \ {0}, StreamFrom(n)
    PROVE  StreamFrom(n)'
  <1>1. /\ session' = session /\ reqs' = reqs /\ reqs = <<>> /\ ServerStep
        /\ Serves(session.request) /\ Types /\ net \in Seq(Messages) /\ Len(net) \in Nat
        /\ \A k \in n .. Len(net) : Carries(net[k], session.request)
        /\ \A k, l \in n .. Len(net) : k < l => net[k].off < net[l].off
        /\ \A k \in n .. Len(net) : Behind(net[k].off, session.request)
    BY NetIsSeq, Zenon DEF Serve, StreamFrom, clientVars
  <1>2. Answering
    BY <1>1 DEF Answering
  <1>3. \A k \in n .. Len(net) : k \in DOMAIN net /\ net[k].off \in Int
    <2> SUFFICES ASSUME NEW k \in n .. Len(net) PROVE k \in DOMAIN net /\ net[k].off \in Int
      OBVIOUS
    <2>1. PICK q \in Wanted(session.request) : net[k] = DataPacket(q * Chunk, PacketLen(q))
      BY <1>1 DEF Carries
    <2>2. q \in Nat /\ q * Chunk \in Int
      BY WireAssumption, LastPacket DEF Wanted, Seqs
    <2>3. k \in DOMAIN net
      BY NetIsSeq
    <2> QED BY <2>1, <2>2, <2>3 DEF DataPacket
  <1>4. CASE Serves(session.request)' /\ StaysBehind /\ net' = net
    <2>1. \A k \in n .. Len(net) : Behind(net[k].off, session.request)'
      <3> SUFFICES ASSUME NEW k \in n .. Len(net) PROVE Behind(net[k].off, session.request)'
        OBVIOUS
      <3>1. PICK o \in Int : o = net[k].off
        BY <1>3
      <3>2. Behind(o, session.request)'
        BY <1>1, <1>4, <3>1, Zenon DEF StaysBehind
      <3> QED BY <1>4, <3>1, <3>2 DEF Behind
    <2> QED BY <1>1, <1>4, <2>1, Zenon DEF StreamFrom
  <1>5. CASE SendPacket
    <2>1. PICK q \in Wanted(session.request) :
              /\ net' = Append(net, DataPacket(q * Chunk, PacketLen(q)))
              /\ Serves(session.request)' /\ StaysBehind
              /\ \A off \in Int : Behind(off, session.request) => off < q * Chunk
              /\ Behind(q * Chunk, session.request)'
      BY <1>2, <1>5, SendServes
    <2> DEFINE new == DataPacket(q * Chunk, PacketLen(q))
               L == Len(net)
    <2>2. new.off = q * Chunk
      BY DEF DataPacket
    <2> HIDE DEF new
    <2>3. /\ Len(net') = L + 1 /\ net'[L + 1] = new
          /\ \A k \in 1 .. L : net'[k] = net[k]
      BY <1>1, <2>1, SMTT(30) DEF new
    <2>4. \A k \in n .. Len(net') : (k \in n .. L /\ net'[k] = net[k]) \/ (k = L + 1 /\ net'[k] = new)
      <3> HIDE DEF L
      <3> QED BY <1>1, <2>3, SMTT(30) DEF L
    <2>5. \A k \in n .. Len(net') : Carries(net'[k], session'.request)
      <3> SUFFICES ASSUME NEW k \in n .. Len(net') PROVE Carries(net'[k], session.request)
        BY <1>1, Zenon
      <3>1. Carries(new, session.request)
        BY DEF Carries, new
      <3> QED BY <1>1, <2>4, <3>1, Zenon
    <2>6. \A k, l \in n .. Len(net') : k < l => net'[k].off < net'[l].off
      <3> SUFFICES ASSUME NEW k \in n .. Len(net'), NEW l \in n .. Len(net'), k < l
                   PROVE  net'[k].off < net'[l].off
        OBVIOUS
      <3>1. k \in n .. L /\ net'[k] = net[k]
        <4> SUFFICES ASSUME k = L + 1 PROVE FALSE
          BY <2>4
        <4> QED BY <1>1, <2>3, SMTT(30)
      <3>2. CASE l \in n .. L /\ net'[l] = net[l]
        BY <1>1, <3>1, <3>2, Zenon
      <3>3. CASE l = L + 1 /\ net'[l] = new
        BY <1>1, <1>3, <2>1, <2>2, <3>1, <3>3, Zenon
      <3> QED BY <2>4, <3>2, <3>3
    <2>7. \A k \in n .. Len(net') : Behind(net[k].off, session.request)'
      <3> SUFFICES ASSUME NEW k \in n .. Len(net') PROVE Behind(net[k].off, session.request)'
        OBVIOUS
      <3>1. CASE k \in n .. L /\ net'[k] = net[k]
        <4>1. PICK o \in Int : o = net[k].off
          BY <1>3, <3>1
        <4>2. Behind(o, session.request)'
          BY <1>1, <2>1, <3>1, <4>1, Zenon DEF StaysBehind
        <4> QED BY <3>1, <4>1, <4>2 DEF Behind
      <3>2. CASE k = L + 1 /\ net'[k] = new
        BY <2>1, <2>2, <3>2 DEF Behind
      <3> QED BY <2>4, <3>1, <3>2, Zenon
    <2> QED BY <1>1, <2>1, <2>5, <2>6, <2>7, Zenon DEF StreamFrom
  <1> QED BY <1>1, <1>2, <1>4, <1>5, NextIntervalServes, TransferDoneServes, RoundServes, PollReturnServes, Zenon
          DEF ServerStep

\* What a step of the server does to the link, whatever it is serving.
LEMMA ServeNet ==
    ASSUME Types, Serve
    PROVE  net' = net \/ \E o, l \in Int : net' = Append(net, DataPacket(o, l))
  <1>1. ServerStep
    BY DEF Serve
  <1>2. CASE SendPacket
    <2>1. bytes_sent \in Int /\ packet_length \in Int
      BY WireAssumption DEF Types, packet_length, remaining
    <2> QED BY <1>2, <2>1 DEF SendPacket
  <1>3. CASE ~SendPacket
    BY <1>1, <1>3 DEF ServerStep, NextInterval, TransferDone, PollWakeup, LoopEnter, LoopExit, NoBuffer,
                      PollReturn, PollReturnTo
  <1> QED BY <1>2, <1>3

\* The server's steps keep the invariant.
LEMMA ServeInv == ASSUME Inv, Serve PROVE Inv'
  <1>1. /\ UNCHANGED <<pc, session, hook, loop, result, output, unflushed, meta, reqs, after_stop>>
        /\ ServerStep
    BY DEF Serve, clientVars
  <1>2. Types' /\ ClientInv'
    BY <1>1, ServeTypes, ClientFrame DEF Inv, ClientInv
  <1>3. Types /\ LinkInv /\ net \in Seq(Messages) /\ Len(net) \in Nat
    BY DEF Inv, Types
  <1>4. pc \in {"meta", "bind", "loop", "recv"} => Askable(session.request)
    BY Zenon DEF Inv, SessionInv, InSession
  <1>5. ASSUME NEW i \in DOMAIN net', IsLive(net'[i])
        PROVE  pc = "meta" /\ net'[i].size = PayloadSize /\ StreamFrom(i + 1)'
    <2>1. i \in DOMAIN net /\ net'[i] = net[i]
      <3>1. CASE net' = net
        BY <3>1
      <3>2. CASE net' # net
        <4>1. PICK o \in Int, l \in Int : net' = Append(net, DataPacket(o, l))
          BY <1>3, <3>2, ServeNet
        <4>2. i \in DOMAIN net \/ net'[i] = DataPacket(o, l)
          BY <1>3, <4>1
        <4> QED BY <1>3, <1>5, <4>1, <4>2, SMTT(30) DEF IsLive, DataPacket
      <3> QED BY <3>1, <3>2
    <2>2. pc = "meta" /\ net[i].size = PayloadSize /\ StreamFrom(i + 1)
      BY <1>3, <1>5, <2>1, Zenon DEF LinkInv
    <2>3. i + 1 \in Nat \ {0}
      BY <1>3, <2>1
    <2>4. StreamFrom(i + 1)'
      BY <1>3, <1>4, <2>2, <2>3, ServeStream
    <2> QED BY <2>1, <2>2, <2>4
  <1>6. pc \in {"bind", "loop", "recv"} => StreamFrom(1)'
    BY <1>3, <1>4, ServeStream, SMTT(30) DEF LinkInv
  <1>7. ASSUME pc \in {"loop", "recv"}
        PROVE  /\ \A k \in DOMAIN net' : loop.prev * Chunk <= net'[k].off
               /\ Behind(loop.prev * Chunk, session.request)'
    <2>1. /\ \A k \in DOMAIN net : loop.prev * Chunk <= net[k].off
          /\ Behind(loop.prev * Chunk, session.request) /\ Serves(session.request)
      BY <1>3, <1>7, Zenon DEF LinkInv, StreamFrom
    <2>2. Answering
      BY <1>1, <1>3, <1>4, <1>7, <2>1, Zenon DEF Answering
    <2>3. PICK o \in Int : o = loop.prev * Chunk
      <3>1. loop.prev \in Int
        BY <1>3 DEF Types, TypeOK
      <3> QED BY <3>1, WireAssumption
    <2>4. StaysBehind /\ (net' # net => SendPacket)
      BY <1>1, <2>2, NextIntervalServes, TransferDoneServes, RoundServes, PollReturnServes, SendServes
         DEF ServerStep
    <2>5. Behind(loop.prev * Chunk, session.request)'
      <3>1. Behind(o, session.request)'
        BY <2>1, <2>3, <2>4, Zenon DEF StaysBehind
      <3> QED BY <1>1, <2>3, <3>1 DEF Behind
    <2>6. CASE net' = net
      BY <2>1, <2>5, <2>6
    <2>7. CASE SendPacket
      <3>1. PICK q \in Wanted(session.request) :
               /\ net' = Append(net, DataPacket(q * Chunk, PacketLen(q)))
               /\ \A off \in Int : Behind(off, session.request) => off < q * Chunk
        BY <2>2, <2>7, SendServes
      <3>2. o < q * Chunk /\ q * Chunk \in Int
        <4>1. q \in Int
          BY LastPacket DEF Wanted, Seqs
        <4> QED BY <2>1, <2>3, <3>1, <4>1, WireAssumption
      <3>3. ASSUME NEW k \in DOMAIN net' PROVE loop.prev * Chunk <= net'[k].off
        <4>1. CASE k \in DOMAIN net
          BY <1>3, <2>1, <3>1, <4>1, SMTT(30)
        <4>2. CASE k \notin DOMAIN net
          <5>1. net'[k] = DataPacket(q * Chunk, PacketLen(q))
            BY <1>3, <3>1, <4>2, SMTT(30)
          <5> QED BY <2>3, <3>2, <5>1, SMTT(30) DEF DataPacket
        <4> QED BY <4>1, <4>2
      <3> QED BY <2>5, <3>3
    <2> QED BY <2>4, <2>6, <2>7
  <1>8. LinkInv'
    <2>1. /\ pc' = pc /\ session' = session /\ reqs' = reqs /\ loop' = loop
      BY <1>1
    <2>2. (\A i \in DOMAIN reqs : reqs[i].live =>
             pc = "meta" /\ i = Len(reqs) /\ reqs[i].request = session.request)'
      BY <1>3, <2>1, Zenon DEF LinkInv
    <2>3. (\A i \in DOMAIN net : IsLive(net[i]) =>
              pc = "meta" /\ net[i].size = PayloadSize /\ StreamFrom(i + 1))'
      BY <1>5, <2>1
    <2> QED BY <1>6, <1>7, <2>1, <2>2, <2>3, Zenon DEF LinkInv
  <1> QED BY <1>2, <1>8 DEF Inv, ClientInv

----------------------------------------------------------------------------
(* The control port and the link.                                          *)

\* While a request is queued, no answer to this session is on the link and it
\* receives nothing.
LEMMA QueuedMeansWaiting ==
    ASSUME LinkInv, reqs # <<>>
    PROVE  pc \notin {"bind", "loop", "recv"} /\ \A i \in DOMAIN net : ~IsLive(net[i])
  BY Zenon DEF LinkInv, StreamFrom

\* What is left of the queue when its first request is taken.
LEMMA QueueTail ==
    ASSUME Types, LinkInv, reqs # <<>>, reqs' = Tail(reqs), UNCHANGED <<pc, session>>
    PROVE  /\ reqs' \in Seq([request : Seq(Intervals), live : BOOLEAN]) /\ Len(reqs') <= Backlog
           /\ \A i \in DOMAIN reqs' : reqs'[i].live =>
                 pc' = "meta" /\ i = Len(reqs') /\ reqs'[i].request = session'.request
           /\ Head(reqs) \in [request : Seq(Intervals), live : BOOLEAN]
           /\ Head(reqs).live => pc = "meta" /\ reqs' = <<>> /\ Head(reqs).request = session.request
  <1> DEFINE Reqs == [request : Seq(Intervals), live : BOOLEAN]
  <1>1. reqs \in Seq(Reqs) /\ Len(reqs) \in Nat /\ Len(reqs) <= Backlog /\ Backlog \in Nat
    BY ClientAssumption DEF Types, TypeOK
  <1>2. \A i \in DOMAIN reqs : reqs[i].live =>
           pc = "meta" /\ i = Len(reqs) /\ reqs[i].request = session.request
    BY Zenon DEF LinkInv
  <1>3. /\ reqs' \in Seq(Reqs) /\ Len(reqs') = Len(reqs) - 1
        /\ \A i \in DOMAIN reqs' : i + 1 \in DOMAIN reqs /\ reqs'[i] = reqs[i + 1] /\ i \in Nat
        /\ Head(reqs) = reqs[1] /\ 1 \in DOMAIN reqs
    <2> HIDE DEF Reqs
    <2> QED BY <1>1
  <1>4. Head(reqs) \in Reqs
    <2> HIDE DEF Reqs
    <2> QED BY <1>1, <1>3, ElementType
  <1>5. ASSUME NEW i \in DOMAIN reqs', reqs'[i].live
        PROVE  pc' = "meta" /\ i = Len(reqs') /\ reqs'[i].request = session'.request
    BY <1>1, <1>2, <1>3, <1>5, SMTT(30)
  <1>6. ASSUME Head(reqs).live
        PROVE  pc = "meta" /\ reqs' = <<>> /\ Head(reqs).request = session.request
    <2>1. pc = "meta" /\ 1 = Len(reqs) /\ Head(reqs).request = session.request
      BY <1>2, <1>3, <1>6, Zenon
    <2>2. reqs' \in Seq(Reqs) /\ Len(reqs') = 0
      BY <1>3, <2>1
    <2>3. reqs' = <<>>
      <3> HIDE DEF Reqs
      <3> QED BY <2>2
    <2> QED BY <2>1, <2>3
  <1> QED BY <1>1, <1>3, <1>4, <1>5, <1>6, SMTT(30)

\* A request on a connection that nobody answers is dropped.
LEMMA AcceptNoReplyInv == ASSUME Inv, AcceptNoReply PROVE Inv'
  <1>1. /\ UNCHANGED <<pc, session, hook, loop, result, output, unflushed, meta, after_stop>>
        /\ UNCHANGED <<serverVars, net>> /\ reqs # <<>> /\ reqs' = Tail(reqs)
    BY DEF AcceptNoReply
  <1>2. Types /\ LinkInv
    BY DEF Inv
  <1>3. Types'
    <2>1. reqs' \in Seq([request : Seq(Intervals), live : BOOLEAN]) /\ Len(reqs') <= Backlog
      BY <1>1, <1>2, QueueTail, Zenon
    <2>2. TypeOK'
      BY <1>1, <1>2, <2>1, Zenon DEF Types, TypeOK
    <2> QED BY <1>1, <1>2, <2>1, <2>2, Zenon DEF Types, serverVars
  <1>4. LinkInv'
    <2>1. pc' \notin {"bind", "loop", "recv"} /\ \A i \in DOMAIN net' : ~IsLive(net'[i])
      BY <1>1, <1>2, QueuedMeansWaiting
    <2> QED BY <1>1, <1>2, <2>1, QueueTail, Zenon DEF LinkInv
  <1>5. ClientInv'
    BY <1>1, <1>2, ClientFrame DEF Inv, ClientInv
  <1> QED BY <1>3, <1>4, <1>5 DEF Inv, ClientInv

\* The server answers the first request and starts to serve it: if it is this
\* session's, it is the last one queued, and what follows the answer is this
\* session's.
LEMMA AcceptInv == ASSUME Inv, Accept PROVE Inv'
  <1> DEFINE m == Response(PayloadSize, Head(reqs).live)
  <1>1. /\ UNCHANGED <<pc, session, hook, loop, result, output, unflushed, meta, after_stop>>
        /\ reqs # <<>> /\ reqs' = Tail(reqs) /\ Len(net) < MaxInFlight /\ net' = Append(net, m)
        /\ spc = "idle" /\ spc' = "interval" /\ intervals' = Head(reqs).request
        /\ UNCHANGED <<idx, bytes_sent, sent_in_interval, bytes_in_interval, pkt_cnt>>
    BY Zenon DEF Accept, start_sending_data
  <1>2. Types /\ LinkInv /\ net \in Seq(Messages) /\ Len(net) \in Nat
    BY DEF Inv, Types
  <1>3. /\ Head(reqs).live \in BOOLEAN /\ Head(reqs).request \in Seq(Intervals)
        /\ Head(reqs).live => pc = "meta" /\ reqs' = <<>> /\ Head(reqs).request = session.request
    BY <1>1, <1>2, QueueTail, Zenon
  <1>4. m \in Messages /\ m.size = PayloadSize /\ m.live = Head(reqs).live
    BY <1>3, WireAssumption, Zenon DEF Response, Messages
  <1> HIDE DEF m
  <1>5. /\ net' \in Seq(Messages) /\ Len(net') = Len(net) + 1 /\ Len(net') <= MaxInFlight
        /\ \A i \in DOMAIN net' : \/ i \in DOMAIN net /\ net'[i] = net[i]
                                  \/ i = Len(net') /\ net'[i] = m
    BY <1>1, <1>2, <1>4, LinkAssumption, SMTT(30)
  <1>6. Types'
    <2>1. reqs' \in Seq([request : Seq(Intervals), live : BOOLEAN]) /\ Len(reqs') <= Backlog
      BY <1>1, <1>2, QueueTail, Zenon
    <2>2. TypeOK'
      BY <1>1, <1>2, <1>5, <2>1, Zenon DEF Types, TypeOK
    <2>3. spc' # "idle" /\ spc' \in {"idle", "interval", "poll", "test", "send"}
      BY <1>1
    <2> QED BY <1>1, <1>2, <1>3, <1>5, <2>1, <2>2, <2>3, Zenon DEF Types
  <1>7. LinkInv'
    <2>1. pc' \notin {"bind", "loop", "recv"} /\ \A i \in DOMAIN net : ~IsLive(net[i])
      BY <1>1, <1>2, QueuedMeansWaiting
    <2>2. ASSUME NEW i \in DOMAIN net', IsLive(net'[i])
          PROVE  pc' = "meta" /\ net'[i].size = PayloadSize /\ StreamFrom(i + 1)'
      <3>1. i = Len(net') /\ net'[i] = m /\ m.live
        BY <1>5, <2>1, <2>2, Zenon DEF IsLive
      <3>2. pc = "meta" /\ reqs' = <<>> /\ intervals' = session.request /\ session' = session
        BY <1>1, <1>3, <1>4, <3>1, Zenon
      <3>3. Serves(session.request)'
        BY <1>1, <3>2 DEF Serves, Sending
      <3>4. (i + 1) .. Len(net') = {}
        BY <1>2, <1>5, <3>1
      <3>5. StreamFrom(i + 1)'
        BY <3>2, <3>3, <3>4, Zenon DEF StreamFrom
      <3> QED BY <1>1, <1>4, <3>1, <3>2, <3>5, Zenon
    <2>3. (\A i \in DOMAIN net : IsLive(net[i]) =>
              pc = "meta" /\ net[i].size = PayloadSize /\ StreamFrom(i + 1))'
      BY <2>2
    <2> QED BY <1>1, <1>2, <2>1, <2>3, QueueTail, Zenon DEF LinkInv
  <1>8. ClientInv'
    BY <1>1, <1>2, ClientFrame DEF Inv, ClientInv
  <1> QED BY <1>6, <1>7, <1>8 DEF Inv, ClientInv

\* The server's position is not touched.
LEMMA ServesFrame ==
    ASSUME UNCHANGED serverVars, UNCHANGED session.request
    PROVE  /\ Serves(session.request) => Serves(session.request)'
           /\ \A off \in Int : Behind(off, session.request) => Behind(off, session.request)'
  <1>1. UNCHANGED <<spc, intervals, idx, bytes_sent, sent_in_interval, bytes_in_interval, pkt_cnt>>
    BY Zenon DEF serverVars
  <1>2. Sending' = Sending /\ MoreToSend' = MoreToSend
    BY <1>1 DEF Sending, MoreToSend
  <1>3. Serves(session.request) => Serves(session.request)'
    BY <1>1, <1>2, Zenon DEF Serves, Position
  <1> QED BY <1>1, <1>2, <1>3, Zenon DEF Behind

\* The stream is the same while its messages are.
LEMMA StreamSame ==
    ASSUME UNCHANGED serverVars, UNCHANGED session.request, UNCHANGED <<net, reqs>>,
           net \in Seq(Messages), NEW n \in Nat \ {0}, StreamFrom(n)
    PROVE  StreamFrom(n)'
  <1>1. Serves(session.request)' /\ reqs' = <<>>
    BY ServesFrame, Zenon DEF StreamFrom
  <1>2. ASSUME NEW k \in n .. Len(net) PROVE Behind(net[k].off, session.request)'
    <2>1. Carries(net[k], session.request) /\ Behind(net[k].off, session.request)
      BY Zenon DEF StreamFrom
    <2>2. PICK o \in Int : o = net[k].off
      <3>1. PICK q \in Seqs : net[k] = DataPacket(q * Chunk, PacketLen(q))
        BY <2>1, Zenon DEF Carries, Wanted
      <3>2. q * Chunk \in Int
        BY WireAssumption, LastPacket DEF Seqs
      <3> QED BY <3>1, <3>2 DEF DataPacket
    <2>3. Behind(o, session.request)'
      BY <2>1, <2>2, ServesFrame, Zenon
    <2> QED BY <2>2, <2>3, Zenon DEF Behind
  <1>3. (\A k \in n .. Len(net) : Carries(net[k], session.request))'
    BY Zenon DEF StreamFrom
  <1>4. (\A k \in n .. Len(net) : Behind(net[k].off, session.request))'
    BY <1>2, Zenon
  <1> QED BY <1>1, <1>3, <1>4, Zenon DEF StreamFrom

\* Without its oldest message the stream starts one place earlier.
LEMMA StreamTail ==
    ASSUME UNCHANGED serverVars, UNCHANGED session.request, UNCHANGED reqs,
           net \in Seq(Messages), net # <<>>, net' = Tail(net),
           NEW n \in Nat \ {0}, StreamFrom(n + 1)
    PROVE  StreamFrom(n)'
  <1>1. /\ Len(net) \in Nat /\ Len(net') = Len(net) - 1
        /\ \A k \in n .. Len(net') : k + 1 \in (n + 1) .. Len(net) /\ net'[k] = net[k + 1] /\ k \in Nat
    OBVIOUS
  <1>2. Serves(session.request)' /\ reqs' = <<>>
    BY ServesFrame, Zenon DEF StreamFrom
  <1>3. ASSUME NEW k \in n .. Len(net')
        PROVE  Carries(net[k], session.request)' /\ Behind(net[k].off, session.request)'
    <2>1. Carries(net'[k], session.request) /\ Behind(net'[k].off, session.request)
      BY <1>1, Zenon DEF StreamFrom
    <2>2. PICK o \in Int : o = net'[k].off
      <3>1. PICK q \in Seqs : net'[k] = DataPacket(q * Chunk, PacketLen(q))
        BY <2>1, Zenon DEF Carries, Wanted
      <3>2. q * Chunk \in Int
        BY WireAssumption, LastPacket DEF Seqs
      <3> QED BY <3>1, <3>2, SMTT(30) DEF DataPacket
    <2>3. Behind(o, session.request)'
      BY <2>1, <2>2, ServesFrame, Zenon
    <2>4. Behind(net[k].off, session.request)'
      BY <2>2, <2>3, Zenon DEF Behind
    <2>5. Carries(net[k], session.request)'
      BY <2>1, Zenon
    <2> QED BY <2>4, <2>5, Zenon
  <1>4. ASSUME NEW k \in n .. Len(net'), NEW l \in n .. Len(net'), k < l
        PROVE  net'[k].off < net'[l].off
    <2>1. k + 1 < l + 1
      BY <1>1, <1>4
    <2> QED BY <1>1, <2>1, Zenon DEF StreamFrom
  <1>5. (\A k \in n .. Len(net) : Carries(net[k], session.request))'
    BY <1>3, Zenon
  <1>6. (\A k \in n .. Len(net) : Behind(net[k].off, session.request))'
    BY <1>3
  <1>7. (\A k, l \in n .. Len(net) : k < l => net[k].off < net[l].off)'
    BY <1>4
  <1> QED BY <1>2, <1>5, <1>6, <1>7, Zenon DEF StreamFrom

\* A stream from the first message is one from the second.
LEMMA StreamLater ==
    ASSUME net \in Seq(Messages), NEW n \in Nat \ {0}, StreamFrom(n)
    PROVE  StreamFrom(n + 1)
  <1>1. Len(net) \in Nat /\ \A k \in (n + 1) .. Len(net) : k \in n .. Len(net)
    OBVIOUS
  <1> QED BY <1>1, Zenon DEF StreamFrom

\* A packet the link loses, or a message nobody waits for.
LEMMA LoseInv == ASSUME Inv, Lose PROVE Inv'
  <1>1. /\ UNCHANGED <<pc, session, hook, loop, result, output, unflushed, meta, reqs, after_stop>>
        /\ UNCHANGED serverVars /\ net # <<>> /\ net' = Tail(net)
    BY DEF Lose, clientVars
  <1>a. Types /\ LinkInv /\ net \in Seq(Messages) /\ Len(net) <= MaxInFlight
    BY Zenon DEF Inv, Types, TypeOK
  <1>2. Types /\ LinkInv /\ net \in Seq(Messages) /\ Len(net) \in Nat /\ Len(net) <= MaxInFlight
    BY <1>a
  <1>3. /\ net' \in Seq(Messages) /\ Len(net') = Len(net) - 1 /\ Len(net') <= MaxInFlight
        /\ \A i \in DOMAIN net' : i + 1 \in DOMAIN net /\ net'[i] = net[i + 1] /\ i \in Nat \ {0}
    BY <1>1, <1>2, LinkAssumption
  <1>4. Types'
    <2>1. TypeOK'
      BY <1>1, <1>2, <1>3, Zenon DEF Types, TypeOK
    <2> QED BY <1>1, <1>2, <1>3, <2>1, Zenon DEF Types, serverVars
  <1>5. LinkInv'
    <2>1. (\A i \in DOMAIN reqs : reqs[i].live =>
             pc = "meta" /\ i = Len(reqs) /\ reqs[i].request = session.request)'
      BY <1>1, <1>2, Zenon DEF LinkInv
    <2>2. ASSUME NEW i \in DOMAIN net', IsLive(net'[i])
          PROVE  pc' = "meta" /\ net'[i].size = PayloadSize /\ StreamFrom(i + 1)'
      <3>1. pc = "meta" /\ net[i + 1].size = PayloadSize /\ StreamFrom((i + 1) + 1) /\ i + 1 \in Nat \ {0}
        <4>1. i + 1 \in DOMAIN net /\ IsLive(net[i + 1]) /\ i \in Nat \ {0}
          BY <1>3, <2>2, Zenon
        <4>2. i + 1 \in Nat \ {0}
          BY <4>1
        <4> QED BY <1>2, <4>1, <4>2, Zenon DEF LinkInv
      <3>2. StreamFrom(i + 1)'
        BY <1>1, <1>2, <3>1, StreamTail
      <3> QED BY <1>1, <1>3, <3>1, <3>2
    <2>3. (\A i \in DOMAIN net : IsLive(net[i]) =>
              pc = "meta" /\ net[i].size = PayloadSize /\ StreamFrom(i + 1))'
      BY <2>2
    <2>4. pc' \in {"bind", "loop", "recv"} => StreamFrom(1)'
      <3>1. pc \in {"bind", "loop", "recv"} => StreamFrom(1 + 1)
        BY <1>2, StreamLater, SMTT(30) DEF LinkInv
      <3> QED BY <1>1, <1>2, <3>1, StreamTail
    <2>5. ASSUME pc' \in {"loop", "recv"}
          PROVE  /\ \A k \in DOMAIN net' : loop'.prev * Chunk <= net'[k].off
                 /\ Behind(loop.prev * Chunk, session.request)'
      <3>1. /\ \A k \in DOMAIN net : loop.prev * Chunk <= net[k].off
            /\ Behind(loop.prev * Chunk, session.request)
        BY <1>1, <1>2, <2>5, Zenon DEF LinkInv
      <3>2. PICK o \in Int : o = loop.prev * Chunk
        <4>1. loop.prev \in Int
          BY <1>2 DEF Types, TypeOK
        <4> QED BY <4>1, WireAssumption
      <3>3. Behind(o, session.request)'
        BY <1>1, <3>1, <3>2, ServesFrame, Zenon
      <3>4. Behind(loop.prev * Chunk, session.request)'
        BY <1>1, <3>2, <3>3, Zenon DEF Behind
      <3> QED BY <1>1, <1>3, <3>1, <3>4, Zenon
    <2> QED BY <2>1, <2>3, <2>4, <2>5, Zenon DEF LinkInv
  <1>6. ClientInv'
    BY <1>1, <1>2, ClientFrame DEF Inv, ClientInv
  <1> QED BY <1>4, <1>5, <1>6 DEF Inv, ClientInv

----------------------------------------------------------------------------
(* The connection is closed; the client is idle again.                     *)

\* csp_close leaves every message in its place, and none that is waited for.
LEMMA HangupMessages ==
    ASSUME Types, CloseConn
    PROVE  /\ reqs' \in Seq([request : Seq(Intervals), live : BOOLEAN]) /\ Len(reqs') = Len(reqs)
           /\ \A i \in DOMAIN reqs' : ~reqs'[i].live
           /\ net' \in Seq(Messages) /\ Len(net') = Len(net)
           /\ \A i \in DOMAIN net' : ~IsLive(net'[i])
  <1> DEFINE Reqs == [request : Seq(Intervals), live : BOOLEAN]
  <1>1. reqs \in Seq(Reqs) /\ net \in Seq(Messages)
    BY DEF Types
  <1>2. /\ DOMAIN reqs' = 1 .. Len(reqs) /\ DOMAIN net' = 1 .. Len(net)
        /\ Len(reqs) \in Nat /\ Len(net) \in Nat
        /\ \A i \in 1 .. Len(reqs) : reqs'[i] = IF "live" \in DOMAIN reqs[i]
                                                THEN [reqs[i] EXCEPT !.live = FALSE] ELSE reqs[i]
        /\ \A i \in 1 .. Len(net) : net'[i] = IF "live" \in DOMAIN net[i]
                                              THEN [net[i] EXCEPT !.live = FALSE] ELSE net[i]
        /\ reqs' = [i \in 1 .. Len(reqs) |-> reqs'[i]] /\ net' = [i \in 1 .. Len(net) |-> net'[i]]
    <2>1. /\ DOMAIN reqs = 1 .. Len(reqs) /\ DOMAIN net = 1 .. Len(net)
          /\ Len(reqs) \in Nat /\ Len(net) \in Nat
      <3> HIDE DEF Reqs
      <3> QED BY <1>1
    <2>2. reqs' = Hangup(reqs) /\ net' = Hangup(net)
      BY DEF CloseConn
    <2>3. reqs' = [i \in 1 .. Len(reqs) |-> IF "live" \in DOMAIN reqs[i]
                                            THEN [reqs[i] EXCEPT !.live = FALSE] ELSE reqs[i]]
      BY <2>1, <2>2, Zenon DEF Hangup
    <2>4. net' = [i \in 1 .. Len(net) |-> IF "live" \in DOMAIN net[i]
                                          THEN [net[i] EXCEPT !.live = FALSE] ELSE net[i]]
      BY <2>1, <2>2, Zenon DEF Hangup
    <2>5. /\ DOMAIN reqs' = 1 .. Len(reqs)
          /\ \A i \in 1 .. Len(reqs) : reqs'[i] = IF "live" \in DOMAIN reqs[i]
                                                  THEN [reqs[i] EXCEPT !.live = FALSE] ELSE reqs[i]
      BY <2>3, Zenon
    <2>6. /\ DOMAIN net' = 1 .. Len(net)
          /\ \A i \in 1 .. Len(net) : net'[i] = IF "live" \in DOMAIN net[i]
                                                THEN [net[i] EXCEPT !.live = FALSE] ELSE net[i]
      BY <2>4, Zenon
    <2>7. reqs' = [i \in 1 .. Len(reqs) |-> reqs'[i]]
      BY <2>3, <2>5, Zenon
    <2>8. net' = [i \in 1 .. Len(net) |-> net'[i]]
      BY <2>4, <2>6, Zenon
    <2> QED BY <2>1, <2>5, <2>6, <2>7, <2>8
  <1>3. ASSUME NEW i \in 1 .. Len(reqs) PROVE reqs'[i] \in Reqs /\ ~reqs'[i].live
    <2>1. reqs[i] \in Reqs
      <3> HIDE DEF Reqs
      <3> QED BY <1>1, ElementType
    <2>2. reqs'[i] = [reqs[i] EXCEPT !.live = FALSE]
      BY <1>2, <2>1
    <2> QED BY <2>1, <2>2, Zenon
  <1>4. ASSUME NEW i \in 1 .. Len(net) PROVE net'[i] \in Messages /\ ~IsLive(net'[i])
    <2>1. net[i] \in Messages
      BY <1>1, ElementType
    <2>2. CASE net[i] \in [kind : {"data"}, off : Int, len : Int]
      <3>1. net'[i] = net[i]
        BY <1>2, <2>2, Zenon
      <3> QED BY <2>1, <2>2, <3>1 DEF IsLive
    <2>3. CASE net[i] \in [kind : {"resp"}, size : Nat, live : BOOLEAN]
      <3>1. net'[i] = [net[i] EXCEPT !.live = FALSE]
        BY <1>2, <2>3
      <3>2. net'[i] \in [kind : {"resp"}, size : Nat, live : BOOLEAN] /\ net'[i].live = FALSE
        BY <2>3, <3>1, Zenon
      <3> QED BY <3>2 DEF IsLive, Messages
    <2> QED BY <2>1, <2>2, <2>3, Zenon DEF Messages
  <1>5. reqs' \in Seq(Reqs) /\ Len(reqs') = Len(reqs)
    <2> HIDE DEF Reqs
    <2> QED BY <1>2, <1>3
  <1>6. net' \in Seq(Messages) /\ Len(net') = Len(net)
    BY <1>2, <1>4
  <1> QED BY <1>2, <1>3, <1>4, <1>5, <1>6

\* Once the connection is closed nothing on the link is this session's.
LEMMA ClosedLink ==
    ASSUME Types, LinkInv, pc' \notin {"meta", "bind", "loop", "recv"},
           CloseConn \/ (UNCHANGED <<reqs, net>> /\ pc # "meta")
    PROVE  /\ reqs' \in Seq([request : Seq(Intervals), live : BOOLEAN]) /\ Len(reqs') <= Backlog
           /\ net' \in Seq(Messages) /\ Len(net') <= MaxInFlight
           /\ LinkInv'
  <1>1. CASE CloseConn
    BY <1>1, HangupMessages, Zenon DEF Types, TypeOK, LinkInv
  <1>2. CASE UNCHANGED <<reqs, net>> /\ pc # "meta"
    BY <1>2, Zenon DEF Types, TypeOK, LinkInv
  <1> QED BY <1>1, <1>2

Slots == [bytes_received : Nat, payload_size : Nat, request : Seq(Intervals), active : BOOLEAN]

\* What dtp_release_session leaves in the slot.
LEMMA ReleasedSlot ==
    ASSUME Types, dtp_release_session
    PROVE  hook' = NoHook /\ session' \in Slots
  <1>1. session \in Slots
    BY Zenon DEF Types, TypeOK, Slots
  <1>2. /\ hook' = NoHook
        /\ session' = [session EXCEPT !.bytes_received = 0, !.request = <<>>]
    BY DEF dtp_release_session
  <1>3. <<>> \in Seq(Intervals)
    OBVIOUS
  <1> QED BY <1>1, <1>2, <1>3, Zenon DEF Slots

----------------------------------------------------------------------------
(* dtp_prepare_session.                                                    *)

\* The whole payload may be asked for.
LEMMA WholeAskable == Askable(WholePayload) /\ WholePayload # <<>> /\ WholePayload \in Seq(Intervals)
  <1>1. /\ WholePayload \in Seq(Intervals) /\ Len(WholePayload) = 1 /\ DOMAIN WholePayload = {1}
        /\ WholePayload[1].start = 0 /\ WholePayload[1].end = UINT32_MAX
    BY DEF WholePayload, Interval, Intervals
  <1>2. WholePayload # <<>>
    BY <1>1, SMTT(30)
  <1> QED BY <1>1, <1>2, LastPacket DEF Askable

\* The slot as dtp_acquire_session hands it out.
LEMMA AcquiredSlot ==
    ASSUME Types
    PROVE  /\ dtp_acquire_session \in Slots /\ dtp_acquire_session.bytes_received = 0
           /\ dtp_acquire_session.request = WholePayload
  <1>1. session \in Slots
    BY DEF Types, TypeOK, Slots
  <1> QED BY <1>1, WholeAskable, Zenon DEF dtp_acquire_session, Slots

\* A .meta file that was not written to the end makes a new download.
LEMMA TornSlot ==
    ASSUME meta.state # "saved"
    PROVE  /\ apm_on_deserialize.session = dtp_acquire_session /\ apm_on_deserialize.hook = NoHook
           /\ Claimed = {} /\ Loaded = NoList
           /\ NoHook = [segments |-> init_segments_ctx, received |-> Loaded]
  BY DEF apm_on_deserialize, Claimed, Loaded, NoHook

----------------------------------------------------------------------------
(* dtp_start_transfer and start_receiving_data.                            *)

\* What a step keeps of the session's invariant as long as it neither records
\* a packet nor empties the output file of one that was received.
LEMMA SessionStep ==
    ASSUME SessionInv, Receiving, pc' \in {"meta", "bind", "loop", "recv", "end"},
           UNCHANGED <<hook, meta>>, UNCHANGED <<session.request, session.bytes_received>>,
           Got \subseteq output' \cup unflushed'
    PROVE  /\ Got' = Got /\ Claimed' = Claimed
           /\ hook'.received = Loaded'
           /\ Askable(session'.request)
           /\ (meta'.state = "saved" => ResumeAsksForMissing')
           /\ Wanted(session'.request) \cap Claimed' = {}
           /\ Building(hook'.segments)
           /\ (hook'.segments.started # FALSE => hook'.segments.cur # NoSegment)
           /\ Got' \subseteq Wanted(session'.request)
           /\ Got' \subseteq output' \cup unflushed'
           /\ session'.bytes_received = Bytes(Claimed' \cup Got')
  <1>1. InSession
    BY DEF Receiving, InSession
  <1>2. Got' = Got /\ Claimed' = Claimed /\ Loaded' = Loaded
    BY Zenon DEF Got, Claimed, Loaded
  <1>3. meta'.state = "saved" => ResumeAsksForMissing'
    BY <1>1, <1>2, Zenon DEF SessionInv, ResumeAsksForMissing
  <1> QED BY <1>1, <1>2, <1>3, Zenon DEF SessionInv

\* The last packet number of a request: no packet asked for is beyond it, and it
\* is one of them unless it is beyond the payload.
LEMMA MetricLast ==
    ASSUME NEW req, Askable(req)
    PROVE  LET L == last_packet(req, PayloadSize, Chunk) IN
           /\ L \in Nat
           /\ \A q \in Wanted(req) : q <= L
           /\ L > LastSeq => PayloadSize % Chunk = 0
           /\ L <= LastSeq => L \in Wanted(req)
  <1> DEFINE n == Len(req)
             e == req[n].end
             E == PayloadSize \div Chunk
             L == IF e = UINT32_MAX THEN E ELSE e
  <1>1. req \in Seq(Intervals) /\ n \in 1 .. Len(req) /\ n \in Nat /\ DOMAIN req = 1 .. n
    BY DEF Askable
  <1>2. /\ E \in Nat /\ LastSeq \in Nat /\ LastSeq <= E
        /\ E > LastSeq => PayloadSize % Chunk = 0
    BY EndOfPayload, LastPacket
  <1>3. ASSUME NEW i \in 1 .. n
        PROVE  req[i].start \in Nat /\ req[i].end \in Nat \cup {UINT32_MAX}
    <2>1. req[i] \in Intervals
      BY <1>1, <1>3, ElementType
    <2> QED BY <2>1 DEF Intervals
  <1>4. \A i \in 1 .. n : /\ req[i].start <= LastSeq
                          /\ req[i].end # UINT32_MAX => req[i].start <= req[i].end /\ req[i].end <= E
    BY <1>1 DEF Askable
  <1>5. \A i \in 1 .. n : i < n => req[i].end # UINT32_MAX /\ req[i].end < req[n].start
    BY <1>1 DEF Askable
  <1>6. last_packet(req, PayloadSize, Chunk) = L
    BY DEF last_packet, IntervalEnd
  <1>7. /\ req[n].start \in Nat /\ e \in Nat \cup {UINT32_MAX} /\ req[n].start <= LastSeq
        /\ e # UINT32_MAX => req[n].start <= e /\ e <= E
    BY <1>1, <1>3, <1>4, Zenon
  <1>8. L \in Nat /\ L <= E /\ req[n].start <= L
    BY <1>2, <1>7, SMTT(30)
  <1>9. ASSUME NEW q \in Wanted(req) PROVE q <= L
    <2>1. q \in Nat /\ q <= LastSeq
      BY <1>2 DEF Wanted, Seqs
    <2>2. PICK i \in 1 .. n : req[i].start <= q /\ (req[i].end = UINT32_MAX \/ q <= req[i].end)
      BY <1>1 DEF Wanted
    <2>3. CASE i = n
      <3>1. e = UINT32_MAX \/ q <= e
        BY <2>2, <2>3
      <3> HIDE DEF n, e, E
      <3> QED BY <1>2, <1>7, <2>1, <3>1
    <2>4. CASE i < n
      <3>1. req[i].end \in Nat /\ q <= req[i].end /\ req[i].end < req[n].start
        BY <1>3, <1>5, <2>2, <2>4, Zenon
      <3> QED BY <1>7, <1>8, <2>1, <3>1, SMTT(30)
    <2>5. i = n \/ i < n
      <3> HIDE DEF n
      <3> QED BY <1>1, <2>2
    <2> QED BY <2>3, <2>4, <2>5, Zenon
  <1>10. ASSUME L <= LastSeq PROVE L \in Wanted(req)
    <2>1. L \in Seqs
      BY <1>2, <1>8, <1>10, SMTT(30) DEF Seqs
    <2>2. n \in DOMAIN req /\ req[n].start <= L /\ (req[n].end = UINT32_MAX \/ L <= req[n].end)
      BY <1>1, <1>7, <1>8, SMTT(30)
    <2> HIDE DEF L, n
    <2> QED BY <2>1, <2>2 DEF Wanted
  <1>11. L > LastSeq => PayloadSize % Chunk = 0
    BY <1>2, <1>8, SMTT(30)
  <1> HIDE DEF L
  <1> QED BY <1>6, <1>8, <1>9, <1>10, <1>11, Zenon

\* A download that is given up has a hole.
LEMMA GivenUp ==
    ASSUME Types, SessionInv, pc \in {"loop", "recv"}
    PROVE  Interrupted(Claimed \cup Got)
  <1> DEFINE L == metric_last_packet
  <1>1. /\ Askable(session.request) /\ session.payload_size = PayloadSize
        /\ Wanted(session.request) \cap Claimed = {}
        /\ Got \subseteq 0 .. loop.prev /\ loop.prev < L
    BY Zenon DEF SessionInv, InSession
  <1>2. L = last_packet(session.request, PayloadSize, Chunk)
    BY <1>1 DEF metric_last_packet
  <1>3. /\ L \in Nat /\ LastSeq \in Nat
        /\ L > LastSeq => PayloadSize % Chunk = 0
        /\ L <= LastSeq => L \in Wanted(session.request)
    BY <1>1, <1>2, MetricLast, LastPacket, Zenon
  <1> HIDE DEF L
  <1>4. loop.prev \in Int
    BY DEF Types, TypeOK
  <1>5. CASE L > LastSeq
    BY <1>3, <1>5 DEF Interrupted, L
  <1>6. CASE L <= LastSeq
    <2>1. L \notin Got
      BY <1>1, <1>3, <1>4
    <2>2. L \notin Claimed /\ L \in Seqs
      BY <1>1, <1>3, <1>6 DEF Seqs
    <2> QED BY <2>1, <2>2 DEF Interrupted
  <1> QED BY <1>3, <1>5, <1>6

\* The request is sent.
LEMMA ConnectInv == ASSUME Inv, Connect, UNCHANGED <<serverVars, after_stop>> PROVE Inv'
  <1> DEFINE m == [request |-> session.request, live |-> TRUE]
             Reqs == [request : Seq(Intervals), live : BOOLEAN]
  <1>1. /\ pc = "prepared" /\ pc' = "meta" /\ Len(reqs) < Backlog /\ reqs' = Append(reqs, m)
        /\ UNCHANGED <<session, hook, loop, result, output, unflushed, meta, net>>
    BY Zenon DEF Connect
  <1>2. Types /\ LinkInv /\ MetaInv /\ SessionInv /\ FilesInv /\ StopInv
    BY DEF Inv
  <1>3. m \in Reqs /\ m.request = session.request
    BY <1>2, Zenon DEF Types, TypeOK
  <1>4. reqs \in Seq(Reqs) /\ Len(reqs) \in Nat /\ Backlog \in Nat
    BY <1>2, ClientAssumption DEF Types
  <1> HIDE DEF m
  <1>5. /\ reqs' \in Seq(Reqs) /\ Len(reqs') = Len(reqs) + 1 /\ Len(reqs') <= Backlog
        /\ \A i \in DOMAIN reqs' : (i \in DOMAIN reqs /\ reqs'[i] = reqs[i])
                                   \/ (i = Len(reqs') /\ reqs'[i] = m)
    <2> HIDE DEF Reqs
    <2> QED BY <1>1, <1>3, <1>4, SMTT(30)
  <1>6. Types'
    BY <1>1, <1>2, <1>5, Zenon DEF Types, TypeOK, serverVars
  <1>7. LinkInv'
    <2>1. /\ \A i \in DOMAIN reqs : ~reqs[i].live
          /\ \A i \in DOMAIN net : ~IsLive(net[i])
      BY <1>1, <1>2, Zenon DEF LinkInv
    <2>2. \A i \in DOMAIN reqs' : reqs'[i].live =>
             i = Len(reqs') /\ reqs'[i].request = session'.request
      BY <1>1, <1>3, <1>5, <2>1, Zenon
    <2> QED BY <1>1, <2>1, <2>2, Zenon DEF LinkInv
  <1>8. SessionInv'
    <2>1. Receiving /\ Got \subseteq output' \cup unflushed' /\ Got = {}
      BY <1>1, <1>2, Zenon DEF Receiving, SessionInv, InSession
    <2> QED BY <1>1, <1>2, <2>1, SessionStep, Zenon DEF SessionInv
  <1>9. MetaInv' /\ DoneInv' /\ FilesInv' /\ StopInv'
    BY <1>1, <1>2, Zenon DEF MetaInv, DoneInv, FilesInv, StopInv, Claimed, ExhaustedCharacterised
  <1> QED BY <1>6, <1>7, <1>8, <1>9 DEF Inv

\* The link while the session receives: p is the packet it has taken last.
LEMMA LinkRecv ==
    ASSUME Types, StreamFrom(1), pc' \in {"loop", "recv", "end"},
           UNCHANGED <<reqs, serverVars>>, UNCHANGED session.request,
           net' = net \/ (net # <<>> /\ net' = Tail(net)),
           NEW p \in Int, loop'.prev = p,
           \A k \in DOMAIN net : p * Chunk <= net[k].off,
           Behind(p * Chunk, session.request)
    PROVE  LinkInv'
  <1>1. net \in Seq(Messages) /\ Len(net) \in Nat
    BY NetIsSeq, Zenon
  <1>2. StreamFrom(1)'
    <2>1. CASE net' = net
      BY <1>1, <2>1, StreamSame, SMTT(30)
    <2>2. CASE net # <<>> /\ net' = Tail(net)
      BY <1>1, <2>2, StreamTail, StreamLater, SMTT(30)
    <2> QED BY <2>1, <2>2
  <1>3. \A k \in DOMAIN net' : \E l \in DOMAIN net : net'[k] = net[l]
    <2>1. CASE net' = net
      BY <2>1
    <2>2. CASE net # <<>> /\ net' = Tail(net)
      <3>1. \A k \in DOMAIN net' : k + 1 \in DOMAIN net /\ net'[k] = net[k + 1]
        BY <1>1, <2>2, SMTT(30)
      <3> QED BY <3>1, Zenon
    <2> QED BY <2>1, <2>2
  <1>4. \A k \in DOMAIN net' : loop'.prev * Chunk <= net'[k].off
    BY <1>3, Zenon
  <1>5. Behind(loop.prev * Chunk, session.request)'
    <2>1. PICK o \in Int : o = p * Chunk
      BY WireAssumption, SMTT(30)
    <2>2. Behind(o, session.request)'
      BY <2>1, ServesFrame, Zenon
    <2> QED BY <2>1, <2>2, Zenon DEF Behind
  <1>6. ASSUME NEW i \in DOMAIN net' PROVE ~IsLive(net'[i])
    <2>1. PICK l \in DOMAIN net : net'[i] = net[l]
      BY <1>3, Zenon
    <2>2. l \in 1 .. Len(net)
      BY <1>1, SMTT(30)
    <2>3. Carries(net[l], session.request)
      BY <2>2, Zenon DEF StreamFrom
    <2>4. net[l].kind = "data"
      BY <2>3, SMTT(30) DEF Carries, DataPacket
    <2> QED BY <2>1, <2>4, Zenon DEF IsLive
  <1>7. reqs' = <<>>
    BY Zenon DEF StreamFrom
  <1>8. DOMAIN reqs' = {}
    BY <1>7, SMTT(30)
  <1> QED BY <1>2, <1>4, <1>5, <1>6, <1>8, Zenon DEF LinkInv

\* The data port is bound: nothing has been taken yet.
LEMMA BindInv == ASSUME Inv, Bind, UNCHANGED <<serverVars, after_stop>> PROVE Inv'
  <1>1. /\ pc = "bind" /\ pc' = "loop" /\ loop' = NoLoop
        /\ UNCHANGED <<session, hook, result, output, unflushed, meta, reqs, net>>
    BY DEF Bind
  <1>2. Types /\ LinkInv /\ MetaInv /\ SessionInv /\ FilesInv /\ StopInv
    BY DEF Inv
  <1>3. StreamFrom(1) /\ Askable(session.request) /\ net \in Seq(Messages) /\ Len(net) \in Nat
    <2>1. StreamFrom(1)
      BY <1>1, <1>2, Zenon DEF LinkInv
    <2>2. Askable(session.request)
      BY <1>1, <1>2, Zenon DEF SessionInv, InSession
    <2> QED BY <1>2, <2>1, <2>2, NetIsSeq, Zenon
  <1>4. /\ loop' \in [nof : Nat, prev : Nat \cup {-1}, idle : 0 .. TimeoutRounds + 1]
        /\ loop'.prev = -1 /\ loop'.idle <= TimeoutRounds
    BY <1>1, ClientAssumption, SMTT(30) DEF NoLoop
  <1>5. Types'
    <2>1. TypeOK'
      BY <1>1, <1>2, <1>4, Zenon DEF Types, TypeOK
    <2> QED BY <1>1, <1>2, <2>1, Zenon DEF Types, serverVars
  <1>6. (-1) * Chunk = -Chunk /\ Chunk \in Nat /\ Chunk > 0
    BY WireAssumption
  <1>7. \A k \in DOMAIN net : (-1) * Chunk <= net[k].off
    <2>1. ASSUME NEW k \in DOMAIN net PROVE net[k].off \in Nat
      <3>1. k \in 1 .. Len(net)
        BY <1>3
      <3>2. PICK q \in Seqs : net[k] = DataPacket(q * Chunk, PacketLen(q))
        BY <1>3, <3>1, Zenon DEF StreamFrom, Carries, Wanted
      <3>3. q * Chunk \in Nat
        BY WireAssumption, LastPacket DEF Seqs
      <3> QED BY <3>2, <3>3, SMTT(30) DEF DataPacket
    <2> QED BY <1>6, <2>1
  <1>8. Behind((-1) * Chunk, session.request)
    <2>1. Sending => 0 <= bytes_sent /\ bytes_sent \in Int
      <3>1. ASSUME Sending PROVE bytes_sent \in Int /\ 0 <= bytes_sent
        <4>1. /\ idx \in DOMAIN session.request /\ session.request \in Seq(Intervals)
              /\ bytes_sent = session.request[idx].start * Chunk + sent_in_interval
              /\ 0 <= sent_in_interval /\ sent_in_interval \in Int
          BY <1>2, <1>3, <3>1, Zenon DEF StreamFrom, Serves, Sending, Position, Askable, Types
        <4>2. session.request[idx] \in Intervals
          BY <4>1, ElementType
        <4>3. session.request[idx].start \in Nat
          BY <4>2 DEF Intervals
        <4>4. session.request[idx].start * Chunk \in Nat
          BY <1>6, <4>3
        <4> QED BY <4>1, <4>4, SMTT(30)
      <3> QED BY <3>1
    <2>2. ASSUME NEW i \in DOMAIN session.request PROVE session.request[i].start * Chunk \in Nat
      <3>1. session.request[i] \in Intervals
        BY <1>3, ElementType, Zenon DEF Askable
      <3>2. session.request[i].start \in Nat
        BY <3>1 DEF Intervals
      <3> QED BY <1>6, <3>2
    <2>3. Sending => (-1) * Chunk < bytes_sent
      BY <1>6, <2>1
    <2>4. \A i \in DOMAIN session.request : (-1) * Chunk < session.request[i].start * Chunk
      BY <1>6, <2>2
    <2> QED BY <2>3, <2>4, Zenon DEF Behind
  <1>9. LinkInv'
    BY <1>1, <1>2, <1>3, <1>4, <1>7, <1>8, LinkRecv, SMTT(30)
  <1>10. SessionInv'
    <2>1. Receiving /\ Got \subseteq output' \cup unflushed' /\ Got = {} /\ session'.payload_size = PayloadSize
      BY <1>1, <1>2, Zenon DEF Receiving, SessionInv, InSession
    <2>2. metric_last_packet' \in Nat
      BY <1>1, <1>3, <2>1, MetricLast, Zenon DEF metric_last_packet
    <2>3. Got' \subseteq 0 .. loop'.prev /\ loop'.prev < metric_last_packet'
      BY <1>1, <1>2, <1>4, <2>1, <2>2, SessionStep, SMTT(30)
    <2> QED BY <1>1, <1>2, <1>4, <2>1, <2>3, SessionStep, Zenon DEF SessionInv
  <1>11. MetaInv' /\ DoneInv' /\ FilesInv' /\ StopInv'
    BY <1>1, <1>2, Zenon DEF MetaInv, DoneInv, FilesInv, StopInv, Claimed, ExhaustedCharacterised
  <1> QED BY <1>5, <1>9, <1>10, <1>11 DEF Inv

Loops == [nof : Nat, prev : Nat \cup {-1}, idle : 0 .. TimeoutRounds + 1]

\* A turn of the receive loop that takes no packet: it goes on, or gives up.
LEMMA TurnInv ==
    ASSUME Inv, pc \in {"loop", "recv"}, pc' \in {"loop", "recv", "end"},
           loop' \in Loops, loop'.prev = loop.prev, pc' # "end" => loop'.idle <= TimeoutRounds,
           session' \in Slots, UNCHANGED <<session.request, session.bytes_received, session.payload_size>>,
           session'.active => session.active,
           pc' = "recv" => session.active,
           result' = IF pc' = "end" THEN "cancelled" ELSE result,
           net' = net \/ (net # <<>> /\ net' = Tail(net)),
           UNCHANGED <<hook, output, unflushed, meta, reqs, serverVars, after_stop>>
    PROVE  Inv'
  <1>1. Types /\ LinkInv /\ MetaInv /\ SessionInv /\ FilesInv /\ StopInv
    BY Zenon DEF Inv
  <1>2. /\ StreamFrom(1) /\ Behind(loop.prev * Chunk, session.request)
        /\ \A k \in DOMAIN net : loop.prev * Chunk <= net[k].off
    BY <1>1, Zenon DEF LinkInv
  <1>3. LinkInv'
    <2>1. loop.prev \in Int
      BY <1>1, SMTT(30) DEF Types, TypeOK
    <2> QED BY <1>1, <1>2, <2>1, LinkRecv, Zenon
  <1>4. net' \in Seq(Messages) /\ Len(net') <= MaxInFlight
    <2>1. net \in Seq(Messages) /\ Len(net) \in Nat /\ Len(net) <= MaxInFlight /\ MaxInFlight \in Nat
      BY <1>1, LinkAssumption, SMTT(30) DEF Types, TypeOK
    <2>2. CASE net' = net
      BY <2>1, <2>2, Zenon
    <2>3. CASE net # <<>> /\ net' = Tail(net)
      BY <2>1, <2>3, SMTT(30)
    <2> QED BY <2>2, <2>3, Zenon
  <1>5. Types'
    <2>1. TypeOK'
      BY <1>1, <1>4, Zenon DEF Types, TypeOK, Slots, Loops
    <2> QED BY <1>1, <1>4, <2>1, Zenon DEF Types, serverVars
  <1>6. SessionInv'
    <2>1. /\ Receiving /\ Got \subseteq output' \cup unflushed' /\ session'.payload_size = PayloadSize
          /\ Got \subseteq 0 .. loop'.prev /\ loop'.prev < metric_last_packet
      BY <1>1, Zenon DEF Receiving, SessionInv, InSession
    <2>2. metric_last_packet' = metric_last_packet
      BY Zenon DEF metric_last_packet
    <2>3. Got' = Got /\ Claimed' = Claimed
      BY <1>1, <2>1, SessionStep, Zenon
    <2>4. Interrupted(Claimed \cup Got)'
      BY <1>1, <2>2, <2>3, GivenUp, Zenon DEF Interrupted
    <2> QED BY <1>1, <2>1, <2>2, <2>3, <2>4, SessionStep, Zenon DEF SessionInv
  <1>7. MetaInv' /\ DoneInv'
    BY <1>1, Zenon DEF MetaInv, DoneInv, Claimed
  <1>8. FilesInv'
    BY <1>1, Zenon DEF FilesInv, ExhaustedCharacterised
  <1>9. StopInv'
    BY <1>1, Zenon DEF StopInv
  <1> QED BY <1>3, <1>5, <1>6, <1>7, <1>8, <1>9, Zenon DEF Inv

\* The end of the loop, and the waits for a packet.
LEMMA LoopInv ==
    ASSUME Inv, DeadlinePassed \/ StopReceiving \/ Wait \/ RecvTimeout, UNCHANGED <<serverVars, after_stop>>
    PROVE  Inv'
  <1>1. session \in Slots /\ loop \in Loops
    BY Zenon DEF Inv, Types, TypeOK, Slots, Loops
  <1>0. pc \in {"loop", "recv"} => loop.idle <= TimeoutRounds
    BY Zenon DEF Inv, SessionInv, InSession
  <1>2. CASE DeadlinePassed \/ StopReceiving
    <2>1. /\ pc = "loop" /\ pc' = "end" /\ result' = "cancelled"
          /\ UNCHANGED <<session, hook, loop, output, unflushed, meta, reqs, net>>
      BY <1>2, Zenon DEF DeadlinePassed, StopReceiving, LeaveLoop
    <2> QED BY <1>0, <1>1, <2>1, TurnInv, Zenon
  <1>3. CASE Wait
    <2>1. /\ pc = "loop" /\ pc' = "recv" /\ session.active
          /\ UNCHANGED <<session, hook, loop, result, output, unflushed, meta, reqs, net>>
      BY <1>3 DEF Wait
    <2> QED BY <1>0, <1>1, <2>1, TurnInv, Zenon
  <1>4. CASE RecvTimeout
    <2>1. /\ pc = "recv" /\ loop' = [loop EXCEPT !.idle = @ + 1]
          /\ IF loop.idle + 1 > TimeoutRounds
             THEN pc' = "end" /\ result' = "cancelled" /\ session' = [session EXCEPT !.active = FALSE]
             ELSE pc' = "loop" /\ UNCHANGED <<session, result>>
          /\ UNCHANGED <<hook, output, unflushed, meta, reqs, net>>
      BY <1>4 DEF RecvTimeout, LeaveLoop
    <2>2. loop.idle + 1 \in 0 .. TimeoutRounds + 1
      <3>1. TimeoutRounds \in Nat /\ loop.idle \in Nat /\ loop.idle <= TimeoutRounds
        BY <1>0, <1>1, <2>1, ClientAssumption DEF Loops
      <3> QED BY <3>1
    <2>3. loop' \in Loops /\ loop'.prev = loop.prev /\ loop'.idle = loop.idle + 1
      BY <1>1, <2>1, <2>2 DEF Loops
    <2>4. pc' # "end" => loop'.idle <= TimeoutRounds
      BY <1>1, <2>1, <2>3, ClientAssumption DEF Loops
    <2>5. /\ session' \in Slots /\ UNCHANGED <<session.request, session.bytes_received, session.payload_size>>
          /\ session'.active => session.active
      BY <1>1, <2>1, Zenon DEF Slots
    <2> QED BY <2>1, <2>3, <2>4, <2>5, TurnInv
  <1> QED BY <1>2, <1>3, <1>4

\* dtp_stop_transfer is called while the session receives.
LEMMA StopActionInv == ASSUME Inv, Stop PROVE Inv'
  <1>1. /\ pc \in {"bind", "loop", "recv"} /\ session.active
        /\ session' = [session EXCEPT !.active = FALSE]
        /\ after_stop' = IF after_stop = NoStop THEN 0 ELSE after_stop
        /\ UNCHANGED <<pc, hook, loop, result, output, unflushed, meta, reqs, net, serverVars>>
    BY DEF Stop, StopCalled, dtp_stop_transfer
  <1>2. Types /\ LinkInv /\ MetaInv /\ SessionInv /\ FilesInv /\ StopInv
    BY DEF Inv
  <1>3. session \in Slots
    BY <1>2, Zenon DEF Types, TypeOK, Slots
  <1>4. /\ session' \in Slots /\ session'.active = FALSE
        /\ UNCHANGED <<session.request, session.bytes_received, session.payload_size>>
    BY <1>1, <1>3, Zenon DEF Slots
  <1>5. Types'
    <2>1. TypeOK'
      BY <1>1, <1>2, <1>4, Zenon DEF Types, TypeOK, Slots
    <2> QED BY <1>1, <1>2, <2>1 DEF Types, serverVars
  <1>6. LinkInv'
    <2>1. net \in Seq(Messages) /\ loop.prev \in Int
      BY <1>2 DEF Types, TypeOK
    <2>2. CASE pc = "bind"
      <3>1. StreamFrom(1)'
        BY <1>1, <1>2, <1>4, <2>1, <2>2, StreamSame DEF LinkInv
      <3> QED BY <1>1, <1>2, <2>2, <3>1 DEF LinkInv
    <2>3. CASE pc \in {"loop", "recv"}
      <3>1. /\ StreamFrom(1) /\ Behind(loop.prev * Chunk, session.request)
            /\ \A k \in DOMAIN net : loop.prev * Chunk <= net[k].off
        BY <1>2, <2>3, Zenon DEF LinkInv
      <3> QED BY <1>1, <1>2, <1>4, <2>1, <2>3, <3>1, LinkRecv
    <2> QED BY <1>1, <2>2, <2>3
  <1>7. SessionInv'
    <2>1. /\ Receiving /\ Got \subseteq output' \cup unflushed' /\ session'.payload_size = PayloadSize
          /\ (pc = "bind" => Got = {})
          /\ (pc \in {"loop", "recv"} => Got \subseteq 0 .. loop.prev /\ loop.prev < metric_last_packet
                                         /\ loop.idle <= TimeoutRounds)
      BY <1>1, <1>2, <1>4, Zenon DEF Receiving, SessionInv, InSession
    <2>2. metric_last_packet' = metric_last_packet
      BY <1>1, <1>4 DEF metric_last_packet
    <2>3. Got' = Got
      BY <1>1 DEF Got
    <2> QED BY <1>1, <1>2, <1>4, <2>1, <2>2, <2>3, SessionStep, Zenon DEF SessionInv
  <1>8. MetaInv' /\ DoneInv' /\ FilesInv' /\ StopInv'
    BY <1>1, <1>2, <1>4 DEF MetaInv, DoneInv, FilesInv, StopInv, Claimed, ExhaustedCharacterised, NoStop
  <1> QED BY <1>5, <1>6, <1>7, <1>8 DEF Inv

\* The packet the loop takes is one that was asked for, and comes after the
\* one it took before.
LEMMA PacketTaken ==
    ASSUME Inv, pc = "recv", net # <<>>, ~IsDuplicate(Head(net))
    PROVE  \E q \in Wanted(session.request) :
              /\ packet_seq(Head(net)) = q /\ Head(net).len = PacketLen(q) /\ loop.prev < q
              /\ \A k \in DOMAIN net : q * Chunk <= net[k].off
              /\ Behind(q * Chunk, session.request)
  <1>1. /\ StreamFrom(1) /\ \A k \in DOMAIN net : loop.prev * Chunk <= net[k].off
        /\ net \in Seq(Messages) /\ Len(net) \in Nat /\ loop.prev \in Int
    BY SMTT(30) DEF Inv, LinkInv, Types, TypeOK
  <1>2. Head(net) = net[1] /\ 1 \in 1 .. Len(net) /\ DOMAIN net = 1 .. Len(net)
    BY <1>1
  <1>3. PICK q \in Wanted(session.request) : net[1] = DataPacket(q * Chunk, PacketLen(q))
    BY <1>1, <1>2, Zenon DEF StreamFrom, Carries
  <1>4. q \in Nat /\ net[1].off = q * Chunk /\ net[1].len = PacketLen(q)
    BY <1>3, LastPacket, SMTT(30) DEF Wanted, Seqs, DataPacket
  <1>5. packet_seq(Head(net)) = q
    BY <1>2, <1>4, SeqOf DEF packet_seq
  <1>6. loop.prev <= q /\ loop.prev # q
    <2>1. loop.prev * Chunk <= q * Chunk
      BY <1>1, <1>2, <1>4
    <2> QED BY <1>1, <1>4, <1>5, <2>1, MulOrder, SMTT(30) DEF IsDuplicate
  <1>7. ASSUME NEW k \in DOMAIN net PROVE q * Chunk <= net[k].off
    <2>1. CASE k = 1
      BY <1>4, <2>1, MulMono
    <2>2. CASE k # 1
      <3>1. 1 < k /\ k \in 1 .. Len(net)
        BY <1>2, <2>2
      <3>2. net[1].off < net[k].off /\ Carries(net[k], session.request)
        BY <1>1, <1>2, <3>1, Zenon DEF StreamFrom
      <3>3. net[k].off \in Int /\ q * Chunk \in Int
        <4>1. PICK r \in Seqs : net[k] = DataPacket(r * Chunk, PacketLen(r))
          BY <3>2, Zenon DEF Carries, Wanted
        <4>2. r * Chunk \in Int /\ q * Chunk \in Int
          BY <1>4, WireAssumption, LastPacket, SMTT(30) DEF Seqs
        <4> QED BY <4>1, <4>2, SMTT(30) DEF DataPacket
      <3> QED BY <1>4, <3>2, <3>3, SMTT(30)
    <2> QED BY <2>1, <2>2
  <1>8. Behind(q * Chunk, session.request)
    <2>1. Behind(net[1].off, session.request)
      BY <1>1, <1>2, Zenon DEF StreamFrom
    <2> QED BY <1>4, <2>1
  <1>9. loop.prev < q
    BY <1>1, <1>4, <1>6, SMTT(30)
  <1> QED BY <1>2, <1>4, <1>5, <1>7, <1>8, <1>9, Zenon

----------------------------------------------------------------------------
(* The session is handed back, saved and released.                         *)

\* The .meta file is rewritten: torn first, then with the session's list.
LEMMA SerializeInv ==
    ASSUME Inv, SerializeOpen \/ SerializeClose, UNCHANGED <<serverVars, after_stop>>
    PROVE  Inv'
  <1>1. Types /\ LinkInv /\ MetaInv /\ DoneInv /\ FilesInv /\ StopInv
    BY DEF Inv
  <1>2. UNCHANGED <<session, hook, loop, result, output, unflushed, reqs, net>>
    BY Zenon DEF SerializeOpen, SerializeClose
  <1>3. CASE SerializeOpen
    <2>1. pc = "returned" /\ pc' = "saving" /\ meta' = TornMeta /\ meta'.state = "torn"
      BY <1>3, Zenon DEF SerializeOpen, TornMeta
    <2>2. Types'
      <3>1. TypeOK'
        BY <1>1, <1>2, <2>1, Zenon DEF Types, TypeOK
      <3> QED BY <1>1, <1>2, <3>1, Zenon DEF Types, serverVars
    <2>3. LinkInv'
      BY <1>1, <1>2, <2>1, Zenon DEF LinkInv
    <2>4. DoneInv'
      BY <1>1, <1>2, <2>1, Zenon DEF DoneInv
    <2>5. MetaInv' /\ SessionInv' /\ FilesInv' /\ StopInv'
      BY <1>1, <1>2, <2>1, Zenon DEF MetaInv, SessionInv, InSession, FilesInv, StopInv, ExhaustedCharacterised
    <2> QED BY <2>2, <2>3, <2>4, <2>5 DEF Inv
  <1>4. CASE SerializeClose
    <2>1. /\ pc = "saving" /\ pc' = "saved"
          /\ meta' = [state |-> "saved", bytes_received |-> session.bytes_received,
                      payload_size |-> session.payload_size, segments |-> hook.segments.segments]
      BY <1>4, Zenon DEF SerializeClose
    <2>2. /\ Separated(hook.segments.segments) /\ Cover(hook.segments.segments) \subseteq Seqs
          /\ Cover(hook.segments.segments) \subseteq output
          /\ session.bytes_received = Bytes(Cover(hook.segments.segments))
          /\ session.payload_size = PayloadSize
      BY <1>1, <2>1, Zenon DEF DoneInv
    <2>3. meta' \in SavedMeta
      <3>1. hook.segments.segments \in Seq([start : Nat, end : Nat])
        BY <1>1 DEF Types, SegmentsCtx, Segments
      <3>2. session.bytes_received \in Nat /\ session.payload_size \in Nat
        BY <1>1 DEF Types, TypeOK
      <3> QED BY <2>1, <3>1, <3>2, Zenon DEF SavedMeta
    <2>4. Types'
      <3>1. TypeOK'
        BY <1>1, <1>2, <2>1, <2>3, Zenon DEF Types, TypeOK
      <3> QED BY <1>1, <1>2, <3>1 DEF Types, serverVars
    <2>5. LinkInv'
      BY <1>1, <1>2, <2>1, Zenon DEF LinkInv
    <2>6. MetaInv'
      BY <1>2, <2>1, <2>2, Zenon DEF MetaInv, Claimed
    <2>7. DoneInv'
      BY <1>1, <1>2, <2>1, Zenon DEF DoneInv
    <2>8. SessionInv' /\ FilesInv' /\ StopInv'
      BY <1>1, <1>2, <2>1, Zenon DEF SessionInv, InSession, FilesInv, StopInv, ExhaustedCharacterised
    <2> QED BY <2>4, <2>5, <2>6, <2>7, <2>8 DEF Inv
  <1> QED BY <1>3, <1>4

=============================================================================
