------------------------- MODULE DtpTransferProofs -------------------------
(***************************************************************************)
(* For every payload and chunk size, every number of intervals in a        *)
(* request, every backlog and every capacity of the link: what the .meta   *)
(* file claims is in the output file, counted once, and DTP_OK is only     *)
(* said of a complete file.  Client, link and server implement             *)
(* DtpDownload.                                                            *)
(***************************************************************************)
EXTENDS DtpTransferLemmas, DtpSegmentLemmas

----------------------------------------------------------------------------
(* Counting bytes.                                                         *)

\* What packet n - 1 adds to the bytes of S.
Part(S, n) == IF n - 1 \in S THEN PacketLen(n - 1) ELSE 0

\* What packet n - 1 can add.
LEMMA PartType == ASSUME NEW S, NEW n \in 1 .. LastSeq + 1
                  PROVE  n - 1 \in Seqs /\ PacketLen(n - 1) \in Nat /\ Part(S, n) \in Nat
  <1>1. n - 1 \in Seqs
    BY LastPacket DEF Seqs
  <1>2. PacketLen(n - 1) \in Nat
    BY <1>1, PacketLength
  <1> QED BY <1>1, <1>2 DEF Part

\* The bytes are added up packet by packet.
LEMMA BytesRun ==
    ASSUME NEW S
    PROVE  \E sum \in [0 .. LastSeq + 1 -> Nat] :
              /\ Bytes(S) = sum[LastSeq + 1]
              /\ sum[0] = 0
              /\ \A n \in 1 .. LastSeq + 1 : sum[n] = sum[n - 1] + Part(S, n)
  <1> DEFINE N == LastSeq + 1
             sum[n \in 0 .. N] == IF n = 0 THEN 0 ELSE sum[n - 1] + Part(S, n)
             W == [n \in 0 .. N |-> Nat]
             turn == [n \in 1 .. N |-> [x \in Nat |-> x + Part(S, n)]]
  <1>1. N \in Nat /\ N \in 0 .. N /\ Bytes(S) = sum[N]
    BY LastPacket DEF Bytes, Part
  <1>2. \A n \in 1 .. N : Part(S, n) \in Nat /\ n - 1 \in 0 .. N /\ n \in 0 .. N
    BY <1>1, PartType
  <1> HIDE DEF N
  <1>3. \E w : w = [n \in 0 .. N |-> IF n = 0 THEN 0 ELSE w[n - 1] + Part(S, n)]
    <2>1. \A n \in 1 .. N : \A x \in W[n - 1] : turn[n][x] \in W[n] /\ turn[n][x] = x + Part(S, n) /\ x \in Nat
      BY <1>2
    <2>2. 0 \in W[0] /\ (\A n \in 0 .. N : W[n] = Nat)
      BY <1>1
    <2> HIDE DEF W, turn
    <2>3. PICK w : IsRun(w, N, W, 0, turn)
      BY <1>1, <2>1, <2>2, RunExists
    <2>4. ASSUME NEW n \in 0 .. N, n # 0 PROVE turn[n][w[n - 1]] = w[n - 1] + Part(S, n)
      <3>1. n \in 1 .. N /\ n - 1 \in 0 .. N
        BY <1>1, <2>4
      <3> QED BY <2>1, <2>3, <3>1, Zenon DEF IsRun
    <2>5. w = [n \in 0 .. N |-> IF n = 0 THEN 0 ELSE w[n - 1] + Part(S, n)]
      BY <2>3, <2>4, Zenon DEF IsRun
    <2> QED BY <2>5, Zenon
  <1>4. sum = [n \in 0 .. N |-> IF n = 0 THEN 0 ELSE sum[n - 1] + Part(S, n)]
    BY <1>3, Zenon DEF sum
  <1> HIDE DEF sum
  <1>5. sum[0] = 0 /\ \A n \in 1 .. N : sum[n] = sum[n - 1] + Part(S, n)
    BY <1>1, <1>2, <1>4
  <1>6. \A n \in 0 .. N : sum[n] \in Nat
    <2> DEFINE T == {n \in 0 .. N : sum[n] \in Nat}
    <2>1. 0 \in T
      BY <1>1, <1>5
    <2>2. ASSUME NEW n \in 1 .. N, n - 1 \in T PROVE n \in T
      BY <1>2, <1>5, <2>2
    <2>3. \A n \in 0 .. N : n \in T
      <3> HIDE DEF T
      <3> QED BY <1>1, <2>1, <2>2, TurnInduction
    <2> QED BY <2>3
  <1>7. sum \in [0 .. N -> Nat]
    BY <1>4, <1>6
  <1> QED BY <1>1, <1>5, <1>7 DEF N

\* The bytes of a set of packets are a number.
LEMMA BytesType == ASSUME NEW S PROVE Bytes(S) \in Nat
  <1>1. LastSeq + 1 \in 0 .. LastSeq + 1
    BY LastPacket
  <1> QED BY <1>1, BytesRun

\* No packets, no bytes.
LEMMA BytesNone == Bytes({}) = 0
  <1> DEFINE N == LastSeq + 1
  <1>1. PICK s \in [0 .. N -> Nat] : /\ Bytes({}) = s[N] /\ s[0] = 0
                                     /\ \A n \in 1 .. N : s[n] = s[n - 1] + Part({}, n)
    BY BytesRun, Zenon
  <1>2. N \in Nat /\ N \in 0 .. N
    BY LastPacket
  <1> HIDE DEF N
  <1> DEFINE T == {n \in 0 .. N : s[n] = 0}
  <1>3. ASSUME NEW n \in 1 .. N, n - 1 \in T PROVE n \in T
    BY <1>1, <1>2, <1>3 DEF Part
  <1>4. 0 \in T
    BY <1>1, <1>2
  <1>5. \A n \in 0 .. N : n \in T
    <2> HIDE DEF T
    <2> QED BY <1>2, <1>3, <1>4, TurnInduction, Zenon
  <1> QED BY <1>1, <1>2, <1>5

\* A new packet adds its data bytes.
LEMMA BytesAdd ==
    ASSUME NEW S, NEW q \in Seqs, q \notin S
    PROVE  Bytes(S \cup {q}) = Bytes(S) + PacketLen(q)
  <1> DEFINE N == LastSeq + 1
             R == S \cup {q}
             L(n) == IF q < n THEN PacketLen(q) ELSE 0
  <1>1. PICK s \in [0 .. N -> Nat] : /\ Bytes(S) = s[N] /\ s[0] = 0
                                     /\ \A n \in 1 .. N : s[n] = s[n - 1] + Part(S, n)
    BY BytesRun, Zenon
  <1>2. PICK r \in [0 .. N -> Nat] : /\ Bytes(R) = r[N] /\ r[0] = 0
                                     /\ \A n \in 1 .. N : r[n] = r[n - 1] + Part(R, n)
    <2> HIDE DEF R
    <2> QED BY BytesRun
  <1>3. N \in Nat /\ N \in 0 .. N /\ q \in Nat /\ q < N /\ PacketLen(q) \in Nat
    BY LastPacket, PacketLength DEF Seqs
  <1>4. \A n \in 1 .. N : Part(S, n) \in Nat
    BY PartType
  <1> HIDE DEF N
  <1> DEFINE T == {n \in 0 .. N : r[n] = s[n] + L(n)}
  <1>5. ASSUME NEW n \in 1 .. N, n - 1 \in T PROVE n \in T
    <2>1. /\ n - 1 \in 0 .. N /\ n \in 0 .. N /\ s[n - 1] \in Nat /\ s[n] = s[n - 1] + Part(S, n)
          /\ r[n] = r[n - 1] + Part(R, n) /\ r[n - 1] = s[n - 1] + L(n - 1) /\ Part(S, n) \in Nat
      <3> HIDE DEF R, L
      <3>1. n - 1 \in 0 .. N /\ n \in 0 .. N /\ r[n - 1] = s[n - 1] + L(n - 1)
        BY <1>3, <1>5
      <3> QED BY <1>1, <1>2, <1>4, <3>1
    <2>2. CASE n - 1 = q
      <3>1. Part(R, n) = PacketLen(q) /\ Part(S, n) = 0 /\ L(n - 1) = 0 /\ L(n) = PacketLen(q)
        BY <1>3, <2>2 DEF Part
      <3> HIDE DEF R, L
      <3> QED BY <1>3, <2>1, <3>1
    <2>3. CASE n - 1 # q
      <3>1. Part(R, n) = Part(S, n)
        BY <2>3 DEF Part
      <3>2. L(n - 1) = L(n) /\ L(n) \in Nat
        BY <1>3, <2>3
      <3> HIDE DEF R, L
      <3> QED BY <2>1, <3>1, <3>2
    <2> QED BY <2>2, <2>3
  <1>6. 0 \in T
    BY <1>1, <1>2, <1>3
  <1>7. \A n \in 0 .. N : n \in T
    <2> HIDE DEF T
    <2> QED BY <1>3, <1>5, <1>6, TurnInduction, Zenon
  <1>8. r[N] = s[N] + L(N) /\ L(N) = PacketLen(q)
    BY <1>3, <1>7
  <1> QED BY <1>1, <1>2, <1>8

\* All packets together are the payload.
LEMMA BytesWhole == Bytes(Seqs) = PayloadSize
  <1> DEFINE N == LastSeq + 1
  <1>1. PICK s \in [0 .. N -> Nat] : /\ Bytes(Seqs) = s[N] /\ s[0] = 0
                                     /\ \A n \in 1 .. N : s[n] = s[n - 1] + Part(Seqs, n)
    BY BytesRun
  <1> DEFINE T == {n \in 0 .. LastSeq : s[n] = n * Chunk}
  <1>2. ASSUME NEW n \in 1 .. LastSeq, n - 1 \in T PROVE n \in T
    <2>1. n \in 1 .. N /\ n - 1 < LastSeq /\ n - 1 \in Nat /\ n \in 0 .. LastSeq
      BY LastPacket
    <2>2. Part(Seqs, n) = Chunk
      BY <2>1, PartType DEF Part, PacketLen
    <2>3. s[n] = (n - 1) * Chunk + Chunk
      BY <1>1, <1>2, <2>1, <2>2
    <2>4. n - 1 < n
      BY <2>1
    <2>5. ((n - 1) + 1) * Chunk = (n - 1) * Chunk + Chunk /\ (n - 1) + 1 = n
      BY <2>1, <2>4, MulStrict
    <2> QED BY <2>1, <2>3, <2>5
  <1>3. 0 \in T
    BY <1>1, LastPacket, WireAssumption
  <1>4. \A n \in 0 .. LastSeq : n \in T
    <2> HIDE DEF T
    <2> QED BY <1>2, <1>3, LastPacket, TurnInduction, Zenon
  <1>5. s[LastSeq] = LastSeq * Chunk
    BY <1>4, LastPacket
  <1>6. /\ N \in 1 .. N /\ N - 1 = LastSeq /\ LastSeq \in Seqs /\ LastSeq * Chunk \in Int
        /\ PayloadSize \in Int
    BY LastPacket, WireAssumption DEF Seqs
  <1>7. Part(Seqs, N) = PayloadSize - LastSeq * Chunk
    BY <1>6, LastPacket DEF Part, PacketLen
  <1>8. s[N] = s[LastSeq] + Part(Seqs, N)
    BY <1>1, <1>6
  <1> QED BY <1>1, <1>5, <1>6, <1>7, <1>8

\* A missing packet is missing from the count.
LEMMA BytesBound ==
    ASSUME NEW S \in SUBSET Seqs, NEW q \in Seqs, q \notin S
    PROVE  Bytes(S) + PacketLen(q) <= PayloadSize
  <1> DEFINE N == LastSeq + 1
             R == S \cup {q}
  <1>1. PICK s \in [0 .. N -> Nat] : /\ Bytes(Seqs) = s[N] /\ s[0] = 0
                                     /\ \A n \in 1 .. N : s[n] = s[n - 1] + Part(Seqs, n)
    BY BytesRun
  <1>2. PICK r \in [0 .. N -> Nat] : /\ Bytes(R) = r[N] /\ r[0] = 0
                                     /\ \A n \in 1 .. N : r[n] = r[n - 1] + Part(R, n)
    <2> HIDE DEF R
    <2> QED BY BytesRun
  <1>3. N \in Nat /\ N \in 0 .. N
    BY LastPacket
  <1>4. ASSUME NEW n \in 1 .. N
        PROVE  Part(Seqs, n) \in Nat /\ Part(R, n) \in Nat /\ Part(R, n) <= Part(Seqs, n)
    BY <1>4, PartType DEF Part
  <1> HIDE DEF N, R
  <1> DEFINE T == {n \in 0 .. N : r[n] <= s[n]}
  <1>5. ASSUME NEW n \in 1 .. N, n - 1 \in T PROVE n \in T
    <2>1. n - 1 \in 0 .. N /\ n \in 0 .. N /\ s[n - 1] \in Nat /\ r[n - 1] \in Nat /\ r[n - 1] <= s[n - 1]
      BY <1>3, <1>5
    <2> QED BY <1>1, <1>2, <1>4, <2>1
  <1>6. 0 \in T
    BY <1>1, <1>2, <1>3
  <1>7. \A n \in 0 .. N : n \in T
    <2> HIDE DEF T
    <2> QED BY <1>3, <1>5, <1>6, TurnInduction, Zenon
  <1>8. Bytes(R) <= Bytes(Seqs)
    BY <1>1, <1>2, <1>3, <1>7
  <1> QED BY <1>8, BytesAdd, BytesWhole DEF R

\* The count of bytes tells whether everything is there.
LEMMA BytesAll ==
    ASSUME NEW S \in SUBSET Seqs
    PROVE  Bytes(S) = PayloadSize <=> S = Seqs
  <1>1. ASSUME S # Seqs PROVE Bytes(S) # PayloadSize
    <2>1. PICK q \in Seqs : q \notin S
      BY <1>1
    <2>2. Bytes(S) + PacketLen(q) <= PayloadSize
      BY <2>1, BytesBound
    <2>3. Bytes(S) \in Nat /\ PacketLen(q) \in Nat /\ 0 < PacketLen(q) /\ PayloadSize \in Nat
      BY BytesType, PacketLength, WireAssumption
    <2> QED BY <2>2, <2>3
  <1> QED BY <1>1, BytesWhole

\* A count of zero means that there is nothing.
LEMMA BytesZero == ASSUME NEW S \in SUBSET Seqs, Bytes(S) = 0 PROVE S = {}
  <1> SUFFICES ASSUME NEW q \in S PROVE FALSE
    OBVIOUS
  <1> DEFINE R == S \ {q}
  <1>1. R \cup {q} = S /\ q \in Seqs /\ q \notin R
    OBVIOUS
  <1> HIDE DEF R
  <1>2. Bytes(S) = Bytes(R) + PacketLen(q)
    BY <1>1, BytesAdd
  <1>3. Bytes(R) \in Nat /\ PacketLen(q) \in Nat /\ 0 < PacketLen(q)
    BY <1>1, BytesType, PacketLength
  <1> QED BY <1>2, <1>3

----------------------------------------------------------------------------
(* The request of a resumed session.                                       *)

\* create_meta_data asks for ascending intervals of the payload, for nothing
\* that is in the list, and for all that is missing as far as its intervals
\* reach, but for the last packet; it asks for nothing only when nothing but
\* that packet is missing, or the list is empty.
LEMMA RequestOf ==
    ASSUME NEW segs \in Seq(Segments), Separated(segs), Cover(segs) \subseteq Seqs
    PROVE  LET req == RequestFor(LoadSegments(segs), PayloadSize)
               C == Cover(segs)
           IN  /\ req \in Seq(Intervals)
               /\ req # <<>> =>
                    /\ Askable(req)
                    /\ Wanted(req) \cap C = {}
                    /\ (0 .. Reach(req)) \ C \subseteq
                           Wanted(req) \cup IF LastSeq - 1 \in C THEN {LastSeq} ELSE {}
               /\ req = <<>> => C = {} \/ Seqs \ C \subseteq {LastSeq}
  <1> DEFINE c == LoadSegments(segs)
             C == Cover(segs)
             E == PayloadSize \div Chunk
             M == (0 .. E) \ C
             d == get_complement_segment(c, 0, E)
             nodes == d.segments
             k == IF d.nof < MaxIntervals THEN d.nof ELSE MaxIntervals
             req == SubSeq(nodes, 1, k)
  <1>1. RequestFor(c, PayloadSize) = req
    BY DEF RequestFor
  <1>2. c \in SegmentsCtx /\ c.segments = segs
    <2>1. NoSegment \in Segments
      BY DEF NoSegment, Segment, Segments
    <2>2. c = [segments |-> segs, cur |-> NoSegment, nof |-> Len(segs),
               started |-> FALSE, linked |-> FALSE, freed |-> FALSE]
      BY Loads
    <2>3. Len(segs) \in Nat
      OBVIOUS
    <2> HIDE DEF c
    <2> QED BY <2>1, <2>2, <2>3 DEF SegmentsCtx
  <1>3. /\ E \in Nat /\ LastSeq \in Nat /\ LastSeq <= E
        /\ (E = LastSeq \/ E = LastSeq + 1)
    BY EndOfPayload, LastPacket
  <1> HIDE DEF c, E
  <1>4. C \subseteq 0 .. E
    BY <1>3 DEF Seqs
  <1>5. /\ d \in SegmentsCtx /\ Separated(nodes) /\ d.nof = Len(nodes)
        /\ Cover(nodes) = IF segs = <<>> THEN {} ELSE IF E - 1 \in M THEN M ELSE M \ {E}
    BY <1>2, <1>3, <1>4, Complement, Zenon
  <1> HIDE DEF d
  <1>6. nodes \in Seq(Segments) /\ Len(nodes) \in Nat
    BY <1>5 DEF SegmentsCtx
  <1> HIDE DEF nodes, M
  <1>7. /\ k \in Nat /\ k <= Len(nodes) /\ k <= MaxIntervals /\ (k = Len(nodes) \/ k = MaxIntervals)
        /\ (k = 0 => Len(nodes) = 0)
    BY <1>5, <1>6, ClientAssumption
  <1> HIDE DEF k
  <1>8. /\ req \in Seq(Segments) /\ Len(req) = k
        /\ \A i \in 1 .. k : req[i] = nodes[i]
    BY <1>6, <1>7
  <1> HIDE DEF req
  <1>9. /\ \A i \in 1 .. Len(nodes) : nodes[i].start \in Nat /\ nodes[i].end \in Nat /\ nodes[i].start <= nodes[i].end
        /\ \A i, j \in 1 .. Len(nodes) : i < j => nodes[i].end + 1 < nodes[j].start
    BY <1>5, <1>6, Nodes
  <1>10. \A x : x \in Cover(nodes) <=> x \in Nat /\ \E i \in 1 .. Len(nodes) : x \in nodes[i].start .. nodes[i].end
    <2>1. \A x \in Nat : x \in Cover(nodes) <=> \E i \in 1 .. Len(nodes) : x \in nodes[i].start .. nodes[i].end
      BY <1>6, CoverMember
    <2>2. \A x \in Cover(nodes) : x \in Nat
      BY <1>3, <1>5 DEF M
    <2> QED BY <2>1, <2>2
  <1>11. Cover(nodes) \subseteq M
    BY <1>5
  <1>12. ASSUME NEW i \in 1 .. Len(nodes)
         PROVE  /\ nodes[i].start <= LastSeq /\ nodes[i].end <= E
                /\ nodes[i].start .. nodes[i].end \subseteq M
    <2>1. nodes[i].start .. nodes[i].end \subseteq M
      <3> SUFFICES ASSUME NEW x \in nodes[i].start .. nodes[i].end PROVE x \in M
        OBVIOUS
      <3>1. x \in Nat
        BY <1>9
      <3> QED BY <1>10, <1>11, <3>1
    <2>2. nodes[i].start \in nodes[i].start .. nodes[i].end /\ nodes[i].end \in nodes[i].start .. nodes[i].end
      BY <1>9
    <2>3. nodes[i].start \in 0 .. E /\ nodes[i].end \in 0 .. E
      BY <2>1, <2>2 DEF M
    <2>4. ASSUME nodes[i].start = LastSeq + 1 PROVE FALSE
      <3>1. E = LastSeq + 1 /\ nodes[i].start = E /\ nodes[i].end = E
        BY <1>3, <1>9, <2>3, <2>4
      <3>2. E \in Cover(nodes)
        BY <1>3, <1>10, <2>2, <3>1
      <3>3. E - 1 \in Cover(nodes) /\ E - 1 \in Nat
        <4>1. E - 1 \in M
          BY <1>5, <3>2
        <4> QED BY <1>3, <1>5, <3>1, <3>2, <4>1
      <3>4. PICK j \in 1 .. Len(nodes) : E - 1 \in nodes[j].start .. nodes[j].end
        BY <1>10, <3>3
      <3>5. nodes[j].start \in Nat /\ nodes[j].end \in Nat /\ nodes[j].start <= E - 1 /\ E - 1 <= nodes[j].end
        BY <1>9, <3>4
      <3>6. CASE j < i
        <4>1. nodes[j].end + 1 < nodes[i].start
          BY <1>9, <3>6, Zenon
        <4> QED BY <1>3, <3>1, <3>5, <4>1, SMTT(30)
      <3>7. CASE i < j
        <4>1. nodes[i].end + 1 < nodes[j].start
          BY <1>9, <3>7
        <4> QED BY <1>3, <3>1, <3>5, <4>1
      <3>8. CASE i = j
        BY <1>3, <3>1, <3>5, <3>8
      <3> QED BY <3>6, <3>7, <3>8
    <2>5. nodes[i].start <= LastSeq
      BY <1>3, <2>3, <2>4
    <2> QED BY <2>1, <2>3, <2>5
  <1>13. \A q \in Seqs : q \in Wanted(req) <=> \E i \in 1 .. k : q \in nodes[i].start .. nodes[i].end
    <2> SUFFICES ASSUME NEW q \in Seqs
                 PROVE  q \in Wanted(req) <=> \E i \in 1 .. k : q \in nodes[i].start .. nodes[i].end
      OBVIOUS
    <2>1. q \in Nat /\ DOMAIN req = 1 .. k
      BY <1>8 DEF Seqs
    <2>2. \A i \in 1 .. k : /\ req[i] = nodes[i] /\ nodes[i].end # UINT32_MAX
                            /\ nodes[i].start \in Nat /\ nodes[i].end \in Nat
      <3>1. \A i \in 1 .. k : i \in 1 .. Len(nodes)
        BY <1>6, <1>7
      <3> QED BY <1>8, <1>9, <3>1 DEF UINT32_MAX
    <2>3. q \in Wanted(req) <=> \E i \in 1 .. k : req[i].start <= q /\ (req[i].end = UINT32_MAX \/ q <= req[i].end)
      BY <2>1 DEF Wanted
    <2> QED BY <2>1, <2>2, <2>3
  <1>14. req \in Seq(Intervals)
    <2>1. Segments \subseteq Intervals
      BY DEF Segments, Intervals
    <2> QED BY <1>8, <2>1
  <1>15. ASSUME req # <<>> PROVE Askable(req)
    <2>1. DOMAIN req = 1 .. k /\ \A i \in 1 .. k : req[i] = nodes[i] /\ i \in 1 .. Len(nodes)
      BY <1>6, <1>7, <1>8
    <2>2. \A i \in 1 .. k : /\ req[i].start <= LastSeq /\ req[i].start <= req[i].end /\ req[i].end <= E
                            /\ req[i].end # UINT32_MAX
      BY <1>9, <1>12, <2>1, SMTT(30) DEF UINT32_MAX
    <2>3. \A i, j \in 1 .. k : i < j => req[i].end < req[j].start
      <3> SUFFICES ASSUME NEW i \in 1 .. k, NEW j \in 1 .. k, i < j PROVE nodes[i].end < nodes[j].start
        BY <2>1
      <3>1. nodes[i].end + 1 < nodes[j].start /\ nodes[i].end \in Nat /\ nodes[j].start \in Nat
        BY <1>9, <2>1, Zenon
      <3> QED BY <3>1, SMTT(30)
    <2> QED BY <1>14, <1>15, <2>1, <2>2, <2>3, Zenon DEF Askable, E
  <1>16. Wanted(req) \cap C = {}
    <2> SUFFICES ASSUME NEW q \in Wanted(req), q \in C PROVE FALSE
      OBVIOUS
    <2>1. q \in Seqs
      BY Zenon DEF Wanted
    <2>2. PICK i \in 1 .. k : q \in nodes[i].start .. nodes[i].end
      BY <1>13, <2>1, Zenon
    <2>3. i \in 1 .. Len(nodes)
      BY <1>6, <1>7
    <2> QED BY <1>12, <2>2, <2>3, Zenon DEF M
  <1>17. \A x \in Seqs : x \notin C /\ x \notin Cover(nodes) /\ nodes # <<>> => x = LastSeq /\ LastSeq - 1 \in C
    <2> SUFFICES ASSUME NEW x \in Seqs, x \notin C, x \notin Cover(nodes), nodes # <<>>
                 PROVE  x = LastSeq /\ LastSeq - 1 \in C
      OBVIOUS
    <2>1. x \in Nat /\ x <= LastSeq /\ x \in M
      BY <1>3 DEF Seqs, M
    <2>2. 1 \in 1 .. Len(nodes)
      BY <1>6
    <2>3. nodes[1].start \in Cover(nodes) /\ nodes[1].start \in Nat /\ nodes[1].start <= LastSeq
      <3>1. nodes[1].start \in nodes[1].start .. nodes[1].end /\ nodes[1].start \in Nat
        BY <1>9, <2>2, SMTT(30)
      <3> QED BY <1>10, <1>12, <2>2, <3>1, Zenon
    <2>4. segs # <<>> /\ E - 1 \notin M /\ Cover(nodes) = M \ {E}
      BY <1>5, <2>1, <2>3, Zenon
    <2>5. x = E /\ E = LastSeq
      BY <1>3, <2>1, <2>4
    <2>6. LastSeq # 0
      BY <2>3, <2>4, <2>5
    <2>7. LastSeq - 1 \in 0 .. E
      BY <1>3, <2>6
    <2> QED BY <2>4, <2>5, <2>7 DEF M
  <1>18. ASSUME req # <<>>
         PROVE  (0 .. Reach(req)) \ C \subseteq Wanted(req) \cup IF LastSeq - 1 \in C THEN {LastSeq} ELSE {}
    <2> DEFINE R == Reach(req)
    <2>1. k \in 1 .. Len(nodes) /\ k \in 1 .. k /\ req[k] = nodes[k] /\ Len(req) = k
      BY <1>7, <1>8, <1>18
    <2>2. /\ nodes[k].end \in Nat
          /\ R = IF k < MaxIntervals \/ nodes[k].end > LastSeq THEN LastSeq ELSE nodes[k].end
      BY <1>9, <2>1, Zenon DEF Reach
    <2>3. R \in Nat /\ R <= LastSeq
      BY <1>3, <2>2
    <2> HIDE DEF R
    <2> SUFFICES ASSUME NEW x \in 0 .. R, x \notin C, ~(x = LastSeq /\ LastSeq - 1 \in C)
                 PROVE  x \in Wanted(req)
      BY DEF R
    <2>4. x \in Seqs /\ x \in Nat /\ x <= R
      BY <1>3, <2>3 DEF Seqs
    <2>5. nodes # <<>>
      BY <2>1
    <2>6. PICK i \in 1 .. Len(nodes) : x \in nodes[i].start .. nodes[i].end
      BY <1>10, <1>17, <2>4, <2>5, Zenon
    <2>7. i <= k
      <3> SUFFICES ASSUME k < i PROVE FALSE
        BY <2>1
      <3>1. nodes[k].end + 1 < nodes[i].start /\ nodes[i].start \in Nat
        BY <1>9, <2>1, Zenon
      <3>2. ~(k < MaxIntervals)
        BY <1>6, <1>7, ClientAssumption
      <3> QED BY <1>3, <1>9, <2>2, <2>4, <2>6, <3>1, <3>2, SMTT(30)
    <2>8. i \in 1 .. k
      BY <2>1, <2>7
    <2> QED BY <1>13, <2>4, <2>6, <2>8, Zenon
  <1>19. ASSUME req = <<>> PROVE C = {} \/ Seqs \ C \subseteq {LastSeq}
    <2>1. k = 0 /\ Len(nodes) = 0
      BY <1>7, <1>8, <1>19
    <2>2. Cover(nodes) = {}
      BY <1>10, <2>1
    <2>3. CASE segs = <<>>
      BY <2>3, EmptyList
    <2>4. CASE segs # <<>>
      <3>1. M \subseteq {E}
        BY <1>5, <2>2, <2>4
      <3> QED BY <1>3, <3>1 DEF M, Seqs
    <2> QED BY <2>3, <2>4
  <1> QED BY <1>1, <1>14, <1>15, <1>16, <1>18, <1>19 DEF c

----------------------------------------------------------------------------
(* The control port and the link.                                          *)

\* The initial states satisfy the invariant.
LEMMA InitInv == ASSUME Init PROVE Inv
  <1> USE DEF Init, ClientInit, ServerInit
  <1>1. TypeOK
    <2>1. Len(reqs) = 0 /\ Len(net) = 0 /\ 0 <= Backlog /\ 0 <= MaxInFlight
      BY ClientAssumption, LinkAssumption
    <2>2. session \in [bytes_received : Nat, payload_size : Nat, request : Seq(Intervals), active : BOOLEAN]
      BY DEF FreshSlot
    <2>3. loop \in [nof : Nat, prev : Nat \cup {-1}, idle : 0 .. TimeoutRounds + 1]
      BY ClientAssumption DEF NoLoop
    <2> QED BY <2>1, <2>2, <2>3 DEF TypeOK
  <1>2. Types
    <2>1. hook \in [segments : SegmentsCtx, received : SegmentsCtx \cup {NoList}]
      BY EmptyList DEF NoHook
    <2> QED BY <1>1, <2>1 DEF Types, NoStop
  <1>3. LinkInv
    BY DEF LinkInv
  <1>4. meta.state # "saved"
    BY DEF NoMeta
  <1> QED BY <1>2, <1>3, <1>4, Zenon DEF Inv, MetaInv, SessionInv, InSession, DoneInv, FilesInv, StopInv,
                                  ExhaustedCharacterised

----------------------------------------------------------------------------
(* The connection is closed; the client is idle again.                     *)

\* A session that ends before it is handed back, is released or dies with the
\* process leaves the .meta file as it was, and the output file no smaller.
LEMMA IdleInv ==
    ASSUME Inv, pc' = "idle", hook' = NoHook, result' \in {"none", "ok", "cancelled", "error"},
           session' \in Slots, loop' \in {loop, NoLoop},
           output \subseteq output', output' \subseteq Seqs, unflushed' = {},
           UNCHANGED <<meta, after_stop, serverVars>>,
           CloseConn \/ (UNCHANGED <<reqs, net>> /\ pc # "meta")
    PROVE  Inv'
  <1>1. Types /\ LinkInv /\ MetaInv /\ StopInv
    BY DEF Inv
  <1>2. /\ reqs' \in Seq([request : Seq(Intervals), live : BOOLEAN]) /\ Len(reqs') <= Backlog
        /\ net' \in Seq(Messages) /\ Len(net') <= MaxInFlight
        /\ LinkInv'
    BY <1>1, ClosedLink
  <1>3. TypeOK'
    <2>1. loop' \in [nof : Nat, prev : Nat \cup {-1}, idle : 0 .. TimeoutRounds + 1]
      BY <1>1, ClientAssumption, SMTT(30) DEF Types, TypeOK, NoLoop
    <2> QED BY <1>1, <1>2, <2>1, Zenon DEF Types, TypeOK, Slots
  <1>4. Types'
    <2>1. hook' \in [segments : SegmentsCtx, received : SegmentsCtx \cup {NoList}]
      BY EmptyList DEF NoHook
    <2> QED BY <1>1, <1>2, <1>3, <2>1 DEF Types, serverVars
  <1>5. MetaInv'
    BY <1>1 DEF MetaInv, Claimed
  <1>6. StopInv'
    BY <1>1 DEF StopInv
  <1> QED BY <1>2, <1>4, <1>5, <1>6, Zenon DEF Inv, SessionInv, InSession, DoneInv, FilesInv, ExhaustedCharacterised

\* The connection or the response fails, or the port cannot be bound.
LEMMA FailsInv == ASSUME Inv, ConnectFails \/ MetaTimeout \/ BindFails, UNCHANGED <<serverVars, after_stop>>
                  PROVE  Inv'
  <1>1. /\ pc \in {"prepared", "meta", "bind"} /\ pc' = "idle" /\ result' = "error" /\ dtp_release_session
        /\ UNCHANGED <<loop, output, unflushed, meta>>
        /\ CloseConn \/ (UNCHANGED <<reqs, net>> /\ pc # "meta")
    BY DEF ConnectFails, MetaTimeout, BindFails, FailWith
  <1>2. hook' = NoHook /\ session' \in Slots
    BY <1>1, ReleasedSlot DEF Inv
  <1>3. unflushed' = {} /\ output' \subseteq Seqs
    BY <1>1, Zenon DEF Inv, FilesInv, Types, TypeOK
  <1> QED BY <1>1, <1>2, <1>3, IdleInv

\* The caller releases the session.
LEMMA ReleaseInv == ASSUME Inv, Release, UNCHANGED <<serverVars, after_stop>> PROVE Inv'
  <1>1. /\ pc \in {"returned", "saved"} /\ pc' = "idle" /\ dtp_release_session
        /\ UNCHANGED <<loop, result, output, unflushed, meta, reqs, net>>
    BY DEF Release
  <1>2. hook' = NoHook /\ session' \in Slots
    BY <1>1, ReleasedSlot DEF Inv
  <1>3. unflushed' = {} /\ output' \subseteq Seqs /\ result' \in {"ok", "cancelled"}
    BY <1>1, Zenon DEF Inv, FilesInv, Types, TypeOK, DoneInv
  <1> QED BY <1>1, <1>2, <1>3, IdleInv

\* The client process dies: the file keeps what it has, and perhaps what was
\* in the stdio buffer.
LEMMA CrashInv == ASSUME Inv, ClientCrash PROVE Inv'
  <1>1. /\ pc' = "idle" /\ session' = FreshSlot /\ hook' = NoHook /\ loop' = NoLoop /\ result' = "none"
        /\ unflushed' = {} /\ CloseConn /\ UNCHANGED <<meta, serverVars, after_stop>>
    BY DEF ClientCrash, Crash
  <1>2. PICK kept \in SUBSET unflushed : output' = output \cup kept
    BY DEF ClientCrash, Crash
  <1>3. output \subseteq output' /\ output' \subseteq Seqs
    BY <1>2 DEF Inv, Types, TypeOK
  <1>4. session' \in Slots
    BY <1>1, SMTT(30) DEF FreshSlot, Slots
  <1> QED BY <1>1, <1>3, <1>4, IdleInv

----------------------------------------------------------------------------
(* dtp_prepare_session.                                                    *)

\* A list that has not been started.
LEMMA NothingBuilt == /\ Building(init_segments_ctx) /\ Claims(init_segments_ctx) = {}
                      /\ init_segments_ctx.started = FALSE /\ init_segments_ctx \in SegmentsCtx
  <1> DEFINE c == init_segments_ctx
  <1>1. /\ c \in SegmentsCtx /\ c.segments = <<>> /\ c.nof = 0 /\ c.freed = FALSE /\ c.linked = FALSE
        /\ c.started = FALSE /\ c.cur = NoSegment /\ Len(<<>>) = 0 /\ Separated(<<>>) /\ Cover(<<>>) = {}
    BY EmptyList
  <1> HIDE DEF c
  <1>2. Building(c)
    BY <1>1 DEF Building
  <1>3. Claims(c) = {}
    BY <1>1 DEF Claims, NoSegment, Segment
  <1> QED BY <1>1, <1>2, <1>3 DEF c

\* A session is prepared: it has received nothing yet, and asks for what is
\* missing.
LEMMA PreparedInv ==
    ASSUME Inv, pc = "idle", pc' = "prepared", result' = "none", after_stop' = NoStop,
           session' \in Slots, Askable(session'.request),
           hook' = [segments |-> init_segments_ctx, received |-> Loaded],
           session'.bytes_received = Bytes(Claimed),
           Wanted(session'.request) \cap Claimed = {},
           meta.state = "saved" =>
               (0 .. Reach(session'.request)) \ Claimed \subseteq
                   Wanted(session'.request) \cup IF LastSeq - 1 \in Claimed THEN {LastSeq} ELSE {},
           UNCHANGED <<loop, output, unflushed, meta, reqs, net, serverVars>>
    PROVE  Inv'
  <1>1. Types /\ LinkInv /\ MetaInv /\ unflushed = {}
    BY Zenon DEF Inv, FilesInv
  <1>2. Claimed' = Claimed /\ Loaded' = Loaded
    BY Zenon DEF Claimed, Loaded
  <1>3. hook'.segments = init_segments_ctx /\ hook'.received = Loaded
    OBVIOUS
  <1>4. Types'
    <2>1. Loaded \in SegmentsCtx \cup {NoList}
      <3>1. CASE meta.state = "saved"
        <4>1. meta.segments \in Seq(Segments)
          BY <1>1, <3>1, SavedFields
        <4>2. PICK s \in Seq(Segments) : s = meta.segments
          BY <4>1
        <4>3. LoadSegments(s) \in SegmentsCtx
          <5>1. NoSegment \in Segments /\ Len(s) \in Nat
            BY SMTT(30) DEF NoSegment, Segment, Segments
          <5>2. [segments |-> s, cur |-> NoSegment, nof |-> Len(s), started |-> FALSE,
                 linked |-> FALSE, freed |-> FALSE] \in SegmentsCtx
            BY <5>1, Zenon DEF SegmentsCtx
          <5> QED BY <5>2, Loads, Zenon
        <4> QED BY <3>1, <4>2, <4>3 DEF Loaded
      <3> QED BY <3>1, Zenon DEF Loaded
    <2>2. hook' \in [segments : SegmentsCtx, received : SegmentsCtx \cup {NoList}]
      BY <2>1, NothingBuilt
    <2>3. TypeOK'
      BY <1>1, Zenon DEF Types, TypeOK, Slots
    <2> QED BY <1>1, <2>2, <2>3, SMTT(30) DEF Types, serverVars, NoStop
  <1>5. LinkInv'
    BY <1>1, Zenon DEF LinkInv
  <1>6. MetaInv'
    BY <1>1, <1>2, Zenon DEF MetaInv
  <1>7. SessionInv'
    <2>1. Got' = {}
      BY <1>3, NothingBuilt, Zenon DEF Got
    <2>2. Claimed \cup Got' = Claimed
      BY <2>1
    <2>3. ResumeAsksForMissing'
      BY <1>2, Zenon DEF ResumeAsksForMissing
    <2> QED BY <1>2, <1>3, <2>1, <2>2, <2>3, NothingBuilt, Zenon DEF SessionInv
  <1>8. FilesInv' /\ StopInv' /\ DoneInv'
    BY <1>1, Zenon DEF FilesInv, StopInv, DoneInv, ExhaustedCharacterised, NoStop
  <1> QED BY <1>4, <1>5, <1>6, <1>7, <1>8, Zenon DEF Inv

\* What apm_on_deserialize makes of a .meta file that was written to the end.
LEMMA DeserializedSlot ==
    ASSUME Types, MetaInv, meta.state = "saved"
    PROVE  LET s == apm_on_deserialize.session
               req == RequestFor(LoadSegments(meta.segments), PayloadSize)
           IN  /\ s \in Slots /\ s.bytes_received = Bytes(Claimed) /\ s.payload_size = PayloadSize
               /\ s.request = req
               /\ apm_on_deserialize.hook = [segments |-> init_segments_ctx, received |-> Loaded]
               /\ req # <<>> =>
                    /\ Askable(req) /\ Wanted(req) \cap Claimed = {}
                    /\ (0 .. Reach(req)) \ Claimed \subseteq
                           Wanted(req) \cup IF LastSeq - 1 \in Claimed THEN {LastSeq} ELSE {}
               /\ req = <<>> => Claimed = {} \/ Seqs \ Claimed \subseteq {LastSeq}
  <1> DEFINE req == RequestFor(LoadSegments(meta.segments), PayloadSize)
  <1>1. /\ meta.segments \in Seq(Segments) /\ meta.bytes_received \in Nat
        /\ meta.payload_size = PayloadSize /\ meta.bytes_received = Bytes(Claimed)
        /\ Separated(meta.segments) /\ Claimed = Cover(meta.segments) /\ Claimed \subseteq Seqs
    BY SavedFields DEF MetaInv, Claimed
  <1>2. PICK segs \in Seq(Segments) : segs = meta.segments
    BY <1>1
  <1>3. /\ req \in Seq(Intervals)
        /\ req # <<>> =>
             /\ Askable(req) /\ Wanted(req) \cap Claimed = {}
             /\ (0 .. Reach(req)) \ Claimed \subseteq
                    Wanted(req) \cup IF LastSeq - 1 \in Claimed THEN {LastSeq} ELSE {}
        /\ req = <<>> => Claimed = {} \/ Seqs \ Claimed \subseteq {LastSeq}
    <2>1. Separated(segs) /\ Cover(segs) \subseteq Seqs /\ Claimed = Cover(segs)
      BY <1>1, <1>2
    <2> QED BY <1>2, <2>1, RequestOf, Zenon
  <1>4. apm_on_deserialize =
           [session |-> [dtp_acquire_session EXCEPT !.bytes_received = meta.bytes_received,
                            !.payload_size = meta.payload_size, !.request = req],
            hook |-> [segments |-> init_segments_ctx, received |-> Loaded]]
    BY <1>1 DEF apm_on_deserialize, Loaded
  <1> HIDE DEF req
  <1>5. dtp_acquire_session \in Slots
    BY AcquiredSlot
  <1>6. /\ apm_on_deserialize.session \in Slots
        /\ apm_on_deserialize.session.bytes_received = Bytes(Claimed)
        /\ apm_on_deserialize.session.payload_size = PayloadSize
        /\ apm_on_deserialize.session.request = req
    BY <1>1, <1>3, <1>4, <1>5, WireAssumption, Zenon DEF Slots
  <1>7. apm_on_deserialize.hook = [segments |-> init_segments_ctx, received |-> Loaded]
    BY <1>4
  <1> QED BY <1>3, <1>6, <1>7, Zenon DEF req

\* "No more data to fetch".
LEMMA PrepareExhaustedInv ==
    ASSUME Inv, PrepareExhausted, after_stop' = NoStop, UNCHANGED serverVars
    PROVE  Inv'
  <1> DEFINE s == apm_on_deserialize.session
  <1>1. /\ pc = "idle" /\ Exhausted(s) /\ hook' = NoHook /\ result' = "exhausted"
        /\ session' = [s EXCEPT !.bytes_received = 0, !.request = <<>>]
        /\ UNCHANGED <<pc, loop, output, unflushed, meta, reqs, net>>
    BY DEF PrepareExhausted
  <1>2. Types /\ LinkInv /\ MetaInv /\ StopInv /\ unflushed = {}
    BY <1>1 DEF Inv, FilesInv
  <1>3. s \in Slots
    <2>1. CASE meta.state = "saved"
      BY <1>2, <2>1, DeserializedSlot, Zenon
    <2>2. CASE meta.state # "saved"
      BY <1>2, <2>2, TornSlot, AcquiredSlot
    <2> QED BY <2>1, <2>2
  <1>4. Claimed = {} \/ Seqs \ Claimed \subseteq {LastSeq}
    <2>1. CASE meta.state = "saved"
      <3>1. CASE s.request = <<>>
        BY <1>2, <2>1, <3>1, DeserializedSlot, Zenon
      <3>2. CASE s.bytes_received = s.payload_size
        <4>1. Bytes(Claimed) = PayloadSize /\ Claimed \subseteq Seqs
          BY <1>2, <2>1, <3>2, DeserializedSlot, Zenon DEF MetaInv
        <4>2. PICK C \in SUBSET Seqs : C = Claimed
          BY <4>1
        <4>3. C = Seqs
          BY <4>1, <4>2, BytesAll
        <4> QED BY <4>2, <4>3
      <3> QED BY <1>1, <3>1, <3>2 DEF Exhausted
    <2>2. CASE meta.state # "saved"
      BY <2>2, TornSlot
    <2> QED BY <2>1, <2>2
  <1> HIDE DEF s
  <1>5. session' \in Slots
    <2>1. <<>> \in Seq(Intervals) /\ session' = [s EXCEPT !.bytes_received = 0, !.request = <<>>]
      BY <1>1
    <2> QED BY <1>3, <2>1, Zenon DEF Slots
  <1>6. Types'
    <2>1. hook' \in [segments : SegmentsCtx, received : SegmentsCtx \cup {NoList}]
      BY <1>1, NothingBuilt DEF NoHook
    <2>2. TypeOK'
      BY <1>1, <1>2, <1>5 DEF Types, TypeOK, Slots
    <2> QED BY <1>1, <1>2, <2>1, <2>2 DEF Types, serverVars, NoStop
  <1>7. LinkInv'
    BY <1>1, <1>2 DEF LinkInv
  <1>8. Claimed' = Claimed
    BY <1>1 DEF Claimed
  <1>9. MetaInv'
    BY <1>1, <1>2, <1>8 DEF MetaInv
  <1>10. FilesInv'
    BY <1>1, <1>2, <1>4, <1>8 DEF FilesInv, ExhaustedCharacterised
  <1> QED BY <1>1, <1>6, <1>7, <1>9, <1>10, Zenon DEF Inv, SessionInv, InSession, DoneInv, StopInv, NoStop

\* The whole payload, or what is missing of it.
LEMMA PrepareInv == ASSUME Inv, Prepare PROVE Inv'
  <1> DEFINE s == apm_on_deserialize.session
  <1>1. after_stop' = NoStop /\ UNCHANGED serverVars
    BY DEF Prepare
  <1>2. Types /\ MetaInv
    BY DEF Inv
  <1>3. CASE PrepareExhausted
    BY <1>1, <1>3, PrepareExhaustedInv
  <1>4. ASSUME meta.state # "saved", pc = "idle", pc' = "prepared", result' = "none",
               session' = dtp_acquire_session, hook' = NoHook,
               UNCHANGED <<loop, output, unflushed, meta, reqs, net>>
        PROVE  Inv'
    <2>1. /\ session' \in Slots /\ session'.bytes_received = 0 /\ session'.request = WholePayload
      BY <1>2, <1>4, AcquiredSlot
    <2>2. Claimed = {} /\ hook' = [segments |-> init_segments_ctx, received |-> Loaded]
      BY <1>4, TornSlot, Zenon
    <2>3. session'.bytes_received = Bytes(Claimed) /\ Wanted(session'.request) \cap Claimed = {}
      BY <2>1, <2>2, BytesNone, Zenon
    <2>4. Askable(session'.request)
      BY <2>1, WholeAskable
    <2> QED BY <1>1, <1>4, <2>1, <2>2, <2>3, <2>4, PreparedInv, Zenon
  <1>5. CASE PrepareResume
    <2>1. /\ pc = "idle" /\ ~Exhausted(s) /\ session' = s /\ hook' = apm_on_deserialize.hook
          /\ pc' = "prepared" /\ result' = "none"
          /\ UNCHANGED <<loop, output, unflushed, meta, reqs, net>>
      BY <1>5 DEF PrepareResume
    <2>2. CASE meta.state = "saved"
      <3>1. s.request # <<>>
        BY <2>1 DEF Exhausted
      <3>2. /\ session' \in Slots /\ Askable(session'.request)
            /\ hook' = [segments |-> init_segments_ctx, received |-> Loaded]
            /\ session'.bytes_received = Bytes(Claimed)
            /\ Wanted(session'.request) \cap Claimed = {}
            /\ (0 .. Reach(session'.request)) \ Claimed \subseteq
                   Wanted(session'.request) \cup IF LastSeq - 1 \in Claimed THEN {LastSeq} ELSE {}
        BY <1>2, <2>1, <2>2, <3>1, DeserializedSlot, Zenon
      <3> QED BY <1>1, <2>1, <3>2, PreparedInv, Zenon
    <2>3. CASE meta.state # "saved"
      BY <1>4, <2>1, <2>3, TornSlot, Zenon
    <2> QED BY <2>2, <2>3
  <1>6. CASE meta = NoMeta /\ PrepareFresh
    <2>1. meta.state # "saved"
      BY <1>6 DEF NoMeta
    <2> QED BY <1>4, <1>6, <2>1 DEF PrepareFresh
  <1> QED BY <1>3, <1>5, <1>6 DEF Prepare

----------------------------------------------------------------------------
(* dtp_start_transfer and start_receiving_data.                            *)

\* A session that starts with no bytes has a list with no packets.
LEMMA EmptyCount == ASSUME Inv, pc = "meta", ~(session.bytes_received > 0) PROVE Claimed = {}
  <1>1. session.bytes_received = 0
    BY SMTT(30) DEF Inv, Types, TypeOK
  <1>2. session.bytes_received = Bytes(Claimed \cup Got) /\ Got = {}
    BY Zenon DEF Inv, SessionInv, InSession
  <1>3. Claimed \cup Got = Claimed
    BY <1>2
  <1>4. Bytes(Claimed) = 0
    BY <1>1, <1>2, <1>3
  <1>5. PICK C \in SUBSET Seqs : C = Claimed
    BY Zenon DEF Inv, MetaInv, Claimed
  <1>6. C = {}
    BY <1>4, <1>5, BytesZero
  <1> QED BY <1>5, <1>6

\* The response is read and the output file opened: it is emptied only when
\* nothing in it is claimed.
LEMMA ReadResponseInv == ASSUME Inv, ReadResponse, UNCHANGED <<serverVars, after_stop>> PROVE Inv'
  <1>1. /\ pc = "meta" /\ pc' = "bind" /\ net # <<>> /\ IsLive(Head(net)) /\ net' = Tail(net)
        /\ session' = [session EXCEPT !.payload_size = Head(net).size, !.active = TRUE]
        /\ output' = IF session.bytes_received > 0 THEN output ELSE {}
        /\ UNCHANGED <<hook, loop, result, unflushed, meta, reqs>>
    BY DEF ReadResponse, OpenedOutput, IsLive
  <1>2. Types /\ LinkInv /\ MetaInv /\ SessionInv /\ FilesInv /\ StopInv
    BY DEF Inv
  <1>3. /\ net \in Seq(Messages) /\ Len(net) \in Nat /\ Len(net) <= MaxInFlight
        /\ Head(net) = net[1] /\ 1 \in DOMAIN net
        /\ net' \in Seq(Messages) /\ Len(net') = Len(net) - 1
    BY <1>1, <1>2, SMTT(30) DEF Types, TypeOK
  <1>4. net[1].size = PayloadSize /\ StreamFrom(1 + 1)
    BY <1>1, <1>2, <1>3 DEF LinkInv
  <1>5. session \in Slots /\ PayloadSize \in Nat
    BY <1>2, WireAssumption, Zenon DEF Types, TypeOK, Slots
  <1>6. /\ session' \in Slots /\ session'.payload_size = PayloadSize /\ session'.active = TRUE
        /\ UNCHANGED <<session.request, session.bytes_received>>
    BY <1>1, <1>3, <1>4, <1>5, Zenon DEF Slots
  <1>7. Types'
    <2>1. Len(net') <= MaxInFlight
      BY <1>3, LinkAssumption
    <2>2. output' \subseteq Seqs
      BY <1>1, <1>2 DEF Types, TypeOK
    <2>3. TypeOK'
      BY <1>1, <1>2, <1>6, <2>1, <2>2, Zenon DEF Types, TypeOK, Slots
    <2> QED BY <1>1, <1>2, <1>3, <2>3 DEF Types, serverVars
  <1>8. LinkInv'
    <2>1. StreamFrom(1)'
      BY <1>1, <1>3, <1>4, <1>6, StreamTail
    <2>2. reqs' = <<>>
      BY <1>1, <1>4 DEF StreamFrom
    <2>3. ASSUME NEW i \in DOMAIN net' PROVE ~IsLive(net'[i])
      <3>1. i \in 1 .. Len(net')
        BY <1>3
      <3>2. Carries(net'[i], session'.request)
        BY <2>1, <3>1, Zenon DEF StreamFrom
      <3> QED BY <3>2, SMTT(30) DEF Carries, IsLive, DataPacket
    <2> QED BY <1>1, <2>1, <2>2, <2>3 DEF LinkInv
  <1>9. Claimed' = Claimed
    BY <1>1 DEF Claimed
  <1>10. MetaInv'
    <2>1. ASSUME meta.state = "saved" PROVE Claimed \subseteq output'
      <3>1. Claimed \subseteq output /\ Claimed \subseteq Seqs
        BY <1>2, <2>1 DEF MetaInv
      <3>2. CASE session.bytes_received > 0
        BY <1>1, <3>1, <3>2
      <3>3. CASE ~(session.bytes_received > 0)
        BY <1>1, <3>3, EmptyCount
      <3> QED BY <3>2, <3>3
    <2> QED BY <1>1, <1>2, <1>9, <2>1 DEF MetaInv
  <1>11. SessionInv'
    <2>1. Receiving /\ Got \subseteq output' \cup unflushed' /\ Got = {}
      BY <1>1, <1>2 DEF Receiving, SessionInv, InSession
    <2> QED BY <1>1, <1>2, <1>6, <2>1, SessionStep, Zenon DEF SessionInv
  <1>12. DoneInv' /\ FilesInv' /\ StopInv'
    BY <1>1, <1>2 DEF DoneInv, FilesInv, StopInv, ExhaustedCharacterised
  <1> QED BY <1>7, <1>8, <1>10, <1>11, <1>12 DEF Inv

\* Recording it adds it to the list under construction.
LEMMA PacketRecorded ==
    ASSUME Inv, pc = "recv", NEW q \in Wanted(session.request), loop.prev < q
    PROVE  LET d == update_segments(hook.segments, q, TRUE) IN
           /\ Building(d) /\ d.cur # NoSegment /\ Claims(d) = Got \cup {q}
           /\ q \in Nat /\ q \in Seqs /\ q \notin Claimed \cup Got
           /\ Claimed \cup Got \in SUBSET Seqs
           /\ Bytes(Claimed \cup (Got \cup {q})) = session.bytes_received + PacketLen(q)
  <1> DEFINE c == hook.segments
             r == Segment(q, q)
  <1>1. /\ Building(c) /\ (c.started # FALSE => c.cur # NoSegment)
        /\ Got \subseteq 0 .. loop.prev /\ Got \subseteq Wanted(session.request)
        /\ Wanted(session.request) \cap Claimed = {} /\ session.bytes_received = Bytes(Claimed \cup Got)
    BY Zenon DEF Inv, SessionInv, InSession
  <1>2. q \in Nat /\ q \in Seqs /\ loop.prev \in Int /\ q - q = 0
    <2>1. loop.prev \in Nat \cup {-1}
      BY Zenon DEF Inv, Types, TypeOK
    <2> QED BY <2>1, LastPacket DEF Wanted, Seqs
  <1>3. r \in RealSegments /\ r.start = q /\ r.end = q /\ q .. q = {q}
    BY <1>2, SMTT(30) DEF Segment, Segments, RealSegments
  <1>4. ASSUME c.started # FALSE PROVE c.cur # NoSegment /\ c.cur.start <= r.start
    <2>1. c.cur # NoSegment /\ c.cur \in RealSegments
      BY <1>1, <1>4, Zenon DEF Building
    <2>2. c.cur.start \in Nat /\ c.cur.start \in c.cur.start .. c.cur.end
      BY <2>1, SMTT(30) DEF RealSegments, Segments
    <2>3. c.cur.start \in Got
      BY <2>2, Zenon DEF Got, Claims
    <2>4. c.cur.start <= loop.prev
      <3>1. PICK x \in Nat : x = c.cur.start
        BY <2>2
      <3>2. x \in 0 .. loop.prev
        BY <1>1, <2>3, <3>1, Zenon
      <3>3. x <= loop.prev
        BY <1>2, <3>2
      <3> QED BY <3>1, <3>3
    <2> QED BY <1>2, <1>3, <2>1, <2>2, <2>4, SMTT(30)
  <1> HIDE DEF r
  <1>5. LET d == update_segments(c, q, TRUE) IN
        Building(d) /\ d.cur # NoSegment /\ Claims(d) = Got \cup {q}
    <2>1. update_segments(c, q, TRUE) = update_segments_range(c, r.start, r.end, TRUE)
      BY <1>3 DEF update_segments
    <2> HIDE DEF c
    <2>2. Claims(c) = Got
      BY DEF Got, c
    <2>3. LET d == update_segments_range(c, r.start, r.end, TRUE) IN
          Building(d) /\ d.cur # NoSegment /\ Claims(d) = Claims(c) \cup (r.start .. r.end)
      BY <1>1, <1>3, <1>4, UpdateClaims, Zenon
    <2> QED BY <1>3, <2>1, <2>2, <2>3, Zenon
  <1>6. q \notin Claimed \cup Got
    BY <1>1, <1>2, SMTT(30)
  <1>7. PICK S \in SUBSET Seqs : S = Claimed \cup Got
    <2>1. Claimed \subseteq Seqs
      BY Zenon DEF Inv, MetaInv, Claimed
    <2> QED BY <1>1, <2>1, Zenon DEF Wanted
  <1>8. Bytes(S \cup {q}) = Bytes(S) + PacketLen(q)
    BY <1>2, <1>6, <1>7, BytesAdd
  <1>9. Claimed \cup (Got \cup {q}) = S \cup {q}
    BY <1>7
  <1> QED BY <1>1, <1>2, <1>5, <1>6, <1>7, <1>8, <1>9, Zenon

\* A packet is counted, written and recorded once; the verdict on the last one
\* is that of the count.
LEMMA ReceivePacketInv ==
    ASSUME Inv, net # <<>>, ReceivePacket(Head(net)), UNCHANGED serverVars,
           after_stop' = IF after_stop \in {0, 1} THEN after_stop + 1 ELSE after_stop,
           net' = Tail(net) \/ net' = net
    PROVE  Inv'
  <1>1. pc = "recv" /\ ~IsDuplicate(Head(net))
    BY DEF ReceivePacket
  <1>2. PICK q \in Wanted(session.request) :
              /\ packet_seq(Head(net)) = q /\ Head(net).len = PacketLen(q) /\ loop.prev < q
              /\ \A k \in DOMAIN net : q * Chunk <= net[k].off
              /\ Behind(q * Chunk, session.request)
    BY <1>1, PacketTaken, Zenon
  <1> DEFINE d == update_segments(hook.segments, q, TRUE)
             bytes == session.bytes_received + PacketLen(q)
  <1>3. /\ Building(d) /\ d.cur # NoSegment /\ Claims(d) = Got \cup {q}
        /\ q \in Nat /\ q \in Seqs /\ q \notin Claimed \cup Got
        /\ Claimed \cup Got \in SUBSET Seqs
        /\ Bytes(Claimed \cup (Got \cup {q})) = bytes
    BY <1>1, <1>2, PacketRecorded, Zenon
  <1>4. /\ loop' = [nof |-> loop.nof + 1, prev |-> q, idle |-> 0]
        /\ session' = [session EXCEPT !.bytes_received = bytes]
        /\ output' = output \cup unflushed /\ unflushed' = {q}
        /\ hook' = [hook EXCEPT !.segments = d]
        /\ \/ q < metric_last_packet /\ pc' = "loop" /\ result' = result
           \/ pc' = "end" /\ result' = LastPacketResult(bytes)
        /\ UNCHANGED <<meta, reqs>>
    <2>1. metric_last_packet \in Nat
      <3>1. Askable(session.request) /\ session.payload_size = PayloadSize
        BY <1>1, Zenon DEF Inv, SessionInv, InSession
      <3> QED BY <3>1, MetricLast, Zenon DEF metric_last_packet
    <2>2. ~IsLastPacket(q) => q < metric_last_packet
      BY <1>3, <2>1, SMTT(30) DEF IsLastPacket
    <2>3. Readings(d, AnyNode) = {d}
      BY <1>3, Zenon DEF Building, Readings
    <2>4. hook' = [hook EXCEPT !.segments = d]
      BY <1>2, <2>3, Zenon DEF ReceivePacket
    <2> HIDE DEF d
    <2> QED BY <1>2, <2>2, <2>4, Zenon DEF ReceivePacket
  <1> HIDE DEF d
  <1>5. Types /\ LinkInv /\ MetaInv /\ SessionInv /\ FilesInv /\ StopInv
    BY DEF Inv
  <1>6. session \in Slots /\ loop \in Loops /\ PacketLen(q) \in Nat /\ PayloadSize \in Nat
    BY <1>3, <1>5, PacketLength, WireAssumption, Zenon DEF Types, TypeOK, Slots, Loops
  <1>7. /\ session' \in Slots /\ UNCHANGED <<session.request, session.payload_size, session.active>>
        /\ session'.bytes_received = bytes
    <2>1. bytes \in Nat
      BY <1>6 DEF Slots
    <2> HIDE DEF bytes
    <2> QED BY <1>4, <1>6, <2>1 DEF Slots
  <1>8. loop' \in Loops /\ loop'.prev = q /\ loop'.idle = 0 /\ 0 <= TimeoutRounds
    BY <1>3, <1>4, <1>6, ClientAssumption, SMTT(30) DEF Loops
  <1>9. /\ hook' \in [segments : SegmentsCtx, received : SegmentsCtx \cup {NoList}]
        /\ hook'.segments = d /\ hook'.received = hook.received
    <2>1. d \in SegmentsCtx
      BY <1>3, Zenon DEF Building
    <2>2. hook \in [segments : SegmentsCtx, received : SegmentsCtx \cup {NoList}]
      BY <1>5 DEF Types
    <2> QED BY <1>4, <2>1, <2>2
  <1>10. net' \in Seq(Messages) /\ Len(net') <= MaxInFlight
    <2>1. net \in Seq(Messages) /\ Len(net) \in Nat /\ Len(net) <= MaxInFlight /\ MaxInFlight \in Nat
      BY <1>5, LinkAssumption, SMTT(30) DEF Types, TypeOK
    <2>2. CASE net' = net
      BY <2>1, <2>2
    <2>3. CASE net' = Tail(net)
      BY <2>1, <2>3
    <2> QED BY <2>2, <2>3
  <1>11. Types'
    <2>1. TypeOK'
      <3>1. result' \in {"none", "ok", "cancelled", "error", "exhausted"}
        BY <1>4, <1>5 DEF LastPacketResult, Types, TypeOK
      <3>2. output' \subseteq Seqs /\ unflushed' \subseteq Seqs /\ pc' \in {"loop", "end"}
        BY <1>3, <1>4, <1>5, Zenon DEF Types, TypeOK
      <3> QED BY <1>4, <1>5, <1>7, <1>8, <1>10, <3>1, <3>2, Zenon DEF Types, TypeOK, Slots, Loops
    <2>2. after_stop' \in Int
      BY <1>5 DEF StopInv, NoStop
    <2> QED BY <1>4, <1>5, <1>9, <1>10, <2>1, <2>2 DEF Types, serverVars
  <1>12. LinkInv'
    <2>1. StreamFrom(1) /\ pc' \in {"loop", "recv", "end"} /\ q \in Int
      BY <1>1, <1>3, <1>4, <1>5, SMTT(30) DEF LinkInv
    <2> QED BY <1>2, <1>4, <1>5, <1>7, <1>8, <2>1, LinkRecv, Zenon
  <1>13. Claimed' = Claimed /\ Got' = Got \cup {q} /\ Loaded' = Loaded
    BY <1>3, <1>4, <1>9 DEF Claimed, Got, Loaded
  <1>14. MetaInv'
    BY <1>4, <1>5, <1>13 DEF MetaInv
  <1>15. SessionInv'
    <2>1. /\ hook.received = Loaded /\ Askable(session.request) /\ session.payload_size = PayloadSize
          /\ (meta.state = "saved" => ResumeAsksForMissing)
          /\ Wanted(session.request) \cap Claimed = {} /\ Got \subseteq Wanted(session.request)
          /\ Got \subseteq output \cup unflushed /\ Got \subseteq 0 .. loop.prev
      BY <1>1, <1>5, Zenon DEF SessionInv, InSession
    <2>2. metric_last_packet' = metric_last_packet
      BY <1>7, Zenon DEF metric_last_packet
    <2>3. meta'.state = "saved" => ResumeAsksForMissing'
      BY <1>1, <1>4, <1>7, <1>13, <2>1 DEF ResumeAsksForMissing, Receiving
    <2>4. Got' \subseteq 0 .. q
      <3>1. loop.prev \in Int /\ loop.prev < q /\ q \in Nat
        BY <1>2, <1>3, <1>6, SMTT(30) DEF Loops
      <3>2. Got \subseteq 0 .. loop.prev /\ Got' = Got \cup {q}
        BY <1>13, <2>1, Zenon
      <3> QED BY <3>1, <3>2
    <2>5. Got' \subseteq output' \cup unflushed' /\ Got' \subseteq Wanted(session'.request)
      BY <1>4, <1>7, <1>13, <2>1
    <2>6. session'.bytes_received = Bytes(Claimed' \cup Got')
      BY <1>3, <1>7, <1>13, Zenon
    <2>7. ASSUME pc' = "end"
          PROVE  /\ result' \in {"ok", "cancelled"}
                 /\ result' = "ok" => Claimed' \cup Got' = Seqs
                 /\ result' = "cancelled" => Claimed' \cup Got' # Seqs
      <3>1. PICK S \in SUBSET Seqs : S = Claimed \cup (Got \cup {q})
        BY <1>3, Zenon
      <3>2. Bytes(S) = PayloadSize <=> S = Seqs
        BY BytesAll
      <3>3. result' = IF Bytes(S) = PayloadSize THEN "ok" ELSE "cancelled"
        BY <1>3, <1>4, <2>1, <2>7, <3>1 DEF LastPacketResult
      <3> QED BY <1>13, <3>1, <3>2, <3>3, Zenon
    <2>8. pc' = "loop" => Got' \subseteq 0 .. loop'.prev /\ loop'.prev < metric_last_packet'
      BY <1>4, <1>8, <2>2, <2>4
    <2>9. pc' \in {"loop", "end"}
      BY <1>4
    <2>10. pc' = "end" /\ result' = "cancelled" => Interrupted(Claimed \cup Got)'
      BY <2>7, Zenon DEF Interrupted
    <2> QED BY <1>3, <1>7, <1>8, <1>9, <1>13, <2>1, <2>3, <2>5, <2>6, <2>7, <2>8, <2>9, <2>10, Zenon DEF SessionInv
  <1>16. DoneInv'
    BY <1>4 DEF DoneInv
  <1>17. FilesInv' /\ StopInv'
    BY <1>1, <1>4, <1>5, <1>7, SMTT(30) DEF FilesInv, StopInv, ExhaustedCharacterised, LastPacketResult, NoStop
  <1> QED BY <1>11, <1>12, <1>14, <1>15, <1>16, <1>17, Zenon DEF Inv

\* A packet that is delivered: a new one, or a repetition of the last one.
LEMMA DeliverInv == ASSUME Inv, Deliver PROVE Inv'
  <1>1. net # <<>> /\ UNCHANGED serverVars /\ (net' = Tail(net) \/ net' = net)
    BY Zenon DEF Deliver
  <1>2. CASE /\ ReceivePacket(Head(net))
             /\ after_stop' = IF after_stop \in {0, 1} THEN after_stop + 1 ELSE after_stop
    BY <1>1, <1>2, ReceivePacketInv
  <1>3. CASE ReceiveDuplicate(Head(net)) /\ UNCHANGED after_stop
    <2>1. /\ pc = "recv" /\ pc' = "loop" /\ loop' = [loop EXCEPT !.idle = 0]
          /\ UNCHANGED <<session, hook, result, output, unflushed, meta, reqs>>
      BY <1>3 DEF ReceiveDuplicate
    <2>2. loop \in Loops /\ session \in Slots
      BY Zenon DEF Inv, Types, TypeOK, Loops, Slots
    <2>3. loop' \in Loops /\ loop'.prev = loop.prev /\ loop'.idle <= TimeoutRounds
      BY <2>1, <2>2, ClientAssumption DEF Loops
    <2> QED BY <1>1, <1>3, <2>1, <2>2, <2>3, TurnInv
  <1> QED BY <1>2, <1>3, Zenon DEF Deliver

----------------------------------------------------------------------------
(* The session is handed back, saved and released.                         *)

\* The list apm_on_end leaves: what was loaded and what was received.
LEMMA HandedBack ==
    ASSUME Inv, pc = "end"
    PROVE  LET closed == close_segments(hook.segments)
               d == IF hook.received = NoList THEN closed ELSE merge_segments(closed, hook.received)
           IN  /\ d \in SegmentsCtx /\ Separated(d.segments) /\ Cover(d.segments) = Claimed \cup Got
               /\ closed.freed = FALSE
  <1> DEFINE closed == close_segments(hook.segments)
             d == IF hook.received = NoList THEN closed ELSE merge_segments(closed, hook.received)
  <1>1. Building(hook.segments) /\ hook.received = Loaded
    BY Zenon DEF Inv, SessionInv, InSession
  <1>2. /\ closed \in SegmentsCtx /\ Separated(closed.segments) /\ Cover(closed.segments) = Got
        /\ closed.freed = FALSE
    BY <1>1, CloseBuilt, Zenon DEF Got
  <1> HIDE DEF closed
  <1>3. CASE meta.state # "saved"
    <2>1. d = closed
      BY <1>1, <1>3 DEF Loaded
    <2>2. Claimed = {}
      BY <1>3 DEF Claimed
    <2> HIDE DEF d
    <2>3. d \in SegmentsCtx /\ Separated(d.segments) /\ Cover(d.segments) = Claimed \cup Got
      BY <1>2, <2>1, <2>2, Zenon
    <2> QED BY <1>2, <2>3, Zenon DEF d, closed
  <1>4. CASE meta.state = "saved"
    <2>1. meta.segments \in Seq(Segments) /\ Separated(meta.segments) /\ Claimed = Cover(meta.segments)
      BY <1>4, SavedFields, Zenon DEF Inv, MetaInv, Claimed
    <2>2. PICK s \in Seq(Segments) : s = meta.segments
      BY <2>1
    <2> DEFINE l == [segments |-> s, cur |-> NoSegment, nof |-> Len(s), started |-> FALSE,
                     linked |-> FALSE, freed |-> FALSE]
    <2>3. hook.received = l
      <3>1. hook.received = LoadSegments(s)
        BY <1>1, <1>4, <2>2, Zenon DEF Loaded
      <3> QED BY <3>1, Loads, Zenon
    <2>4. l \in SegmentsCtx /\ l.segments = s /\ l # NoList
      <3>1. NoSegment \in Segments /\ Len(s) \in Nat
        BY DEF NoSegment, Segment, Segments
      <3>2. DOMAIN l # DOMAIN NoList
        BY Zenon DEF NoList
      <3> QED BY <3>1, <3>2, Zenon DEF SegmentsCtx
    <2> HIDE DEF l
    <2>5. d = merge_segments(closed, l)
      BY <2>3, <2>4
    <2> HIDE DEF d
    <2>6. d \in SegmentsCtx /\ Separated(d.segments) /\ Cover(d.segments) = Claimed \cup Got
      <3>1. Separated(l.segments)
        BY <2>1, <2>2, <2>4, Zenon
      <3>2. LET m == merge_segments(closed, l) IN
            /\ m \in SegmentsCtx /\ Separated(m.segments)
            /\ Cover(m.segments) = Cover(closed.segments) \cup Cover(l.segments)
        BY <1>2, <2>4, <3>1, MergeOf, Zenon
      <3>3. Cover(closed.segments) \cup Cover(l.segments) = Claimed \cup Got
        BY <1>2, <2>1, <2>2, <2>4, Zenon
      <3> QED BY <2>5, <3>2, <3>3, Zenon
    <2> QED BY <1>2, <2>6, Zenon DEF d, closed
  <1> QED BY <1>3, <1>4, Zenon

\* The transfer is over: all that is listed is in the file.
LEMMA OnEndInv == ASSUME Inv, apm_on_end, UNCHANGED <<serverVars, after_stop>> PROVE Inv'
  <1> DEFINE closed == close_segments(hook.segments)
             d == IF hook.received = NoList THEN closed ELSE merge_segments(closed, hook.received)
  <1>0. pc = "end"
    BY DEF apm_on_end
  <1>2. /\ d \in SegmentsCtx /\ Separated(d.segments) /\ Cover(d.segments) = Claimed \cup Got
        /\ closed.freed = FALSE
    BY <1>0, HandedBack, Zenon
  <1>1. /\ pc = "end" /\ pc' = "returned" /\ output' = output \cup unflushed /\ unflushed' = {}
        /\ hook' = [hook EXCEPT !.segments = d] /\ CloseConn /\ loop' = NoLoop
        /\ UNCHANGED <<session, result, meta>>
    <2>1. Readings(closed, AnyNode) = {closed}
      BY <1>2, Zenon DEF Readings
    <2> QED BY <2>1, Zenon DEF apm_on_end
  <1> HIDE DEF d
  <1>3. Types /\ LinkInv /\ MetaInv /\ SessionInv /\ FilesInv /\ StopInv
    BY DEF Inv
  <1>4. /\ hook' \in [segments : SegmentsCtx, received : SegmentsCtx \cup {NoList}]
        /\ hook'.segments = d
    BY <1>1, <1>2, <1>3, Zenon DEF Types
  <1>5. /\ reqs' \in Seq([request : Seq(Intervals), live : BOOLEAN]) /\ Len(reqs') <= Backlog
        /\ net' \in Seq(Messages) /\ Len(net') <= MaxInFlight
        /\ LinkInv'
    BY <1>1, <1>3, ClosedLink
  <1>6. Types'
    <2>1. loop' \in [nof : Nat, prev : Nat \cup {-1}, idle : 0 .. TimeoutRounds + 1]
      BY <1>1, ClientAssumption DEF NoLoop
    <2>2. output' \subseteq Seqs /\ unflushed' \subseteq Seqs
      BY <1>1, <1>3 DEF Types, TypeOK
    <2>3. TypeOK'
      BY <1>1, <1>3, <1>5, <2>1, <2>2, Zenon DEF Types, TypeOK
    <2> QED BY <1>1, <1>3, <1>4, <1>5, <2>3 DEF Types, serverVars
  <1>7. Claimed' = Claimed /\ metric_last_packet' = metric_last_packet
    BY <1>1 DEF Claimed, metric_last_packet
  <1>8. MetaInv'
    BY <1>1, <1>3, <1>7 DEF MetaInv
  <1>9. DoneInv'
    <2>1. /\ Got \subseteq Wanted(session.request) /\ Got \subseteq output \cup unflushed
          /\ session.bytes_received = Bytes(Claimed \cup Got) /\ session.payload_size = PayloadSize
          /\ result = "ok" => Claimed \cup Got = Seqs
          /\ result = "cancelled" => Interrupted(Claimed \cup Got)
          /\ result \in {"ok", "cancelled"}
      BY <1>1, <1>3 DEF SessionInv, InSession
    <2>2. Claimed \subseteq Seqs /\ Claimed \subseteq output
      BY <1>3, Zenon DEF MetaInv, Claimed
    <2>3. Got \subseteq Seqs /\ output' \subseteq Seqs
      BY <1>6, <2>1, Zenon DEF Wanted, Types, TypeOK
    <2>4. Cover(d.segments) \subseteq Seqs /\ Cover(d.segments) \subseteq output'
      BY <1>1, <1>2, <2>1, <2>2, <2>3
    <2>5. result' = "ok" => output' = Seqs
      BY <1>1, <1>2, <2>1, <2>3, <2>4
    <2>6. result' = "cancelled" => Interrupted(Cover(hook.segments.segments))'
      BY <1>1, <1>2, <1>4, <1>7, <2>1 DEF Interrupted
    <2> QED BY <1>1, <1>2, <1>4, <1>7, <2>1, <2>4, <2>5, <2>6, Zenon DEF DoneInv
  <1>10. SessionInv' /\ FilesInv' /\ StopInv'
    BY <1>1, <1>3 DEF SessionInv, InSession, FilesInv, StopInv, ExhaustedCharacterised
  <1> QED BY <1>5, <1>6, <1>8, <1>9, <1>10, Zenon DEF Inv

----------------------------------------------------------------------------
(* The theorems.                                                           *)

\* Every step of client, link and server keeps the invariant.
LEMMA NextInv == ASSUME Inv, [Next]_vars PROVE Inv'
  <1>1. CASE UNCHANGED vars
    <2>1. UNCHANGED <<pc, session, hook, loop, result, output, unflushed, meta, reqs, after_stop>>
          /\ UNCHANGED <<serverVars, net>>
      BY <1>1, Zenon DEF vars, clientVars
    <2>2. Types /\ LinkInv /\ net \in Seq(Messages)
      BY Zenon DEF Inv, Types
    <2>3. Types'
      <3>1. TypeOK'
        BY <2>1, <2>2, Zenon DEF Types, TypeOK
      <3> QED BY <2>1, <2>2, <3>1, Zenon DEF Types, serverVars
    <2>4. LinkInv'
      <3>1. \A n \in Nat \ {0} : StreamFrom(n) => StreamFrom(n)'
        BY <2>1, <2>2, StreamSame, Zenon
      <3>2. ASSUME NEW i \in DOMAIN net', IsLive(net'[i])
            PROVE  pc' = "meta" /\ net'[i].size = PayloadSize /\ StreamFrom(i + 1)'
        <4>1. pc = "meta" /\ net[i].size = PayloadSize /\ StreamFrom(i + 1)
          BY <2>1, <2>2, <3>2, Zenon DEF LinkInv
        <4>2. i + 1 \in Nat \ {0}
          BY <2>1, <2>2
        <4> QED BY <2>1, <3>1, <4>1, <4>2, Zenon
      <3>3. pc' \in {"bind", "loop", "recv"} => StreamFrom(1)'
        <4>1. pc \in {"bind", "loop", "recv"} => StreamFrom(1)
          BY <2>2, Zenon DEF LinkInv
        <4>2. 1 \in Nat \ {0}
          OBVIOUS
        <4> QED BY <2>1, <3>1, <4>1, <4>2, Zenon
      <3>4. pc \in {"loop", "recv"} => Behind(loop.prev * Chunk, session.request)'
        <4>1. loop.prev \in Int
          BY <2>2, SMTT(30) DEF Types, TypeOK
        <4>2. PICK o \in Int : o = loop.prev * Chunk
          BY <4>1, WireAssumption
        <4>3. pc \in {"loop", "recv"} => Behind(o, session.request)'
          BY <2>1, <2>2, <4>2, ServesFrame, Zenon DEF LinkInv
        <4> QED BY <2>1, <4>2, <4>3, Zenon DEF Behind
      <3>5. (\A i \in DOMAIN net : IsLive(net[i]) =>
                pc = "meta" /\ net[i].size = PayloadSize /\ StreamFrom(i + 1))'
        BY <3>2
      <3> QED BY <2>1, <2>2, <3>3, <3>4, <3>5, Zenon DEF LinkInv
    <2> QED BY <2>1, <2>3, <2>4, ClientFrame, Zenon DEF Inv, ClientInv
  <1>2. CASE Receive
    <2>1. UNCHANGED <<serverVars, after_stop>>
      BY <1>2 DEF Receive
    <2> QED BY <1>2, <2>1, ConnectInv, FailsInv, ReadResponseInv, BindInv, LoopInv, OnEndInv DEF Receive
  <1>3. CASE Caller
    <2>1. UNCHANGED <<serverVars, after_stop>>
      BY <1>3 DEF Caller
    <2> QED BY <1>3, <2>1, SerializeInv, ReleaseInv DEF Caller
  <1> QED BY <1>1, <1>2, <1>3, PrepareInv, StopActionInv, CrashInv, AcceptInv, AcceptNoReplyInv, ServeInv,
             LoseInv, DeliverInv DEF Next

\* The inductive invariant of a download: the connection, the packets on the
\* link, the lists and the files agree, whatever is lost, repeated, stopped or
\* crashes (dtp_client.c, dtp_client_posix_session_hooks.c, dtp_server.c).
THEOREM TransferInvariant == SafetySpec => []Inv
  <1>1. Init => Inv
    BY InitInv
  <1>2. Inv /\ [Next]_vars => Inv'
    BY NextInv
  <1> QED BY <1>1, <1>2, PTL DEF SafetySpec

\* The fields of the session, the files and the .meta file keep their types:
\* sequence numbers outside the payload are never written nor recorded.
THEOREM TransferTypes == SafetySpec => []TypeOK
  <1>1. Inv => TypeOK
    BY Zenon DEF Inv, Types
  <1> QED BY <1>1, TransferInvariant, PTL

\* bytes_received of a .meta file counts every packet it claims once, through
\* any number of resumed sessions, repeated packets and crashes.
THEOREM CountsOnce == SafetySpec => []BytesMatchClaims
  <1>1. Inv => BytesMatchClaims
    BY Zenon DEF Inv, MetaInv, BytesMatchClaims, Claimed
  <1> QED BY <1>1, TransferInvariant, PTL

\* start_receiving_data's DTP_OK, decided by counting bytes, is only ever said
\* of a complete output file.
THEOREM OkIsComplete == SafetySpec => []OkMeansComplete
  <1>1. Inv => OkMeansComplete
    BY Zenon DEF Inv, DoneInv, OkMeansComplete
  <1> QED BY <1>1, TransferInvariant, PTL

\* A session handed back as DTP_CANCELLED has a hole in its list, unless
\* compute_dtp_metrics waits for a packet beyond a payload of whole chunks.
THEOREM CancelledIsMissing == SafetySpec => []CancelledMeansMissing
  <1>1. Inv => CancelledMeansMissing
    BY Zenon DEF Inv, DoneInv, CancelledMeansMissing, Interrupted
  <1> QED BY <1>1, TransferInvariant, PTL

\* The request create_meta_data builds for a resumed session names nothing that
\* is claimed and, as far as its intervals reach, everything else but perhaps
\* the last packet.
THEOREM ResumesExactly == SafetySpec => []ResumeAsksForMissing
  <1>1. Inv => ResumeAsksForMissing
    BY Zenon DEF Inv, SessionInv, InSession, ResumeAsksForMissing, Receiving
  <1> QED BY <1>1, TransferInvariant, PTL

\* dtp_prepare_session's "No more data to fetch" is said when at most the last
\* packet is missing, or when the .meta file claims nothing.
THEOREM ExhaustedForReason == SafetySpec => []ExhaustedCharacterised
  <1>1. Inv => ExhaustedCharacterised
    BY DEF Inv, FilesInv
  <1> QED BY <1>1, TransferInvariant, PTL

\* After dtp_stop_transfer the receive loop takes at most one packet more.
THEOREM StopIsSeen == SafetySpec => []StopInterrupts
  <1>1. Inv => StopInterrupts
    BY DEF Inv, StopInv, StopInterrupts, NoStop
  <1> QED BY <1>1, TransferInvariant, PTL

----------------------------------------------------------------------------
(* The download implements DtpDownload.                                    *)

\* What is recorded, as DtpDownload sees it, and whether DTP_OK was said.
Recorded == IF pc = "saving" THEN Cover(hook.segments.segments) ELSE Claimed

Told == result = "ok" /\ pc \in {"returned", "saving", "saved"}

\* Nothing that DtpDownload sees happens to a session that is not handed back
\* and leaves the files alone.
LEMMA Unseen ==
    ASSUME pc \notin {"returned", "saving", "saved"}, pc' \notin {"returned", "saving", "saved"},
           UNCHANGED <<output, meta>>
    PROVE  UNCHANGED Download!vars
  <1>1. Recorded' = Recorded /\ Told' = Told /\ (pc = "saving")' = (pc = "saving")
    BY Zenon DEF Recorded, Told, Claimed
  <1> QED BY <1>1, Zenon DEF Download!vars, Recorded, Told

\* Nor when the client does nothing.
LEMMA ClientIdles ==
    ASSUME UNCHANGED <<pc, hook, result, output, meta>>
    PROVE  UNCHANGED Download!vars
  BY Zenon DEF Download!vars, Claimed

\* The output file is opened.
LEMMA ReadResponseSeen == ASSUME Inv, ReadResponse PROVE [Download!Next]_(Download!vars)
  <1>1. /\ pc = "meta" /\ pc' = "bind" /\ output' = IF session.bytes_received > 0 THEN output ELSE {}
        /\ UNCHANGED <<hook, result, meta>>
    BY DEF ReadResponse, OpenedOutput
  <1>2. CASE session.bytes_received > 0
    <2>1. UNCHANGED Download!vars
      BY <1>1, <1>2, Unseen
    <2> QED BY <2>1
  <1>3. CASE ~(session.bytes_received > 0)
    <2>1. Claimed = {} /\ Claimed' = Claimed
      BY <1>1, <1>3, EmptyCount, Zenon DEF Claimed
    <2>2. Download!Truncate
      BY <1>1, <1>3, <2>1, Zenon DEF Download!Truncate
    <2> QED BY <2>2 DEF Download!Next
  <1> QED BY <1>2, <1>3

\* A packet is written.
LEMMA ReceivePacketSeen ==
    ASSUME Inv', NEW p, ReceivePacket(p)
    PROVE  Download!Next
  <1>1. /\ pc = "recv" /\ pc' \in {"loop", "end"} /\ output \subseteq output' /\ meta' = meta
    BY DEF ReceivePacket
  <1>2. output' \subseteq Seqs /\ Claimed' = Claimed
    BY <1>1, Zenon DEF Inv, Types, TypeOK, Claimed
  <1>3. Download!Store
    BY <1>1, <1>2, Zenon DEF Download!Store
  <1> QED BY <1>3 DEF Download!Next

\* The session is handed back with its verdict.
LEMMA OnEndSeen == ASSUME Inv', apm_on_end PROVE Download!Next
  <1>1. /\ pc = "end" /\ pc' = "returned" /\ output \subseteq output' /\ UNCHANGED <<result, meta>>
    BY DEF apm_on_end
  <1>2. output' \subseteq Seqs /\ Claimed' = Claimed /\ (result' = "ok" => output' = Seqs)
    BY <1>1, Zenon DEF Inv, Types, TypeOK, Claimed, DoneInv
  <1>3. CASE result = "ok"
    <2>1. Download!Finish
      BY <1>1, <1>2, <1>3, Zenon DEF Download!Finish
    <2> QED BY <2>1 DEF Download!Next
  <1>4. CASE result # "ok"
    <2>1. Download!Store
      BY <1>1, <1>2, <1>4, Zenon DEF Download!Store
    <2> QED BY <2>1 DEF Download!Next
  <1> QED BY <1>3, <1>4

\* The .meta file is written, and the session released.
LEMMA CallerSeen == ASSUME Inv, Inv', Caller PROVE Download!Next
  <1>1. CASE SerializeOpen
    <2>1. pc = "returned" /\ pc' = "saving" /\ UNCHANGED <<hook, result, output>>
      BY <1>1 DEF SerializeOpen
    <2>2. /\ Claimed \subseteq Cover(hook.segments.segments)
          /\ Cover(hook.segments.segments) \subseteq output
      BY <2>1, Zenon DEF Inv, DoneInv
    <2>3. Download!Save
      BY <2>1, <2>2, Zenon DEF Download!Save
    <2> QED BY <2>3 DEF Download!Next
  <1>2. CASE SerializeClose
    <2>1. /\ pc = "saving" /\ pc' = "saved" /\ UNCHANGED <<hook, result, output>>
          /\ meta'.state = "saved" /\ meta'.segments = hook.segments.segments
      BY <1>2, Zenon DEF SerializeClose
    <2>2. Claimed' = Cover(hook.segments.segments)
      BY <2>1, Zenon DEF Claimed
    <2>3. Download!Saved
      BY <2>1, <2>2, Zenon DEF Download!Saved
    <2> QED BY <2>3 DEF Download!Next
  <1>3. CASE Release
    <2>1. pc \in {"returned", "saved"} /\ pc' = "idle" /\ UNCHANGED <<output, meta>>
      BY <1>3 DEF Release
    <2>2. Claimed' = Claimed
      BY <2>1 DEF Claimed
    <2>3. Download!Release
      BY <2>1, <2>2, Zenon DEF Download!Release
    <2> QED BY <2>3 DEF Download!Next
  <1> QED BY <1>1, <1>2, <1>3 DEF Caller

\* The process dies.
LEMMA CrashSeen == ASSUME Inv, Inv', ClientCrash PROVE Download!Next
  <1>1. pc' = "idle" /\ output \subseteq output' /\ meta' = meta
    BY Zenon DEF ClientCrash, Crash
  <1>2. output' \subseteq Seqs /\ Claimed' = Claimed
    BY <1>1, Zenon DEF Inv, Types, TypeOK, Claimed
  <1>3. pc = "saving" => Claimed = {}
    <2>1. pc = "saving" => meta = TornMeta
      BY Zenon DEF Inv, DoneInv
    <2>2. TornMeta.state # "saved"
      BY Zenon DEF TornMeta
    <2> QED BY <2>1, <2>2, Zenon DEF Claimed
  <1>4. Download!Crash
    BY <1>1, <1>2, <1>3, Zenon DEF Download!Crash
  <1> QED BY <1>4 DEF Download!Next

\* Every step is one of DtpDownload, or is not seen by it.
LEMMA StepSeen == ASSUME Inv, Inv', [Next]_vars PROVE [Download!Next]_(Download!vars)
  <1>1. CASE UNCHANGED vars \/ Accept \/ AcceptNoReply \/ Serve \/ Lose \/ Stop
    <2>1. UNCHANGED <<pc, hook, result, output, meta>>
      BY <1>1, Zenon DEF vars, clientVars, Accept, AcceptNoReply, Serve, Lose, Stop, StopCalled, dtp_stop_transfer
    <2> QED BY <2>1, ClientIdles
  <1>2. CASE Prepare
    <2>1. pc = "idle" /\ pc' \in {"idle", "prepared"} /\ UNCHANGED <<output, meta>>
      BY <1>2 DEF Prepare, PrepareExhausted, PrepareResume, PrepareFresh
    <2> QED BY <2>1, Unseen
  <1>3. CASE Receive
    <2>1. CASE ReadResponse
      BY <2>1, ReadResponseSeen
    <2>2. CASE apm_on_end
      BY <2>2, OnEndSeen
    <2>3. CASE ~ReadResponse /\ ~apm_on_end
      <3>1. /\ pc \in {"prepared", "meta", "bind", "loop", "recv"}
            /\ pc' \in {"idle", "meta", "loop", "recv", "end"}
            /\ UNCHANGED <<output, meta>>
        BY <1>3, <2>3, Zenon DEF Receive, Connect, ConnectFails, MetaTimeout, BindFails, Bind, DeadlinePassed,
                          StopReceiving, Wait, RecvTimeout, FailWith, LeaveLoop
      <3> QED BY <3>1, Unseen
    <2> QED BY <2>1, <2>2, <2>3
  <1>4. CASE Deliver
    <2>1. CASE ReceivePacket(Head(net))
      BY <2>1, ReceivePacketSeen
    <2>2. CASE ReceiveDuplicate(Head(net))
      <3>1. pc = "recv" /\ pc' = "loop" /\ UNCHANGED <<output, meta>>
        BY <2>2 DEF ReceiveDuplicate
      <3> QED BY <3>1, Unseen
    <2> QED BY <1>4, <2>1, <2>2 DEF Deliver
  <1> QED BY <1>1, <1>2, <1>3, <1>4, CallerSeen, CrashSeen DEF Next

\* Client, hooks, link and server implement DtpDownload: the output file is
\* truncated only when nothing is claimed, what the .meta file claims is in the
\* output file wherever the client crashed, claims are lost only by a crash
\* while they are written, and DTP_OK is said of a complete file.
THEOREM TransferImplementsDownload == SafetySpec => ImplementsDownload
  <1>1. Init => Download!Init
    BY SMTT(30) DEF Init, ClientInit, Download!Init, Claimed, NoMeta
  <1>2. Inv /\ Inv' /\ [Next]_vars => [Download!Next]_(Download!vars)
    BY StepSeen
  <1> QED BY <1>1, <1>2, TransferInvariant, PTL DEF SafetySpec, ImplementsDownload, Download!Spec

=============================================================================
