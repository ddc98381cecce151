------------------------ MODULE MessageHandlerProofs ------------------------
(***************************************************************************)
(* Messages arrive as they were sent, for any nodes, lengths of messages   *)
(* and sizes of frames, segments and queues that satisfy SizeAssumption.   *)
(***************************************************************************)
EXTENDS MessageHandlerProperties, SequenceTheorems, TLAPS

-----------------------------------------------------------------------------
(* How many chunks a message is cut into, and where they end.              *)

LEMMA Sizes ==
    /\ MAX_DATA_SIZE \in Nat /\ MAX_BUF_SIZE \in Nat /\ MAX_START_DATA_SIZE \in Nat
    /\ MAX_CHUNK_SIZE \in Nat \ {0} /\ MAX_SEGMENTS \in Nat /\ MaxFaults \in Nat
    /\ 2 < MAX_START_DATA_SIZE /\ MAX_START_DATA_SIZE <= MAX_BUF_SIZE
  BY SizeAssumption

(* The quotient and the remainder of a number.                             *)
LEMMA Division ==
    ASSUME NEW a \in Nat, NEW c \in Nat \ {0}
    PROVE  /\ a \div c \in Nat /\ a % c \in 0 .. c - 1
           /\ a = c * (a \div c) + (a % c)
  BY SMT

LEMMA Count ==
    ASSUME NEW len \in Nat, len > MAX_BUF_SIZE
    PROVE  /\ LenMinusStart(len) \in Nat /\ LenMinusStart(len) > 0
           /\ NbSegments(len) \in Nat /\ NbSegments(len) - 1 \in Nat \ {0}
           /\ (NbSegments(len) - 2) * MAX_CHUNK_SIZE < LenMinusStart(len)
           /\ LenMinusStart(len) <= (NbSegments(len) - 1) * MAX_CHUNK_SIZE
  <1> DEFINE a == LenMinusStart(len)
             c == MAX_CHUNK_SIZE
             q == a \div c
             r == a % c
  <1>1. a \in Nat /\ a > 0 /\ c \in Nat \ {0}
    BY Sizes DEF LenMinusStart
  <1>2. q \in Nat /\ r \in 0 .. c - 1 /\ a = c * q + r
    <2> HIDE DEF a, c
    <2> QED BY <1>1, Division
  <1>3. NbSegments(len) = q + 1 + (IF r # 0 THEN 1 ELSE 0)
    BY DEF NbSegments
  <1> HIDE DEF a, c, q, r
  <1>4. (q + 1) * c = c * q + c /\ (q - 1) * c = c * q - c /\ q * c = c * q
    BY <1>1, <1>2
  <1>5. CASE r = 0
    <2>1. NbSegments(len) = q + 1 /\ q # 0
      BY <1>1, <1>2, <1>3, <1>5
    <2>2. NbSegments(len) - 1 = q /\ NbSegments(len) - 2 = q - 1
      BY <1>2, <2>1
    <2> QED BY <1>1, <1>2, <1>4, <1>5, <2>1, <2>2 DEF a, c
  <1>6. CASE r # 0
    <2>1. NbSegments(len) = q + 2 /\ NbSegments(len) - 1 = q + 1 /\ NbSegments(len) - 2 = q
      BY <1>2, <1>3, <1>6
    <2> QED BY <1>1, <1>2, <1>4, <1>6, <2>1 DEF a, c
  <1> QED BY <1>5, <1>6

LEMMA Times ==
    ASSUME NEW i \in Nat, NEW k \in Nat, NEW c \in Nat, i <= k
    PROVE  i * c <= k * c
  <1>1. PICK d \in Nat : k = i + d
    <2>1. k - i \in Nat /\ k = i + (k - i)
      OBVIOUS
    <2> QED BY <2>1
  <1>2. k * c = i * c + d * c /\ d * c >= 0 /\ i * c \in Nat
    BY <1>1
  <1> QED BY <1>1, <1>2

LEMMA Chunks ==
    ASSUME NEW len \in Nat, len > MAX_BUF_SIZE, NEW i \in 1 .. NbSegments(len) - 1
    PROVE  /\ ChunkEnd(len, i - 1) \in Nat /\ ChunkEnd(len, i) \in Nat
           /\ ChunkEnd(len, i - 1) < ChunkEnd(len, i)
           /\ ChunkEnd(len, i) <= LenMinusStart(len)
           /\ ChunkEnd(len, i) <= ChunkEnd(len, i - 1) + MAX_CHUNK_SIZE
           /\ \/ ChunkEnd(len, i) = ChunkEnd(len, i - 1) + MAX_CHUNK_SIZE
              \/ ChunkEnd(len, i) = LenMinusStart(len)
           /\ ChunkEnd(len, 0) = 0
           /\ i = NbSegments(len) - 1 => ChunkEnd(len, i) = LenMinusStart(len)
           /\ i # NbSegments(len) - 1 => ChunkEnd(len, i) < LenMinusStart(len)
  <1> DEFINE a == LenMinusStart(len)
             c == MAX_CHUNK_SIZE
             n == NbSegments(len) - 1
  <1>1. /\ a \in Nat /\ a > 0 /\ c \in Nat \ {0} /\ n \in Nat \ {0}
        /\ (n - 1) * c < a /\ a <= n * c
    <2>1. NbSegments(len) - 2 = n - 1
      BY Count
    <2> QED BY <2>1, Count, Sizes
  <1>2. /\ ChunkEnd(len, i - 1) = (IF (i - 1) * c < a THEN (i - 1) * c ELSE a)
        /\ ChunkEnd(len, i) = (IF i * c < a THEN i * c ELSE a)
        /\ ChunkEnd(len, 0) = (IF 0 * c < a THEN 0 * c ELSE a)
    BY DEF ChunkEnd
  <1>3. i \in 1 .. n
    OBVIOUS
  <1> HIDE DEF a, c, n
  <1>4. /\ i - 1 \in Nat /\ i \in Nat /\ n - 1 \in Nat /\ i - 1 <= n - 1
        /\ i # n => i <= n - 1
    BY <1>1, <1>3
  <1>5. (i - 1) * c <= (n - 1) * c /\ (i # n => i * c <= (n - 1) * c)
    BY <1>1, <1>4, Times
  <1>6. i * c = (i - 1) * c + c /\ (i - 1) * c \in Nat /\ i * c \in Nat
    BY <1>1, <1>4
  <1>7. 0 * c = 0 /\ (n - 1) * c \in Int /\ n * c \in Int
    BY <1>1
  <1>8. (i - 1) * c < a /\ (i # n => i * c < a) /\ (i = n => a <= i * c)
    BY <1>1, <1>5, <1>6, <1>7
  <1>9. ChunkEnd(len, i - 1) = (i - 1) * c /\ ChunkEnd(len, 0) = 0
    BY <1>1, <1>2, <1>7, <1>8
  <1>10. ChunkEnd(len, i) \in Nat /\ ChunkEnd(len, i) <= a
         /\ ChunkEnd(len, i) <= (i - 1) * c + c
         /\ (i - 1) * c < ChunkEnd(len, i)
         /\ (ChunkEnd(len, i) = (i - 1) * c + c \/ ChunkEnd(len, i) = a)
    BY <1>1, <1>2, <1>6, <1>8
  <1>11. /\ i = n => ChunkEnd(len, i) = a
         /\ i # n => ChunkEnd(len, i) < a
    BY <1>1, <1>2, <1>6, <1>8
  <1> QED BY <1>6, <1>9, <1>10, <1>11 DEF a, c, n

-----------------------------------------------------------------------------
(* Pieces of messages.                                                     *)

Byte == Messages \X Int
Reader == [cur_data : Seq(Byte), remaining : Nat]
Wire == {Plain(m) : m \in Messages}
        \cup [kind : {"SegmentStart"}, nb_segments : Nat, data : Seq(Byte)]
        \cup [kind : {"SegmentChunk"}, data : Seq(Byte)]

(* The bytes of m after the first a and up to b.                           *)
Slice(data, m, a, b) ==
    Len(data) = b - a /\ \A k \in 1 .. b - a : data[k] = <<m, a + k - 2>>

(* How many bytes of its message come before a wire message, and with it.  *)
Before(w) == IF w.kind = "Message" THEN 0 ELSE w.data[1][2] + 1
UpTo(w) == IF w.kind = "Message" THEN w.msg.len + 2 ELSE Before(w) + Len(w.data)
Completes(w) == UpTo(w) = Whole(w).len + 2

IsStart(w, m) ==
    /\ w.kind = "SegmentStart" /\ w.nb_segments = NbSegments(m.len)
    /\ Slice(w.data, m, 0, MAX_START_DATA_SIZE)
IsChunk(w, m, a, b) ==
    /\ w.kind = "SegmentChunk" /\ Slice(w.data, m, a, b)
    /\ MAX_START_DATA_SIZE <= a /\ a < b
    /\ b <= m.len + 2 /\ b <= a + MAX_CHUNK_SIZE
    /\ b = a + MAX_CHUNK_SIZE \/ b = m.len + 2

(* A wire message of m, with the bytes after the first a up to b.          *)
IsPiece(w, m, a, b) ==
    \/ w = Plain(m) /\ a = 0 /\ b = m.len + 2
    \/ /\ m.len > MAX_BUF_SIZE
       /\ \/ IsStart(w, m) /\ a = 0 /\ b = MAX_START_DATA_SIZE
          \/ IsChunk(w, m, a, b)

LEMMA MessageType ==
    ASSUME NEW m \in Messages
    PROVE  /\ m.from \in Nodes /\ m.to \in Nodes /\ m.id \in Nat /\ m.len \in Nat
           /\ m.len > 0
  BY SizeAssumption DEF Messages

(* A piece tells the message and the bytes it is.                          *)
LEMMA PieceFields ==
    ASSUME NEW m \in Messages, NEW a \in Nat, NEW b \in Nat, NEW w \in Wire,
           IsPiece(w, m, a, b)
    PROVE  Whole(w) = m /\ Before(w) = a /\ UpTo(w) = b /\ a < b /\ b <= m.len + 2
  <1>1. m.len \in Nat
    BY MessageType
  <1>2. CASE w = Plain(m)
    BY <1>1, <1>2 DEF IsPiece, Plain, Whole, Before, UpTo, IsStart, IsChunk
  <1>3. CASE m.len > MAX_BUF_SIZE /\ Slice(w.data, m, a, b) /\ a < b /\ b <= m.len + 2
             /\ w.kind # "Message"
    <2>1. Len(w.data) = b - a /\ 1 \in 1 .. b - a
      BY <1>3 DEF Slice
    <2>2. w.data[1] = <<m, a + 1 - 2>>
      BY <1>3, <2>1 DEF Slice
    <2> QED BY <1>3, <2>1, <2>2 DEF Whole, Before, UpTo
  <1> QED
    BY <1>1, <1>2, <1>3, Sizes DEF IsPiece, IsStart, IsChunk

LEMMA Prefixed ==
    ASSUME NEW m \in Messages, NEW a \in Nat, NEW b \in Nat, b <= m.len
    PROVE  /\ SubSeq(Encode(m), a + 1, b) \in Seq(Byte)
           /\ a <= b => Slice(SubSeq(Encode(m), a + 1, b), m, a + 2, b + 2)
  <1>1. m.len \in Nat
    BY MessageType
  <1>2. \A i \in a + 1 .. b : Encode(m)[i] = <<m, i>> /\ Encode(m)[i] \in Byte
    BY <1>1 DEF Encode, Byte
  <1> DEFINE s == SubSeq(Encode(m), a + 1, b)
  <1>3. /\ s \in Seq(Byte)
        /\ Len(s) = IF a + 1 <= b THEN b - (a + 1) + 1 ELSE 0
        /\ \A i \in 1 .. b - (a + 1) + 1 : s[i] = Encode(m)[a + 1 + i - 1]
    BY <1>2, SubSeqProperties
  <1> HIDE DEF s
  <1>4. ASSUME a <= b PROVE Slice(s, m, a + 2, b + 2)
    <2>1. Len(s) = (b + 2) - (a + 2)
      BY <1>3, <1>4
    <2>2. ASSUME NEW k \in 1 .. (b + 2) - (a + 2) PROVE s[k] = <<m, a + 2 + k - 2>>
      <3>1. k \in 1 .. b - (a + 1) + 1 /\ a + 1 + k - 1 \in a + 1 .. b
            /\ a + 1 + k - 1 = a + 2 + k - 2
        OBVIOUS
      <3> QED BY <1>2, <1>3, <3>1
    <2> QED BY <2>1, <2>2 DEF Slice
  <1> QED BY <1>3, <1>4 DEF s

(* What get_segments makes of a message: NbSegments pieces, each with the  *)
(* bytes after those of the one before it.                                 *)
SegmentEnd(len, i) == MAX_START_DATA_SIZE + ChunkEnd(len, i - 1)

LEMMA FirstSegment ==
    ASSUME NEW m \in Messages, m.len > MAX_BUF_SIZE
    PROVE  /\ GetSegments(m)[1] \in Wire
           /\ IsPiece(GetSegments(m)[1], m, 0, MAX_START_DATA_SIZE)
  <1> DEFINE first == MAX_START_DATA_SIZE - 2
             s == SubSeq(Encode(m), 0 + 1, first)
             prefix == TypePrefix(m)
             data == prefix \o s
             w == SegmentStart(NbSegments(m.len), data)
  <1>1. m.len \in Nat /\ first \in Nat /\ first <= m.len
    BY MessageType, Sizes
  <1>2. GetSegments(m)[1] = w
    BY DEF GetSegments
  <1>3. s \in Seq(Byte) /\ Slice(s, m, 2, MAX_START_DATA_SIZE)
    <2>1. 0 + 2 = 2 /\ first + 2 = MAX_START_DATA_SIZE
      BY Sizes
    <2> QED BY <1>1, <2>1, Prefixed
  <1>4. prefix \in Seq(Byte) /\ Len(prefix) = 2
        /\ prefix[1] = <<m, -1>> /\ prefix[2] = <<m, 0>>
    BY DEF TypePrefix, Byte
  <1> HIDE DEF s, prefix
  <1>5. /\ data \in Seq(Byte) /\ Len(data) = 2 + Len(s)
        /\ \A i \in 1 .. 2 + Len(s) :
              data[i] = IF i <= 2 THEN prefix[i] ELSE s[i - 2]
    <2>1. /\ data \in Seq(Byte) /\ Len(data) = Len(prefix) + Len(s)
          /\ \A i \in 1 .. Len(prefix) + Len(s) :
                data[i] = IF i <= Len(prefix) THEN prefix[i] ELSE s[i - Len(prefix)]
      BY <1>3, <1>4, ConcatProperties
    <2> HIDE DEF data
    <2> QED BY <1>4, <2>1
  <1>6. Len(s) = MAX_START_DATA_SIZE - 2
    BY <1>3 DEF Slice
  <1> HIDE DEF data
  <1>7. ASSUME NEW k \in 1 .. MAX_START_DATA_SIZE PROVE data[k] = <<m, k - 2>>
    <2>1. k \in 1 .. 2 + Len(s) /\ k \in Nat /\ k >= 1
      BY <1>6, Sizes
    <2>2. CASE k = 1
      BY <1>4, <1>5, <2>1, <2>2
    <2>3. CASE k = 2
      BY <1>4, <1>5, <2>1, <2>3
    <2>4. CASE k > 2
      <3>1. data[k] = s[k - 2] /\ k - 2 \in 1 .. MAX_START_DATA_SIZE - 2
        BY <1>5, <1>6, <2>1, <2>4, Sizes
      <3>2. s[k - 2] = <<m, 2 + (k - 2) - 2>> /\ 2 + (k - 2) - 2 = k - 2
        BY <1>3, <2>1, <3>1 DEF Slice
      <3> QED BY <3>1, <3>2
    <2> QED BY <2>1, <2>2, <2>3, <2>4
  <1>8. Slice(data, m, 0, MAX_START_DATA_SIZE)
    <2>1. \A k \in 1 .. MAX_START_DATA_SIZE - 0 : data[k] = <<m, 0 + k - 2>>
      <3> SUFFICES ASSUME NEW k \in 1 .. MAX_START_DATA_SIZE - 0
                   PROVE  data[k] = <<m, 0 + k - 2>>
        OBVIOUS
      <3>1. k \in 1 .. MAX_START_DATA_SIZE /\ 0 + k - 2 = k - 2
        BY Sizes
      <3> QED BY <1>7, <3>1
    <2> QED BY <1>5, <1>6, <2>1, Sizes DEF Slice
  <1>9. /\ w.kind = "SegmentStart" /\ w.nb_segments = NbSegments(m.len)
        /\ w.data = data /\ w \in Wire
    BY <1>1, <1>5, Count DEF SegmentStart, Wire
  <1> QED
    BY <1>2, <1>8, <1>9 DEF IsPiece, IsStart

LEMMA NextSegment ==
    ASSUME NEW m \in Messages, m.len > MAX_BUF_SIZE, NEW i \in 1 .. NbSegments(m.len) - 1
    PROVE  /\ GetSegments(m)[i + 1] \in Wire
           /\ IsPiece(GetSegments(m)[i + 1], m, SegmentEnd(m.len, i), SegmentEnd(m.len, i + 1))
           /\ GetSegments(m) \in Seq(Wire) /\ Len(GetSegments(m)) = NbSegments(m.len)
  <1> DEFINE first == MAX_START_DATA_SIZE - 2
             a == first + ChunkEnd(m.len, i - 1)
             b == first + ChunkEnd(m.len, i)
             data == SubSeq(Encode(m), a + 1, b)
             Chunk(j) == SubSeq(Encode(m), first + ChunkEnd(m.len, j - 1) + 1,
                                first + ChunkEnd(m.len, j))
             chunks == [j \in 1 .. NbSegments(m.len) - 1 |-> SegmentChunk(Chunk(j))]
             w == SegmentStart(NbSegments(m.len), TypePrefix(m) \o SubSeq(Encode(m), 1, first))
             start == <<w>>
  <1>1. m.len \in Nat /\ first \in Nat /\ NbSegments(m.len) \in Nat
    BY MessageType, Sizes, Count
  <1>2. /\ ChunkEnd(m.len, i - 1) \in Nat /\ ChunkEnd(m.len, i) \in Nat
        /\ ChunkEnd(m.len, i - 1) < ChunkEnd(m.len, i)
        /\ ChunkEnd(m.len, i) <= LenMinusStart(m.len)
        /\ ChunkEnd(m.len, i) <= ChunkEnd(m.len, i - 1) + MAX_CHUNK_SIZE
        /\ \/ ChunkEnd(m.len, i) = ChunkEnd(m.len, i - 1) + MAX_CHUNK_SIZE
           \/ ChunkEnd(m.len, i) = LenMinusStart(m.len)
    BY <1>1, Chunks
  <1>3. GetSegments(m) = start \o chunks
    BY DEF GetSegments
  <1>4. ASSUME NEW j \in 1 .. NbSegments(m.len) - 1
        PROVE  Chunk(j) \in Seq(Byte)
    <2>1. /\ ChunkEnd(m.len, j - 1) \in Nat /\ ChunkEnd(m.len, j) \in Nat
          /\ ChunkEnd(m.len, j) <= LenMinusStart(m.len)
      BY <1>1, Chunks
    <2>2. /\ first + ChunkEnd(m.len, j - 1) \in Nat /\ first + ChunkEnd(m.len, j) \in Nat
          /\ first + ChunkEnd(m.len, j) <= m.len
      BY <1>1, <2>1, Sizes DEF LenMinusStart
    <2> QED BY <2>2, Prefixed
  <1>5. chunks \in Seq(Wire) /\ Len(chunks) = NbSegments(m.len) - 1
        /\ \A j \in 1 .. NbSegments(m.len) - 1 : chunks[j] = SegmentChunk(Chunk(j))
    <2> HIDE DEF Chunk
    <2>1. \A j \in 1 .. NbSegments(m.len) - 1 : SegmentChunk(Chunk(j)) \in Wire
      BY <1>4 DEF SegmentChunk, Wire
    <2> QED BY <1>1, <2>1
  <1>6. start \in Seq(Wire) /\ Len(start) = 1
    <2>1. GetSegments(m)[1] = w
      BY DEF GetSegments
    <2>2. w \in Wire
      BY <2>1, FirstSegment
    <2> HIDE DEF w
    <2> QED BY <2>2
  <1> HIDE DEF chunks, start
  <1>7. /\ GetSegments(m) \in Seq(Wire) /\ Len(GetSegments(m)) = NbSegments(m.len)
        /\ GetSegments(m)[i + 1] = chunks[i]
    <2>1. i + 1 \in 1 .. Len(start) + Len(chunks) /\ (i + 1) - Len(start) = i
          /\ ~(i + 1 <= Len(start))
      BY <1>1, <1>5, <1>6
    <2>2. /\ start \o chunks \in Seq(Wire) /\ Len(start \o chunks) = Len(start) + Len(chunks)
          /\ \A j \in 1 .. Len(start) + Len(chunks) :
                (start \o chunks)[j] = IF j <= Len(start) THEN start[j] ELSE chunks[j - Len(start)]
      BY <1>5, <1>6, ConcatProperties
    <2> QED BY <1>1, <1>3, <1>5, <1>6, <2>1, <2>2
  <1>8. GetSegments(m)[i + 1] = SegmentChunk(data)
    BY <1>5, <1>7
  <1>9. a \in Nat /\ b \in Nat /\ a <= b /\ b <= m.len
    BY <1>1, <1>2, Sizes DEF LenMinusStart
  <1> HIDE DEF first
  <1>10. data \in Seq(Byte) /\ Slice(data, m, a + 2, b + 2)
    BY <1>9, Prefixed
  <1>11. a + 2 = SegmentEnd(m.len, i) /\ b + 2 = SegmentEnd(m.len, i + 1)
    <2>1. (i + 1) - 1 = i
      OBVIOUS
    <2> QED BY <1>1, <1>2, <2>1, Sizes DEF SegmentEnd, first
  <1>12. /\ MAX_START_DATA_SIZE <= a + 2 /\ a + 2 < b + 2
         /\ b + 2 <= m.len + 2 /\ b + 2 <= a + 2 + MAX_CHUNK_SIZE
         /\ b + 2 = a + 2 + MAX_CHUNK_SIZE \/ b + 2 = m.len + 2
    BY <1>1, <1>2, Sizes DEF LenMinusStart, first
  <1> HIDE DEF data, a, b
  <1>13. SegmentChunk(data) \in Wire /\ IsChunk(SegmentChunk(data), m, a + 2, b + 2)
    BY <1>10, <1>12 DEF SegmentChunk, Wire, IsChunk
  <1> QED
    BY <1>7, <1>8, <1>11, <1>13 DEF IsPiece

-----------------------------------------------------------------------------
(* A train: pieces of messages, each message whole once it has begun, the  *)
(* messages in the order of their numbers.                                 *)

Piece(w) ==
    /\ w \in Wire /\ Whole(w) \in Messages /\ Before(w) \in Nat /\ UpTo(w) \in Nat
    /\ IsPiece(w, Whole(w), Before(w), UpTo(w))
Linked(v, w) ==
    IF Completes(v) THEN Before(w) = 0 /\ Whole(v).id < Whole(w).id
    ELSE Whole(w) = Whole(v) /\ Before(w) = UpTo(v)
Train(s) ==
    /\ s \in Seq(Wire)
    /\ \A i \in 1 .. Len(s) : Piece(s[i])
    /\ \A i \in 1 .. Len(s) - 1 : Linked(s[i], s[i + 1])
    /\ \A i, j \in 1 .. Len(s) : i < j => Whole(s[i]).id <= Whole(s[j]).id
    /\ s # <<>> => Completes(s[Len(s)])

LEMMA PieceOf ==
    ASSUME NEW m \in Messages, NEW a \in Nat, NEW b \in Nat, NEW w \in Wire,
           IsPiece(w, m, a, b)
    PROVE  Piece(w) /\ Whole(w) = m /\ Before(w) = a /\ UpTo(w) = b
           /\ (Completes(w) <=> b = m.len + 2)
  BY PieceFields DEF Piece, Completes

LEMMA NoTrain == Train(<<>>)
  <1>1. <<>> \in Seq(Wire) /\ Len(<<>>) = 0
    BY EmptySeq
  <1> QED BY <1>1 DEF Train

LEMMA PieceId ==
    ASSUME NEW w, Piece(w)
    PROVE  Whole(w).id \in Nat
  BY MessageType DEF Piece

LEMMA JoinedTrains ==
    ASSUME NEW s, NEW t, Train(s), Train(t), NEW u, u = s \o t,
           t # <<>> => Before(t[1]) = 0,
           \A i \in 1 .. Len(s), j \in 1 .. Len(t) : Whole(s[i]).id < Whole(t[j]).id
    PROVE  Train(u)
  <1>1. s \in Seq(Wire) /\ t \in Seq(Wire) /\ Len(s) \in Nat /\ Len(t) \in Nat
    BY LenProperties DEF Train
  <1>2. /\ u \in Seq(Wire) /\ Len(u) = Len(s) + Len(t)
        /\ \A i \in 1 .. Len(s) + Len(t) : u[i] = IF i <= Len(s) THEN s[i] ELSE t[i - Len(s)]
    BY <1>1, ConcatProperties
  <1>3. /\ \A i \in 1 .. Len(s) : u[i] = s[i]
        /\ \A i \in 1 .. Len(u) : i > Len(s) => u[i] = t[i - Len(s)] /\ i - Len(s) \in 1 .. Len(t)
    BY <1>1, <1>2
  <1>4. ASSUME NEW i \in 1 .. Len(u) PROVE Piece(u[i])
    <2>1. CASE i <= Len(s)
      BY <1>1, <1>2, <1>3, <1>4, <2>1 DEF Train
    <2>2. CASE i > Len(s)
      BY <1>1, <1>2, <1>3, <1>4, <2>2 DEF Train
    <2> QED BY <1>1, <2>1, <2>2
  <1>5. ASSUME NEW i \in 1 .. Len(u) - 1 PROVE Linked(u[i], u[i + 1])
    <2>1. CASE i < Len(s)
      <3>1. i \in 1 .. Len(s) - 1 /\ u[i] = s[i] /\ u[i + 1] = s[i + 1]
        BY <1>1, <1>3, <2>1
      <3> QED BY <3>1 DEF Train
    <2>2. CASE i > Len(s)
      <3>1. /\ i - Len(s) \in 1 .. Len(t) - 1 /\ u[i] = t[i - Len(s)]
            /\ u[i + 1] = t[(i - Len(s)) + 1]
        <4>1. (i + 1) - Len(s) = (i - Len(s)) + 1
          BY <1>1
        <4> QED BY <1>1, <1>2, <1>3, <2>2, <4>1
      <3> QED BY <3>1 DEF Train
    <2>3. CASE i = Len(s)
      <3>1. /\ i \in 1 .. Len(s) /\ 1 \in 1 .. Len(t) /\ u[i] = s[Len(s)] /\ u[i + 1] = t[1]
        <4>1. (i + 1) - Len(s) = 1 /\ i + 1 \in 1 .. Len(u) /\ i + 1 > Len(s)
          BY <1>1, <1>2, <2>3
        <4> QED BY <1>1, <1>2, <1>3, <2>3, <4>1
      <3>2. s # <<>> /\ t # <<>>
        BY <1>1, <3>1, EmptySeq
      <3> QED BY <2>3, <3>1, <3>2 DEF Train, Linked
    <2> QED BY <1>1, <2>1, <2>2, <2>3
  <1>6. ASSUME NEW i \in 1 .. Len(u), NEW j \in 1 .. Len(u), i < j
        PROVE  Whole(u[i]).id <= Whole(u[j]).id
    <2>1. CASE j <= Len(s)
      BY <1>1, <1>3, <1>6, <2>1 DEF Train
    <2>2. CASE i > Len(s)
      <3>1. /\ i - Len(s) \in 1 .. Len(t) /\ j - Len(s) \in 1 .. Len(t)
            /\ i - Len(s) < j - Len(s)
            /\ u[i] = t[i - Len(s)] /\ u[j] = t[j - Len(s)]
        BY <1>1, <1>3, <1>6, <2>2
      <3> QED BY <3>1 DEF Train
    <2>3. CASE i <= Len(s) /\ j > Len(s)
      <3>1. /\ i \in 1 .. Len(s) /\ j - Len(s) \in 1 .. Len(t)
            /\ u[i] = s[i] /\ u[j] = t[j - Len(s)]
        BY <1>1, <1>3, <2>3
      <3>2. Whole(u[i]).id < Whole(u[j]).id
        BY <3>1
      <3>3. Whole(u[i]).id \in Nat /\ Whole(u[j]).id \in Nat
        BY <1>4, PieceId
      <3> QED BY <3>2, <3>3
    <2> QED BY <1>1, <2>1, <2>2, <2>3
  <1>7. ASSUME u # <<>> PROVE Completes(u[Len(u)])
    <2>1. CASE t = <<>>
      <3>1. u = s
        BY <1>1, <2>1, ConcatEmptySeq
      <3> QED BY <1>7, <3>1 DEF Train
    <2>2. CASE t # <<>>
      <3>1. Len(t) \in Nat \ {0} /\ Len(u) > Len(s) /\ Len(u) \in 1 .. Len(u)
            /\ Len(u) - Len(s) = Len(t)
        BY <1>1, <1>2, <2>2, EmptySeq
      <3>2. u[Len(u)] = t[Len(t)]
        BY <1>3, <3>1
      <3> QED BY <2>2, <3>2 DEF Train
    <2> QED BY <2>1, <2>2
  <1> QED BY <1>2, <1>4, <1>5, <1>6, <1>7 DEF Train

LEMMA TailOfTrain ==
    ASSUME NEW s, Train(s), s # <<>>, NEW t, t = Tail(s)
    PROVE  /\ Train(t) /\ Len(t) \in Nat /\ Head(s) = s[1] /\ 1 \in 1 .. Len(s)
           /\ \A i \in 1 .. Len(t) : t[i] = s[i + 1] /\ i + 1 \in 1 .. Len(s)
           /\ t # <<>> => Linked(s[1], t[1]) /\ 1 \in 1 .. Len(t)
           /\ t = <<>> => Completes(s[1])
  <1>1. s \in Seq(Wire) /\ Len(s) \in Nat \ {0} /\ Head(s) = s[1]
    BY LenProperties, EmptySeq DEF Train
  <1>2. t \in Seq(Wire) /\ Len(t) = Len(s) - 1 /\ \A i \in 1 .. Len(t) : t[i] = s[i + 1]
    BY <1>1, HeadTailProperties
  <1>3. \A i \in 1 .. Len(t) : i + 1 \in 1 .. Len(s) /\ i \in Nat
    BY <1>1, <1>2
  <1>4. \A i \in 1 .. Len(t) : Piece(t[i])
    BY <1>2, <1>3 DEF Train
  <1>5. ASSUME NEW i \in 1 .. Len(t) - 1 PROVE Linked(t[i], t[i + 1])
    <2>1. /\ i \in 1 .. Len(t) /\ i + 1 \in 1 .. Len(t) /\ i + 1 \in 1 .. Len(s) - 1
      BY <1>1, <1>2
    <2> QED BY <1>2, <2>1 DEF Train
  <1>6. ASSUME NEW i \in 1 .. Len(t), NEW j \in 1 .. Len(t), i < j
        PROVE  Whole(t[i]).id <= Whole(t[j]).id
    <2>1. i + 1 \in 1 .. Len(s) /\ j + 1 \in 1 .. Len(s) /\ i + 1 < j + 1
      BY <1>3, <1>6
    <2> QED BY <1>2, <2>1 DEF Train
  <1>7. ASSUME t # <<>> PROVE Completes(t[Len(t)]) /\ Linked(s[1], t[1]) /\ 1 \in 1 .. Len(t)
    <2>1. Len(t) \in Nat \ {0}
      BY <1>2, <1>7, EmptySeq
    <2>2. Len(t) \in 1 .. Len(t) /\ 1 \in 1 .. Len(t) /\ 1 \in 1 .. Len(s) - 1
          /\ Len(t) + 1 = Len(s) /\ 1 + 1 = 2
      BY <1>1, <1>2, <2>1
    <2> QED BY <1>2, <2>2 DEF Train
  <1>8. ASSUME t = <<>> PROVE Completes(s[1])
    <2>1. Len(s) = 1
      BY <1>1, <1>2, <1>8, EmptySeq
    <2> QED BY <2>1 DEF Train
  <1> QED BY <1>1, <1>2, <1>3, <1>4, <1>5, <1>6, <1>7, <1>8 DEF Train

(* What send_message queues for a message is a train of this message.      *)
Parts(m) == IF m.len > MAX_BUF_SIZE THEN GetSegments(m) ELSE <<Plain(m)>>

LEMMA PlainPiece ==
    ASSUME NEW m \in Messages
    PROVE  /\ Plain(m) \in Wire /\ Piece(Plain(m)) /\ Whole(Plain(m)) = m
           /\ Before(Plain(m)) = 0 /\ Completes(Plain(m))
  <1>1. Plain(m) \in Wire
    BY DEF Wire
  <1>2. m.len + 2 \in Nat
    BY MessageType
  <1>3. IsPiece(Plain(m), m, 0, m.len + 2)
    BY DEF IsPiece
  <1> QED BY <1>1, <1>2, <1>3, PieceOf

LEMMA SegmentsTrain ==
    ASSUME NEW m \in Messages, m.len > MAX_BUF_SIZE, NEW s, s = GetSegments(m)
    PROVE  /\ Train(s) /\ Len(s) \in Nat \ {0} /\ Before(s[1]) = 0
           /\ \A i \in 1 .. Len(s) : Whole(s[i]) = m
  <1> DEFINE nb == NbSegments(m.len)
             end(i) == SegmentEnd(m.len, i)
  <1>1. m.len \in Nat /\ nb \in Nat /\ nb - 1 \in Nat \ {0} /\ LenMinusStart(m.len) \in Nat
    BY MessageType, Count
  <1>2. ASSUME NEW i \in 1 .. nb - 1
        PROVE  /\ s[i + 1] \in Wire /\ end(i) \in Nat /\ end(i + 1) \in Nat
               /\ IsPiece(s[i + 1], m, end(i), end(i + 1)) /\ Len(s) = nb
               /\ i = nb - 1 <=> end(i + 1) = m.len + 2
               /\ i = 1 => end(i) = MAX_START_DATA_SIZE
    <2>1. (i + 1) - 1 = i
      OBVIOUS
    <2>2. /\ ChunkEnd(m.len, i - 1) \in Nat /\ ChunkEnd(m.len, i) \in Nat
          /\ ChunkEnd(m.len, 0) = 0
          /\ i = nb - 1 => ChunkEnd(m.len, i) = LenMinusStart(m.len)
          /\ i # nb - 1 => ChunkEnd(m.len, i) < LenMinusStart(m.len)
      BY <1>1, Chunks
    <2>3. i = 1 => i - 1 = 0
      OBVIOUS
    <2>4. /\ end(i) \in Nat /\ end(i + 1) \in Nat
          /\ i = nb - 1 <=> end(i + 1) = m.len + 2
          /\ i = 1 => end(i) = MAX_START_DATA_SIZE
      BY <1>1, <2>1, <2>2, <2>3, Sizes DEF SegmentEnd, LenMinusStart
    <2>5. /\ s[i + 1] \in Wire /\ Len(s) = nb
          /\ IsPiece(s[i + 1], m, end(i), end(i + 1))
      BY NextSegment
    <2> QED BY <2>4, <2>5
  <1>3. s[1] \in Wire /\ IsPiece(s[1], m, 0, MAX_START_DATA_SIZE)
    BY FirstSegment
  <1>4. 1 \in 1 .. nb - 1 /\ MAX_START_DATA_SIZE \in Nat /\ MAX_START_DATA_SIZE # m.len + 2
    BY <1>1, Sizes
  <1>5. Len(s) = nb
    BY <1>2, <1>4
  <1> HIDE DEF nb, end
  <1>6. /\ Piece(s[1]) /\ Whole(s[1]) = m /\ Before(s[1]) = 0
        /\ UpTo(s[1]) = MAX_START_DATA_SIZE /\ ~Completes(s[1])
    BY <1>3, <1>4, PieceOf
  <1>7. ASSUME NEW i \in 1 .. nb - 1
        PROVE  /\ Piece(s[i + 1]) /\ Whole(s[i + 1]) = m /\ Before(s[i + 1]) = end(i)
               /\ UpTo(s[i + 1]) = end(i + 1)
               /\ Completes(s[i + 1]) <=> i = nb - 1
    BY <1>2, PieceOf
  <1>8. \A i \in 2 .. nb : i - 1 \in 1 .. nb - 1 /\ (i - 1) + 1 = i
    BY <1>1
  <1>9. \A i \in 1 .. nb : Piece(s[i]) /\ Whole(s[i]) = m
    <2> SUFFICES ASSUME NEW i \in 1 .. nb PROVE Piece(s[i]) /\ Whole(s[i]) = m
      OBVIOUS
    <2>1. CASE i = 1
      BY <1>6, <2>1
    <2>2. CASE i \in 2 .. nb
      BY <1>7, <1>8, <2>2
    <2> QED BY <1>1, <2>1, <2>2
  <1>10. ASSUME NEW i \in 1 .. nb - 1 PROVE Linked(s[i], s[i + 1])
    <2>1. CASE i = 1
      BY <1>2, <1>6, <1>7, <2>1 DEF Linked
    <2>2. CASE i \in 2 .. nb
      <3>1. i - 1 \in 1 .. nb - 1 /\ (i - 1) + 1 = i /\ i - 1 # nb - 1
        BY <1>1, <1>10, <2>2
      <3>2. Whole(s[i]) = m /\ UpTo(s[i]) = end(i) /\ ~Completes(s[i])
        BY <1>7, <3>1
      <3> QED BY <1>7, <3>2 DEF Linked
    <2> QED BY <1>1, <2>1, <2>2
  <1>11. Completes(s[nb])
    <2>1. nb - 1 \in 1 .. nb - 1 /\ (nb - 1) + 1 = nb
      BY <1>1
    <2> QED BY <1>7, <2>1
  <1>12. s \in Seq(Wire)
    BY <1>4, NextSegment DEF nb
  <1>13. m.id \in Nat
    BY MessageType
  <1> QED BY <1>1, <1>5, <1>6, <1>9, <1>10, <1>11, <1>12, <1>13 DEF Train

LEMMA PartsTrain ==
    ASSUME NEW m \in Messages, NEW s, s = Parts(m)
    PROVE  /\ Train(s) /\ Len(s) \in Nat \ {0} /\ Before(s[1]) = 0
           /\ \A i \in 1 .. Len(s) : Whole(s[i]) = m
  <1>1. CASE m.len > MAX_BUF_SIZE
    BY <1>1, SegmentsTrain DEF Parts
  <1>2. CASE ~(m.len > MAX_BUF_SIZE)
    <2>1. s = <<Plain(m)>>
      BY <1>2 DEF Parts
    <2>2. s \in Seq(Wire) /\ Len(s) = 1 /\ s[1] = Plain(m) /\ s # <<>>
      BY <2>1, PlainPiece
    <2>3. \A i \in 1 .. Len(s) : i = 1
      BY <2>2
    <2> HIDE DEF Parts
    <2> QED BY <2>2, <2>3, PlainPiece DEF Train
  <1> QED BY <1>1, <1>2

-----------------------------------------------------------------------------
(* The reader of a peer.                                                   *)

Idle(r) == r.cur_data = <<>>

(* The reader holds the first a bytes of m and counts the chunks to come.  *)
Reading(r, m, a) ==
    /\ Slice(r.cur_data, m, 0, a) /\ r.remaining # 0
    /\ (r.remaining - 1) * MAX_CHUNK_SIZE < m.len + 2 - a
    /\ m.len + 2 - a <= r.remaining * MAX_CHUNK_SIZE

Sound(r) == r \in Reader /\ (Idle(r) <=> r.remaining = 0)

(* The reader of the peer expects a wire message: it is the first one of   *)
(* a message, or the next one of the message that the reader has begun.    *)
Expects(r, w) == Before(w) = 0 \/ Reading(r, Whole(w), Before(w))

LEMMA NewIsSound == Sound(NewReader) /\ Idle(NewReader)
  BY DEF NewReader, Sound, Idle, Reader

LEMMA KindOfPiece ==
    ASSUME NEW w, Piece(w)
    PROVE  \/ w = Plain(Whole(w)) /\ w.kind = "Message" /\ Before(w) = 0 /\ Completes(w)
           \/ /\ Whole(w).len > MAX_BUF_SIZE /\ IsStart(w, Whole(w)) /\ w.kind = "SegmentStart"
              /\ Before(w) = 0 /\ UpTo(w) = MAX_START_DATA_SIZE /\ ~Completes(w)
           \/ /\ Whole(w).len > MAX_BUF_SIZE /\ w.kind = "SegmentChunk"
              /\ IsChunk(w, Whole(w), Before(w), UpTo(w)) /\ Before(w) # 0
  <1>1. Whole(w) \in Messages /\ Before(w) \in Nat /\ UpTo(w) \in Nat
    BY DEF Piece
  <1>2. Whole(w).len \in Nat
    BY <1>1, MessageType
  <1>3. CASE w = Plain(Whole(w))
    BY <1>1, <1>3, PlainPiece DEF Plain
  <1>4. CASE /\ Whole(w).len > MAX_BUF_SIZE /\ IsStart(w, Whole(w)) /\ Before(w) = 0
             /\ UpTo(w) = MAX_START_DATA_SIZE
    BY <1>2, <1>4, Sizes DEF IsStart, Completes
  <1>5. CASE Whole(w).len > MAX_BUF_SIZE /\ IsChunk(w, Whole(w), Before(w), UpTo(w))
    BY <1>1, <1>5, Sizes DEF IsChunk
  <1> QED BY <1>3, <1>4, <1>5 DEF Piece, IsPiece

LEMMA HandledPlain ==
    ASSUME NEW r, Sound(r), NEW m \in Messages, NEW w, w = Plain(m)
    PROVE  LET out == Handled(r, w)
           IN out.err = FALSE /\ out.msgs = <<m>> /\ Sound(out.reader)
  <1>1. w.kind = "Message" /\ w.msg = m
    BY DEF Plain
  <1>2. \A q : Unsegmented(q, w) = [reader |-> q, err |-> FALSE, msgs |-> <<m>>]
    BY <1>1 DEF Unsegmented, Result, Ok
  <1>3. CASE ~ExpectingChunk(r)
    BY <1>1, <1>2, <1>3 DEF Handled
  <1>4. CASE ExpectingChunk(r)
    <2>1. Handled(r, w) = Unsegmented(NewReader, w)
      BY <1>1, <1>4 DEF Handled, Reset
    <2> QED BY <1>2, <2>1, NewIsSound
  <1> QED BY <1>3, <1>4

LEMMA HandledStart ==
    ASSUME NEW r, Sound(r), NEW m \in Messages, m.len > MAX_BUF_SIZE,
           NEW w, IsStart(w, m), w.data \in Seq(Byte)
    PROVE  LET out == Handled(r, w)
           IN /\ out.err \in BOOLEAN /\ out.msgs = <<>> /\ Sound(out.reader)
              /\ out.err => NbSegments(m.len) > MAX_SEGMENTS
              /\ ~out.err => Reading(out.reader, m, MAX_START_DATA_SIZE)
  <1>1. w.kind = "SegmentStart" /\ w.nb_segments = NbSegments(m.len)
        /\ Slice(w.data, m, 0, MAX_START_DATA_SIZE)
    BY DEF IsStart
  <1>2. /\ m.len \in Nat /\ NbSegments(m.len) \in Nat /\ NbSegments(m.len) - 1 \in Nat \ {0}
        /\ (NbSegments(m.len) - 2) * MAX_CHUNK_SIZE < LenMinusStart(m.len)
        /\ LenMinusStart(m.len) <= (NbSegments(m.len) - 1) * MAX_CHUNK_SIZE
    BY MessageType, Count
  <1>3. Len(w.data) = MAX_START_DATA_SIZE /\ w.data # <<>>
    BY <1>1, Sizes, EmptySeq DEF Slice
  <1> DEFINE q == [cur_data |-> w.data, remaining |-> w.nb_segments - 1]
  <1>4. Sound(q) /\ Reading(q, m, MAX_START_DATA_SIZE)
    <2>1. q.cur_data = w.data /\ q.remaining = NbSegments(m.len) - 1 /\ q \in Reader
      BY <1>1, <1>2 DEF Reader
    <2>2. q.remaining - 1 = NbSegments(m.len) - 2
          /\ m.len + 2 - MAX_START_DATA_SIZE = LenMinusStart(m.len)
      <3>1. m.len \in Nat /\ NbSegments(m.len) \in Nat
        BY <1>2
      <3>2. q.remaining = NbSegments(m.len) - 1
        BY <2>1
      <3> HIDE DEF q
      <3> QED BY <3>1, <3>2, Sizes DEF LenMinusStart
    <2> HIDE DEF q
    <2> QED BY <1>1, <1>2, <1>3, <2>1, <2>2 DEF Sound, Idle, Reading
  <1>5. ASSUME NEW u, Sound(u), Idle(u)
        PROVE  /\ Unsegmented(u, w).err \in BOOLEAN /\ Unsegmented(u, w).msgs = <<>>
               /\ Unsegmented(u, w).err => /\ Unsegmented(u, w).reader = u
                                           /\ NbSegments(m.len) > MAX_SEGMENTS
               /\ ~Unsegmented(u, w).err => Unsegmented(u, w).reader = q
    <2>1. Unsegmented(u, w) = Result(ProcessSegmentStart(u, w), <<>>)
      BY <1>1 DEF Unsegmented
    <2>2. CASE NbSegments(m.len) > MAX_SEGMENTS
      <3>1. ProcessSegmentStart(u, w) = Failed(u)
        BY <1>1, <2>2 DEF ProcessSegmentStart
      <3> QED BY <2>1, <2>2, <3>1 DEF Result, Failed
    <2>3. CASE ~(NbSegments(m.len) > MAX_SEGMENTS)
      <3>1. ProcessSegmentStart(u, w) = Ok(q, <<>>)
        BY <1>1, <1>2, <1>3, <1>5, <2>3, Sizes DEF ProcessSegmentStart, Idle
      <3> QED BY <2>1, <3>1 DEF Result, Ok
    <2> QED BY <2>2, <2>3
  <1>6. PICK u : Sound(u) /\ Idle(u) /\ Handled(r, w) = Unsegmented(u, w)
    <2>1. CASE ~ExpectingChunk(r)
      <3>1. Handled(r, w) = Unsegmented(r, w) /\ Idle(r)
        BY <2>1 DEF Handled, ExpectingChunk, Sound
      <3> QED BY <3>1
    <2>2. CASE ExpectingChunk(r)
      <3>1. Handled(r, w) = Unsegmented(NewReader, w)
        BY <1>1, <2>2 DEF Handled, Reset
      <3> QED BY <3>1, NewIsSound
    <2> QED BY <2>1, <2>2
  <1> HIDE DEF q
  <1> QED BY <1>4, <1>5, <1>6

(* The next slice of a message extends the one before it.                  *)
LEMMA JoinedSlices ==
    ASSUME NEW m, NEW a \in Nat, NEW b \in Nat, a <= b, NEW d \in Seq(Byte), NEW e \in Seq(Byte),
           Slice(d, m, 0, a), Slice(e, m, a, b), NEW f, f = d \o e
    PROVE  f \in Seq(Byte) /\ Slice(f, m, 0, b)
  <1>1. /\ Len(d) = a /\ Len(e) = b - a
    BY DEF Slice
  <1>2. /\ f \in Seq(Byte) /\ Len(f) = Len(d) + Len(e)
        /\ \A i \in 1 .. Len(d) + Len(e) : f[i] = IF i <= Len(d) THEN d[i] ELSE e[i - Len(d)]
    BY ConcatProperties
  <1>3. Len(f) = b - 0 /\ Len(f) = b
    BY <1>1, <1>2
  <1>4. ASSUME NEW k \in 1 .. b - 0 PROVE f[k] = <<m, 0 + k - 2>>
    <2>1. k \in 1 .. Len(d) + Len(e)
      BY <1>1
    <2>2. CASE k <= a
      <3>1. f[k] = d[k] /\ k \in 1 .. a - 0
        BY <1>1, <1>2, <2>1, <2>2
      <3> QED BY <3>1 DEF Slice
    <2>3. CASE k > a
      <3>1. f[k] = e[k - a] /\ k - a \in 1 .. b - a /\ a + (k - a) - 2 = 0 + k - 2
        BY <1>1, <1>2, <2>1, <2>3
      <3> QED BY <3>1 DEF Slice
    <2>4. k <= a \/ k > a
      <3>1. k \in Int
        OBVIOUS
      <3> QED BY <3>1
    <2> QED BY <2>2, <2>3, <2>4
  <1> QED BY <1>2, <1>3, <1>4 DEF Slice

(* All bytes of a message are read as the message.                         *)
LEMMA ReadWhole ==
    ASSUME NEW m \in Messages, NEW d \in Seq(Byte), Slice(d, m, 0, m.len + 2)
    PROVE  d # <<>> /\ ~Truncated(d) /\ Read(d) = m
  <1> DEFINE prefix == TypePrefix(m)
             all == Bytes(m)
             rest == Encode(m)
  <1>1. m.len \in Nat /\ Len(d) = m.len + 2
    BY MessageType DEF Slice
  <1>2. \A k \in 1 .. m.len + 2 : d[k] = <<m, k - 2>>
    <2> SUFFICES ASSUME NEW k \in 1 .. m.len + 2 PROVE d[k] = <<m, k - 2>>
      OBVIOUS
    <2>1. k \in 1 .. (m.len + 2) - 0 /\ 0 + k - 2 = k - 2
      BY <1>1
    <2> QED BY <1>1, <2>1 DEF Slice
  <1>3. prefix \in Seq(Byte) /\ Len(prefix) = 2 /\ prefix[1] = <<m, -1>> /\ prefix[2] = <<m, 0>>
    BY DEF TypePrefix, Byte
  <1>4. rest \in Seq(Byte) /\ Len(rest) = m.len /\ \A k \in 1 .. m.len : rest[k] = <<m, k>>
    BY <1>1 DEF Encode, Byte
  <1>5. all = prefix \o rest
    BY DEF Bytes
  <1> HIDE DEF prefix, rest, all
  <1>6. /\ all \in Seq(Byte) /\ Len(all) = Len(prefix) + Len(rest)
        /\ \A i \in 1 .. Len(prefix) + Len(rest) :
              all[i] = IF i <= Len(prefix) THEN prefix[i] ELSE rest[i - Len(prefix)]
    BY <1>3, <1>4, <1>5, ConcatProperties
  <1>7. Len(all) = m.len + 2
    BY <1>1, <1>3, <1>4, <1>6
  <1>8. ASSUME NEW k \in 1 .. m.len + 2 PROVE all[k] = <<m, k - 2>>
    <2>1. k \in 1 .. Len(prefix) + Len(rest) /\ k \in Nat /\ k >= 1
      BY <1>1, <1>3, <1>4
    <2>2. CASE k = 1
      BY <1>3, <1>6, <2>1, <2>2
    <2>3. CASE k = 2
      BY <1>3, <1>6, <2>1, <2>3
    <2>4. CASE k > 2
      <3>1. all[k] = rest[k - 2] /\ k - 2 \in 1 .. m.len
        BY <1>1, <1>3, <1>4, <1>6, <2>1, <2>4
      <3> QED BY <1>4, <3>1
    <2> QED BY <2>1, <2>2, <2>3, <2>4
  <1>9. d = all
    <2>1. Len(d) = Len(all) /\ \A i \in 1 .. Len(d) : d[i] = all[i]
      BY <1>1, <1>2, <1>7, <1>8
    <2> QED BY <1>6, <2>1, SeqEqual
  <1>10. d[1][1] = m /\ d # <<>>
    BY <1>1, <1>2, EmptySeq
  <1>11. SubSeq(d, 1, Len(all)) = all
    BY <1>9, SubSeqFull
  <1> QED BY <1>1, <1>7, <1>10, <1>11 DEF Truncated, Read, all

LEMMA Product ==
    ASSUME NEW c \in Nat \ {0}, NEW k \in Nat, k > 1
    PROVE  (k - 1) * c >= c /\ k * c = (k - 1) * c + c /\ (k - 1) * c = (k - 1 - 1) * c + c
  <1>1. PICK d \in Nat : k = d + 2
    <2>1. k - 2 \in Nat /\ k = (k - 2) + 2
      OBVIOUS
    <2> QED BY <2>1
  <1>2. k - 1 = d + 1 /\ k - 1 - 1 = d
    BY <1>1
  <1>3. (d + 1) * c = d * c + c /\ (d + 2) * c = d * c + c + c /\ d * c \in Nat
    OBVIOUS
  <1> QED BY <1>1, <1>2, <1>3

LEMMA HandledChunk ==
    ASSUME NEW r, Sound(r), NEW m \in Messages, NEW a \in Nat, NEW b \in Nat,
           NEW w, IsChunk(w, m, a, b), w.data \in Seq(Byte), Reading(r, m, a)
    PROVE  LET out == Handled(r, w)
           IN /\ out.err = FALSE /\ Sound(out.reader)
              /\ b = m.len + 2 => out.msgs = <<m>>
              /\ b # m.len + 2 => out.msgs = <<>> /\ Reading(out.reader, m, b)
  <1> DEFINE c == MAX_CHUNK_SIZE
             rem == r.remaining
             data == r.cur_data \o w.data
  <1>1. /\ w.kind = "SegmentChunk" /\ Slice(w.data, m, a, b) /\ MAX_START_DATA_SIZE <= a
        /\ a < b /\ b <= m.len + 2 /\ b <= a + c /\ (b = a + c \/ b = m.len + 2)
    BY DEF IsChunk
  <1>2. /\ Slice(r.cur_data, m, 0, a) /\ rem # 0 /\ (rem - 1) * c < m.len + 2 - a
        /\ m.len + 2 - a <= rem * c
    BY DEF Reading
  <1>3. m.len \in Nat /\ c \in Nat \ {0} /\ rem \in Nat /\ r.cur_data \in Seq(Byte)
        /\ r.cur_data # <<>>
    BY <1>2, MessageType, Sizes DEF Sound, Reader, Idle
  <1>4. data \in Seq(Byte) /\ Slice(data, m, 0, b)
    <2>1. a <= b /\ Slice(r.cur_data, m, 0, a) /\ Slice(w.data, m, a, b)
      BY <1>1, <1>2
    <2> QED BY <1>3, <2>1, JoinedSlices
  <1>5. Len(w.data) = b - a
    BY <1>1 DEF Slice
  <1>6. Handled(r, w) = OfChunk(r, w)
    BY <1>1, <1>2 DEF Handled, ExpectingChunk
  <1>7. CASE rem = 1
    <2>1. b = m.len + 2
      <3>1. 1 * c = c
        BY <1>3
      <3> HIDE DEF c
      <3> QED BY <1>1, <1>2, <1>3, <1>7, <3>1
    <2>2. data # <<>> /\ ~Truncated(data) /\ Read(data) = m
      BY <1>4, <2>1, ReadWhole
    <2>3. ProcessSegmentChunk(r, w) = Ok(NewReader, data)
      BY <1>3, <1>7 DEF ProcessSegmentChunk
    <2> HIDE DEF data
    <2>4. OfChunk(r, w) = Result(Ok(NewReader, data), <<Read(data)>>)
      BY <2>2, <2>3 DEF OfChunk, Ok
    <2> QED BY <1>6, <2>1, <2>2, <2>4, NewIsSound DEF Result, Ok
  <1>8. CASE rem # 1
    <2> DEFINE q == [cur_data |-> data, remaining |-> rem - 1]
    <2>1. rem > 1 /\ rem - 1 \in Nat \ {0}
      <3>1. rem \in Nat /\ rem # 0
        BY <1>2, <1>3
      <3> HIDE DEF rem
      <3> QED BY <1>8, <3>1
    <2> HIDE DEF c, rem
    <2>2. /\ (rem - 1) * c >= c /\ rem * c = (rem - 1) * c + c
          /\ (rem - 1) * c = (rem - 1 - 1) * c + c
      BY <1>3, <2>1, Product
    <2>3. (rem - 1) * c \in Int /\ rem * c \in Int /\ (rem - 1 - 1) * c \in Int
      BY <1>3, <2>1
    <2>4. b = a + c /\ b # m.len + 2
      <3> DEFINE x == (rem - 1) * c
                 y == m.len + 2
      <3>1. x \in Int /\ y \in Nat /\ x >= c /\ x < y - a
        BY <1>2, <1>3, <2>2, <2>3
      <3>2. b <= a + c /\ (b = a + c \/ b = y)
        BY <1>1
      <3> HIDE DEF x, y
      <3>3. b # y
        BY <1>3, <3>1, <3>2
      <3> QED BY <3>2, <3>3 DEF y
    <2>5. (rem - 1 - 1) * c < m.len + 2 - b /\ m.len + 2 - b <= (rem - 1) * c
      <3> DEFINE x == (rem - 1) * c
                 y == m.len + 2
                 z == rem * c
                 u == (rem - 1 - 1) * c
      <3>1. /\ x \in Int /\ y \in Nat /\ z \in Int /\ u \in Int
            /\ x < y - a /\ y - a <= z /\ z = x + c /\ x = u + c
        BY <1>2, <1>3, <2>2, <2>3
      <3>2. b = a + c
        BY <2>4
      <3> HIDE DEF x, y, z, u
      <3>3. u < y - b /\ y - b <= x
        BY <1>3, <3>1, <3>2
      <3>4. u < m.len + 2 - b /\ m.len + 2 - b <= x
        BY <1>3, <3>3 DEF y
      <3> QED BY <3>4, Zenon DEF x, u
    <2>6. b - a = c
      BY <1>3, <2>4
    <2> USE DEF c, rem
    <2>7. ProcessSegmentChunk(r, w) = Ok(q, <<>>)
      BY <1>3, <1>5, <1>8, <2>6 DEF ProcessSegmentChunk
    <2>8. OfChunk(r, w) = Result(Ok(q, <<>>), <<>>)
      BY <2>7 DEF OfChunk, Ok
    <2>9. q.cur_data = data /\ q.remaining = rem - 1 /\ q \in Reader
      BY <1>4, <2>1 DEF Reader
    <2>10. data # <<>>
      <3>1. Len(data) = b
        BY <1>4 DEF Slice
      <3> HIDE DEF data
      <3> QED BY <1>1, <3>1, EmptySeq
    <2> HIDE DEF q, data
    <2>11. Sound(q) /\ Reading(q, m, b)
      BY <1>4, <2>1, <2>5, <2>9, <2>10 DEF Sound, Idle, Reading
    <2> QED BY <1>6, <2>4, <2>8, <2>11 DEF Result, Ok
  <1> QED BY <1>7, <1>8

(* What the handler makes of a wire message that the reader expects.       *)
LEMMA HandledPiece ==
    ASSUME NEW r, Sound(r), NEW w, Piece(w), Expects(r, w)
    PROVE  LET out == Handled(r, w)
           IN /\ out.err \in BOOLEAN /\ Sound(out.reader)
              /\ Completes(w) => out.msgs = <<Whole(w)>> /\ ~out.err
              /\ ~Completes(w) => out.msgs = <<>>
              /\ out.err => /\ Whole(w).len > MAX_BUF_SIZE
                            /\ NbSegments(Whole(w).len) > MAX_SEGMENTS
              /\ ~Completes(w) /\ ~out.err => Reading(out.reader, Whole(w), UpTo(w))
  <1>1. w \in Wire /\ Whole(w) \in Messages /\ Before(w) \in Nat /\ UpTo(w) \in Nat
    BY DEF Piece
  <1>2. w.kind # "Message" => w.data \in Seq(Byte)
    BY <1>1 DEF Wire, Plain
  <1>3. CASE w = Plain(Whole(w)) /\ Completes(w)
    BY <1>1, <1>3, HandledPlain
  <1>4. CASE /\ Whole(w).len > MAX_BUF_SIZE /\ IsStart(w, Whole(w)) /\ w.kind = "SegmentStart"
             /\ UpTo(w) = MAX_START_DATA_SIZE /\ ~Completes(w)
    BY <1>1, <1>2, <1>4, HandledStart
  <1>5. CASE /\ w.kind = "SegmentChunk" /\ Before(w) # 0
             /\ IsChunk(w, Whole(w), Before(w), UpTo(w))
    <2>1. Reading(r, Whole(w), Before(w))
      BY <1>5 DEF Expects
    <2>2. Completes(w) <=> UpTo(w) = Whole(w).len + 2
      BY DEF Completes
    <2>3. w.data \in Seq(Byte) /\ IsChunk(w, Whole(w), Before(w), UpTo(w))
      BY <1>2, <1>5
    <2>4. /\ Handled(r, w).err = FALSE /\ Sound(Handled(r, w).reader)
          /\ UpTo(w) = Whole(w).len + 2 => Handled(r, w).msgs = <<Whole(w)>>
          /\ UpTo(w) # Whole(w).len + 2 =>
                Handled(r, w).msgs = <<>> /\ Reading(Handled(r, w).reader, Whole(w), UpTo(w))
      BY <1>1, <2>1, <2>3, HandledChunk
    <2> QED BY <2>2, <2>4
  <1> QED BY <1>3, <1>4, <1>5, KindOfPiece

-----------------------------------------------------------------------------
(* A lane: all there is of the messages of n to p.  They are queued, on    *)
(* the wire, in the reader or have arrived, in the order of their numbers. *)

Sent(n, p, m, k) == m \in Messages /\ m.from = n /\ m.to = p /\ m.id <= k

Pending(n, p, Q, W, r, k) ==
    /\ Train(Q) /\ Train(W) /\ Sound(r)
    /\ Q # <<>> => Before(Q[1]) = 0
    /\ W # <<>> => Expects(r, W[1])
    /\ \A i \in 1 .. Len(Q) : Sent(n, p, Whole(Q[i]), k)
    /\ \A i \in 1 .. Len(W) : Sent(n, p, Whole(W[i]), k)
    /\ \A i \in 1 .. Len(W), j \in 1 .. Len(Q) : Whole(W[i]).id < Whole(Q[j]).id
Came(n, p, Q, W, A, k) ==
    \A i \in 1 .. Len(A) : A[i].from = n =>
        /\ Sent(n, p, A[i], k)
        /\ \A j \in 1 .. Len(Q) : A[i].id < Whole(Q[j]).id
        /\ \A j \in 1 .. Len(W) : A[i].id < Whole(W[j]).id
        /\ \A j \in 1 .. Len(A) : j < i /\ A[j].from = n => A[j].id < A[i].id
Lane(n, p, Q, W, r, A, k) ==
    /\ k \in Nat /\ A \in Seq(Messages)
    /\ Pending(n, p, Q, W, r, k) /\ Came(n, p, Q, W, A, k)

LEMMA SentLater ==
    ASSUME NEW n, NEW p, NEW m, NEW k \in Nat, Sent(n, p, m, k)
    PROVE  Sent(n, p, m, k + 1) /\ m.id \in Nat /\ m.id < k + 1
  BY MessageType DEF Sent

(* Messages to others are numbered in the same sequence.                   *)
LEMMA LaneLater ==
    ASSUME NEW n, NEW p, NEW Q, NEW W, NEW r, NEW A, NEW k, Lane(n, p, Q, W, r, A, k)
    PROVE  Lane(n, p, Q, W, r, A, k + 1)
  <1>1. k \in Nat /\ k + 1 \in Nat
    BY DEF Lane
  <1> QED BY <1>1, SentLater DEF Lane, Pending, Came

LEMMA LaneQueue ==
    ASSUME NEW n, NEW p, NEW Q, NEW W, NEW r, NEW A, NEW k, Lane(n, p, Q, W, r, A, k),
           NEW m \in Messages, m.from = n, m.to = p, m.id = k + 1, NEW R, R = Q \o Parts(m)
    PROVE  Lane(n, p, R, W, r, A, k + 1)
  <1> DEFINE s == Parts(m)
  <1>1. /\ Train(s) /\ Len(s) \in Nat \ {0} /\ Before(s[1]) = 0
        /\ \A i \in 1 .. Len(s) : Whole(s[i]) = m
    BY PartsTrain
  <1> HIDE DEF s
  <1>2. /\ k \in Nat /\ k + 1 \in Nat /\ Train(Q) /\ Q \in Seq(Wire) /\ s \in Seq(Wire)
        /\ Len(Q) \in Nat
    BY <1>1, LenProperties DEF Lane, Pending, Train
  <1>3. \A i \in 1 .. Len(Q) : Sent(n, p, Whole(Q[i]), k + 1) /\ Whole(Q[i]).id < k + 1
    BY <1>2, SentLater DEF Lane, Pending
  <1>4. Train(R)
    <2>1. R = Q \o s
      BY DEF s
    <2>2. \A i \in 1 .. Len(Q), j \in 1 .. Len(s) : Whole(Q[i]).id < Whole(s[j]).id
      BY <1>1, <1>3
    <2> QED BY <1>1, <1>2, <2>1, <2>2, JoinedTrains
  <1>5. /\ R \in Seq(Wire) /\ Len(R) = Len(Q) + Len(s)
        /\ \A i \in 1 .. Len(Q) + Len(s) : R[i] = IF i <= Len(Q) THEN Q[i] ELSE s[i - Len(Q)]
    BY <1>2, ConcatProperties DEF s
  <1>6. ASSUME NEW i \in 1 .. Len(R)
        PROVE  \/ i \in 1 .. Len(Q) /\ R[i] = Q[i]
               \/ Whole(R[i]) = m
    <2>1. CASE i <= Len(Q)
      BY <1>2, <1>5, <2>1
    <2>2. CASE i > Len(Q)
      <3>1. i - Len(Q) \in 1 .. Len(s) /\ R[i] = s[i - Len(Q)]
        BY <1>1, <1>2, <1>5, <2>2
      <3> QED BY <1>1, <3>1
    <2> QED BY <1>2, <1>5, <2>1, <2>2
  <1>7. R # <<>> => Before(R[1]) = 0
    <2>1. CASE Q = <<>>
      <3>1. Len(Q) = 0
        BY <2>1, EmptySeq
      <3>2. R[1] = s[1]
        BY <1>1, <1>5, <3>1
      <3> QED BY <1>1, <3>2
    <2>2. CASE Q # <<>>
      <3>1. Len(Q) \in Nat \ {0}
        BY <1>2, <2>2, EmptySeq
      <3>2. R[1] = Q[1]
        BY <1>1, <1>5, <3>1
      <3> QED BY <2>2, <3>2 DEF Lane, Pending
    <2> QED BY <2>1, <2>2
  <1>8. Sent(n, p, m, k + 1)
    BY <1>2 DEF Sent
  <1>9. \A i \in 1 .. Len(W) : Sent(n, p, Whole(W[i]), k + 1) /\ Whole(W[i]).id < k + 1
    BY <1>2, SentLater DEF Lane, Pending
  <1>10. \A i \in 1 .. Len(R) : Sent(n, p, Whole(R[i]), k + 1)
    BY <1>3, <1>6, <1>8
  <1>11. ASSUME NEW i \in 1 .. Len(W), NEW j \in 1 .. Len(R)
         PROVE  Whole(W[i]).id < Whole(R[j]).id
    BY <1>6, <1>9 DEF Lane, Pending
  <1>12. ASSUME NEW i \in 1 .. Len(A), A[i].from = n
         PROVE  /\ Sent(n, p, A[i], k + 1)
                /\ \A j \in 1 .. Len(R) : A[i].id < Whole(R[j]).id
    <2>1. Sent(n, p, A[i], k + 1) /\ A[i].id < k + 1
      BY <1>2, <1>12, SentLater DEF Lane, Came
    <2>2. \A j \in 1 .. Len(Q) : A[i].id < Whole(Q[j]).id
      BY <1>12 DEF Lane, Came
    <2> QED BY <1>6, <2>1, <2>2
  <1>13. Pending(n, p, R, W, r, k + 1)
    BY <1>4, <1>7, <1>9, <1>10, <1>11 DEF Lane, Pending
  <1>14. Came(n, p, R, W, A, k + 1)
    BY <1>12 DEF Lane, Came
  <1> QED BY <1>2, <1>13, <1>14 DEF Lane

LEMMA LaneSend ==
    ASSUME NEW n, NEW p, NEW Q, NEW W, NEW r, NEW A, NEW k, Lane(n, p, Q, W, r, A, k),
           NEW V, V = W \o Q
    PROVE  Lane(n, p, <<>>, V, r, A, k)
  <1>1. /\ k \in Nat /\ Train(Q) /\ Train(W) /\ Q \in Seq(Wire) /\ W \in Seq(Wire)
        /\ Len(Q) \in Nat /\ Len(W) \in Nat
    BY LenProperties DEF Lane, Pending, Train
  <1>2. Train(V)
    BY <1>1, JoinedTrains DEF Lane, Pending
  <1>3. /\ V \in Seq(Wire) /\ Len(V) = Len(W) + Len(Q)
        /\ \A i \in 1 .. Len(W) + Len(Q) : V[i] = IF i <= Len(W) THEN W[i] ELSE Q[i - Len(W)]
    BY <1>1, ConcatProperties
  <1>4. ASSUME NEW i \in 1 .. Len(V)
        PROVE  \/ \E j \in 1 .. Len(W) : V[i] = W[j]
               \/ \E j \in 1 .. Len(Q) : V[i] = Q[j]
    <2>1. CASE i <= Len(W)
      BY <1>1, <1>3, <2>1
    <2>2. CASE i > Len(W)
      <3>1. i - Len(W) \in 1 .. Len(Q) /\ V[i] = Q[i - Len(W)]
        BY <1>1, <1>3, <2>2
      <3> QED BY <3>1
    <2> QED BY <1>1, <1>3, <2>1, <2>2
  <1>5. ASSUME V # <<>> PROVE Expects(r, V[1])
    <2>1. CASE W = <<>>
      <3>1. V = Q
        BY <1>1, <2>1, ConcatEmptySeq
      <3> QED BY <1>5, <3>1 DEF Lane, Pending, Expects
    <2>2. CASE W # <<>>
      <3>1. Len(W) \in Nat \ {0}
        BY <1>1, <2>2, EmptySeq
      <3>2. V[1] = W[1]
        BY <1>1, <1>3, <3>1
      <3> QED BY <2>2, <3>2 DEF Lane, Pending
    <2> QED BY <2>1, <2>2
  <1>6. Len(<<>>) = 0
    BY EmptySeq
  <1>7. \A i \in 1 .. Len(V) : Sent(n, p, Whole(V[i]), k)
    BY <1>4 DEF Lane, Pending
  <1>8. \A i \in 1 .. Len(A) : A[i].from = n => \A j \in 1 .. Len(V) : A[i].id < Whole(V[j]).id
    BY <1>4 DEF Lane, Came
  <1>9. Pending(n, p, <<>>, V, r, k)
    BY <1>2, <1>5, <1>6, <1>7, NoTrain DEF Lane, Pending
  <1>10. Came(n, p, <<>>, V, A, k)
    BY <1>6, <1>8 DEF Lane, Came
  <1> QED BY <1>1, <1>9, <1>10 DEF Lane

(* What is queued or on the wire may be lost, and with the wire the reader. *)
LEMMA LaneLost ==
    ASSUME NEW n, NEW p, NEW Q, NEW W, NEW r, NEW A, NEW k, Lane(n, p, Q, W, r, A, k)
    PROVE  /\ Lane(n, p, <<>>, W, r, A, k)
           /\ \A q : Sound(q) => Lane(n, p, Q, <<>>, q, A, k)
  <1>1. Len(<<>>) = 0
    BY EmptySeq
  <1> QED BY <1>1, NoTrain DEF Lane, Pending, Came

(* Messages of others that arrive.                                         *)
LEMMA LaneOthers ==
    ASSUME NEW n, NEW p, NEW Q, NEW W, NEW r, NEW A, NEW k, Lane(n, p, Q, W, r, A, k),
           NEW B \in Seq(Messages), \A i \in 1 .. Len(B) : B[i].from # n, NEW C, C = A \o B
    PROVE  Lane(n, p, Q, W, r, C, k)
  <1>1. A \in Seq(Messages) /\ Len(A) \in Nat /\ Len(B) \in Nat
    BY LenProperties DEF Lane
  <1>2. /\ C \in Seq(Messages) /\ Len(C) = Len(A) + Len(B)
        /\ \A i \in 1 .. Len(A) + Len(B) : C[i] = IF i <= Len(A) THEN A[i] ELSE B[i - Len(A)]
    BY <1>1, ConcatProperties
  <1>3. ASSUME NEW i \in 1 .. Len(C), C[i].from = n PROVE i \in 1 .. Len(A) /\ C[i] = A[i]
    <2>1. CASE i <= Len(A)
      BY <1>1, <1>2, <2>1
    <2>2. CASE i > Len(A)
      <3>1. i - Len(A) \in 1 .. Len(B) /\ C[i] = B[i - Len(A)]
        BY <1>1, <1>2, <2>2
      <3> QED BY <1>3, <3>1
    <2> QED BY <1>1, <1>2, <2>1, <2>2
  <1>4. Came(n, p, Q, W, C, k)
    BY <1>3 DEF Lane, Came
  <1> QED BY <1>2, <1>4 DEF Lane

(* Messages that arrived may be lost before they are processed.            *)
LEMMA LaneForgotten ==
    ASSUME NEW n, NEW p, NEW Q, NEW W, NEW r, NEW A, NEW k,
           NEW B \in Seq(Messages), NEW C \in Seq(Messages), A = B \o C,
           Lane(n, p, Q, W, r, A, k)
    PROVE  Lane(n, p, Q, W, r, B, k)
  <1>1. Len(B) \in Nat /\ Len(C) \in Nat
    BY LenProperties
  <1>2. /\ Len(A) = Len(B) + Len(C)
        /\ \A i \in 1 .. Len(B) + Len(C) : A[i] = IF i <= Len(B) THEN B[i] ELSE C[i - Len(B)]
    BY ConcatProperties
  <1>3. \A i \in 1 .. Len(B) : i \in 1 .. Len(A) /\ A[i] = B[i]
    BY <1>1, <1>2
  <1>4. Came(n, p, Q, W, B, k)
    BY <1>3 DEF Lane, Came
  <1> QED BY <1>4 DEF Lane

(* What the handler makes of the next wire message.                        *)
Taken(n, p, Q, W, A, k, out) ==
    /\ out.err \in BOOLEAN /\ Sound(out.reader) /\ out.msgs \in Seq(Messages)
    /\ \A i \in 1 .. Len(out.msgs) : out.msgs[i].from = n
    /\ out.err => /\ Whole(Head(W)).len > MAX_BUF_SIZE
                  /\ NbSegments(Whole(Head(W)).len) > MAX_SEGMENTS
    /\ ~out.err => Lane(n, p, Q, Tail(W), out.reader, A \o out.msgs, k)
    /\ out.err => Lane(n, p, Q, <<>>, out.reader, A \o out.msgs, k)

LEMMA LaneHandled ==
    ASSUME NEW n, NEW p, NEW Q, NEW W, NEW r, NEW A, NEW k, Lane(n, p, Q, W, r, A, k), W # <<>>
    PROVE  Taken(n, p, Q, W, A, k, Handled(r, Head(W)))
  <1> DEFINE out == Handled(r, Head(W))
             V == Tail(W)
             C == A \o out.msgs
  <1>0. out = Handled(r, Head(W)) /\ V = Tail(W) /\ C = A \o out.msgs
    OBVIOUS
  <1> SUFFICES Taken(n, p, Q, W, A, k, out)
    OBVIOUS
  <1> HIDE DEF out, V, C
  <1> DEFINE w == Head(W)
             m == Whole(w)
  <1>1. k \in Nat /\ A \in Seq(Messages) /\ Len(A) \in Nat /\ Train(W) /\ Sound(r)
    BY LenProperties DEF Lane, Pending
  <1>2. /\ Train(V) /\ Len(V) \in Nat /\ w = W[1] /\ 1 \in 1 .. Len(W)
        /\ \A i \in 1 .. Len(V) : V[i] = W[i + 1] /\ i + 1 \in 1 .. Len(W)
        /\ V # <<>> => Linked(W[1], V[1]) /\ 1 \in 1 .. Len(V)
        /\ V = <<>> => Completes(W[1])
    BY <1>0, <1>1, TailOfTrain
  <1>3. Piece(w) /\ Expects(r, w) /\ Sent(n, p, m, k)
    BY <1>2 DEF Lane, Pending, Train
  <1>4. m \in Messages /\ m.from = n /\ m.to = p /\ m.id \in Nat
    BY <1>3, MessageType DEF Sent
  <1> HIDE DEF w, m
  <1>5. out = Handled(r, w) /\ m = Whole(w)
    BY <1>0 DEF w, m
  <1>6. /\ out.err \in BOOLEAN /\ Sound(out.reader)
        /\ Completes(w) => out.msgs = <<m>> /\ ~out.err
        /\ ~Completes(w) => out.msgs = <<>>
        /\ out.err => m.len > MAX_BUF_SIZE /\ NbSegments(m.len) > MAX_SEGMENTS
        /\ ~Completes(w) /\ ~out.err => Reading(out.reader, m, UpTo(w))
    BY <1>1, <1>3, <1>5, HandledPiece
  <1>7. /\ \A i \in 1 .. Len(V) : Sent(n, p, Whole(V[i]), k)
        /\ \A i \in 1 .. Len(V), j \in 1 .. Len(Q) : Whole(V[i]).id < Whole(Q[j]).id
        /\ \A i \in 1 .. Len(A) : A[i].from = n => \A j \in 1 .. Len(V) : A[i].id < Whole(V[j]).id
    BY <1>2 DEF Lane, Pending, Came
  <1>8. CASE Completes(w)
    <2>1. out.msgs = <<m>> /\ ~out.err
      BY <1>6, <1>8
    <2>2. out.msgs \in Seq(Messages) /\ Len(out.msgs) = 1 /\ out.msgs[1] = m
      <3>1. <<m>> \in Seq(Messages) /\ Len(<<m>>) = 1 /\ <<m>>[1] = m
        BY <1>4
      <3> QED BY <2>1, <3>1
    <2>3. /\ C \in Seq(Messages) /\ Len(C) = Len(A) + Len(out.msgs)
          /\ \A i \in 1 .. Len(A) + Len(out.msgs) :
                C[i] = IF i <= Len(A) THEN A[i] ELSE out.msgs[i - Len(A)]
      BY <1>0, <1>1, <2>2, ConcatProperties
    <2>4. /\ Len(C) = Len(A) + 1 /\ C[Len(A) + 1] = m /\ \A i \in 1 .. Len(A) : C[i] = A[i]
      <3>1. Len(A) + 1 \in 1 .. Len(A) + Len(out.msgs) /\ ~(Len(A) + 1 <= Len(A))
            /\ (Len(A) + 1) - Len(A) = 1
        BY <1>1, <2>2
      <3>2. C[Len(A) + 1] = m /\ Len(C) = Len(A) + 1
        BY <2>2, <2>3, <3>1
      <3>3. \A i \in 1 .. Len(A) : i \in 1 .. Len(A) + Len(out.msgs) /\ i <= Len(A)
        BY <1>1, <2>2
      <3> QED BY <2>3, <3>2, <3>3
    <2>5. ASSUME V # <<>> PROVE Before(V[1]) = 0 /\ m.id < Whole(V[1]).id /\ Expects(out.reader, V[1])
      BY <1>2, <1>5, <1>8, <2>5 DEF Linked, Expects
    <2>6. \A j \in 1 .. Len(V) : m.id < Whole(V[j]).id
      <3> SUFFICES ASSUME NEW j \in 1 .. Len(V) PROVE m.id < Whole(V[j]).id
        OBVIOUS
      <3>1. V # <<>>
        <4>1. Len(V) # 0
          BY <1>2
        <4> QED BY <4>1, EmptySeq
      <3>2. m.id < Whole(V[1]).id /\ 1 \in 1 .. Len(V)
        BY <1>2, <2>5, <3>1
      <3>3. j = 1 \/ Whole(V[1]).id <= Whole(V[j]).id
        <4>1. j = 1 \/ 1 < j
          BY <1>2
        <4> QED BY <1>2, <3>2, <4>1 DEF Train
      <3>4. Piece(V[1]) /\ Piece(V[j])
        BY <1>2, <3>2 DEF Train
      <3>5. Whole(V[1]).id \in Nat /\ Whole(V[j]).id \in Nat
        BY <3>4, PieceId
      <3> QED BY <1>4, <3>2, <3>3, <3>5
    <2>7. \A j \in 1 .. Len(Q) : m.id < Whole(Q[j]).id
      BY <1>2, <1>5 DEF Lane, Pending
    <2>8. \A i \in 1 .. Len(A) : A[i].from = n => A[i].id < m.id
      BY <1>2, <1>5 DEF Lane, Came
    <2>9. Pending(n, p, Q, V, out.reader, k)
      BY <1>2, <1>6, <1>7, <2>5 DEF Lane, Pending
    <2>10. Came(n, p, Q, V, C, k)
      <3> SUFFICES ASSUME NEW i \in 1 .. Len(C), C[i].from = n
                   PROVE  /\ Sent(n, p, C[i], k)
                          /\ \A j \in 1 .. Len(Q) : C[i].id < Whole(Q[j]).id
                          /\ \A j \in 1 .. Len(V) : C[i].id < Whole(V[j]).id
                          /\ \A j \in 1 .. Len(C) : j < i /\ C[j].from = n => C[j].id < C[i].id
        BY DEF Came
      <3>1. CASE i = Len(A) + 1
        <4>1. C[i] = m /\ \A j \in 1 .. Len(C) : j < i => j \in 1 .. Len(A) /\ C[j] = A[j]
          BY <1>1, <2>4, <3>1
        <4> QED BY <1>3, <2>6, <2>7, <2>8, <4>1
      <3>2. CASE i # Len(A) + 1
        <4>1. i \in 1 .. Len(A) /\ C[i] = A[i]
              /\ \A j \in 1 .. Len(C) : j < i => j \in 1 .. Len(A) /\ C[j] = A[j]
          BY <1>1, <2>4, <3>2
        <4> QED BY <1>7, <4>1 DEF Lane, Came
      <3> QED BY <3>1, <3>2
    <2>11. Lane(n, p, Q, V, out.reader, C, k)
      BY <1>1, <2>3, <2>9, <2>10 DEF Lane
    <2>12. \A i \in 1 .. Len(out.msgs) : out.msgs[i].from = n
      <3>1. \A i \in 1 .. Len(out.msgs) : i = 1
        BY <2>2
      <3> QED BY <1>4, <2>2, <3>1
    <2> QED BY <1>0, <1>6, <2>1, <2>2, <2>11, <2>12 DEF Taken, m, w
  <1>9. CASE ~Completes(w)
    <2>1. out.msgs = <<>> /\ Len(out.msgs) = 0 /\ out.msgs \in Seq(Messages)
      BY <1>6, <1>9, EmptySeq
    <2>2. C = A
      BY <1>0, <1>1, <2>1, ConcatEmptySeq
    <2>3. V # <<>> /\ Whole(V[1]) = m /\ Before(V[1]) = UpTo(w)
      BY <1>2, <1>5, <1>9 DEF Linked
    <2>4. ~out.err => Expects(out.reader, V[1])
      BY <1>6, <1>9, <2>3 DEF Expects
    <2>5. ASSUME ~out.err PROVE Lane(n, p, Q, V, out.reader, C, k)
      <3>1. Pending(n, p, Q, V, out.reader, k)
        BY <1>2, <1>6, <1>7, <2>4, <2>5 DEF Lane, Pending
      <3>2. Came(n, p, Q, V, C, k)
        BY <1>7, <2>2 DEF Lane, Came
      <3> QED BY <1>1, <2>2, <3>1, <3>2 DEF Lane
    <2>6. Lane(n, p, Q, <<>>, out.reader, C, k)
      <3>1. \A q : Sound(q) => Lane(n, p, Q, <<>>, q, A, k)
        BY LaneLost
      <3> QED BY <1>6, <2>2, <3>1
    <2> QED BY <1>0, <1>6, <2>1, <2>5, <2>6 DEF Taken, m, w
  <1> QED BY <1>8, <1>9

-----------------------------------------------------------------------------
(* The inductive invariant: every pair of nodes has its lane.              *)

StateType ==
    /\ msg_events \in [Nodes -> [Nodes -> Seq(Wire)]]
    /\ wire \in [Nodes -> [Nodes -> Seq(Wire)]]
    /\ segment_readers \in [Nodes -> [Nodes -> Reader]]
    /\ msg_received \in [Nodes -> Seq(Messages)]
    /\ processed \in [Nodes -> Seq(Messages)]
    /\ sent \in [Nodes -> Nat]

LaneOf(a, b) ==
    Lane(a, b, msg_events[a][b], wire[a][b], segment_readers[b][a], Arrived(b), sent[a])

LaneInv == StateType /\ (\A a, b \in Nodes : LaneOf(a, b)) /\ OnlyOversizedRefused

LEMMA LaneInit == Init => LaneInv
  <1> SUFFICES ASSUME Init PROVE LaneInv
    OBVIOUS
  <1>1. \A S : <<>> \in Seq(S)
    BY EmptySeq
  <1>2. Len(<<>>) = 0 /\ NewReader \in Reader /\ Sound(NewReader)
    BY EmptySeq, NewIsSound DEF Sound
  <1>3. StateType
    BY <1>1, <1>2 DEF Init, StateType
  <1>4. ASSUME NEW a \in Nodes, NEW b \in Nodes PROVE LaneOf(a, b)
    <2>1. /\ msg_events[a][b] = <<>> /\ wire[a][b] = <<>> /\ segment_readers[b][a] = NewReader
          /\ processed[b] = <<>> /\ msg_received[b] = <<>> /\ sent[a] = 0
      BY DEF Init
    <2>2. <<>> \in Seq(Messages)
      BY EmptySeq
    <2>3. Arrived(b) = <<>>
      BY <2>1, <2>2, ConcatEmptySeq DEF Arrived
    <2>4. Lane(a, b, <<>>, <<>>, NewReader, <<>>, 0)
      BY <1>2, <2>2, NoTrain DEF Lane, Pending, Came
    <2> QED BY <2>1, <2>3, <2>4 DEF LaneOf
  <1>5. OnlyOversizedRefused
    BY DEF Init, OnlyOversizedRefused
  <1> QED BY <1>3, <1>4, <1>5 DEF LaneInv

LEMMA SendMessageLanes ==
    ASSUME LaneInv, NEW n \in Nodes, NEW p \in Nodes, NEW len \in Lens[n], SendMessage(n, p, len)
    PROVE  LaneInv'
  <1> DEFINE m == [from |-> n, to |-> p, id |-> sent[n] + 1, len |-> len]
  <1>1. /\ msg_events' = [msg_events EXCEPT ![n][p] = msg_events[n][p] \o Parts(m)]
        /\ sent' = [sent EXCEPT ![n] = sent[n] + 1]
        /\ UNCHANGED <<msg_received, segment_readers, wire, processed, refused>>
    <2>1. m.len = len
      OBVIOUS
    <2> QED BY <2>1 DEF SendMessage, Parts, net
  <1>2. /\ sent[n] \in Nat /\ msg_events \in [Nodes -> [Nodes -> Seq(Wire)]]
        /\ sent \in [Nodes -> Nat]
    BY DEF LaneInv, StateType
  <1>3. /\ m \in Messages /\ m.from = n /\ m.to = p /\ m.id = sent[n] + 1
    BY <1>2, SizeAssumption DEF Messages
  <1> HIDE DEF m
  <1>4. Parts(m) \in Seq(Wire)
    BY <1>3, PartsTrain DEF Train
  <1> DEFINE R == msg_events[n][p] \o Parts(m)
  <1>5. R \in Seq(Wire)
    BY <1>2, <1>4, ConcatProperties
  <1>6. msg_events' = [msg_events EXCEPT ![n][p] = R]
    BY <1>1
  <1>7. Lane(n, p, R, wire[n][p], segment_readers[p][n], Arrived(p), sent[n] + 1)
    BY <1>3, LaneQueue DEF LaneInv, LaneOf
  <1> HIDE DEF R
  <1>8. /\ msg_events' \in [Nodes -> [Nodes -> Seq(Wire)]]
        /\ \A a, b \in Nodes : msg_events'[a][b] = IF a = n /\ b = p THEN R ELSE msg_events[a][b]
    BY <1>2, <1>5, <1>6
  <1>9. sent' \in [Nodes -> Nat] /\ \A a \in Nodes : sent'[a] = IF a = n THEN sent[n] + 1 ELSE sent[a]
    BY <1>1, <1>2
  <1>10. StateType'
    BY <1>1, <1>8, <1>9 DEF LaneInv, StateType
  <1>11. ASSUME NEW a \in Nodes, NEW b \in Nodes PROVE LaneOf(a, b)'
    <2>1. /\ LaneOf(a, b) /\ Arrived(b)' = Arrived(b) /\ wire'[a][b] = wire[a][b]
          /\ segment_readers'[b][a] = segment_readers[b][a]
      BY <1>1 DEF Arrived, LaneInv
    <2>2. CASE a = n /\ b = p
      <3>1. msg_events'[a][b] = R /\ sent'[a] = sent[n] + 1
        BY <1>8, <1>9, <2>2
      <3> QED BY <1>7, <2>1, <2>2, <3>1 DEF LaneOf
    <2>3. CASE a = n /\ b # p
      <3>1. msg_events'[a][b] = msg_events[a][b] /\ sent'[a] = sent[a] + 1
        BY <1>8, <1>9, <2>3
      <3>2. Lane(a, b, msg_events[a][b], wire[a][b], segment_readers[b][a], Arrived(b), sent[a] + 1)
        BY <2>1, LaneLater DEF LaneOf
      <3> QED BY <2>1, <3>1, <3>2 DEF LaneOf
    <2>4. CASE a # n
      <3>1. msg_events'[a][b] = msg_events[a][b] /\ sent'[a] = sent[a]
        BY <1>8, <1>9, <2>4
      <3> QED BY <2>1, <3>1 DEF LaneOf
    <2> QED BY <2>2, <2>3, <2>4
  <1> QED BY <1>1, <1>10, <1>11 DEF LaneInv, OnlyOversizedRefused

LEMMA ProcessEventsLanes ==
    ASSUME LaneInv, NEW n \in Nodes, ProcessEvents(n)
    PROVE  LaneInv'
  <1> DEFINE up == {p \in Nodes : Pair(n, p) \in connected}
             row == [p \in Nodes |->
                       IF p \in up THEN wire[n][p] \o msg_events[n][p] ELSE wire[n][p]]
             none == [p \in Nodes |-> <<>>]
  <1>1. /\ msg_events' = [msg_events EXCEPT ![n] = none]
        /\ wire' = [wire EXCEPT ![n] = row]
        /\ UNCHANGED <<msg_received, segment_readers, sent, processed, refused>>
    BY DEF ProcessEvents
  <1>2. /\ msg_events \in [Nodes -> [Nodes -> Seq(Wire)]]
        /\ wire \in [Nodes -> [Nodes -> Seq(Wire)]]
    BY DEF LaneInv, StateType
  <1> HIDE DEF up
  <1>3. none \in [Nodes -> Seq(Wire)] /\ \A b \in Nodes : none[b] = <<>>
    BY EmptySeq
  <1>4. row \in [Nodes -> Seq(Wire)]
    <2>1. \A p \in Nodes : wire[n][p] \o msg_events[n][p] \in Seq(Wire) /\ wire[n][p] \in Seq(Wire)
      BY <1>2, ConcatProperties
    <2> QED BY <2>1
  <1>5. \A b \in Nodes : row[b] = wire[n][b] \o msg_events[n][b] \/ row[b] = wire[n][b]
    OBVIOUS
  <1> HIDE DEF row, none
  <1>6. /\ msg_events' \in [Nodes -> [Nodes -> Seq(Wire)]]
        /\ wire' \in [Nodes -> [Nodes -> Seq(Wire)]]
        /\ \A a, b \in Nodes : /\ msg_events'[a][b] = IF a = n THEN none[b] ELSE msg_events[a][b]
                               /\ wire'[a][b] = IF a = n THEN row[b] ELSE wire[a][b]
    BY <1>1, <1>2, <1>3, <1>4
  <1>7. StateType'
    BY <1>1, <1>6 DEF LaneInv, StateType
  <1>8. ASSUME NEW a \in Nodes, NEW b \in Nodes PROVE LaneOf(a, b)'
    <2>1. /\ LaneOf(a, b) /\ Arrived(b)' = Arrived(b) /\ sent'[a] = sent[a]
          /\ segment_readers'[b][a] = segment_readers[b][a]
      BY <1>1 DEF Arrived, LaneInv
    <2>2. CASE a = n /\ row[b] = wire[n][b] \o msg_events[n][b]
      <3>1. msg_events'[a][b] = <<>> /\ wire'[a][b] = wire[a][b] \o msg_events[a][b]
        BY <1>3, <1>6, <2>2
      <3>2. Lane(a, b, <<>>, wire[a][b] \o msg_events[a][b], segment_readers[b][a], Arrived(b), sent[a])
        BY <2>1, LaneSend DEF LaneOf
      <3> QED BY <2>1, <3>1, <3>2 DEF LaneOf
    <2>3. CASE a = n /\ row[b] = wire[n][b]
      <3>1. msg_events'[a][b] = <<>> /\ wire'[a][b] = wire[a][b]
        BY <1>3, <1>6, <2>3
      <3>2. Lane(a, b, <<>>, wire[a][b], segment_readers[b][a], Arrived(b), sent[a])
        BY <2>1, LaneLost DEF LaneOf
      <3> QED BY <2>1, <3>1, <3>2 DEF LaneOf
    <2>4. CASE a # n
      <3>1. msg_events'[a][b] = msg_events[a][b] /\ wire'[a][b] = wire[a][b]
        BY <1>6, <2>4
      <3> QED BY <2>1, <3>1 DEF LaneOf
    <2> QED BY <1>5, <2>2, <2>3, <2>4
  <1> QED BY <1>1, <1>7, <1>8 DEF LaneInv, OnlyOversizedRefused

(* The two wires of a connection that ends, and no others.                 *)
LEMMA DropWires ==
    ASSUME StateType, NEW n \in Nodes, NEW p \in Nodes, Drop(n, p)
    PROVE  /\ wire' \in [Nodes -> [Nodes -> Seq(Wire)]]
           /\ wire'[n][p] = <<>> /\ wire'[p][n] = <<>>
           /\ \A a, b \in Nodes : wire'[a][b] = <<>> \/ wire'[a][b] = wire[a][b]
  <1>1. wire \in [Nodes -> [Nodes -> Seq(Wire)]] /\ <<>> \in Seq(Wire)
    BY EmptySeq DEF StateType
  <1> DEFINE v == [wire EXCEPT ![n][p] = <<>>]
  <1>2. wire' = [v EXCEPT ![p][n] = <<>>]
    BY DEF Drop
  <1>3. /\ v \in [Nodes -> [Nodes -> Seq(Wire)]]
        /\ \A a, b \in Nodes : v[a][b] = IF a = n /\ b = p THEN <<>> ELSE wire[a][b]
    BY <1>1
  <1> HIDE DEF v
  <1>4. /\ wire' \in [Nodes -> [Nodes -> Seq(Wire)]]
        /\ \A a, b \in Nodes : wire'[a][b] = IF a = p /\ b = n THEN <<>> ELSE v[a][b]
    BY <1>1, <1>2, <1>3
  <1> QED BY <1>3, <1>4

LEMMA HandleLanes ==
    ASSUME LaneInv, NEW n \in Nodes, NEW p \in Nodes, HandleCustomMessage(n, p)
    PROVE  LaneInv'
  <1> DEFINE out == Handled(segment_readers[n][p], Head(wire[p][n]))
             W == wire[p][n]
             rec == msg_received[n] \o out.msgs
  <1>1. /\ W # <<>>
        /\ segment_readers' = [segment_readers EXCEPT ![n][p] = out.reader]
        /\ msg_received' = [msg_received EXCEPT ![n] = rec]
        /\ out.err => Drop(n, p) /\ refused' = refused \cup {Whole(Head(W))}
        /\ ~out.err => wire' = [wire EXCEPT ![p][n] = Tail(W)] /\ refused' = refused
        /\ UNCHANGED <<msg_events, sent, processed>>
    BY DEF HandleCustomMessage, Entry
  <1>2. StateType
    BY DEF LaneInv
  <1>3. /\ W \in Seq(Wire) /\ processed[n] \in Seq(Messages) /\ msg_received[n] \in Seq(Messages)
    BY <1>2 DEF StateType
  <1>4. Lane(p, n, msg_events[p][n], W, segment_readers[n][p], Arrived(n), sent[p])
    BY DEF LaneInv, LaneOf
  <1> DEFINE C == Arrived(n) \o out.msgs
             V == Tail(W)
  <1>5. out = Handled(segment_readers[n][p], Head(W)) /\ C = Arrived(n) \o out.msgs
        /\ V = Tail(W)
    OBVIOUS
  <1> HIDE DEF out, W, C, V
  <1>6. /\ out.err \in BOOLEAN /\ Sound(out.reader) /\ out.msgs \in Seq(Messages)
        /\ \A i \in 1 .. Len(out.msgs) : out.msgs[i].from = p
        /\ out.err => /\ Whole(Head(W)).len > MAX_BUF_SIZE
                      /\ NbSegments(Whole(Head(W)).len) > MAX_SEGMENTS
        /\ ~out.err => Lane(p, n, msg_events[p][n], V, out.reader, C, sent[p])
        /\ out.err => Lane(p, n, msg_events[p][n], <<>>, out.reader, C, sent[p])
    <2>1. Taken(p, n, msg_events[p][n], W, Arrived(n), sent[p], out)
      BY <1>1, <1>4, <1>5, LaneHandled
    <2> QED BY <1>5, <2>1 DEF Taken
  <1>7. rec \in Seq(Messages) /\ processed[n] \o rec = C /\ V \in Seq(Wire)
    <2>1. rec \in Seq(Messages)
      BY <1>3, <1>6, ConcatProperties
    <2>2. processed[n] \o rec = C
      <3> DEFINE x == processed[n]
                 y == msg_received[n]
                 z == out.msgs
      <3>1. x \in Seq(Messages) /\ y \in Seq(Messages) /\ z \in Seq(Messages)
        BY <1>3, <1>6
      <3> HIDE DEF x, y, z
      <3>2. (x \o y) \o z = x \o (y \o z)
        BY <3>1, ConcatAssociative
      <3> QED BY <1>5, <3>2 DEF Arrived, x, y, z
    <2>3. V \in Seq(Wire)
      BY <1>1, <1>3, <1>5, HeadTailProperties
    <2> QED BY <2>1, <2>2, <2>3
  <1> HIDE DEF rec
  <1>8. /\ segment_readers' \in [Nodes -> [Nodes -> Reader]]
        /\ \A a, b \in Nodes : segment_readers'[a][b] =
              IF a = n /\ b = p THEN out.reader ELSE segment_readers[a][b]
    BY <1>1, <1>2, <1>6 DEF StateType, Sound
  <1>9. /\ msg_received' \in [Nodes -> Seq(Messages)]
        /\ \A b \in Nodes : msg_received'[b] = IF b = n THEN rec ELSE msg_received[b]
    BY <1>1, <1>2, <1>7 DEF StateType
  <1>10. /\ wire' \in [Nodes -> [Nodes -> Seq(Wire)]]
         /\ \A a, b \in Nodes : ~(a = p /\ b = n) =>
               wire'[a][b] = <<>> \/ wire'[a][b] = wire[a][b]
         /\ wire'[p][n] = IF out.err THEN <<>> ELSE V
    <2>1. CASE out.err
      BY <1>1, <1>2, <2>1, DropWires
    <2>2. CASE ~out.err
      <3>1. wire' = [wire EXCEPT ![p][n] = V] /\ wire \in [Nodes -> [Nodes -> Seq(Wire)]]
        BY <1>1, <1>2, <1>5, <2>2 DEF StateType
      <3>2. /\ wire' \in [Nodes -> [Nodes -> Seq(Wire)]]
            /\ \A a, b \in Nodes : wire'[a][b] = IF a = p /\ b = n THEN V ELSE wire[a][b]
        BY <1>7, <3>1
      <3> QED BY <2>2, <3>2
    <2> QED BY <2>1, <2>2
  <1>11. StateType'
    BY <1>1, <1>2, <1>8, <1>9, <1>10 DEF StateType
  <1>12. ASSUME NEW b \in Nodes PROVE Arrived(b)' = IF b = n THEN C ELSE Arrived(b)
    BY <1>1, <1>7, <1>9 DEF Arrived
  <1>13. ASSUME NEW a \in Nodes, NEW b \in Nodes PROVE LaneOf(a, b)'
    <2>1. LaneOf(a, b) /\ msg_events'[a][b] = msg_events[a][b] /\ sent'[a] = sent[a]
      BY <1>1 DEF LaneInv
    <2>2. CASE a = p /\ b = n
      <3>1. segment_readers'[b][a] = out.reader /\ Arrived(b)' = C
            /\ wire'[a][b] = IF out.err THEN <<>> ELSE V
        BY <1>8, <1>10, <1>12, <2>2
      <3>2. CASE out.err
        <4>1. wire'[a][b] = <<>>
          BY <3>1, <3>2
        <4> QED BY <1>6, <2>1, <2>2, <3>1, <3>2, <4>1 DEF LaneOf
      <3>3. CASE ~out.err
        <4>1. wire'[a][b] = V
          BY <3>1, <3>3
        <4> QED BY <1>6, <2>1, <2>2, <3>1, <3>3, <4>1 DEF LaneOf
      <3> QED BY <3>2, <3>3
    <2>3. CASE ~(a = p /\ b = n)
      <3>1. segment_readers'[b][a] = segment_readers[b][a]
            /\ (wire'[a][b] = <<>> \/ wire'[a][b] = wire[a][b])
        BY <1>8, <1>10, <2>3
      <3>2. Lane(a, b, msg_events[a][b], wire[a][b], segment_readers[b][a], Arrived(b)', sent[a])
        <4>1. CASE b # n
          <5>1. Arrived(b)' = Arrived(b)
            BY <1>12, <4>1
          <5> QED BY <2>1, <5>1 DEF LaneOf
        <4>2. CASE b = n
          <5>1. Arrived(b)' = C /\ C = Arrived(b) \o out.msgs /\ a # p
            BY <1>5, <1>12, <2>3, <4>2
          <5>2. \A i \in 1 .. Len(out.msgs) : out.msgs[i].from # a
            BY <1>6, <5>1
          <5>3. Lane(a, b, msg_events[a][b], wire[a][b], segment_readers[b][a], Arrived(b), sent[a])
            BY <2>1 DEF LaneOf
          <5>4. Lane(a, b, msg_events[a][b], wire[a][b], segment_readers[b][a], C, sent[a])
            BY <1>6, <5>1, <5>2, <5>3, LaneOthers
          <5> QED BY <5>1, <5>4
        <4> QED BY <4>1, <4>2
      <3>3. Sound(segment_readers[b][a])
        BY <2>1 DEF LaneOf, Lane, Pending
      <3>4. Lane(a, b, msg_events[a][b], <<>>, segment_readers[b][a], Arrived(b)', sent[a])
        <4>1. \A q : Sound(q) => Lane(a, b, msg_events[a][b], <<>>, q, Arrived(b)', sent[a])
          BY <3>2, LaneLost
        <4> QED BY <3>3, <4>1
      <3> QED BY <2>1, <3>1, <3>2, <3>4 DEF LaneOf
    <2> QED BY <2>2, <2>3
  <1>14. OnlyOversizedRefused'
    <2>1. OnlyOversizedRefused
      BY DEF LaneInv
    <2>2. CASE out.err
      BY <1>1, <1>6, <2>1, <2>2 DEF OnlyOversizedRefused
    <2>3. CASE ~out.err
      BY <1>1, <2>1, <2>3 DEF OnlyOversizedRefused
    <2> QED BY <2>2, <2>3
  <1> QED BY <1>11, <1>13, <1>14 DEF LaneInv

LEMMA ProcessedLanes ==
    ASSUME LaneInv, NEW n \in Nodes, GetAndClearReceivedMessages(n)
    PROVE  LaneInv'
  <1> DEFINE all == processed[n] \o msg_received[n]
  <1>1. /\ processed' = [processed EXCEPT ![n] = all]
        /\ msg_received' = [msg_received EXCEPT ![n] = <<>>]
        /\ UNCHANGED <<msg_events, segment_readers, wire, sent, refused>>
    BY DEF GetAndClearReceivedMessages, net
  <1>2. /\ processed \in [Nodes -> Seq(Messages)] /\ msg_received \in [Nodes -> Seq(Messages)]
        /\ <<>> \in Seq(Messages)
    BY EmptySeq DEF LaneInv, StateType
  <1>3. all \in Seq(Messages) /\ all \o <<>> = all /\ all = Arrived(n)
    BY <1>2, ConcatProperties, ConcatEmptySeq DEF Arrived
  <1> HIDE DEF all
  <1>4. /\ processed' \in [Nodes -> Seq(Messages)] /\ msg_received' \in [Nodes -> Seq(Messages)]
        /\ \A b \in Nodes : /\ processed'[b] = IF b = n THEN all ELSE processed[b]
                            /\ msg_received'[b] = IF b = n THEN <<>> ELSE msg_received[b]
    BY <1>1, <1>2, <1>3
  <1>5. ASSUME NEW b \in Nodes PROVE Arrived(b)' = Arrived(b)
    BY <1>3, <1>4 DEF Arrived
  <1>6. StateType'
    BY <1>1, <1>4 DEF LaneInv, StateType
  <1>7. \A a, b \in Nodes : LaneOf(a, b)'
    BY <1>1, <1>5 DEF LaneInv, LaneOf
  <1> QED BY <1>1, <1>6, <1>7 DEF LaneInv, OnlyOversizedRefused

LEMMA DisconnectLanes ==
    ASSUME LaneInv, NEW n \in Nodes, NEW p \in Nodes, Disconnect(n, p)
    PROVE  LaneInv'
  <1>1. /\ Drop(n, p)
        /\ UNCHANGED <<msg_events, msg_received, segment_readers, sent, processed, refused>>
    BY DEF Disconnect
  <1>2. /\ wire' \in [Nodes -> [Nodes -> Seq(Wire)]]
        /\ \A a, b \in Nodes : wire'[a][b] = <<>> \/ wire'[a][b] = wire[a][b]
    BY <1>1, DropWires DEF LaneInv
  <1>3. StateType'
    BY <1>1, <1>2 DEF LaneInv, StateType
  <1>4. ASSUME NEW a \in Nodes, NEW b \in Nodes PROVE LaneOf(a, b)'
    <2>1. /\ LaneOf(a, b) /\ Arrived(b)' = Arrived(b) /\ sent'[a] = sent[a]
          /\ segment_readers'[b][a] = segment_readers[b][a]
          /\ msg_events'[a][b] = msg_events[a][b]
      BY <1>1 DEF Arrived, LaneInv
    <2>2. Sound(segment_readers[b][a])
      BY <2>1 DEF LaneOf, Lane, Pending
    <2>3. \A q : Sound(q) => Lane(a, b, msg_events[a][b], <<>>, q, Arrived(b), sent[a])
      BY <2>1, LaneLost DEF LaneOf
    <2>4. CASE wire'[a][b] = <<>>
      BY <2>1, <2>2, <2>3, <2>4 DEF LaneOf
    <2>5. CASE wire'[a][b] = wire[a][b]
      BY <2>1, <2>5 DEF LaneOf
    <2> QED BY <1>2, <2>4, <2>5
  <1> QED BY <1>1, <1>3, <1>4 DEF LaneInv, OnlyOversizedRefused

LEMMA RestartLanes ==
    ASSUME LaneInv, NEW n \in Nodes, Restart(n)
    PROVE  LaneInv'
  <1> DEFINE none == [p \in Nodes |-> <<>>]
             new == [p \in Nodes |-> NewReader]
  <1>1. /\ msg_events' = [msg_events EXCEPT ![n] = none]
        /\ msg_received' = [msg_received EXCEPT ![n] = <<>>]
        /\ segment_readers' = [segment_readers EXCEPT ![n] = new]
        /\ wire' = [p \in Nodes |-> [q \in Nodes |-> IF n \in {p, q} THEN <<>> ELSE wire[p][q]]]
        /\ UNCHANGED <<sent, processed, refused>>
    BY DEF Restart
  <1>2. StateType
    BY DEF LaneInv
  <1>3. /\ none \in [Nodes -> Seq(Wire)] /\ \A b \in Nodes : none[b] = <<>>
    BY EmptySeq
  <1>4. new \in [Nodes -> Reader] /\ \A b \in Nodes : new[b] = NewReader
    BY NewIsSound DEF Sound
  <1>5. <<>> \in Seq(Messages) /\ <<>> \in Seq(Wire)
    BY EmptySeq
  <1> HIDE DEF none, new
  <1>6. /\ msg_events' \in [Nodes -> [Nodes -> Seq(Wire)]]
        /\ \A a, b \in Nodes : msg_events'[a][b] = IF a = n THEN <<>> ELSE msg_events[a][b]
    BY <1>1, <1>2, <1>3 DEF StateType
  <1>7. /\ segment_readers' \in [Nodes -> [Nodes -> Reader]]
        /\ \A a, b \in Nodes :
              segment_readers'[b][a] = IF b = n THEN NewReader ELSE segment_readers[b][a]
    BY <1>1, <1>2, <1>4 DEF StateType
  <1>8. /\ msg_received' \in [Nodes -> Seq(Messages)]
        /\ \A b \in Nodes : msg_received'[b] = IF b = n THEN <<>> ELSE msg_received[b]
    BY <1>1, <1>2, <1>5 DEF StateType
  <1>9. /\ wire' \in [Nodes -> [Nodes -> Seq(Wire)]]
        /\ \A a, b \in Nodes : wire'[a][b] = IF a = n \/ b = n THEN <<>> ELSE wire[a][b]
    BY <1>1, <1>2, <1>5 DEF StateType
  <1>10. StateType'
    BY <1>1, <1>2, <1>6, <1>7, <1>8, <1>9 DEF StateType
  <1>11. ASSUME NEW a \in Nodes, NEW b \in Nodes PROVE LaneOf(a, b)'
    <2>1. LaneOf(a, b) /\ sent'[a] = sent[a]
      BY <1>1 DEF LaneInv
    <2>2. Sound(segment_readers[b][a])
      BY <2>1 DEF LaneOf, Lane, Pending
    <2>3. CASE b = n
      <3>1. processed[b] \in Seq(Messages) /\ msg_received[b] \in Seq(Messages)
        BY <1>2 DEF StateType
      <3>2. Arrived(b)' = processed[b]
        <4>1. Arrived(b)' = processed[b] \o <<>>
          BY <1>1, <1>8, <2>3 DEF Arrived
        <4> QED BY <3>1, <4>1, ConcatEmptySeq
      <3>3. Lane(a, b, msg_events[a][b], wire[a][b], segment_readers[b][a], processed[b], sent[a])
        BY <2>1, <3>1, LaneForgotten DEF LaneOf, Arrived
      <3>4. \A q : Sound(q) => Lane(a, b, msg_events[a][b], <<>>, q, processed[b], sent[a])
        BY <3>3, LaneLost
      <3>5. Lane(a, b, msg_events[a][b], <<>>, NewReader, processed[b], sent[a])
        BY <3>4, NewIsSound
      <3>6. Lane(a, b, <<>>, <<>>, NewReader, processed[b], sent[a])
        BY <3>5, LaneLost
      <3>7. wire'[a][b] = <<>> /\ segment_readers'[b][a] = NewReader
            /\ (msg_events'[a][b] = <<>> \/ msg_events'[a][b] = msg_events[a][b])
        BY <1>6, <1>7, <1>9, <2>3
      <3> QED BY <2>1, <3>2, <3>5, <3>6, <3>7 DEF LaneOf
    <2>4. CASE b # n /\ a = n
      <3>1. /\ wire'[a][b] = <<>> /\ segment_readers'[b][a] = segment_readers[b][a]
            /\ msg_events'[a][b] = <<>> /\ Arrived(b)' = Arrived(b)
        BY <1>1, <1>6, <1>7, <1>8, <1>9, <2>4 DEF Arrived
      <3>2. Lane(a, b, <<>>, wire[a][b], segment_readers[b][a], Arrived(b), sent[a])
        BY <2>1, LaneLost DEF LaneOf
      <3>3. \A q : Sound(q) => Lane(a, b, <<>>, <<>>, q, Arrived(b), sent[a])
        BY <3>2, LaneLost
      <3> QED BY <2>1, <2>2, <3>1, <3>3 DEF LaneOf
    <2>5. CASE b # n /\ a # n
      <3>1. /\ wire'[a][b] = wire[a][b] /\ segment_readers'[b][a] = segment_readers[b][a]
            /\ msg_events'[a][b] = msg_events[a][b] /\ Arrived(b)' = Arrived(b)
        BY <1>1, <1>6, <1>7, <1>8, <1>9, <2>5 DEF Arrived
      <3> QED BY <2>1, <3>1 DEF LaneOf
    <2> QED BY <2>3, <2>4, <2>5
  <1> QED BY <1>1, <1>10, <1>11 DEF LaneInv, OnlyOversizedRefused

LEMMA LaneStutter ==
    ASSUME LaneInv,
           UNCHANGED <<msg_events, msg_received, segment_readers, wire, sent, processed, refused>>
    PROVE  LaneInv'
  <1>1. \A b \in Nodes : Arrived(b)' = Arrived(b)
    BY DEF Arrived
  <1>2. \A a, b \in Nodes : LaneOf(a, b)'
    BY <1>1 DEF LaneInv, LaneOf
  <1> QED BY <1>2 DEF LaneInv, StateType, OnlyOversizedRefused

LEMMA LaneNext == LaneInv /\ [Next]_vars => LaneInv'
  <1> SUFFICES ASSUME LaneInv, [Next]_vars PROVE LaneInv'
    OBVIOUS
  <1>1. CASE UNCHANGED vars
    BY <1>1, LaneStutter DEF vars, net, ghosts
  <1>2. ASSUME NEW n \in Nodes, NEW p \in Nodes, NEW len \in Lens[n], SendMessage(n, p, len)
        PROVE  LaneInv'
    BY <1>2, SendMessageLanes
  <1>3. ASSUME NEW n \in Nodes, ProcessEvents(n) PROVE LaneInv'
    BY <1>3, ProcessEventsLanes
  <1>4. ASSUME NEW n \in Nodes, GetAndClearReceivedMessages(n) PROVE LaneInv'
    BY <1>4, ProcessedLanes
  <1>5. ASSUME NEW n \in Nodes, NEW p \in Nodes, HandleCustomMessage(n, p) PROVE LaneInv'
    BY <1>5, HandleLanes
  <1>6. ASSUME NEW n \in Nodes, NEW p \in Nodes, Disconnect(n, p) PROVE LaneInv'
    BY <1>6, DisconnectLanes
  <1>7. ASSUME NEW n \in Nodes, NEW p \in Nodes, Connect(n, p) PROVE LaneInv'
    BY <1>7, LaneStutter DEF Connect, ghosts
  <1>8. ASSUME NEW n \in Nodes, Stop(n) \/ Panic(n) PROVE LaneInv'
    BY <1>8, RestartLanes DEF Stop, Panic
  <1> QED
    BY <1>1, <1>2, <1>3, <1>4, <1>5, <1>6, <1>7, <1>8 DEF Next, Receive

LEMMA LanesKept == Spec => []LaneInv
  BY LaneInit, LaneNext, PTL DEF Spec

LEMMA NotTorn ==
    ASSUME NEW m \in Messages
    PROVE  m # Torn
  <1>1. "from" \in DOMAIN m /\ "from" \notin DOMAIN Torn
    BY DEF Messages, Torn
  <1> QED BY <1>1

(* Whatever peers connect, break off, restart, and send in any lengths, a  *)
(* node gets the messages of each peer whole, as they were sent to it,     *)
(* each at most once and in the order in which send_message was called.    *)
THEOREM MessagesArrive == Spec => []DeliveredAsSent
  <1>1. LaneInv => DeliveredAsSent
    <2> SUFFICES ASSUME LaneInv, NEW n \in Nodes, NEW i \in DOMAIN Arrived(n)
                 PROVE  /\ Arrived(n)[i] # Torn
                        /\ Arrived(n)[i].to = n /\ Arrived(n)[i].id =< sent[Arrived(n)[i].from]
                        /\ \A j \in 1 .. i - 1 :
                              Arrived(n)[j].from = Arrived(n)[i].from =>
                                  Arrived(n)[j].id < Arrived(n)[i].id
      BY DEF DeliveredAsSent
    <2> DEFINE A == Arrived(n)
               m == A[i]
    <2>1. A \in Seq(Messages)
      BY DEF LaneInv, LaneOf, Lane
    <2> HIDE DEF A
    <2>2. i \in 1 .. Len(A) /\ Len(A) \in Nat
      BY <2>1, LenProperties DEF A
    <2>3. m \in Messages
      BY <2>1, <2>2, ElementOfSeq
    <2>4. m.from \in Nodes
      BY <2>3, MessageType
    <2>5. Came(m.from, n, msg_events[m.from][n], wire[m.from][n], A, sent[m.from])
      BY <2>4 DEF LaneInv, LaneOf, Lane, A
    <2>6. /\ Sent(m.from, n, m, sent[m.from])
          /\ \A j \in 1 .. Len(A) : j < i /\ A[j].from = m.from => A[j].id < m.id
      BY <2>2, <2>5 DEF Came
    <2>7. \A j \in 1 .. i - 1 : j \in 1 .. Len(A) /\ j < i
      BY <2>2
    <2>8. m # Torn
      BY <2>3, NotTorn
    <2> QED BY <2>6, <2>7, <2>8 DEF Sent, A
  <1> QED BY <1>1, LanesKept, PTL

(* A handler disconnects a peer only for a message of more segments than a *)
(* reader takes: what a reader has kept of a message whose connection      *)
(* broke makes it refuse nothing.                                          *)
THEOREM RefusalsJustified == Spec => []OnlyOversizedRefused
  <1>1. LaneInv => OnlyOversizedRefused
    BY DEF LaneInv
  <1> QED BY <1>1, LanesKept, PTL
=============================================================================
