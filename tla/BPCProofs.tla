------------------------------ MODULE BPCProofs ------------------------------
(***************************************************************************)
(* TypeOK, RoundTrip and SizeIsRight of BPC for every line, whatever its   *)
(* width and depth.                                                        *)
(*                                                                         *)
(* The loops of compress() and decompress() agree because both keep the    *)
(* plane before the present one in prev_plane, and because the k-th raw    *)
(* plane is stored by one and read by the other at the k-th tag that says  *)
(* UNCOMPRESSED.  The invariant names, by a function idx, how many raw     *)
(* planes precede each plane.  What the words are in the first place is    *)
(* decided by how the caller packed the line into chunks.                  *)
(***************************************************************************)
EXTENDS BPC, TLAPS

Plane(b)       == extractPlane(words, b)
PlaneBefore(b) == IF b = 0 THEN {} ELSE Plane(b - 1)
IsRaw(b)       == tags[b + 1] = "UNCOMPRESSED"

\* The compressed line so far, with the number of raw planes before each plane.
Stored(idx) ==
    /\ idx \in [0 .. Len(tags) -> 0 .. Len(rawPlanes)]
    /\ idx[0] = 0 /\ idx[Len(tags)] = Len(rawPlanes)
    /\ \A b \in 0 .. Len(tags) - 1 :
          /\ tags[b + 1] = Encode(Plane(b), PlaneBefore(b))
          /\ idx[b + 1] = idx[b] + IF IsRaw(b) THEN 1 ELSE 0
          /\ IsRaw(b) => rawPlanes[idx[b] + 1] = Plane(b)

Copied ==
    /\ phase # "panic"
    /\ phase = "copy" => bit = 0 /\ prev_plane = {} /\ tags = <<>> /\ rawPlanes = <<>>
    /\ phase # "copy" => words = Preserved

Compressing ==
    phase \in {"copy", "compress", "pad"} =>
        /\ planes = <<>> /\ raw_idx = 0
        /\ phase = "compress" => bit = Len(tags) /\ prev_plane = PlaneBefore(bit)

Decompressing ==
    phase \in {"decompress", "done"} =>
        /\ Len(planes) = bit /\ \A b \in 0 .. bit - 1 : planes[b + 1] = Plane(b)
        /\ phase = "decompress" => prev_plane = PlaneBefore(bit)

InStep ==
    \E idx \in [0 .. Len(tags) -> 0 .. Len(rawPlanes)] :
        Stored(idx) /\ (phase = "decompress" => raw_idx = idx[bit])

IInv ==
    /\ TypeOK
    /\ phase \notin {"copy", "compress"} => Len(tags) = BITS_PER_WORD
    /\ Copied /\ Compressing /\ Decompressing /\ InStep
    /\ RoundTrip

\* A plane comes back from its encoding, given the plane before it.
LEMMA DecodeEncode ==
    ASSUME NEW plane \in SUBSET Words, NEW prev \in SUBSET Words, NEW raw,
           Encode(plane, prev) = "UNCOMPRESSED" => raw = plane
    PROVE  Decode(Encode(plane, prev), prev, raw) = plane
BY DEF Encode, Decode

LEMMA EncodeType ==
    ASSUME NEW plane, NEW prev
    PROVE  Encode(plane, prev) \in PlaneEncoding
BY DEF Encode, PlaneEncoding

LEMMA PlaneType ==
    ASSUME NEW ws, NEW b
    PROVE  extractPlane(ws, b) \in SUBSET Words
BY DEF extractPlane

\* reconstructWords() is the inverse of taking the words apart.
LEMMA Reconstruct ==
    ASSUME words \in Line, NEW ps,
           \A b \in 0 .. BITS_PER_WORD - 1 : ps[b + 1] = Plane(b)
    PROVE  reconstructWords(ps) = words
<1>1. \A w \in Words : {b \in Bits : w \in ps[b + 1]} = words[w]
  <2> SUFFICES ASSUME NEW w \in Words
               PROVE  {b \in Bits : w \in ps[b + 1]} = words[w]
    OBVIOUS
  <2>1. \A b \in Bits : w \in ps[b + 1] <=> b \in words[w]
    BY DEF Bits, Plane, extractPlane
  <2>2. words[w] \subseteq Bits
    BY DEF Line
  <2> QED BY <2>1, <2>2
<1> QED BY <1>1 DEF reconstructWords, Line

(***************************************************************************)
(* The chunks.  Both callers bring enough of them; the copy takes the      *)
(* glue's all, and of gem5's the first half.                               *)
(***************************************************************************)
LEMMA PairItems == ASSUME NEW x, NEW y PROVE <<x, y>>[1] = x /\ <<x, y>>[2] = y
OBVIOUS

LEMMA Halves ==
    ASSUME NEW n \in Nat, n % 2 = 0, NEW w \in 0 .. n - 1
    PROVE  /\ w \div 2 \in Nat /\ w % 2 \in 0 .. 1 /\ w = 2 * (w \div 2) + (w % 2)
           /\ w \div 2 < n /\ (w \div 2) + 1 \in 1 .. n \div 2
OBVIOUS

LEMMA BlockSizes ==
    /\ blkSize \div ChunkBytes \in Nat /\ (blkSize \div ChunkBytes) * ChunkBytes = blkSize
    /\ blkSize \div ChunkBytes = WORDS_PER_LINE \div 2
    /\ blkSize \div WordBytes = WORDS_PER_LINE
    /\ WORDS_PER_LINE \in Nat /\ WORDS_PER_LINE % 2 = 0
BY BPCAssumption DEF ChunkBytes, WordBytes

LEMMA EnoughChunks == ~(Len(chunks) * ChunkBytes < blkSize)
<1>1. CASE caller = "glue"
  <2>1. Len(GlueChunks(line)) = blkSize \div ChunkBytes
    BY BlockSizes DEF GlueChunks
  <2> QED BY <1>1, <2>1, BlockSizes, BPCAssumption DEF chunks, ChunkBytes
<1>2. CASE caller # "glue"
  <2>1. Len(toChunks(line)) = blkSize \div WordBytes
    BY BlockSizes DEF toChunks
  <2> QED BY <1>2, <2>1, BlockSizes, BPCAssumption DEF chunks, ChunkBytes, WordBytes
<1> QED BY <1>1, <1>2

LEMMA CopyPreserves ==
    ASSUME line \in Line
    PROVE  memcpy(chunks) = Preserved /\ Preserved \in Line
<1>0. ASSUME NEW w \in Words
      PROVE  /\ w \div 2 \in Nat /\ w % 2 \in 0 .. 1 /\ w = 2 * (w \div 2) + (w % 2)
             /\ w \div 2 \in Words
             /\ (w \div 2) + 1 \in 1 .. blkSize \div ChunkBytes
             /\ (w \div 2) + 1 \in 1 .. blkSize \div WordBytes
  <2>1. w \in 0 .. WORDS_PER_LINE - 1
    BY <1>0 DEF Words
  <2>2. /\ w \div 2 \in Nat /\ w % 2 \in 0 .. 1 /\ w = 2 * (w \div 2) + (w % 2)
        /\ w \div 2 < WORDS_PER_LINE /\ (w \div 2) + 1 \in 1 .. WORDS_PER_LINE \div 2
    BY <2>1, BlockSizes, Halves
  <2> QED BY <2>2, BlockSizes DEF Words
<1>1. CASE caller = "glue"
  <2>1. ASSUME NEW w \in Words PROVE chunks[(w \div 2) + 1][(w % 2) + 1] = line[w]
    <3>1. chunks[(w \div 2) + 1] = <<line[2 * (w \div 2)], line[2 * (w \div 2) + 1]>>
      BY <1>0, <1>1 DEF chunks, GlueChunks
    <3>2. CASE w % 2 = 0
      BY <1>0, <3>1, <3>2
    <3>3. CASE w % 2 = 1
      <4>1. (w % 2) + 1 = 2
        BY <3>3
      <4>2. w = 2 * (w \div 2) + 1
        BY <1>0, <3>3
      <4>3. chunks[(w \div 2) + 1][2] = line[2 * (w \div 2) + 1]
        BY <3>1, PairItems
      <4> QED BY <4>1, <4>2, <4>3, Zenon
    <3> QED BY <1>0, <3>2, <3>3
  <2>2. memcpy(chunks) = [w \in Words |-> line[w]]
    BY <2>1 DEF memcpy
  <2> QED BY <1>1, <2>2 DEF Preserved, Line
<1>2. CASE caller # "glue"
  <2>1. ASSUME NEW w \in Words
        PROVE  chunks[(w \div 2) + 1][(w % 2) + 1]
                  = IF w % 2 = 0 THEN line[w \div 2] ELSE {}
    <3>1. chunks[(w \div 2) + 1] = <<line[w \div 2], {}>>
      BY <1>0, <1>2 DEF chunks, toChunks
    <3>2. CASE w % 2 = 0
      BY <3>1, <3>2
    <3>3. CASE w % 2 = 1
      <4>1. (w % 2) + 1 = 2 /\ w % 2 # 0
        BY <3>3
      <4>2. chunks[(w \div 2) + 1][2] = {}
        BY <3>1, PairItems
      <4> QED BY <4>1, <4>2, Zenon
    <3> QED BY <1>0, <3>2, <3>3
  <2>2. memcpy(chunks) = [w \in Words |-> IF w % 2 = 0 THEN line[w \div 2] ELSE {}]
    BY <2>1 DEF memcpy
  <2>3. Preserved = [w \in Words |-> IF w % 2 = 0 THEN line[w \div 2] ELSE {}]
    BY <1>2 DEF Preserved
  <2> QED BY <1>0, <2>2, <2>3 DEF Line
<1> QED BY <1>1, <1>2

LEMMA InitIInv == Init => IInv
<1> SUFFICES ASSUME Init PROVE IInv
  OBVIOUS
<1> USE BPCAssumption
<1>1. TypeOK
  BY DEF Init, TypeOK, Line, PlaneEncoding
<1>2. Copied /\ Compressing /\ Decompressing /\ RoundTrip
  BY DEF Init, Copied, Compressing, Decompressing, RoundTrip, PlaneBefore
<1>3. InStep
  <2> DEFINE idx == [k \in 0 .. 0 |-> 0]
  <2>1. idx \in [0 .. Len(tags) -> 0 .. Len(rawPlanes)]
    BY DEF Init
  <2>2. Stored(idx)
    BY DEF Init, Stored
  <2> QED BY <2>1, <2>2 DEF InStep, Init
<1> QED BY <1>1, <1>2, <1>3 DEF IInv, Init

LEMMA StepIInv == IInv /\ [Next]_vars => IInv'
<1> SUFFICES ASSUME IInv, [Next]_vars PROVE IInv'
  OBVIOUS
<1> USE BPCAssumption
<1> USE DEF IInv
<1>0. PICK idx \in [0 .. Len(tags) -> 0 .. Len(rawPlanes)] :
          Stored(idx) /\ (phase = "decompress" => raw_idx = idx[bit])
  BY DEF InStep
<1>c. CASE CopyWords
  <2>1. /\ phase = "copy" /\ phase' = "compress" /\ words' = memcpy(chunks)
        /\ UNCHANGED <<line, caller, maxCompressionRatio, bit, prev_plane, tags, rawPlanes,
                       compressed_bits, paddedBytes, planes, raw_idx, cache_line>>
    BY <1>c, EnoughChunks DEF CopyWords, compressing, decompressing
  <2>2. words' = Preserved /\ words' \in Line /\ Preserved' = Preserved
    BY <2>1, CopyPreserves DEF TypeOK, Preserved
  <2>3. TypeOK'
    BY <2>1, <2>2 DEF TypeOK
  <2>4. Copied' /\ Compressing' /\ Decompressing' /\ RoundTrip'
    BY <2>1, <2>2 DEF Copied, Compressing, Decompressing, RoundTrip, PlaneBefore
  <2>5. tags = <<>> /\ rawPlanes = <<>>
    BY <2>1 DEF Copied
  <2>6. Stored(idx)'
    BY <1>0, <2>1, <2>5 DEF Stored
  <2> QED BY <2>1, <2>3, <2>4, <2>6 DEF InStep
<1>1. CASE CompressPlane
  <2> DEFINE plane == extractPlane(words, bit)
             tag   == Encode(plane, prev_plane)
  <2> USE <1>1 DEF CompressPlane, input, decompressing
  <2>0. /\ plane \in SUBSET Words /\ tag \in PlaneEncoding
        /\ bit = Len(tags) /\ prev_plane = PlaneBefore(bit)
        /\ planes = <<>> /\ raw_idx = 0
        /\ bit \in Nat /\ bit < BITS_PER_WORD
    BY EncodeType, PlaneType DEF Compressing, TypeOK
  <2>1. /\ tags' \in Seq(PlaneEncoding) /\ Len(tags') = bit + 1
        /\ tags'[bit + 1] = tag /\ \A b \in 0 .. bit - 1 : tags'[b + 1] = tags[b + 1]
    BY <2>0 DEF TypeOK
  <2>2. /\ rawPlanes' \in Seq(SUBSET Words)
        /\ Len(rawPlanes') = Len(rawPlanes) + IF tag = "UNCOMPRESSED" THEN 1 ELSE 0
        /\ \A k \in 1 .. Len(rawPlanes) : rawPlanes'[k] = rawPlanes[k]
        /\ tag = "UNCOMPRESSED" => rawPlanes'[Len(rawPlanes) + 1] = plane
    BY <2>0 DEF TypeOK
  <2>3. TypeOK'
    BY <2>0, <2>1, <2>2 DEF TypeOK
  <2>4. Copied' /\ Compressing' /\ Decompressing' /\ RoundTrip'
    BY <2>0, <2>1 DEF Copied, Preserved, Compressing, Decompressing, RoundTrip, PlaneBefore, Plane
  <2>5. InStep'
    <3>a. Len(rawPlanes) \in Nat
      BY DEF TypeOK
    <3>b. idx[bit] = Len(rawPlanes)
      BY <1>0, <2>0 DEF Stored
    <3>c. \A k \in 0 .. bit : idx[k] \in 0 .. Len(rawPlanes)
      BY <1>0, <2>0
    <3>0. /\ Len(rawPlanes) \in Nat /\ idx[bit] = Len(rawPlanes)
          /\ \A k \in 0 .. bit : idx[k] \in 0 .. Len(rawPlanes)
      BY <3>a, <3>b, <3>c
    <3>n. PICK next : next = [k \in 0 .. bit + 1 |->
                                 IF k <= bit THEN idx[k] ELSE Len(rawPlanes')]
      OBVIOUS
    <3>1. next \in [0 .. Len(tags') -> 0 .. Len(rawPlanes')]
      BY <2>0, <2>1, <2>2, <3>0, <3>n
    <3>2. next[0] = 0 /\ next[Len(tags')] = Len(rawPlanes')
      BY <1>0, <2>0, <2>1, <3>n DEF Stored
    <3>3. ASSUME NEW b \in 0 .. Len(tags') - 1
          PROVE  /\ tags'[b + 1] = Encode(Plane(b)', PlaneBefore(b)')
                 /\ next[b + 1] = next[b] + IF IsRaw(b)' THEN 1 ELSE 0
                 /\ IsRaw(b)' => rawPlanes'[next[b] + 1] = Plane(b)'
      <4>1. CASE b = bit
        <5>1. /\ next[b] = Len(rawPlanes) /\ next[b + 1] = Len(rawPlanes')
              /\ IsRaw(b)' <=> tag = "UNCOMPRESSED"
          BY <2>0, <2>1, <3>0, <3>n, <4>1 DEF IsRaw
        <5>2. Plane(b)' = plane /\ PlaneBefore(b)' = prev_plane
          BY <2>0, <4>1 DEF Plane, PlaneBefore
        <5>3. tags'[b + 1] = Encode(Plane(b)', PlaneBefore(b)')
          BY <2>1, <4>1, <5>2
        <5>4. next[b + 1] = next[b] + IF IsRaw(b)' THEN 1 ELSE 0
          BY <2>2, <3>0, <5>1
        <5>5. IsRaw(b)' => rawPlanes'[next[b] + 1] = Plane(b)'
          BY <2>2, <5>1, <5>2
        <5> QED BY <5>3, <5>4, <5>5
      <4>2. CASE b < bit
        <5>1. b \in 0 .. Len(tags) - 1 /\ b \in 0 .. bit - 1
          BY <2>0, <2>1, <3>3, <4>2
        <5>2. /\ tags'[b + 1] = Encode(Plane(b), PlaneBefore(b))
              /\ IsRaw(b)' <=> IsRaw(b)
          BY <1>0, <2>1, <5>1 DEF Stored, IsRaw
        <5>3. /\ next[b] = idx[b] /\ next[b + 1] = idx[b + 1]
              /\ idx[b + 1] = idx[b] + IF IsRaw(b) THEN 1 ELSE 0
              /\ idx[b] \in 0 .. Len(rawPlanes) /\ idx[b + 1] \in 0 .. Len(rawPlanes)
          BY <1>0, <2>0, <3>0, <3>n, <5>1 DEF Stored
        <5>4. IsRaw(b) => rawPlanes'[idx[b] + 1] = Plane(b)
          BY <1>0, <2>2, <5>1, <5>3 DEF Stored
        <5> QED BY <5>2, <5>3, <5>4 DEF Plane, PlaneBefore
      <4>3. bit \in Nat /\ b \in 0 .. bit
        BY <2>0, <2>1, <3>3
      <4>4. b = bit \/ b < bit
        BY <4>3
      <4> QED BY <4>1, <4>2, <4>4
    <3>4. Stored(next)'
      BY <3>1, <3>2, <3>3 DEF Stored
    <3> QED BY <2>0, <3>1, <3>4 DEF InStep, Compressing
  <2> QED BY <2>3, <2>4, <2>5, <2>0, <2>1 DEF Compressing
<1>2. CASE ClampSize
  <2> USE <1>2 DEF ClampSize, input, decompressing
  <2>1. TypeOK'
    BY DEF TypeOK
  <2>2. Copied' /\ Compressing' /\ Decompressing' /\ RoundTrip' /\ Len(tags') = BITS_PER_WORD
    BY DEF Copied, Preserved, Compressing, Decompressing, RoundTrip
  <2>3. Stored(idx)'
    BY <1>0 DEF Stored, IsRaw, Plane, PlaneBefore
  <2> QED BY <2>1, <2>2, <2>3 DEF InStep
<1>3. CASE Pad
  <2> USE <1>3 DEF Pad, input, compressing, decompressing
  <2>1. TypeOK'
    BY DEF TypeOK
  <2>2. Copied' /\ Compressing' /\ Decompressing' /\ RoundTrip' /\ Len(tags') = BITS_PER_WORD
    BY DEF Copied, Preserved, Compressing, Decompressing, RoundTrip
  <2>3. Stored(idx)'
    BY <1>0 DEF Stored, IsRaw, Plane, PlaneBefore
  <2> QED BY <2>1, <2>2, <2>3 DEF InStep
<1>4. CASE SetSizeBits
  <2> USE <1>4 DEF SetSizeBits, input, decompressing
  <2>1. TypeOK'
    BY DEF TypeOK
  <2>2. Copied' /\ Compressing' /\ Decompressing' /\ RoundTrip' /\ Len(tags') = BITS_PER_WORD
    BY DEF Copied, Preserved, Compressing, Decompressing, RoundTrip, PlaneBefore
  <2>3. Stored(idx)' /\ raw_idx' = idx[bit']
    BY <1>0 DEF Stored, IsRaw, Plane, PlaneBefore, Compressing
  <2> QED BY <2>1, <2>2, <2>3 DEF InStep
<1>5. CASE DecompressPlane
  <2> DEFINE tag   == tags[bit + 1]
             plane == Decode(tag, prev_plane, rawPlanes[raw_idx + 1])
  <2> USE <1>5 DEF DecompressPlane, input, compressing
  <2>0. /\ bit \in 0 .. Len(tags) - 1 /\ Len(tags) = BITS_PER_WORD /\ raw_idx = idx[bit]
        /\ prev_plane = PlaneBefore(bit) /\ prev_plane \in SUBSET Words
        /\ Len(planes) = bit /\ \A b \in 0 .. bit - 1 : planes[b + 1] = Plane(b)
    BY <1>0 DEF Decompressing, TypeOK
  <2>1. /\ tag = Encode(Plane(bit), prev_plane)
        /\ idx[bit + 1] = idx[bit] + IF tag = "UNCOMPRESSED" THEN 1 ELSE 0
        /\ tag = "UNCOMPRESSED" => rawPlanes[raw_idx + 1] = Plane(bit)
        /\ idx[bit + 1] \in 0 .. Len(rawPlanes)
    BY <1>0, <2>0 DEF Stored, IsRaw
  <2>2. plane = Plane(bit) /\ Plane(bit) \in SUBSET Words
    <3>1. Plane(bit) \in SUBSET Words
      BY PlaneType DEF Plane
    <3>2. prev_plane \in SUBSET Words
      BY <2>0
    <3>3. Encode(Plane(bit), prev_plane) = "UNCOMPRESSED"
             => rawPlanes[raw_idx + 1] = Plane(bit)
      BY <2>1
    <3> HIDE <1>5 DEF IInv, DecompressPlane
    <3>4. Decode(Encode(Plane(bit), prev_plane), prev_plane, rawPlanes[raw_idx + 1])
            = Plane(bit)
      BY <3>1, <3>2, <3>3, DecodeEncode
    <3> QED BY <2>1, <3>1, <3>4
  <2>3. /\ planes' \in Seq(SUBSET Words) /\ Len(planes') = bit + 1
        /\ \A b \in 0 .. bit : planes'[b + 1] = Plane(b)
    <3>1. planes \in Seq(SUBSET Words) /\ planes' = Append(planes, plane)
      BY DEF TypeOK
    <3> HIDE <1>5 DEF IInv, DecompressPlane, plane
    <3>2. /\ planes' \in Seq(SUBSET Words) /\ Len(planes') = bit + 1
          /\ planes'[bit + 1] = plane
          /\ \A k \in 1 .. bit : planes'[k] = planes[k]
      BY <2>0, <2>2, <3>1
    <3>3. ASSUME NEW b \in 0 .. bit PROVE planes'[b + 1] = Plane(b)
      <4>1. CASE b = bit
        BY <2>2, <3>2, <4>1
      <4>2. CASE b \in 0 .. bit - 1
        BY <2>0, <3>2, <4>2
      <4>3. bit \in Nat /\ b \in 0 .. bit
        BY <2>0, <3>3
      <4>4. b = bit \/ b \in 0 .. bit - 1
        BY <4>3
      <4> QED BY <4>1, <4>2, <4>4
    <3> QED BY <3>2, <3>3
  <2>4. raw_idx' = idx[bit']
    BY <2>0, <2>1
  <2>5. TypeOK'
    BY <2>0, <2>1, <2>2, <2>3, <2>4 DEF TypeOK
  <2>6. Copied' /\ Compressing' /\ Decompressing' /\ RoundTrip' /\ Len(tags') = BITS_PER_WORD
    BY <2>0, <2>2, <2>3 DEF Copied, Preserved, Compressing, Decompressing, RoundTrip, Plane, PlaneBefore
  <2>7. Stored(idx)'
    BY <1>0 DEF Stored, IsRaw, Plane, PlaneBefore
  <2> QED BY <2>4, <2>5, <2>6, <2>7 DEF InStep
<1>6. CASE Deliver
  <2> USE <1>6 DEF Deliver, input, compressing
  <2>0. /\ Len(tags) = BITS_PER_WORD /\ raw_idx = Len(rawPlanes)
        /\ \A b \in 0 .. BITS_PER_WORD - 1 : planes[b + 1] = Plane(b)
    BY <1>0 DEF Decompressing, Stored, TypeOK
  <2>1. cache_line' = words /\ words = Preserved
    BY <2>0, Reconstruct DEF TypeOK, Copied
  <2>2. TypeOK'
    BY <2>1 DEF TypeOK
  <2>3. Copied' /\ Compressing' /\ Decompressing' /\ RoundTrip'
    BY <2>0, <2>1 DEF Copied, Preserved, Compressing, Decompressing, RoundTrip, Plane
  <2>4. Stored(idx)'
    BY <1>0 DEF Stored, IsRaw, Plane, PlaneBefore
  <2> QED BY <2>0, <2>2, <2>3, <2>4 DEF InStep
<1>7. CASE UNCHANGED vars
  <2> USE <1>7 DEF vars, input, compressing, decompressing
  <2>1. TypeOK'
    BY DEF TypeOK
  <2>2. Copied' /\ Compressing' /\ Decompressing' /\ RoundTrip' /\ Len(tags') = Len(tags)
    BY DEF Copied, Preserved, Compressing, Decompressing, RoundTrip, Plane, PlaneBefore
  <2>3. Stored(idx)'
    BY <1>0 DEF Stored, IsRaw, Plane, PlaneBefore
  <2> QED BY <1>0, <2>1, <2>2, <2>3 DEF InStep
<1> QED BY <1>c, <1>1, <1>2, <1>3, <1>4, <1>5, <1>6, <1>7 DEF Next

LEMMA Invariance == Spec => []IInv
BY InitIInv, StepIInv, PTL DEF Spec

\* compress() and decompress() keep their sequences in range: the decoder
\* never reads a raw plane that the encoder did not store.
THEOREM TypeCorrect == Spec => []TypeOK
<1>1. IInv => TypeOK
  BY DEF IInv
<1> QED BY <1>1, Invariance, PTL

\* The planes lose nothing: what decompress() delivers is what compress() copied
\* out of the chunks, for every line of every width.  That is the line itself
\* when the glue packed it, and exactly its first half, spread out between zeros,
\* when gem5 gave each word a chunk of its own; neither caller brings too little.
THEOREM LineRestored == Spec => []RoundTrip
<1>1. IInv => RoundTrip
  BY DEF IInv
<1> QED BY <1>1, Invariance, PTL

-----------------------------------------------------------------------------
(***************************************************************************)
(* The reported size.  The loop that pads it only passes a granularity by  *)
(* doubling it, and doubles it only when it is too small.                  *)
(***************************************************************************)
BlockIsAGranularity == blkSize \in {8, 16, 32, 64}

TooSmall(m) ==
    \/ 8 * m < EncodedBits
    \/ maxCompressionRatio > 0 /\ m * maxCompressionRatio < blkSize

SizeSoFar ==
    /\ paddedBytes \in Granularities
    /\ phase \in {"copy", "compress"} => compressed_bits = EncodedBits /\ paddedBytes = 8
    /\ phase = "pad" => /\ compressed_bits = Clamp(EncodedBits)
                        /\ \A m \in Granularities : m < paddedBytes => TooSmall(m)
    /\ phase \in {"decompress", "done"} => compressed_bits = 8 * paddedBytes
    /\ SizeIsRight

\* What rounding down takes from a quotient is less than one.
LEMMA Quotient ==
    ASSUME NEW a \in Nat, NEW K \in Nat \ {0}
    PROVE  /\ a \div K \in Nat
           /\ (a \div K) * K <= a
           /\ a < (a \div K + 1) * K
BY Z3

LEMMA ProductOrder ==
    ASSUME NEW a \in Nat, NEW b \in Nat, NEW K \in Nat, a <= b
    PROVE  a * K <= b * K
BY Z3

\* A granularity that is smaller than the clamped size in bytes is too small for
\* the encoding or for the cap.
LEMMA BelowTheClamp ==
    ASSUME blkSize \in Nat, maxCompressionRatio \in Nat, NEW bits \in Nat,
           NEW m \in Nat, m < (Clamp(bits) + 7) \div 8
    PROVE  \/ 8 * m < bits
           \/ maxCompressionRatio > 0 /\ m * maxCompressionRatio < blkSize
<1> DEFINE floor == (blkSize * 8) \div maxCompressionRatio
<1>1. CASE maxCompressionRatio > 0 /\ bits < floor
  <2>1. floor \in Nat /\ floor * maxCompressionRatio <= blkSize * 8
    BY <1>1, Quotient
  <2>2. Clamp(bits) = floor
    BY <1>1 DEF Clamp
  <2> HIDE DEF floor
  <2>3. 8 * m + 1 <= floor
    BY <2>1, <2>2
  <2>4. (8 * m + 1) * maxCompressionRatio <= floor * maxCompressionRatio
    BY <2>1, <2>3, ProductOrder
  <2>5. (8 * m + 1) * maxCompressionRatio = 8 * (m * maxCompressionRatio) + maxCompressionRatio
    BY Z3
  <2>6. m * maxCompressionRatio \in Nat
    BY Z3
  <2> HIDE DEF Clamp
  <2> QED BY <1>1, <2>1, <2>4, <2>5, <2>6
<1>2. CASE ~(maxCompressionRatio > 0 /\ bits < floor)
  <2>1. Clamp(bits) = bits
    BY <1>2 DEF Clamp
  <2> QED BY <2>1
<1> QED BY <1>1, <1>2

\* A granularity that holds the clamped size holds the encoding and obeys the cap.
LEMMA AboveTheClamp ==
    ASSUME BlockIsAGranularity, maxCompressionRatio \in Nat, NEW bits \in Nat,
           NEW n \in Granularities, n >= (Clamp(bits) + 7) \div 8
    PROVE  /\ 8 * n >= bits
           /\ maxCompressionRatio > 0 => n * maxCompressionRatio >= blkSize
<1> DEFINE floor == (blkSize * 8) \div maxCompressionRatio
<1>0. n \in {8, 16, 32, 64} /\ n <= blkSize /\ blkSize \in {8, 16, 32, 64}
  BY DEF Granularities, BlockIsAGranularity
<1>1. CASE maxCompressionRatio > 0
  <2>1. floor \in Nat /\ blkSize * 8 < (floor + 1) * maxCompressionRatio
    BY <1>0, <1>1, Quotient
  <2>2. Clamp(bits) >= floor /\ Clamp(bits) >= bits /\ Clamp(bits) \in Nat
    BY <1>1, <2>1 DEF Clamp
  <2> HIDE DEF floor, Clamp
  <2>3. 8 * n >= floor /\ 8 * n >= bits
    BY <1>0, <2>1, <2>2
  <2>4. (floor + 1) * maxCompressionRatio <= (8 * n + 1) * maxCompressionRatio
    BY <1>0, <2>1, <2>3, ProductOrder
  <2>5. blkSize * 8 < (8 * n + 1) * maxCompressionRatio
    <3>1. /\ blkSize * 8 \in Nat /\ (floor + 1) * maxCompressionRatio \in Nat
          /\ (8 * n + 1) * maxCompressionRatio \in Nat
      BY <1>0, <2>1, Z3
    <3> QED BY <2>1, <2>4, <3>1
  <2>6. n * maxCompressionRatio >= blkSize
    <3>1. CASE n = 8
      BY <1>0, <1>1, <2>5, <3>1
    <3>2. CASE n = 16
      BY <1>0, <1>1, <2>5, <3>2
    <3>3. CASE n = 32
      BY <1>0, <1>1, <2>5, <3>3
    <3>4. CASE n = 64
      BY <1>0, <1>1, <2>5, <3>4
    <3> QED BY <1>0, <3>1, <3>2, <3>3, <3>4
  <2> QED BY <2>3, <2>6
<1>2. CASE maxCompressionRatio = 0
  <2>1. Clamp(bits) = bits
    BY <1>2 DEF Clamp
  <2> QED BY <1>0, <1>2, <2>1
<1> QED BY <1>1, <1>2

LEMMA SizeKeeps ==
    ASSUME BlockIsAGranularity, IInv, SizeSoFar, [Next]_vars
    PROVE  SizeSoFar'
<1> USE BPCAssumption
<1>0. /\ TypeOK /\ TypeOK' /\ EncodedBits \in Nat
      /\ blkSize \in {8, 16, 32, 64} /\ maxCompressionRatio \in Nat
      /\ paddedBytes \in {8, 16, 32, 64} /\ paddedBytes <= blkSize
  <2>1. TypeOK /\ TypeOK'
    BY StepIInv DEF IInv
  <2>2. Len(tags) \in Nat /\ Len(rawPlanes) \in Nat
    BY <2>1 DEF TypeOK
  <2>3. WORDS_PER_LINE * Len(rawPlanes) \in Nat
    BY <2>2, Z3
  <2>4. EncodedBits \in Nat
    BY <2>2, <2>3 DEF EncodedBits, TAG_BITS
  <2> QED BY <2>1, <2>4 DEF TypeOK, SizeSoFar, Granularities, BlockIsAGranularity
<1>c. CASE CopyWords
  BY <1>c DEF CopyWords, compressing, decompressing, SizeSoFar, Granularities, SizeIsRight,
     SizeIsLeast, RatioIsCapped, EncodedBits
<1>1. CASE CompressPlane
  <2> DEFINE tag == Encode(extractPlane(words, bit), prev_plane)
  <2>1. /\ Len(tags') = Len(tags) + 1 /\ Len(tags) \in Nat /\ Len(rawPlanes) \in Nat
        /\ Len(rawPlanes') = Len(rawPlanes) + IF tag = "UNCOMPRESSED" THEN 1 ELSE 0
    BY <1>0, <1>1 DEF CompressPlane, input, TypeOK
  <2>2. EncodedBits' = EncodedBits + BitsFor(tag)
    <3>1. WORDS_PER_LINE * (Len(rawPlanes) + 1) = WORDS_PER_LINE * Len(rawPlanes) + WORDS_PER_LINE
      BY <2>1, Z3
    <3> HIDE DEF tag
    <3>2. WORDS_PER_LINE * Len(rawPlanes) \in Nat
      BY <2>1, Z3
    <3>3. CASE tag = "UNCOMPRESSED"
      BY <2>1, <3>1, <3>2, <3>3 DEF EncodedBits, BitsFor, TAG_BITS
    <3>4. CASE tag # "UNCOMPRESSED"
      BY <2>1, <3>2, <3>4 DEF EncodedBits, BitsFor, TAG_BITS
    <3> QED BY <3>3, <3>4
  <2>3. compressed_bits' = compressed_bits + BitsFor(tag)
    BY <1>1 DEF CompressPlane, input
  <2> HIDE DEF tag
  <2> QED
    BY <1>1, <2>2, <2>3 DEF CompressPlane, input, SizeSoFar, Granularities, SizeIsRight,
       SizeIsLeast, RatioIsCapped
<1>2. CASE ClampSize
  BY <1>2 DEF ClampSize, input, SizeSoFar, Granularities, SizeIsRight, SizeIsLeast, RatioIsCapped,
     EncodedBits, Clamp, TooSmall
<1>3. CASE Pad
  <2>1. paddedBytes' = 2 * paddedBytes /\ paddedBytes < rawBytes /\ paddedBytes < blkSize
    BY <1>3 DEF Pad, input, Doubles
  <2>2. paddedBytes' \in Granularities
    BY <1>0, <2>1 DEF Granularities
  <2>3. TooSmall(paddedBytes)
    <3>1. compressed_bits = Clamp(EncodedBits)
      BY <1>3 DEF Pad, input, SizeSoFar
    <3> QED BY <1>0, <2>1, <3>1, BelowTheClamp DEF rawBytes, TooSmall
  <2>4. ASSUME NEW m \in Granularities, m < paddedBytes' PROVE TooSmall(m)
    <3>1. m < paddedBytes \/ m = paddedBytes
      BY <1>0, <2>1, <2>4 DEF Granularities
    <3> QED BY <1>3, <2>3, <3>1 DEF Pad, input, SizeSoFar
  <2> QED
    BY <1>3, <2>2, <2>4 DEF Pad, input, compressing, decompressing, SizeSoFar, Granularities,
       SizeIsRight, SizeIsLeast, RatioIsCapped, EncodedBits, Clamp, TooSmall
<1>4. CASE SetSizeBits
  <2>1. paddedBytes' = paddedBytes /\ compressed_bits' = 8 * paddedBytes
    BY <1>0, <1>4 DEF SetSizeBits, input
  <2>2. /\ compressed_bits = Clamp(EncodedBits)
        /\ \A m \in Granularities : m < paddedBytes => TooSmall(m)
        /\ paddedBytes \in Granularities
    BY <1>4 DEF SetSizeBits, input, SizeSoFar
  <2>3. CASE paddedBytes >= rawBytes
    <3>1. /\ 8 * paddedBytes >= EncodedBits
          /\ maxCompressionRatio > 0 => paddedBytes * maxCompressionRatio >= blkSize
      BY <1>0, <2>2, <2>3, AboveTheClamp DEF rawBytes
    <3> QED
      BY <1>0, <1>4, <2>1, <2>2, <3>1 DEF SetSizeBits, input, SizeSoFar, SizeIsRight, SizeIsLeast,
         RatioIsCapped, TooSmall, EncodedBits
  <2>4. CASE paddedBytes = blkSize
    <3>1. maxCompressionRatio > 0 => paddedBytes * maxCompressionRatio >= blkSize
      BY <1>0, <2>4
    <3> QED
      BY <1>0, <1>4, <2>1, <2>2, <2>4, <3>1 DEF SetSizeBits, input, SizeSoFar, SizeIsRight, SizeIsLeast,
         RatioIsCapped, TooSmall, EncodedBits
  <2>5. rawBytes \in Int
    <3>1. compressed_bits \in Int
      <4>1. maxCompressionRatio > 0 => (blkSize * 8) \div maxCompressionRatio \in Nat
        BY <1>0, Quotient
      <4> QED BY <1>0, <2>2, <4>1 DEF Clamp
    <3> QED BY <3>1 DEF rawBytes
  <2> QED BY <1>0, <1>4, <2>3, <2>4, <2>5 DEF SetSizeBits, input, Doubles
<1>5. CASE DecompressPlane \/ Deliver \/ UNCHANGED vars
  <2>1. /\ UNCHANGED <<maxCompressionRatio, tags, rawPlanes, compressed_bits, paddedBytes>>
        /\ \/ phase' = phase
           \/ phase \in {"decompress", "done"} /\ phase' \in {"decompress", "done"}
    BY <1>5 DEF DecompressPlane, Deliver, vars, input, compressing, decompressing
  <2>2. EncodedBits' = EncodedBits
    BY <2>1 DEF EncodedBits
  <2> QED
    BY <2>1, <2>2 DEF SizeSoFar, Granularities, SizeIsRight, SizeIsLeast, RatioIsCapped, Clamp,
       TooSmall
<1> QED BY <1>c, <1>1, <1>2, <1>3, <1>4, <1>5 DEF Next

\* With a block of one of the sizes that the data store can serve, the size that
\* compress() reports holds the encoding, obeys the cap and is the least that
\* does, for every line of every width and every cap.
THEOREM SizeReported ==
    ASSUME BlockIsAGranularity
    PROVE  Spec => []SizeIsRight
<1>1. Init => SizeSoFar
  BY BPCAssumption DEF BlockIsAGranularity, Init, SizeSoFar, Granularities, EncodedBits, TAG_BITS,
     SizeIsRight, SizeIsLeast, RatioIsCapped
<1>2. IInv /\ SizeSoFar /\ [Next]_vars => SizeSoFar'
  BY SizeKeeps
<1>3. SizeSoFar => SizeIsRight
  BY DEF SizeSoFar
<1> QED BY <1>1, <1>2, <1>3, Invariance, PTL DEF Spec
=============================================================================
