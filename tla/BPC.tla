-------------------------------- MODULE BPC --------------------------------
(***************************************************************************)
(* The bit-plane compressor (bpc/bpc.cc): compress() copies its words out  *)
(* of the chunks it is given, encodes them plane by plane and reports a    *)
(* size for the data store; decompress() decodes the planes and puts the   *)
(* words together again.                                                   *)
(*                                                                         *)
(* A word is the set of its bits that are 1 and a plane the set of the     *)
(* words that have a given bit: extractPlane() and reconstructWords() are  *)
(* two readings of one relation.  A mask of WORDS_PER_LINE bits is then    *)
(* Words, and ~x & PLANE_MASK is Words \ x.                                *)
(***************************************************************************)
EXTENDS Integers, Sequences

CONSTANTS
    WORDS_PER_LINE, BITS_PER_WORD,  \* 16 and 32
    blkSize,                        \* bytes of a block, 64
    Lines,                          \* the lines that are compressed
    Ratios                          \* the values of max_compression_ratio

Words == 0 .. WORDS_PER_LINE - 1
Bits  == 0 .. BITS_PER_WORD - 1
Line  == [Words -> SUBSET Bits]

WordBytes  == 4     \* sizeof(uint32_t)
ChunkBytes == 8     \* sizeof(Chunk)

\* words[] takes up a block, and a block is a whole number of chunks.
ASSUME BPCAssumption ==
    /\ WORDS_PER_LINE \in Nat \ {0} /\ BITS_PER_WORD \in Nat
    /\ blkSize = WordBytes * WORDS_PER_LINE /\ blkSize % ChunkBytes = 0
    /\ Lines \subseteq Line /\ Ratios \subseteq Nat

TAG_BITS == 3
PlaneEncoding == {"ALL_ZEROS", "ALL_ONES", "SAME_AS_PREV", "COMP_OF_PREV", "UNCOMPRESSED"}

VARIABLES
    line,               \* the line of the caller
    caller,             \* who calls: "glue" or "gem5"
    words,              \* compress()'s own copy
    maxCompressionRatio,
    phase,              \* the loop that is running
    bit,                \* its plane
    prev_plane,
    tags, rawPlanes,    \* the compressed line
    compressed_bits, paddedBytes,
    planes, raw_idx,    \* what decompress() has decoded, and its place in rawPlanes
    cache_line          \* the words that it delivers

compressing   == <<tags, rawPlanes, compressed_bits>>
decompressing == <<planes, raw_idx, cache_line>>
input         == <<line, caller, words, maxCompressionRatio>>
vars == <<input, phase, bit, prev_plane, compressing, paddedBytes, decompressing>>

(***************************************************************************)
(* The chunks that compress() is given.  A Chunk is 64 bits, that is, two  *)
(* words of the line, the low one first.  The glue packs the line into     *)
(* them; gem5's Base::compress() cuts it into pieces of chunk_size_bits,   *)
(* which BPC inherits as 32, and gives each piece a Chunk of its own.      *)
(***************************************************************************)
GlueChunks(l) == [k \in 1 .. blkSize \div ChunkBytes |-> <<l[2 * (k - 1)], l[2 * (k - 1) + 1]>>]
toChunks(l)   == [k \in 1 .. blkSize \div WordBytes  |-> <<l[k - 1], {}>>]

chunks == IF caller = "glue" THEN GlueChunks(line) ELSE toChunks(line)

\* The first blkSize bytes of the chunks.
memcpy(cs) == [w \in Words |-> cs[(w \div 2) + 1][(w % 2) + 1]]

extractPlane(ws, b)    == {w \in Words : b \in ws[w]}
reconstructWords(ps)   == [w \in Words |-> {b \in Bits : w \in ps[b + 1]}]

Init ==
    /\ line \in Lines /\ caller \in {"glue", "gem5"} /\ maxCompressionRatio \in Ratios
    /\ words = [w \in Words |-> {}]     \* not initialised, and not read before it is
    /\ phase = "copy" /\ bit = 0 /\ prev_plane = {}
    /\ tags = <<>> /\ rawPlanes = <<>> /\ compressed_bits = 0
    /\ paddedBytes = 8
    /\ planes = <<>> /\ raw_idx = 0 /\ cache_line = [w \in Words |-> {}]

(***************************************************************************)
(* compress()                                                              *)
(***************************************************************************)
\* More chunks than a block are cut off without a word, fewer are a panic.
CopyWords ==
    /\ phase = "copy"
    /\ IF Len(chunks) * ChunkBytes < blkSize
       THEN phase' = "panic" /\ UNCHANGED words
       ELSE phase' = "compress" /\ words' = memcpy(chunks)
    /\ UNCHANGED <<line, caller, maxCompressionRatio, bit, prev_plane, compressing, paddedBytes,
                   decompressing>>

Encode(plane, prev) ==
    IF plane = {}                  THEN "ALL_ZEROS"
    ELSE IF plane = Words          THEN "ALL_ONES"
    ELSE IF plane = prev           THEN "SAME_AS_PREV"
    ELSE IF plane = Words \ prev   THEN "COMP_OF_PREV"
    ELSE "UNCOMPRESSED"

BitsFor(tag) == TAG_BITS + IF tag = "UNCOMPRESSED" THEN WORDS_PER_LINE ELSE 0

CompressPlane ==
    /\ phase = "compress" /\ bit < BITS_PER_WORD
    /\ LET plane == extractPlane(words, bit)
           tag   == Encode(plane, prev_plane)
       IN /\ tags' = Append(tags, tag)
          /\ rawPlanes' = IF tag = "UNCOMPRESSED" THEN Append(rawPlanes, plane) ELSE rawPlanes
          /\ compressed_bits' = compressed_bits + BitsFor(tag)
          /\ prev_plane' = plane
    /\ bit' = bit + 1
    /\ UNCHANGED <<input, phase, paddedBytes, decompressing>>

\* The reported size is clamped up to blkSize / maxCompressionRatio.
Clamp(bits) ==
    LET floor_bits == (blkSize * 8) \div maxCompressionRatio
    IN IF maxCompressionRatio > 0 /\ bits < floor_bits THEN floor_bits ELSE bits

ClampSize ==
    /\ phase = "compress" /\ bit = BITS_PER_WORD
    /\ compressed_bits' = Clamp(compressed_bits)
    /\ phase' = "pad"
    /\ UNCHANGED <<input, bit, prev_plane, tags, rawPlanes, paddedBytes,
                   decompressing>>

rawBytes == (compressed_bits + 7) \div 8

Doubles_OnceMore == paddedBytes <= rawBytes /\ paddedBytes < blkSize    \* mutant: <=
Doubles          == paddedBytes < rawBytes /\ paddedBytes < blkSize

Pad ==
    /\ phase = "pad" /\ Doubles
    /\ paddedBytes' = 2 * paddedBytes
    /\ UNCHANGED <<input, phase, bit, prev_plane, compressing,
                   decompressing>>

\* setSizeBits() ends compress(); decompress() starts with its own locals.
SetSizeBits ==
    /\ phase = "pad" /\ ~Doubles
    /\ paddedBytes' = IF paddedBytes > blkSize THEN blkSize ELSE paddedBytes
    /\ compressed_bits' = paddedBytes' * 8
    /\ phase' = "decompress" /\ bit' = 0 /\ prev_plane' = {}
    /\ UNCHANGED <<input, tags, rawPlanes, decompressing>>

(***************************************************************************)
(* decompress()                                                            *)
(***************************************************************************)
Decode(tag, prev, raw) ==
    CASE tag = "ALL_ZEROS"    -> {}
      [] tag = "ALL_ONES"     -> Words
      [] tag = "SAME_AS_PREV" -> prev
      [] tag = "COMP_OF_PREV" -> Words \ prev
      [] tag = "UNCOMPRESSED" -> raw

DecompressPlane_RawIsPrev ==                \* mutant: prev_plane set only by raw planes
    /\ phase = "decompress" /\ bit < BITS_PER_WORD
    /\ LET tag   == tags[bit + 1]
           plane == Decode(tag, prev_plane, rawPlanes[raw_idx + 1])
       IN /\ planes' = Append(planes, plane)
          /\ raw_idx' = raw_idx + IF tag = "UNCOMPRESSED" THEN 1 ELSE 0
          /\ prev_plane' = IF tag = "UNCOMPRESSED" THEN plane ELSE prev_plane
    /\ bit' = bit + 1
    /\ UNCHANGED <<input, phase, compressing, paddedBytes, cache_line>>
DecompressPlane ==
    /\ phase = "decompress" /\ bit < BITS_PER_WORD
    /\ LET tag   == tags[bit + 1]
           plane == Decode(tag, prev_plane, rawPlanes[raw_idx + 1])
       IN /\ planes' = Append(planes, plane)
          /\ raw_idx' = raw_idx + IF tag = "UNCOMPRESSED" THEN 1 ELSE 0
          /\ prev_plane' = plane
    /\ bit' = bit + 1
    /\ UNCHANGED <<input, phase, compressing, paddedBytes, cache_line>>

Deliver ==
    /\ phase = "decompress" /\ bit = BITS_PER_WORD
    /\ cache_line' = reconstructWords(planes)
    /\ phase' = "done"
    /\ UNCHANGED <<input, bit, prev_plane, compressing, paddedBytes,
                   planes, raw_idx>>

Next == CopyWords \/ CompressPlane \/ ClampSize \/ Pad \/ SetSizeBits \/ DecompressPlane \/ Deliver
Spec == Init /\ [][Next]_vars
-----------------------------------------------------------------------------
\* The planes and their encodings are built one after the other, and never a
\* raw plane is read that was not stored.
TypeOK ==
    /\ line \in Line /\ caller \in {"glue", "gem5"} /\ words \in Line
    /\ maxCompressionRatio \in Nat
    /\ phase \in {"copy", "panic", "compress", "pad", "decompress", "done"}
    /\ bit \in 0 .. BITS_PER_WORD /\ prev_plane \in SUBSET Words
    /\ tags \in Seq(PlaneEncoding) /\ rawPlanes \in Seq(SUBSET Words)
    /\ Len(rawPlanes) <= Len(tags)
    /\ planes \in Seq(SUBSET Words) /\ raw_idx \in 0 .. Len(rawPlanes)
    /\ cache_line \in Line

\* What is left of a line: all of it if the glue packed it, but of gem5's sixteen
\* chunks eight are copied, each a word of the first half and a word of zeros.
Preserved ==
    IF caller = "glue" THEN line
    ELSE [w \in Words |-> IF w % 2 = 0 THEN line[w \div 2] ELSE {}]

\* A line that the glue compresses comes back as it was; one that gem5 compresses
\* by itself has lost its second half before the first plane is looked at, and
\* comes back spread out (bpc/bpc.cc:46-60).  The planes lose nothing more, every
\* one that was stored is used, and neither caller is met by the panic.
RoundTrip ==
    /\ phase # "panic"
    /\ phase = "done" => cache_line = Preserved /\ raw_idx = Len(rawPlanes)

\* "This aligns with the buddy-allocator granularities in DecoupledDataStore"
\* (bpc/bpc.cc:107): the size is the least of the granularities that holds the
\* encoding and obeys the cap, and the whole block if there is none.
Granularities == {n \in {8, 16, 32, 64} : n <= blkSize}
EncodedBits   == TAG_BITS * Len(tags) + WORDS_PER_LINE * Len(rawPlanes)
SizeIsLeast ==
    phase \in {"decompress", "done"} =>
        LET n == compressed_bits \div 8
        IN /\ n \in Granularities
           /\ n < blkSize => 8 * n >= EncodedBits
           /\ \A m \in Granularities :
                 m < n => \/ 8 * m < EncodedBits
                          \/ maxCompressionRatio > 0 /\ m * maxCompressionRatio < blkSize

\* A cap is a cap: although the floor is rounded down (bpc/bpc.cc:100-104), no
\* block is reported to be smaller than it allows.  A cap of 1 is therefore the
\* whole block, not the "uncapped (real BPC size)" of bpc/bpc.hh:49.
RatioIsCapped ==
    phase \in {"decompress", "done"} /\ maxCompressionRatio > 0
        => (compressed_bits \div 8) * maxCompressionRatio >= blkSize

\* Both at once: the size that the data store is asked for is neither too small
\* for the line or the cap nor larger than it need be.
SizeIsRight == SizeIsLeast /\ RatioIsCapped
=============================================================================
