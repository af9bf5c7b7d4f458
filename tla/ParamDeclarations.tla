------------------------- MODULE ParamDeclarations -------------------------
(***************************************************************************)
(* The gem5 parameter declarations of the repository: every class with its *)
(* base and the fields it declares or overrides (zcache/Tags.py,           *)
(* zcache/IndexingPolicies.py, zcache/ReplacementPolicies.py,              *)
(* glue/ZCacheGlue.py, bpc/Compressors.py).  The two classes of gem5 that  *)
(* the scripts build their caches from are external.                       *)
(*                                                                         *)
(* A field is an expression: a value, a parameter that must be given, a    *)
(* proxy that gem5 resolves once the tree of objects is complete, or an    *)
(* object to be created.  Sizes are in bytes, fractions in per mille;      *)
(* types and descriptions are left out.                                    *)
(***************************************************************************)
EXTENDS Integers, Sequences, TLC

Value(v)        == [is |-> "value", of |-> v]
Required        == [is |-> "required"]
Parent(a)       == [is |-> "parent", of |-> a]
Self(a)         == [is |-> "self", of |-> a]
Times(e, f)     == [is |-> "times", left |-> e, right |-> f]
Over(e, f)      == [is |-> "over", left |-> e, right |-> f]
New(c, with)    == [is |-> "new", class |-> c, with |-> with]
Ref(o)          == [is |-> "ref", to |-> o]
NoFields        == [f \in {} |-> Required]
NULL            == Value("NULL")

Class(base, fields)    == [base |-> base, abstract |-> FALSE, fields |-> fields]
Abstract(base, fields) == [base |-> base, abstract |-> TRUE, fields |-> fields]

KiB == 1024
-----------------------------------------------------------------------------
(***************************************************************************)
(* zcache/IndexingPolicies.py                                              *)
(***************************************************************************)
SizedBy == [size |-> Parent("size"), entry_size |-> Parent("entry_size")]

ZCacheIndexingPolicy ==
    Class("BaseIndexingPolicy", SizedBy @@ [h3_seed |-> Value(305419896)])

IndexingClasses ==
    [BaseIndexingPolicy   |-> Abstract("SimObject", [assoc |-> Parent("assoc")]),
     SetAssociative       |-> Class("BaseIndexingPolicy", SizedBy),
     SkewedAssociative    |-> Class("BaseIndexingPolicy", SizedBy),
     ZCacheIndexingPolicy |-> ZCacheIndexingPolicy]

(***************************************************************************)
(* zcache/ReplacementPolicies.py                                           *)
(***************************************************************************)
DuelingClasses ==
    [BaseReplacementPolicy |-> Abstract("SimObject", NoFields),
     DuelingRP |-> Class("BaseReplacementPolicy",
         [constituency_size |-> Required, team_size |-> Required,
          replacement_policy_a |-> Required, replacement_policy_b |-> Required]),
     DRRIPRP |-> Class("DuelingRP",
         [replacement_policy_a |-> New("BRRIPRP", NoFields),
          replacement_policy_b |-> New("RRIPRP", NoFields)])]

RecencyClasses ==
    [FIFORP         |-> Class("BaseReplacementPolicy", NoFields),
     SecondChanceRP |-> Class("FIFORP", NoFields),
     LFURP          |-> Class("BaseReplacementPolicy", NoFields),
     LRURP          |-> Class("BaseReplacementPolicy", NoFields),
     BIPRP          |-> Class("LRURP", [btp |-> Value(3)]),
     LIPRP          |-> Class("BIPRP", [btp |-> Value(0)]),
     MRURP          |-> Class("BaseReplacementPolicy", NoFields),
     RandomRP       |-> Class("BaseReplacementPolicy", NoFields)]

PredictingClasses ==
    [BRRIPRP   |-> Class("BaseReplacementPolicy",
         [num_bits |-> Value(2), hit_priority |-> Value(FALSE), btp |-> Value(3)]),
     RRIPRP    |-> Class("BRRIPRP", [btp |-> Value(100)]),
     NRURP     |-> Class("BRRIPRP", [btp |-> Value(100), num_bits |-> Value(1)]),
     SHiPRP    |-> Abstract("BRRIPRP",
         [shct_size |-> Value(16384), insertion_threshold |-> Value(1),
          hit_priority |-> Value(TRUE), btp |-> Value(0)]),
     SHiPMemRP |-> Class("SHiPRP", NoFields),
     SHiPPCRP  |-> Class("SHiPRP", NoFields)]

TreeAndBucketClasses ==
    [TreePLRURP    |-> Class("BaseReplacementPolicy", [num_leaves |-> Parent("assoc")]),
     WeightedLRURP |-> Class("LRURP", NoFields),
     ZCacheRP      |-> Class("BaseReplacementPolicy", [bucket_size_fraction |-> Value(50)])]

ReplacementClasses ==
    DuelingClasses @@ RecencyClasses @@ PredictingClasses @@ TreeAndBucketClasses

(***************************************************************************)
(* zcache/Tags.py                                                          *)
(***************************************************************************)
BaseTags ==
    Abstract("SimObject",
        [system               |-> Parent("any"),
         size                 |-> Parent("size"),
         block_size           |-> Parent("cache_line_size"),
         tag_latency          |-> Parent("tag_latency"),
         warmup_percentage    |-> Parent("warmup_percentage"),
         sequential_access    |-> Parent("sequential_access"),
         indexing_policy      |-> New("TaggedSetAssociative", NoFields),
         partitioning_manager |-> Parent("partitioning_manager"),
         entry_size           |-> Parent("cache_line_size")])

SetAssocTags == [assoc |-> Parent("assoc"), replacement_policy |-> Parent("replacement_policy")]

SectorTags ==
    Class("BaseTags", SetAssocTags @@
        [num_blocks_per_sector |-> Value(1),
         entry_size |-> Times(Parent("cache_line_size"), Self("num_blocks_per_sector"))])

CompressedTags_PhysicalSize ==              \* mutant: size not scaled by the ratio
    Class("SectorTags",
        [max_compression_ratio |-> Value(2),
         num_blocks_per_sector |-> Self("max_compression_ratio")])
CompressedTags ==
    Class("SectorTags",
        [max_compression_ratio |-> Value(2),
         num_blocks_per_sector |-> Self("max_compression_ratio"),
         size |-> Times(Parent("size"), Self("max_compression_ratio"))])

ZCacheTags ==
    Class("BaseSetAssoc",
        [zcache_indexing_policy |-> New("ZCacheIndexingPolicy", NoFields),
         walk_levels |-> Value(3), num_candidates |-> Value(16),
         replacement_policy |-> New("ZCacheRP", NoFields)])

TagClasses ==
    [TaggedIndexingPolicy |-> Abstract("SimObject", [assoc |-> Parent("assoc")]),
     TaggedSetAssociative |-> Class("TaggedIndexingPolicy", SizedBy),
     BaseTags             |-> BaseTags,
     BaseSetAssoc         |-> Class("BaseTags", SetAssocTags),
     SectorTags           |-> SectorTags,
     CompressedTags       |-> CompressedTags,
     FALRU                |-> Class("BaseTags", [min_tracked_cache_size |-> Value(128 * KiB),
                                                 indexing_policy |-> NULL]),
     ZCacheTags           |-> ZCacheTags]

(***************************************************************************)
(* glue/ZCacheGlue.py                                                      *)
(***************************************************************************)
ZCacheTagsNew_Partitioned ==                \* mutant: the override is forgotten
    Class("ZCacheTags", NoFields)
ZCacheTagsNew == Class("ZCacheTags", [partitioning_manager |-> NULL])

GlueClasses ==
    [DecoupledDataStore |-> Class("SimObject", [pool_bytes |-> Value(256 * KiB)]),
     FragReservoir      |-> Class("SimObject", [sample_interval_ticks |-> Value(10000)]),
     ZCacheTagsNew      |-> ZCacheTagsNew,
     ZCacheGlue         |-> Class("SimObject",
         [data_store |-> Required, reservoir |-> Required, zcache_tags |-> Required,
          compressor |-> Required, block_size |-> Parent("cache_line_size")])]

(***************************************************************************)
(* bpc/Compressors.py                                                      *)
(***************************************************************************)
BaseCacheCompressor ==
    Abstract("SimObject",
        [block_size |-> Parent("cache_line_size"), chunk_size_bits |-> Value(32),
         size_threshold_percentage |-> Value(50),
         comp_chunks_per_cycle |-> Value(1),   comp_extra_latency |-> Value(1),
         decomp_chunks_per_cycle |-> Value(1), decomp_extra_latency |-> Value(1)])

Latencies(comp, compExtra, decomp, decompExtra) ==
    [comp_chunks_per_cycle |-> comp,     comp_extra_latency |-> Value(compExtra),
     decomp_chunks_per_cycle |-> decomp, decomp_extra_latency |-> Value(decompExtra)]

\* Chunks of the given width, all of a block in a cycle.
WholeBlock == Over(Times(Value(8), Self("block_size")), Self("chunk_size_bits"))
OneCycle(bits) ==
    [chunk_size_bits |-> Value(bits)] @@ Latencies(WholeBlock, 0, WholeBlock, 0)

Delta(bits) == Class("BaseDictionaryCompressor", OneCycle(bits))
DeltaClasses ==
    [BaseDictionaryCompressor |->
         Abstract("BaseCacheCompressor", [dictionary_size |-> Parent("cache_line_size")]),
     Base64Delta8  |-> Delta(64), Base64Delta16 |-> Delta(64), Base64Delta32 |-> Delta(64),
     Base32Delta8  |-> Delta(32), Base32Delta16 |-> Delta(32), Base16Delta8  |-> Delta(16)]

PatternClasses ==
    [CPack |-> Class("BaseDictionaryCompressor", Latencies(Value(2), 5, Value(2), 1)),
     FPC   |-> Class("BaseDictionaryCompressor", Latencies(Value(8), 1, Value(4), 1)
                   @@ [dictionary_size |-> Value(1), zero_run_bits |-> Value(3)]),
     FPCD  |-> Class("BaseDictionaryCompressor", Latencies(Value(4), 1, Value(4), 0)
                   @@ [dictionary_size |-> Value(2)])]

FrequentValuesCompressor ==
    Class("BaseCacheCompressor", Latencies(Value(1), 1, Value(1), 0) @@
        [chunk_size_bits |-> Value(32), code_generation_ticks |-> Value(10000),
         counter_bits |-> Value(18), max_code_length |-> Value(18),
         num_samples |-> Value(100000), check_saturation |-> Value(FALSE),
         vft_assoc |-> Value(16), vft_entries |-> Value(1024),
         vft_indexing_policy |->
             New("SetAssociative", [entry_size |-> Value(1), assoc |-> Parent("vft_assoc"),
                                    size |-> Parent("vft_entries")]),
         vft_replacement_policy |-> New("LFURP", NoFields)])

\* The elements of the list of sub-compressors are fields of their own.
MultiCompressor ==
    Class("BaseCacheCompressor", Latencies(Value(0), 1, Value(0), 1) @@
        ("compressors[0]" :> New("CPack", NoFields)) @@
        ("compressors[1]" :> New("FPCD", NoFields)) @@ [encoding_in_tags |-> Value(FALSE)])

WholeLineClasses ==
    [PerfectCompressor        |-> Class("BaseCacheCompressor",
                                        OneCycle(64) @@ [max_compression_ratio |-> Required]),
     RepeatedQwordsCompressor |-> Class("BaseDictionaryCompressor", OneCycle(64)),
     ZeroCompressor           |-> Class("BaseDictionaryCompressor", OneCycle(64))]

BPC == Class("BaseCacheCompressor", [max_compression_ratio |-> Value(0)])

Loose(c) == New(c, [size_threshold_percentage |-> Value(99)])
BDI ==
    Class("MultiCompressor",
        ("compressors[0]" :> Loose("ZeroCompressor")) @@
        ("compressors[1]" :> Loose("RepeatedQwordsCompressor")) @@
        ("compressors[2]" :> Loose("Base64Delta8")) @@
        ("compressors[3]" :> Loose("Base64Delta16")) @@
        ("compressors[4]" :> Loose("Base64Delta32")) @@
        ("compressors[5]" :> Loose("Base32Delta8")) @@
        ("compressors[6]" :> Loose("Base32Delta16")) @@
        ("compressors[7]" :> Loose("Base16Delta8")) @@
        [decomp_extra_latency |-> Value(0), encoding_in_tags |-> Value(TRUE)])

CompressorClasses ==
    DeltaClasses @@ PatternClasses @@ WholeLineClasses @@
    [BaseCacheCompressor |-> BaseCacheCompressor, BPC |-> BPC, BDI |-> BDI,
     FrequentValuesCompressor |-> FrequentValuesCompressor,
     MultiCompressor |-> MultiCompressor]

(***************************************************************************)
(* External: what the scripts take from gem5.                              *)
(***************************************************************************)
Cache ==
    Class("SimObject",
        [size |-> Required, assoc |-> Required, tag_latency |-> Required,
         warmup_percentage |-> Value(0), sequential_access |-> Value(FALSE),
         partitioning_manager |-> NULL, replacement_policy |-> New("LRURP", NoFields),
         tags |-> New("BaseSetAssoc", NoFields), compressor |-> NULL])
System == Class("SimObject", [cache_line_size |-> Value(64), any |-> Value("system")])

Classes ==
    IndexingClasses @@ ReplacementClasses @@ TagClasses @@ GlueClasses @@ CompressorClasses
    @@ [Cache |-> Cache, System |-> System]

\* The fields of a class: its own, and those of its bases that it leaves alone.
FieldsOf[c \in DOMAIN Classes] ==
    Classes[c].fields @@ (IF Classes[c].base = "SimObject" THEN NoFields
                          ELSE FieldsOf[Classes[c].base])

\* A class and its bases.
Bases[c \in DOMAIN Classes] ==
    {c} \cup (IF Classes[c].base = "SimObject" THEN {} ELSE Bases[Classes[c].base])

Concrete == {c \in DOMAIN Classes : ~Classes[c].abstract}
=============================================================================
