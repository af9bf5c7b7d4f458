---------------------------- MODULE Elaboration ----------------------------
(***************************************************************************)
(* How the configuration scripts build their caches: functional_verify.py, *)
(* x86-parsec-zcache-only.py, cdzcache_parsec.py and run_bpc_sanity.py     *)
(* over the declarations of ParamDeclarations.                             *)
(*                                                                         *)
(* A script is a sequence of statements, as far as they concern the L2     *)
(* cache, that create objects and set fields.  gem5 makes the first object *)
(* that an object is assigned to its parent, creates the default objects   *)
(* of fields left alone, and finally resolves the proxies of one object    *)
(* after the other: Self by the object, Parent by its nearest ancestor     *)
(* that has the field.                                                     *)
(***************************************************************************)
EXTENDS ParamDeclarations, SequencesExt, FiniteSetsExt

CONSTANTS
    Variants,   \* the values of --variant that are tried
    Ratios      \* and of --max-compression-ratio

Create(o, c, with) == [do |-> "create", object |-> o, class |-> c, with |-> with]
Set(o, f, e)       == [do |-> "set", object |-> o, field |-> f, to |-> e]

(***************************************************************************)
(* functional_verify.py: the tags are given to the glue before the cache,  *)
(* "Parent.xxx proxies cannot resolve when the parent SimObject is         *)
(* ZCacheGlue" (functional_verify.py:130-131), so everything is explicit.  *)
(***************************************************************************)
PolicySizes(size, assoc) ==
    [size |-> Value(size), assoc |-> Value(assoc), entry_size |-> Value(64)]

functional_verify(pool) ==
    LET size  == 256 * KiB
        assoc == 4
    IN <<Create("zcache_tags", "ZCacheTagsNew",
             PolicySizes(size, assoc) @@
             [block_size |-> Value(64), tag_latency |-> Value(4),
              warmup_percentage |-> Value(0), sequential_access |-> Value(FALSE),
              walk_levels |-> Value(3), num_candidates |-> Value(16),
              replacement_policy |-> New("ZCacheRP", [bucket_size_fraction |-> Value(50)]),
              zcache_indexing_policy |-> New("ZCacheIndexingPolicy", PolicySizes(size, assoc)),
              indexing_policy |-> New("TaggedSetAssociative", PolicySizes(size, assoc))]),
         Create("glue", "ZCacheGlue",
             [zcache_tags |-> Ref("zcache_tags"),
              data_store |-> New("DecoupledDataStore", [pool_bytes |-> Value(pool)]),
              reservoir |-> New("FragReservoir", [sample_interval_ticks |-> Value(10000)]),
              compressor |-> New("BPC", [max_compression_ratio |-> Value(0)])]),
         Set("system", "glue", Ref("glue")),
         Create("l2cache", "Cache",
             [size |-> Value(size), assoc |-> Value(assoc), tag_latency |-> Value(4),
              tags |-> Ref("zcache_tags")]),
         Set("system", "l2cache", Ref("l2cache"))>>

(***************************************************************************)
(* External: PrivateL1SharedL2CacheHierarchy.incorporate_cache() makes the *)
(* L2 cache that the scripts then change.                                  *)
(***************************************************************************)
incorporate_cache(size, assoc) ==
    <<Create("l2cache", "Cache", [size |-> Value(size), assoc |-> Value(assoc),
                                  tag_latency |-> Value(10)]),
      Set("system", "l2cache", Ref("l2cache"))>>

(***************************************************************************)
(* x86-parsec-zcache-only.py                                               *)
(***************************************************************************)
zcache_only_components ==
    <<Create("zcache_tags", "ZCacheTags",
          [zcache_indexing_policy |-> New("ZCacheIndexingPolicy",
               [size |-> Value(256 * KiB), entry_size |-> Value(64), h3_seed |-> Value(42)]),
           walk_levels |-> Value(3), num_candidates |-> Value(16),
           replacement_policy |-> New("ZCacheRP", [bucket_size_fraction |-> Value(100)])])>>

zcache_only_hierarchy ==
    incorporate_cache(256 * KiB, 16) \o <<Set("l2cache", "tags", Ref("zcache_tags"))>>

(***************************************************************************)
(* cdzcache_parsec.py, by --variant and --max-compression-ratio.           *)
(***************************************************************************)
LRUHierarchy == <<Set("l2cache", "replacement_policy", New("LRURP", NoFields))>>

BPCHierarchy(ratio) ==
    <<Set("l2cache", "tags", New("CompressedTags", [max_compression_ratio |-> Value(ratio)])),
      Set("l2cache", "compressor", New("BPC", [max_compression_ratio |-> Value(ratio)])),
      Set("l2cache", "replacement_policy", New("LRURP", NoFields))>>

\* The policy of the tags becomes that of the cache, too.
ZCacheL2(tags) ==
    <<Create("rp", "ZCacheRP", [bucket_size_fraction |-> Value(50)]),
      Create("zcache_tags", tags,
          [walk_levels |-> Value(3), num_candidates |-> Value(16),
           replacement_policy |-> Ref("rp"),
           zcache_indexing_policy |-> New("ZCacheIndexingPolicy", NoFields)]),
      Set("l2cache", "tags", Ref("zcache_tags")),
      Set("l2cache", "replacement_policy", Ref("rp"))>>

ZCacheHierarchy   == ZCacheL2("ZCacheTags")
CDZCacheHierarchy == ZCacheL2("ZCacheTagsNew")

CDZCacheGlue ==
    <<Create("glue", "ZCacheGlue",
          [zcache_tags |-> Ref("zcache_tags"),
           data_store |-> New("DecoupledDataStore", NoFields),
           reservoir |-> New("FragReservoir", [sample_interval |-> Value(10)]),
           compressor |-> New("BPC", [max_compression_ratio |-> Value(0)])]),
      Set("system", "glue", Ref("glue"))>>

cdzcache_parsec(variant, ratio) ==
    incorporate_cache(256 * KiB, 16) \o
    CASE variant = "lru"    -> LRUHierarchy
      [] variant = "bpc"    -> BPCHierarchy(ratio)
      [] variant = "zcache" -> ZCacheHierarchy
      [] OTHER              -> CDZCacheHierarchy \o CDZCacheGlue

(***************************************************************************)
(* run_bpc_sanity.py                                                       *)
(***************************************************************************)
bpc_sanity ==
    incorporate_cache(256 * KiB, 16) \o
    <<Set("l2cache", "tags", New("CompressedTags", [max_compression_ratio |-> Value(2)])),
      Set("l2cache", "compressor", New("BPC", NoFields)),
      Set("l2cache", "replacement_policy", New("LRURP", NoFields))>>

(***************************************************************************)
(* Every class on its own, where gem5 would have it, with the fields that  *)
(* its declaration requires.                                               *)
(***************************************************************************)
Placed(c) == IF "BaseTags" \in Bases[c] THEN "tags"
             ELSE IF "BaseCacheCompressor" \in Bases[c] THEN "compressor"
             ELSE IF "BaseReplacementPolicy" \in Bases[c] THEN "replacement_policy"
             ELSE "none"

MustBeGiven ==
    [DuelingRP |-> [constituency_size |-> Value(64), team_size |-> Value(4),
                    replacement_policy_a |-> New("LRURP", NoFields),
                    replacement_policy_b |-> New("RandomRP", NoFields)],
     DRRIPRP   |-> [constituency_size |-> Value(64), team_size |-> Value(4)],
     PerfectCompressor |-> [max_compression_ratio |-> Value(2)]]

Alone(c) ==
    incorporate_cache(256 * KiB, 16) \o
    <<Set("l2cache", Placed(c), New(c, IF c \in DOMAIN MustBeGiven THEN MustBeGiven[c]
                                       ELSE NoFields))>>
-----------------------------------------------------------------------------
VARIABLES
    script,     \* the statements still to be executed
    objects,    \* of each object [class, parent, fields]; names are paths
    resolved,   \* of each object whose proxies are resolved, its values
    outcome     \* "building", "built", "AttributeError" or "fatal"

evars == <<script, objects, resolved, outcome>>

TheSystem == <<"system">>

Init ==
    /\ \/ \E pool \in {16 * KiB, 256 * KiB} : script = functional_verify(pool)
       \/ script = zcache_only_components \o zcache_only_hierarchy
       \/ \E v \in Variants, r \in Ratios : script = cdzcache_parsec(v, r)
       \/ script = bpc_sanity
       \/ \E c \in Concrete : Placed(c) # "none" /\ script = Alone(c)
    /\ objects = (TheSystem :> [class |-> "System", parent |-> <<>>,
                                fields |-> FieldsOf["System"]])
    /\ resolved = [o \in {} |-> NoFields]
    /\ outcome = "building"

Building    == outcome = "building" /\ script # <<>>
Stop(why)   == outcome' = why /\ UNCHANGED <<script, objects, resolved>>
Field(o, f) == objects[o].fields[f]

\* "Class %s has no parameter %s", unless the value is an object, which then
\* simply becomes a child.
Known(c, f, e) == f \in DOMAIN FieldsOf[c] \/ e.is \in {"ref", "new"}

\* The objects that fields refer to and that have no parent yet get this one.
Adopt(objs, o, fields) ==
    LET given == {<<fields[f].to>> : f \in {g \in DOMAIN fields : fields[g].is = "ref"}}
    IN [p \in DOMAIN objs |-> IF p \in given /\ objs[p].parent = <<>>
                              THEN [objs[p] EXCEPT !.parent = o] ELSE objs[p]]

CreateObject ==
    /\ Building
    /\ LET s == Head(script)
           o == <<s.object>>
           new == o :> [class |-> s.class, parent |-> <<>>,
                        fields |-> s.with @@ FieldsOf[s.class]]
       IN /\ s.do = "create"
          /\ IF \A f \in DOMAIN s.with : Known(s.class, f, s.with[f])
             THEN /\ objects' = Adopt(new @@ objects, o, s.with)
                  /\ script' = Tail(script)
                  /\ UNCHANGED <<resolved, outcome>>
             ELSE Stop("AttributeError")

SetField ==
    /\ Building
    /\ LET s == Head(script)
           o == <<s.object>>
           set == s.field :> s.to
       IN /\ s.do = "set"
          /\ IF Known(objects[o].class, s.field, s.to)
             THEN /\ objects' = Adopt([objects EXCEPT ![o].fields = set @@ @], o, set)
                  /\ script' = Tail(script)
                  /\ UNCHANGED <<resolved, outcome>>
             ELSE Stop("AttributeError")

\* An object that is written in place, or is the default of a field.
Unborn == {<<o, f>> \in UNION {{o} \X DOMAIN objects[o].fields : o \in DOMAIN objects} :
              Field(o, f).is = "new"}

CreateInPlace ==
    /\ outcome = "building" /\ script = <<>> /\ Unborn # {}
    /\ LET at == CHOOSE u \in Unborn : TRUE
           o == at[1]
           f == at[2]
           e == Field(o, f)
           child == Append(o, f)
       IN IF \A g \in DOMAIN e.with : Known(e.class, g, e.with[g])
          THEN /\ objects' = (child :> [class |-> e.class, parent |-> o,
                                        fields |-> e.with @@ FieldsOf[e.class]])
                             @@ [objects EXCEPT ![o].fields[f] = [is |-> "object", of |-> child]]
               /\ UNCHANGED <<script, resolved, outcome>>
          ELSE Stop("AttributeError")

(***************************************************************************)
(* The value of an expression for object o, or Unresolved.                 *)
(***************************************************************************)
Unresolved == [is |-> "unresolved"]

RECURSIVE Resolve(_, _)
Nearest(o, a) ==
    LET Ancestors[p \in DOMAIN objects] ==
            LET up == objects[p].parent
            IN IF up = <<>> THEN <<>> ELSE <<up>> \o Ancestors[up]
        having == SelectSeq(Ancestors[o],
                            LAMBDA p : a \in DOMAIN objects[p].fields
                                       /\ objects[p].fields[a].is # "required")
    IN having
Resolve(o, e) ==
    CASE e.is = "parent" ->
            LET having == Nearest(o, e.of)
            IN IF having = <<>> THEN Unresolved
               ELSE Resolve(Head(having), Field(Head(having), e.of))
      [] e.is = "self" -> Resolve(o, Field(o, e.of))
      [] e.is \in {"times", "over"} ->
            LET l == Resolve(o, e.left)
                r == Resolve(o, e.right)
            IN IF Unresolved \in {l, r} THEN Unresolved
               ELSE Value(IF e.is = "times" THEN l.of * r.of ELSE l.of \div r.of)
      [] e.is = "required" -> Unresolved
      [] e.is = "ref"      -> [is |-> "object", of |-> <<e.to>>]
      [] OTHER             -> e

Pending == DOMAIN objects \ DOMAIN resolved

Unproxy ==
    /\ outcome = "building" /\ script = <<>> /\ Unborn = {} /\ Pending # {}
    /\ LET o == CHOOSE p \in Pending : TRUE
           values == [f \in DOMAIN objects[o].fields |-> Resolve(o, Field(o, f))]
       IN IF \E f \in DOMAIN values : values[f] = Unresolved
          THEN Stop("fatal")
          ELSE /\ resolved' = (o :> values) @@ resolved
               /\ UNCHANGED <<script, objects, outcome>>

Instantiated ==
    /\ outcome = "building" /\ script = <<>> /\ Unborn = {} /\ Pending = {}
    /\ Stop("built")

Next == CreateObject \/ SetField \/ CreateInPlace \/ Unproxy \/ Instantiated
Spec == Init /\ [][Next]_evars
-----------------------------------------------------------------------------
ClassOf(o) == objects[o].class
AllOf(base) == {o \in DOMAIN resolved : base \in Bases[ClassOf(o)]}
The(o, f)  == resolved[o][f].of

\* Every script that is run builds: no field is misspelt, every required
\* parameter is given, and every proxy finds an ancestor, whichever object
\* became the parent.  "cdzcache_parsec.py --benchmark dedup --size simsmall --variant
\* cdzcache" is the usage of the docstring (cdzcache_parsec.py:11-13).
EveryScriptBuilds == outcome \notin {"AttributeError", "fatal"}

\* The tags and their indexing policies divide the same capacity into the
\* same entries and ways, and the number of sets is that of the cache whose
\* tags they are: a superblock tag covers as many lines as the cache's size
\* was multiplied by.
Policies(t) ==
    {The(t, f) : f \in {g \in DOMAIN resolved[t] :
                        g \in {"indexing_policy", "zcache_indexing_policy"}
                        /\ resolved[t][g].is = "object"}}
Sets(o) == The(o, "size") \div (The(o, "entry_size") * The(o, "assoc"))
CacheOf(t) == {c \in AllOf("Cache") : The(c, "tags") = t}

GeometryAgrees ==
    outcome = "built" =>
        \A t \in AllOf("BaseTags") : \A p \in Policies(t) :
            /\ The(p, "size") = The(t, "size")
            /\ The(p, "entry_size") = The(t, "entry_size")
            /\ \A c \in CacheOf(t) :
                  /\ The(p, "assoc") = The(c, "assoc")
                  /\ Sets(p) = The(c, "size") \div (64 * The(c, "assoc"))

\* "Base-delta compressors achieve 1-cycle latencies", "Assume 1-cycle
\* latencies" (bpc/Compressors.py:86, 307): for the block size of the system,
\* wherever the compressor hangs in the tree.
ClaimedOneCycle == DOMAIN DeltaClasses \cup DOMAIN WholeLineClasses
Cycles(o, perCycle, extra) ==
    ((8 * The(o, "block_size")) \div The(o, "chunk_size_bits")) \div The(o, perCycle)
    + The(o, extra)
OneCycleLatencies ==
    outcome = "built" =>
        \A o \in AllOf("BaseCacheCompressor") :
            ClassOf(o) \in ClaimedOneCycle =>
                /\ Cycles(o, "comp_chunks_per_cycle", "comp_extra_latency") = 1
                /\ Cycles(o, "decomp_chunks_per_cycle", "decomp_extra_latency") = 1

\* What is declared or given in two places, independently of each other, agrees.
ParametersAgree == GeometryAgrees /\ OneCycleLatencies
=============================================================================
