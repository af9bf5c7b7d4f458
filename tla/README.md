# A verification development for the compressed decoupled zcache

The repository adds a last-level cache to the gem5 simulator: a *zcache* (a skewed
cache that relocates lines, cuckoo fashion, to find a better victim), a *bit-plane
compressor*, and a data pool managed by a buddy allocator in which the compressed
copies live, so that a tag entry points to a block of 8, 16, 32 or 64 bytes instead of
owning 64. This directory models that code in TLA+, checks the models with TLC and
proves with TLAPS, for every size, that the allocator, the tag store, their composition, the replacement policy by itself and
in the tag store, the reservoir and the compressor are correct. Every request is proved to take a bounded number of steps,
and every byte of the pool to have at most one owner. The scripts that run and judge
the simulations are modelled and proved about too; those that configure them are model-checked.

All paths below are relative to `src/`.

## 1. The system and its parts

| part | source | state it keeps | operations |
|---|---|---|---|
| data store | `glue/decoupled_data_store.{hh,cc}` | `freeLists[4]` (segment indices per order), `pool` | `allocate`, `deallocate`, `write`, `read` (never called) |
| tag store | `zcache/zcache_tags.{hh,cc}` | the blocks (tag, valid, dirty), `pendingSwapChain` | `findBlock`, `accessBlock`, `findVictim` (walk), `insertBlock`, `doMoveBlock` |
| indexing | `zcache/zcache_index.{hh,cc}` | the H3 matrix, constant after construction | `extractSet`, `getPossibleEntries`, `getAlternativeLocations`, `extractTag` |
| compressed metadata | `glue/zcache_tags_new.{hh,cc}` | `blkDataPtr`, `blkAllocSize` per block | overrides of `insertBlock`, `invalidate`, `doMoveBlock`; `forceInvalidate` |
| glue | `glue/zcache_glue.{hh,cc}` | statistics only | `handleFill` (compress, allocate, fragmentation loop, store), `deallocatePoolSlot` |
| reservoir | `glue/frag_reservoir.{hh,cc}` | `bins[4][4]`, `lfsrState` | `processSampleEvent` (periodic), `getVictim` |
| replacement | `zcache/zcache_rp.{hh,cc}` | a timestamp per block, `globalTimestamp`, `accessCount`, `bucketSize` | `touch`, `reset`, `invalidate`, `getVictim` |
| compressor | `bpc/bpc.{hh,cc}` | none | `compress`, `decompress` |
| superblock tags | `bpc/compressed_tags.cc` | gem5's sectors | `findVictim` (co-allocation) |
| declarations | `bpc/Compressors.py`, `glue/ZCacheGlue.py`, `zcache/*.py` | parameters, defaults, proxies | resolved by gem5 when a script builds its system |
| verification | `functional_verify.py`, `check_stats.py` | the traffic; the lists of passed, failed, skipped scenarios | simulate a scenario; judge its `stats.txt` |
| full-system scripts | `x86-parsec-local.py`, `x86-parsec-zcache-only.py`, `cdzcache_parsec.py`, `x86_boot_checkpoint.py`, `run_bpc_sanity.py` | handlers of exit events | boot Linux, measure a region of interest, checkpoint |
| sweep | `run_bpc_parsec_sweep.sh` | two queues of benchmarks | start runs, report them |

How they interact. gem5's `BaseCache` is the caller, and everything it does for one
response runs in one event, without interleaving: `findVictim()` searches for a victim and leaves
the relocations it decided on in `pendingSwapChain`; `BaseCache` writes the victim back
and calls `invalidate()` on it, which gives its pool block back to the data store, *or
refuses*, because another request on the victim is outstanding, and drops the fill;
otherwise `insertBlock()` executes the relocations, each moving a pool pointer along with
its tag, inserts the line, and calls `handleFill()`. `handleFill()` compresses, asks the
data store for a block and, as long as that fails, takes a tag slot from the reservoir,
invalidates it and frees its block. Between two events, the reservoir's own event
samples one tag slot into a bin.

Around the simulator stand the scripts. A configuration script builds a tree of objects whose
parameters refer to each other through proxies, runs the guest, and reacts to exit
events. The statistics are dumped where a handler asks for it, and once more by gem5 when a process that has simulated exits;
`functional_verify.py` has no other dump. `check_stats.py` reads what the verification scenarios left, and the sweep runs one
full-system script after the other, or several at once.

### What is hard about it

There are no threads inside a simulation. What is hard is *state that one call leaves for another*: a chain
built before an eviction and executed after it; pool pointers that have to travel with
tags through relocations; reservoir entries that name a slot and are used long after; a
free list whose every error shows only several splits and merges later. The loops matter
as much: a walk that has three limits and keeps no set of visited slots, a merge that
climbs through four lists, an eviction loop with no bound of its own. In the scripts it is the
failure of one step of several: a guest command, a simulation, a directory, a file that is
missing or has two dumps in it; and the several runs of a sweep that overlap. The full list,
with the line where each hazard bites and the properties that would notice, is
`hazards` in `PROJECT.json`.

### What makes each part correct

* data store: no byte lost, none handed out twice; merging complete; `ALLOC_FAIL` only when
  there really is no aligned extent; contents stay.
* tag store: each line once, where a lookup finds it; no write lost; the chain legal; no eviction
  when there is a free slot in reach; relocation invisible to the outside.
* metadata and glue: pool blocks and tag entries in bijection, at each step of a chain;
  the copy belongs to the line; the loop terminates and spares the block being filled.
* reservoir: the coldest samples are kept, a victim was large enough when it was sampled
  (it may no longer be: section 6), a slot is given out once, every block is sampled.
* replacement: the timestamps order accesses up to one bucket, and follow the lines as they are moved.
* indexing: the ways are independent of each other.
* compressor: `decompress()` delivers what `compress()` copied from its chunks, which is the line if the glue packed it
  and half of it in gem5's own packing (section 6); a size that the data store accepts, the least that is right.
* declarations: every script that is run builds (one variant does not: section 6); what is given in two places agrees.
* verification: the exit code is 0 exactly if the last dumps are right, and no assertion depends on what
  the simulation is free to do.
* full-system scripts and sweep: at most one dump is left, and it is of the region of interest exactly if the run did not fail;
  success means measured;
  a sweep ends, with each benchmark run and reported.

## 2. Modules

| module | models | kind |
|---|---|---|
| `SegmentPool` | what the data store promises: aligned disjoint extents, failure only when none is free | abstract |
| `DecoupledDataStore` | the buddy allocator, one action per iteration of its loops | component |
| `DecoupledDataStoreProofs` | the theorems about it | proofs |
| `LineStore` | what a write-back tag store promises: lines come in clean, are written, leave one at a time | abstract |
| `ZCacheTags` | the zcache tag store over an arbitrary hash per way | component |
| `ZCacheTagsProofs` | the theorems about it | proofs |
| `CDZCache` | metadata, glue and reservoir over both (`EXTENDS ZCacheTags`, `DS == INSTANCE DecoupledDataStore`) | composition |
| `CDZCacheProofs` | the theorems about it | proofs |
| `BucketedLRU` | what the replacement policy promises: LRU up to one bucket of accesses | abstract |
| `ZCacheRP` | timestamps, buckets and the choice of a victim | component |
| `ZCacheRPProofs` | the theorems about it | proofs |
| `ZCacheLRU` | tags and policy together (`EXTENDS ZCacheTags`, `RP == INSTANCE ZCacheRP`) | composition |
| `ZCacheLRUProofs` | the theorems about it, from those about its two parts | proofs |
| `BPC` | the compressor and the decompressor, one action per plane and per doubling of the size | component |
| `BPCProofs` | the theorems about it | proofs |
| `SampledBins` | what the fill handler takes the reservoir for, and `CDZCache` assumes of it | abstract |
| `FragReservoir` | the reservoir with the sizes and timestamps it records, under blocks that change | component |
| `FragReservoirProofs` | the theorems about it | proofs |
| `SampleLFSR` | the generator of the sampling event | component |
| `H3Hash` | the construction of the hash functions, over 64-bit arithmetic | component |
| `StatChecks`, `CheckStats` | the parser and the assertions of `check_stats.py`; its main program | component |
| `FunctionalVerify` | the traffic of `functional_verify.py` through cache, MSHRs and glue, and the counters it leaves | component |
| `BenchmarkJob` | what one run of a benchmark promises to whoever started it | abstract |
| `ParsecRun` | the full-system scripts, against a guest that may fail | component |
| `BenchmarkSweep` | the sweep, over jobs | component |
| `Simulations` | the scripts about which something is proved: `FunctionalVerify`, `ParsecRun`, `BenchmarkSweep` and `CheckStats`, with the variables of each | side by side |
| `ScriptsProofs` | the theorems about them | proofs |
| `ParamDeclarations` | the classes with their parameters, as data | component |
| `Elaboration` | how gem5 builds and resolves what the scripts configure | component |
| `MCDecoupledDataStore`, `MCZCacheTags`, `MCCDZCache`, `MCZCacheLRU` | constants for TLC | MC |
| `MCUnits`, `MCScripts` | the components that work on their own, side by side | MC |

`MCUnits` (over `FragReservoir` and `BPC`) and `MCScripts` (over `Simulations`) are sums: a variable says which component runs, the variables of the
others stay in an initial state, and a property of a component holds in all of the sum's states. Nothing is
composed that the code does not compose; one model check covers several small state spaces.

Operators named `X_Something` and commented `mutant:` are deliberate errors, placed before
the operator `X` that they distort; nothing uses them. They are the sensitivity test of the properties: with one
in the place of `X`, the property named in `PROJECT.json` fails.

### DecoupledDataStore

`freeLists[k]` is the C++ list of the same name, as a sequence of segment indices
(push at the back, pop at the front, erase the first occurrence, as the code does).
`pc` says which loop is being executed, and `order`, `avail`, `ptr` are the locals.
`allocate()` is `AllocateFails`, or `Allocate` (choose `avail`), `splitOrder` once per
iteration, `AllocateReturns`; `deallocate()` is `Deallocate`, `Coalesce` once per
iteration, `DeallocateReturns`. `write()` fills the segments of one block with one value:
bytes are not told apart. `live` and `stored` are history: what callers hold and what
they wrote. `ALLOC_FAIL` is -1 (the code's `UINT32_MAX`): all that matters is that no
segment has that index. The environment frees and writes only blocks that it holds;
`CDZCache` discharges that assumption (`UsesStoreCorrectly`).

### ZCacheTags

A slot is a pair (set, way). Tags are lines, because the code's tag *is* the
block-aligned address (`extractTag` is idempotent). The hash is a constant function, any
function at all: the model holds for every H3 matrix, good or bad. The action names
follow the code's sections: `FindFreeHome` (fast path), `SeedWalk`, `StartLevel` (outer
loop test), `ExpandNode` (one fringe node), `EndLevel`, `SelectFree`, `SelectByPolicy`,
`BuildChain` (one parent), `ReturnVictim`, `MoveBlock` (one relocation), `InsertLine`.
`SelectByPolicy` lets the replacement policy name *any* candidate, so what is shown does
not depend on timestamps; `ZCacheLRU` makes the choice. `parentIdx` is 0 for a root (-1 in the code), and indices start at 1.
The code's allValid flag is the state predicate `AllValid`: nothing changes validity during the walk. The test
`altBlk == fb` is left out because the alternatives are in other ways than the node's own.
`EvictVictim`, `RefuseEviction`, `WriteHit`, `SnoopInvalidate` and the write-back are gem5's, modelled
from how this code is called; `owed` is the set of lines whose last write memory lacks.

### CDZCache

`gpc` is the point reached in `invalidate()` or `handleFill()`. A call into the store
is one step of `DS`, and the store's own steps follow (`StoreStep`) until it is idle.
`FreeVictim`/`EvictAndFree` and `FreeSnooped`/`SnoopAndFree` are the two halves of
`ZCacheTagsNew::invalidate()` (free the pool block; clear the metadata and the tag). `MoveWithCopy` is the overridden
`doMoveBlock()`. `handleFill(size)` takes the compressed size as an input: any size the
compressor may produce. `getVictim` may return any entry of the first non-empty
bin from the requested class up, because touches are not modelled here, and
`processSampleEvent` samples any block, into a free slot or over any entry, or does nothing: every
behaviour of the code's timestamps and of its LFSR is one of these
(`FragReservoir` implements `SampledBins`, which is this much of the reservoir). `BinSlots` is 4 for every bin in the code.


### ZCacheRP and ZCacheLRU

`ZCacheRP` has `touch`, `reset` (the same), `invalidate` and `getVictim` over any candidates. In `ZCacheLRU` the
entries are the slots of the tags, and the policy moves only when the tags call it: a hit touches (`accessBlock`), a
fill resets (`insertBlock`), an eviction or a snoop invalidates, `doMoveBlock()` invalidates the
source (`Relocate`) and then resets the destination (`Restamp`), which advances the access counter a
second time. The tags wait for `Restamp`: the two are one call in the code. `used` and `relocated` are history. `SelectVictim` asks the
policy for a victim among exactly the walk's candidates and lets the tags take that one. `TimestampIsBucket` and
`ImplementsBucketedLRU`, which are promises of the policy, are restated in `ZCacheLRU` of the policy as the tags drive it.

### BPC

`compress()` has two callers. The glue packs a line into chunks of 64 bits (`GlueChunks`); gem5's `Base::compress()`, which the
compression-only configuration uses, cuts it into pieces of `chunk_size_bits`, 32 unless a class says otherwise, and gives each piece a chunk of
its own (`toChunks`, external). `caller` says which it is, and `CopyWords` is the check of the total size, with its panic, and the `memcpy` of `blkSize` bytes. What
is left of the line after that is `Preserved`. A word is the set of its bits that are 1, a plane the set of words that have a bit: the shifts and
masks of `extractPlane()` and `reconstructWords()` become the two readings of one relation. The loops of
`compress()` are `CompressPlane` (per plane), `ClampSize` (the cap), `Pad` (per doubling) and `SetSizeBits`;
`decompress()` is `DecompressPlane` and `Deliver`. A raw plane that was never stored would be read
outside `rawPlanes`: an error for TLC, and excluded by `TypeOK` in the proof.

### FragReservoir, SampleLFSR and H3Hash

`SampleIntoFree`, `SampleOverWarmest`, `SampleRefused` and `SampleInvalid` are the ways through
`processSampleEvent()`; `FirstWarmest` is -1 when no candidate has a timestamp above 0, as `replSlot` is. Between
samples the blocks are touched, evicted and refilled, in buckets; the bins keep what they recorded. A block may be valid and have no copy: it is sampled with size 0, into the bin of the
smallest blocks. `dropped` is
history: what was refused or overwritten. `SampleLFSR` is the 16-bit Galois register with `Bitwise`'s exclusive or.
In `H3Hash` a 64-bit state is eight bytes and the multiplication of `lcgNext()` is done column by column with its carries, so
that the masks TLC draws are the masks the code draws from the same seed.

### The scripts

`CheckStats`: the files are sequences of lines, since a key may occur again in a second dump; a value is an integer, a ratio or
NaN. `int()` raises on NaN and `get()` on a missing key (`Readable`); both, like an assertion, fail the scenario.
`FunctionalVerify`: the cache is the set of its lines and the pool a number of 16-byte slots, because every line of this traffic is zero; victims,
samples and staleness are open. `CountLookups` and `CountFill` are the counters of `handleFill()`, in its order.
`ParsecRun`: a script is data (machine, guest commands, handlers, statements), and `Handle` is what gem5
does at an exit event: advance the script's generator if there is one left, or else its own default, which
resets or dumps again and goes on. `AtExit` is gem5's dump at the exit of the process, whether the script ends (`Finish`) or raises an exception
(`ReportROI`); it is left out if nothing ran since the last dump, if nothing was ever simulated (`Requires`), and if gem5 aborts (`Panic`). The guest runs its commands in turn whether or not they succeed.
`BenchmarkSweep`: `JOBS`, which the script takes from its environment, is a variable that is chosen at the start and never changes; 1 runs in the shell, under `set -e`, anything else through `xargs`.
`Elaboration`: a script is a sequence of creations and assignments. The first object that an object is
assigned to becomes its parent (`Adopt`), defaults are created in place (`CreateInPlace`), and then each object's
proxies are resolved (`Unproxy`); a misspelt field ends the build with `AttributeError`, a required parameter or a proxy that finds nothing with `fatal`.
Every concrete class of `ParamDeclarations` is also built on its own. The rules of parentage are gem5's, modelled as the comment of `functional_verify.py:130-131` relies on them.

## 3. Runs

| run | instance | what it shows |
|---|---|---|
| `store_sizes` | 1 chunk of 64 bytes, sizes 8, 16, 32, 64, no contents | `TypeOK`, `PoolAccounting`, `SplitAsserts`, `NoFreeBuddies`, `EmptyPoolIsWhole`, and `DecoupledDataStore` implements `SegmentPool` |
| `store_contents` | 2 chunks, sizes 32 and 64, two values | `ReadBack` |
| `tags_three_ways` | 3 ways, 7 lines on 6 slots, 4 levels, 16 candidates, 2 written lines | `TypeOK`, `Placement`, `NoDuplicateLine`, `NoLostWrite`, `RelocationAsserts`, `ChainIsLegal`, `EvictsOnlyWhenFull`, and `ZCacheTags` implements `LineStore` |
| `cdz_eviction` | 4 lines on 3 slots, 1 chunk, sizes 32 and 64, one reservoir slot per bin in use | `PoolIsOwned`, `CopyIsOfTheLine`, `FillTargetSurvives`, `UsesStoreCorrectly`, `RequestCompletes` |
| `cdz_ample_pool` | 64 bytes of pool per slot in use, sizes 16 and 64 | `NeverExhausted` |
| `policy_buckets` | 4 lines on 3 slots, buckets of 2 accesses, 9 accesses | `TimestampIsBucket`, `NeverLooksOlder`, `OldestUnlessRelocated`, and the policy implements `BucketedLRU` where the tags use it |
| `units` | compressor: both callers, lines of 16 words of 32 bits, each number of raw planes from 0 to 32, eleven caps; reservoir: 2 blocks of 0, 8 or 64 bytes, 4 bins of 2; generator: 65600 draws for 4096 blocks; hash: the three caches of the scripts (256 KiB of 16 or 4 ways; seeds 42 and the default), one of 64 KiB and thirteen small ones | `RoundTrip`, `SizeIsRight`, `KeepsTheColdest`, `VictimFits`, `FullPeriod`, `WaysAreIndependent`, and `FragReservoir` implements `SampledBins` |
| `scripts` | sizes of `functional_verify.py` divided by 1024; files with one or two dumps, each statistic damaged in turn; up to 2 regions of interest; six benchmarks, `JOBS` 1 and 2; every class built, and every script but `--variant cdzcache` | `ExitCodeIsTheVerdict`, `OnlyPinnedChecksFail`, `DumpCoversTheROI`, `AllDoneIsComplete`, `EveryScriptBuilds`, `ParametersAgree`, `ImplementsJob`, `EveryProgramEnds` |
| `cdz_lost_write` | 3 lines, the same pool, one line written | **violated**: section 6 |
| `cdz_stale_entry` | 3 lines, the same pool | **violated**: section 6 |
| `policy_rounding` | 3 entries, a fraction of 1/2 | **violated**: section 6 |
| `elaboration_cdzcache` | `cdzcache_parsec.py --variant cdzcache` | **violated**: section 6 |

What the less obvious properties say. `PoolIsOwned`: every block that the store has given out belongs to exactly one
valid entry, or to the call in progress, at each step of a relocation chain. `NeverLooksOlder`: wherever relocations took a line, its
stamp is not before its last use. `OldestUnlessRelocated`: the victim was used in no later
bucket than any line of the walk that stayed in place; of a relocated line nothing can be said, since `doMoveBlock()` stamps it
as just used. `RoundTrip`: `compress()` never panics, and what is delivered is the line as `memcpy` left it (`Preserved`), with every
raw plane read and none left over. `SizeIsRight`: the size that is reported is the least of 8, 16, 32, 64 that holds the encoding and obeys
the cap. `OnlyPinnedChecksFail`: whatever the cache evicts, samples or finds stale, no assertion of a scenario can
fail but those that pin the numbers of one recorded run. `DumpCoversTheROI`: no process leaves two dumps,
and the dump of a measuring script is of one region, from its start to its end on the measured core, exactly if the run did not fail. A run that fails after
it has simulated leaves the dump of its exit, which covers the boot or an unfinished region: a reader of `stats.txt` has to know the exit status.
`ImplementsJob`: a full-system script exits successfully only after dumping the region.

Why these bounds. One chunk contains all four orders, so every split and merge
path occurs (8 blocks of 8 bytes down to one of 64); chunks never merge with each other (`MAX_ORDER`), so
a second chunk only lengthens the lists, which `store_contents` has. With three ways a walk of 16 nodes over six slots
branches, meets most slots again and is cut inside a node; chains of all lengths up to
the level bound occur. In the composed
model 3 of the 8 slots are reachable, which leaves room for a relocation chain of
two, and one chunk cannot hold three lines, so that the fragmentation loop is the common case.
A bin below the smallest requested size is never read, and has no slots in these
runs. Nine accesses are more than four buckets of two, over walks that relocate (lines that hash alike are
interchangeable, hence the symmetry). The compressor runs at the code's own widths. Of its
2^512 lines the run takes those that differ in the number and the place of raw planes, which
is all that the size depends on; the proofs cover the rest. Two blocks fill a bin of two, refuse a third sample and overwrite, with
each other and with themselves; the sizes are the smallest, the largest and none. The generator and the masks are the code's own.
Divided by 1024, the scenarios keep the ratios of cache, sweep and pool: 4 lines, sweeps of 5
and 10, a pool of one 16-byte slot in scenario B; three ways, fewer than the lines of the cache, so that a line may be
evicted from a cache that is not full. MSHRs and bin slots are 2, the least that overlap.

Deadlock is checked in the runs of the store, the tags and the composition, whose environment can always issue
another request; it is not in the others: `policy_buckets` is bounded in its accesses, and the units and the scripts end.

Fairness. `RequestCompletes` is checked under `FairSpec`, weak fairness of
`Busy /\ CNext`: while a request is being served *some* step is eventually taken. This is
what gem5 gives: a handler is straight C++ in one event, and the sampling event cannot run in the middle of
it. Nothing obliges requests, snoops or samples to arrive. `ImplementsJob` and `EveryProgramEnds`
are checked under weak fairness of the steps of the one program that runs (`SProgress`): Python, the shell and the simulator do not stop by
themselves, the guest's commands and the runs of a sweep end, and a scheduled event is served. A sample of the reservoir and the
statistics of a run of the sweep are left out of it: neither is owed. The same assumptions are stated module by module as their `FairSpec`.

## 4. What is proved

`DecoupledDataStoreProofs` proves, for every `PoolBytes` that the constructor accepts, every
set of sizes and every set of values:

| theorem | property |
|---|---|
| `TypeCorrect` | `TypeOK` |
| `PoolIsAccountedFor` | `PoolAccounting` |
| `SplitNeverPopsAnEmptyList` | `SplitAsserts` |
| `CoalescingIsComplete` | `NoFreeBuddies` |
| `PoolBecomesWholeAgain` | `EmptyPoolIsWhole` |
| `ContentsSurvive` | `ReadBack` |
| `StoreImplementsSegmentPool` | `ImplementsSegmentPool` |
| `CallsReturn` | each iteration brings the return of a call nearer, and none has more than four |

`ZCacheTagsProofs` proves, for any numbers of ways (at least two), sets (at least three) and lines, any hash functions, any
`walk_levels` and `num_candidates`, and any victims the policy names:

| theorem | property |
|---|---|
| `TypeCorrect` | `TypeOK` |
| `LinesAreInPlace` | `Placement` |
| `LinesAreUnique` | `NoDuplicateLine` |
| `WritesAreKept` | `NoLostWrite` |
| `AssertionsHold` | `RelocationAsserts` |
| `ChainsAreLegal` | `ChainIsLegal` |
| `EvictionsAreNeeded` | `EvictsOnlyWhenFull` |
| `TagsImplementLineStore` | `ImplementsLineStore` |
| `MissesEnd` | each step of a miss brings its end nearer; at most `3 * num_candidates + 2 * walk_levels + 10` |

`CDZCacheProofs` proves of the whole cache (`CSpec`, of which `FairSpec` is a special case), for any such tags, any
pool, any sizes that a line may be compressed to, any reservoir and any data:

| theorem | property |
|---|---|
| `PoolBelongsToTheTags` | `PoolIsOwned` |
| `CopiesStayWithTheirLines` | `CopyIsOfTheLine` |
| `LoopSparesItsTarget` | `FillTargetSurvives` |
| `ContractOfTheStoreIsKept` | `UsesStoreCorrectly` |
| `TagsStayConsistent` | `Placement` and `NoDuplicateLine`, in the composition |
| `RelocationsStayLegal` | `RelocationAsserts`, `ChainIsLegal` and `EvictsOnlyWhenFull`, in the composition |
| `AmplePoolSuffices` | `NeverExhausted`, if `PoolIsAmple` |
| `AmpleCacheIsALineStore` | if `PoolIsAmple`: `CSpec` implies the `Spec` of the tags, `ImplementsLineStore` and `NoLostWrite` |
| `WritesLostOnlyByForcedEviction` | a write is lost in no step but the forced eviction of the block that holds it |
| `ForcedEvictionsAreNeeded` | `allocate()` fails only when every aligned extent of the size is reached into by some entry's block |
| `EveryByteHasOneOwner` | each segment belongs to one valid entry, or is free or on its way |
| `StoreServesTheCache` | `ImplementsSegmentPool` and `EmptyPoolIsWhole` of the store in the cache |
| `EmptyCacheHasAWholePool` | when the last line has left, all 64-byte chunks are free and nothing smaller is |
| `RequestsEnd` | the safety half of `RequestCompletes`: each step of a request brings its end nearer, within a bound |

`ZCacheRPProofs` proves, for any set of entries and any fraction, `TypeCorrect` (`TypeOK`),
`TimestampsAreBuckets` (`TimestampIsBucket`) and `PolicyImplementsBucketedLRU`.

`ZCacheLRUProofs` proves of the tag store with its policy (`LSpec`), for any geometry, any hash functions, any limits of the walk, any
bucket size and any number of accesses:

| theorem | property |
|---|---|
| `TagsInTheComposition` | `LSpec` implies the `Spec` of `ZCacheTags`: all its theorems hold with this policy |
| `StampsAreBuckets` | `TimestampIsBucket` |
| `VictimsAreLRUUpToABucket` | `ImplementsBucketedLRU` |
| `LinesNeverLookOlder` | `NeverLooksOlder` |
| `VictimIsOldestUnlessRelocated` | `OldestUnlessRelocated` |

`FragReservoirProofs` proves, for any blocks, any number of candidates per bin and any timestamps:

| theorem | property |
|---|---|
| `ColdestAreKept` | `KeepsTheColdest` |
| `VictimIsLargeEnough` | `VictimFits` |
| `BinsAsPromised` | `ImplementsSampledBins` |

`BPCProofs` proves, for any numbers of words and bits, any block size, any lines and any caps, `TypeCorrect` (`TypeOK` of `BPC`) and
`LineRestored` (`RoundTrip`): no call panics, what was copied from the chunks comes back (the line, if the glue packed it; its first half between zeros, if
gem5 did), and no raw plane is missing or left over. `SizeReported` (`SizeIsRight`) is for
blocks of 8, 16, 32 or 64 bytes (`BlockIsAGranularity`): a line that cannot be compressed is given the size of the block, and the
least of the four sizes that holds it has to be that.

`ScriptsProofs` proves, at the sizes of the code and at any fraction of them that is whole:

| theorem | property | for any |
|---|---|---|
| `OnlyPinned` | `OnlyPinnedChecksFail` | number of MSHRs, ways and samples, whatever is evicted |
| `SweepIsComplete` | `AllDoneIsComplete` | two groups of benchmarks, any number of runs at once |
| `RunDumpsTheROI` | `DumpCoversTheROI` | host, number of regions that are announced and abandoned |
| `RunIsAJob` | the safety half of `ImplementsJob`: its `Spec` without the fairness | the same |
| `VerdictOnTheFinalDump` | `ExitCodeIsTheVerdict` | files: any lines, any number of dumps, any statistic missing or NaN |

The assumptions are `PoolAssumption` (what the constructor panics on), `SizesAssumption`
(what `sizeToOrder` panics on), `ValueAssumption`, and that callers free and write only
blocks they hold (which `ContractOfTheStoreIsKept` proves of the callers in this cache, where `StoreAssumption` stands for the
first two); for the tags, what the constructors of the tags and of the indexing policy check, and that the hash of a line is a set of
its way (`HashAssumption`); for the policy, that there is at least one entry and the fraction is a
ratio of natural numbers (`PolicyConstants`, a hypothesis of the theorems about the policy alone; in `ZCacheLRU` the entries are the slots, and
only the fraction is left to assume, `PolicyAssumption`); for the reservoir, that it has four bins of at least one candidate, and sizes among 0 and those of the
data store (`ReservoirAssumption`); for the compressor, that the widths are natural numbers and that the words of a
line take up a block, which is a whole number of chunks (`BPCAssumption`); for the scripts, that the scale
divides 1024, that NaN is no number, that a phase is long enough for its sweep (`PhaseAssumption`, computed from the periods of `functional_verify.py`), and that the
two groups of the sweep name each benchmark once (`SweepAssumption`, true of the lists of the script), and that a file is a sequence of lines (`FilesAssumption`). Except for the two hypotheses
named here (`PolicyConstants` and `BlockIsAGranularity`) and `PoolIsAmple`, all are ASSUMEs that TLC evaluates in the runs.

The argument for the data store. The inductive invariant `IInv` is `TypeOK`, the four parts of
`PoolAccounting` (`Disjoint`, `Separate`, `Covered`, `NoDuplicates`), `SplitAsserts` and
`NoFreeBuddies`. Neither part is inductive alone: that a split's halves do not
overlap a free block needs `Disjoint` of the parent; that erasing one occurrence of
the buddy removes it from the list needs `NoDuplicates`; that `NoFreeBuddies`
survives a push needs `SplitAsserts` (the lists between the request and the
source are empty). Each action has a lemma per conjunct. The arithmetic (a block
and its buddy are the halves of an aligned block of the next order; blocks of different orders nest or are
disjoint) is proved once, order by order, in the lemmas at the top of
the module. `PoolBecomesWholeAgain` follows from `IInv` without induction over steps: if nothing is held, `Covered`
puts every segment in a free block, and a free block below the top order would have, next to it, a free buddy.
`ContentsSurvive` adds `ReadBack` to `IInv`. For the refinement the
crucial lemma is `FreeExtentLemma`: if a whole aligned extent of order k is outside the callers' blocks then
some free block of order k or above contains it, because `NoFreeBuddies` leaves it no way
to be free only in smaller pieces. So when all lists from k up are empty no such extent exists, which is
`AllocateFails`.

The argument for the tag store. What is wanted of the tag array (`TagInv`: each line in its place and only once,
the request absent, invalid blocks clean) is inductive except for the two steps of `insertBlock()`, which need the chain
to be legal when it is executed (`ExecInv`). That is decided much earlier, by the tree of the walk (`WalkInv`). `NodesLegal`: a node is a
slot of the missing line, or an alternative of its parent's line. `BreadthFirst`: everything that can be reached from the nodes before a
node's parent is listed before the node. The walk keeps no set of visited slots, and a slot may occur in the tree any number of times; but the
victim is the *first* node with its slot, and by `BreadthFirst` so is then its parent (`ParentIsFirst`): if an earlier
node had the parent's slot, the child's slot would be listed before the child. So every node on the chain is the first with its slot, and the chain
is injective. The same fact, and `PassedAreFull` (as long as there is room, nodes that the walk has passed have all
their alternatives in the tree), give `EvictsOnlyWhenFull`: what can be reached from the chain is in the tree, and the
whole tree is valid. The length of the chain is bounded through a depth function on the nodes (`IsDepth`), which each level
extends by one. In `ExecInv` the part of the chain from `i` on is legal for the tags as they are; a relocation
changes two slots that occur nowhere in the rest, because the chain is injective. That no write is lost is no part of `IInv` and is
proved from it line by line (`WriteIsKept`), because the rest must also hold in the cache whose fragmentation loop does lose writes
(section 6), and there the other lines must stay safe. For the refinement, a block that leaves without being
dirty leaves `owed` as it is, which by `NoLostWrite` is what taking the line out of it gives (`BlockLeaves`).

The argument for the composition. The invariant `CInv` is the tags' `IInv`, the store's `IInv` with `ReadBack`, and what links
them: `Points` (at each point of `invalidate()` and `handleFill()`: which call of the store is in progress and for what order, that the block being
invalidated has a copy, that the one being filled is valid and has none), `PoolIsOwned`, and `Contents` (the store was last given, for
the block of each owner, the data of the owner's line). Nothing is proved again about either part. A step of the composition is a step of the tags or leaves them
alone, except `ForceEvict`, which drops an entry between two requests, where only `TagInv` has anything to say (`TagsKeep`). It is also a step
of the store or leaves it alone, because what the glue frees or writes is `live` by `NoPoolLeak` (`StoreIsUsedCorrectly`); so
the store's invariant carries over. The store of `CDZCache` and the instance of `DecoupledDataStoreProofs` are two instances of one module with the
same substitutions, which `SameStore` checks action by action. What remains is who owns what, one lemma per action; the block in transit
(`InTransit`) bridges the steps at which neither the tags nor the free lists have it. A fresh block of `allocate()` collides with no owner's
because it came from a free list, and the store keeps those apart from `live` (`Separate`). `CopyIsOfTheLine` is then `Contents` and `ReadBack` together.

`AmplePoolSuffices` assumes `PoolIsAmple`: 64 bytes of pool for each slot that some line may be in (the scripts that expect no failure give the
pool the size of the cache). It is a count. A failed `allocate()` leaves the lists from the requested order up empty (`FailedForWant`), so by the store's
`FreeExtentLemma` every chunk of 64 bytes meets a block in `live`, that is, an owner's; a block lies in one chunk, so there are at
least as many owners as chunks; but owners sit in used slots, and the slot being filled is one of those and owns nothing.

What is lost, and when. `WritesLostOnlyByForcedEviction` says what section 6 leaves open: how bad it is. A line is safe (`WriteIsSafe`) when memory has its last
write or it is cached and dirty in its place; a step of the tags keeps every safe line safe, and `ForceEvict` can only lose the line of the block it drops
(`ForcesOut`). With an ample pool there is no such step, so every step of the cache is one of the tags, and `AmpleCacheIsALineStore` gets the tags' theorems for nothing.

The arguments on the pool put the two invariants together. Blocks in `live` are disjoint from each other and from what is free, and by `PoolIsOwned` they are the blocks of the
owners and the one in transit: hence `EveryByteHasOneOwner`, and, when there is no line and therefore no owner, `EmptyCacheHasAWholePool`.
`ForcedEvictionsAreNeeded` is `FreeExtentLemma` with the empty lists of `FailedForWant`.

Why a request ends. Three measures, each of which every step of its part decreases. A call of the store: the lists still to be climbed or
descended (`CallWork`, at most 4). A miss (`Work`): the fringe nodes not yet expanded, of which there are no more than `num_candidates` although slots
repeat; the levels left; the parents left, since `idx` falls; the relocations left (`InBounds` is the invariant it needs). A request (`StepsLeft`): 14 for each entry of the reservoir,
which a round of the fragmentation loop gives up, stale or not, and which nothing fills before the request is done; what is left of the round; and the two other measures. With
the code's four bins of four slots that makes at most `3 * num_candidates + 2 * walk_levels + 246` steps. The measure is 0 exactly when nothing is being served.
What remains of `RequestCompletes` is that some step is always possible and that it is taken, which is ENABLED and fairness.

The argument for the policy. `TimestampIsBucket`, with the fact that the bucket size never
changes once set (`BucketFixed`), is inductive given `NextQuotient`: the quotient of
`accessCount` by the bucket size steps exactly when the remainder is 0. That victims
are old enough is then `QuotientOrder`.

The argument for tags and policy together. A step of the two is a step of each or leaves it alone (`EveryStepOfTheTags`,
and the same for the policy, whose two instances `SamePolicy` identifies action by action), so both invariants hold. What links them is
`UseIsRecorded`: the access recorded for a block is the last one of its line, or a later one if the line has been relocated since. Between
the two halves of `doMoveBlock()` it fails for the block that waits for its stamp; `Unstamped` says that there is at most this one, that it is
valid and that its line is a relocated one. A stamp is the quotient of the recorded access by the bucket size, so `NeverLooksOlder` is the order of
quotients. `VictimIsLeast` keeps what `getVictim()` found until the chain is executed; nothing is stamped in between. The two together
give `OldestUnlessRelocated`, in which the exception is exactly the second half of `UseIsRecorded`.

The argument for the reservoir. The bins are judged by what they recorded, so no invariant relates them to the blocks. `CandidatesInPlace`: a candidate is in the bin of the
size it was sampled with, and a slot without one is as cleared. `DroppedWhenFull`: a bin has turned a
sample away, or overwritten one, only if it is full, and any request that is served from it makes room and forgets what was dropped; so what is inserted into a free slot has nothing to
be compared with, and what is inserted over a candidate is colder than the first of the warmest, which is then dropped (`KeepsTheColdest`). `VictimFits` is
the order of the bins' sizes.

The argument for the compressor. Either packing yields at least `blkSize` bytes (`EnoughChunks`), so the copy never panics, and what it takes from them is the
line or, of gem5's, every second word of the copy the next word of the line (`CopyPreserves`); this is arithmetic on indices (`PairItems`). While the planes are decoded, the invariant `IInv` says of every plane already
encoded which tag it got and, if it was raw, at which place of `rawPlanes` it is (`Stored`: the number of raw tags before it); that
the planes decoded so far are those of the line (`Decompressing`); and that both loops hold the
same previous plane at the same bit (`InStep`). `DecodeEncode` (what is decoded with the same previous plane is what was
encoded) gives the step, and `Reconstruct` turns all planes decoded into the words that were copied. `ClampSize` and `Pad` change the reported size and nothing that is decoded, which is
why the size may be anything. For the size itself, `SizeSoFar` says of the loop that pads it that every granularity it has passed is `TooSmall`,
for the encoding or for the cap: it passes one only by doubling it. It cannot pass 64, since the encoding was clamped to the block and no cap asks for more than the block.

The argument for the scripts. *The traffic* (`TrafficInv`). The first sweep misses throughout, since a line is cached only after it was asked for. What the second one hits was
cached when it began, ahead of the generator; a line that is filled later is behind it. So hits and cached lines ahead together are never
more than the cache has lines (`HitsWereCached`), and a sweep has more. Each miss ends in one fill, each fill pads the same, and a reservoir request that
is not served leaves a line without a copy for good (`Filled`, `Lookups`); in scenarios A and C the pool holds the whole cache, and no request is ever made (`AmplePool`). The assertions that
are not pinned follow by arithmetic at the final state. *The sweep* (`SweepInv`). The queue is what still waits of the present group, the group before it has ended, and what has ended has been
reported once; no benchmark is in two groups, which is where the groups being disjoint is needed. *A full-system run* (`SimInv`). The handlers of the end of a region switch nothing off: they dump and stop
the simulation, so nothing runs after the dump and the exit adds none (`machine.dumped`); without a region the exit's dump, if any, is the only one, and comes with an error. While there is no dump
the machine that is in a region was reset when this one began, and has run the measured core alone
(`OneRegion`); statements after `run()` are reached without an error only after it. The boot script announces no region and saves only
a guest that has run a command; the exit makes its only dump (`NoRegion`). That the run is a job is read off the same invariant step by step. *The check* (`CheckInv`). Each scenario asked for is still to be checked or in exactly
one of the lists, according to what the parser makes of its file. The parser is a fold over the lines, that is, a function on the sets of line numbers that is determined by
its values on smaller ones; `ParserKeepsTheLast` shows by induction over these sets, which inclusion orders well (`SubsetInduction`), that it maps every key that
occurs to the value in its last line. An assertion reads the statistics of its scenario only (`FailuresReadTheKeys`), and none passes while
a statistic that has to be a number is NaN (`NoFailureIsANumber`); so a scenario holds exactly if its final values are good (`HoldsIfGood`).

## 5. What is only model-checked, and what is not modelled

Only model-checked, on the instances of section 3:

* liveness, which is out of the prover's reach: `RequestCompletes` (of which `RequestsEnd` proves all but that a step is always enabled, and taken),
  `EveryProgramEnds`, and the fairness half of `ImplementsJob`;
* `FullPeriod`, because `SampleLFSR` needs `Bitwise`, and because it is one computation of 65535 steps;
* `WaysAreIndependent`, which is about the masks that are drawn from concrete seeds, and nothing that holds of any masks;
* `EveryScriptBuilds` and `ParametersAgree`: `Elaboration` descends the tree of objects with recursive operators, over the scripts as data.

Not modelled: the other statistics of the cache; partitioning; the secure bit (it is part of the
key and only doubles the set of lines); the uncompressed line data gem5 keeps beside
the pool (moved by the same `memcpy` as the tag); latencies; upper-level caches.
Superblock tags (`bpc/compressed_tags.cc`) are a copy of a file of gem5 that also registers tag extractors (`init.sh:4`), used only by the
compression-only configuration; when blocks may share a superblock, and how one is inserted and found, is decided in gem5's `SuperBlk` and
`SectorTags`, which are not here. `bpc_test.py`, `zcache_test.py` and `cdzcache_test.py` run a short simulation and print;
`init.sh` copies files. Of the declarations, latencies matter only to `OneCycleLatencies`; descriptions and build lists are left out.
The order of gem5's `startup()` calls, which give the glue to the tags and the tags to the glue, is gem5's; the model starts after them.
Two hazards have no property (`PROJECT.json`): the counters that `forceInvalidate()` bypasses, and the size of a copy after a
write.

## 6. Where code and documents disagree

* `cdz_lost_write`. The paper says of the eviction that the reservoir triggers: "it is a
  simple forced writeback-and-invalidate" (`latex/cdzcache.tex:131-132`).
  `ZCacheTagsNew::forceInvalidate()` (`glue/zcache_tags_new.cc:63`) invalidates and writes
  nothing back. The run shows a line written, then evicted by the loop of another fill:
  its write is nowhere.
* `cdz_stale_entry`. The guard of the fragmentation loop is said to skip entries whose
  block was "invalidated or re-inserted since it was sampled"
  (`glue/zcache_glue.cc:137-138`), and `getVictim()` to return a "candidate with allocSize >=
  sizeBytes" (`glue/frag_reservoir.hh:36`). The guard (line 139) notices a block without a copy, not
  one that was filled again: a line smaller than the request is evicted, which may free too
  little and costs a further eviction.
* `policy_rounding`. The bucket is documented as `max(1, round(fraction * numEntries))`
  accesses (`zcache/ReplacementPolicies.py:186`); the code truncates (`zcache/zcache_rp.cc:37`): 204
  instead of 205 with the 4096 entries and the fraction 0.05 of the test scripts.
* `elaboration_cdzcache`. `cdzcache_parsec.py:149` gives the reservoir a `sample_interval`; the parameter that
  `glue/ZCacheGlue.py:26` declares is `sample_interval_ticks`. The variant that the usage line
  of the script runs cannot be built.

Seen in the models, but not worth a run of their own:

* `bpc/bpc.hh:49` calls a cap of 1 uncapped; the floor is then the whole block (`RatioIsCapped`). The value that leaves the size alone is 0.
* `glue/frag_reservoir.hh:36` promises "the coldest candidate"; `getVictim()` takes the coldest of the first class that has any (`VictimFits`).
* The same line promises "allocSize >= sizeBytes". A block whose fill found no room in the pool is valid, is sampled with size 0 and lies in the bin of 8 bytes,
  so a request for 8 bytes may be given a block that has nothing to free. The guard of the loop (`glue/zcache_glue.cc:139`) skips it and asks again.
* `zcache/zcache_tags.hh:8` speaks of the globally-oldest candidate; a relocated line looks just used, so an older one may be kept (`OldestUnlessRelocated`).
* `functional_verify.py:53` gives scenario B a pool of 16 KiB; `check_stats.py:129` speaks of 64 KiB.
* `check_stats.py:246-247` would have a leak of pool slots show in the padded bytes; they are counted at each fill before
  the allocation, whatever becomes of it (`CountFill`), so no leak can change them.
* `x86-parsec-local.py:169-171` says that the rest of the benchmark is executed after the region; the handler of the region's end yields `True`, and
  the simulation ends there. A benchmark that announces no region runs on to `m5 exit`, after which `get_roi_ticks()[0]` fails (`ReportROI`).
* `bpc/bpc.cc:46-60` says that the total size of the chunks must match the block size, and truncates when it is larger. With the `chunk_size_bits` of 32 that `BPC`
  inherits (`bpc/Compressors.py:41-43`), gem5 hands over 16 chunks of 64 bits, each with one word of the line in it; the first 8 are copied, so half of the line is lost and the rest is
  interleaved with zeros, which compress well. Only the glue's packing is lossless (`Preserved`). gem5 keeps the uncompressed line and uses only the size.
* When a guest fails before or inside its region, `stats.txt` holds gem5's dump at exit, over the boot or over part of a region, although the scripts speak only of dumping at the region's
  end (`cdzcache_parsec.py:9`); nothing in the file tells it from a measured region (`DumpCoversTheROI`).
* `functional_verify.py:73-76` spaces the accesses of scenario C so that `pendingSwapChain` "is never overwritten between findVictim and insertBlock". gem5 calls both for one response in
  one event, so overlapping misses cannot overwrite it, and scenarios A and B, whose accesses come every 100 ticks, do overlap. What may come between the two is a refused eviction, which drops the fill; the next
  `findVictim()` clears the chain (`zcache/zcache_tags.cc:145`). `RelocationAsserts` and `ChainIsLegal` do not rest on the spacing.
* `run_bpc_sanity.py:29-30` caps the tags at 2 and leaves the compressor at 0; `bpc/Compressors.py:336-337` asks for the
  same value on both.

## 7. Plan

Done, with proofs: the data store, the tag store, the policy, the tags with their policy, the composition of
tags, store, glue and reservoir, the reservoir by itself, the compressor, and the scripts that simulate and judge. Done, model-checked only: the generator of the reservoir, the
hash functions, the declarations. What is left:

1. The order of replacements in the composition: `CDZCache` leaves the choice of a victim from the reservoir open, and
   `BinsAsPromised` is the theorem that would let the timestamps be put in.
2. `CompressedTags` (superblock co-allocation), if gem5's `SuperBlk` and `SectorTags` come with it.
