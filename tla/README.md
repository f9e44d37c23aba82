# Compressed memory partitions of GPGPU-Sim: a TLA+ development

The repository is a fork of GPGPU-Sim in which every memory partition compresses
the blocks that travel between its L2 and its DRAM. A partition samples the data
it reads, builds a Huffman (or Shannon-Fano, or Shannon) codebook from the
sampled symbols, rebuilds it periodically, and keeps the burst count of each
compressed block in a metadata cache that is looked up before every read. This
directory models that addition, the L2 slices above it, and the two threads that
drive the simulator, in TLA+; the modules are checked with TLC, and their safety is
proved with TLAPS.
Paths below are relative to the root of the repository (`gpgpu-sim/` stands for
`src/gpgpu-sim/`).

## 1. Inventory

| Component | Source | State | Operations | What makes it correct |
|---|---|---|---|---|
| Frequency table | `gpgpu-sim/huffman.cc` 1-255 | symbol -> count, two size thresholds | `update_frequency`, `evict_entries`, `get_top_frequencies`, `scale_down` | bounded size; no zero count reaches a generator |
| Code generators, compressor | `huffman.cc` 290-888 | `m_codes`, `m_max_code_length` | `generate_{huffman,shannon_fano,shannon}_codes`, `make_canonical_codes`, `compress_data_block` | codes are decodable and as short as promised; a burst holds its block |
| Codebook life cycle | `l2cache.cc` 137-280, 585-605, 783-805; `gpu-sim.cc` `cycle`, `next_clock_domain` | sampling FIFO, pending rebuild, intervals, snapshots | `enqueue_sampled_symbols`, `sampling_cycle`, `start_`/`complete_dynamic_codebook_rebuild`, initial build | every boundary rebuilds, from the table of the boundary; statistics have an interval |
| Credit arbitration | `l2cache.cc` 395-470 | private and shared credits, last borrower | `has_credits`, `borrow_credit`, `return_credit` | no pool below zero or past its limit; bounded requests in flight |
| Memory partition | `l2cache.cc` 560-1160, part of `dram.cc` | a dozen queues, the mutable `mem_fetch` | the steps of `dram_cycle`, `set_done` | a request is never lost, duplicated, or returned altered; it is retired |
| Metadata cache | `gpu-cache.cc` (`tag_array`, `mshr_table`, `data_cache`, ports) | tags of a set, MSHRs, miss queue, data port | `access`, `fill`, `next_access`, `cycle` | a read is answered once; a fill is always awaited; forward progress |
| L2 sub partition | `l2cache.cc` 1239-1470, 1604-1731 | request tracker, ROP queue, four queues | `push`, `pop`, the parts of `cache_cycle`, host copies | `busy()` is exact; pushes have room; every request is answered |
| L2 data cache | `gpu-cache.cc`, `gpu-cache.h` 224-345 | lines of four sectors, MSHRs, remembered ways, miss queue | lazy-fetch writes, reads, fills, evictions | what hits is complete; what was written is kept; a fill finds its reservation |
| Streams and threads | `src/stream_manager.cc`, `src/gpgpusim_entrypoint.cc`, calls of `libcuda/cuda_runtime_api.cc` | stream queues, events, kernel map, flags, locks, exit semaphore | `push`, `operation`, `destroy_stream`, `synchronize`, the simulation thread's loop | CUDA's order; a return from `synchronize` means idle; nobody waits for ever |
| Similarity cache | `similaritycheck.{h,cc}` | LRU of line contents | `check_and_update` | never reached: nothing fills its queue |
| DRAM timing, FR-FCFS | `dram.cc`, `dram_sched.cc` | bank states, row queues | `cycle`, `schedule` | no request starves |
| Scoreboard, interconnect | `scoreboard.cc`, `local_interconnect.cc` | reserved registers; buffers | reserve, release; push, advance | releases match; arbitration is fair |
| Functional PTX, power, BookSim, runtime shims | `src/cuda-sim`, `src/gpuwattch`, `src/intersim2`, `libcuda` | - | - | inherited or vendored; not planned |

**Interaction.** `gpgpu_sim::cycle` advances whichever clocks tick next. On a DRAM
tick it calls `memory_partition_unit::dram_cycle`, which takes one request from
an L2 queue if there is a credit, samples it, routes it to the metadata
translation, the compressor or straight to the DRAM, moves each internal queue by
one step, and delivers at most one response. The same `mem_fetch` object is, in
turn, the L2's read, a read of metadata, and a shorter read of compressed data.
Above the partition, on an L2 tick, each sub partition takes a packet from the
interconnect, splits it into sectors, and runs `cache_cycle`. All of this runs on
one thread; what is hard is the *interleaving by queue*: retries, merges, full
queues, two clocks, fills that arrive after their line has changed, and a rebuild
that spans hundreds of cycles while requests continue.

The application runs on another thread. Its CUDA calls push operations to streams
and spin until streams are empty; the simulation thread takes operations off the
streams, starts kernels and calls `cycle` while the GPU is active. The two meet in
`m_lock`, `g_sim_lock`, a lock per stream and plain flags.

The hard behaviours are listed, each at its line, under `hazards` in
`PROJECT.json`. Those without a property have a note that says why.

## 2. Modules

| Module | Models | Built on |
|---|---|---|
| `FrequencyTable` | the table, and a rebuild as the table sees it | - |
| `PrefixCodes` | the three generators step by step, canonical codes, the compressor's size arithmetic | - |
| `Codebook` | sampling FIFO, initial build, delayed rebuilds, intervals, both clocks | `FrequencyTable` |
| `Requests` | the set of requests that the next modules share | - |
| `Arbitration` | operations of `arbitration_metadata` | `Requests` |
| `DramCredits` | abstract specification: each request borrows one credit and returns it once | `Arbitration` |
| `MetadataCache` | operations of the read path of `data_cache` on one set | `Requests` |
| `MetadataPath` | the metadata cache under `dram_cycle`'s retries and a fixed latency | `MetadataCache` |
| `MemPartition` | all of `dram_cycle`, with `set_done` and an abstract DRAM | `Arbitration`, `MetadataCache`; refines `DramCredits` |
| `SectorCache` | operations of the L2's `data_cache`: sectors, lazy-fetch writes, fills by way | - |
| `SubPartition` | `memory_sub_partition`: `push`, `pop`, `cache_cycle`, the tracker, with memory and copy engine around it | `SectorCache` |
| `StreamOrder` | abstract specification: what streams promise an application | - |
| `StreamManager` | the application's thread and the simulation thread | refines `StreamOrder` |
| `QueueLemmas` | lemmas about lists that serve as queues: what is in them, once or several times; the least element of a set of numbers | - |
| `CodebookProofs` | theorems of `FrequencyTable` and `Codebook` | `Codebook` |
| `PrefixCodesProofs` | theorems of `PrefixCodes`, and what they need of powers, sums over sets and prefix codes | `PrefixCodes`, `QueueLemmas` |
| `MetadataCacheProofs` | lemmas about each operation of the metadata cache | `MetadataCache`, `QueueLemmas` |
| `MetadataPathProofs`, `MemPartitionProofs` | theorems; the second has those of `DramCredits` too | `MetadataCacheProofs` |
| `SubPartitionProofs` | theorems of `SubPartition`, lemmas about `SectorCache` | `SubPartition`, `QueueLemmas` |
| `StreamManagerProofs` | theorems, with the refinement of `StreamOrder` | `StreamManager`, `QueueLemmas` |
| `MC*` | constants for TLC | the module they are named after |

How state and actions correspond to the code:

* **One call is a sequence of stages.** `Codebook`, `MetadataPath`, `MemPartition`
  and `SubPartition` have a variable `stage` that walks through the body of
  `gpgpu_sim::cycle`, `dram_cycle` or `cache_cycle` in the order of the code; each stage is one
  action. Other actors (the L2, the clock) act only between two calls. Variables
  have the names of the members they stand for.
* **`FrequencyTable`.** Counts are exact up to `MaxCount`. Where `std::sort` or
  the hash order decides between equal counts, every choice is a step. The
  `operator[]` that reads the return value of `update_frequency` re-enters a
  symbol that was just evicted, and the model does too. `m_codes` records the
  count each code was derived from.
* **`PrefixCodes`.** A Huffman node is the function from its leaves to their
  codes below it, so popping two nodes and pushing their parent is one action;
  a call of `shannon_fano_encode` is a run of symbols and a code prefix, and `calls`
  is the stack of calls still to be made. Probabilities are exact fractions: the rounding of
  `std::log2` on doubles is not modelled. A rebuild ends with `scale_down(2)`.
* **`Codebook`.** `core_time` and `dram_time` are the next ticks relative to now;
  `cycle` wraps at the end of an interval because only its phase matters then;
  `ready_cycle` becomes a countdown on core ticks. Requests are arbitrary. Of a snapshot
  the `top_entries` are kept, the `SnapshotSize` (`top_k` = 10) most frequent ones; the
  sort that finds them repeats the one for the generator on the same table, so ties
  fall the same way.
* **`MetadataCache`.** A line is named by the block it holds, which is sound
  because a reserved line is never replaced. Any replaceable line may be the
  victim. Reads only, as the partition issues no writes; an atomic read marks
  its line modified, and evicting that line creates a writeback.
* **`MemPartition`.** Queues are one function `q` from names to sequences. Of
  `mem_fetch` the fields that `dram_cycle` rewrites are kept: the metadata flag,
  which address, which size, `m_compressed`. Latencies are open: a head is ready
  or `Stall` is taken. The DRAM is a set of waiting and a set of served requests
  completed in any order. Of the codebook only the progress to the first build
  is kept. A metadata writeback has the chip and the sub partition of the read that
  evicted its line. Where the program would end, `stage` becomes `no_interval`
  (`back()` of an empty vector).
  `EarlyWriteBack` is an assumption on the workload: may the L2 write back before
  the partition has sampled a read? It is true in `mem_partition_cold_write` only.
* **`SectorCache`, `SubPartition`.** A packet is a model value with a block, a first
  sector and a size; a request is the part of a packet in one sector. A line is
  named by its way, because a fill is applied to the way that the miss remembered
  (`m_extra_mf_fields`), whatever that way holds by then. Three things are not in
  the code: the field `complete` of a sector (have all its bytes been fetched,
  written or copied in?), the set `unwritten` (sectors whose newest bytes memory
  lacks), and `After`, the order in which the program issues its packets.
  `WholeMask` keeps a detail of `breakdown_request_to_sector_requests`: packets that
  start at sector 2 get an empty byte mask, so their writes count as partial and
  cost a later fetch. The memory below returns reads in any order and the ROP
  delay is open. Any line without a reserved sector may be the victim.
* **`StreamManager`.** A step is one critical section or one test of a spinning
  loop; `m_lock` is a variable only because `destroy_stream` spins while holding
  it. `sim_pc` and `host_pc` are the two threads' positions. The GPU is its set of
  running kernels and whether memory traffic outlives them; a cycle ends any of
  them. Launch blocking, functional simulation and the cycle limit are chosen or
  hit nondeterministically. Each operation carries, as history, the event record
  it waits for; `done` is the set of operations carried out.
* **`StreamOrder`.** Operations of one stream are carried out in their order, the
  default stream is a barrier, a wait comes after the record it awaits, and
  everything else may happen in any order, several operations at once.

Definitions marked "Mutant" are plausible bugs; no specification uses them. The
`mutants` list in `PROJECT.json` says which definition each one replaces and
which property must then fail.

## 3. Runs

| Run | Shows | Size |
|---|---|---|
| `prefix_codes` | prefix-free codes, complete codebooks, Huffman optimal against all prefix codes, division points as close as any, bursts hold their block | 5 symbols, counts up to 3, blocks of 4 symbols; 71 k states |
| `codebook` | table bound, no zero count in a code and why (`ZeroIsOutranked`), FIFO bound, interval, snapshot, frozen table, boundaries, completion of rebuilds | 4 symbols, table of 2, snapshots of 1, DRAM clock 3:2 faster; 1.0 M states |
| `codebook_slow_dram` (fails) | with a slower DRAM clock a boundary can be missed | 3:4 clocks |
| `metadata_path` | no read lost, duplicated or misdirected, fills awaited, capacities kept | 6 reads of 3 blocks, 2 ways, 2 MSHRs with 2 merges |
| `metadata_path_lockup` (fails) | with three merged reads a way can be lost for ever | 1 way, 3 merges |
| `mem_partition` | `OnePlace`, `RestoredOnReturn`, `DramSeesData`, `QueuesHaveRoom`, `StatisticsHaveInterval`, refinement of `DramCredits` | 4 requests, 2 sub partitions, 1 shared credit; 383 k states |
| `mem_partition_cold_write` (fails) | an early writeback reads an interval that does not exist | same, `EarlyWriteBack` |
| `mem_partition_atomic` (fails) | the writeback of a metadata line that an atomic dirtied returns the credit of the read that evicted it, which is then returned again | 3 reads, one atomic |
| `mem_partition_liveness` | every request is retired | 3 requests |
| `sub_partition` | `busy()` exact, hits complete, dirty data kept, fills find their reservation, copies find a line, pushes have room, every request answered | 7 packets of 2 blocks in 1 way, queues of 1 or 2; 92 k states |
| `sub_partition_race` (fails) | a write to a sector that is being fetched lets the fill land in another block's line | 3 packets, unordered |
| `stream_manager` | order refined, kernels mapped, waits behind their record, synchronize means idle, initialisation on an idle GPU, no dangling iterator, nobody waits for ever | 2 streams and the default one, 3 operations, 1 event; 664 k states |

**Why the bounds are enough.** Each limit is the smallest at which its boundary is
met from both sides. Prefix codes: five leaves give every tree shape up to depth four,
including the Fibonacci counts that make the deepest one; a block is four granules
as in the code (128 bytes, MAG 32), with the granule scaled to two bytes and the
symbol kept at 16 bits, so that every burst count and every rounding occurs.
Codebook: two symbols per request, one counted per cycle and a FIFO of two fill it
in the middle of a request; four symbols make the table evict, and the intervals are
long enough for the first build and for later rebuilds to meet a count of zero; two
coded symbols and a snapshot of one entry make the snapshot leave one out. Memory partition: queues hold exactly `SharedLimit + NSub`, the
bound proved in `InFlightIsBounded`, so an extra request overflows; the DRAM and its return
queue hold one, so every full/empty race occurs; two reads share a metadata block
and can hit, merge or wait. `MaxMerged` is 2 in the passing runs: at 3 the lock-up
of `metadata_path_lockup` becomes reachable, so the passing runs say nothing about
forward progress of configurations with more merges.
Sub partition: one way, so that the two blocks evict each other at every miss,
and a packet of each kind (partial write, complete write of an upper half, two
reads that merge, an atomic, a texture read that skips the ROP, a host copy). The
program orders what touches the same sector, as a race-free program does; the
racing program has a run of its own. At most two reads share a sector and the
answer queue holds one, so no read joins an MSHR entry that is being answered: with
three reads and two answers in the queue the lock-up of `metadata_path_lockup`
occurs in the L2 too, and `EveryRequestAnswered` is stated with `LineLost` for this reason.
The miss queue is met full by one miss with a writeback; two such misses in
consecutive cycles need two ways. Stream manager: two kernels may run at once,
a third operation waits, and every call can meet every stage of the other
thread; each event is recorded in one stream (`RecordedInOneStream`, section 4).
Symmetry over symbols is used in the safety-only runs that name them as model values.
`MaxCount`, the number of requests and the queue sizes are the only bounds the code
does not have at all or has much larger.

**Fairness.** The simulation thread calls `cycle()` in a loop: weak fairness of the
stages. In the partition, latencies are finite numbers of cycles and the DRAM
schedules and completes what it holds: strong fairness of "the head is ready",
"a request completes", "a request is scheduled"; the L2 keeps emptying its response
queue: strong fairness of `L2Take`. The same holds of the sub partition: weak
fairness of its cycle, strong fairness of the ROP's head, of the interconnect
taking answers, and of memory taking and returning requests. Of the two threads the
operating system runs both (weak fairness of the simulation thread's steps and of
the host's return from a call; not of the host making calls), and kernels end
and the memory system drains (strong fairness of `CycleProgress`, which is what the
other runs show of the memory system). No fairness is assumed of arbitration, of the
metadata cache or of any retry; these must make progress by themselves.
Deadlock is checked in every run.

## 4. Disagreements found

1. `l2cache.cc:590` tests one exact core cycle on DRAM ticks only; with the tested
   clocks (850 against 1132 MHz) some intervals get no rebuild.
2. `gpu-cache.cc:1139` lets a read join an MSHR entry that is being drained; if the
   line was evicted meanwhile, a new line is reserved that nobody fills.
3. `l2cache.cc:960` takes `back()` of an empty vector when a writeback precedes the
   first sampled read.
4. `l2cache.cc:1153`: an atomic read dirties its metadata line, and the writeback of
   that line returns a credit that was never borrowed. It returns it to the sub
   partition of the read that evicted the line (`gpu-cache.cc:1569-1572`), whose own
   delivery then finds none to return (assertion at line 452).
5. `gpu-cache.cc:1474`: a lazy write to a reserved sector makes its line replaceable
   while the fill is under way, and the fill then changes a sector of another block.

Each of these is a run that fails. Smaller ones, seen while modelling and without a run:

* `huffman.cc:94` enters a just evicted symbol again, so that an eviction can leave one
  entry more than `huffman.h:21,35` promise. Harmless, as `TableBelowThreshold` and
  `CodesFromPositiveCounts` show.
* `stream_manager.cc:188` counts updates of an event. If an event is recorded in two
  streams, the later record may be carried out first and release a wait in a third
  stream that was made for the earlier one.
* `cuda_runtime_api.cc:2042` returns from `cudaStreamSynchronize` before the call that
  would wait for the stream.
* `l2cache.cc:1647`: the loop that sets the first byte mask is empty for packets that
  start at sector 2; complete writes to the upper half cost an extra fetch.
* `l2cache.cc:1438` answers an L1 write-back that misses, which `mem_fetch.h:64` asserts
  never happens.

## 5. Proofs

The theorems hold for every value of the constants that satisfies the assumptions
of the module: `SizeAssumption` (`FinalSize > 0`, at least two slots between the
thresholds), `MaxCountAssumption`, `TimingAssumption` (a rebuild is shorter than an
interval), `SamplingAssumption`, `NSubAssumption`, `SharedLimitAssumption`,
`SubOfAssumption`, `CacheAssumption` (a miss queue of at least two),
`WritebackAssumption`, `LatencyAssumption`, `PartitionAssumption`,
`SectorCacheAssumption`, `SubPartitionAssumption`, `StreamAssumption`. Some
need more; the theorem then states its hypothesis:

| Hypothesis | Theorems | Without it |
|---|---|---|
| `DramPeriod <= CorePeriod` | `BoundariesRebuild` | run `codebook_slow_dram` |
| `~EarlyWriteBack` | `IntervalsExist` | run `mem_partition_cold_write` |
| `Atomic = {}` | `CreditsAreRefined`, `PartitionCreditsAreHeld`, `PushesFindRoom` | run `mem_partition_atomic` |
| `SharedLimit # 0`, `SharedLimit + NSub <= QueueSize` | `PushesFindRoom` | a limit of 0 means no limit; a smaller queue overflows |
| `RaceFree` | `FillsFindReservation`, `HitsAreComplete`, `DirtyDataStays`, and the next three rows | run `sub_partition_race` |
| `CopiesWait` (a copy and a read are ordered by the program) | `CopyFailsOnlyWithoutLine` | a copy may meet a set whose lines are all reserved |
| `NoLateJoin` (one read per MSHR entry, or an answer queue of one, or ordered reads) | `NoLineIsLost` | `LineLost`, the lock-up of `metadata_path_lockup` in the L2 |
| `CopiesWait`, `NoLateJoin` | `CopiesFindLine` | both of the above |
| `MaxMerged = 1` | `SingleReadsStrandNothing` | run `metadata_path_lockup` |
| `RecordedInOneStream` | `StreamsKeepOrder`, `WaitsAreHonoured` | section 4, the remark on `stream_manager.cc:188` |

`RaceFree`, `CopiesWait`, `NoLateJoin` and `RecordedInOneStream` hold in the passing runs
(`ASSUME`s of the MC modules). `PrefixCodes` needs `BlockAssumption` only: finitely many
symbols, which are numbers, and blocks of four access granules.

**Frequency table** (`CodebookProofs`, first part). `CodesFromPositiveCounts` is not
inductive: zero counts do enter the table. The strengthening `FTInv` adds
`ZeroIsOutranked`: a zero is only there together with at least `FinalSize` positive
counts, so the `FinalSize` heaviest entries are positive (`TopEntriesPositive`). An
eviction keeps `FinalSize` positive entries before the zero is re-entered
(`Reentered`), and `scale_down` erases all zeros (`ScaledPositive`). The same
invariant bounds the table (`TableIsBounded`); `ZerosAreOutranked` states its key part.

**Codebook** (`CodebookProofs`). `CodebookInv` relates FIFO, interval and
codebook. With it every step is a step of the table or leaves it alone, which gives
the refinement `TableIsRefined` (`Spec => FTSpec`), and `CodesArePositive` and
`TableIsBounded` carry over to the running partition. The table is finite
(`FTInv`), so cutting the sorted entries leaves the right number of them, and
`SnapshotIsCurrent` follows: a rebuild captures the most frequent of the entries it
has just coded (`CapturedEntries`), and nothing else touches codes or snapshot.
`TableIsFrozen` needs `RebuildNeedsCodebook`: a rebuild is pending only where there is a
codebook, so the initial build, which also ages the table, cannot run during it. `CodebookTypes` takes
the table's types from the refinement and the FIFO's from `CodebookInv`; the rest is
inductive. `BoundariesRebuild` needs a relation between the two clocks: `BoundaryInv`
says that while the current core cycle still owes a start or a completion (`Due`), the next
DRAM tick is not later than the next core tick, and that the countdown of a pending
rebuild runs with the phase of the interval, so that it is over before the next boundary.

**Code generators** (`PrefixCodesProofs`). `CodesInv` says that any two codes made so far
differ in a bit both have (`AllApart`, stronger than prefix-free and kept when both get
longer); that the trees of `build_tree` and the calls of `shannon_fano_encode` share the
other symbols of the table out; and that a call's prefix is apart from every code and
every other call's. `make_canonical_codes` counts upwards, and its values are codes only
if each fits its length. For lengths that came from codes `CodesFit` shows this by
counting: as many words of the greatest length begin with each code as the loop counts,
no word begins with two codes, and there are `2^l` words. For `generate_shannon_codes`,
which has no codes before, `ShannonFit` compares each length with the symbol's share of
the total. From this follow `CodesArePrefixFree`, `CodebookFollowsTable` and, with lemmas
on rounded quotients, `BurstsHoldBlock`. `SplitsAreClosest` holds because `|2x - total|`
first falls and then grows along a run of positive counts, so the break of the loop comes at
the least value.

`HuffmanCodesAreOptimal` needs a second invariant, since nothing in a half-built tree says
that no bit has been wasted: for the lengths of any prefix code of the table, the trees
in the queue can be given codes that meet Kraft's inequality and cost no more
(`OptimalInv`). A turn of the loop keeps it by Huffman's exchange argument
(`Exchange`): among the lengths that cost no more take some that add up to the least;
swap the longest codes to the two lightest trees (`SwapCodes`); if one of these were
longer than the other it could lose a bit (`ShortenLongest`, a question of parity). So
both have the longest length, and their parent takes one bit less (`ParentCode`). With
one tree left the cost is the codes' own. `FrequentSymbolsHaveShorterCodes` follows by swapping
once more; Shannon-Fano codes do not have that property (counts 10, 10, 10, 9, 9, 9 give
lengths 3, 3, 2, 3, 3, 2), and the proof attempt is what showed it.

These proofs need induction. The provers cannot use the library's induction theorems,
whose parameter is an operator, so `NatInduct` and `SetInduct` are stated with the
property as a *set*, and are derived from the least element of a set of numbers. The
fold behind `SumFunctionOnSet` is shown to exist, and to obey the laws of a sum
(`SumLaws`), in the same way; `2^n` is known through the number of subsets of an interval.

**Credits** (`MemPartitionProofs`, first part). A credit may return to another pool than it came
from, so the limits are not inductive. `CreditInv` adds `CreditsMatchRequests`: the
requests in flight can be split so that each pool's counter is the size of its share.
A retired request can then always be swapped into the share the credit returns to;
hence no pool goes below zero, and `InFlightIsBounded` follows by counting.
`CreditsAreHeld` states the matching itself, `PartitionCreditsAreHeld` carries both over to
the running partition along the refinement.

**Metadata cache** (`MetadataCacheProofs`, `MetadataPathProofs`). `CacheInv` says of the
cache alone that a read is merged once and answered once, that the read at the head of
an entry is the one that was sent below (`FetchIsFirst`), and that only waiting reads are
in the miss queue. `PathInv` adds where a read and its fetch are outside the cache. Each
operation of the cache has one lemma that says how it changes `CacheInv`, used again by
the partition. `CacheBounds` holds because a line with a fetch stays reserved
(`FetchIsReserved`), so the entry and the way counted free by the test are free when used.
`OnlyLateJoinStrands` is an action property that explains the lock-up of section 4, item 2:
`EntriesFetched` says that an entry is being answered or has its fetch under way, and from it
every step that reserves a line also sends for it, except the read that joins an entry
being answered whose line has been evicted.

**Memory partition** (`MemPartitionProofs`). `PartInv` has a part for each kind of fact:
types; the request between its queue and its route (`ClassifiedInv`); the cache; each
queue holds a request once; a request is in one place; its rewritten fields are
determined by that place (`FieldsInv`); a metadata fetch is awaited (`FetchInv`). From it
follow `PartitionTypes`, `RequestsInOnePlace`, `RequestsRestored` and `DramGetsData`.
`IntervalInv` adds how far the first sample has come. For the credits, `NothingDirty`
keeps metadata writebacks out; then each stage is a step of `DramCredits` or a stutter
(`CreditsAreRefined`), and `InFlightIsBounded`, transported along this refinement, bounds
what can be in the queues (`PushesFindRoom`).

**Sub partition and L2** (`SubPartitionProofs`). `SubInv` says for each request where it is
above memory (`AboveInv`) and for each fetch where it is below (`BelowInv`), and gives
`TrackerIsExact` and `PushesFindSpace`, the latter for all programs, racing ones included.
What the lines hold needs the program's order: `DataInv` adds that a fetch's way is
reserved for its block (`FillsReserved`), that a readable sector is complete
(`LinesSound`), that unwritten data is in a dirty sector or a writeback, and that what a
packet comes after is over when it enters (`OrderInv`). For the host copies,
`NoFillAtCopy` shows that no read waits for a fill when a copy starts; then each line can be
replaced, unless a sector is reserved for a fill that is not on its way, so a copy that
finds no line means that one was lost (`CopyInv`, `CopyFailsOnlyWithoutLine`).
`NoLineIsLost` excludes that under `NoLateJoin`: a reserved sector is readable once filled
and a read waits for its fill (`LinesKept`), because no access joins an entry whose line is
gone. Where that rests on a queue of one answer, whatever was being answered when the
cycle began has left before the next access is accepted (`AnswersLeave`).
`CopiesFindLine` combines the two.

**Streams and threads** (`StreamManagerProofs`). `SMInv` has five parts: types; what the two
program counters say of the flags (`ControlInv`); where an operation is (`QueueInv`: in the
queue of its stream or done, queues sorted, what is done of a stream is a prefix, and
while stream zero has work the host waits and no other stream has any); where a kernel is
(`KernelInv`); and what an event's counts stand for (`EventInv`). Every step of either thread is
one of five kinds (`HostSteps`, `SimSteps`): a call, a push, a step that leaves
the queues alone, an operation carried out, kernels that end. The refinement
(`StreamsKeepOrder`) maps a push to an issue and the last two to a completion of heads
of queues; the barrier, the order of the queues and, for waits, a count of records
(`CountedRecords`) show that all that comes before such a head is done. Also proved:
`StreamTypes`, `KernelsMapped`, `SynchronizeWaits`, `InitFindsIdle`, `WaitsAreHonoured`.

**What the proofs changed in the model.** Three definitions could not be reasoned about
and were brought closer to the code: the overlapping guards of a `CASE` in
`SectorCache`; `destroy_stream`, which erases the one element its iterator points at; and
the pending calls of `shannon_fano_encode`, which are a stack. A property of `PrefixCodes`,
that a more frequent symbol never has a longer code, held in the run and turned out to be false for
Shannon-Fano codes of six symbols; `ClosestSplit`, what the comment in
`shannon_fano_encode` promises, took its place.

**Only model-checked.** Liveness (`RebuildCompletes`, `EveryRequestRetires`,
`EveryRequestAnswered`, `ComesToRest`), which is out of the prover's reach, as is ENABLED.
The five runs that fail are counterexamples, not theorems. Every invariant and
every refinement that a passing run checks is also the subject of a theorem.

## 6. Not modelled

Statistics, printing and files; the compression ratios; `simple_dram_model_cycle`
and the static mode (`DYNAMIC_UPDATE_FLAG` 0), which the built configuration excludes;
flushes of the caches, the write policies that the configurations do not select for
the L2, L1 write-backs, more than one cache set; the rounding of doubles in
`generate_shannon_codes`; overflow of the 64-bit counters; kernels that launch
kernels, a simulation started again after `cudaThreadExit`, and
`cudaEventSynchronize`, whose loop is a data race. The components
of section 1 without a module are listed in `PROJECT.json` with their reasons.

## 7. Plan

Done: the modules of section 2, in this order of importance: partition, credits,
metadata cache, codebook, table, codes; then sub partition, L2 data cache, streams.

Proofs done: every safety property of the passing runs and the three refinements
(table, credits, streams).

Next, proofs: an upper bound on the length of a code in terms of the counts, so that the
64 bits of `size_t` in `make_canonical_codes` become a hypothesis on the table; the
cause of a lost line in the L2 as an action property, as `OnlyLateJoinStrands` states it
of the metadata cache.

Next, models: `Frfcfs`, the row queues and the starvation of row misses, with
`MemPartition`'s two sets as the abstraction it refines; L1 write-backs in `SubPartition`;
`Scoreboard` and `LocalInterconnect` as small modules of their own.
