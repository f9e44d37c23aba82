------------------------------ MODULE Codebook ------------------------------
(***************************************************************************)
(* The life of a memory partition's codebook, as driven by                 *)
(* memory_partition_unit::dram_cycle (src/src/gpgpu-sim/l2cache.cc):       *)
(* sampled symbols wait in a FIFO, are counted in the frequency table, and *)
(* the codebook is built when sampling ends and rebuilt, with a delay, at  *)
(* interval boundaries.  dram_cycle is called on ticks of the DRAM clock   *)
(* while intervals are measured in ticks of the core clock, so both clocks *)
(* of gpgpu_sim::cycle (gpu-sim.cc) are part of the model.                 *)
(*                                                                         *)
(* One call of gpgpu_sim::cycle is the sequence of stages                  *)
(*    tick -> [start -> complete -> sample -> enqueue -> build] -> core    *)
(* where the stages in brackets are dram_cycle, run when the DRAM ticks.   *)
(* Requests to sample come from the L2 and are arbitrary.                  *)
(*                                                                         *)
(* DYNAMIC_UPDATE_FLAG is 1, as in the source; the static mode it excludes *)
(* at compile time is not modelled.                                        *)
(***************************************************************************)
EXTENDS FrequencyTable, Sequences

CONSTANTS CorePeriod, DramPeriod,  \* clock periods, in a common unit
          SamplingDuration,        \* core cycles before the first codebook
          UpdateInterval,          \* DYNAMIC_UPDATE_INTERVAL, core cycles
          RebuildDelay,            \* CODEBOOK_REBUILD_DELAY, core cycles
          FifoCapacity,            \* SAMPLING_FIFO_CAPACITY
          UpdatesPerCycle,         \* SAMPLING_SYMBOL_UPDATES_PER_CYCLE
          SymbolsPerRequest,       \* SAMPLING_SYMBOLS_PER_REQUEST
          SnapshotSize             \* top_k of a snapshot: 10

\* A rebuild is over before the next boundary (534 against 5000 cycles).
ASSUME TimingAssumption ==
    /\ {CorePeriod, DramPeriod, SamplingDuration, UpdateInterval, RebuildDelay}
          \subseteq Nat \ {0}
    /\ RebuildDelay < UpdateInterval

ASSUME SamplingAssumption ==
    {FifoCapacity, UpdatesPerCycle, SymbolsPerRequest, SnapshotSize}
        \subseteq Nat \ {0}

VARIABLES
    core_time, dram_time,    \* next tick of each clock, relative to now
    mask,                    \* the clocks that tick in this call of cycle()
    cycle,                   \* gpu_sim_cycle + gpu_tot_sim_cycle, see below
    stage,                   \* where gpgpu_sim::cycle stands
    budget,                  \* iterations left in the loop of sampling_cycle
    m_sampling_symbol_fifo,
    rebuild_active,          \* m_pending_dynamic_codebook_rebuild.active
    rebuild_wait,            \* its ready_cycle, counted from the current cycle
    m_huffman_enabled,
    has_interval,            \* is m_interval_compression_stats non-empty?
    snapshot,                \* top_entries of the last snapshot
    enabled_since            \* m_huffman_enabled when this core cycle began

clockVars == <<core_time, dram_time, mask, cycle, enabled_since>>
rebuildVars == <<rebuild_active, rebuild_wait>>
intervalVars == <<m_huffman_enabled, has_interval, snapshot>>
vars == <<tableVars, clockVars, stage, budget, m_sampling_symbol_fifo,
          rebuildVars, intervalVars>>

Stages == {"tick", "start", "complete", "sample", "enqueue", "build", "core"}

-----------------------------------------------------------------------------
(* Clocks.  Only the phase of the interval matters once sampling is over,  *)
(* so cycle wraps from the end of the first interval to its beginning.     *)

IntervalEnd == SamplingDuration + UpdateInterval

in_compression_phase == cycle >= SamplingDuration

reached_interval_boundary == cycle = SamplingDuration

Earlier(a, b) == IF a <= b THEN a ELSE b

\* next_clock_domain: the clocks with the smallest time tick, together.
next_clock_domain ==
    LET now == Earlier(core_time, dram_time)
        after(time, period) == (IF time = now THEN period ELSE time - now)
    IN  /\ mask' = [core |-> core_time = now, dram |-> dram_time = now]
        /\ core_time' = after(core_time, CorePeriod)
        /\ dram_time' = after(dram_time, DramPeriod)
        /\ UNCHANGED <<cycle, enabled_since>>

Tick == /\ stage = "tick"
        /\ next_clock_domain
        /\ stage' = IF mask'.dram THEN "start" ELSE "core"
        /\ UNCHANGED <<tableVars, budget, m_sampling_symbol_fifo,
                       rebuildVars, intervalVars>>

\* The end of gpgpu_sim::cycle: gpu_sim_cycle++ on a core tick.
CoreTick ==
    /\ stage = "core"
    /\ stage' = "tick"
    /\ IF mask.core
       THEN /\ cycle' = IF cycle + 1 = IntervalEnd THEN SamplingDuration
                                                   ELSE cycle + 1
            /\ rebuild_wait' = IF rebuild_wait > 0 THEN rebuild_wait - 1
                                                   ELSE 0
            /\ enabled_since' = m_huffman_enabled
       ELSE UNCHANGED <<cycle, rebuild_wait, enabled_since>>
    /\ UNCHANGED <<tableVars, core_time, dram_time, mask, budget,
                   m_sampling_symbol_fifo, rebuild_active, intervalVars>>

-----------------------------------------------------------------------------
(* The rebuild of the codebook. *)

\* Mutant: a boundary that finds symbols waiting in the FIFO is passed over.
rebuild_if_drained ==
    IF rebuild_active \/ m_sampling_symbol_fifo # <<>>
    THEN UNCHANGED rebuildVars
    ELSE /\ rebuild_active' = TRUE
         /\ rebuild_wait' = RebuildDelay

\* Mutant: the delay is a cycle too long.
rebuild_a_cycle_late ==
    IF rebuild_active
    THEN UNCHANGED rebuildVars
    ELSE /\ rebuild_active' = TRUE
         /\ rebuild_wait' = RebuildDelay + 1

start_dynamic_codebook_rebuild ==
    IF rebuild_active
    THEN UNCHANGED rebuildVars
    ELSE /\ rebuild_active' = TRUE
         /\ rebuild_wait' = RebuildDelay

StartRebuild ==
    /\ stage = "start"
    /\ stage' = "complete"
    /\ IF m_huffman_enabled /\ reached_interval_boundary
       THEN start_dynamic_codebook_rebuild
       ELSE UNCHANGED rebuildVars
    /\ UNCHANGED <<tableVars, clockVars, budget, m_sampling_symbol_fifo,
                   intervalVars>>

\* Mutant: the snapshot taken after scale_down.
snapshot_after_scaling ==
    \E S \in Truncated(m_frequency_map', SnapshotSize) :
        snapshot' = Keep(m_frequency_map', S)

\* The SnapshotSize most frequent entries, with the counts they have before the
\* rebuild halves them.  get_top_frequencies sorts the table that it has just
\* sorted for the code generator, which nothing has changed since: ties fall
\* the same way, and the entries it returns are those that got a code.  The
\* totals of a snapshot are statistics and left out.
capture_interval_codebook_snapshot ==
    \E S \in Truncated(Keep(m_frequency_map, DOMAIN m_codes'), SnapshotSize) :
        snapshot' = Keep(m_frequency_map, S)

start_new_interval == has_interval' = TRUE /\ capture_interval_codebook_snapshot

\* Mutant: the interval is opened by later rebuilds only.
RebuildWithoutFirst ==
    /\ rebuild_codebook_and_age_samples
    /\ IF m_codes' = EmptyTable \/ ~m_huffman_enabled
       THEN UNCHANGED <<has_interval, snapshot>>
       ELSE start_new_interval

RebuildCodebook ==
    /\ rebuild_codebook_and_age_samples
    /\ IF m_codes' = EmptyTable THEN UNCHANGED <<has_interval, snapshot>>
                                ELSE start_new_interval

\* Mutant: an empty table leaves the rebuild pending.
OverIfCoded == rebuild_active' = (m_codes' = EmptyTable)

\* The rebuild is over whether or not it produced a code.
RebuildOver == rebuild_active' = FALSE

complete_dynamic_codebook_rebuild_if_ready ==
    /\ stage = "complete"
    /\ stage' = "sample"
    /\ budget' = UpdatesPerCycle
    /\ IF rebuild_active /\ rebuild_wait = 0
       THEN /\ RebuildCodebook
            /\ RebuildOver
       ELSE UNCHANGED <<tableVars, rebuild_active, has_interval, snapshot>>
    /\ UNCHANGED <<clockVars, rebuild_wait, m_sampling_symbol_fifo,
                   m_huffman_enabled>>

\* The initial build, at the end of dram_cycle: as long as there is no
\* codebook, every call tries to build one.
InitialBuild ==
    /\ stage = "build"
    /\ stage' = "core"
    /\ IF in_compression_phase /\ ~m_huffman_enabled
       THEN /\ RebuildCodebook
            /\ m_huffman_enabled' = (m_codes' # EmptyTable)
       ELSE UNCHANGED <<tableVars, intervalVars>>
    /\ UNCHANGED <<clockVars, budget, m_sampling_symbol_fifo, rebuildVars>>

-----------------------------------------------------------------------------
(* Sampling. *)

\* Mutant: counting goes on during a rebuild.
NothingToSample == budget = 0 \/ m_sampling_symbol_fifo = <<>>

\* Nothing is counted while a rebuild is pending.
SamplingDone ==
    \/ rebuild_active
    \/ budget = 0
    \/ m_sampling_symbol_fifo = <<>>

\* sampling_cycle, one iteration of its loop.
SampleSymbol ==
    /\ stage = "sample"
    /\ ~SamplingDone
    /\ update_frequency(Head(m_sampling_symbol_fifo))
    /\ m_sampling_symbol_fifo' = Tail(m_sampling_symbol_fifo)
    /\ budget' = budget - 1
    /\ UNCHANGED <<clockVars, stage, rebuildVars, intervalVars>>

EndSampling ==
    /\ stage = "sample"
    /\ SamplingDone
    /\ stage' = "enqueue"
    /\ budget' = 0
    /\ UNCHANGED <<tableVars, clockVars, m_sampling_symbol_fifo, rebuildVars,
                   intervalVars>>

\* Mutant: room is tested once for the whole request.
AdmittedAtOnce(symbols) ==
    IF Len(m_sampling_symbol_fifo) < FifoCapacity THEN symbols ELSE <<>>

\* The symbols of a request for which the FIFO still has room.
Admitted(symbols) ==
    SubSeq(symbols, 1, Earlier(Len(symbols),
                               FifoCapacity - Len(m_sampling_symbol_fifo)))

\* How often s was sampled and not aged away; the bound on counts is applied
\* to the requests that reach the partition.
Occurrences(s) ==
    get_frequency(m_frequency_map, s)
    + Cardinality({i \in DOMAIN m_sampling_symbol_fifo :
                      m_sampling_symbol_fifo[i] = s})

WithinBound(symbols) ==
    \A s \in Symbol :
        Occurrences(s) + Cardinality({i \in DOMAIN symbols : symbols[i] = s})
            <= MaxCount

\* A request that is sampled: a GLOBAL_ACC_R or an L2_WR_ALLOC_R.
enqueue_sampled_symbols ==
    /\ stage = "enqueue"
    /\ stage' = "build"
    /\ \E symbols \in [1 .. SymbolsPerRequest -> Symbol] :
          /\ WithinBound(symbols)
          /\ m_sampling_symbol_fifo' = m_sampling_symbol_fifo
                                          \o Admitted(symbols)
    /\ UNCHANGED <<tableVars, clockVars, budget, rebuildVars, intervalVars>>

\* No request this cycle, or one that is not sampled.
NoSampledRequest ==
    /\ stage = "enqueue"
    /\ stage' = "build"
    /\ UNCHANGED <<tableVars, clockVars, budget, m_sampling_symbol_fifo,
                   rebuildVars, intervalVars>>

-----------------------------------------------------------------------------

Init == /\ FTInit
        /\ core_time = 0 /\ dram_time = 0
        /\ mask = [core |-> FALSE, dram |-> FALSE]
        /\ cycle = 0
        /\ stage = "tick"
        /\ budget = 0
        /\ m_sampling_symbol_fifo = <<>>
        /\ rebuild_active = FALSE /\ rebuild_wait = 0
        /\ m_huffman_enabled = FALSE
        /\ has_interval = FALSE
        /\ snapshot = EmptyTable
        /\ enabled_since = FALSE

Next == \/ Tick
        \/ StartRebuild
        \/ complete_dynamic_codebook_rebuild_if_ready
        \/ SampleSymbol
        \/ EndSampling
        \/ enqueue_sampled_symbols
        \/ NoSampledRequest
        \/ InitialBuild
        \/ CoreTick

Spec == Init /\ [][Next]_vars

\* The simulation thread calls cycle() in a loop: some stage always runs.
FairSpec == Spec /\ WF_vars(Next)

-----------------------------------------------------------------------------
(* Properties *)

\* Every variable has its type; the FIFO holds symbols.
TypeOK == /\ FTTypeOK
          /\ core_time \in 0 .. CorePeriod
          /\ dram_time \in 0 .. DramPeriod
          /\ mask \in [core : BOOLEAN, dram : BOOLEAN]
          /\ cycle \in 0 .. IntervalEnd - 1
          /\ stage \in Stages
          /\ budget \in 0 .. UpdatesPerCycle
          /\ m_sampling_symbol_fifo \in Seq(Symbol)
          /\ rebuild_active \in BOOLEAN
          /\ rebuild_wait \in 0 .. RebuildDelay
          /\ m_huffman_enabled \in BOOLEAN
          /\ has_interval \in BOOLEAN
          /\ IsTable(snapshot)
          /\ enabled_since \in BOOLEAN

\* However many symbols a request offers, the sampling FIFO never holds more
\* than SAMPLING_FIFO_CAPACITY (l2cache.cc:247).
FifoBounded == Len(m_sampling_symbol_fifo) <= FifoCapacity

\* A codebook in use has an open statistics interval: the read path of
\* dram_cycle writes to m_interval_compression_stats.back() (l2cache.cc:901).
EnabledHasInterval == m_huffman_enabled => has_interval

\* The last snapshot shows the most frequent symbols of the codebook in force,
\* up to SnapshotSize of them, with the counts their codes were built from,
\* although the rebuild halves the table right after (l2cache.cc:223-224) and
\* later samples change it.  A rebuild that found the table empty has cleared
\* the codebook and taken no snapshot.
SnapshotShowsCodebook ==
    m_codes # EmptyTable =>
        /\ \A s \in DOMAIN snapshot :
              s \in DOMAIN m_codes /\ snapshot[s] = m_codes[s]
        /\ \A s \in DOMAIN m_codes \ DOMAIN snapshot :
              /\ Cardinality(DOMAIN snapshot) = SnapshotSize
              /\ \A x \in DOMAIN snapshot : m_codes[s] <= snapshot[x]
        /\ Cardinality(DOMAIN snapshot) <= SnapshotSize

\* The codebook that a delayed rebuild delivers is the one of the interval
\* boundary: as long as the rebuild is pending no symbol is counted
\* (l2cache.cc:263), although requests keep filling the FIFO.
TableFrozenDuringRebuild ==
    [][rebuild_active /\ rebuild_active' => m_frequency_map' = m_frequency_map]_vars

\* l2cache.cc:783, "Dynamic mode continues to sample and periodically rebuilds
\* the codebook": when a core cycle that is an interval boundary ends, and
\* there was a codebook throughout that cycle, a rebuild is under way.
EveryBoundaryRebuilds ==
    stage = "core" /\ mask.core /\ reached_interval_boundary /\ enabled_since
        => rebuild_active

\* A pending rebuild always completes, also when aging emptied the table and
\* there is nothing to build from: sampling, which it suspends, resumes.
RebuildCompletes == rebuild_active ~> ~rebuild_active
=============================================================================
