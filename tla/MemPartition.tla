---------------------------- MODULE MemPartition ----------------------------
(***************************************************************************)
(* memory_partition_unit::dram_cycle (src/src/gpgpu-sim/l2cache.cc): the   *)
(* way of a request from the L2 queues of its sub partition through        *)
(* arbitration, compression, the metadata cache and the DRAM back to the   *)
(* L2.  One call of dram_cycle is one pass through the stages              *)
(*   idle -> return -> decompress -> deliver -> complete -> schedule ->    *)
(*   arbitrate -> classify -> [translate -> restore -> compress ->         *)
(*   compressed -> respond -> fill -> miss -> access -> huffman] ->        *)
(*   latency -> idle                                                       *)
(* in the order of the code; those in brackets are skipped while the       *)
(* partition is still sampling.  Between two calls the L2 acts.            *)
(*                                                                         *)
(* Abstractions.  A latency is left open: the head of a latency queue may  *)
(* be ready or not.  The DRAM is a set of waiting and a set of served      *)
(* requests, completed in any order (bank timing and FR-FCFS are not       *)
(* modelled).  Of the codebook only its progress towards the first build   *)
(* is kept; Codebook has the rest.  Writes and reads share one DRAM        *)
(* scheduler queue (dram_seperate_write_queue_enable is off).              *)
(***************************************************************************)
EXTENDS Arbitration, MetadataCache

CONSTANTS CompressibleR,  \* GLOBAL_ACC_R and L2_WR_ALLOC_R requests
          WriteBackR,     \* L2_WRBK_ACC requests of the L2
          NoReq,          \* the null pointer
          L2QueueSize,    \* capacity of m_L2_dram_queue and m_dram_L2_queue
          QueueSize,      \* capacity of the pipeline queues (1000)
          DramQueueSize,  \* gpgpu_frfcfs_dram_sched_queue_size
          ReturnQueueSize,\* gpgpu_dram_return_queue_size
          EarlyWriteBack, \* may the L2 write back before it has read?
          Units           \* (de)compressors per partition, rounded up

\* Nothing sampled; symbols in the FIFO; symbols counted; codebook in use.
CodebookProgress == {"empty", "sampled", "counted", "enabled"}

ASSUME PartitionAssumption ==
    /\ CompressibleR \subseteq Req
    /\ WriteBackR \subseteq Req \ CompressibleR
    /\ Atomic \subseteq CompressibleR
    /\ NoReq \notin Req \cup Writebacks
    /\ EarlyWriteBack \in BOOLEAN
    /\ {L2QueueSize, QueueSize, DramQueueSize, ReturnQueueSize, Units}
          \subseteq Nat \ {0}

VARIABLES
    stage,
    pending,       \* requests the L2 has not made yet
    l2_dram,       \* m_L2_dram_queue of each sub partition
    dram_l2,       \* m_dram_L2_queue of each sub partition
    q,             \* the queues of the partition, by name
    dram_waiting,  \* requests in the DRAM's scheduler
    dram_served,   \* requests the DRAM has scheduled
    classified,    \* mf_to_be_classified
    mf,            \* the fields of each mem_fetch that dram_cycle rewrites
    compressing,   \* SAMPLING_DURATION has passed
    codebook,      \* how far the first codebook has come
    retired        \* requests that came back, or were written

l2Vars == <<pending, l2_dram, dram_l2, retired>>
dramVars == <<dram_waiting, dram_served>>
phaseVars == <<classified, compressing, codebook>>
vars == <<stage, l2Vars, q, dramVars, mf, phaseVars, arbitrationVars, cacheVars>>

Queues == {"to_translater", "to_metadata", "from_metadata", "to_compressor",
           "compressor", "to_dram", "latency", "dram_to_metadata", "returnq",
           "decompressor", "to_l2"}

CycleStages == {"idle", "return", "decompress", "deliver", "complete",
                "schedule", "arbitrate", "classify", "translate", "restore",
                "compress", "compressed", "respond", "fill", "miss", "access",
                "huffman", "latency"}

\* Where the program ends: it has read m_interval_compression_stats.back() of
\* an empty vector.
Crashes == {"no_interval"}

m_huffman_enabled == codebook = "enabled"

-----------------------------------------------------------------------------
(* Helpers. *)

Push(name, x) == [q EXCEPT ![name] = Append(@, x)]

Pop(name) == [q EXCEPT ![name] = Tail(@)]

Move(from, to) == [q EXCEPT ![from] = Tail(@), ![to] = Append(@, Head(q[from]))]

Go(to) == stage' = to

Fresh == [is_meta_data_request |-> FALSE, addr |-> "data", size |-> "original",
          m_compressed |-> FALSE]

IsMetadata(x) == x \in Req /\ mf[x].is_meta_data_request

Init == /\ ArbitrationInit
        /\ CacheInit
        /\ stage = "idle"
        /\ pending = Req
        /\ l2_dram = [p \in SubPart |-> <<>>]
        /\ dram_l2 = [p \in SubPart |-> <<>>]
        /\ q = [name \in Queues |-> <<>>]
        /\ dram_waiting = {}
        /\ dram_served = {}
        /\ classified = NoReq
        /\ mf = [r \in Req |-> Fresh]
        /\ compressing = FALSE
        /\ codebook = "empty"
        /\ retired = {}

-----------------------------------------------------------------------------
(* Between two calls: the L2 and the clock. *)

\* The L2's interface to memory (L2interface::full, push).  EarlyWriteBack is
\* an assumption on the L2's workload: without it a partition sees a writeback
\* only after a read.
L2Issue(r) ==
    /\ stage = "idle"
    /\ r \in pending
    /\ r \in WriteBackR => EarlyWriteBack \/ codebook # "empty"
    /\ Len(l2_dram[SubOf[r]]) < L2QueueSize
    /\ pending' = pending \ {r}
    /\ l2_dram' = [l2_dram EXCEPT ![SubOf[r]] = Append(@, r)]
    /\ UNCHANGED <<stage, dram_l2, q, dramVars, phaseVars, mf, retired,
                   arbitrationVars, cacheVars>>

\* The sub partition's cache_cycle takes a response out of its queue.
L2Take(p) ==
    /\ stage = "idle"
    /\ dram_l2[p] # <<>>
    /\ dram_l2' = [dram_l2 EXCEPT ![p] = Tail(@)]
    /\ UNCHANGED <<stage, pending, l2_dram, q, dramVars, phaseVars, mf,
                   retired, arbitrationVars, cacheVars>>

SamplingEnds ==
    /\ stage = "idle"
    /\ ~compressing
    /\ compressing' = TRUE
    /\ UNCHANGED <<stage, l2Vars, q, dramVars, classified, mf, codebook,
                   arbitrationVars, cacheVars>>

-----------------------------------------------------------------------------
(* The way up: from the DRAM to the L2. *)

\* The start of dram_cycle; of what it does with the codebook, sampling_cycle.
sampling_cycle ==
    /\ stage = "idle"
    /\ Go("return")
    /\ codebook' = IF codebook = "sampled" THEN "counted" ELSE codebook
    /\ UNCHANGED <<l2Vars, q, dramVars, classified, mf, compressing,
                   arbitrationVars, cacheVars>>

\* A compressible read goes through a decompressor as soon as there is a
\* codebook, whether or not it was compressed.
ReturnRoute(r) == IF IsMetadata(r) THEN "dram_to_metadata"
                  ELSE IF r \in CompressibleR /\ m_huffman_enabled
                  THEN "decompressor" ELSE "to_l2"

Accepts(name) == CASE name = "decompressor" -> Len(q[name]) <= Units
                   [] name = "to_l2"        -> Len(q[name]) < QueueSize
                   [] OTHER                 -> TRUE

ReturnFromDram ==
    /\ stage = "return"
    /\ Go("decompress")
    /\ LET to == ReturnRoute(Head(q["returnq"]))
       IN  q' = IF q["returnq"] # <<>> /\ Accepts(to) THEN Move("returnq", to)
                                                      ELSE q
    /\ UNCHANGED <<l2Vars, dramVars, phaseVars, mf, arbitrationVars,
                   cacheVars>>

\* Mutant: the size is not restored.
KeepsSize(r) == mf[r].size

\* The size a read leaves the decompressor with.
Decompressed(r) == IF mf[r].m_compressed THEN "original" ELSE mf[r].size

DecompressorReady ==
    /\ stage = "decompress"
    /\ Go("deliver")
    /\ q["decompressor"] # <<>>
    /\ LET r == Head(q["decompressor"])
       IN  mf' = [mf EXCEPT ![r].size = Decompressed(r)]
    /\ q' = Move("decompressor", "to_l2")
    /\ UNCHANGED <<l2Vars, dramVars, phaseVars, arbitrationVars, cacheVars>>

\* The credit is returned here for everything but writebacks.
DeliverToL2 ==
    /\ stage = "deliver"
    /\ Go("complete")
    /\ IF q["to_l2"] # <<>>
          /\ Len(dram_l2[SubOf[Head(q["to_l2"])]]) < L2QueueSize
       THEN LET r == Head(q["to_l2"])
            IN  /\ q' = Pop("to_l2")
                /\ dram_l2' = [dram_l2 EXCEPT ![SubOf[r]] = Append(@, r)]
                /\ return_credit(SubOf[r])
                /\ retired' = retired \cup {r}
       ELSE UNCHANGED <<q, dram_l2, retired, arbitrationVars>>
    /\ UNCHANGED <<pending, l2_dram, dramVars, phaseVars, mf, cacheVars>>

-----------------------------------------------------------------------------
(* The DRAM. *)

dram_full == Cardinality(dram_waiting) >= DramQueueSize

\* dram_t::cycle, a request whose last burst is transferred; a writeback is
\* done and gives its credit back (memory_partition_unit::set_done), all others
\* enter the return queue.  rd_miss_base gives a metadata writeback the chip and
\* the sub partition of the read that evicted the line.
get_sub_partition_id(x) ==
    IF x \in Req THEN SubOf[x] ELSE SubOf[CHOOSE r \in Req : Wb(r) = x]

\* Mutant: a writeback keeps its credit.
set_done_keeps_credit(x) == /\ retired' = retired \cup ({x} \cap Req)
                            /\ UNCHANGED arbitrationVars

set_done(x) ==
    /\ return_credit(get_sub_partition_id(x))
    /\ retired' = retired \cup ({x} \cap Req)

DramCompletes(x) ==
    /\ stage = "complete"
    /\ Go("schedule")
    /\ x \in dram_served
    /\ Len(q["returnq"]) < ReturnQueueSize
    /\ dram_served' = dram_served \ {x}
    /\ IF x \in WriteBackR \cup Writebacks
       THEN set_done(x) /\ UNCHANGED q
       ELSE /\ q' = Push("returnq", x)
            /\ UNCHANGED <<arbitrationVars, retired>>
    /\ UNCHANGED <<pending, l2_dram, dram_l2, dram_waiting, phaseVars, mf,
                   cacheVars>>

\* scheduler_frfcfs hands waiting requests to idle banks.
DramSchedules(S) ==
    /\ stage = "schedule"
    /\ Go("arbitrate")
    /\ dram_waiting' = dram_waiting \ S
    /\ dram_served' = dram_served \cup S
    /\ UNCHANGED <<l2Vars, q, phaseVars, mf, arbitrationVars, cacheVars>>

-----------------------------------------------------------------------------
(* The way down: from the L2 to the DRAM. *)

can_issue_to_dram(p) == has_credits(p) /\ Len(dram_l2[p]) < L2QueueSize

Candidates == {p \in SubPart : l2_dram[p] # <<>> /\ can_issue_to_dram(p)}

\* Round robin, beginning after the last sub partition that took a credit.
Turn(p) == (p + NSub - 1 - m_last_borrower) % NSub

IsNext(p) == p \in Candidates /\ \A o \in Candidates : Turn(p) <= Turn(o)

\* A full DRAM ends the round: nobody is served.
Arbitrate ==
    /\ stage = "arbitrate"
    /\ Go("classify")
    /\ IF Candidates = {} \/ dram_full
       THEN /\ classified' = NoReq
            /\ UNCHANGED <<l2_dram, arbitrationVars>>
       ELSE \E p \in SubPart :
              /\ IsNext(p)
              /\ classified' = Head(l2_dram[p])
              /\ l2_dram' = [l2_dram EXCEPT ![p] = Tail(@)]
              /\ borrow_credit(p)
    /\ UNCHANGED <<pending, dram_l2, q, dramVars, mf, compressing, codebook,
                   retired, cacheVars>>

\* The queue a request is routed to.
Route(r) == IF ~compressing THEN "latency"
            ELSE IF r \in CompressibleR THEN "to_translater"
            ELSE IF r \in WriteBackR THEN "to_compressor"
            ELSE "to_dram"

\* Mutant: sampling ends with the sampling phase, as in static mode.
SampledEarly == IF classified \in CompressibleR /\ codebook = "empty"
                   /\ ~compressing
                THEN "sampled" ELSE codebook

\* enqueue_sampled_symbols, then the attempt at the first build.
Sampled == IF classified \in CompressibleR /\ codebook = "empty"
           THEN "sampled" ELSE codebook

Built == IF compressing /\ Sampled = "counted" THEN "enabled" ELSE Sampled

Classify ==
    /\ stage = "classify"
    /\ Go(IF compressing THEN "translate" ELSE "latency")
    /\ codebook' = Built
    /\ q' = IF classified = NoReq THEN q ELSE Push(Route(classified), classified)
    /\ classified' = NoReq
    /\ UNCHANGED <<l2Vars, dramVars, mf, compressing, arbitrationVars,
                   cacheVars>>

\* The request itself is turned into the request for its metadata.
Translate ==
    /\ stage = "translate"
    /\ Go("restore")
    /\ IF q["to_translater"] # <<>>
       THEN /\ q' = Move("to_translater", "to_metadata")
            /\ mf' = [mf EXCEPT ![Head(q["to_translater"])] =
                        [@ EXCEPT !.is_meta_data_request = TRUE,
                                  !.addr = "metadata",
                                  !.m_compressed = TRUE]]
       ELSE UNCHANGED <<q, mf>>
    /\ UNCHANGED <<l2Vars, dramVars, phaseVars, arbitrationVars, cacheVars>>

\* The metadata is known: the request becomes the data request again, of the
\* compressed size.  The statistics go to the last interval.
HasInterval == m_huffman_enabled

\* Mutant: the address stays that of the metadata.
KeepsAddress(r) == [mf[r] EXCEPT !.is_meta_data_request = FALSE,
                                 !.size = "burst"]

Restored(r) == [mf[r] EXCEPT !.is_meta_data_request = FALSE,
                             !.addr = "data", !.size = "burst"]

Restore ==
    /\ stage = "restore"
    /\ IF q["from_metadata"] = <<>>
       THEN Go("compress") /\ UNCHANGED <<q, mf>>
       ELSE LET r == Head(q["from_metadata"])
            IN  /\ Go(IF HasInterval THEN "compress" ELSE "no_interval")
                /\ mf' = [mf EXCEPT ![r] = Restored(r)]
                /\ q' = Move("from_metadata", "to_dram")
    /\ UNCHANGED <<l2Vars, dramVars, phaseVars, arbitrationVars, cacheVars>>

ToCompressor ==
    /\ stage = "compress"
    /\ Go("compressed")
    /\ q' = IF q["to_compressor"] # <<>> /\ Len(q["compressor"]) <= Units
            THEN Move("to_compressor", "compressor") ELSE q
    /\ UNCHANGED <<l2Vars, dramVars, phaseVars, mf, arbitrationVars,
                   cacheVars>>

CompressorReady ==
    /\ stage = "compressed"
    /\ Go(IF HasInterval THEN "respond" ELSE "no_interval")
    /\ q["compressor"] # <<>>
    /\ q' = Move("compressor", "to_dram")
    /\ UNCHANGED <<l2Vars, dramVars, phaseVars, mf, arbitrationVars,
                   cacheVars>>

-----------------------------------------------------------------------------
(* The metadata cache, see MetadataPath. *)

MetadataResponse ==
    /\ stage = "respond"
    /\ Go("fill")
    /\ IF access_ready /\ Len(q["from_metadata"]) < QueueSize
       THEN next_access /\ q' = Push("from_metadata", next_read)
       ELSE UNCHANGED <<cacheVars, q>>
    /\ UNCHANGED <<l2Vars, dramVars, phaseVars, mf, arbitrationVars>>

MetadataFill ==
    /\ stage = "fill"
    /\ Go("miss")
    /\ IF q["dram_to_metadata"] # <<>>
       THEN LET r == Head(q["dram_to_metadata"])
            IN  /\ q' = Pop("dram_to_metadata")
                /\ IF r \in m_extra_mf_fields THEN fill(r)
                                              ELSE UNCHANGED cacheVars
       ELSE UNCHANGED <<cacheVars, q>>
    /\ UNCHANGED <<l2Vars, dramVars, phaseVars, mf, arbitrationVars>>

\* The lower level of the cache is the queue to the DRAM
\* (metadata_cache_interface::full, push).
MetadataMiss ==
    /\ stage = "miss"
    /\ Go("access")
    /\ LET sends == m_miss_queue # <<>> /\ Len(q["to_dram"]) < QueueSize
       IN  /\ cache_cycle(sends)
           /\ q' = IF sends THEN Push("to_dram", Head(m_miss_queue)) ELSE q
    /\ UNCHANGED <<l2Vars, dramVars, phaseVars, mf, arbitrationVars>>

MetadataAccess ==
    /\ stage = "access"
    /\ Go("huffman")
    /\ IF q["to_metadata"] # <<>> /\ Len(q["from_metadata"]) < QueueSize
          /\ data_port_free
       THEN LET r == Head(q["to_metadata"])
            IN  /\ access(r)
                /\ q' = CASE access_outcome(r) = "HIT" ->
                               Move("to_metadata", "from_metadata")
                          [] access_outcome(r) = "MISS" -> Pop("to_metadata")
                          [] OTHER -> q
       ELSE UNCHANGED <<cacheVars, q>>
    /\ UNCHANGED <<l2Vars, dramVars, phaseVars, mf, arbitrationVars>>

-----------------------------------------------------------------------------
(* The latency queue in front of the DRAM. *)

ToLatencyQueue ==
    /\ stage = "huffman"
    /\ Go("latency")
    /\ q' = IF q["to_dram"] # <<>> THEN Move("to_dram", "latency") ELSE q
    /\ UNCHANGED <<l2Vars, dramVars, phaseVars, mf, arbitrationVars,
                   cacheVars>>

\* The head is ready.  A metadata request only waits for the latency, but is
\* held up by a full DRAM like any other.
LatencyOver ==
    /\ stage = "latency"
    /\ q["latency"] # <<>>
    /\ ~dram_full
    /\ Go("idle")
    /\ LET x == Head(q["latency"])
       IN  IF IsMetadata(x)
           THEN /\ q' = Move("latency", "dram_to_metadata")
                /\ UNCHANGED dram_waiting
           ELSE /\ q' = Pop("latency")
                /\ dram_waiting' = dram_waiting \cup {x}
    /\ UNCHANGED <<l2Vars, dram_served, phaseVars, mf, arbitrationVars,
                   cacheVars>>

-----------------------------------------------------------------------------

\* What a stage waits for is not ready: the latency of the head of a queue is
\* not over, the DRAM has no complete request or its return queue is full, or
\* the DRAM has no room for the head of the latency queue.
Stall ==
    /\ stage \in {"decompress", "complete", "compressed", "latency"}
    /\ Go(CASE stage = "decompress" -> "deliver"
            [] stage = "complete"   -> "schedule"
            [] stage = "compressed" -> "respond"
            [] stage = "latency"    -> "idle")
    /\ UNCHANGED <<l2Vars, q, dramVars, phaseVars, mf, arbitrationVars,
                   cacheVars>>

Environment == \/ \E r \in Req : L2Issue(r)
               \/ \E p \in SubPart : L2Take(p)
               \/ SamplingEnds

dram_cycle ==
    \/ sampling_cycle
    \/ ReturnFromDram
    \/ DecompressorReady
    \/ DeliverToL2
    \/ \E x \in Req \cup Writebacks : DramCompletes(x)
    \/ \E S \in SUBSET dram_waiting : DramSchedules(S)
    \/ Arbitrate
    \/ Classify
    \/ Translate
    \/ Restore
    \/ ToCompressor
    \/ CompressorReady
    \/ MetadataResponse
    \/ MetadataFill
    \/ MetadataMiss
    \/ MetadataAccess
    \/ ToLatencyQueue
    \/ LatencyOver
    \/ Stall

Next == Environment \/ dram_cycle

Spec == Init /\ [][Next]_vars

\* The simulation loop calls dram_cycle again and again, and the L2 keeps
\* taking responses.  Latencies are finite: what waits is ready in some cycle.
FairSpec ==
    /\ Spec
    /\ WF_vars(dram_cycle)
    /\ SF_vars(\E p \in SubPart : L2Take(p))
    /\ SF_vars(DecompressorReady)
    /\ SF_vars(CompressorReady)
    /\ SF_vars(LatencyOver)
    /\ SF_vars(\E x \in Req \cup Writebacks : DramCompletes(x))
    /\ SF_vars(\E S \in SUBSET dram_waiting : S # {} /\ DramSchedules(S))

-----------------------------------------------------------------------------
(* Properties *)

Fetch == [is_meta_data_request : BOOLEAN, addr : {"data", "metadata"},
          size : {"original", "burst"}, m_compressed : BOOLEAN]

\* The queues hold requests, the counters and flags have their types.
TypeOK == /\ CacheTypeOK
          /\ stage \in CycleStages \cup Crashes
          /\ pending \subseteq Req /\ retired \subseteq Req
          /\ l2_dram \in [SubPart -> Seq(Req)]
          /\ dram_l2 \in [SubPart -> Seq(Req)]
          /\ q \in [Queues -> Seq(Req \cup Writebacks)]
          /\ dram_waiting \subseteq Req \cup Writebacks
          /\ dram_served \subseteq Req \cup Writebacks
          /\ classified \in Req \cup {NoReq}
          /\ mf \in [Req -> Fetch]
          /\ compressing \in BOOLEAN
          /\ codebook \in CodebookProgress

Positions(r, queue) == {i \in DOMAIN queue : queue[i] = r}

Times(r, queue) == Cardinality(Positions(r, queue))

One(b) == IF b THEN 1 ELSE 0

\* Where a request can be; a read that joined an MSHR entry, and is not itself
\* the one that was sent to memory, is only there.
Sightings(r) ==
    One(r \in pending) + Times(r, l2_dram[SubOf[r]]) + One(classified = r)
    + Cardinality(UNION {{name} \X Positions(r, q[name]) : name \in Queues})
    + Times(r, m_miss_queue)
    + One(r \in dram_waiting) + One(r \in dram_served) + One(r \in retired)
    + One(r \notin m_extra_mf_fields /\ \E b \in Block : r \in ToSet(mshr[b]))

\* dram_cycle moves one mem_fetch object through all its queues and rewrites it
\* on the way: it is never lost, never in two of them, and so never returns
\* its credit, or reaches the L2, twice.
OnePlace == \A r \in Req : Sightings(r) = 1

\* What comes back to the L2 is what the L2 asked for: the address, the size
\* and the kind of a request are those it had, although on the way it was a
\* metadata request and then a request of the compressed size.
RestoredOnReturn ==
    \A r \in retired : /\ ~mf[r].is_meta_data_request
                       /\ mf[r].addr = "data"
                       /\ mf[r].size = "original"

\* The DRAM never sees a metadata address, and reads exactly the compressed
\* bursts of a request that went through the metadata cache.
DramSeesData ==
    \A r \in Req \cap (dram_waiting \cup dram_served \cup ToSet(q["returnq"])) :
        /\ ~mf[r].is_meta_data_request
        /\ mf[r].addr = "data"
        /\ (mf[r].size = "burst") = mf[r].m_compressed

\* The pushes of dram_cycle that are not preceded by a test for room, which
\* fifo_pipeline::push asserts, find room: credits bound the requests below
\* the L2, wherever they pile up.
QueuesHaveRoom == \A name \in Queues : Len(q[name]) <= QueueSize

\* m_interval_compression_stats.back() is called on a non-empty vector.
StatisticsHaveInterval == stage # "no_interval"

Queued == UNION {ToSet(l2_dram[p]) : p \in SubPart}

InFlight == Req \ (pending \cup Queued \cup retired)

Credits == INSTANCE DramCredits WITH inflight <- InFlight

\* The partition implements the credit discipline of DramCredits: each request
\* borrows one credit when it leaves the L2's queue and returns it once, when
\* it retires, whichever way it took through the partition.
CreditsRefined == Credits!CreditSpec

\* l2cache.cc:452: credits are never returned that were not borrowed.
CreditAssertion == m_shared_credit >= 0

\* l2cache.cc:401, "each sub partition get at least 1 credit for forward
\* progress": every request that the L2 makes is retired.  The requests of a
\* run are finitely many, so this says that the partition drains.
EveryRequestRetires ==
    Queued \cup InFlight # {} ~> Queued \cup InFlight = {}
=============================================================================
