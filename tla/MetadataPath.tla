---------------------------- MODULE MetadataPath ----------------------------
(***************************************************************************)
(* The metadata cache as dram_cycle drives it (l2cache.cc:966-1056 and     *)
(* 1093-1118): reads wait in m_to_metadata_cache_queue, in order, and the  *)
(* one at its head is retried every cycle until the cache accepts it;      *)
(* misses travel through a queue with the fixed latency dram_latency, and  *)
(* come back as fills; answered reads leave one per cycle.  One cycle is   *)
(*    arrive -> respond -> fill -> miss -> access -> latency               *)
(* which is the order of the code.  The data reads and the writebacks that *)
(* share the latency queue are left out here; MemPartition has them.       *)
(***************************************************************************)
EXTENDS MetadataCache

CONSTANT DramLatency  \* m_config->dram_latency, in cycles

ASSUME LatencyAssumption == DramLatency \in Nat

VARIABLES
    stage,
    pending,                 \* reads that have not arrived yet
    m_to_metadata_cache_queue,
    m_dram_latency_queue,    \* <<request, cycles until it is ready>>
    m_dram_to_metadata_cache_queue,
    answered                 \* reads pushed to m_from_metadata_cache_queue

pathVars == <<pending, m_to_metadata_cache_queue, m_dram_latency_queue,
              m_dram_to_metadata_cache_queue, answered>>
vars == <<cacheVars, pathVars, stage>>

Stages == {"arrive", "respond", "fill", "miss", "access", "latency"}

Init == /\ CacheInit
        /\ stage = "arrive"
        /\ pending = Req
        /\ m_to_metadata_cache_queue = <<>>
        /\ m_dram_latency_queue = <<>>
        /\ m_dram_to_metadata_cache_queue = <<>>
        /\ answered = {}

\* The L2 sends a read, already translated, or none.
Arrive(r) ==
    /\ stage = "arrive"
    /\ stage' = "respond"
    /\ r \in pending
    /\ pending' = pending \ {r}
    /\ m_to_metadata_cache_queue' = Append(m_to_metadata_cache_queue, r)
    /\ UNCHANGED <<cacheVars, m_dram_latency_queue,
                   m_dram_to_metadata_cache_queue, answered>>

NoArrival ==
    /\ stage = "arrive"
    /\ stage' = "respond"
    /\ UNCHANGED <<cacheVars, pathVars>>

\* Metadata fill response: one answered read per cycle.
Respond ==
    /\ stage = "respond"
    /\ stage' = "fill"
    /\ IF access_ready
       THEN /\ next_access
            /\ answered' = answered \cup {next_read}
       ELSE UNCHANGED <<cacheVars, answered>>
    /\ UNCHANGED <<pending, m_to_metadata_cache_queue, m_dram_latency_queue,
                   m_dram_to_metadata_cache_queue>>

\* A response that no read waits for is dropped (l2cache.cc:988-992).
Fill ==
    /\ stage = "fill"
    /\ stage' = "miss"
    /\ IF m_dram_to_metadata_cache_queue # <<>>
       THEN LET r == Head(m_dram_to_metadata_cache_queue)
            IN  /\ m_dram_to_metadata_cache_queue' =
                      Tail(m_dram_to_metadata_cache_queue)
                /\ IF r \in m_extra_mf_fields THEN fill(r)
                                              ELSE UNCHANGED cacheVars
       ELSE UNCHANGED <<cacheVars, m_dram_to_metadata_cache_queue>>
    /\ UNCHANGED <<pending, m_to_metadata_cache_queue, m_dram_latency_queue,
                   answered>>

\* m_metadata_cache->cycle(): through the queue to DRAM to the latency queue.
Miss ==
    /\ stage = "miss"
    /\ stage' = "access"
    /\ cache_cycle(m_miss_queue # <<>>)
    /\ m_dram_latency_queue' =
          m_dram_latency_queue \o (IF m_miss_queue = <<>> THEN <<>>
                                   ELSE << <<Head(m_miss_queue), DramLatency>> >>)
    /\ UNCHANGED <<pending, m_to_metadata_cache_queue,
                   m_dram_to_metadata_cache_queue, answered>>

\* New metadata access.  A read that fails stays at the head of the queue.
Access ==
    /\ stage = "access"
    /\ stage' = "latency"
    /\ IF m_to_metadata_cache_queue # <<>> /\ data_port_free
       THEN LET r == Head(m_to_metadata_cache_queue)
            IN  /\ access(r)
                /\ answered' = IF access_outcome(r) = "HIT"
                               THEN answered \cup {r} ELSE answered
                /\ m_to_metadata_cache_queue' =
                      IF access_outcome(r) = "RESERVATION_FAIL"
                      THEN m_to_metadata_cache_queue
                      ELSE Tail(m_to_metadata_cache_queue)
       ELSE UNCHANGED <<cacheVars, answered, m_to_metadata_cache_queue>>
    /\ UNCHANGED <<pending, m_dram_latency_queue,
                   m_dram_to_metadata_cache_queue>>

Aged(queue) ==
    [i \in DOMAIN queue |->
        <<queue[i][1], IF queue[i][2] > 0 THEN queue[i][2] - 1 ELSE 0>>]

\* The head of the latency queue leaves when it is ready: a metadata read
\* returns to the cache, a writeback goes on to the DRAM.  Time passes.
LatencyOver ==
    /\ stage = "latency"
    /\ stage' = "arrive"
    /\ m_dram_latency_queue # <<>> /\ Head(m_dram_latency_queue)[2] = 0
    /\ LET r == Head(m_dram_latency_queue)[1]
       IN  m_dram_to_metadata_cache_queue' =
              IF r \in Writebacks THEN m_dram_to_metadata_cache_queue
              ELSE Append(m_dram_to_metadata_cache_queue, r)
    /\ m_dram_latency_queue' = Aged(Tail(m_dram_latency_queue))
    /\ UNCHANGED <<cacheVars, pending, m_to_metadata_cache_queue, answered>>

\* The head is not ready, or the DRAM is full: metadata reads do not use the
\* DRAM but wait for room in it all the same (l2cache.cc:1093-1118).
LatencyStall ==
    /\ stage = "latency"
    /\ stage' = "arrive"
    /\ m_dram_latency_queue' = Aged(m_dram_latency_queue)
    /\ UNCHANGED <<cacheVars, pending, m_to_metadata_cache_queue,
                   m_dram_to_metadata_cache_queue, answered>>

Next == \/ \E r \in Req : Arrive(r)
        \/ NoArrival
        \/ Respond
        \/ Fill
        \/ Miss
        \/ Access
        \/ LatencyOver
        \/ LatencyStall

Spec == Init /\ [][Next]_vars

\* dram_cycle is called in a loop, so some stage always runs, and the DRAM is
\* not full forever.
FairSpec == Spec /\ WF_vars(Next) /\ SF_vars(LatencyOver)

-----------------------------------------------------------------------------
(* Properties *)

InLatency == {m_dram_latency_queue[i][1] : i \in DOMAIN m_dram_latency_queue}

\* Every read that memory answers is awaited: no response is dropped on the
\* branch at l2cache.cc:988, and mark_ready's assertion that the MSHR entry
\* exists (gpu-cache.cc:557) holds, with the read that caused the miss first.
FillsAreAwaited ==
    \A r \in ToSet(m_dram_to_metadata_cache_queue) \cup InLatency :
        r \in Req => /\ r \in m_extra_mf_fields
                     /\ mshr[BlockOf[r]] # <<>>
                     /\ Head(mshr[BlockOf[r]]) = r

Positions(r, queue) == {i \in DOMAIN queue : queue[i] = r}

Merged(r) == Cardinality(UNION {{b} \X Positions(r, mshr[b]) : b \in Block})

Queued(r) == Cardinality(Positions(r, m_to_metadata_cache_queue))

\* A read is in exactly one place: not yet arrived, queued for the cache, in
\* one MSHR entry, or answered; merging and retrying neither lose nor
\* duplicate it.
OnePlace ==
    \A r \in Req : Merged(r) + Queued(r) + Cardinality({r} \cap pending)
                      + Cardinality({r} \cap answered) = 1

\* The assertions of mshr_table::add: the merge list and the table never grow
\* past their limits, and the set never holds more lines than it has ways.
CapacitiesHold ==
    /\ Cardinality(Cached) <= Ways
    /\ Cardinality(Entries) <= MshrEntries
    /\ \A b \in Block : Len(mshr[b]) <= MaxMerged
    /\ Len(m_miss_queue) <= MissQueueSize

\* l2cache.cc:401 counts on forward progress: every read that was sent to the
\* metadata cache is eventually answered.
EveryReadAnswered ==
    \A r \in Req : r \in ToSet(m_to_metadata_cache_queue) ~> r \in answered
=============================================================================
