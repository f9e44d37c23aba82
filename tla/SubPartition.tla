---------------------------- MODULE SubPartition ----------------------------
(***************************************************************************)
(* memory_sub_partition (src/src/gpgpu-sim/l2cache.cc): the L2 between the *)
(* interconnect and the memory partition, its four queues, the ROP delay   *)
(* queue and the request tracker that busy() looks at.                     *)
(*                                                                         *)
(* cache_cycle is one call; its parts are taken one after the other, in    *)
(* the order of the code, and nothing happens between them (stage).        *)
(* Between two calls the interconnect delivers a packet or takes an        *)
(* answer, the memory below takes a request or returns a read, in any      *)
(* order, and the copy engine touches a sector.                            *)
(***************************************************************************)
EXTENDS SectorCache

CONSTANTS After,          \* Packet -> the packets that are over before it starts
          Texture,        \* the packets that skip the ROP delay
          IcntL2Size,     \* capacities of the four queues
          L2DramSize,
          DramL2Size,
          L2IcntSize

ASSUME SubPartitionAssumption ==
    /\ After \in [Packet -> SUBSET Packet]
    /\ Texture \subseteq Packet \ (Writes \cup Copies)
    /\ {L2DramSize, DramL2Size, L2IcntSize} \subseteq Nat \ {0}
    /\ IcntL2Size \in Nat /\ IcntL2Size >= 4

VARIABLES
    stage,              \* the next part of cache_cycle, or "idle"
    pending,            \* packets the program has not issued yet
    answered,           \* requests whose answer the interconnect has taken
    m_rop,              \* the ROP delay queue
    m_icnt_L2_queue,
    m_L2_dram_queue,
    m_dram_L2_queue,
    m_L2_icnt_queue,
    m_request_tracker,
    below,              \* reads that the memory partition works on
    unwritten           \* sector addresses whose newest bytes memory lacks

workVars == <<pending, answered>>
memVars == <<below, unwritten>>
vars == <<cacheVars, stage, workVars, m_rop, m_icnt_L2_queue, m_L2_dram_queue,
          m_dram_L2_queue, m_L2_icnt_queue, m_request_tracker, memVars>>

Stages == {"idle", "respond", "dram", "miss", "access", "rop"}

\* A copy has used an index that tag_array::probe did not set.
Crashes == {"wild_index"}

At(s) == stage = s

Go(s) == stage' = s

busy == m_request_tracker # {}

Room(q, size) == Len(q) < size

Over(p) == p \notin pending /\ \A r \in Req : r[1] = p => r \in answered

\* The order of the program: what the warps and the streams wait for.
MayStart(p) == /\ At("idle")
               /\ p \in pending
               /\ \A x \in After[p] : Over(x)

Init == /\ CacheInit
        /\ stage = "idle"
        /\ pending = Packet
        /\ answered = {}
        /\ m_rop = <<>>
        /\ m_icnt_L2_queue = <<>>
        /\ m_L2_dram_queue = <<>>
        /\ m_dram_L2_queue = <<>>
        /\ m_L2_icnt_queue = <<>>
        /\ m_request_tracker = {}
        /\ below = {}
        /\ unwritten = {}

-----------------------------------------------------------------------------
(* Between two calls of cache_cycle *)

\* breakdown_request_to_sector_requests.
Parts(p) == [i \in 1 .. Size[p] |-> <<p, First[p] + i - 1>>]

\* memory_sub_partition::full(SECTOR_CHUNCK_SIZE), tested by the caller.
full == Len(m_icnt_L2_queue) + 4 > IcntL2Size

\* memory_sub_partition::push: a packet enters as requests for one sector.
push(p) ==
    /\ MayStart(p)
    /\ p \notin Copies
    /\ ~full
    /\ pending' = pending \ {p}
    /\ m_request_tracker' = m_request_tracker \cup ToSet(Parts(p))
    /\ IF p \in Texture
       THEN m_icnt_L2_queue' = m_icnt_L2_queue \o Parts(p) /\ UNCHANGED m_rop
       ELSE m_rop' = m_rop \o Parts(p) /\ UNCHANGED m_icnt_L2_queue
    /\ UNCHANGED <<cacheVars, stage, answered, m_L2_dram_queue, m_dram_L2_queue,
                   m_L2_icnt_queue, memVars>>

\* Mutant: the answer leaves and stays on the books.
StillTracked(r) == m_request_tracker

Untracked(r) == m_request_tracker \ {r}

\* memory_sub_partition::top and pop, when the interconnect has room.
pop ==
    /\ At("idle")
    /\ m_L2_icnt_queue # <<>>
    /\ LET r == Head(m_L2_icnt_queue)
       IN  /\ m_L2_icnt_queue' = Tail(m_L2_icnt_queue)
           /\ m_request_tracker' = Untracked(r)
           /\ answered' = answered \cup {r}
    /\ UNCHANGED <<cacheVars, stage, pending, m_rop, m_icnt_L2_queue,
                   m_L2_dram_queue, m_dram_L2_queue, memVars>>

\* The sector is dirty in the cache.
Dirty(k) == /\ Cached(k[1])
            /\ LET s == m_sector[WayOf(k[1])][k[2]]
               IN  \/ s.status = "MODIFIED"
                   \/ s.status = "RESERVED" /\ s.modified_on_fill

Carries(x, k) == /\ x \in Writebacks
                 /\ x[2] = k[1]
                 /\ k[2] \in x[3]

\* The memory partition (external to the sub partition; see MemPartition)
\* takes the head of m_L2_dram_queue; set_done does nothing for a writeback,
\* which is not in the tracker.
dram_takes ==
    /\ At("idle")
    /\ m_L2_dram_queue # <<>>
    /\ LET x == Head(m_L2_dram_queue)
       IN  /\ m_L2_dram_queue' = Tail(m_L2_dram_queue)
           /\ below' = IF x \in Writebacks THEN below ELSE below \cup {x}
           /\ unwritten' = {k \in unwritten : Carries(x, k) => Dirty(k)}
    /\ UNCHANGED <<cacheVars, stage, workVars, m_rop, m_icnt_L2_queue,
                   m_dram_L2_queue, m_L2_icnt_queue, m_request_tracker>>

\* memory_sub_partition::dram_L2_queue_push, in whatever order memory answers.
dram_returns ==
    /\ At("idle")
    /\ Room(m_dram_L2_queue, DramL2Size)
    /\ \E r \in below : /\ below' = below \ {r}
                        /\ m_dram_L2_queue' = Append(m_dram_L2_queue, r)
    /\ UNCHANGED <<cacheVars, stage, workVars, m_rop, m_icnt_L2_queue,
                   m_L2_dram_queue, m_L2_icnt_queue, m_request_tracker, unwritten>>

\* handle_memcpy_to_gpu, force_l2_tag_update.  Dirty sectors that the copy
\* overwrites or drops are no longer owed to memory.
copy(c) ==
    /\ MayStart(c)
    /\ c \in Copies
    /\ pending' = pending \ {c}
    /\ IF probe(<<BlockOf[c], First[c]>>) = "RESERVATION_FAIL"
       THEN Go("wild_index") /\ UNCHANGED <<cacheVars, unwritten>>
       ELSE /\ force_tag_access(c)
            /\ unwritten' = {k \in unwritten : Dirty(k)' \/ ~Dirty(k)}
            /\ UNCHANGED stage
    /\ UNCHANGED <<answered, m_rop, m_icnt_L2_queue, m_L2_dram_queue,
                   m_dram_L2_queue, m_L2_icnt_queue, m_request_tracker, below>>

start_cycle ==
    /\ At("idle")
    /\ Go("respond")
    /\ UNCHANGED <<cacheVars, workVars, m_rop, m_icnt_L2_queue, m_L2_dram_queue,
                   m_dram_L2_queue, m_L2_icnt_queue, m_request_tracker, memVars>>

-----------------------------------------------------------------------------
(* memory_sub_partition::cache_cycle, in the order of the code *)

\* L2 fill responses: one read of the entry being answered.
respond ==
    /\ At("respond")
    /\ Go("dram")
    /\ IF access_ready /\ Room(m_L2_icnt_queue, L2IcntSize)
       THEN /\ next_access
            /\ m_L2_icnt_queue' = Append(m_L2_icnt_queue, next_read)
       ELSE UNCHANGED <<cacheVars, m_L2_icnt_queue>>
    /\ UNCHANGED <<workVars, m_rop, m_icnt_L2_queue, m_L2_dram_queue,
                   m_dram_L2_queue, m_request_tracker, memVars>>

\* DRAM to L2.  With the L2 enabled for all accesses and writes written back,
\* whatever comes from memory is waiting for its fill.
fill_from_dram ==
    /\ At("dram")
    /\ Go("miss")
    /\ IF m_dram_L2_queue # <<>>
       THEN LET r == Head(m_dram_L2_queue)
            IN  /\ fill(r)
                /\ m_dram_L2_queue' = Tail(m_dram_L2_queue)
                /\ unwritten' = unwritten \cup (IF HasAtomic(Key(r)) THEN {Key(r)}
                                                ELSE {})
       ELSE UNCHANGED <<cacheVars, m_dram_L2_queue, unwritten>>
    /\ UNCHANGED <<workVars, m_rop, m_icnt_L2_queue, m_L2_dram_queue,
                   m_L2_icnt_queue, m_request_tracker, below>>

\* m_L2cache->cycle(): prior misses move to m_L2_dram_queue.
miss_to_dram ==
    LET taken == m_miss_queue # <<>> /\ Room(m_L2_dram_queue, L2DramSize)
    IN  /\ At("miss")
        /\ Go("access")
        /\ cache_cycle(taken)
        /\ m_L2_dram_queue' = IF taken THEN Append(m_L2_dram_queue, Head(m_miss_queue))
                              ELSE m_L2_dram_queue
        /\ UNCHANGED <<workVars, m_rop, m_icnt_L2_queue, m_dram_L2_queue,
                       m_L2_icnt_queue, m_request_tracker, memVars>>

\* Mutant: a write that missed waits for a fetch that nobody sent.
AnsweredOnHit(r) == access_outcome(r) = "HIT"

\* A hit is answered, and a write that missed, since nothing was fetched.
AnsweredNow(r) == \/ access_outcome(r) = "HIT"
                  \/ access_outcome(r) = "MISS" /\ IsWrite(r)

\* Mutant: an access that will be answered at once finds no room.
AcceptsIfPortFree == data_port_free

\* Conditions on the queue of answers and on the port for an access.
Accepts == Room(m_L2_icnt_queue, L2IcntSize) /\ data_port_free

\* A write, or an atomic that need not wait, changes the sector.
Dirties(r) == IsWrite(r) \/ (r[1] \in Atomic /\ access_outcome(r) = "HIT")

\* New accesses; a reservation failure is tried again in the next cycle.
access_L2 ==
    /\ At("access")
    /\ Go("rop")
    /\ IF /\ m_icnt_L2_queue # <<>>
          /\ Room(m_L2_dram_queue, L2DramSize)
          /\ Accepts
          /\ access_outcome(Head(m_icnt_L2_queue)) # "RESERVATION_FAIL"
       THEN LET r == Head(m_icnt_L2_queue)
            IN  /\ access(r)
                /\ m_icnt_L2_queue' = Tail(m_icnt_L2_queue)
                /\ m_L2_icnt_queue' = IF AnsweredNow(r) THEN Append(m_L2_icnt_queue, r)
                                      ELSE m_L2_icnt_queue
                /\ unwritten' = IF Dirties(r) THEN unwritten \cup {Key(r)}
                                ELSE unwritten
       ELSE UNCHANGED <<cacheVars, m_icnt_L2_queue, m_L2_icnt_queue, unwritten>>
    /\ UNCHANGED <<workVars, m_rop, m_L2_dram_queue, m_dram_L2_queue,
                   m_request_tracker, below>>

\* The head of the ROP queue has waited for rop_latency cycles.
rop_ready ==
    /\ At("rop")
    /\ m_rop # <<>>
    /\ Room(m_icnt_L2_queue, IcntL2Size)
    /\ Go("idle")
    /\ m_rop' = Tail(m_rop)
    /\ m_icnt_L2_queue' = Append(m_icnt_L2_queue, Head(m_rop))
    /\ UNCHANGED <<cacheVars, workVars, m_L2_dram_queue, m_dram_L2_queue,
                   m_L2_icnt_queue, m_request_tracker, memVars>>

\* It has not, or there is none, or there is no room.
rop_waits ==
    /\ At("rop")
    /\ Go("idle")
    /\ UNCHANGED <<cacheVars, workVars, m_rop, m_icnt_L2_queue, m_L2_dram_queue,
                   m_dram_L2_queue, m_L2_icnt_queue, m_request_tracker, memVars>>

subpartition_cycle == \/ start_cycle
                      \/ respond
                      \/ fill_from_dram
                      \/ miss_to_dram
                      \/ access_L2
                      \/ rop_ready
                      \/ rop_waits

Next == \/ \E p \in Packet : push(p)
        \/ \E c \in Packet : copy(c)
        \/ pop
        \/ dram_takes
        \/ dram_returns
        \/ subpartition_cycle

Spec == Init /\ [][Next]_vars

\* The L2 clock ticks for ever; latencies are finite and the neighbours keep
\* taking and returning.  A program that has packets left goes on.
FairSpec == /\ Spec
            /\ WF_vars(subpartition_cycle)
            /\ SF_vars(rop_ready)
            /\ SF_vars(pop)
            /\ SF_vars(dram_takes)
            /\ SF_vars(dram_returns)

-----------------------------------------------------------------------------
(* Properties *)

Times(x, q) == Cardinality({i \in DOMAIN q : q[i] = x})

Sightings(r) == Times(r, m_rop) + Times(r, m_icnt_L2_queue)
                + Times(r, mshr[Key(r)]) + Times(r, m_L2_icnt_queue)

Fetched(r) == Times(r, m_miss_queue) + Times(r, m_L2_dram_queue)
              + (IF r \in below THEN 1 ELSE 0) + Times(r, m_dram_L2_queue)

\* busy() tells the simulator whether a kernel may still have requests in this
\* sub partition.  It is exact: a request is tracked if and only if it is in
\* one place above the memory, and what is below the L2 is a writeback or the
\* fetch of a tracked read.  So when busy() is false only writebacks are left.
BusyIsExact ==
    \A r \in Req :
        /\ Sightings(r) = (IF r \in m_request_tracker THEN 1 ELSE 0)
        /\ Fetched(r) = (IF waiting_for_fill(r) THEN 1 ELSE 0)
        /\ waiting_for_fill(r) => r \in m_request_tracker

\* The program orders what it does to a sector: of two packets that touch it,
\* one of them a write or a copy, one starts when the other is over.  It is what
\* the next properties of the data ask of a program; sub_partition_race shows a
\* program without it.
Sectors(p) == First[p] .. First[p] + Size[p] - 1

RaceFree ==
    \A p, c \in Packet :
        /\ p # c /\ c \in Writes \cup Copies
        /\ BlockOf[p] = BlockOf[c] /\ Sectors(p) \cap Sectors(c) # {}
        => p \in After[c] \/ c \in After[p]

\* A read that hits finds every byte of the sector: the bytes that a lazy
\* write left out have been fetched, and a fill that was under way when its
\* line was written, refetched or replaced has not made an incomplete sector
\* readable.
HitIsComplete ==
    \A k \in Keys : probe(k) = "HIT" => m_sector[WayOf(k[1])][k[2]].complete

\* Written data is not lost: until it is in memory it is in a dirty sector or
\* in a writeback on its way, however often the sector has been refetched.
\* (A host copy drops the dirty sectors of the line it replaces.)
DirtyDataIsKept ==
    \A k \in unwritten :
        \/ Dirty(k)
        \/ \E x \in ToSet(m_miss_queue) \cup ToSet(m_L2_dram_queue) : Carries(x, k)

\* What gpu-cache.h:299 keeps as a comment, "if(!m_ignore_on_fill_status[sidx])
\* assert( m_status[sidx] == RESERVED )": a fill finds the sector reserved for
\* it in the way that the miss remembered, unless a write has told it to ignore
\* the fill.
FillFindsReservation ==
    \A r \in Req : waiting_for_fill(r) =>
        LET s == m_sector[m_extra_mf_fields[r]][r[2]]
        IN  s.ignore_on_fill \/ s.status = "RESERVED"

\* The program orders its copies and its reads: a copy starts when the read is
\* over, or the read when the copy is.
CopiesWait ==
    \A c \in Copies, p \in Packet \ (Writes \cup Copies) :
        p \in After[c] \/ c \in After[p]

\* handle_memcpy_to_gpu takes the index of the line from a probe whose result it
\* does not look at: when the program has waited for what it issued before the
\* copy, some line of the set can be replaced and the index has been set.
CopyFindsLine == stage \notin Crashes

\* The pushes of cache_cycle and of a miss that makes two requests find room
\* (fifo_pipeline::push and mshr_table::add assert it).
PushesHaveRoom ==
    /\ Len(m_icnt_L2_queue) <= IcntL2Size
    /\ Len(m_L2_icnt_queue) <= L2IcntSize
    /\ Len(m_miss_queue) <= MissQueueSize
    /\ Cardinality(Entries) <= MshrEntries
    /\ \A k \in Keys : Len(mshr[k]) <= MaxMerged

\* A sector is reserved for a fill that is not on its way: a read has joined an
\* MSHR entry that was being answered after its line had been evicted
\* (gpu-cache.cc:1139; MetadataPath shows where that leads).
LineLost == \E w \in Way, s \in Sector :
                /\ m_sector[w][s].status = "RESERVED"
                /\ \A r \in Req : ~(m_extra_mf_fields[r] = w /\ r[2] = s)

\* No read joins an entry whose line has been evicted: an entry has one read
\* only, or an access is accepted only when the answers before it have left, or
\* the program orders its reads of a sector too.
NoLateJoin ==
    \/ MaxMerged = 1
    \/ L2IcntSize = 1
    \/ \A p, q \in Packet \ (Writes \cup Copies) :
          /\ p # q /\ BlockOf[p] = BlockOf[q] /\ Sectors(p) \cap Sectors(q) # {}
          => p \in After[q] \/ q \in After[p]

\* Every request that enters is answered: reservation failures, full queues
\* and busy ports only delay it, as long as no line is lost.
EveryRequestAnswered ==
    \A r \in Req : (r \in m_request_tracker) ~> (r \in answered \/ LineLost)
=============================================================================
