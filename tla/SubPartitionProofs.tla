-------------------------- MODULE SubPartitionProofs --------------------------
(***************************************************************************)
(* Proofs about SubPartition for every set of packets, every geometry of   *)
(* the L2 and every queue size.                                            *)
(*                                                                         *)
(* The request tracker is exact and every push finds room, whatever the    *)
(* program: first, what the operations of SectorCache do to the reads in   *)
(* the MSHR table, to those that wait for a fill and to the miss queue;    *)
(* then where a tracked request and a fetch may be, and how each step      *)
(* moves them.                                                             *)
(*                                                                         *)
(* Fills find their reservation, hits are complete and dirty data is kept, *)
(* when the program orders what it does to a sector: what each operation   *)
(* does to one sector of one line, and why no fill is on its way to a      *)
(* sector that is written or copied to.                                    *)
(***************************************************************************)
EXTENDS SubPartition, QueueLemmas

-----------------------------------------------------------------------------
(* Requests, sector addresses and ways *)

\* A request has a packet, a sector and a sector address.
LEMMA RequestParts ==
    ASSUME NEW r \in Req
    PROVE  /\ r[1] \in Packet \ Copies /\ r[2] \in Sector
           /\ r = <<r[1], r[2]>>
           /\ BlockOf[r[1]] \in Block
           /\ Key(r) \in Keys
           /\ Key(r)[1] \in Block /\ Key(r)[2] \in Sector
<1>1. r \in (Packet \ Copies) \X Sector
  BY DEF Req
<1>2. r[1] \in Packet \ Copies /\ r[2] \in Sector /\ r = <<r[1], r[2]>>
  BY <1>1
<1>3. BlockOf[r[1]] \in Block
  BY <1>2, SectorCacheAssumption
<1> QED
  BY <1>2, <1>3 DEF Key, Keys

\* A writeback is no request.
LEMMA WritebacksApart == Req \cap Writebacks = {}
<1> SUFFICES ASSUME NEW r \in Req, NEW b \in Block, NEW S \in SUBSET Sector,
                    r = Wb(b, S)
             PROVE  FALSE
  BY DEF Writebacks
<1>1. DOMAIN r = 1 .. 2
  BY RequestParts
<1>2. DOMAIN r = 1 .. 3
  BY DEF Wb
<1> QED
  BY <1>1, <1>2

\* An access ends up in a way of the set.
LEMMA WaysOfAccess ==
    ASSUME NEW k, NEW w \in WaysFor(k)
    PROVE  w \in Way
<1>1. CASE Cached(k[1])
  <2>1. WayOf(k[1]) \in Way
    BY <1>1 DEF Cached, WayOf
  <2> QED
    BY <1>1, <2>1 DEF WaysFor
<1>2. CASE ~Cached(k[1])
  <2>1. Replaceable \subseteq Way
    BY DEF Replaceable
  <2>2. w \in Victims
    BY <1>2 DEF WaysFor
  <2> DEFINE invalid == {x \in Replaceable : is_invalid_line(x)}
  <2>3. CASE invalid # {}
    <3>1. w = CHOOSE x \in invalid : TRUE
      BY <2>2, <2>3 DEF Victims
    <3>2. w \in invalid
      BY <2>3, <3>1
    <3> QED
      BY <2>1, <3>2
  <2>4. CASE invalid = {}
    BY <2>1, <2>2, <2>4 DEF Victims
  <2> QED
    BY <2>3, <2>4
<1> QED
  BY <1>1, <1>2

-----------------------------------------------------------------------------
(* The cache *)

\* The read waits in the MSHR entry of its sector.
Waiting(r) == r \in ToSet(mshr[Key(r)])

CacheTypes == /\ mshr \in [Keys -> Seq(Req)]
              /\ m_current_response \in Seq(Keys)
              /\ m_extra_mf_fields \in [Req -> 0 .. Ways]
              /\ m_miss_queue \in Seq(Req \cup Writebacks)

\* A line without a block has nothing to write back, and no fill is on its way
\* to it.
LinesInv == /\ m_tag \in [Way -> Block \cup {NoBlock}]
            /\ m_sector = [w \in Way |-> m_sector[w]]
            /\ \A w \in Way : ModifiedSectors(w) # {} => m_tag[w] \in Block
            /\ \A r \in Req : waiting_for_fill(r) => m_tag[m_extra_mf_fields[r]] \in Block

\* An entry holds reads of its own sector, each once.
MergedOnce ==
    \A k \in Keys : /\ Once(mshr[k], Req)
                    /\ \A r \in ToSet(mshr[k]) : Key(r) = k

\* A read that waits for a fill is the first of its entry.
FetchIsFirst ==
    \A r \in Req : waiting_for_fill(r) => /\ mshr[Key(r)] # <<>>
                                          /\ Head(mshr[Key(r)]) = r

\* An entry that is being answered is not empty and waits for no fill.
AnsweredOnce ==
    /\ Once(m_current_response, Keys)
    /\ \A k \in ToSet(m_current_response) :
          /\ mshr[k] # <<>>
          /\ \A r \in ToSet(mshr[k]) : ~waiting_for_fill(r)

\* Of the reads, only those that wait for a fill are sent below, once.
SentOnce == /\ Once(m_miss_queue, Req)
            /\ \A r \in Req : r \in ToSet(m_miss_queue) => waiting_for_fill(r)

CacheInv == CacheTypes /\ LinesInv /\ MergedOnce /\ FetchIsFirst /\ AnsweredOnce
            /\ SentOnce

\* The bounds that mshr_table and the miss queue assert.
CacheBounds == /\ IsFiniteSet(Entries) /\ Cardinality(Entries) <= MshrEntries
               /\ \A k \in Keys : Len(mshr[k]) <= MaxMerged
               /\ Len(m_miss_queue) <= MissQueueSize

\* The empty cache.
LEMMA CacheInvInit == CacheInit => CacheInv /\ CacheBounds
<1> SUFFICES ASSUME CacheInit PROVE CacheInv /\ CacheBounds
  OBVIOUS
<1>1. CacheTypes
  BY EmptyQueue, SectorCacheAssumption DEF CacheInit, CacheTypes
<1>2. \A w \in Way : ModifiedSectors(w) = {}
  BY DEF CacheInit, ModifiedSectors, FreshSector
<1>3. \A r \in Req : ~waiting_for_fill(r)
  BY DEF CacheInit, waiting_for_fill
<1>4. LinesInv
  BY <1>2, <1>3 DEF CacheInit, LinesInv
<1>5. MergedOnce /\ FetchIsFirst /\ AnsweredOnce /\ SentOnce
  BY <1>3, EmptyQueue, EmptyOnce
     DEF CacheInit, MergedOnce, FetchIsFirst, AnsweredOnce, SentOnce
<1>6. Entries = {}
  BY DEF CacheInit, Entries
<1>7. /\ \A k \in Keys : Len(mshr[k]) <= MaxMerged
      /\ Len(m_miss_queue) <= MissQueueSize
  BY EmptyQueue, SectorCacheAssumption DEF CacheInit
<1> QED
  BY <1>1, <1>4, <1>5, <1>6, <1>7, FS_EmptySet, SectorCacheAssumption
     DEF CacheInv, CacheBounds

\* A read that waits for a fill waits in the table.
LEMMA FetchWaits ==
    ASSUME CacheInv, NEW r \in Req, waiting_for_fill(r)
    PROVE  Waiting(r)
<1>1. Key(r) \in Keys
  BY RequestParts
<1>2. mshr[Key(r)] \in Seq(Req) /\ mshr[Key(r)] # <<>> /\ Head(mshr[Key(r)]) = r
  BY <1>1 DEF CacheInv, CacheTypes, FetchIsFirst
<1> QED
  BY <1>2, TailQueue DEF Waiting

\* What the invariant says where neither the table nor the lines nor the miss
\* queue change.
LEMMA CacheStutter ==
    ASSUME CacheInv, CacheBounds, UNCHANGED cacheVars
    PROVE  /\ CacheInv' /\ CacheBounds'
           /\ \A r \in Req : /\ Waiting(r)' <=> Waiting(r)
                             /\ waiting_for_fill(r)' <=> waiting_for_fill(r)
BY DEF cacheVars, CacheInv, CacheBounds, CacheTypes, LinesInv, MergedOnce, FetchIsFirst,
       AnsweredOnce, SentOnce, Waiting, waiting_for_fill, ModifiedSectors, Entries

\* A step that only changes lines and ways, and no line without a block.
LEMMA LinesStep ==
    ASSUME CacheInv, CacheBounds, LinesInv',
           UNCHANGED <<mshr, m_current_response, m_extra_mf_fields, m_miss_queue>>
    PROVE  /\ CacheInv' /\ CacheBounds'
           /\ \A r \in Req : /\ Waiting(r)' <=> Waiting(r)
                             /\ waiting_for_fill(r)' <=> waiting_for_fill(r)
BY DEF CacheInv, CacheBounds, CacheTypes, MergedOnce, FetchIsFirst,
       AnsweredOnce, SentOnce, Waiting, waiting_for_fill, Entries

\* One line changes, and it has a block afterwards.
LEMMA LineChanges ==
    ASSUME LinesInv, NEW w \in Way, NEW b \in Block, NEW v,
           m_tag' = [m_tag EXCEPT ![w] = b],
           m_sector' = [m_sector EXCEPT ![w] = v],
           \A r \in Req : waiting_for_fill(r)' =>
              \/ m_extra_mf_fields'[r] = w
              \/ waiting_for_fill(r) /\ m_extra_mf_fields'[r] = m_extra_mf_fields[r]
                 /\ m_extra_mf_fields[r] \in Way
    PROVE  LinesInv'
<1>1. /\ m_tag' \in [Way -> Block \cup {NoBlock}]
      /\ m_tag'[w] = b
      /\ \A x \in Way : x # w => m_tag'[x] = m_tag[x]
  BY DEF LinesInv
<1>2. /\ m_sector' = [x \in Way |-> m_sector'[x]]
      /\ \A x \in Way : x # w => m_sector'[x] = m_sector[x]
  BY DEF LinesInv
<1>3. \A x \in Way : ModifiedSectors(x)' # {} => m_tag'[x] \in Block
  <2> SUFFICES ASSUME NEW x \in Way, x # w, ModifiedSectors(x)' # {}
               PROVE  m_tag'[x] \in Block
    BY <1>1
  <2>1. ModifiedSectors(x)' = ModifiedSectors(x)
    BY <1>2 DEF ModifiedSectors
  <2> QED
    BY <1>1, <2>1 DEF LinesInv
<1>4. \A r \in Req : waiting_for_fill(r)' => m_tag'[m_extra_mf_fields'[r]] \in Block
  BY <1>1 DEF LinesInv
<1> QED
  BY <1>1, <1>2, <1>3, <1>4 DEF LinesInv

\* What an access evicts: nothing, or the writeback of one line.
LEMMA EvictedLine ==
    ASSUME LinesInv, NEW k, NEW w \in Way
    PROVE  /\ WrittenBack(k, w) \in Seq(Req \cup Writebacks)
           /\ ToSet(WrittenBack(k, w)) \cap Req = {}
           /\ Once(WrittenBack(k, w), Req)
           /\ Len(WrittenBack(k, w)) \in 0 .. 1
<1>1. CASE probe(k) = "MISS" /\ ModifiedSectors(w) # {}
  <2> DEFINE x == Wb(m_tag[w], ModifiedSectors(w))
  <2>1. ModifiedSectors(w) \subseteq Sector
    BY DEF ModifiedSectors
  <2>2. m_tag[w] \in Block
    BY <1>1 DEF LinesInv
  <2>3. x \in Writebacks
    BY <2>1, <2>2 DEF Writebacks
  <2>4. WrittenBack(k, w) = <<x>>
    BY <1>1 DEF WrittenBack
  <2> HIDE DEF x
  <2>5. /\ <<x>> \in Seq(Req \cup Writebacks) /\ ToSet(<<x>>) = {x} /\ Len(<<x>>) = 1
        /\ Once(<<x>>, Req)
    BY <2>3, SingleQueue, SingleOnce
  <2> QED
    BY <2>3, <2>4, <2>5, WritebacksApart
<1>2. CASE ~(probe(k) = "MISS" /\ ModifiedSectors(w) # {})
  <2>1. WrittenBack(k, w) = <<>>
    BY <1>2 DEF WrittenBack
  <2>2. /\ <<>> \in Seq(Req \cup Writebacks) /\ ToSet(<<>>) = {} /\ Len(<<>>) = 0
        /\ Once(<<>>, Req)
    BY EmptyQueue, EmptyOnce
  <2> QED
    BY <2>1, <2>2
<1> QED
  BY <1>1, <1>2

\* Joining the evicted line to a miss queue.
LEMMA EvictedJoins ==
    ASSUME LinesInv, NEW k, NEW w \in Way, NEW m \in Seq(Req \cup Writebacks),
           Once(m, Req), NEW n, n = m \o WrittenBack(k, w)
    PROVE  /\ n \in Seq(Req \cup Writebacks)
           /\ Once(n, Req)
           /\ \A x \in Req : x \in ToSet(n) <=> x \in ToSet(m)
           /\ Len(n) \in Len(m) .. Len(m) + 1
<1> DEFINE e == WrittenBack(k, w)
<1>1. /\ e \in Seq(Req \cup Writebacks)
      /\ ToSet(e) \cap Req = {}
      /\ Once(e, Req)
      /\ Len(e) \in 0 .. 1
  BY EvictedLine
<1> HIDE DEF e
<1>2. /\ m \o e \in Seq(Req \cup Writebacks)
      /\ ToSet(m \o e) = ToSet(m) \cup ToSet(e)
      /\ Len(m \o e) = Len(m) + Len(e)
  BY <1>1, ConcatQueue
<1>3. Once(m \o e, Req)
  BY <1>1, ConcatOnce
<1>4. Len(m) \in Nat
  BY QueueElements
<1>5. Len(m \o e) \in Len(m) .. Len(m) + 1
  <2> DEFINE a == Len(m)
             b == Len(e)
  <2>1. a \in Nat /\ b \in 0 .. 1 /\ Len(m \o e) = a + b
    BY <1>1, <1>2, <1>4
  <2> HIDE DEF a, b
  <2>2. Len(m \o e) \in a .. a + 1
    BY <2>1
  <2> QED
    BY <2>2 DEF a
<1>6. n = m \o e
  BY DEF e
<1> QED
  BY <1>1, <1>2, <1>3, <1>5, <1>6

\* The outcome of an access that is neither a hit nor refused.
LEMMA MissHasRoom ==
    ASSUME NEW r \in Req, access_outcome(r) = "MISS"
    PROVE  /\ IsWrite(r) => ~miss_queue_full(0)
           /\ ~IsWrite(r) => ~miss_queue_full(1) /\ ~mshr_full(Key(r))
BY DEF access_outcome

\* Every outcome is one of three.
LEMMA Outcomes ==
    ASSUME NEW r \in Req
    PROVE  access_outcome(r) \in {"HIT", "MISS", "RESERVATION_FAIL"}
BY DEF access_outcome

\* A hit changes no queue and no entry.
LEMMA HitKeeps ==
    ASSUME CacheInv, CacheBounds, NEW r \in Req, access_outcome(r) = "HIT", hit(r)
    PROVE  /\ CacheInv' /\ CacheBounds'
           /\ \A x \in Req : /\ Waiting(x)' <=> Waiting(x)
                             /\ waiting_for_fill(x)' <=> waiting_for_fill(x)
           /\ UNCHANGED m_miss_queue
<1> DEFINE k == Key(r)
           w == WayOf(k[1])
<1>1. UNCHANGED <<m_tag, mshr, m_current_response, m_extra_mf_fields, m_miss_queue>>
  BY DEF hit
<1>2. /\ m_sector' = [m_sector EXCEPT ![w] = m_sector'[w]] \/ m_sector' = m_sector
      /\ w \in Way /\ m_tag[w] = k[1]
  <2>1. Cached(k[1])
    <3>1. probe(k) = "HIT"
      BY DEF access_outcome
    <3> QED
      BY <3>1 DEF probe
  <2>2. w \in Way /\ m_tag[w] = k[1]
    BY <2>1 DEF Cached, WayOf
  <2>3. m_sector' = IF IsWrite(r) \/ r[1] \in Atomic
                    THEN [m_sector EXCEPT ![w][k[2]].status = "MODIFIED"]
                    ELSE m_sector
    BY DEF hit
  <2>4. m_sector = [x \in Way |-> m_sector[x]]
    BY DEF CacheInv, LinesInv
  <2> HIDE DEF w, k
  <2> QED
    BY <2>2, <2>3, <2>4
<1>3. k[1] \in Block
  BY RequestParts
<1>4. m_tag' = [m_tag EXCEPT ![w] = k[1]]
  BY <1>1, <1>2 DEF CacheInv, LinesInv
<1>5. \A x \in Req : /\ waiting_for_fill(x)' <=> waiting_for_fill(x)
                     /\ waiting_for_fill(x) => m_extra_mf_fields[x] \in Way
  BY <1>1 DEF waiting_for_fill, CacheInv, CacheTypes, Way
<1>6. LinesInv'
  <2>1. CASE m_sector' = m_sector
    <3>1. \A x \in Way : ModifiedSectors(x)' = ModifiedSectors(x)
      BY <2>1 DEF ModifiedSectors
    <3> QED
      BY <1>1, <1>5, <2>1, <3>1 DEF CacheInv, LinesInv
  <2>2. CASE m_sector' = [m_sector EXCEPT ![w] = m_sector'[w]]
    <3> DEFINE v == m_sector'[w]
    <3>1. m_sector' = [m_sector EXCEPT ![w] = v]
      BY <2>2
    <3> HIDE DEF v, w, k
    <3> QED
      BY <1>1, <1>2, <1>3, <1>4, <1>5, <3>1, LineChanges DEF CacheInv
  <2> QED
    BY <1>2, <2>1, <2>2
<1> QED
  BY <1>1, <1>6, LinesStep

\* A write that misses changes a line and may evict one.
LEMMA WriteMissKeeps ==
    ASSUME CacheInv, CacheBounds, NEW r \in Req, IsWrite(r),
           access_outcome(r) = "MISS", wr_miss_wa_lazy_fetch_on_read(r)
    PROVE  /\ CacheInv' /\ CacheBounds'
           /\ \A x \in Req : /\ Waiting(x)' <=> Waiting(x)
                             /\ waiting_for_fill(x)' <=> waiting_for_fill(x)
                             /\ x \in ToSet(m_miss_queue') <=> x \in ToSet(m_miss_queue)
<1> DEFINE k == Key(r)
<1>1. PICK w \in WaysFor(k) :
        /\ m_tag' = [m_tag EXCEPT ![w] = k[1]]
        /\ m_sector' = [m_sector EXCEPT ![w] =
              [Accessed(k, w) EXCEPT ![k[2]] =
                  Overwritten(@, r, probe(k) = "HIT_RESERVED")]]
        /\ m_miss_queue' = m_miss_queue \o WrittenBack(k, w)
        /\ UNCHANGED <<mshr, m_current_response, m_extra_mf_fields>>
  BY DEF wr_miss_wa_lazy_fetch_on_read
<1> DEFINE v == [Accessed(k, w) EXCEPT ![k[2]] =
                  Overwritten(@, r, probe(k) = "HIT_RESERVED")]
<1>2. w \in Way /\ k[1] \in Block
  BY WaysOfAccess, RequestParts
<1>3. m_miss_queue \in Seq(Req \cup Writebacks) /\ Once(m_miss_queue, Req) /\ LinesInv
  BY DEF CacheInv, CacheTypes, SentOnce
<1>4. m_sector' = [m_sector EXCEPT ![w] = v]
  BY <1>1
<1> HIDE DEF k, v
<1>5. /\ m_miss_queue' \in Seq(Req \cup Writebacks)
      /\ Once(m_miss_queue', Req)
      /\ \A x \in Req : x \in ToSet(m_miss_queue') <=> x \in ToSet(m_miss_queue)
      /\ Len(m_miss_queue') \in Len(m_miss_queue) .. Len(m_miss_queue) + 1
  BY <1>1, <1>2, <1>3, EvictedJoins
<1>6. \A x \in Req : /\ waiting_for_fill(x)' <=> waiting_for_fill(x)
                     /\ waiting_for_fill(x) => m_extra_mf_fields[x] \in Way
                     /\ Waiting(x)' <=> Waiting(x)
  BY <1>1 DEF waiting_for_fill, CacheInv, CacheTypes, Way, Waiting
<1>7. LinesInv'
  BY <1>1, <1>2, <1>3, <1>4, <1>6, LineChanges
<1>8. CacheTypes' /\ SentOnce'
  BY <1>1, <1>5, <1>6 DEF CacheInv, CacheTypes, SentOnce
<1>9. MergedOnce' /\ FetchIsFirst' /\ AnsweredOnce'
  BY <1>1, <1>6 DEF CacheInv, MergedOnce, FetchIsFirst, AnsweredOnce, waiting_for_fill
<1>10. Len(m_miss_queue') <= MissQueueSize
  <2>1. ~miss_queue_full(0) /\ Len(m_miss_queue) \in Nat /\ MissQueueSize \in Nat
    BY <1>3, MissHasRoom, QueueElements, SectorCacheAssumption
  <2> QED
    BY <1>5, <2>1 DEF miss_queue_full
<1>11. CacheBounds'
  BY <1>1, <1>10 DEF CacheBounds, Entries
<1> QED
  BY <1>5, <1>6, <1>7, <1>8, <1>9, <1>11 DEF CacheInv

\* A read that misses joins the entry of its sector.  If there was none, it is
\* sent below and waits for the fill.
LEMMA ReadMissKeeps ==
    ASSUME CacheInv, CacheBounds, NEW r \in Req, ~IsWrite(r), ~Waiting(r),
           access_outcome(r) = "MISS", rd_miss_base(r)
    PROVE  /\ CacheInv' /\ CacheBounds'
           /\ \A x \in Req :
                 /\ Waiting(x)' <=> Waiting(x) \/ x = r
                 /\ waiting_for_fill(x)'
                       <=> waiting_for_fill(x) \/ (x = r /\ Key(r) \notin Entries)
                 /\ x \in ToSet(m_miss_queue')
                       <=> \/ x \in ToSet(m_miss_queue)
                           \/ x = r /\ Key(r) \notin Entries
<1> DEFINE k == Key(r)
           sent == k \notin Entries
<1>1. PICK w \in WaysFor(k) :
        /\ m_tag' = [m_tag EXCEPT ![w] = k[1]]
        /\ m_sector' = [m_sector EXCEPT ![w] = Accessed(k, w)]
        /\ mshr' = [mshr EXCEPT ![k] = Append(@, r)]
        /\ m_extra_mf_fields' = IF sent THEN [m_extra_mf_fields EXCEPT ![r] = w]
                                ELSE m_extra_mf_fields
        /\ m_miss_queue' = m_miss_queue \o (IF sent THEN <<r>> ELSE <<>>)
                               \o WrittenBack(k, w)
        /\ UNCHANGED m_current_response
  BY DEF rd_miss_base
<1>2. w \in Way /\ k[1] \in Block /\ k \in Keys /\ Way = 1 .. Ways /\ Ways \in Nat
  BY WaysOfAccess, RequestParts, SectorCacheAssumption DEF Way
<1>3. /\ mshr \in [Keys -> Seq(Req)]
      /\ mshr[k] \in Seq(Req)
      /\ m_miss_queue \in Seq(Req \cup Writebacks)
      /\ Once(m_miss_queue, Req)
      /\ m_current_response \in Seq(Keys)
      /\ m_extra_mf_fields \in [Req -> 0 .. Ways]
      /\ LinesInv
  BY <1>2 DEF CacheInv, CacheTypes, SentOnce
<1>4. ~waiting_for_fill(r) /\ r \notin ToSet(m_miss_queue)
  BY FetchWaits DEF CacheInv, SentOnce
<1> DEFINE s == IF sent THEN <<r>> ELSE <<>>
           m == m_miss_queue \o s
<1>5. /\ s \in Seq(Req \cup Writebacks)
      /\ ToSet(s) = IF sent THEN {r} ELSE {}
      /\ Once(s, Req)
      /\ Len(s) \in 0 .. 1
  <2>1. CASE sent
    <3>1. s = <<r>>
      BY <2>1
    <3>2. /\ <<r>> \in Seq(Req \cup Writebacks) /\ ToSet(<<r>>) = {r}
          /\ Once(<<r>>, Req) /\ Len(<<r>>) = 1
      BY SingleQueue, SingleOnce
    <3> HIDE DEF sent, s
    <3> QED
      BY <2>1, <3>1, <3>2
  <2>2. CASE ~sent
    <3>1. s = <<>>
      BY <2>2
    <3>2. /\ <<>> \in Seq(Req \cup Writebacks) /\ ToSet(<<>>) = {}
          /\ Once(<<>>, Req) /\ Len(<<>>) = 0
      BY EmptyQueue, EmptyOnce
    <3> HIDE DEF sent, s
    <3> QED
      BY <2>2, <3>1, <3>2
  <2> QED
    BY <2>1, <2>2
<1> HIDE DEF s, sent, k
<1>6. /\ m \in Seq(Req \cup Writebacks)
      /\ ToSet(m) = ToSet(m_miss_queue) \cup ToSet(s)
      /\ Len(m) = Len(m_miss_queue) + Len(s)
  BY <1>3, <1>5, ConcatQueue
<1>7. Once(m, Req)
  BY <1>3, <1>4, <1>5, ConcatOnce
<1>8. m_miss_queue' = m \o WrittenBack(k, w)
  BY <1>1 DEF s, sent
<1> HIDE DEF m
<1>9. /\ m_miss_queue' \in Seq(Req \cup Writebacks)
      /\ Once(m_miss_queue', Req)
      /\ \A x \in Req : x \in ToSet(m_miss_queue') <=> x \in ToSet(m)
      /\ Len(m_miss_queue') \in Len(m) .. Len(m) + 1
  BY <1>2, <1>3, <1>6, <1>7, <1>8, EvictedJoins
<1>10. \A x \in Req : x \in ToSet(m_miss_queue')
                        <=> x \in ToSet(m_miss_queue) \/ (x = r /\ sent)
  BY <1>5, <1>6, <1>9
<1>11. /\ m_extra_mf_fields' \in [Req -> 0 .. Ways]
       /\ \A x \in Req : x # r => m_extra_mf_fields'[x] = m_extra_mf_fields[x]
       /\ m_extra_mf_fields'[r] = IF sent THEN w ELSE m_extra_mf_fields[r]
  BY <1>1, <1>2, <1>3 DEF sent
<1>12. \A x \in Req : waiting_for_fill(x)' <=> waiting_for_fill(x) \/ (x = r /\ sent)
  BY <1>2, <1>4, <1>11 DEF waiting_for_fill
<1>13. /\ mshr' \in [Keys -> Seq(Req)]
       /\ mshr'[k] = Append(mshr[k], r)
       /\ \A c \in Keys : c # k => mshr'[c] = mshr[c]
  BY <1>1, <1>2, <1>3, AppendQueue
<1>14. /\ ToSet(mshr'[k]) = ToSet(mshr[k]) \cup {r}
       /\ mshr'[k] # <<>>
       /\ Len(mshr'[k]) = Len(mshr[k]) + 1
       /\ mshr[k] # <<>> => Head(mshr'[k]) = Head(mshr[k])
       /\ mshr[k] = <<>> => Head(mshr'[k]) = r
  BY <1>3, <1>13, AppendQueue
<1>15. Once(mshr'[k], Req)
  <2>1. Once(mshr[k], Req) /\ r \notin ToSet(mshr[k])
    BY <1>2 DEF CacheInv, MergedOnce, Waiting, k
  <2> QED
    BY <1>3, <1>13, <2>1, AppendOnce
<1>16. \A x \in Req : Waiting(x)' <=> Waiting(x) \/ x = r
  <2>1. SUFFICES ASSUME NEW x \in Req
                 PROVE  x \in ToSet(mshr'[Key(x)])
                           <=> x \in ToSet(mshr[Key(x)]) \/ x = r
    BY DEF Waiting
  <2>2. Key(x) \in Keys
    BY RequestParts
  <2> QED
    BY <1>13, <1>14, <2>2 DEF k
<1>17. CacheTypes'
  BY <1>1, <1>3, <1>9, <1>11, <1>13 DEF CacheTypes
<1>18. LinesInv'
  <2>1. \A x \in Req : waiting_for_fill(x)' =>
              \/ m_extra_mf_fields'[x] = w
              \/ waiting_for_fill(x) /\ m_extra_mf_fields'[x] = m_extra_mf_fields[x]
                 /\ m_extra_mf_fields[x] \in Way
    BY <1>2, <1>3, <1>11, <1>12 DEF waiting_for_fill
  <2> DEFINE v == Accessed(k, w)
  <2>2. m_sector' = [m_sector EXCEPT ![w] = v] /\ m_tag' = [m_tag EXCEPT ![w] = k[1]]
    BY <1>1
  <2> HIDE DEF v
  <2> QED
    BY <1>2, <1>3, <2>1, <2>2, LineChanges
<1>19. MergedOnce'
  <2> SUFFICES ASSUME NEW c \in Keys
               PROVE  Once(mshr'[c], Req) /\ \A x \in ToSet(mshr'[c]) : Key(x) = c
    BY DEF MergedOnce
  <2>1. Once(mshr[c], Req) /\ \A x \in ToSet(mshr[c]) : Key(x) = c
    BY DEF CacheInv, MergedOnce
  <2>2. Key(r) = k
    BY DEF k
  <2> QED
    BY <1>13, <1>14, <1>15, <2>1, <2>2
<1>20. FetchIsFirst'
  <2> SUFFICES ASSUME NEW x \in Req, waiting_for_fill(x)'
               PROVE  mshr'[Key(x)] # <<>> /\ Head(mshr'[Key(x)]) = x
    BY DEF FetchIsFirst
  <2>1. Key(x) \in Keys
    BY RequestParts
  <2>2. CASE waiting_for_fill(x)
    <3>1. mshr[Key(x)] # <<>> /\ Head(mshr[Key(x)]) = x
      BY <2>2 DEF CacheInv, FetchIsFirst
    <3> QED
      BY <1>13, <1>14, <2>1, <3>1
  <2>3. CASE x = r /\ sent
    <3>1. mshr[k] = <<>>
      BY <1>2, <2>3 DEF Entries, sent
    <3> QED
      BY <1>14, <2>3, <3>1 DEF k
  <2> QED
    BY <1>12, <2>2, <2>3
<1>21. AnsweredOnce'
  <2>1. SUFFICES ASSUME NEW c \in ToSet(m_current_response)
                 PROVE  /\ mshr'[c] # <<>>
                        /\ \A x \in ToSet(mshr'[c]) : ~waiting_for_fill(x)'
    BY <1>1 DEF AnsweredOnce, CacheInv
  <2>2. /\ c \in Keys
        /\ mshr[c] # <<>>
        /\ \A x \in ToSet(mshr[c]) : ~waiting_for_fill(x)
    BY <1>3, QueueElements DEF CacheInv, AnsweredOnce
  <2>3. c = k => ~sent
    BY <2>2 DEF Entries, sent
  <2>4. \A x \in ToSet(mshr[c]) : x \in Req /\ Key(x) = c
    BY <1>3, <2>2, QueueElements DEF CacheInv, MergedOnce
  <2>5. CASE c = k
    BY <1>4, <1>12, <1>14, <2>2, <2>3, <2>4, <2>5
  <2>6. CASE c # k
    <3>1. r \notin ToSet(mshr[c])
      BY <2>4, <2>6 DEF k
    <3> QED
      BY <1>12, <1>13, <2>2, <2>4, <2>6, <3>1
  <2> QED
    BY <2>5, <2>6
<1>22. SentOnce'
  BY <1>9, <1>10, <1>12 DEF CacheInv, SentOnce
<1>23. ~miss_queue_full(1) /\ ~mshr_full(k)
  BY MissHasRoom DEF k
<1>24. /\ MshrEntries \in Nat /\ MaxMerged \in Nat \ {0} /\ MissQueueSize \in Nat
       /\ Cardinality(Entries) \in Nat
       /\ Len(mshr[k]) \in Nat
  BY <1>3, SectorCacheAssumption, FS_CardinalityType, QueueElements DEF CacheBounds
<1>25. Len(m_miss_queue') <= MissQueueSize
  <2> DEFINE a == Len(m_miss_queue)
             b == Len(m)
             c == Len(m_miss_queue')
             d == Len(s)
  <2>1. a \in Nat /\ b = a + d /\ c \in b .. b + 1 /\ d \in 0 .. 1
    BY <1>3, <1>5, <1>6, <1>9, QueueElements
  <2>2. ~(a + 1 >= MissQueueSize)
    BY <1>23 DEF miss_queue_full
  <2> HIDE DEF a, b, c, d
  <2>3. c <= MissQueueSize
    BY <1>24, <2>1, <2>2
  <2> QED
    BY <2>3 DEF c
<1>26. Entries' = Entries \cup {k}
  BY <1>2, <1>13, <1>14 DEF Entries
<1>27. /\ IsFiniteSet(Entries') /\ Cardinality(Entries') <= MshrEntries
       /\ Len(mshr'[k]) <= MaxMerged
  <2>1. CASE ~sent
    <3>1. k \in Entries
      BY <2>1 DEF sent
    <3>2. Entries' = Entries
      BY <1>26, <3>1
    <3>3. Len(mshr[k]) < MaxMerged
      BY <1>23, <1>24, <3>1 DEF mshr_full
    <3> QED
      BY <1>14, <1>24, <3>2, <3>3 DEF CacheBounds
  <2>2. CASE sent
    <3>1. k \notin Entries
      BY <2>2 DEF sent
    <3>2. IsFiniteSet(Entries') /\ Cardinality(Entries') = Cardinality(Entries) + 1
      BY <1>26, <3>1, FS_AddElement DEF CacheBounds
    <3>3. Cardinality(Entries) < MshrEntries
      BY <1>23, <1>24, <3>1 DEF mshr_full
    <3>4. Len(mshr[k]) = 0
      BY <1>2, <3>1, EmptyQueue DEF Entries
    <3> QED
      BY <1>14, <1>24, <3>2, <3>3, <3>4
  <2> QED
    BY <2>1, <2>2
<1>28. CacheBounds'
  BY <1>13, <1>25, <1>27 DEF CacheBounds
<1> QED
  BY <1>10, <1>12, <1>16, <1>17, <1>18, <1>19, <1>20, <1>21, <1>22, <1>28
     DEF CacheInv, k, sent

\* A fill ends the wait of the read that was sent below, and its entry will be
\* answered.
LEMMA FillKeeps ==
    ASSUME CacheInv, CacheBounds, NEW r \in Req, waiting_for_fill(r),
           r \notin ToSet(m_miss_queue), fill(r)
    PROVE  /\ CacheInv' /\ CacheBounds'
           /\ \A x \in Req :
                 /\ Waiting(x)' <=> Waiting(x)
                 /\ waiting_for_fill(x)' <=> waiting_for_fill(x) /\ x # r
           /\ UNCHANGED m_miss_queue
<1> DEFINE k == Key(r)
           w == m_extra_mf_fields[r]
<1>1. /\ m_sector' = [m_sector EXCEPT ![w][k[2]] =
              Filled(@, HasAtomic(k), m_tag[w] = k[1])]
      /\ m_current_response' = Append(m_current_response, k)
      /\ m_extra_mf_fields' = [m_extra_mf_fields EXCEPT ![r] = 0]
      /\ UNCHANGED <<m_tag, mshr, m_miss_queue>>
  BY DEF fill
<1>2. k \in Keys /\ Waiting(r) /\ Way = 1 .. Ways /\ Ways \in Nat
  BY FetchWaits, RequestParts, SectorCacheAssumption DEF Way
<1>3. /\ mshr \in [Keys -> Seq(Req)]
      /\ m_current_response \in Seq(Keys)
      /\ m_extra_mf_fields \in [Req -> 0 .. Ways]
      /\ LinesInv
  BY DEF CacheInv, CacheTypes
<1>4. w \in Way /\ m_tag[w] \in Block
  BY <1>2, <1>3 DEF waiting_for_fill, LinesInv
<1>5. /\ m_extra_mf_fields' \in [Req -> 0 .. Ways]
      /\ \A x \in Req : x # r => m_extra_mf_fields'[x] = m_extra_mf_fields[x]
      /\ m_extra_mf_fields'[r] = 0
  BY <1>1, <1>2, <1>3
<1>6. \A x \in Req : waiting_for_fill(x)' <=> waiting_for_fill(x) /\ x # r
  BY <1>5 DEF waiting_for_fill
<1>7. LinesInv'
  <2>1. m_sector = [x \in Way |-> m_sector[x]] /\ m_tag \in [Way -> Block \cup {NoBlock}]
    BY <1>3 DEF LinesInv
  <2> DEFINE b == m_tag[w]
             v == m_sector'[w]
  <2>2. m_sector' = [m_sector EXCEPT ![w] = v] /\ m_tag' = [m_tag EXCEPT ![w] = b]
    <3> HIDE DEF w, k
    <3> QED
      BY <1>1, <1>4, <2>1
  <2>3. \A x \in Req : waiting_for_fill(x)' =>
              \/ m_extra_mf_fields'[x] = w
              \/ waiting_for_fill(x) /\ m_extra_mf_fields'[x] = m_extra_mf_fields[x]
                 /\ m_extra_mf_fields[x] \in Way
    BY <1>2, <1>3, <1>5, <1>6 DEF waiting_for_fill
  <2>4. b \in Block
    BY <1>4
  <2> HIDE DEF b, v, w
  <2> QED
    BY <1>3, <1>4, <2>2, <2>3, <2>4, LineChanges
<1>8. k \notin ToSet(m_current_response)
  BY <1>2 DEF CacheInv, AnsweredOnce, Waiting
<1>9. /\ m_current_response' \in Seq(Keys)
      /\ ToSet(m_current_response') = ToSet(m_current_response) \cup {k}
  BY <1>1, <1>2, <1>3, AppendQueue
<1>10. Once(m_current_response', Keys)
  BY <1>1, <1>2, <1>3, <1>8, AppendOnce DEF CacheInv, AnsweredOnce
<1>11. CacheTypes'
  BY <1>1, <1>3, <1>5, <1>9 DEF CacheInv, CacheTypes
<1>12. /\ mshr[k] # <<>>
       /\ \A x \in ToSet(mshr[k]) : x \in Req /\ ~waiting_for_fill(x)'
  <2>1. mshr[k] # <<>> /\ mshr[k] \in Seq(Req)
    BY <1>2, <1>3 DEF CacheInv, FetchIsFirst
  <2> SUFFICES ASSUME NEW x \in ToSet(mshr[k]) PROVE x \in Req /\ ~waiting_for_fill(x)'
    BY <2>1
  <2>2. x \in Req /\ Key(x) = k
    BY <1>2, <2>1, QueueElements DEF CacheInv, MergedOnce
  <2>3. waiting_for_fill(x) => x = r
    BY <2>2 DEF CacheInv, FetchIsFirst
  <2> QED
    BY <1>6, <2>2, <2>3
<1>13. AnsweredOnce'
  <2> SUFFICES ASSUME NEW c \in ToSet(m_current_response')
               PROVE  /\ mshr[c] # <<>>
                      /\ \A x \in ToSet(mshr[c]) : ~waiting_for_fill(x)'
    BY <1>1, <1>10 DEF AnsweredOnce
  <2>1. CASE c = k
    BY <1>12, <2>1
  <2>2. CASE c \in ToSet(m_current_response)
    <3>1. /\ c \in Keys /\ mshr[c] # <<>>
          /\ \A x \in ToSet(mshr[c]) : ~waiting_for_fill(x)
      BY <1>3, <2>2, QueueElements DEF CacheInv, AnsweredOnce
    <3>2. \A x \in ToSet(mshr[c]) : x \in Req
      BY <1>3, <3>1, QueueElements
    <3> QED
      BY <1>6, <3>1, <3>2
  <2> QED
    BY <1>9, <2>1, <2>2
<1>14. SentOnce'
  BY <1>1, <1>6 DEF CacheInv, SentOnce
<1>15. MergedOnce' /\ FetchIsFirst'
  BY <1>1, <1>6 DEF CacheInv, MergedOnce, FetchIsFirst
<1>16. CacheBounds' /\ \A x \in Req : Waiting(x)' <=> Waiting(x)
  BY <1>1 DEF CacheBounds, Entries, Waiting
<1> QED
  BY <1>1, <1>6, <1>7, <1>11, <1>13, <1>14, <1>15, <1>16 DEF CacheInv

\* An answer takes one read out of the table; it waited for no fill.
LEMMA NextKeeps ==
    ASSUME CacheInv, CacheBounds, access_ready, next_access
    PROVE  /\ CacheInv' /\ CacheBounds'
           /\ next_read \in Req
           /\ Waiting(next_read)
           /\ \A x \in Req : /\ Waiting(x)' <=> Waiting(x) /\ x # next_read
                             /\ waiting_for_fill(x)' <=> waiting_for_fill(x)
           /\ UNCHANGED m_miss_queue
<1> DEFINE k == Head(m_current_response)
           r == next_read
<1>1. /\ m_current_response \in Seq(Keys)
      /\ m_current_response # <<>>
      /\ mshr \in [Keys -> Seq(Req)]
  BY DEF CacheInv, CacheTypes, access_ready
<1>2. /\ k \in Keys
      /\ k \in ToSet(m_current_response)
  BY <1>1, TailQueue
<1>3. /\ mshr[k] \in Seq(Req)
      /\ mshr[k] # <<>>
      /\ \A x \in ToSet(mshr[k]) : ~waiting_for_fill(x) /\ Key(x) = k
      /\ Once(mshr[k], Req)
  BY <1>1, <1>2 DEF CacheInv, AnsweredOnce, MergedOnce
<1>4. r = Head(mshr[k])
  BY DEF next_read
<1>5. /\ mshr' = [mshr EXCEPT ![k] = Tail(@)]
      /\ m_current_response' = IF Len(mshr[k]) = 1 THEN Tail(m_current_response)
                               ELSE m_current_response
      /\ UNCHANGED <<m_tag, m_sector, m_extra_mf_fields, m_miss_queue>>
  BY DEF next_access
<1> HIDE DEF k, r
<1>6. /\ r \in Req /\ r \in ToSet(mshr[k])
      /\ Tail(mshr[k]) \in Seq(Req)
      /\ Len(Tail(mshr[k])) = Len(mshr[k]) - 1
      /\ Len(mshr[k]) \in Nat
      /\ ToSet(mshr[k]) = ToSet(Tail(mshr[k])) \cup {r}
  BY <1>3, <1>4, TailQueue, QueueElements
<1>7. Once(Tail(mshr[k]), Req) /\ r \notin ToSet(Tail(mshr[k]))
  BY <1>3, <1>4, <1>6, TailOnce
<1>8. /\ mshr' \in [Keys -> Seq(Req)]
      /\ mshr'[k] = Tail(mshr[k])
      /\ \A c \in Keys : c # k => mshr'[c] = mshr[c]
  BY <1>1, <1>2, <1>5, <1>6
<1>9. /\ Once(mshr'[k], Req)
      /\ ToSet(mshr'[k]) = ToSet(mshr[k]) \ {r}
      /\ mshr'[k] = <<>> <=> Len(mshr[k]) = 1
  <2>1. Tail(mshr[k]) = <<>> <=> ~(Len(Tail(mshr[k])) > 0)
    BY <1>6, QueueElements
  <2> DEFINE n == Len(mshr[k])
  <2>2. n \in Nat /\ n > 0 /\ Len(Tail(mshr[k])) = n - 1
    BY <1>3, <1>6, QueueElements
  <2> HIDE DEF n
  <2>3. ~(Len(Tail(mshr[k])) > 0) <=> n = 1
    BY <2>2
  <2> QED
    BY <1>6, <1>7, <1>8, <2>1, <2>3 DEF n
<1>10. \A x \in Req : /\ Waiting(x)' <=> Waiting(x) /\ x # r
                      /\ waiting_for_fill(x)' <=> waiting_for_fill(x)
  <2> SUFFICES ASSUME NEW x \in Req
               PROVE  x \in ToSet(mshr'[Key(x)])
                           <=> x \in ToSet(mshr[Key(x)]) /\ x # r
    BY <1>5 DEF Waiting, waiting_for_fill
  <2>1. Key(x) \in Keys /\ Key(r) = k
    BY <1>3, <1>6, RequestParts
  <2> QED
    BY <1>8, <1>9, <2>1
<1>11. /\ Tail(m_current_response) \in Seq(Keys)
       /\ ToSet(Tail(m_current_response)) \subseteq ToSet(m_current_response)
  BY <1>1, TailQueue
<1>12. Once(Tail(m_current_response), Keys) /\ k \notin ToSet(Tail(m_current_response))
  BY <1>1, <1>2, TailOnce DEF CacheInv, AnsweredOnce, k
<1>13. /\ m_current_response' \in Seq(Keys)
       /\ Once(m_current_response', Keys)
       /\ ToSet(m_current_response') \subseteq ToSet(m_current_response)
       /\ mshr'[k] = <<>> => k \notin ToSet(m_current_response')
  BY <1>1, <1>5, <1>9, <1>11, <1>12 DEF CacheInv, AnsweredOnce
<1>14. CacheTypes'
  BY <1>5, <1>8, <1>13 DEF CacheInv, CacheTypes
<1>15. LinesInv' /\ SentOnce'
  BY <1>5, <1>10 DEF CacheInv, LinesInv, SentOnce, ModifiedSectors
<1>16. MergedOnce'
  BY <1>3, <1>8, <1>9 DEF CacheInv, MergedOnce
<1>17. FetchIsFirst'
  <2> SUFFICES ASSUME NEW x \in Req, waiting_for_fill(x)
               PROVE  mshr'[Key(x)] # <<>> /\ Head(mshr'[Key(x)]) = x
    BY <1>10 DEF FetchIsFirst
  <2>1. Waiting(x) /\ Key(x) \in Keys
    BY FetchWaits, RequestParts
  <2>2. Key(x) # k
    BY <1>3, <2>1 DEF Waiting
  <2> QED
    BY <1>8, <2>1, <2>2 DEF CacheInv, FetchIsFirst
<1>18. AnsweredOnce'
  <2> SUFFICES ASSUME NEW c \in ToSet(m_current_response')
               PROVE  /\ mshr'[c] # <<>>
                      /\ \A x \in ToSet(mshr'[c]) : ~waiting_for_fill(x)'
    BY <1>13 DEF AnsweredOnce
  <2>1. /\ c \in Keys
        /\ mshr[c] # <<>>
        /\ \A x \in ToSet(mshr[c]) : ~waiting_for_fill(x)
    BY <1>1, <1>13, QueueElements DEF CacheInv, AnsweredOnce
  <2>2. \A x \in ToSet(mshr[c]) : x \in Req
    BY <1>1, <2>1, QueueElements
  <2> QED
    BY <1>8, <1>9, <1>10, <1>13, <2>1, <2>2
<1>19. CacheBounds'
  <2>1. Entries' \subseteq Entries
    BY <1>3, <1>8 DEF Entries
  <2>2. IsFiniteSet(Entries') /\ Cardinality(Entries') <= Cardinality(Entries)
    BY <2>1, FS_Subset DEF CacheBounds
  <2>3. Cardinality(Entries') <= MshrEntries
    BY <2>2, FS_CardinalityType, SectorCacheAssumption DEF CacheBounds
  <2> DEFINE n == Len(mshr[k])
  <2>4. n \in Nat /\ n <= MaxMerged /\ Len(mshr'[k]) = n - 1 /\ MaxMerged \in Nat
    BY <1>2, <1>6, <1>8, SectorCacheAssumption DEF CacheBounds
  <2> HIDE DEF n
  <2>5. Len(mshr'[k]) <= MaxMerged
    BY <2>4
  <2> QED
    BY <1>5, <1>8, <2>2, <2>3, <2>5 DEF CacheBounds
<1> QED
  BY <1>3, <1>5, <1>6, <1>10, <1>14, <1>15, <1>16, <1>17, <1>18, <1>19
     DEF CacheInv, Waiting, r

\* A cycle hands the head of the miss queue to the level below.
LEMMA CycleKeeps ==
    ASSUME CacheInv, CacheBounds, NEW taken \in BOOLEAN, taken => m_miss_queue # <<>>,
           cache_cycle(taken)
    PROVE  /\ CacheInv' /\ CacheBounds'
           /\ taken => /\ Head(m_miss_queue) \in Req \cup Writebacks
                       /\ Head(m_miss_queue) \in ToSet(m_miss_queue)
           /\ \A x \in Req : /\ x \in ToSet(m_miss_queue')
                                   <=> /\ x \in ToSet(m_miss_queue)
                                       /\ ~(taken /\ x = Head(m_miss_queue))
                             /\ Waiting(x)' <=> Waiting(x)
                             /\ waiting_for_fill(x)' <=> waiting_for_fill(x)
<1>1. /\ m_miss_queue \in Seq(Req \cup Writebacks)
      /\ Once(m_miss_queue, Req)
      /\ Len(m_miss_queue) <= MissQueueSize
      /\ MissQueueSize \in Nat
  BY SectorCacheAssumption DEF CacheInv, CacheTypes, SentOnce, CacheBounds
<1>2. /\ m_miss_queue' = IF taken THEN Tail(m_miss_queue) ELSE m_miss_queue
      /\ UNCHANGED <<m_tag, m_sector, mshr, m_current_response, m_extra_mf_fields>>
  BY DEF cache_cycle
<1>3. ASSUME taken
      PROVE  /\ Tail(m_miss_queue) \in Seq(Req \cup Writebacks)
             /\ Once(Tail(m_miss_queue), Req)
             /\ Head(m_miss_queue) \in Req \cup Writebacks
             /\ Head(m_miss_queue) \in ToSet(m_miss_queue)
             /\ \A x \in Req : x \in ToSet(Tail(m_miss_queue))
                                 <=> x \in ToSet(m_miss_queue) /\ x # Head(m_miss_queue)
             /\ Len(Tail(m_miss_queue)) <= MissQueueSize
  <2>1. /\ Tail(m_miss_queue) \in Seq(Req \cup Writebacks)
        /\ Len(Tail(m_miss_queue)) = Len(m_miss_queue) - 1
        /\ Head(m_miss_queue) \in Req \cup Writebacks
        /\ Head(m_miss_queue) \in ToSet(m_miss_queue)
        /\ ToSet(m_miss_queue) = ToSet(Tail(m_miss_queue)) \cup {Head(m_miss_queue)}
        /\ Len(m_miss_queue) \in Nat
    BY <1>1, <1>3, TailQueue, QueueElements
  <2>2. /\ Once(Tail(m_miss_queue), Req)
        /\ Head(m_miss_queue) \in Req
              => Head(m_miss_queue) \notin ToSet(Tail(m_miss_queue))
    BY <1>1, <1>3, TailOnce
  <2> DEFINE n == Len(m_miss_queue)
  <2>3. n \in Nat /\ n <= MissQueueSize /\ Len(Tail(m_miss_queue)) = n - 1
    BY <1>1, <2>1
  <2> HIDE DEF n
  <2>4. Len(Tail(m_miss_queue)) <= MissQueueSize
    BY <1>1, <2>3
  <2> QED
    BY <2>1, <2>2, <2>4
<1>4. /\ m_miss_queue' \in Seq(Req \cup Writebacks)
      /\ Once(m_miss_queue', Req)
      /\ Len(m_miss_queue') <= MissQueueSize
      /\ \A x \in Req : x \in ToSet(m_miss_queue')
                          <=> /\ x \in ToSet(m_miss_queue)
                              /\ ~(taken /\ x = Head(m_miss_queue))
  BY <1>1, <1>2, <1>3
<1>5. \A x \in Req : /\ Waiting(x)' <=> Waiting(x)
                     /\ waiting_for_fill(x)' <=> waiting_for_fill(x)
  BY <1>2 DEF Waiting, waiting_for_fill
<1>6. CacheTypes' /\ SentOnce'
  BY <1>2, <1>4, <1>5 DEF CacheInv, CacheTypes, SentOnce
<1>7. LinesInv' /\ MergedOnce' /\ FetchIsFirst' /\ AnsweredOnce'
  BY <1>2 DEF CacheInv, LinesInv, MergedOnce, FetchIsFirst, AnsweredOnce,
              waiting_for_fill, ModifiedSectors
<1>8. CacheBounds'
  BY <1>2, <1>4 DEF CacheBounds, Entries
<1> QED
  BY <1>3, <1>4, <1>5, <1>6, <1>7, <1>8 DEF CacheInv

\* A copy changes one line.
LEMMA CopyKeeps ==
    ASSUME CacheInv, CacheBounds, NEW c \in Packet, force_tag_access(c)
    PROVE  /\ CacheInv' /\ CacheBounds'
           /\ \A x \in Req : /\ Waiting(x)' <=> Waiting(x)
                             /\ waiting_for_fill(x)' <=> waiting_for_fill(x)
           /\ UNCHANGED m_miss_queue
<1> DEFINE k == <<BlockOf[c], First[c]>>
<1>1. PICK w \in WaysFor(k) :
        /\ m_tag' = [m_tag EXCEPT ![w] = k[1]]
        /\ m_sector' = [m_sector EXCEPT ![w] =
              [Accessed(k, w) EXCEPT ![k[2]] = Filled(@, FALSE, TRUE)]]
        /\ UNCHANGED <<mshr, m_current_response, m_extra_mf_fields, m_miss_queue>>
  BY DEF force_tag_access
<1> DEFINE v == [Accessed(k, w) EXCEPT ![k[2]] = Filled(@, FALSE, TRUE)]
<1>2. w \in Way /\ k[1] \in Block
  BY WaysOfAccess, SectorCacheAssumption
<1>3. m_sector' = [m_sector EXCEPT ![w] = v] /\ m_tag' = [m_tag EXCEPT ![w] = k[1]]
  BY <1>1
<1>4. \A x \in Req : /\ waiting_for_fill(x)' <=> waiting_for_fill(x)
                     /\ waiting_for_fill(x) => m_extra_mf_fields[x] \in Way
  BY <1>1 DEF waiting_for_fill, CacheInv, CacheTypes, Way
<1> HIDE DEF k, v
<1>5. LinesInv'
  BY <1>1, <1>2, <1>3, <1>4, LineChanges DEF CacheInv
<1> QED
  BY <1>1, <1>5, LinesStep

-----------------------------------------------------------------------------
(* Where requests are *)

QueueTypes == /\ m_rop \in Seq(Req)
              /\ m_icnt_L2_queue \in Seq(Req)
              /\ m_L2_icnt_queue \in Seq(Req)
              /\ m_dram_L2_queue \in Seq(Req)
              /\ m_L2_dram_queue \in Seq(Req \cup Writebacks)
              /\ below \subseteq Req
              /\ m_request_tracker \subseteq Req

\* No queue has a request twice.
QueuesOnce == /\ Once(m_rop, Req)
              /\ Once(m_icnt_L2_queue, Req)
              /\ Once(m_L2_icnt_queue, Req)
              /\ Once(m_dram_L2_queue, Req)
              /\ Once(m_L2_dram_queue, Req)

\* What of a to d holds is one of them alone.
AtMostOne(a, b, c, d) == /\ a => ~b /\ ~c /\ ~d
                         /\ b => ~c /\ ~d
                         /\ c => ~d

\* A request is tracked exactly while it is in one of the places above memory.
AboveInv ==
    \A r \in Req :
        /\ r \in m_request_tracker <=> \/ r \in ToSet(m_rop)
                                       \/ r \in ToSet(m_icnt_L2_queue)
                                       \/ Waiting(r)
                                       \/ r \in ToSet(m_L2_icnt_queue)
        /\ AtMostOne(r \in ToSet(m_rop), r \in ToSet(m_icnt_L2_queue), Waiting(r),
                     r \in ToSet(m_L2_icnt_queue))

\* A read waits for its fill exactly while its fetch is in one of the places
\* below.
BelowInv ==
    \A r \in Req :
        /\ waiting_for_fill(r) <=> \/ r \in ToSet(m_miss_queue)
                                   \/ r \in ToSet(m_L2_dram_queue)
                                   \/ r \in below
                                   \/ r \in ToSet(m_dram_L2_queue)
        /\ AtMostOne(r \in ToSet(m_miss_queue), r \in ToSet(m_L2_dram_queue),
                     r \in below, r \in ToSet(m_dram_L2_queue))

\* What is tracked has been issued.
IssuedInv == \A r \in m_request_tracker : r[1] \notin pending

\* The bounds on the queues that cache_cycle and push fill.
QueueBounds == /\ Len(m_icnt_L2_queue) <= IcntL2Size
               /\ Len(m_L2_icnt_queue) <= L2IcntSize

SubInv == /\ CacheInv /\ CacheBounds
          /\ QueueTypes /\ QueuesOnce /\ AboveInv /\ BelowInv /\ IssuedInv
          /\ QueueBounds

\* The invariant implies both properties.
LEMMA SubInvExact == SubInv => BusyIsExact /\ PushesHaveRoom
<1> SUFFICES ASSUME SubInv PROVE BusyIsExact /\ PushesHaveRoom
  OBVIOUS
<1>1. PushesHaveRoom
  BY DEF SubInv, CacheBounds, QueueBounds, PushesHaveRoom
<1>2. ASSUME NEW r \in Req, NEW s \in Seq(Req \cup Writebacks), Once(s, Req)
      PROVE  Times(r, s) = IF r \in ToSet(s) THEN 1 ELSE 0
  BY <1>2, OnceCount DEF Times
<1>3. SUFFICES ASSUME NEW r \in Req
               PROVE  /\ Sightings(r) = (IF r \in m_request_tracker THEN 1 ELSE 0)
                      /\ Fetched(r) = (IF waiting_for_fill(r) THEN 1 ELSE 0)
                      /\ waiting_for_fill(r) => r \in m_request_tracker
  BY <1>1 DEF BusyIsExact
<1>4. Key(r) \in Keys
  BY RequestParts
<1>5. Seq(Req) \subseteq Seq(Req \cup Writebacks)
  OBVIOUS
<1>6. /\ mshr[Key(r)] \in Seq(Req \cup Writebacks) /\ Once(mshr[Key(r)], Req)
      /\ m_miss_queue \in Seq(Req \cup Writebacks) /\ Once(m_miss_queue, Req)
  BY <1>4, <1>5 DEF SubInv, CacheInv, CacheTypes, MergedOnce, SentOnce
<1>7. /\ m_rop \in Seq(Req \cup Writebacks) /\ Once(m_rop, Req)
      /\ m_icnt_L2_queue \in Seq(Req \cup Writebacks) /\ Once(m_icnt_L2_queue, Req)
      /\ m_L2_icnt_queue \in Seq(Req \cup Writebacks) /\ Once(m_L2_icnt_queue, Req)
      /\ m_dram_L2_queue \in Seq(Req \cup Writebacks) /\ Once(m_dram_L2_queue, Req)
      /\ m_L2_dram_queue \in Seq(Req \cup Writebacks) /\ Once(m_L2_dram_queue, Req)
  BY <1>5 DEF SubInv, QueueTypes, QueuesOnce
<1>8. /\ Times(r, m_rop) = IF r \in ToSet(m_rop) THEN 1 ELSE 0
      /\ Times(r, m_icnt_L2_queue) = IF r \in ToSet(m_icnt_L2_queue) THEN 1 ELSE 0
      /\ Times(r, mshr[Key(r)]) = IF Waiting(r) THEN 1 ELSE 0
      /\ Times(r, m_L2_icnt_queue) = IF r \in ToSet(m_L2_icnt_queue) THEN 1 ELSE 0
  BY <1>2, <1>6, <1>7 DEF Waiting
<1>9. /\ Times(r, m_miss_queue) = IF r \in ToSet(m_miss_queue) THEN 1 ELSE 0
      /\ Times(r, m_L2_dram_queue) = IF r \in ToSet(m_L2_dram_queue) THEN 1 ELSE 0
      /\ Times(r, m_dram_L2_queue) = IF r \in ToSet(m_dram_L2_queue) THEN 1 ELSE 0
  BY <1>2, <1>6, <1>7
<1>10. waiting_for_fill(r) => r \in m_request_tracker
  BY FetchWaits DEF SubInv, AboveInv
<1>11. Sightings(r) = (IF r \in m_request_tracker THEN 1 ELSE 0)
  BY <1>8 DEF Sightings, SubInv, AboveInv, AtMostOne
<1>12. Fetched(r) = (IF waiting_for_fill(r) THEN 1 ELSE 0)
  BY <1>9 DEF Fetched, SubInv, BelowInv, AtMostOne
<1> QED
  BY <1>10, <1>11, <1>12

\* Nothing is tracked at first.
LEMMA SubInvInit == Init => SubInv
<1> SUFFICES ASSUME Init PROVE SubInv
  OBVIOUS
<1>1. CacheInv /\ CacheBounds
  BY CacheInvInit DEF Init
<1>2. QueueTypes
  BY EmptyQueue DEF Init, QueueTypes
<1>3. QueuesOnce
  BY EmptyOnce DEF Init, QueuesOnce
<1>4. \A r \in Req : ~Waiting(r) /\ ~waiting_for_fill(r)
  BY EmptyQueue, RequestParts DEF Init, CacheInit, Waiting, waiting_for_fill
<1>5. ToSet(<<>>) = {}
  BY EmptyQueue
<1>6. AboveInv /\ IssuedInv
  BY <1>4, <1>5 DEF Init, AboveInv, IssuedInv, AtMostOne
<1>7. BelowInv
  BY <1>4, <1>5 DEF Init, CacheInit, BelowInv, AtMostOne
<1>8. QueueBounds
  BY EmptyQueue, SubPartitionAssumption DEF Init, QueueBounds
<1> QED
  BY <1>1, <1>2, <1>3, <1>6, <1>7, <1>8 DEF SubInv

-----------------------------------------------------------------------------
(* Each step keeps the invariant *)

\* The head of a queue leaves it.
LEMMA Leaves ==
    ASSUME NEW S, NEW s \in Seq(S), Once(s, Req), s # <<>>
    PROVE  /\ Tail(s) \in Seq(S) /\ Once(Tail(s), Req)
           /\ Head(s) \in S /\ Head(s) \in ToSet(s)
           /\ \A x \in Req : x \in ToSet(Tail(s)) <=> x \in ToSet(s) /\ x # Head(s)
           /\ Len(Tail(s)) = Len(s) - 1 /\ Len(s) \in Nat
<1>1. /\ Tail(s) \in Seq(S) /\ Len(Tail(s)) = Len(s) - 1
      /\ Head(s) \in S /\ Head(s) \in ToSet(s)
      /\ ToSet(s) = ToSet(Tail(s)) \cup {Head(s)}
      /\ Len(s) \in Nat
  BY TailQueue, QueueElements
<1>2. Once(Tail(s), Req) /\ (Head(s) \in Req => Head(s) \notin ToSet(Tail(s)))
  BY TailOnce
<1> QED
  BY <1>1, <1>2

\* A request enters a queue that does not have it.
LEMMA Enters ==
    ASSUME NEW S, NEW s \in Seq(S), Once(s, Req), NEW r \in S,
           r \in Req => r \notin ToSet(s)
    PROVE  /\ Append(s, r) \in Seq(S) /\ Once(Append(s, r), Req)
           /\ \A x \in Req : x \in ToSet(Append(s, r)) <=> x \in ToSet(s) \/ x = r
           /\ Len(Append(s, r)) = Len(s) + 1 /\ Len(s) \in Nat
<1>1. /\ Append(s, r) \in Seq(S) /\ Len(Append(s, r)) = Len(s) + 1
      /\ ToSet(Append(s, r)) = ToSet(s) \cup {r}
      /\ Len(s) \in Nat
  BY AppendQueue, QueueElements
<1>2. Once(Append(s, r), Req)
  BY AppendOnce
<1> QED
  BY <1>1, <1>2

\* The parts of a packet are its requests, each once, and at most four.
LEMMA PacketParts ==
    ASSUME NEW p \in Packet \ Copies
    PROVE  /\ Parts(p) \in Seq(Req)
           /\ Once(Parts(p), Req)
           /\ \A r \in Req : r \in ToSet(Parts(p)) <=> r[1] = p
           /\ Len(Parts(p)) \in 1 .. 4
<1> DEFINE n == Size[p]
           f == First[p]
<1>1. n \in 1 .. 4 /\ f \in 0 .. 3 /\ f + n <= 4
  <2>1. n \in {1, 2, 4} /\ f \in 0 .. 3 /\ f % n = 0
    BY SectorCacheAssumption DEF Sector
  <2> HIDE DEF n, f
  <2>2. f \in {0, 1, 2, 3}
    BY <2>1
  <2> QED
    BY <2>1, <2>2
<1>2. Parts(p) = [i \in 1 .. n |-> <<p, f + i - 1>>]
  BY DEF Parts
<1>3. Req = {r \in (Packet \ Copies) \X (0 .. 3) :
                r[2] \in First[r[1]] .. First[r[1]] + Size[r[1]] - 1}
  BY DEF Req, Sector
<1>4. ASSUME NEW i \in 1 .. n
      PROVE  <<p, f + i - 1>> \in Req
  <2> DEFINE q == <<p, f + i - 1>>
  <2>1. q[1] = p /\ q[2] = f + i - 1
    OBVIOUS
  <2>2. f + i - 1 \in 0 .. 3 /\ f + i - 1 \in f .. f + n - 1
    <3> HIDE DEF n, f
    <3> QED
      BY <1>1
  <2>3. q \in (Packet \ Copies) \X (0 .. 3)
    BY <2>2
  <2>4. q[2] \in First[q[1]] .. First[q[1]] + Size[q[1]] - 1
    BY <2>1, <2>2
  <2> HIDE DEF q
  <2>5. q \in Req
    BY <1>3, <2>3, <2>4
  <2> QED
    BY <2>5 DEF q
<1>5. ASSUME NEW r \in Req, r[1] = p
      PROVE  \E i \in 1 .. n : r = <<p, f + i - 1>>
  <2>1. r = <<p, r[2]>> /\ r[2] \in f .. f + n - 1
    BY <1>3, <1>5, RequestParts
  <2> DEFINE i == r[2] - f + 1
  <2>2. i \in 1 .. n /\ f + i - 1 = r[2]
    <3> DEFINE s == r[2]
    <3>1. s \in f .. f + n - 1
      BY <2>1
    <3> HIDE DEF n, f, s
    <3>2. s - f + 1 \in 1 .. n /\ f + (s - f + 1) - 1 = s
      BY <1>1, <3>1
    <3> QED
      BY <3>2 DEF s
  <2> QED
    BY <2>1, <2>2
<1> HIDE DEF n, f
<1>6. DOMAIN Parts(p) = 1 .. n /\ n \in Nat
  BY <1>1, <1>2
<1>7. Parts(p) \in Seq(Req)
  BY <1>2, <1>4, <1>6
<1>8. Len(Parts(p)) = n
  BY <1>6, <1>7, LenProperties
<1>9. Once(Parts(p), Req)
  <2> SUFFICES ASSUME NEW i \in 1 .. n, NEW j \in 1 .. n, Parts(p)[i] = Parts(p)[j]
               PROVE  i = j
    BY <1>6 DEF Once
  <2>1. f + i - 1 = f + j - 1
    BY <1>2
  <2> QED
    BY <1>1, <2>1
<1>10. \A r \in Req : r \in ToSet(Parts(p)) <=> r[1] = p
  <2>1. ToSet(Parts(p)) = {<<p, f + i - 1>> : i \in 1 .. n}
    BY <1>2, <1>6 DEF ToSet
  <2> QED
    BY <1>5, <2>1
<1> QED
  BY <1>1, <1>7, <1>8, <1>9, <1>10

\* A packet joins a queue that has none of its requests.
LEMMA PacketEnters ==
    ASSUME NEW p \in Packet \ Copies, NEW s \in Seq(Req), Once(s, Req),
           \A r \in Req : r[1] = p => r \notin ToSet(s)
    PROVE  /\ s \o Parts(p) \in Seq(Req) /\ Once(s \o Parts(p), Req)
           /\ \A r \in Req : r \in ToSet(s \o Parts(p)) <=> r \in ToSet(s) \/ r[1] = p
           /\ Len(s \o Parts(p)) <= Len(s) + 4 /\ Len(s) \in Nat
           /\ Len(s \o Parts(p)) \in Nat
<1> DEFINE t == Parts(p)
<1>1. /\ t \in Seq(Req) /\ Once(t, Req) /\ Len(t) \in 1 .. 4
      /\ \A r \in Req : r \in ToSet(t) <=> r[1] = p
  BY PacketParts
<1> HIDE DEF t
<1>2. /\ s \o t \in Seq(Req)
      /\ Len(s \o t) = Len(s) + Len(t)
      /\ ToSet(s \o t) = ToSet(s) \cup ToSet(t)
      /\ Len(s) \in Nat
  BY <1>1, ConcatQueue, QueueElements
<1>3. Once(s \o t, Req)
  BY <1>1, ConcatOnce
<1> DEFINE a == Len(s)
           b == Len(t)
<1>4. a \in Nat /\ b \in 1 .. 4 /\ Len(s \o t) = a + b
  BY <1>1, <1>2
<1> HIDE DEF a, b
<1>5. Len(s \o t) <= a + 4 /\ Len(s \o t) \in Nat
  BY <1>4
<1> QED
  BY <1>1, <1>2, <1>3, <1>5 DEF a, t

\* What a step leaves alone of the cache, as far as requests see it.
SameReads == \A x \in Req : /\ Waiting(x)' <=> Waiting(x)
                            /\ waiting_for_fill(x)' <=> waiting_for_fill(x)
                            /\ x \in ToSet(m_miss_queue') <=> x \in ToSet(m_miss_queue)

\* The cache is left alone.
LEMMA CacheAlone ==
    ASSUME SubInv, UNCHANGED cacheVars
    PROVE  CacheInv' /\ CacheBounds' /\ SameReads
<1>1. UNCHANGED m_miss_queue
  BY DEF cacheVars
<1> QED
  BY <1>1, CacheStutter DEF SubInv, SameReads

\* Nothing that the invariant speaks of changes, but for lines of the cache.
LEMMA QueuesAlone ==
    ASSUME SubInv, CacheInv', CacheBounds', SameReads,
           UNCHANGED <<m_rop, m_icnt_L2_queue, m_L2_dram_queue, m_dram_L2_queue,
                       m_L2_icnt_queue, m_request_tracker, below>>,
           pending' \subseteq pending
    PROVE  SubInv'
<1>1. QueueTypes' /\ QueuesOnce' /\ IssuedInv' /\ QueueBounds'
  BY DEF SubInv, QueueTypes, QueuesOnce, IssuedInv, QueueBounds
<1>2. AboveInv' /\ BelowInv'
  BY DEF SubInv, AboveInv, BelowInv, AtMostOne, SameReads
<1> QED
  BY <1>1, <1>2 DEF SubInv

\* A packet enters: its requests are in no place yet.
LEMMA PushStep ==
    ASSUME SubInv, NEW p \in Packet, push(p)
    PROVE  SubInv'
<1>1. /\ p \in pending /\ p \in Packet \ Copies
      /\ Len(m_icnt_L2_queue) + 4 <= IcntL2Size
      /\ pending' = pending \ {p}
      /\ m_request_tracker' = m_request_tracker \cup ToSet(Parts(p))
      /\ UNCHANGED <<cacheVars, m_L2_dram_queue, m_dram_L2_queue, m_L2_icnt_queue, below>>
  <2>1. Len(m_icnt_L2_queue) \in Nat /\ IcntL2Size \in Nat
    BY QueueElements, SubPartitionAssumption DEF SubInv, QueueTypes
  <2> QED
    BY <2>1 DEF push, MayStart, full, memVars
<1>2. \A r \in Req : r[1] = p => /\ r \notin m_request_tracker
                                 /\ r \notin ToSet(m_rop)
                                 /\ r \notin ToSet(m_icnt_L2_queue)
                                 /\ ~Waiting(r)
                                 /\ r \notin ToSet(m_L2_icnt_queue)
  BY <1>1 DEF SubInv, IssuedInv, AboveInv
<1>3. /\ m_rop \in Seq(Req) /\ Once(m_rop, Req)
      /\ m_icnt_L2_queue \in Seq(Req) /\ Once(m_icnt_L2_queue, Req)
  BY DEF SubInv, QueueTypes, QueuesOnce
<1>4. /\ m_request_tracker' \subseteq Req
      /\ \A r \in Req : r \in m_request_tracker' <=> r \in m_request_tracker \/ r[1] = p
  <2>1. Parts(p) \in Seq(Req) /\ \A r \in Req : r \in ToSet(Parts(p)) <=> r[1] = p
    BY <1>1, PacketParts
  <2>2. ToSet(Parts(p)) \subseteq Req
    BY <2>1, QueueElements
  <2> QED
    BY <1>1, <2>1, <2>2 DEF SubInv, QueueTypes
<1>5. CacheInv' /\ CacheBounds' /\ SameReads
  BY <1>1, CacheAlone
<1>6. BelowInv'
  BY <1>1, <1>5 DEF SubInv, BelowInv, AtMostOne, SameReads
<1>7. IssuedInv'
  BY <1>1, <1>4 DEF SubInv, IssuedInv, QueueTypes
<1>8. CASE p \in Texture
  <2>1. m_icnt_L2_queue' = m_icnt_L2_queue \o Parts(p) /\ UNCHANGED m_rop
    BY <1>8 DEF push
  <2>2. /\ m_icnt_L2_queue' \in Seq(Req) /\ Once(m_icnt_L2_queue', Req)
        /\ \A r \in Req : r \in ToSet(m_icnt_L2_queue')
                             <=> r \in ToSet(m_icnt_L2_queue) \/ r[1] = p
        /\ Len(m_icnt_L2_queue') <= Len(m_icnt_L2_queue) + 4
        /\ Len(m_icnt_L2_queue) \in Nat
        /\ Len(m_icnt_L2_queue') \in Nat
    BY <1>1, <1>2, <1>3, <2>1, PacketEnters
  <2>3. QueueTypes' /\ QueuesOnce'
    BY <1>1, <1>4, <2>1, <2>2 DEF SubInv, QueueTypes, QueuesOnce
  <2>4. AboveInv'
    BY <1>1, <1>2, <1>4, <1>5, <2>1, <2>2 DEF SubInv, AboveInv, AtMostOne, SameReads
  <2>5. QueueBounds'
    BY <1>1, <2>2, SubPartitionAssumption DEF SubInv, QueueBounds
  <2> QED
    BY <1>5, <1>6, <1>7, <2>3, <2>4, <2>5 DEF SubInv
<1>9. CASE p \notin Texture
  <2>1. m_rop' = m_rop \o Parts(p) /\ UNCHANGED m_icnt_L2_queue
    BY <1>9 DEF push
  <2>2. /\ m_rop' \in Seq(Req) /\ Once(m_rop', Req)
        /\ \A r \in Req : r \in ToSet(m_rop') <=> r \in ToSet(m_rop) \/ r[1] = p
    BY <1>1, <1>2, <1>3, <2>1, PacketEnters
  <2>3. QueueTypes' /\ QueuesOnce' /\ QueueBounds'
    BY <1>1, <1>4, <2>1, <2>2 DEF SubInv, QueueTypes, QueuesOnce, QueueBounds
  <2>4. AboveInv'
    BY <1>1, <1>2, <1>4, <1>5, <2>1, <2>2 DEF SubInv, AboveInv, AtMostOne, SameReads
  <2> QED
    BY <1>5, <1>6, <1>7, <2>3, <2>4 DEF SubInv
<1> QED
  BY <1>8, <1>9

\* An answer leaves and is no longer tracked.
LEMMA PopStep ==
    ASSUME SubInv, pop
    PROVE  SubInv'
<1> DEFINE r == Head(m_L2_icnt_queue)
<1>1. /\ m_L2_icnt_queue # <<>>
      /\ m_L2_icnt_queue' = Tail(m_L2_icnt_queue)
      /\ m_request_tracker' = m_request_tracker \ {r}
      /\ UNCHANGED <<cacheVars, pending, m_rop, m_icnt_L2_queue, m_L2_dram_queue,
                     m_dram_L2_queue, below>>
  BY DEF pop, Untracked, memVars
<1>2. /\ m_L2_icnt_queue' \in Seq(Req) /\ Once(m_L2_icnt_queue', Req)
      /\ r \in Req /\ r \in ToSet(m_L2_icnt_queue)
      /\ \A x \in Req : x \in ToSet(m_L2_icnt_queue')
                           <=> x \in ToSet(m_L2_icnt_queue) /\ x # r
      /\ Len(m_L2_icnt_queue') = Len(m_L2_icnt_queue) - 1
      /\ Len(m_L2_icnt_queue) \in Nat
  BY <1>1, Leaves DEF SubInv, QueueTypes, QueuesOnce
<1> HIDE DEF r
<1>3. CacheInv' /\ CacheBounds' /\ SameReads
  BY <1>1, CacheAlone
<1>4. QueueTypes' /\ QueuesOnce' /\ IssuedInv'
  BY <1>1, <1>2 DEF SubInv, QueueTypes, QueuesOnce, IssuedInv
<1>5. AboveInv'
  BY <1>1, <1>2, <1>3 DEF SubInv, AboveInv, AtMostOne, SameReads
<1>6. BelowInv'
  BY <1>1, <1>3 DEF SubInv, BelowInv, AtMostOne, SameReads
<1>7. QueueBounds'
  <2> DEFINE n == Len(m_L2_icnt_queue)
  <2>1. n \in Nat /\ n <= L2IcntSize /\ Len(m_L2_icnt_queue') = n - 1 /\ L2IcntSize \in Nat
    BY <1>2, SubPartitionAssumption DEF SubInv, QueueBounds
  <2> HIDE DEF n
  <2>2. Len(m_L2_icnt_queue') <= L2IcntSize
    BY <2>1
  <2> QED
    BY <1>1, <2>2 DEF SubInv, QueueBounds
<1> QED
  BY <1>3, <1>4, <1>5, <1>6, <1>7 DEF SubInv

\* Memory takes a fetch, or a writeback.
LEMMA DramTakesStep ==
    ASSUME SubInv, dram_takes
    PROVE  SubInv'
<1> DEFINE r == Head(m_L2_dram_queue)
<1>1. /\ m_L2_dram_queue # <<>>
      /\ m_L2_dram_queue' = Tail(m_L2_dram_queue)
      /\ below' = IF r \in Writebacks THEN below ELSE below \cup {r}
      /\ UNCHANGED <<cacheVars, pending, m_rop, m_icnt_L2_queue, m_dram_L2_queue,
                     m_L2_icnt_queue, m_request_tracker>>
  BY DEF dram_takes, workVars
<1>2. /\ m_L2_dram_queue' \in Seq(Req \cup Writebacks) /\ Once(m_L2_dram_queue', Req)
      /\ r \in Req \cup Writebacks /\ r \in ToSet(m_L2_dram_queue)
      /\ \A x \in Req : x \in ToSet(m_L2_dram_queue')
                           <=> x \in ToSet(m_L2_dram_queue) /\ x # r
  BY <1>1, Leaves DEF SubInv, QueueTypes, QueuesOnce
<1> HIDE DEF r
<1>3. CacheInv' /\ CacheBounds' /\ SameReads
  BY <1>1, CacheAlone
<1>4. /\ below' \subseteq Req
      /\ \A x \in Req : x \in below' <=> x \in below \/ x = r
  BY <1>1, <1>2, WritebacksApart DEF SubInv, QueueTypes
<1>5. QueueTypes' /\ QueuesOnce' /\ IssuedInv' /\ QueueBounds'
  BY <1>1, <1>2, <1>4 DEF SubInv, QueueTypes, QueuesOnce, IssuedInv, QueueBounds
<1>6. AboveInv'
  BY <1>1, <1>3 DEF SubInv, AboveInv, AtMostOne, SameReads
<1>7. BelowInv'
  BY <1>1, <1>2, <1>3, <1>4 DEF SubInv, BelowInv, AtMostOne, SameReads
<1> QED
  BY <1>3, <1>5, <1>6, <1>7 DEF SubInv

\* Memory returns a read.
LEMMA DramReturnsStep ==
    ASSUME SubInv, dram_returns
    PROVE  SubInv'
<1>1. PICK r \in below : /\ below' = below \ {r}
                         /\ m_dram_L2_queue' = Append(m_dram_L2_queue, r)
  BY DEF dram_returns
<1>2. UNCHANGED <<cacheVars, pending, m_rop, m_icnt_L2_queue, m_L2_dram_queue,
                  m_L2_icnt_queue, m_request_tracker>>
  BY DEF dram_returns, workVars
<1>3. r \in Req /\ r \notin ToSet(m_dram_L2_queue)
  BY DEF SubInv, QueueTypes, BelowInv, AtMostOne
<1>4. /\ m_dram_L2_queue' \in Seq(Req) /\ Once(m_dram_L2_queue', Req)
      /\ \A x \in Req : x \in ToSet(m_dram_L2_queue')
                           <=> x \in ToSet(m_dram_L2_queue) \/ x = r
  BY <1>1, <1>3, Enters DEF SubInv, QueueTypes, QueuesOnce
<1>5. CacheInv' /\ CacheBounds' /\ SameReads
  BY <1>2, CacheAlone
<1>6. QueueTypes' /\ QueuesOnce' /\ IssuedInv' /\ QueueBounds'
  BY <1>1, <1>2, <1>4 DEF SubInv, QueueTypes, QueuesOnce, IssuedInv, QueueBounds
<1>7. AboveInv'
  BY <1>2, <1>5 DEF SubInv, AboveInv, AtMostOne, SameReads
<1>8. BelowInv'
  BY <1>1, <1>2, <1>4, <1>5 DEF SubInv, BelowInv, AtMostOne, SameReads
<1> QED
  BY <1>5, <1>6, <1>7, <1>8 DEF SubInv

\* A copy touches the lines only.
LEMMA CopyStep ==
    ASSUME SubInv, NEW c \in Packet, copy(c)
    PROVE  SubInv'
<1>1. /\ UNCHANGED cacheVars \/ force_tag_access(c)
      /\ pending' = pending \ {c}
      /\ UNCHANGED <<m_rop, m_icnt_L2_queue, m_L2_dram_queue, m_dram_L2_queue,
                     m_L2_icnt_queue, m_request_tracker, below>>
  BY DEF copy
<1>2. CacheInv' /\ CacheBounds' /\ SameReads
  BY <1>1, CacheAlone, CopyKeeps DEF SubInv, SameReads
<1> QED
  BY <1>1, <1>2, QueuesAlone

\* A read of the entry being answered moves to the queue of answers.
LEMMA RespondStep ==
    ASSUME SubInv, respond
    PROVE  SubInv'
<1>1. UNCHANGED <<pending, m_rop, m_icnt_L2_queue, m_L2_dram_queue, m_dram_L2_queue,
                  m_request_tracker, below>>
  BY DEF respond, workVars, memVars
<1>2. CASE UNCHANGED <<cacheVars, m_L2_icnt_queue>>
  BY <1>1, <1>2, CacheAlone, QueuesAlone
<1>3. CASE /\ access_ready /\ Room(m_L2_icnt_queue, L2IcntSize) /\ next_access
           /\ m_L2_icnt_queue' = Append(m_L2_icnt_queue, next_read)
  <2> DEFINE r == next_read
  <2>1. /\ CacheInv' /\ CacheBounds'
        /\ r \in Req /\ Waiting(r)
        /\ \A x \in Req : /\ Waiting(x)' <=> Waiting(x) /\ x # r
                          /\ waiting_for_fill(x)' <=> waiting_for_fill(x)
        /\ UNCHANGED m_miss_queue
    BY <1>3, NextKeeps DEF SubInv
  <2>2. m_L2_icnt_queue' = Append(m_L2_icnt_queue, r)
    BY <1>3
  <2> HIDE DEF r
  <2>3. r \notin ToSet(m_L2_icnt_queue)
    BY <2>1 DEF SubInv, AboveInv, AtMostOne
  <2>4. /\ m_L2_icnt_queue' \in Seq(Req) /\ Once(m_L2_icnt_queue', Req)
        /\ \A x \in Req : x \in ToSet(m_L2_icnt_queue')
                             <=> x \in ToSet(m_L2_icnt_queue) \/ x = r
        /\ Len(m_L2_icnt_queue') = Len(m_L2_icnt_queue) + 1
        /\ Len(m_L2_icnt_queue) \in Nat
    BY <2>1, <2>2, <2>3, Enters DEF SubInv, QueueTypes, QueuesOnce
  <2>5. QueueTypes' /\ QueuesOnce' /\ IssuedInv'
    BY <1>1, <2>4 DEF SubInv, QueueTypes, QueuesOnce, IssuedInv
  <2>6. AboveInv'
    BY <1>1, <2>1, <2>4 DEF SubInv, AboveInv, AtMostOne
  <2>7. BelowInv'
    BY <1>1, <2>1 DEF SubInv, BelowInv, AtMostOne
  <2>8. QueueBounds'
    <3>1. Len(m_L2_icnt_queue) < L2IcntSize /\ L2IcntSize \in Nat
      BY <1>3, SubPartitionAssumption DEF Room
    <3> QED
      BY <1>1, <2>4, <3>1 DEF SubInv, QueueBounds
  <2> QED
    BY <2>1, <2>5, <2>6, <2>7, <2>8 DEF SubInv
<1> QED
  BY <1>2, <1>3 DEF respond

\* A fill arrives for the read that waits for it.
LEMMA FillStep ==
    ASSUME SubInv, fill_from_dram
    PROVE  SubInv'
<1>1. UNCHANGED <<pending, m_rop, m_icnt_L2_queue, m_L2_dram_queue, m_L2_icnt_queue,
                  m_request_tracker, below>>
  BY DEF fill_from_dram, workVars
<1>2. CASE UNCHANGED <<cacheVars, m_dram_L2_queue>>
  BY <1>1, <1>2, CacheAlone, QueuesAlone
<1>3. CASE /\ m_dram_L2_queue # <<>> /\ fill(Head(m_dram_L2_queue))
           /\ m_dram_L2_queue' = Tail(m_dram_L2_queue)
  <2> DEFINE r == Head(m_dram_L2_queue)
  <2>1. /\ m_dram_L2_queue' \in Seq(Req) /\ Once(m_dram_L2_queue', Req)
        /\ r \in Req /\ r \in ToSet(m_dram_L2_queue)
        /\ \A x \in Req : x \in ToSet(m_dram_L2_queue')
                             <=> x \in ToSet(m_dram_L2_queue) /\ x # r
    BY <1>3, Leaves DEF SubInv, QueueTypes, QueuesOnce
  <2>2. fill(r)
    BY <1>3
  <2> HIDE DEF r
  <2>3. waiting_for_fill(r) /\ r \notin ToSet(m_miss_queue)
    BY <2>1 DEF SubInv, BelowInv, AtMostOne
  <2>4. /\ CacheInv' /\ CacheBounds'
        /\ \A x \in Req : /\ Waiting(x)' <=> Waiting(x)
                          /\ waiting_for_fill(x)' <=> waiting_for_fill(x) /\ x # r
        /\ UNCHANGED m_miss_queue
    BY <2>1, <2>2, <2>3, FillKeeps DEF SubInv
  <2>5. QueueTypes' /\ QueuesOnce' /\ IssuedInv' /\ QueueBounds'
    BY <1>1, <2>1 DEF SubInv, QueueTypes, QueuesOnce, IssuedInv, QueueBounds
  <2>6. AboveInv'
    BY <1>1, <2>4 DEF SubInv, AboveInv, AtMostOne
  <2>7. BelowInv'
    BY <1>1, <2>1, <2>4 DEF SubInv, BelowInv, AtMostOne
  <2> QED
    BY <2>4, <2>5, <2>6, <2>7 DEF SubInv
<1> QED
  BY <1>2, <1>3 DEF fill_from_dram

\* The head of the miss queue moves to the queue to memory.
LEMMA MissStep ==
    ASSUME SubInv, miss_to_dram
    PROVE  SubInv'
<1> DEFINE taken == m_miss_queue # <<>> /\ Room(m_L2_dram_queue, L2DramSize)
           r == Head(m_miss_queue)
<1>1. /\ cache_cycle(taken)
      /\ m_L2_dram_queue' = IF taken THEN Append(m_L2_dram_queue, r) ELSE m_L2_dram_queue
      /\ UNCHANGED <<pending, m_rop, m_icnt_L2_queue, m_dram_L2_queue, m_L2_icnt_queue,
                     m_request_tracker, below>>
  BY DEF miss_to_dram, workVars, memVars
<1>2. taken \in BOOLEAN /\ (taken => m_miss_queue # <<>>)
  OBVIOUS
<1> HIDE DEF taken
<1>3. /\ CacheInv' /\ CacheBounds'
      /\ taken => r \in Req \cup Writebacks /\ r \in ToSet(m_miss_queue)
      /\ \A x \in Req : /\ x \in ToSet(m_miss_queue')
                              <=> x \in ToSet(m_miss_queue) /\ ~(taken /\ x = r)
                        /\ Waiting(x)' <=> Waiting(x)
                        /\ waiting_for_fill(x)' <=> waiting_for_fill(x)
  BY <1>1, <1>2, CycleKeeps DEF SubInv
<1> HIDE DEF r
<1>4. ASSUME taken
      PROVE  /\ m_L2_dram_queue' \in Seq(Req \cup Writebacks)
             /\ Once(m_L2_dram_queue', Req)
             /\ \A x \in Req : x \in ToSet(m_L2_dram_queue')
                                  <=> x \in ToSet(m_L2_dram_queue) \/ x = r
  <2>1. r \in Req => r \notin ToSet(m_L2_dram_queue)
    BY <1>3, <1>4 DEF SubInv, BelowInv, AtMostOne
  <2>2. m_L2_dram_queue' = Append(m_L2_dram_queue, r)
    BY <1>1, <1>4
  <2> QED
    BY <1>3, <1>4, <2>1, <2>2, Enters DEF SubInv, QueueTypes, QueuesOnce
<1>5. QueueTypes' /\ QueuesOnce' /\ IssuedInv' /\ QueueBounds'
  BY <1>1, <1>4 DEF SubInv, QueueTypes, QueuesOnce, IssuedInv, QueueBounds
<1>6. AboveInv'
  BY <1>1, <1>3 DEF SubInv, AboveInv, AtMostOne
<1>7. BelowInv'
  <2>1. \A x \in Req : x \in ToSet(m_L2_dram_queue')
                          <=> x \in ToSet(m_L2_dram_queue) \/ (taken /\ x = r)
    BY <1>1, <1>4
  <2> QED
    BY <1>1, <1>3, <2>1 DEF SubInv, BelowInv, AtMostOne
<1> QED
  BY <1>3, <1>5, <1>6, <1>7 DEF SubInv

\* What an access that is not refused does to the cache: the read waits, or
\* the request is answered now.
LEMMA AccessKeeps ==
    ASSUME SubInv, NEW r \in Req, ~Waiting(r),
           access_outcome(r) # "RESERVATION_FAIL", access(r)
    PROVE  /\ CacheInv' /\ CacheBounds'
           /\ \E fetched \in BOOLEAN :
                 /\ fetched => ~AnsweredNow(r)
                 /\ \A x \in Req :
                       /\ Waiting(x)' <=> Waiting(x) \/ (x = r /\ ~AnsweredNow(r))
                       /\ waiting_for_fill(x)'
                             <=> waiting_for_fill(x) \/ (x = r /\ fetched)
                       /\ x \in ToSet(m_miss_queue')
                             <=> x \in ToSet(m_miss_queue) \/ (x = r /\ fetched)
<1>1. CASE access_outcome(r) = "HIT"
  <2>1. hit(r) /\ AnsweredNow(r)
    BY <1>1 DEF access, AnsweredNow
  <2>2. CacheInv' /\ CacheBounds' /\ SameReads
    BY <1>1, <2>1, HitKeeps DEF SubInv, SameReads
  <2> QED
    BY <2>1, <2>2 DEF SameReads
<1>2. CASE access_outcome(r) = "MISS" /\ IsWrite(r)
  <2>1. wr_miss_wa_lazy_fetch_on_read(r) /\ AnsweredNow(r)
    BY <1>2 DEF access, AnsweredNow
  <2>2. CacheInv' /\ CacheBounds' /\ SameReads
    BY <1>2, <2>1, WriteMissKeeps DEF SubInv, SameReads
  <2> QED
    BY <2>1, <2>2 DEF SameReads
<1>3. CASE access_outcome(r) = "MISS" /\ ~IsWrite(r)
  <2>1. rd_miss_base(r) /\ ~AnsweredNow(r)
    BY <1>3 DEF access, AnsweredNow
  <2> DEFINE fetched == Key(r) \notin Entries
  <2>2. /\ CacheInv' /\ CacheBounds'
        /\ \A x \in Req :
              /\ Waiting(x)' <=> Waiting(x) \/ x = r
              /\ waiting_for_fill(x)' <=> waiting_for_fill(x) \/ (x = r /\ fetched)
              /\ x \in ToSet(m_miss_queue')
                    <=> x \in ToSet(m_miss_queue) \/ (x = r /\ fetched)
    BY <1>3, <2>1, ReadMissKeeps DEF SubInv
  <2>3. fetched \in BOOLEAN
    OBVIOUS
  <2> HIDE DEF fetched
  <2> QED
    BY <2>1, <2>2, <2>3
<1> QED
  BY <1>1, <1>2, <1>3, Outcomes

\* The head of the queue from the interconnect is answered, waits in the table
\* or is tried again.
LEMMA AccessStep ==
    ASSUME SubInv, access_L2
    PROVE  SubInv'
<1>1. UNCHANGED <<pending, m_rop, m_L2_dram_queue, m_dram_L2_queue,
                  m_request_tracker, below>>
  BY DEF access_L2, workVars
<1>2. CASE UNCHANGED <<cacheVars, m_icnt_L2_queue, m_L2_icnt_queue>>
  BY <1>1, <1>2, CacheAlone, QueuesAlone
<1> DEFINE r == Head(m_icnt_L2_queue)
<1>3. CASE /\ m_icnt_L2_queue # <<>> /\ Room(m_L2_icnt_queue, L2IcntSize)
           /\ access_outcome(r) # "RESERVATION_FAIL"
           /\ access(r)
           /\ m_icnt_L2_queue' = Tail(m_icnt_L2_queue)
           /\ m_L2_icnt_queue' = IF AnsweredNow(r) THEN Append(m_L2_icnt_queue, r)
                                 ELSE m_L2_icnt_queue
  <2>1. /\ m_icnt_L2_queue' \in Seq(Req) /\ Once(m_icnt_L2_queue', Req)
        /\ r \in Req /\ r \in ToSet(m_icnt_L2_queue)
        /\ \A x \in Req : x \in ToSet(m_icnt_L2_queue')
                             <=> x \in ToSet(m_icnt_L2_queue) /\ x # r
        /\ Len(m_icnt_L2_queue') = Len(m_icnt_L2_queue) - 1
        /\ Len(m_icnt_L2_queue) \in Nat
    BY <1>3, Leaves DEF SubInv, QueueTypes, QueuesOnce
  <2>2. /\ access_outcome(r) # "RESERVATION_FAIL" /\ access(r)
        /\ Room(m_L2_icnt_queue, L2IcntSize)
        /\ m_L2_icnt_queue' = IF AnsweredNow(r) THEN Append(m_L2_icnt_queue, r)
                              ELSE m_L2_icnt_queue
    BY <1>3
  <2> HIDE DEF r
  <2>3. ~Waiting(r) /\ r \notin ToSet(m_L2_icnt_queue)
    BY <2>1 DEF SubInv, AboveInv, AtMostOne
  <2>4. CacheInv' /\ CacheBounds'
    BY <2>1, <2>2, <2>3, AccessKeeps
  <2>5. PICK fetched \in BOOLEAN :
                 /\ fetched => ~AnsweredNow(r)
                 /\ \A x \in Req :
                       /\ Waiting(x)' <=> Waiting(x) \/ (x = r /\ ~AnsweredNow(r))
                       /\ waiting_for_fill(x)'
                             <=> waiting_for_fill(x) \/ (x = r /\ fetched)
                       /\ x \in ToSet(m_miss_queue')
                             <=> x \in ToSet(m_miss_queue) \/ (x = r /\ fetched)
    BY <2>1, <2>2, <2>3, AccessKeeps
  <2>6. /\ Append(m_L2_icnt_queue, r) \in Seq(Req) /\ Once(Append(m_L2_icnt_queue, r), Req)
        /\ \A x \in Req : x \in ToSet(Append(m_L2_icnt_queue, r))
                             <=> x \in ToSet(m_L2_icnt_queue) \/ x = r
        /\ Len(Append(m_L2_icnt_queue, r)) = Len(m_L2_icnt_queue) + 1
        /\ Len(m_L2_icnt_queue) \in Nat
    BY <2>1, <2>3, Enters DEF SubInv, QueueTypes, QueuesOnce
  <2>7. /\ m_L2_icnt_queue' \in Seq(Req) /\ Once(m_L2_icnt_queue', Req)
        /\ \A x \in Req : x \in ToSet(m_L2_icnt_queue')
                             <=> x \in ToSet(m_L2_icnt_queue) \/ (x = r /\ AnsweredNow(r))
    BY <2>2, <2>6 DEF SubInv, QueueTypes, QueuesOnce
  <2>8. QueueTypes' /\ QueuesOnce' /\ IssuedInv'
    BY <1>1, <2>1, <2>7 DEF SubInv, QueueTypes, QueuesOnce, IssuedInv
  <2>9. AboveInv'
    BY <1>1, <2>1, <2>3, <2>5, <2>7 DEF SubInv, AboveInv, AtMostOne
  <2>10. BelowInv'
    <3>1. ~waiting_for_fill(r)
      BY <2>1, <2>3, FetchWaits DEF SubInv
    <3> QED
      BY <1>1, <2>1, <2>5, <3>1 DEF SubInv, BelowInv, AtMostOne
  <2>11. QueueBounds'
    <3> DEFINE n == Len(m_icnt_L2_queue)
    <3>1. n \in Nat /\ n <= IcntL2Size /\ Len(m_icnt_L2_queue') = n - 1
          /\ IcntL2Size \in Nat /\ L2IcntSize \in Nat
      BY <2>1, SubPartitionAssumption DEF SubInv, QueueBounds
    <3> HIDE DEF n
    <3>2. Len(m_icnt_L2_queue') <= IcntL2Size
      BY <3>1
    <3>3. Len(m_L2_icnt_queue) < L2IcntSize
      BY <2>2 DEF Room
    <3>4. Len(m_L2_icnt_queue') <= L2IcntSize
      BY <2>2, <2>6, <3>1, <3>3
    <3> QED
      BY <3>2, <3>4 DEF QueueBounds
  <2> QED
    BY <2>4, <2>8, <2>9, <2>10, <2>11 DEF SubInv
<1> QED
  BY <1>2, <1>3 DEF access_L2, Accepts

\* A request leaves the ROP delay.
LEMMA RopStep ==
    ASSUME SubInv, rop_ready
    PROVE  SubInv'
<1> DEFINE r == Head(m_rop)
<1>1. /\ m_rop # <<>> /\ Room(m_icnt_L2_queue, IcntL2Size)
      /\ m_rop' = Tail(m_rop)
      /\ m_icnt_L2_queue' = Append(m_icnt_L2_queue, r)
      /\ UNCHANGED <<cacheVars, pending, m_L2_dram_queue, m_dram_L2_queue,
                     m_L2_icnt_queue, m_request_tracker, below>>
  BY DEF rop_ready, workVars, memVars
<1>2. /\ m_rop' \in Seq(Req) /\ Once(m_rop', Req)
      /\ r \in Req /\ r \in ToSet(m_rop)
      /\ \A x \in Req : x \in ToSet(m_rop') <=> x \in ToSet(m_rop) /\ x # r
  BY <1>1, Leaves DEF SubInv, QueueTypes, QueuesOnce
<1> HIDE DEF r
<1>3. r \notin ToSet(m_icnt_L2_queue)
  BY <1>2 DEF SubInv, AboveInv, AtMostOne
<1>4. /\ m_icnt_L2_queue' \in Seq(Req) /\ Once(m_icnt_L2_queue', Req)
      /\ \A x \in Req : x \in ToSet(m_icnt_L2_queue')
                           <=> x \in ToSet(m_icnt_L2_queue) \/ x = r
      /\ Len(m_icnt_L2_queue') = Len(m_icnt_L2_queue) + 1
      /\ Len(m_icnt_L2_queue) \in Nat
  BY <1>1, <1>2, <1>3, Enters DEF SubInv, QueueTypes, QueuesOnce
<1>5. CacheInv' /\ CacheBounds' /\ SameReads
  BY <1>1, CacheAlone
<1>6. QueueTypes' /\ QueuesOnce' /\ IssuedInv'
  BY <1>1, <1>2, <1>4 DEF SubInv, QueueTypes, QueuesOnce, IssuedInv
<1>7. AboveInv'
  BY <1>1, <1>2, <1>4, <1>5 DEF SubInv, AboveInv, AtMostOne, SameReads
<1>8. BelowInv'
  BY <1>1, <1>5 DEF SubInv, BelowInv, AtMostOne, SameReads
<1>9. QueueBounds'
  <2>1. Len(m_icnt_L2_queue) < IcntL2Size /\ IcntL2Size \in Nat
    BY <1>1, SubPartitionAssumption DEF Room
  <2> QED
    BY <1>1, <1>4, <2>1 DEF SubInv, QueueBounds
<1> QED
  BY <1>5, <1>6, <1>7, <1>8, <1>9 DEF SubInv

\* Every step keeps the invariant.
LEMMA SubInvStep ==
    ASSUME SubInv, [Next]_vars
    PROVE  SubInv'
<1>1. ASSUME start_cycle \/ rop_waits \/ UNCHANGED vars PROVE SubInv'
  <2>1. UNCHANGED <<cacheVars, pending, m_rop, m_icnt_L2_queue, m_L2_dram_queue,
                    m_dram_L2_queue, m_L2_icnt_queue, m_request_tracker, below>>
    BY <1>1 DEF start_cycle, rop_waits, vars, workVars, memVars
  <2> QED
    BY <2>1, CacheAlone, QueuesAlone
<1>2. CASE \E p \in Packet : push(p)
  BY <1>2, PushStep
<1>3. CASE \E c \in Packet : copy(c)
  BY <1>3, CopyStep
<1> QED
  BY <1>1, <1>2, <1>3, PopStep, DramTakesStep, DramReturnsStep, RespondStep, FillStep,
     MissStep, AccessStep, RopStep
  DEF Next, subpartition_cycle

\* The inductive invariant holds of every program, racing or not.
THEOREM SubInvariance == Spec => []SubInv
<1>1. SubInv /\ [Next]_vars => SubInv'
  BY SubInvStep
<1> QED
  BY <1>1, SubInvInit, PTL DEF Spec

\* busy() is exact for every program, every geometry and every size of a queue:
\* no interleaving of hits, merges, fills, lazy writes and copies loses a
\* request that the tracker has, answers it twice, or leaves it behind.
THEOREM TrackerIsExact == Spec => []BusyIsExact
BY SubInvariance, SubInvExact, PTL

\* No push of cache_cycle, of an access that makes two requests or of the
\* interconnect finds a full queue or a full table.
THEOREM PushesFindSpace == Spec => []PushesHaveRoom
BY SubInvariance, SubInvExact, PTL

-----------------------------------------------------------------------------
(* The contents of the lines, for programs without races *)

\* What a sector of a line may be.
SectorState == [status : {"INVALID", "RESERVED", "VALID", "MODIFIED"},
                modified_on_fill : BOOLEAN, ignore_on_fill : BOOLEAN,
                readable : BOOLEAN, complete : BOOLEAN]

\* A sector that a read may hit has all its bytes.
Sound(s) == s.status = "VALID" \/ (s.status = "MODIFIED" /\ s.readable) => s.complete

\* A block is in one line.
LinesTyped == /\ m_tag \in [Way -> Block \cup {NoBlock}]
              /\ m_sector \in [Way -> [Sector -> SectorState]]
              /\ \A w, v \in Way : m_tag[w] \in Block /\ m_tag[w] = m_tag[v] => w = v

LinesSound == \A w \in Way, s \in Sector : Sound(m_sector[w][s])

\* The sector of a read that waits for a fill is reserved, in the way the read
\* remembers, and the way holds its block.
FillsReserved ==
    \A r \in Req : waiting_for_fill(r) =>
        /\ m_tag[m_extra_mf_fields[r]] = BlockOf[r[1]]
        /\ m_sector[m_extra_mf_fields[r]][r[2]].status = "RESERVED"

\* The order of the program: what a packet comes after is over.
OrderInv == /\ \A p \in Packet \ pending : \A c \in After[p] : Over(c)
            /\ \A r \in answered : r \notin m_request_tracker /\ r[1] \notin pending

\* Only reads wait in the table.
ReadersInv == \A r \in Req : Waiting(r) => ~IsWrite(r)

\* What the lines and the writebacks owe to the data.
LinesInOrder == LinesTyped /\ LinesSound /\ FillsReserved
                /\ unwritten \subseteq Keys /\ DirtyDataIsKept

DataInv == LinesInOrder /\ OrderInv /\ ReadersInv

\* The state is dirty: it will be written back, now or after the fill.
DirtyState(s) == s.status = "MODIFIED" \/ (s.status = "RESERVED" /\ s.modified_on_fill)

\* Dirty looks at the one line of the block.
LEMMA DirtyIn ==
    ASSUME LinesTyped, NEW k \in Keys
    PROVE  /\ \A w \in Way : m_tag[w] = k[1] => WayOf(k[1]) = w
           /\ Dirty(k) <=> \E w \in Way : m_tag[w] = k[1] /\ DirtyState(m_sector[w][k[2]])
<1>1. k[1] \in Block
  BY DEF Keys
<1>2. ASSUME NEW w \in Way, m_tag[w] = k[1] PROVE WayOf(k[1]) = w
  <2>1. WayOf(k[1]) \in Way /\ m_tag[WayOf(k[1])] = k[1]
    BY <1>2 DEF WayOf
  <2> QED
    BY <1>1, <1>2, <2>1 DEF LinesTyped
<1>3. Dirty(k) <=> Cached(k[1]) /\ DirtyState(m_sector[WayOf(k[1])][k[2]])
  BY DEF Dirty, DirtyState
<1> QED
  BY <1>2, <1>3 DEF Cached

\* The same, of every state.
LEMMA DirtyInLine ==
    LinesTyped => \A k \in Keys :
        Dirty(k) <=> \E w \in Way : m_tag[w] = k[1] /\ DirtyState(m_sector[w][k[2]])
BY DirtyIn

\* It holds after a step as well.
LEMMA DirtyInNext ==
    LinesTyped' => (\A k \in Keys :
        Dirty(k) <=> \E w \in Way : m_tag[w] = k[1] /\ DirtyState(m_sector[w][k[2]]))'
BY DirtyInLine, PTL

\* Line w keeps its block; its sectors are l, of which only s is new.
NewSector(w, s, l) == /\ w \in Way /\ s \in Sector /\ m_tag[w] \in Block
                      /\ l \in [Sector -> SectorState] /\ Sound(l[s])
                      /\ \A x \in Sector : x # s => l[x] = m_sector[w][x]
                      /\ m_tag' = m_tag
                      /\ m_sector' = [m_sector EXCEPT ![w] = l]

\* What that does to the lines and to what is dirty.
LEMMA SectorChange ==
    ASSUME LinesTyped, LinesSound, NEW w, NEW s, NEW l, NewSector(w, s, l)
    PROVE  /\ LinesTyped' /\ LinesSound'
           /\ \A k \in Keys : Dirty(k)' <=> IF k = <<m_tag[w], s>> THEN DirtyState(l[s])
                                            ELSE Dirty(k)
           /\ \A v \in Way, x \in Sector :
                 v # w \/ x # s => m_sector'[v][x] = m_sector[v][x]
           /\ m_sector'[w][s] = l[s]
<1> USE DEF NewSector
<1>1. /\ m_sector' \in [Way -> [Sector -> SectorState]]
      /\ m_sector'[w] = l
      /\ \A v \in Way : v # w => m_sector'[v] = m_sector[v]
  BY DEF LinesTyped
<1>2. LinesTyped'
  BY <1>1 DEF LinesTyped
<1>3. \A v \in Way, x \in Sector :
                 v # w \/ x # s => m_sector'[v][x] = m_sector[v][x]
  BY <1>1
<1>4. LinesSound'
  <2> SUFFICES ASSUME NEW v \in Way, NEW x \in Sector PROVE Sound(m_sector'[v][x])
    BY DEF LinesSound, Sound
  <2>1. CASE v = w /\ x = s
    BY <1>1, <2>1
  <2>2. CASE v # w \/ x # s
    BY <1>3, <2>2 DEF LinesSound
  <2> QED
    BY <2>1, <2>2
<1>5. ASSUME NEW k \in Keys
      PROVE  Dirty(k)' <=> IF k = <<m_tag[w], s>> THEN DirtyState(l[s]) ELSE Dirty(k)
  <2>1. Dirty(k) <=> \E v \in Way : m_tag[v] = k[1] /\ DirtyState(m_sector[v][k[2]])
    BY DirtyIn
  <2>2. Dirty(k)' <=> \E v \in Way : m_tag[v] = k[1] /\ DirtyState(m_sector'[v][k[2]])
    BY <1>2, DirtyInNext DEF DirtyState
  <2>3. k = <<k[1], k[2]>> /\ k[2] \in Sector
    BY DEF Keys
  <2>4. CASE k = <<m_tag[w], s>>
    <3>1. \A v \in Way : m_tag[v] = k[1] => v = w
      BY <2>4 DEF LinesTyped
    <3> QED
      BY <1>1, <2>2, <2>4, <3>1
  <2>5. CASE k # <<m_tag[w], s>>
    <3>1. \A v \in Way : m_tag[v] = k[1] => m_sector'[v][k[2]] = m_sector[v][k[2]]
      BY <1>3, <2>3, <2>5
    <3> QED
      BY <2>1, <2>2, <2>5, <3>1
  <2> QED
    BY <2>4, <2>5
<1> QED
  BY <1>1, <1>2, <1>3, <1>4, <1>5

\* Line w, which has no reserved sector, gets block b and the sectors l, of which
\* only s is in use.
NewLine(w, b, s, l) == /\ w \in Way /\ s \in Sector /\ b \in Block
                       /\ ~Cached(b) /\ ~is_reserved_line(w)
                       /\ l \in [Sector -> SectorState] /\ Sound(l[s])
                       /\ \A x \in Sector : x # s => l[x] = FreshSector
                       /\ m_tag' = [m_tag EXCEPT ![w] = b]
                       /\ m_sector' = [m_sector EXCEPT ![w] = l]

\* What the line loses of dirty data is among its modified sectors.
LEMMA LineReplaced ==
    ASSUME LinesTyped, LinesSound, NEW w, NEW b, NEW s, NEW l, NewLine(w, b, s, l)
    PROVE  /\ LinesTyped' /\ LinesSound'
           /\ \A k \in Keys : Dirty(k)' <=> IF k = <<b, s>> THEN DirtyState(l[s])
                                            ELSE Dirty(k) /\ k[1] # m_tag[w]
           /\ \A k \in Keys : /\ Dirty(k) /\ k[1] = m_tag[w] => k[2] \in ModifiedSectors(w)
                              /\ k[1] = b => ~Dirty(k)
           /\ \A v \in Way : v # w => /\ m_sector'[v] = m_sector[v]
                                      /\ m_tag'[v] = m_tag[v]
           /\ m_tag'[w] = b /\ m_sector'[w][s] = l[s]
<1> USE DEF NewLine
<1>1. /\ m_sector' \in [Way -> [Sector -> SectorState]]
      /\ m_sector'[w] = l
      /\ \A v \in Way : v # w => m_sector'[v] = m_sector[v]
      /\ m_tag' \in [Way -> Block \cup {NoBlock}]
      /\ m_tag'[w] = b
      /\ \A v \in Way : v # w => m_tag'[v] = m_tag[v]
  BY DEF LinesTyped
<1>2. \A v \in Way : m_tag[v] # b
  BY DEF Cached
<1>3. LinesTyped'
  BY <1>1, <1>2 DEF LinesTyped
<1>4. FreshSector.status = "INVALID"
  BY DEF FreshSector
<1>5. LinesSound'
  <2> SUFFICES ASSUME NEW v \in Way, NEW x \in Sector PROVE Sound(m_sector'[v][x])
    BY DEF LinesSound, Sound
  <2>1. CASE v = w /\ x = s
    BY <1>1, <2>1
  <2>2. CASE v = w /\ x # s
    BY <1>1, <1>4, <2>2 DEF Sound
  <2>3. CASE v # w
    BY <1>1, <2>3 DEF LinesSound
  <2> QED
    BY <2>1, <2>2, <2>3
<1>6. ASSUME NEW k \in Keys
      PROVE  /\ Dirty(k)' <=> IF k = <<b, s>> THEN DirtyState(l[s])
                              ELSE Dirty(k) /\ k[1] # m_tag[w]
             /\ Dirty(k) /\ k[1] = m_tag[w] => k[2] \in ModifiedSectors(w)
             /\ k[1] = b => ~Dirty(k)
  <2>1. Dirty(k) <=> \E v \in Way : m_tag[v] = k[1] /\ DirtyState(m_sector[v][k[2]])
    BY DirtyIn
  <2>2. Dirty(k)' <=> \E v \in Way : m_tag'[v] = k[1] /\ DirtyState(m_sector'[v][k[2]])
    BY <1>3, DirtyInNext DEF DirtyState
  <2>3. k = <<k[1], k[2]>> /\ k[1] \in Block /\ k[2] \in Sector
    BY DEF Keys
  <2>4. CASE k[1] = b
    <3>1. ~Dirty(k)
      BY <1>2, <2>1, <2>4
    <3>2. Dirty(k)' <=> DirtyState(l[k[2]])
      BY <1>1, <1>2, <2>2, <2>4
    <3>3. k[2] # s => ~DirtyState(l[k[2]])
      BY <1>4, <2>3 DEF DirtyState
    <3>4. k[1] # m_tag[w]
      BY <1>2, <2>4
    <3> QED
      BY <2>3, <2>4, <3>1, <3>2, <3>3, <3>4
  <2>5. CASE k[1] # b
    <3>1. Dirty(k) /\ k[1] = m_tag[w] => k[2] \in ModifiedSectors(w)
      <4> SUFFICES ASSUME Dirty(k), k[1] = m_tag[w] PROVE k[2] \in ModifiedSectors(w)
        OBVIOUS
      <4>1. \A v \in Way : m_tag[v] = k[1] => v = w
        BY <2>3 DEF LinesTyped
      <4>2. DirtyState(m_sector[w][k[2]])
        BY <2>1, <4>1
      <4>3. m_sector[w][k[2]].status # "RESERVED"
        BY <2>3 DEF is_reserved_line
      <4> QED
        BY <2>3, <4>2, <4>3 DEF DirtyState, ModifiedSectors
    <3>2. ASSUME k[1] = m_tag[w] PROVE ~Dirty(k)'
      <4>1. \A v \in Way : m_tag'[v] # k[1]
        BY <1>1, <2>3, <2>5, <3>2 DEF LinesTyped
      <4> QED
        BY <2>2, <4>1
    <3>3. ASSUME k[1] # m_tag[w] PROVE Dirty(k)' <=> Dirty(k)
      <4>1. \A v \in Way : /\ m_tag'[v] = k[1] <=> m_tag[v] = k[1]
                           /\ m_tag[v] = k[1] => m_sector'[v] = m_sector[v]
        BY <1>1, <2>5, <3>3
      <4> QED
        BY <2>1, <2>2, <4>1
    <3>4. k # <<b, s>>
      BY <2>5
    <3> QED
      BY <2>5, <3>1, <3>2, <3>3, <3>4
  <2> QED
    BY <2>4, <2>5
<1> QED
  BY <1>1, <1>3, <1>5, <1>6

\* How an access that is not a hit finds its sector: in the line of the block,
\* or in a line that gives up another block.
LEMMA AccessedLine ==
    ASSUME LinesTyped, NEW k \in Keys, NEW w \in WaysFor(k)
    PROVE  /\ w \in Way
           /\ Accessed(k, w) \in [Sector -> SectorState]
           /\ Cached(k[1]) =>
                 /\ m_tag[w] = k[1] /\ w = WayOf(k[1])
                 /\ WrittenBack(k, w) = <<>>
                 /\ \A x \in Sector : x # k[2] => Accessed(k, w)[x] = m_sector[w][x]
                 /\ \/ probe(k) = "SECTOR_MISS"
                       /\ Accessed(k, w)[k[2]] = allocate_sector(m_sector[w][k[2]])
                    \/ probe(k) # "SECTOR_MISS"
                       /\ Accessed(k, w)[k[2]] = m_sector[w][k[2]]
           /\ ~Cached(k[1]) =>
                 /\ ~is_reserved_line(w)
                 /\ probe(k) = "MISS"
                 /\ \A x \in Sector : x # k[2] => Accessed(k, w)[x] = FreshSector
                 /\ Accessed(k, w)[k[2]] = [FreshSector EXCEPT !.status = "RESERVED"]
<1>1. w \in Way /\ k[1] \in Block /\ k[2] \in Sector
  BY WaysOfAccess DEF Keys
<1>2. m_sector[w] \in [Sector -> SectorState] /\ m_sector[w][k[2]] \in SectorState
  BY <1>1 DEF LinesTyped
<1>3. /\ FreshSector \in SectorState
      /\ [FreshSector EXCEPT !.status = "RESERVED"] \in SectorState
  BY DEF FreshSector, SectorState
<1>4. ASSUME NEW s \in SectorState PROVE allocate_sector(s) \in SectorState
  BY DEF allocate_sector, SectorState
<1>5. CASE Cached(k[1])
  <2>1. w = WayOf(k[1])
    BY <1>5 DEF WaysFor
  <2>2. m_tag[w] = k[1]
    BY <1>5, <2>1 DEF Cached, WayOf
  <2>3. probe(k) # "MISS"
    <3> DEFINE s == m_sector[WayOf(k[1])][k[2]]
    <3>1. s.status \in {"INVALID", "RESERVED", "VALID", "MODIFIED"}
      BY <1>2, <2>1 DEF SectorState
    <3>2. probe(k) = CASE s.status = "RESERVED" -> "HIT_RESERVED"
                       [] s.status = "VALID"    -> "HIT"
                       [] s.status = "MODIFIED" -> ModifiedOutcome(s)
                       [] s.status = "INVALID"  -> "SECTOR_MISS"
      BY <1>5 DEF probe
    <3>3. ModifiedOutcome(s) \in {"HIT", "SECTOR_MISS"}
      BY DEF ModifiedOutcome
    <3> HIDE DEF s
    <3> QED
      BY <3>1, <3>2, <3>3
  <2>4. WrittenBack(k, w) = <<>>
    BY <2>3 DEF WrittenBack
  <2>5. CASE probe(k) = "SECTOR_MISS"
    <3>1. Accessed(k, w) = [m_sector[w] EXCEPT ![k[2]] = allocate_sector(m_sector[w][k[2]])]
      BY <2>5 DEF Accessed
    <3> QED
      BY <1>1, <1>2, <1>4, <1>5, <2>1, <2>2, <2>4, <2>5, <3>1
  <2>6. CASE probe(k) # "SECTOR_MISS"
    <3>1. Accessed(k, w) = m_sector[w]
      BY <2>3, <2>6 DEF Accessed
    <3> QED
      BY <1>1, <1>2, <1>5, <2>1, <2>2, <2>4, <2>6, <3>1
  <2> QED
    BY <2>5, <2>6
<1>6. CASE ~Cached(k[1])
  <2>1. w \in Replaceable
    <3>1. w \in Victims
      BY <1>6 DEF WaysFor
    <3> DEFINE invalid == {x \in Replaceable : is_invalid_line(x)}
    <3>2. CASE invalid # {}
      <4>1. w = CHOOSE x \in invalid : TRUE
        BY <3>1, <3>2 DEF Victims
      <4>2. w \in invalid
        BY <3>2, <4>1
      <4> QED
        BY <4>2
    <3>3. CASE invalid = {}
      BY <3>1, <3>3 DEF Victims
    <3> QED
      BY <3>2, <3>3
  <2>2. ~is_reserved_line(w)
    BY <2>1 DEF Replaceable
  <2>3. probe(k) = "MISS"
    BY <1>6, <2>1 DEF probe
  <2>4. Accessed(k, w) = [x \in Sector |->
            IF x = k[2] THEN [FreshSector EXCEPT !.status = "RESERVED"] ELSE FreshSector]
    BY <2>3 DEF Accessed, allocate_line
  <2> QED
    BY <1>1, <1>3, <1>6, <2>2, <2>3, <2>4
<1> QED
  BY <1>5, <1>6

\* An access, or a copy, of the sector address k ends up in way w and leaves the
\* sector in the state l[k[2]].
NewState(k, w, l) == /\ k \in Keys /\ w \in WaysFor(k)
                     /\ l \in [Sector -> SectorState] /\ Sound(l[k[2]])
                     /\ \A x \in Sector : x # k[2] => l[x] = Accessed(k, w)[x]
                     /\ m_tag' = [m_tag EXCEPT ![w] = k[1]]
                     /\ m_sector' = [m_sector EXCEPT ![w] = l]

\* Other sectors are as before, except those of a line that had to go, and what
\* was dirty there is in its writeback.
LEMMA LineOperation ==
    ASSUME LinesTyped, LinesSound, NEW k, NEW w, NEW l, NewState(k, w, l)
    PROVE  /\ LinesTyped' /\ LinesSound'
           /\ Dirty(k)' <=> DirtyState(l[k[2]])
           /\ \A j \in Keys : /\ j # k /\ Dirty(j)' => Dirty(j)
                              /\ j # k /\ Dirty(j) /\ ~Dirty(j)' =>
                                   \E x \in ToSet(WrittenBack(k, w)) : Carries(x, j)
           /\ Dirty(k) => Cached(k[1]) /\ DirtyState(m_sector[w][k[2]])
           /\ \A v \in Way, x \in Sector :
                 m_sector[v][x].status = "RESERVED" /\ <<m_tag[v], x>> # k =>
                    m_tag'[v] = m_tag[v] /\ m_sector'[v][x] = m_sector[v][x]
           /\ m_tag'[w] = k[1] /\ m_sector'[w][k[2]] = l[k[2]]
<1> USE DEF NewState
<1>1. k = <<k[1], k[2]>> /\ k[1] \in Block /\ k[2] \in Sector
  BY DEF Keys
<1>2. w \in Way
  BY AccessedLine
<1>3. /\ m_sector'[w] = l /\ m_tag'[w] = k[1]
      /\ \A v \in Way : v # w => m_sector'[v] = m_sector[v] /\ m_tag'[v] = m_tag[v]
  BY <1>2 DEF LinesTyped
<1>4. CASE Cached(k[1])
  <2>1. /\ m_tag[w] = k[1] /\ w = WayOf(k[1])
        /\ \A x \in Sector : x # k[2] => l[x] = m_sector[w][x]
    BY <1>4, AccessedLine
  <2>2. m_tag' = m_tag
    BY <1>2, <2>1 DEF LinesTyped
  <2>3. /\ LinesTyped' /\ LinesSound'
        /\ \A j \in Keys : Dirty(j)' <=> IF j = <<m_tag[w], k[2]>> THEN DirtyState(l[k[2]])
                                         ELSE Dirty(j)
        /\ \A v \in Way, x \in Sector :
              v # w \/ x # k[2] => m_sector'[v][x] = m_sector[v][x]
    <3>1. NewSector(w, k[2], l)
      BY <1>1, <1>2, <2>1, <2>2 DEF NewSector
    <3> QED
      BY <3>1, SectorChange
  <2>4. Dirty(k)' <=> DirtyState(l[k[2]])
    BY <1>1, <2>1, <2>3
  <2>5. \A j \in Keys : j # k => (Dirty(j)' <=> Dirty(j))
    BY <1>1, <2>1, <2>3
  <2>6. Dirty(k) => DirtyState(m_sector[w][k[2]])
    BY <2>1 DEF Dirty, DirtyState
  <2>7. \A v \in Way, x \in Sector :
                 m_sector[v][x].status = "RESERVED" /\ <<m_tag[v], x>> # k =>
                    m_tag'[v] = m_tag[v] /\ m_sector'[v][x] = m_sector[v][x]
    BY <1>1, <2>1, <2>2, <2>3
  <2> QED
    BY <1>3, <1>4, <2>3, <2>4, <2>5, <2>6, <2>7
<1>5. CASE ~Cached(k[1])
  <2>1. /\ ~is_reserved_line(w) /\ probe(k) = "MISS"
        /\ \A x \in Sector : x # k[2] => l[x] = FreshSector
    BY <1>5, AccessedLine
  <2>2. /\ LinesTyped' /\ LinesSound'
        /\ \A j \in Keys : /\ Dirty(j)' <=> IF j = <<k[1], k[2]>> THEN DirtyState(l[k[2]])
                                            ELSE Dirty(j) /\ j[1] # m_tag[w]
                           /\ Dirty(j) /\ j[1] = m_tag[w] => j[2] \in ModifiedSectors(w)
                           /\ j[1] = k[1] => ~Dirty(j)
    <3>1. NewLine(w, k[1], k[2], l)
      BY <1>1, <1>2, <1>5, <2>1 DEF NewLine
    <3> QED
      BY <3>1, LineReplaced
  <2>3. \A j \in Keys : /\ Dirty(j) /\ j[1] = m_tag[w] => j[2] \in ModifiedSectors(w)
                        /\ j[1] = k[1] => ~Dirty(j)
    BY <2>2
  <2>4. Dirty(k)' <=> DirtyState(l[k[2]])
    BY <1>1, <2>2
  <2>5. ASSUME NEW j \in Keys, j # k
        PROVE  /\ Dirty(j)' => Dirty(j)
               /\ Dirty(j) /\ ~Dirty(j)' =>
                    \E x \in ToSet(WrittenBack(k, w)) : Carries(x, j)
    <3>1. Dirty(j)' <=> Dirty(j) /\ j[1] # m_tag[w]
      BY <1>1, <2>2, <2>5
    <3>2. ASSUME Dirty(j), j[1] = m_tag[w]
          PROVE  \E x \in ToSet(WrittenBack(k, w)) : Carries(x, j)
      <4> DEFINE M == ModifiedSectors(w)
                 e == Wb(m_tag[w], M)
      <4>1. j[2] \in M /\ M \subseteq Sector /\ m_tag[w] \in Block
        BY <2>3, <3>2 DEF ModifiedSectors, Keys
      <4>2. WrittenBack(k, w) = <<e>>
        BY <2>1, <4>1 DEF WrittenBack
      <4>3. e \in Writebacks
        BY <4>1 DEF Writebacks
      <4>4. e[2] = m_tag[w] /\ e[3] = M
        BY DEF Wb
      <4>5. Carries(e, j)
        BY <3>2, <4>1, <4>3, <4>4 DEF Carries
      <4> HIDE DEF e
      <4>6. ToSet(<<e>>) = {e}
        BY <4>3, SingleQueue
      <4> QED
        BY <4>2, <4>5, <4>6
    <3> QED
      BY <3>1, <3>2
  <2>6. ~Dirty(k)
    BY <2>3
  <2>7. \A v \in Way, x \in Sector :
                 m_sector[v][x].status = "RESERVED" =>
                    m_tag'[v] = m_tag[v] /\ m_sector'[v][x] = m_sector[v][x]
    BY <1>3, <2>1 DEF is_reserved_line
  <2> QED
    BY <1>3, <2>2, <2>4, <2>5, <2>6, <2>7
<1> QED
  BY <1>4, <1>5

\* What an access that does not hit finds, or makes: a reserved sector, dirty if
\* it was.
LEMMA ReservedSector ==
    ASSUME LinesTyped, NEW k \in Keys, NEW w \in WaysFor(k), probe(k) # "HIT"
    PROVE  /\ Accessed(k, w)[k[2]] \in SectorState
           /\ Accessed(k, w)[k[2]].status = "RESERVED"
           /\ Cached(k[1]) /\ DirtyState(m_sector[w][k[2]])
                 => DirtyState(Accessed(k, w)[k[2]])
<1>1. k[1] \in Block /\ k[2] \in Sector /\ w \in Way
  BY AccessedLine DEF Keys
<1>2. Accessed(k, w)[k[2]] \in SectorState
  BY <1>1, AccessedLine
<1>3. CASE ~Cached(k[1])
  <2>1. Accessed(k, w)[k[2]] = [FreshSector EXCEPT !.status = "RESERVED"]
    BY <1>3, AccessedLine
  <2> QED
    BY <1>2, <1>3, <2>1 DEF FreshSector
<1>4. CASE Cached(k[1])
  <2> DEFINE s == m_sector[w][k[2]]
             a == Accessed(k, w)[k[2]]
  <2>1. w = WayOf(k[1])
    BY <1>4, AccessedLine
  <2>2. s \in SectorState
    BY <1>1 DEF LinesTyped
  <2>3. s.status \in {"INVALID", "RESERVED", "VALID", "MODIFIED"}
    BY <2>2 DEF SectorState
  <2>4. probe(k) = CASE s.status = "RESERVED" -> "HIT_RESERVED"
                     [] s.status = "VALID"    -> "HIT"
                     [] s.status = "MODIFIED" -> ModifiedOutcome(s)
                     [] s.status = "INVALID"  -> "SECTOR_MISS"
    BY <1>4, <2>1 DEF probe
  <2>5. ModifiedOutcome(s) \in {"HIT", "SECTOR_MISS"}
    BY DEF ModifiedOutcome
  <2>6. \/ probe(k) = "SECTOR_MISS" /\ a = allocate_sector(s)
        \/ probe(k) # "SECTOR_MISS" /\ a = s
    BY <1>4, AccessedLine
  <2> HIDE DEF s, a
  <2>7. \/ probe(k) = "SECTOR_MISS" /\ s.status # "RESERVED"
        \/ probe(k) = "HIT_RESERVED" /\ s.status = "RESERVED"
    BY <2>3, <2>4, <2>5
  <2>8. CASE a = s /\ s.status = "RESERVED"
    BY <1>2, <2>8 DEF a, s
  <2>9. CASE a = allocate_sector(s) /\ s.status # "RESERVED"
    <3>1. a.status = "RESERVED" /\ a.modified_on_fill = (s.status = "MODIFIED")
      BY <2>2, <2>9 DEF allocate_sector, SectorState
    <3>2. DirtyState(s) => DirtyState(a)
      BY <2>9, <3>1 DEF DirtyState
    <3> QED
      BY <1>2, <3>1, <3>2 DEF a, s
  <2> QED
    BY <2>6, <2>7, <2>8, <2>9
<1> QED
  BY <1>3, <1>4

\* A hit finds a sector that has all its bytes and waits for none.
LEMMA HitSector ==
    ASSUME LinesTyped, LinesSound, NEW k \in Keys, probe(k) = "HIT"
    PROVE  /\ WayOf(k[1]) \in Way /\ m_tag[WayOf(k[1])] = k[1]
           /\ m_sector[WayOf(k[1])][k[2]].complete
           /\ m_sector[WayOf(k[1])][k[2]].status # "RESERVED"
<1> DEFINE w == WayOf(k[1])
           s == m_sector[w][k[2]]
<1>1. Cached(k[1])
  BY DEF probe
<1>2. w \in Way /\ m_tag[w] = k[1]
  BY <1>1 DEF Cached, WayOf
<1>3. k[2] \in Sector
  BY DEF Keys
<1>4. Sound(s) /\ s \in SectorState
  BY <1>2, <1>3 DEF LinesSound, LinesTyped
<1>5. s.status \in {"INVALID", "RESERVED", "VALID", "MODIFIED"}
  BY <1>4 DEF SectorState
<1>6. probe(k) = CASE s.status = "RESERVED" -> "HIT_RESERVED"
                   [] s.status = "VALID"    -> "HIT"
                   [] s.status = "MODIFIED" -> ModifiedOutcome(s)
                   [] s.status = "INVALID"  -> "SECTOR_MISS"
  BY <1>1 DEF probe
<1>7. ModifiedOutcome(s) = IF s.readable THEN "HIT" ELSE "SECTOR_MISS"
  BY DEF ModifiedOutcome
<1> HIDE DEF s
<1>8. s.status = "VALID" \/ (s.status = "MODIFIED" /\ s.readable)
  BY <1>5, <1>6, <1>7
<1>9. s.complete /\ s.status # "RESERVED"
  BY <1>4, <1>8 DEF Sound
<1> QED
  BY <1>2, <1>9 DEF s

\* What the program orders does not meet in the cache: a write that is being
\* worked on has its sector address for itself.
LEMMA WritesApart ==
    ASSUME RaceFree, SubInv, OrderInv, NEW x \in m_request_tracker,
           NEW y \in m_request_tracker, x # y, IsWrite(y)
    PROVE  Key(x) # Key(y)
<1> SUFFICES ASSUME Key(x) = Key(y) PROVE FALSE
  OBVIOUS
<1>1. x \in Req /\ y \in Req
  BY DEF SubInv, QueueTypes
<1>2. /\ x = <<x[1], x[2]>> /\ y = <<y[1], y[2]>>
      /\ x[1] \in Packet /\ y[1] \in Packet
  BY <1>1, RequestParts
<1>3. BlockOf[x[1]] = BlockOf[y[1]] /\ x[2] = y[2]
  BY DEF Key
<1>4. x[1] # y[1]
  BY <1>2, <1>3
<1>5. /\ x[2] \in First[x[1]] .. First[x[1]] + Size[x[1]] - 1
      /\ x[2] \in First[y[1]] .. First[y[1]] + Size[y[1]] - 1
  BY <1>1, <1>3 DEF Req
<1>6. x[1] \in After[y[1]] \/ y[1] \in After[x[1]]
  BY <1>2, <1>3, <1>4, <1>5 DEF RaceFree, Sectors, IsWrite
<1>7. x[1] \in Packet \ pending /\ y[1] \in Packet \ pending
  BY <1>2 DEF SubInv, IssuedInv
<1>8. Over(x[1]) \/ Over(y[1])
  BY <1>6, <1>7 DEF OrderInv
<1>9. x \in answered \/ y \in answered
  BY <1>1, <1>8 DEF Over
<1> QED
  BY <1>9 DEF OrderInv

\* So has a copy that may start.
LEMMA CopiesApart ==
    ASSUME RaceFree, SubInv, OrderInv, NEW x \in m_request_tracker,
           NEW c \in Copies, MayStart(c)
    PROVE  Key(x) # <<BlockOf[c], First[c]>>
<1> SUFFICES ASSUME Key(x) = <<BlockOf[c], First[c]>> PROVE FALSE
  OBVIOUS
<1>1. x \in Req /\ c \in Packet
  BY SectorCacheAssumption DEF SubInv, QueueTypes
<1>2. x[1] \in Packet /\ x[1] # c
  BY <1>1, RequestParts
<1>3. BlockOf[x[1]] = BlockOf[c] /\ x[2] = First[c]
  BY DEF Key
<1>4. First[c] \in First[c] .. First[c] + Size[c] - 1
  <2>1. First[c] \in Nat /\ Size[c] = 1
    BY <1>1, SectorCacheAssumption DEF Sector
  <2> QED
    BY <2>1
<1>5. x[2] \in First[x[1]] .. First[x[1]] + Size[x[1]] - 1
  BY <1>1 DEF Req
<1>6. x[1] \in After[c] \/ c \in After[x[1]]
  BY <1>1, <1>2, <1>3, <1>4, <1>5 DEF RaceFree, Sectors
<1>7. x[1] \in Packet \ pending /\ c \in pending
  BY <1>2 DEF SubInv, IssuedInv, MayStart
<1>8. x[1] \notin After[c]
  <2> SUFFICES ASSUME Over(x[1]) PROVE FALSE
    BY DEF MayStart
  <2>1. x \in answered
    BY <1>1 DEF Over
  <2> QED
    BY <2>1 DEF OrderInv
<1>9. c \notin After[x[1]]
  <2> SUFFICES ASSUME Over(c) PROVE FALSE
    BY <1>7 DEF OrderInv
  <2> QED
    BY <1>7 DEF Over
<1> QED
  BY <1>6, <1>8, <1>9

\* The order of the program is kept by every step.
LEMMA OrderStep ==
    ASSUME SubInv, OrderInv, [Next]_vars
    PROVE  OrderInv'
<1>1. ASSUME pending' \subseteq pending, answered \subseteq answered', NEW p
      PROVE  Over(p) => Over(p)'
  BY <1>1 DEF Over
<1>2. ASSUME NEW p \in Packet, push(p) PROVE OrderInv'
  <2>1. /\ MayStart(p) /\ p \notin Copies /\ pending' = pending \ {p}
        /\ answered' = answered
        /\ m_request_tracker' = m_request_tracker \cup ToSet(Parts(p))
    BY <1>2 DEF push
  <2>2. \A r \in ToSet(Parts(p)) : r[1] = p
    <3>1. Parts(p) \in Seq(Req) /\ \A r \in Req : r \in ToSet(Parts(p)) <=> r[1] = p
      BY <2>1, PacketParts
    <3> QED
      BY <3>1, QueueElements
  <2>3. \A q \in Packet \ pending' : \A c \in After[q] : Over(c)'
    <3>1. \A q \in Packet \ pending' : q = p \/ q \in Packet \ pending
      BY <2>1
    <3>2. \A q \in Packet \ pending' : \A c \in After[q] : Over(c)
      BY <2>1, <3>1 DEF MayStart, OrderInv
    <3> QED
      BY <1>1, <2>1, <3>2
  <2>4. \A r \in answered : r \notin m_request_tracker' /\ r[1] \notin pending'
    BY <2>1, <2>2 DEF OrderInv, MayStart
  <2> QED
    BY <2>1, <2>3, <2>4 DEF OrderInv
<1>3. ASSUME NEW p \in Packet, copy(p) PROVE OrderInv'
  <2>1. /\ MayStart(p) /\ pending' = pending \ {p}
        /\ answered' = answered /\ m_request_tracker' = m_request_tracker
    BY <1>3 DEF copy
  <2>2. \A q \in Packet \ pending' : \A c \in After[q] : Over(c)'
    <3>1. \A q \in Packet \ pending' : q = p \/ q \in Packet \ pending
      BY <2>1
    <3>2. \A q \in Packet \ pending' : \A c \in After[q] : Over(c)
      BY <2>1, <3>1 DEF MayStart, OrderInv
    <3> QED
      BY <1>1, <2>1, <3>2
  <2>3. \A r \in answered : r \notin m_request_tracker' /\ r[1] \notin pending'
    BY <2>1 DEF OrderInv
  <2> QED
    BY <2>1, <2>2, <2>3 DEF OrderInv
<1>4. ASSUME pop PROVE OrderInv'
  <2> DEFINE r == Head(m_L2_icnt_queue)
  <2>1. /\ pending' = pending /\ answered' = answered \cup {r}
        /\ m_request_tracker' = m_request_tracker \ {r}
        /\ m_L2_icnt_queue # <<>>
    BY <1>4 DEF pop, Untracked
  <2>2. r \in Req /\ r \in ToSet(m_L2_icnt_queue)
    BY <2>1, Leaves DEF SubInv, QueueTypes, QueuesOnce
  <2> HIDE DEF r
  <2>3. r[1] \notin pending
    BY <2>2 DEF SubInv, AboveInv, IssuedInv
  <2>4. \A p \in Packet \ pending' : \A c \in After[p] : Over(c)'
    BY <1>1, <2>1 DEF OrderInv
  <2>5. \A x \in answered' : x \notin m_request_tracker' /\ x[1] \notin pending'
    BY <2>1, <2>3 DEF OrderInv
  <2> QED
    BY <2>4, <2>5 DEF OrderInv
<1>5. ASSUME UNCHANGED <<pending, answered, m_request_tracker>> PROVE OrderInv'
  BY <1>5 DEF OrderInv, Over
<1>6. CASE dram_takes \/ dram_returns \/ subpartition_cycle \/ UNCHANGED vars
  BY <1>5, <1>6
     DEF dram_takes, dram_returns, subpartition_cycle, start_cycle, respond,
         fill_from_dram, miss_to_dram, access_L2, rop_ready, rop_waits, vars, workVars
<1> QED
  BY <1>2, <1>3, <1>4, <1>6 DEF Next

\* Only a read that misses joins the table.
LEMMA ReadersStep ==
    ASSUME SubInv, ReadersInv, [Next]_vars
    PROVE  ReadersInv'
<1>1. ASSUME \A x \in Req : Waiting(x)' => Waiting(x) PROVE ReadersInv'
  BY <1>1 DEF ReadersInv, IsWrite
<1>2. ASSUME UNCHANGED cacheVars PROVE ReadersInv'
  BY <1>1, <1>2, CacheAlone DEF SameReads
<1>3. CASE \E p \in Packet : push(p)
  BY <1>2, <1>3 DEF push
<1>4. CASE \E c \in Packet : copy(c)
  <2>1. PICK c \in Packet : copy(c)
    BY <1>4
  <2>2. UNCHANGED cacheVars \/ force_tag_access(c)
    BY <2>1 DEF copy
  <2> QED
    BY <1>1, <1>2, <2>1, <2>2, CopyKeeps DEF SubInv
<1>5. CASE respond
  <2>1. UNCHANGED cacheVars \/ (access_ready /\ next_access)
    BY <1>5 DEF respond
  <2> QED
    BY <1>1, <1>2, <2>1, NextKeeps DEF SubInv
<1>6. CASE fill_from_dram
  <2> DEFINE r == Head(m_dram_L2_queue)
  <2>1. UNCHANGED cacheVars \/ (m_dram_L2_queue # <<>> /\ fill(r))
    BY <1>6 DEF fill_from_dram
  <2>2. ASSUME m_dram_L2_queue # <<>>, fill(r) PROVE ReadersInv'
    <3>1. r \in Req /\ r \in ToSet(m_dram_L2_queue)
      BY <2>2, Leaves DEF SubInv, QueueTypes, QueuesOnce
    <3>2. fill(r)
      BY <2>2
    <3> HIDE DEF r
    <3>3. waiting_for_fill(r) /\ r \notin ToSet(m_miss_queue)
      BY <3>1 DEF SubInv, BelowInv, AtMostOne
    <3>4. \A x \in Req : Waiting(x)' <=> Waiting(x)
      BY <3>1, <3>2, <3>3, FillKeeps DEF SubInv
    <3> QED
      BY <1>1, <3>4
  <2> QED
    BY <1>2, <2>1, <2>2
<1>7. CASE miss_to_dram
  <2> DEFINE taken == m_miss_queue # <<>> /\ Room(m_L2_dram_queue, L2DramSize)
  <2>1. cache_cycle(taken) /\ taken \in BOOLEAN /\ (taken => m_miss_queue # <<>>)
    BY <1>7 DEF miss_to_dram
  <2> HIDE DEF taken
  <2>2. \A x \in Req : Waiting(x)' <=> Waiting(x)
    BY <2>1, CycleKeeps DEF SubInv
  <2> QED
    BY <1>1, <2>2
<1>8. CASE access_L2
  <2> DEFINE r == Head(m_icnt_L2_queue)
  <2>1. \/ UNCHANGED cacheVars
        \/ m_icnt_L2_queue # <<>> /\ access_outcome(r) # "RESERVATION_FAIL" /\ access(r)
    BY <1>8 DEF access_L2
  <2>2. ASSUME m_icnt_L2_queue # <<>>, access_outcome(r) # "RESERVATION_FAIL", access(r)
        PROVE  ReadersInv'
    <3>1. r \in Req /\ r \in ToSet(m_icnt_L2_queue)
      BY <2>2, Leaves DEF SubInv, QueueTypes, QueuesOnce
    <3>2. access_outcome(r) # "RESERVATION_FAIL" /\ access(r)
      BY <2>2
    <3> HIDE DEF r
    <3>3. ~Waiting(r)
      BY <3>1 DEF SubInv, AboveInv, AtMostOne
    <3>4. \A x \in Req : Waiting(x)' => Waiting(x) \/ (x = r /\ ~AnsweredNow(r))
      BY <3>1, <3>2, <3>3, AccessKeeps
    <3>5. ~AnsweredNow(r) => ~IsWrite(r)
      BY <3>1, <3>2, Outcomes DEF AnsweredNow
    <3> QED
      BY <3>4, <3>5 DEF ReadersInv, IsWrite
  <2> QED
    BY <1>2, <2>1, <2>2
<1>9. CASE pop \/ dram_takes \/ dram_returns \/ start_cycle \/ rop_ready \/ rop_waits
           \/ UNCHANGED vars
  BY <1>2, <1>9 DEF pop, dram_takes, dram_returns, start_cycle, rop_ready, rop_waits, vars
<1> QED
  BY <1>3, <1>4, <1>5, <1>6, <1>7, <1>8, <1>9 DEF Next, subpartition_cycle

\* Lines that are left alone stay in order while writebacks only move.
LEMMA LinesAlone ==
    ASSUME LinesInOrder,
           UNCHANGED <<m_tag, m_sector, m_extra_mf_fields, unwritten>>,
           ToSet(m_miss_queue) \cup ToSet(m_L2_dram_queue)
              \subseteq ToSet(m_miss_queue') \cup ToSet(m_L2_dram_queue')
    PROVE  LinesInOrder'
<1>1. LinesTyped' /\ LinesSound'
  BY DEF LinesInOrder, LinesTyped, LinesSound, Sound
<1>2. FillsReserved'
  BY DEF LinesInOrder, FillsReserved, waiting_for_fill
<1>3. \A k : Dirty(k) => Dirty(k)'
  BY DEF Dirty, Cached, WayOf
<1>4. DirtyDataIsKept'
  BY <1>3 DEF LinesInOrder, DirtyDataIsKept, Carries
<1> QED
  BY <1>1, <1>2, <1>4 DEF LinesInOrder

\* Memory takes a writeback: what it carried is written, unless it is dirty again.
LEMMA DramTakesData ==
    ASSUME SubInv, LinesInOrder, dram_takes
    PROVE  LinesInOrder'
<1> DEFINE y == Head(m_L2_dram_queue)
<1>1. /\ m_L2_dram_queue # <<>>
      /\ m_L2_dram_queue' = Tail(m_L2_dram_queue)
      /\ unwritten' = {k \in unwritten : Carries(y, k) => Dirty(k)}
      /\ UNCHANGED <<m_tag, m_sector, m_extra_mf_fields, m_miss_queue>>
  BY DEF dram_takes, cacheVars
<1>2. ToSet(m_L2_dram_queue) = ToSet(m_L2_dram_queue') \cup {y}
  BY <1>1, TailQueue DEF SubInv, QueueTypes
<1> HIDE DEF y
<1>3. LinesTyped' /\ LinesSound' /\ FillsReserved'
  <2>1. LinesTyped' /\ LinesSound'
    BY <1>1 DEF LinesInOrder, LinesTyped, LinesSound, Sound
  <2> QED
    BY <1>1, <2>1 DEF LinesInOrder, FillsReserved, waiting_for_fill
<1>4. \A k : Dirty(k) => Dirty(k)'
  BY <1>1 DEF Dirty, Cached, WayOf
<1>5. ASSUME NEW k \in unwritten'
      PROVE  \/ Dirty(k)'
             \/ \E x \in ToSet(m_miss_queue') \cup ToSet(m_L2_dram_queue') : Carries(x, k)
  <2>1. k \in unwritten /\ (Carries(y, k) => Dirty(k))
    BY <1>1
  <2>2. CASE Dirty(k)
    BY <1>4, <2>2
  <2>3. CASE ~Dirty(k)
    <3>1. PICK x \in ToSet(m_miss_queue) \cup ToSet(m_L2_dram_queue) : Carries(x, k)
      BY <2>1, <2>3 DEF LinesInOrder, DirtyDataIsKept
    <3>2. x # y
      BY <2>1, <2>3, <3>1
    <3> QED
      BY <1>1, <1>2, <3>1, <3>2
  <2> QED
    BY <2>2, <2>3
<1>6. DirtyDataIsKept'
  BY <1>5 DEF DirtyDataIsKept, Carries
<1> QED
  BY <1>1, <1>3, <1>6 DEF LinesInOrder

\* A miss that moves to the queue to memory is in one of the two queues.
LEMMA MissData ==
    ASSUME SubInv, LinesInOrder, miss_to_dram
    PROVE  LinesInOrder'
<1> DEFINE taken == m_miss_queue # <<>> /\ Room(m_L2_dram_queue, L2DramSize)
           y == Head(m_miss_queue)
<1>1. /\ m_miss_queue' = IF taken THEN Tail(m_miss_queue) ELSE m_miss_queue
      /\ m_L2_dram_queue' = IF taken THEN Append(m_L2_dram_queue, y) ELSE m_L2_dram_queue
      /\ UNCHANGED <<m_tag, m_sector, m_extra_mf_fields, unwritten>>
  BY DEF miss_to_dram, cache_cycle, memVars
<1>2. ASSUME taken
      PROVE  /\ ToSet(m_miss_queue) = ToSet(m_miss_queue') \cup {y}
             /\ ToSet(m_L2_dram_queue') = ToSet(m_L2_dram_queue) \cup {y}
  <2>1. m_miss_queue # <<>> /\ m_miss_queue \in Seq(Req \cup Writebacks)
    BY <1>2 DEF SubInv, CacheInv, CacheTypes
  <2>2. /\ y \in Req \cup Writebacks
        /\ ToSet(m_miss_queue) = ToSet(Tail(m_miss_queue)) \cup {y}
    BY <2>1, TailQueue
  <2>3. m_miss_queue' = Tail(m_miss_queue) /\ m_L2_dram_queue' = Append(m_L2_dram_queue, y)
    BY <1>1, <1>2
  <2> HIDE DEF y
  <2>4. ToSet(Append(m_L2_dram_queue, y)) = ToSet(m_L2_dram_queue) \cup {y}
    <3>1. m_L2_dram_queue \in Seq(Req \cup Writebacks)
      BY DEF SubInv, QueueTypes
    <3> QED
      BY <2>2, <3>1, AppendQueue
  <2> QED
    BY <2>2, <2>3, <2>4
<1> HIDE DEF taken, y
<1>3. ToSet(m_miss_queue) \cup ToSet(m_L2_dram_queue)
         \subseteq ToSet(m_miss_queue') \cup ToSet(m_L2_dram_queue')
  BY <1>1, <1>2
<1> QED
  BY <1>1, <1>3, LinesAlone

\* A read that waits for a fill is tracked, and its way is one of the set's.
LEMMA FetchTracked ==
    ASSUME SubInv, NEW r \in Req, waiting_for_fill(r)
    PROVE  /\ r \in m_request_tracker
           /\ m_extra_mf_fields[r] \in Way
           /\ Waiting(r)
<1>1. Waiting(r)
  BY FetchWaits DEF SubInv
<1>2. m_extra_mf_fields[r] \in 0 .. Ways /\ m_extra_mf_fields[r] # 0 /\ Ways \in Nat
  BY SectorCacheAssumption DEF SubInv, CacheInv, CacheTypes, waiting_for_fill
<1>3. m_extra_mf_fields[r] \in Way
  BY <1>2 DEF Way
<1> QED
  BY <1>1, <1>3 DEF SubInv, AboveInv

\* A fill completes its sector, and keeps it dirty if it was or if an atomic
\* waits for it.
LEMMA FillData ==
    ASSUME SubInv, LinesInOrder, fill_from_dram
    PROVE  LinesInOrder'
<1> DEFINE r == Head(m_dram_L2_queue)
           k == Key(r)
           w == m_extra_mf_fields[r]
<1>1. UNCHANGED m_L2_dram_queue
  BY DEF fill_from_dram
<1>2. CASE UNCHANGED <<cacheVars, unwritten>>
  BY <1>1, <1>2, LinesAlone DEF cacheVars
<1>3. CASE /\ m_dram_L2_queue # <<>> /\ fill(r)
           /\ unwritten' = unwritten \cup (IF HasAtomic(k) THEN {k} ELSE {})
  <2>1. r \in Req /\ r \in ToSet(m_dram_L2_queue)
    BY <1>3, Leaves DEF SubInv, QueueTypes, QueuesOnce
  <2>2. waiting_for_fill(r)
    BY <2>1 DEF SubInv, BelowInv
  <2>3. /\ m_sector' = [m_sector EXCEPT ![w][k[2]] =
              Filled(@, HasAtomic(k), m_tag[w] = k[1])]
        /\ m_extra_mf_fields' = [m_extra_mf_fields EXCEPT ![r] = 0]
        /\ UNCHANGED <<m_tag, m_miss_queue>>
    BY <1>3 DEF fill
  <2>4. /\ k \in Keys /\ k[1] \in Block /\ k[2] \in Sector
        /\ k = <<k[1], k[2]>> /\ k = <<BlockOf[r[1]], r[2]>>
    BY <2>1, RequestParts DEF Key
  <2>5. w \in Way
    BY <2>1, <2>2, FetchTracked
  <2>6. m_tag[w] = k[1] /\ m_sector[w][k[2]].status = "RESERVED"
    BY <2>1, <2>2, <2>4 DEF LinesInOrder, FillsReserved
  <2>7. /\ unwritten' = unwritten \cup (IF HasAtomic(k) THEN {k} ELSE {})
        /\ m_extra_mf_fields \in [Req -> 0 .. Ways]
    BY <1>3 DEF SubInv, CacheInv, CacheTypes
  <2>8. /\ LinesTyped /\ LinesSound
        /\ m_sector \in [Way -> [Sector -> SectorState]]
    BY DEF LinesInOrder, LinesTyped
  <2>9. \A x \in Req : waiting_for_fill(x) /\ Key(x) = k => x = r
    BY <2>1, <2>2 DEF SubInv, CacheInv, FetchIsFirst
  <2> DEFINE s == m_sector[w][k[2]]
             f == Filled(s, HasAtomic(k), TRUE)
             l == [m_sector[w] EXCEPT ![k[2]] = f]
  <2>10. s \in SectorState
    BY <2>4, <2>5, <2>8
  <2>11. /\ f \in SectorState /\ f.complete = TRUE
         /\ f.status = IF s.modified_on_fill \/ HasAtomic(k) THEN "MODIFIED" ELSE "VALID"
    <3> HIDE DEF s
    <3> QED
      BY <2>10 DEF SectorState, Filled
  <2>12. Sound(f) /\ (DirtyState(s) \/ HasAtomic(k) => DirtyState(f))
    <3>1. s.status = "RESERVED"
      BY <2>6
    <3> HIDE DEF s, f
    <3> QED
      BY <2>11, <3>1 DEF Sound, DirtyState
  <2>13. NewSector(w, k[2], l)
    <3>1. (m_tag[w] = k[1]) = TRUE
      BY <2>6
    <3>2. m_sector' = [m_sector EXCEPT ![w] = l]
      BY <2>3, <3>1
    <3> HIDE DEF f, k, w
    <3>3. l \in [Sector -> SectorState] /\ l[k[2]] = f
      BY <2>4, <2>5, <2>8, <2>11
    <3>4. \A x \in Sector : x # k[2] => l[x] = m_sector[w][x]
      BY <2>5, <2>8
    <3>5. Sound(l[k[2]])
      BY <2>12, <3>3
    <3> HIDE DEF l
    <3> QED
      BY <2>3, <2>4, <2>5, <2>6, <3>2, <3>3, <3>4, <3>5 DEF NewSector
  <2>14. l[k[2]] = f
    <3> HIDE DEF f, k, w
    <3> QED
      BY <2>4, <2>5, <2>8
  <2> HIDE DEF l, f, k, w, r
  <2>15. LinesTyped' /\ LinesSound'
    BY <2>8, <2>13, SectorChange
  <2>16. \A j \in Keys : Dirty(j)' <=> IF j = <<m_tag[w], k[2]>> THEN DirtyState(l[k[2]])
                                       ELSE Dirty(j)
    BY <2>8, <2>13, SectorChange
  <2>17. \A v \in Way, x \in Sector :
            v # w \/ x # k[2] => m_sector'[v][x] = m_sector[v][x]
    BY <2>8, <2>13, SectorChange
  <2>18. \A j \in Keys : Dirty(j) => Dirty(j)'
    <3>1. Dirty(k) => DirtyState(s)
      <4>1. WayOf(k[1]) = w
        BY <2>4, <2>5, <2>6, <2>8, DirtyIn
      <4> QED
        BY <4>1 DEF Dirty, DirtyState
    <3>2. k = <<m_tag[w], k[2]>>
      BY <2>4, <2>6
    <3> HIDE DEF s
    <3> QED
      BY <2>12, <2>14, <2>16, <3>1, <3>2
  <2>19. \A j \in Keys : j = k /\ HasAtomic(k) => Dirty(j)'
    <3>1. k = <<m_tag[w], k[2]>>
      BY <2>4, <2>6
    <3> HIDE DEF s
    <3> QED
      BY <2>4, <2>12, <2>14, <2>16, <3>1
  <2>20. unwritten' \subseteq Keys
    BY <2>4, <2>7 DEF LinesInOrder
  <2>21. \A j \in unwritten' : Dirty(j)' \/ j \in unwritten
    BY <2>4, <2>7, <2>19
  <2>22. DirtyDataIsKept'
    <3> SUFFICES ASSUME NEW j \in unwritten', ~Dirty(j)'
                 PROVE  \E x \in ToSet(m_miss_queue') \cup ToSet(m_L2_dram_queue') :
                           Carries(x, j)
      BY DEF DirtyDataIsKept, Carries
    <3>1. j \in unwritten /\ ~Dirty(j)
      BY <2>18, <2>20, <2>21
    <3> QED
      BY <1>1, <2>3, <3>1 DEF LinesInOrder, DirtyDataIsKept
  <2>23. FillsReserved'
    <3> SUFFICES ASSUME NEW x \in Req, waiting_for_fill(x)'
                 PROVE  /\ m_tag'[m_extra_mf_fields'[x]] = BlockOf[x[1]]
                        /\ m_sector'[m_extra_mf_fields'[x]][x[2]].status = "RESERVED"
      BY DEF FillsReserved
    <3>1. x # r /\ waiting_for_fill(x) /\ m_extra_mf_fields'[x] = m_extra_mf_fields[x]
      BY <2>1, <2>3, <2>7 DEF waiting_for_fill
    <3>2. /\ m_tag[m_extra_mf_fields[x]] = BlockOf[x[1]]
          /\ m_sector[m_extra_mf_fields[x]][x[2]].status = "RESERVED"
      BY <3>1 DEF LinesInOrder, FillsReserved
    <3>3. m_extra_mf_fields[x] \in Way /\ x[2] \in Sector
      BY <3>1, FetchTracked, RequestParts
    <3>4. Key(x) # k
      BY <2>9, <3>1
    <3>5. m_extra_mf_fields[x] # w \/ x[2] # k[2]
      BY <2>4, <2>6, <3>2, <3>4 DEF Key
    <3>6. m_sector'[m_extra_mf_fields[x]][x[2]] = m_sector[m_extra_mf_fields[x]][x[2]]
      BY <2>17, <3>3, <3>5
    <3> QED
      BY <2>3, <3>1, <3>2, <3>6
  <2> QED
    BY <2>15, <2>20, <2>22, <2>23 DEF LinesInOrder
<1> QED
  BY <1>2, <1>3 DEF fill_from_dram

\* A write, or an atomic, that hits leaves a modified sector with all its bytes.
LEMMA HitData ==
    ASSUME SubInv, LinesInOrder, NEW r \in Req, access_outcome(r) = "HIT", hit(r),
           UNCHANGED m_L2_dram_queue,
           unwritten' = IF Dirties(r) THEN unwritten \cup {Key(r)} ELSE unwritten
    PROVE  LinesInOrder'
<1> DEFINE k == Key(r)
           w == WayOf(k[1])
           s == m_sector[w][k[2]]
           l == [m_sector[w] EXCEPT ![k[2]].status = "MODIFIED"]
<1>1. /\ k \in Keys /\ k[1] \in Block /\ k[2] \in Sector
      /\ k = <<k[1], k[2]>> /\ k = <<BlockOf[r[1]], r[2]>>
  BY RequestParts DEF Key
<1>2. probe(k) = "HIT"
  BY DEF access_outcome
<1>3. /\ LinesTyped /\ LinesSound
      /\ m_sector \in [Way -> [Sector -> SectorState]]
  BY DEF LinesInOrder, LinesTyped
<1>4. w \in Way /\ m_tag[w] = k[1] /\ s.complete /\ s.status # "RESERVED"
  BY <1>1, <1>2, <1>3, HitSector
<1>5. UNCHANGED <<m_tag, m_extra_mf_fields, m_miss_queue>>
  BY DEF hit
<1>6. CASE ~(IsWrite(r) \/ r[1] \in Atomic)
  <2>1. m_sector' = m_sector /\ unwritten' = unwritten
    BY <1>6 DEF hit, Dirties
  <2> QED
    BY <1>5, <2>1, LinesAlone
<1>7. CASE IsWrite(r) \/ r[1] \in Atomic
  <2>1. m_sector' = [m_sector EXCEPT ![w][k[2]].status = "MODIFIED"]
    BY <1>7 DEF hit
  <2>2. m_sector' = [m_sector EXCEPT ![w] = l]
    BY <2>1
  <2>3. unwritten' = unwritten \cup {k}
    BY <1>7 DEF Dirties
  <2>4. s \in SectorState
    BY <1>1, <1>3, <1>4
  <2> HIDE DEF k, w
  <2>5. /\ l \in [Sector -> SectorState]
        /\ l[k[2]] = [s EXCEPT !.status = "MODIFIED"]
        /\ \A x \in Sector : x # k[2] => l[x] = m_sector[w][x]
    <3>1. [s EXCEPT !.status = "MODIFIED"] \in SectorState
      <4> HIDE DEF s
      <4> QED
        BY <2>4 DEF SectorState
    <3> QED
      BY <1>1, <1>3, <1>4, <3>1
  <2>6. l[k[2]].status = "MODIFIED" /\ l[k[2]].complete
    <3> HIDE DEF s, l
    <3> QED
      BY <1>4, <2>4, <2>5 DEF SectorState
  <2> HIDE DEF l, s
  <2>7. Sound(l[k[2]]) /\ DirtyState(l[k[2]])
    BY <2>6 DEF Sound, DirtyState
  <2>8. NewSector(w, k[2], l)
    BY <1>1, <1>4, <1>5, <2>2, <2>5, <2>7 DEF NewSector
  <2>9. LinesTyped' /\ LinesSound'
    BY <1>3, <2>8, SectorChange
  <2>10. \A j \in Keys : Dirty(j)' <=> IF j = <<m_tag[w], k[2]>> THEN DirtyState(l[k[2]])
                                       ELSE Dirty(j)
    BY <1>3, <2>8, SectorChange
  <2>11. \A v \in Way, x \in Sector :
            v # w \/ x # k[2] => m_sector'[v][x] = m_sector[v][x]
    BY <1>3, <2>8, SectorChange
  <2>12. \A j \in Keys : j = k \/ Dirty(j) => Dirty(j)'
    BY <1>1, <1>4, <2>7, <2>10
  <2>13. unwritten' \subseteq Keys
    BY <1>1, <2>3 DEF LinesInOrder
  <2>14. DirtyDataIsKept'
    <3> SUFFICES ASSUME NEW j \in unwritten', ~Dirty(j)'
                 PROVE  \E x \in ToSet(m_miss_queue') \cup ToSet(m_L2_dram_queue') :
                           Carries(x, j)
      BY DEF DirtyDataIsKept, Carries
    <3>1. j \in unwritten /\ ~Dirty(j)
      BY <2>3, <2>12, <2>13
    <3> QED
      BY <1>5, <3>1 DEF LinesInOrder, DirtyDataIsKept
  <2>15. FillsReserved'
    <3> SUFFICES ASSUME NEW x \in Req, waiting_for_fill(x)
                 PROVE  m_sector'[m_extra_mf_fields[x]][x[2]]
                           = m_sector[m_extra_mf_fields[x]][x[2]]
      BY <1>5 DEF LinesInOrder, FillsReserved, waiting_for_fill
    <3>1. m_sector[m_extra_mf_fields[x]][x[2]].status = "RESERVED"
      BY DEF LinesInOrder, FillsReserved
    <3>2. m_extra_mf_fields[x] \in Way /\ x[2] \in Sector
      BY FetchTracked, RequestParts
    <3>3. m_extra_mf_fields[x] # w \/ x[2] # k[2]
      BY <1>4, <3>1 DEF s
    <3> QED
      BY <2>11, <3>2, <3>3
  <2> QED
    BY <2>9, <2>13, <2>14, <2>15 DEF LinesInOrder
<1> QED
  BY <1>6, <1>7

\* An access that does not hit loses no dirty data: what it evicts is in the miss
\* queue.
LEMMA MissKeepsData ==
    ASSUME LinesInOrder, NEW k, NEW w, NEW l, NewState(k, w, l),
           unwritten' \subseteq unwritten \cup {k},
           k \in unwritten' /\ ~DirtyState(l[k[2]]) => k \in unwritten /\ ~Dirty(k),
           ToSet(m_miss_queue) \cup ToSet(WrittenBack(k, w)) \subseteq ToSet(m_miss_queue'),
           UNCHANGED m_L2_dram_queue
    PROVE  LinesTyped' /\ LinesSound' /\ unwritten' \subseteq Keys /\ DirtyDataIsKept'
<1>1. k \in Keys
  BY DEF NewState
<1>2. LinesTyped /\ LinesSound
  BY DEF LinesInOrder
<1>3. LinesTyped' /\ LinesSound'
  BY <1>2, LineOperation
<1>4. \A j \in Keys : j = k => (Dirty(j)' <=> DirtyState(l[k[2]]))
  BY <1>1, <1>2, LineOperation
<1>5. \A j \in Keys : j # k /\ Dirty(j) /\ ~Dirty(j)' =>
                         \E x \in ToSet(WrittenBack(k, w)) : Carries(x, j)
  BY <1>2, LineOperation
<1>6. unwritten' \subseteq Keys
  BY <1>1 DEF LinesInOrder
<1>7. DirtyDataIsKept'
  <2> SUFFICES ASSUME NEW j \in unwritten', ~Dirty(j)'
               PROVE  \E x \in ToSet(m_miss_queue') \cup ToSet(m_L2_dram_queue') :
                         Carries(x, j)
    BY DEF DirtyDataIsKept, Carries
  <2>1. j \in Keys
    BY <1>6
  <2>2. j \in unwritten /\ (j = k => ~Dirty(j))
    BY <1>4, <2>1
  <2>3. CASE ~Dirty(j)
    <3>1. PICK x \in ToSet(m_miss_queue) \cup ToSet(m_L2_dram_queue) : Carries(x, j)
      BY <2>2, <2>3 DEF LinesInOrder, DirtyDataIsKept
    <3> QED
      BY <3>1
  <2>4. CASE Dirty(j)
    <3>1. PICK x \in ToSet(WrittenBack(k, w)) : Carries(x, j)
      BY <1>5, <2>1, <2>2, <2>4
    <3> QED
      BY <3>1
  <2> QED
    BY <2>3, <2>4
<1> QED
  BY <1>3, <1>6, <1>7

\* The sector of another read that waits for its fill stays reserved.
LEMMA OtherFillReserved ==
    ASSUME SubInv, LinesInOrder, NEW k, NEW w, NEW l, NewState(k, w, l),
           NEW x \in Req, waiting_for_fill(x), Key(x) # k
    PROVE  /\ m_tag'[m_extra_mf_fields[x]] = BlockOf[x[1]]
           /\ m_sector'[m_extra_mf_fields[x]][x[2]].status = "RESERVED"
<1> DEFINE v == m_extra_mf_fields[x]
<1>1. v \in Way /\ x[2] \in Sector
  BY FetchTracked, RequestParts
<1>2. m_tag[v] = BlockOf[x[1]] /\ m_sector[v][x[2]].status = "RESERVED"
  BY DEF LinesInOrder, FillsReserved
<1>3. <<m_tag[v], x[2]>> # k
  BY <1>2 DEF Key
<1> HIDE DEF v
<1>4. LinesTyped /\ LinesSound
  BY DEF LinesInOrder
<1>5. \A u \in Way, y \in Sector :
         m_sector[u][y].status = "RESERVED" /\ <<m_tag[u], y>> # k =>
            m_tag'[u] = m_tag[u] /\ m_sector'[u][y] = m_sector[u][y]
  BY <1>4, LineOperation
<1>6. m_tag'[v] = m_tag[v] /\ m_sector'[v][x[2]] = m_sector[v][x[2]]
  BY <1>1, <1>2, <1>3, <1>5
<1> QED
  BY <1>2, <1>6 DEF v

\* A read that misses reserves its sector, or joins the read that has.
LEMMA ReadMissData ==
    ASSUME SubInv, LinesInOrder, NEW r \in Req, access_outcome(r) = "MISS",
           rd_miss_base(r), UNCHANGED <<m_L2_dram_queue, unwritten>>
    PROVE  LinesInOrder'
<1> DEFINE k == Key(r)
           sent == k \notin Entries
<1>1. /\ k \in Keys /\ k[1] \in Block /\ k[2] \in Sector
      /\ k = <<k[1], k[2]>> /\ k = <<BlockOf[r[1]], r[2]>>
  BY RequestParts DEF Key
<1>2. probe(k) # "HIT"
  BY DEF access_outcome
<1>3. PICK w \in WaysFor(k) :
          /\ m_tag' = [m_tag EXCEPT ![w] = k[1]]
          /\ m_sector' = [m_sector EXCEPT ![w] = Accessed(k, w)]
          /\ m_extra_mf_fields' = IF sent THEN [m_extra_mf_fields EXCEPT ![r] = w]
                                  ELSE m_extra_mf_fields
          /\ m_miss_queue' = m_miss_queue \o (IF sent THEN <<r>> ELSE <<>>)
                                 \o WrittenBack(k, w)
  BY DEF rd_miss_base
<1> DEFINE a == Accessed(k, w)
<1>4. LinesTyped /\ LinesSound /\ m_extra_mf_fields \in [Req -> 0 .. Ways]
  BY DEF LinesInOrder, SubInv, CacheInv, CacheTypes
<1>5. /\ w \in Way /\ a \in [Sector -> SectorState]
      /\ Cached(k[1]) => m_tag[w] = k[1] /\ w = WayOf(k[1])
  BY <1>1, <1>4, AccessedLine
<1>6. /\ a[k[2]].status = "RESERVED"
      /\ Cached(k[1]) /\ DirtyState(m_sector[w][k[2]]) => DirtyState(a[k[2]])
  BY <1>1, <1>2, <1>4, ReservedSector
<1>7. NewState(k, w, a)
  <2>1. Sound(a[k[2]])
    BY <1>6 DEF Sound
  <2> QED
    BY <1>1, <1>3, <1>5, <2>1 DEF NewState
<1>8. ToSet(m_miss_queue) \cup ToSet(WrittenBack(k, w)) \subseteq ToSet(m_miss_queue')
  <2> DEFINE m == m_miss_queue
             q == IF sent THEN <<r>> ELSE <<>>
             e == WrittenBack(k, w)
  <2>1. m \in Seq(Req \cup Writebacks) /\ e \in Seq(Req \cup Writebacks)
    BY <1>5, EvictedLine DEF SubInv, CacheInv, CacheTypes
  <2>2. q \in Seq(Req \cup Writebacks)
    BY EmptyQueue, SingleQueue
  <2>3. m_miss_queue' = m \o q \o e
    BY <1>3
  <2> HIDE DEF m, q, e
  <2>4. m \o q \in Seq(Req \cup Writebacks) /\ ToSet(m \o q) = ToSet(m) \cup ToSet(q)
    BY <2>1, <2>2, ConcatQueue
  <2> DEFINE n == m \o q
  <2>5. n \in Seq(Req \cup Writebacks) /\ ToSet(m) \subseteq ToSet(n)
    BY <2>4
  <2>6. m_miss_queue' = n \o e
    BY <2>3
  <2> HIDE DEF n
  <2>7. ToSet(n \o e) = ToSet(n) \cup ToSet(e)
    BY <2>1, <2>5, ConcatQueue
  <2> QED
    BY <2>5, <2>6, <2>7 DEF m, e
<1> HIDE DEF a, sent
<1>9. Dirty(k) => DirtyState(a[k[2]])
  <2>1. Dirty(k) => Cached(k[1]) /\ DirtyState(m_sector[w][k[2]])
    BY <1>4, <1>7, LineOperation
  <2> QED
    BY <1>6, <2>1
<1>10. LinesTyped' /\ LinesSound' /\ unwritten' \subseteq Keys /\ DirtyDataIsKept'
  BY <1>7, <1>8, <1>9, MissKeepsData
<1>11. m_tag'[w] = k[1] /\ m_sector'[w][k[2]].status = "RESERVED"
  <2>1. m_tag'[w] = k[1] /\ m_sector'[w][k[2]] = a[k[2]]
    BY <1>4, <1>7, LineOperation
  <2> QED
    BY <1>6, <2>1
<1>12. FillsReserved'
  <2> SUFFICES ASSUME NEW x \in Req, waiting_for_fill(x)'
               PROVE  /\ m_tag'[m_extra_mf_fields'[x]] = BlockOf[x[1]]
                      /\ m_sector'[m_extra_mf_fields'[x]][x[2]].status = "RESERVED"
    BY DEF FillsReserved
  <2>1. \/ x = r /\ m_extra_mf_fields'[x] = w
        \/ waiting_for_fill(x) /\ m_extra_mf_fields'[x] = m_extra_mf_fields[x]
    BY <1>3, <1>4 DEF waiting_for_fill
  <2>2. CASE x = r /\ m_extra_mf_fields'[x] = w
    BY <1>1, <1>11, <2>2
  <2>3. CASE /\ waiting_for_fill(x) /\ m_extra_mf_fields'[x] = m_extra_mf_fields[x]
             /\ Key(x) # k
    BY <1>7, <2>3, OtherFillReserved
  <2>4. CASE /\ waiting_for_fill(x) /\ m_extra_mf_fields'[x] = m_extra_mf_fields[x]
             /\ Key(x) = k
    <3>1. m_extra_mf_fields[x] \in Way /\ BlockOf[x[1]] = k[1] /\ x[2] = k[2]
      BY <1>1, <2>4, FetchTracked DEF Key
    <3>2. m_tag[m_extra_mf_fields[x]] = k[1]
      BY <2>4, <3>1 DEF LinesInOrder, FillsReserved
    <3>3. m_extra_mf_fields[x] = w
      BY <1>1, <1>4, <1>5, <3>1, <3>2 DEF Cached, LinesTyped
    <3> QED
      BY <1>11, <2>4, <3>1, <3>3
  <2> QED
    BY <2>1, <2>2, <2>3, <2>4
<1> QED
  BY <1>10, <1>12 DEF LinesInOrder

\* A lazy write leaves a modified sector, which is readable only if the write
\* had all its bytes; no fill is on its way to that sector.
LEMMA WriteMissData ==
    ASSUME RaceFree, SubInv, OrderInv, ReadersInv, LinesInOrder,
           NEW r \in m_request_tracker, IsWrite(r),
           wr_miss_wa_lazy_fetch_on_read(r), UNCHANGED m_L2_dram_queue,
           unwritten' = unwritten \cup {Key(r)}
    PROVE  LinesInOrder'
<1> DEFINE k == Key(r)
           hr == probe(k) = "HIT_RESERVED"
<1>1. r \in Req
  BY DEF SubInv, QueueTypes
<1>2. k \in Keys /\ k[2] \in Sector
  BY <1>1, RequestParts
<1>3. PICK w \in WaysFor(k) :
          /\ m_tag' = [m_tag EXCEPT ![w] = k[1]]
          /\ m_sector' = [m_sector EXCEPT ![w] =
                [Accessed(k, w) EXCEPT ![k[2]] = Overwritten(@, r, hr)]]
          /\ m_miss_queue' = m_miss_queue \o WrittenBack(k, w)
  BY DEF wr_miss_wa_lazy_fetch_on_read
<1>4. m_extra_mf_fields' = m_extra_mf_fields
  BY DEF wr_miss_wa_lazy_fetch_on_read
<1> DEFINE a == Accessed(k, w)
           o == Overwritten(a[k[2]], r, hr)
           l == [a EXCEPT ![k[2]] = o]
<1>5. LinesTyped /\ LinesSound
  BY DEF LinesInOrder
<1>6. w \in Way /\ a \in [Sector -> SectorState]
  BY <1>2, <1>5, AccessedLine
<1>7. a[k[2]] \in SectorState /\ hr \in BOOLEAN
  BY <1>2, <1>6
<1>8. /\ o \in SectorState /\ o.status = "MODIFIED"
      /\ o.readable => o.complete
  <2> DEFINE s == a[k[2]]
  <2>1. s \in SectorState /\ WholeMask(r) \in BOOLEAN /\ WroteAll(r) \in BOOLEAN
    BY <1>7 DEF WholeMask, WroteAll
  <2>2. WholeMask(r) => WroteAll(r)
    BY DEF WholeMask, WroteAll
  <2>3. o = Overwritten(s, r, hr)
    OBVIOUS
  <2> HIDE DEF s, hr, o
  <2>4. /\ o.status = "MODIFIED" /\ o.readable = WholeMask(r)
        /\ o.complete = (s.complete \/ WroteAll(r))
    BY <2>1, <2>3 DEF Overwritten, SectorState
  <2>5. o \in SectorState
    BY <1>7, <2>1, <2>3 DEF Overwritten, SectorState
  <2> QED
    BY <2>1, <2>2, <2>4, <2>5
<1>9. m_sector' = [m_sector EXCEPT ![w] = l]
  BY <1>3
<1> HIDE DEF a, o, k
<1>10. /\ l \in [Sector -> SectorState] /\ l[k[2]] = o
       /\ \A x \in Sector : x # k[2] => l[x] = a[x]
  BY <1>2, <1>6, <1>8
<1> HIDE DEF l
<1>11. Sound(l[k[2]]) /\ DirtyState(l[k[2]])
  BY <1>8, <1>10 DEF Sound, DirtyState
<1>12. NewState(k, w, l)
  BY <1>2, <1>3, <1>9, <1>10, <1>11 DEF NewState, a
<1>13. ToSet(m_miss_queue) \cup ToSet(WrittenBack(k, w)) \subseteq ToSet(m_miss_queue')
  <2> DEFINE m == m_miss_queue
             e == WrittenBack(k, w)
  <2>1. m \in Seq(Req \cup Writebacks) /\ e \in Seq(Req \cup Writebacks)
    BY <1>6, EvictedLine DEF SubInv, CacheInv, CacheTypes
  <2>2. m_miss_queue' = m \o e
    BY <1>3
  <2> HIDE DEF m, e
  <2>3. ToSet(m \o e) = ToSet(m) \cup ToSet(e)
    BY <2>1, ConcatQueue
  <2> QED
    BY <2>2, <2>3 DEF m, e
<1>14. unwritten' = unwritten \cup {k}
  BY DEF k
<1>15. LinesTyped' /\ LinesSound' /\ unwritten' \subseteq Keys /\ DirtyDataIsKept'
  BY <1>11, <1>12, <1>13, <1>14, MissKeepsData
<1>16. FillsReserved'
  <2> SUFFICES ASSUME NEW x \in Req, waiting_for_fill(x)
               PROVE  /\ m_tag'[m_extra_mf_fields[x]] = BlockOf[x[1]]
                      /\ m_sector'[m_extra_mf_fields[x]][x[2]].status = "RESERVED"
    BY <1>4 DEF FillsReserved, waiting_for_fill
  <2>1. x \in m_request_tracker /\ Waiting(x)
    BY FetchTracked
  <2>2. x # r
    BY <2>1 DEF ReadersInv
  <2>3. Key(x) # k
    BY <2>1, <2>2, WritesApart DEF k
  <2> QED
    BY <1>12, <2>3, OtherFillReserved
<1> QED
  BY <1>15, <1>16 DEF LinesInOrder

\* A copy completes the sector it touches; no fill is on its way there.
LEMMA CopyData ==
    ASSUME RaceFree, SubInv, OrderInv, LinesInOrder, NEW c \in Packet, copy(c)
    PROVE  LinesInOrder'
<1> DEFINE k == <<BlockOf[c], First[c]>>
<1>1. MayStart(c) /\ c \in Copies /\ UNCHANGED m_L2_dram_queue
  BY DEF copy
<1>2. CASE UNCHANGED <<cacheVars, unwritten>>
  BY <1>1, <1>2, LinesAlone DEF cacheVars
<1>3. CASE /\ force_tag_access(c)
           /\ unwritten' = {j \in unwritten : Dirty(j)' \/ ~Dirty(j)}
  <2>1. k \in Keys /\ k[1] = BlockOf[c] /\ k[2] \in Sector
    BY SectorCacheAssumption DEF Keys
  <2>2. PICK w \in WaysFor(k) :
          /\ m_tag' = [m_tag EXCEPT ![w] = k[1]]
          /\ m_sector' = [m_sector EXCEPT ![w] =
                [Accessed(k, w) EXCEPT ![k[2]] = Filled(@, FALSE, TRUE)]]
    BY <1>3 DEF force_tag_access
  <2>3. UNCHANGED <<m_extra_mf_fields, m_miss_queue>>
    BY <1>3 DEF force_tag_access
  <2>4. unwritten' = {j \in unwritten : Dirty(j)' \/ ~Dirty(j)}
    BY <1>3
  <2>5. \A x \in Req : waiting_for_fill(x) => Key(x) # k
    BY <1>1, FetchTracked, CopiesApart
  <2> HIDE DEF k
  <2> DEFINE a == Accessed(k, w)
             f == Filled(a[k[2]], FALSE, TRUE)
             l == [a EXCEPT ![k[2]] = f]
  <2>6. LinesTyped /\ LinesSound
    BY DEF LinesInOrder
  <2>7. w \in Way /\ a \in [Sector -> SectorState]
    BY <2>1, <2>6, AccessedLine
  <2>8. a[k[2]] \in SectorState
    BY <2>1, <2>7
  <2>9. f \in SectorState /\ f.complete = TRUE
    <3> DEFINE s == a[k[2]]
    <3>1. s \in SectorState /\ f = Filled(s, FALSE, TRUE)
      BY <2>8
    <3> HIDE DEF s, f
    <3> QED
      BY <3>1 DEF SectorState, Filled
  <2>10. m_sector' = [m_sector EXCEPT ![w] = l]
    BY <2>2
  <2> HIDE DEF a, f
  <2>11. /\ l \in [Sector -> SectorState] /\ l[k[2]] = f
         /\ \A x \in Sector : x # k[2] => l[x] = a[x]
    BY <2>1, <2>7, <2>9
  <2> HIDE DEF l
  <2>12. Sound(l[k[2]])
    BY <2>9, <2>11 DEF Sound
  <2>13. NewState(k, w, l)
    BY <2>1, <2>2, <2>10, <2>11, <2>12 DEF NewState, a
  <2>14. LinesTyped' /\ LinesSound'
    BY <2>6, <2>13, LineOperation
  <2>15. unwritten' \subseteq Keys
    BY <2>4 DEF LinesInOrder
  <2>16. DirtyDataIsKept'
    <3> SUFFICES ASSUME NEW j \in unwritten', ~Dirty(j)'
                 PROVE  \E x \in ToSet(m_miss_queue') \cup ToSet(m_L2_dram_queue') :
                           Carries(x, j)
      BY DEF DirtyDataIsKept, Carries
    <3>1. j \in unwritten /\ ~Dirty(j)
      BY <2>4
    <3> QED
      BY <1>1, <2>3, <3>1 DEF LinesInOrder, DirtyDataIsKept
  <2>17. FillsReserved'
    <3> SUFFICES ASSUME NEW x \in Req, waiting_for_fill(x)
                 PROVE  /\ m_tag'[m_extra_mf_fields[x]] = BlockOf[x[1]]
                        /\ m_sector'[m_extra_mf_fields[x]][x[2]].status = "RESERVED"
      BY <2>3 DEF FillsReserved, waiting_for_fill
    <3> QED
      BY <2>5, <2>13, OtherFillReserved
  <2> QED
    BY <2>14, <2>15, <2>16, <2>17 DEF LinesInOrder
<1> QED
  BY <1>2, <1>3 DEF copy

\* A new access keeps the lines in order, whatever its outcome.
LEMMA AccessData ==
    ASSUME RaceFree, SubInv, DataInv, access_L2
    PROVE  LinesInOrder'
<1> DEFINE r == Head(m_icnt_L2_queue)
<1>1. UNCHANGED m_L2_dram_queue
  BY DEF access_L2
<1>2. LinesInOrder /\ OrderInv /\ ReadersInv
  BY DEF DataInv
<1>3. CASE UNCHANGED <<cacheVars, unwritten>>
  BY <1>1, <1>2, <1>3, LinesAlone DEF cacheVars
<1>4. CASE /\ m_icnt_L2_queue # <<>>
           /\ access_outcome(r) # "RESERVATION_FAIL" /\ access(r)
           /\ unwritten' = IF Dirties(r) THEN unwritten \cup {Key(r)} ELSE unwritten
  <2>1. r \in Req /\ r \in ToSet(m_icnt_L2_queue)
    BY <1>4, Leaves DEF SubInv, QueueTypes, QueuesOnce
  <2>2. PICK q \in Req : q = r
    BY <2>1
  <2>3. /\ access_outcome(q) # "RESERVATION_FAIL" /\ access(q)
        /\ unwritten' = IF Dirties(q) THEN unwritten \cup {Key(q)} ELSE unwritten
    BY <1>4, <2>2
  <2>4. q \in m_request_tracker
    BY <2>1, <2>2 DEF SubInv, AboveInv
  <2> HIDE DEF r
  <2>5. CASE access_outcome(q) = "HIT"
    <3>1. hit(q)
      BY <2>5 , <2>3 DEF access
    <3> QED
      BY <1>1, <1>2, <2>3, <2>5, <3>1, HitData
  <2>6. CASE access_outcome(q) = "MISS" /\ IsWrite(q)
    <3>1. wr_miss_wa_lazy_fetch_on_read(q)
      BY <2>3, <2>6 DEF access
    <3>2. unwritten' = unwritten \cup {Key(q)}
      BY <2>3, <2>6 DEF Dirties
    <3> QED
      BY <1>1, <1>2, <2>4, <2>6, <3>1, <3>2, WriteMissData
  <2>7. CASE access_outcome(q) = "MISS" /\ ~IsWrite(q)
    <3>1. rd_miss_base(q)
      BY <2>3, <2>7 DEF access
    <3>2. UNCHANGED <<m_L2_dram_queue, unwritten>>
      BY <1>1, <2>3, <2>7 DEF Dirties
    <3> QED
      BY <1>2, <2>7, <3>1, <3>2, ReadMissData
  <2> QED
    BY <2>3, <2>5, <2>6, <2>7, Outcomes
<1> QED
  BY <1>3, <1>4 DEF access_L2

\* Every step of a program without races keeps the lines in order.
LEMMA LinesInOrderStep ==
    ASSUME RaceFree, SubInv, DataInv, [Next]_vars
    PROVE  LinesInOrder'
<1>1. LinesInOrder /\ OrderInv /\ ReadersInv
  BY DEF DataInv
<1>2. ASSUME UNCHANGED <<m_tag, m_sector, m_extra_mf_fields, m_miss_queue,
                         m_L2_dram_queue, unwritten>>
      PROVE  LinesInOrder'
  BY <1>1, <1>2, LinesAlone
<1>3. CASE \E p \in Packet : push(p)
  BY <1>2, <1>3 DEF push, cacheVars, memVars
<1>4. CASE \E c \in Packet : copy(c)
  BY <1>1, <1>4, CopyData
<1>5. CASE pop \/ dram_returns \/ start_cycle \/ rop_ready \/ rop_waits \/ UNCHANGED vars
  BY <1>2, <1>5
     DEF pop, dram_returns, start_cycle, rop_ready, rop_waits, vars, cacheVars, memVars
<1>6. CASE respond
  BY <1>2, <1>6 DEF respond, next_access, cacheVars, memVars
<1> QED
  BY <1>1, <1>3, <1>4, <1>5, <1>6, DramTakesData, FillData, MissData, AccessData
     DEF Next, subpartition_cycle

\* And the invariant.
LEMMA DataInvStep ==
    ASSUME RaceFree, SubInv, DataInv, [Next]_vars
    PROVE  DataInv'
<1>1. OrderInv /\ ReadersInv
  BY DEF DataInv
<1> QED
  BY <1>1, LinesInOrderStep, OrderStep, ReadersStep DEF DataInv

\* The empty cache of a program that has not started.
LEMMA DataInvInit == Init => DataInv
<1> SUFFICES ASSUME Init PROVE DataInv
  OBVIOUS
<1>1. /\ m_tag = [w \in Way |-> NoBlock]
      /\ m_sector = [w \in Way |-> [s \in Sector |-> FreshSector]]
      /\ mshr = [k \in Keys |-> <<>>]
      /\ m_extra_mf_fields = [r \in Req |-> 0]
      /\ pending = Packet /\ answered = {} /\ unwritten = {}
  BY DEF Init, CacheInit
<1>2. FreshSector \in SectorState /\ FreshSector.status = "INVALID"
  BY DEF FreshSector, SectorState
<1>3. LinesTyped
  BY <1>1, <1>2, SectorCacheAssumption DEF LinesTyped
<1>4. LinesSound
  BY <1>1, <1>2 DEF LinesSound, Sound
<1>5. FillsReserved
  BY <1>1 DEF FillsReserved, waiting_for_fill
<1>6. unwritten \subseteq Keys /\ DirtyDataIsKept
  BY <1>1 DEF DirtyDataIsKept
<1>7. OrderInv
  BY <1>1 DEF OrderInv
<1>8. ReadersInv
  BY <1>1, RequestParts, EmptyQueue DEF ReadersInv, Waiting
<1> QED
  BY <1>3, <1>4, <1>5, <1>6, <1>7, <1>8 DEF DataInv, LinesInOrder

\* The invariant implies the three properties of the data.
LEMMA DataInvKeeps ==
    DataInv => FillFindsReservation /\ HitIsComplete /\ DirtyDataIsKept
<1> SUFFICES ASSUME DataInv
             PROVE  FillFindsReservation /\ HitIsComplete /\ DirtyDataIsKept
  OBVIOUS
<1>1. LinesTyped /\ LinesSound /\ FillsReserved /\ DirtyDataIsKept
  BY DEF DataInv, LinesInOrder
<1>2. FillFindsReservation
  BY <1>1 DEF FillFindsReservation, FillsReserved
<1>3. HitIsComplete
  BY <1>1, HitSector DEF HitIsComplete
<1> QED
  BY <1>1, <1>2, <1>3

\* The invariant of the lines holds throughout a program without races.
THEOREM DataInvariance ==
    ASSUME RaceFree
    PROVE  Spec => []DataInv
<1>1. SubInv /\ DataInv /\ [Next]_vars => DataInv'
  BY DataInvStep
<1> QED
  BY <1>1, DataInvInit, SubInvariance, PTL DEF Spec

\* A fill finds its sector reserved, in the way that the miss remembered, if the
\* program has no races on the sector: the assertion that gpu-cache.h:299 keeps
\* as a comment could be an assertion.
THEOREM FillsFindReservation ==
    ASSUME RaceFree
    PROVE  Spec => []FillFindsReservation
BY DataInvariance, DataInvKeeps, PTL

\* A read that hits gets every byte, whatever lazy writes, refetches, evictions
\* and copies the sector has been through.
THEOREM HitsAreComplete ==
    ASSUME RaceFree
    PROVE  Spec => []HitIsComplete
BY DataInvariance, DataInvKeeps, PTL

\* Until it is in memory, written data is in a dirty sector or in a writeback.
THEOREM DirtyDataStays ==
    ASSUME RaceFree
    PROVE  Spec => []DirtyDataIsKept
BY DataInvariance, DataInvKeeps, PTL

-----------------------------------------------------------------------------
(* Copies and the lines they need *)

\* A copy that found no index went wrong because a line was lost.
CopyInv == stage \in Crashes => LineLost

\* When a copy starts, no read waits for a fill.
LEMMA NoFillAtCopy ==
    ASSUME CopiesWait, SubInv, OrderInv, ReadersInv,
           NEW c \in Copies, MayStart(c), NEW r \in Req
    PROVE  ~waiting_for_fill(r)
<1> SUFFICES ASSUME waiting_for_fill(r) PROVE FALSE
  OBVIOUS
<1>1. r \in m_request_tracker /\ Waiting(r)
  BY FetchTracked
<1>2. r[1] \in Packet \ (Writes \cup Copies)
  BY <1>1, RequestParts DEF ReadersInv, IsWrite
<1>3. r[1] \notin pending /\ c \in pending
  BY <1>1 DEF SubInv, IssuedInv, MayStart
<1>4. CASE c \in After[r[1]]
  BY <1>2, <1>3, <1>4 DEF OrderInv, Over
<1>5. CASE r[1] \in After[c]
  <2>1. r \in answered
    BY <1>5 DEF MayStart, Over
  <2> QED
    BY <1>1, <2>1 DEF OrderInv
<1> QED
  BY <1>2, <1>4, <1>5 DEF CopiesWait

\* A probe that fails has found every line reserved; without a fill on its way
\* they are reserved for nothing.
LEMMA FailedCopyLostLine ==
    ASSUME CopiesWait, SubInv, OrderInv, ReadersInv, NEW c \in Copies, MayStart(c),
           NEW k \in Keys, probe(k) = "RESERVATION_FAIL", LinesTyped
    PROVE  LineLost
<1>1. 1 \in Way
  BY SectorCacheAssumption DEF Way
<1>2. Replaceable = {}
  <2>1. CASE ~Cached(k[1])
    BY <2>1 DEF probe
  <2>2. CASE Cached(k[1])
    <3> DEFINE s == m_sector[WayOf(k[1])][k[2]]
    <3>1. probe(k) = CASE s.status = "RESERVED" -> "HIT_RESERVED"
                       [] s.status = "VALID"    -> "HIT"
                       [] s.status = "MODIFIED" -> ModifiedOutcome(s)
                       [] s.status = "INVALID"  -> "SECTOR_MISS"
      BY <2>2 DEF probe
    <3>2. WayOf(k[1]) \in Way /\ k[2] \in Sector
      BY <2>2 DEF Cached, WayOf, Keys
    <3>3. s.status \in {"INVALID", "RESERVED", "VALID", "MODIFIED"}
      BY <3>2 DEF LinesTyped, SectorState
    <3> HIDE DEF s
    <3> QED
      BY <3>1, <3>3 DEF ModifiedOutcome
  <2> QED
    BY <2>1, <2>2
<1>3. PICK s \in Sector : m_sector[1][s].status = "RESERVED"
  BY <1>1, <1>2 DEF Replaceable, is_reserved_line
<1>4. \A r \in Req : m_extra_mf_fields[r] # 1
  BY NoFillAtCopy DEF waiting_for_fill
<1> QED
  BY <1>1, <1>3, <1>4 DEF LineLost

\* Only a copy goes wrong, and nothing happens after it.
LEMMA CopyInvStep ==
    ASSUME CopiesWait, SubInv, DataInv, CopyInv, [Next]_vars
    PROVE  CopyInv'
<1>1. CASE UNCHANGED vars
  BY <1>1 DEF CopyInv, LineLost, vars, cacheVars
<1>2. CASE \E c \in Packet : copy(c)
  <2>1. PICK c \in Packet : copy(c)
    BY <1>2
  <2>2. CASE probe(<<BlockOf[c], First[c]>>) = "RESERVATION_FAIL"
    <3>1. MayStart(c) /\ c \in Copies /\ UNCHANGED <<m_sector, m_extra_mf_fields>>
      BY <2>1, <2>2 DEF copy, cacheVars
    <3>2. <<BlockOf[c], First[c]>> \in Keys
      BY SectorCacheAssumption DEF Keys
    <3>3. LineLost
      BY <2>2, <3>1, <3>2, FailedCopyLostLine DEF DataInv, LinesInOrder
    <3> QED
      BY <3>1, <3>3 DEF CopyInv, LineLost
  <2>3. CASE probe(<<BlockOf[c], First[c]>>) # "RESERVATION_FAIL"
    BY <2>1, <2>3 DEF copy, MayStart, At, CopyInv, Crashes
  <2> QED
    BY <2>2, <2>3
<1>3. CASE (\E p \in Packet : push(p)) \/ pop \/ dram_takes \/ dram_returns
  BY <1>3 DEF push, MayStart, pop, dram_takes, dram_returns, At, CopyInv, Crashes
<1>4. CASE subpartition_cycle
  BY <1>4 DEF subpartition_cycle, start_cycle, respond, fill_from_dram, miss_to_dram,
              access_L2, rop_ready, rop_waits, Go, CopyInv, Crashes
<1> QED
  BY <1>1, <1>2, <1>3, <1>4 DEF Next

\* A copy of a program that orders what it does finds a line, whatever the sizes
\* of the cache and its queues, as long as no line is reserved for a fill that
\* nobody asked for.
THEOREM CopyFailsOnlyWithoutLine ==
    ASSUME RaceFree, CopiesWait
    PROVE  Spec => [](CopyFindsLine \/ LineLost)
<1>1. Init => CopyInv
  BY DEF Init, CopyInv, Crashes
<1>2. SubInv /\ DataInv /\ CopyInv /\ [Next]_vars => CopyInv'
  BY CopyInvStep
<1>3. CopyInv => CopyFindsLine \/ LineLost
  BY DEF CopyInv, CopyFindsLine
<1> QED
  BY <1>1, <1>2, <1>3, SubInvariance, DataInvariance, PTL DEF Spec

\* An entry is being answered, or the read that it was made for waits for its
\* fill.
EntriesFetched ==
    \A y \in Req : Waiting(y) =>
        \/ Key(y) \in ToSet(m_current_response)
        \/ \E r \in Req : Key(r) = Key(y) /\ waiting_for_fill(r)

\* An entry that has been answered to the end holds no read.
LEMMA NextFetched ==
    ASSUME SubInv, EntriesFetched, access_ready, next_access
    PROVE  EntriesFetched'
<1> DEFINE k == Head(m_current_response)
<1>1. /\ m_current_response \in Seq(Keys) /\ m_current_response # <<>>
      /\ mshr \in [Keys -> Seq(Req)]
  BY DEF SubInv, CacheInv, CacheTypes, access_ready
<1>2. /\ k \in Keys
      /\ ToSet(m_current_response) = ToSet(Tail(m_current_response)) \cup {k}
  BY <1>1, TailQueue
<1>3. mshr[k] \in Seq(Req) /\ mshr[k] # <<>>
  BY <1>1, <1>2 DEF SubInv, CacheInv, AnsweredOnce
<1>4. /\ mshr' = [mshr EXCEPT ![k] = Tail(@)]
      /\ m_current_response' = IF Len(mshr[k]) = 1 THEN Tail(m_current_response)
                               ELSE m_current_response
  BY DEF next_access
<1>5. \A x \in Req : /\ Waiting(x)' => Waiting(x)
                     /\ waiting_for_fill(x)' <=> waiting_for_fill(x)
  BY NextKeeps DEF SubInv
<1>6. ASSUME NEW y \in Req, Waiting(y)', Len(mshr[k]) = 1 PROVE Key(y) # k
  <2> DEFINE t == Tail(mshr[k])
  <2>1. t \in Seq(Req) /\ Len(t) = 0
    BY <1>3, <1>6, TailQueue
  <2>2. mshr'[k] = t
    BY <1>1, <1>2, <1>4
  <2> HIDE DEF t
  <2>3. ToSet(t) = {}
    <3>1. t = <<>>
      BY <2>1, QueueElements
    <3> QED
      BY <3>1, EmptyQueue
  <2> QED
    BY <1>6, <2>2, <2>3 DEF Waiting, Key
<1> HIDE DEF k
<1> SUFFICES ASSUME NEW y \in Req, Waiting(y)'
             PROVE  \/ Key(y) \in ToSet(m_current_response')
                    \/ \E r \in Req : Key(r) = Key(y) /\ waiting_for_fill(r)
  BY <1>5 DEF EntriesFetched, Key
<1>7. \/ Key(y) \in ToSet(m_current_response)
      \/ \E r \in Req : Key(r) = Key(y) /\ waiting_for_fill(r)
  BY <1>5 DEF EntriesFetched
<1>8. CASE Len(mshr[k]) = 1
  BY <1>2, <1>4, <1>6, <1>7, <1>8
<1>9. CASE Len(mshr[k]) # 1
  BY <1>4, <1>7, <1>9
<1> QED
  BY <1>8, <1>9

\* A fill makes its entry one that is being answered.
LEMMA FillFetched ==
    ASSUME SubInv, EntriesFetched, NEW r \in Req, r \in ToSet(m_dram_L2_queue), fill(r)
    PROVE  EntriesFetched'
<1>1. waiting_for_fill(r) /\ r \notin ToSet(m_miss_queue)
  BY DEF SubInv, BelowInv, AtMostOne
<1>2. \A x \in Req : /\ Waiting(x)' <=> Waiting(x)
                     /\ waiting_for_fill(x)' <=> waiting_for_fill(x) /\ x # r
  BY <1>1, FillKeeps DEF SubInv
<1>3. ToSet(m_current_response') = ToSet(m_current_response) \cup {Key(r)}
  <2>1. m_current_response \in Seq(Keys) /\ Key(r) \in Keys
    BY RequestParts DEF SubInv, CacheInv, CacheTypes
  <2>2. m_current_response' = Append(m_current_response, Key(r))
    BY DEF fill
  <2> QED
    BY <2>1, <2>2, AppendQueue
<1> SUFFICES ASSUME NEW y \in Req, Waiting(y)
             PROVE  \/ Key(y) \in ToSet(m_current_response')
                    \/ \E x \in Req : Key(x) = Key(y) /\ waiting_for_fill(x) /\ x # r
  BY <1>2 DEF EntriesFetched, Key
<1> QED
  BY <1>3 DEF EntriesFetched

\* A read joins an entry or makes one and fetches.
LEMMA AccessFetched ==
    ASSUME SubInv, EntriesFetched, NEW r \in Req, r \in ToSet(m_icnt_L2_queue),
           access_outcome(r) # "RESERVATION_FAIL", access(r)
    PROVE  EntriesFetched'
<1>1. ~Waiting(r)
  BY DEF SubInv, AboveInv, AtMostOne
<1>2. m_current_response' = m_current_response
  BY Outcomes DEF access, hit, wr_miss_wa_lazy_fetch_on_read, rd_miss_base
<1>3. CASE AnsweredNow(r)
  <2>1. \A x \in Req : /\ Waiting(x)' <=> Waiting(x)
                       /\ waiting_for_fill(x)' <=> waiting_for_fill(x)
    BY <1>1, <1>3, AccessKeeps
  <2> QED
    BY <1>2, <2>1 DEF EntriesFetched, Key
<1>4. CASE ~AnsweredNow(r)
  <2>1. access_outcome(r) = "MISS" /\ ~IsWrite(r)
    BY <1>4, Outcomes DEF AnsweredNow
  <2>2. rd_miss_base(r)
    BY <2>1 DEF access
  <2>3. \A x \in Req :
           /\ Waiting(x)' <=> Waiting(x) \/ x = r
           /\ waiting_for_fill(x)'
                 <=> waiting_for_fill(x) \/ (x = r /\ Key(r) \notin Entries)
    BY <1>1, <2>1, <2>2, ReadMissKeeps DEF SubInv
  <2>4. ASSUME Key(r) \in Entries
        PROVE  \E y \in Req : Waiting(y) /\ Key(y) = Key(r)
    <3>1. /\ Key(r) \in Keys /\ mshr[Key(r)] # <<>>
          /\ mshr[Key(r)] \in Seq(Req)
          /\ \A x \in ToSet(mshr[Key(r)]) : Key(x) = Key(r)
      BY <2>4 DEF Entries, SubInv, CacheInv, CacheTypes, MergedOnce
    <3>2. /\ Head(mshr[Key(r)]) \in Req
          /\ Head(mshr[Key(r)]) \in ToSet(mshr[Key(r)])
      BY <3>1, TailQueue
    <3> QED
      BY <3>1, <3>2 DEF Waiting
  <2>5. \/ Key(r) \in ToSet(m_current_response)
        \/ \E x \in Req : Key(x) = Key(r) /\ waiting_for_fill(x)'
    <3>1. CASE Key(r) \in Entries
      BY <2>3, <2>4, <3>1 DEF EntriesFetched
    <3>2. CASE Key(r) \notin Entries
      BY <2>3, <3>2
    <3> QED
      BY <3>1, <3>2
  <2> SUFFICES ASSUME NEW y \in Req, Waiting(y)'
               PROVE  \/ Key(y) \in ToSet(m_current_response)
                      \/ \E x \in Req : Key(x) = Key(y) /\ waiting_for_fill(x)'
    BY <1>2 DEF EntriesFetched, Key
  <2> QED
    BY <2>3, <2>5 DEF EntriesFetched
<1> QED
  BY <1>3, <1>4

\* What each step that touches the cache is, with the request it is about.
LEMMA FillIs ==
    ASSUME SubInv, fill_from_dram
    PROVE  \/ UNCHANGED <<cacheVars, m_L2_icnt_queue>>
           \/ \E r \in Req : /\ r \in ToSet(m_dram_L2_queue) /\ fill(r)
                             /\ UNCHANGED m_L2_icnt_queue
<1> DEFINE r == Head(m_dram_L2_queue)
<1>1. \/ UNCHANGED <<cacheVars, m_L2_icnt_queue>>
      \/ m_dram_L2_queue # <<>> /\ fill(r) /\ UNCHANGED m_L2_icnt_queue
  BY DEF fill_from_dram
<1>2. m_dram_L2_queue # <<>> => r \in Req /\ r \in ToSet(m_dram_L2_queue)
  BY Leaves DEF SubInv, QueueTypes, QueuesOnce
<1> HIDE DEF r
<1> QED
  BY <1>1, <1>2

\* The same of an access.
LEMMA AccessIs ==
    ASSUME SubInv, access_L2
    PROVE  \/ UNCHANGED cacheVars
           \/ \E r \in Req : /\ r \in ToSet(m_icnt_L2_queue) /\ Accepts
                             /\ access_outcome(r) # "RESERVATION_FAIL" /\ access(r)
<1> DEFINE r == Head(m_icnt_L2_queue)
<1>1. \/ UNCHANGED cacheVars
      \/ /\ m_icnt_L2_queue # <<>> /\ Accepts
         /\ access_outcome(r) # "RESERVATION_FAIL" /\ access(r)
  BY DEF access_L2
<1>2. m_icnt_L2_queue # <<>> => r \in Req /\ r \in ToSet(m_icnt_L2_queue)
  BY Leaves DEF SubInv, QueueTypes, QueuesOnce
<1> HIDE DEF r
<1> QED
  BY <1>1, <1>2

\* Every step keeps the entries fetched or answered.
LEMMA EntriesStep ==
    ASSUME SubInv, EntriesFetched, [Next]_vars
    PROVE  EntriesFetched'
<1>1. ASSUME UNCHANGED <<mshr, m_current_response, m_extra_mf_fields>>
      PROVE  EntriesFetched'
  BY <1>1 DEF EntriesFetched, Waiting, Key, waiting_for_fill
<1>2. CASE fill_from_dram
  BY <1>1, <1>2, FillIs, FillFetched DEF cacheVars
<1>3. CASE access_L2
  BY <1>1, <1>3, AccessIs, AccessFetched DEF cacheVars
<1>4. CASE respond
  BY <1>1, <1>4, NextFetched DEF respond, cacheVars
<1>5. CASE \E c \in Packet : copy(c)
  BY <1>1, <1>5 DEF copy, force_tag_access, cacheVars
<1>6. CASE miss_to_dram
  BY <1>1, <1>6 DEF miss_to_dram, cache_cycle
<1>7. CASE (\E p \in Packet : push(p)) \/ pop \/ dram_takes \/ dram_returns \/ start_cycle
           \/ rop_ready \/ rop_waits \/ UNCHANGED vars
  BY <1>1, <1>7 DEF push, pop, dram_takes, dram_returns, start_cycle, rop_ready,
                    rop_waits, vars, cacheVars
<1> QED
  BY <1>2, <1>3, <1>4, <1>5, <1>6, <1>7 DEF Next, subpartition_cycle

-----------------------------------------------------------------------------
(* Lines are not lost unless a read joins late *)

\* A reserved sector is readable once filled, and a read waits for its fill.
LinesKept ==
    \A w \in Way, s \in Sector : m_sector[w][s].status = "RESERVED" =>
        /\ m_sector[w][s].readable
        /\ \E r \in Req : m_extra_mf_fields[r] = w /\ r[2] = s

\* An access is accepted when the queue of answers has room.  If it holds one
\* answer only, whatever was being answered when the cycle began has left, and
\* what was filled in this cycle is still there.
AnswersLeave ==
    L2IcntSize = 1 /\ m_L2_icnt_queue = <<>> =>
        /\ stage = "dram" => m_current_response = <<>>
        /\ stage \in {"miss", "access"} =>
              \A k \in ToSet(m_current_response) : probe(k) = "HIT"

\* Line w gets the sectors l, of which s may be reserved anew and the others are
\* as they were or empty.
KeptLine(w, s, l) ==
    /\ w \in Way /\ s \in Sector
    /\ l \in [Sector -> SectorState]
    /\ m_sector' = [m_sector EXCEPT ![w] = l]
    /\ \A x \in Sector : x # s => l[x] = m_sector[w][x] \/ l[x].status = "INVALID"
    /\ l[s].status = "RESERVED" =>
          /\ l[s].readable
          /\ \E r \in Req : m_extra_mf_fields'[r] = w /\ r[2] = s
    /\ \A r \in Req : \/ m_extra_mf_fields'[r] = m_extra_mf_fields[r]
                      \/ m_extra_mf_fields[r] = 0
                      \/ m_extra_mf_fields[r] = w /\ r[2] = s

\* Such a change loses no line.
LEMMA KeptLineKeeps ==
    ASSUME LinesTyped, LinesKept, NEW w, NEW s, NEW l, KeptLine(w, s, l)
    PROVE  LinesKept'
<1> SUFFICES ASSUME NEW v \in Way, NEW x \in Sector,
                    m_sector'[v][x].status = "RESERVED"
             PROVE  /\ m_sector'[v][x].readable
                    /\ \E r \in Req : m_extra_mf_fields'[r] = v /\ r[2] = x
  BY DEF LinesKept
<1>1. /\ m_sector'[w] = l
      /\ \A u \in Way : u # w => m_sector'[u] = m_sector[u]
  BY DEF KeptLine, LinesTyped
<1>2. CASE v = w /\ x = s
  BY <1>1, <1>2 DEF KeptLine
<1>3. CASE v # w \/ x # s
  <2>1. m_sector'[v][x] = m_sector[v][x]
    BY <1>1, <1>3 DEF KeptLine
  <2>2. PICK r \in Req : m_extra_mf_fields[r] = v /\ r[2] = x
    BY <2>1 DEF LinesKept
  <2>3. v # 0
    BY SectorCacheAssumption DEF Way
  <2>4. m_extra_mf_fields'[r] = m_extra_mf_fields[r]
    BY <1>3, <2>2, <2>3 DEF KeptLine
  <2> QED
    BY <2>1, <2>2, <2>4 DEF LinesKept
<1> QED
  BY <1>2, <1>3

\* A read that waits for its fill is the one its sector is reserved for.
LEMMA ReservedProbe ==
    ASSUME LinesTyped, NEW k \in Keys, NEW w \in Way, m_tag[w] = k[1],
           m_sector[w][k[2]].status = "RESERVED"
    PROVE  probe(k) = "HIT_RESERVED"
<1>1. Cached(k[1]) /\ WayOf(k[1]) = w
  BY DirtyIn DEF Cached
<1> QED
  BY <1>1 DEF probe

\* A read that joins an entry finds its sector reserved.
LEMMA JoinsReserved ==
    ASSUME NoLateJoin, SubInv, DataInv, EntriesFetched, AnswersLeave,
           At("access"), Accepts, NEW r \in Req, r \in ToSet(m_icnt_L2_queue),
           ~IsWrite(r), access_outcome(r) = "MISS", Key(r) \in Entries
    PROVE  probe(Key(r)) = "HIT_RESERVED"
<1> DEFINE k == Key(r)
           y == Head(mshr[k])
<1>1. /\ k \in Keys /\ mshr[k] # <<>> /\ mshr[k] \in Seq(Req)
      /\ \A x \in ToSet(mshr[k]) : Key(x) = k
  BY DEF Entries, SubInv, CacheInv, CacheTypes, MergedOnce
<1>2. y \in Req /\ y \in ToSet(mshr[k])
  BY <1>1, TailQueue
<1>3. y \in Req /\ Waiting(y) /\ Key(y) = k
  BY <1>1, <1>2 DEF Waiting
<1> HIDE DEF y
<1>4. CASE k \notin ToSet(m_current_response)
  <2>1. PICK x \in Req : Key(x) = k /\ waiting_for_fill(x)
    BY <1>3, <1>4 DEF EntriesFetched
  <2>2. m_extra_mf_fields[x] \in Way
    BY <2>1, FetchTracked
  <2>3. /\ m_tag[m_extra_mf_fields[x]] = k[1]
        /\ m_sector[m_extra_mf_fields[x]][k[2]].status = "RESERVED"
    BY <2>1 DEF DataInv, LinesInOrder, FillsReserved, Key
  <2> HIDE DEF k
  <2>4. probe(k) = "HIT_RESERVED"
    BY <1>1, <2>2, <2>3, ReservedProbe DEF DataInv, LinesInOrder
  <2> QED
    BY <2>4 DEF k
<1>5. CASE k \in ToSet(m_current_response)
  <2>1. MaxMerged # 1
    <3>1. Len(mshr[k]) > 0 /\ Len(mshr[k]) \in Nat
      BY <1>1, QueueElements
    <3>2. ~mshr_full(k)
      BY MissHasRoom
    <3> QED
      BY <3>1, <3>2 DEF mshr_full
  <2>2. L2IcntSize # 1
    <3> SUFFICES ASSUME L2IcntSize = 1 PROVE FALSE
      OBVIOUS
    <3>1. m_L2_icnt_queue \in Seq(Req) /\ Len(m_L2_icnt_queue) < 1
      BY DEF Accepts, Room, SubInv, QueueTypes
    <3>2. m_L2_icnt_queue = <<>>
      BY <3>1, QueueElements
    <3>3. probe(k) = "HIT"
      BY <1>5, <3>2 DEF AnswersLeave, At
    <3> QED
      BY <3>3 DEF access_outcome
  <2>3. /\ r \in m_request_tracker /\ y \in m_request_tracker
        /\ ~Waiting(r) /\ ~IsWrite(y)
    BY <1>3 DEF SubInv, AboveInv, AtMostOne, DataInv, ReadersInv
  <2>4. /\ r = <<r[1], r[2]>> /\ y = <<y[1], y[2]>>
        /\ r[1] \in Packet \ (Writes \cup Copies)
        /\ y[1] \in Packet \ (Writes \cup Copies)
    BY <1>3, <2>3, RequestParts DEF IsWrite
  <2>5. BlockOf[r[1]] = BlockOf[y[1]] /\ r[2] = y[2]
    BY <1>3 DEF Key
  <2>6. r[1] # y[1]
    BY <1>3, <2>3, <2>4, <2>5
  <2>7. /\ r[2] \in First[r[1]] .. First[r[1]] + Size[r[1]] - 1
        /\ r[2] \in First[y[1]] .. First[y[1]] + Size[y[1]] - 1
    BY <1>3, <2>5 DEF Req
  <2>8. r[1] \in After[y[1]] \/ y[1] \in After[r[1]]
    BY <2>1, <2>2, <2>4, <2>5, <2>6, <2>7 DEF NoLateJoin, Sectors
  <2>9. r[1] \in Packet \ pending /\ y[1] \in Packet \ pending
    BY <2>3, <2>4 DEF SubInv, IssuedInv
  <2>10. Over(r[1]) \/ Over(y[1])
    BY <2>8, <2>9 DEF DataInv, OrderInv
  <2>11. r \in answered \/ y \in answered
    BY <1>3, <2>10 DEF Over
  <2> QED
    BY <2>3, <2>11 DEF DataInv, OrderInv
<1> QED
  BY <1>4, <1>5

\* A hit leaves a modified sector.
LEMMA HitKept ==
    ASSUME SubInv, LinesInOrder, LinesKept, NEW r \in Req,
           access_outcome(r) = "HIT", hit(r)
    PROVE  LinesKept'
<1> DEFINE k == Key(r)
           w == WayOf(k[1])
           l == [m_sector[w] EXCEPT ![k[2]].status = "MODIFIED"]
<1>1. LinesTyped /\ LinesSound /\ m_sector \in [Way -> [Sector -> SectorState]]
  BY DEF LinesInOrder, LinesTyped
<1>2. k \in Keys /\ k[2] \in Sector /\ probe(k) = "HIT"
  BY RequestParts DEF access_outcome
<1>3. w \in Way
  BY <1>1, <1>2, HitSector
<1>4. m_extra_mf_fields' = m_extra_mf_fields
  BY DEF hit
<1>5. CASE m_sector' = m_sector
  BY <1>4, <1>5 DEF LinesKept
<1>6. CASE m_sector' = [m_sector EXCEPT ![w][k[2]].status = "MODIFIED"]
  <2>1. m_sector' = [m_sector EXCEPT ![w] = l]
    BY <1>6
  <2> HIDE DEF w, k
  <2> DEFINE s == m_sector[w][k[2]]
             m == [s EXCEPT !.status = "MODIFIED"]
  <2>2. s \in SectorState
    BY <1>1, <1>2, <1>3
  <2>3. l = [m_sector[w] EXCEPT ![k[2]] = m]
    OBVIOUS
  <2> HIDE DEF s
  <2>4. m \in SectorState /\ m.status = "MODIFIED"
    BY <2>2 DEF SectorState
  <2> HIDE DEF m, l
  <2>5. /\ l \in [Sector -> SectorState] /\ l[k[2]] = m
        /\ \A x \in Sector : x # k[2] => l[x] = m_sector[w][x]
    BY <1>1, <1>2, <1>3, <2>3, <2>4
  <2>6. KeptLine(w, k[2], l)
    BY <1>2, <1>3, <1>4, <2>1, <2>4, <2>5 DEF KeptLine
  <2> QED
    BY <1>1, <2>6, KeptLineKeeps
<1> QED
  BY <1>5, <1>6 DEF hit

\* A lazy write does too, in the line of its block or in one that it takes.
LEMMA WriteMissKept ==
    ASSUME SubInv, LinesInOrder, LinesKept, NEW r \in Req,
           wr_miss_wa_lazy_fetch_on_read(r)
    PROVE  LinesKept'
<1> DEFINE k == Key(r)
           hr == probe(k) = "HIT_RESERVED"
<1>1. LinesTyped
  BY DEF LinesInOrder
<1>2. k \in Keys /\ k[2] \in Sector
  BY RequestParts
<1>3. PICK w \in WaysFor(k) :
          m_sector' = [m_sector EXCEPT ![w] =
                [Accessed(k, w) EXCEPT ![k[2]] = Overwritten(@, r, hr)]]
  BY DEF wr_miss_wa_lazy_fetch_on_read
<1>4. m_extra_mf_fields' = m_extra_mf_fields
  BY DEF wr_miss_wa_lazy_fetch_on_read
<1> DEFINE a == Accessed(k, w)
           s == a[k[2]]
           o == Overwritten(s, r, hr)
           l == [a EXCEPT ![k[2]] = o]
<1>5. w \in Way /\ a \in [Sector -> SectorState]
  BY <1>1, <1>2, AccessedLine
<1>6. \A x \in Sector : x # k[2] => a[x] = m_sector[w][x] \/ a[x].status = "INVALID"
  BY <1>1, <1>2, AccessedLine DEF FreshSector
<1>7. s \in SectorState /\ hr \in BOOLEAN /\ WholeMask(r) \in BOOLEAN /\ WroteAll(r) \in BOOLEAN
  BY <1>2, <1>5 DEF WholeMask, WroteAll
<1>8. m_sector' = [m_sector EXCEPT ![w] = l]
  BY <1>3
<1> HIDE DEF k, hr, a, s
<1>9. o \in SectorState /\ o.status = "MODIFIED"
  BY <1>7 DEF Overwritten, SectorState
<1> HIDE DEF o
<1>10. /\ l \in [Sector -> SectorState] /\ l[k[2]] = o
       /\ \A x \in Sector : x # k[2] => l[x] = a[x]
  BY <1>2, <1>5, <1>9
<1> HIDE DEF l
<1>11. KeptLine(w, k[2], l)
  BY <1>2, <1>4, <1>5, <1>6, <1>8, <1>9, <1>10 DEF KeptLine
<1> QED
  BY <1>1, <1>11, KeptLineKeeps

\* A copy leaves a valid or modified sector.
LEMMA CopyKept ==
    ASSUME SubInv, LinesInOrder, LinesKept, NEW c \in Packet, force_tag_access(c)
    PROVE  LinesKept'
<1> DEFINE k == <<BlockOf[c], First[c]>>
<1>1. LinesTyped
  BY DEF LinesInOrder
<1>2. k \in Keys /\ k[2] \in Sector
  BY SectorCacheAssumption DEF Keys
<1>3. PICK w \in WaysFor(k) :
          m_sector' = [m_sector EXCEPT ![w] =
                [Accessed(k, w) EXCEPT ![k[2]] = Filled(@, FALSE, TRUE)]]
  BY DEF force_tag_access
<1>4. m_extra_mf_fields' = m_extra_mf_fields
  BY DEF force_tag_access
<1> DEFINE a == Accessed(k, w)
           s == a[k[2]]
           f == Filled(s, FALSE, TRUE)
           l == [a EXCEPT ![k[2]] = f]
<1> HIDE DEF k
<1>5. w \in Way /\ a \in [Sector -> SectorState]
  BY <1>1, <1>2, AccessedLine
<1>6. \A x \in Sector : x # k[2] => a[x] = m_sector[w][x] \/ a[x].status = "INVALID"
  BY <1>1, <1>2, AccessedLine DEF FreshSector
<1>7. s \in SectorState
  BY <1>2, <1>5
<1>8. m_sector' = [m_sector EXCEPT ![w] = l]
  BY <1>3
<1> HIDE DEF a, s
<1>9. f \in SectorState /\ f.status # "RESERVED"
  BY <1>7 DEF Filled, SectorState
<1> HIDE DEF f
<1>10. /\ l \in [Sector -> SectorState] /\ l[k[2]] = f
       /\ \A x \in Sector : x # k[2] => l[x] = a[x]
  BY <1>2, <1>5, <1>9
<1> HIDE DEF l
<1>11. KeptLine(w, k[2], l)
  BY <1>2, <1>4, <1>5, <1>6, <1>8, <1>9, <1>10 DEF KeptLine
<1> QED
  BY <1>1, <1>11, KeptLineKeeps

\* A fill leaves a sector that reads hit.
LEMMA FillKept ==
    ASSUME SubInv, LinesInOrder, LinesKept, NEW r \in Req, waiting_for_fill(r), fill(r)
    PROVE  LinesKept' /\ probe(Key(r))' = "HIT"
<1> DEFINE k == Key(r)
           w == m_extra_mf_fields[r]
           s == m_sector[w][k[2]]
           f == Filled(s, HasAtomic(k), m_tag[w] = k[1])
           l == [m_sector[w] EXCEPT ![k[2]] = f]
<1>1. LinesTyped /\ m_sector \in [Way -> [Sector -> SectorState]]
  BY DEF LinesInOrder, LinesTyped
<1>2. k \in Keys /\ k[2] \in Sector /\ r[2] = k[2] /\ BlockOf[r[1]] = k[1]
  BY RequestParts DEF Key
<1>3. w \in Way
  BY FetchTracked
<1>4. m_tag[w] = k[1] /\ s.status = "RESERVED"
  BY <1>2 DEF LinesInOrder, FillsReserved
<1>5. s \in SectorState /\ s.readable
  BY <1>1, <1>2, <1>3, <1>4 DEF LinesKept
<1>6. /\ m_sector' = [m_sector EXCEPT ![w] = l] /\ m_tag' = m_tag
      /\ m_extra_mf_fields' = [m_extra_mf_fields EXCEPT ![r] = 0]
      /\ m_extra_mf_fields \in [Req -> 0 .. Ways]
  BY DEF fill, SubInv, CacheInv, CacheTypes
<1>7. HasAtomic(k) \in BOOLEAN /\ (m_tag[w] = k[1]) \in BOOLEAN
  BY DEF HasAtomic
<1>8. w = m_extra_mf_fields[r]
  OBVIOUS
<1> HIDE DEF k, w, s
<1>9. /\ f \in SectorState /\ f.readable
      /\ f.status = "VALID" \/ f.status = "MODIFIED"
  BY <1>5, <1>7 DEF Filled, SectorState
<1> HIDE DEF f
<1>10. /\ l \in [Sector -> SectorState] /\ l[k[2]] = f
       /\ \A x \in Sector : x # k[2] => l[x] = m_sector[w][x]
  BY <1>1, <1>2, <1>3, <1>9
<1> HIDE DEF l
<1>11. KeptLine(w, k[2], l)
  <2>1. \A x \in Req : \/ m_extra_mf_fields'[x] = m_extra_mf_fields[x]
                       \/ m_extra_mf_fields[x] = w /\ x[2] = k[2]
    BY <1>2, <1>6, <1>8
  <2> QED
    BY <1>2, <1>3, <1>6, <1>9, <1>10, <2>1 DEF KeptLine
<1>12. LinesKept'
  BY <1>1, <1>11, KeptLineKeeps
<1>13. probe(k)' = "HIT"
  <2>1. \A v \in Way : m_tag[v] = k[1] => WayOf(k[1]) = v
    BY <1>1, <1>2, DirtyIn
  <2>2. Cached(k[1]) /\ WayOf(k[1]) = w
    BY <1>3, <1>4, <2>1 DEF Cached
  <2>3. Cached(k[1])' /\ WayOf(k[1])' = w
    BY <1>6, <2>2 DEF Cached, WayOf, k, Key
  <2>4. m_sector'[w][k[2]] = f
    BY <1>1, <1>3, <1>6, <1>10
  <2> QED
    BY <1>9, <2>3, <2>4 DEF probe, ModifiedOutcome, k, Key
<1> QED
  BY <1>12, <1>13 DEF k

\* A read that misses reserves its sector and fetches, or joins a read that has.
LEMMA ReadMissKept ==
    ASSUME SubInv, LinesInOrder, LinesKept, NEW r \in Req, ~Waiting(r),
           access_outcome(r) = "MISS", rd_miss_base(r),
           Key(r) \in Entries => probe(Key(r)) = "HIT_RESERVED"
    PROVE  LinesKept'
<1> DEFINE k == Key(r)
           sent == k \notin Entries
<1>1. LinesTyped /\ m_extra_mf_fields \in [Req -> 0 .. Ways]
  BY DEF LinesInOrder, SubInv, CacheInv, CacheTypes
<1>2. k \in Keys /\ k[1] \in Block /\ k[2] \in Sector /\ k[2] = r[2]
  BY RequestParts DEF Key
<1>3. PICK w \in WaysFor(k) :
          /\ m_sector' = [m_sector EXCEPT ![w] = Accessed(k, w)]
          /\ m_extra_mf_fields' = IF sent THEN [m_extra_mf_fields EXCEPT ![r] = w]
                                  ELSE m_extra_mf_fields
  BY DEF rd_miss_base
<1> DEFINE a == Accessed(k, w)
<1>4. w \in Way /\ a \in [Sector -> SectorState]
  BY <1>1, <1>2, AccessedLine
<1>5. \A x \in Sector : x # k[2] => a[x] = m_sector[w][x] \/ a[x].status = "INVALID"
  BY <1>1, <1>2, AccessedLine DEF FreshSector
<1>6. m_extra_mf_fields[r] = 0
  BY FetchTracked DEF waiting_for_fill
<1>7. \A x \in Req : \/ m_extra_mf_fields'[x] = m_extra_mf_fields[x]
                     \/ m_extra_mf_fields[x] = 0
  BY <1>1, <1>3, <1>6
<1>8. a[k[2]].status = "RESERVED" =>
          /\ a[k[2]].readable
          /\ \E x \in Req : m_extra_mf_fields'[x] = w /\ x[2] = k[2]
  <2>1. CASE k \in Entries
    <3>1. probe(k) = "HIT_RESERVED"
      BY <2>1
    <3>2. a = m_sector[w] /\ m_extra_mf_fields' = m_extra_mf_fields
      BY <1>3, <2>1, <3>1 DEF Accessed
    <3> HIDE DEF k, a
    <3> QED
      BY <1>2, <1>4, <3>2 DEF LinesKept
  <2>2. CASE k \notin Entries
    <3>1. m_extra_mf_fields'[r] = w
      BY <1>1, <1>3, <2>2
    <3> DEFINE s == m_sector[w][k[2]]
    <3>2. s \in SectorState
      BY <1>1, <1>2, <1>4 DEF LinesTyped
    <3>3. \/ a[k[2]] = [FreshSector EXCEPT !.status = "RESERVED"]
          \/ a[k[2]] = allocate_sector(s)
          \/ a[k[2]] = s
      BY <1>1, <1>2, AccessedLine
    <3> HIDE DEF k, a, s
    <3>4. ([FreshSector EXCEPT !.status = "RESERVED"]).readable
      BY DEF FreshSector
    <3>5. allocate_sector(s).readable
      BY <3>2 DEF allocate_sector, SectorState
    <3>6. s.status = "RESERVED" => s.readable
      BY <1>2, <1>4 DEF LinesKept, s
    <3>7. a[k[2]].status = "RESERVED" => a[k[2]].readable
      BY <3>3, <3>4, <3>5, <3>6
    <3> QED
      BY <1>2, <3>1, <3>7
  <2> QED
    BY <2>1, <2>2
<1> HIDE DEF a, k, sent
<1>9. KeptLine(w, k[2], a)
  BY <1>2, <1>3, <1>4, <1>5, <1>7, <1>8 DEF KeptLine, a
<1> QED
  BY <1>1, <1>9, KeptLineKeeps

\* An access loses no line.
LEMMA AccessKept ==
    ASSUME NoLateJoin, SubInv, DataInv, EntriesFetched, AnswersLeave, LinesKept,
           At("access"), Accepts, NEW r \in Req, r \in ToSet(m_icnt_L2_queue),
           access_outcome(r) # "RESERVATION_FAIL", access(r)
    PROVE  LinesKept'
<1>1. LinesInOrder
  BY DEF DataInv
<1>2. ~Waiting(r)
  BY DEF SubInv, AboveInv, AtMostOne
<1>3. CASE access_outcome(r) = "HIT"
  BY <1>1, <1>3, HitKept DEF access
<1>4. CASE access_outcome(r) = "MISS" /\ IsWrite(r)
  BY <1>1, <1>4, WriteMissKept DEF access
<1>5. CASE access_outcome(r) = "MISS" /\ ~IsWrite(r)
  <2>1. rd_miss_base(r)
    BY <1>5 DEF access
  <2>2. Key(r) \in Entries => probe(Key(r)) = "HIT_RESERVED"
    BY <1>5, JoinsReserved
  <2> QED
    BY <1>1, <1>2, <1>5, <2>1, <2>2, ReadMissKept
<1> QED
  BY <1>3, <1>4, <1>5, Outcomes

\* No step loses a line.
LEMMA LinesKeptStep ==
    ASSUME NoLateJoin, SubInv, DataInv, EntriesFetched, AnswersLeave, LinesKept,
           [Next]_vars
    PROVE  LinesKept'
<1>1. LinesInOrder
  BY DEF DataInv
<1>2. ASSUME UNCHANGED <<m_sector, m_extra_mf_fields>> PROVE LinesKept'
  BY <1>2 DEF LinesKept
<1>3. CASE fill_from_dram
  <2>1. CASE UNCHANGED <<cacheVars, m_L2_icnt_queue>>
    BY <1>2, <2>1 DEF cacheVars
  <2>2. ASSUME NEW r \in Req, r \in ToSet(m_dram_L2_queue), fill(r) PROVE LinesKept'
    <3>1. waiting_for_fill(r)
      BY <2>2 DEF SubInv, BelowInv
    <3> QED
      BY <1>1, <2>2, <3>1, FillKept
  <2> QED
    BY <1>3, <2>1, <2>2, FillIs
<1>4. CASE access_L2
  <2>1. At("access")
    BY <1>4 DEF access_L2
  <2> QED
    BY <1>2, <1>4, <2>1, AccessIs, AccessKept DEF cacheVars
<1>5. CASE \E c \in Packet : copy(c)
  BY <1>1, <1>2, <1>5, CopyKept DEF copy, cacheVars
<1>6. CASE respond
  BY <1>2, <1>6 DEF respond, next_access, cacheVars
<1>7. CASE miss_to_dram
  BY <1>2, <1>7 DEF miss_to_dram, cache_cycle
<1>8. CASE (\E p \in Packet : push(p)) \/ pop \/ dram_takes \/ dram_returns \/ start_cycle
           \/ rop_ready \/ rop_waits \/ UNCHANGED vars
  BY <1>2, <1>8 DEF push, pop, dram_takes, dram_returns, start_cycle, rop_ready,
                    rop_waits, vars, cacheVars
<1> QED
  BY <1>3, <1>4, <1>5, <1>6, <1>7, <1>8 DEF Next, subpartition_cycle

\* The answers leave before the next access is accepted.
LEMMA AnswersStep ==
    ASSUME SubInv, DataInv, LinesKept, AnswersLeave, [Next]_vars
    PROVE  AnswersLeave'
<1>1. ASSUME stage' \notin {"dram", "miss", "access"} PROVE AnswersLeave'
  BY <1>1 DEF AnswersLeave
<1>2. CASE respond
  <2>1. stage' = "dram" /\ m_L2_icnt_queue \in Seq(Req)
    BY <1>2 DEF respond, Go, SubInv, QueueTypes
  <2>2. CASE access_ready /\ Room(m_L2_icnt_queue, L2IcntSize)
    <3>1. next_read \in Req
      BY <1>2, <2>2, NextKeeps DEF respond, SubInv
    <3>2. m_L2_icnt_queue' = Append(m_L2_icnt_queue, next_read)
      BY <1>2, <2>2 DEF respond
    <3>3. m_L2_icnt_queue' # <<>>
      BY <2>1, <3>1, <3>2, AppendQueue
    <3> QED
      BY <3>3 DEF AnswersLeave
  <2>3. CASE ~(access_ready /\ Room(m_L2_icnt_queue, L2IcntSize))
    <3>1. UNCHANGED <<m_current_response, m_L2_icnt_queue>>
      BY <1>2, <2>3 DEF respond, cacheVars
    <3>2. ASSUME L2IcntSize = 1, m_L2_icnt_queue = <<>> PROVE m_current_response = <<>>
      <4>1. Len(m_L2_icnt_queue) = 0
        BY <3>2, EmptyQueue
      <4> QED
        BY <2>3, <3>2, <4>1 DEF Room, access_ready
    <3> QED
      BY <2>1, <3>1, <3>2 DEF AnswersLeave
  <2> QED
    BY <2>2, <2>3
<1>3. CASE fill_from_dram
  <2>1. stage = "dram" /\ stage' = "miss"
    BY <1>3 DEF fill_from_dram, At, Go
  <2>2. CASE UNCHANGED <<cacheVars, m_L2_icnt_queue>>
    BY <2>1, <2>2, EmptyQueue DEF AnswersLeave, cacheVars
  <2>3. ASSUME NEW r \in Req, r \in ToSet(m_dram_L2_queue), fill(r),
               UNCHANGED m_L2_icnt_queue
        PROVE  AnswersLeave'
    <3>1. waiting_for_fill(r) /\ Key(r) \in Keys
      BY <2>3, RequestParts DEF SubInv, BelowInv
    <3>2. probe(Key(r))' = "HIT"
      BY <2>3, <3>1, FillKept DEF DataInv
    <3>3. m_current_response' = Append(m_current_response, Key(r))
      BY <2>3 DEF fill
    <3>4. m_current_response = <<>> => ToSet(m_current_response') = {Key(r)}
      <4>1. <<>> \in Seq(Keys) /\ ToSet(<<>>) = {}
        BY EmptyQueue
      <4>2. ToSet(Append(<<>>, Key(r))) = ToSet(<<>>) \cup {Key(r)}
        BY <3>1, <4>1, AppendQueue
      <4> QED
        BY <3>3, <4>1, <4>2
    <3>5. ASSUME L2IcntSize = 1, m_L2_icnt_queue = <<>>
          PROVE  (\A k \in ToSet(m_current_response) : probe(k) = "HIT")'
      <4>1. m_current_response = <<>>
        BY <2>1, <3>5 DEF AnswersLeave
      <4> QED
        BY <3>2, <3>4, <4>1 DEF Key
    <3> QED
      BY <2>1, <2>3, <3>5 DEF AnswersLeave
  <2> QED
    BY <1>3, <2>2, <2>3, FillIs
<1>4. CASE miss_to_dram
  <2>1. /\ stage = "miss" /\ stage' = "access"
        /\ UNCHANGED <<m_tag, m_sector, m_current_response, m_L2_icnt_queue>>
    BY <1>4 DEF miss_to_dram, cache_cycle, At, Go
  <2>2. \A k : probe(k)' = probe(k)
    BY <2>1 DEF probe, Cached, WayOf, Replaceable, is_reserved_line
  <2> QED
    BY <2>1, <2>2 DEF AnswersLeave
<1>5. CASE access_L2 \/ start_cycle \/ rop_ready \/ rop_waits
  BY <1>1, <1>5 DEF access_L2, start_cycle, rop_ready, rop_waits, Go
<1>6. CASE (\E p \in Packet : push(p)) \/ (\E c \in Packet : copy(c)) \/ pop
           \/ dram_takes \/ dram_returns
  <2>1. stage' \notin {"dram", "miss", "access"}
    BY <1>6 DEF push, copy, pop, dram_takes, dram_returns, MayStart, At, Go
  <2> QED
    BY <1>1, <2>1
<1>7. CASE UNCHANGED vars
  <2>1. UNCHANGED <<stage, m_tag, m_sector, m_current_response, m_L2_icnt_queue>>
    BY <1>7 DEF vars, cacheVars
  <2>2. \A k : probe(k)' = probe(k)
    BY <2>1 DEF probe, Cached, WayOf, Replaceable, is_reserved_line
  <2> QED
    BY <2>1, <2>2 DEF AnswersLeave
<1> QED
  BY <1>2, <1>3, <1>4, <1>5, <1>6, <1>7 DEF Next, subpartition_cycle

\* The empty cache has no entry, no answer and no reserved line.
LEMMA LinesKeptInit == Init => EntriesFetched /\ LinesKept /\ AnswersLeave
<1> SUFFICES ASSUME Init PROVE EntriesFetched /\ LinesKept /\ AnswersLeave
  OBVIOUS
<1>1. /\ m_sector = [w \in Way |-> [s \in Sector |-> FreshSector]]
      /\ mshr = [k \in Keys |-> <<>>]
      /\ stage = "idle"
  BY DEF Init, CacheInit
<1>2. EntriesFetched
  BY <1>1, RequestParts, EmptyQueue DEF EntriesFetched, Waiting
<1>3. LinesKept
  BY <1>1 DEF LinesKept, FreshSector
<1>4. AnswersLeave
  BY <1>1 DEF AnswersLeave
<1> QED
  BY <1>2, <1>3, <1>4

\* A line is lost only by a read that joins an entry late: if none can, every
\* reserved sector has its fill on the way.
THEOREM NoLineIsLost ==
    ASSUME RaceFree, NoLateJoin
    PROVE  Spec => []~LineLost
<1> DEFINE Inv == EntriesFetched /\ LinesKept /\ AnswersLeave
<1>1. SubInv /\ DataInv /\ Inv /\ [Next]_vars => Inv'
  BY EntriesStep, LinesKeptStep, AnswersStep
<1>2. Inv => ~LineLost
  BY DEF LinesKept, LineLost
<1>3. Init => Inv
  BY LinesKeptInit
<1> HIDE DEF Inv
<1> QED
  BY <1>1, <1>2, <1>3, SubInvariance, DataInvariance, PTL DEF Spec

\* Then a copy of a program that orders its copies and its reads always finds a
\* line: handle_memcpy_to_gpu never uses an index that no probe has set.
THEOREM CopiesFindLine ==
    ASSUME RaceFree, CopiesWait, NoLateJoin
    PROVE  Spec => []CopyFindsLine
BY CopyFailsOnlyWithoutLine, NoLineIsLost, PTL
=============================================================================
