------------------------- MODULE MetadataPathProofs -------------------------
(***************************************************************************)
(* Proofs about MetadataPath for every set of reads and blocks, every      *)
(* geometry of the cache and every latency: no read is lost, duplicated or *)
(* misdirected, every response from memory is awaited, and the tables keep *)
(* their capacities.                                                       *)
(***************************************************************************)
EXTENDS MetadataPath, MetadataCacheProofs

toq == m_to_metadata_cache_queue
d2m == m_dram_to_metadata_cache_queue
latq == m_dram_latency_queue

USE DEF toq, d2m, latq

\* The requests of a latency queue, without their times.
Firsts(s) == [i \in DOMAIN s |-> s[i][1]]

Timed == (Req \cup Writebacks) \X Nat

PathTypes == /\ pending \subseteq Req
             /\ toq \in Seq(Req)
             /\ latq \in Seq(Timed)
             /\ d2m \in Seq(Req)
             /\ answered \subseteq Req

\* Each of the queues has a read at most once.
QueuesOnce == Once(toq, Req) /\ Once(Firsts(latq), Req) /\ Once(d2m, Req)

\* A read is not yet here, queued, waiting or answered: one of the four.
ReadPlace ==
    \A r \in Req :
        \/ r \in pending /\ r \notin ToSet(toq) /\ ~Waiting(r) /\ r \notin answered
        \/ r \notin pending /\ r \in ToSet(toq) /\ ~Waiting(r) /\ r \notin answered
        \/ r \notin pending /\ r \notin ToSet(toq) /\ Waiting(r) /\ r \notin answered
        \/ r \notin pending /\ r \notin ToSet(toq) /\ ~Waiting(r) /\ r \in answered

\* A read on its way to memory and back is in one queue and is awaited.
FetchPlace ==
    \A r \in Req :
        /\ r \in ToSet(m_miss_queue) => r \notin ToSet(Firsts(latq)) \cup ToSet(d2m)
        /\ r \in ToSet(Firsts(latq)) => r \notin ToSet(d2m)
        /\ r \in ToSet(Firsts(latq)) \cup ToSet(d2m) => r \in m_extra_mf_fields

PathInv == CacheInv /\ PathTypes /\ QueuesOnce /\ ReadPlace /\ FetchPlace

-----------------------------------------------------------------------------
(* The latency queue *)

\* The requests of the latency queue form a queue.
LEMMA FirstsQueue ==
    ASSUME NEW s \in Seq(Timed)
    PROVE  /\ Firsts(s) \in Seq(Req \cup Writebacks)
           /\ Len(Firsts(s)) = Len(s)
           /\ s # <<>> => /\ Firsts(s) # <<>>
                          /\ Head(Firsts(s)) = Head(s)[1]
<1>1. /\ Len(s) \in Nat /\ DOMAIN s = 1 .. Len(s)
      /\ \A i \in 1 .. Len(s) : s[i] \in Timed
  BY LenProperties, ElementOfSeq
<1>2. \A i \in 1 .. Len(s) : s[i][1] \in Req \cup Writebacks
  BY <1>1 DEF Timed
<1>3. Firsts(s) \in [1 .. Len(s) -> Req \cup Writebacks]
  BY <1>1, <1>2 DEF Firsts
<1>4. Firsts(s) \in Seq(Req \cup Writebacks) /\ Len(Firsts(s)) = Len(s)
  BY <1>1, <1>3
<1>5. ASSUME s # <<>> PROVE Firsts(s) # <<>> /\ Head(Firsts(s)) = Head(s)[1]
  <2>1. Len(s) > 0 /\ Head(s) = s[1]
    BY <1>1, <1>5, EmptySeq
  <2>2. Firsts(s) # <<>>
    BY <1>1, <1>4, <2>1, EmptySeq
  <2>3. Head(Firsts(s)) = Firsts(s)[1]
    BY <1>4, <2>2, HeadTailProperties
  <2> QED
    BY <1>1, <2>1, <2>2, <2>3 DEF Firsts
<1> QED
  BY <1>4, <1>5

\* A request that enters the latency queue.
LEMMA FirstsAppend ==
    ASSUME NEW s \in Seq(Timed), NEW x \in Req \cup Writebacks, NEW n \in Nat
    PROVE  /\ s \o << <<x, n>> >> \in Seq(Timed)
           /\ Firsts(s \o << <<x, n>> >>) = Append(Firsts(s), x)
<1> DEFINE t == s \o << <<x, n>> >>
           f == Append(Firsts(s), x)
<1>1. <<x, n>> \in Timed
  BY DEF Timed
<1>2. << <<x, n>> >> \in Seq(Timed) /\ Len(<< <<x, n>> >>) = 1
  BY <1>1, SingleQueue
<1>3. /\ t \in Seq(Timed) /\ Len(t) = Len(s) + 1 /\ Len(s) \in Nat
      /\ \A i \in 1 .. Len(s) : t[i] = s[i]
      /\ t[Len(s) + 1] = <<x, n>>
  BY <1>2, ConcatProperties, LenProperties
<1>4. /\ DOMAIN t = 1 .. Len(s) + 1 /\ DOMAIN s = 1 .. Len(s)
  BY <1>3, LenProperties
<1>5. Firsts(s) \in Seq(Req \cup Writebacks) /\ Len(Firsts(s)) = Len(s)
  BY FirstsQueue
<1>6. /\ f \in Seq(Req \cup Writebacks) /\ Len(f) = Len(s) + 1
      /\ \A i \in 1 .. Len(s) : f[i] = Firsts(s)[i]
      /\ f[Len(s) + 1] = x
  BY <1>5, AppendProperties
<1>7. Firsts(t) \in Seq(Req \cup Writebacks) /\ Len(Firsts(t)) = Len(s) + 1
  BY <1>3, FirstsQueue
<1> HIDE DEF t, f
<1>8. ASSUME NEW i \in 1 .. Len(s) + 1 PROVE Firsts(t)[i] = f[i]
  <2>1. Firsts(t)[i] = t[i][1]
    BY <1>4 DEF Firsts
  <2>2. CASE i \in 1 .. Len(s)
    BY <1>3, <1>4, <1>6, <2>1, <2>2 DEF Firsts
  <2>3. CASE i = Len(s) + 1
    BY <1>3, <1>6, <2>1, <2>3
  <2> QED
    BY <1>3, <2>2, <2>3
<1>9. Firsts(t) = f
  BY <1>6, <1>7, <1>8, SeqEqual
<1> QED
  BY <1>3, <1>9 DEF t, f

\* A request that leaves it.
LEMMA FirstsTail ==
    ASSUME NEW s \in Seq(Timed), s # <<>>
    PROVE  /\ Tail(s) \in Seq(Timed)
           /\ Firsts(Tail(s)) = Tail(Firsts(s))
<1> DEFINE t == Tail(s)
           f == Tail(Firsts(s))
<1>1. /\ t \in Seq(Timed) /\ Len(t) = Len(s) - 1 /\ Len(s) \in Nat \ {0}
      /\ \A i \in 1 .. Len(s) - 1 : t[i] = s[i + 1]
      /\ DOMAIN s = 1 .. Len(s) /\ DOMAIN t = 1 .. Len(s) - 1
  BY HeadTailProperties, LenProperties, EmptySeq
<1>2. /\ Firsts(s) \in Seq(Req \cup Writebacks) /\ Len(Firsts(s)) = Len(s)
      /\ Firsts(s) # <<>>
  BY FirstsQueue
<1>3. /\ f \in Seq(Req \cup Writebacks) /\ Len(f) = Len(s) - 1
      /\ \A i \in 1 .. Len(s) - 1 : f[i] = Firsts(s)[i + 1]
  BY <1>2, HeadTailProperties
<1>4. Firsts(t) \in Seq(Req \cup Writebacks) /\ Len(Firsts(t)) = Len(s) - 1
  BY <1>1, FirstsQueue
<1> HIDE DEF t, f
<1>5. ASSUME NEW i \in 1 .. Len(s) - 1 PROVE Firsts(t)[i] = f[i]
  <2>1. i \in DOMAIN t /\ i + 1 \in DOMAIN s
    BY <1>1
  <2>2. Firsts(t)[i] = t[i][1] /\ Firsts(s)[i + 1] = s[i + 1][1]
    BY <2>1 DEF Firsts
  <2> QED
    BY <1>1, <1>3, <2>2
<1>6. Firsts(t) = f
  BY <1>3, <1>4, <1>5, SeqEqual
<1> QED
  BY <1>1, <1>6 DEF t, f

\* Time passes and changes no request.
LEMMA FirstsAged ==
    ASSUME NEW s \in Seq(Timed)
    PROVE  Aged(s) \in Seq(Timed) /\ Firsts(Aged(s)) = Firsts(s)
<1>1. /\ Len(s) \in Nat /\ DOMAIN s = 1 .. Len(s)
      /\ \A i \in 1 .. Len(s) : s[i] \in Timed
  BY LenProperties, ElementOfSeq
<1>2. \A i \in 1 .. Len(s) :
        <<s[i][1], IF s[i][2] > 0 THEN s[i][2] - 1 ELSE 0>> \in Timed
  BY <1>1 DEF Timed
<1>3. Aged(s) \in [1 .. Len(s) -> Timed]
  BY <1>1, <1>2 DEF Aged
<1>4. Aged(s) \in Seq(Timed)
  BY <1>1, <1>3
<1>5. DOMAIN Aged(s) = DOMAIN s /\ \A i \in DOMAIN s : Aged(s)[i][1] = s[i][1]
  BY DEF Aged
<1> QED
  BY <1>4, <1>5 DEF Firsts

-----------------------------------------------------------------------------
(* The invariant *)

\* No read is here yet.
LEMMA PathInvInit == Init => PathInv
<1> SUFFICES ASSUME Init PROVE PathInv
  OBVIOUS
<1> USE DEF Init
<1>1. CacheInv /\ m_miss_queue = <<>>
  BY CacheInvInit DEF CacheInit
<1>2. PathTypes
  BY EmptyQueue DEF PathTypes
<1>3. Firsts(<<>>) = <<>>
  BY DEF Firsts
<1>4. QueuesOnce
  BY <1>3, EmptyOnce DEF QueuesOnce
<1>5. \A r \in Req : ~Waiting(r)
  BY CacheAssumption, EmptyQueue DEF Waiting, CacheInit
<1>6. ToSet(<<>>) = {}
  BY EmptyQueue
<1>7. ReadPlace /\ FetchPlace
  BY <1>1, <1>3, <1>5, <1>6 DEF ReadPlace, FetchPlace
<1> QED
  BY <1>1, <1>2, <1>4, <1>7 DEF PathInv

\* Every step of the cycle keeps the invariant, one case per stage.
LEMMA PathInvStep == PathInv /\ [Next]_vars => PathInv'
<1> SUFFICES ASSUME PathInv, [Next]_vars PROVE PathInv'
  OBVIOUS
<1> USE DEF PathInv
<1>1. ASSUME NEW r \in Req, Arrive(r) PROVE PathInv'
  <2>1. /\ r \in pending
        /\ pending' = pending \ {r}
        /\ toq' = Append(toq, r)
        /\ UNCHANGED <<cacheVars, latq, d2m, answered>>
    BY <1>1 DEF Arrive
  <2>2. /\ CacheInv'
        /\ \A x \in Req : Waiting(x)' <=> Waiting(x)
        /\ UNCHANGED <<m_extra_mf_fields, m_miss_queue>>
    BY <2>1, CacheInvStutter
  <2>3. r \notin ToSet(toq)
    BY <2>1 DEF ReadPlace
  <2>4. /\ toq' \in Seq(Req)
        /\ ToSet(toq') = ToSet(toq) \cup {r}
    BY <2>1, AppendQueue DEF PathTypes
  <2>5. Once(toq', Req)
    BY <2>1, <2>3, AppendOnce DEF PathTypes, QueuesOnce
  <2>6. PathTypes'
    BY <2>1, <2>4 DEF PathTypes
  <2>7. QueuesOnce'
    BY <2>1, <2>5 DEF QueuesOnce
  <2>8. ReadPlace'
    BY <2>1, <2>2, <2>4 DEF ReadPlace
  <2>9. FetchPlace'
    BY <2>1, <2>2 DEF FetchPlace
  <2> QED
    BY <2>2, <2>6, <2>7, <2>8, <2>9
<1>2. ASSUME NoArrival \/ UNCHANGED vars PROVE PathInv'
  <2>1. UNCHANGED <<cacheVars, pathVars>>
    BY <1>2 DEF NoArrival, vars
  <2>2. /\ CacheInv'
        /\ \A x \in Req : Waiting(x)' <=> Waiting(x)
        /\ UNCHANGED <<m_extra_mf_fields, m_miss_queue>>
    BY <2>1, CacheInvStutter
  <2>3. PathTypes' /\ QueuesOnce'
    BY <2>1 DEF PathTypes, QueuesOnce, pathVars
  <2>4. ReadPlace'
    BY <2>1, <2>2 DEF ReadPlace, pathVars
  <2>5. FetchPlace'
    BY <2>1, <2>2 DEF FetchPlace, pathVars
  <2> QED
    BY <2>2, <2>3, <2>4, <2>5
<1>3. ASSUME Respond PROVE PathInv'
  <2>1. UNCHANGED <<pending, toq, latq, d2m>>
    BY <1>3 DEF Respond
  <2>2. CASE access_ready
    <3>1. next_access /\ answered' = answered \cup {next_read}
      BY <1>3, <2>2 DEF Respond
    <3>2. /\ CacheInv'
          /\ next_read \in Req
          /\ Waiting(next_read)
          /\ \A x \in Req : Waiting(x)' <=> Waiting(x) /\ x # next_read
          /\ UNCHANGED <<m_extra_mf_fields, m_miss_queue>>
      BY <2>2, <3>1, NextKeeps
    <3>3. PathTypes' /\ QueuesOnce'
      BY <2>1, <3>1, <3>2 DEF PathTypes, QueuesOnce
    <3>4. ReadPlace'
      BY <2>1, <3>1, <3>2 DEF ReadPlace
    <3>5. FetchPlace'
      BY <2>1, <3>2 DEF FetchPlace
    <3> QED
      BY <3>2, <3>3, <3>4, <3>5
  <2>3. CASE ~access_ready
    <3>1. UNCHANGED <<cacheVars, answered>>
      BY <1>3, <2>3 DEF Respond
    <3>2. /\ CacheInv'
          /\ \A x \in Req : Waiting(x)' <=> Waiting(x)
          /\ UNCHANGED <<m_extra_mf_fields, m_miss_queue>>
      BY <3>1, CacheInvStutter
    <3>3. PathTypes' /\ QueuesOnce'
      BY <2>1, <3>1 DEF PathTypes, QueuesOnce
    <3>4. ReadPlace'
      BY <2>1, <3>1, <3>2 DEF ReadPlace
    <3>5. FetchPlace'
      BY <2>1, <3>2 DEF FetchPlace
    <3> QED
      BY <3>2, <3>3, <3>4, <3>5
  <2> QED
    BY <2>2, <2>3
<1>4. ASSUME Fill PROVE PathInv'
  <2>1. UNCHANGED <<pending, toq, latq, answered>>
    BY <1>4 DEF Fill
  <2>2. CASE d2m # <<>>
    <3> DEFINE r == Head(d2m)
    <3>1. /\ d2m' = Tail(d2m)
          /\ IF r \in m_extra_mf_fields THEN fill(r) ELSE UNCHANGED cacheVars
      BY <1>4, <2>2 DEF Fill
    <3>2. /\ d2m' \in Seq(Req)
          /\ ToSet(d2m) = ToSet(d2m') \cup {r}
          /\ r \in Req
      BY <2>2, <3>1, TailQueue DEF PathTypes
    <3>3. Once(d2m', Req) /\ (r \in Req => r \notin ToSet(d2m'))
      BY <2>2, <3>1, TailOnce DEF PathTypes, QueuesOnce
    <3>4. /\ r \in m_extra_mf_fields
          /\ r \notin ToSet(m_miss_queue)
          /\ r \notin ToSet(Firsts(latq))
      BY <3>2 DEF FetchPlace
    <3>5. fill(r)
      BY <3>1, <3>4
    <3>6. CacheInv'
      BY <3>4, <3>5, FillKeeps
    <3>7. /\ \A x \in Req : Waiting(x)' <=> Waiting(x)
          /\ m_extra_mf_fields' = m_extra_mf_fields \ {r}
          /\ m_miss_queue' = m_miss_queue
      BY <3>5 DEF fill, Waiting
    <3>8. PathTypes' /\ QueuesOnce'
      BY <2>1, <3>2, <3>3 DEF PathTypes, QueuesOnce
    <3>9. ReadPlace'
      BY <2>1, <3>7 DEF ReadPlace
    <3>10. FetchPlace'
      BY <2>1, <3>2, <3>3, <3>4, <3>7 DEF FetchPlace
    <3> QED
      BY <3>6, <3>8, <3>9, <3>10
  <2>3. CASE d2m = <<>>
    <3>1. UNCHANGED <<cacheVars, d2m>>
      BY <1>4, <2>3 DEF Fill
    <3>2. /\ CacheInv'
          /\ \A x \in Req : Waiting(x)' <=> Waiting(x)
          /\ UNCHANGED <<m_extra_mf_fields, m_miss_queue>>
      BY <3>1, CacheInvStutter
    <3>3. PathTypes' /\ QueuesOnce'
      BY <2>1, <3>1 DEF PathTypes, QueuesOnce
    <3>4. ReadPlace'
      BY <2>1, <3>2 DEF ReadPlace
    <3>5. FetchPlace'
      BY <2>1, <3>1, <3>2 DEF FetchPlace
    <3> QED
      BY <3>2, <3>3, <3>4, <3>5
  <2> QED
    BY <2>2, <2>3
<1>5. ASSUME Miss PROVE PathInv'
  <2>1. /\ cache_cycle(m_miss_queue # <<>>)
        /\ UNCHANGED <<pending, toq, d2m, answered>>
    BY <1>5 DEF Miss
  <2>2. /\ CacheInv'
        /\ m_miss_queue # <<>> => /\ Head(m_miss_queue) \in Req \cup Writebacks
                                  /\ Head(m_miss_queue) \in ToSet(m_miss_queue)
        /\ \A x \in Req : x \in ToSet(m_miss_queue')
                             <=> /\ x \in ToSet(m_miss_queue)
                                 /\ ~(m_miss_queue # <<>> /\ x = Head(m_miss_queue))
        /\ UNCHANGED <<mshr, m_extra_mf_fields>>
    BY <2>1, CycleKeeps
  <2>3. \A x \in Req : Waiting(x)' <=> Waiting(x)
    BY <2>2 DEF Waiting
  <2>4. ReadPlace'
    BY <2>1, <2>3 DEF ReadPlace
  <2>5. CASE m_miss_queue # <<>>
    <3> DEFINE h == Head(m_miss_queue)
    <3>1. latq' = latq \o << <<h, DramLatency>> >>
      BY <1>5, <2>5 DEF Miss
    <3>2. h \in Req \cup Writebacks /\ DramLatency \in Nat /\ latq \in Seq(Timed)
      BY <2>2, <2>5, LatencyAssumption DEF PathTypes
    <3> HIDE DEF h
    <3>3. latq' \in Seq(Timed) /\ Firsts(latq') = Append(Firsts(latq), h)
      BY <3>1, <3>2, FirstsAppend
    <3>4. Firsts(latq) \in Seq(Req \cup Writebacks)
      BY <3>2, FirstsQueue
    <3>5. ToSet(Firsts(latq')) = ToSet(Firsts(latq)) \cup {h}
      BY <3>2, <3>3, <3>4, AppendQueue
    <3>6. h \in Req => /\ h \notin ToSet(Firsts(latq)) \cup ToSet(d2m)
                       /\ h \in m_extra_mf_fields
      BY <2>2, <2>5 DEF FetchPlace, CacheInv, SentOnce, h
    <3>7. Once(Firsts(latq'), Req)
      BY <3>2, <3>3, <3>4, <3>6, AppendOnce DEF QueuesOnce
    <3>8. PathTypes' /\ QueuesOnce'
      BY <2>1, <3>3, <3>7 DEF PathTypes, QueuesOnce
    <3>9. FetchPlace'
      BY <2>1, <2>2, <2>5, <3>5, <3>6 DEF FetchPlace, h
    <3> QED
      BY <2>2, <2>4, <3>8, <3>9
  <2>6. CASE m_miss_queue = <<>>
    <3>1. latq' = latq
      <4>1. latq' = latq \o <<>>
        BY <1>5, <2>6 DEF Miss
      <4> QED
        BY <4>1 DEF PathTypes
    <3>2. PathTypes' /\ QueuesOnce'
      BY <2>1, <3>1 DEF PathTypes, QueuesOnce
    <3>3. FetchPlace'
      BY <2>1, <2>2, <3>1 DEF FetchPlace
    <3> QED
      BY <2>2, <2>4, <3>2, <3>3
  <2> QED
    BY <2>5, <2>6
<1>6. ASSUME Access PROVE PathInv'
  <2>1. UNCHANGED <<pending, latq, d2m>>
    BY <1>6 DEF Access
  <2>2. CASE toq # <<>> /\ data_port_free
    <3> DEFINE r == Head(toq)
    <3>1. /\ access(r)
          /\ answered' = IF access_outcome(r) = "HIT" THEN answered \cup {r}
                         ELSE answered
          /\ toq' = IF access_outcome(r) = "RESERVATION_FAIL" THEN toq ELSE Tail(toq)
      BY <1>6, <2>2 DEF Access
    <3>2. /\ r \in Req
          /\ r \in ToSet(toq)
          /\ Tail(toq) \in Seq(Req)
          /\ ToSet(toq) = ToSet(Tail(toq)) \cup {r}
      BY <2>2, TailQueue DEF PathTypes
    <3>3. Once(Tail(toq), Req) /\ (r \in Req => r \notin ToSet(Tail(toq)))
      BY <2>2, TailOnce DEF PathTypes, QueuesOnce
    <3>4. ~Waiting(r) /\ r \notin answered /\ r \notin pending
      BY <3>2 DEF ReadPlace
    <3> HIDE DEF r
    <3>5. CASE access_outcome(r) = "HIT"
      <4>1. rd_hit_base(r) /\ answered' = answered \cup {r} /\ toq' = Tail(toq)
        BY <3>1, <3>5 DEF access
      <4>2. CacheInv'
        BY <3>2, <4>1, HitKeeps
      <4>3. /\ \A x \in Req : Waiting(x)' <=> Waiting(x)
            /\ UNCHANGED <<m_extra_mf_fields, m_miss_queue>>
        BY <4>1 DEF rd_hit_base, Waiting
      <4>4. PathTypes' /\ QueuesOnce'
        BY <2>1, <3>2, <3>3, <4>1 DEF PathTypes, QueuesOnce
      <4>5. ReadPlace'
        BY <2>1, <3>2, <3>3, <3>4, <4>1, <4>3 DEF ReadPlace
      <4>6. FetchPlace'
        BY <2>1, <4>3 DEF FetchPlace
      <4> QED
        BY <4>2, <4>4, <4>5, <4>6
    <3>6. CASE access_outcome(r) = "MISS"
      <4>1. rd_miss_base(r) /\ answered' = answered /\ toq' = Tail(toq)
        BY <3>1, <3>6 DEF access
      <4>2. /\ CacheInv'
            /\ \A x \in Req :
                 /\ Waiting(x)' <=> Waiting(x) \/ x = r
                 /\ x \in m_extra_mf_fields'
                       <=> \/ x \in m_extra_mf_fields
                           \/ x = r /\ BlockOf[r] \notin Entries
                 /\ x \in ToSet(m_miss_queue')
                       <=> \/ x \in ToSet(m_miss_queue)
                           \/ x = r /\ BlockOf[r] \notin Entries
        BY <3>2, <3>4, <4>1, MissKeeps
      <4>3. r \notin ToSet(Firsts(latq)) \cup ToSet(d2m)
        BY <3>2, <3>4, FetchWaits DEF FetchPlace
      <4>4. PathTypes' /\ QueuesOnce'
        BY <2>1, <3>2, <3>3, <4>1 DEF PathTypes, QueuesOnce
      <4>5. ReadPlace'
        BY <2>1, <3>2, <3>3, <3>4, <4>1, <4>2 DEF ReadPlace
      <4>6. FetchPlace'
        BY <2>1, <4>2, <4>3 DEF FetchPlace
      <4> QED
        BY <4>2, <4>4, <4>5, <4>6
    <3>7. CASE access_outcome(r) = "RESERVATION_FAIL"
      <4>1. UNCHANGED cacheVars /\ answered' = answered /\ toq' = toq
        BY <3>1, <3>7 DEF access
      <4>2. /\ CacheInv'
            /\ \A x \in Req : Waiting(x)' <=> Waiting(x)
            /\ UNCHANGED <<m_extra_mf_fields, m_miss_queue>>
        BY <4>1, CacheInvStutter
      <4>3. PathTypes' /\ QueuesOnce'
        BY <2>1, <4>1 DEF PathTypes, QueuesOnce
      <4>4. ReadPlace'
        BY <2>1, <4>1, <4>2 DEF ReadPlace
      <4>5. FetchPlace'
        BY <2>1, <4>2 DEF FetchPlace
      <4> QED
        BY <4>2, <4>3, <4>4, <4>5
    <3>8. access_outcome(r) \in {"HIT", "MISS", "RESERVATION_FAIL"}
      BY DEF access_outcome
    <3> QED
      BY <3>5, <3>6, <3>7, <3>8
  <2>3. CASE ~(toq # <<>> /\ data_port_free)
    <3>1. UNCHANGED <<cacheVars, answered, toq>>
      BY <1>6, <2>3 DEF Access
    <3>2. /\ CacheInv'
          /\ \A x \in Req : Waiting(x)' <=> Waiting(x)
          /\ UNCHANGED <<m_extra_mf_fields, m_miss_queue>>
      BY <3>1, CacheInvStutter
    <3>3. PathTypes' /\ QueuesOnce'
      BY <2>1, <3>1 DEF PathTypes, QueuesOnce
    <3>4. ReadPlace'
      BY <2>1, <3>1, <3>2 DEF ReadPlace
    <3>5. FetchPlace'
      BY <2>1, <3>2 DEF FetchPlace
    <3> QED
      BY <3>2, <3>3, <3>4, <3>5
  <2> QED
    BY <2>2, <2>3
<1>7. ASSUME LatencyOver PROVE PathInv'
  <2> DEFINE r == Head(latq)[1]
  <2>1. /\ latq # <<>>
        /\ d2m' = IF r \in Writebacks THEN d2m ELSE Append(d2m, r)
        /\ latq' = Aged(Tail(latq))
        /\ UNCHANGED <<cacheVars, pending, toq, answered>>
    BY <1>7 DEF LatencyOver
  <2>2. /\ CacheInv'
        /\ \A x \in Req : Waiting(x)' <=> Waiting(x)
        /\ UNCHANGED <<m_extra_mf_fields, m_miss_queue>>
    BY <2>1, CacheInvStutter
  <2>3. /\ Firsts(latq) \in Seq(Req \cup Writebacks)
        /\ Firsts(latq) # <<>>
        /\ Head(Firsts(latq)) = r
    BY <2>1, FirstsQueue DEF PathTypes
  <2>4. Tail(latq) \in Seq(Timed) /\ Firsts(Tail(latq)) = Tail(Firsts(latq))
    BY <2>1, FirstsTail DEF PathTypes
  <2>5. latq' \in Seq(Timed) /\ Firsts(latq') = Tail(Firsts(latq))
    BY <2>1, <2>4, FirstsAged
  <2> HIDE DEF r
  <2>6. /\ r \in Req \cup Writebacks
        /\ ToSet(Firsts(latq)) = ToSet(Firsts(latq')) \cup {r}
    BY <2>3, <2>5, TailQueue
  <2>7. /\ Once(Firsts(latq'), Req)
        /\ r \in Req => r \notin ToSet(Firsts(latq'))
    BY <2>3, <2>5, TailOnce DEF QueuesOnce
  <2>8. ReadPlace'
    BY <2>1, <2>2 DEF ReadPlace
  <2>9. CASE r \in Writebacks
    <3>1. d2m' = d2m /\ r \notin Req
      BY <2>1, <2>9, WritebackAssumption
    <3>2. PathTypes' /\ QueuesOnce'
      BY <2>1, <2>5, <2>7, <3>1 DEF PathTypes, QueuesOnce
    <3>3. FetchPlace'
      BY <2>2, <2>6, <3>1 DEF FetchPlace
    <3> QED
      BY <2>2, <2>8, <3>2, <3>3
  <2>10. CASE r \notin Writebacks
    <3>1. d2m' = Append(d2m, r) /\ r \in Req
      BY <2>1, <2>6, <2>10
    <3>2. r \notin ToSet(d2m) /\ r \notin ToSet(m_miss_queue)
          /\ r \in m_extra_mf_fields
      BY <2>6, <3>1 DEF FetchPlace
    <3>3. d2m' \in Seq(Req) /\ ToSet(d2m') = ToSet(d2m) \cup {r}
      BY <3>1, AppendQueue DEF PathTypes
    <3>4. Once(d2m', Req)
      BY <3>1, <3>2, AppendOnce DEF PathTypes, QueuesOnce
    <3>5. PathTypes' /\ QueuesOnce'
      BY <2>1, <2>5, <2>7, <3>3, <3>4 DEF PathTypes, QueuesOnce
    <3>6. FetchPlace'
      BY <2>2, <2>6, <2>7, <3>1, <3>2, <3>3 DEF FetchPlace
    <3> QED
      BY <2>2, <2>8, <3>5, <3>6
  <2> QED
    BY <2>9, <2>10
<1>8. ASSUME LatencyStall PROVE PathInv'
  <2>1. /\ latq' = Aged(latq)
        /\ UNCHANGED <<cacheVars, pending, toq, d2m, answered>>
    BY <1>8 DEF LatencyStall
  <2>2. /\ CacheInv'
        /\ \A x \in Req : Waiting(x)' <=> Waiting(x)
        /\ UNCHANGED <<m_extra_mf_fields, m_miss_queue>>
    BY <2>1, CacheInvStutter
  <2>3. latq' \in Seq(Timed) /\ Firsts(latq') = Firsts(latq)
    BY <2>1, FirstsAged DEF PathTypes
  <2>4. PathTypes' /\ QueuesOnce'
    BY <2>1, <2>3 DEF PathTypes, QueuesOnce
  <2>5. ReadPlace'
    BY <2>1, <2>2 DEF ReadPlace
  <2>6. FetchPlace'
    BY <2>1, <2>2, <2>3 DEF FetchPlace
  <2> QED
    BY <2>2, <2>4, <2>5, <2>6
<1> QED
  BY <1>1, <1>2, <1>3, <1>4, <1>5, <1>6, <1>7, <1>8 DEF Next

\* PathInv holds in every reachable state.
THEOREM PathInvariance == Spec => []PathInv
BY PathInvInit, PathInvStep, PTL DEF Spec

-----------------------------------------------------------------------------
(* What follows from it *)

\* Every response from memory is for a read that waits for it, first in its
\* MSHR entry: the branch at l2cache.cc:988 that drops a response is never
\* taken and mark_ready (gpu-cache.cc:557) finds its entry, in every reachable
\* state.
THEOREM FillsAwaited == Spec => []FillsAreAwaited
<1>1. PathInv => FillsAreAwaited
  <2> SUFFICES ASSUME PathInv, NEW r \in ToSet(d2m) \cup InLatency, r \in Req
               PROVE  /\ r \in m_extra_mf_fields
                      /\ mshr[BlockOf[r]] # <<>>
                      /\ Head(mshr[BlockOf[r]]) = r
    BY DEF FillsAreAwaited
  <2>1. InLatency = ToSet(Firsts(latq))
    BY DEF InLatency, ToSet, Firsts
  <2>2. r \in m_extra_mf_fields
    BY <2>1 DEF PathInv, FetchPlace
  <2> QED
    BY <2>2 DEF PathInv, CacheInv, FetchIsFirst
<1> QED
  BY <1>1, PathInvariance, PTL

\* A read is in one MSHR entry at most, that of its block, and there once.
LEMMA MergedCount ==
    ASSUME CacheInv, NEW r \in Req
    PROVE  Merged(r) = IF Waiting(r) THEN 1 ELSE 0
<1> DEFINE b == BlockOf[r]
           P == Positions(r, mshr[b])
           U == UNION {{c} \X Positions(r, mshr[c]) : c \in Block}
<1>1. b \in Block /\ mshr[b] \in Seq(Req) /\ Once(mshr[b], Req)
  BY CacheAssumption DEF CacheInv, CacheTypeOK, MergedOnce
<1>2. ASSUME NEW c \in Block, c # b PROVE Positions(r, mshr[c]) = {}
  BY <1>2 DEF CacheInv, MergedOnce, Positions, ToSet
<1>3. U = {b} \X P
  BY <1>1, <1>2
<1>4. CASE Waiting(r)
  <2>1. PICK i \in DOMAIN mshr[b] : mshr[b][i] = r
    BY <1>4 DEF Waiting, ToSet
  <2>2. P = {i}
    BY <1>1, <2>1 DEF Positions, Once
  <2>3. {b} \X P = {<<b, i>>}
    BY <2>2
  <2> QED
    BY <1>3, <1>4, <2>3, FS_Singleton DEF Merged
<1>5. CASE ~Waiting(r)
  <2>1. P = {}
    BY <1>5 DEF Waiting, ToSet, Positions
  <2>2. {b} \X P = {}
    BY <2>1
  <2> QED
    BY <1>3, <1>5, <2>2, FS_EmptySet DEF Merged
<1> QED
  BY <1>4, <1>5

\* Merging and retrying neither lose nor duplicate a read: in every reachable
\* state each read is in exactly one place.
THEOREM ReadsInOnePlace == Spec => []OnePlace
<1>1. PathInv => OnePlace
  <2> SUFFICES ASSUME PathInv, NEW r \in Req
               PROVE  Merged(r) + Queued(r) + Cardinality({r} \cap pending)
                         + Cardinality({r} \cap answered) = 1
    BY DEF OnePlace
  <2>1. Merged(r) = IF Waiting(r) THEN 1 ELSE 0
    BY MergedCount DEF PathInv
  <2>2. Queued(r) = IF r \in ToSet(toq) THEN 1 ELSE 0
    BY OnceCount DEF Queued, Positions, PathInv, PathTypes, QueuesOnce
  <2>3. ASSUME NEW S PROVE Cardinality({r} \cap S) = IF r \in S THEN 1 ELSE 0
    <3>1. CASE r \in S
      <4>1. {r} \cap S = {r}
        BY <3>1
      <4> QED
        BY <3>1, <4>1, FS_Singleton
    <3>2. CASE r \notin S
      <4>1. {r} \cap S = {}
        BY <3>2
      <4> QED
        BY <3>2, <4>1, FS_EmptySet
    <3> QED
      BY <3>1, <3>2
  <2>4. /\ Cardinality({r} \cap pending) = IF r \in pending THEN 1 ELSE 0
        /\ Cardinality({r} \cap answered) = IF r \in answered THEN 1 ELSE 0
    BY <2>3
  <2> QED
    BY <2>1, <2>2, <2>4 DEF PathInv, ReadPlace
<1> QED
  BY <1>1, PathInvariance, PTL

-----------------------------------------------------------------------------
(* Capacities *)

\* Every step of the cycle keeps the capacities.
LEMMA BoundsStep == PathInv /\ CacheBounds /\ [Next]_vars => CacheBounds'
<1> SUFFICES ASSUME PathInv, CacheBounds, [Next]_vars PROVE CacheBounds'
  OBVIOUS
<1>1. CacheInv /\ PathTypes
  BY DEF PathInv
<1>2. ASSUME UNCHANGED cacheVars PROVE CacheBounds'
  BY <1>2 DEF cacheVars, CacheBounds, Cached, Entries, FetchIsReserved
<1>3. ASSUME NEW r \in Req, Arrive(r) PROVE CacheBounds'
  BY <1>2, <1>3 DEF Arrive
<1>4. ASSUME NoArrival \/ LatencyOver \/ LatencyStall \/ UNCHANGED vars
      PROVE  CacheBounds'
  BY <1>2, <1>4 DEF NoArrival, LatencyOver, LatencyStall, vars
<1>5. ASSUME Respond PROVE CacheBounds'
  <2>1. (access_ready /\ next_access) \/ UNCHANGED cacheVars
    BY <1>5 DEF Respond
  <2> QED
    BY <1>1, <1>2, <2>1, NextBounds
<1>6. ASSUME Fill PROVE CacheBounds'
  <2>1. \/ UNCHANGED cacheVars
        \/ Head(d2m) \in m_extra_mf_fields /\ fill(Head(d2m))
    BY <1>6 DEF Fill
  <2> QED
    BY <1>1, <1>2, <2>1, FillBounds
<1>7. ASSUME Miss PROVE CacheBounds'
  <2>1. cache_cycle(m_miss_queue # <<>>)
    BY <1>7 DEF Miss
  <2> QED
    BY <1>1, <2>1, CycleBounds
<1>8. ASSUME Access PROVE CacheBounds'
  <2>1. CASE toq # <<>> /\ data_port_free
    <3> DEFINE r == Head(toq)
    <3>1. access(r)
      BY <1>8, <2>1 DEF Access
    <3>2. r \in Req /\ r \in ToSet(toq)
      BY <1>1, <2>1, TailQueue DEF PathTypes
    <3>3. ~Waiting(r)
      BY <3>2 DEF PathInv, ReadPlace
    <3> HIDE DEF r
    <3>4. CASE access_outcome(r) = "HIT"
      <4>1. rd_hit_base(r)
        BY <3>1, <3>4 DEF access
      <4> QED
        BY <1>1, <3>2, <3>4, <4>1, HitBounds
    <3>5. CASE access_outcome(r) = "MISS"
      <4>1. rd_miss_base(r)
        BY <3>1, <3>5 DEF access
      <4> QED
        BY <1>1, <3>2, <3>3, <3>5, <4>1, MissBounds
    <3>6. CASE access_outcome(r) \notin {"HIT", "MISS"}
      <4>1. UNCHANGED cacheVars
        BY <3>1, <3>6 DEF access
      <4> QED
        BY <1>2, <4>1
    <3> QED
      BY <3>4, <3>5, <3>6
  <2>2. CASE ~(toq # <<>> /\ data_port_free)
    <3>1. UNCHANGED cacheVars
      BY <1>8, <2>2 DEF Access
    <3> QED
      BY <1>2, <3>1
  <2> QED
    BY <2>1, <2>2
<1> QED
  BY <1>3, <1>4, <1>5, <1>6, <1>7, <1>8 DEF Next

\* The assertions of mshr_table::add and the size of a set hold in every
\* reachable state, although the reads of several blocks compete for the table,
\* a merged read may arrive at any time, and a miss is refused only when it
\* finds no room.
THEOREM CapacitiesAreKept == Spec => []CapacitiesHold
<1>1. Init => CacheBounds
  BY BoundsInit DEF Init
<1>2. CacheBounds => CapacitiesHold
  BY DEF CacheBounds, CapacitiesHold
<1> QED
  BY <1>1, <1>2, BoundsStep, PathInvariance, PTL DEF Spec

-----------------------------------------------------------------------------
(* Lines that are reserved for ever *)

\* The line is reserved for a fill that nobody has asked for: it is never
\* replaced, and a read of its block waits for ever.
Stranded(b) == /\ line[b] = "RESERVED"
               /\ \A r \in m_extra_mf_fields : BlockOf[r] # b

\* The read at the head of the queue joins the entry of b while the entry is
\* being answered and after the line of b has been evicted (gpu-cache.cc:1139:
\* the tag is allocated, and no read is sent because the entry is there).
LateJoin(b) == /\ Access
               /\ toq # <<>> /\ BlockOf[Head(toq)] = b
               /\ b \in ToSet(m_current_response)
               /\ line[b] = "INVALID"
               /\ Len(mshr[b]) < MaxMerged

\* An entry is being answered, or the read that it was made for waits for its
\* fill.
EntriesFetched ==
    \A y \in Req : Waiting(y) =>
        \/ BlockOf[y] \in ToSet(m_current_response)
        \/ \E r \in m_extra_mf_fields : BlockOf[r] = BlockOf[y]

\* An entry that has been answered to the end holds no read.
LEMMA NextFetched ==
    ASSUME CacheInv, EntriesFetched, access_ready, next_access
    PROVE  EntriesFetched'
<1> DEFINE b == Head(m_current_response)
           t == Tail(mshr[b])
<1>1. /\ m_current_response \in Seq(Block) /\ m_current_response # <<>>
      /\ mshr \in [Block -> Seq(Req)]
  BY DEF CacheInv, CacheTypeOK, access_ready
<1>2. /\ b \in Block
      /\ ToSet(m_current_response) = ToSet(Tail(m_current_response)) \cup {b}
  BY <1>1, TailQueue
<1>3. mshr'[b] = t
  BY <1>1, <1>2 DEF next_access, Remaining
<1>4. m_current_response' = IF t = <<>> THEN Tail(m_current_response)
                            ELSE m_current_response
  BY DEF next_access, Remaining
<1>5. /\ \A x \in Req : Waiting(x)' => Waiting(x)
      /\ m_extra_mf_fields' = m_extra_mf_fields
  BY NextKeeps
<1> HIDE DEF t, b
<1>6. ASSUME NEW y \in Req, Waiting(y)', t = <<>> PROVE BlockOf[y] # b
  <2>1. ToSet(t) = {}
    BY <1>6, EmptyQueue
  <2> QED
    BY <1>3, <1>6, <2>1 DEF Waiting
<1> SUFFICES ASSUME NEW y \in Req, Waiting(y)'
             PROVE  \/ BlockOf[y] \in ToSet(m_current_response')
                    \/ \E r \in m_extra_mf_fields : BlockOf[r] = BlockOf[y]
  BY <1>5 DEF EntriesFetched
<1>7. \/ BlockOf[y] \in ToSet(m_current_response)
      \/ \E r \in m_extra_mf_fields : BlockOf[r] = BlockOf[y]
  BY <1>5 DEF EntriesFetched
<1>8. CASE t = <<>>
  BY <1>2, <1>4, <1>6, <1>7, <1>8
<1>9. CASE t # <<>>
  BY <1>4, <1>7, <1>9
<1> QED
  BY <1>8, <1>9

\* A fill makes its entry one that is being answered.
LEMMA FillFetched ==
    ASSUME CacheInv, EntriesFetched, NEW r \in m_extra_mf_fields, fill(r)
    PROVE  EntriesFetched'
<1>1. /\ r \in Req /\ BlockOf[r] \in Block /\ m_current_response \in Seq(Block)
      /\ m_current_response' = Append(m_current_response, BlockOf[r])
      /\ m_extra_mf_fields' = m_extra_mf_fields \ {r}
      /\ mshr' = mshr
  BY CacheAssumption DEF CacheInv, CacheTypeOK, fill
<1>2. ToSet(m_current_response') = ToSet(m_current_response) \cup {BlockOf[r]}
  BY <1>1, AppendQueue
<1> QED
  BY <1>1, <1>2 DEF EntriesFetched, Waiting

\* A read joins an entry or makes one and fetches.
LEMMA MissFetched ==
    ASSUME CacheInv, EntriesFetched, NEW r \in Req, ~Waiting(r), rd_miss_base(r)
    PROVE  EntriesFetched'
<1> DEFINE b == BlockOf[r]
<1>1. m_current_response' = m_current_response /\ b \in Block
  BY CacheAssumption DEF rd_miss_base
<1>2. \A x \in Req : /\ Waiting(x)' <=> Waiting(x) \/ x = r
                     /\ x \in m_extra_mf_fields'
                           <=> \/ x \in m_extra_mf_fields
                               \/ x = r /\ b \notin Entries
  BY MissKeeps
<1>3. m_extra_mf_fields \subseteq Req
  BY DEF CacheInv, CacheTypeOK
<1>4. ASSUME b \in Entries PROVE \E y \in Req : Waiting(y) /\ BlockOf[y] = b
  <2>1. /\ mshr[b] # <<>> /\ mshr[b] \in Seq(Req)
        /\ \A x \in ToSet(mshr[b]) : BlockOf[x] = b
    BY <1>1, <1>4 DEF Entries, CacheInv, CacheTypeOK, MergedOnce
  <2>2. Head(mshr[b]) \in Req /\ Head(mshr[b]) \in ToSet(mshr[b])
    BY <2>1, TailQueue
  <2> QED
    BY <2>1, <2>2 DEF Waiting
<1>5. \/ b \in ToSet(m_current_response)
      \/ \E x \in m_extra_mf_fields' : BlockOf[x] = b
  <2>1. CASE b \in Entries
    BY <1>2, <1>3, <1>4, <2>1 DEF EntriesFetched
  <2>2. CASE b \notin Entries
    BY <1>2, <2>2
  <2> QED
    BY <2>1, <2>2
<1> SUFFICES ASSUME NEW y \in Req, Waiting(y)'
             PROVE  \/ BlockOf[y] \in ToSet(m_current_response)
                    \/ \E x \in m_extra_mf_fields' : BlockOf[x] = BlockOf[y]
  BY <1>1 DEF EntriesFetched
<1> QED
  BY <1>2, <1>3, <1>5 DEF EntriesFetched

\* What the access of a cycle is.
LEMMA AccessIs ==
    ASSUME PathInv, Access
    PROVE  \/ UNCHANGED cacheVars
           \/ /\ toq # <<>> /\ Head(toq) \in Req /\ ~Waiting(Head(toq))
              /\ \/ access_outcome(Head(toq)) = "HIT" /\ rd_hit_base(Head(toq))
                 \/ access_outcome(Head(toq)) = "MISS" /\ rd_miss_base(Head(toq))
<1>1. CASE toq # <<>> /\ data_port_free
  <2> DEFINE r == Head(toq)
  <2>1. access(r)
    BY <1>1 DEF Access
  <2>2. r \in Req /\ r \in ToSet(toq)
    BY <1>1, TailQueue DEF PathInv, PathTypes
  <2>3. ~Waiting(r)
    BY <2>2 DEF PathInv, ReadPlace
  <2> HIDE DEF r
  <2>4. \/ UNCHANGED cacheVars
        \/ access_outcome(r) = "HIT" /\ rd_hit_base(r)
        \/ access_outcome(r) = "MISS" /\ rd_miss_base(r)
    BY <2>1 DEF access
  <2> QED
    BY <1>1, <2>2, <2>3, <2>4 DEF r
<1>2. CASE ~(toq # <<>> /\ data_port_free)
  BY <1>2 DEF Access
<1> QED
  BY <1>1, <1>2

\* Every step keeps the entries fetched or answered.
LEMMA EntriesStep ==
    ASSUME PathInv, EntriesFetched, [Next]_vars
    PROVE  EntriesFetched'
<1>1. CacheInv
  BY DEF PathInv
<1>2. ASSUME UNCHANGED <<mshr, m_current_response, m_extra_mf_fields>>
      PROVE  EntriesFetched'
  BY <1>2 DEF EntriesFetched, Waiting
<1>3. CASE Respond
  BY <1>1, <1>2, <1>3, NextFetched DEF Respond, cacheVars
<1>4. CASE Fill
  <2>1. \/ UNCHANGED cacheVars
        \/ Head(d2m) \in m_extra_mf_fields /\ fill(Head(d2m))
    BY <1>4 DEF Fill
  <2> QED
    BY <1>1, <1>2, <2>1, FillFetched DEF cacheVars
<1>5. CASE Access
  <2>1. CASE rd_hit_base(Head(toq))
    BY <1>2, <2>1 DEF rd_hit_base
  <2>2. CASE Head(toq) \in Req /\ ~Waiting(Head(toq)) /\ rd_miss_base(Head(toq))
    BY <1>1, <2>2, MissFetched
  <2> QED
    BY <1>2, <1>5, <2>1, <2>2, AccessIs DEF cacheVars
<1>6. CASE Miss
  BY <1>2, <1>6 DEF Miss, cache_cycle
<1>7. CASE (\E r \in Req : Arrive(r)) \/ NoArrival \/ LatencyOver \/ LatencyStall
           \/ UNCHANGED vars
  BY <1>2, <1>7 DEF Arrive, NoArrival, LatencyOver, LatencyStall, vars, cacheVars
<1> QED
  BY <1>3, <1>4, <1>5, <1>6, <1>7 DEF Next

\* A miss strands no line but that of its own block, and that one only when it
\* joins late.
LEMMA MissStrands ==
    ASSUME CacheInv, EntriesFetched, NEW r \in Req, ~Waiting(r),
           access_outcome(r) = "MISS", rd_miss_base(r),
           NEW c \in Block, Stranded(c)', ~Stranded(c)
    PROVE  /\ BlockOf[r] = c /\ c \in ToSet(m_current_response)
           /\ line[c] = "INVALID" /\ Len(mshr[c]) < MaxMerged
<1> DEFINE b == BlockOf[r]
<1>1. /\ b \in Block /\ line \in [Block -> Status] /\ mshr \in [Block -> Seq(Req)]
      /\ m_extra_mf_fields \subseteq Req
  BY CacheAssumption DEF CacheInv, CacheTypeOK
<1>2. PICK gone \in Victims(b) : line' = Allocate(b, gone)
  BY DEF rd_miss_base
<1>3. \A x \in Req : x \in m_extra_mf_fields' <=> \/ x \in m_extra_mf_fields
                                                  \/ x = r /\ b \notin Entries
  BY MissKeeps
<1>4. line'[c] = "RESERVED" /\ \A x \in m_extra_mf_fields' : BlockOf[x] # c
  BY DEF Stranded
<1>5. \A x \in m_extra_mf_fields : BlockOf[x] # c
  BY <1>1, <1>3, <1>4
<1>6. line[c] # "RESERVED"
  BY <1>5 DEF Stranded
<1>7. c = b
  BY <1>2, <1>4, <1>6 DEF Allocate
<1>8. b \in Entries
  BY <1>3, <1>4, <1>7
<1>9. line[c] = "INVALID"
  BY <1>1, <1>6, <1>7 DEF access_outcome, probe, Status
<1>10. Len(mshr[c]) < MaxMerged
  <2>1. ~mshr_full(b)
    BY <1>6, <1>7, <1>9 DEF access_outcome
  <2>2. Len(mshr[b]) \in Nat /\ MaxMerged \in Nat
    BY <1>1, QueueElements, CacheAssumption
  <2> QED
    BY <1>7, <1>8, <2>1, <2>2 DEF mshr_full
<1>11. c \in ToSet(m_current_response)
  <2>1. /\ mshr[b] # <<>> /\ mshr[b] \in Seq(Req)
        /\ \A x \in ToSet(mshr[b]) : BlockOf[x] = b
    BY <1>1, <1>8 DEF Entries, CacheInv, MergedOnce
  <2>2. Head(mshr[b]) \in Req /\ Head(mshr[b]) \in ToSet(mshr[b])
    BY <2>1, TailQueue
  <2>3. PICK y \in Req : Waiting(y) /\ BlockOf[y] = b
    BY <2>1, <2>2 DEF Waiting
  <2> QED
    BY <1>5, <1>7, <2>3 DEF EntriesFetched
<1> QED
  BY <1>7, <1>9, <1>10, <1>11

\* No other step strands a line.
LEMMA StrandsStep ==
    ASSUME PathInv, EntriesFetched, [Next]_vars,
           NEW b \in Block, Stranded(b)', ~Stranded(b)
    PROVE  LateJoin(b)
<1>1. CacheInv /\ line \in [Block -> Status]
  BY DEF PathInv, CacheInv, CacheTypeOK
<1>2. ~UNCHANGED <<line, m_extra_mf_fields>>
  BY DEF Stranded
<1>3. CASE Fill
  <2> DEFINE r == Head(d2m)
  <2>1. r \in m_extra_mf_fields /\ fill(r)
    BY <1>2, <1>3 DEF Fill, cacheVars
  <2>2. r \in Req /\ BlockOf[r] \in Block
    BY <1>1, <2>1, CacheAssumption DEF CacheInv, CacheTypeOK
  <2> HIDE DEF r
  <2>3. /\ m_extra_mf_fields' = m_extra_mf_fields \ {r}
        /\ line'[BlockOf[r]] # "RESERVED"
        /\ \A c \in Block : c # BlockOf[r] => line'[c] = line[c]
    BY <1>1, <2>1, <2>2 DEF fill
  <2> QED
    BY <2>3 DEF Stranded
<1>4. CASE Access
  <2> DEFINE r == Head(toq)
  <2>1. /\ toq # <<>> /\ r \in Req /\ ~Waiting(r)
        /\ \/ access_outcome(r) = "HIT" /\ rd_hit_base(r)
           \/ access_outcome(r) = "MISS" /\ rd_miss_base(r)
    BY <1>2, <1>4, AccessIs DEF cacheVars
  <2>2. CASE rd_hit_base(r)
    <3>1. m_extra_mf_fields' = m_extra_mf_fields /\ BlockOf[r] \in Block
      BY <2>1, <2>2, CacheAssumption DEF rd_hit_base
    <3>2. line'[b] = "RESERVED" => line[b] = "RESERVED"
      BY <1>1, <2>2, <3>1 DEF rd_hit_base
    <3> QED
      BY <3>1, <3>2 DEF Stranded
  <2>3. CASE access_outcome(r) = "MISS" /\ rd_miss_base(r)
    <3>1. /\ BlockOf[r] = b /\ b \in ToSet(m_current_response)
          /\ line[b] = "INVALID" /\ Len(mshr[b]) < MaxMerged
      BY <1>1, <2>1, <2>3, MissStrands
    <3> QED
      BY <1>4, <2>1, <3>1 DEF LateJoin
  <2> QED
    BY <2>1, <2>2, <2>3
<1>5. CASE Respond \/ Miss
  BY <1>2, <1>5 DEF Respond, next_access, Miss, cache_cycle, cacheVars
<1>6. CASE (\E r \in Req : Arrive(r)) \/ NoArrival \/ LatencyOver \/ LatencyStall
           \/ UNCHANGED vars
  BY <1>2, <1>6 DEF Arrive, NoArrival, LatencyOver, LatencyStall, vars, cacheVars
<1> QED
  BY <1>3, <1>4, <1>5, <1>6 DEF Next

\* The empty table.
LEMMA FetchedInit == Init => EntriesFetched
<1> SUFFICES ASSUME Init PROVE EntriesFetched
  OBVIOUS
<1>1. mshr = [b \in Block |-> <<>>] /\ \A r \in Req : BlockOf[r] \in Block
  BY CacheAssumption DEF Init, CacheInit
<1> QED
  BY <1>1, EmptyQueue DEF EntriesFetched, Waiting

\* The lockup that metadata_path_lockup shows has one cause: a line becomes
\* stranded only when a read joins an entry that is being answered after the line
\* has been evicted.
THEOREM OnlyLateJoinStrands ==
    Spec => [][\A b \in Block : Stranded(b)' /\ ~Stranded(b) => LateJoin(b)]_vars
<1>1. PathInv /\ EntriesFetched /\ [Next]_vars => EntriesFetched'
  BY EntriesStep
<1>2. PathInv /\ EntriesFetched /\ [Next]_vars
         => [\A b \in Block : Stranded(b)' /\ ~Stranded(b) => LateJoin(b)]_vars
  BY StrandsStep
<1> QED
  BY <1>1, <1>2, FetchedInit, PathInvariance, PTL DEF Spec

\* A table whose entries hold one read cannot strand a line: every reserved line
\* has its fill on the way.
THEOREM SingleReadsStrandNothing ==
    ASSUME MaxMerged = 1
    PROVE  Spec => [](\A b \in Block : ~Stranded(b))
<1> DEFINE Free == \A b \in Block : ~Stranded(b)
<1>1. Init => Free
  BY DEF Init, CacheInit, Stranded
<1>2. PathInv /\ EntriesFetched /\ Free /\ [Next]_vars => Free'
  <2> SUFFICES ASSUME PathInv, EntriesFetched, Free, [Next]_vars,
                      NEW b \in Block, Stranded(b)'
               PROVE  FALSE
    OBVIOUS
  <2>1. LateJoin(b)
    BY StrandsStep
  <2>2. mshr[b] # <<>> /\ mshr[b] \in Seq(Req)
    BY <2>1 DEF LateJoin, PathInv, CacheInv, CacheTypeOK, AnsweredOnce
  <2>3. Len(mshr[b]) > 0 /\ Len(mshr[b]) < 1 /\ Len(mshr[b]) \in Nat
    BY <2>1, <2>2, QueueElements DEF LateJoin
  <2> DEFINE n == Len(mshr[b])
  <2>4. n > 0 /\ n < 1 /\ n \in Nat
    BY <2>3
  <2> HIDE DEF n
  <2> QED
    BY <2>4
<1>3. PathInv /\ EntriesFetched /\ [Next]_vars => EntriesFetched'
  BY EntriesStep
<1> HIDE DEF Free
<1>4. Spec => []Free
  BY <1>1, <1>2, <1>3, FetchedInit, PathInvariance, PTL DEF Spec
<1> QED
  BY <1>4 DEF Free
=============================================================================
