------------------------- MODULE MemPartitionProofs -------------------------
(***************************************************************************)
(* Proofs about MemPartition for every set of requests, every routing of   *)
(* them, every geometry of the metadata cache and every queue size.  The   *)
(* invariant says where a request may be and what its rewritten fields are *)
(* there; each step of dram_cycle moves at most one request from one place *)
(* to another.  On top of it, the last sections show that statistics have  *)
(* an interval, that the partition implements the credit scheme, and that  *)
(* the credits bound its queues.                                           *)
(***************************************************************************)
EXTENDS MemPartition, MetadataCacheProofs

-----------------------------------------------------------------------------
(* Where a request is *)

\* "mshr" is the place of a read that waits in the MSHR table while nothing is
\* fetched for it.
Places == Queues \cup {"pending", "l2", "classified", "miss", "mshr", "waiting",
                       "served", "retired"}

IsAt(r, n) == \/ n \in Queues /\ r \in ToSet(q[n])
              \/ n = "pending" /\ r \in pending
              \/ n = "l2" /\ r \in ToSet(l2_dram[SubOf[r]])
              \/ n = "classified" /\ r = classified
              \/ n = "miss" /\ r \in ToSet(m_miss_queue)
              \/ n = "mshr" /\ r \notin m_extra_mf_fields /\ Waiting(r)
              \/ n = "waiting" /\ r \in dram_waiting
              \/ n = "served" /\ r \in dram_served
              \/ n = "retired" /\ r \in retired

InOnePlace == \A r \in Req : \E n \in Places :
                 \A m \in Places : IsAt(r, m) <=> m = n

\* No queue has a request twice, and only the way to the DRAM has writebacks.
QueuesInv ==
    /\ q \in [Queues -> Seq(Req \cup Writebacks)]
    /\ \A n \in Queues : /\ Once(q[n], Req)
                         /\ n \notin {"to_dram", "latency"} => ToSet(q[n]) \subseteq Req

L2Inv == \A p \in SubPart : /\ Once(l2_dram[p], Req)
                            /\ \A r \in ToSet(l2_dram[p]) : SubOf[r] = p

-----------------------------------------------------------------------------
(* What dram_cycle has made of it there *)

\* The request for the metadata, the request for the compressed data, and the
\* answered request.
Meta == [is_meta_data_request |-> TRUE, addr |-> "metadata", size |-> "original",
         m_compressed |-> TRUE]
Burst == [is_meta_data_request |-> FALSE, addr |-> "data", size |-> "burst",
          m_compressed |-> TRUE]
Back == [is_meta_data_request |-> FALSE, addr |-> "data", size |-> "original",
         m_compressed |-> TRUE]

FetchPlaces == {"miss", "to_dram", "latency", "dram_to_metadata"}

Kinds(n) ==
    IF n \in {"to_metadata", "from_metadata", "dram_to_metadata", "miss", "mshr"}
    THEN {Meta}
    ELSE IF n \in {"to_dram", "latency"} THEN {Fresh, Meta, Burst}
    ELSE IF n \in {"waiting", "served", "returnq", "decompressor"} THEN {Fresh, Burst}
    ELSE IF n \in {"to_l2", "retired"} THEN {Fresh, Back}
    ELSE {Fresh}

FieldsInv ==
    \A r \in Req :
        /\ \A n \in Places : IsAt(r, n) => mf[r] \in Kinds(n)
        /\ mf[r] # Fresh \/ IsAt(r, "to_translater") => r \in CompressibleR
        /\ mf[r] = Burst => m_huffman_enabled \/ stage = "no_interval"

\* The reads that the cache waits for are those on their way as metadata reads.
FetchInv ==
    \A r \in Req : r \in m_extra_mf_fields
                      <=> mf[r] = Meta /\ \E n \in FetchPlaces : IsAt(r, n)

\* A request is taken out of its queue and routed in the same cycle.
ClassifiedInv == stage # "classify" => classified = NoReq

PartInv == /\ TypeOK
           /\ ClassifiedInv
           /\ CacheInv
           /\ QueuesInv
           /\ L2Inv
           /\ InOnePlace
           /\ FieldsInv
           /\ FetchInv

-----------------------------------------------------------------------------
(* The queues *)

\* A request leaves a queue.
LEMMA PopQueues ==
    ASSUME QueuesInv, NEW n \in Queues, q[n] # <<>>, q' = Pop(n)
    PROVE  /\ QueuesInv'
           /\ Head(q[n]) \in Req \cup Writebacks
           /\ n \notin {"to_dram", "latency"} => Head(q[n]) \in Req
           /\ Head(q[n]) \in ToSet(q[n])
           /\ \A x \in Req, k \in Queues :
                 x \in ToSet(q'[k])
                    <=> x \in ToSet(q[k]) /\ ~(k = n /\ x = Head(q[n]))
<1>1. /\ q \in [Queues -> Seq(Req \cup Writebacks)]
      /\ q[n] \in Seq(Req \cup Writebacks)
      /\ Once(q[n], Req)
  BY DEF QueuesInv
<1>2. /\ Tail(q[n]) \in Seq(Req \cup Writebacks)
      /\ Head(q[n]) \in Req \cup Writebacks
      /\ Head(q[n]) \in ToSet(q[n])
      /\ ToSet(q[n]) = ToSet(Tail(q[n])) \cup {Head(q[n])}
  BY <1>1, TailQueue
<1>3. /\ Once(Tail(q[n]), Req)
      /\ Head(q[n]) \in Req => Head(q[n]) \notin ToSet(Tail(q[n]))
  BY <1>1, TailOnce
<1>4. /\ q' \in [Queues -> Seq(Req \cup Writebacks)]
      /\ q'[n] = Tail(q[n])
      /\ \A k \in Queues : k # n => q'[k] = q[k]
  BY <1>1, <1>2 DEF Pop
<1>5. QueuesInv'
  BY <1>2, <1>3, <1>4 DEF QueuesInv
<1>6. n \notin {"to_dram", "latency"} => Head(q[n]) \in Req
  BY <1>2 DEF QueuesInv
<1> QED
  BY <1>2, <1>3, <1>4, <1>5, <1>6

\* A request enters a queue.
LEMMA PushQueues ==
    ASSUME QueuesInv, NEW n \in Queues, NEW y \in Req \cup Writebacks,
           y \in Req => y \notin ToSet(q[n]),
           y \notin Req => n \in {"to_dram", "latency"}, q' = Push(n, y)
    PROVE  /\ QueuesInv'
           /\ \A x \in Req, k \in Queues :
                 x \in ToSet(q'[k]) <=> x \in ToSet(q[k]) \/ (k = n /\ x = y)
<1>1. /\ q \in [Queues -> Seq(Req \cup Writebacks)]
      /\ q[n] \in Seq(Req \cup Writebacks)
      /\ Once(q[n], Req)
  BY DEF QueuesInv
<1>2. /\ Append(q[n], y) \in Seq(Req \cup Writebacks)
      /\ ToSet(Append(q[n], y)) = ToSet(q[n]) \cup {y}
  BY <1>1, AppendQueue
<1>3. Once(Append(q[n], y), Req)
  BY <1>1, AppendOnce
<1>4. /\ q' \in [Queues -> Seq(Req \cup Writebacks)]
      /\ q'[n] = Append(q[n], y)
      /\ \A k \in Queues : k # n => q'[k] = q[k]
  BY <1>1, <1>2 DEF Push
<1>5. QueuesInv'
  BY <1>2, <1>3, <1>4 DEF QueuesInv
<1> QED
  BY <1>2, <1>4, <1>5

\* A request goes from one queue to another.
LEMMA MoveQueues ==
    ASSUME QueuesInv, NEW m \in Queues, NEW n \in Queues, m # n, q[m] # <<>>,
           Head(q[m]) \in Req => Head(q[m]) \notin ToSet(q[n]),
           Head(q[m]) \notin Req => n \in {"to_dram", "latency"}, q' = Move(m, n)
    PROVE  /\ QueuesInv'
           /\ \A x \in Req, k \in Queues :
                 x \in ToSet(q'[k])
                    <=> \/ x \in ToSet(q[k]) /\ ~(k = m /\ x = Head(q[m]))
                        \/ k = n /\ x = Head(q[m])
<1> DEFINE y == Head(q[m])
<1>1. /\ q \in [Queues -> Seq(Req \cup Writebacks)]
      /\ q[m] \in Seq(Req \cup Writebacks) /\ Once(q[m], Req)
      /\ q[n] \in Seq(Req \cup Writebacks) /\ Once(q[n], Req)
  BY DEF QueuesInv
<1>2. /\ Tail(q[m]) \in Seq(Req \cup Writebacks)
      /\ y \in Req \cup Writebacks
      /\ ToSet(q[m]) = ToSet(Tail(q[m])) \cup {y}
  BY <1>1, TailQueue
<1>3. /\ Once(Tail(q[m]), Req)
      /\ y \in Req => y \notin ToSet(Tail(q[m]))
  BY <1>1, TailOnce
<1>4. /\ Append(q[n], y) \in Seq(Req \cup Writebacks)
      /\ ToSet(Append(q[n], y)) = ToSet(q[n]) \cup {y}
  BY <1>1, <1>2, AppendQueue
<1>5. Once(Append(q[n], y), Req)
  BY <1>1, <1>2, AppendOnce
<1>6. /\ q' \in [Queues -> Seq(Req \cup Writebacks)]
      /\ q'[m] = Tail(q[m])
      /\ q'[n] = Append(q[n], y)
      /\ \A k \in Queues : k # m /\ k # n => q'[k] = q[k]
  BY <1>1, <1>2, <1>4 DEF Move
<1> HIDE DEF y
<1>7. QueuesInv'
  BY <1>2, <1>3, <1>4, <1>5, <1>6 DEF QueuesInv, y
<1> QED
  BY <1>2, <1>3, <1>4, <1>6, <1>7 DEF y

-----------------------------------------------------------------------------
(* Moves *)

\* The request r goes to the place n, and the others stay where they are.
Moves(r, n) == \A x \in Req, k \in Places :
                  IsAt(x, k)' <=> IF x = r THEN k = n ELSE IsAt(x, k)

Stays == \A x \in Req, k \in Places : IsAt(x, k)' <=> IsAt(x, k)

\* A request that is at one place is at no other.
LEMMA OnlyPlace ==
    ASSUME InOnePlace, NEW r \in Req, NEW m \in Places, IsAt(r, m)
    PROVE  \A k \in Places : IsAt(r, k) <=> k = m
BY DEF InOnePlace

\* How a move shows.
LEMMA MovesFrom ==
    ASSUME InOnePlace, NEW r \in Req, NEW m \in Places, NEW n \in Places, IsAt(r, m),
           \A x \in Req, k \in Places :
              IsAt(x, k)' <=> \/ IsAt(x, k) /\ ~(x = r /\ k = m)
                              \/ x = r /\ k = n
    PROVE  Moves(r, n)
BY OnlyPlace DEF Moves

\* The queues among the places.
LEMMA AtQueue ==
    ASSUME NEW x, NEW k \in Queues
    PROVE  /\ IsAt(x, k) <=> x \in ToSet(q[k])
           /\ IsAt(x, k)' <=> x \in ToSet(q'[k])
           /\ k \in Places
BY DEF IsAt, Queues, Places

\* The kinds of fields are different, and of type Fetch.
LEMMA KindsDiffer ==
    /\ Fresh \in Fetch /\ Meta \in Fetch /\ Burst \in Fetch /\ Back \in Fetch
    /\ Fresh # Meta /\ Fresh # Burst /\ Fresh # Back
    /\ Meta # Burst /\ Meta # Back /\ Burst # Back
    /\ Meta.is_meta_data_request /\ ~Fresh.is_meta_data_request
    /\ ~Burst.is_meta_data_request /\ ~Back.is_meta_data_request
BY DEF Fresh, Meta, Burst, Back, Fetch

\* Fields that agree are the same.
LEMMA SameFields ==
    ASSUME NEW x \in Fetch, NEW y \in Fetch,
           x.is_meta_data_request = y.is_meta_data_request, x.addr = y.addr,
           x.size = y.size, x.m_compressed = y.m_compressed
    PROVE  x = y
BY DEF Fetch

\* How the stages rewrite the fields.
LEMMA KindsRewrite ==
    /\ [Fresh EXCEPT !.is_meta_data_request = TRUE, !.addr = "metadata",
                     !.m_compressed = TRUE] = Meta
    /\ [Meta EXCEPT !.is_meta_data_request = FALSE, !.addr = "data",
                    !.size = "burst"] = Burst
    /\ [Burst EXCEPT !.size = "original"] = Back
    /\ [Fresh EXCEPT !.size = "original"] = Fresh
    /\ Fresh.size = "original" /\ ~Fresh.m_compressed /\ Burst.m_compressed
<1>1. [Fresh EXCEPT !.is_meta_data_request = TRUE, !.addr = "metadata",
                    !.m_compressed = TRUE] = Meta
  <2> DEFINE x == [Fresh EXCEPT !.is_meta_data_request = TRUE, !.addr = "metadata",
                                !.m_compressed = TRUE]
  <2>1. x \in Fetch
    BY DEF Fresh, Fetch
  <2>2. /\ x.is_meta_data_request = TRUE /\ x.addr = "metadata"
        /\ x.size = "original" /\ x.m_compressed = TRUE
    BY DEF Fresh
  <2>3. /\ Meta \in Fetch
        /\ Meta.is_meta_data_request = TRUE /\ Meta.addr = "metadata"
        /\ Meta.size = "original" /\ Meta.m_compressed = TRUE
    BY DEF Meta, Fetch
  <2> HIDE DEF x
  <2>4. x = Meta
    BY <2>1, <2>2, <2>3, SameFields
  <2> QED
    BY <2>4 DEF x
<1>2. [Meta EXCEPT !.is_meta_data_request = FALSE, !.addr = "data", !.size = "burst"] = Burst
  <2> DEFINE x == [Meta EXCEPT !.is_meta_data_request = FALSE, !.addr = "data", !.size = "burst"]
  <2>1. x \in Fetch
    BY DEF Meta, Fetch
  <2>2. /\ x.is_meta_data_request = FALSE /\ x.addr = "data"
        /\ x.size = "burst" /\ x.m_compressed = TRUE
    BY DEF Meta
  <2>3. /\ Burst \in Fetch
        /\ Burst.is_meta_data_request = FALSE /\ Burst.addr = "data"
        /\ Burst.size = "burst" /\ Burst.m_compressed = TRUE
    BY DEF Burst, Fetch
  <2> HIDE DEF x
  <2>4. x = Burst
    BY <2>1, <2>2, <2>3, SameFields
  <2> QED
    BY <2>4 DEF x
<1>3. [Burst EXCEPT !.size = "original"] = Back
  <2> DEFINE x == [Burst EXCEPT !.size = "original"]
  <2>1. x \in Fetch
    BY DEF Burst, Fetch
  <2>2. /\ x.is_meta_data_request = FALSE /\ x.addr = "data"
        /\ x.size = "original" /\ x.m_compressed = TRUE
    BY DEF Burst
  <2>3. /\ Back \in Fetch
        /\ Back.is_meta_data_request = FALSE /\ Back.addr = "data"
        /\ Back.size = "original" /\ Back.m_compressed = TRUE
    BY DEF Back, Fetch
  <2> HIDE DEF x
  <2>4. x = Back
    BY <2>1, <2>2, <2>3, SameFields
  <2> QED
    BY <2>4 DEF x
<1>4. [Fresh EXCEPT !.size = "original"] = Fresh
  <2> DEFINE x == [Fresh EXCEPT !.size = "original"]
  <2>1. x \in Fetch
    BY DEF Fresh, Fetch
  <2>2. /\ x.is_meta_data_request = FALSE /\ x.addr = "data"
        /\ x.size = "original" /\ x.m_compressed = FALSE
    BY DEF Fresh
  <2>3. /\ Fresh \in Fetch
        /\ Fresh.is_meta_data_request = FALSE /\ Fresh.addr = "data"
        /\ Fresh.size = "original" /\ Fresh.m_compressed = FALSE
    BY DEF Fresh, Fetch
  <2> HIDE DEF x
  <2>4. x = Fresh
    BY <2>1, <2>2, <2>3, SameFields
  <2> QED
    BY <2>4 DEF x
<1>5. Fresh.size = "original" /\ ~Fresh.m_compressed /\ Burst.m_compressed
  BY DEF Fresh, Burst
<1> QED
  BY <1>1, <1>2, <1>3, <1>4, <1>5

\* A request that moves keeps the invariant if its fields are of a kind that
\* its new place has, and the cache waits for it if that is the way of a fetch.
LEMMA MoveInv ==
    ASSUME InOnePlace, FieldsInv, FetchInv, stage # "no_interval",
           m_huffman_enabled => m_huffman_enabled',
           NEW r \in Req, NEW n \in Places, Moves(r, n),
           \A x \in Req \ {r} : /\ mf'[x] = mf[x]
                                /\ x \in m_extra_mf_fields' <=> x \in m_extra_mf_fields,
           mf'[r] \in Kinds(n),
           mf'[r] # Fresh \/ n = "to_translater" => r \in CompressibleR,
           mf'[r] = Burst => m_huffman_enabled' \/ stage' = "no_interval",
           r \in m_extra_mf_fields' <=> mf'[r] = Meta /\ n \in FetchPlaces
    PROVE  InOnePlace' /\ FieldsInv' /\ FetchInv'
<1>1. /\ \A k \in Places : IsAt(r, k)' <=> k = n
      /\ \A x \in Req \ {r}, k \in Places : IsAt(x, k)' <=> IsAt(x, k)
  BY DEF Moves
<1>2. "to_translater" \in Places /\ FetchPlaces \subseteq Places
  BY DEF Places, Queues, FetchPlaces
<1>3. InOnePlace'
  BY <1>1 DEF InOnePlace
<1>4. FieldsInv'
  <2> SUFFICES ASSUME NEW x \in Req
               PROVE  /\ \A k \in Places : IsAt(x, k)' => mf'[x] \in Kinds(k)
                      /\ mf'[x] # Fresh \/ IsAt(x, "to_translater")' => x \in CompressibleR
                      /\ mf'[x] = Burst => m_huffman_enabled' \/ stage' = "no_interval"
    BY DEF FieldsInv, Fresh, Burst, Kinds, Meta, Back
  <2>1. CASE x = r
    BY <1>1, <1>2, <2>1
  <2>2. CASE x # r
    BY <1>1, <1>2, <2>2 DEF FieldsInv
  <2> QED
    BY <2>1, <2>2
<1>5. FetchInv'
  <2> SUFFICES ASSUME NEW x \in Req
               PROVE  x \in m_extra_mf_fields'
                         <=> mf'[x] = Meta /\ \E k \in FetchPlaces : IsAt(x, k)'
    BY DEF FetchInv, Fresh, Meta
  <2>1. CASE x = r
    BY <1>1, <1>2, <2>1
  <2>2. CASE x # r
    BY <1>1, <1>2, <2>2 DEF FetchInv
  <2> QED
    BY <2>1, <2>2
<1> QED
  BY <1>3, <1>4, <1>5

\* A step that moves no request keeps the invariant.
LEMMA StayInv ==
    ASSUME InOnePlace, FieldsInv, FetchInv, stage # "no_interval" \/ stage' = stage,
           m_huffman_enabled => m_huffman_enabled',
           Stays, mf' = mf, m_extra_mf_fields' = m_extra_mf_fields
    PROVE  InOnePlace' /\ FieldsInv' /\ FetchInv'
<1>1. "to_translater" \in Places /\ FetchPlaces \subseteq Places
  BY DEF Places, Queues, FetchPlaces
<1>2. InOnePlace'
  BY DEF InOnePlace, Stays
<1>3. FieldsInv'
  <2> SUFFICES ASSUME NEW x \in Req
               PROVE  /\ \A k \in Places : IsAt(x, k)' => mf'[x] \in Kinds(k)
                      /\ mf'[x] # Fresh \/ IsAt(x, "to_translater")' => x \in CompressibleR
                      /\ mf'[x] = Burst => m_huffman_enabled' \/ stage' = "no_interval"
    BY DEF FieldsInv, Fresh, Burst, Kinds, Meta, Back
  <2> QED
    BY <1>1 DEF FieldsInv, Stays
<1>4. FetchInv'
  <2> SUFFICES ASSUME NEW x \in Req
               PROVE  x \in m_extra_mf_fields'
                         <=> mf'[x] = Meta /\ \E k \in FetchPlaces : IsAt(x, k)'
    BY DEF FetchInv, Fresh, Meta
  <2> QED
    BY <1>1 DEF FetchInv, Stays
<1> QED
  BY <1>2, <1>3, <1>4

-----------------------------------------------------------------------------
(* The steps that leave the cache and the queues of the L2 alone *)

\* The cache and the queues to memory are as they were.
LEMMA FrameInv ==
    ASSUME PartInv, UNCHANGED <<cacheVars, l2_dram>>
    PROVE  /\ CacheInv' /\ CacheTypeOK' /\ L2Inv'
           /\ \A x \in Req : Waiting(x)' <=> Waiting(x)
           /\ UNCHANGED <<m_extra_mf_fields, m_miss_queue>>
<1>1. CacheInv
  BY DEF PartInv
<1>2. /\ CacheInv'
      /\ \A x \in Req : Waiting(x)' <=> Waiting(x)
      /\ UNCHANGED <<m_extra_mf_fields, m_miss_queue>>
  BY <1>1, CacheInvStutter
<1>3. CacheTypeOK'
  BY <1>2 DEF CacheInv
<1>4. L2Inv'
  BY DEF PartInv, L2Inv
<1> QED
  BY <1>2, <1>3, <1>4

\* A step that moves no request: it ends a stage, advances the codebook or lets
\* the L2 take a response.
LEMMA NothingMoves ==
    ASSUME PartInv, stage' \in CycleStages \cup Crashes,
           \/ stage \notin {"no_interval", "classify"}
           \/ stage' = stage
           \/ stage # "no_interval" /\ classified = NoReq,
           UNCHANGED <<cacheVars, pending, l2_dram, retired, q, dramVars,
                       classified, mf>>,
           dram_l2' \in [SubPart -> Seq(Req)],
           compressing' \in BOOLEAN, codebook' \in CodebookProgress,
           m_huffman_enabled => m_huffman_enabled'
    PROVE  PartInv'
<1>1. /\ CacheInv' /\ CacheTypeOK' /\ L2Inv'
      /\ \A x \in Req : Waiting(x)' <=> Waiting(x)
      /\ UNCHANGED <<m_extra_mf_fields, m_miss_queue>>
  BY FrameInv
<1>2. TypeOK' /\ ClassifiedInv'
  BY <1>1 DEF PartInv, ClassifiedInv, TypeOK, dramVars
<1>3. QueuesInv'
  BY DEF PartInv, QueuesInv
<1>4. Stays
  BY <1>1 DEF Stays, IsAt, dramVars
<1>5. InOnePlace' /\ FieldsInv' /\ FetchInv'
  BY <1>1, <1>4, StayInv DEF PartInv
<1> QED
  BY <1>1, <1>2, <1>3, <1>5 DEF PartInv

\* A stage that has nothing to do.
LEMMA QuietStep ==
    ASSUME PartInv, stage' \in CycleStages \cup Crashes, stage \notin {"no_interval", "classify"},
           UNCHANGED <<l2Vars, q, dramVars, phaseVars, mf, cacheVars>>
    PROVE  PartInv'
BY NothingMoves DEF l2Vars, phaseVars, PartInv, TypeOK, m_huffman_enabled

\* A step that moves the head of one queue to another.
LEMMA HeadMoves ==
    ASSUME PartInv, stage' \in CycleStages \cup Crashes, stage \notin {"no_interval", "classify"},
           UNCHANGED <<l2Vars, dramVars, phaseVars, cacheVars>>,
           NEW m \in Queues, NEW n \in Queues, m # n, q[m] # <<>>, q' = Move(m, n),
           NEW r, r = Head(q[m]),
           r \notin Req => mf' = mf /\ n \in {"to_dram", "latency"},
           r \in Req => /\ mf' \in [Req -> Fetch]
                        /\ \A x \in Req \ {r} : mf'[x] = mf[x]
                        /\ mf'[r] \in Kinds(n)
                        /\ mf'[r] # Fresh \/ n = "to_translater" => r \in CompressibleR
                        /\ mf'[r] = Burst => m_huffman_enabled \/ stage' = "no_interval"
                        /\ r \in m_extra_mf_fields
                              <=> mf'[r] = Meta /\ n \in FetchPlaces
    PROVE  PartInv'
<1>1. /\ CacheInv' /\ CacheTypeOK' /\ L2Inv'
      /\ \A x \in Req : Waiting(x)' <=> Waiting(x)
      /\ UNCHANGED <<m_extra_mf_fields, m_miss_queue>>
  BY FrameInv DEF l2Vars
<1>2. m \in Places /\ n \in Places
  BY DEF Places
<1>3. QueuesInv /\ q[m] \in Seq(Req \cup Writebacks)
  BY DEF PartInv, QueuesInv
<1>4. r \in ToSet(q[m])
  BY <1>3, TailQueue
<1>5. r \in Req => IsAt(r, m) /\ r \notin ToSet(q[n])
  <2> SUFFICES ASSUME r \in Req PROVE IsAt(r, m) /\ r \notin ToSet(q[n])
    OBVIOUS
  <2>1. IsAt(r, m)
    BY <1>4 DEF IsAt
  <2>2. ~IsAt(r, n)
    BY <1>2, <2>1, OnlyPlace DEF PartInv
  <2> QED
    BY <2>1, <2>2 DEF IsAt
<1>6. /\ QueuesInv'
      /\ \A x \in Req, k \in Queues :
            x \in ToSet(q'[k])
               <=> \/ x \in ToSet(q[k]) /\ ~(k = m /\ x = r)
                   \/ k = n /\ x = r
  BY <1>3, <1>5, MoveQueues
<1>7. TypeOK' /\ ClassifiedInv'
  BY <1>1, <1>6 DEF PartInv, ClassifiedInv, TypeOK, l2Vars, dramVars, phaseVars, QueuesInv
<1>8. UNCHANGED <<pending, l2_dram, retired, dram_waiting, dram_served,
                  classified, codebook>>
  BY DEF l2Vars, dramVars, phaseVars
<1>9. \A x \in Req, k \in Places : k \notin Queues => (IsAt(x, k)' <=> IsAt(x, k))
  BY <1>1, <1>8 DEF IsAt
<1>10. \A k \in Queues : k \notin {"pending", "l2", "classified", "miss", "mshr",
                                   "waiting", "served", "retired"}
  BY DEF Queues
<1>11. \A x \in Req, k \in Queues : /\ IsAt(x, k) <=> x \in ToSet(q[k])
                                    /\ IsAt(x, k)' <=> x \in ToSet(q'[k])
  BY <1>10 DEF IsAt
<1>12. CASE r \in Req
  <2>1. \A k \in Places : IsAt(r, k) <=> k = m
    BY <1>2, <1>5, <1>12, OnlyPlace DEF PartInv
  <2>2. Moves(r, n)
    BY <1>6, <1>9, <1>11, <2>1 DEF Moves
  <2>3. m_huffman_enabled' <=> m_huffman_enabled
    BY <1>8 DEF m_huffman_enabled
  <2>4. InOnePlace' /\ FieldsInv' /\ FetchInv'
    BY <1>1, <1>2, <1>12, <2>2, <2>3, MoveInv DEF PartInv
  <2> QED
    BY <1>1, <1>6, <1>7, <2>4 DEF PartInv
<1>13. CASE r \notin Req
  <2>1. Stays
    BY <1>6, <1>9, <1>11, <1>13 DEF Stays
  <2>2. m_huffman_enabled' <=> m_huffman_enabled
    BY <1>8 DEF m_huffman_enabled
  <2>3. InOnePlace' /\ FieldsInv' /\ FetchInv'
    BY <1>1, <1>13, <2>1, <2>2, StayInv DEF PartInv
  <2> QED
    BY <1>1, <1>6, <1>7, <2>3 DEF PartInv
<1> QED
  BY <1>12, <1>13

\* What is known of a request at a place.
LEMMA KindAt ==
    ASSUME PartInv, NEW r \in Req, NEW m \in Places, IsAt(r, m)
    PROVE  /\ \A k \in Places : IsAt(r, k) <=> k = m
           /\ mf[r] \in Kinds(m)
           /\ r \in m_extra_mf_fields <=> mf[r] = Meta /\ m \in FetchPlaces
           /\ mf[r] # Fresh \/ m = "to_translater" => r \in CompressibleR
           /\ mf[r] = Burst => m_huffman_enabled \/ stage = "no_interval"
<1>1. \A k \in Places : IsAt(r, k) <=> k = m
  BY OnlyPlace DEF PartInv
<1>2. FetchPlaces \subseteq Places
  BY DEF Places, Queues, FetchPlaces
<1> QED
  BY <1>1, <1>2 DEF PartInv, FieldsInv, FetchInv

\* What is known of the head of a queue.
LEMMA HeadKind ==
    ASSUME PartInv, NEW m \in Queues, q[m] # <<>>
    PROVE  /\ Head(q[m]) \in Req \cup Writebacks
           /\ m \notin {"to_dram", "latency"} => Head(q[m]) \in Req
           /\ Head(q[m]) \in Req => IsAt(Head(q[m]), m)
           /\ m \in Places
<1>1. q[m] \in Seq(Req \cup Writebacks)
  BY DEF PartInv, QueuesInv
<1>2. Head(q[m]) \in ToSet(q[m]) /\ Head(q[m]) \in Req \cup Writebacks
  BY <1>1, TailQueue
<1> QED
  BY <1>2 DEF PartInv, QueuesInv, IsAt, Places

-----------------------------------------------------------------------------
(* One lemma per stage *)

\* A read from the DRAM is decompressed if there is a codebook; it is never a
\* metadata read.
LEMMA ReturnStep == ASSUME PartInv, ReturnFromDram PROVE PartInv'
<1> DEFINE r == Head(q["returnq"])
           to == ReturnRoute(r)
<1>1. /\ stage = "return" /\ stage' = "decompress"
      /\ q' = IF q["returnq"] # <<>> /\ Accepts(to) THEN Move("returnq", to) ELSE q
      /\ UNCHANGED <<l2Vars, dramVars, phaseVars, mf, cacheVars>>
  BY DEF ReturnFromDram, Go
<1>2. CASE q["returnq"] # <<>> /\ Accepts(to)
  <2>1. "returnq" \in Queues /\ "decompressor" \in Queues /\ "to_l2" \in Queues
    BY DEF Queues
  <2>2. r \in Req /\ IsAt(r, "returnq") /\ "returnq" \in Places
    BY <1>2, <2>1, HeadKind
  <2>3. /\ mf[r] \in {Fresh, Burst}
        /\ mf[r] # Fresh => r \in CompressibleR
        /\ mf[r] = Burst => m_huffman_enabled
        /\ r \notin m_extra_mf_fields
    BY <1>1, <2>2, KindAt DEF Kinds, FetchPlaces
  <2>4. ~IsMetadata(r)
    BY <2>3, KindsDiffer DEF IsMetadata
  <2>5. /\ to \in {"decompressor", "to_l2"}
        /\ to = "to_l2" => mf[r] = Fresh
    BY <2>3, <2>4 DEF ReturnRoute
  <2>6. mf[r] \in Kinds(to) /\ to \notin FetchPlaces
    BY <2>3, <2>5 DEF Kinds, FetchPlaces
  <2>7. to \in Queues /\ to # "returnq" /\ to # "to_translater"
    BY <2>1, <2>5
  <2>8. q' = Move("returnq", to)
    BY <1>1, <1>2
  <2>9. mf' \in [Req -> Fetch] /\ mf' = mf
    BY <1>1 DEF PartInv, ClassifiedInv, TypeOK
  <2>10. stage' \in CycleStages \cup Crashes /\ stage \notin {"no_interval", "classify"}
    BY <1>1 DEF CycleStages
  <2> HIDE DEF r, to
  <2> QED
    BY <1>1, <1>2, <2>1, <2>2, <2>3, <2>6, <2>7, <2>8, <2>9, <2>10, HeadMoves DEF r
<1>3. CASE ~(q["returnq"] # <<>> /\ Accepts(to))
  BY <1>1, <1>3, QuietStep DEF CycleStages
<1> QED
  BY <1>2, <1>3

\* A decompressed read has its size back.
LEMMA DecompressStep == ASSUME PartInv, DecompressorReady PROVE PartInv'
<1> DEFINE r == Head(q["decompressor"])
<1>1. /\ stage = "decompress" /\ stage' = "deliver"
      /\ q["decompressor"] # <<>>
      /\ mf' = [mf EXCEPT ![r].size = Decompressed(r)]
      /\ q' = Move("decompressor", "to_l2")
      /\ UNCHANGED <<l2Vars, dramVars, phaseVars, cacheVars>>
  BY DEF DecompressorReady, Go
<1>2. "decompressor" \in Queues /\ "to_l2" \in Queues
  BY DEF Queues
<1>3. r \in Req /\ IsAt(r, "decompressor") /\ "decompressor" \in Places
  BY <1>1, <1>2, HeadKind
<1>4. /\ mf[r] \in {Fresh, Burst}
      /\ mf[r] # Fresh => r \in CompressibleR
      /\ r \notin m_extra_mf_fields
  BY <1>3, KindAt DEF Kinds, FetchPlaces
<1>5. mf \in [Req -> Fetch]
  BY DEF PartInv, ClassifiedInv, TypeOK
<1> HIDE DEF r
<1>6. /\ mf'[r] = [mf[r] EXCEPT !.size = Decompressed(r)]
      /\ \A x \in Req \ {r} : mf'[x] = mf[x]
  BY <1>1, <1>3, <1>5
<1>7. mf'[r] = IF mf[r] = Fresh THEN Fresh ELSE Back
  <2>1. Decompressed(r) = "original"
    BY <1>4, KindsRewrite DEF Decompressed
  <2>2. mf'[r] = [mf[r] EXCEPT !.size = "original"]
    BY <1>6, <2>1
  <2>3. CASE mf[r] = Fresh
    BY <2>2, <2>3, KindsRewrite
  <2>4. CASE mf[r] = Burst
    BY <2>2, <2>4, KindsRewrite, KindsDiffer
  <2> QED
    BY <1>4, <2>3, <2>4
<1>8. mf' \in [Req -> Fetch]
  <2>1. [mf[r] EXCEPT !.size = Decompressed(r)] \in Fetch
    BY <1>6, <1>7, KindsDiffer
  <2> QED
    BY <1>1, <1>3, <1>5, <2>1
<1>9. mf'[r] \in Kinds("to_l2") /\ mf'[r] # Burst /\ "to_l2" \notin FetchPlaces
  BY <1>7, KindsDiffer DEF Kinds, FetchPlaces
<1>10. stage' \in CycleStages \cup Crashes /\ stage \notin {"no_interval", "classify"}
  BY <1>1 DEF CycleStages
<1> QED
  BY <1>1, <1>2, <1>3, <1>4, <1>6, <1>7, <1>8, <1>9, <1>10, HeadMoves DEF r

\* A translated read asks for its metadata.
LEMMA TranslateStep == ASSUME PartInv, Translate PROVE PartInv'
<1> DEFINE r == Head(q["to_translater"])
<1>1. /\ stage = "translate" /\ stage' = "restore"
      /\ UNCHANGED <<l2Vars, dramVars, phaseVars, cacheVars>>
  BY DEF Translate, Go
<1>2. stage' \in CycleStages \cup Crashes /\ stage \notin {"no_interval", "classify"}
  BY <1>1 DEF CycleStages
<1>3. CASE q["to_translater"] # <<>>
  <2>1. /\ q' = Move("to_translater", "to_metadata")
        /\ mf' = [mf EXCEPT ![r] = [mf[r] EXCEPT !.is_meta_data_request = TRUE,
                                                 !.addr = "metadata",
                                                 !.m_compressed = TRUE]]
    BY <1>3 DEF Translate
  <2>2. "to_translater" \in Queues /\ "to_metadata" \in Queues
    BY DEF Queues
  <2>3. r \in Req /\ IsAt(r, "to_translater") /\ "to_translater" \in Places
    BY <1>3, <2>2, HeadKind
  <2>4. mf[r] = Fresh /\ r \in CompressibleR /\ r \notin m_extra_mf_fields
    BY <2>3, KindAt DEF Kinds, FetchPlaces
  <2>5. mf \in [Req -> Fetch]
    BY DEF PartInv, ClassifiedInv, TypeOK
  <2> HIDE DEF r
  <2>6. mf' = [mf EXCEPT ![r] = Meta]
    BY <2>1, <2>4, KindsRewrite
  <2>7. /\ mf'[r] = Meta
        /\ \A x \in Req \ {r} : mf'[x] = mf[x]
        /\ mf' \in [Req -> Fetch]
    BY <2>3, <2>5, <2>6, KindsDiffer
  <2>8. Meta \in Kinds("to_metadata") /\ "to_metadata" \notin FetchPlaces
        /\ Meta # Burst
    BY KindsDiffer DEF Kinds, FetchPlaces
  <2> QED
    BY <1>1, <1>2, <1>3, <2>1, <2>2, <2>3, <2>4, <2>7, <2>8, HeadMoves DEF r
<1>4. CASE q["to_translater"] = <<>>
  <2>1. UNCHANGED <<q, mf>>
    BY <1>4 DEF Translate
  <2> QED
    BY <1>1, <1>2, <2>1, QuietStep
<1> QED
  BY <1>3, <1>4

\* A read whose metadata is known asks for its bursts.
LEMMA RestoreStep == ASSUME PartInv, Restore PROVE PartInv'
<1> DEFINE r == Head(q["from_metadata"])
<1>1. /\ stage = "restore" /\ stage' \in {"compress", "no_interval"}
      /\ UNCHANGED <<l2Vars, dramVars, phaseVars, cacheVars>>
  BY DEF Restore, Go
<1>2. stage' \in CycleStages \cup Crashes /\ stage \notin {"no_interval", "classify"}
  BY <1>1 DEF CycleStages, Crashes
<1>3. CASE q["from_metadata"] # <<>>
  <2>1. /\ q' = Move("from_metadata", "to_dram")
        /\ mf' = [mf EXCEPT ![r] = Restored(r)]
        /\ stage' = IF m_huffman_enabled THEN "compress" ELSE "no_interval"
    BY <1>3 DEF Restore, HasInterval, Go
  <2>2. "from_metadata" \in Queues /\ "to_dram" \in Queues
    BY DEF Queues
  <2>3. r \in Req /\ IsAt(r, "from_metadata") /\ "from_metadata" \in Places
    BY <1>3, <2>2, HeadKind
  <2>4. mf[r] = Meta /\ r \notin m_extra_mf_fields
    BY <2>3, KindAt DEF Kinds, FetchPlaces
  <2>5. r \in CompressibleR
    BY <2>3, <2>4, KindAt, KindsDiffer
  <2>6. mf \in [Req -> Fetch]
    BY DEF PartInv, ClassifiedInv, TypeOK
  <2> HIDE DEF r
  <2>7. Restored(r) = Burst
    BY <2>4, KindsRewrite DEF Restored
  <2>8. /\ mf'[r] = Burst
        /\ \A x \in Req \ {r} : mf'[x] = mf[x]
        /\ mf' \in [Req -> Fetch]
    BY <2>1, <2>3, <2>6, <2>7, KindsDiffer
  <2>9. Burst \in Kinds("to_dram") /\ Meta # Burst
    BY KindsDiffer DEF Kinds
  <2>10. m_huffman_enabled \/ stage' = "no_interval"
    BY <2>1
  <2> QED
    BY <1>1, <1>2, <1>3, <2>1, <2>2, <2>3, <2>4, <2>5, <2>8, <2>9, <2>10, HeadMoves
    DEF r
<1>4. CASE q["from_metadata"] = <<>>
  <2>1. UNCHANGED <<q, mf>>
    BY <1>4 DEF Restore
  <2> QED
    BY <1>1, <1>2, <2>1, QuietStep
<1> QED
  BY <1>3, <1>4

\* A writeback enters or leaves a compressor.
LEMMA CompressMove ==
    ASSUME PartInv, NEW m \in {"to_compressor", "compressor"},
           NEW n \in {"compressor", "to_dram"}, m # n,
           q[m] # <<>>, q' = Move(m, n),
           UNCHANGED <<l2Vars, dramVars, phaseVars, mf, cacheVars>>,
           stage \notin {"no_interval", "classify"}, stage' \in CycleStages \cup Crashes
    PROVE  PartInv'
<1> DEFINE r == Head(q[m])
<1>1. m \in Queues /\ n \in Queues /\ m \notin {"to_dram", "latency"}
  BY DEF Queues
<1>2. r \in Req /\ IsAt(r, m) /\ m \in Places
  BY <1>1, HeadKind
<1>3. mf[r] = Fresh /\ r \notin m_extra_mf_fields
  BY <1>2, KindAt DEF Kinds, FetchPlaces
<1>4. mf' \in [Req -> Fetch] /\ mf' = mf
  BY DEF PartInv, ClassifiedInv, TypeOK
<1>5. Fresh \in Kinds(n) /\ Fresh # Meta /\ Fresh # Burst /\ n # "to_translater"
  BY KindsDiffer DEF Kinds
<1> HIDE DEF r
<1> QED
  BY <1>1, <1>2, <1>3, <1>4, <1>5, HeadMoves DEF r

\* The compressor takes a write and hands it on to the DRAM.
LEMMA CompressStep ==
    ASSUME PartInv, ToCompressor \/ CompressorReady
    PROVE  PartInv'
<1>1. CASE ToCompressor
  <2>1. /\ \/ q' = q
           \/ q["to_compressor"] # <<>> /\ q' = Move("to_compressor", "compressor")
        /\ UNCHANGED <<l2Vars, dramVars, phaseVars, mf, cacheVars>>
        /\ stage = "compress" /\ stage' = "compressed"
    BY <1>1 DEF ToCompressor, Go
  <2>2. stage \notin {"no_interval", "classify"} /\ stage' \in CycleStages \cup Crashes
    BY <2>1 DEF CycleStages
  <2> QED
    BY <2>1, <2>2, CompressMove, QuietStep
<1>2. CASE CompressorReady
  <2>1. /\ q["compressor"] # <<>> /\ q' = Move("compressor", "to_dram")
        /\ UNCHANGED <<l2Vars, dramVars, phaseVars, mf, cacheVars>>
        /\ stage = "compressed" /\ stage' \in {"respond", "no_interval"}
    BY <1>2 DEF CompressorReady, Go
  <2>2. stage \notin {"no_interval", "classify"} /\ stage' \in CycleStages \cup Crashes
    BY <2>1 DEF CycleStages, Crashes
  <2> QED
    BY <2>1, <2>2, CompressMove
<1> QED
  BY <1>1, <1>2

\* A request enters the latency queue as it is.
LEMMA ToLatencyStep == ASSUME PartInv, ToLatencyQueue PROVE PartInv'
<1> DEFINE r == Head(q["to_dram"])
<1>1. /\ stage = "huffman" /\ stage' = "latency"
      /\ q' = IF q["to_dram"] # <<>> THEN Move("to_dram", "latency") ELSE q
      /\ UNCHANGED <<l2Vars, dramVars, phaseVars, mf, cacheVars>>
  BY DEF ToLatencyQueue, Go
<1>2. stage' \in CycleStages \cup Crashes /\ stage \notin {"no_interval", "classify"}
  BY <1>1 DEF CycleStages
<1>3. CASE q["to_dram"] = <<>>
  BY <1>1, <1>2, <1>3, QuietStep
<1>4. CASE q["to_dram"] # <<>>
  <2>1. "to_dram" \in Queues /\ "latency" \in Queues
    BY DEF Queues
  <2>2. mf' \in [Req -> Fetch] /\ mf' = mf
    BY <1>1 DEF PartInv, ClassifiedInv, TypeOK
  <2>3. q' = Move("to_dram", "latency")
    BY <1>1, <1>4
  <2>4. CASE r \in Req
    <3>1. IsAt(r, "to_dram") /\ "to_dram" \in Places
      BY <1>4, <2>1, <2>4, HeadKind
    <3>2. /\ mf[r] \in Kinds("to_dram")
          /\ r \in m_extra_mf_fields <=> mf[r] = Meta /\ "to_dram" \in FetchPlaces
          /\ mf[r] # Fresh => r \in CompressibleR
          /\ mf[r] = Burst => m_huffman_enabled
      BY <1>2, <2>4, <3>1, KindAt
    <3>3. /\ mf[r] \in Kinds("latency")
          /\ "to_dram" \in FetchPlaces /\ "latency" \in FetchPlaces
      BY <3>2 DEF Kinds, FetchPlaces
    <3> HIDE DEF r
    <3> QED
      BY <1>1, <1>2, <1>4, <2>1, <2>2, <2>3, <2>4, <3>2, <3>3, HeadMoves DEF r
  <2>5. CASE r \notin Req
    <3> HIDE DEF r
    <3> QED
      BY <1>1, <1>2, <1>4, <2>1, <2>2, <2>3, <2>5, HeadMoves DEF r
  <2> QED
    BY <2>4, <2>5
<1> QED
  BY <1>3, <1>4

\* The L2 makes a request.
LEMMA IssueStep == ASSUME PartInv, NEW r \in Req, L2Issue(r) PROVE PartInv'
<1> DEFINE p == SubOf[r]
<1>1. /\ stage = "idle" /\ r \in pending
      /\ pending' = pending \ {r}
      /\ l2_dram' = [l2_dram EXCEPT ![p] = Append(@, r)]
      /\ UNCHANGED <<stage, dram_l2, q, dramVars, phaseVars, mf, retired, cacheVars>>
  BY DEF L2Issue
<1>2. p \in SubPart /\ l2_dram \in [SubPart -> Seq(Req)] /\ l2_dram[p] \in Seq(Req)
  BY SubOfAssumption DEF PartInv, ClassifiedInv, TypeOK
<1>3. "pending" \in Places /\ "l2" \in Places
  BY DEF Places
<1>4. IsAt(r, "pending")
  BY <1>1 DEF IsAt
<1>5. /\ \A k \in Places : IsAt(r, k) <=> k = "pending"
      /\ mf[r] = Fresh
      /\ r \notin m_extra_mf_fields
  BY <1>3, <1>4, KindAt DEF Kinds, FetchPlaces
<1>6. r \notin ToSet(l2_dram[p])
  BY <1>3, <1>5 DEF IsAt
<1>7. /\ Append(l2_dram[p], r) \in Seq(Req)
      /\ ToSet(Append(l2_dram[p], r)) = ToSet(l2_dram[p]) \cup {r}
  BY <1>2, AppendQueue
<1>8. Once(Append(l2_dram[p], r), Req)
  BY <1>2, <1>6, AppendOnce DEF PartInv, L2Inv
<1>9. /\ l2_dram' \in [SubPart -> Seq(Req)]
      /\ l2_dram'[p] = Append(l2_dram[p], r)
      /\ \A o \in SubPart : o # p => l2_dram'[o] = l2_dram[o]
  BY <1>1, <1>2, <1>7
<1>10. L2Inv'
  BY <1>7, <1>8, <1>9 DEF PartInv, L2Inv
<1>11. /\ CacheInv' /\ CacheTypeOK'
       /\ \A x \in Req : Waiting(x)' <=> Waiting(x)
       /\ UNCHANGED <<m_extra_mf_fields, m_miss_queue>>
  BY <1>1, CacheInvStutter DEF PartInv, CacheInv
<1>12. TypeOK' /\ ClassifiedInv'
  BY <1>1, <1>9, <1>11 DEF PartInv, ClassifiedInv, TypeOK, dramVars, phaseVars
<1>13. QueuesInv'
  BY <1>1 DEF PartInv, QueuesInv
<1>14. ASSUME NEW x \in Req, NEW k \in Places
       PROVE  IsAt(x, k)' <=> \/ IsAt(x, k) /\ ~(x = r /\ k = "pending")
                              \/ x = r /\ k = "l2"
  <2>1. SubOf[x] \in SubPart
    BY SubOfAssumption
  <2>2. x \in ToSet(l2_dram'[SubOf[x]]) <=> x \in ToSet(l2_dram[SubOf[x]]) \/ x = r
    BY <1>7, <1>9, <2>1
  <2>3. x \in pending' <=> x \in pending /\ x # r
    BY <1>1
  <2>4. UNCHANGED <<q, classified, dram_waiting, dram_served, retired>>
    BY <1>1 DEF dramVars, phaseVars
  <2>5. k \in Queues => k # "pending"
    BY DEF Queues
  <2> QED
    BY <1>11, <2>2, <2>3, <2>4, <2>5 DEF IsAt
<1>15. Moves(r, "l2")
  BY <1>3, <1>4, <1>14, MovesFrom DEF PartInv
<1>16. /\ Fresh \in Kinds("l2") /\ Fresh # Meta /\ Fresh # Burst
       /\ mf'[r] = Fresh /\ m_huffman_enabled' = m_huffman_enabled
  BY <1>1, <1>5, KindsDiffer DEF Kinds, m_huffman_enabled, phaseVars
<1>17. InOnePlace' /\ FieldsInv' /\ FetchInv'
  BY <1>1, <1>3, <1>5, <1>11, <1>15, <1>16, MoveInv DEF PartInv
<1> QED
  BY <1>10, <1>11, <1>12, <1>13, <1>17 DEF PartInv

\* Steps between two calls, the start of a call and the stages that wait.
LEMMA WaitStep ==
    ASSUME PartInv,
           (\E p \in SubPart : L2Take(p)) \/ SamplingEnds \/ sampling_cycle \/ Stall
    PROVE  PartInv'
<1> USE DEF l2Vars, phaseVars, CycleStages, Go, m_huffman_enabled
<1>1. ASSUME NEW p \in SubPart, L2Take(p) PROVE PartInv'
  <2>1. dram_l2 \in [SubPart -> Seq(Req)] /\ dram_l2[p] \in Seq(Req) /\ dram_l2[p] # <<>>
    BY <1>1 DEF PartInv, ClassifiedInv, TypeOK, L2Take
  <2>2. Tail(dram_l2[p]) \in Seq(Req)
    BY <2>1, TailQueue
  <2>3. dram_l2' \in [SubPart -> Seq(Req)]
    BY <1>1, <2>1, <2>2 DEF L2Take
  <2> QED
    BY <1>1, <2>3, NothingMoves DEF L2Take, PartInv, TypeOK
<1>2. CASE SamplingEnds
  BY <1>2, NothingMoves DEF SamplingEnds, PartInv, TypeOK
<1>3. CASE sampling_cycle
  BY <1>3, NothingMoves DEF sampling_cycle, PartInv, TypeOK, CodebookProgress
<1>4. CASE Stall
  BY <1>4, QuietStep DEF Stall
<1> QED
  BY <1>1, <1>2, <1>3, <1>4

\* A response is delivered to the L2.
LEMMA DeliverStep == ASSUME PartInv, DeliverToL2 PROVE PartInv'
<1> DEFINE r == Head(q["to_l2"])
           fits == q["to_l2"] # <<>> /\ Len(dram_l2[SubOf[r]]) < L2QueueSize
<1>1. /\ stage = "deliver" /\ stage' = "complete"
      /\ UNCHANGED <<pending, l2_dram, dramVars, phaseVars, mf, cacheVars>>
  BY DEF DeliverToL2, Go
<1>2. stage' \in CycleStages \cup Crashes /\ stage \notin {"no_interval", "classify"}
  BY <1>1 DEF CycleStages
<1>3. CASE fits
  <2>1. /\ q' = Pop("to_l2")
        /\ dram_l2' = [dram_l2 EXCEPT ![SubOf[r]] = Append(@, r)]
        /\ retired' = retired \cup {r}
        /\ q["to_l2"] # <<>>
    BY <1>3 DEF DeliverToL2
  <2>2. "to_l2" \in Queues /\ "retired" \in Places /\ "to_l2" \in Places
    BY DEF Queues, Places
  <2>3. r \in Req /\ IsAt(r, "to_l2")
    BY <2>1, <2>2, HeadKind
  <2>4. /\ \A k \in Places : IsAt(r, k) <=> k = "to_l2"
        /\ mf[r] \in {Fresh, Back}
        /\ mf[r] # Fresh => r \in CompressibleR
        /\ r \notin m_extra_mf_fields
    BY <2>2, <2>3, KindAt DEF Kinds, FetchPlaces
  <2>5. /\ QueuesInv'
        /\ \A x \in Req, k \in Queues :
              x \in ToSet(q'[k]) <=> x \in ToSet(q[k]) /\ ~(k = "to_l2" /\ x = r)
    BY <2>1, <2>2, PopQueues DEF PartInv
  <2> HIDE DEF r
  <2>6. dram_l2' \in [SubPart -> Seq(Req)]
    <3>1. SubOf[r] \in SubPart /\ dram_l2 \in [SubPart -> Seq(Req)]
      BY <2>3, SubOfAssumption DEF PartInv, ClassifiedInv, TypeOK
    <3>2. Append(dram_l2[SubOf[r]], r) \in Seq(Req)
      BY <2>3, <3>1, AppendQueue
    <3> QED
      BY <2>1, <3>1, <3>2
  <2>7. /\ CacheInv' /\ CacheTypeOK' /\ L2Inv'
        /\ \A x \in Req : Waiting(x)' <=> Waiting(x)
        /\ UNCHANGED <<m_extra_mf_fields, m_miss_queue>>
    BY <1>1, FrameInv
  <2>8. TypeOK' /\ ClassifiedInv'
    BY <1>1, <1>2, <2>1, <2>3, <2>5, <2>6, <2>7
    DEF PartInv, ClassifiedInv, TypeOK, dramVars, phaseVars, QueuesInv
  <2>9. ASSUME NEW x \in Req, NEW k \in Places
        PROVE  IsAt(x, k)' <=> \/ IsAt(x, k) /\ ~(x = r /\ k = "to_l2")
                               \/ x = r /\ k = "retired"
    <3>1. CASE k \in Queues
      <4>1. k # "retired"
        BY <3>1 DEF Queues
      <4> QED
        BY <2>5, <3>1, <4>1, AtQueue
    <3>2. CASE k \notin Queues
      <4>1. k # "to_l2"
        BY <3>2, <2>2
      <4>2. UNCHANGED <<classified, dram_waiting, dram_served, pending, l2_dram>>
        BY <1>1 DEF dramVars, phaseVars
      <4>3. x \in retired' <=> x \in retired \/ x = r
        BY <2>1
      <4> QED
        BY <2>7, <3>2, <4>1, <4>2, <4>3 DEF IsAt
    <3> QED
      BY <3>1, <3>2
  <2>10. Moves(r, "retired")
    BY <2>2, <2>3, <2>9, MovesFrom DEF PartInv
  <2>11. /\ mf[r] \in Kinds("retired") /\ mf[r] # Meta /\ mf[r] # Burst
         /\ mf' = mf /\ m_huffman_enabled' = m_huffman_enabled
    BY <1>1, <2>4, KindsDiffer DEF Kinds, m_huffman_enabled, phaseVars
  <2>12. InOnePlace' /\ FieldsInv' /\ FetchInv'
    BY <1>2, <2>2, <2>3, <2>4, <2>7, <2>10, <2>11, MoveInv DEF PartInv
  <2> QED
    BY <2>5, <2>7, <2>8, <2>12 DEF PartInv
<1>4. CASE ~fits
  <2>1. UNCHANGED <<q, dram_l2, retired>>
    BY <1>4 DEF DeliverToL2
  <2> QED
    BY <1>1, <1>2, <2>1, QuietStep DEF l2Vars
<1> QED
  BY <1>3, <1>4

\* The DRAM completes a request: a writeback is done, a read returns.
LEMMA CompleteStep ==
    ASSUME PartInv, NEW x \in Req \cup Writebacks, DramCompletes(x)
    PROVE  PartInv'
<1>1. /\ stage = "complete" /\ stage' = "schedule"
      /\ x \in dram_served /\ dram_served' = dram_served \ {x}
      /\ UNCHANGED <<pending, l2_dram, dram_l2, dram_waiting, phaseVars, mf, cacheVars>>
  BY DEF DramCompletes, Go
<1>2. /\ CacheInv' /\ CacheTypeOK' /\ L2Inv'
      /\ \A y \in Req : Waiting(y)' <=> Waiting(y)
      /\ UNCHANGED <<m_extra_mf_fields, m_miss_queue>>
  BY <1>1, FrameInv
<1>3. stage' \in CycleStages \cup Crashes /\ stage \notin {"no_interval", "classify"}
  BY <1>1 DEF CycleStages
<1>4. /\ m_huffman_enabled' = m_huffman_enabled
      /\ UNCHANGED <<classified, pending, l2_dram, dram_waiting, codebook, compressing>>
  BY <1>1 DEF m_huffman_enabled, phaseVars
<1>5. "served" \in Places /\ "retired" \in Places /\ "returnq" \in Places
      /\ "returnq" \in Queues
  BY DEF Places, Queues
<1>6. x \in Req => /\ IsAt(x, "served")
                   /\ \A k \in Places : IsAt(x, k) <=> k = "served"
                   /\ mf[x] \in {Fresh, Burst}
                   /\ mf[x] # Fresh => x \in CompressibleR
                   /\ mf[x] = Burst => m_huffman_enabled
                   /\ x \notin m_extra_mf_fields
  <2> SUFFICES ASSUME x \in Req
               PROVE  /\ IsAt(x, "served")
                      /\ \A k \in Places : IsAt(x, k) <=> k = "served"
                      /\ mf[x] \in {Fresh, Burst}
                      /\ mf[x] # Fresh => x \in CompressibleR
                      /\ mf[x] = Burst => m_huffman_enabled
                      /\ x \notin m_extra_mf_fields
    OBVIOUS
  <2>1. IsAt(x, "served")
    BY <1>1 DEF IsAt
  <2> QED
    BY <1>3, <1>5, <2>1, KindAt DEF Kinds, FetchPlaces
<1>7. CASE x \in WriteBackR \cup Writebacks
  <2>1. q' = q /\ retired' = retired \cup ({x} \cap Req)
    BY <1>1, <1>7 DEF DramCompletes, set_done
  <2>2. QueuesInv'
    BY <2>1 DEF PartInv, QueuesInv
  <2>3. TypeOK' /\ ClassifiedInv'
    BY <1>1, <1>2, <1>3, <1>4, <2>1 DEF PartInv, ClassifiedInv, TypeOK
  <2>4. CASE x \in Req
    <3>1. mf[x] = Fresh
      BY <1>6, <1>7, <2>4, PartitionAssumption, WritebackAssumption
    <3>2. ASSUME NEW y \in Req, NEW k \in Places
          PROVE  IsAt(y, k)' <=> \/ IsAt(y, k) /\ ~(y = x /\ k = "served")
                                 \/ y = x /\ k = "retired"
      <4>1. k \in Queues => k \notin {"served", "retired"}
        BY DEF Queues
      <4>2. /\ y \in retired' <=> y \in retired \/ y = x
            /\ y \in dram_served' <=> y \in dram_served /\ y # x
        BY <1>1, <2>1, <2>4
      <4> QED
        BY <1>2, <1>4, <2>1, <4>1, <4>2 DEF IsAt
    <3>3. Moves(x, "retired")
      BY <1>5, <1>6, <2>4, <3>2, MovesFrom DEF PartInv
    <3>4. Fresh \in Kinds("retired") /\ Fresh # Meta /\ Fresh # Burst
      BY KindsDiffer DEF Kinds
    <3>5. InOnePlace' /\ FieldsInv' /\ FetchInv'
      BY <1>1, <1>2, <1>3, <1>4, <1>5, <1>6, <2>4, <3>1, <3>3, <3>4, MoveInv DEF PartInv
    <3> QED
      BY <1>2, <2>2, <2>3, <3>5 DEF PartInv
  <2>5. CASE x \notin Req
    <3>1. Stays
      <4> SUFFICES ASSUME NEW y \in Req, NEW k \in Places
                   PROVE  IsAt(y, k)' <=> IsAt(y, k)
        BY DEF Stays
      <4>1. /\ y \in retired' <=> y \in retired
            /\ y \in dram_served' <=> y \in dram_served
        BY <1>1, <2>1, <2>5
      <4> QED
        BY <1>2, <1>4, <2>1, <4>1 DEF IsAt
    <3>2. InOnePlace' /\ FieldsInv' /\ FetchInv'
      BY <1>1, <1>2, <1>3, <1>4, <3>1, StayInv DEF PartInv
    <3> QED
      BY <1>2, <2>2, <2>3, <3>2 DEF PartInv
  <2> QED
    BY <2>4, <2>5
<1>8. CASE x \notin WriteBackR \cup Writebacks
  <2>1. x \in Req /\ q' = Push("returnq", x) /\ retired' = retired
    BY <1>8 DEF DramCompletes
  <2>2. x \notin ToSet(q["returnq"])
    BY <1>5, <1>6, <2>1 DEF IsAt
  <2>3. /\ QueuesInv'
        /\ \A y \in Req, k \in Queues :
              y \in ToSet(q'[k]) <=> y \in ToSet(q[k]) \/ (k = "returnq" /\ y = x)
    BY <1>5, <2>1, <2>2, PushQueues DEF PartInv
  <2>4. TypeOK' /\ ClassifiedInv'
    BY <1>1, <1>2, <1>3, <1>4, <2>1, <2>3 DEF PartInv, ClassifiedInv, TypeOK, QueuesInv
  <2>5. ASSUME NEW y \in Req, NEW k \in Places
        PROVE  IsAt(y, k)' <=> \/ IsAt(y, k) /\ ~(y = x /\ k = "served")
                               \/ y = x /\ k = "returnq"
    <3>1. CASE k \in Queues
      <4>1. k # "served"
        BY <3>1 DEF Queues
      <4> QED
        BY <2>3, <3>1, <4>1, AtQueue
    <3>2. CASE k \notin Queues
      <4>1. k # "returnq"
        BY <3>2, <1>5
      <4>2. y \in dram_served' <=> y \in dram_served /\ y # x
        BY <1>1
      <4> QED
        BY <1>2, <1>4, <2>1, <3>2, <4>1, <4>2 DEF IsAt
    <3> QED
      BY <3>1, <3>2
  <2>6. Moves(x, "returnq")
    BY <1>5, <1>6, <2>1, <2>5, MovesFrom DEF PartInv
  <2>7. mf[x] \in Kinds("returnq") /\ mf[x] # Meta
    BY <1>6, <2>1, KindsDiffer DEF Kinds
  <2>8. InOnePlace' /\ FieldsInv' /\ FetchInv'
    BY <1>1, <1>2, <1>3, <1>4, <1>5, <1>6, <2>1, <2>6, <2>7, MoveInv DEF PartInv
  <2> QED
    BY <1>2, <2>3, <2>4, <2>8 DEF PartInv
<1> QED
  BY <1>7, <1>8

\* The DRAM schedules some of the requests that wait.
LEMMA ScheduleStep ==
    ASSUME PartInv, NEW S \in SUBSET dram_waiting, DramSchedules(S)
    PROVE  PartInv'
<1>1. /\ stage = "schedule" /\ stage' = "arbitrate"
      /\ dram_waiting' = dram_waiting \ S
      /\ dram_served' = dram_served \cup S
      /\ UNCHANGED <<l2Vars, q, phaseVars, mf, cacheVars>>
  BY DEF DramSchedules, Go
<1>2. /\ CacheInv' /\ CacheTypeOK' /\ L2Inv'
      /\ \A y \in Req : Waiting(y)' <=> Waiting(y)
      /\ UNCHANGED <<m_extra_mf_fields, m_miss_queue>>
  BY <1>1, FrameInv DEF l2Vars
<1>3. UNCHANGED <<pending, l2_dram, dram_l2, retired, classified, codebook,
                  compressing, m_huffman_enabled>>
  BY <1>1 DEF l2Vars, phaseVars, m_huffman_enabled
<1>4. TypeOK' /\ ClassifiedInv' /\ QueuesInv'
  BY <1>1, <1>2, <1>3 DEF PartInv, ClassifiedInv, TypeOK, QueuesInv, CycleStages
<1>5. "waiting" \in Places /\ "served" \in Places
  BY DEF Places
<1>6. ASSUME NEW x \in Req, x \in S
      PROVE  /\ IsAt(x, "waiting")
             /\ \A k \in Places : IsAt(x, k)' <=> k = "served"
  <2>1. IsAt(x, "waiting")
    BY <1>6 DEF IsAt
  <2>2. \A k \in Places : IsAt(x, k) <=> k = "waiting"
    BY <1>5, <2>1, OnlyPlace DEF PartInv
  <2>3. x \in dram_served' /\ x \notin dram_waiting'
    BY <1>1, <1>6
  <2>4. ASSUME NEW k \in Places PROVE IsAt(x, k)' <=> k = "served"
    <3>1. CASE k \in {"waiting", "served"}
      BY <2>3, <3>1 DEF IsAt, Queues
    <3>2. CASE k \notin {"waiting", "served"}
      <4>1. IsAt(x, k)' <=> IsAt(x, k)
        BY <1>1, <1>2, <1>3, <3>2 DEF IsAt
      <4> QED
        BY <2>2, <3>2, <4>1
    <3> QED
      BY <3>1, <3>2
  <2> QED
    BY <2>1, <2>4
<1>7. ASSUME NEW x \in Req, x \notin S, NEW k \in Places
      PROVE  IsAt(x, k)' <=> IsAt(x, k)
  <2>1. /\ x \in dram_served' <=> x \in dram_served
        /\ x \in dram_waiting' <=> x \in dram_waiting
    BY <1>1, <1>7
  <2> QED
    BY <1>1, <1>2, <1>3, <2>1 DEF IsAt
<1>8. InOnePlace'
  BY <1>5, <1>6, <1>7 DEF PartInv, InOnePlace
<1>9. ASSUME NEW x \in Req
      PROVE  /\ \A k \in Places : IsAt(x, k)' => mf[x] \in Kinds(k)
             /\ IsAt(x, "to_translater")' => IsAt(x, "to_translater")
             /\ \A k \in FetchPlaces : IsAt(x, k)' <=> IsAt(x, k)
  <2>1. Kinds("waiting") = Kinds("served")
    BY DEF Kinds
  <2>2. /\ "to_translater" \in Places /\ "to_translater" # "served"
        /\ FetchPlaces \subseteq Places \ {"waiting", "served"}
    BY DEF Places, Queues, FetchPlaces
  <2>3. CASE x \in S
    <3>1. \A k \in Places : IsAt(x, k) <=> k = "waiting"
      BY <1>5, <1>6, <2>3, OnlyPlace DEF PartInv
    <3> QED
      BY <1>5, <1>6, <2>1, <2>2, <2>3, <3>1 DEF PartInv, FieldsInv
  <2>4. CASE x \notin S
    BY <1>7, <2>2, <2>4 DEF PartInv, FieldsInv
  <2> QED
    BY <2>3, <2>4
<1>10. FieldsInv'
  <2> SUFFICES ASSUME NEW x \in Req
               PROVE  /\ \A k \in Places : IsAt(x, k)' => mf'[x] \in Kinds(k)
                      /\ mf'[x] # Fresh \/ IsAt(x, "to_translater")' => x \in CompressibleR
                      /\ mf'[x] = Burst => m_huffman_enabled' \/ stage' = "no_interval"
    BY DEF FieldsInv, Fresh, Burst, Kinds, Meta, Back
  <2> QED
    BY <1>1, <1>3, <1>9 DEF PartInv, FieldsInv
<1>11. FetchInv'
  <2> SUFFICES ASSUME NEW x \in Req
               PROVE  x \in m_extra_mf_fields'
                         <=> mf'[x] = Meta /\ \E k \in FetchPlaces : IsAt(x, k)'
    BY DEF FetchInv, Fresh, Meta
  <2> QED
    BY <1>1, <1>2, <1>9 DEF PartInv, FetchInv
<1> QED
  BY <1>2, <1>4, <1>8, <1>10, <1>11 DEF PartInv

\* A sub partition is served.
LEMMA ArbitrateStep == ASSUME PartInv, Arbitrate PROVE PartInv'
<1>1. /\ stage = "arbitrate" /\ stage' = "classify"
      /\ UNCHANGED <<pending, dram_l2, q, dramVars, mf, compressing, codebook,
                     retired, cacheVars>>
  BY DEF Arbitrate, Go
<1>2. stage' \in CycleStages \cup Crashes /\ stage \notin {"no_interval", "classify"}
  BY <1>1 DEF CycleStages
<1>3. /\ CacheInv' /\ CacheTypeOK'
      /\ \A x \in Req : Waiting(x)' <=> Waiting(x)
      /\ UNCHANGED <<m_extra_mf_fields, m_miss_queue>>
  BY <1>1, CacheInvStutter DEF PartInv, CacheInv
<1>4. QueuesInv'
  BY <1>1 DEF PartInv, QueuesInv
<1>5. UNCHANGED <<dram_waiting, dram_served, m_huffman_enabled>>
  BY <1>1 DEF dramVars, m_huffman_enabled
<1>6. classified = NoReq /\ NoReq \notin Req
  BY <1>1, PartitionAssumption DEF PartInv, ClassifiedInv
<1>7. CASE Candidates = {} \/ dram_full
  <2>1. classified' = classified /\ l2_dram' = l2_dram
    BY <1>6, <1>7 DEF Arbitrate
  <2> QED
    BY <1>1, <1>2, <2>1, QuietStep DEF l2Vars, phaseVars
<1>8. CASE ~(Candidates = {} \/ dram_full)
  <2>1. PICK p \in SubPart : /\ IsNext(p)
                             /\ classified' = Head(l2_dram[p])
                             /\ l2_dram' = [l2_dram EXCEPT ![p] = Tail(@)]
    BY <1>8 DEF Arbitrate
  <2> DEFINE r == Head(l2_dram[p])
  <2>2. /\ l2_dram \in [SubPart -> Seq(Req)]
        /\ l2_dram[p] \in Seq(Req) /\ l2_dram[p] # <<>>
        /\ Once(l2_dram[p], Req)
        /\ \A x \in ToSet(l2_dram[p]) : SubOf[x] = p
    BY <2>1 DEF PartInv, TypeOK, L2Inv, IsNext, Candidates
  <2>3. /\ r \in Req /\ r \in ToSet(l2_dram[p])
        /\ Tail(l2_dram[p]) \in Seq(Req)
        /\ ToSet(l2_dram[p]) = ToSet(Tail(l2_dram[p])) \cup {r}
    BY <2>2, TailQueue
  <2>4. Once(Tail(l2_dram[p]), Req) /\ (r \in Req => r \notin ToSet(Tail(l2_dram[p])))
    BY <2>2, TailOnce
  <2>5. /\ l2_dram' \in [SubPart -> Seq(Req)]
        /\ l2_dram'[p] = Tail(l2_dram[p])
        /\ \A o \in SubPart : o # p => l2_dram'[o] = l2_dram[o]
    BY <2>1, <2>2, <2>3
  <2>6. SubOf[r] = p /\ classified' = r
    BY <2>1, <2>2, <2>3
  <2> HIDE DEF r
  <2>7. L2Inv'
    BY <2>2, <2>3, <2>4, <2>5 DEF PartInv, L2Inv
  <2>8. TypeOK' /\ ClassifiedInv'
    BY <1>1, <1>2, <1>3, <1>5, <2>3, <2>5, <2>6 DEF PartInv, ClassifiedInv, TypeOK
  <2>9. "l2" \in Places /\ "classified" \in Places
    BY DEF Places
  <2>10. IsAt(r, "l2")
    BY <2>3, <2>6 DEF IsAt
  <2>11. /\ \A k \in Places : IsAt(r, k) <=> k = "l2"
         /\ mf[r] = Fresh
         /\ r \notin m_extra_mf_fields
    BY <2>3, <2>9, <2>10, KindAt DEF Kinds, FetchPlaces
  <2>12. ASSUME NEW x \in Req, NEW k \in Places
         PROVE  IsAt(x, k)' <=> \/ IsAt(x, k) /\ ~(x = r /\ k = "l2")
                                \/ x = r /\ k = "classified"
    <3>1. k \in Queues => k \notin {"l2", "classified"}
      BY DEF Queues
    <3>2. SubOf[x] \in SubPart
      BY SubOfAssumption
    <3>3. x \in ToSet(l2_dram'[SubOf[x]]) <=> x \in ToSet(l2_dram[SubOf[x]]) /\ x # r
      BY <2>3, <2>4, <2>5, <2>6, <3>2
    <3>4. (x = classified' <=> x = r) /\ x # classified
      BY <1>6, <2>6
    <3> QED
      BY <1>1, <1>3, <1>5, <3>1, <3>3, <3>4 DEF IsAt
  <2>13. Moves(r, "classified")
    BY <2>3, <2>9, <2>10, <2>12, MovesFrom DEF PartInv
  <2>14. Fresh \in Kinds("classified") /\ Fresh # Meta /\ Fresh # Burst
    BY KindsDiffer DEF Kinds
  <2>15. InOnePlace' /\ FieldsInv' /\ FetchInv'
    BY <1>1, <1>2, <1>3, <1>5, <2>3, <2>9, <2>11, <2>13, <2>14, MoveInv DEF PartInv
  <2> QED
    BY <1>3, <1>4, <2>7, <2>8, <2>15 DEF PartInv
<1> QED
  BY <1>7, <1>8

\* The request is sampled and routed.
LEMMA ClassifyStep == ASSUME PartInv, Classify PROVE PartInv'
<1> DEFINE r == classified
           n == Route(r)
<1>1. /\ stage = "classify" /\ stage' \in {"translate", "latency"}
      /\ codebook' = Built
      /\ q' = IF r = NoReq THEN q ELSE Push(n, r)
      /\ classified' = NoReq
      /\ UNCHANGED <<l2Vars, dramVars, mf, compressing, cacheVars>>
  BY DEF Classify, Go
<1>2. stage' \in CycleStages \cup Crashes /\ stage # "no_interval"
  BY <1>1 DEF CycleStages
<1>3. codebook' \in CodebookProgress /\ (m_huffman_enabled => m_huffman_enabled')
  BY <1>1 DEF PartInv, TypeOK, Built, Sampled, CodebookProgress, m_huffman_enabled
<1>4. CASE r = NoReq
  BY <1>1, <1>2, <1>3, <1>4, NothingMoves DEF l2Vars, PartInv, TypeOK
<1>5. CASE r # NoReq
  <2>1. r \in Req /\ q' = Push(n, r)
    BY <1>1, <1>5 DEF PartInv, TypeOK
  <2>2. /\ n \in {"latency", "to_translater", "to_compressor", "to_dram"}
        /\ n = "to_translater" => r \in CompressibleR
    BY DEF Route
  <2>3. n \in Queues /\ n \in Places /\ "classified" \in Places
    BY <2>2 DEF Queues, Places
  <2>4. IsAt(r, "classified")
    BY DEF IsAt
  <2> HIDE DEF n
  <2>5. /\ \A k \in Places : IsAt(r, k) <=> k = "classified"
        /\ mf[r] = Fresh
        /\ r \notin m_extra_mf_fields
    BY <2>1, <2>3, <2>4, KindAt DEF Kinds, FetchPlaces
  <2>6. n # "classified" /\ r \notin ToSet(q[n])
    BY <2>2, <2>3, <2>5 DEF IsAt
  <2>7. /\ QueuesInv'
        /\ \A y \in Req, k \in Queues :
              y \in ToSet(q'[k]) <=> y \in ToSet(q[k]) \/ (k = n /\ y = r)
    BY <2>1, <2>3, <2>6, PushQueues DEF PartInv
  <2>8. /\ CacheInv' /\ CacheTypeOK' /\ L2Inv'
        /\ \A x \in Req : Waiting(x)' <=> Waiting(x)
        /\ UNCHANGED <<m_extra_mf_fields, m_miss_queue>>
    BY <1>1, FrameInv DEF l2Vars
  <2>9. TypeOK' /\ ClassifiedInv'
    BY <1>1, <1>2, <1>3, <2>7, <2>8
    DEF PartInv, ClassifiedInv, TypeOK, QueuesInv, l2Vars, dramVars
  <2>10. ASSUME NEW y \in Req, NEW k \in Places
         PROVE  IsAt(y, k)' <=> \/ IsAt(y, k) /\ ~(y = r /\ k = "classified")
                                \/ y = r /\ k = n
    <3>1. CASE k \in Queues
      <4>1. k # "classified"
        BY <3>1 DEF Queues
      <4> QED
        BY <2>7, <3>1, <4>1, AtQueue
    <3>2. CASE k \notin Queues
      <4>1. k # n
        BY <3>2, <2>3
      <4>2. y # classified' /\ UNCHANGED <<pending, l2_dram, dram_waiting,
                                           dram_served, retired>>
        BY <1>1, PartitionAssumption DEF l2Vars, dramVars
      <4> QED
        BY <2>8, <3>2, <4>1, <4>2 DEF IsAt
    <3> QED
      BY <3>1, <3>2
  <2>11. Moves(r, n)
    BY <2>1, <2>3, <2>4, <2>10, MovesFrom DEF PartInv
  <2>12. Fresh \in Kinds(n) /\ Fresh # Meta /\ Fresh # Burst
    BY <2>2, KindsDiffer DEF Kinds
  <2>13. InOnePlace' /\ FieldsInv' /\ FetchInv'
    BY <1>1, <1>2, <1>3, <2>1, <2>2, <2>3, <2>5, <2>8, <2>11, <2>12, MoveInv DEF PartInv
  <2> QED
    BY <2>7, <2>8, <2>9, <2>13 DEF PartInv
<1> QED
  BY <1>4, <1>5

\* A metadata request moves in, into or out of the metadata cache.
LEMMA CacheMoves ==
    ASSUME PartInv, CacheInv', QueuesInv', stage' \in CycleStages,
           stage \notin {"no_interval", "classify"},
           UNCHANGED <<l2Vars, dramVars, phaseVars, mf>>,
           NEW r \in Req, NEW m \in Places, NEW n \in Places, IsAt(r, m),
           mf[r] = Meta, Meta \in Kinds(n),
           \A x \in Req, k \in Places :
              IsAt(x, k)' <=> \/ IsAt(x, k) /\ ~(x = r /\ k = m)
                              \/ x = r /\ k = n,
           \A x \in Req : x \in m_extra_mf_fields'
                             <=> IF x = r THEN n \in FetchPlaces
                                 ELSE x \in m_extra_mf_fields
    PROVE  PartInv'
<1>1. Moves(r, n)
  BY MovesFrom DEF PartInv
<1>2. UNCHANGED <<pending, l2_dram, dram_l2, retired, dram_waiting, dram_served,
                  classified, compressing, codebook, m_huffman_enabled>>
  BY DEF l2Vars, dramVars, phaseVars, m_huffman_enabled
<1>3. TypeOK' /\ ClassifiedInv' /\ L2Inv'
  BY <1>2 DEF PartInv, ClassifiedInv, TypeOK, L2Inv, CacheInv, QueuesInv
<1>4. r \in CompressibleR
  BY KindAt, KindsDiffer
<1>5. InOnePlace' /\ FieldsInv' /\ FetchInv'
  BY <1>1, <1>2, <1>4, KindsDiffer, MoveInv DEF PartInv
<1> QED
  BY <1>3, <1>5 DEF PartInv

\* The cache answers a read: its metadata is known.
LEMMA ResponseStep == ASSUME PartInv, MetadataResponse PROVE PartInv'
<1> DEFINE r == next_read
           ready == access_ready /\ Len(q["from_metadata"]) < QueueSize
<1>1. /\ stage = "respond" /\ stage' = "fill"
      /\ UNCHANGED <<l2Vars, dramVars, phaseVars, mf>>
  BY DEF MetadataResponse, Go
<1>2. stage' \in CycleStages /\ stage \notin {"no_interval", "classify"}
  BY <1>1 DEF CycleStages
<1>3. CASE ready
  <2>1. access_ready /\ next_access /\ q' = Push("from_metadata", r)
    BY <1>3 DEF MetadataResponse
  <2>2. /\ CacheInv'
        /\ r \in Req /\ Waiting(r) /\ r \notin m_extra_mf_fields
        /\ \A x \in Req : Waiting(x)' <=> Waiting(x) /\ x # r
        /\ UNCHANGED <<m_extra_mf_fields, m_miss_queue>>
    BY <2>1, NextKeeps DEF PartInv
  <2> HIDE DEF r
  <2>3. /\ "mshr" \in Places /\ "from_metadata" \in Places
        /\ "from_metadata" \in Queues /\ "mshr" \notin Queues
    BY DEF Places, Queues
  <2>4. IsAt(r, "mshr")
    BY <2>2 DEF IsAt
  <2>5. (\A k \in Places : IsAt(r, k) <=> k = "mshr") /\ mf[r] = Meta
    BY <2>2, <2>3, <2>4, KindAt DEF Kinds
  <2>6. r \notin ToSet(q["from_metadata"])
    BY <2>3, <2>5 DEF IsAt
  <2>7. /\ QueuesInv'
        /\ \A y \in Req, k \in Queues :
              y \in ToSet(q'[k]) <=> y \in ToSet(q[k]) \/ (k = "from_metadata" /\ y = r)
    BY <2>1, <2>2, <2>3, <2>6, PushQueues DEF PartInv
  <2>8. ASSUME NEW y \in Req, NEW k \in Places
        PROVE  IsAt(y, k)' <=> \/ IsAt(y, k) /\ ~(y = r /\ k = "mshr")
                               \/ y = r /\ k = "from_metadata"
    <3>1. CASE k \in Queues
      BY <2>3, <2>7, <3>1, AtQueue
    <3>2. CASE k \notin Queues
      <4>1. UNCHANGED <<classified, pending, l2_dram, dram_waiting, dram_served, retired>>
        BY <1>1 DEF l2Vars, dramVars, phaseVars
      <4> QED
        BY <2>2, <2>3, <3>2, <4>1 DEF IsAt
    <3> QED
      BY <3>1, <3>2
  <2>9. Meta \in Kinds("from_metadata") /\ "from_metadata" \notin FetchPlaces
    BY DEF Kinds, FetchPlaces
  <2> QED
    BY <1>1, <1>2, <2>2, <2>3, <2>4, <2>5, <2>7, <2>8, <2>9, CacheMoves
<1>4. CASE ~ready
  <2>1. UNCHANGED <<cacheVars, q>>
    BY <1>4 DEF MetadataResponse
  <2> QED
    BY <1>1, <1>2, <2>1, QuietStep
<1> QED
  BY <1>3, <1>4

\* A fill is for a read that the cache waits for.
LEMMA FillStep == ASSUME PartInv, MetadataFill PROVE PartInv'
<1> DEFINE r == Head(q["dram_to_metadata"])
<1>1. /\ stage = "fill" /\ stage' = "miss"
      /\ UNCHANGED <<l2Vars, dramVars, phaseVars, mf>>
  BY DEF MetadataFill, Go
<1>2. stage' \in CycleStages /\ stage \notin {"no_interval", "classify"}
  BY <1>1 DEF CycleStages
<1>3. CASE q["dram_to_metadata"] # <<>>
  <2>1. /\ q' = Pop("dram_to_metadata")
        /\ r \in m_extra_mf_fields => fill(r)
    BY <1>3 DEF MetadataFill
  <2>2. /\ "mshr" \in Places /\ "miss" \in Places
        /\ "dram_to_metadata" \in Queues /\ "dram_to_metadata" \in Places
        /\ "mshr" \notin Queues
    BY DEF Places, Queues
  <2>3. r \in Req /\ IsAt(r, "dram_to_metadata")
    BY <1>3, <2>2, HeadKind
  <2>4. /\ \A k \in Places : IsAt(r, k) <=> k = "dram_to_metadata"
        /\ mf[r] = Meta
        /\ r \in m_extra_mf_fields
    BY <2>2, <2>3, KindAt DEF Kinds, FetchPlaces
  <2>5. r \notin ToSet(m_miss_queue)
    BY <2>2, <2>4 DEF IsAt
  <2>6. fill(r) /\ CacheInv' /\ Waiting(r)
    BY <2>1, <2>4, <2>5, FillKeeps, FetchWaits DEF PartInv
  <2>7. /\ QueuesInv'
        /\ \A x \in Req, k \in Queues :
              x \in ToSet(q'[k])
                 <=> x \in ToSet(q[k]) /\ ~(k = "dram_to_metadata" /\ x = r)
    BY <1>3, <2>1, <2>2, PopQueues DEF PartInv
  <2> HIDE DEF r
  <2>8. /\ \A x \in Req : Waiting(x)' <=> Waiting(x)
        /\ m_extra_mf_fields' = m_extra_mf_fields \ {r}
        /\ m_miss_queue' = m_miss_queue
    BY <2>6 DEF fill, Waiting
  <2>9. ASSUME NEW y \in Req, NEW k \in Places
        PROVE  IsAt(y, k)' <=> \/ IsAt(y, k) /\ ~(y = r /\ k = "dram_to_metadata")
                               \/ y = r /\ k = "mshr"
    <3>1. CASE k \in Queues
      BY <2>2, <2>7, <3>1, AtQueue
    <3>2. CASE k \notin Queues
      <4>1. UNCHANGED <<classified, pending, l2_dram, dram_waiting, dram_served, retired>>
        BY <1>1 DEF l2Vars, dramVars, phaseVars
      <4>2. (y \notin m_extra_mf_fields' /\ Waiting(y)')
               <=> (y \notin m_extra_mf_fields /\ Waiting(y)) \/ y = r
        BY <2>6, <2>8
      <4> QED
        BY <2>2, <2>8, <3>2, <4>1, <4>2 DEF IsAt
    <3> QED
      BY <3>1, <3>2
  <2>10. Meta \in Kinds("mshr") /\ "mshr" \notin FetchPlaces
    BY DEF Kinds, FetchPlaces
  <2> QED
    BY <1>1, <1>2, <2>2, <2>3, <2>4, <2>6, <2>7, <2>8, <2>9, <2>10, CacheMoves
<1>4. CASE q["dram_to_metadata"] = <<>>
  <2>1. UNCHANGED <<cacheVars, q>>
    BY <1>4 DEF MetadataFill
  <2> QED
    BY <1>1, <1>2, <2>1, QuietStep
<1> QED
  BY <1>3, <1>4

\* The cache sends a miss or a writeback below.
LEMMA MissStep == ASSUME PartInv, MetadataMiss PROVE PartInv'
<1> DEFINE h == Head(m_miss_queue)
           sends == m_miss_queue # <<>> /\ Len(q["to_dram"]) < QueueSize
<1>1. /\ stage = "miss" /\ stage' = "access"
      /\ cache_cycle(sends)
      /\ q' = IF sends THEN Push("to_dram", h) ELSE q
      /\ UNCHANGED <<l2Vars, dramVars, phaseVars, mf>>
  BY DEF MetadataMiss, Go
<1>2. stage' \in CycleStages /\ stage \notin {"no_interval", "classify"}
  BY <1>1 DEF CycleStages
<1>3. sends \in BOOLEAN /\ (sends => m_miss_queue # <<>>)
  OBVIOUS
<1> HIDE DEF sends
<1>4. /\ CacheInv'
      /\ sends => h \in Req \cup Writebacks /\ h \in ToSet(m_miss_queue)
      /\ \A x \in Req : x \in ToSet(m_miss_queue')
                           <=> x \in ToSet(m_miss_queue) /\ ~(sends /\ x = h)
      /\ UNCHANGED <<mshr, m_extra_mf_fields>>
  BY <1>1, <1>3, CycleKeeps DEF PartInv
<1> HIDE DEF h
<1>5. \A x \in Req : Waiting(x)' <=> Waiting(x)
  BY <1>4 DEF Waiting
<1>6. UNCHANGED <<classified, pending, l2_dram, dram_l2, dram_waiting, dram_served,
                  retired, codebook, compressing, m_huffman_enabled>>
  BY <1>1 DEF l2Vars, dramVars, phaseVars, m_huffman_enabled
<1>7. /\ "miss" \in Places /\ "to_dram" \in Places
      /\ "to_dram" \in Queues /\ "miss" \notin Queues
  BY DEF Places, Queues
<1>8. CASE sends /\ h \in Req
  <2>1. IsAt(h, "miss")
    BY <1>4, <1>8 DEF IsAt
  <2>2. /\ \A k \in Places : IsAt(h, k) <=> k = "miss"
        /\ mf[h] = Meta
        /\ h \in m_extra_mf_fields
    BY <1>7, <1>8, <2>1, KindAt DEF Kinds, FetchPlaces
  <2>3. h \notin ToSet(q["to_dram"])
    BY <1>7, <2>2 DEF IsAt
  <2>4. /\ QueuesInv'
        /\ \A y \in Req, k \in Queues :
              y \in ToSet(q'[k]) <=> y \in ToSet(q[k]) \/ (k = "to_dram" /\ y = h)
    BY <1>1, <1>7, <1>8, <2>3, PushQueues DEF PartInv
  <2>5. ASSUME NEW y \in Req, NEW k \in Places
        PROVE  IsAt(y, k)' <=> \/ IsAt(y, k) /\ ~(y = h /\ k = "miss")
                               \/ y = h /\ k = "to_dram"
    <3>1. CASE k \in Queues
      BY <1>7, <2>4, <3>1, AtQueue
    <3>2. CASE k \notin Queues
      BY <1>4, <1>5, <1>6, <1>7, <1>8, <3>2 DEF IsAt
    <3> QED
      BY <3>1, <3>2
  <2>6. Meta \in Kinds("to_dram") /\ "to_dram" \in FetchPlaces
    BY DEF Kinds, FetchPlaces
  <2> QED
    BY <1>1, <1>2, <1>4, <1>7, <1>8, <2>1, <2>2, <2>4, <2>5, <2>6, CacheMoves
<1>9. CASE ~(sends /\ h \in Req)
  <2>1. \A x \in Req : x \in ToSet(m_miss_queue') <=> x \in ToSet(m_miss_queue)
    BY <1>4, <1>9
  <2>2. /\ QueuesInv'
        /\ \A y \in Req, k \in Queues : y \in ToSet(q'[k]) <=> y \in ToSet(q[k])
    <3>1. CASE sends
      BY <1>1, <1>4, <1>7, <1>9, <3>1, PushQueues DEF PartInv
    <3>2. CASE ~sends
      BY <1>1, <3>2 DEF PartInv, QueuesInv
    <3> QED
      BY <3>1, <3>2
  <2>3. TypeOK' /\ ClassifiedInv' /\ L2Inv'
    BY <1>1, <1>2, <1>4, <1>6, <2>2
    DEF PartInv, ClassifiedInv, TypeOK, L2Inv, CacheInv, QueuesInv
  <2>4. Stays
    <3> SUFFICES ASSUME NEW y \in Req, NEW k \in Places
                 PROVE  IsAt(y, k)' <=> IsAt(y, k)
      BY DEF Stays
    <3>1. CASE k \in Queues
      BY <2>2, <3>1, AtQueue
    <3>2. CASE k \notin Queues
      BY <1>4, <1>5, <1>6, <2>1, <3>2 DEF IsAt
    <3> QED
      BY <3>1, <3>2
  <2>5. InOnePlace' /\ FieldsInv' /\ FetchInv'
    BY <1>1, <1>2, <1>4, <1>6, <2>4, StayInv DEF PartInv
  <2> QED
    BY <1>4, <2>2, <2>3, <2>5 DEF PartInv
<1> QED
  BY <1>8, <1>9

\* A read accesses the cache: it hits, joins the reads that wait, or is refused
\* and tried again.
LEMMA AccessStep == ASSUME PartInv, MetadataAccess PROVE PartInv'
<1> DEFINE r == Head(q["to_metadata"])
           goes == /\ q["to_metadata"] # <<>> /\ Len(q["from_metadata"]) < QueueSize
                   /\ data_port_free
<1>1. /\ stage = "access" /\ stage' = "huffman"
      /\ UNCHANGED <<l2Vars, dramVars, phaseVars, mf>>
  BY DEF MetadataAccess, Go
<1>2. stage' \in CycleStages /\ stage \notin {"no_interval", "classify"}
  BY <1>1 DEF CycleStages
<1>3. UNCHANGED <<classified, pending, l2_dram, dram_waiting, dram_served, retired>>
  BY <1>1 DEF l2Vars, dramVars, phaseVars
<1>4. CASE ~goes \/ access_outcome(r) \notin {"HIT", "MISS"}
  <2>1. UNCHANGED <<cacheVars, q>>
    BY <1>4 DEF MetadataAccess, access
  <2> QED
    BY <1>1, <1>2, <2>1, QuietStep
<1>5. CASE goes /\ access_outcome(r) \in {"HIT", "MISS"}
  <2>1. /\ q["to_metadata"] # <<>>
        /\ access_outcome(r) = "HIT" =>
              rd_hit_base(r) /\ q' = Move("to_metadata", "from_metadata")
        /\ access_outcome(r) = "MISS" => rd_miss_base(r) /\ q' = Pop("to_metadata")
    BY <1>5 DEF MetadataAccess, access
  <2>2. /\ "to_metadata" \in Queues /\ "from_metadata" \in Queues
        /\ "to_metadata" \in Places /\ "from_metadata" \in Places
        /\ "miss" \in Places /\ "mshr" \in Places
        /\ "miss" \notin Queues /\ "mshr" \notin Queues
    BY DEF Queues, Places
  <2>3. r \in Req /\ IsAt(r, "to_metadata")
    BY <2>1, <2>2, HeadKind
  <2>4. /\ \A k \in Places : IsAt(r, k) <=> k = "to_metadata"
        /\ mf[r] = Meta
        /\ r \notin m_extra_mf_fields
    BY <2>2, <2>3, KindAt DEF Kinds, FetchPlaces
  <2>5. /\ ~Waiting(r)
        /\ r \notin ToSet(q["from_metadata"])
        /\ r \notin ToSet(m_miss_queue)
    BY <2>2, <2>4 DEF IsAt
  <2>6. CASE access_outcome(r) = "HIT"
    <3>1. rd_hit_base(r) /\ q' = Move("to_metadata", "from_metadata")
      BY <2>1, <2>6
    <3>2. CacheInv'
      BY <2>3, <3>1, HitKeeps DEF PartInv
    <3>3. /\ \A x \in Req : Waiting(x)' <=> Waiting(x)
          /\ UNCHANGED <<m_extra_mf_fields, m_miss_queue>>
      BY <3>1 DEF rd_hit_base, Waiting
    <3>4. /\ QueuesInv'
          /\ \A x \in Req, k \in Queues :
                x \in ToSet(q'[k])
                   <=> \/ x \in ToSet(q[k]) /\ ~(k = "to_metadata" /\ x = r)
                       \/ k = "from_metadata" /\ x = r
      BY <2>1, <2>2, <2>3, <2>5, <3>1, MoveQueues DEF PartInv
    <3> HIDE DEF r
    <3>5. ASSUME NEW y \in Req, NEW k \in Places
          PROVE  IsAt(y, k)' <=> \/ IsAt(y, k) /\ ~(y = r /\ k = "to_metadata")
                                 \/ y = r /\ k = "from_metadata"
      <4>1. CASE k \in Queues
        BY <2>2, <3>4, <4>1, AtQueue
      <4>2. CASE k \notin Queues
        BY <1>3, <2>2, <3>3, <4>2 DEF IsAt
      <4> QED
        BY <4>1, <4>2
    <3>6. Meta \in Kinds("from_metadata") /\ "from_metadata" \notin FetchPlaces
      BY DEF Kinds, FetchPlaces
    <3> QED
      BY <1>1, <1>2, <2>2, <2>3, <2>4, <3>2, <3>3, <3>4, <3>5, <3>6, CacheMoves
  <2>7. CASE access_outcome(r) = "MISS"
    <3>1. rd_miss_base(r) /\ q' = Pop("to_metadata")
      BY <2>1, <2>7
    <3>2. /\ QueuesInv'
          /\ \A x \in Req, k \in Queues :
                x \in ToSet(q'[k])
                   <=> x \in ToSet(q[k]) /\ ~(k = "to_metadata" /\ x = r)
      BY <2>1, <2>2, <3>1, PopQueues DEF PartInv
    <3> HIDE DEF r
    <3>3. /\ CacheInv'
          /\ \A x \in Req :
               /\ Waiting(x)' <=> Waiting(x) \/ x = r
               /\ x \in m_extra_mf_fields'
                     <=> \/ x \in m_extra_mf_fields
                         \/ x = r /\ BlockOf[r] \notin Entries
               /\ x \in ToSet(m_miss_queue')
                     <=> \/ x \in ToSet(m_miss_queue)
                         \/ x = r /\ BlockOf[r] \notin Entries
      BY <2>3, <2>5, <3>1, MissKeeps DEF PartInv
    <3> DEFINE n == IF BlockOf[r] \in Entries THEN "mshr" ELSE "miss"
    <3>4. n \in Places /\ n \notin Queues
      BY <2>2
    <3>5. ASSUME NEW y \in Req, NEW k \in Places
          PROVE  IsAt(y, k)' <=> \/ IsAt(y, k) /\ ~(y = r /\ k = "to_metadata")
                                 \/ y = r /\ k = n
      <4>1. CASE k \in Queues
        BY <2>2, <3>2, <3>4, <4>1, AtQueue
      <4>2. CASE k \notin Queues
        <5>1. (y \notin m_extra_mf_fields' /\ Waiting(y)')
                 <=> \/ y \notin m_extra_mf_fields /\ Waiting(y)
                     \/ y = r /\ BlockOf[r] \in Entries
          BY <2>4, <2>5, <3>3
        <5>2. y \in ToSet(m_miss_queue')
                 <=> y \in ToSet(m_miss_queue) \/ (y = r /\ BlockOf[r] \notin Entries)
          BY <3>3
        <5>3. k # "to_metadata"
          BY <2>2, <4>2
        <5> QED
          BY <1>3, <4>2, <5>1, <5>2, <5>3 DEF IsAt
      <4> QED
        BY <4>1, <4>2
    <3>6. /\ Meta \in Kinds(n)
          /\ n \in FetchPlaces <=> BlockOf[r] \notin Entries
      BY DEF Kinds, FetchPlaces
    <3>7. \A x \in Req : x \in m_extra_mf_fields'
                            <=> IF x = r THEN n \in FetchPlaces
                                ELSE x \in m_extra_mf_fields
      BY <2>4, <3>3, <3>6
    <3> HIDE DEF n
    <3> QED
      BY <1>1, <1>2, <2>2, <2>3, <2>4, <3>2, <3>3, <3>4, <3>5, <3>6, <3>7, CacheMoves
  <2> QED
    BY <1>5, <2>6, <2>7
<1> QED
  BY <1>4, <1>5

\* The head of the latency queue is ready: a metadata read returns to the cache,
\* all others enter the DRAM.
LEMMA LatencyStep == ASSUME PartInv, LatencyOver PROVE PartInv'
<1> DEFINE r == Head(q["latency"])
<1>1. /\ stage = "latency" /\ stage' = "idle"
      /\ q["latency"] # <<>>
      /\ UNCHANGED <<l2Vars, dram_served, phaseVars, mf, cacheVars>>
  BY DEF LatencyOver, Go
<1>2. /\ stage' \in CycleStages \cup Crashes
      /\ stage \notin {"no_interval", "classify"}
  BY <1>1 DEF CycleStages, Crashes
<1>3. /\ "latency" \in Queues /\ "dram_to_metadata" \in Queues
      /\ "latency" \in Places /\ "waiting" \in Places /\ "waiting" \notin Queues
  BY DEF Queues, Places
<1>4. r \in Req \cup Writebacks /\ (r \in Req => IsAt(r, "latency"))
  BY <1>1, <1>3, HeadKind
<1>5. r \in Req => /\ \A k \in Places : IsAt(r, k) <=> k = "latency"
                   /\ mf[r] \in {Fresh, Meta, Burst}
                   /\ r \in m_extra_mf_fields <=> mf[r] = Meta
                   /\ mf[r] # Fresh => r \in CompressibleR
                   /\ mf[r] = Burst => m_huffman_enabled
  BY <1>2, <1>3, <1>4, KindAt DEF Kinds, FetchPlaces
<1>6. IsMetadata(r) <=> r \in Req /\ mf[r] = Meta
  BY <1>5, KindsDiffer DEF IsMetadata
<1>7. CASE IsMetadata(r)
  <2>1. q' = Move("latency", "dram_to_metadata") /\ UNCHANGED dram_waiting
    BY <1>7 DEF LatencyOver
  <2>2. UNCHANGED <<l2Vars, dramVars, phaseVars, cacheVars>>
    BY <1>1, <2>1 DEF dramVars
  <2>3. /\ Meta \in Kinds("dram_to_metadata") /\ Meta # Burst
        /\ "dram_to_metadata" \in FetchPlaces
    BY KindsDiffer DEF Kinds, FetchPlaces
  <2>4. mf' = mf /\ mf' \in [Req -> Fetch]
    BY <1>1 DEF PartInv, TypeOK
  <2> HIDE DEF r
  <2> QED
    BY <1>1, <1>2, <1>3, <1>5, <1>6, <1>7, <2>1, <2>2, <2>3, <2>4, HeadMoves DEF r
<1>8. CASE ~IsMetadata(r)
  <2>1. q' = Pop("latency") /\ dram_waiting' = dram_waiting \cup {r}
    BY <1>8 DEF LatencyOver
  <2>2. /\ QueuesInv'
        /\ \A x \in Req, k \in Queues :
              x \in ToSet(q'[k]) <=> x \in ToSet(q[k]) /\ ~(k = "latency" /\ x = r)
    BY <1>1, <1>3, <2>1, PopQueues DEF PartInv
  <2> HIDE DEF r
  <2>3. /\ CacheInv' /\ CacheTypeOK' /\ L2Inv'
        /\ \A x \in Req : Waiting(x)' <=> Waiting(x)
        /\ UNCHANGED <<m_extra_mf_fields, m_miss_queue>>
    BY <1>1, FrameInv DEF l2Vars
  <2>4. UNCHANGED <<classified, pending, l2_dram, dram_l2, dram_served, retired,
                    codebook, compressing, m_huffman_enabled>>
    BY <1>1 DEF l2Vars, phaseVars, m_huffman_enabled
  <2>5. TypeOK' /\ ClassifiedInv'
    BY <1>1, <1>2, <1>4, <2>1, <2>2, <2>3, <2>4
    DEF PartInv, ClassifiedInv, TypeOK, QueuesInv
  <2>6. ASSUME NEW y \in Req, NEW k \in Places
        PROVE  IsAt(y, k)' <=> \/ IsAt(y, k) /\ ~(y = r /\ k = "latency")
                               \/ y = r /\ k = "waiting"
    <3>1. CASE k \in Queues
      BY <1>3, <2>2, <3>1, AtQueue
    <3>2. CASE k \notin Queues
      <4>1. y \in dram_waiting' <=> y \in dram_waiting \/ y = r
        BY <2>1
      <4> QED
        BY <1>3, <2>3, <2>4, <3>2, <4>1 DEF IsAt
    <3> QED
      BY <3>1, <3>2
  <2>7. CASE r \in Req
    <3>1. Moves(r, "waiting")
      BY <1>3, <1>4, <2>6, <2>7, MovesFrom DEF PartInv
    <3>2. mf[r] \in Kinds("waiting") /\ mf[r] # Meta /\ r \notin m_extra_mf_fields
      BY <1>5, <1>6, <1>8, <2>7 DEF Kinds
    <3>3. InOnePlace' /\ FieldsInv' /\ FetchInv'
      BY <1>1, <1>2, <1>3, <1>5, <2>3, <2>4, <2>7, <3>1, <3>2, MoveInv DEF PartInv
    <3> QED
      BY <2>2, <2>3, <2>5, <3>3 DEF PartInv
  <2>8. CASE r \notin Req
    <3>1. Stays
      BY <2>6, <2>8 DEF Stays
    <3>2. InOnePlace' /\ FieldsInv' /\ FetchInv'
      BY <1>1, <1>2, <2>3, <2>4, <3>1, StayInv DEF PartInv
    <3> QED
      BY <2>2, <2>3, <2>5, <3>2 DEF PartInv
  <2> QED
    BY <2>7, <2>8
<1> QED
  BY <1>7, <1>8

-----------------------------------------------------------------------------
(* The invariant *)

\* Before the first request.
LEMMA PartInvInit == Init => PartInv
<1> SUFFICES ASSUME Init PROVE PartInv
  OBVIOUS
<1> USE DEF Init
<1>1. CacheInv /\ CacheTypeOK /\ m_miss_queue = <<>> /\ m_extra_mf_fields = {}
  BY CacheInvInit DEF CacheInit, CacheInv
<1>2. \A S : <<>> \in Seq(S)
  BY EmptyQueue
<1>3. ToSet(<<>>) = {}
  BY EmptyQueue
<1>4. TypeOK /\ ClassifiedInv
  BY <1>1, <1>2, KindsDiffer
  DEF TypeOK, ClassifiedInv, CycleStages, CodebookProgress
<1>5. QueuesInv
  BY <1>2, <1>3, EmptyOnce DEF QueuesInv
<1>6. L2Inv
  BY <1>3, EmptyOnce DEF L2Inv
<1>7. \A r \in Req : ~Waiting(r)
  BY <1>3, CacheAssumption DEF Waiting, CacheInit
<1>8. ASSUME NEW r \in Req, NEW k \in Places PROVE IsAt(r, k) <=> k = "pending"
  <2>1. l2_dram[SubOf[r]] = <<>> /\ classified # r
    BY SubOfAssumption, PartitionAssumption
  <2>2. k \in Queues => q[k] = <<>> /\ k # "pending"
    BY DEF Queues
  <2> QED
    BY <1>1, <1>3, <1>7, <2>1, <2>2 DEF IsAt
<1>9. "pending" \in Places /\ "to_translater" \in Places /\ FetchPlaces \subseteq Places
  BY DEF Places, Queues, FetchPlaces
<1>10. InOnePlace
  BY <1>8, <1>9 DEF InOnePlace
<1>11. Fresh \in Kinds("pending") /\ Fresh # Meta /\ Fresh # Burst
  BY KindsDiffer DEF Kinds
<1>12. FieldsInv /\ FetchInv
  BY <1>1, <1>8, <1>9, <1>11 DEF FieldsInv, FetchInv
<1> QED
  BY <1>1, <1>4, <1>5, <1>6, <1>10, <1>12 DEF PartInv

\* Every step keeps the invariant.
LEMMA PartInvStep == PartInv /\ [Next]_vars => PartInv'
<1> SUFFICES ASSUME PartInv, [Next]_vars PROVE PartInv'
  OBVIOUS
<1>1. ASSUME UNCHANGED vars PROVE PartInv'
  <2>1. UNCHANGED <<stage, l2Vars, q, dramVars, mf, phaseVars, cacheVars>>
    BY <1>1 DEF vars
  <2> QED
    BY <2>1, NothingMoves DEF l2Vars, phaseVars, PartInv, TypeOK, m_huffman_enabled
<1>2. ASSUME Environment PROVE PartInv'
  BY <1>2, IssueStep, WaitStep DEF Environment
<1>3. ASSUME dram_cycle PROVE PartInv'
  BY <1>3, WaitStep, ReturnStep, DecompressStep, DeliverStep, CompleteStep,
     ScheduleStep, ArbitrateStep, ClassifyStep, TranslateStep, RestoreStep,
     CompressStep, ResponseStep, FillStep, MissStep, AccessStep, ToLatencyStep,
     LatencyStep
  DEF dram_cycle
<1> QED
  BY <1>1, <1>2, <1>3 DEF Next

\* PartInv holds in every reachable state.
THEOREM PartInvariance == Spec => []PartInv
BY PartInvInit, PartInvStep, PTL DEF Spec

\* The queues, the flags and the fields of a partition have their types in every
\* reachable state; in particular only mem_fetches of the L2 come back to it,
\* never a writeback of the metadata cache.
THEOREM PartitionTypes == Spec => []TypeOK
<1>1. PartInv => TypeOK
  BY DEF PartInv
<1> QED
  BY <1>1, PartInvariance, PTL

\* What comes back to the L2 is what it asked for, in every reachable state: the
\* detour over the metadata cache, the compressed size and the decompressor
\* leave no trace in the request.
THEOREM RequestsRestored == Spec => []RestoredOnReturn
<1>1. PartInv => RestoredOnReturn
  <2> SUFFICES ASSUME PartInv, NEW r \in retired
               PROVE  /\ ~mf[r].is_meta_data_request
                      /\ mf[r].addr = "data"
                      /\ mf[r].size = "original"
    BY DEF RestoredOnReturn
  <2>1. r \in Req /\ IsAt(r, "retired") /\ "retired" \in Places
    BY DEF PartInv, TypeOK, IsAt, Places
  <2>2. mf[r] \in {Fresh, Back}
    BY <2>1, KindAt DEF Kinds
  <2> QED
    BY <2>2 DEF Fresh, Back
<1> QED
  BY <1>1, PartInvariance, PTL

\* In every reachable state the DRAM works on data addresses only, and on the
\* compressed size exactly for the requests that went through the metadata cache.
THEOREM DramGetsData == Spec => []DramSeesData
<1>1. PartInv => DramSeesData
  <2> SUFFICES ASSUME PartInv,
                      NEW r \in Req \cap (dram_waiting \cup dram_served
                                             \cup ToSet(q["returnq"]))
               PROVE  /\ ~mf[r].is_meta_data_request
                      /\ mf[r].addr = "data"
                      /\ (mf[r].size = "burst") = mf[r].m_compressed
    BY DEF DramSeesData
  <2>1. PICK k \in {"waiting", "served", "returnq"} : k \in Places /\ IsAt(r, k)
    BY DEF IsAt, Places, Queues
  <2>2. mf[r] \in {Fresh, Burst}
    BY <2>1, KindAt DEF Kinds
  <2>3. /\ ~Fresh.is_meta_data_request /\ ~Burst.is_meta_data_request
        /\ Fresh.addr = "data" /\ Burst.addr = "data"
        /\ Fresh.size # "burst" /\ Fresh.m_compressed = FALSE
        /\ Burst.size = "burst" /\ Burst.m_compressed = TRUE
    BY DEF Fresh, Burst
  <2>4. CASE mf[r] = Fresh
    BY <2>3, <2>4, Zenon
  <2>5. CASE mf[r] = Burst
    BY <2>3, <2>5, Zenon
  <2> QED
    BY <2>2, <2>4, <2>5
<1> QED
  BY <1>1, PartInvariance, PTL

\* How often a request is in a queue that has it once.
LEMMA TimesOnce ==
    ASSUME NEW S, NEW s \in Seq(S), Once(s, Req), NEW r \in Req
    PROVE  Times(r, s) = One(r \in ToSet(s))
BY OnceCount DEF Times, Positions, One

\* How often a request is in the queues of the partition.
LEMMA QueuedOnce ==
    ASSUME PartInv, NEW r \in Req
    PROVE  Cardinality(UNION {{n} \X Positions(r, q[n]) : n \in Queues})
              = One(\E n \in Queues : IsAt(r, n))
<1> DEFINE U == UNION {{n} \X Positions(r, q[n]) : n \in Queues}
<1>1. CASE \E n \in Queues : IsAt(r, n)
  <2>1. PICK n \in Queues : IsAt(r, n)
    BY <1>1
  <2>2. r \in ToSet(q[n]) /\ n \in Places
    BY <2>1, AtQueue
  <2>3. PICK i \in DOMAIN q[n] : q[n][i] = r
    BY <2>2 DEF ToSet
  <2>4. Positions(r, q[n]) = {i}
    BY <2>3 DEF Positions, PartInv, QueuesInv, Once
  <2>5. ASSUME NEW k \in Queues, k # n PROVE Positions(r, q[k]) = {}
    <3>1. k \in Places /\ ~IsAt(r, k)
      BY <2>1, <2>2, <2>5, OnlyPlace, AtQueue DEF PartInv
    <3>2. r \notin ToSet(q[k])
      BY <3>1, AtQueue
    <3> QED
      BY <3>2 DEF Positions, ToSet
  <2>6. U = {<<n, i>>}
    BY <2>4, <2>5
  <2> QED
    BY <1>1, <2>6, FS_Singleton DEF One
<1>2. CASE ~\E n \in Queues : IsAt(r, n)
  <2>1. ASSUME NEW k \in Queues PROVE Positions(r, q[k]) = {}
    <3>1. r \notin ToSet(q[k])
      BY <1>2, AtQueue
    <3> QED
      BY <3>1 DEF Positions, ToSet
  <2>2. U = {}
    BY <2>1
  <2> QED
    BY <1>2, <2>2, FS_EmptySet DEF One
<1> QED
  BY <1>1, <1>2

\* A mem_fetch is in exactly one of its places in every reachable state: no step
\* of dram_cycle loses or duplicates one, whichever way it takes.
THEOREM RequestsInOnePlace == Spec => []OnePlace
<1>1. PartInv => OnePlace
  <2> SUFFICES ASSUME PartInv, NEW r \in Req PROVE Sightings(r) = 1
    BY DEF OnePlace
  <2>1. SubOf[r] \in SubPart
    BY SubOfAssumption
  <2>2. l2_dram[SubOf[r]] \in Seq(Req) /\ Once(l2_dram[SubOf[r]], Req)
    BY <2>1 DEF PartInv, TypeOK, L2Inv
  <2>3. Times(r, l2_dram[SubOf[r]]) = One(r \in ToSet(l2_dram[SubOf[r]]))
    BY <2>2, TimesOnce
  <2>4. m_miss_queue \in Seq(Req \cup Writebacks) /\ Once(m_miss_queue, Req)
    BY DEF PartInv, CacheInv, CacheTypeOK, SentOnce
  <2>5. Times(r, m_miss_queue) = One(r \in ToSet(m_miss_queue))
    BY <2>4, TimesOnce
  <2>6. (\E b \in Block : r \in ToSet(mshr[b])) <=> Waiting(r)
    BY CacheAssumption DEF PartInv, CacheInv, MergedOnce, Waiting
  <2>7. PICK n \in Places : \A m \in Places : IsAt(r, m) <=> m = n
    BY DEF PartInv, InOnePlace
  <2>8. {"pending", "l2", "classified", "miss", "mshr", "waiting", "served", "retired"}
           \subseteq Places \ Queues
    BY DEF Places, Queues
  <2>9. /\ r \in pending <=> n = "pending"
        /\ r \in ToSet(l2_dram[SubOf[r]]) <=> n = "l2"
        /\ classified = r <=> n = "classified"
        /\ r \in ToSet(m_miss_queue) <=> n = "miss"
        /\ r \in dram_waiting <=> n = "waiting"
        /\ r \in dram_served <=> n = "served"
        /\ r \in retired <=> n = "retired"
        /\ (r \notin m_extra_mf_fields /\ Waiting(r)) <=> n = "mshr"
    BY <2>7, <2>8 DEF IsAt
  <2>10. (\E k \in Queues : IsAt(r, k)) <=> n \in Queues
    BY <2>7 DEF Places
  <2>11. Sightings(r) = One(n = "pending") + One(n = "l2") + One(n = "classified")
                        + One(n \in Queues) + One(n = "miss") + One(n = "waiting")
                        + One(n = "served") + One(n = "retired") + One(n = "mshr")
    <3> DEFINE c == Cardinality(UNION {{name} \X Positions(r, q[name]) : name \in Queues})
    <3>1. c = One(n \in Queues)
      BY <2>10, QueuedOnce DEF One
    <3>2. Sightings(r) = One(r \in pending) + Times(r, l2_dram[SubOf[r]])
             + One(classified = r) + c + Times(r, m_miss_queue)
             + One(r \in dram_waiting) + One(r \in dram_served) + One(r \in retired)
             + One(r \notin m_extra_mf_fields /\ \E b \in Block : r \in ToSet(mshr[b]))
      BY Zenon DEF Sightings
    <3> HIDE DEF c
    <3> QED
      BY <2>3, <2>5, <2>6, <2>9, <3>1, <3>2 DEF One
  <2>12. CASE n \in Queues
    BY <2>8, <2>11, <2>12 DEF One
  <2>13. CASE n \notin Queues
    BY <2>11, <2>13 DEF One, Places
  <2> QED
    BY <2>12, <2>13
<1> QED
  BY <1>1, PartInvariance, PTL

-----------------------------------------------------------------------------
(* When there is a codebook *)

BeforeClassify == {"return", "decompress", "deliver", "complete", "schedule",
                   "arbitrate", "classify"}

BeforeAccess == {"translate", "restore", "compress", "compressed", "respond",
                 "fill", "miss"}

AfterClassify == BeforeAccess \cup {"access", "huffman"}

\* A writeback has left the L2, or a read was classified, after something was
\* sampled.
SampledInv ==
    \A r \in Req :
        /\ r \in WriteBackR /\ r \notin pending => codebook # "empty"
        /\ /\ r \in CompressibleR /\ r \notin pending /\ r # classified
           /\ r \notin ToSet(l2_dram[SubOf[r]])
           => codebook # "empty"

\* Sampled symbols are counted at the start of a cycle; the codebook is built
\* from counted ones before the first metadata is fetched.
PhaseInv ==
    /\ stage \in BeforeClassify => codebook # "sampled"
    /\ stage \in AfterClassify => compressing /\ codebook # "counted"
    /\ m_miss_queue # <<>> => /\ codebook # "empty"
                              /\ stage \in BeforeAccess => codebook # "sampled"

UsesCodebook ==
    \/ \E n \in {"to_compressor", "compressor", "from_metadata"} : q[n] # <<>>
    \/ m_current_response # <<>>
    \/ \E b \in Block : line[b] \in {"VALID", "MODIFIED"}
    \/ \E r \in m_extra_mf_fields : r \notin ToSet(m_miss_queue)

IntervalInv == /\ SampledInv
               /\ PhaseInv
               /\ UsesCodebook => m_huffman_enabled
               /\ stage # "no_interval"

\* Most stages do not come near the codebook.
LEMMA IntervalQuiet ==
    ASSUME IntervalInv,
           UNCHANGED <<pending, l2_dram, classified, codebook, cacheVars>>,
           compressing => compressing',
           stage' \in BeforeClassify => stage \in BeforeClassify,
           stage' \in AfterClassify => stage \in AfterClassify,
           stage' \in BeforeAccess => stage \in BeforeAccess,
           stage' # "no_interval",
           \A n \in {"to_compressor", "compressor", "from_metadata"} :
              q'[n] # <<>> => q[n] # <<>> \/ m_huffman_enabled
    PROVE  IntervalInv'
<1>1. SampledInv' /\ PhaseInv'
  BY DEF IntervalInv, SampledInv, PhaseInv, cacheVars
<1>2. UsesCodebook' => UsesCodebook \/ m_huffman_enabled
  BY DEF UsesCodebook, cacheVars
<1>3. m_huffman_enabled' <=> m_huffman_enabled
  BY DEF m_huffman_enabled
<1> QED
  BY <1>1, <1>2, <1>3 DEF IntervalInv

\* A step that moves a request in the queues.
LEMMA NewlyFilled ==
    ASSUME QueuesInv, NEW m \in Queues, NEW n \in Queues, q[m] # <<>>, q' = Move(m, n),
           NEW k \in Queues, q'[k] # <<>>
    PROVE  q[k] # <<>> \/ k = n
BY DEF QueuesInv, Move

\* The stages that do not come near it.
LEMMA QuietIntervals ==
    ASSUME PartInv, IntervalInv,
           \/ \E p \in SubPart : L2Take(p)
           \/ SamplingEnds \/ ReturnFromDram \/ DecompressorReady \/ DeliverToL2
           \/ \E x \in Req \cup Writebacks : DramCompletes(x)
           \/ \E S \in SUBSET dram_waiting : DramSchedules(S)
           \/ Translate \/ Restore \/ ToCompressor \/ CompressorReady
           \/ ToLatencyQueue \/ LatencyOver \/ Stall \/ UNCHANGED vars
    PROVE  IntervalInv'
<1> DEFINE U == {"to_compressor", "compressor", "from_metadata"}
           Filled == \A n \in U : q'[n] # <<>> => q[n] # <<>> \/ m_huffman_enabled
<1> USE DEF Go, l2Vars, phaseVars, BeforeClassify, BeforeAccess, AfterClassify
<1>1. QueuesInv
  BY DEF PartInv
<1>2. U \subseteq Queues
  BY DEF Queues
<1>3. ASSUME q' = q PROVE Filled
  BY <1>3
<1>4. ASSUME NEW m \in Queues, NEW n \in Queues, q[m] # <<>>, q' = Move(m, n),
             n \in U => m_huffman_enabled
      PROVE  Filled
  BY <1>1, <1>2, <1>4, NewlyFilled
<1>5. ASSUME NEW m \in Queues, q[m] # <<>>, q' = Pop(m) PROVE Filled
  BY <1>1, <1>2, <1>5 DEF Pop, QueuesInv
<1>6. ASSUME NEW n \in Queues, NEW y, n \notin U, q' = Push(n, y) PROVE Filled
  BY <1>1, <1>2, <1>6 DEF Push, QueuesInv
<1> HIDE DEF U, Filled
<1>7. ASSUME NEW p \in SubPart, L2Take(p) PROVE IntervalInv'
  BY <1>3, <1>7, IntervalQuiet DEF L2Take, Filled, U
<1>8. CASE SamplingEnds
  BY <1>3, <1>8, IntervalQuiet DEF SamplingEnds, Filled, U
<1>9. CASE ReturnFromDram
  <2>1. ReturnRoute(Head(q["returnq"])) \in {"dram_to_metadata", "decompressor", "to_l2"}
    BY DEF ReturnRoute
  <2>2. Filled
    BY <1>3, <1>4, <1>9, <2>1 DEF ReturnFromDram, Queues, U
  <2> QED
    BY <1>9, <2>2, IntervalQuiet DEF ReturnFromDram, Filled, U
<1>10. CASE DecompressorReady
  <2>1. Filled
    BY <1>4, <1>10 DEF DecompressorReady, Queues, U
  <2> QED
    BY <1>10, <2>1, IntervalQuiet DEF DecompressorReady, Filled, U
<1>11. CASE DeliverToL2
  <2>1. Filled
    BY <1>3, <1>5, <1>11 DEF DeliverToL2, Queues
  <2> QED
    BY <1>11, <2>1, IntervalQuiet DEF DeliverToL2, Filled, U
<1>12. ASSUME NEW x \in Req \cup Writebacks, DramCompletes(x) PROVE IntervalInv'
  <2>1. Filled
    BY <1>3, <1>6, <1>12 DEF DramCompletes, Queues, U
  <2> QED
    BY <1>12, <2>1, IntervalQuiet DEF DramCompletes, Filled, U
<1>13. ASSUME NEW S \in SUBSET dram_waiting, DramSchedules(S) PROVE IntervalInv'
  BY <1>3, <1>13, IntervalQuiet DEF DramSchedules, Filled, U
<1>14. CASE Translate
  <2>1. Filled
    BY <1>3, <1>4, <1>14 DEF Translate, Queues, U
  <2> QED
    BY <1>14, <2>1, IntervalQuiet DEF Translate, Filled, U
<1>15. CASE Restore
  <2>1. Filled
    BY <1>3, <1>4, <1>15 DEF Restore, Queues, U
  <2>2. q["from_metadata"] # <<>> => m_huffman_enabled
    BY DEF IntervalInv, UsesCodebook
  <2>3. stage' = "compress"
    BY <1>15, <2>2 DEF Restore, HasInterval
  <2> QED
    BY <1>15, <2>1, <2>3, IntervalQuiet DEF Restore, Filled, U
<1>16. CASE ToCompressor
  <2>1. q["to_compressor"] # <<>> => m_huffman_enabled
    BY DEF IntervalInv, UsesCodebook
  <2>2. Filled
    BY <1>3, <1>4, <1>16, <2>1 DEF ToCompressor, Queues
  <2> QED
    BY <1>16, <2>2, IntervalQuiet DEF ToCompressor, Filled, U
<1>17. CASE CompressorReady
  <2>1. q["compressor"] # <<>> => m_huffman_enabled
    BY DEF IntervalInv, UsesCodebook
  <2>2. Filled /\ stage' = "respond"
    BY <1>4, <1>17, <2>1 DEF CompressorReady, Queues, HasInterval
  <2> QED
    BY <1>17, <2>2, IntervalQuiet DEF CompressorReady, Filled, U
<1>18. CASE ToLatencyQueue
  <2>1. Filled
    BY <1>3, <1>4, <1>18 DEF ToLatencyQueue, Queues, U
  <2> QED
    BY <1>18, <2>1, IntervalQuiet DEF ToLatencyQueue, Filled, U
<1>19. CASE LatencyOver
  <2>1. Filled
    BY <1>4, <1>5, <1>19 DEF LatencyOver, Queues, U
  <2> QED
    BY <1>19, <2>1, IntervalQuiet DEF LatencyOver, Go, Filled, U
<1>20. CASE Stall
  BY <1>3, <1>20, IntervalQuiet DEF Stall, Filled, U
<1>21. CASE UNCHANGED vars
  BY <1>3, <1>21, IntervalQuiet DEF vars, Filled, U, IntervalInv
<1> QED
  BY <1>7, <1>8, <1>9, <1>10, <1>11, <1>12, <1>13, <1>14, <1>15, <1>16, <1>17,
     <1>18, <1>19, <1>20, <1>21

\* Once there is a codebook, the metadata cache may do what it likes.
LEMMA IntervalEnabled ==
    ASSUME IntervalInv, m_huffman_enabled, UNCHANGED <<l2Vars, phaseVars>>,
           stage \in AfterClassify, stage' \in AfterClassify
    PROVE  IntervalInv'
<1>1. UNCHANGED <<pending, l2_dram, classified, compressing, codebook>>
  BY DEF l2Vars, phaseVars
<1>2. SampledInv'
  BY <1>1 DEF IntervalInv, SampledInv
<1>3. codebook' = "enabled" /\ m_huffman_enabled' /\ compressing'
  BY <1>1 DEF IntervalInv, PhaseInv, m_huffman_enabled
<1>4. stage' # "no_interval"
  BY DEF AfterClassify, BeforeAccess
<1> QED
  BY <1>2, <1>3, <1>4 DEF IntervalInv, PhaseInv

\* The L2 writes back only what it has read.
LEMMA IssueInterval ==
    ASSUME PartInv, IntervalInv, ~EarlyWriteBack, NEW r \in Req, L2Issue(r)
    PROVE  IntervalInv'
<1> DEFINE p == SubOf[r]
<1>1. /\ r \in WriteBackR => codebook # "empty"
      /\ pending' = pending \ {r}
      /\ l2_dram' = [l2_dram EXCEPT ![p] = Append(@, r)]
      /\ UNCHANGED <<stage, q, classified, compressing, codebook, cacheVars>>
  BY DEF L2Issue, phaseVars
<1>2. p \in SubPart /\ l2_dram \in [SubPart -> Seq(Req)] /\ l2_dram[p] \in Seq(Req)
  BY SubOfAssumption DEF PartInv, TypeOK
<1>3. ToSet(Append(l2_dram[p], r)) = ToSet(l2_dram[p]) \cup {r}
  BY <1>2, AppendQueue
<1>4. l2_dram'[p] = Append(l2_dram[p], r) /\ \A o \in SubPart \ {p} : l2_dram'[o] = l2_dram[o]
  BY <1>1, <1>2
<1>5. ASSUME NEW x \in Req PROVE ToSet(l2_dram[SubOf[x]]) \subseteq ToSet(l2_dram'[SubOf[x]])
  BY <1>3, <1>4, SubOfAssumption
<1>6. r \in ToSet(l2_dram'[p])
  BY <1>3, <1>4
<1>7. SampledInv'
  BY <1>1, <1>5, <1>6 DEF IntervalInv, SampledInv
<1>8. PhaseInv' /\ (UsesCodebook' => m_huffman_enabled') /\ stage' # "no_interval"
  BY <1>1 DEF IntervalInv, PhaseInv, UsesCodebook, m_huffman_enabled, cacheVars
<1> QED
  BY <1>7, <1>8 DEF IntervalInv

\* A cycle begins with counting what was sampled.
LEMMA SamplingInterval ==
    ASSUME PartInv, IntervalInv, sampling_cycle
    PROVE  IntervalInv'
<1>1. /\ stage' = "return"
      /\ codebook' = IF codebook = "sampled" THEN "counted" ELSE codebook
      /\ UNCHANGED <<pending, l2_dram, q, classified, compressing, cacheVars>>
  BY DEF sampling_cycle, Go, l2Vars
<1>2. SampledInv'
  BY <1>1 DEF IntervalInv, SampledInv
<1>3. PhaseInv' /\ stage' # "no_interval"
  BY <1>1 DEF IntervalInv, PhaseInv, AfterClassify, BeforeAccess, BeforeClassify, cacheVars
<1>4. UsesCodebook' => m_huffman_enabled'
  BY <1>1 DEF IntervalInv, UsesCodebook, m_huffman_enabled, cacheVars
<1> QED
  BY <1>2, <1>3, <1>4 DEF IntervalInv

\* What leaves the L2's queue is about to be classified.
LEMMA ArbitrateInterval ==
    ASSUME PartInv, IntervalInv, Arbitrate
    PROVE  IntervalInv'
<1>1. /\ stage = "arbitrate" /\ stage' = "classify" /\ classified = NoReq
      /\ UNCHANGED <<pending, q, compressing, codebook, cacheVars>>
  BY DEF Arbitrate, Go, PartInv, ClassifiedInv
<1>2. ASSUME NEW x \in Req, x # classified', x \notin ToSet(l2_dram'[SubOf[x]])
      PROVE  x # classified /\ x \notin ToSet(l2_dram[SubOf[x]])
  <2>1. x # classified
    BY <1>1, PartitionAssumption
  <2>2. CASE l2_dram' = l2_dram
    BY <1>2, <2>1, <2>2
  <2>3. CASE l2_dram' # l2_dram
    <3>1. PICK p \in SubPart : /\ IsNext(p)
                               /\ classified' = Head(l2_dram[p])
                               /\ l2_dram' = [l2_dram EXCEPT ![p] = Tail(@)]
      BY <2>3 DEF Arbitrate
    <3>2. l2_dram \in [SubPart -> Seq(Req)] /\ l2_dram[p] \in Seq(Req) /\ l2_dram[p] # <<>>
      BY <3>1 DEF PartInv, TypeOK, IsNext, Candidates
    <3>3. ToSet(l2_dram[p]) = ToSet(Tail(l2_dram[p])) \cup {Head(l2_dram[p])}
      BY <3>2, TailQueue
    <3>4. SubOf[x] \in SubPart
      BY SubOfAssumption
    <3>5. CASE SubOf[x] = p
      BY <1>2, <2>1, <3>1, <3>2, <3>3, <3>5
    <3>6. CASE SubOf[x] # p
      BY <1>2, <2>1, <3>1, <3>2, <3>4, <3>6
    <3> QED
      BY <3>5, <3>6
  <2> QED
    BY <2>2, <2>3
<1>3. SampledInv'
  BY <1>1, <1>2 DEF IntervalInv, SampledInv
<1>4. PhaseInv' /\ stage' # "no_interval"
  BY <1>1 DEF IntervalInv, PhaseInv, AfterClassify, BeforeAccess, BeforeClassify, cacheVars
<1>5. UsesCodebook' => m_huffman_enabled'
  BY <1>1 DEF IntervalInv, UsesCodebook, m_huffman_enabled, cacheVars
<1> QED
  BY <1>3, <1>4, <1>5 DEF IntervalInv


\* The first read is sampled, and the codebook is built from counted symbols
\* before anything can use it.
LEMMA ClassifyInterval ==
    ASSUME PartInv, IntervalInv, Classify
    PROVE  IntervalInv'
<1>1. /\ stage = "classify"
      /\ stage' = IF compressing THEN "translate" ELSE "latency"
      /\ codebook' = Built
      /\ q' = IF classified = NoReq THEN q ELSE Push(Route(classified), classified)
      /\ classified' = NoReq
      /\ UNCHANGED <<pending, l2_dram, compressing, cacheVars>>
  BY DEF Classify, Go, l2Vars
<1>2. /\ codebook \in {"empty", "counted", "enabled"}
      /\ compressing \in BOOLEAN
      /\ q \in [Queues -> Seq(Req \cup Writebacks)]
  BY <1>1 DEF IntervalInv, PhaseInv, BeforeClassify, PartInv, TypeOK, CodebookProgress
<1>3. /\ codebook # "empty" => codebook' # "empty" /\ codebook' # "sampled"
      /\ classified \in CompressibleR => codebook' # "empty"
      /\ compressing => codebook' # "counted"
      /\ compressing /\ codebook # "empty" => codebook' = "enabled"
      /\ codebook = "enabled" => codebook' = "enabled"
  BY <1>1, <1>2 DEF Built, Sampled
<1>4. SampledInv'
  BY <1>1, <1>3, PartitionAssumption DEF IntervalInv, SampledInv
<1>5. stage' \notin BeforeClassify /\ (stage' \in AfterClassify => compressing)
  BY <1>1 DEF BeforeClassify, AfterClassify, BeforeAccess
<1>6. PhaseInv' /\ stage' # "no_interval"
  BY <1>1, <1>3, <1>5 DEF IntervalInv, PhaseInv, cacheVars
<1>7. ASSUME NEW n \in {"to_compressor", "compressor", "from_metadata"}, q'[n] # <<>>
      PROVE  q[n] # <<>> \/ codebook' = "enabled"
  <2>1. CASE q' = q
    BY <1>7, <2>1
  <2>2. CASE q' # q
    <3>1. /\ classified \in Req /\ classified # NoReq
          /\ q' = Push(Route(classified), classified)
      BY <1>1, <2>2 DEF PartInv, TypeOK
    <3>2. Route(classified) \in Queues /\ n \in Queues
      BY DEF Route, Queues
    <3>3. CASE n # Route(classified)
      BY <1>2, <1>7, <3>1, <3>2, <3>3 DEF Push
    <3>4. CASE n = Route(classified)
      <4>1. classified \in WriteBackR /\ compressing
        BY <3>4 DEF Route
      <4>2. classified \notin pending
        <5>1. "pending" \in Places /\ "classified" \in Places /\ IsAt(classified, "classified")
          BY DEF Places, IsAt
        <5>2. ~IsAt(classified, "pending")
          BY <3>1, <5>1, OnlyPlace DEF PartInv
        <5> QED
          BY <5>2 DEF IsAt
      <4>3. codebook # "empty"
        BY <3>1, <4>1, <4>2 DEF IntervalInv, SampledInv
      <4> QED
        BY <1>3, <4>1, <4>3
    <3> QED
      BY <3>3, <3>4
  <2> QED
    BY <2>1, <2>2
<1>8. UsesCodebook' => UsesCodebook \/ codebook' = "enabled"
  BY <1>1, <1>7 DEF UsesCodebook, cacheVars
<1>9. UsesCodebook' => m_huffman_enabled'
  BY <1>3, <1>8 DEF IntervalInv, m_huffman_enabled
<1> QED
  BY <1>4, <1>6, <1>9 DEF IntervalInv

\* The answers and fills of the metadata cache, and what it sends below, need a
\* codebook, which is there.
LEMMA CacheIntervals ==
    ASSUME PartInv, IntervalInv, MetadataResponse \/ MetadataFill \/ MetadataMiss
    PROVE  IntervalInv'
<1>1. UNCHANGED <<l2Vars, phaseVars>>
  BY DEF MetadataResponse, MetadataFill, MetadataMiss
<1>2. /\ stage \in BeforeAccess /\ stage' \in BeforeAccess \cup {"access"}
      /\ stage \in AfterClassify /\ stage' \in AfterClassify
      /\ stage' \notin BeforeClassify /\ stage' # "no_interval"
  BY DEF MetadataResponse, MetadataFill, MetadataMiss, Go, AfterClassify,
         BeforeAccess, BeforeClassify
<1>3. CASE m_huffman_enabled
  BY <1>1, <1>2, <1>3, IntervalEnabled
<1>4. CASE ~m_huffman_enabled
  <2>1. ~UsesCodebook
    BY <1>4 DEF IntervalInv
  <2>2. m_miss_queue = <<>>
    BY <1>2, <1>4
    DEF IntervalInv, PhaseInv, m_huffman_enabled, PartInv, TypeOK, CodebookProgress
  <2>3. UNCHANGED <<line, mshr, m_current_response, m_extra_mf_fields, m_miss_queue>>
    <3>1. CASE MetadataResponse
      BY <2>1, <3>1 DEF MetadataResponse, UsesCodebook, access_ready, cacheVars
    <3>2. CASE MetadataFill
      <4>1. CASE q["dram_to_metadata"] = <<>>
        BY <3>2, <4>1 DEF MetadataFill, cacheVars
      <4>2. CASE q["dram_to_metadata"] # <<>>
        <5> DEFINE r == Head(q["dram_to_metadata"])
        <5>1. "dram_to_metadata" \in Queues /\ "dram_to_metadata" \in Places /\ "miss" \in Places
          BY DEF Queues, Places
        <5>2. r \in Req /\ IsAt(r, "dram_to_metadata")
          BY <4>2, <5>1, HeadKind
        <5>3. r \in m_extra_mf_fields /\ ~IsAt(r, "miss")
          BY <5>1, <5>2, KindAt DEF Kinds, FetchPlaces
        <5> QED
          BY <2>1, <5>3 DEF UsesCodebook, IsAt
      <4> QED
        BY <4>1, <4>2
    <3>3. CASE MetadataMiss
      BY <2>2, <3>3 DEF MetadataMiss, cache_cycle
    <3> QED
      BY <3>1, <3>2, <3>3
  <2>4. \A n \in {"to_compressor", "compressor", "from_metadata"} : q'[n] = q[n]
    <3>1. q \in [Queues -> Seq(Req \cup Writebacks)] /\ "dram_to_metadata" \in Queues
          /\ {"to_compressor", "compressor", "from_metadata"} \subseteq Queues
      BY DEF PartInv, TypeOK, Queues
    <3>2. CASE MetadataResponse
      BY <2>1, <3>2 DEF MetadataResponse, UsesCodebook, access_ready
    <3>3. CASE MetadataFill
      BY <3>1, <3>3 DEF MetadataFill, Pop
    <3>4. CASE MetadataMiss
      BY <2>2, <3>4 DEF MetadataMiss
    <3> QED
      BY <3>2, <3>3, <3>4
  <2>5. UNCHANGED <<pending, l2_dram, classified, compressing, codebook>>
    BY <1>1 DEF l2Vars, phaseVars
  <2>6. SampledInv' /\ PhaseInv'
    BY <1>2, <2>2, <2>3, <2>5 DEF IntervalInv, SampledInv, PhaseInv
  <2>7. ~UsesCodebook'
    BY <2>1, <2>3, <2>4 DEF UsesCodebook
  <2> QED
    BY <1>2, <2>6, <2>7 DEF IntervalInv
<1> QED
  BY <1>3, <1>4


\* A hit needs a line that was filled; a miss makes none, and the read that
\* misses was sampled.
LEMMA AccessInterval ==
    ASSUME PartInv, IntervalInv, MetadataAccess
    PROVE  IntervalInv'
<1> DEFINE r == Head(q["to_metadata"])
           goes == /\ q["to_metadata"] # <<>> /\ Len(q["from_metadata"]) < QueueSize
                   /\ data_port_free
<1>1. /\ stage = "access" /\ stage' = "huffman"
      /\ UNCHANGED <<l2Vars, phaseVars>>
      /\ UNCHANGED <<pending, l2_dram, classified, compressing, codebook>>
  BY DEF MetadataAccess, Go, l2Vars, phaseVars
<1>2. /\ stage \in AfterClassify /\ stage' \in AfterClassify
      /\ stage' \notin BeforeAccess /\ stage' \notin BeforeClassify
  BY <1>1 DEF AfterClassify, BeforeAccess, BeforeClassify
<1>3. CASE m_huffman_enabled
  BY <1>1, <1>2, <1>3, IntervalEnabled
<1>4. CASE ~m_huffman_enabled /\ (~goes \/ access_outcome(r) \notin {"HIT", "MISS"})
  <2>1. UNCHANGED <<cacheVars, q>>
    BY <1>4 DEF MetadataAccess, access
  <2> QED
    BY <1>1, <1>2, <2>1, IntervalQuiet
<1>5. CASE ~m_huffman_enabled /\ goes /\ access_outcome(r) \in {"HIT", "MISS"}
  <2>1. q["to_metadata"] # <<>> /\ ~UsesCodebook
    BY <1>5 DEF IntervalInv
  <2>2. /\ "to_metadata" \in Queues /\ "to_metadata" \in Places
        /\ {"to_compressor", "compressor", "from_metadata"} \subseteq Queues
        /\ "pending" \in Places /\ "l2" \in Places /\ "classified" \in Places
        /\ "pending" \notin Queues /\ "l2" \notin Queues /\ "classified" \notin Queues
    BY DEF Queues, Places
  <2>3. r \in Req /\ IsAt(r, "to_metadata")
    BY <2>1, <2>2, HeadKind
  <2>4. /\ \A k \in Places : IsAt(r, k) <=> k = "to_metadata"
        /\ mf[r] = Meta
        /\ r \in CompressibleR
    BY <2>2, <2>3, KindAt, KindsDiffer DEF Kinds
  <2>5. ~Waiting(r)
    <3>1. "mshr" \in Places /\ ~IsAt(r, "mshr") /\ r \notin m_extra_mf_fields
      BY <2>2, <2>3, <2>4, KindAt DEF Places, Queues, FetchPlaces
    <3> QED
      BY <3>1 DEF IsAt
  <2>6. r \notin pending /\ r # classified /\ r \notin ToSet(l2_dram[SubOf[r]])
    BY <2>2, <2>4 DEF IsAt
  <2>7. codebook # "empty"
    BY <2>3, <2>4, <2>6 DEF IntervalInv, SampledInv
  <2>8. BlockOf[r] \in Block /\ line \in [Block -> Status]
    BY <2>3, CacheAssumption DEF PartInv, TypeOK, CacheTypeOK
  <2>9. access_outcome(r) = "MISS"
    <3>1. line[BlockOf[r]] \notin {"VALID", "MODIFIED"}
      BY <2>1, <2>8 DEF UsesCodebook
    <3>2. probe(BlockOf[r]) # "HIT"
      BY <3>1 DEF probe
    <3> QED
      BY <1>5, <3>2 DEF access_outcome
  <2>10. rd_miss_base(r) /\ q' = Pop("to_metadata")
    BY <1>5, <2>9 DEF MetadataAccess, access
  <2> HIDE DEF r
  <2>11. \A n \in {"to_compressor", "compressor", "from_metadata"} : q'[n] = q[n]
    BY <2>2, <2>10 DEF Pop, PartInv, TypeOK
  <2>12. /\ m_extra_mf_fields' \subseteq Req
         /\ \A x \in Req :
              /\ x \in m_extra_mf_fields'
                    <=> \/ x \in m_extra_mf_fields
                        \/ x = r /\ BlockOf[r] \notin Entries
              /\ x \in ToSet(m_miss_queue')
                    <=> \/ x \in ToSet(m_miss_queue)
                        \/ x = r /\ BlockOf[r] \notin Entries
    BY <2>3, <2>5, <2>10, MissKeeps DEF PartInv, CacheInv, CacheTypeOK
  <2>13. /\ m_current_response' = m_current_response
         /\ \A c \in Block : line'[c] \in {"VALID", "MODIFIED"} => line'[c] = line[c]
    BY <2>10 DEF rd_miss_base, Allocate
  <2>14. ~UsesCodebook'
    BY <2>1, <2>11, <2>12, <2>13 DEF UsesCodebook
  <2>15. SampledInv' /\ PhaseInv'
    BY <1>1, <1>2, <2>7 DEF IntervalInv, SampledInv, PhaseInv
  <2> QED
    BY <1>1, <2>14, <2>15 DEF IntervalInv
<1> QED
  BY <1>3, <1>4, <1>5

\* The two invariants together.
LEMMA IntervalInvInit == Init => IntervalInv
<1> SUFFICES ASSUME Init PROVE IntervalInv
  OBVIOUS
<1> USE DEF Init, CacheInit
<1>1. SampledInv
  BY PartitionAssumption DEF SampledInv
<1>2. PhaseInv /\ stage # "no_interval"
  BY DEF PhaseInv, BeforeClassify, AfterClassify, BeforeAccess
<1>3. ~UsesCodebook
  BY DEF UsesCodebook, Queues
<1> QED
  BY <1>1, <1>2, <1>3 DEF IntervalInv

\* Every step keeps them, if the L2 writes back only what it has read.
LEMMA IntervalInvStep ==
    ASSUME ~EarlyWriteBack
    PROVE  PartInv /\ IntervalInv /\ [Next]_vars => IntervalInv'
<1> SUFFICES ASSUME PartInv, IntervalInv, [Next]_vars PROVE IntervalInv'
  OBVIOUS
<1>1. ASSUME Environment PROVE IntervalInv'
  BY <1>1, IssueInterval, QuietIntervals DEF Environment
<1>2. ASSUME dram_cycle PROVE IntervalInv'
  BY <1>2, QuietIntervals, SamplingInterval, ArbitrateInterval, ClassifyInterval,
     CacheIntervals, AccessInterval
  DEF dram_cycle
<1>3. ASSUME UNCHANGED vars PROVE IntervalInv'
  BY <1>3, QuietIntervals
<1> QED
  BY <1>1, <1>2, <1>3 DEF Next

\* Where dram_cycle reads m_interval_compression_stats.back(), the vector has an
\* interval, in every reachable state and for every workload of the L2 in which a
\* writeback comes after a read: the first classified read is sampled, counted
\* when the next cycle begins, and the codebook is built from it before any
\* compressor or fill can have anything to do.
THEOREM IntervalsExist ==
    ASSUME ~EarlyWriteBack
    PROVE  Spec => []StatisticsHaveInterval
<1>1. Init => IntervalInv
  BY IntervalInvInit
<1>2. PartInv /\ IntervalInv /\ [Next]_vars => IntervalInv'
  BY IntervalInvStep
<1>3. IntervalInv => StatisticsHaveInterval
  BY DEF IntervalInv, StatisticsHaveInterval
<1> QED
  BY <1>1, <1>2, <1>3, PartInvariance, PTL DEF Spec


-----------------------------------------------------------------------------
(* The credits *)

\* Without atomics the metadata cache has no dirty line, and writes nothing back.
NothingDirty == /\ \A b \in Block : line[b] # "MODIFIED"
                /\ m_miss_queue \in Seq(Req)
                /\ q \in [Queues -> Seq(Req)]
                /\ dram_waiting \subseteq Req
                /\ dram_served \subseteq Req

\* The queues keep to requests of the L2.
LEMMA CleanQueues ==
    ASSUME q \in [Queues -> Seq(Req)], NEW n \in Queues,
           \/ q' = q
           \/ q[n] # <<>> /\ q' = Pop(n)
           \/ \E y \in Req : q' = Push(n, y)
           \/ q[n] # <<>> /\ \E m \in Queues \ {n} : q' = Move(n, m)
    PROVE  q' \in [Queues -> Seq(Req)]
<1>1. q[n] \in Seq(Req)
  OBVIOUS
<1>2. CASE q' = q
  BY <1>2
<1>3. CASE q[n] # <<>> /\ q' = Pop(n)
  BY <1>1, <1>3, TailQueue DEF Pop
<1>4. ASSUME NEW y \in Req, q' = Push(n, y) PROVE q' \in [Queues -> Seq(Req)]
  BY <1>1, <1>4, AppendQueue DEF Push
<1>5. ASSUME q[n] # <<>>, NEW m \in Queues \ {n}, q' = Move(n, m)
      PROVE  q' \in [Queues -> Seq(Req)]
  <2>1. Tail(q[n]) \in Seq(Req) /\ Head(q[n]) \in Req
    BY <1>1, <1>5, TailQueue
  <2>2. Append(q[m], Head(q[n])) \in Seq(Req)
    BY <2>1, AppendQueue
  <2> QED
    BY <1>5, <2>1, <2>2 DEF Move
<1> QED
  BY <1>2, <1>3, <1>4, <1>5

\* The stages that leave the cache alone.
LEMMA CleanStages ==
    ASSUME PartInv, NothingDirty,
           \/ Environment \/ sampling_cycle
           \/ ReturnFromDram \/ DecompressorReady \/ DeliverToL2
           \/ \E x \in Req \cup Writebacks : DramCompletes(x)
           \/ \E S \in SUBSET dram_waiting : DramSchedules(S)
           \/ Arbitrate \/ Classify \/ Translate \/ Restore \/ ToCompressor
           \/ CompressorReady \/ ToLatencyQueue \/ LatencyOver \/ Stall
           \/ UNCHANGED vars
    PROVE  NothingDirty'
<1> USE DEF NothingDirty
<1>1. UNCHANGED <<line, m_miss_queue>>
  BY DEF cacheVars, vars, Environment, L2Issue, L2Take, SamplingEnds, sampling_cycle,
         ReturnFromDram, DecompressorReady, DeliverToL2, DramCompletes, DramSchedules,
         Arbitrate, Classify, Translate, Restore, ToCompressor, CompressorReady,
         ToLatencyQueue, LatencyOver, Stall
<1>2. ASSUME q' = q, UNCHANGED dramVars PROVE NothingDirty'
  BY <1>1, <1>2 DEF dramVars
<1>3. ASSUME q' \in [Queues -> Seq(Req)], UNCHANGED dramVars PROVE NothingDirty'
  BY <1>1, <1>3 DEF dramVars
<1>4. /\ \A r \in Req : L2Issue(r) => NothingDirty'
      /\ \A o \in SubPart : L2Take(o) => NothingDirty'
      /\ SamplingEnds => NothingDirty'
      /\ sampling_cycle => NothingDirty'
      /\ Arbitrate => NothingDirty'
      /\ Stall => NothingDirty'
      /\ UNCHANGED vars => NothingDirty'
  BY <1>2 DEF L2Issue, L2Take, SamplingEnds, sampling_cycle, Arbitrate, Stall, vars
<1>5. CASE ReturnFromDram
  <2>1. /\ ReturnRoute(Head(q["returnq"])) \in Queues \ {"returnq"} /\ "returnq" \in Queues
        /\ UNCHANGED dramVars
    BY <1>5 DEF ReturnFromDram, ReturnRoute, Queues
  <2>2. \/ q' = q
        \/ q["returnq"] # <<>> /\ q' = Move("returnq", ReturnRoute(Head(q["returnq"])))
    BY <1>5 DEF ReturnFromDram
  <2> QED
    BY <1>3, <2>1, <2>2, CleanQueues
<1>6. CASE DecompressorReady
  BY <1>3, <1>6, CleanQueues DEF DecompressorReady, Queues
<1>7. CASE DeliverToL2
  <2>1. "to_l2" \in Queues /\ UNCHANGED dramVars
    BY <1>7 DEF DeliverToL2, Queues
  <2>2. q' = q \/ (q["to_l2"] # <<>> /\ q' = Pop("to_l2"))
    BY <1>7 DEF DeliverToL2
  <2> QED
    BY <1>3, <2>1, <2>2, CleanQueues
<1>8. ASSUME NEW x \in Req \cup Writebacks, DramCompletes(x) PROVE NothingDirty'
  <2>1. /\ x \in Req /\ "returnq" \in Queues
        /\ dram_waiting' = dram_waiting /\ dram_served' \subseteq dram_served
    BY <1>8 DEF DramCompletes, Queues
  <2>2. q' = q \/ q' = Push("returnq", x)
    BY <1>8 DEF DramCompletes
  <2>3. q' \in [Queues -> Seq(Req)]
    BY <2>1, <2>2, CleanQueues
  <2> QED
    BY <1>1, <2>1, <2>3
<1>9. ASSUME NEW S \in SUBSET dram_waiting, DramSchedules(S) PROVE NothingDirty'
  BY <1>1, <1>9 DEF DramSchedules
<1>10. CASE Classify
  <2>1. UNCHANGED dramVars /\ Route(classified) \in Queues
    BY <1>10 DEF Classify, Route, Queues
  <2>2. q' = q \/ (classified \in Req /\ q' = Push(Route(classified), classified))
    BY <1>10 DEF Classify, PartInv, TypeOK
  <2> QED
    BY <1>3, <2>1, <2>2, CleanQueues
<1>11. CASE Translate
  <2>1. UNCHANGED dramVars /\ {"to_translater", "to_metadata"} \subseteq Queues
    BY <1>11 DEF Translate, Queues
  <2>2. \/ q' = q
        \/ q["to_translater"] # <<>> /\ q' = Move("to_translater", "to_metadata")
    BY <1>11 DEF Translate
  <2> QED
    BY <1>3, <2>1, <2>2, CleanQueues
<1>12. CASE Restore
  <2>1. UNCHANGED dramVars /\ {"from_metadata", "to_dram"} \subseteq Queues
    BY <1>12 DEF Restore, Queues
  <2>2. \/ q' = q
        \/ q["from_metadata"] # <<>> /\ q' = Move("from_metadata", "to_dram")
    BY <1>12 DEF Restore
  <2> QED
    BY <1>3, <2>1, <2>2, CleanQueues
<1>13. CASE ToCompressor
  <2>1. UNCHANGED dramVars /\ {"to_compressor", "compressor"} \subseteq Queues
    BY <1>13 DEF ToCompressor, Queues
  <2>2. \/ q' = q
        \/ q["to_compressor"] # <<>> /\ q' = Move("to_compressor", "compressor")
    BY <1>13 DEF ToCompressor
  <2> QED
    BY <1>3, <2>1, <2>2, CleanQueues
<1>14. CASE CompressorReady
  BY <1>3, <1>14, CleanQueues DEF CompressorReady, Queues
<1>15. CASE ToLatencyQueue
  <2>1. UNCHANGED dramVars /\ {"to_dram", "latency"} \subseteq Queues
    BY <1>15 DEF ToLatencyQueue, Queues
  <2>2. q' = q \/ (q["to_dram"] # <<>> /\ q' = Move("to_dram", "latency"))
    BY <1>15 DEF ToLatencyQueue
  <2> QED
    BY <1>3, <2>1, <2>2, CleanQueues
<1>16. CASE LatencyOver
  <2>1. /\ {"latency", "dram_to_metadata"} \subseteq Queues
        /\ q["latency"] # <<>> /\ dram_served' = dram_served
        /\ q' = Pop("latency") \/ q' = Move("latency", "dram_to_metadata")
        /\ dram_waiting' \subseteq dram_waiting \cup {Head(q["latency"])}
    BY <1>16 DEF LatencyOver, Queues
  <2>2. q' \in [Queues -> Seq(Req)]
    BY <2>1, CleanQueues
  <2>3. Head(q["latency"]) \in Req
    BY <2>1, TailQueue
  <2> QED
    BY <1>1, <2>1, <2>2, <2>3
<1> QED
  BY <1>4, <1>5, <1>6, <1>7, <1>8, <1>9, <1>10, <1>11, <1>12, <1>13, <1>14, <1>15,
     <1>16
  DEF Environment

\* The stages of the metadata cache.
LEMMA CleanCache ==
    ASSUME PartInv, NothingDirty, Atomic = {},
           MetadataResponse \/ MetadataFill \/ MetadataMiss \/ MetadataAccess
    PROVE  NothingDirty'
<1> USE DEF NothingDirty
<1>1. dram_waiting' \subseteq Req /\ dram_served' \subseteq Req
  BY DEF MetadataResponse, MetadataFill, MetadataMiss, MetadataAccess, dramVars
<1>2. ASSUME UNCHANGED cacheVars PROVE (\A b \in Block : line'[b] # "MODIFIED")
                                       /\ m_miss_queue' \in Seq(Req)
  BY <1>2 DEF cacheVars
<1>3. {"from_metadata", "dram_to_metadata", "to_dram", "to_metadata"} \subseteq Queues
  BY DEF Queues
<1>4. CASE MetadataResponse
  <2>1. CASE UNCHANGED <<cacheVars, q>>
    BY <1>1, <1>2, <2>1
  <2>2. CASE access_ready /\ next_access /\ q' = Push("from_metadata", next_read)
    <3>1. next_read \in Req
      BY <2>2, NextKeeps DEF PartInv
    <3>2. q' \in [Queues -> Seq(Req)]
      BY <1>3, <2>2, <3>1, CleanQueues
    <3> QED
      BY <1>1, <2>2, <3>2 DEF next_access
  <2> QED
    BY <1>4, <2>1, <2>2 DEF MetadataResponse
<1>5. CASE MetadataFill
  <2> DEFINE r == Head(q["dram_to_metadata"])
  <2>1. q' = q \/ (q["dram_to_metadata"] # <<>> /\ q' = Pop("dram_to_metadata"))
    BY <1>5 DEF MetadataFill
  <2>2. q' \in [Queues -> Seq(Req)]
    BY <1>3, <2>1, CleanQueues
  <2>3. UNCHANGED cacheVars \/ (r \in m_extra_mf_fields /\ fill(r))
    BY <1>5 DEF MetadataFill
  <2> HIDE DEF r
  <2>4. CASE UNCHANGED cacheVars
    BY <1>1, <1>2, <2>2, <2>4
  <2>5. CASE r \in m_extra_mf_fields /\ fill(r)
    <3>1. line \in [Block -> Status]
      BY DEF PartInv, TypeOK, CacheTypeOK
    <3>2. \A b \in Block : line'[b] # "MODIFIED"
      BY <2>5, <3>1 DEF fill
    <3> QED
      BY <1>1, <2>2, <2>5, <3>2 DEF fill
  <2> QED
    BY <2>3, <2>4, <2>5
<1>6. CASE MetadataMiss
  <2>1. CASE m_miss_queue # <<>> /\ Len(q["to_dram"]) < QueueSize
    <3>1. /\ q' = Push("to_dram", Head(m_miss_queue))
          /\ m_miss_queue' = Tail(m_miss_queue) /\ line' = line
      BY <1>6, <2>1 DEF MetadataMiss, cache_cycle
    <3>2. Head(m_miss_queue) \in Req /\ Tail(m_miss_queue) \in Seq(Req)
      BY <2>1, TailQueue
    <3>3. q' \in [Queues -> Seq(Req)]
      BY <1>3, <3>1, <3>2, CleanQueues
    <3> QED
      BY <1>1, <3>1, <3>2, <3>3
  <2>2. CASE ~(m_miss_queue # <<>> /\ Len(q["to_dram"]) < QueueSize)
    BY <1>1, <1>6, <2>2 DEF MetadataMiss, cache_cycle
  <2> QED
    BY <2>1, <2>2
<1>7. CASE MetadataAccess
  <2> DEFINE r == Head(q["to_metadata"])
  <2>1. \/ UNCHANGED <<cacheVars, q>>
        \/ /\ q["to_metadata"] # <<>>
           /\ \/ rd_hit_base(r) /\ q' = Move("to_metadata", "from_metadata")
              \/ rd_miss_base(r) /\ q' = Pop("to_metadata")
    BY <1>7 DEF MetadataAccess, access
  <2>2. CASE UNCHANGED <<cacheVars, q>>
    BY <1>1, <1>2, <2>2
  <2>3. CASE q["to_metadata"] # <<>> /\ rd_hit_base(r)
                /\ q' = Move("to_metadata", "from_metadata")
    <3>1. q' \in [Queues -> Seq(Req)]
      BY <1>3, <2>3, CleanQueues
    <3> QED
      BY <1>1, <2>3, <3>1 DEF rd_hit_base
  <2>4. CASE q["to_metadata"] # <<>> /\ rd_miss_base(r) /\ q' = Pop("to_metadata")
    <3>1. q' \in [Queues -> Seq(Req)] /\ r \in Req
      BY <1>3, <2>4, CleanQueues, TailQueue
    <3> HIDE DEF r
    <3>2. PICK gone \in Victims(BlockOf[r]) :
            /\ line' = Allocate(BlockOf[r], gone)
            /\ m_miss_queue' = m_miss_queue \o SentBelow(r)
                  \o (IF \E v \in gone : line[v] = "MODIFIED" THEN <<Wb(r)>> ELSE <<>>)
      BY <2>4 DEF rd_miss_base
    <3>3. gone \subseteq Block
      BY DEF Victims, Replaceable, Cached
    <3>4. ~\E v \in gone : line[v] = "MODIFIED"
      BY <3>3
    <3>5. SentBelow(r) \in Seq(Req)
      BY <3>1, SingleQueue, EmptyQueue DEF SentBelow
    <3>6. m_miss_queue \o SentBelow(r) \in Seq(Req) /\ <<>> \in Seq(Req)
      BY <3>5, ConcatQueue, EmptyQueue
    <3>7. m_miss_queue' = (m_miss_queue \o SentBelow(r)) \o <<>>
      BY <3>2, <3>4
    <3>8. m_miss_queue' \in Seq(Req)
      BY <3>6, <3>7, ConcatQueue
    <3>9. \A b \in Block : line'[b] # "MODIFIED"
      BY <3>2 DEF Allocate
    <3> QED
      BY <1>1, <3>1, <3>8, <3>9
  <2> QED
    BY <2>1, <2>2, <2>3, <2>4
<1> QED
  BY <1>4, <1>5, <1>6, <1>7

\* Nothing is dirty in any reachable state.
LEMMA NothingGetsDirty ==
    ASSUME Atomic = {}
    PROVE  /\ Init => NothingDirty
           /\ PartInv /\ NothingDirty /\ [Next]_vars => NothingDirty'
<1>1. Init => NothingDirty
  BY EmptyQueue DEF Init, CacheInit, NothingDirty
<1>2. ASSUME PartInv, NothingDirty, [Next]_vars PROVE NothingDirty'
  BY <1>2, CleanStages, CleanCache DEF Next, dram_cycle
<1> QED
  BY <1>1, <1>2


\* The requests that hold a credit are those that left the L2's queue and did not
\* retire.
LEMMA InFlightPlaces ==
    ASSUME PartInv, NEW r \in Req
    PROVE  r \in InFlight
              <=> ~IsAt(r, "pending") /\ ~IsAt(r, "l2") /\ ~IsAt(r, "retired")
<1>1. r \in Queued <=> r \in ToSet(l2_dram[SubOf[r]])
  BY SubOfAssumption DEF Queued, PartInv, L2Inv
<1>2. {"pending", "l2", "retired"} \cap Queues = {}
  BY DEF Queues
<1> QED
  BY <1>1, <1>2 DEF InFlight, IsAt

\* Most steps touch no credit and no request on the way in or out.
LEMMA CreditsStutter ==
    ASSUME UNCHANGED <<pending, l2_dram, retired, arbitrationVars>>
    PROVE  UNCHANGED Credits!creditVars
BY DEF Credits!creditVars, Credits!arbitrationVars, InFlight, Queued, arbitrationVars

\* The L2 makes a request: it has no credit yet.
LEMMA IssueCredits ==
    ASSUME PartInv, NEW r \in Req, L2Issue(r)
    PROVE  UNCHANGED Credits!creditVars
<1> DEFINE p == SubOf[r]
<1>1. /\ r \in pending /\ pending' = pending \ {r}
      /\ l2_dram' = [l2_dram EXCEPT ![p] = Append(@, r)]
      /\ UNCHANGED <<retired, arbitrationVars>>
  BY DEF L2Issue
<1>2. p \in SubPart /\ l2_dram \in [SubPart -> Seq(Req)] /\ l2_dram[p] \in Seq(Req)
  BY SubOfAssumption DEF PartInv, TypeOK
<1>3. ToSet(Append(l2_dram[p], r)) = ToSet(l2_dram[p]) \cup {r}
  BY <1>2, AppendQueue
<1>4. /\ l2_dram'[p] = Append(l2_dram[p], r)
      /\ \A o \in SubPart \ {p} : l2_dram'[o] = l2_dram[o]
  BY <1>1, <1>2
<1> HIDE DEF p
<1>5. Queued' = Queued \cup {r}
  BY <1>2, <1>3, <1>4 DEF Queued
<1>6. InFlight' = InFlight
  BY <1>1, <1>5 DEF InFlight
<1> QED
  BY <1>1, <1>6 DEF Credits!creditVars, Credits!arbitrationVars, arbitrationVars

\* A request that leaves the L2's queue borrows a credit of its sub partition.
LEMMA ArbitrateCredits ==
    ASSUME PartInv, Arbitrate
    PROVE  (\E r \in Req : Credits!Issue(r)) \/ UNCHANGED Credits!creditVars
<1>1. CASE Candidates = {} \/ dram_full
  BY <1>1, CreditsStutter DEF Arbitrate
<1>2. CASE ~(Candidates = {} \/ dram_full)
  <2>1. PICK p \in SubPart : /\ IsNext(p)
                             /\ l2_dram' = [l2_dram EXCEPT ![p] = Tail(@)]
                             /\ borrow_credit(p)
    BY <1>2 DEF Arbitrate
  <2>2. pending' = pending /\ retired' = retired
    BY DEF Arbitrate
  <2> DEFINE r == Head(l2_dram[p])
  <2>3. l2_dram \in [SubPart -> Seq(Req)] /\ l2_dram[p] \in Seq(Req) /\ l2_dram[p] # <<>>
    BY <2>1 DEF PartInv, TypeOK, IsNext, Candidates
  <2>4. /\ r \in Req /\ r \in ToSet(l2_dram[p])
        /\ ToSet(l2_dram[p]) = ToSet(Tail(l2_dram[p])) \cup {r}
    BY <2>3, TailQueue
  <2>5. r \notin ToSet(Tail(l2_dram[p]))
    BY <2>3, <2>4, TailOnce DEF PartInv, L2Inv
  <2> HIDE DEF r
  <2>6. SubOf[r] = p
    BY <2>4 DEF PartInv, L2Inv
  <2>7. /\ l2_dram'[p] = Tail(l2_dram[p])
        /\ \A o \in SubPart \ {p} : l2_dram'[o] = l2_dram[o]
    BY <2>1, <2>3
  <2>8. \A o \in SubPart \ {p} : r \notin ToSet(l2_dram[o])
    BY <2>6 DEF PartInv, L2Inv
  <2>9. Queued' = Queued \ {r} /\ r \in Queued
    BY <2>4, <2>5, <2>7, <2>8 DEF Queued
  <2>10. r \notin pending /\ r \notin retired
    <3>1. /\ {"pending", "l2", "retired"} \subseteq Places
          /\ {"pending", "l2", "retired"} \cap Queues = {}
      BY DEF Places, Queues
    <3>2. IsAt(r, "l2")
      BY <2>4, <2>6 DEF IsAt
    <3>3. ~IsAt(r, "pending") /\ ~IsAt(r, "retired")
      BY <2>4, <3>1, <3>2, OnlyPlace DEF PartInv
    <3> QED
      BY <3>1, <3>3 DEF IsAt
  <2>11. InFlight' = InFlight \cup {r} /\ r \notin InFlight
    BY <2>2, <2>4, <2>9, <2>10 DEF InFlight
  <2>12. Credits!Issue(r)
    BY <2>1, <2>6, <2>11 DEF Credits!Issue, Credits!borrow_credit, Credits!has_credits,
       Credits!PrivateAvailable, Credits!SharedAvailable, borrow_credit, has_credits,
       PrivateAvailable, SharedAvailable, Credits!PrivateLimit, PrivateLimit
  <2> QED
    BY <2>4, <2>12
<1> QED
  BY <1>1, <1>2


\* A request that retires returns the credit of its sub partition.
LEMMA RetireCredits ==
    ASSUME PartInv, NEW r \in Req, NEW n \in Places \ {"pending", "l2", "retired"},
           IsAt(r, n), return_credit(SubOf[r]), retired' = retired \cup {r},
           UNCHANGED <<pending, l2_dram>>
    PROVE  Credits!Retire(r)
<1>1. {"pending", "l2", "retired"} \subseteq Places
  BY DEF Places
<1>2. ~IsAt(r, "pending") /\ ~IsAt(r, "l2") /\ ~IsAt(r, "retired")
  BY <1>1, OnlyPlace DEF PartInv
<1>3. r \in InFlight
  BY <1>2, InFlightPlaces
<1>4. InFlight' = InFlight \ {r}
  BY DEF InFlight, Queued
<1> QED
  BY <1>3, <1>4 DEF Credits!Retire, Credits!return_credit, return_credit

\* A read is delivered.
LEMMA DeliverCredits ==
    ASSUME PartInv, DeliverToL2
    PROVE  (\E r \in Req : Credits!Retire(r)) \/ UNCHANGED Credits!creditVars
<1> DEFINE r == Head(q["to_l2"])
<1>1. "to_l2" \in Queues /\ "to_l2" \in Places
  BY DEF Queues, Places
<1>2. UNCHANGED <<pending, l2_dram>>
  BY DEF DeliverToL2
<1>3. \/ UNCHANGED <<retired, arbitrationVars>>
      \/ q["to_l2"] # <<>> /\ return_credit(SubOf[r]) /\ retired' = retired \cup {r}
  BY DEF DeliverToL2
<1>4. CASE UNCHANGED <<retired, arbitrationVars>>
  BY <1>2, <1>4, CreditsStutter
<1>5. CASE q["to_l2"] # <<>> /\ return_credit(SubOf[r]) /\ retired' = retired \cup {r}
  <2>1. r \in Req /\ IsAt(r, "to_l2")
    BY <1>1, <1>5, HeadKind
  <2> QED
    BY <1>1, <1>2, <1>5, <2>1, RetireCredits
<1> QED
  BY <1>3, <1>4, <1>5

\* A writeback of the L2 is done; there is no other one.
LEMMA CompleteCredits ==
    ASSUME PartInv, NothingDirty, NEW x \in Req \cup Writebacks, DramCompletes(x)
    PROVE  (\E r \in Req : Credits!Retire(r)) \/ UNCHANGED Credits!creditVars
<1>1. x \in Req /\ UNCHANGED <<pending, l2_dram>> /\ x \in dram_served
  BY DEF DramCompletes, NothingDirty
<1>2. \/ UNCHANGED <<retired, arbitrationVars>>
      \/ set_done(x)
  BY DEF DramCompletes
<1>3. CASE UNCHANGED <<retired, arbitrationVars>>
  BY <1>1, <1>3, CreditsStutter
<1>4. CASE set_done(x)
  <2>1. return_credit(SubOf[x]) /\ retired' = retired \cup {x}
    BY <1>1, <1>4 DEF set_done, get_sub_partition_id
  <2>2. "served" \in Places \ {"pending", "l2", "retired"} /\ IsAt(x, "served")
    BY <1>1 DEF Places, IsAt
  <2> QED
    BY <1>1, <2>1, <2>2, RetireCredits
<1> QED
  BY <1>2, <1>3, <1>4

\* The partition implements the credit discipline of DramCredits, if no request
\* is an atomic: whichever way a request takes through compressor, metadata cache,
\* latency queue and DRAM, it takes one credit on the way in and gives the credit
\* back, once, on the way out.  With an atomic the metadata cache can write back,
\* and returns a credit nobody took.
THEOREM CreditsAreRefined ==
    ASSUME Atomic = {}
    PROVE  Spec => CreditsRefined
<1>1. Init => Credits!CreditInit
  <2> SUFFICES ASSUME Init PROVE Credits!CreditInit
    OBVIOUS
  <2>1. InFlight = {}
    BY DEF Init, InFlight
  <2>2. Credits!ArbitrationInit
    BY DEF Init, ArbitrationInit, Credits!ArbitrationInit, Credits!SubPart, SubPart
  <2> QED
    BY <2>1, <2>2 DEF Credits!CreditInit
<1>2. ASSUME PartInv, NothingDirty, [Next]_vars
      PROVE  [Credits!CreditNext]_(Credits!creditVars)
  <2>1. CASE Environment
    <3>1. ASSUME SamplingEnds \/ \E p \in SubPart : L2Take(p)
          PROVE  UNCHANGED Credits!creditVars
      BY <3>1, CreditsStutter DEF SamplingEnds, L2Take, l2Vars
    <3> QED
      BY <1>2, <2>1, <3>1, IssueCredits DEF Environment
  <2>2. CASE UNCHANGED vars
    BY <2>2, CreditsStutter DEF vars, l2Vars
  <2>3. CASE \/ sampling_cycle \/ ReturnFromDram \/ DecompressorReady
             \/ \E S \in SUBSET dram_waiting : DramSchedules(S)
             \/ Classify \/ Translate \/ Restore \/ ToCompressor \/ CompressorReady
             \/ MetadataResponse \/ MetadataFill \/ MetadataMiss \/ MetadataAccess
             \/ ToLatencyQueue \/ LatencyOver \/ Stall
    BY <2>3, CreditsStutter
    DEF l2Vars, sampling_cycle, ReturnFromDram, DecompressorReady, DramSchedules,
        Classify, Translate, Restore, ToCompressor, CompressorReady, MetadataResponse,
        MetadataFill, MetadataMiss, MetadataAccess, ToLatencyQueue, LatencyOver, Stall
  <2>4. CASE Arbitrate
    BY <1>2, <2>4, ArbitrateCredits DEF Credits!CreditNext
  <2>5. CASE DeliverToL2
    BY <1>2, <2>5, DeliverCredits DEF Credits!CreditNext
  <2>6. ASSUME NEW x \in Req \cup Writebacks, DramCompletes(x)
        PROVE  [Credits!CreditNext]_(Credits!creditVars)
    BY <1>2, <2>6, CompleteCredits DEF Credits!CreditNext
  <2> QED
    BY <1>2, <2>1, <2>2, <2>3, <2>4, <2>5, <2>6 DEF Next, dram_cycle
<1>3. Init => NothingDirty
  BY NothingGetsDirty
<1>4. PartInv /\ NothingDirty /\ [Next]_vars => NothingDirty'
  BY NothingGetsDirty
<1> QED
  BY <1>1, <1>2, <1>3, <1>4, PartInvariance, PTL DEF Spec, CreditsRefined, Credits!CreditSpec

-----------------------------------------------------------------------------
(* The credits themselves, for every number of sub partitions, every limit *)
(* and every set of requests.  The counters alone do not carry an          *)
(* induction: which pool a credit is returned to does not depend on the    *)
(* pool it came from.  CreditsMatchRequests does: when a shared credit     *)
(* comes back to the private pool, the roles of the returning request and  *)
(* of one that held the private credit are exchanged.                      *)

\* What CreditsMatchRequests says of the partition's requests in flight.
Held == \E S \in SUBSET InFlight :
            /\ Cardinality(S) = m_shared_credit
            /\ \A g \in Credits!SubPart :
                  Cardinality(Credits!Of(g, InFlight \ S)) = m_private_credit[g]

\* Credits!Cardinality is Cardinality.
LEMMA HeldMeaning == /\ Held <=> Credits!CreditsMatchRequests
                     /\ Held' <=> Credits!CreditsMatchRequests'
BY Zenon DEF Held, Credits!CreditsMatchRequests, Credits!Cardinality, Cardinality

CreditInv == /\ Credits!CreditTypeOK
             /\ IsFiniteSet(InFlight)
             /\ Credits!CreditsWithinLimits
             /\ Held

\* At first all credits are in their pools and nothing is in flight.
LEMMA CreditInitInv == Credits!CreditInit => CreditInv
<1> SUFFICES ASSUME Credits!CreditInit PROVE CreditInv
  OBVIOUS
<1>1. Credits!CreditTypeOK
  BY NSubAssumption
  DEF Credits!CreditInit, Credits!ArbitrationInit, Credits!CreditTypeOK, Credits!SubPart
<1>2. IsFiniteSet({}) /\ Cardinality({}) = 0
  BY FS_EmptySet
<1>3. Credits!CreditsWithinLimits
  BY SharedLimitAssumption
  DEF Credits!CreditInit, Credits!ArbitrationInit, Credits!CreditsWithinLimits,
      Credits!PrivateLimit
<1>4. \A p \in Credits!SubPart : Credits!Of(p, InFlight \ {}) = {}
  BY DEF Credits!CreditInit, Credits!Of
<1>5. Held
  BY <1>2, <1>4 DEF Credits!CreditInit, Credits!ArbitrationInit, Held
<1> QED
  BY <1>1, <1>2, <1>3, <1>5 DEF CreditInv, Credits!CreditInit

\* A credit is borrowed.
LEMMA IssueInv ==
    ASSUME CreditInv, NEW r \in Req, Credits!Issue(r)
    PROVE  CreditInv'
<1> DEFINE p == SubOf[r]
<1> USE DEF CreditInv
<1>1. /\ p \in Credits!SubPart
      /\ r \notin InFlight
      /\ InFlight' = InFlight \cup {r}
      /\ m_last_borrower' = p
  BY SubOfAssumption DEF SubPart, Credits!SubPart, Credits!Issue, Credits!borrow_credit
<1>2. IsFiniteSet(InFlight')
  BY <1>1, FS_AddElement
<1>3. PICK S \in SUBSET InFlight :
        /\ Cardinality(S) = m_shared_credit
        /\ \A g \in Credits!SubPart :
              Cardinality(Credits!Of(g, InFlight \ S)) = m_private_credit[g]
  BY DEF Held
<1>4. IsFiniteSet(S) /\ r \notin S
  BY <1>1, <1>3, FS_Subset
<1>5. CASE Credits!PrivateAvailable(p)
  <2>1. /\ m_private_credit' = [m_private_credit EXCEPT ![p] = @ + 1]
        /\ m_shared_credit' = m_shared_credit
    BY <1>5 DEF Credits!Issue, Credits!borrow_credit
  <2>2. Credits!CreditTypeOK' /\ Credits!CreditsWithinLimits'
    BY <1>1, <1>5, <2>1
    DEF Credits!CreditTypeOK, Credits!CreditsWithinLimits, Credits!PrivateAvailable,
        Credits!PrivateLimit
  <2>3. ASSUME NEW g \in Credits!SubPart
        PROVE  Cardinality(Credits!Of(g, InFlight' \ S)) = m_private_credit'[g]
    <3>1. CASE g = p
      <4>1. Credits!Of(g, InFlight' \ S) = Credits!Of(g, InFlight \ S) \cup {r}
        BY <1>1, <1>4, <3>1 DEF Credits!Of
      <4>2. r \notin Credits!Of(g, InFlight \ S) /\ IsFiniteSet(Credits!Of(g, InFlight \ S))
        BY <1>1, FS_Subset DEF Credits!Of
      <4>3. Cardinality(Credits!Of(g, InFlight \ S) \cup {r})
              = Cardinality(Credits!Of(g, InFlight \ S)) + 1
        <5> HIDE DEF p, CreditInv
        <5> QED
          BY <4>2, FS_AddElement
      <4> QED
        BY <1>1, <1>3, <2>1, <3>1, <4>1, <4>3 DEF Credits!CreditTypeOK
    <3>2. CASE g # p
      <4>1. Credits!Of(g, InFlight' \ S) = Credits!Of(g, InFlight \ S)
        BY <1>1, <3>2 DEF Credits!Of
      <4> QED
        BY <1>3, <2>1, <3>2, <4>1 DEF Credits!CreditTypeOK
    <3> QED
      BY <3>1, <3>2
  <2>4. Held'
    BY <1>1, <1>3, <2>1, <2>3 DEF Held
  <2> QED
    BY <1>2, <2>2, <2>4
<1>6. CASE ~Credits!PrivateAvailable(p)
  <2>1. /\ m_private_credit' = m_private_credit
        /\ m_shared_credit' = m_shared_credit + 1
        /\ Credits!SharedAvailable
    BY <1>6 DEF Credits!Issue, Credits!borrow_credit, Credits!has_credits
  <2>2. Credits!CreditTypeOK' /\ Credits!CreditsWithinLimits'
    BY <1>1, <2>1, SharedLimitAssumption
    DEF Credits!CreditTypeOK, Credits!CreditsWithinLimits, Credits!SharedAvailable
  <2>3. Cardinality(S \cup {r}) = m_shared_credit'
    BY <1>3, <1>4, <2>1, FS_AddElement
  <2>4. \A g \in Credits!SubPart :
           Credits!Of(g, InFlight' \ (S \cup {r})) = Credits!Of(g, InFlight \ S)
    BY <1>1 DEF Credits!Of
  <2>5. Held'
    <3>1. S \cup {r} \in SUBSET InFlight'
      BY <1>1
    <3>2. \A g \in Credits!SubPart :
             Cardinality(Credits!Of(g, InFlight' \ (S \cup {r}))) = m_private_credit'[g]
      BY <1>3, <2>1, <2>4
    <3> QED
      BY <2>3, <3>1, <3>2 DEF Held
  <2> QED
    BY <1>2, <2>2, <2>5
<1> QED
  BY <1>5, <1>6

\* A credit is returned.
LEMMA RetireInv ==
    ASSUME CreditInv, NEW r \in Req, Credits!Retire(r)
    PROVE  CreditInv'
<1> DEFINE p == SubOf[r]
<1> USE DEF CreditInv
<1>1. /\ p \in Credits!SubPart
      /\ r \in InFlight
      /\ InFlight' = InFlight \ {r}
      /\ m_last_borrower' = m_last_borrower
  BY SubOfAssumption DEF SubPart, Credits!SubPart, Credits!Retire, Credits!return_credit
<1>2. IsFiniteSet(InFlight')
  BY <1>1, FS_RemoveElement
<1>3. PICK S \in SUBSET InFlight :
        /\ Cardinality(S) = m_shared_credit
        /\ \A g \in Credits!SubPart :
              Cardinality(Credits!Of(g, InFlight \ S)) = m_private_credit[g]
  BY DEF Held
<1>4. /\ IsFiniteSet(S)
      /\ \A g \in Credits!SubPart : IsFiniteSet(Credits!Of(g, InFlight \ S))
  BY <1>3, FS_Subset DEF Credits!Of
<1>5. CASE m_private_credit[p] > 0
  <2>1. /\ m_private_credit' = [m_private_credit EXCEPT ![p] = @ - 1]
        /\ m_shared_credit' = m_shared_credit
    BY <1>5 DEF Credits!Retire, Credits!return_credit
  <2>2. Credits!CreditTypeOK' /\ Credits!CreditsWithinLimits'
    BY <1>1, <1>5, <2>1
    DEF Credits!CreditTypeOK, Credits!CreditsWithinLimits, Credits!PrivateLimit
  <2>3. \E T \in SUBSET InFlight', h \in Credits!Of(p, InFlight \ S) :
           /\ Cardinality(T) = Cardinality(S)
           /\ Credits!Of(p, InFlight' \ T) = Credits!Of(p, InFlight \ S) \ {h}
           /\ \A g \in Credits!SubPart \ {p} :
                 Credits!Of(g, InFlight' \ T) = Credits!Of(g, InFlight \ S)
    <3>1. CASE r \notin S
      <4>1. r \in Credits!Of(p, InFlight \ S)
        BY <1>1, <3>1 DEF Credits!Of
      <4>2. Credits!Of(p, InFlight' \ S) = Credits!Of(p, InFlight \ S) \ {r}
        BY <1>1 DEF Credits!Of
      <4>3. \A g \in Credits!SubPart \ {p} : Credits!Of(g,
      InFlight' \ S) = Credits!Of(g, InFlight \ S)
        BY <1>1 DEF Credits!Of
      <4>4. S \in SUBSET InFlight'
        BY <1>1, <3>1
      <4> QED
        BY <4>1, <4>2, <4>3, <4>4
    <3>2. CASE r \in S
      <4>1. Credits!Of(p, InFlight \ S) # {}
        <5>1. Cardinality(Credits!Of(p, InFlight \ S)) # 0
          BY <1>1, <1>3, <1>5
        <5>2. IsFiniteSet(Credits!Of(p, InFlight \ S))
          BY <1>1, <1>4
        <5> HIDE DEF p, CreditInv
        <5> QED
          BY <5>1, <5>2, FS_EmptySet
      <4>2. PICK h \in Credits!Of(p, InFlight \ S) : TRUE
        BY <4>1
      <4>3. h \in InFlight /\ h \notin S /\ SubOf[h] = p /\ h # r
        BY <3>2 DEF Credits!Of
      <4> DEFINE T == (S \ {r}) \cup {h}
      <4>4. T \in SUBSET InFlight'
        BY <1>1, <4>3
      <4>5. Cardinality(T) = Cardinality(S)
        <5>1. /\ IsFiniteSet(S \ {r})
              /\ Cardinality(S \ {r}) = Cardinality(S) - 1
          BY <1>4, <3>2, FS_RemoveElement
        <5>2. Cardinality(T) = Cardinality(S \ {r}) + 1
          BY <4>3, <5>1, FS_AddElement
        <5> QED
          BY <1>4, <5>1, <5>2, FS_CardinalityType
      <4>6. Credits!Of(p, InFlight' \ T) = Credits!Of(p, InFlight \ S) \ {h}
        BY <1>1, <3>2, <4>3 DEF Credits!Of
      <4>7. \A g \in Credits!SubPart \ {p} : Credits!Of(g,
      InFlight' \ T) = Credits!Of(g, InFlight \ S)
        BY <1>1, <3>2, <4>3 DEF Credits!Of
      <4> QED
        BY <4>2, <4>4, <4>5, <4>6, <4>7
    <3> QED
      BY <3>1, <3>2
  <2>4. PICK T \in SUBSET InFlight', h \in Credits!Of(p, InFlight \ S) :
           /\ Cardinality(T) = Cardinality(S)
           /\ Credits!Of(p, InFlight' \ T) = Credits!Of(p, InFlight \ S) \ {h}
           /\ \A g \in Credits!SubPart \ {p} :
                 Credits!Of(g, InFlight' \ T) = Credits!Of(g, InFlight \ S)
    BY <2>3
  <2>5. Cardinality(Credits!Of(p, InFlight' \ T)) = m_private_credit[p] - 1
    <3>1. Cardinality(Credits!Of(p, InFlight \ S) \ {h})
            = Cardinality(Credits!Of(p, InFlight \ S)) - 1
      <4>1. IsFiniteSet(Credits!Of(p, InFlight \ S))
        BY <1>1, <1>4
      <4> HIDE DEF p, CreditInv
      <4> QED
        BY <4>1, FS_RemoveElement
    <3> QED
      BY <1>1, <1>3, <2>4, <3>1
  <2>6. \A g \in Credits!SubPart :
           Cardinality(Credits!Of(g, InFlight' \ T)) = m_private_credit'[g]
    BY <1>1, <1>3, <2>1, <2>4, <2>5 DEF Credits!CreditTypeOK
  <2>7. Held'
    BY <1>3, <2>1, <2>4, <2>6 DEF Held
  <2> QED
    BY <1>2, <2>2, <2>7
<1>6. CASE ~(m_private_credit[p] > 0)
  <2>1. /\ m_private_credit' = m_private_credit
        /\ m_shared_credit' = m_shared_credit - 1
    BY <1>6 DEF Credits!Retire, Credits!return_credit
  <2>2. m_private_credit[p] = 0
    BY <1>1, <1>6 DEF Credits!CreditsWithinLimits, Credits!PrivateLimit
  <2>3. r \in S
    <3>1. Credits!Of(p, InFlight \ S) = {}
      BY <1>1, <1>3, <1>4, <2>2, FS_EmptySet
    <3> QED
      BY <1>1, <3>1 DEF Credits!Of
  <2>4. /\ Cardinality(S \ {r}) = m_shared_credit - 1
        /\ Cardinality(S \ {r}) \in Nat
    BY <1>3, <1>4, <2>3, FS_RemoveElement, FS_CardinalityType
  <2>5. Credits!CreditTypeOK' /\ Credits!CreditsWithinLimits'
    BY <1>1, <2>1, <2>4, SharedLimitAssumption
    DEF Credits!CreditTypeOK, Credits!CreditsWithinLimits
  <2>6. \A g \in Credits!SubPart : Credits!Of(g,
  InFlight' \ (S \ {r})) = Credits!Of(g, InFlight \ S)
    BY <1>1, <2>3 DEF Credits!Of
  <2>7. Held'
    <3>1. S \ {r} \in SUBSET InFlight'
      BY <1>1
    <3>2. \A g \in Credits!SubPart :
             Cardinality(Credits!Of(g, InFlight' \ (S \ {r}))) = m_private_credit'[g]
      BY <1>3, <2>1, <2>6
    <3> QED
      BY <2>1, <2>4, <3>1, <3>2 DEF Held
  <2> QED
    BY <1>2, <2>5, <2>7
<1> QED
  BY <1>5, <1>6

\* Borrowing, returning and doing nothing keep the invariant.
LEMMA CreditInvStep == CreditInv /\ [Credits!CreditNext]_(Credits!creditVars) => CreditInv'
<1> SUFFICES ASSUME CreditInv,
[Credits!CreditNext]_(Credits!creditVars) PROVE CreditInv'
  OBVIOUS
<1>1. CASE Credits!CreditNext
  BY <1>1, IssueInv, RetireInv DEF Credits!CreditNext
<1>2. CASE UNCHANGED Credits!creditVars
  BY <1>2
  DEF Credits!creditVars, Credits!arbitrationVars, CreditInv, Credits!CreditTypeOK,
              Credits!CreditsWithinLimits, Held
<1> QED
  BY <1>1, <1>2

\* Every reachable state satisfies the inductive invariant.
THEOREM CreditInvariance == Credits!CreditSpec => []CreditInv
BY CreditInitInv, CreditInvStep, PTL DEF Credits!CreditSpec

\* The assertion in Credits!return_credit never fires and neither pool exceeds its
\* limit.
THEOREM CreditsSafe == Credits!CreditSpec => []Credits!CreditsWithinLimits
<1>1. CreditInv => Credits!CreditsWithinLimits
  BY DEF CreditInv
<1> QED
  BY <1>1, CreditInvariance, PTL

\* As many requests are in flight as credits are out, which the limits bound.
LEMMA InvBoundsInFlight == CreditInv => Credits!InFlightBounded
<1> SUFFICES ASSUME CreditInv, SharedLimit # 0
             PROVE  Cardinality(InFlight) <= SharedLimit + NSub
  BY Zenon DEF Credits!InFlightBounded, Credits!Cardinality, Cardinality
<1> USE DEF CreditInv
<1>1. PICK S \in SUBSET InFlight :
        /\ Cardinality(S) = m_shared_credit
        /\ \A g \in Credits!SubPart :
              Cardinality(Credits!Of(g, InFlight \ S)) = m_private_credit[g]
  BY DEF Held
<1> DEFINE P == InFlight \ S
           f == [r \in P |-> SubOf[r]]
<1>2. IsFiniteSet(S) /\ IsFiniteSet(P)
  BY FS_Subset
<1>3. ASSUME NEW a \in P, NEW b \in P, SubOf[a] = SubOf[b], a # b
      PROVE  FALSE
  <2>1. /\ SubOf[a] \in Credits!SubPart
        /\ a \in Credits!Of(SubOf[a], P) /\ b \in Credits!Of(SubOf[a], P)
    BY <1>3, SubOfAssumption
    DEF SubPart, Credits!SubPart, Credits!Of, Credits!CreditTypeOK
  <2>2. IsFiniteSet(Credits!Of(SubOf[a], P))
    BY <1>2, FS_Subset DEF Credits!Of
  <2>3. Cardinality(Credits!Of(SubOf[a], P)) <= 1
    BY <1>1, <2>1 DEF Credits!CreditsWithinLimits, Credits!PrivateLimit
  <2>4. /\ {a, b} \subseteq Credits!Of(SubOf[a], P)
        /\ {a, b} = {a} \cup {b}
    BY <2>1
  <2>5. Cardinality({a, b}) = 2
    <3>1. IsFiniteSet({a}) /\ Cardinality({a}) = 1
      BY FS_Singleton
    <3>2. b \notin {a}
      BY <1>3
    <3>3. Cardinality({a} \cup {b}) = Cardinality({a}) + 1
      BY ONLY <3>1, <3>2, FS_AddElement
    <3> QED
      BY <2>4, <3>1, <3>3
  <2>6. Cardinality({a, b}) <= Cardinality(Credits!Of(SubOf[a], P))
    BY <2>2, <2>4, FS_Subset
  <2> QED
    BY <2>2, <2>3, <2>5, <2>6, FS_CardinalityType
<1>4. f \in Injection(P, Credits!SubPart)
  BY <1>3, SubOfAssumption
  DEF SubPart, Credits!SubPart, Injection, IsInjective, Credits!CreditTypeOK
<1>5. IsFiniteSet(Credits!SubPart) /\ Cardinality(Credits!SubPart) = NSub
  BY FS_Interval, NSubAssumption DEF Credits!SubPart
<1>6. Cardinality(P) <= NSub
  BY <1>4, <1>5, FS_Injection DEF ExistsInjection
<1>7. Cardinality(InFlight) = Cardinality(S) + Cardinality(P)
  <2>1. InFlight = S \cup P /\ Cardinality(S \cap P) = 0
    <3>1. S \cap P = {}
      OBVIOUS
    <3> QED
      BY <3>1, FS_EmptySet
  <2>2. Cardinality(S \cup P)
          = Cardinality(S) + Cardinality(P) - Cardinality(S \cap P)
    <3> HIDE DEF P, CreditInv
    <3> QED
      BY <1>2, FS_Union
  <2>3. Cardinality(S) \in Nat /\ Cardinality(P) \in Nat
    BY <1>2, FS_CardinalityType
  <2> HIDE DEF P, CreditInv
  <2>4. Cardinality(InFlight) = Cardinality(S \cup P)
    BY <2>1
  <2> QED
    BY <2>1, <2>2, <2>3, <2>4
<1> QED
  BY <1>1, <1>2, <1>6, <1>7, FS_CardinalityType, NSubAssumption,
     SharedLimitAssumption
  DEF Credits!CreditsWithinLimits, Credits!CreditTypeOK

\* At most SharedLimit + NSub requests are in flight.
THEOREM InFlightIsBounded == Credits!CreditSpec => []Credits!InFlightBounded
BY InvBoundsInFlight, CreditInvariance, PTL

\* Every credit that is out belongs to one request below the L2, whichever pool
\* it was borrowed from and whichever pool others were returned to.
THEOREM CreditsAreHeld == Credits!CreditSpec => []Credits!CreditsMatchRequests
<1>1. CreditInv => Credits!CreditsMatchRequests
  BY HeldMeaning DEF CreditInv
<1> QED
  BY <1>1, CreditInvariance, PTL

\* The pools stay within their limits and every credit that is out belongs to
\* one request between the L2's queue and its retirement, if no request is an
\* atomic: the assertion of return_credit (l2cache.cc:452) never fires in the
\* partition.
THEOREM PartitionCreditsAreHeld ==
    ASSUME Atomic = {}
    PROVE  Spec => [](Credits!CreditsWithinLimits /\ Credits!CreditsMatchRequests)
BY CreditsAreRefined, CreditsSafe, CreditsAreHeld, PTL DEF CreditsRefined

\* The pushes of dram_cycle that nothing guards find room, if no request is an
\* atomic, the credits are limited and a queue is as large as there are credits:
\* what is in a queue holds a credit, each request once, and the credits that
\* are out are bounded.
THEOREM PushesFindRoom ==
    ASSUME Atomic = {}, SharedLimit # 0, SharedLimit + NSub <= QueueSize
    PROVE  Spec => []QueuesHaveRoom
<1>1. ASSUME PartInv, NothingDirty, CreditInv
      PROVE  QueuesHaveRoom
  <2> SUFFICES ASSUME NEW n \in Queues PROVE Len(q[n]) <= QueueSize
    BY DEF QueuesHaveRoom
  <2>1. q[n] \in Seq(Req) /\ Once(q[n], Req)
    BY <1>1 DEF NothingDirty, PartInv, QueuesInv
  <2>2. Cardinality(ToSet(q[n])) = Len(q[n]) /\ Len(q[n]) \in Nat /\ ToSet(q[n]) \subseteq Req
    BY <2>1, OnceLength, QueueElements
  <2>3. /\ n \in Places /\ n \notin {"pending", "l2", "retired"}
        /\ {"pending", "l2", "retired"} \subseteq Places
    BY DEF Places, Queues
  <2>4. ASSUME NEW r \in ToSet(q[n]) PROVE r \in InFlight
    <3>1. r \in Req /\ IsAt(r, n)
      BY <2>2, AtQueue
    <3>2. ~IsAt(r, "pending") /\ ~IsAt(r, "l2") /\ ~IsAt(r, "retired")
      BY <1>1, <2>3, <3>1, OnlyPlace DEF PartInv
    <3> QED
      BY <1>1, <3>1, <3>2, InFlightPlaces
  <2>5. IsFiniteSet(InFlight)
    BY <1>1 DEF CreditInv
  <2>6. Cardinality(InFlight) <= SharedLimit + NSub
    <3>1. Credits!InFlightBounded
      BY <1>1, InvBoundsInFlight
    <3> QED
      BY <3>1, Zenon DEF Credits!InFlightBounded, Credits!Cardinality, Cardinality
  <2>7. ToSet(q[n]) \subseteq InFlight
    BY <2>4
  <2>8. Cardinality(ToSet(q[n])) <= Cardinality(InFlight) /\ Cardinality(InFlight) \in Nat
    BY <2>5, <2>7, FS_Subset, FS_CardinalityType
  <2> HIDE DEF InFlight
  <2> DEFINE l == Len(q[n])
             c == Cardinality(InFlight)
  <2>9. l <= c /\ c <= SharedLimit + NSub /\ l \in Nat /\ c \in Nat
    BY <2>2, <2>6, <2>8
  <2> HIDE DEF l, c
  <2>10. l <= QueueSize
    BY <2>9, NSubAssumption, SharedLimitAssumption, PartitionAssumption
  <2> QED
    BY <2>10 DEF l
<1>2. Init => NothingDirty
  BY NothingGetsDirty
<1>3. PartInv /\ NothingDirty /\ [Next]_vars => NothingDirty'
  BY NothingGetsDirty
<1> QED
  BY <1>1, <1>2, <1>3, CreditsAreRefined, CreditInvariance, PartInvariance, PTL
  DEF Spec, CreditsRefined
=============================================================================
