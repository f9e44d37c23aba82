------------------------- MODULE MetadataCacheProofs -------------------------
(***************************************************************************)
(* What the operations of MetadataCache do to the reads that wait in its   *)
(* MSHR table, to those that wait for a fill and to those in the miss      *)
(* queue.  The modules that drive the cache rest on these lemmas.          *)
(***************************************************************************)
EXTENDS MetadataCache, QueueLemmas

\* The read waits in the MSHR entry of its block.
Waiting(r) == r \in ToSet(mshr[BlockOf[r]])

\* An entry holds reads of its own block, each once.
MergedOnce ==
    \A b \in Block : /\ Once(mshr[b], Req)
                     /\ \A r \in ToSet(mshr[b]) : BlockOf[r] = b

\* A read that waits for a fill is the first of its entry.
FetchIsFirst ==
    \A r \in m_extra_mf_fields : /\ mshr[BlockOf[r]] # <<>>
                                 /\ Head(mshr[BlockOf[r]]) = r

\* An entry that is being answered is not empty and waits for no fill.
AnsweredOnce ==
    /\ Once(m_current_response, Block)
    /\ \A b \in ToSet(m_current_response) :
          /\ mshr[b] # <<>>
          /\ \A r \in ToSet(mshr[b]) : r \notin m_extra_mf_fields

\* Of the reads, only those that wait for a fill are sent below, once.
SentOnce == /\ Once(m_miss_queue, Req)
            /\ \A r \in Req : r \in ToSet(m_miss_queue) => r \in m_extra_mf_fields

CacheInv == CacheTypeOK /\ MergedOnce /\ FetchIsFirst /\ AnsweredOnce /\ SentOnce

\* The empty cache.
LEMMA CacheInvInit == CacheInit => CacheInv
<1> SUFFICES ASSUME CacheInit PROVE CacheInv
  OBVIOUS
<1> USE DEF CacheInit
<1>1. CacheTypeOK
  BY EmptyQueue, EmptyOnce DEF CacheTypeOK, Status
<1>2. MergedOnce /\ FetchIsFirst /\ AnsweredOnce /\ SentOnce
  BY EmptyQueue, EmptyOnce DEF MergedOnce, FetchIsFirst, AnsweredOnce, SentOnce
<1> QED
  BY <1>1, <1>2 DEF CacheInv

\* A cache that is left alone.
LEMMA CacheInvStutter ==
    ASSUME CacheInv, UNCHANGED cacheVars
    PROVE  /\ CacheInv'
           /\ \A r \in Req : Waiting(r)' <=> Waiting(r)
           /\ UNCHANGED <<m_extra_mf_fields, m_miss_queue>>
BY DEF cacheVars, CacheInv, CacheTypeOK, MergedOnce, FetchIsFirst,
       AnsweredOnce, SentOnce, Waiting

\* A read that waits for a fill waits in the table.
LEMMA FetchWaits ==
    ASSUME CacheInv, NEW r \in m_extra_mf_fields
    PROVE  r \in Req /\ Waiting(r)
<1>1. r \in Req /\ BlockOf[r] \in Block
  BY CacheAssumption DEF CacheInv, CacheTypeOK
<1>2. mshr[BlockOf[r]] \in Seq(Req) /\ mshr[BlockOf[r]] # <<>>
      /\ Head(mshr[BlockOf[r]]) = r
  BY <1>1 DEF CacheInv, CacheTypeOK, FetchIsFirst
<1> QED
  BY <1>1, <1>2, TailQueue, TailOnce DEF Waiting

\* A hit changes no queue and no entry.
LEMMA HitKeeps ==
    ASSUME CacheInv, NEW r \in Req, rd_hit_base(r)
    PROVE  CacheInv'
<1>1. UNCHANGED <<mshr, m_current_response, m_extra_mf_fields, m_miss_queue>>
  BY DEF rd_hit_base
<1>2. BlockOf[r] \in Block
  BY CacheAssumption
<1>3. line' \in [Block -> Status]
  BY <1>2 DEF rd_hit_base, CacheInv, CacheTypeOK, Status
<1>4. m_data_port_occupied_cycles' \in Nat
  BY CacheAssumption DEF rd_hit_base, use_data_port, CacheInv, CacheTypeOK
<1> QED
  BY <1>1, <1>3, <1>4 DEF CacheInv, CacheTypeOK, MergedOnce, FetchIsFirst,
                          AnsweredOnce, SentOnce

\* A read that misses joins the entry of its block.  If there was none, it is
\* sent below and waits for the fill.
LEMMA MissKeeps ==
    ASSUME CacheInv, NEW r \in Req, ~Waiting(r), rd_miss_base(r)
    PROVE  /\ CacheInv'
           /\ \A x \in Req :
                 /\ Waiting(x)' <=> Waiting(x) \/ x = r
                 /\ x \in m_extra_mf_fields'
                       <=> \/ x \in m_extra_mf_fields
                           \/ x = r /\ BlockOf[r] \notin Entries
                 /\ x \in ToSet(m_miss_queue')
                       <=> \/ x \in ToSet(m_miss_queue)
                           \/ x = r /\ BlockOf[r] \notin Entries
           /\ Len(m_miss_queue') <= Len(m_miss_queue) + 2
<1> DEFINE b == BlockOf[r]
           sent == SentBelow(r)
<1>1. b \in Block
  BY CacheAssumption
<1>2. PICK gone \in Victims(b) :
        /\ line' = Allocate(b, gone)
        /\ mshr' = [mshr EXCEPT ![b] = Append(@, r)]
        /\ m_extra_mf_fields' = m_extra_mf_fields \cup ToSet(sent)
        /\ m_miss_queue' = m_miss_queue \o sent
              \o (IF \E v \in gone : line[v] = "MODIFIED" THEN <<Wb(r)>> ELSE <<>>)
        /\ UNCHANGED <<m_current_response, m_data_port_occupied_cycles>>
  BY DEF rd_miss_base
<1> DEFINE wb == IF \E v \in gone : line[v] = "MODIFIED" THEN <<Wb(r)>> ELSE <<>>
<1>3. /\ mshr \in [Block -> Seq(Req)]
      /\ mshr[b] \in Seq(Req)
      /\ m_miss_queue \in Seq(Req \cup Writebacks)
      /\ m_current_response \in Seq(Block)
      /\ m_extra_mf_fields \subseteq Req
  BY <1>1 DEF CacheInv, CacheTypeOK
<1>4. /\ sent \in Seq(Req \cup Writebacks)
      /\ ToSet(sent) = IF b \notin Entries THEN {r} ELSE {}
      /\ Once(sent, Req)
      /\ Len(sent) <= 1 /\ Len(sent) \in Nat
  <2>1. CASE b \in Entries
    <3>1. sent = <<>>
      BY <2>1 DEF SentBelow
    <3>2. /\ <<>> \in Seq(Req \cup Writebacks) /\ ToSet(<<>>) = {}
          /\ Once(<<>>, Req) /\ Len(<<>>) = 0
      BY EmptyQueue, EmptyOnce, EmptySeq
    <3> QED
      BY <2>1, <3>1, <3>2
  <2>2. CASE b \notin Entries
    <3>1. sent = <<r>>
      BY <2>2 DEF SentBelow
    <3>2. /\ <<r>> \in Seq(Req \cup Writebacks) /\ ToSet(<<r>>) = {r}
          /\ Once(<<r>>, Req) /\ Len(<<r>>) = 1
      BY SingleQueue, SingleOnce
    <3> QED
      BY <2>2, <3>1, <3>2
  <2> QED
    BY <2>1, <2>2
<1>5. /\ wb \in Seq(Req \cup Writebacks)
      /\ ToSet(wb) \cap Req = {}
      /\ Once(wb, Req)
      /\ Len(wb) <= 1 /\ Len(wb) \in Nat
  <2>1. Wb(r) \in Writebacks
    BY DEF Writebacks
  <2> HIDE DEF b, sent
  <2>2. CASE wb = <<Wb(r)>>
    <3>1. /\ <<Wb(r)>> \in Seq(Req \cup Writebacks) /\ ToSet(<<Wb(r)>>) = {Wb(r)}
          /\ Once(<<Wb(r)>>, Req) /\ Len(<<Wb(r)>>) = 1
      BY <2>1, SingleQueue, SingleOnce
    <3> QED
      BY <2>1, <2>2, <3>1, WritebackAssumption
  <2>3. CASE wb = <<>>
    BY <2>3, EmptyQueue, EmptyOnce, EmptySeq
  <2> QED
    BY <2>2, <2>3
<1>6. r \notin m_extra_mf_fields
  BY FetchWaits
<1>7. r \notin ToSet(m_miss_queue)
  BY <1>6 DEF CacheInv, SentOnce
<1> HIDE DEF sent, wb
<1> DEFINE m == m_miss_queue \o sent
<1>8. /\ m \in Seq(Req \cup Writebacks)
      /\ ToSet(m) = ToSet(m_miss_queue) \cup ToSet(sent)
      /\ Once(m, Req)
      /\ Len(m) = Len(m_miss_queue) + Len(sent)
  BY <1>3, <1>4, <1>7, ConcatQueue, ConcatOnce DEF CacheInv, SentOnce
<1> HIDE DEF m
<1>9. /\ m_miss_queue' \in Seq(Req \cup Writebacks)
      /\ ToSet(m_miss_queue') = ToSet(m_miss_queue) \cup ToSet(sent) \cup ToSet(wb)
      /\ Once(m_miss_queue', Req)
      /\ Len(m_miss_queue') = Len(m_miss_queue) + Len(sent) + Len(wb)
  <2>1. m_miss_queue' = m \o wb
    BY <1>2 DEF m, wb
  <2>2. /\ m \o wb \in Seq(Req \cup Writebacks)
        /\ ToSet(m \o wb) = ToSet(m) \cup ToSet(wb)
        /\ Len(m \o wb) = Len(m) + Len(wb)
    BY <1>5, <1>8, ConcatQueue, ConcatOnce
  <2>3. Once(m \o wb, Req)
    BY <1>5, <1>8, ConcatQueue, ConcatOnce
  <2> QED
    BY <1>8, <2>1, <2>2, <2>3
<1>10. Len(m_miss_queue') <= Len(m_miss_queue) + 2
  <2>1. Len(m_miss_queue) \in Nat
    BY <1>3, LenProperties
  <2> QED
    BY <1>4, <1>5, <1>9, <2>1
<1>11. \A x \in Req : x \in ToSet(m_miss_queue')
                        <=> x \in ToSet(m_miss_queue) \/ (x = r /\ b \notin Entries)
  BY <1>4, <1>5, <1>9
<1>12. \A x \in Req : x \in m_extra_mf_fields'
                        <=> x \in m_extra_mf_fields \/ (x = r /\ b \notin Entries)
  BY <1>2, <1>4
<1>13. /\ mshr' \in [Block -> Seq(Req)]
       /\ ToSet(mshr'[b]) = ToSet(mshr[b]) \cup {r}
       /\ Once(mshr'[b], Req)
       /\ mshr'[b] # <<>>
       /\ mshr[b] # <<>> => Head(mshr'[b]) = Head(mshr[b])
       /\ mshr[b] = <<>> => Head(mshr'[b]) = r
       /\ \A c \in Block : c # b => mshr'[c] = mshr[c]
  <2>1. mshr'[b] = Append(mshr[b], r)
    BY <1>1, <1>2, <1>3
  <2>2. /\ mshr' \in [Block -> Seq(Req)]
        /\ \A c \in Block : c # b => mshr'[c] = mshr[c]
    BY <1>1, <1>2, <1>3, AppendQueue, AppendOnce
  <2>3. Once(mshr[b], Req) /\ r \notin ToSet(mshr[b])
    BY <1>1 DEF CacheInv, MergedOnce, Waiting
  <2>4. /\ ToSet(Append(mshr[b], r)) = ToSet(mshr[b]) \cup {r}
        /\ Append(mshr[b], r) # <<>>
    BY <1>3, AppendQueue, AppendOnce
  <2>6. /\ mshr[b] # <<>> => Head(Append(mshr[b], r)) = Head(mshr[b])
        /\ mshr[b] = <<>> => Head(Append(mshr[b], r)) = r
    BY <1>3, AppendQueue, AppendOnce
  <2>5. Once(Append(mshr[b], r), Req)
    BY <1>3, <2>3, AppendQueue, AppendOnce
  <2> QED
    BY <2>1, <2>2, <2>4, <2>5, <2>6
<1>14. \A x \in Req : Waiting(x)' <=> Waiting(x) \/ x = r
  <2>1. SUFFICES ASSUME NEW x \in Req
                 PROVE  x \in ToSet(mshr'[BlockOf[x]])
                           <=> x \in ToSet(mshr[BlockOf[x]]) \/ x = r
    BY DEF Waiting
  <2>2. BlockOf[x] \in Block
    BY CacheAssumption
  <2> QED
    BY <1>13, <2>2
<1>15. CacheTypeOK'
  <2>1. line' \in [Block -> Status]
    BY <1>2 DEF Allocate, Status, CacheInv, CacheTypeOK
  <2>2. m_extra_mf_fields' \subseteq Req
    BY <1>2, <1>3, <1>4
  <2> QED
    BY <1>2, <1>9, <1>13, <2>1, <2>2 DEF CacheInv, CacheTypeOK
<1>16. MergedOnce'
  BY <1>13 DEF MergedOnce, CacheInv
<1>17. FetchIsFirst'
  <2> SUFFICES ASSUME NEW x \in m_extra_mf_fields'
               PROVE  mshr'[BlockOf[x]] # <<>> /\ Head(mshr'[BlockOf[x]]) = x
    BY DEF FetchIsFirst
  <2>1. x \in Req /\ BlockOf[x] \in Block
    BY <1>15, CacheAssumption DEF CacheTypeOK
  <2>2. CASE x \in m_extra_mf_fields
    <3>1. mshr[BlockOf[x]] # <<>> /\ Head(mshr[BlockOf[x]]) = x
      BY <2>2 DEF CacheInv, FetchIsFirst
    <3> QED
      BY <1>13, <2>1, <3>1
  <2>3. CASE x = r /\ b \notin Entries
    <3>1. mshr[b] = <<>>
      BY <1>1, <2>3 DEF Entries
    <3> QED
      BY <1>13, <2>3, <3>1
  <2> QED
    BY <1>12, <2>1, <2>2, <2>3
<1>18. AnsweredOnce'
  <2>1. SUFFICES ASSUME NEW c \in ToSet(m_current_response)
                 PROVE  /\ mshr'[c] # <<>>
                        /\ \A x \in ToSet(mshr'[c]) : x \notin m_extra_mf_fields'
    BY <1>2 DEF AnsweredOnce, CacheInv
  <2>2. /\ c \in Block
        /\ mshr[c] # <<>>
        /\ \A x \in ToSet(mshr[c]) : x \notin m_extra_mf_fields
    BY <1>3, QueueElements DEF CacheInv, AnsweredOnce
  <2>3. c = b => b \in Entries
    BY <2>2 DEF Entries
  <2>4. \A x \in ToSet(mshr[c]) : x \in Req /\ BlockOf[x] = c
    BY <1>3, <2>2, QueueElements DEF CacheInv, MergedOnce
  <2>5. CASE c = b
    BY <1>6, <1>12, <1>13, <2>2, <2>3, <2>4, <2>5
  <2>6. CASE c # b
    BY <1>12, <1>13, <2>2, <2>4, <2>6
  <2> QED
    BY <2>5, <2>6
<1>19. SentOnce'
  BY <1>9, <1>11, <1>12 DEF CacheInv, SentOnce
<1> QED
  BY <1>10, <1>11, <1>12, <1>14, <1>15, <1>16, <1>17, <1>18, <1>19 DEF CacheInv

\* A fill ends the wait of the read that was sent below, and its entry will be
\* answered.
LEMMA FillKeeps ==
    ASSUME CacheInv, NEW r \in m_extra_mf_fields, r \notin ToSet(m_miss_queue),
           fill(r)
    PROVE  CacheInv'
<1> DEFINE b == BlockOf[r]
<1>1. r \in Req /\ Waiting(r) /\ b \in Block
  BY FetchWaits, CacheAssumption
<1>2. /\ m_current_response' = Append(m_current_response, b)
      /\ m_extra_mf_fields' = m_extra_mf_fields \ {r}
      /\ UNCHANGED <<mshr, m_miss_queue, m_data_port_occupied_cycles>>
  BY DEF fill
<1>3. /\ mshr \in [Block -> Seq(Req)]
      /\ m_current_response \in Seq(Block)
      /\ m_extra_mf_fields \subseteq Req
  BY DEF CacheInv, CacheTypeOK
<1>4. b \notin ToSet(m_current_response)
  BY <1>1 DEF CacheInv, AnsweredOnce, Waiting
<1>5. /\ m_current_response' \in Seq(Block)
      /\ Once(m_current_response', Block)
      /\ ToSet(m_current_response') = ToSet(m_current_response) \cup {b}
  BY <1>1, <1>2, <1>3, <1>4, AppendQueue, AppendOnce DEF CacheInv, AnsweredOnce
<1>6. line' \in [Block -> Status]
  BY <1>1 DEF fill, CacheInv, CacheTypeOK, Status
<1>7. CacheTypeOK'
  BY <1>2, <1>5, <1>6 DEF CacheInv, CacheTypeOK
<1>8. \A x \in ToSet(mshr[b]) : x # r => x \notin m_extra_mf_fields
  BY <1>1 DEF CacheInv, MergedOnce, FetchIsFirst
<1>9. AnsweredOnce'
  <2>1. mshr[b] # <<>>
    BY DEF CacheInv, FetchIsFirst
  <2> QED
    BY <1>2, <1>5, <1>8, <2>1 DEF CacheInv, AnsweredOnce
<1>10. SentOnce'
  BY <1>2 DEF CacheInv, SentOnce
<1> QED
  BY <1>2, <1>7, <1>9, <1>10 DEF CacheInv, MergedOnce, FetchIsFirst

\* An answer takes one read out of the table; it waited for no fill.
LEMMA NextKeeps ==
    ASSUME CacheInv, access_ready, next_access
    PROVE  /\ CacheInv'
           /\ next_read \in Req
           /\ Waiting(next_read)
           /\ next_read \notin m_extra_mf_fields
           /\ \A x \in Req : Waiting(x)' <=> Waiting(x) /\ x # next_read
           /\ UNCHANGED <<m_extra_mf_fields, m_miss_queue>>
<1> DEFINE b == Head(m_current_response)
           r == next_read
<1>1. /\ m_current_response \in Seq(Block)
      /\ m_current_response # <<>>
      /\ mshr \in [Block -> Seq(Req)]
  BY DEF CacheInv, CacheTypeOK, access_ready
<1>2. /\ b \in Block
      /\ b \in ToSet(m_current_response)
      /\ mshr[b] \in Seq(Req)
      /\ mshr[b] # <<>>
      /\ \A x \in ToSet(mshr[b]) : x \notin m_extra_mf_fields /\ BlockOf[x] = b
      /\ Once(mshr[b], Req)
  BY <1>1, TailQueue, TailOnce DEF CacheInv, AnsweredOnce, MergedOnce
<1>3. r = Head(mshr[b])
  BY DEF next_read
<1>4. /\ r \in Req /\ r \in ToSet(mshr[b]) /\ BlockOf[r] = b
      /\ r \notin m_extra_mf_fields
  BY <1>2, <1>3, TailQueue, TailOnce
<1>5. /\ mshr' = [mshr EXCEPT ![b] = Tail(mshr[b])]
      /\ m_current_response' = IF Tail(mshr[b]) = <<>> THEN Tail(m_current_response)
                               ELSE m_current_response
      /\ UNCHANGED <<line, m_extra_mf_fields, m_miss_queue,
                     m_data_port_occupied_cycles>>
  BY DEF next_access, Remaining
<1>6. /\ mshr' \in [Block -> Seq(Req)]
      /\ mshr'[b] = Tail(mshr[b])
      /\ \A c \in Block : c # b => mshr'[c] = mshr[c]
  BY <1>1, <1>2, <1>5, TailQueue, TailOnce
<1>7. /\ Once(mshr'[b], Req)
      /\ ToSet(mshr'[b]) = ToSet(mshr[b]) \ {r}
  BY <1>2, <1>3, <1>4, <1>6, TailQueue, TailOnce
<1>8. \A x \in Req : Waiting(x)' <=> Waiting(x) /\ x # r
  <2>1. SUFFICES ASSUME NEW x \in Req
                 PROVE  x \in ToSet(mshr'[BlockOf[x]])
                           <=> x \in ToSet(mshr[BlockOf[x]]) /\ x # r
    BY DEF Waiting
  <2>2. BlockOf[x] \in Block
    BY CacheAssumption
  <2> QED
    BY <1>4, <1>6, <1>7, <2>2
<1>9. /\ m_current_response' \in Seq(Block)
      /\ Once(m_current_response', Block)
      /\ ToSet(m_current_response') \subseteq ToSet(m_current_response)
      /\ Tail(mshr[b]) = <<>> => b \notin ToSet(m_current_response')
  BY <1>1, <1>2, <1>5, TailQueue, TailOnce DEF CacheInv, AnsweredOnce
<1>10. CacheTypeOK'
  BY <1>5, <1>6, <1>9 DEF CacheInv, CacheTypeOK
<1>11. MergedOnce'
  BY <1>2, <1>6, <1>7 DEF CacheInv, MergedOnce
<1>12. FetchIsFirst'
  <2> SUFFICES ASSUME NEW x \in m_extra_mf_fields
               PROVE  mshr'[BlockOf[x]] # <<>> /\ Head(mshr'[BlockOf[x]]) = x
    BY <1>5 DEF FetchIsFirst
  <2>1. x \in Req /\ Waiting(x) /\ BlockOf[x] \in Block
    BY FetchWaits, CacheAssumption
  <2>2. BlockOf[x] # b
    BY <1>2, <2>1 DEF Waiting
  <2> QED
    BY <1>6, <2>1, <2>2 DEF CacheInv, FetchIsFirst
<1>13. AnsweredOnce'
  <2> SUFFICES ASSUME NEW c \in ToSet(m_current_response')
               PROVE  /\ mshr'[c] # <<>>
                      /\ \A x \in ToSet(mshr'[c]) : x \notin m_extra_mf_fields
    BY <1>5, <1>9 DEF AnsweredOnce
  <2>1. /\ c \in Block
        /\ mshr[c] # <<>>
        /\ \A x \in ToSet(mshr[c]) : x \notin m_extra_mf_fields
    BY <1>1, <1>9, QueueElements DEF CacheInv, AnsweredOnce
  <2> QED
    BY <1>6, <1>7, <1>9, <2>1
<1>14. SentOnce'
  BY <1>5 DEF CacheInv, SentOnce
<1> QED
  BY <1>4, <1>5, <1>8, <1>10, <1>11, <1>12, <1>13, <1>14 DEF CacheInv, Waiting

\* A cycle hands the head of the miss queue to the level below.
LEMMA CycleKeeps ==
    ASSUME CacheInv, NEW taken \in BOOLEAN, taken => m_miss_queue # <<>>,
           cache_cycle(taken)
    PROVE  /\ CacheInv'
           /\ taken => /\ Head(m_miss_queue) \in Req \cup Writebacks
                       /\ Head(m_miss_queue) \in ToSet(m_miss_queue)
           /\ \A x \in Req : x \in ToSet(m_miss_queue')
                                <=> /\ x \in ToSet(m_miss_queue)
                                    /\ ~(taken /\ x = Head(m_miss_queue))
           /\ UNCHANGED <<mshr, m_extra_mf_fields>>
<1>1. /\ m_miss_queue \in Seq(Req \cup Writebacks)
      /\ Once(m_miss_queue, Req)
      /\ m_data_port_occupied_cycles \in Nat
  BY DEF CacheInv, CacheTypeOK, SentOnce
<1>2. /\ m_miss_queue' = IF taken THEN Tail(m_miss_queue) ELSE m_miss_queue
      /\ UNCHANGED <<line, mshr, m_current_response, m_extra_mf_fields>>
  BY DEF cache_cycle
<1>3. m_data_port_occupied_cycles' \in Nat
  BY <1>1 DEF cache_cycle, PortAfterCycle, data_port_free
<1>4. /\ m_miss_queue' \in Seq(Req \cup Writebacks)
      /\ Once(m_miss_queue', Req)
      /\ ToSet(m_miss_queue') \subseteq ToSet(m_miss_queue)
      /\ taken => /\ Head(m_miss_queue) \in Req \cup Writebacks
                  /\ Head(m_miss_queue) \in ToSet(m_miss_queue)
      /\ \A x \in Req : x \in ToSet(m_miss_queue')
                                <=> /\ x \in ToSet(m_miss_queue)
                                    /\ ~(taken /\ x = Head(m_miss_queue))
  <2>1. CASE taken
    <3>1. m_miss_queue # <<>> /\ m_miss_queue' = Tail(m_miss_queue)
      BY <1>2, <2>1
    <3>2. ASSUME NEW x \in Req
          PROVE  x \in ToSet(m_miss_queue')
                    <=> x \in ToSet(m_miss_queue) /\ x # Head(m_miss_queue)
      <4>1. /\ ToSet(m_miss_queue)
                 = ToSet(Tail(m_miss_queue)) \cup {Head(m_miss_queue)}
            /\ Head(m_miss_queue) \in Req
                 => Head(m_miss_queue) \notin ToSet(Tail(m_miss_queue))
        BY <1>1, <3>1, TailQueue, TailOnce
      <4> QED
        BY <3>1, <4>1
    <3> QED
      BY <1>1, <2>1, <3>1, <3>2, TailQueue, TailOnce
  <2>2. CASE ~taken
    BY <1>1, <1>2, <2>2
  <2> QED
    BY <2>1, <2>2
<1> QED
  BY <1>2, <1>3, <1>4 DEF CacheInv, CacheTypeOK, MergedOnce, FetchIsFirst,
                          AnsweredOnce, SentOnce

-----------------------------------------------------------------------------
(* Capacities *)

\* The line of a block that a read fetches waits for the fill.
FetchIsReserved == \A r \in m_extra_mf_fields : line[BlockOf[r]] = "RESERVED"

\* What mshr_table and tag_array assert, with what keeps it.
CacheBounds == /\ IsFiniteSet(Cached) /\ Cardinality(Cached) <= Ways
               /\ IsFiniteSet(Entries) /\ Cardinality(Entries) <= MshrEntries
               /\ \A b \in Block : Len(mshr[b]) <= MaxMerged
               /\ Len(m_miss_queue) <= MissQueueSize
               /\ FetchIsReserved

\* The empty cache has room.
LEMMA BoundsInit == CacheInit => CacheBounds
<1> SUFFICES ASSUME CacheInit PROVE CacheBounds
  OBVIOUS
<1>1. Cached = {} /\ Entries = {}
  BY DEF CacheInit, Cached, Entries
<1>2. /\ \A b \in Block : Len(mshr[b]) <= MaxMerged
      /\ Len(m_miss_queue) <= MissQueueSize
  BY EmptyQueue, CacheAssumption DEF CacheInit
<1>3. FetchIsReserved
  BY DEF CacheInit, FetchIsReserved
<1> QED
  BY <1>1, <1>2, <1>3, FS_EmptySet, CacheAssumption DEF CacheBounds

\* A hit on a line leaves it in the set.
LEMMA HitBounds ==
    ASSUME CacheInv, CacheBounds, NEW r \in Req, access_outcome(r) = "HIT",
           rd_hit_base(r)
    PROVE  CacheBounds'
<1> DEFINE b == BlockOf[r]
<1>1. b \in Block /\ line \in [Block -> Status]
  BY CacheAssumption DEF CacheInv, CacheTypeOK
<1>2. line[b] # "INVALID" /\ line[b] # "RESERVED"
  BY <1>1 DEF access_outcome, probe, CacheInv, CacheTypeOK, Status
<1>3. UNCHANGED <<mshr, m_extra_mf_fields, m_miss_queue>>
  BY DEF rd_hit_base
<1>4. \A c \in Block : \/ line'[c] = line[c]
                       \/ c = b /\ line'[c] = "MODIFIED"
  BY <1>1 DEF rd_hit_base
<1>5. Cached' = Cached
  BY <1>2, <1>4 DEF Cached
<1>6. Entries' = Entries
  BY <1>3 DEF Entries
<1>7. \A x \in m_extra_mf_fields : BlockOf[x] \in Block
  BY CacheAssumption DEF CacheInv, CacheTypeOK
<1>8. FetchIsReserved'
  BY <1>2, <1>3, <1>4, <1>7 DEF FetchIsReserved, CacheBounds
<1> QED
  BY <1>3, <1>5, <1>6, <1>8 DEF CacheBounds

\* A miss that is not refused finds room in the set, in the table and in the
\* miss queue.
LEMMA MissBounds ==
    ASSUME CacheInv, CacheBounds, NEW r \in Req, ~Waiting(r),
           access_outcome(r) = "MISS", rd_miss_base(r)
    PROVE  CacheBounds'
<1> DEFINE b == BlockOf[r]
<1>1. /\ b \in Block
      /\ line \in [Block -> Status]
      /\ mshr \in [Block -> Seq(Req)]
      /\ m_miss_queue \in Seq(Req \cup Writebacks)
      /\ m_extra_mf_fields \subseteq Req
  BY CacheAssumption DEF CacheInv, CacheTypeOK
<1>2. PICK gone \in Victims(b) :
        /\ line' = Allocate(b, gone)
        /\ mshr' = [mshr EXCEPT ![b] = Append(@, r)]
        /\ m_extra_mf_fields' = m_extra_mf_fields \cup ToSet(SentBelow(r))
  BY DEF rd_miss_base
<1>3. /\ line[b] \in {"RESERVED", "INVALID"}
      /\ ~mshr_full(b)
      /\ ~miss_queue_full
  BY <1>1 DEF access_outcome, probe, Status
<1>4. /\ Ways \in Nat /\ MshrEntries \in Nat /\ MaxMerged \in Nat \ {0}
      /\ MissQueueSize \in Nat
      /\ Cardinality(Cached) \in Nat /\ Cardinality(Entries) \in Nat
  BY CacheAssumption, FS_CardinalityType DEF CacheBounds
<1>5. /\ mshr'[b] = Append(mshr[b], r)
      /\ \A c \in Block : c # b => mshr'[c] = mshr[c]
      /\ mshr[b] \in Seq(Req)
  BY <1>1, <1>2
<1>6. mshr'[b] # <<>> /\ Len(mshr'[b]) = Len(mshr[b]) + 1 /\ Len(mshr[b]) \in Nat
  BY <1>5, AppendQueue, QueueElements
<1>7. Len(m_miss_queue') <= MissQueueSize
  <2>1. Len(m_miss_queue') <= Len(m_miss_queue) + 2
    BY MissKeeps
  <2>2. Len(m_miss_queue) \in Nat
    BY <1>1, QueueElements
  <2>3. m_miss_queue' \in Seq(Req \cup Writebacks)
    BY MissKeeps DEF CacheInv, CacheTypeOK
  <2>4. Len(m_miss_queue') \in Nat
    BY <2>3, QueueElements
  <2> QED
    BY <1>3, <1>4, <2>1, <2>2, <2>4 DEF miss_queue_full
<1>8. Entries' = Entries \cup {b}
  BY <1>1, <1>5, <1>6 DEF Entries
<1>9. /\ IsFiniteSet(Entries') /\ Cardinality(Entries') <= MshrEntries
      /\ \A c \in Block : Len(mshr'[c]) <= MaxMerged
  <2>1. CASE b \in Entries
    <3>1. Entries' = Entries
      BY <1>8, <2>1
    <3>2. Len(mshr[b]) < MaxMerged
      BY <1>3, <1>4, <1>6, <2>1 DEF mshr_full
    <3> QED
      BY <1>4, <1>5, <1>6, <3>1, <3>2 DEF CacheBounds
  <2>2. CASE b \notin Entries
    <3>1. /\ IsFiniteSet(Entries')
          /\ Cardinality(Entries') = Cardinality(Entries) + 1
      BY <1>8, <2>2, FS_AddElement DEF CacheBounds
    <3>2. Cardinality(Entries) < MshrEntries
      BY <1>3, <1>4, <2>2 DEF mshr_full
    <3>3. Len(mshr[b]) = 0
      BY <1>1, <2>2, EmptyQueue DEF Entries
    <3> QED
      BY <1>4, <1>5, <1>6, <3>1, <3>2, <3>3 DEF CacheBounds
  <2> QED
    BY <2>1, <2>2
<1>10. CASE gone = {}
  <2>1. \A c \in Block : line'[c] = IF c = b THEN "RESERVED" ELSE line[c]
    BY <1>2, <1>10 DEF Allocate
  <2>2. Cached' = Cached \cup {b}
    BY <1>1, <2>1 DEF Cached
  <2>3. line[b] # "INVALID" \/ Cardinality(Cached) < Ways
    BY <1>2, <1>10 DEF Victims
  <2>4. IsFiniteSet(Cached') /\ Cardinality(Cached') <= Ways
    <3>1. IsFiniteSet(Cached)
      BY DEF CacheBounds
    <3>2. /\ IsFiniteSet(Cached \cup {b})
          /\ Cardinality(Cached \cup {b})
                = IF b \in Cached THEN Cardinality(Cached) ELSE Cardinality(Cached) + 1
      BY <3>1, FS_AddElement
    <3>3. line[b] # "INVALID" => b \in Cached
      BY <1>1 DEF Cached
    <3>4. Cardinality(Cached) <= Ways
      BY DEF CacheBounds
    <3> HIDE DEF b
    <3> QED
      BY <1>4, <2>2, <2>3, <3>2, <3>3, <3>4
  <2>5. FetchIsReserved'
    <3> SUFFICES ASSUME NEW x \in m_extra_mf_fields' PROVE line'[BlockOf[x]] = "RESERVED"
      BY DEF FetchIsReserved
    <3>1. x \in m_extra_mf_fields \/ x = r
      BY <1>2, EmptyQueue, SingleQueue DEF SentBelow
    <3> QED
      BY <1>1, <2>1, <3>1, CacheAssumption DEF FetchIsReserved, CacheBounds
  <2> QED
    BY <1>7, <1>9, <2>4, <2>5 DEF CacheBounds
<1>11. CASE gone # {}
  <2>1. PICK v \in Replaceable : gone = {v}
    BY <1>2, <1>11 DEF Victims
  <2>2. line[b] = "INVALID" /\ v \in Cached /\ line[v] # "RESERVED" /\ v # b
    BY <1>2, <1>11, <2>1 DEF Victims, Replaceable, Cached
  <2>3. \A c \in Block : line'[c] = IF c = v THEN "INVALID"
                                   ELSE IF c = b THEN "RESERVED" ELSE line[c]
    BY <1>2, <2>1 DEF Allocate
  <2>4. Cached' = (Cached \ {v}) \cup {b}
    BY <1>1, <2>2, <2>3 DEF Cached
  <2>5. b \notin Cached
    BY <2>2 DEF Cached
  <2>6. /\ IsFiniteSet(Cached \ {v})
        /\ Cardinality(Cached \ {v}) = Cardinality(Cached) - 1
    BY <2>2, FS_RemoveElement DEF CacheBounds
  <2>7. /\ IsFiniteSet(Cached')
        /\ Cardinality(Cached') = Cardinality(Cached \ {v}) + 1
    BY <2>4, <2>5, <2>6, FS_AddElement
  <2>8. FetchIsReserved'
    <3> SUFFICES ASSUME NEW x \in m_extra_mf_fields' PROVE line'[BlockOf[x]] = "RESERVED"
      BY DEF FetchIsReserved
    <3>1. x \in m_extra_mf_fields \/ x = r
      BY <1>2, EmptyQueue, SingleQueue DEF SentBelow
    <3> QED
      BY <1>1, <2>2, <2>3, <3>1, CacheAssumption DEF FetchIsReserved, CacheBounds
  <2> QED
    BY <1>4, <1>7, <1>9, <2>6, <2>7, <2>8 DEF CacheBounds
<1> QED
  BY <1>10, <1>11

\* A fill turns a reserved line into a valid one.
LEMMA FillBounds ==
    ASSUME CacheInv, CacheBounds, NEW r \in m_extra_mf_fields, fill(r)
    PROVE  CacheBounds'
<1> DEFINE b == BlockOf[r]
<1>1. b \in Block /\ line \in [Block -> Status] /\ r \in Req
  BY CacheAssumption DEF CacheInv, CacheTypeOK
<1>2. line[b] = "RESERVED"
  BY DEF CacheBounds, FetchIsReserved
<1>3. /\ UNCHANGED <<mshr, m_miss_queue>>
      /\ m_extra_mf_fields' = m_extra_mf_fields \ {r}
      /\ \A c \in Block : c # b => line'[c] = line[c]
      /\ line'[b] \in {"VALID", "MODIFIED"}
  BY <1>1 DEF fill
<1>4. Cached' = Cached
  BY <1>1, <1>2, <1>3 DEF Cached
<1>5. Entries' = Entries
  BY <1>3 DEF Entries
<1>6. ASSUME NEW x \in m_extra_mf_fields, x # r
      PROVE  BlockOf[x] # b /\ BlockOf[x] \in Block
  BY <1>1, <1>6, CacheAssumption DEF CacheInv, CacheTypeOK, FetchIsFirst
<1>7. FetchIsReserved'
  BY <1>3, <1>6 DEF FetchIsReserved, CacheBounds
<1> QED
  BY <1>3, <1>4, <1>5, <1>7 DEF CacheBounds

\* Answering a read shortens its entry.
LEMMA NextBounds ==
    ASSUME CacheInv, CacheBounds, access_ready, next_access
    PROVE  CacheBounds'
<1> DEFINE b == Head(m_current_response)
<1>1. /\ mshr' = [mshr EXCEPT ![b] = Tail(mshr[b])]
      /\ UNCHANGED <<line, m_extra_mf_fields, m_miss_queue>>
  BY DEF next_access, Remaining
<1>2. m_current_response \in Seq(Block) /\ m_current_response # <<>>
  BY DEF CacheInv, CacheTypeOK, access_ready
<1>3. b \in Block /\ b \in ToSet(m_current_response)
  BY <1>2, TailQueue
<1>4. mshr \in [Block -> Seq(Req)] /\ mshr[b] \in Seq(Req) /\ mshr[b] # <<>>
  BY <1>3 DEF CacheInv, CacheTypeOK, AnsweredOnce
<1> HIDE DEF b
<1>5. /\ Len(Tail(mshr[b])) = Len(mshr[b]) - 1 /\ Len(mshr[b]) \in Nat
  BY <1>4, TailQueue, QueueElements
<1>6. /\ mshr'[b] = Tail(mshr[b])
      /\ \A c \in Block : c # b => mshr'[c] = mshr[c]
  BY <1>1, <1>3, <1>4
<1>7. ASSUME NEW c \in Block PROVE Len(mshr'[c]) <= MaxMerged
  <2>1. MaxMerged \in Nat
    BY CacheAssumption
  <2>2. Len(mshr[c]) <= MaxMerged
    BY DEF CacheBounds
  <2>3. CASE c = b
    <3> DEFINE n == Len(mshr[b])
    <3>1. Len(mshr'[c]) = n - 1 /\ n \in Nat /\ n <= MaxMerged
      BY <1>5, <1>6, <2>2, <2>3
    <3> HIDE DEF n
    <3> QED
      BY <2>1, <3>1
  <2>4. CASE c # b
    BY <1>6, <2>2, <2>4
  <2> QED
    BY <2>3, <2>4
<1>8. Entries' \subseteq Entries
  BY <1>4, <1>6 DEF Entries
<1>9. IsFiniteSet(Entries') /\ Cardinality(Entries') <= Cardinality(Entries)
  BY <1>8, FS_Subset DEF CacheBounds
<1>10. Cardinality(Entries') <= MshrEntries
  BY <1>9, FS_CardinalityType, CacheAssumption DEF CacheBounds
<1>11. Cached' = Cached /\ FetchIsReserved'
  BY <1>1 DEF Cached, FetchIsReserved, CacheBounds
<1> QED
  BY <1>1, <1>7, <1>9, <1>10, <1>11 DEF CacheBounds

\* The lower level takes from the miss queue.
LEMMA CycleBounds ==
    ASSUME CacheInv, CacheBounds, NEW taken \in BOOLEAN,
           taken => m_miss_queue # <<>>, cache_cycle(taken)
    PROVE  CacheBounds'
<1>1. UNCHANGED <<line, mshr, m_extra_mf_fields>>
  BY DEF cache_cycle
<1>2. m_miss_queue \in Seq(Req \cup Writebacks)
  BY DEF CacheInv, CacheTypeOK
<1>3. Len(m_miss_queue) \in Nat
  BY <1>2, QueueElements
<1>4. taken => Len(Tail(m_miss_queue)) = Len(m_miss_queue) - 1
  BY <1>2, TailQueue
<1>5. Len(m_miss_queue') <= MissQueueSize
  BY <1>3, <1>4, CacheAssumption DEF cache_cycle, CacheBounds
<1> QED
  BY <1>1, <1>5 DEF CacheBounds, Cached, Entries, FetchIsReserved
=============================================================================
