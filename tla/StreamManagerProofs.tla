------------------------- MODULE StreamManagerProofs -------------------------
(***************************************************************************)
(* Proofs about the two threads, for every number of streams, events and   *)
(* operations.                                                             *)
(***************************************************************************)
EXTENDS StreamManager, QueueLemmas

-----------------------------------------------------------------------------
(* Lists *)

\* What the assumptions say of the constants.
LEMMA Constants ==
    /\ MaxOps \in Nat \ {0} /\ MaxStreams \in Nat \ {0} /\ LaunchLatency \in Nat
    /\ Zero \in Queue /\ Zero \notin Stream /\ NoStream \notin Queue
    /\ NoKernel \notin OpId /\ OpId \subseteq Nat /\ IsFiniteSet(OpId)
    /\ Stream \subseteq Queue
    /\ \A s \in Queue : s = Zero \/ s \in Stream
<1>1. IsFiniteSet(1 .. MaxOps)
  BY FS_Interval, StreamAssumption
<1> QED
  BY <1>1, StreamAssumption DEF Queue, Stream, Zero, NoStream, NoKernel, OpId

\* The elements of a list, by either name.
LEMMA RangeIsToSet ==
    ASSUME NEW s
    PROVE  Range(s) = ToSet(s)
BY DEF Range, ToSet

\* A list without the element at position i.
LEMMA RemoveAtQueue ==
    ASSUME NEW S, NEW s \in Seq(S), NEW i \in DOMAIN s
    PROVE  /\ RemoveAt(s, i) \in Seq(S)
           /\ Len(RemoveAt(s, i)) = Len(s) - 1
           /\ ToSet(RemoveAt(s, i)) \subseteq ToSet(s)
           /\ \A x \in ToSet(s) : x # s[i] => x \in ToSet(RemoveAt(s, i))
<1> DEFINE a == SubSeq(s, 1, i - 1)
           b == SubSeq(s, i + 1, Len(s))
<1>1. /\ DOMAIN s = 1 .. Len(s) /\ Len(s) \in Nat /\ i \in 1 .. Len(s)
      /\ \A j \in 1 .. Len(s) : s[j] \in S
  BY LenProperties, ElementOfSeq
<1>2. /\ a \in Seq(S) /\ Len(a) = i - 1
      /\ \A j \in 1 .. i - 1 : a[j] = s[j]
  <2>1. \A j \in 1 .. i - 1 : s[j] \in S
    BY <1>1
  <2>2. 1 \in Int /\ i - 1 \in Int
    BY <1>1
  <2>3. /\ a \in Seq(S)
        /\ Len(a) = IF 1 <= i - 1 THEN (i - 1) - 1 + 1 ELSE 0
        /\ \A j \in 1 .. (i - 1) - 1 + 1 : a[j] = s[1 + j - 1]
    BY <2>1, <2>2, SubSeqProperties
  <2> QED
    BY <1>1, <2>3
<1>3. /\ b \in Seq(S) /\ Len(b) = Len(s) - i
      /\ \A j \in 1 .. Len(s) - i : b[j] = s[i + j]
  <2>1. \A j \in i + 1 .. Len(s) : s[j] \in S
    BY <1>1
  <2>2. i + 1 \in Int /\ Len(s) \in Int
    BY <1>1
  <2>3. /\ b \in Seq(S)
        /\ Len(b) = IF i + 1 <= Len(s) THEN Len(s) - (i + 1) + 1 ELSE 0
        /\ \A j \in 1 .. Len(s) - (i + 1) + 1 : b[j] = s[(i + 1) + j - 1]
    BY <2>1, <2>2, SubSeqProperties
  <2> HIDE DEF b
  <2>4. ASSUME NEW j \in 1 .. Len(s) - i PROVE b[j] = s[i + j]
    <3>1. j \in 1 .. Len(s) - (i + 1) + 1 /\ (i + 1) + j - 1 = i + j
      BY <1>1
    <3> QED
      BY <2>3, <3>1
  <2> QED
    BY <1>1, <2>3, <2>4
<1> HIDE DEF a, b
<1>4. /\ a \o b \in Seq(S) /\ Len(a \o b) = Len(a) + Len(b)
      /\ ToSet(a \o b) = ToSet(a) \cup ToSet(b)
  BY <1>2, <1>3, ConcatQueue
<1>5. DOMAIN a = 1 .. i - 1 /\ DOMAIN b = 1 .. Len(s) - i
  BY <1>1, <1>2, <1>3, LenProperties
<1>6. ToSet(a) \subseteq ToSet(s)
  BY <1>1, <1>2, <1>5 DEF ToSet
<1>7. ToSet(b) \subseteq ToSet(s)
  <2>1. \A j \in 1 .. Len(s) - i : i + j \in DOMAIN s
    BY <1>1
  <2> QED
    BY <1>3, <1>5, <2>1 DEF ToSet
<1>8. ASSUME NEW x \in ToSet(s), x # s[i] PROVE x \in ToSet(a) \cup ToSet(b)
  <2>1. PICK j \in DOMAIN s : x = s[j]
    BY DEF ToSet
  <2>2. CASE j < i
    BY <1>1, <1>2, <1>5, <2>1, <2>2 DEF ToSet
  <2>3. CASE j > i
    <3>1. j - i \in DOMAIN b /\ b[j - i] = x
      BY <1>1, <1>3, <1>5, <2>1, <2>3
    <3> QED
      BY <3>1 DEF ToSet
  <2> QED
    BY <1>1, <1>8, <2>1, <2>2, <2>3
<1>9. RemoveAt(s, i) = a \o b
  BY DEF RemoveAt, a, b
<1>10. Len(a) + Len(b) = Len(s) - 1
  BY <1>1, <1>2, <1>3
<1> QED
  BY <1>4, <1>6, <1>7, <1>8, <1>9, <1>10

\* A list of the elements of a finite set has each of them, once.
LEMMA Listed ==
    ASSUME NEW F, IsFiniteSet(F), NEW order \in SetToSeqs(F)
    PROVE  /\ order \in Seq(F)
           /\ ToSet(order) = F
           /\ Once(order, F)
<1> DEFINE D == 1 .. Cardinality(F)
<1>1. Cardinality(F) \in Nat
  BY FS_CardinalityType
<1>2. /\ order \in [D -> F]
      /\ \A i, j \in D : i # j => order[i] # order[j]
  BY DEF SetToSeqs
<1>3. order \in Injection(D, F)
  BY <1>2 DEF Injection, IsInjective
<1>4. Cardinality(D) = Cardinality(F)
  BY <1>1, FS_Interval
<1>5. order \in Surjection(D, F)
  BY <1>3, <1>4, FS_Injection
<1>6. \A x \in F : \E i \in D : order[i] = x
  BY <1>5 DEF Surjection
<1>7. ToSet(order) = F
  BY <1>2, <1>6 DEF ToSet
<1>8. order \in Seq(F)
  BY <1>1, <1>2, SeqDef
<1> QED
  BY <1>2, <1>7, <1>8 DEF Once

\* A queue in which the numbers grow.
Sorted(q) == \A i, j \in DOMAIN q : i < j => q[i] < q[j]

\* The head of such a queue is its smallest number.
LEMMA SortedTail ==
    ASSUME NEW q \in Seq(OpId), q # <<>>, Sorted(q)
    PROVE  /\ Sorted(Tail(q))
           /\ Head(q) \notin ToSet(Tail(q))
           /\ \A x \in ToSet(q) : x = Head(q) \/ Head(q) < x
<1> DEFINE t == Tail(q)
<1>1. /\ Len(q) \in Nat \ {0} /\ DOMAIN q = 1 .. Len(q)
      /\ DOMAIN t = 1 .. Len(q) - 1
      /\ \A i \in 1 .. Len(q) - 1 : t[i] = q[i + 1]
      /\ Head(q) = q[1]
  BY EmptySeq, LenProperties, HeadTailProperties
<1> HIDE DEF t
<1>2. Sorted(t)
  <2>1. ASSUME NEW i \in DOMAIN t, NEW j \in DOMAIN t, i < j PROVE t[i] < t[j]
    <3>1. /\ i + 1 \in DOMAIN q /\ j + 1 \in DOMAIN q /\ i + 1 < j + 1
          /\ t[i] = q[i + 1] /\ t[j] = q[j + 1]
      BY <1>1, <2>1
    <3> QED
      BY <3>1 DEF Sorted
  <2> QED
    BY <2>1 DEF Sorted
<1>3. \A i \in 2 .. Len(q) : q[1] < q[i]
  BY <1>1 DEF Sorted
<1>4. q[1] \notin ToSet(t)
  <2>1. \A i \in DOMAIN t : i + 1 \in 2 .. Len(q) /\ t[i] = q[i + 1]
    BY <1>1
  <2>2. q[1] \in Nat
    <3>1. q[1] \in OpId
      BY <1>1, ElementOfSeq
    <3> QED
      BY <3>1, Constants
  <2>3. ASSUME NEW i \in DOMAIN t PROVE t[i] # q[1]
    <3>1. t[i] = q[i + 1] /\ q[1] < q[i + 1] /\ q[1] \in Nat
      BY <1>3, <2>1, <2>2
    <3> QED
      BY <3>1
  <2> QED
    BY <2>3 DEF ToSet
<1>5. \A x \in ToSet(q) : x = q[1] \/ q[1] < x
  BY <1>1, <1>3 DEF ToSet
<1> QED
  BY <1>1, <1>2, <1>4, <1>5 DEF t

\* It may grow by a larger number.
LEMMA SortedAppend ==
    ASSUME NEW q \in Seq(OpId), Sorted(q), NEW n, \A x \in ToSet(q) : x < n
    PROVE  Sorted(Append(q, n))
<1> DEFINE t == Append(q, n)
<1>1. /\ Len(q) \in Nat /\ DOMAIN q = 1 .. Len(q)
      /\ DOMAIN t = 1 .. Len(q) + 1
      /\ \A i \in 1 .. Len(q) : t[i] = q[i]
      /\ t[Len(q) + 1] = n
  BY LenProperties
<1> HIDE DEF t
<1>2. \A i \in 1 .. Len(q) : t[i] < n
  BY <1>1 DEF ToSet
<1>3. Sorted(t)
  BY <1>1, <1>2 DEF Sorted
<1> QED
  BY <1>3 DEF t

-----------------------------------------------------------------------------
(* The invariant.  Five parts: types; what the program counters of the two  *)
(* threads say of the flags; where an operation is; where a kernel is; what *)
(* the counts of an event stand for.                                        *)

HostPc == {"init", "ready", "push", "drain", "synchronize", "destroy",
           "destroying", "exit", "exited"}
SimPc == {"none", "spin", "start", "check", "operation", "gpu", "loop", "stop",
          "dead"}

TypeInv ==
    /\ m_cuda_launch_blocking \in BOOLEAN /\ g_ptx_sim_mode \in BOOLEAN
    /\ m_lock \in BOOLEAN /\ traffic \in BOOLEAN /\ max_hit \in BOOLEAN
    /\ g_sim_active \in BOOLEAN /\ g_sim_done \in BOOLEAN
    /\ break_limit \in BOOLEAN /\ check \in BOOLEAN
    /\ ops \in Seq(Operation) /\ calls \in Seq(Operation)
    /\ m_operations \in [Queue -> Seq(OpId)]
    /\ m_pending \in [Queue -> BOOLEAN]
    /\ m_streams \in Seq(Stream)
    /\ sm_next_stream_uid \in 1 .. MaxStreams + 1
    /\ ToSet(m_streams) \subseteq 1 .. sm_next_stream_uid - 1
    /\ m_last_stream \in 0 .. Len(m_streams)
    /\ m_grid_id_to_stream \in [OpId -> Queue \cup {NoStream}]
    /\ m_issued \in [Event -> 0 .. MaxOps] /\ m_updates \in [Event -> Nat]
    /\ m_running_kernels \in SUBSET OpId
    /\ m_finished_kernel \in Seq(OpId)
    /\ m_functional_sim_kernel \in OpId \cup {NoKernel}
    /\ done \in SUBSET OpId
    /\ sim_pc \in SimPc /\ host_pc \in HostPc
    /\ target \in Queue

\* The host's place says whether it has operations to push and holds m_lock,
\* the simulation thread's whether it is active, idle or ended.
ControlInv ==
    /\ host_pc = "init" => /\ sim_pc = "none" /\ g_sim_signal_exit = 0
                           /\ ~active
    /\ host_pc = "push" => calls # <<>>
    /\ calls # <<>> => host_pc \in {"push", "drain"}
    /\ m_lock <=> host_pc = "destroying"
    /\ g_sim_active <=> sim_pc \in {"check", "operation", "gpu", "loop", "stop"}
    /\ sim_pc = "none" => g_sim_done
    /\ g_sim_signal_exit \in {0, 1}
    /\ g_sim_signal_exit = 1 => sim_pc = "none"
    /\ sim_pc \in {"spin", "start"} => ~active
    /\ sim_pc = "stop" => ~active \/ g_sim_done
    /\ break_limit => g_sim_done /\ sim_pc \in {"loop", "stop", "dead"}

Waiting(s) == m_operations[s] # <<>>

\* The streams of pending calls and of waiting operations exist.
StreamsExist ==
    /\ \A i \in DOMAIN calls : calls[i].stream \in ToSet(m_streams) \cup {Zero}
    /\ \A s \in Queue : Waiting(s) => s \in ToSet(m_streams) \cup {Zero}

\* An operation is done or in the queue of its stream, never both.
InOwnQueue ==
    /\ done \subseteq DOMAIN ops
    /\ \A s \in Queue : \A i \in ToSet(m_operations[s]) :
          i \in DOMAIN ops /\ ops[i].stream = s /\ i \notin done
    /\ \A i \in DOMAIN ops :
          i \in done \/ i \in ToSet(m_operations[ops[i].stream])

\* The queues are in the order of issue; what is done of a stream is a prefix.
InOrder ==
    /\ \A s \in Queue : Sorted(m_operations[s])
    /\ \A i, j \in DOMAIN ops :
          i < j /\ ops[i].stream = ops[j].stream /\ j \in done => i \in done

\* While stream zero has work the host waits, and nothing else has.
Barrier == Waiting(Zero) => /\ host_pc = "drain"
                            /\ \A s \in Stream : ~Waiting(s)

QueueInv == /\ Len(ops) + Len(calls) <= MaxOps
            /\ StreamsExist /\ InOwnQueue /\ InOrder /\ Barrier

\* A kernel is in one place on the GPU and at the head of its stream.
Mapped ==
    /\ \A k \in OpId : k \in OnGpu <=> m_grid_id_to_stream[k] # NoStream
    /\ \A k \in OnGpu : LET s == m_grid_id_to_stream[k]
                        IN  /\ m_pending[s]
                            /\ Waiting(s)
                            /\ Head(m_operations[s]) = k
                            /\ ops[k].kind = "kernel"
    /\ \A s \in Queue : m_pending[s] =>
          \E k \in OnGpu : m_grid_id_to_stream[k] = s

OnePlace ==
    /\ Once(m_finished_kernel, OpId)
    /\ m_running_kernels \cap ToSet(m_finished_kernel) = {}
    /\ m_functional_sim_kernel \notin m_running_kernels
                                      \cup ToSet(m_finished_kernel)

\* The two ways to run a kernel are never mixed.
ModeInv ==
    /\ m_functional_sim_kernel # NoKernel => g_ptx_sim_mode /\ sim_pc = "gpu"
    /\ g_ptx_sim_mode => /\ m_running_kernels = {}
                         /\ m_finished_kernel = <<>>
                         /\ ~check

KernelInv == /\ ~break_limit => Mapped /\ OnePlace
             /\ ModeInv

\* The records of an event among these operations.
Rec(list, e) ==
    {i \in DOMAIN list : list[i].kind = "event" /\ list[i].event = e}

\* The host is about to push a record of e.
Recording(e) ==
    \E i \in DOMAIN calls : calls[i].kind = "event" /\ calls[i].event = e

\* The fields of an operation that name an event.
EventFields(op) ==
    /\ op.kind \in {"event", "wait_event"} => op.event \in Event
    /\ op.kind # "wait_event" => op.awaits = {}

\* Updates count the records that are done; the number of records issued counts
\* the accepted ones and the one to be pushed, until a limit makes push ignore
\* what it is given.
CountsInv ==
    /\ \A e \in Event : m_updates[e] = Cardinality(Rec(ops, e) \cap done)
    /\ ~max_hit => \A e \in Event :
          m_issued[e] = Cardinality(Rec(ops, e)) + IF Recording(e) THEN 1 ELSE 0

\* A wait has the number of the records that were accepted before it.
WaitsInv ==
    /\ ~max_hit => \A i \in DOMAIN calls : calls[i].kind = "wait_event" =>
          /\ calls[i].cnt = Cardinality(Rec(ops, calls[i].event))
          /\ calls[i].awaits \subseteq Rec(ops, calls[i].event)
    /\ \A i \in DOMAIN ops : ops[i].kind = "wait_event" =>
          /\ ops[i].cnt = Cardinality(Rec(ops, ops[i].event) \cap (1 .. i - 1))
          /\ ops[i].awaits \subseteq Rec(ops, ops[i].event) \cap (1 .. i - 1)

FieldsInv ==
    /\ \A i \in DOMAIN calls : /\ EventFields(calls[i])
                               /\ calls[i].kind = "event" =>
                                     /\ Len(calls) = 1
                                     /\ calls[i].stream \in Uses["event"]
    /\ \A i \in DOMAIN ops : /\ EventFields(ops[i])
                             /\ ops[i].kind = "event" =>
                                   ops[i].stream \in IF m_cuda_launch_blocking
                                                     THEN {Zero}
                                                     ELSE Uses["event"]

EventInv == CountsInv /\ WaitsInv /\ FieldsInv

SMInv == TypeInv /\ ControlInv /\ QueueInv /\ KernelInv /\ EventInv
-----------------------------------------------------------------------------
(* What front() finds, and what finishing operations does *)

\* The scan visits positions of m_streams.
LEMMA ScanPositions ==
    ASSUME TypeInv
    PROVE  /\ Len(m_streams) \in Nat /\ DOMAIN m_streams = 1 .. Len(m_streams)
           /\ DOMAIN Scan = 1 .. Len(m_streams)
           /\ \A i \in DOMAIN Scan : Scan[i] \in 1 .. Len(m_streams)
<1> DEFINE n == Len(m_streams)
<1>1. n \in Nat /\ DOMAIN m_streams = 1 .. n
  BY LenProperties DEF TypeInv
<1>2. m_last_stream \in Nat
  BY <1>1 DEF TypeInv
<1>3. Scan = [i \in 1 .. n |-> ((m_last_stream + i - 1) % n) + 1]
  BY DEF Scan
<1> HIDE DEF n
<1>4. ASSUME NEW i \in 1 .. n PROVE ((m_last_stream + i - 1) % n) + 1 \in 1 .. n
  BY <1>1, <1>2
<1> QED
  BY <1>1, <1>3, <1>4 DEF n

\* If the scan finds a stream it finds a first one.
LEMMA FirstIsFound ==
    ASSUME TypeInv, Found # {}
    PROVE  FirstFound \in Found
<1>1. Found \in SUBSET Nat
  BY ScanPositions DEF Found
<1>2. \E i \in Found : \A j \in Found : i <= j
  BY <1>1, FirstPosition
<1> QED
  BY <1>2 DEF FirstFound

\* The stream that front() takes an operation from has one that is not started.
LEMMA FrontIsStartable ==
    ASSUME TypeInv, NEW s \in front
    PROVE  /\ s \in Queue /\ Waiting(s) /\ ~m_pending[s]
           /\ s \in ToSet(m_streams) \cup {Zero}
<1>1. CASE Startable(Zero)
  <2>1. s = Zero
    BY <1>1 DEF front
  <2> QED
    BY <1>1, <2>1, Constants DEF Startable, Waiting
<1>2. CASE ~Startable(Zero) /\ Found # {}
  <2>1. s = m_streams[Scan[FirstFound]]
    BY <1>2 DEF front
  <2>2. FirstFound \in DOMAIN Scan /\ Startable(m_streams[Scan[FirstFound]])
    BY <1>2, FirstIsFound DEF Found
  <2>3. Scan[FirstFound] \in DOMAIN m_streams
    BY <2>2, ScanPositions
  <2>4. s \in ToSet(m_streams)
    BY <2>1, <2>3 DEF ToSet
  <2>5. s \in Stream
    BY <2>4, QueueElements DEF TypeInv
  <2> QED
    BY <2>1, <2>2, <2>4, <2>5, Constants DEF Startable, Waiting
<1>3. CASE ~Startable(Zero) /\ Found = {}
  BY <1>3 DEF front
<1> QED
  BY <1>1, <1>2, <1>3

\* front() leaves the iterator in the list.
LEMMA ScanEndsInList ==
    ASSUME TypeInv
    PROVE  ScanEnd \in 0 .. Len(m_streams)
<1>1. CASE Startable(Zero) \/ m_streams = <<>>
  <2>1. m_streams = <<>> => Found = {}
    <3>1. m_streams = <<>> => DOMAIN Scan = {}
      BY ScanPositions
    <3> QED
      BY <3>1 DEF Found
  <2>2. ScanEnd = m_last_stream
    BY <1>1, <2>1 DEF ScanEnd
  <2> QED
    BY <2>2 DEF TypeInv
<1>2. CASE ~Startable(Zero) /\ Found # {} /\ m_streams # <<>>
  <2>1. ScanEnd = Scan[FirstFound]
    BY <1>2 DEF ScanEnd
  <2>2. FirstFound \in DOMAIN Scan
    BY <1>2, FirstIsFound DEF Found
  <2> QED
    BY <2>1, <2>2, ScanPositions
<1>3. CASE ~Startable(Zero) /\ Found = {} /\ m_streams # <<>>
  <2>1. ScanEnd = Scan[Len(m_streams)]
    BY <1>3 DEF ScanEnd
  <2>2. Len(m_streams) > 0
    BY <1>3, QueueElements DEF TypeInv
  <2> QED
    BY <2>1, <2>2, ScanPositions
<1> QED
  BY <1>1, <1>2, <1>3

\* Finish takes the head off the queues of these streams, and keeps the rest.
LEMMA Finished ==
    ASSUME TypeInv, NEW ss \in SUBSET Queue, \A s \in ss : Waiting(s), Finish(ss)
    PROVE  /\ m_operations' \in [Queue -> Seq(OpId)]
           /\ m_pending' \in [Queue -> BOOLEAN]
           /\ done' \in SUBSET OpId
           /\ \A s \in ss : /\ m_operations'[s] = Tail(m_operations[s])
                            /\ m_operations[s] \in Seq(OpId)
                            /\ Head(m_operations[s]) \in OpId
                            /\ ToSet(m_operations[s]) = ToSet(m_operations'[s])
                                            \cup {Head(m_operations[s])}
                            /\ ~m_pending'[s]
           /\ \A s \in Queue \ ss : /\ m_operations'[s] = m_operations[s]
                                    /\ m_pending'[s] = m_pending[s]
           /\ \A i : i \in done' <=> \/ i \in done
                                     \/ \E s \in ss : i = Head(m_operations[s])
<1>1. /\ m_operations' = [s \in Queue |-> IF s \in ss THEN Tail(m_operations[s])
                                          ELSE m_operations[s]]
      /\ m_pending' = [s \in Queue |-> m_pending[s] /\ s \notin ss]
      /\ done' = done \cup {Head(m_operations[s]) : s \in ss}
  BY DEF Finish
<1>2. /\ m_operations \in [Queue -> Seq(OpId)]
      /\ m_pending \in [Queue -> BOOLEAN]
      /\ done \in SUBSET OpId
  BY DEF TypeInv
<1>3. ASSUME NEW s \in ss
      PROVE  /\ m_operations[s] \in Seq(OpId)
             /\ Tail(m_operations[s]) \in Seq(OpId)
             /\ Head(m_operations[s]) \in OpId
             /\ ToSet(m_operations[s]) = ToSet(Tail(m_operations[s]))
                                         \cup {Head(m_operations[s])}
  <2>1. m_operations[s] \in Seq(OpId) /\ m_operations[s] # <<>>
    BY <1>2 DEF Waiting
  <2> QED
    BY <2>1, TailQueue
<1>4. \A s \in ss : m_operations'[s] = Tail(m_operations[s])
  BY <1>1
<1>5. \A s \in Queue \ ss : /\ m_operations'[s] = m_operations[s]
                            /\ m_pending'[s] = m_pending[s]
  BY <1>1, <1>2
<1>6. m_operations' \in [Queue -> Seq(OpId)]
  BY <1>1, <1>2, <1>3
<1>7. /\ m_pending' \in [Queue -> BOOLEAN]
      /\ \A s \in ss : ~m_pending'[s]
  BY <1>1
<1>8. done' \in SUBSET OpId
  BY <1>1, <1>2, <1>3
<1>9. \A i : i \in done' <=> i \in done \/ \E s \in ss : i = Head(m_operations[s])
  BY <1>1
<1> QED
  BY <1>3, <1>4, <1>5, <1>6, <1>7, <1>8, <1>9

\* The streams of kernels that are on the GPU: each has its kernel at its head.
StreamsOf(ids) == {m_grid_id_to_stream[k] : k \in ids}

\* They may be finished.
LEMMA StreamsOfKernels ==
    ASSUME TypeInv, Mapped, NEW ids, ids \subseteq OnGpu
    PROVE  /\ ids \subseteq OpId
           /\ StreamsOf(ids) \in SUBSET Queue
           /\ \A s \in StreamsOf(ids) : /\ Waiting(s)
                                        /\ Head(m_operations[s]) \in ids
                                        /\ ops[Head(m_operations[s])].kind = "kernel"
           /\ \A k \in OnGpu : m_grid_id_to_stream[k] \in StreamsOf(ids)
                                  => k \in ids
<1>1. OnGpu \subseteq OpId
  BY QueueElements, RangeIsToSet DEF OnGpu, TypeInv
<1>2. \A k \in OnGpu : m_grid_id_to_stream[k] \in Queue
  BY <1>1 DEF Mapped, TypeInv
<1> QED
  BY <1>1, <1>2 DEF StreamsOf, Mapped

-----------------------------------------------------------------------------
(* The operations a call of the API creates *)

WellMade(op) ==
    /\ op \in Operation
    /\ op.stream \in ToSet(m_streams) \cup {Zero}
    /\ EventFields(op)
    /\ op.kind = "event" => op.stream \in Uses["event"]
    /\ op.kind = "wait_event" => /\ op.cnt = m_issued[op.event]
                                 /\ op.awaits = LastRecord(op.event)

\* At most one of them is a record, and then it is the only one.
MadeCalls(new) ==
    /\ new \in Seq(Operation)
    /\ \A i \in DOMAIN new : WellMade(new[i])
    /\ \/ /\ UNCHANGED m_issued
          /\ \A i \in DOMAIN new : new[i].kind # "event"
       \/ \E e \in Event : /\ Len(new) = 1 /\ DOMAIN new = {1}
                           /\ new[1].kind = "event" /\ new[1].event = e
                           /\ m_issued[e] < MaxOps
                           /\ m_issued' = [m_issued EXCEPT ![e] = @ + 1]

\* A stream that the application may use exists.
LEMMA UsedStreams ==
    ASSUME TypeInv, NEW kind, NEW s \in Queue, MayUse(kind, s)
    PROVE  s \in ToSet(m_streams) \cup {Zero} /\ s \in Uses[kind]
BY RangeIsToSet DEF MayUse

\* The last accepted record is among the accepted records.
LEMMA LastIsRecord ==
    ASSUME NEW e
    PROVE  LastRecord(e) \subseteq Rec(ops, e)
BY DEF LastRecord, Rec

\* The positions of ops are numbers of operations.
LEMMA OpPositions ==
    ASSUME TypeInv, QueueInv
    PROVE  /\ Len(ops) \in 0 .. MaxOps /\ DOMAIN ops = 1 .. Len(ops)
           /\ DOMAIN ops \subseteq OpId
           /\ Len(calls) \in Nat /\ DOMAIN calls = 1 .. Len(calls)
           /\ \A i \in DOMAIN ops : ops[i] \in Operation
           /\ \A i \in DOMAIN calls : calls[i] \in Operation
<1>1. /\ Len(ops) \in Nat /\ DOMAIN ops = 1 .. Len(ops)
      /\ Len(calls) \in Nat /\ DOMAIN calls = 1 .. Len(calls)
      /\ \A i \in DOMAIN ops : ops[i] \in Operation
      /\ \A i \in DOMAIN calls : calls[i] \in Operation
  BY LenProperties, ElementOfSeq DEF TypeInv
<1>2. Len(ops) + Len(calls) <= MaxOps
  BY DEF QueueInv
<1> QED
  BY <1>1, <1>2, Constants DEF OpId

\* A wait for an event that has been recorded.
LEMMA WaitIsWellMade ==
    ASSUME TypeInv, QueueInv, NEW e \in Event,
           NEW s \in ToSet(m_streams) \cup {Zero}
    PROVE  WellMade(WaitOp(s, e)) /\ WaitOp(s, e).kind = "wait_event"
<1> DEFINE op == WaitOp(s, e)
<1>1. op = [kind |-> "wait_event", stream |-> s, event |-> e,
            cnt |-> m_issued[e], latency |-> 0, awaits |-> LastRecord(e)]
  <2> DEFINE R(x, n, r) == [kind |-> "wait_event", stream |-> s, event |-> x,
                            cnt |-> n, latency |-> 0, awaits |-> r]
  <2>1. OpOf("wait_event", s) = R(NoEvent, 0, {})
    BY DEF OpOf
  <2>2. [R(NoEvent, 0, {}) EXCEPT !.event = e] = R(e, 0, {})
    OBVIOUS
  <2>3. [R(e, 0, {}) EXCEPT !.cnt = m_issued[e]] = R(e, m_issued[e], {})
    OBVIOUS
  <2>4. [R(e, m_issued[e], {}) EXCEPT !.awaits = LastRecord(e)]
           = R(e, m_issued[e], LastRecord(e))
    OBVIOUS
  <2> HIDE DEF R
  <2>5. op = [[[R(NoEvent, 0, {}) EXCEPT !.event = e] EXCEPT !.cnt = m_issued[e]]
                 EXCEPT !.awaits = LastRecord(e)]
    BY <2>1 DEF WaitOp
  <2>6. op = R(e, m_issued[e], LastRecord(e))
    BY <2>2, <2>3, <2>4, <2>5
  <2> QED
    BY <2>6 DEF R
<1>2. s \in Queue
  BY QueueElements, Constants DEF TypeInv
<1>3. LastRecord(e) \in SUBSET OpId
  <2>1. Rec(ops, e) \subseteq DOMAIN ops
    BY DEF Rec
  <2> QED
    BY <2>1, LastIsRecord, OpPositions
<1>4. m_issued[e] \in 0 .. MaxOps
  BY DEF TypeInv
<1>5. 0 \in 0 .. LaunchLatency
  BY Constants
<1>6. op \in Operation
  BY <1>1, <1>2, <1>3, <1>4, <1>5 DEF Operation, Kind
<1> QED
  BY <1>1, <1>6 DEF WellMade, EventFields

\* Copies, launches, records and waits all push operations of this form.
LEMMA CallsAreMade ==
    ASSUME TypeInv, QueueInv, NEW s \in Queue,
           \/ cudaMemcpy(s) \/ cudaLaunch(s)
           \/ \E e \in Event : cudaEventRecord(e, s) \/ cudaStreamWaitEvent(s, e)
    PROVE  \E new : Push(new) /\ MadeCalls(new) /\ UNCHANGED m_updates
<1>0. \A new : Push(new) => UNCHANGED m_updates
  BY DEF Push
<1>1. 0 \in 0 .. LaunchLatency /\ LaunchLatency \in 0 .. LaunchLatency
      /\ 0 \in 0 .. MaxOps /\ {} \in SUBSET OpId
  BY Constants
<1>2. CASE cudaMemcpy(s)
  <2> DEFINE op == OpOf("memcpy", s)
  <2>1. /\ op = [kind |-> "memcpy", stream |-> s, event |-> NoEvent, cnt |-> 0,
                 latency |-> 0, awaits |-> {}]
        /\ op \in Operation
    BY <1>1 DEF OpOf, Operation, Kind
  <2>2. s \in ToSet(m_streams) \cup {Zero}
    BY <1>2, UsedStreams DEF cudaMemcpy
  <2>3. WellMade(op) /\ op.kind # "event"
    BY <2>1, <2>2 DEF WellMade, EventFields
  <2> HIDE DEF op
  <2>4. Push(<<op>>) /\ UNCHANGED m_issued
    BY <1>2 DEF cudaMemcpy, op
  <2>5. <<op>> \in Seq(Operation) /\ \A i \in DOMAIN <<op>> : <<op>>[i] = op
    BY <2>1
  <2> QED
    BY <1>0, <2>3, <2>4, <2>5 DEF MadeCalls
<1>3. CASE cudaLaunch(s)
  <2> DEFINE op == [OpOf("kernel", s) EXCEPT !.latency = LaunchLatency]
  <2>1. /\ op = [kind |-> "kernel", stream |-> s, event |-> NoEvent, cnt |-> 0,
                 latency |-> LaunchLatency, awaits |-> {}]
        /\ op \in Operation
    BY <1>1 DEF OpOf, Operation, Kind
  <2>2. s \in ToSet(m_streams) \cup {Zero}
    BY <1>3, UsedStreams DEF cudaLaunch
  <2>3. WellMade(op) /\ op.kind # "event"
    BY <2>1, <2>2 DEF WellMade, EventFields
  <2> HIDE DEF op
  <2>4. Push(<<op>>) /\ UNCHANGED m_issued
    BY <1>3 DEF cudaLaunch, op
  <2>5. <<op>> \in Seq(Operation) /\ \A i \in DOMAIN <<op>> : <<op>>[i] = op
    BY <2>1
  <2> QED
    BY <1>0, <2>3, <2>4, <2>5 DEF MadeCalls
<1>4. ASSUME NEW e \in Event, cudaEventRecord(e, s)
      PROVE  \E new : Push(new) /\ MadeCalls(new)
  <2> DEFINE op == [OpOf("event", s) EXCEPT !.event = e]
  <2>1. /\ op = [kind |-> "event", stream |-> s, event |-> e, cnt |-> 0,
                 latency |-> 0, awaits |-> {}]
        /\ op \in Operation
    BY <1>1 DEF OpOf, Operation, Kind
  <2>2. s \in ToSet(m_streams) \cup {Zero} /\ s \in Uses["event"]
    BY <1>4, UsedStreams DEF cudaEventRecord
  <2>3. WellMade(op) /\ op.kind = "event" /\ op.event = e
    BY <2>1, <2>2 DEF WellMade, EventFields
  <2> HIDE DEF op
  <2>4. /\ Push(<<op>>)
        /\ m_issued[e] < MaxOps
        /\ m_issued' = [m_issued EXCEPT ![e] = @ + 1]
    BY <1>4 DEF cudaEventRecord, op
  <2>5. /\ <<op>> \in Seq(Operation) /\ \A i \in DOMAIN <<op>> : <<op>>[i] = op
        /\ Len(<<op>>) = 1 /\ DOMAIN <<op>> = {1} /\ <<op>>[1] = op
    BY <2>1
  <2>6. MadeCalls(<<op>>)
    BY <2>3, <2>4, <2>5 DEF MadeCalls
  <2> QED
    BY <2>4, <2>6
<1>5. ASSUME NEW e \in Event, cudaStreamWaitEvent(s, e)
      PROVE  \E new : Push(new) /\ MadeCalls(new)
  <2>1. s \in ToSet(m_streams) \cup {Zero} /\ UNCHANGED m_issued
    BY <1>5, UsedStreams DEF cudaStreamWaitEvent
  <2>2. CASE s = Zero
    <3> DEFINE new == [i \in DOMAIN m_streams |-> WaitOp(m_streams[i], e)]
    <3>1. Push(new)
      BY <1>5, <2>2 DEF cudaStreamWaitEvent
    <3>2. ASSUME NEW i \in DOMAIN m_streams
          PROVE  WellMade(new[i]) /\ new[i].kind # "event"
      BY WaitIsWellMade DEF ToSet
    <3>3. DOMAIN new = DOMAIN m_streams /\ DOMAIN m_streams = 1 .. Len(m_streams)
          /\ Len(m_streams) \in Nat
      BY LenProperties DEF TypeInv
    <3>4. new \in Seq(Operation)
      BY <3>2, <3>3, SeqDef DEF WellMade
    <3> HIDE DEF new
    <3> QED
      BY <2>1, <3>1, <3>2, <3>3, <3>4 DEF MadeCalls
  <2>3. CASE s # Zero
    <3> DEFINE op == WaitOp(s, e)
    <3>1. Push(<<op>>)
      BY <1>5, <2>3 DEF cudaStreamWaitEvent
    <3>2. WellMade(op) /\ op.kind # "event"
      BY <2>1, WaitIsWellMade
    <3> HIDE DEF op
    <3>3. <<op>> \in Seq(Operation) /\ \A i \in DOMAIN <<op>> : <<op>>[i] = op
      BY <3>2 DEF WellMade
    <3> QED
      BY <2>1, <3>1, <3>2, <3>3 DEF MadeCalls
  <2> QED
    BY <2>2, <2>3
<1> QED
  BY <1>0, <1>2, <1>3, <1>4, <1>5

\* What push does with the first of the operations to push: it stays as it is,
\* except for its stream.
Pushed(op, new, s) ==
    /\ host_pc = "push" /\ calls # <<>> /\ op = Head(calls) /\ op = calls[1]
    /\ s \in Queue /\ s = IF UsesZero(op) THEN Zero ELSE op.stream
    /\ new \in Operation /\ new.stream = s
    /\ new.kind = op.kind /\ new.event = op.event /\ new.cnt = op.cnt
    /\ new.awaits = op.awaits
    /\ MayPush(op)
    /\ calls' = Tail(calls)
    /\ host_pc' \in {"drain", "push", "ready"}
    /\ UsesZero(op) => host_pc' = "drain"
    /\ host_pc' = "push" => calls' # <<>>
    /\ host_pc' = "ready" => calls' = <<>>
    /\ \/ max_hit /\ UNCHANGED <<ops, m_operations>>
       \/ /\ ~max_hit
          /\ ops' = Append(ops, new)
          /\ m_operations' = [m_operations EXCEPT ![s] = Append(@, Len(ops) + 1)]
    /\ UNCHANGED <<m_pending, done, listVars, m_lock, eventVars, flagVars, target,
                   config, m_grid_id_to_stream, gpuVars, simVars>>

\* An operation that is moved to another stream.
LEMMA Restreamed ==
    ASSUME NEW op \in Operation, NEW s \in Queue
    PROVE  LET new == [op EXCEPT !.stream = s]
           IN  /\ new \in Operation /\ new.stream = s
               /\ new.kind = op.kind /\ new.event = op.event
               /\ new.cnt = op.cnt /\ new.awaits = op.awaits
BY DEF Operation

\* push does that.
LEMMA PushMakes ==
    ASSUME TypeInv, ControlInv, QueueInv, push
    PROVE  \E op, new, s : Pushed(op, new, s)
<1> DEFINE op == Head(calls)
           s == IF UsesZero(op) THEN Zero ELSE op.stream
           new == [op EXCEPT !.stream = s]
<1>1. host_pc = "push" /\ calls # <<>>
  BY DEF push, HostAt, ControlInv
<1>2. op \in Operation /\ op = calls[1]
  BY <1>1, TailQueue DEF TypeInv
<1>3. s \in Queue
  BY <1>2, Constants DEF Operation
<1>4. calls' = Tail(calls) /\ MayPush(op)
  BY DEF push
<1>5. /\ Len(calls) \in Nat /\ Len(calls) > 0
      /\ Tail(calls) \in Seq(Operation) /\ Len(Tail(calls)) = Len(calls) - 1
  BY <1>1, QueueElements, TailQueue DEF TypeInv
<1>6. Tail(calls) = <<>> <=> Len(calls) = 1
  <2>1. Tail(calls) # <<>> <=> Len(Tail(calls)) > 0
    BY <1>5, QueueElements
  <2> QED
    BY <1>5, <2>1
<1>7. host_pc' = CASE UsesZero(op) -> "drain"
                   [] ~UsesZero(op) /\ Len(calls) > 1 -> "push"
                   [] ~UsesZero(op) /\ Len(calls) = 1 -> "ready"
  BY DEF push
<1>8. /\ host_pc' \in {"drain", "push", "ready"}
      /\ UsesZero(op) => host_pc' = "drain"
      /\ host_pc' = "push" => Len(calls) > 1
      /\ host_pc' = "ready" => Len(calls) = 1
  BY <1>5, <1>7
<1>9. \/ max_hit /\ UNCHANGED <<ops, m_operations>>
      \/ /\ ~max_hit
         /\ ops' = Append(ops, new)
         /\ m_operations' = [m_operations EXCEPT ![s] = Append(@, Len(ops) + 1)]
  BY DEF push
<1>10. /\ new \in Operation /\ new.stream = s
       /\ new.kind = op.kind /\ new.event = op.event
       /\ new.cnt = op.cnt /\ new.awaits = op.awaits
  BY <1>2, <1>3, Restreamed
<1>11. UNCHANGED <<m_pending, done, listVars, m_lock, eventVars, flagVars, target,
                   config, m_grid_id_to_stream, gpuVars, simVars>>
  BY DEF push, HostOnly
<1>12. s = IF UsesZero(op) THEN Zero ELSE op.stream
  OBVIOUS
<1>13. /\ host_pc' = "push" => calls' # <<>>
       /\ host_pc' = "ready" => calls' = <<>>
  BY <1>4, <1>5, <1>6, <1>8
<1> HIDE DEF op, s, new
<1>14. Pushed(op, new, s)
  BY <1>1, <1>2, <1>3, <1>4, <1>8, <1>9, <1>10, <1>11, <1>12, <1>13
     DEF Pushed, op
<1> QED
  BY <1>14

-----------------------------------------------------------------------------
(* Types *)

\* An accepted operation keeps the types.
LEMMA PushedTypes ==
    ASSUME TypeInv, QueueInv, NEW op, NEW new, NEW s, Pushed(op, new, s)
    PROVE  TypeInv'
<1>1. calls' \in Seq(Operation) /\ host_pc' \in HostPc
  BY TailQueue DEF Pushed, TypeInv, HostPc
<1>2. ops' \in Seq(Operation)
  <2>1. ops \in Seq(Operation) /\ new \in Operation
        /\ (ops' = ops \/ ops' = Append(ops, new))
    BY DEF Pushed, TypeInv
  <2> QED
    BY <2>1, AppendQueue
<1>3. m_operations' \in [Queue -> Seq(OpId)]
  <2>1. CASE UNCHANGED m_operations
    BY <2>1 DEF TypeInv
  <2>2. CASE m_operations' = [m_operations EXCEPT ![s] = Append(@, Len(ops) + 1)]
    <3>1. Len(calls) > 0
      BY QueueElements DEF Pushed, TypeInv
    <3>2. Len(ops) + 1 \in OpId
      BY <3>1, OpPositions, Constants DEF QueueInv, OpId
    <3>3. m_operations[s] \in Seq(OpId) /\ m_operations \in [Queue -> Seq(OpId)]
      BY DEF Pushed, TypeInv
    <3>4. Append(m_operations[s], Len(ops) + 1) \in Seq(OpId)
      BY <3>2, <3>3, AppendQueue
    <3> QED
      BY <2>2, <3>3, <3>4
  <2> QED
    BY <2>1, <2>2 DEF Pushed
<1> QED
  BY <1>1, <1>2, <1>3 DEF Pushed, TypeInv, listVars, eventVars, flagVars, config,
     gpuVars, simVars

\* The host's other steps do.
LEMMA HostTypes ==
    ASSUME TypeInv, QueueInv, HostCall \/ HostReturn, ~push
    PROVE  TypeInv'
<1> USE DEF config, streamVars, listVars, gpuVars, flagVars, simVars, hostVars,
            eventVars, HostOnly, HostAt, HostPc, SimPc
<1>1. CASE start_sim_thread
  BY <1>1 DEF start_sim_thread, TypeInv
<1>2. CASE cudaStreamCreate
  <2> DEFINE n == sm_next_stream_uid
  <2>1. /\ n \in Stream /\ n + 1 \in 1 .. MaxStreams + 1
        /\ m_streams' = Append(m_streams, n) /\ sm_next_stream_uid' = n + 1
        /\ n \in Nat
    BY <1>2, Constants DEF cudaStreamCreate, TypeInv, Stream
  <2>2. /\ m_streams' \in Seq(Stream) /\ Len(m_streams') = Len(m_streams) + 1
        /\ ToSet(m_streams') = ToSet(m_streams) \cup {n}
    BY <2>1, AppendQueue DEF TypeInv
  <2>3. ToSet(m_streams') \subseteq 1 .. (n + 1) - 1
    BY <2>1, <2>2 DEF TypeInv, Stream
  <2>4. m_last_stream \in 0 .. Len(m_streams')
    BY <2>2, LenProperties DEF TypeInv
  <2> QED
    BY <1>2, <2>1, <2>2, <2>3, <2>4 DEF cudaStreamCreate, TypeInv
<1>3. ASSUME NEW s \in Stream, cudaStreamDestroy(s) PROVE TypeInv'
  BY <1>3, Constants DEF cudaStreamDestroy, TypeInv
<1>4. ASSUME NEW new, Push(new), MadeCalls(new) PROVE TypeInv'
  <2>1. m_issued' \in [Event -> 0 .. MaxOps]
    <3>1. m_issued \in [Event -> 0 .. MaxOps]
      BY DEF TypeInv
    <3>2. \/ m_issued' = m_issued
          \/ \E e \in Event : /\ m_issued[e] < MaxOps
                              /\ m_issued' = [m_issued EXCEPT ![e] = @ + 1]
      BY <1>4 DEF MadeCalls
    <3> QED
      BY <3>1, <3>2, Constants
  <2>2. new \in Seq(Operation)
    BY <1>4 DEF MadeCalls
  <2> QED
    BY <1>4, <2>1, <2>2 DEF Push, TypeInv
<1>5. CASE cudaDeviceSynchronize \/ push_drain \/ synchronize
  BY <1>5 DEF cudaDeviceSynchronize, push_drain, synchronize, HostGoes, TypeInv
<1>6. CASE exit_simulation
  BY <1>6 DEF exit_simulation, TypeInv
<1>10. CASE exit_wait
  BY <1>10 DEF exit_wait, TypeInv
<1>7. CASE destroy_stream_lock
  BY <1>7 DEF destroy_stream_lock, TypeInv
<1>8. CASE destroy_stream
  <2>1. PICK i \in DOMAIN m_streams : m_streams' = RemoveAt(m_streams, i)
    BY <1>8 DEF destroy_stream
  <2>2. /\ m_streams' \in Seq(Stream) /\ ToSet(m_streams') \subseteq ToSet(m_streams)
    BY <2>1, RemoveAtQueue DEF TypeInv
  <2>3. /\ Len(m_streams') \in Nat
        /\ m_streams' # <<>> => Len(m_streams') > 0
    BY <2>2, QueueElements
  <2>4. m_last_stream' \in 0 .. Len(m_streams')
    BY <1>8, <2>3 DEF destroy_stream, Begin
  <2>5. ToSet(m_streams') \subseteq 1 .. sm_next_stream_uid - 1
    BY <2>2 DEF TypeInv
  <2>6. /\ UNCHANGED <<streamVars, sm_next_stream_uid, eventVars, flagVars, calls,
                       config, m_grid_id_to_stream, gpuVars, simVars>>
        /\ m_lock' \in BOOLEAN /\ host_pc' \in HostPc /\ target' \in Queue
    BY <1>8, Constants DEF destroy_stream
  <2> QED
    BY <2>2, <2>4, <2>5, <2>6 DEF TypeInv
<1>9. ASSUME NEW s \in Queue,
             \/ cudaMemcpy(s) \/ cudaLaunch(s)
             \/ \E e \in Event : cudaEventRecord(e, s) \/ cudaStreamWaitEvent(s, e)
      PROVE  TypeInv'
  BY <1>4, <1>9, CallsAreMade
<1> QED
  BY <1>1, <1>2, <1>3, <1>5, <1>6, <1>7, <1>8, <1>9, <1>10
     DEF HostCall, HostReturn

\* register_finished_kernel for kernels on the GPU finishes their streams.
LEMMA Registered ==
    ASSUME TypeInv, Mapped, NEW ids, ids \subseteq OnGpu, Register(ids)
    PROVE  /\ Finish(StreamsOf(ids))
           /\ m_grid_id_to_stream' \in [OpId -> Queue \cup {NoStream}]
           /\ \A k \in OpId : m_grid_id_to_stream'[k] =
                 IF k \in ids THEN NoStream ELSE m_grid_id_to_stream[k]
           /\ UNCHANGED ops
BY DEF Register, StreamsOf, TypeInv

\* Operations that differ in their launch latency only.
SameOps ==
    /\ Len(ops') = Len(ops) /\ DOMAIN ops' = DOMAIN ops
    /\ \A i \in DOMAIN ops :
          /\ ops'[i].kind = ops[i].kind /\ ops'[i].stream = ops[i].stream
          /\ ops'[i].event = ops[i].event /\ ops'[i].cnt = ops[i].cnt
          /\ ops'[i].awaits = ops[i].awaits

\* A cancelled start changes nothing else of an operation.
LEMMA Cancelled ==
    ASSUME TypeInv, NEW k \in DOMAIN ops,
           ops' = [ops EXCEPT ![k].latency = IF @ > 0 THEN @ - 1 ELSE 0]
    PROVE  ops' \in Seq(Operation) /\ SameOps
<1> DEFINE op == ops[k]
           l == IF op.latency > 0 THEN op.latency - 1 ELSE 0
           new == [op EXCEPT !.latency = l]
<1>1. ops \in Seq(Operation) /\ op \in Operation
  BY ElementOfSeq, LenProperties DEF TypeInv
<1>2. ops' = [ops EXCEPT ![k] = new]
  OBVIOUS
<1>3. l \in 0 .. LaunchLatency
  BY <1>1, Constants DEF Operation
<1> HIDE DEF l
<1>4. /\ new \in Operation /\ new.kind = op.kind /\ new.stream = op.stream
      /\ new.event = op.event /\ new.cnt = op.cnt /\ new.awaits = op.awaits
  BY <1>1, <1>3 DEF Operation
<1> HIDE DEF new
<1>5. ops' \in Seq(Operation) /\ Len(ops') = Len(ops) /\ DOMAIN ops' = DOMAIN ops
  BY <1>1, <1>2, <1>4
<1>6. \A i \in DOMAIN ops : ops'[i] = IF i = k THEN new ELSE ops[i]
  BY <1>1, <1>2
<1> QED
  BY <1>4, <1>5, <1>6 DEF SameOps

\* The head of a queue is an accepted operation that is not done.
LEMMA HeadIsOp ==
    ASSUME TypeInv, QueueInv, NEW s \in Queue, Waiting(s)
    PROVE  /\ Head(m_operations[s]) \in DOMAIN ops
           /\ Head(m_operations[s]) \in OpId
           /\ Head(m_operations[s]) \in ToSet(m_operations[s])
           /\ ops[Head(m_operations[s])].stream = s
           /\ Head(m_operations[s]) \notin done
<1>1. m_operations[s] \in Seq(OpId) /\ m_operations[s] # <<>>
  BY DEF TypeInv, Waiting
<1>2. Head(m_operations[s]) \in ToSet(m_operations[s])
      /\ Head(m_operations[s]) \in OpId
  BY <1>1, TailQueue
<1> QED
  BY <1>2 DEF QueueInv, InOwnQueue

\* The first of the finished kernels, all of them, or the functional one.
LEMMA KernelsOnGpu ==
    ASSUME TypeInv
    PROVE  /\ ToSet(m_finished_kernel) \subseteq OnGpu
           /\ m_running_kernels \subseteq OnGpu
           /\ m_functional_sim_kernel # NoKernel =>
                 m_functional_sim_kernel \in OnGpu
           /\ m_finished_kernel # <<>> => Head(m_finished_kernel) \in OnGpu
           /\ OnGpu \subseteq OpId
           /\ \A k : k \in OnGpu <=>
                 \/ k \in m_running_kernels
                 \/ k \in ToSet(m_finished_kernel)
                 \/ k = m_functional_sim_kernel /\ k # NoKernel
<1>1. OnGpu = m_running_kernels \cup ToSet(m_finished_kernel)
              \cup ({m_functional_sim_kernel} \ {NoKernel})
  BY RangeIsToSet DEF OnGpu
<1>2. ToSet(m_finished_kernel) \subseteq OpId
  BY QueueElements DEF TypeInv
<1>3. m_finished_kernel # <<>> =>
         Head(m_finished_kernel) \in ToSet(m_finished_kernel)
  BY TailQueue DEF TypeInv
<1> QED
  BY <1>1, <1>2, <1>3 DEF TypeInv

\* The steps of the simulation thread keep the types.
LEMMA SimTypes ==
    ASSUME TypeInv, ControlInv, QueueInv, KernelInv, Simulation
    PROVE  TypeInv'
<1> USE DEF config, streamVars, listVars, gpuVars, flagVars, hostVars,
            eventVars, SimOnly, SimGoes
<1>1. CASE detect_work \/ start_simulation
  BY <1>1 DEF detect_work, start_simulation, TypeInv, SimPc
<1>8. CASE loop_test
  BY <1>8 DEF loop_test, TypeInv, SimPc
<1>2. CASE stop_simulation
  BY <1>2 DEF stop_simulation, TypeInv, SimPc
<1>3. CASE check_finished_kernel
  <2>1. CASE m_finished_kernel = <<>>
    BY <1>3, <2>1 DEF check_finished_kernel, TypeInv, SimPc
  <2>2. CASE m_finished_kernel # <<>>
    <3> DEFINE ids == {Head(m_finished_kernel)}
    <3>1. Mapped /\ ids \subseteq OnGpu
      BY <1>3, <2>2, KernelsOnGpu DEF check_finished_kernel, ControlInv, KernelInv
    <3>2. Register(ids) /\ m_finished_kernel' = Tail(m_finished_kernel)
          /\ check' = TRUE
      BY <1>3, <2>2 DEF check_finished_kernel
    <3> HIDE DEF ids
    <3>3. /\ Finish(StreamsOf(ids)) /\ UNCHANGED ops
          /\ m_grid_id_to_stream' \in [OpId -> Queue \cup {NoStream}]
      BY <3>1, <3>2, Registered
    <3>4. /\ m_operations' \in [Queue -> Seq(OpId)]
          /\ m_pending' \in [Queue -> BOOLEAN] /\ done' \in SUBSET OpId
      BY <3>1, <3>3, StreamsOfKernels, Finished
    <3>5. m_finished_kernel' \in Seq(OpId)
      BY <2>2, <3>2, TailQueue DEF TypeInv
    <3>6. /\ sim_pc' \in SimPc
          /\ UNCHANGED <<m_last_stream, m_updates, m_running_kernels,
                         m_functional_sim_kernel, traffic, max_hit, g_sim_active,
                         g_sim_done, break_limit>> /\ SimOnly
      BY <1>3 DEF check_finished_kernel, SimPc
    <3> QED
      BY <3>2, <3>3, <3>4, <3>5, <3>6 DEF TypeInv
  <2> QED
    BY <2>1, <2>2
<1>4. CASE operation
  <2>1. m_last_stream' \in 0 .. Len(m_streams)
    BY <1>4, ScanEndsInList DEF operation
  <2>2. /\ sim_pc' \in SimPc /\ check' \in BOOLEAN
        /\ UNCHANGED <<m_finished_kernel, traffic, max_hit, g_sim_active,
                       g_sim_done, break_limit>> /\ SimOnly
    BY <1>4 DEF operation, SimPc
  <2>3. ASSUME /\ ops' \in Seq(Operation)
               /\ m_operations' \in [Queue -> Seq(OpId)]
               /\ m_pending' \in [Queue -> BOOLEAN] /\ done' \in SUBSET OpId
               /\ m_grid_id_to_stream' \in [OpId -> Queue \cup {NoStream}]
               /\ m_updates' \in [Event -> Nat]
               /\ m_running_kernels' \in SUBSET OpId
               /\ m_functional_sim_kernel' \in OpId \cup {NoKernel}
        PROVE  TypeInv'
    BY <2>1, <2>2, <2>3 DEF TypeInv
  <2>4. CASE no_op
    BY <2>3, <2>4 DEF no_op, TypeInv
  <2>5. ASSUME NEW s \in front, do_immediate(s, ops[Head(m_operations[s])])
        PROVE  TypeInv'
    <3>1. /\ m_operations' \in [Queue -> Seq(OpId)]
          /\ m_pending' \in [Queue -> BOOLEAN] /\ done' \in SUBSET OpId
      <4>1. {s} \in SUBSET Queue /\ \A x \in {s} : Waiting(x)
        BY FrontIsStartable
      <4> QED
        BY <2>5, <4>1, Finished DEF do_immediate
    <3>2. m_updates' \in [Event -> Nat]
      <4>1. m_updates \in [Event -> Nat]
        BY DEF TypeInv
      <4>2. \/ m_updates' = m_updates
            \/ \E e : m_updates' = [m_updates EXCEPT ![e] = @ + 1]
        BY <2>5 DEF do_immediate
      <4> QED
        BY <4>1, <4>2
    <3>3. UNCHANGED <<ops, m_grid_id_to_stream, m_running_kernels,
                      m_functional_sim_kernel>>
      BY <2>5 DEF do_immediate
    <3> QED
      BY <2>3, <3>1, <3>2, <3>3 DEF TypeInv
  <2>6. ASSUME NEW s \in front, do_launch(s, ops[Head(m_operations[s])])
        PROVE  TypeInv'
    <3>1. s \in Queue /\ Head(m_operations[s]) \in OpId
      BY FrontIsStartable, HeadIsOp
    <3>2. /\ m_pending' \in [Queue -> BOOLEAN]
          /\ m_grid_id_to_stream' \in [OpId -> Queue \cup {NoStream}]
          /\ m_running_kernels' \in SUBSET OpId
          /\ m_functional_sim_kernel' \in OpId \cup {NoKernel}
      BY <2>6, <3>1 DEF do_launch, TypeInv
    <3>3. UNCHANGED <<ops, m_operations, done, m_updates>>
      BY <2>6 DEF do_launch
    <3> QED
      BY <2>3, <3>2, <3>3 DEF TypeInv
  <2>7. ASSUME NEW s \in front, do_cancel(s, ops[Head(m_operations[s])])
        PROVE  TypeInv'
    <3>1. s \in Queue /\ Head(m_operations[s]) \in DOMAIN ops
      BY FrontIsStartable, HeadIsOp
    <3>2. ops' \in Seq(Operation)
      BY <2>7, <3>1, Cancelled DEF do_cancel
    <3>3. UNCHANGED <<m_operations, m_pending, done, m_updates, m_running_kernels,
                      m_functional_sim_kernel, m_grid_id_to_stream>>
      BY <2>7 DEF do_cancel, CancelledMap
    <3> QED
      BY <2>3, <3>2, <3>3 DEF TypeInv
  <2> QED
    BY <1>4, <2>4, <2>5, <2>6, <2>7 DEF operation
<1>5. CASE functional_sim
  <2> DEFINE ids == {m_functional_sim_kernel}
  <2>1. Mapped /\ ids \subseteq OnGpu
    BY <1>5, KernelsOnGpu DEF functional_sim, ControlInv, KernelInv
  <2>2. Register(ids)
    BY <1>5 DEF functional_sim
  <2> HIDE DEF ids
  <2>3. /\ Finish(StreamsOf(ids)) /\ UNCHANGED ops
        /\ m_grid_id_to_stream' \in [OpId -> Queue \cup {NoStream}]
    BY <2>1, <2>2, Registered
  <2>4. /\ m_operations' \in [Queue -> Seq(OpId)]
        /\ m_pending' \in [Queue -> BOOLEAN] /\ done' \in SUBSET OpId
    BY <2>1, <2>3, StreamsOfKernels, Finished
  <2>5. /\ sim_pc' \in SimPc /\ m_functional_sim_kernel' = NoKernel
        /\ UNCHANGED <<m_last_stream, m_updates, m_running_kernels,
                       m_finished_kernel, traffic, max_hit, g_sim_active,
                       g_sim_done, break_limit, check>> /\ SimOnly
    BY <1>5 DEF functional_sim, SimPc
  <2> QED
    BY <2>3, <2>4, <2>5 DEF TypeInv
<1>6. ASSUME NEW F \in SUBSET m_running_kernels, cycle(F) PROVE TypeInv'
  <2>1. F \in SUBSET OpId /\ IsFiniteSet(F)
    BY Constants, FS_Subset DEF TypeInv
  <2>2. PICK order \in SetToSeqs(F) :
            m_finished_kernel' = m_finished_kernel \o order
    BY <1>6 DEF cycle
  <2>3. order \in Seq(OpId)
    BY <2>1, Listed, SeqMonotonic
  <2>4. m_finished_kernel' \in Seq(OpId)
    BY <2>2, <2>3, ConcatQueue DEF TypeInv
  <2>5. traffic' \in BOOLEAN /\ max_hit' \in BOOLEAN
    BY <1>6, StreamAssumption DEF cycle
  <2>6. /\ sim_pc' \in SimPc /\ m_running_kernels' = m_running_kernels \ F
        /\ UNCHANGED <<streamVars, m_last_stream, m_grid_id_to_stream, m_updates,
                       m_functional_sim_kernel, g_sim_active, g_sim_done,
                       break_limit, check>> /\ SimOnly
    BY <1>6 DEF cycle, SimPc
  <2> QED
    BY <2>4, <2>5, <2>6 DEF TypeInv
<1>7. CASE idle_or_limit
  <2>1. /\ sim_pc' \in SimPc
        /\ UNCHANGED <<m_last_stream, m_updates, m_functional_sim_kernel, traffic,
                       max_hit, g_sim_active, check>> /\ SimOnly
    BY <1>7 DEF idle_or_limit, SimPc
  <2>2. CASE ~max_hit
    BY <1>7, <2>1, <2>2 DEF idle_or_limit, TypeInv
  <2>3. CASE max_hit
    <3> DEFINE ids == ToSet(m_finished_kernel)
    <3>1. Mapped /\ ids \subseteq OnGpu
      BY <1>7, KernelsOnGpu DEF idle_or_limit, ControlInv, KernelInv
    <3>2. Register(ids)
      BY <1>7, <2>3, RangeIsToSet DEF idle_or_limit
    <3> HIDE DEF ids
    <3>3. /\ Finish(StreamsOf(ids)) /\ UNCHANGED ops
          /\ m_grid_id_to_stream' \in [OpId -> Queue \cup {NoStream}]
      BY <3>1, <3>2, Registered
    <3>4. /\ m_operations' \in [Queue -> Seq(OpId)]
          /\ m_pending' \in [Queue -> BOOLEAN] /\ done' \in SUBSET OpId
      BY <3>1, <3>3, StreamsOfKernels, Finished
    <3>5. PICK order \in SetToSeqs(m_running_kernels) :
              m_finished_kernel' = IF order = <<>> THEN <<>> ELSE Tail(order)
      BY <1>7, <2>3 DEF idle_or_limit
    <3>6. order \in Seq(OpId)
      <4>1. m_running_kernels \in SUBSET OpId /\ IsFiniteSet(m_running_kernels)
        BY Constants, FS_Subset DEF TypeInv
      <4> QED
        BY <4>1, Listed, SeqMonotonic
    <3>7. m_finished_kernel' \in Seq(OpId)
      BY <3>5, <3>6, TailQueue, EmptyQueue
    <3>8. m_running_kernels' = {} /\ g_sim_done' = TRUE /\ break_limit' = TRUE
      BY <1>7, <2>3 DEF idle_or_limit
    <3> QED
      BY <2>1, <3>3, <3>4, <3>7, <3>8 DEF TypeInv
  <2> QED
    BY <2>2, <2>3 DEF TypeInv
<1> QED
  BY <1>1, <1>2, <1>3, <1>4, <1>5, <1>6, <1>7, <1>8
     DEF Simulation, Cycle

-----------------------------------------------------------------------------
(* Control *)

\* The host's steps keep the flags in agreement with the program counters.
LEMMA HostControl ==
    ASSUME TypeInv, ControlInv, QueueInv, HostCall \/ HostReturn
    PROVE  ControlInv'
<1> USE DEF config, listVars, gpuVars, flagVars, simVars, hostVars, eventVars,
            HostOnly, HostAt, ControlInv, active, ActiveWith
<1>1. CASE start_sim_thread
  BY <1>1 DEF start_sim_thread
<1>2. CASE cudaStreamCreate
  BY <1>2 DEF cudaStreamCreate
<1>3. ASSUME NEW s \in Stream, cudaStreamDestroy(s) PROVE ControlInv'
  BY <1>3 DEF cudaStreamDestroy
<1>4. ASSUME NEW new, Push(new) PROVE ControlInv'
  BY <1>4 DEF Push
<1>5. CASE cudaDeviceSynchronize
  BY <1>5 DEF cudaDeviceSynchronize, HostGoes
<1>6. CASE push_drain
  BY <1>6 DEF push_drain
<1>7. CASE synchronize
  BY <1>7 DEF synchronize, HostGoes
<1>8. CASE exit_simulation
  BY <1>8 DEF exit_simulation
<1>9. CASE exit_wait
  BY <1>9 DEF exit_wait
<1>10. CASE destroy_stream_lock
  BY <1>10 DEF destroy_stream_lock
<1>11. CASE destroy_stream
  BY <1>11 DEF destroy_stream
<1>12. CASE push
  <2>1. PICK op, new, s : Pushed(op, new, s)
    BY <1>12, PushMakes
  <2> QED
    BY <2>1 DEF Pushed
<1>13. ASSUME NEW s \in Queue,
              \/ cudaMemcpy(s) \/ cudaLaunch(s)
              \/ \E e \in Event : cudaEventRecord(e, s) \/ cudaStreamWaitEvent(s, e)
       PROVE  ControlInv'
  BY <1>4, <1>13, CallsAreMade
<1> QED
  BY <1>1, <1>2, <1>3, <1>5, <1>6, <1>7, <1>8, <1>9, <1>10, <1>11, <1>12, <1>13
     DEF HostCall, HostReturn

\* The simulation thread leaves its loop when the GPU is idle, or for good.
LEMMA SimControl ==
    ASSUME TypeInv, ControlInv, Simulation
    PROVE  ControlInv'
<1> USE DEF config, gpuVars, hostVars, SimOnly, SimGoes, ControlInv, active,
            ActiveWith
<1>1. CASE detect_work
  BY <1>1 DEF detect_work
<1>2. CASE start_simulation
  BY <1>2 DEF start_simulation
<1>3. CASE check_finished_kernel
  BY <1>3 DEF check_finished_kernel
<1>4. CASE operation
  <2>1. /\ sim_pc = "operation" /\ sim_pc' \in {"stop", "gpu"}
        /\ sim_pc' = "stop" => ~active'
        /\ UNCHANGED <<m_finished_kernel, traffic, max_hit, g_sim_active,
                       g_sim_done, break_limit>> /\ SimOnly
    BY <1>4 DEF operation, Leaves
  <2> QED
    BY <2>1
<1>5. CASE functional_sim
  BY <1>5 DEF functional_sim
<1>6. ASSUME NEW F \in SUBSET m_running_kernels, cycle(F) PROVE ControlInv'
  BY <1>6 DEF cycle
<1>7. CASE idle_or_limit
  BY <1>7 DEF idle_or_limit
<1>8. CASE loop_test
  BY <1>8 DEF loop_test
<1>9. CASE stop_simulation
  BY <1>9 DEF stop_simulation
<1> QED
  BY <1>1, <1>2, <1>3, <1>4, <1>5, <1>6, <1>7, <1>8, <1>9 DEF Simulation, Cycle

-----------------------------------------------------------------------------
(* Where an operation is *)

\* Unchanged operations are the same operations.
LEMMA UnchangedOps ==
    ASSUME UNCHANGED ops
    PROVE  SameOps
BY DEF SameOps

\* A step that leaves the queues alone.
LEMMA QueuesKept ==
    ASSUME TypeInv, QueueInv, SameOps, UNCHANGED <<m_operations, done>>,
           Len(ops) + Len(calls') <= MaxOps, StreamsExist',
           Waiting(Zero) => host_pc' = "drain"
    PROVE  QueueInv'
<1>1. InOwnQueue'
  BY DEF QueueInv, InOwnQueue, SameOps
<1>2. InOrder'
  BY DEF QueueInv, InOrder, SameOps
<1>3. Barrier'
  BY DEF QueueInv, Barrier, Waiting
<1> QED
  BY <1>1, <1>2, <1>3 DEF QueueInv, SameOps

\* An operation that is accepted: behind the others of its stream, and, in
\* stream zero, behind everything.
LEMMA PushedQueues ==
    ASSUME TypeInv, ControlInv, QueueInv, NEW op, NEW new, NEW s,
           Pushed(op, new, s)
    PROVE  QueueInv'
<1> DEFINE n == Len(ops)
<1>1. /\ n \in Nat /\ DOMAIN ops = 1 .. n /\ ops \in Seq(Operation)
      /\ Len(calls) \in Nat \ {0} /\ DOMAIN calls = 1 .. Len(calls)
      /\ n + Len(calls) <= MaxOps
  <2>1. Len(calls) > 0
    BY QueueElements DEF Pushed, TypeInv
  <2> QED
    BY <2>1, OpPositions DEF QueueInv, TypeInv
<1>2. /\ calls' = Tail(calls) /\ Len(calls') = Len(calls) - 1
      /\ DOMAIN calls' = 1 .. Len(calls) - 1
      /\ \A i \in DOMAIN calls' : calls'[i] = calls[i + 1]
  <2>1. calls \in Seq(Operation) /\ calls # <<>> /\ calls' = Tail(calls)
    BY DEF Pushed, TypeInv
  <2> QED
    BY <2>1, HeadTailProperties, LenProperties
<1>3. /\ s \in Queue /\ op = calls[1] /\ UNCHANGED <<m_streams, done>>
      /\ s = IF UsesZero(op) THEN Zero ELSE op.stream
      /\ new \in Operation /\ new.stream = s
  BY DEF Pushed, listVars
<1>4. \A i \in DOMAIN calls : calls[i].stream \in ToSet(m_streams) \cup {Zero}
  BY DEF QueueInv, StreamsExist
<1>5. s \in ToSet(m_streams) \cup {Zero}
  <2>1. 1 \in DOMAIN calls
    BY <1>1
  <2> QED
    BY <1>3, <1>4, <2>1
<1>6. \A i \in DOMAIN calls' : calls'[i].stream \in ToSet(m_streams) \cup {Zero}
  <2>1. \A i \in DOMAIN calls' : i + 1 \in DOMAIN calls
    BY <1>1, <1>2
  <2> QED
    BY <1>2, <1>4, <2>1
<1>7. ~Waiting(Zero)
  BY DEF Pushed, QueueInv, Barrier
<1>8. CASE max_hit
  <2>1. UNCHANGED <<ops, m_operations>>
    BY <1>8 DEF Pushed
  <2>2. StreamsExist'
    BY <1>3, <1>6, <2>1 DEF StreamsExist, QueueInv, Waiting
  <2>3. n + Len(calls') <= MaxOps
    <3> HIDE DEF n
    <3> QED
      BY <1>1, <1>2, Constants
  <2>4. SameOps
    BY <2>1, UnchangedOps
  <2> QED
    BY <1>3, <1>7, <2>1, <2>2, <2>3, <2>4, QueuesKept
<1>9. CASE ~max_hit
  <2>1. /\ ops' = Append(ops, new)
        /\ m_operations' = [m_operations EXCEPT ![s] = Append(@, n + 1)]
    BY <1>9 DEF Pushed
  <2>2. m_operations \in [Queue -> Seq(OpId)] /\ n + 1 \in OpId
    BY <1>1, Constants DEF TypeInv, OpId
  <2>3. /\ Len(ops') = n + 1 /\ DOMAIN ops' = 1 .. n + 1
        /\ \A i \in 1 .. n : ops'[i] = ops[i]
        /\ ops'[n + 1] = new
    BY <1>1, <1>3, <2>1, AppendProperties, LenProperties
  <2>4. /\ m_operations'[s] = Append(m_operations[s], n + 1)
        /\ \A x \in Queue \ {s} : m_operations'[x] = m_operations[x]
    BY <1>3, <2>1, <2>2
  <2>5. /\ ToSet(m_operations'[s]) = ToSet(m_operations[s]) \cup {n + 1}
        /\ m_operations[s] \in Seq(OpId)
    BY <1>3, <2>2, <2>4, AppendQueue
  <2> HIDE DEF n
  <2>6. \A x \in Queue : \A i \in ToSet(m_operations[x]) :
            i \in 1 .. n /\ ops[i].stream = x /\ i \notin done
    BY <1>1 DEF QueueInv, InOwnQueue
  <2>7. done \subseteq 1 .. n
    BY <1>1 DEF QueueInv, InOwnQueue
  <2>8. n + 1 \notin 1 .. n /\ 1 .. n + 1 = (1 .. n) \cup {n + 1}
    BY <1>1
  <2>9. InOwnQueue'
    <3>1. done' \subseteq DOMAIN ops'
      BY <1>3, <2>3, <2>7, <2>8
    <3>2. ASSUME NEW x \in Queue, NEW i \in ToSet(m_operations'[x])
          PROVE  i \in DOMAIN ops' /\ ops'[i].stream = x /\ i \notin done'
      <4>1. CASE i \in ToSet(m_operations[x])
        BY <1>3, <2>3, <2>6, <2>8, <4>1
      <4>2. CASE x = s /\ i = n + 1
        BY <1>3, <2>3, <2>7, <2>8, <4>2
      <4> QED
        BY <2>4, <2>5, <3>2, <4>1, <4>2
    <3>3. ASSUME NEW i \in DOMAIN ops'
          PROVE  i \in done' \/ i \in ToSet(m_operations'[ops'[i].stream])
      <4>1. CASE i = n + 1
        BY <1>3, <2>3, <2>5, <4>1
      <4>2. CASE i \in 1 .. n
        <5>1. /\ ops'[i].stream = ops[i].stream
              /\ i \in done \/ i \in ToSet(m_operations[ops[i].stream])
          BY <1>1, <2>3, <4>2 DEF QueueInv, InOwnQueue
        <5>3. ops[i] \in Operation
          BY <1>1, <4>2, OpPositions
        <5>2. ops[i].stream \in Queue
          BY <5>3 DEF Operation
        <5> DEFINE x == ops[i].stream
        <5>4. ToSet(m_operations[x]) \subseteq ToSet(m_operations'[x])
          <6>1. x = s \/ x \in Queue \ {s}
            BY <5>2
          <6> HIDE DEF x
          <6> QED
            BY <2>4, <2>5, <6>1
        <5> QED
          BY <1>3, <5>1, <5>4
      <4> QED
        BY <2>3, <2>8, <4>1, <4>2
    <3> QED
      BY <3>1, <3>2, <3>3 DEF InOwnQueue
  <2>10. InOrder'
    <3>1. \A x \in Queue : Sorted(m_operations[x])
      BY DEF QueueInv, InOrder
    <3>2. Sorted(m_operations'[s])
      <4>1. \A x \in ToSet(m_operations[s]) : x < n + 1
        BY <1>1, <1>3, <2>6
      <4> QED
        BY <1>3, <2>4, <2>5, <3>1, <4>1, SortedAppend
    <3>3. \A x \in Queue : Sorted(m_operations'[x])
      BY <2>4, <3>1, <3>2
    <3>4. ASSUME NEW i \in DOMAIN ops', NEW j \in DOMAIN ops', i < j,
                 ops'[i].stream = ops'[j].stream, j \in done'
          PROVE  i \in done'
      <4>1. i \in 1 .. n /\ j \in 1 .. n /\ j \in done
        BY <1>1, <1>3, <2>3, <2>7, <3>4
      <4> QED
        BY <1>1, <1>3, <2>3, <3>4, <4>1 DEF QueueInv, InOrder
    <3> QED
      BY <3>3, <3>4 DEF InOrder
  <2>11. StreamsExist'
    <3>1. \A x \in Queue : m_operations'[x] # <<>> =>
              x \in ToSet(m_streams) \cup {Zero}
      BY <1>5, <2>4 DEF QueueInv, StreamsExist, Waiting
    <3> QED
      BY <1>3, <1>6, <3>1 DEF StreamsExist, Waiting
  <2>12. Barrier'
    <3>1. CASE s = Zero
      <4>1. UsesZero(op)
        BY <1>3, <3>1 DEF UsesZero
      <4>2. host_pc' = "drain" /\ concurrent_streams_empty
        BY <4>1 DEF Pushed, MayPush
      <4>3. \A x \in Stream : m_operations[x] = <<>>
        BY <4>2, Constants DEF concurrent_streams_empty, QueueInv, StreamsExist,
           Waiting, ToSet
      <4>4. \A x \in Stream : m_operations'[x] = <<>>
        BY <2>4, <3>1, <4>3, Constants
      <4> QED
        BY <4>2, <4>4 DEF Barrier, Waiting
    <3>2. CASE s # Zero
      <4>1. m_operations'[Zero] = <<>>
        BY <1>7, <2>4, <3>2, Constants DEF Waiting
      <4> QED
        BY <4>1 DEF Barrier, Waiting
    <3> QED
      BY <3>1, <3>2
  <2>13. Len(ops') + Len(calls') <= MaxOps
    BY <1>1, <1>2, <2>3
  <2> QED
    BY <2>9, <2>10, <2>11, <2>12, <2>13 DEF QueueInv
<1> QED
  BY <1>8, <1>9 DEF TypeInv

\* Operations at the heads of their streams are done: those before them in
\* the stream were.
LEMMA FinishedQueues ==
    ASSUME TypeInv, QueueInv, NEW ss \in SUBSET Queue, \A s \in ss : Waiting(s),
           Finish(ss), SameOps, UNCHANGED <<calls, m_streams, host_pc>>
    PROVE  QueueInv'
<1>1. /\ \A s \in ss : /\ m_operations'[s] = Tail(m_operations[s])
                       /\ m_operations[s] \in Seq(OpId)
                       /\ ToSet(m_operations[s]) = ToSet(m_operations'[s])
                                       \cup {Head(m_operations[s])}
      /\ \A s \in Queue \ ss : m_operations'[s] = m_operations[s]
      /\ \A i : i \in done' <=> \/ i \in done
                                \/ \E s \in ss : i = Head(m_operations[s])
  BY Finished
<1>2. \A s \in ss : /\ Sorted(m_operations'[s])
                    /\ Head(m_operations[s]) \notin ToSet(m_operations'[s])
                    /\ \A x \in ToSet(m_operations[s]) :
                          x = Head(m_operations[s]) \/ Head(m_operations[s]) < x
  <2>1. \A s \in ss : m_operations[s] # <<>> /\ Sorted(m_operations[s])
    BY DEF Waiting, QueueInv, InOrder
  <2> QED
    BY <1>1, <2>1, SortedTail
<1>3. \A s \in ss : /\ Head(m_operations[s]) \in DOMAIN ops
                    /\ Head(m_operations[s]) \in ToSet(m_operations[s])
                    /\ ops[Head(m_operations[s])].stream = s
  BY HeadIsOp
<1>4. /\ done \subseteq DOMAIN ops
      /\ \A s \in Queue : \A i \in ToSet(m_operations[s]) :
            i \in DOMAIN ops /\ ops[i].stream = s /\ i \notin done
      /\ \A i \in DOMAIN ops :
            i \in done \/ i \in ToSet(m_operations[ops[i].stream])
  BY DEF QueueInv, InOwnQueue
<1>5. \A s \in Queue : ToSet(m_operations'[s]) \subseteq ToSet(m_operations[s])
  BY <1>1
<1>6. \A i \in DOMAIN ops : ops[i].stream \in Queue /\ i \in Nat
  BY OpPositions, Constants DEF Operation
<1>7. InOwnQueue'
  <2>1. done' \subseteq DOMAIN ops
    BY <1>1, <1>3, <1>4
  <2>2. ASSUME NEW s \in Queue, NEW i \in ToSet(m_operations'[s])
        PROVE  i \in DOMAIN ops /\ ops[i].stream = s /\ i \notin done'
    <3>1. i \in DOMAIN ops /\ ops[i].stream = s /\ i \notin done
      BY <1>4, <1>5
    <3>2. ASSUME NEW x \in ss, i = Head(m_operations[x]) PROVE FALSE
      <4>1. x = s
        BY <1>3, <3>1, <3>2
      <4> QED
        BY <1>2, <3>2, <4>1
    <3> QED
      BY <1>1, <3>1, <3>2
  <2>3. ASSUME NEW i \in DOMAIN ops
        PROVE  i \in done' \/ i \in ToSet(m_operations'[ops[i].stream])
    BY <1>1, <1>4, <1>6
  <2> QED
    BY <2>1, <2>2, <2>3 DEF InOwnQueue, SameOps
<1>8. InOrder'
  <2>1. \A s \in Queue : Sorted(m_operations'[s])
    BY <1>1, <1>2 DEF QueueInv, InOrder
  <2>2. ASSUME NEW i \in DOMAIN ops, NEW j \in DOMAIN ops, i < j,
               ops[i].stream = ops[j].stream, j \in done', i \notin done'
        PROVE  FALSE
    <3>1. i \notin done
      BY <1>1, <2>2
    <3>2. j \notin done
      BY <2>2, <3>1 DEF QueueInv, InOrder
    <3>3. PICK s \in ss : j = Head(m_operations[s])
      BY <1>1, <2>2, <3>2
    <3>4. i \in ToSet(m_operations[s])
      BY <1>3, <1>4, <2>2, <3>1, <3>3
    <3>5. i = j \/ j < i
      BY <1>2, <3>3, <3>4
    <3> QED
      BY <1>6, <2>2, <3>5
  <2> QED
    BY <2>1, <2>2 DEF InOrder, SameOps
<1>9. \A s \in Queue : Waiting(s)' => Waiting(s)
  BY <1>1 DEF Waiting
<1>10. StreamsExist'
  BY <1>9 DEF QueueInv, StreamsExist
<1>11. Barrier'
  BY <1>9, Constants DEF QueueInv, Barrier
<1> QED
  BY <1>7, <1>8, <1>10, <1>11 DEF QueueInv, SameOps

\* A call other than push leaves all accepted operations alone; it may set out
\* to push new ones.
CallStep ==
    /\ UNCHANGED <<config, ops, m_operations, m_pending, done,
                   m_grid_id_to_stream, gpuVars, check, m_updates, break_limit>>
    /\ sim_pc # "none" => UNCHANGED sim_pc
    /\ \/ UNCHANGED <<calls, m_issued>>
       \/ \E new : /\ calls = <<>> /\ calls' = new /\ MadeCalls(new)
                   /\ Len(ops) + Len(new) <= MaxOps

\* Every step of the host is of this kind, or a push.
LEMMA HostSteps ==
    ASSUME TypeInv, ControlInv, QueueInv, HostCall \/ HostReturn
    PROVE  CallStep \/ \E op, new, s : Pushed(op, new, s)
<1> USE DEF streamVars, gpuVars, flagVars, simVars, hostVars, eventVars,
            HostOnly, HostAt, CallStep
<1>1. CASE start_sim_thread
  BY <1>1 DEF start_sim_thread, ControlInv
<1>2. CASE cudaStreamCreate
  BY <1>2 DEF cudaStreamCreate
<1>3. ASSUME NEW s \in Stream, cudaStreamDestroy(s) PROVE CallStep
  BY <1>3 DEF cudaStreamDestroy
<1>4. ASSUME NEW new, Push(new), MadeCalls(new) PROVE CallStep
  BY <1>4 DEF Push, ControlInv
<1>5. CASE cudaDeviceSynchronize
  BY <1>5 DEF cudaDeviceSynchronize, HostGoes
<1>6. CASE push_drain
  BY <1>6 DEF push_drain
<1>7. CASE synchronize
  BY <1>7 DEF synchronize, HostGoes
<1>8. CASE exit_simulation
  BY <1>8 DEF exit_simulation
<1>9. CASE exit_wait
  BY <1>9 DEF exit_wait
<1>10. CASE destroy_stream_lock
  BY <1>10 DEF destroy_stream_lock
<1>11. CASE destroy_stream
  BY <1>11 DEF destroy_stream
<1>12. CASE push
  BY <1>12, PushMakes
<1>13. ASSUME NEW s \in Queue,
              \/ cudaMemcpy(s) \/ cudaLaunch(s)
              \/ \E e \in Event : cudaEventRecord(e, s) \/ cudaStreamWaitEvent(s, e)
       PROVE  CallStep
  BY <1>4, <1>13, CallsAreMade
<1> QED
  BY <1>1, <1>2, <1>3, <1>5, <1>6, <1>7, <1>8, <1>9, <1>10, <1>11, <1>12, <1>13
     DEF HostCall, HostReturn

\* The calls keep the queues, and the streams of what is left to push.
LEMMA HostQueues ==
    ASSUME TypeInv, ControlInv, QueueInv, HostCall \/ HostReturn
    PROVE  QueueInv'
<1>1. ASSUME CallStep, StreamsExist', Waiting(Zero) => host_pc' = "drain"
      PROVE  QueueInv'
  <2>1. SameOps /\ UNCHANGED <<m_operations, done>>
    BY <1>1, UnchangedOps DEF CallStep
  <2>2. Len(ops) + Len(calls') <= MaxOps
    BY <1>1 DEF CallStep, QueueInv
  <2> QED
    BY <1>1, <2>1, <2>2, QueuesKept
<1>2. ASSUME CallStep, UNCHANGED <<calls, m_streams>> PROVE StreamsExist'
  BY <1>2 DEF CallStep, QueueInv, StreamsExist, Waiting
<1>3. host_pc # "drain" => ~Waiting(Zero)
  BY DEF QueueInv, Barrier
<1>4. CASE \E op, new, s : Pushed(op, new, s)
  BY <1>4, PushedQueues
<1>5. CASE CallStep
  <2> USE DEF listVars, hostVars, HostOnly, HostAt
  <2>1. CASE cudaStreamCreate
    <3>1. /\ m_streams' = Append(m_streams, sm_next_stream_uid)
          /\ sm_next_stream_uid \in Stream /\ host_pc # "drain"
          /\ UNCHANGED calls
      BY <2>1, Constants DEF cudaStreamCreate, TypeInv, Stream
    <3>2. ToSet(m_streams) \subseteq ToSet(m_streams')
      BY <3>1, AppendQueue DEF TypeInv
    <3>3. StreamsExist'
      BY <1>5, <3>1, <3>2 DEF CallStep, QueueInv, StreamsExist, Waiting
    <3> QED
      BY <1>1, <1>3, <1>5, <3>1, <3>3
  <2>2. CASE destroy_stream
    <3>1. PICK i \in DOMAIN m_streams : /\ m_streams[i] = target
                                        /\ m_streams' = RemoveAt(m_streams, i)
      BY <2>2 DEF destroy_stream
    <3>2. /\ m_operations[target] = <<>> /\ host_pc # "drain"
          /\ calls = <<>> /\ calls' = <<>>
      BY <2>2 DEF destroy_stream, ControlInv
    <3>3. \A x \in ToSet(m_streams) : x # target => x \in ToSet(m_streams')
      BY <3>1, RemoveAtQueue DEF TypeInv
    <3>4. StreamsExist'
      <4>1. DOMAIN calls' = {}
        BY <3>2
      <4> QED
        BY <1>5, <3>2, <3>3, <4>1 DEF CallStep, QueueInv, StreamsExist, Waiting
    <3> QED
      BY <1>1, <1>3, <1>5, <3>2, <3>4
  <2>3. ASSUME NEW new, Push(new), MadeCalls(new) PROVE QueueInv'
    <3>1. calls' = new /\ host_pc # "drain" /\ UNCHANGED m_streams
      BY <2>3 DEF Push
    <3>2. \A i \in DOMAIN new : new[i].stream \in ToSet(m_streams) \cup {Zero}
      BY <2>3 DEF MadeCalls, WellMade
    <3>3. StreamsExist'
      BY <1>5, <3>1, <3>2 DEF CallStep, QueueInv, StreamsExist, Waiting
    <3> QED
      BY <1>1, <1>3, <1>5, <3>1, <3>3
  <2>4. CASE push_drain
    <3>1. ~Waiting(Zero) /\ UNCHANGED <<calls, m_streams>>
      BY <2>4 DEF push_drain, empty, Waiting
    <3> QED
      BY <1>1, <1>2, <1>5, <3>1
  <2>5. ASSUME host_pc # "drain", UNCHANGED <<calls, m_streams>> PROVE QueueInv'
    BY <1>1, <1>2, <1>3, <1>5, <2>5
  <2>6. CASE start_sim_thread
    BY <2>5, <2>6 DEF start_sim_thread
  <2>7. ASSUME NEW s \in Stream, cudaStreamDestroy(s) PROVE QueueInv'
    BY <2>5, <2>7 DEF cudaStreamDestroy
  <2>8. CASE cudaDeviceSynchronize \/ synchronize
    BY <2>5, <2>8 DEF cudaDeviceSynchronize, synchronize, HostGoes
  <2>9. CASE exit_simulation \/ exit_wait
    BY <2>5, <2>9 DEF exit_simulation, exit_wait
  <2>10. CASE destroy_stream_lock
    BY <2>5, <2>10 DEF destroy_stream_lock
  <2>11. ASSUME NEW s \in Queue,
                \/ cudaMemcpy(s) \/ cudaLaunch(s)
                \/ \E e \in Event : cudaEventRecord(e, s)
                                    \/ cudaStreamWaitEvent(s, e)
         PROVE  QueueInv'
    BY <2>3, <2>11, CallsAreMade
  <2>12. CASE push
    BY <1>4, <2>12, PushMakes
  <2> QED
    BY <2>1, <2>2, <2>4, <2>6, <2>7, <2>8, <2>9, <2>10, <2>11, <2>12
       DEF HostCall, HostReturn
<1> QED
  BY <1>4, <1>5, HostSteps

\* What the simulation thread does to the operations: nothing that counts, or
\* it ends kernels that are at the heads of their streams, or it carries out one
\* operation that is ready.
KeepStep == SameOps /\ UNCHANGED <<m_operations, done, m_updates>>

EndKernels(ss) ==
    /\ ss \in SUBSET Queue
    /\ \A s \in ss : Waiting(s) /\ ops[Head(m_operations[s])].kind = "kernel"
    /\ Finish(ss)
    /\ UNCHANGED <<ops, m_updates>>

CarryOut(s) ==
    /\ s \in Queue /\ Waiting(s)
    /\ do_immediate(s, ops[Head(m_operations[s])])

\* That is all it does, and it leaves the host's variables alone.
LEMMA SimSteps ==
    ASSUME TypeInv, ControlInv, QueueInv, KernelInv, Simulation
    PROVE  /\ KeepStep \/ (\E ss : EndKernels(ss)) \/ (\E s : CarryOut(s))
           /\ UNCHANGED <<m_cuda_launch_blocking, m_streams, m_issued, host_pc, calls>>
           /\ max_hit => max_hit'
<1> USE DEF config, streamVars, listVars, gpuVars, hostVars, eventVars, SimOnly,
            SimGoes
<1>0. UNCHANGED ops => SameOps
  BY UnchangedOps
<1>1. CASE detect_work \/ start_simulation \/ loop_test
  BY <1>0, <1>1 DEF detect_work, start_simulation, loop_test, KeepStep
<1>2. CASE stop_simulation
  BY <1>0, <1>2 DEF stop_simulation, KeepStep
<1>3. ASSUME Mapped, NEW ids, ids \subseteq OnGpu, Register(ids), UNCHANGED m_updates
      PROVE  EndKernels(StreamsOf(ids))
  BY <1>3, StreamsOfKernels, Registered DEF EndKernels
<1>4. CASE check_finished_kernel
  <2>1. /\ UNCHANGED <<m_cuda_launch_blocking, m_streams, m_issued, host_pc, calls>>
        /\ UNCHANGED <<max_hit, m_updates>>
    BY <1>4 DEF check_finished_kernel
  <2>2. CASE m_finished_kernel = <<>>
    BY <1>0, <1>4, <2>1, <2>2 DEF check_finished_kernel, KeepStep
  <2>3. CASE m_finished_kernel # <<>>
    <3>1. Mapped /\ {Head(m_finished_kernel)} \subseteq OnGpu
      BY <1>4, <2>3, KernelsOnGpu DEF check_finished_kernel, ControlInv, KernelInv
    <3>2. Register({Head(m_finished_kernel)})
      BY <1>4, <2>3 DEF check_finished_kernel
    <3> QED
      BY <1>3, <2>1, <3>1, <3>2
  <2> QED
    BY <2>2, <2>3
<1>5. CASE operation
  <2>1. /\ UNCHANGED <<m_cuda_launch_blocking, m_streams, m_issued, host_pc, calls>>
        /\ UNCHANGED max_hit
    BY <1>5 DEF operation
  <2>2. CASE no_op
    BY <1>0, <2>1, <2>2 DEF no_op, KeepStep
  <2>3. ASSUME NEW s \in front, do_immediate(s, ops[Head(m_operations[s])])
        PROVE  CarryOut(s)
    BY <2>3, FrontIsStartable DEF CarryOut
  <2>4. ASSUME NEW s \in front, do_launch(s, ops[Head(m_operations[s])])
        PROVE  KeepStep
    BY <1>0, <2>4 DEF do_launch, KeepStep
  <2>5. ASSUME NEW s \in front, do_cancel(s, ops[Head(m_operations[s])])
        PROVE  KeepStep
    <3>1. s \in Queue /\ Head(m_operations[s]) \in DOMAIN ops
      BY FrontIsStartable, HeadIsOp
    <3>2. SameOps
      BY <2>5, <3>1, Cancelled DEF do_cancel
    <3> QED
      BY <2>5, <3>2 DEF do_cancel, KeepStep
  <2> QED
    BY <1>5, <2>1, <2>2, <2>3, <2>4, <2>5 DEF operation
<1>6. CASE functional_sim
  <2>1. Mapped /\ {m_functional_sim_kernel} \subseteq OnGpu
    BY <1>6, KernelsOnGpu DEF functional_sim, ControlInv, KernelInv
  <2>2. /\ Register({m_functional_sim_kernel})
        /\ UNCHANGED <<m_cuda_launch_blocking, m_streams, m_issued, host_pc, calls>>
        /\ UNCHANGED <<max_hit, m_updates>>
    BY <1>6 DEF functional_sim
  <2> QED
    BY <1>3, <2>1, <2>2
<1>7. ASSUME NEW F \in SUBSET m_running_kernels, cycle(F)
      PROVE  /\ KeepStep /\ ~max_hit
             /\ UNCHANGED <<m_cuda_launch_blocking, m_streams, m_issued, host_pc,
                            calls>>
  BY <1>0, <1>7 DEF cycle, KeepStep, active, ActiveWith
<1>8. CASE idle_or_limit
  <2>1. /\ UNCHANGED <<m_cuda_launch_blocking, m_streams, m_issued, host_pc, calls>>
        /\ UNCHANGED <<max_hit, m_updates>>
    BY <1>8 DEF idle_or_limit
  <2>2. CASE ~max_hit
    BY <1>0, <1>8, <2>1, <2>2 DEF idle_or_limit, KeepStep
  <2>3. CASE max_hit
    <3>1. Mapped /\ ToSet(m_finished_kernel) \subseteq OnGpu
      BY <1>8, KernelsOnGpu DEF idle_or_limit, ControlInv, KernelInv
    <3>2. Register(ToSet(m_finished_kernel))
      BY <1>8, <2>3, RangeIsToSet DEF idle_or_limit
    <3> QED
      BY <1>3, <2>1, <3>1, <3>2
  <2> QED
    BY <2>2, <2>3
<1> QED
  BY <1>1, <1>2, <1>4, <1>5, <1>6, <1>7, <1>8 DEF Simulation, Cycle

\* The simulation thread keeps the queues in order.
LEMMA SimQueues ==
    ASSUME TypeInv, ControlInv, QueueInv, KernelInv, Simulation
    PROVE  QueueInv'
<1>1. UNCHANGED <<m_streams, host_pc, calls>>
  BY SimSteps
<1>2. CASE KeepStep
  <2>1. StreamsExist' /\ Len(ops) + Len(calls') <= MaxOps
    BY <1>1, <1>2 DEF KeepStep, QueueInv, StreamsExist, Waiting
  <2>2. Waiting(Zero) => host_pc' = "drain"
    BY <1>1 DEF QueueInv, Barrier
  <2> QED
    BY <1>2, <2>1, <2>2, QueuesKept DEF KeepStep
<1>3. ASSUME NEW ss, EndKernels(ss) PROVE QueueInv'
  BY <1>1, <1>3, UnchangedOps, FinishedQueues DEF EndKernels
<1>4. ASSUME NEW s, CarryOut(s) PROVE QueueInv'
  <2>1. {s} \in SUBSET Queue /\ (\A x \in {s} : Waiting(x)) /\ Finish({s}) /\ SameOps
    BY <1>4, UnchangedOps DEF CarryOut, do_immediate
  <2> QED
    BY <1>1, <2>1, FinishedQueues
<1> QED
  BY <1>2, <1>3, <1>4, SimSteps

-----------------------------------------------------------------------------
(* Where a kernel is *)

\* Calls leave the kernels alone; an operation that is pushed does not become
\* the head of a stream that has a kernel.
LEMMA HostKernels ==
    ASSUME TypeInv, ControlInv, QueueInv, KernelInv, HostCall \/ HostReturn
    PROVE  KernelInv'
<1>1. CASE CallStep
  <2>1. /\ UNCHANGED <<ops, m_operations, m_pending, m_grid_id_to_stream,
                       m_running_kernels, m_finished_kernel,
                       m_functional_sim_kernel, check, break_limit, g_ptx_sim_mode>>
        /\ sim_pc # "none" => UNCHANGED sim_pc
    BY <1>1 DEF CallStep, gpuVars, config
  <2>2. Mapped => Mapped'
    BY <2>1 DEF Mapped, OnGpu, Waiting
  <2>3. OnePlace => OnePlace'
    BY <2>1 DEF OnePlace
  <2>4. ModeInv'
    BY <2>1 DEF KernelInv, ModeInv
  <2> QED
    BY <2>1, <2>2, <2>3, <2>4 DEF KernelInv
<1>2. ASSUME NEW op, NEW new, NEW s, Pushed(op, new, s) PROVE KernelInv'
  <2>1. /\ UNCHANGED <<m_pending, m_grid_id_to_stream, m_running_kernels,
                       m_finished_kernel, m_functional_sim_kernel, check,
                       break_limit, g_ptx_sim_mode, sim_pc>>
    BY <1>2 DEF Pushed, gpuVars, config, simVars, flagVars
  <2>2. OnePlace => OnePlace'
    BY <2>1 DEF OnePlace
  <2>3. ModeInv'
    BY <2>1 DEF KernelInv, ModeInv
  <2>4. ASSUME Mapped PROVE Mapped'
    <3>1. UNCHANGED OnGpu
      BY <2>1 DEF OnGpu
    <3>2. ASSUME NEW x \in Queue, Waiting(x)
          PROVE  /\ Waiting(x)' /\ Head(m_operations'[x]) = Head(m_operations[x])
                 /\ ops'[Head(m_operations[x])].kind = ops[Head(m_operations[x])].kind
      <4>1. Head(m_operations[x]) \in DOMAIN ops
        BY <3>2, HeadIsOp
      <4>2. CASE max_hit
        BY <1>2, <3>2, <4>2 DEF Pushed, Waiting
      <4>3. CASE ~max_hit
        <5>1. /\ ops' = Append(ops, new) /\ new \in Operation /\ s \in Queue
              /\ m_operations' = [m_operations EXCEPT ![s] = Append(@, Len(ops) + 1)]
              /\ m_operations \in [Queue -> Seq(OpId)]
              /\ m_operations' \in [Queue -> Seq(OpId)]
          BY <1>2, <4>3, PushedTypes DEF Pushed, TypeInv
        <5>2. \A i \in DOMAIN ops : ops'[i] = ops[i]
          BY <5>1, LenProperties, AppendProperties DEF TypeInv
        <5>3. Len(ops) \in Nat /\ m_operations[x] \in Seq(Nat) /\ m_operations[x] # <<>>
          BY <3>2, <5>1, OpPositions, SeqMonotonic, Constants DEF Waiting
        <5>4. LET q == Append(m_operations[x], Len(ops) + 1)
              IN  q # <<>> /\ Head(q) = Head(m_operations[x])
          BY <5>3, AppendQueue
        <5>5. \/ m_operations'[x] = m_operations[x]
              \/ m_operations'[x] = Append(m_operations[x], Len(ops) + 1)
          BY <5>1
        <5> QED
          BY <3>2, <4>1, <5>2, <5>4, <5>5 DEF Waiting
      <4> QED
        BY <4>2, <4>3
    <3>3. \A k \in OnGpu : k \in OpId /\ m_grid_id_to_stream[k] \in Queue
      BY <2>4, KernelsOnGpu DEF Mapped, TypeInv
    <3> QED
      BY <2>1, <2>4, <3>1, <3>2, <3>3 DEF Mapped
  <2> QED
    BY <2>1, <2>2, <2>3, <2>4 DEF KernelInv
<1> QED
  BY <1>1, <1>2, HostSteps

\* Registered kernels leave the map and their streams; the others stay.
LEMMA RegisteredMap ==
    ASSUME TypeInv, Mapped, NEW ids, ids \subseteq OnGpu, Register(ids),
           OnGpu' = OnGpu \ ids
    PROVE  Mapped'
<1> DEFINE ss == StreamsOf(ids)
<1>1. /\ ids \subseteq OpId /\ ss \in SUBSET Queue
      /\ \A s \in ss : Waiting(s)
      /\ \A k \in OnGpu : m_grid_id_to_stream[k] \in ss => k \in ids
  BY StreamsOfKernels
<1>2. \A k \in ids : m_grid_id_to_stream[k] \in ss
  BY DEF StreamsOf
<1> HIDE DEF ss
<1>3. /\ Finish(ss) /\ UNCHANGED ops
      /\ \A k \in OpId : m_grid_id_to_stream'[k] =
            IF k \in ids THEN NoStream ELSE m_grid_id_to_stream[k]
  BY Registered DEF ss
<1>4. /\ \A s \in ss : ~m_pending'[s]
      /\ \A s \in Queue \ ss : /\ m_operations'[s] = m_operations[s]
                               /\ m_pending'[s] = m_pending[s]
  BY <1>1, <1>3, Finished
<1>5. OnGpu \subseteq OpId /\ \A k \in OnGpu : m_grid_id_to_stream[k] \in Queue
  BY KernelsOnGpu DEF Mapped, TypeInv
<1>6. \A k \in OpId : k \in OnGpu' <=> m_grid_id_to_stream'[k] # NoStream
  BY <1>3 DEF Mapped
<1>7. ASSUME NEW k \in OnGpu'
      PROVE  LET s == m_grid_id_to_stream'[k]
             IN  /\ m_pending'[s] /\ m_operations'[s] # <<>>
                 /\ Head(m_operations'[s]) = k /\ ops'[k].kind = "kernel"
  <2>1. k \in OnGpu /\ k \notin ids
    OBVIOUS
  <2>2. /\ m_grid_id_to_stream'[k] = m_grid_id_to_stream[k]
        /\ m_grid_id_to_stream[k] \in Queue \ ss
    BY <1>1, <1>3, <1>5, <2>1
  <2> QED
    BY <1>3, <1>4, <2>1, <2>2 DEF Mapped, Waiting
<1>8. ASSUME NEW s \in Queue, m_pending'[s]
      PROVE  \E k \in OnGpu' : m_grid_id_to_stream'[k] = s
  <2>1. s \notin ss /\ m_pending[s]
    BY <1>4, <1>8
  <2>2. PICK k \in OnGpu : m_grid_id_to_stream[k] = s
    BY <2>1 DEF Mapped
  <2>3. k \notin ids
    BY <1>2, <2>1, <2>2
  <2> QED
    BY <1>3, <1>5, <2>2, <2>3
<1> QED
  BY <1>6, <1>7, <1>8 DEF Mapped, Waiting

\* A kernel that is launched is mapped to its stream, and was nowhere before.
LEMMA LaunchedKernel ==
    ASSUME TypeInv, QueueInv, Mapped, OnePlace, ModeInv, sim_pc = "operation",
           NEW s \in front, do_launch(s, ops[Head(m_operations[s])]),
           UNCHANGED m_finished_kernel
    PROVE  Mapped' /\ OnePlace'
<1> DEFINE k == Head(m_operations[s])
<1>1. s \in Queue /\ Waiting(s) /\ ~m_pending[s]
  BY FrontIsStartable
<1>2. k \in DOMAIN ops /\ k \in OpId /\ ops[k].stream = s
  BY <1>1, HeadIsOp
<1>3. /\ ops[k].kind = "kernel" /\ m_functional_sim_kernel = NoKernel
      /\ m_pending' = [m_pending EXCEPT ![s] = TRUE]
      /\ m_grid_id_to_stream' = [m_grid_id_to_stream EXCEPT ![k] = s]
      /\ IF g_ptx_sim_mode
         THEN /\ m_functional_sim_kernel' = k
              /\ UNCHANGED m_running_kernels
         ELSE /\ m_running_kernels' = m_running_kernels \cup {k}
              /\ UNCHANGED m_functional_sim_kernel
      /\ UNCHANGED <<ops, m_operations>>
  BY DEF do_launch, KernelReady, ModeInv
<1>4. OnGpu \subseteq OpId /\ \A x \in OnGpu : m_grid_id_to_stream[x] \in Queue
  BY KernelsOnGpu DEF Mapped, TypeInv
<1>5. k \notin OnGpu
  <2>1. SUFFICES ASSUME k \in OnGpu PROVE FALSE
    OBVIOUS
  <2> DEFINE t == m_grid_id_to_stream[k]
  <2>2. t \in Queue /\ Waiting(t) /\ m_pending[t] /\ Head(m_operations[t]) = k
    BY <1>4, <2>1 DEF Mapped
  <2>3. ops[k].stream = t
    BY <2>2, HeadIsOp
  <2> QED
    BY <1>1, <1>2, <2>2, <2>3
<1> HIDE DEF k
<1>6. \A x : x \in OnGpu' <=> x \in OnGpu \/ x = k
  <2>1. \A x : x \in OnGpu <=> \/ x \in m_running_kernels
                               \/ x \in Range(m_finished_kernel)
    BY <1>3 DEF OnGpu
  <2>2. \A x : x \in OnGpu' <=> \/ x \in m_running_kernels'
                                \/ x \in Range(m_finished_kernel)
                                \/ x = m_functional_sim_kernel' /\ x # NoKernel
    BY DEF OnGpu
  <2>3. k # NoKernel
    BY <1>2, Constants
  <2> QED
    BY <1>3, <2>1, <2>2, <2>3
<1>7. /\ m_grid_id_to_stream'[k] = s
      /\ \A x \in OpId : x # k => m_grid_id_to_stream'[x] = m_grid_id_to_stream[x]
      /\ m_pending'[s]
      /\ \A x \in Queue : x # s => m_pending'[x] = m_pending[x]
  BY <1>1, <1>2, <1>3 DEF TypeInv
<1>8. Mapped'
  <2>1. \A x \in OpId : x \in OnGpu' <=> m_grid_id_to_stream'[x] # NoStream
    BY <1>1, <1>6, <1>7, Constants DEF Mapped
  <2>2. ASSUME NEW x \in OnGpu'
        PROVE  LET t == m_grid_id_to_stream'[x]
               IN  /\ m_pending'[t] /\ m_operations'[t] # <<>>
                   /\ Head(m_operations'[t]) = x /\ ops'[x].kind = "kernel"
    <3>1. CASE x = k
      BY <1>1, <1>3, <1>7, <3>1 DEF Waiting, k
    <3>2. CASE x # k
      <4>1. x \in OnGpu
        BY <1>6, <3>2
      <4>2. m_grid_id_to_stream'[x] = m_grid_id_to_stream[x]
            /\ m_grid_id_to_stream[x] \in Queue
        BY <1>4, <1>7, <3>2, <4>1
      <4> QED
        BY <1>3, <1>7, <4>1, <4>2 DEF Mapped, Waiting
    <3> QED
      BY <3>1, <3>2
  <2>3. ASSUME NEW x \in Queue, m_pending'[x]
        PROVE  \E y \in OnGpu' : m_grid_id_to_stream'[y] = x
    BY <1>4, <1>5, <1>6, <1>7, <2>3 DEF Mapped
  <2> QED
    BY <2>1, <2>2, <2>3 DEF Mapped, Waiting
<1>9. OnePlace'
  <2>1. k \notin m_running_kernels /\ k \notin ToSet(m_finished_kernel)
    BY <1>5, KernelsOnGpu
  <2>2. NoKernel \notin m_running_kernels /\ NoKernel \notin ToSet(m_finished_kernel)
        /\ k # NoKernel
    BY <1>2, <1>4, KernelsOnGpu, Constants
  <2> QED
    BY <1>3, <2>1, <2>2 DEF OnePlace
<1> QED
  BY <1>8, <1>9

\* An operation of a stream without a kernel is done.
LEMMA CarriedOutMap ==
    ASSUME TypeInv, Mapped, NEW s \in Queue, Waiting(s), ~m_pending[s],
           Finish({s}),
           UNCHANGED <<ops, m_grid_id_to_stream, m_running_kernels,
                       m_finished_kernel, m_functional_sim_kernel>>
    PROVE  Mapped'
<1>1. UNCHANGED OnGpu
  BY DEF OnGpu
<1>2. /\ ~m_pending'[s]
      /\ \A x \in Queue \ {s} : /\ m_operations'[x] = m_operations[x]
                                /\ m_pending'[x] = m_pending[x]
  <2>1. {s} \in SUBSET Queue /\ \A x \in {s} : Waiting(x)
    OBVIOUS
  <2> QED
    BY <2>1, Finished
<1>3. \A k \in OnGpu : k \in OpId /\ m_grid_id_to_stream[k] \in Queue \ {s}
  BY KernelsOnGpu DEF Mapped, TypeInv
<1> QED
  BY <1>1, <1>2, <1>3 DEF Mapped, Waiting

\* Every step of the simulation thread keeps each kernel in one place.
LEMMA SimKernels ==
    ASSUME TypeInv, ControlInv, QueueInv, KernelInv, Simulation
    PROVE  KernelInv'
<1> USE DEF SimGoes
<1>0. UNCHANGED g_ptx_sim_mode
  BY DEF Simulation, Cycle, detect_work, start_simulation, check_finished_kernel,
     operation, functional_sim, cycle, idle_or_limit, loop_test, stop_simulation,
     SimOnly, config
<1>1. ASSUME UNCHANGED <<ops, m_operations, m_pending, m_grid_id_to_stream,
                         m_running_kernels, m_finished_kernel,
                         m_functional_sim_kernel, break_limit>>
      PROVE  (~break_limit' => Mapped' /\ OnePlace')
  <2>1. Mapped => Mapped'
    BY <1>1 DEF Mapped, OnGpu, Waiting
  <2>2. OnePlace => OnePlace'
    BY <1>1 DEF OnePlace
  <2> QED
    BY <1>1, <2>1, <2>2 DEF KernelInv
<1>2. CASE detect_work \/ start_simulation \/ loop_test \/ stop_simulation
  <2>1. /\ UNCHANGED <<ops, m_operations, m_pending, m_grid_id_to_stream,
                       m_running_kernels, m_finished_kernel,
                       m_functional_sim_kernel, break_limit, check>>
        /\ sim_pc # "gpu"
    BY <1>2 DEF detect_work, start_simulation, loop_test, stop_simulation,
       streamVars, gpuVars
  <2>2. ModeInv'
    BY <1>0, <2>1 DEF KernelInv, ModeInv
  <2> QED
    BY <1>1, <2>1, <2>2 DEF KernelInv
<1>3. CASE check_finished_kernel
  <2>0. /\ sim_pc = "check" /\ m_functional_sim_kernel = NoKernel /\ ~break_limit
        /\ UNCHANGED <<m_running_kernels, m_functional_sim_kernel, break_limit>>
        /\ Mapped /\ OnePlace
    BY <1>3 DEF check_finished_kernel, KernelInv, ModeInv, ControlInv
  <2>1. CASE m_finished_kernel = <<>>
    <3>1. /\ UNCHANGED <<ops, m_operations, m_pending, m_grid_id_to_stream,
                         m_finished_kernel>>
          /\ check' = FALSE
      BY <1>3, <2>1 DEF check_finished_kernel, streamVars
    <3>2. ModeInv'
      BY <1>0, <2>0, <3>1 DEF KernelInv, ModeInv
    <3> QED
      BY <1>1, <2>0, <3>1, <3>2 DEF KernelInv
  <2>2. CASE m_finished_kernel # <<>>
    <3> DEFINE k == Head(m_finished_kernel)
               rest == Tail(m_finished_kernel)
    <3>1. Register({k}) /\ m_finished_kernel' = rest
      BY <1>3, <2>2 DEF check_finished_kernel
    <3>2. /\ ToSet(m_finished_kernel) = ToSet(rest) \cup {k} /\ k \in OpId
          /\ Once(rest, OpId) /\ k \notin ToSet(rest)
      BY <2>0, <2>2, TailQueue, TailOnce DEF TypeInv, OnePlace
    <3> HIDE DEF k, rest
    <3>3. {k} \subseteq OnGpu
      BY <3>2, KernelsOnGpu
    <3>4. OnGpu' = OnGpu \ {k}
      <4>1. OnGpu = m_running_kernels \cup ToSet(m_finished_kernel)
        BY <2>0, RangeIsToSet DEF OnGpu
      <4>2. OnGpu' = m_running_kernels \cup ToSet(rest)
        BY <2>0, <3>1, RangeIsToSet DEF OnGpu
      <4>3. k \notin m_running_kernels
        BY <2>0, <3>2 DEF OnePlace
      <4> QED
        BY <3>2, <4>1, <4>2, <4>3
    <3>5. Mapped'
      BY <2>0, <3>1, <3>3, <3>4, RegisteredMap
    <3>6. OnePlace'
      BY <2>0, <3>1, <3>2 DEF OnePlace
    <3>7. ~g_ptx_sim_mode
      BY <2>2 DEF KernelInv, ModeInv
    <3> QED
      BY <1>0, <2>0, <3>5, <3>6, <3>7 DEF KernelInv, ModeInv
  <2> QED
    BY <2>1, <2>2
<1>4. CASE operation
  <2>0. /\ sim_pc = "operation" /\ m_functional_sim_kernel = NoKernel
        /\ ~break_limit /\ check' = FALSE
        /\ UNCHANGED <<m_finished_kernel, break_limit>>
        /\ Mapped /\ OnePlace /\ ModeInv
        /\ sim_pc' = IF Leaves THEN "stop" ELSE "gpu"
    BY <1>4 DEF operation, KernelInv, ModeInv, ControlInv
  <2>1. ASSUME UNCHANGED <<m_running_kernels, m_functional_sim_kernel>>
        PROVE  ModeInv'
    BY <1>0, <2>0, <2>1 DEF ModeInv
  <2>2. CASE no_op
    <3>1. UNCHANGED <<ops, m_operations, m_pending, m_grid_id_to_stream,
                      m_running_kernels, m_functional_sim_kernel>>
      BY <2>2 DEF no_op, streamVars
    <3> QED
      BY <1>1, <2>0, <2>1, <3>1 DEF KernelInv
  <2>3. ASSUME NEW s \in front, do_immediate(s, ops[Head(m_operations[s])])
        PROVE  KernelInv'
    <3>1. /\ Finish({s})
          /\ UNCHANGED <<ops, m_grid_id_to_stream, m_running_kernels,
                         m_functional_sim_kernel>>
      BY <2>3 DEF do_immediate
    <3>2. Mapped'
      BY <2>0, <3>1, FrontIsStartable, CarriedOutMap
    <3>3. OnePlace'
      BY <2>0, <3>1 DEF OnePlace
    <3> QED
      BY <2>1, <3>1, <3>2, <3>3 DEF KernelInv
  <2>4. ASSUME NEW s \in front, do_launch(s, ops[Head(m_operations[s])])
        PROVE  KernelInv'
    <3>1. Mapped' /\ OnePlace'
      BY <2>0, <2>4, LaunchedKernel
    <3>2. ModeInv'
      <4>1. CASE g_ptx_sim_mode
        <5>1. sim_pc' = "gpu" /\ UNCHANGED m_running_kernels
          BY <2>0, <2>4, <4>1 DEF ModeInv, Leaves, do_launch
        <5> QED
          BY <1>0, <2>0, <4>1, <5>1 DEF ModeInv
      <4>2. CASE ~g_ptx_sim_mode
        <5>1. UNCHANGED m_functional_sim_kernel
          BY <2>4, <4>2 DEF do_launch
        <5> QED
          BY <1>0, <2>0, <4>2, <5>1 DEF ModeInv
      <4> QED
        BY <4>1, <4>2
    <3> QED
      BY <3>1, <3>2 DEF KernelInv
  <2>5. ASSUME NEW s \in front, do_cancel(s, ops[Head(m_operations[s])])
        PROVE  KernelInv'
    <3>1. s \in Queue /\ Head(m_operations[s]) \in DOMAIN ops
      BY FrontIsStartable, HeadIsOp
    <3>2. SameOps
      BY <2>5, <3>1, Cancelled DEF do_cancel
    <3>3. UNCHANGED <<m_operations, m_pending, m_running_kernels,
                      m_functional_sim_kernel, m_grid_id_to_stream>>
      BY <2>5 DEF do_cancel, CancelledMap
    <3>4. ASSUME NEW k \in OnGpu PROVE k \in DOMAIN ops
      <4>1. /\ m_grid_id_to_stream[k] \in Queue /\ Waiting(m_grid_id_to_stream[k])
            /\ Head(m_operations[m_grid_id_to_stream[k]]) = k
        BY <2>0, KernelsOnGpu DEF Mapped, TypeInv
      <4> QED
        BY <4>1, HeadIsOp
    <3>5. UNCHANGED OnGpu
      BY <2>0, <3>3 DEF OnGpu
    <3>6. Mapped'
      BY <2>0, <3>2, <3>3, <3>4, <3>5 DEF Mapped, Waiting, SameOps
    <3>7. OnePlace'
      BY <2>0, <3>3 DEF OnePlace
    <3> QED
      BY <2>1, <3>3, <3>6, <3>7 DEF KernelInv
  <2> QED
    BY <1>4, <2>2, <2>3, <2>4, <2>5 DEF operation
<1>5. CASE functional_sim
  <2> DEFINE k == m_functional_sim_kernel
  <2>0. /\ k # NoKernel /\ Register({k}) /\ m_functional_sim_kernel' = NoKernel
        /\ UNCHANGED <<m_running_kernels, m_finished_kernel, break_limit, check>>
        /\ Mapped /\ OnePlace
    BY <1>5 DEF functional_sim, KernelInv, ControlInv
  <2>1. {k} \subseteq OnGpu
    BY <2>0, KernelsOnGpu
  <2>2. OnGpu' = OnGpu \ {k}
    <3>1. OnGpu = m_running_kernels \cup Range(m_finished_kernel) \cup {k}
      BY <2>0 DEF OnGpu
    <3>2. OnGpu' = m_running_kernels \cup Range(m_finished_kernel)
      BY <2>0 DEF OnGpu
    <3>3. k \notin m_running_kernels /\ k \notin Range(m_finished_kernel)
      BY <2>0, RangeIsToSet DEF OnePlace
    <3> QED
      BY <3>1, <3>2, <3>3
  <2>3. Mapped'
    BY <2>0, <2>1, <2>2, RegisteredMap
  <2>4. NoKernel \notin m_running_kernels /\ NoKernel \notin ToSet(m_finished_kernel)
    BY KernelsOnGpu, Constants
  <2>5. OnePlace'
    BY <2>0, <2>4 DEF OnePlace
  <2>6. ModeInv'
    BY <1>0, <2>0 DEF KernelInv, ModeInv
  <2> QED
    BY <2>3, <2>5, <2>6 DEF KernelInv
<1>6. ASSUME NEW F \in SUBSET m_running_kernels, cycle(F) PROVE KernelInv'
  <2>0. /\ m_functional_sim_kernel = NoKernel
        /\ m_running_kernels' = m_running_kernels \ F
        /\ UNCHANGED <<ops, m_operations, m_pending, m_grid_id_to_stream,
                       m_functional_sim_kernel, break_limit, check>>
        /\ Mapped /\ OnePlace
    BY <1>6 DEF cycle, streamVars, KernelInv, ControlInv
  <2>1. F \in SUBSET OpId /\ IsFiniteSet(F)
    BY Constants, FS_Subset DEF TypeInv
  <2>2. PICK order \in SetToSeqs(F) :
            m_finished_kernel' = m_finished_kernel \o order
    BY <1>6 DEF cycle
  <2>3. order \in Seq(OpId) /\ ToSet(order) = F /\ Once(order, F)
    BY <2>1, Listed, SeqMonotonic
  <2>4. Once(order, OpId)
    <3>1. \A i \in DOMAIN order : order[i] \in F
      BY <2>3 DEF ToSet
    <3> QED
      BY <2>3, <3>1 DEF Once
  <2>5. /\ m_finished_kernel' \in Seq(OpId)
        /\ ToSet(m_finished_kernel') = ToSet(m_finished_kernel) \cup F
    BY <2>2, <2>3, ConcatQueue DEF TypeInv
  <2>6. Once(m_finished_kernel', OpId)
    <3>1. OpId \cap ToSet(m_finished_kernel) \cap ToSet(order) = {}
      BY <2>0, <2>3 DEF OnePlace
    <3> QED
      BY <2>0, <2>2, <2>3, <2>4, <3>1, ConcatOnce DEF TypeInv, OnePlace
  <2>7. OnGpu' = OnGpu
    <3>1. OnGpu = m_running_kernels \cup ToSet(m_finished_kernel)
      BY <2>0, RangeIsToSet DEF OnGpu
    <3>2. OnGpu' = (m_running_kernels \ F) \cup ToSet(m_finished_kernel')
      BY <2>0, RangeIsToSet DEF OnGpu
    <3> QED
      BY <2>5, <3>1, <3>2
  <2>8. Mapped'
    BY <2>0, <2>7 DEF Mapped, Waiting
  <2>9. OnePlace'
    <3>1. NoKernel \notin m_running_kernels
          /\ NoKernel \notin ToSet(m_finished_kernel) \cup F
      BY <2>1, KernelsOnGpu, Constants
    <3> QED
      BY <2>0, <2>5, <2>6, <3>1 DEF OnePlace
  <2>10. ModeInv'
    <3>1. ASSUME g_ptx_sim_mode PROVE m_running_kernels' = {} /\ m_finished_kernel' = <<>>
      <4>1. F = {} /\ m_running_kernels = {} /\ m_finished_kernel = <<>>
        BY <3>1 DEF KernelInv, ModeInv
      <4>2. ToSet(m_finished_kernel') = {}
        BY <2>5, <4>1, EmptyQueue
      <4> QED
        BY <2>0, <2>5, <4>1, <4>2, QueueElements
    <3> QED
      BY <1>0, <2>0, <3>1 DEF KernelInv, ModeInv
  <2> QED
    BY <2>8, <2>9, <2>10 DEF KernelInv
<1>7. CASE idle_or_limit
  <2>0. /\ m_functional_sim_kernel = NoKernel
        /\ UNCHANGED <<m_functional_sim_kernel, check>>
    BY <1>7 DEF idle_or_limit
  <2>1. CASE ~max_hit
    <3>1. UNCHANGED <<ops, m_operations, m_pending, m_grid_id_to_stream,
                      m_running_kernels, m_finished_kernel, break_limit>>
      BY <1>7, <2>1 DEF idle_or_limit, streamVars
    <3>2. ModeInv'
      BY <1>0, <2>0, <3>1 DEF KernelInv, ModeInv
    <3> QED
      BY <1>1, <2>0, <3>1, <3>2 DEF KernelInv
  <2>2. CASE max_hit
    <3>1. break_limit' = TRUE /\ m_running_kernels' = {}
      BY <1>7, <2>2 DEF idle_or_limit
    <3>2. PICK order \in SetToSeqs(m_running_kernels) :
              m_finished_kernel' = IF order = <<>> THEN <<>> ELSE Tail(order)
      BY <1>7, <2>2 DEF idle_or_limit
    <3>3. m_running_kernels = {} => m_finished_kernel' = <<>>
      <4>1. SUFFICES ASSUME m_running_kernels = {} PROVE order = <<>>
        BY <3>2
      <4>2. IsFiniteSet({})
        BY FS_EmptySet
      <4>3. order \in Seq({}) /\ ToSet(order) = {}
        BY <4>1, <4>2, Listed
      <4> QED
        BY <4>3, QueueElements
    <3> QED
      BY <1>0, <2>0, <3>1, <3>3 DEF KernelInv, ModeInv
  <2> QED
    BY <2>1, <2>2
<1> QED
  BY <1>2, <1>3, <1>4, <1>5, <1>6, <1>7 DEF Simulation, Cycle

-----------------------------------------------------------------------------
(* What the counts of an event stand for *)

\* The same operations have the same records.
LEMMA SameRecords ==
    ASSUME SameOps, NEW e
    PROVE  Rec(ops', e) = Rec(ops, e)
BY DEF Rec, SameOps

\* Records are finitely many operations.
LEMMA FiniteRecords ==
    ASSUME TypeInv, QueueInv, NEW e
    PROVE  /\ Rec(ops, e) \subseteq DOMAIN ops /\ IsFiniteSet(Rec(ops, e))
           /\ Cardinality(Rec(ops, e)) \in Nat
           /\ IsFiniteSet(Rec(ops, e) \cap done)
           /\ Cardinality(Rec(ops, e) \cap done) \in Nat
<1>1. Rec(ops, e) \subseteq OpId /\ Rec(ops, e) \subseteq DOMAIN ops
  BY OpPositions DEF Rec
<1>2. IsFiniteSet(Rec(ops, e)) /\ IsFiniteSet(Rec(ops, e) \cap done)
  BY <1>1, FS_Subset, Constants
<1> QED
  BY <1>1, <1>2, FS_CardinalityType

\* What a step keeps that leaves the operations and the calls alone.
LEMMA EventsKept ==
    ASSUME EventInv, SameOps, max_hit => max_hit',
           UNCHANGED <<calls, m_issued, m_cuda_launch_blocking>>,
           \A e \in Event : m_updates'[e] = Cardinality(Rec(ops, e) \cap done')
    PROVE  EventInv'
<1>1. \A e : Rec(ops', e) = Rec(ops, e)
  BY SameRecords
<1>2. CountsInv'
  <2>1. \A e : Recording(e)' <=> Recording(e)
    BY DEF Recording
  <2> QED
    BY <1>1, <2>1 DEF EventInv, CountsInv
<1>3. WaitsInv'
  <2>1. ~max_hit' => \A i \in DOMAIN calls' : calls'[i].kind = "wait_event" =>
           /\ calls'[i].cnt = Cardinality(Rec(ops', calls'[i].event))
           /\ calls'[i].awaits \subseteq Rec(ops', calls'[i].event)
    BY <1>1 DEF EventInv, WaitsInv
  <2>2. ASSUME NEW i \in DOMAIN ops', ops'[i].kind = "wait_event"
        PROVE  /\ ops'[i].cnt = Cardinality(Rec(ops', ops'[i].event) \cap (1 .. i - 1))
               /\ ops'[i].awaits \subseteq Rec(ops', ops'[i].event) \cap (1 .. i - 1)
    <3>1. /\ i \in DOMAIN ops /\ ops[i].kind = "wait_event"
          /\ ops'[i].event = ops[i].event /\ ops'[i].cnt = ops[i].cnt
          /\ ops'[i].awaits = ops[i].awaits
      BY <2>2 DEF SameOps
    <3> QED
      BY <1>1, <3>1 DEF EventInv, WaitsInv
  <2> QED
    BY <2>1, <2>2 DEF WaitsInv
<1>4. FieldsInv'
  BY DEF EventInv, FieldsInv, EventFields, SameOps
<1> QED
  BY <1>2, <1>3, <1>4 DEF EventInv

\* A call that sets out to push operations.
LEMMA MadeEvents ==
    ASSUME TypeInv, QueueInv, EventInv, calls = <<>>, MadeCalls(calls'),
           UNCHANGED <<m_cuda_launch_blocking, ops, done, m_updates, max_hit>>
    PROVE  EventInv'
<1>1. \A e : Rec(ops', e) = Rec(ops, e)
  BY DEF Rec
<1>0. \A e \in Event : Cardinality(Rec(ops, e)) \in Nat
  BY FiniteRecords
<1>2. ~max_hit => \A e \in Event : m_issued[e] = Cardinality(Rec(ops, e))
  <2>1. \A e : ~Recording(e)
    BY DEF Recording
  <2> QED
    BY <1>0, <2>1 DEF EventInv, CountsInv
<1>3. \A i \in DOMAIN calls' : WellMade(calls'[i])
  BY DEF MadeCalls
<1>4. CountsInv'
  <2>1. ASSUME ~max_hit, NEW e \in Event
        PROVE  m_issued'[e] = Cardinality(Rec(ops, e)) + IF Recording(e)' THEN 1 ELSE 0
    <3>1. CASE UNCHANGED m_issued /\ \A i \in DOMAIN calls' : calls'[i].kind # "event"
      <4>1. ~Recording(e)'
        BY <3>1 DEF Recording
      <4> QED
        BY <1>0, <1>2, <2>1, <3>1, <4>1
    <3>2. ASSUME NEW x \in Event, Len(calls') = 1, DOMAIN calls' = {1},
                 calls'[1].kind = "event", calls'[1].event = x,
                 m_issued' = [m_issued EXCEPT ![x] = @ + 1]
          PROVE  m_issued'[e] = Cardinality(Rec(ops, e)) + IF Recording(e)' THEN 1 ELSE 0
      <4>1. Recording(e)' <=> e = x
        BY <3>2 DEF Recording
      <4>2. m_issued'[e] = IF e = x THEN m_issued[e] + 1 ELSE m_issued[e]
        BY <3>2 DEF TypeInv
      <4> QED
        BY <1>0, <1>2, <2>1, <4>1, <4>2
    <3> QED
      BY <3>1, <3>2 DEF MadeCalls
  <2> QED
    BY <1>1, <2>1 DEF EventInv, CountsInv
<1>5. WaitsInv'
  <2>1. ASSUME ~max_hit, NEW i \in DOMAIN calls', calls'[i].kind = "wait_event"
        PROVE  /\ calls'[i].cnt = Cardinality(Rec(ops, calls'[i].event))
               /\ calls'[i].awaits \subseteq Rec(ops, calls'[i].event)
    <3>1. /\ calls'[i].event \in Event
          /\ calls'[i].cnt = m_issued[calls'[i].event]
          /\ calls'[i].awaits = LastRecord(calls'[i].event)
      BY <1>3, <2>1 DEF WellMade, EventFields
    <3> QED
      BY <1>2, <2>1, <3>1, LastIsRecord
  <2> QED
    BY <1>1, <2>1 DEF EventInv, WaitsInv
<1>6. FieldsInv'
  <2>1. ASSUME NEW i \in DOMAIN calls'
        PROVE  /\ EventFields(calls'[i])
               /\ calls'[i].kind = "event" => /\ Len(calls') = 1
                                              /\ calls'[i].stream \in Uses["event"]
    BY <1>3 DEF MadeCalls, WellMade
  <2> QED
    BY <2>1 DEF EventInv, FieldsInv, EventFields
<1> QED
  BY <1>4, <1>5, <1>6 DEF EventInv

\* The records among the operations when one more is accepted.
LEMMA MoreRecords ==
    ASSUME NEW list \in Seq(Operation), NEW new \in Operation, NEW e
    PROVE  LET n == Len(list) + 1
           IN  /\ n \in Nat /\ n \notin DOMAIN list
               /\ Rec(Append(list, new), e) =
                     IF new.kind = "event" /\ new.event = e
                     THEN Rec(list, e) \cup {n}
                     ELSE Rec(list, e)
<1> DEFINE n == Len(list) + 1
           more == Append(list, new)
<1>1. /\ n \in Nat /\ n \notin DOMAIN list
      /\ DOMAIN more = DOMAIN list \cup {n}
      /\ \A i \in DOMAIN list : more[i] = list[i]
      /\ more[n] = new
  BY AppendProperties, LenProperties
<1> HIDE DEF n, more
<1>2. Rec(more, e) = IF new.kind = "event" /\ new.event = e
                     THEN Rec(list, e) \cup {n}
                     ELSE Rec(list, e)
  BY <1>1 DEF Rec
<1> QED
  BY <1>1, <1>2 DEF n, more

\* A push that is ignored, because a limit has been hit.
LEMMA IgnoredEvents ==
    ASSUME TypeInv, QueueInv, EventInv, NEW op, NEW new, NEW s,
           Pushed(op, new, s), max_hit
    PROVE  EventInv'
<1>1. UNCHANGED <<ops, done, m_updates, m_issued, max_hit, m_cuda_launch_blocking>>
  BY DEF Pushed, eventVars, gpuVars, config
<1>2. /\ Len(calls) \in Nat \ {0} /\ DOMAIN calls = 1 .. Len(calls)
      /\ DOMAIN calls' = 1 .. Len(calls) - 1
      /\ \A i \in DOMAIN calls' : calls'[i] = calls[i + 1]
  <2>1. calls \in Seq(Operation) /\ calls # <<>> /\ calls' = Tail(calls)
    BY DEF Pushed, TypeInv
  <2> QED
    BY <2>1, HeadTailProperties, LenProperties, EmptySeq
<1>3. CountsInv' /\ WaitsInv'
  BY <1>1 DEF EventInv, CountsInv, WaitsInv
<1>4. ASSUME NEW i \in DOMAIN calls'
      PROVE  EventFields(calls'[i]) /\ calls'[i].kind # "event"
  <2>1. i + 1 \in DOMAIN calls /\ calls'[i] = calls[i + 1] /\ Len(calls) # 1
    BY <1>2
  <2> QED
    BY <2>1 DEF EventInv, FieldsInv
<1>5. FieldsInv'
  BY <1>1, <1>4 DEF EventInv, FieldsInv, EventFields
<1> QED
  BY <1>3, <1>5 DEF EventInv

\* A push that is accepted: a record counts from now on, and a wait finds as
\* many records before it as had been issued.
LEMMA AcceptedEvents ==
    ASSUME TypeInv, QueueInv, EventInv, NEW op, NEW new, NEW s,
           Pushed(op, new, s), ~max_hit
    PROVE  EventInv'
<1> DEFINE n == Len(ops) + 1
<1>1. /\ UNCHANGED <<done, m_updates, m_issued, max_hit, m_cuda_launch_blocking>>
      /\ ops' = Append(ops, new) /\ new \in Operation /\ ops \in Seq(Operation)
      /\ op = calls[1] /\ new.kind = op.kind /\ new.event = op.event
      /\ new.cnt = op.cnt /\ new.awaits = op.awaits /\ new.stream = s
      /\ s = IF UsesZero(op) THEN Zero ELSE op.stream
  BY DEF Pushed, eventVars, gpuVars, config, TypeInv
<1>2. /\ Len(calls) \in Nat \ {0} /\ DOMAIN calls = 1 .. Len(calls)
      /\ DOMAIN calls' = 1 .. Len(calls) - 1
      /\ \A i \in DOMAIN calls' : calls'[i] = calls[i + 1]
  <2>1. calls \in Seq(Operation) /\ calls # <<>> /\ calls' = Tail(calls)
    BY DEF Pushed, TypeInv
  <2> QED
    BY <2>1, HeadTailProperties, LenProperties, EmptySeq
<1>3. /\ n \in Nat /\ n \notin DOMAIN ops /\ DOMAIN ops = 1 .. n - 1
      /\ DOMAIN ops' = DOMAIN ops \cup {n}
      /\ \A i \in DOMAIN ops : ops'[i] = ops[i]
      /\ ops'[n] = new
  BY <1>1, AppendProperties, LenProperties
<1>4. \A e : Rec(ops', e) = IF new.kind = "event" /\ new.event = e
                            THEN Rec(ops, e) \cup {n} ELSE Rec(ops, e)
  BY <1>1, MoreRecords
<1> HIDE DEF n
<1>5. \A e : /\ Rec(ops, e) \subseteq DOMAIN ops /\ IsFiniteSet(Rec(ops, e))
             /\ Cardinality(Rec(ops, e)) \in Nat
  BY FiniteRecords
<1>6. 1 \in DOMAIN calls /\ EventFields(op)
  <2>1. 1 \in DOMAIN calls
    BY <1>2
  <2> QED
    BY <1>1, <2>1 DEF EventInv, FieldsInv
<1>7. ASSUME NEW i \in DOMAIN calls'
      PROVE  /\ i + 1 \in DOMAIN calls /\ calls'[i] = calls[i + 1]
             /\ EventFields(calls'[i]) /\ calls'[i].kind # "event"
             /\ op.kind # "event"
  <2>1. i + 1 \in DOMAIN calls /\ calls'[i] = calls[i + 1] /\ Len(calls) # 1
    BY <1>2
  <2> QED
    BY <1>1, <1>6, <2>1 DEF EventInv, FieldsInv
<1>8. \A e : ~Recording(e)'
  BY <1>7 DEF Recording
<1>9. \A e : Recording(e) <=> op.kind = "event" /\ op.event = e
  <2>1. ASSUME NEW i \in DOMAIN calls, calls[i].kind = "event" PROVE i = 1
    BY <1>2, <2>1 DEF EventInv, FieldsInv
  <2> QED
    BY <1>1, <1>6, <2>1 DEF Recording
<1>10. CountsInv'
  <2>1. ASSUME NEW e \in Event
        PROVE  /\ m_updates[e] = Cardinality(Rec(ops', e) \cap done)
               /\ m_issued[e] = Cardinality(Rec(ops', e))
    <3>1. /\ m_updates[e] = Cardinality(Rec(ops, e) \cap done)
          /\ m_issued[e] = Cardinality(Rec(ops, e)) + IF Recording(e) THEN 1 ELSE 0
      BY DEF EventInv, CountsInv
    <3>2. n \notin done
      BY <1>3 DEF QueueInv, InOwnQueue
    <3>3. Rec(ops', e) \cap done = Rec(ops, e) \cap done
      BY <1>4, <3>2
    <3>4. n \notin Rec(ops, e)
      BY <1>3, <1>5
    <3>5. Cardinality(Rec(ops, e) \cup {n}) = Cardinality(Rec(ops, e)) + 1
      BY <1>5, <3>4, FS_AddElement
    <3>6. Cardinality(Rec(ops', e)) =
             Cardinality(Rec(ops, e)) + IF Recording(e) THEN 1 ELSE 0
      <4>1. CASE op.kind = "event" /\ op.event = e
        <5>1. Recording(e)
          BY <1>9, <4>1
        <5>2. Rec(ops', e) = Rec(ops, e) \cup {n}
          BY <1>1, <1>4, <4>1
        <5> QED
          BY <3>5, <5>1, <5>2
      <4>2. CASE ~(op.kind = "event" /\ op.event = e)
        <5>1. ~Recording(e)
          BY <1>9, <4>2
        <5>2. Rec(ops', e) = Rec(ops, e) /\ Cardinality(Rec(ops, e)) \in Nat
          BY <1>1, <1>4, <1>5, <4>2
        <5> QED
          BY <5>1, <5>2
      <4> QED
        BY <4>1, <4>2
    <3> QED
      BY <3>1, <3>3, <3>6
  <2>2. ASSUME NEW e \in Event
        PROVE  m_issued[e] = Cardinality(Rec(ops', e)) + IF Recording(e)' THEN 1 ELSE 0
    <3>1. m_issued[e] \in Nat
      BY DEF TypeInv
    <3>2. ~Recording(e)'
      BY <1>7 DEF Recording
    <3>3. m_issued[e] = Cardinality(Rec(ops', e))
      BY <2>1
    <3>4. (IF Recording(e)' THEN 1 ELSE 0) = 0
      BY <3>2
    <3> QED
      BY <3>1, <3>3, <3>4
  <2> QED
    BY <1>1, <2>1, <2>2 DEF CountsInv
<1>11. WaitsInv'
  <2>1. ASSUME NEW i \in DOMAIN calls', calls'[i].kind = "wait_event"
        PROVE  /\ calls'[i].cnt = Cardinality(Rec(ops', calls'[i].event))
               /\ calls'[i].awaits \subseteq Rec(ops', calls'[i].event)
    <3>1. \A e : Rec(ops', e) = Rec(ops, e)
      BY <1>1, <1>4, <1>7
    <3>2. /\ calls'[i].cnt = Cardinality(Rec(ops, calls'[i].event))
          /\ calls'[i].awaits \subseteq Rec(ops, calls'[i].event)
      BY <1>7, <2>1 DEF EventInv, WaitsInv
    <3> QED
      BY <3>1, <3>2
  <2>2. ASSUME NEW i \in DOMAIN ops', ops'[i].kind = "wait_event"
        PROVE  /\ ops'[i].cnt = Cardinality(Rec(ops', ops'[i].event) \cap (1 .. i - 1))
               /\ ops'[i].awaits \subseteq Rec(ops', ops'[i].event) \cap (1 .. i - 1)
    <3> DEFINE e == ops'[i].event
    <3>1. CASE i \in DOMAIN ops
      <4>1. n \notin 1 .. i - 1
        BY <1>3, <3>1
      <4>2. Rec(ops', e) \cap (1 .. i - 1) = Rec(ops, e) \cap (1 .. i - 1)
        BY <1>4, <4>1
      <4>3. ops'[i] = ops[i]
        BY <1>3, <3>1
      <4>4. /\ ops[i].cnt = Cardinality(Rec(ops, ops[i].event) \cap (1 .. i - 1))
            /\ ops[i].awaits \subseteq Rec(ops, ops[i].event) \cap (1 .. i - 1)
        BY <2>2, <3>1, <4>3 DEF EventInv, WaitsInv
      <4> QED
        BY <4>2, <4>3, <4>4
    <3>2. CASE i = n
      <4>1. ops'[i] = new /\ op.kind = "wait_event" /\ e = op.event
        BY <1>1, <1>3, <2>2, <3>2
      <4>2. Rec(ops', e) = Rec(ops, e)
        BY <1>1, <1>4, <4>1
      <4>3. Rec(ops, e) \cap (1 .. i - 1) = Rec(ops, e)
        BY <1>3, <1>5, <3>2
      <4>4. op.cnt = Cardinality(Rec(ops, op.event)) /\ op.awaits \subseteq Rec(ops, op.event)
        BY <1>1, <1>6, <4>1 DEF EventInv, WaitsInv
      <4> QED
        BY <1>1, <4>1, <4>2, <4>3, <4>4
    <3> QED
      BY <1>3, <3>1, <3>2
  <2> QED
    BY <2>1, <2>2 DEF WaitsInv
<1>12. FieldsInv'
  <2>1. new.kind = "event" =>
           new.stream \in IF m_cuda_launch_blocking THEN {Zero} ELSE Uses["event"]
    <3>1. op.kind = "event" => op.stream \in Uses["event"]
      BY <1>1, <1>6 DEF EventInv, FieldsInv
    <3> QED
      BY <1>1, <3>1 DEF UsesZero
  <2>2. EventFields(new)
    BY <1>1, <1>6 DEF EventFields
  <2>3. ASSUME NEW i \in DOMAIN ops'
        PROVE  /\ EventFields(ops'[i])
               /\ ops'[i].kind = "event" =>
                     ops'[i].stream \in IF m_cuda_launch_blocking
                                        THEN {Zero} ELSE Uses["event"]
    BY <1>3, <2>1, <2>2 DEF EventInv, FieldsInv
  <2> QED
    BY <1>1, <1>7, <2>3 DEF FieldsInv, EventFields
<1> QED
  BY <1>10, <1>11, <1>12 DEF EventInv

\* The host's steps keep the counts.
LEMMA HostEvents ==
    ASSUME TypeInv, ControlInv, QueueInv, EventInv, HostCall \/ HostReturn
    PROVE  EventInv'
<1>1. ASSUME NEW op, NEW new, NEW s, Pushed(op, new, s) PROVE EventInv'
  BY <1>1, IgnoredEvents, AcceptedEvents
<1>2. CASE CallStep
  <2>1. UNCHANGED <<m_cuda_launch_blocking, ops, done, m_updates, max_hit>>
    BY <1>2 DEF CallStep, config, gpuVars
  <2>2. CASE UNCHANGED <<calls, m_issued>>
    <3>1. \A e \in Event : m_updates'[e] = Cardinality(Rec(ops, e) \cap done')
      BY <2>1 DEF EventInv, CountsInv
    <3> QED
      BY <2>1, <2>2, <3>1, UnchangedOps, EventsKept
  <2>3. CASE calls = <<>> /\ MadeCalls(calls')
    BY <2>1, <2>3, MadeEvents
  <2> QED
    BY <1>2, <2>2, <2>3 DEF CallStep
<1> QED
  BY <1>1, <1>2, HostSteps

\* So do the simulation thread's: a record counts when it is done.
LEMMA SimEvents ==
    ASSUME TypeInv, ControlInv, QueueInv, KernelInv, EventInv, Simulation
    PROVE  EventInv'
<1>1. /\ UNCHANGED <<calls, m_issued, m_cuda_launch_blocking>>
      /\ max_hit => max_hit'
  BY SimSteps
<1>2. \A e \in Event : m_updates[e] = Cardinality(Rec(ops, e) \cap done)
  BY DEF EventInv, CountsInv
<1>3. CASE KeepStep
  BY <1>1, <1>2, <1>3, EventsKept DEF KeepStep
<1>4. ASSUME NEW ss, EndKernels(ss) PROVE EventInv'
  <2>1. \A i : i \in done' <=> \/ i \in done
                               \/ \E s \in ss : i = Head(m_operations[s])
    BY <1>4, Finished DEF EndKernels
  <2>2. \A e : Rec(ops, e) \cap done' = Rec(ops, e) \cap done
    BY <1>4, <2>1 DEF EndKernels, Rec
  <2>3. SameOps /\ UNCHANGED m_updates
    BY <1>4, UnchangedOps DEF EndKernels
  <2> QED
    BY <1>1, <1>2, <2>2, <2>3, EventsKept
<1>5. ASSUME NEW s, CarryOut(s) PROVE EventInv'
  <2> DEFINE h == Head(m_operations[s])
             op == ops[h]
  <2>1. /\ s \in Queue /\ Waiting(s) /\ Finish({s}) /\ UNCHANGED ops
        /\ m_updates' = IF op.kind = "event"
                        THEN [m_updates EXCEPT ![op.event] = @ + 1]
                        ELSE m_updates
    BY <1>5 DEF CarryOut, do_immediate
  <2>2. h \in DOMAIN ops /\ h \notin done
    BY <2>1, HeadIsOp
  <2>3. EventFields(op)
    BY <2>2 DEF EventInv, FieldsInv
  <2> HIDE DEF h
  <2>4. done' = done \cup {h}
    <3>1. {s} \in SUBSET Queue /\ \A x \in {s} : Waiting(x)
      BY <2>1
    <3>2. \A i : i \in done' <=> \/ i \in done
                                 \/ \E x \in {s} : i = Head(m_operations[x])
      BY <2>1, <3>1, Finished
    <3> QED
      BY <3>2 DEF h
  <2>5. ASSUME NEW e \in Event
        PROVE  m_updates'[e] = Cardinality(Rec(ops, e) \cap done')
    <3>1. IsFiniteSet(Rec(ops, e) \cap done) /\ m_updates[e] \in Nat
      BY FiniteRecords DEF TypeInv
    <3>2. CASE op.kind = "event" /\ op.event = e
      <4>1. Rec(ops, e) \cap done' = (Rec(ops, e) \cap done) \cup {h}
        BY <2>2, <2>4, <3>2 DEF Rec
      <4>2. Cardinality(Rec(ops, e) \cap done') = m_updates[e] + 1
        BY <1>2, <2>2, <3>1, <4>1, FS_AddElement
      <4>3. m_updates'[e] = m_updates[e] + 1
        BY <2>1, <3>2 DEF TypeInv
      <4> QED
        BY <4>2, <4>3
    <3>3. CASE ~(op.kind = "event" /\ op.event = e)
      <4>1. Rec(ops, e) \cap done' = Rec(ops, e) \cap done
        BY <2>4, <3>3 DEF Rec
      <4>2. m_updates'[e] = m_updates[e]
        BY <2>1, <2>3, <3>3 DEF TypeInv
      <4> QED
        BY <1>2, <4>1, <4>2
    <3> QED
      BY <3>2, <3>3
  <2> QED
    BY <1>1, <2>1, <2>5, UnchangedOps, EventsKept
<1> QED
  BY <1>3, <1>4, <1>5, SimSteps
-----------------------------------------------------------------------------
(* The invariant holds *)

\* It holds at the start.
LEMMA SMInitInv == Init => SMInv
<1> SUFFICES ASSUME Init PROVE SMInv
  OBVIOUS
<1>1. /\ <<>> \in Seq(Operation) /\ <<>> \in Seq(OpId) /\ <<>> \in Seq(Stream)
      /\ Len(<<>>) = 0 /\ ToSet(<<>>) = {} /\ DOMAIN <<>> = {}
  <2>1. \A S : <<>> \in Seq(S)
    OBVIOUS
  <2>2. Len(<<>>) = 0 /\ DOMAIN <<>> = {}
    OBVIOUS
  <2> QED
    BY <2>1, <2>2 DEF ToSet
<1>2. TypeInv
  <2>1. /\ m_operations \in [Queue -> Seq(OpId)]
        /\ m_pending \in [Queue -> BOOLEAN]
        /\ m_grid_id_to_stream \in [OpId -> Queue \cup {NoStream}]
        /\ m_issued \in [Event -> 0 .. MaxOps] /\ m_updates \in [Event -> Nat]
    BY <1>1, Constants DEF Init
  <2>2. /\ sm_next_stream_uid \in 1 .. MaxStreams + 1
        /\ ToSet(m_streams) \subseteq 1 .. sm_next_stream_uid - 1
        /\ m_last_stream \in 0 .. Len(m_streams)
    BY <1>1, Constants DEF Init
  <2> QED
    BY <1>1, <2>1, <2>2, Constants DEF Init, TypeInv, HostPc, SimPc
<1>3. ControlInv
  BY DEF Init, ControlInv, active, ActiveWith
<1>4. QueueInv
  <2>1. \A s \in Queue : m_operations[s] = <<>>
    BY DEF Init
  <2>2. StreamsExist /\ InOwnQueue /\ Barrier
    BY <1>1, <2>1, Constants DEF Init, StreamsExist, InOwnQueue, Barrier, Waiting
  <2>3. InOrder
    BY <1>1, <2>1 DEF Init, InOrder, Sorted
  <2> QED
    BY <1>1, <2>2, <2>3, Constants DEF Init, QueueInv
<1>5. KernelInv
  <2>1. OnGpu = {}
    BY <1>1, RangeIsToSet DEF Init, OnGpu
  <2>2. Mapped
    BY <2>1 DEF Init, Mapped
  <2>3. OnePlace
    BY <1>1 DEF Init, OnePlace, Once
  <2> QED
    BY <2>2, <2>3 DEF Init, KernelInv, ModeInv
<1>6. EventInv
  <2>1. \A e : Rec(ops, e) = {} /\ ~Recording(e)
    BY <1>1 DEF Init, Rec, Recording
  <2>2. Cardinality({}) = 0
    BY FS_EmptySet
  <2>3. CountsInv
    <3>1. ASSUME NEW e \in Event
          PROVE  /\ m_updates[e] = Cardinality(Rec(ops, e) \cap done)
                 /\ m_issued[e] = Cardinality(Rec(ops, e))
                                  + IF Recording(e) THEN 1 ELSE 0
      <4>1. m_updates[e] = 0 /\ m_issued[e] = 0
        BY DEF Init
      <4>2. Rec(ops, e) \cap done = {} /\ Rec(ops, e) = {}
        BY <2>1
      <4>3. (IF Recording(e) THEN 1 ELSE 0) = 0
        BY <2>1
      <4> QED
        BY <2>2, <4>1, <4>2, <4>3
    <3> QED
      BY <3>1 DEF CountsInv
  <2>4. WaitsInv /\ FieldsInv
    BY <1>1 DEF Init, WaitsInv, FieldsInv
  <2> QED
    BY <2>3, <2>4 DEF EventInv
<1> QED
  BY <1>2, <1>3, <1>4, <1>5, <1>6 DEF SMInv

\* Every step keeps it.
LEMMA SMStep == SMInv /\ [Next]_vars => SMInv'
<1> SUFFICES ASSUME SMInv, [Next]_vars PROVE SMInv'
  OBVIOUS
<1> USE DEF SMInv
<1>1. CASE HostCall \/ HostReturn
  <2>1. TypeInv'
    <3>1. CASE push
      <4>1. PICK op, new, s : Pushed(op, new, s)
        BY <3>1, PushMakes
      <4> QED
        BY <4>1, PushedTypes
    <3> QED
      BY <1>1, <3>1, HostTypes
  <2> QED
    BY <1>1, <2>1, HostControl, HostQueues, HostKernels, HostEvents
<1>2. CASE Simulation
  BY <1>2, SimTypes, SimControl, SimQueues, SimKernels, SimEvents
<1>3. CASE UNCHANGED vars
  <2> USE <1>3 DEF vars, config, streamVars, listVars, gpuVars, flagVars, simVars,
                   hostVars, eventVars
  <2>1. TypeInv'
    BY DEF TypeInv
  <2>2. ControlInv'
    BY DEF ControlInv, active, ActiveWith
  <2>3. QueueInv'
    BY DEF QueueInv, StreamsExist, InOwnQueue, InOrder, Barrier, Waiting
  <2>4. KernelInv'
    BY DEF KernelInv, Mapped, OnePlace, ModeInv, OnGpu, Waiting
  <2>5. EventInv'
    BY DEF EventInv, CountsInv, WaitsInv, FieldsInv, EventFields, Recording
  <2> QED
    BY <2>1, <2>2, <2>3, <2>4, <2>5
<1> QED
  BY <1>1, <1>2, <1>3 DEF Next, Ended

\* The invariant of the two threads, for every reachable state.
THEOREM SMInvariance == Spec => []SMInv
BY SMInitInv, SMStep, PTL DEF Spec

-----------------------------------------------------------------------------
(* What follows from it *)

\* The types of the run's type invariant: the iterator points into m_streams,
\* the queues hold accepted operations, and no event is updated more often than
\* there are operations.
LEMMA SMTypes == SMInv => TypeOK
<1> SUFFICES ASSUME TypeInv, ControlInv, QueueInv, EventInv PROVE TypeOK
  BY DEF SMInv
<1>1. Range(ops) \subseteq Operation /\ Range(calls) \subseteq Operation
  BY RangeIsToSet, QueueElements DEF TypeInv
<1>2. Len(ops) <= MaxOps
  BY OpPositions, Constants
<1>3. \A s \in Queue : Range(m_operations[s]) \subseteq DOMAIN ops
  BY RangeIsToSet DEF QueueInv, InOwnQueue
<1>4. Range(m_streams) \subseteq 1 .. sm_next_stream_uid - 1
  BY RangeIsToSet DEF TypeInv
<1>5. ASSUME NEW e \in Event PROVE m_updates[e] \in 0 .. MaxOps
  <2> DEFINE R == Rec(ops, e) \cap done
  <2>1. R \subseteq OpId
    BY FiniteRecords, OpPositions
  <2>2. IsFiniteSet(R) /\ Cardinality(R) <= Cardinality(OpId)
    BY <2>1, Constants, FS_Subset
  <2>3. Cardinality(OpId) = MaxOps
    BY Constants, FS_Interval DEF OpId
  <2>4. Cardinality(R) \in Nat
    BY <2>2, FS_CardinalityType
  <2>5. m_updates[e] = Cardinality(R)
    BY DEF EventInv, CountsInv
  <2> HIDE DEF R
  <2> QED
    BY <2>2, <2>3, <2>4, <2>5, Constants
<1>6. {m_issued, m_updates} \subseteq [Event -> 0 .. MaxOps]
  BY <1>5 DEF TypeInv
<1>7. m_running_kernels \cup Range(m_finished_kernel) \cup done \subseteq OpId
  BY RangeIsToSet, QueueElements DEF TypeInv
<1>8. {m_cuda_launch_blocking, g_ptx_sim_mode, m_lock, traffic, max_hit,
       g_sim_active, g_sim_done, break_limit, check} \subseteq BOOLEAN
  BY DEF TypeInv
<1> QED
  BY <1>1, <1>2, <1>3, <1>4, <1>6, <1>7, <1>8 DEF TypeInv, TypeOK, ControlInv,
     HostPc, SimPc

\* TypeOK, for every number of streams, events and operations.
THEOREM StreamTypes == Spec => []TypeOK
BY SMInvariance, SMTypes, PTL

\* register_finished_kernel always finds the stream of the kernel it is given,
\* with that kernel at its head.
THEOREM KernelsMapped == Spec => []KernelsAreMapped
<1>1. SMInv => KernelsAreMapped
  <2> SUFFICES ASSUME TypeInv, Mapped PROVE KernelsAreMapped
    BY DEF SMInv, KernelInv, KernelsAreMapped
  <2>1. OnGpu \subseteq OpId
    BY QueueElements, RangeIsToSet DEF OnGpu, TypeInv
  <2>2. OnGpu = {k \in OpId : m_grid_id_to_stream[k] # NoStream}
    BY <2>1 DEF Mapped
  <2> QED
    BY <2>2 DEF Mapped, KernelsAreMapped, Waiting
<1> QED
  BY <1>1, SMInvariance, PTL

\* When gpgpu_sim::init resets the cores the GPU is idle, or a limit was hit.
THEOREM InitFindsIdle == Spec => InitOnIdle
<1>1. SMInv /\ [Next]_vars =>
        [ (sim_pc = "start" /\ sim_pc' = "check" /\ ~max_hit)
            => m_running_kernels = {} /\ ~traffic ]_vars
  BY DEF SMInv, ControlInv, active, ActiveWith
<1> QED
  BY <1>1, SMInvariance, PTL DEF Spec, InitOnIdle

\* When every stream of m_streams and stream zero is empty, everything that was
\* accepted has been carried out.
LEMMA EmptyIsDone ==
    ASSUME TypeInv, QueueInv, empty
    PROVE  done = DOMAIN ops
<1>1. ASSUME NEW s \in Queue PROVE ~Waiting(s)
  <2>1. SUFFICES ASSUME Waiting(s) PROVE FALSE
    OBVIOUS
  <2>2. s \in ToSet(m_streams) \cup {Zero}
    BY <2>1 DEF QueueInv, StreamsExist
  <2>3. \A i \in DOMAIN m_streams : m_operations[m_streams[i]] = <<>>
    BY DEF empty, concurrent_streams_empty
  <2>4. m_operations[Zero] = <<>>
    BY DEF empty
  <2> QED
    BY <2>1, <2>2, <2>3, <2>4 DEF Waiting, ToSet
<1>2. ASSUME NEW i \in DOMAIN ops PROVE i \in done
  <2>1. ops[i].stream \in Queue
    BY OpPositions DEF Operation
  <2>2. m_operations[ops[i].stream] = <<>>
    BY <1>1, <2>1 DEF Waiting
  <2>3. ToSet(m_operations[ops[i].stream]) = {}
    BY <2>2 DEF ToSet
  <2> QED
    BY <2>3 DEF QueueInv, InOwnQueue
<1> QED
  BY <1>2 DEF QueueInv, InOwnQueue

\* synchronize() returns when all work is done and the GPU is idle, or after
\* the end of the simulation.
THEOREM SynchronizeWaits == Spec => SynchronizeMeansIdle
<1>1. ASSUME SMInv, [Next]_vars, host_pc = "synchronize", host_pc' = "ready",
             ~g_sim_done
      PROVE  done = DOMAIN ops /\ ~active
  <2>1. synchronize
    <3>1. HostCall \/ HostReturn
      <4>1. CASE Simulation
        <5>1. UNCHANGED host_pc
          BY <1>1, <4>1, SimSteps DEF SMInv
        <5> QED
          BY <1>1, <5>1
      <4>2. CASE UNCHANGED vars
        BY <1>1, <4>2 DEF vars, hostVars
      <4> QED
        BY <1>1, <4>1, <4>2 DEF Next, Ended
    <3>2. ~HostCall
      BY <1>1 DEF HostCall, start_sim_thread, cudaStreamCreate, cudaStreamDestroy,
         cudaMemcpy, cudaLaunch, cudaEventRecord, cudaStreamWaitEvent,
         cudaDeviceSynchronize, exit_simulation, Push, HostGoes, HostAt
    <3>3. ~push /\ ~push_drain /\ ~destroy_stream_lock /\ ~destroy_stream /\ ~exit_wait
      BY <1>1 DEF push, push_drain, destroy_stream_lock, destroy_stream,
         exit_wait, HostAt
    <3> QED
      BY <3>1, <3>2, <3>3 DEF HostReturn
  <2>2. empty /\ ~g_sim_active /\ sim_pc # "dead"
    BY <1>1, <2>1 DEF synchronize, Synchronized, HostGoes, HostAt
  <2>3. sim_pc \in {"spin", "start"}
    BY <1>1, <2>2 DEF SMInv, TypeInv, ControlInv, SimPc
  <2>4. ~active
    BY <1>1, <2>3 DEF SMInv, ControlInv
  <2> QED
    BY <1>1, <2>2, <2>4, EmptyIsDone DEF SMInv
<1>2. SMInv /\ [Next]_vars =>
        [ (host_pc = "synchronize" /\ host_pc' = "ready" /\ ~g_sim_done)
            => done = DOMAIN ops /\ ~active ]_vars
  BY <1>1
<1> QED
  BY <1>2, SMInvariance, PTL DEF Spec, SynchronizeMeansIdle
-----------------------------------------------------------------------------
(* Waiting for an event, when events are recorded in one stream *)

\* The records of an event are then in one stream.
LEMMA RecordsInOneStream ==
    ASSUME RecordedInOneStream, EventInv, NEW e,
           NEW i \in Rec(ops, e), NEW j \in Rec(ops, e)
    PROVE  ops[i].stream = ops[j].stream
<1>1. /\ i \in DOMAIN ops /\ ops[i].kind = "event"
      /\ j \in DOMAIN ops /\ ops[j].kind = "event"
  BY DEF Rec
<1> QED
  BY <1>1 DEF EventInv, FieldsInv, RecordedInOneStream

\* As many records are done as were issued before the wait: these are done.
LEMMA CountedRecords ==
    ASSUME RecordedInOneStream, TypeInv, QueueInv, EventInv, NEW i \in DOMAIN ops,
           ops[i].kind = "wait_event", m_updates[ops[i].event] >= ops[i].cnt
    PROVE  ops[i].awaits \subseteq done
<1> DEFINE e == ops[i].event
           R == Rec(ops, e)
           B == R \cap (1 .. i - 1)
           D == R \cap done
<1>1. /\ e \in Event /\ ops[i].cnt = Cardinality(B) /\ ops[i].awaits \subseteq B
      /\ m_updates[e] = Cardinality(D)
  BY DEF EventInv, CountsInv, WaitsInv, FieldsInv, EventFields
<1>2. R \subseteq DOMAIN ops /\ IsFiniteSet(R) /\ DOMAIN ops \subseteq Nat
  BY FiniteRecords, OpPositions, Constants
<1> HIDE DEF e
<1>3. SUFFICES ASSUME NEW j \in B, j \notin done PROVE FALSE
  BY <1>1
<1>4. D \subseteq B
  <2>1. ASSUME NEW k \in D PROVE k < j
    <3>1. k \in DOMAIN ops /\ j \in DOMAIN ops /\ k \in Nat /\ j \in Nat /\ k # j
      BY <1>2, <1>3
    <3>2. ops[j].stream = ops[k].stream
      BY RecordsInOneStream
    <3>3. ~(j < k)
      BY <1>3, <3>1, <3>2 DEF QueueInv, InOrder
    <3> QED
      BY <3>1, <3>3
  <2>2. ASSUME NEW k \in D PROVE k \in 1 .. i - 1
    <3>1. k \in DOMAIN ops /\ k < j /\ j \in 1 .. i - 1 /\ DOMAIN ops = 1 .. Len(ops)
      BY <1>2, <2>1, OpPositions
    <3>2. i \in Nat /\ Len(ops) \in Nat
      BY <1>2, OpPositions
    <3> QED
      BY <3>1, <3>2
  <2> QED
    BY <2>2
<1>5. IsFiniteSet(B) /\ IsFiniteSet(D)
  BY <1>2, FS_Subset
<1>6. D # B
  BY <1>3
<1> HIDE DEF B, D
<1>7. Cardinality(D) < Cardinality(B)
  BY <1>4, <1>5, <1>6, FS_Subset, FS_CardinalityType
<1> QED
  BY <1>1, <1>5, <1>7, FS_CardinalityType DEF e

\* What has to be done before the operation at the head of a stream is done.
LEMMA HeadMayComplete ==
    ASSUME RecordedInOneStream, TypeInv, QueueInv, EventInv,
           NEW s \in Queue, Waiting(s), NEW i, i = Head(m_operations[s]),
           ops[i].kind = "wait_event" => m_updates[ops[i].event] >= ops[i].cnt,
           NEW j \in DOMAIN ops, j < i,
           \/ ops[j].stream \in {ops[i].stream, Zero} \/ ops[i].stream = Zero
           \/ j \in ops[i].awaits
    PROVE  j \in done
<1>1. i \in DOMAIN ops /\ i \in ToSet(m_operations[s]) /\ ops[i].stream = s
  <2>1. i \in DOMAIN ops
    BY HeadIsOp
  <2>2. i \in ToSet(m_operations[s])
    BY TailQueue DEF TypeInv, Waiting
  <2> QED
    BY <2>1, <2>2 DEF QueueInv, InOwnQueue
<1>2. CASE j \in ops[i].awaits
  <2>1. CASE ops[i].kind = "wait_event"
    BY <1>1, <1>2, <2>1, CountedRecords
  <2>2. CASE ops[i].kind # "wait_event"
    BY <1>1, <1>2, <2>2 DEF EventInv, FieldsInv, EventFields
  <2> QED
    BY <2>1, <2>2
<1>3. ASSUME ops[j].stream = s, j \notin done PROVE FALSE
  <2>1. j \in ToSet(m_operations[s])
    BY <1>3 DEF QueueInv, InOwnQueue
  <2>2. m_operations[s] \in Seq(OpId) /\ m_operations[s] # <<>> /\ Sorted(m_operations[s])
    BY DEF TypeInv, Waiting, QueueInv, InOrder
  <2>3. j = i \/ i < j
    BY <2>1, <2>2, SortedTail
  <2>4. i \in Nat /\ j \in Nat
    BY <1>1, OpPositions, Constants
  <2> QED
    BY <2>3, <2>4
<1>4. ASSUME ops[j].stream = Zero \/ s = Zero, j \notin done PROVE FALSE
  <2>1. ops[j].stream \in Queue
    BY OpPositions DEF Operation
  <2>2. Waiting(ops[j].stream)
    <3>1. j \in ToSet(m_operations[ops[j].stream])
      BY <1>4 DEF QueueInv, InOwnQueue
    <3>2. ToSet(<<>>) = {}
      BY DEF ToSet
    <3> QED
      BY <3>1, <3>2 DEF Waiting
  <2>3. s = ops[j].stream
    BY <1>4, <2>1, <2>2, Constants DEF QueueInv, Barrier
  <2> QED
    BY <1>3, <1>4, <2>3
<1> QED
  BY <1>1, <1>2, <1>3, <1>4

\* What an operation is to the application does not change.
LEMMA SameAwaits ==
    ASSUME SameOps, EventIsDone, UNCHANGED done, InOwnQueue
    PROVE  EventIsDone'
BY DEF SameOps, EventIsDone, InOwnQueue

\* The operations as the application knows them: a list of the same length.
LEMMA IssuedList ==
    ASSUME TypeInv, QueueInv
    PROVE  /\ Issued \in Seq([stream : Queue, awaits : SUBSET OpId])
           /\ Len(Issued) = Len(ops) /\ DOMAIN Issued = DOMAIN ops
           /\ \A i \in DOMAIN ops : /\ Issued[i].stream = ops[i].stream
                                    /\ Issued[i].awaits = ops[i].awaits
<1> DEFINE T == [stream : Queue, awaits : SUBSET OpId]
           n == Len(ops)
<1>1. n \in Nat /\ DOMAIN ops = 1 .. n
  BY OpPositions, Constants
<1>2. \A i \in DOMAIN ops : /\ Issued[i] = [stream |-> ops[i].stream,
                                            awaits |-> ops[i].awaits]
                            /\ Issued[i] \in T
  BY OpPositions DEF Issued, Operation
<1>3. Issued \in [1 .. n -> T]
  BY <1>1, <1>2 DEF Issued
<1> HIDE DEF T, n
<1>4. Issued \in Seq(T) /\ Len(Issued) = n /\ DOMAIN Issued = 1 .. n
  BY <1>1, <1>3, SeqDef, LenProperties
<1> QED
  BY <1>1, <1>2, <1>4 DEF T, n

\* A step that changes no operation in what the application knows of it.
LEMMA IssuedKept ==
    ASSUME SameOps
    PROVE  Issued' = Issued
BY DEF SameOps, Issued

\* An accepted operation is issued: it awaits operations before it.
LEMMA PushIssues ==
    ASSUME TypeInv, QueueInv, EventInv, NEW op, NEW new, NEW s,
           Pushed(op, new, s), ~max_hit
    PROVE  Order!IssueOperation
<1> DEFINE n == Len(ops)
           x == [stream |-> new.stream, awaits |-> new.awaits]
<1>1. /\ ops' = Append(ops, new) /\ new \in Operation /\ ops \in Seq(Operation)
      /\ op = calls[1] /\ new.kind = op.kind /\ new.awaits = op.awaits
      /\ UNCHANGED done /\ calls # <<>> /\ calls \in Seq(Operation)
  BY DEF Pushed, TypeInv
<1>2. 1 \in DOMAIN calls
  BY <1>1, LenProperties, EmptySeq
<1>3. /\ n \in Nat /\ DOMAIN ops = 1 .. n /\ DOMAIN ops' = 1 .. n + 1
      /\ \A i \in 1 .. n : ops'[i] = ops[i]
      /\ ops'[n + 1] = new
  BY <1>1, AppendProperties, LenProperties
<1>4. new.awaits \subseteq 1 .. n
  <2>1. CASE op.kind = "wait_event"
    <3>1. op.awaits \subseteq Rec(ops, op.event)
      BY <1>1, <1>2, <2>1 DEF EventInv, WaitsInv
    <3> QED
      BY <1>1, <1>3, <3>1 DEF Rec
  <2>2. CASE op.kind # "wait_event"
    BY <1>1, <1>2, <2>2 DEF EventInv, FieldsInv, EventFields
  <2> QED
    BY <2>1, <2>2
<1>5. x \in [stream : Stream \cup {Zero}, awaits : SUBSET (1 .. n)]
  BY <1>1, <1>4 DEF Operation, Queue
<1>6. Issued \in Seq([stream : Queue, awaits : SUBSET OpId]) /\ Len(Issued) = n
  BY IssuedList
<1>7. Issued' = Append(Issued, x)
  <2> DEFINE t == Append(Issued, x)
  <2>1. /\ t = [i \in 1 .. n + 1 |-> IF i = n + 1 THEN x ELSE Issued[i]]
    BY <1>3, <1>6, AppendProperties
  <2>2. Issued' = [i \in 1 .. n + 1 |-> [stream |-> ops'[i].stream,
                                         awaits |-> ops'[i].awaits]]
    BY <1>3 DEF Issued
  <2>3. ASSUME NEW i \in 1 .. n + 1
        PROVE  [stream |-> ops'[i].stream, awaits |-> ops'[i].awaits]
                 = IF i = n + 1 THEN x ELSE Issued[i]
    <3>1. CASE i = n + 1
      BY <1>3, <3>1
    <3>2. CASE i # n + 1
      <4>1. i \in 1 .. n
        BY <1>3, <3>2
      <4> QED
        BY <1>3, <3>2, <4>1 DEF Issued
    <3> QED
      BY <3>1, <3>2
  <2> QED
    BY <2>1, <2>2, <2>3
<1> HIDE DEF x, n
<1> QED
  BY <1>1, <1>5, <1>6, <1>7 DEF Order!IssueOperation, Order!Operation

\* Operations at the heads of their streams are carried out.
LEMMA HeadsComplete ==
    ASSUME RecordedInOneStream, TypeInv, QueueInv, EventInv,
           NEW ss \in SUBSET Queue, UNCHANGED ops, Finish(ss),
           \A s \in ss : /\ Waiting(s)
                         /\ LET op == ops[Head(m_operations[s])]
                            IN  op.kind = "wait_event" => m_updates[op.event] >= op.cnt
    PROVE  Order!CompleteOperations
<1> DEFINE C == {Head(m_operations[s]) : s \in ss}
<1>1. done' = done \cup C
  BY DEF Finish
<1>2. C \subseteq DOMAIN ops
  BY HeadIsOp
<1>3. ASSUME NEW i \in C, NEW j \in DOMAIN ops, j < i,
             \/ ops[j].stream \in {ops[i].stream, Zero} \/ ops[i].stream = Zero
             \/ j \in ops[i].awaits
      PROVE  j \in done
  <2>1. PICK s \in ss : i = Head(m_operations[s])
    OBVIOUS
  <2>2. /\ s \in Queue /\ Waiting(s)
        /\ ops[i].kind = "wait_event" => m_updates[ops[i].event] >= ops[i].cnt
    BY <2>1
  <2> QED
    BY <1>3, <2>1, <2>2, HeadMayComplete
<1>4. Issued' = Issued
  BY UnchangedOps, IssuedKept
<1>5. /\ Len(Issued) = Len(ops) /\ DOMAIN ops = 1 .. Len(ops)
      /\ \A i \in DOMAIN ops : /\ Issued[i].stream = ops[i].stream
                               /\ Issued[i].awaits = ops[i].awaits
  BY IssuedList, OpPositions
<1> HIDE DEF C
<1>6. ASSUME NEW i \in C PROVE Order!MayComplete(i)
  <2>1. ASSUME NEW j \in 1 .. Len(Issued), Order!After(i, j) PROVE j \in done
    <3>1. i \in DOMAIN ops /\ j \in DOMAIN ops
      BY <1>2, <1>5
    <3>2. /\ j < i
          /\ \/ ops[j].stream \in {ops[i].stream, Zero} \/ ops[i].stream = Zero
             \/ j \in ops[i].awaits
      BY <1>5, <2>1, <3>1 DEF Order!After
    <3> QED
      BY <1>3, <3>1, <3>2
  <2> QED
    BY <2>1 DEF Order!MayComplete
<1>7. C \in SUBSET (1 .. Len(Issued))
  BY <1>2, <1>5
<1> QED
  BY <1>1, <1>4, <1>6, <1>7 DEF Order!CompleteOperations

\* A step of the two threads is a step of the abstract streams, or none.
LEMMA OrderStep ==
    ASSUME RecordedInOneStream, SMInv, [Next]_vars
    PROVE  [Order!OrderNext]_<<Issued, done>>
<1> USE DEF SMInv, Order!OrderNext
<1>1. CASE HostCall \/ HostReturn
  <2>1. CASE CallStep
    BY <2>1, UnchangedOps, IssuedKept DEF CallStep
  <2>2. ASSUME NEW op, NEW new, NEW s, Pushed(op, new, s)
        PROVE  [Order!OrderNext]_<<Issued, done>>
    <3>1. CASE max_hit
      <4>1. UNCHANGED <<ops, done>>
        BY <2>2, <3>1 DEF Pushed
      <4> QED
        BY <4>1, UnchangedOps, IssuedKept
    <3>2. CASE ~max_hit
      BY <2>2, <3>2, PushIssues
    <3> QED
      BY <3>1, <3>2
  <2> QED
    BY <1>1, <2>1, <2>2, HostSteps
<1>2. CASE Simulation
  <2>1. CASE KeepStep
    BY <2>1, IssuedKept DEF KeepStep
  <2>2. ASSUME NEW ss, EndKernels(ss) PROVE Order!CompleteOperations
    <3>1. /\ ss \in SUBSET Queue /\ UNCHANGED ops /\ Finish(ss)
          /\ \A s \in ss : Waiting(s) /\ ops[Head(m_operations[s])].kind = "kernel"
      BY <2>2 DEF EndKernels
    <3> QED
      BY <3>1, HeadsComplete
  <2>3. ASSUME NEW s, CarryOut(s) PROVE Order!CompleteOperations
    <3>1. /\ s \in Queue /\ Waiting(s) /\ UNCHANGED ops /\ Finish({s})
          /\ ImmediateReady(ops[Head(m_operations[s])])
      BY <2>3 DEF CarryOut, do_immediate
    <3>2. LET op == ops[Head(m_operations[s])]
          IN  op.kind = "wait_event" => m_updates[op.event] >= op.cnt
      BY <3>1 DEF ImmediateReady
    <3>3. {s} \in SUBSET Queue /\ \A t \in {s} : t = s
      BY <3>1
    <3> QED
      BY <3>1, <3>2, <3>3, HeadsComplete
  <2> QED
    BY <1>2, <2>1, <2>2, <2>3, SimSteps
<1>3. CASE UNCHANGED vars
  <2>1. UNCHANGED <<ops, done>>
    BY <1>3 DEF vars, streamVars
  <2> QED
    BY <2>1, UnchangedOps, IssuedKept
<1> QED
  BY <1>1, <1>2, <1>3 DEF Next, Ended

\* The stream manager implements the abstract streams of StreamOrder: streams
\* are in order, stream zero is a barrier, a wait comes after the record it is
\* made for.  For every application that records its events in one stream.
THEOREM StreamsKeepOrder ==
    ASSUME RecordedInOneStream
    PROVE  Spec => OrderRefined
<1>1. Init => Order!OrderInit
  BY DEF Init, Order!OrderInit, Issued
<1>2. SMInv /\ [Next]_vars => [Order!OrderNext]_<<Issued, done>>
  BY OrderStep
<1>3. Order!orderVars = <<Issued, done>>
  BY DEF Order!orderVars
<1> QED
  BY <1>1, <1>2, SMInvariance, PTL DEF Spec, OrderRefined, Order!OrderSpec, Order!orderVars

\* A wait that has been passed has its record behind it, for every application
\* that records its events in one stream.
THEOREM WaitsAreHonoured ==
    ASSUME RecordedInOneStream
    PROVE  Spec => []EventIsDone
<1>1. Init => EventIsDone
  BY DEF Init, EventIsDone
<1>2. ASSUME SMInv, EventIsDone, [Next]_vars PROVE EventIsDone'
  <2> USE DEF SMInv
  <2>0. InOwnQueue
    BY <1>2 DEF QueueInv
  <2>1. CASE HostCall \/ HostReturn
    <3>1. CASE CallStep
      BY <1>2, <2>0, <3>1, UnchangedOps, SameAwaits DEF CallStep
    <3>2. ASSUME NEW op, NEW new, NEW s, Pushed(op, new, s) PROVE EventIsDone'
      <4>1. /\ UNCHANGED done /\ ops \in Seq(Operation) /\ new \in Operation
            /\ ops' = ops \/ ops' = Append(ops, new)
        BY <1>2, <3>2 DEF Pushed, TypeInv
      <4>2. \A i \in DOMAIN ops : ops'[i] = ops[i]
        BY <4>1, AppendProperties, LenProperties
      <4> QED
        BY <1>2, <2>0, <4>1, <4>2 DEF EventIsDone, InOwnQueue
    <3> QED
      BY <1>2, <2>1, <3>1, <3>2, HostSteps
  <2>2. CASE Simulation
    <3>1. CASE KeepStep
      BY <1>2, <2>0, <3>1, SameAwaits DEF KeepStep
    <3>2. ASSUME NEW ss, EndKernels(ss) PROVE EventIsDone'
      <4>1. \A i : i \in done' <=> \/ i \in done
                                   \/ \E s \in ss : i = Head(m_operations[s])
        BY <1>2, <3>2, Finished DEF EndKernels
      <4> QED
        BY <1>2, <3>2, <4>1 DEF EndKernels, EventIsDone
    <3>3. ASSUME NEW s, CarryOut(s) PROVE EventIsDone'
      <4> DEFINE h == Head(m_operations[s])
      <4>1. /\ s \in Queue /\ Waiting(s) /\ UNCHANGED ops /\ Finish({s})
            /\ ImmediateReady(ops[h])
        BY <3>3 DEF CarryOut, do_immediate
      <4>2. h \in DOMAIN ops
        BY <1>2, <4>1, HeadIsOp
      <4>3. done' = done \cup {h}
        BY <4>1 DEF Finish
      <4> HIDE DEF h
      <4>4. ops[h].kind = "wait_event" => m_updates[ops[h].event] >= ops[h].cnt
        BY <4>1 DEF ImmediateReady
      <4>5. ops[h].kind = "wait_event" => ops[h].awaits \subseteq done
        BY <1>2, <4>2, <4>4, CountedRecords
      <4> QED
        BY <1>2, <4>1, <4>3, <4>5 DEF EventIsDone
    <3> QED
      BY <1>2, <2>2, <3>1, <3>2, <3>3, SimSteps
  <2>3. CASE UNCHANGED vars
    BY <1>2, <2>3 DEF vars, streamVars, EventIsDone
  <2> QED
    BY <1>2, <2>1, <2>2, <2>3 DEF Next, Ended
<1>3. SMInv /\ EventIsDone /\ [Next]_vars => EventIsDone'
  BY <1>2
<1> QED
  BY <1>1, <1>3, SMInvariance, PTL DEF Spec
=============================================================================
