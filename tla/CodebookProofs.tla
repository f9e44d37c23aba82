--------------------------- MODULE CodebookProofs ---------------------------
(***************************************************************************)
(* Proofs for every alphabet, every pair of thresholds, every pair of      *)
(* clocks and every length of interval, delay and FIFO.  FrequencyTable on *)
(* its own: the table stays below its eviction threshold and no code is    *)
(* ever derived from a count of zero.  Codebook: its table obeys           *)
(* FrequencyTable, the FIFO is bounded, a codebook in use has its interval *)
(* and its snapshot.                                                       *)
(***************************************************************************)
EXTENDS Codebook, FiniteSetTheorems, SequenceTheorems, TLAPS

-----------------------------------------------------------------------------
(* The frequency table *)

\* The entries the eviction and the code generator choose have positive counts,
\* provided the entries with count zero are outranked.
LEMMA TopEntriesPositive ==
    ASSUME NEW t, IsTable(t), IsFiniteSet(DOMAIN t), Outranked(t),
           NEW S \in TopEntries(t)
    PROVE  /\ S \subseteq DOMAIN t
           /\ IsFiniteSet(S)
           /\ \A x \in S : t[x] > 0
<1> DEFINE D == DOMAIN t
           Z == Zeros(t)
<1>1. /\ Z \subseteq D
      /\ \A x \in D : t[x] \in Nat /\ (t[x] = 0 <=> x \in Z)
  BY DEF Zeros, IsTable
<1>2. S \subseteq D
  BY DEF TopEntries, Truncated, Heaviest
<1>3. /\ IsFiniteSet(S) /\ IsFiniteSet(D \ Z)
      /\ Cardinality(D) \in Nat
      /\ Cardinality(D \ Z) \in Nat
      /\ FinalSize \in Nat
  BY <1>2, FS_Subset, FS_Difference, FS_CardinalityType, SizeAssumption
<1>4. ASSUME NEW x \in S, x \in Z PROVE FALSE
  <2>1. Cardinality(D \ Z) >= FinalSize
    BY <1>4 DEF Outranked
  <2>2. CASE Cardinality(D) > FinalSize
    <3>1. /\ Cardinality(S) = FinalSize
          /\ \A y \in D \ S : t[y] <= t[x]
      BY <2>2 DEF TopEntries, Truncated, Heaviest
    <3>2. D \ Z \subseteq S \ {x}
      BY <1>1, <1>2, <1>4, <3>1
    <3>3. /\ IsFiniteSet(S \ {x})
          /\ Cardinality(S \ {x}) = FinalSize - 1
      BY <1>3, <3>1, FS_RemoveElement
    <3>4. Cardinality(D \ Z) <= FinalSize - 1
      BY <3>2, <3>3, FS_Subset
    <3> QED
      BY <1>3, <2>1, <3>4
  <2>3. CASE ~(Cardinality(D) > FinalSize)
    <3>1. D \ Z # D
      BY <1>1, <1>2, <1>4
    <3>2. Cardinality(D \ Z) < Cardinality(D)
      BY <1>3, <3>1, FS_Subset
    <3> QED
      BY <1>3, <2>1, <2>3, <3>2
  <2> QED
    BY <2>2, <2>3
<1> QED
  BY <1>1, <1>2, <1>3, <1>4

\* Counting a symbol keeps a table a table and the zero counts outranked, and
\* leaves the counted symbol with a positive count.
LEMMA AddOne ==
    ASSUME NEW t, IsTable(t), IsFiniteSet(DOMAIN t), Outranked(t),
           NEW s \in Symbol
    PROVE  /\ IsTable(Add(t, s, 1))
           /\ DOMAIN Add(t, s, 1) = DOMAIN t \cup {s}
           /\ IsFiniteSet(DOMAIN Add(t, s, 1))
           /\ Outranked(Add(t, s, 1))
<1> DEFINE c == Add(t, s, 1)
<1>1. /\ DOMAIN c = DOMAIN t \cup {s}
      /\ IsTable(c)
      /\ \A x \in DOMAIN c : c[x] = IF x = s THEN get_frequency(t, s) + 1
                                             ELSE t[x]
      /\ get_frequency(t, s) \in Nat
  BY DEF Add, IsTable, get_frequency
<1>2. IsFiniteSet(DOMAIN c)
  BY <1>1, FS_AddElement
<1>3. /\ Zeros(c) \subseteq Zeros(t)
      /\ DOMAIN t \ Zeros(t) \subseteq DOMAIN c \ Zeros(c)
  BY <1>1 DEF Zeros, IsTable
<1>4. ASSUME Zeros(t) # {} PROVE Cardinality(DOMAIN c \ Zeros(c)) >= FinalSize
  <2>1. IsFiniteSet(DOMAIN c \ Zeros(c)) /\ IsFiniteSet(DOMAIN t \ Zeros(t))
    BY <1>2, FS_Difference
  <2>2. Cardinality(DOMAIN t \ Zeros(t)) <= Cardinality(DOMAIN c \ Zeros(c))
    BY <1>3, <2>1, FS_Subset
  <2> QED
    BY <1>4, <2>1, <2>2, FS_CardinalityType, SizeAssumption DEF Outranked
<1> QED
  BY <1>1, <1>2, <1>3, <1>4 DEF Outranked

\* The table an eviction leaves behind, the evicted symbol entered again with
\* count zero included.
LEMMA Reentered ==
    ASSUME NEW c, IsTable(c), IsFiniteSet(DOMAIN c), Outranked(c),
           Cardinality(DOMAIN c) > FinalSize,
           NEW s \in DOMAIN c, NEW S \in TopEntries(c)
    PROVE  LET r == Add(Keep(c, S), s, 0)
           IN  /\ IsTable(r)
               /\ IsFiniteSet(DOMAIN r)
               /\ Cardinality(DOMAIN r) <= FinalSize + 1
               /\ Outranked(r)
<1> DEFINE k == Keep(c, S)
           r == Add(k, s, 0)
<1>1. /\ S \subseteq DOMAIN c
      /\ IsFiniteSet(S)
      /\ \A x \in S : c[x] > 0
  BY TopEntriesPositive
<1>2. Cardinality(S) = FinalSize
  BY DEF TopEntries, Truncated, Heaviest
<1>3. /\ DOMAIN k = S
      /\ \A x \in S : k[x] = c[x] /\ k[x] \in Nat
  BY <1>1 DEF Keep, IsTable
<1>4. /\ DOMAIN r = S \cup {s}
      /\ \A x \in S : r[x] = c[x]
      /\ s \notin S => r[s] = 0
      /\ IsTable(r)
  BY <1>1, <1>3 DEF Add, IsTable, get_frequency
<1>5. /\ IsFiniteSet(DOMAIN r)
      /\ Cardinality(DOMAIN r) <= FinalSize + 1
  <2>1. /\ IsFiniteSet(S \cup {s})
        /\ Cardinality(S \cup {s}) <= FinalSize + 1
    <3>1. IsFiniteSet(S \cup {s})
      BY <1>1, FS_AddElement
    <3>2. Cardinality(S \cup {s}) = IF s \in S THEN FinalSize ELSE FinalSize + 1
      BY <1>1, <1>2, FS_AddElement
    <3> QED
      BY <3>1, <3>2, SizeAssumption
  <2> QED
    BY <1>4, <2>1
<1>6. \/ Zeros(r) = {}
      \/ DOMAIN r \ Zeros(r) = S
  BY <1>1, <1>4 DEF Zeros, IsTable
<1>7. Outranked(r)
  BY <1>2, <1>6, SizeAssumption DEF Outranked
<1> QED
  BY <1>4, <1>5, <1>7

\* Halving leaves positive counts only.
LEMMA ScaledPositive ==
    ASSUME NEW t, IsTable(t), IsFiniteSet(DOMAIN t)
    PROVE  /\ IsTable(scale_down(t))
           /\ DOMAIN scale_down(t) \subseteq DOMAIN t
           /\ IsFiniteSet(DOMAIN scale_down(t))
           /\ Cardinality(DOMAIN scale_down(t)) <= Cardinality(DOMAIN t)
           /\ Outranked(scale_down(t))
<1>1. /\ DOMAIN scale_down(t) = Survivors(t)
      /\ Survivors(t) \subseteq DOMAIN t
      /\ \A x \in Survivors(t) : /\ scale_down(t)[x] = t[x] \div 2
                                 /\ t[x] \div 2 # 0
                                 /\ t[x] \in Nat
  BY DEF scale_down, Survivors, IsTable
<1>2. \A n \in Nat : n \div 2 \in Nat
  OBVIOUS
<1>3. IsTable(scale_down(t))
  BY <1>1, <1>2 DEF IsTable, scale_down
<1>4. Zeros(scale_down(t)) = {}
  BY <1>1 DEF Zeros
<1> QED
  BY <1>1, <1>3, <1>4, FS_Subset DEF Outranked

-----------------------------------------------------------------------------

FTInv == /\ FTTypeOK
         /\ IsFiniteSet(DOMAIN m_frequency_map)
         /\ ZeroIsOutranked
         /\ TableBelowThreshold
         /\ CodesFromPositiveCounts

\* The empty table.
LEMMA FTInitInv == FTInit => FTInv
<1> SUFFICES ASSUME FTInit PROVE FTInv
  OBVIOUS
<1>1. /\ DOMAIN m_frequency_map = {}
      /\ DOMAIN m_codes = {}
      /\ FTTypeOK
  BY DEF FTInit, EmptyTable, FTTypeOK, IsTable
<1>2. Zeros(m_frequency_map) = {}
  BY <1>1 DEF Zeros
<1> QED
  BY <1>1, <1>2, FS_EmptySet, SizeAssumption
  DEF FTInv, ZeroIsOutranked, Outranked, TableBelowThreshold,
      CodesFromPositiveCounts

\* Counting a symbol, with the eviction it may cause.
LEMMA UpdateInv ==
    ASSUME FTInv, NEW s \in Symbol, update_frequency(s)
    PROVE  FTInv'
<1> DEFINE c == Add(m_frequency_map, s, 1)
<1> USE DEF FTInv, FTTypeOK
<1>1. /\ IsTable(c)
      /\ DOMAIN c = DOMAIN m_frequency_map \cup {s}
      /\ IsFiniteSet(DOMAIN c)
      /\ Outranked(c)
  BY AddOne DEF ZeroIsOutranked
<1>2. Cardinality(DOMAIN c) \in Nat
  BY <1>1, FS_CardinalityType
<1>3. /\ IsTable(m_frequency_map')
      /\ IsFiniteSet(DOMAIN m_frequency_map')
      /\ Outranked(m_frequency_map')
      /\ Cardinality(DOMAIN m_frequency_map') < CheckingSize
  <2>1. CASE EvictionDue(c)
    <3>1. Cardinality(DOMAIN c) > FinalSize
      BY <1>2, <2>1, SizeAssumption DEF EvictionDue
    <3>2. PICK S \in TopEntries(c) :
             m_frequency_map' = Add(Keep(c, S), s, 0)
      BY <2>1 DEF update_frequency
    <3>3. /\ IsTable(m_frequency_map')
          /\ IsFiniteSet(DOMAIN m_frequency_map')
          /\ Cardinality(DOMAIN m_frequency_map') <= FinalSize + 1
          /\ Outranked(m_frequency_map')
      BY <1>1, <3>1, <3>2, Reentered
    <3> QED
      BY <3>2, <3>3, FS_CardinalityType, SizeAssumption
  <2>2. CASE ~EvictionDue(c)
    <3>1. m_frequency_map' = c
      BY <2>2 DEF update_frequency
    <3>2. Cardinality(DOMAIN c) < CheckingSize
      BY <1>2, <2>2, SizeAssumption DEF EvictionDue
    <3> HIDE DEF c
    <3> QED
      BY <1>1, <3>1, <3>2
  <2> QED
    BY <2>1, <2>2
<1>4. m_codes' = m_codes
  BY DEF update_frequency
<1> QED
  BY <1>3, <1>4
  DEF ZeroIsOutranked, TableBelowThreshold, CodesFromPositiveCounts

\* A rebuild takes codes from the table and ages it.
LEMMA RebuildInv ==
    ASSUME FTInv, rebuild_codebook_and_age_samples
    PROVE  FTInv'
<1> USE DEF FTInv, FTTypeOK
<1>1. PICK S \in TopEntries(m_frequency_map) :
         m_codes' = Keep(m_frequency_map, S)
  BY DEF rebuild_codebook_and_age_samples
<1>2. /\ S \subseteq DOMAIN m_frequency_map
      /\ \A x \in S : m_frequency_map[x] > 0
  BY TopEntriesPositive DEF ZeroIsOutranked
<1>3. IsTable(m_codes') /\ CodesFromPositiveCounts'
  BY <1>1, <1>2 DEF Keep, IsTable, CodesFromPositiveCounts
<1>4. /\ IsTable(m_frequency_map')
      /\ IsFiniteSet(DOMAIN m_frequency_map')
      /\ Outranked(m_frequency_map')
      /\ Cardinality(DOMAIN m_frequency_map') < CheckingSize
  <2>1. CASE m_frequency_map' = m_frequency_map
    BY <2>1 DEF ZeroIsOutranked, TableBelowThreshold
  <2>2. CASE m_frequency_map' = scale_down(m_frequency_map)
    BY <2>2, ScaledPositive, FS_CardinalityType, SizeAssumption
    DEF TableBelowThreshold
  <2> QED
    BY <2>1, <2>2 DEF rebuild_codebook_and_age_samples
<1> QED
  BY <1>3, <1>4
  DEF ZeroIsOutranked, TableBelowThreshold, rebuild_codebook_and_age_samples

\* Every reachable state of the table satisfies the inductive invariant.
THEOREM FTInvariance == FTSpec => []FTInv
<1>1. FTInv /\ [FTNext]_tableVars => FTInv'
  <2> SUFFICES ASSUME FTInv, [FTNext]_tableVars PROVE FTInv'
    OBVIOUS
  <2>1. CASE FTNext
    BY <2>1, UpdateInv, RebuildInv DEF FTNext
  <2>2. CASE UNCHANGED tableVars
    BY <2>2 DEF tableVars, FTInv, FTTypeOK, ZeroIsOutranked,
                TableBelowThreshold, CodesFromPositiveCounts
  <2> QED
    BY <2>1, <2>2
<1> QED
  BY <1>1, FTInitInv, PTL DEF FTSpec

\* The code generators never see a count of zero: ceil(-log2(p)) at
\* huffman.cc:677 is always taken of a positive probability.
THEOREM CodesArePositive == FTSpec => []CodesFromPositiveCounts
<1>1. FTInv => CodesFromPositiveCounts
  BY DEF FTInv
<1> QED
  BY <1>1, FTInvariance, PTL

\* The table never reaches the eviction threshold between two operations.
THEOREM TableIsBounded == FTSpec => []TableBelowThreshold
<1>1. FTInv => TableBelowThreshold
  BY DEF FTInv
<1> QED
  BY <1>1, FTInvariance, PTL

\* A zero count, left behind by update_frequency, is outranked by FinalSize
\* positive ones: the reason why it never reaches the code generators.
THEOREM ZerosAreOutranked == FTSpec => []ZeroIsOutranked
<1>1. FTInv => ZeroIsOutranked
  BY DEF FTInv
<1> QED
  BY <1>1, FTInvariance, PTL

-----------------------------------------------------------------------------
(* The codebook *)

\* What the FIFO holds, and how the interval goes with the codebook.
CodebookInv == /\ m_sampling_symbol_fifo \in Seq(Symbol)
               /\ FifoBounded
               /\ EnabledHasInterval

\* The part of a request the FIFO has room for fits into it.
LEMMA AdmittedFits ==
    ASSUME m_sampling_symbol_fifo \in Seq(Symbol), FifoBounded,
           NEW symbols \in [1 .. SymbolsPerRequest -> Symbol]
    PROVE  /\ m_sampling_symbol_fifo \o Admitted(symbols) \in Seq(Symbol)
           /\ Len(m_sampling_symbol_fifo \o Admitted(symbols)) <= FifoCapacity
<1> DEFINE n == Earlier(Len(symbols), FifoCapacity - Len(m_sampling_symbol_fifo))
<1>1. /\ SymbolsPerRequest \in Nat
      /\ FifoCapacity \in Nat
      /\ Len(m_sampling_symbol_fifo) \in Nat
      /\ Len(m_sampling_symbol_fifo) <= FifoCapacity
  BY SamplingAssumption DEF FifoBounded
<1>2. symbols \in Seq(Symbol) /\ Len(symbols) = SymbolsPerRequest
  BY <1>1
<1>3. /\ n \in 0 .. Len(symbols)
      /\ n + Len(m_sampling_symbol_fifo) <= FifoCapacity
  BY <1>1, <1>2 DEF Earlier
<1>4. SubSeq(symbols, 1, n) \in Seq(Symbol) /\ Len(SubSeq(symbols, 1, n)) = n
  BY <1>2, <1>3
<1> QED
  BY <1>1, <1>3, <1>4 DEF Admitted

\* A rebuild, early or delayed, opens an interval if it makes any codes.
LEMMA RebuildOpensInterval ==
    ASSUME RebuildCodebook
    PROVE  /\ has_interval => has_interval'
           /\ m_codes' # EmptyTable => has_interval'
BY DEF RebuildCodebook, start_new_interval

\* Nothing is sampled or coded when the partition is constructed.
LEMMA CodebookInitInv == Init => CodebookInv
<1> SUFFICES ASSUME Init PROVE CodebookInv
  OBVIOUS
<1> QED
  BY SamplingAssumption
  DEF Init, FTInit, EmptyTable, CodebookInv, FifoBounded, EnabledHasInterval

\* Every step leaves the invariant intact.
LEMMA CodebookStepInv ==
    ASSUME CodebookInv, [Next]_vars
    PROVE  CodebookInv'
<1> USE DEF CodebookInv
<1>1. CASE /\ UNCHANGED <<m_sampling_symbol_fifo, m_codes>>
           /\ UNCHANGED intervalVars
  BY <1>1 DEF FifoBounded, EnabledHasInterval, intervalVars
<1>2. ASSUME Tick PROVE CodebookInv'
  BY <1>1, <1>2 DEF Tick, tableVars
<1>3. ASSUME StartRebuild PROVE CodebookInv'
  BY <1>1, <1>3 DEF StartRebuild, tableVars
<1>4. ASSUME complete_dynamic_codebook_rebuild_if_ready PROVE CodebookInv'
  <2>1. UNCHANGED <<m_sampling_symbol_fifo, m_huffman_enabled>>
    BY <1>4 DEF complete_dynamic_codebook_rebuild_if_ready
  <2>2. CASE RebuildCodebook
    BY <2>1, <2>2, RebuildOpensInterval DEF FifoBounded, EnabledHasInterval
  <2>3. CASE UNCHANGED <<tableVars, rebuild_active, has_interval, snapshot>>
    BY <2>1, <2>3, <1>1 DEF tableVars, intervalVars
  <2> QED
    BY <1>4, <2>2, <2>3 DEF complete_dynamic_codebook_rebuild_if_ready
<1>5. ASSUME SampleSymbol PROVE CodebookInv'
  <2>1. /\ m_sampling_symbol_fifo # <<>>
        /\ m_sampling_symbol_fifo' = Tail(m_sampling_symbol_fifo)
        /\ UNCHANGED m_codes /\ UNCHANGED intervalVars
    BY <1>5 DEF SampleSymbol, SamplingDone, update_frequency
  <2>2. /\ m_sampling_symbol_fifo' \in Seq(Symbol)
        /\ Len(m_sampling_symbol_fifo') <= Len(m_sampling_symbol_fifo)
    BY <2>1
  <2>3. FifoCapacity \in Nat
    BY SamplingAssumption
  <2> QED
    BY <2>1, <2>2, <2>3
    DEF FifoBounded, EnabledHasInterval, intervalVars
<1>6. ASSUME EndSampling PROVE CodebookInv'
  BY <1>1, <1>6 DEF EndSampling, tableVars
<1>7. ASSUME enqueue_sampled_symbols PROVE CodebookInv'
  <2>1. PICK symbols \in [1 .. SymbolsPerRequest -> Symbol] :
           m_sampling_symbol_fifo' = m_sampling_symbol_fifo \o Admitted(symbols)
    BY <1>7 DEF enqueue_sampled_symbols
  <2>2. UNCHANGED m_codes /\ UNCHANGED intervalVars
    BY <1>7 DEF enqueue_sampled_symbols, tableVars
  <2> QED
    BY <2>1, <2>2, AdmittedFits
    DEF FifoBounded, EnabledHasInterval, intervalVars
<1>8. ASSUME NoSampledRequest PROVE CodebookInv'
  BY <1>1, <1>8 DEF NoSampledRequest, tableVars
<1>9. ASSUME InitialBuild PROVE CodebookInv'
  <2>1. UNCHANGED m_sampling_symbol_fifo
    BY <1>9 DEF InitialBuild
  <2>2. CASE RebuildCodebook /\ m_huffman_enabled' = (m_codes' # EmptyTable)
    BY <2>1, <2>2, RebuildOpensInterval DEF FifoBounded, EnabledHasInterval
  <2>3. CASE UNCHANGED <<tableVars, intervalVars>>
    BY <2>1, <2>3, <1>1 DEF tableVars
  <2> QED
    BY <1>9, <2>2, <2>3 DEF InitialBuild
<1>10. ASSUME CoreTick PROVE CodebookInv'
  BY <1>1, <1>10 DEF CoreTick, tableVars
<1>11. CASE UNCHANGED vars
  BY <1>1, <1>11 DEF vars, tableVars
<1> QED
  BY <1>2, <1>3, <1>4, <1>5, <1>6, <1>7, <1>8, <1>9, <1>10, <1>11 DEF Next

\* The FIFO keeps to its capacity, the codebook to its interval, in
\* every reachable state.
THEOREM CodebookInvariance == Spec => []CodebookInv
<1> QED
  BY CodebookInitInv, CodebookStepInv, PTL DEF Spec

\* SAMPLING_FIFO_CAPACITY bounds the FIFO (l2cache.cc:247).
THEOREM FifoIsBounded == Spec => []FifoBounded
<1>1. CodebookInv => FifoBounded
  BY DEF CodebookInv
<1> QED
  BY <1>1, CodebookInvariance, PTL

\* The read path never calls back() on an empty vector of intervals
\* (l2cache.cc:901).
THEOREM IntervalIsOpen == Spec => []EnabledHasInterval
<1>1. CodebookInv => EnabledHasInterval
  BY DEF CodebookInv
<1> QED
  BY <1>1, CodebookInvariance, PTL

-----------------------------------------------------------------------------
(* The table of a partition, driven through the FIFO and under two clocks, *)
(* does nothing that FrequencyTable does not allow.                        *)

\* Each step of the partition is a step of the table or leaves it alone.
LEMMA TableStep ==
    ASSUME CodebookInv, [Next]_vars
    PROVE  [FTNext]_tableVars
<1>1. ASSUME SampleSymbol PROVE FTNext
  <2>1. m_sampling_symbol_fifo \in Seq(Symbol) /\ m_sampling_symbol_fifo # <<>>
    BY <1>1 DEF SampleSymbol, SamplingDone, CodebookInv
  <2>2. Head(m_sampling_symbol_fifo) \in Symbol
    BY <2>1
  <2> QED
    BY <1>1, <2>2 DEF SampleSymbol, FTNext
<1>2. ASSUME complete_dynamic_codebook_rebuild_if_ready PROVE [FTNext]_tableVars
  BY <1>2 DEF complete_dynamic_codebook_rebuild_if_ready, RebuildCodebook, FTNext
<1>3. ASSUME InitialBuild PROVE [FTNext]_tableVars
  BY <1>3 DEF InitialBuild, RebuildCodebook, FTNext
<1>4. ASSUME \/ Tick \/ StartRebuild \/ EndSampling \/ enqueue_sampled_symbols
             \/ NoSampledRequest \/ CoreTick \/ UNCHANGED vars
      PROVE  UNCHANGED tableVars
  BY <1>4 DEF Tick, StartRebuild, EndSampling, enqueue_sampled_symbols,
              NoSampledRequest, CoreTick, vars
<1> QED
  BY <1>1, <1>2, <1>3, <1>4 DEF Next

\* Codebook implements FrequencyTable.
THEOREM TableIsRefined == Spec => FTSpec
<1>1. Init => FTInit
  BY DEF Init
<1> QED
  BY <1>1, CodebookInvariance, TableStep, PTL DEF Spec, FTSpec

\* So no code is ever derived from a zero count in the running partition
\* either (huffman.cc:674).
THEOREM PartitionCodesArePositive == Spec => []CodesFromPositiveCounts
<1> QED
  BY TableIsRefined, CodesArePositive, PTL

\* Nor does the running partition's table creep past its eviction threshold
\* (huffman.cc:89-94), whatever the FIFO lets through between two rebuilds.
THEOREM PartitionTableIsBounded == Spec => []TableBelowThreshold
<1> QED
  BY TableIsRefined, TableIsBounded, PTL

-----------------------------------------------------------------------------
(* The snapshot of an interval.  The counts the codes were built from are  *)
(* those the snapshot shows: it is taken from the same entries, before     *)
(* scale_down, and cut to the SnapshotSize most frequent ones.             *)

\* What a rebuild that makes codes captures.
LEMMA CapturedEntries ==
    ASSUME RebuildCodebook, m_codes' # EmptyTable
    PROVE  /\ DOMAIN m_codes' \subseteq DOMAIN m_frequency_map
           /\ \A s \in DOMAIN m_codes' : m_codes'[s] = m_frequency_map[s]
           /\ \E S \in Truncated(m_codes', SnapshotSize) :
                 snapshot' = Keep(m_frequency_map, S)
<1>1. PICK C \in TopEntries(m_frequency_map) :
         m_codes' = Keep(m_frequency_map, C)
  BY DEF RebuildCodebook, rebuild_codebook_and_age_samples
<1>2. C \subseteq DOMAIN m_frequency_map
  BY DEF TopEntries, Truncated, Heaviest
<1>3. DOMAIN m_codes' = C /\ m_codes' = Keep(m_frequency_map, DOMAIN m_codes')
  BY <1>1 DEF Keep
<1>4. capture_interval_codebook_snapshot
  BY DEF RebuildCodebook, start_new_interval
<1>5. \E S \in Truncated(m_codes', SnapshotSize) :
         snapshot' = Keep(m_frequency_map, S)
  BY <1>3, <1>4 DEF capture_interval_codebook_snapshot
<1> QED
  BY <1>2, <1>3, <1>5 DEF Keep

\* A rebuild leaves the snapshot of the codes it has made.
LEMMA RebuildTakesSnapshot ==
    ASSUME FTInv, RebuildCodebook
    PROVE  SnapshotShowsCodebook'
<1> SUFFICES ASSUME m_codes' # EmptyTable PROVE SnapshotShowsCodebook'
  BY DEF SnapshotShowsCodebook, EmptyTable
<1>1. PICK S \in Truncated(m_codes', SnapshotSize) :
         snapshot' = Keep(m_frequency_map, S)
  BY CapturedEntries
<1>2. S \subseteq DOMAIN m_codes'
  BY DEF Truncated, Heaviest
<1>3. /\ DOMAIN snapshot' = S
      /\ \A s \in S : snapshot'[s] = m_codes'[s]
  BY <1>1, <1>2, CapturedEntries DEF Keep
<1>4. /\ Cardinality(DOMAIN m_codes') \in Nat
      /\ SnapshotSize \in Nat
  BY CapturedEntries, FS_Subset, FS_CardinalityType, SamplingAssumption DEF FTInv
<1>5. /\ Cardinality(S) <= SnapshotSize
      /\ \A s \in DOMAIN m_codes' \ S :
            /\ Cardinality(S) = SnapshotSize
            /\ \A x \in S : m_codes'[s] <= m_codes'[x]
  BY <1>4 DEF Truncated, Heaviest
<1> QED
  BY <1>2, <1>3, <1>5 DEF SnapshotShowsCodebook, EmptyTable

\* Nothing else changes the codes or the snapshot.
LEMMA SnapshotStep ==
    ASSUME FTInv, SnapshotShowsCodebook, [Next]_vars
    PROVE  SnapshotShowsCodebook'
<1>1. CASE UNCHANGED <<m_codes, snapshot>>
  BY <1>1 DEF SnapshotShowsCodebook, EmptyTable
<1>2. CASE RebuildCodebook
  BY <1>2, RebuildTakesSnapshot
<1>3. ASSUME complete_dynamic_codebook_rebuild_if_ready
      PROVE  RebuildCodebook \/ UNCHANGED <<m_codes, snapshot>>
  BY <1>3 DEF complete_dynamic_codebook_rebuild_if_ready, tableVars
<1>4. ASSUME InitialBuild
      PROVE  RebuildCodebook \/ UNCHANGED <<m_codes, snapshot>>
  BY <1>4 DEF InitialBuild, tableVars, intervalVars
<1>5. ASSUME \/ Tick \/ StartRebuild \/ SampleSymbol \/ EndSampling
             \/ enqueue_sampled_symbols \/ NoSampledRequest \/ CoreTick
             \/ UNCHANGED vars
      PROVE  UNCHANGED <<m_codes, snapshot>>
  BY <1>5 DEF Tick, StartRebuild, SampleSymbol, update_frequency, EndSampling,
              enqueue_sampled_symbols, NoSampledRequest, CoreTick, vars,
              tableVars, intervalVars
<1> QED
  BY <1>1, <1>2, <1>3, <1>4, <1>5 DEF Next

\* The last snapshot shows the most frequent symbols of the codes in force, with
\* the counts they were built from (l2cache.cc:152-155, 223-224), for every
\* number of entries that a snapshot keeps.
THEOREM SnapshotIsCurrent == Spec => []SnapshotShowsCodebook
<1>1. Init => SnapshotShowsCodebook
  BY DEF Init, FTInit, SnapshotShowsCodebook
<1>2. FTInv /\ SnapshotShowsCodebook /\ [Next]_vars => SnapshotShowsCodebook'
  BY SnapshotStep
<1> QED
  BY <1>1, <1>2, TableIsRefined, FTInvariance, PTL DEF Spec

-----------------------------------------------------------------------------
(* While a rebuild is pending the table it will be built from stands       *)
(* still: the step that completes it ends it, and the initial build is for *)
(* a partition without a codebook, where no rebuild is pending.            *)

\* Rebuilds are started only where there is a codebook.
RebuildNeedsCodebook ==
    rebuild_active \in BOOLEAN /\ (rebuild_active => m_huffman_enabled)

\* Only StartRebuild makes a rebuild pending, and m_huffman_enabled stays set.
LEMMA PendingStepInv ==
    ASSUME RebuildNeedsCodebook, [Next]_vars
    PROVE  RebuildNeedsCodebook'
<1> USE DEF RebuildNeedsCodebook
<1>1. CASE UNCHANGED <<rebuild_active, m_huffman_enabled>>
  BY <1>1
<1>2. ASSUME StartRebuild PROVE RebuildNeedsCodebook'
  BY <1>2 DEF StartRebuild, start_dynamic_codebook_rebuild, rebuildVars,
              intervalVars
<1>3. ASSUME complete_dynamic_codebook_rebuild_if_ready PROVE RebuildNeedsCodebook'
  BY <1>3 DEF complete_dynamic_codebook_rebuild_if_ready, RebuildOver
<1>4. ASSUME InitialBuild PROVE RebuildNeedsCodebook'
  BY <1>4 DEF InitialBuild, rebuildVars, intervalVars
<1>5. ASSUME \/ Tick \/ SampleSymbol \/ EndSampling \/ enqueue_sampled_symbols
             \/ NoSampledRequest \/ CoreTick \/ UNCHANGED vars
      PROVE  UNCHANGED <<rebuild_active, m_huffman_enabled>>
  BY <1>5 DEF Tick, SampleSymbol, EndSampling, enqueue_sampled_symbols,
              NoSampledRequest, CoreTick, vars, rebuildVars, intervalVars
<1> QED
  BY <1>1, <1>2, <1>3, <1>4, <1>5 DEF Next

\* No step that leaves a rebuild pending touches the table.
LEMMA FrozenStep ==
    ASSUME RebuildNeedsCodebook, [Next]_vars, rebuild_active, rebuild_active'
    PROVE  m_frequency_map' = m_frequency_map
<1>1. m_huffman_enabled
  BY DEF RebuildNeedsCodebook
<1>2. ~SampleSymbol
  BY DEF SampleSymbol, SamplingDone
<1>3. ASSUME complete_dynamic_codebook_rebuild_if_ready PROVE UNCHANGED tableVars
  BY <1>3 DEF complete_dynamic_codebook_rebuild_if_ready, RebuildOver
<1>4. ASSUME InitialBuild PROVE UNCHANGED tableVars
  BY <1>1, <1>4 DEF InitialBuild
<1>5. ASSUME \/ Tick \/ StartRebuild \/ EndSampling \/ enqueue_sampled_symbols
             \/ NoSampledRequest \/ CoreTick \/ UNCHANGED vars
      PROVE  UNCHANGED tableVars
  BY <1>5 DEF Tick, StartRebuild, EndSampling, enqueue_sampled_symbols,
              NoSampledRequest, CoreTick, vars
<1>6. UNCHANGED tableVars
  BY <1>2, <1>3, <1>4, <1>5 DEF Next
<1> QED
  BY <1>6 DEF tableVars

\* The codebook a delayed rebuild delivers is the one of the interval boundary
\* (l2cache.cc:263).
THEOREM TableIsFrozen == Spec => TableFrozenDuringRebuild
<1>1. Init => RebuildNeedsCodebook
  BY DEF Init, RebuildNeedsCodebook
<1>2. RebuildNeedsCodebook /\ [Next]_vars => RebuildNeedsCodebook'
  BY PendingStepInv
<1>3. RebuildNeedsCodebook /\ [Next]_vars
        => [rebuild_active /\ rebuild_active'
               => m_frequency_map' = m_frequency_map]_vars
  BY FrozenStep
<1> QED
  BY <1>1, <1>2, <1>3, PTL DEF Spec, TableFrozenDuringRebuild

-----------------------------------------------------------------------------
(* Types.  The table's come from FrequencyTable through the refinement,    *)
(* the FIFO's from CodebookInv; the clocks, the counters and the flags are *)
(* inductive by themselves.                                                *)

ControlOK == /\ core_time \in 0 .. CorePeriod
             /\ dram_time \in 0 .. DramPeriod
             /\ mask \in [core : BOOLEAN, dram : BOOLEAN]
             /\ cycle \in 0 .. IntervalEnd - 1
             /\ stage \in Stages
             /\ budget \in 0 .. UpdatesPerCycle
             /\ rebuild_active \in BOOLEAN
             /\ rebuild_wait \in 0 .. RebuildDelay
             /\ m_huffman_enabled \in BOOLEAN
             /\ has_interval \in BOOLEAN
             /\ IsTable(snapshot)
             /\ enabled_since \in BOOLEAN

\* The constants are positive numbers.
LEMMA Positive ==
    /\ CorePeriod \in Nat \ {0} /\ DramPeriod \in Nat \ {0}
    /\ SamplingDuration \in Nat \ {0} /\ UpdateInterval \in Nat \ {0}
    /\ RebuildDelay \in Nat \ {0} /\ UpdatesPerCycle \in Nat \ {0}
    /\ IntervalEnd \in Nat /\ SamplingDuration < IntervalEnd
BY TimingAssumption, SamplingAssumption DEF IntervalEnd

\* A rebuild captures a part of the table.
LEMMA SnapshotIsTable ==
    ASSUME FTTypeOK, IsTable(snapshot), RebuildCodebook
    PROVE  IsTable(snapshot')
<1>1. CASE m_codes' = EmptyTable
  BY <1>1 DEF RebuildCodebook
<1>2. CASE m_codes' # EmptyTable
  <2>1. PICK S \in Truncated(m_codes', SnapshotSize) :
           snapshot' = Keep(m_frequency_map, S)
    BY <1>2, CapturedEntries
  <2>2. S \subseteq DOMAIN m_frequency_map
    BY <1>2, CapturedEntries DEF Truncated, Heaviest
  <2> QED
    BY <2>1, <2>2 DEF Keep, IsTable, FTTypeOK
<1> QED
  BY <1>1, <1>2

\* Clocks, counters and flags keep their ranges.
LEMMA ControlStep ==
    ASSUME ControlOK, FTTypeOK, [Next]_vars
    PROVE  ControlOK'
<1> USE Positive DEF ControlOK
<1>1. ASSUME Tick PROVE ControlOK'
  BY <1>1 DEF Tick, next_clock_domain, Earlier, Stages, rebuildVars, intervalVars
<1>2. ASSUME StartRebuild PROVE ControlOK'
  <2>1. /\ stage' = "complete"
        /\ UNCHANGED <<clockVars, budget, intervalVars>>
    BY <1>2 DEF StartRebuild
  <2>2. \/ UNCHANGED rebuildVars
        \/ rebuild_active' = TRUE /\ rebuild_wait' = RebuildDelay
    BY <1>2 DEF StartRebuild, start_dynamic_codebook_rebuild
  <2>3. rebuild_active' \in BOOLEAN
    BY <2>2, Zenon DEF rebuildVars
  <2>4. rebuild_wait' \in 0 .. RebuildDelay
    BY <2>2 DEF rebuildVars
  <2> QED
    BY <2>1, <2>3, <2>4 DEF Stages, clockVars, intervalVars
<1>3. ASSUME complete_dynamic_codebook_rebuild_if_ready PROVE ControlOK'
  <2>1. /\ stage' = "sample"
        /\ budget' = UpdatesPerCycle
        /\ UNCHANGED <<clockVars, rebuild_wait, m_huffman_enabled>>
    BY <1>3 DEF complete_dynamic_codebook_rebuild_if_ready
  <2>2. /\ rebuild_active' \in BOOLEAN
        /\ has_interval' \in BOOLEAN
    BY <1>3 DEF complete_dynamic_codebook_rebuild_if_ready, RebuildCodebook,
                start_new_interval, RebuildOver
  <2>3. IsTable(snapshot')
    BY <1>3, SnapshotIsTable DEF complete_dynamic_codebook_rebuild_if_ready
  <2> QED
    BY <2>1, <2>2, <2>3 DEF Stages, clockVars
<1>4. ASSUME SampleSymbol PROVE ControlOK'
  BY <1>4 DEF SampleSymbol, SamplingDone, clockVars, rebuildVars, intervalVars
<1>5. ASSUME EndSampling PROVE ControlOK'
  BY <1>5 DEF EndSampling, Stages, clockVars, rebuildVars, intervalVars
<1>6. ASSUME enqueue_sampled_symbols \/ NoSampledRequest PROVE ControlOK'
  BY <1>6 DEF enqueue_sampled_symbols, NoSampledRequest, Stages, clockVars,
              rebuildVars, intervalVars
<1>7. ASSUME InitialBuild PROVE ControlOK'
  <2>1. /\ stage' = "core"
        /\ UNCHANGED <<clockVars, budget, rebuildVars>>
    BY <1>7 DEF InitialBuild
  <2>2. m_huffman_enabled' \in BOOLEAN /\ has_interval' \in BOOLEAN
    BY <1>7 DEF InitialBuild, RebuildCodebook, start_new_interval, intervalVars
  <2>3. IsTable(snapshot')
    BY <1>7, SnapshotIsTable DEF InitialBuild, intervalVars
  <2> QED
    BY <2>1, <2>2, <2>3 DEF Stages, clockVars, rebuildVars
<1>8. ASSUME CoreTick PROVE ControlOK'
  BY <1>8 DEF CoreTick, Stages, intervalVars
<1>9. CASE UNCHANGED vars
  BY <1>9 DEF vars, clockVars, rebuildVars, intervalVars
<1> QED
  BY <1>1, <1>2, <1>3, <1>4, <1>5, <1>6, <1>7, <1>8, <1>9 DEF Next

\* Every variable of the codebook's life cycle keeps its type.
THEOREM CodebookTypes == Spec => []TypeOK
<1>1. Init => ControlOK
  <2>1. IsTable(EmptyTable)
    BY DEF IsTable, EmptyTable
  <2>2. Init => IsTable(snapshot)
    BY <2>1, Zenon DEF Init
  <2>3. Init => mask \in [core : BOOLEAN, dram : BOOLEAN]
    BY DEF Init
  <2>4. Init => /\ core_time \in 0 .. CorePeriod
                /\ dram_time \in 0 .. DramPeriod
                /\ cycle \in 0 .. IntervalEnd - 1
                /\ budget \in 0 .. UpdatesPerCycle
                /\ rebuild_wait \in 0 .. RebuildDelay
    BY Positive DEF Init
  <2>5. Init => /\ stage \in Stages
                /\ rebuild_active \in BOOLEAN
                /\ m_huffman_enabled \in BOOLEAN
                /\ has_interval \in BOOLEAN
                /\ enabled_since \in BOOLEAN
    BY DEF Init, Stages
  <2> QED
    BY <2>2, <2>3, <2>4, <2>5, Zenon DEF ControlOK
<1>2. ControlOK /\ FTTypeOK /\ [Next]_vars => ControlOK'
  BY ControlStep
<1>3. FTInv => FTTypeOK
  BY DEF FTInv
<1>4. ControlOK /\ FTTypeOK /\ CodebookInv => TypeOK
  BY DEF ControlOK, CodebookInv, TypeOK
<1> QED
  BY <1>1, <1>2, <1>3, <1>4, CodebookInvariance, TableIsRefined, FTInvariance,
     PTL DEF Spec

-----------------------------------------------------------------------------
(* Interval boundaries *)

\* What the current core cycle still owes: a rebuild to start at the boundary,
\* or one whose delay has elapsed to complete.
Due ==
    \/ cycle = SamplingDuration /\ enabled_since /\ ~rebuild_active
    \/ rebuild_active /\ rebuild_wait = 0

\* A core cycle that owes something still has a DRAM tick ahead of it, and
\* dram_cycle pays: the boundary's start first, then the completion.  That a
\* rebuild of the last boundary is never in the way of the next one is the
\* third conjunct: the delay runs with the phase of the interval.
BoundaryInv ==
    /\ enabled_since => m_huffman_enabled
    /\ stage # "tick" => /\ mask.core \/ mask.dram
                         /\ mask.core => core_time = CorePeriod
    /\ rebuild_active =>
          /\ cycle \in SamplingDuration .. SamplingDuration + RebuildDelay
          /\ rebuild_wait = RebuildDelay - (cycle - SamplingDuration)
    /\ stage = "tick" /\ Due => dram_time <= core_time
    /\ stage = "complete" /\ Due => rebuild_active
    /\ stage \in {"sample", "enqueue", "build", "core"} => ~Due

\* Every stage keeps what is owed payable, when the DRAM clock is not slower
\* than the core clock.
LEMMA BoundaryStep ==
    ASSUME DramPeriod <= CorePeriod, ControlOK, BoundaryInv, [Next]_vars
    PROVE  BoundaryInv'
<1> USE Positive DEF ControlOK, BoundaryInv, Due
<1>1. ASSUME Tick PROVE BoundaryInv'
  <2> DEFINE now == Earlier(core_time, dram_time)
  <2>1. /\ now \in Int /\ now <= core_time /\ now <= dram_time
        /\ now = core_time \/ now = dram_time
    BY DEF Earlier
  <2> HIDE DEF now
  <2>2. /\ stage = "tick"
        /\ mask' = [core |-> core_time = now, dram |-> dram_time = now]
        /\ core_time' = IF core_time = now THEN CorePeriod ELSE core_time - now
        /\ stage' = IF mask'.dram THEN "start" ELSE "core"
        /\ UNCHANGED <<cycle, enabled_since, rebuild_active, rebuild_wait,
                       m_huffman_enabled>>
    BY <1>1 DEF Tick, next_clock_domain, now, rebuildVars, intervalVars
  <2>3. /\ mask'.core <=> core_time = now
        /\ mask'.dram <=> dram_time = now
    BY <2>2
  <2> QED
    BY <2>1, <2>2, <2>3
<1>2. ASSUME StartRebuild PROVE BoundaryInv'
  BY <1>2 DEF StartRebuild, start_dynamic_codebook_rebuild,
              reached_interval_boundary, clockVars, rebuildVars, intervalVars
<1>3. ASSUME complete_dynamic_codebook_rebuild_if_ready PROVE BoundaryInv'
  <2>1. /\ stage = "complete" /\ stage' = "sample"
        /\ rebuild_active' <=> rebuild_active /\ rebuild_wait # 0
        /\ UNCHANGED <<cycle, enabled_since, mask, core_time, dram_time,
                       rebuild_wait, m_huffman_enabled>>
    BY <1>3 DEF complete_dynamic_codebook_rebuild_if_ready, RebuildOver,
                clockVars
  <2> QED
    BY <2>1
<1>4. ASSUME SampleSymbol PROVE BoundaryInv'
  BY <1>4 DEF SampleSymbol, clockVars, rebuildVars, intervalVars
<1>5. ASSUME EndSampling PROVE BoundaryInv'
  BY <1>5 DEF EndSampling, clockVars, rebuildVars, intervalVars
<1>6. ASSUME enqueue_sampled_symbols \/ NoSampledRequest PROVE BoundaryInv'
  BY <1>6 DEF enqueue_sampled_symbols, NoSampledRequest, clockVars,
              rebuildVars, intervalVars
<1>7. ASSUME InitialBuild PROVE BoundaryInv'
  <2>1. /\ stage = "build" /\ stage' = "core"
        /\ m_huffman_enabled => m_huffman_enabled'
        /\ UNCHANGED <<cycle, enabled_since, mask, core_time, dram_time,
                       rebuild_active, rebuild_wait>>
    BY <1>7 DEF InitialBuild, clockVars, rebuildVars, intervalVars
  <2> QED
    BY <2>1
<1>8. ASSUME CoreTick PROVE BoundaryInv'
  <2>1. /\ stage = "core" /\ stage' = "tick"
        /\ UNCHANGED <<core_time, dram_time, rebuild_active, m_huffman_enabled>>
    BY <1>8 DEF CoreTick, intervalVars
  <2>2. CASE mask.core
    <3>1. /\ core_time = CorePeriod /\ dram_time <= core_time
          /\ rebuild_active => rebuild_wait # 0
      BY <2>1, <2>2
    <3>2. /\ cycle' = IF cycle + 1 = IntervalEnd THEN SamplingDuration
                                                 ELSE cycle + 1
          /\ rebuild_wait' = IF rebuild_wait > 0 THEN rebuild_wait - 1 ELSE 0
          /\ enabled_since' = m_huffman_enabled
      BY <1>8, <2>2 DEF CoreTick
    <3>3. rebuild_active => cycle + 1 # IntervalEnd
      BY <3>1, TimingAssumption DEF IntervalEnd
    <3> QED
      BY <2>1, <3>1, <3>2, <3>3
  <2>3. CASE ~mask.core
    BY <1>8, <2>1, <2>3 DEF CoreTick
  <2> QED
    BY <2>2, <2>3
<1>9. CASE UNCHANGED vars
  BY <1>9 DEF vars, clockVars, rebuildVars, intervalVars
<1> QED
  BY <1>1, <1>2, <1>3, <1>4, <1>5, <1>6, <1>7, <1>8, <1>9 DEF Next

\* l2cache.cc:783, for every length of interval and delay: with a DRAM clock
\* that is not slower than the core clock, every core cycle that is an interval
\* boundary ends with a rebuild under way.
THEOREM BoundariesRebuild ==
    ASSUME DramPeriod <= CorePeriod
    PROVE  Spec => []EveryBoundaryRebuilds
<1>1. Init => BoundaryInv
  BY Positive DEF Init, BoundaryInv, Due
<1>2. TypeOK => ControlOK
  BY DEF TypeOK, ControlOK
<1>3. ControlOK /\ BoundaryInv /\ [Next]_vars => BoundaryInv'
  BY BoundaryStep
<1>4. BoundaryInv => EveryBoundaryRebuilds
  BY DEF BoundaryInv, EveryBoundaryRebuilds, Due, reached_interval_boundary
<1> QED
  BY <1>1, <1>2, <1>3, <1>4, CodebookTypes, PTL DEF Spec
=============================================================================
