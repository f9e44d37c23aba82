--------------------------- MODULE FrequencyTable ---------------------------
(***************************************************************************)
(* frequency_value_table and the part of huffman_codebook that consumes it *)
(* (src/src/gpgpu-sim/huffman.cc).  The table counts how often each symbol *)
(* was sampled; when it reaches m_checking_table_size entries it is cut    *)
(* back to its m_final_table_size most frequent ones.  A rebuild hands the *)
(* most frequent entries to the code generator and then halves every       *)
(* count.                                                                  *)
(*                                                                         *)
(* The tables are std::unordered_map and std::sort is not stable, so which *)
(* of several equally frequent symbols survives is left open.              *)
(***************************************************************************)
EXTENDS Integers, FiniteSets

CONSTANTS Symbol,        \* the values of m_symbol_length bits
          CheckingSize,  \* m_checking_table_size: 307 in l2cache.cc
          FinalSize,     \* m_final_table_size: HUFFMAN_TABLE_SIZE = 256
          MaxCount       \* bound on a count (uint64_t in the code)

\* HUFFMAN_TABLE_SIZE * 1.2 against HUFFMAN_TABLE_SIZE leaves more than one
\* slot between the two thresholds.
ASSUME SizeAssumption ==
    /\ FinalSize \in Nat \ {0}
    /\ CheckingSize \in Nat
    /\ FinalSize + 2 <= CheckingSize

ASSUME MaxCountAssumption == MaxCount \in Nat \ {0}

VARIABLES
    m_frequency_map,  \* symbol -> count, for the symbols in the table
    m_codes           \* symbol -> the count its code was derived from

tableVars == <<m_frequency_map, m_codes>>

-----------------------------------------------------------------------------
(* The operations of the table, as functions of its contents.              *)

IsTable(t) == /\ DOMAIN t \subseteq Symbol
              /\ t \in [DOMAIN t -> Nat]

EmptyTable == [s \in {} |-> 0]

get_frequency(t, s) == IF s \in DOMAIN t THEN t[s] ELSE 0

\* operator[] of the map: the entry is created, with count zero, by being
\* looked up.
Add(t, s, n) ==
    [x \in DOMAIN t \cup {s} |-> IF x = s THEN get_frequency(t, s) + n
                                          ELSE t[x]]

Keep(t, S) == [x \in S |-> t[x]]

\* The choices the sort leaves for the n most frequent entries.
Heaviest(t, n) ==
    {S \in SUBSET DOMAIN t :
        /\ Cardinality(S) = n
        /\ \A x \in S, y \in DOMAIN t \ S : t[y] <= t[x]}

\* The sorted entries, cut to n if there are more.
Truncated(t, n) == IF Cardinality(DOMAIN t) > n THEN Heaviest(t, n)
                                                ELSE {DOMAIN t}

TopEntries(t) == Truncated(t, FinalSize)

LateEvictionDue(t) == Cardinality(DOMAIN t) > CheckingSize  \* Mutant.

EvictionDue(t) == Cardinality(DOMAIN t) >= CheckingSize

AllEntries(t) == DOMAIN t  \* Mutant: scale_down without the erase.

\* What is left of a table when every count is halved: an entry whose count
\* becomes zero is erased.
Survivors(t) == {x \in DOMAIN t : t[x] \div 2 # 0}

scale_down(t) == [x \in Survivors(t) |-> t[x] \div 2]

-----------------------------------------------------------------------------

FTInit == /\ m_frequency_map = EmptyTable
          /\ m_codes = EmptyTable

\* The value update_frequency returns is read with operator[], after the
\* eviction: a symbol that was just evicted is entered again with count zero.
update_frequency(s) ==
    /\ get_frequency(m_frequency_map, s) < MaxCount
    /\ LET counted == Add(m_frequency_map, s, 1)
       IN  IF EvictionDue(counted)
           THEN \E S \in TopEntries(counted) :
                   m_frequency_map' = Add(Keep(counted, S), s, 0)
           ELSE m_frequency_map' = counted
    /\ UNCHANGED m_codes

\* generate_*_codes clears the codebook before it looks at the table; an empty
\* table therefore leaves an empty codebook and, because the caller returns
\* early on a code count of zero, unscaled (and still empty) counts.
rebuild_codebook_and_age_samples ==
    /\ \E S \in TopEntries(m_frequency_map) :
          m_codes' = Keep(m_frequency_map, S)
    /\ m_frequency_map' = IF m_codes' = EmptyTable THEN m_frequency_map
                          ELSE scale_down(m_frequency_map)

FTNext == \/ \E s \in Symbol : update_frequency(s)
          \/ rebuild_codebook_and_age_samples

FTSpec == FTInit /\ [][FTNext]_tableVars

-----------------------------------------------------------------------------
(* Properties *)

\* The table maps symbols to counts, and so does the codebook.
FTTypeOK == /\ IsTable(m_frequency_map)
            /\ IsTable(m_codes)

\* The code generators divide by the counts they are given and take the
\* logarithm of the quotient (huffman.cc:674-677): no symbol may ever get a
\* code from a count of zero, although update_frequency does leave entries
\* with count zero in the table.
CodesFromPositiveCounts == \A s \in DOMAIN m_codes : m_codes[s] > 0

\* Between two operations the table is below the threshold that triggers an
\* eviction, also when an evicted symbol was entered again: the table cannot
\* creep past its threshold however many symbols are sampled.
TableBelowThreshold == Cardinality(DOMAIN m_frequency_map) < CheckingSize

Zeros(t) == {x \in DOMAIN t : t[x] = 0}

Outranked(t) == \/ Zeros(t) = {}
                \/ Cardinality(DOMAIN t \ Zeros(t)) >= FinalSize

\* A symbol with count zero is in the table only together with at least
\* FinalSize symbols whose count is positive.  This is why a zero count never
\* reaches the code generator: TopEntries prefers the positive ones.
ZeroIsOutranked == Outranked(m_frequency_map)
=============================================================================
