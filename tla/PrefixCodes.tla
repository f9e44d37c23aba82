----------------------------- MODULE PrefixCodes -----------------------------
(***************************************************************************)
(* The three code generators of huffman_codebook and the compressor that   *)
(* uses their codes (src/src/gpgpu-sim/huffman.cc).  Each step of a        *)
(* generator's loop or recursion is an action; equal counts leave the      *)
(* order of std::sort and of the priority queue open, and the model takes  *)
(* every order.  A rebuild is followed by the halving of the counts, as in *)
(* rebuild_codebook_and_age_samples, and the next rebuild may come with no *)
(* sample in between.                                                      *)
(***************************************************************************)
EXTENDS Integers, Sequences, FiniteSets, SequencesExt

CONSTANTS Symbol,        \* symbol values: numbers, as the sort compares them
          MaxCount,      \* bound on a count
          BlockSymbols,  \* symbols in a data block: 64 in the code
          SymbolLength,  \* HUFFMAN_SYMBOL_LENGTH, in bits: 16
          Mag            \* m_mag, memory access granularity in bytes: 32

\* MEMORY_REQUEST_SIZE is four access granules: a 128 byte block, MAG 32.
ASSUME BlockAssumption ==
    /\ Symbol \subseteq Nat /\ IsFiniteSet(Symbol)
    /\ {MaxCount, BlockSymbols, SymbolLength, Mag} \subseteq Nat \ {0}
    /\ BlockSymbols * SymbolLength = 4 * 8 * Mag

\* codebook_build_method
Method == {"huffman", "shannon_fano", "shannon"}

VARIABLES
    method,             \* the configured codebook_build_method
    stage,              \* what the running rebuild does next
    counts,             \* the entries get_top_frequencies returns
    pending,            \* build_tree: the trees in the priority queue
    calls,              \* shannon_fano_encode: the calls still to be made, the
                        \* next one first
    m_codes,            \* symbol -> sequence of bits
    m_max_code_length

vars == <<method, stage, counts, pending, calls, m_codes, m_max_code_length>>

-----------------------------------------------------------------------------

NoCodes == [s \in {} |-> << >>]

Weight(S) == SumFunctionOnSet(counts, S)

Longest(codes) == Max({0} \cup {Len(codes[s]) : s \in DOMAIN codes})

Prefixed(bit, codes) == [s \in DOMAIN codes |-> <<bit>> \o codes[s]]

Merge(f, g) == [s \in DOMAIN f \cup DOMAIN g |-> IF s \in DOMAIN f THEN f[s]
                                                                   ELSE g[s]]

\* The symbols in the orders std::sort may leave them, most frequent first.
Orders == {o \in SetToSeqs(DOMAIN counts) :
              \A i \in 1 .. Len(o) - 1 : counts[o[i]] >= counts[o[i + 1]]}

-----------------------------------------------------------------------------
(* generate_huffman_codes.  A node of the tree is given by the codes its   *)
(* leaves have below it, which is what generate_codes_from_tree collects;  *)
(* its frequency is the weight of its leaves.                              *)

Frequency(node) == Weight(DOMAIN node)

generate_huffman_codes ==
    /\ stage = "idle" /\ method = "huffman"
    /\ DOMAIN counts # {}
    /\ stage' = "build_tree"
    /\ pending' = {[s \in {x} |-> << >>] : x \in DOMAIN counts}
    /\ m_codes' = NoCodes
    /\ m_max_code_length' = 0
    /\ UNCHANGED <<method, counts, calls>>

Queued(nodes) == nodes  \* Mutant: any node may be on top of the queue.

\* The nodes the priority queue may have on top.
Lightest(nodes) ==
    {n \in nodes : \A m \in nodes : Frequency(n) <= Frequency(m)}

\* One turn of the loop: two nodes are popped, their parent is pushed.
MergeLightest ==
    /\ stage = "build_tree"
    /\ Cardinality(pending) > 1
    /\ \E left \in Lightest(pending) : \E right \in Lightest(pending \ {left}) :
           pending' = (pending \ {left, right})
                        \cup {Merge(Prefixed(FALSE, left), Prefixed(TRUE, right))}
    /\ UNCHANGED <<method, stage, counts, calls, m_codes, m_max_code_length>>

\* The codes of the finished tree.  A lone leaf hangs to the left of a root
\* made for it.
TreeCodes == LET root == CHOOSE n \in pending : TRUE
             IN  IF Cardinality(DOMAIN counts) = 1 THEN Prefixed(FALSE, root)
                                                   ELSE root

generate_codes_from_tree ==
    /\ stage = "build_tree"
    /\ Cardinality(pending) = 1
    /\ m_codes' = TreeCodes
    /\ m_max_code_length' = Longest(TreeCodes)
    /\ pending' = {}
    /\ stage' = "canonical"
    /\ UNCHANGED <<method, counts, calls>>

-----------------------------------------------------------------------------
(* generate_shannon_fano_codes.  A call of shannon_fano_encode is the run  *)
(* of symbols from start to end and the code of their subtree.  A call     *)
(* makes its call for the first group before the one for the second, so    *)
(* the calls still to be made are a stack.                                 *)

\* Mutant: the old codes and their greatest length stay.
generate_without_clear ==
    /\ stage = "idle" /\ method = "shannon_fano"
    /\ DOMAIN counts # {}
    /\ stage' = "encode"
    /\ \E o \in Orders : calls' = <<[symbols |-> o, code |-> << >>]>>
    /\ UNCHANGED <<method, counts, pending, m_codes, m_max_code_length>>

generate_shannon_fano_codes ==
    /\ stage = "idle" /\ method = "shannon_fano"
    /\ DOMAIN counts # {}
    /\ stage' = "encode"
    /\ \E o \in Orders : calls' = <<[symbols |-> o, code |-> << >>]>>
    /\ m_codes' = NoCodes
    /\ m_max_code_length' = 0
    /\ UNCHANGED <<method, counts, pending>>

Abs(i) == IF i < 0 THEN -i ELSE i

\* |2 * curr_freq - total_freq| once k symbols are in the first group.
Imbalance(symbols, k) ==
    Abs(2 * Weight(ToSet(SubSeq(symbols, 1, k))) - Weight(ToSet(symbols)))

LastAlone(symbols) == Len(symbols) - 1  \* Mutant: the break is missing.

\* The size of the first group: it has the first symbol, others join it as long
\* as that brings it no further from half the weight, but not all of them.
SplitPoint(symbols) ==
    LET n == Len(symbols)
        k == Max({1} \cup {j \in 1 .. n : \A i \in 1 .. j :
                     Imbalance(symbols, i) <= Imbalance(symbols, i - 1)})
    IN  IF k = n THEN 1 + (n - 1) \div 2 ELSE k

\* The two base cases: one symbol, two symbols.
LeafCodes(call) ==
    [s \in ToSet(call.symbols) |->
        IF Len(call.symbols) = 1 THEN call.code
                                 ELSE Append(call.code, s = call.symbols[2])]

EncodeLeaves(call) ==
    /\ Len(call.symbols) <= 2
    /\ m_codes' = Merge(LeafCodes(call), m_codes)
    /\ m_max_code_length' = Max({m_max_code_length, Longest(LeafCodes(call))})
    /\ calls' = Tail(calls)

\* The two calls a call makes.
Halves(call) ==
    LET k == SplitPoint(call.symbols)
    IN  <<[symbols |-> SubSeq(call.symbols, 1, k),
           code    |-> Append(call.code, FALSE)],
          [symbols |-> SubSeq(call.symbols, k + 1, Len(call.symbols)),
           code    |-> Append(call.code, TRUE)]>>

EncodeHalves(call) ==
    /\ Len(call.symbols) > 2
    /\ calls' = Halves(call) \o Tail(calls)
    /\ UNCHANGED <<m_codes, m_max_code_length>>

shannon_fano_encode ==
    /\ stage = "encode"
    /\ calls # << >>
    /\ EncodeLeaves(Head(calls)) \/ EncodeHalves(Head(calls))
    /\ UNCHANGED <<method, stage, counts, pending>>

EncodeReturns ==
    /\ stage = "encode"
    /\ calls = << >>
    /\ stage' = "canonical"
    /\ UNCHANGED <<method, counts, pending, calls, m_codes, m_max_code_length>>

-----------------------------------------------------------------------------
(* make_canonical_codes: codes of the given lengths, counted upwards.      *)

Bits(code, len) == [i \in 1 .. len |-> (code \div 2^(len - i)) % 2 = 1]

\* The comparison of the sort: by length, then by symbol value.
Precedes(lengths, a, b) ==
    lengths[a] < lengths[b] \/ (lengths[a] = lengths[b] /\ a < b)

code_lengths(lengths) ==
    CHOOSE o \in SetToSeqs(DOMAIN lengths) :
        \A i, j \in DOMAIN o : i < j => Precedes(lengths, o[i], o[j])

\* The values of the variable code for the symbols in the order o.
CodeValues(lengths, o) ==
    LET code[i \in DOMAIN o] ==
            IF i = 1 THEN 0
            ELSE (code[i - 1] + 1) * 2^(lengths[o[i]] - lengths[o[i - 1]])
    IN  code

Canonical(lengths) ==
    LET o    == code_lengths(lengths)
        code == CodeValues(lengths, o)
    IN  [s \in DOMAIN lengths |->
            Bits(code[CHOOSE i \in DOMAIN o : o[i] = s], lengths[s])]

make_canonical_codes ==
    /\ stage = "canonical"
    /\ m_codes' = Canonical([s \in DOMAIN m_codes |-> Len(m_codes[s])])
    /\ stage' = "rebuilt"
    /\ UNCHANGED <<method, counts, pending, calls, m_max_code_length>>

-----------------------------------------------------------------------------
(* generate_shannon_codes: lengths from the probabilities alone.           *)

RoundedDown(s, total) ==  \* Mutant: the cast without std::ceil.
    Max({1, Max({n \in 0 .. total : counts[s] * 2^n <= total})})

\* std::ceil(-std::log2(probability)), at least 1: the least n with
\* probability >= 2^-n.
ShannonLength(s, total) ==
    Max({1, Min({n \in 0 .. total : counts[s] * 2^n >= total})})

generate_shannon_codes ==
    LET lengths == [s \in DOMAIN counts |-> ShannonLength(s, Weight(DOMAIN counts))]
    IN  /\ stage = "idle" /\ method = "shannon"
        /\ DOMAIN counts # {}
        /\ m_codes' = Canonical(lengths)
        /\ m_max_code_length' = Max({lengths[s] : s \in DOMAIN counts})
        /\ stage' = "rebuilt"
        /\ UNCHANGED <<method, counts, pending, calls>>

-----------------------------------------------------------------------------
(* compressor::compress_data_block, for the codes a rebuild has left.      *)

Unseen == Max(Symbol) + 1  \* a symbol that was never sampled

\* A data block, as extract_symbols cuts it up.
Block == [1 .. BlockSymbols -> Symbol \cup {Unseen}]

original_size_bits == BlockSymbols * SymbolLength

\* One flag bit, then the code or the symbol itself.
EncodedLength(s) ==
    1 + (IF s \in DOMAIN m_codes THEN Len(m_codes[s]) ELSE SymbolLength)

FloorDiv(a, b) == a \div b  \* Mutant: rounded down.

CeilDiv(a, b) == (a + b - 1) \div b

compress_data_block(block) ==
    LET bits  == SumFunction([i \in DOMAIN block |-> EncodedLength(block[i])])
        burst == CeilDiv(CeilDiv(bits, 8), Mag)
    IN  IF DOMAIN m_codes = {} \/ burst > 3
        THEN [raw_compressed_size_bits |-> original_size_bits, burst_size |-> 4]
        ELSE [raw_compressed_size_bits |-> bits, burst_size |-> burst]

-----------------------------------------------------------------------------

Init ==
    /\ method \in Method
    /\ stage = "idle"
    /\ \E S \in SUBSET Symbol : counts \in [S -> 1 .. MaxCount]
    /\ pending = {}
    /\ calls = << >>
    /\ m_codes = NoCodes
    /\ m_max_code_length = 0

\* An empty table: the generators clear the codes and return zero, and
\* rebuild_codebook_and_age_samples returns false.
NoFrequencies ==
    /\ stage = "idle"
    /\ DOMAIN counts = {}
    /\ m_codes' = NoCodes
    /\ m_max_code_length' = 0
    /\ UNCHANGED <<method, stage, counts, pending, calls>>

\* scale_down(2), the last step of a rebuild.
AgeSamples ==
    LET kept == {s \in DOMAIN counts : counts[s] \div 2 # 0}
    IN  /\ stage = "rebuilt"
        /\ counts' = [s \in kept |-> counts[s] \div 2]
        /\ stage' = "idle"
        /\ UNCHANGED <<method, pending, calls, m_codes, m_max_code_length>>

Next == \/ generate_huffman_codes \/ MergeLightest \/ generate_codes_from_tree
        \/ generate_shannon_fano_codes \/ shannon_fano_encode \/ EncodeReturns
        \/ make_canonical_codes \/ generate_shannon_codes
        \/ NoFrequencies \/ AgeSamples

Spec == Init /\ [][Next]_vars
-----------------------------------------------------------------------------
(* Properties.                                                             *)

\* No code begins with another symbol's code, whichever generator made them
\* and whether or not they have been made canonical: the stored length of a
\* block (compress_data_block) is that of a stream that can be decoded.
PrefixFree ==
    \A s, t \in DOMAIN m_codes : s # t => ~IsPrefix(m_codes[s], m_codes[t])

\* When a rebuild ends, exactly the symbols of the table have a code, also
\* when the table before had others, and m_max_code_length is the length of
\* a longest one.
CodebookMatchesTable ==
    stage = "rebuilt" => /\ DOMAIN m_codes = DOMAIN counts
                         /\ m_max_code_length = Longest(m_codes)

\* The bits the sampled symbols take.
Cost(lengths) == SumFunction([s \in DOMAIN lengths |-> counts[s] * lengths[s]])

\* The lengths some prefix code has (Kraft's inequality).
IsPrefixCode(lengths) ==
    LET n == Cardinality(Symbol)
    IN  SumFunction([s \in DOMAIN lengths |-> 2^(n - lengths[s])]) <= 2^n

\* The canonical Huffman codes of build_tree spend no more bits on the
\* sampled symbols than any prefix code does, whatever ties the queue broke.
HuffmanOptimal ==
    stage = "rebuilt" /\ method = "huffman" =>
        \A lengths \in [DOMAIN counts -> 1 .. Cardinality(Symbol)] :
            IsPrefixCode(lengths) =>
                Cost([s \in DOMAIN m_codes |-> Len(m_codes[s])]) <= Cost(lengths)

\* The division point of shannon_fano_encode leaves two groups whose weights
\* are as close as those of any other two, although its loop breaks at the
\* first symbol that takes it further from half.
ClosestSplit ==
    stage = "encode" =>
        \A call \in ToSet(calls) :
            LET symbols == call.symbols
            IN  Len(symbols) > 2 =>
                    \A k \in 1 .. Len(symbols) - 1 :
                        Imbalance(symbols, SplitPoint(symbols)) <= Imbalance(symbols, k)

\* The bursts compress_data_block asks of the DRAM hold the block, are not
\* more than the uncompressed block takes, and could not be fewer.
BurstHoldsBlock ==
    stage = "idle" =>
        \A block \in Block :
            LET outcome == compress_data_block(block)
                bits    == outcome.raw_compressed_size_bits
            IN  /\ outcome.burst_size \in 1 .. 4
                /\ bits <= 8 * Mag * outcome.burst_size
                /\ bits > 8 * Mag * (outcome.burst_size - 1)

=============================================================================
