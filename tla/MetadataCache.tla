--------------------------- MODULE MetadataCache ---------------------------
(***************************************************************************)
(* The metadata cache of a memory partition: an l2_cache (data_cache in    *)
(* src/src/gpgpu-sim/gpu-cache.cc) that only receives reads, allocates on  *)
(* a miss and writes back.  One set of the tag array is modelled, with the *)
(* MSHR table, the miss queue and m_extra_mf_fields.  Operations only: the *)
(* modules that extend this one drive them.                                *)
(*                                                                         *)
(* A line is named by the block it holds.  That is sound for reads: a line *)
(* that is RESERVED is never replaced (tag_array::probe skips it), so the  *)
(* index remembered by a miss still holds the block when the fill arrives. *)
(* The replacement policy is abstracted: any line that is not reserved may *)
(* be the victim.                                                          *)
(***************************************************************************)
EXTENDS Requests, Integers, Sequences, FiniteSets, SequencesExt

CONSTANTS Block,          \* the metadata blocks that map to the set
          BlockOf,        \* Req -> Block
          Atomic,         \* the reads that are atomics
          Ways,           \* m_assoc
          MshrEntries,    \* mshr_table::m_num_entries
          MaxMerged,      \* mshr_table::m_max_merged
          MissQueueSize,  \* m_miss_queue_size
          PortCycles      \* cycles a line occupies the data port

ASSUME CacheAssumption ==
    /\ BlockOf \in [Req -> Block]
    /\ Atomic \subseteq Req
    /\ {Ways, MshrEntries, MaxMerged} \subseteq Nat \ {0}
    /\ MissQueueSize \in Nat \ {0, 1}
    /\ PortCycles \in Nat

VARIABLES
    line,                \* Block -> status of the line that holds the block
    mshr,                \* m_data: Block -> merged reads, <<>> if no entry
    m_current_response,  \* blocks whose reads are being answered
    m_extra_mf_fields,   \* the reads that wait for a fill
    m_miss_queue,
    m_data_port_occupied_cycles

cacheVars == <<line, mshr, m_current_response, m_extra_mf_fields, m_miss_queue,
               m_data_port_occupied_cycles>>

Status == {"INVALID", "RESERVED", "VALID", "MODIFIED"}

\* The mem_fetch that data_cache allocates to write back the line a read
\* evicts; each read evicts at most one line.
Wb(r) == <<"wb", r>>

Writebacks == {Wb(r) : r \in Req}

\* A writeback is a mem_fetch of its own.
ASSUME WritebackAssumption == Req \cap Writebacks = {}

-----------------------------------------------------------------------------

Cached == {b \in Block : line[b] # "INVALID"}

Replaceable == {b \in Cached : line[b] # "RESERVED"}

\* tag_array::probe.
probe(b) ==
    CASE line[b] = "RESERVED"             -> "HIT_RESERVED"
      [] line[b] \in {"VALID", "MODIFIED"} -> "HIT"
      [] OTHER -> IF Cardinality(Cached) >= Ways /\ Replaceable = {}
                  THEN "RESERVATION_FAIL" ELSE "MISS"

Entries == {b \in Block : mshr[b] # <<>>}

\* Mutant: an off-by-one in the limit on merged reads.
mshr_full_late(b) == IF b \in Entries THEN Len(mshr[b]) > MaxMerged
                     ELSE Cardinality(Entries) >= MshrEntries

\* mshr_table::full.
mshr_full(b) == IF b \in Entries THEN Len(mshr[b]) >= MaxMerged
                ELSE Cardinality(Entries) >= MshrEntries

miss_queue_full == Len(m_miss_queue) + 1 >= MissQueueSize

\* data_cache::access for a read, as far as the caller sees it.
access_outcome(r) ==
    LET b == BlockOf[r]
    IN  CASE probe(b) \in {"HIT", "RESERVATION_FAIL"} -> probe(b)
          [] OTHER -> IF miss_queue_full \/ mshr_full(b)
                      THEN "RESERVATION_FAIL" ELSE "MISS"

data_port_free == m_data_port_occupied_cycles = 0

use_data_port ==
    m_data_port_occupied_cycles' = m_data_port_occupied_cycles + PortCycles

\* rd_hit_base: an atomic dirties the line.
rd_hit_base(r) ==
    /\ line' = IF r \in Atomic THEN [line EXCEPT ![BlockOf[r]] = "MODIFIED"]
                               ELSE line
    /\ use_data_port
    /\ UNCHANGED <<mshr, m_current_response, m_extra_mf_fields, m_miss_queue>>

\* tag_array::access on a miss: a free way, or a victim, becomes the line of b.
\* The victims of a set with a free way are none.
Victims(b) == IF line[b] # "INVALID" \/ Cardinality(Cached) < Ways
              THEN {{}} ELSE {{v} : v \in Replaceable}

Allocate(b, gone) ==
    [c \in Block |-> IF c \in gone THEN "INVALID"
                     ELSE IF c = b THEN "RESERVED" ELSE line[c]]

\* Mutant: every read that misses is sent to memory.
SentAgain(r) == <<r>>

\* send_read_request: only the read that creates the entry goes to memory.
SentBelow(r) == IF BlockOf[r] \in Entries THEN <<>> ELSE <<r>>

\* rd_miss_base and send_read_request: the read joins the MSHR entry of its
\* block; only the read that creates the entry is sent to memory and waits for
\* the fill.  A modified victim is written back; the event of the writeback
\* carries no size, so it takes no time on the data port.
rd_miss_base(r) ==
    LET b == BlockOf[r]
        sent == SentBelow(r)
        dirty(gone) == \E v \in gone : line[v] = "MODIFIED"
    IN  \E gone \in Victims(b) :
          /\ line' = Allocate(b, gone)
          /\ mshr' = [mshr EXCEPT ![b] = Append(@, r)]
          /\ m_extra_mf_fields' = m_extra_mf_fields \cup ToSet(sent)
          /\ m_miss_queue' = m_miss_queue \o sent
                                 \o (IF dirty(gone) THEN <<Wb(r)>> ELSE <<>>)
          /\ UNCHANGED <<m_current_response, m_data_port_occupied_cycles>>

\* data_cache::access: the cache's part of each outcome.
access(r) ==
    CASE access_outcome(r) = "HIT"  -> rd_hit_base(r)
      [] access_outcome(r) = "MISS" -> rd_miss_base(r)
      [] OTHER                      -> UNCHANGED cacheVars

\* baseline_cache::fill; the line becomes dirty if an atomic is merged.
fill(r) ==
    LET b == BlockOf[r]
    IN  /\ line' = [line EXCEPT ![b] =
                      IF \E a \in ToSet(mshr[b]) : a \in Atomic
                      THEN "MODIFIED" ELSE "VALID"]
        /\ m_current_response' = Append(m_current_response, b)
        /\ m_extra_mf_fields' = m_extra_mf_fields \ {r}
        /\ UNCHANGED <<mshr, m_miss_queue, m_data_port_occupied_cycles>>

\* Mutant: the entry is erased with the first answer.
RemainingNone(b) == <<>>

Remaining(b) == Tail(mshr[b])

\* mshr_table::next_access: the answered read, then the table without it.
access_ready == m_current_response # <<>>

next_read == Head(mshr[Head(m_current_response)])

next_access ==
    LET b == Head(m_current_response)
    IN  /\ mshr' = [mshr EXCEPT ![b] = Remaining(b)]
        /\ m_current_response' = IF Remaining(b) = <<>>
                                 THEN Tail(m_current_response)
                                 ELSE m_current_response
        /\ UNCHANGED <<line, m_extra_mf_fields, m_miss_queue,
                       m_data_port_occupied_cycles>>

\* Mutant: the port counts below zero.
PortUnderflow == m_data_port_occupied_cycles - 1

PortAfterCycle == IF data_port_free THEN 0 ELSE m_data_port_occupied_cycles - 1

\* baseline_cache::cycle: the lower level takes the head of the miss queue, if
\* there is one and there is room, and the port makes progress.
cache_cycle(taken) ==
    /\ m_miss_queue' = IF taken THEN Tail(m_miss_queue) ELSE m_miss_queue
    /\ m_data_port_occupied_cycles' = PortAfterCycle
    /\ UNCHANGED <<line, mshr, m_current_response, m_extra_mf_fields>>

CacheInit == /\ line = [b \in Block |-> "INVALID"]
             /\ mshr = [b \in Block |-> <<>>]
             /\ m_current_response = <<>>
             /\ m_extra_mf_fields = {}
             /\ m_miss_queue = <<>>
             /\ m_data_port_occupied_cycles = 0

CacheTypeOK == /\ line \in [Block -> Status]
               /\ mshr \in [Block -> Seq(Req)]
               /\ m_current_response \in Seq(Block)
               /\ m_extra_mf_fields \subseteq Req
               /\ m_miss_queue \in Seq(Req \cup Writebacks)
               /\ m_data_port_occupied_cycles \in Nat
=============================================================================
