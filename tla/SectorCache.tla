---------------------------- MODULE SectorCache ----------------------------
(***************************************************************************)
(* The L2 of a memory sub partition: an l2_cache (data_cache in            *)
(* src/src/gpgpu-sim/gpu-cache.cc) with sectors, write back, allocation on *)
(* a miss and the lazy-fetch-on-read write policy, as gpgpusim.config sets *)
(* it.  One set of the tag array is modelled, with its MSHR table, its     *)
(* miss queue and m_extra_mf_fields.  Operations only: SubPartition drives *)
(* them.                                                                   *)
(*                                                                         *)
(* A write that misses does not fetch: it leaves the sector MODIFIED, and  *)
(* unreadable unless it wrote every byte, and the first read fetches the   *)
(* rest.  Lines are named by their way, because a fill is applied to the   *)
(* way that the miss remembered, whatever that way holds by then.  The     *)
(* replacement policy is abstracted: any line without a reserved sector    *)
(* may be the victim of a full set.                                        *)
(***************************************************************************)
EXTENDS Integers, Sequences, FiniteSets, SequencesExt

CONSTANTS Packet,         \* what the interconnect and the copy engine bring
          Block,          \* the blocks that map to the set
          NoBlock,
          BlockOf,        \* Packet -> Block
          First,          \* Packet -> the first sector it touches
          Size,           \* Packet -> how many sectors it touches: 1, 2 or 4
          Writes,         \* the packets that are writes
          Whole,          \* the writes that write all their bytes
          Atomic,         \* the reads that are atomics
          Copies,         \* the copies between host and device
          Ways,           \* m_assoc
          MshrEntries,    \* mshr_table::m_num_entries
          MaxMerged,      \* mshr_table::m_max_merged
          MissQueueSize   \* m_miss_queue_size

Sector == 0 .. 3   \* SECTOR_CHUNCK_SIZE

Way == 1 .. Ways

ASSUME SectorCacheAssumption ==
    /\ NoBlock \notin Block
    /\ BlockOf \in [Packet -> Block]
    /\ Size \in [Packet -> {1, 2, 4}]
    /\ First \in [Packet -> Sector]
    /\ \A p \in Packet : First[p] % Size[p] = 0
    /\ \A p \in Copies : Size[p] = 1
    /\ Whole \subseteq Writes /\ Writes \subseteq Packet /\ Copies \subseteq Packet
    /\ Atomic \subseteq Packet \ (Writes \cup Copies)
    /\ {Ways, MshrEntries, MaxMerged} \subseteq Nat \ {0}
    /\ MissQueueSize \in Nat \ {0, 1}

VARIABLES
    m_tag,               \* Way -> the block of the line
    m_sector,            \* Way -> Sector -> its part of the line
    mshr,                \* m_data: sector address -> merged reads
    m_current_response,  \* the sector addresses whose reads are being answered
    m_extra_mf_fields,   \* m_cache_index of a read that waits for its fill, or 0
    m_miss_queue,
    m_data_port_occupied_cycles

cacheVars == <<m_tag, m_sector, mshr, m_current_response, m_extra_mf_fields,
               m_miss_queue, m_data_port_occupied_cycles>>

\* A request is the part of a packet that concerns one sector.
Req == {r \in (Packet \ Copies) \X Sector :
           r[2] \in First[r[1]] .. First[r[1]] + Size[r[1]] - 1}

Key(r) == <<BlockOf[r[1]], r[2]>>

Keys == Block \X Sector

\* The mem_fetch that writes back the modified sectors S of block b.
Wb(b, S) == <<"wb", b, S>>

Writebacks == {Wb(b, S) : b \in Block, S \in SUBSET Sector}

\* sector_cache_block::init.  The field complete is not in the code: it tells
\* whether all bytes of the sector have been fetched, written or copied in.
FreshSector == [status |-> "INVALID", modified_on_fill |-> FALSE,
                ignore_on_fill |-> FALSE, readable |-> TRUE, complete |-> FALSE]

-----------------------------------------------------------------------------
(* The tag array *)

is_reserved_line(w) == \E s \in Sector : m_sector[w][s].status = "RESERVED"

is_invalid_line(w) == \A s \in Sector : m_sector[w][s].status = "INVALID"

ModifiedSectors(w) == {s \in Sector : m_sector[w][s].status = "MODIFIED"}

WayOf(b) == CHOOSE w \in Way : m_tag[w] = b

Cached(b) == \E w \in Way : m_tag[w] = b

\* Mutant: a line with a pending fill may be replaced.
AnyWay == Way

Replaceable == {w \in Way : ~is_reserved_line(w)}

Victims == LET invalid == {w \in Replaceable : is_invalid_line(w)}
           IN  IF invalid # {} THEN {CHOOSE w \in invalid : TRUE} ELSE Replaceable

\* Mutant: the bytes a lazy write left out are taken for granted.
HitIfModified(s) == "HIT"

\* A modified sector is a hit only if all its bytes are there.
ModifiedOutcome(s) == IF s.readable THEN "HIT" ELSE "SECTOR_MISS"

\* tag_array::probe.
probe(k) ==
    IF ~Cached(k[1])
    THEN IF Replaceable = {} THEN "RESERVATION_FAIL" ELSE "MISS"
    ELSE LET s == m_sector[WayOf(k[1])][k[2]]
         IN  CASE s.status = "RESERVED" -> "HIT_RESERVED"
               [] s.status = "VALID"    -> "HIT"
               [] s.status = "MODIFIED" -> ModifiedOutcome(s)
               [] s.status = "INVALID"  -> "SECTOR_MISS"

\* The ways that an access of the sector address k may end up in.
WaysFor(k) == IF Cached(k[1]) THEN {WayOf(k[1])} ELSE Victims

allocate_line(s) == [x \in Sector |->
    IF x = s THEN [FreshSector EXCEPT !.status = "RESERVED"] ELSE FreshSector]

\* Mutant: a fetch for a modified sector forgets that it was modified.
allocate_sector_clean(s) ==
    [s EXCEPT !.modified_on_fill = FALSE, !.status = "RESERVED",
              !.ignore_on_fill = FALSE, !.readable = TRUE]

allocate_sector(s) ==
    [s EXCEPT !.modified_on_fill = (s.status = "MODIFIED"),
              !.status = "RESERVED",
              !.ignore_on_fill = FALSE, !.readable = TRUE]

\* tag_array::access: the sectors of way w after a probe of k.
Accessed(k, w) ==
    CASE probe(k) = "MISS"        -> allocate_line(k[2])
      [] probe(k) = "SECTOR_MISS" -> [m_sector[w] EXCEPT ![k[2]] = allocate_sector(@)]
      [] OTHER                    -> m_sector[w]

\* What the access evicts: a modified line is written back.
WrittenBack(k, w) ==
    IF probe(k) = "MISS" /\ ModifiedSectors(w) # {}
    THEN <<Wb(m_tag[w], ModifiedSectors(w))>> ELSE <<>>

-----------------------------------------------------------------------------
(* data_cache::access *)

Entries == {k \in Keys : mshr[k] # <<>>}

\* m_has_atomic of the entry.
HasAtomic(k) == \E a \in ToSet(mshr[k]) : a[1] \in Atomic

\* mshr_table::full.
mshr_full(k) == IF k \in Entries THEN Len(mshr[k]) >= MaxMerged
                ELSE Cardinality(Entries) >= MshrEntries

miss_queue_full(n) == Len(m_miss_queue) + n >= MissQueueSize

data_port_free == m_data_port_occupied_cycles = 0

IsWrite(r) == r[1] \in Writes

\* As far as the caller sees it: a write that is not a hit is a MISS that the
\* caller answers at once, a read that is not a hit waits in the MSHR table.
access_outcome(r) ==
    LET k == Key(r)
        refused == IF IsWrite(r) THEN miss_queue_full(0)
                   ELSE miss_queue_full(1) \/ mshr_full(k)
    IN  CASE probe(k) \in {"HIT", "RESERVATION_FAIL"} -> probe(k)
          [] OTHER -> IF refused THEN "RESERVATION_FAIL" ELSE "MISS"

\* A hit takes a cycle, a lazy write that evicts one per sector written back.
use_data_port(n) ==
    m_data_port_occupied_cycles' = m_data_port_occupied_cycles + n

\* rd_hit_base and wr_hit_wb: a write and an atomic dirty the sector.
hit(r) ==
    LET k == Key(r)  w == WayOf(k[1])
    IN  /\ m_sector' = IF IsWrite(r) \/ r[1] \in Atomic
                       THEN [m_sector EXCEPT ![w][k[2]].status = "MODIFIED"]
                       ELSE m_sector
        /\ use_data_port(1)
        /\ UNCHANGED <<m_tag, mshr, m_current_response, m_extra_mf_fields,
                       m_miss_queue>>

\* rd_miss_base and send_read_request: the read joins the MSHR entry of its
\* sector; only the read that creates the entry is sent to memory and waits
\* for the fill of the way.  The event of its writeback carries no size, so
\* the writeback takes no time on the data port.
rd_miss_base(r) ==
    LET k == Key(r)
        sent == k \notin Entries
    IN  \E w \in WaysFor(k) :
          /\ m_tag' = [m_tag EXCEPT ![w] = k[1]]
          /\ m_sector' = [m_sector EXCEPT ![w] = Accessed(k, w)]
          /\ mshr' = [mshr EXCEPT ![k] = Append(@, r)]
          /\ m_extra_mf_fields' = IF sent THEN [m_extra_mf_fields EXCEPT ![r] = w]
                                  ELSE m_extra_mf_fields
          /\ m_miss_queue' = m_miss_queue \o (IF sent THEN <<r>> ELSE <<>>)
                                 \o WrittenBack(k, w)
          /\ UNCHANGED <<m_current_response, m_data_port_occupied_cycles>>

\* breakdown_request_to_sector_requests gives the parts of a packet their byte
\* masks; when the packet starts at sector 2 the loop that sets up the first
\* mask is empty, and all its parts get an empty one.
WholeMask(r) == r[1] \in Whole /\ (Size[r[1]] = 1 \/ First[r[1]] = 0)

WroteAll(r) == r[1] \in Whole

\* wr_miss_wa_lazy_fetch_on_read.
Overwritten(s, r, pending) ==
    [s EXCEPT !.status = "MODIFIED",
              !.modified_on_fill = @ \/ pending,
              !.ignore_on_fill = @ \/ pending,
              !.readable = WholeMask(r),
              !.complete = @ \/ WroteAll(r)]

wr_miss_wa_lazy_fetch_on_read(r) ==
    LET k == Key(r)
    IN  \E w \in WaysFor(k) :
          /\ m_tag' = [m_tag EXCEPT ![w] = k[1]]
          /\ m_sector' = [m_sector EXCEPT ![w] =
                [Accessed(k, w) EXCEPT ![k[2]] =
                    Overwritten(@, r, probe(k) = "HIT_RESERVED")]]
          /\ m_miss_queue' = m_miss_queue \o WrittenBack(k, w)
          /\ use_data_port(IF WrittenBack(k, w) = <<>> THEN 0
                           ELSE Cardinality(ModifiedSectors(w)))
          /\ UNCHANGED <<mshr, m_current_response, m_extra_mf_fields>>

\* process_tag_probe.
access(r) ==
    CASE access_outcome(r) = "HIT"                  -> hit(r)
      [] access_outcome(r) = "MISS" /\ IsWrite(r)  -> wr_miss_wa_lazy_fetch_on_read(r)
      [] access_outcome(r) = "MISS" /\ ~IsWrite(r) -> rd_miss_base(r)
      [] OTHER                                     -> UNCHANGED cacheVars

-----------------------------------------------------------------------------
(* Fills, answers and copies *)

\* Mutant: a sector that had been written before stays reserved.
FilledIfClean(s, atomic, own) ==
    [s EXCEPT !.status = IF s.modified_on_fill \/ atomic THEN @ ELSE "VALID",
              !.complete = @ \/ own]

\* sector_cache_block::fill, and the dirtying by an atomic that follows it.
Filled(s, atomic, own) ==
    [s EXCEPT !.status = IF s.modified_on_fill \/ atomic THEN "MODIFIED" ELSE "VALID",
              !.complete = @ \/ own]

\* baseline_cache::fill, by the way remembered.  The bytes are the sector's
\* own only if the way still holds the block.
fill(r) ==
    LET k == Key(r)
        w == m_extra_mf_fields[r]
    IN  /\ m_sector' = [m_sector EXCEPT ![w][k[2]] =
              Filled(@, HasAtomic(k), m_tag[w] = k[1])]
        /\ m_current_response' = Append(m_current_response, k)
        /\ m_extra_mf_fields' = [m_extra_mf_fields EXCEPT ![r] = 0]
        /\ UNCHANGED <<m_tag, mshr, m_miss_queue, m_data_port_occupied_cycles>>

waiting_for_fill(r) == m_extra_mf_fields[r] # 0

access_ready == m_current_response # <<>>

next_read == Head(mshr[Head(m_current_response)])

\* mshr_table::next_access.
next_access ==
    LET k == Head(m_current_response)
    IN  /\ mshr' = [mshr EXCEPT ![k] = Tail(@)]
        /\ m_current_response' = IF Len(mshr[k]) = 1 THEN Tail(m_current_response)
                                 ELSE m_current_response
        /\ UNCHANGED <<m_tag, m_sector, m_extra_mf_fields, m_miss_queue,
                       m_data_port_occupied_cycles>>

\* tag_array::fill by address, the copy engine's force_tag_access: the line it
\* replaces is not written back.  It needs a line: with every line reserved
\* the index it uses is uninitialized (CopyFindsLine).
force_tag_access(c) ==
    LET k == <<BlockOf[c], First[c]>>
    IN  \E w \in WaysFor(k) :
          /\ m_tag' = [m_tag EXCEPT ![w] = k[1]]
          /\ m_sector' = [m_sector EXCEPT ![w] =
                [Accessed(k, w) EXCEPT ![k[2]] = Filled(@, FALSE, TRUE)]]
          /\ UNCHANGED <<mshr, m_current_response, m_extra_mf_fields,
                         m_miss_queue, m_data_port_occupied_cycles>>

PortAfterCycle == IF data_port_free THEN 0 ELSE m_data_port_occupied_cycles - 1

\* baseline_cache::cycle: the lower level takes the head of the miss queue, if
\* there is room, and the ports make progress.  (The fill port is busy for one
\* cycle after a fill, which ends here, before it is tested again.)
cache_cycle(taken) ==
    /\ m_miss_queue' = IF taken THEN Tail(m_miss_queue) ELSE m_miss_queue
    /\ m_data_port_occupied_cycles' = PortAfterCycle
    /\ UNCHANGED <<m_tag, m_sector, mshr, m_current_response, m_extra_mf_fields>>

CacheInit == /\ m_tag = [w \in Way |-> NoBlock]
             /\ m_sector = [w \in Way |-> [s \in Sector |-> FreshSector]]
             /\ mshr = [k \in Keys |-> <<>>]
             /\ m_current_response = <<>>
             /\ m_extra_mf_fields = [r \in Req |-> 0]
             /\ m_miss_queue = <<>>
             /\ m_data_port_occupied_cycles = 0
=============================================================================
