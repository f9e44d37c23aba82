----------------------------- MODULE MCCodebook -----------------------------
(* Codebook on a small alphabet and short intervals.  Two symbols per       *)
(* request, one counted per cycle and a FIFO of two make the FIFO fill up   *)
(* in the middle of a request.  Four symbols make the table evict, and      *)
(* intervals are long enough for builds and rebuilds that meet a count of   *)
(* zero.  A snapshot of one entry leaves one of the codebook's two out.     *)
(* Counts up to two die out after two rebuilds without samples, so rebuilds *)
(* also meet an empty table.                                                *)
EXTENDS Codebook, TLC

CONSTANTS s1, s2, s3, s4

MCSymbol == {s1, s2, s3, s4}

Symmetry == Permutations(MCSymbol)
=============================================================================
