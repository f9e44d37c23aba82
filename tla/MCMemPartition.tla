--------------------------- MODULE MCMemPartition ---------------------------
(* MemPartition with two sub partitions and one shared credit.  The two      *)
(* reads of sub partition 0 share a metadata block, so that the second one   *)
(* can hit, merge or wait.                                                   *)
EXTENDS MemPartition

CONSTANTS r1, r2, r3, w1, o1, A, B, C

MCReq == {r1, r2, r3, w1, o1}
MCReads == {r1, r2, r3}
MixReq == {r1, r2, w1, o1}
MCBlock == {A, B, C}
MixReads == {r1, r2}
ShortReq == {r1, r2, w1}

SubMap(S) == [r \in S |-> IF r \in {r1, r2, o1} THEN 0 ELSE 1]
BlockMap(S) == [r \in S |-> CASE r \in {r1, r2, w1} -> A
                              [] r = r3 -> B
                              [] OTHER -> C]
MCSubOf == SubMap(MCReq)
MixSubOf == SubMap(MixReq)
ReadSubOf == SubMap(MCReads)
MCBlockOf == BlockMap(MCReq)
MixBlockOf == BlockMap(MixReq)
ShortSubOf == SubMap(ShortReq)
ShortBlockOf == BlockMap(ShortReq)
ReadBlockOf == BlockMap(MCReads)
=============================================================================
