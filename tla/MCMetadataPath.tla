--------------------------- MODULE MCMetadataPath ---------------------------
(* MetadataPath with reads of three blocks that share a set. *)
EXTENDS MetadataPath

CONSTANTS a1, a2, a3, a4, b1, b2, c1, A, B, C

MCReq == {a1, a2, a3, b1, b2, c1}
MCBlock == {A, B, C}

\* Many reads of one block and a few of another.
MergeReq == {a1, a2, a3, a4, b1, b2}

MCBlockOf == [r \in MCReq |-> CASE r \in {a1, a2, a3} -> A
                                [] r \in {b1, b2}     -> B
                                [] OTHER              -> C]
MergeBlockOf == [r \in MergeReq |-> IF r \in {b1, b2} THEN B ELSE A]
=============================================================================
