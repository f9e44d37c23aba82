--------------------------- MODULE MCSubPartition ---------------------------
(* SubPartition with one way, so that blocks A and B evict each other.       *)
(* w1 writes part of a sector of A; r1 and a1, an atomic, read it afterwards *)
(* and meet each other in the MSHR table; t1 is a texture read and w2 a      *)
(* write of the upper half of B that r2 reads; c1 copies to B once the reads *)
(* are over.                                                                *)
(* In the racing program r1 and w1 touch the same sector in any order.       *)
EXTENDS SubPartition

CONSTANTS r1, r2, a1, t1, w1, w2, c1, A, B

MCPacket == {r1, r2, a1, t1, w1, w2, c1}
MCBlock == {A, B}
MCBlockOf == [p \in MCPacket |-> IF p \in {r1, a1, w1} THEN A ELSE B]
MCFirst == [p \in MCPacket |-> CASE p \in {w2, r2} -> 2 [] p = c1 -> 1 [] OTHER -> 0]
MCSize == [p \in MCPacket |-> IF p = w2 THEN 2 ELSE 1]
MCAfter == [p \in MCPacket |-> CASE p \in {r1, a1} -> {w1}
                                 [] p = r2 -> {w2}
                                 [] p = c1 -> {r1, r2, a1, t1}
                                 [] OTHER -> {}]

\* The first program has no races, the second has one.
ASSUME OnlyTheSecondRaces == RaceFree <=> Packet = MCPacket

\* Both order their copies, and no read joins an entry that has lost its line.
ASSUME CopiesAreOrdered == CopiesWait /\ NoLateJoin

RacePacket == {r1, t1, w1}
RaceBlockOf == [p \in RacePacket |-> MCBlockOf[p]]
RaceFirst == [p \in RacePacket |-> MCFirst[p]]
RaceSize == [p \in RacePacket |-> MCSize[p]]
RaceAfter == [p \in RacePacket |-> {}]
=============================================================================
