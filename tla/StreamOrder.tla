----------------------------- MODULE StreamOrder -----------------------------
(***************************************************************************)
(* What CUDA streams promise an application: operations of one stream are  *)
(* carried out in the order in which they were issued, the default stream  *)
(* is a barrier between the others, and an operation that awaits others    *)
(* comes after them.  Everything else may be reordered.  StreamManager is  *)
(* shown to implement this.                                                *)
(***************************************************************************)
EXTENDS Naturals, Sequences

CONSTANTS Stream,   \* the streams an application may create
          Zero      \* the default stream

VARIABLES issued,   \* the operations, in the order of their issue
          done      \* the indices of those that have been carried out

orderVars == <<issued, done>>

Operation(n) == [stream : Stream \cup {Zero}, awaits : SUBSET (1 .. n)]

\* Operation i has to come after operation j.
After(i, j) == /\ j < i
               /\ \/ issued[j].stream \in {issued[i].stream, Zero}
                  \/ issued[i].stream = Zero
                  \/ j \in issued[i].awaits

MayComplete(i) == \A j \in 1 .. Len(issued) : After(i, j) => j \in done

OrderInit == issued = <<>> /\ done = {}

IssueOperation == /\ \E op \in Operation(Len(issued)) :
                        issued' = Append(issued, op)
                  /\ UNCHANGED done

\* Several operations may be carried out at once when none waits for another.
CompleteOperations ==
    /\ \E C \in SUBSET (1 .. Len(issued)) :
          /\ \A i \in C : MayComplete(i)
          /\ done' = done \cup C
    /\ UNCHANGED issued

OrderNext == IssueOperation \/ CompleteOperations

OrderSpec == OrderInit /\ [][OrderNext]_orderVars
=============================================================================
