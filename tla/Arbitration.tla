----------------------------- MODULE Arbitration -----------------------------
(***************************************************************************)
(* memory_partition_unit::arbitration_metadata (src/src/gpgpu-sim/         *)
(* l2cache.cc): the credits that limit how many requests of the sub        *)
(* partitions are below the L2 at the same time.  Each sub partition has   *)
(* private credits, the others are shared.  A returned credit goes to the  *)
(* private pool of its sub partition first, whichever pool it came from.   *)
(* Operations only; DramCredits and MemPartition drive them.               *)
(***************************************************************************)
EXTENDS Requests, Integers, FiniteSets

CONSTANTS NSub,         \* m_n_sub_partition_per_memory_channel
          SharedLimit,  \* m_shared_credit_limit; 0 means unlimited
          SubOf         \* Req -> SubPart, from get_sub_partition_id

SubPart == 0 .. NSub - 1

ASSUME NSubAssumption == NSub \in Nat \ {0}
ASSUME SharedLimitAssumption == SharedLimit \in Nat
ASSUME SubOfAssumption == SubOf \in [Req -> SubPart]

VARIABLES m_private_credit,  \* credits taken, per sub partition
          m_shared_credit,   \* shared credits taken
          m_last_borrower

arbitrationVars == <<m_private_credit, m_shared_credit, m_last_borrower>>

\* m_private_credit_limit, set in the constructor.
PrivateLimit == 1

ArbitrationInit == /\ m_private_credit = [p \in SubPart |-> 0]
                   /\ m_shared_credit = 0
                   /\ m_last_borrower = NSub - 1

\* Mutant: an off-by-one in the comparison with the limit.
SharedAvailableLax == SharedLimit = 0 \/ m_shared_credit <= SharedLimit

SharedAvailable == SharedLimit = 0 \/ m_shared_credit < SharedLimit

PrivateAvailable(p) == m_private_credit[p] < PrivateLimit

has_credits(p) == PrivateAvailable(p) \/ SharedAvailable

\* Guarded by has_credits: the assertion in its last branch never fires.
borrow_credit(p) ==
    /\ has_credits(p)
    /\ IF PrivateAvailable(p)
       THEN /\ m_private_credit' = [m_private_credit EXCEPT ![p] = @ + 1]
            /\ UNCHANGED m_shared_credit
       ELSE /\ m_shared_credit' = m_shared_credit + 1
            /\ UNCHANGED m_private_credit
    /\ m_last_borrower' = p

return_credit(p) ==
    /\ IF m_private_credit[p] > 0
       THEN /\ m_private_credit' = [m_private_credit EXCEPT ![p] = @ - 1]
            /\ UNCHANGED m_shared_credit
       ELSE /\ m_shared_credit' = m_shared_credit - 1
            /\ UNCHANGED m_private_credit
    /\ UNCHANGED m_last_borrower
=============================================================================
