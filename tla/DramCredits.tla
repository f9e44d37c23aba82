----------------------------- MODULE DramCredits -----------------------------
(***************************************************************************)
(* What a memory partition promises about its credits: a request takes one *)
(* when it leaves the L2 for the DRAM side and gives it back, once, when   *)
(* it is delivered or written.  MemPartition is shown to implement this.   *)
(***************************************************************************)
EXTENDS Arbitration

VARIABLE inflight  \* the requests that hold a credit

creditVars == <<arbitrationVars, inflight>>

CreditInit == ArbitrationInit /\ inflight = {}

Issue(r) == /\ r \notin inflight
            /\ borrow_credit(SubOf[r])
            /\ inflight' = inflight \cup {r}

Retire(r) == /\ r \in inflight
             /\ return_credit(SubOf[r])
             /\ inflight' = inflight \ {r}

CreditNext == \E r \in Req : Issue(r) \/ Retire(r)

CreditSpec == CreditInit /\ [][CreditNext]_creditVars

-----------------------------------------------------------------------------
(* Properties *)

\* The credit counters are integers, one private counter per sub partition.
CreditTypeOK == /\ m_private_credit \in [SubPart -> Int]
                /\ m_shared_credit \in Int
                /\ m_last_borrower \in SubPart
                /\ inflight \subseteq Req

\* The assertion of return_credit (l2cache.cc:452) and the limits of the two
\* pools: no sequence of borrowing from one pool and returning to the other
\* drives a pool below zero or past its limit.
CreditsWithinLimits ==
    /\ \A p \in SubPart : m_private_credit[p] \in 0 .. PrivateLimit
    /\ m_shared_credit >= 0
    /\ SharedLimit # 0 => m_shared_credit <= SharedLimit

Of(p, S) == {r \in S : SubOf[r] = p}

\* Every credit that is out is held by one request in flight: the requests in
\* flight split into as many as there are shared credits out and, for each sub
\* partition, as many as it has private credits out.
CreditsMatchRequests ==
    \E S \in SUBSET inflight :
        /\ Cardinality(S) = m_shared_credit
        /\ \A p \in SubPart :
              Cardinality(Of(p, inflight \ S)) = m_private_credit[p]

\* With a limit, at most SharedLimit + NSub requests are below the L2.  The
\* queues of the compression path rely on this: they are pushed without a test
\* for room (l2cache.cc:812-840), and their capacity, 1000, is far above.
InFlightBounded ==
    SharedLimit # 0 => Cardinality(inflight) <= SharedLimit + NSub
=============================================================================
