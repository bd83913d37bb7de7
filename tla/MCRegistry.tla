----------------------------- MODULE MCRegistry -----------------------------
(* The registry on a small instance, with the bookkeeping of ring memory as a *)
(* sum over the sessions.                                                     *)
EXTENDS Registry, FiniteSetsExt

\* The sum of the reservations f.
SumOver(f) == MapThenSumSet(LAMBDA i : f[i], Ids)

\* The running total is the sum of the reservations, and an id without a table
\* entry has none: the memory of a failed or reaped session is given back once.
ReservedIsSum ==
    /\ ringReserved = SumOver(ringByID)
    /\ \A i \in Ids : byID[i] = Absent => ringByID[i] = 0
=============================================================================
