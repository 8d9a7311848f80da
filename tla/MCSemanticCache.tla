-------------------------- MODULE MCSemanticCache --------------------------
EXTENDS SemanticCache, TLC
CONSTANTS p1, p2, t1, t2, i1, q1, s1, v1, v2

MCAlike == Questions \X Questions
MCShapeOf == [q \in Questions |-> s1]
Symmetry == Permutations({p1, p2}) \cup Permutations({t1, t2}) \cup Permutations({v1, v2})

\* One turn is driven by run_query_sync, the other by a server's loop.
MixedInit == Init /\ \E t, u \in Turns : sync[t] # sync[u]
MixedSpec == MixedInit /\ [][Next]_vars

\* Every turn is driven by run_query_sync.
SyncInit == Init /\ sync = [t \in Turns |-> TRUE]
SyncSpec == SyncInit /\ [][Next]_vars
=============================================================================
