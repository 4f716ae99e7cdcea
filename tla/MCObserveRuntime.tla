-------------------------- MODULE MCObserveRuntime --------------------------
\* ObserveRuntime with small sets for TLC.
EXTENDS ObserveRuntime, TLC

CONSTANTS p1, s1, s2, e1, e2, b1, w1, t1, t2, x1, x2

Ask(s, e, n) == [key |-> [project |-> p1, session |-> s, id |-> e], seq |-> n, body |-> b1]

\* Two sessions of a project, one event each.
TwoSessions == {Ask(s1, e1, 1), Ask(s2, e1, 1)}

\* A session with two events.
OneSession == {Ask(s1, e1, 1), Ask(s1, e2, 2)}

OneProcess == [t \in {t1, t2} |-> w1]

\* x1 repeats x2, but x2 says more than x1.
OneRepeats == {<<x1, x1>>, <<x2, x2>>, <<x1, x2>>}

IdSymmetry == Permutations(MemoryIds)
=============================================================================
