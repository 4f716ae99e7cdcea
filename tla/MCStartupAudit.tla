--------------------------- MODULE MCStartupAudit ---------------------------
\* StartupAudit with small sets for TLC.
EXTENDS StartupAudit, TLC

MCTimes == {0, 1}
NameSymmetry == Permutations(MemoryIds) \cup Permutations(Sessions)
                    \cup Permutations(EventIds)
=============================================================================
