--------------------------- MODULE MCLegacyUpgrade --------------------------
\* LegacyUpgrade with small sets for TLC.
EXTENDS LegacyUpgrade, TLC

MCTimes == {0, 1}
NameSymmetry == Permutations(MemoryIds) \cup Permutations(Sessions)
                    \cup Permutations(EventIds)
=============================================================================
