---------------------------- MODULE MCEventStore ----------------------------
(***************************************************************************)
(* EventStore with small sets for TLC.  Times and LeaseSeconds are chosen  *)
(* so that a lease can be live, at its very last instant, and expired.     *)
(***************************************************************************)
EXTENDS EventStore, TLC

MCTimes == {0, 1}

\* Names are interchangeable: no definition tells two of a kind apart.
NameSymmetry == Permutations(MemoryIds) \cup Permutations(Sessions)
                    \cup Permutations(EventIds) \cup Permutations(Projects)
=============================================================================
