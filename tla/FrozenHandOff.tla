---------------------------- MODULE FrozenHandOff ----------------------------
(***************************************************************************)
(* From a frozen cell to the runner journal                                *)
(* (run_frozen_live_cell_isolated, append_authorized_frozen_runner_output).*)
(* A production result is sealed for a fixed cell and appended in one go.  *)
(* What can be sealed is a patch rejection: an invalidated cell and a      *)
(* failed selection are refused, and an accepted patch would have to be    *)
(* run against hidden tests whose digest is the identity's, but the two    *)
(* digests are of different things.                                        *)
(***************************************************************************)
EXTENDS FrozenExecution, RunnerJournal

chain == <<frozen, journal>>

(* The identity of an execution takes the digest of the hidden tests from  *)
(* the cell's plan, which is of the bundle's canonical JSON.               *)
BundleDigest == "of canonical JSON"
IdentityDigest == BundleDigest

(* A round of one variant: it compares the identity's digest with that of  *)
(* the directory the tests were extracted to.                              *)
TreeDigest == "of names and bytes"
RoundOfOne(k) == cells[k] = PatchAccepted /\ IdentityDigest = TreeDigest

(* A failed selection sealed as a rejected patch.                          *)
MutSealable(k) == Fixed(k) /\ cells[k] \in {PatchRejected, SelectionFailed}

Sealable(k) ==
  /\ Fixed(k)
  /\ cells[k] = PatchRejected \/ RoundOfOne(k)

(* empty_patch is sealed and appended like any other rejection.            *)
Rejection == NotExecuted("patch_rejected")

AppendAuthorized(k) ==
  /\ Sealable(k)
  /\ AppendOutput(k[1], k[2], AdapterOutput("patch_rejected", Rejection), Rejection)
  /\ UNCHANGED frozen

ChainInit == FrozenInit /\ JournalInit

ChainNext ==
  \/ FrozenNext /\ UNCHANGED journal
  \/ \E k \in Keys : AppendAuthorized(k)

ChainSpec == ChainInit /\ [][ChainNext]_chain

-----------------------------------------------------------------------------
(* The three journals agree on a frozen manifest (custody, pre-isolation   *)
(* journal, runner journal): what the runner journal holds is the rejected *)
(* patch of an attempt whose output custody has fixed, one per slot; and   *)
(* where the pre-isolation journal led to it, every attempt that journal   *)
(* has of the slot before it was technical.                                *)
JournalsAgree ==
  \A i \in 1..Len(entries) :
    LET k == <<entries[i].slot, entries[i].attempt>> IN
    /\ k \in Keys /\ Fixed(k) /\ cells[k] = PatchRejected
    /\ \A j \in 1..Len(entries) : entries[j].slot = k[1] => j = i
    /\ (\E n \in 1..Len(prepared) : prepared[n].key = k) =>
         \A n \in 1..Len(prepared) :
           prepared[n].key[1] = k[1] /\ prepared[n].key[2] < k[2]
             => Invalidated(prepared[n])
=============================================================================
