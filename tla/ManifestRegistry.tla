-------------------------- MODULE ManifestRegistry --------------------------
(***************************************************************************)
(* Registration of an execution manifest for its review seed               *)
(* (evidence_review_protocol.py) and the authorities that rest on it       *)
(* (RevealAuthority).  A seed is written once: processes with a manifest   *)
(* of the same seed race for it through SQLite, and one may crash at any   *)
(* point and register again.  A registration is a function of its manifest *)
(* (the manifest binds seed, attestation and leakage reviews), so two      *)
(* registrations are equal when the manifests are.                         *)
(***************************************************************************)
CONSTANTS
  Processes, Manifests, Seeds,
  SeedOf,         \* [Manifests -> Seeds]
  BurntSeeds,     \* seeds with a legacy registration
  NoManifest, NoProcess

ASSUME RegistryAssumption ==
  /\ SeedOf \in [Manifests -> Seeds]
  /\ NoManifest \notin Manifests /\ NoProcess \notin Processes

VARIABLES
  registered,   \* eligible_review_seed_registrations: the seed's manifest
  writer,       \* who holds the transaction BEGIN IMMEDIATE opened
  registering,  \* what each process is registering, and what it has read
  receipts,     \* the manifest each process was told is registered
  authorities   \* the manifests of the RevealAuthority objects of a process

registry == <<registered, writer, registering, receipts, authorities>>

Idle == [manifest |-> NoManifest, read |-> NoManifest]
Wanted(p) == registering[p].manifest

StartRegistration(p, m) ==
  /\ Wanted(p) = NoManifest
  /\ registering' = [registering EXCEPT ![p] = [Idle EXCEPT !.manifest = m]]
  /\ UNCHANGED <<registered, writer, receipts, authorities>>

(* BEGIN IMMEDIATE and the two SELECTs; a burnt seed is refused.           *)
ReadSeed(p) ==
  /\ Wanted(p) # NoManifest /\ writer = NoProcess
  /\ IF SeedOf[Wanted(p)] \in BurntSeeds
     THEN /\ registering' = [registering EXCEPT ![p] = Idle]
          /\ UNCHANGED writer
     ELSE /\ writer' = p
          /\ registering' =
               [registering EXCEPT ![p].read = registered[SeedOf[Wanted(p)]]]
  /\ UNCHANGED <<registered, receipts, authorities>>

(* A registration that differs from the one that was read is written too.  *)
MutAcceptable(p) == registering[p].read \in Manifests \cup {NoManifest}

(* review_seed_reuse, or the INSERT of a seed that has no row, and COMMIT. *)
Acceptable(p) == registering[p].read \in {NoManifest, Wanted(p)}

RefuseReuse(p) ==
  /\ writer = p /\ ~Acceptable(p)
  /\ writer' = NoProcess
  /\ registering' = [registering EXCEPT ![p] = Idle]
  /\ UNCHANGED <<registered, receipts, authorities>>

(* The answer may be lost with its process.                                *)
CommitRegistration(p) ==
  /\ writer = p /\ Acceptable(p)
  /\ registered' = [registered EXCEPT ![SeedOf[Wanted(p)]] = Wanted(p)]
  /\ receipts' \in {receipts, [receipts EXCEPT ![p] = @ \cup {Wanted(p)}]}
  /\ writer' = NoProcess
  /\ registering' = [registering EXCEPT ![p] = Idle]
  /\ UNCHANGED authorities

(* A crash rolls back what is not committed and forgets the rest.          *)
Crash(p) ==
  /\ registering' = [registering EXCEPT ![p] = Idle]
  /\ writer' = IF writer = p THEN NoProcess ELSE writer
  /\ receipts' = [receipts EXCEPT ![p] = {}]
  /\ authorities' = [authorities EXCEPT ![p] = {}]
  /\ UNCHANGED registered

(* RevealAuthority.__init__: require_eligible_registration_41, with a      *)
(* registration receipt that may have been written by another process.     *)
OpenAuthority(p, m) ==
  /\ registered[SeedOf[m]] = m
  /\ authorities' = [authorities EXCEPT ![p] = @ \cup {m}]
  /\ UNCHANGED <<registered, writer, registering, receipts>>

RegistryInit ==
  /\ registered = [s \in Seeds |-> NoManifest]
  /\ writer = NoProcess
  /\ registering = [p \in Processes |-> Idle]
  /\ receipts = [p \in Processes |-> {}]
  /\ authorities = [p \in Processes |-> {}]

RegistryNext ==
  \E p \in Processes :
    \/ \E m \in Manifests : StartRegistration(p, m) \/ OpenAuthority(p, m)
    \/ ReadSeed(p) \/ RefuseReuse(p) \/ CommitRegistration(p) \/ Crash(p)

RegistrySpec == RegistryInit /\ [][RegistryNext]_registry

-----------------------------------------------------------------------------
(* One manifest per seed (_record_validated_registration,                  *)
(* require_eligible_registration_41): whatever two processes were told, or *)
(* hold authorities for, of one seed is one manifest, and no burnt seed is *)
(* among them; a crash and a second registration change nothing of it.     *)
OneManifestPerSeed ==
  \A p, q \in Processes :
    \A m \in receipts[p] \cup authorities[p], n \in receipts[q] \cup authorities[q] :
      /\ SeedOf[m] = SeedOf[n] => m = n
      /\ SeedOf[m] \notin BurntSeeds
      /\ registered[SeedOf[m]] = m
=============================================================================
