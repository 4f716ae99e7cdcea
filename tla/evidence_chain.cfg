SPECIFICATION Spec
CONSTANTS
    Slots <- MCSlots
    Scenarios = {"blind", "public"}
    Variants = {"variant"}
    ScenarioOf <- MCScenarioOf
    VariantOf <- MCVariantOf
    RepetitionOf <- MCRepetitionOf
    Order <- MCOrder
    Blind = {"blind"}
    Outputs = {o1}
    Roots = {r1}
    LastAttempt = 2
    MaxBegun = 2
    MaxDry = 1
    MaxAttempt = 2
    NoOutput = NoOutput
    NoRoot = NoRoot
    NoAttempt = NoAttempt
    NoCell = NoCell
    Processes = {"us", "them"}
    Manifests = {"ours", "rival", "late"}
    Seeds = {"seed", "burnt"}
    SeedOf <- MCSeedOf
    BurntSeeds = {"burnt"}
    NoManifest = NoManifest
    NoProcess = NoProcess
    Ours = "ours"
    Us = "us"
    FloorSlots <- MCFloorSlots
    FloorScenarios = {"floor"}
    FloorVariants = {"raw", "recall"}
    FloorScenarioOf <- MCFloorScenarioOf
    FloorVariantOf <- MCFloorVariantOf
    FloorRepetitionOf <- MCFloorRepetitionOf
    FloorOrder <- MCFloorOrder
    MaxRounds = 2
CHECK_DEADLOCK FALSE
INVARIANTS
    OneManifestPerSeed
    ProvidersWorkBlind
    RootsServeOneAttempt
    JournalMatchesCustody
    HeadlineJournalsAgree
    FinalEvidenceIsWhole
PROPERTIES
    KeepsBarrier
    ReturnedRunsAreOver
    EveryRoundEnds
