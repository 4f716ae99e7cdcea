SPECIFICATION Spec
CONSTANTS
    HttpStatuses = {404, 408, 503}
    Components <- MCComponents
    SubjectComponent <- MCSubjectComponent
    Equivalent <- MCEquivalent
    CanonicalPaths <- MCCanonicalPaths
    ComponentOf <- MCComponentOf
    PrivateIdentifiers <- MCPrivateIdentifiers
    HandOffTexts <- MCHandOffTexts
    MaxContextItems = 3
    Requests <- MCRequests
    Operations <- MCOperations
    Patches <- MCPatches
    TopN = 2
    Fits <- MCFits
    Packets <- MCPackets
    PolicyOf <- MCPolicyOf
    Says <- MCSays
    Contracts <- MCContracts
    Grid <- MCGrid
    Comparators = {"semantic_rerank"}
    ClaimRuns = 2
    FailureCodes = {"sandbox_timeout"}
    Plans <- MCPlans
    Kinds <- MCKinds
    MaxRetained = 5
INVARIANTS
    CallsAreTraced
    NothingAfterAFailure
    ContextIsCurrent
    AttemptsAreJudged
    ResolversAgree
PROPERTIES
    VerdictsStand
CHECK_DEADLOCK FALSE
