\* Cuts of four selectors over three facets, the diamond and an account
\* without code; three batches of two blocks, or of any length by the older
\* facet; the oracle's settings and its evidence.
CONSTANTS
    s1 = s1
    root1 = root1
    root2 = root2
    Addresses = {s1}
    NoAddress = NoAddress
    Owner = Owner
    BlocksPerRotation = 2
    MaxBatch = 3
    Roots = {root1, root2}
    NoRoot = NoRoot
    Tokens = {ETH}
    ETH = ETH
    Ids = {}
    Claims <- NoClaims
    V3Leaves <- MCLeaves
    LegacyLeaves <- MCLeaves
    DisputeGames = {}
    Oracles = {}
    Periods = {}
    MinPeriod = 1
    MaxPeriod = 30
    NotQueued = NotQueued
    NoCommitment = NoCommitment
    cutFacet = cutFacet
    facetA = facetA
    facetB = facetB
    account = account
    f = f
    g = g
    Selectors = {f, g, CutSelector, OwnerSelector}
    CutSelector = CutSelector
    OwnerSelector = OwnerSelector
    Facets = {cutFacet, facetA, facetB, account, Itself}
    NoFacet = NoFacet
    Itself = Itself
    HasCode = {cutFacet, facetA, facetB, Itself}
    CutFacets = {cutFacet}
    OwnerFacets = {facetA, cutFacet}
    Owners = {deployer, NoOwner}
    NoOwner = NoOwner
    Reverted = Reverted
    Cuts <- MCCuts
    w1 = w1
    w2 = w2
    w3 = w3
    Watchtowers = {w1, w2, w3}
    Batches = {1}
    Amounts = {0, 1, 2, 100}
    Tiers <- MCTiers
    InitialTiers <- MCInitialTiers
    Factors <- MCFactors
    InitialFactors <- MCInitialFactors
    Facet = Facet
    Game = Game
    Ages = {0, 15, 31, 91}
    DiamondPeriods = {604800, 1209600}
    BatchCounts = {2000}
    MaxSubmitted = 2001
    MaxDisputed = 2
SPECIFICATION UpkeepSpec
CONSTRAINT UpkeepScope
SYMMETRY TowerSymmetry
INVARIANT TableActsAsMap
PROPERTIES ImplementsBatchLog EvidenceMovesPeriods
CHECK_DEADLOCK FALSE
