------------------------------- MODULE Upkeep -------------------------------
(***************************************************************************)
(* What changes around the bridge: the proxy's table of functions, the     *)
(* versions of the sequencer facet, and the oracle of challenge periods.   *)
(* As far as they are modelled the three share no state, so a behaviour    *)
(* explores one of them, with the others as deployed.                      *)
(***************************************************************************)
EXTENDS SequencerUpgrade, SelectorTable

CONSTANTS
    Watchtowers, Batches, Amounts, Tiers, InitialTiers, Factors, InitialFactors,
    Facet, Game, Ages, DiamondPeriods, BatchCounts, MaxSubmitted, MaxDisputed

VARIABLES
    registeredWatchtowers, watchtowerConfirmed, batchConfirmationCount,
    recordedBatches, totalBatchesDisputed, tiers, watchtowerFactors,
    sequencerFacet, disputeGame, age, committed, facetRecords, gameRecords,
    diamondPeriod,
    part                \* what this behaviour explores

oracleVars == <<registeredWatchtowers, watchtowerConfirmed, batchConfirmationCount,
                recordedBatches, totalBatchesDisputed, tiers, watchtowerFactors,
                sequencerFacet, disputeGame, age, committed, facetRecords, gameRecords,
                diamondPeriod>>

Oracle == INSTANCE ChallengePeriod WITH totalBatchesSubmitted <- recordedBatches

ASSUME OracleAssumption == Oracle!ChallengePeriodAssumption

UpkeepInit ==
    /\ UpgradeInit /\ TableInit /\ Oracle!PeriodInit
    /\ part \in {"facets", "table", "oracle"}
    /\ part # "table" => contractOwner # NoOwner
    /\ part # "oracle" => diamondPeriod = Oracle!BasePeriod

UpkeepNext ==
    \/ part = "facets" /\ UpgradeNext /\ UNCHANGED <<tableVars, oracleVars, part>>
    \/ part = "table" /\ TableNext /\ UNCHANGED <<upgradeVars, oracleVars, part>>
    \/ part = "oracle" /\ Oracle!PeriodNext /\ UNCHANGED <<upgradeVars, tableVars, part>>

UpkeepSpec == UpkeepInit /\ [][UpkeepNext]_<<upgradeVars, tableVars, oracleVars, part>>

\* With its lists, positions and their moves the table is a plain map, in every
\* state that a history of cuts leaves: what the loupe shows is where calls go,
\* and every further cut does to it what it would to a map, or nothing
\* (LibDiamond.sol:26-30, 74-89).
TableActsAsMap == part = "table" => RoutesAreListed /\ CutsActAsOnAMap

\* See ChallengePeriod: evidence moves the oracle's answers as documented
\* (ChallengePeriod.sol:16-20).
EvidenceMovesPeriods == Oracle!EvidenceMovesPeriods
=============================================================================
