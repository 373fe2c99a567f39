--------------------------- MODULE ChallengePeriod ---------------------------
(***************************************************************************)
(* The oracle of challenge periods, and what its callers make of it: the   *)
(* sequencer facet that reports batches in a try, the dispute game that    *)
(* reports disputes without one, and the bridge facet that takes its own   *)
(* period when the oracle reverts or answers out of bounds.                *)
(* Factors are in percent (the code's basis points are multiples of 100),  *)
(* periods in seconds, the age of the chain in days.  The owner is fixed.  *)
(***************************************************************************)
EXTENDS Integers

CONSTANTS
    Watchtowers,
    Batches,            \* the batches that are looked at, any others are counted
    Amounts,            \* amounts of withdrawals
    Tiers,              \* pairs of size tiers, the initial one among them
    InitialTiers,
    Factors,            \* quadruples of watchtower factors the owner tries
    InitialFactors,
    Facet, Game,        \* the contracts that may be authorized
    NoAddress,
    Ages,               \* the ages of the chain that are looked at
    DiamondPeriods,     \* values of the bridge's own challengePeriod
    BatchCounts,        \* how many other batches are submitted in a row
    MaxSubmitted,       \* bound of totalBatchesSubmitted
    MaxDisputed         \* bound of totalBatchesDisputed

\* What the constants are taken to be; the module that instantiates this one
\* assumes it.
ChallengePeriodAssumption ==
    /\ Amounts \subseteq Nat /\ Ages \subseteq Nat /\ 0 \in Ages
    /\ Tiers \subseteq Nat \X Nat /\ InitialTiers \in Tiers
    /\ Factors \cup {InitialFactors} \subseteq Nat \X Nat \X Nat \X Nat
    /\ \A i \in 1..4 : InitialFactors[i] <= 100
    /\ DiamondPeriods \subseteq Nat /\ BatchCounts \subseteq Nat
    /\ NoAddress \notin {Facet, Game}

VARIABLES
    registeredWatchtowers, watchtowerConfirmed, batchConfirmationCount,
    totalBatchesSubmitted, totalBatchesDisputed,
    tiers, watchtowerFactors,
    sequencerFacet, disputeGame,    \* the authorized contracts
    age,                            \* days since chainLaunchTimestamp
    committed,          \* batches with a state commitment in the facet
    facetRecords,       \* the facets' challengePeriodAddress is this contract
    gameRecords,        \* the game's challengePeriod is this contract
    diamondPeriod       \* the bridge's own challengePeriod

towerVars == <<registeredWatchtowers, watchtowerConfirmed, batchConfirmationCount>>
statVars == <<totalBatchesSubmitted, totalBatchesDisputed>>
settingVars == <<tiers, watchtowerFactors, sequencerFacet, disputeGame>>
callerVars == <<facetRecords, gameRecords, diamondPeriod>>
periodVars == <<towerVars, statVars, settingVars, age, committed, callerVars>>

Day == 86400
BasePeriod == 7 * Day
MinimumPeriod == Day

----------------------------------------------------------------------------
WatchtowerFactor(n) ==
    LET count == batchConfirmationCount[n]
    IN  CASE count >= 5 -> watchtowerFactors[4]
          [] count \in 3..4 -> watchtowerFactors[3]
          [] count \in 1..2 -> watchtowerFactors[2]
          [] count = 0 -> watchtowerFactors[1]

\* The subtraction in _getTrustFactor underflows.
Reverts == totalBatchesSubmitted # 0 /\ totalBatchesDisputed > totalBatchesSubmitted

TrustBps ==
    ((totalBatchesSubmitted - totalBatchesDisputed) * 10000) \div totalBatchesSubmitted

\* The share of the batches with a dispute.
DistrustFactor ==
    IF totalBatchesSubmitted = 0 THEN 100
    ELSE IF 10000 - TrustBps > 9990 /\ age > 30 THEN 80
    ELSE IF 10000 - TrustBps > 9900 /\ age > 14 THEN 90
    ELSE 100

TrustFactor ==
    IF totalBatchesSubmitted = 0 THEN 100
    ELSE IF TrustBps > 9990 /\ age > 30 THEN 80
    ELSE IF TrustBps > 9900 /\ age > 14 THEN 90
    ELSE 100

SizeFactor(amount) ==
    IF amount < tiers[1] THEN 30 ELSE IF amount < tiers[2] THEN 50 ELSE 100

MaturityFactor == IF age > 90 THEN 80 ELSE IF age > 30 THEN 90 ELSE 100

\* getChallengePeriod, when it does not revert: rounded down after each
\* factor, and not below the minimum.
GetChallengePeriod(amount, n) ==
    LET times(period, percent) == (period * percent) \div 100
        product == times(times(times(times(BasePeriod, WatchtowerFactor(n)),
                                     TrustFactor), SizeFactor(amount)), MaturityFactor)
    IN  IF product < MinimumPeriod THEN MinimumPeriod ELSE product

\* BridgeFacet._challengePeriodFor: the oracle's answer, when it gives one of
\* 1 to 30 days.
ChallengePeriodFor(amount, n) ==
    IF facetRecords /\ ~Reverts /\ GetChallengePeriod(amount, n) \in Day..(30 * Day)
    THEN GetChallengePeriod(amount, n)
    ELSE diamondPeriod

----------------------------------------------------------------------------
PeriodInit ==
    /\ registeredWatchtowers = {}
    /\ watchtowerConfirmed = [n \in Batches |-> {}]
    /\ batchConfirmationCount = [n \in Batches |-> 0]
    /\ totalBatchesSubmitted = 0 /\ totalBatchesDisputed = 0
    /\ tiers = InitialTiers /\ watchtowerFactors = InitialFactors
    /\ sequencerFacet = NoAddress /\ disputeGame = NoAddress
    /\ age = 0
    /\ committed = {}
    /\ facetRecords = FALSE /\ gameRecords = FALSE
    /\ diamondPeriod \in DiamondPeriods

\* registerWatchtower (owner)
RegisterWatchtower(w) ==
    /\ w \notin registeredWatchtowers
    /\ registeredWatchtowers' = registeredWatchtowers \cup {w}
    /\ UNCHANGED <<watchtowerConfirmed, batchConfirmationCount, statVars, settingVars,
                   age, committed, callerVars>>

\* removeWatchtower (owner): what it confirmed stays.
RemoveWatchtower(w) ==
    /\ w \in registeredWatchtowers
    /\ registeredWatchtowers' = registeredWatchtowers \ {w}
    /\ UNCHANGED <<watchtowerConfirmed, batchConfirmationCount, statVars, settingVars,
                   age, committed, callerVars>>

\* confirmBatch: the batch has to exist only when a facet is set.
ConfirmBatch(w, n) ==
    /\ w \in registeredWatchtowers
    /\ w \notin watchtowerConfirmed[n]
    /\ sequencerFacet # NoAddress => sequencerFacet = Facet /\ n \in committed
    /\ watchtowerConfirmed' = [watchtowerConfirmed EXCEPT ![n] = @ \cup {w}]
    /\ batchConfirmationCount' = [batchConfirmationCount EXCEPT ![n] = @ + 1]
    /\ UNCHANGED <<registeredWatchtowers, statVars, settingVars, age, committed, callerVars>>

\* The facet's report of k batches, caught when it is refused.
RecordBatchSubmitted(k) ==
    totalBatchesSubmitted' =
        IF facetRecords /\ sequencerFacet = Facet
        THEN totalBatchesSubmitted + k ELSE totalBatchesSubmitted

\* A batch is submitted, with a commitment or by a path that makes none.
SubmitBatch(n, withState) ==
    /\ totalBatchesSubmitted < MaxSubmitted
    /\ n \notin committed
    /\ committed' = IF withState THEN committed \cup {n} ELSE committed
    /\ RecordBatchSubmitted(1)
    /\ UNCHANGED <<towerVars, totalBatchesDisputed, settingVars, age, callerVars>>

\* Other batches are submitted, k in a row.
SubmitOthers(k) ==
    /\ totalBatchesSubmitted + k <= MaxSubmitted
    /\ RecordBatchSubmitted(k)
    /\ UNCHANGED <<towerVars, totalBatchesDisputed, settingVars, age, committed, callerVars>>

\* DisputeGame.startDispute, which reverts when its report is refused.
StartDispute(n) ==
    /\ n \in committed
    /\ totalBatchesDisputed < MaxDisputed
    /\ gameRecords => disputeGame = Game
    /\ totalBatchesDisputed' = totalBatchesDisputed + (IF gameRecords THEN 1 ELSE 0)
    /\ UNCHANGED <<towerVars, totalBatchesSubmitted, settingVars, age, committed, callerVars>>

\* setSizeTiers (owner)
SetSizeTiers(pair) ==
    /\ pair[1] < pair[2]
    /\ tiers' = pair
    /\ UNCHANGED <<towerVars, statVars, watchtowerFactors, sequencerFacet, disputeGame,
                   age, committed, callerVars>>

\* setWatchtowerFactors (owner): no factor above 1, in any order.
SetWatchtowerFactors(factors) ==
    /\ \A i \in 1..4 : factors[i] <= 100
    /\ watchtowerFactors' = factors
    /\ UNCHANGED <<towerVars, statVars, tiers, sequencerFacet, disputeGame,
                   age, committed, callerVars>>

\* setAuthorizedContracts (owner)
SetAuthorizedContracts(facet, game) ==
    /\ sequencerFacet' = facet /\ disputeGame' = game
    /\ UNCHANGED <<towerVars, statVars, tiers, watchtowerFactors,
                   age, committed, callerVars>>

\* BridgeFacet.setChallengePeriodOracle and DisputeGame.setChallengePeriod
\* (their owners): to this contract or to none.
Wire(facet, game) ==
    /\ facetRecords' = facet /\ gameRecords' = game
    /\ UNCHANGED <<towerVars, statVars, settingVars, age, committed, diamondPeriod>>

\* BridgeFacet.setChallengePeriod (owner)
SetDiamondPeriod(period) ==
    /\ diamondPeriod' = period
    /\ UNCHANGED <<towerVars, statVars, settingVars, age, committed, facetRecords, gameRecords>>

Elapse ==
    /\ \E later \in Ages : later > age /\ age' = later
    /\ UNCHANGED <<towerVars, statVars, settingVars, committed, callerVars>>

OwnersNext ==
    \/ \E w \in Watchtowers : RegisterWatchtower(w) \/ RemoveWatchtower(w)
    \/ \E pair \in Tiers : SetSizeTiers(pair)
    \/ \E factors \in Factors : SetWatchtowerFactors(factors)
    \/ \E facet \in {Facet, NoAddress}, game \in {Game, NoAddress} :
          SetAuthorizedContracts(facet, game)
    \/ \E facet, game \in BOOLEAN : Wire(facet, game)
    \/ \E period \in DiamondPeriods : SetDiamondPeriod(period)

EvidenceNext ==
    \/ \E w \in Watchtowers, n \in Batches : ConfirmBatch(w, n)
    \/ \E n \in Batches, withState \in BOOLEAN : SubmitBatch(n, withState)
    \/ \E k \in BatchCounts : SubmitOthers(k)
    \/ \E n \in Batches : StartDispute(n)
    \/ Elapse

PeriodNext == OwnersNext \/ EvidenceNext

PeriodSpec == PeriodInit /\ [][PeriodNext]_periodVars

----------------------------------------------------------------------------
OrderedFactors ==
    \A i \in 1..3 : watchtowerFactors[i] >= watchtowerFactors[i + 1]

\* What happens moves the periods the bridge takes in the directions the
\* oracle's header documents (ChallengePeriod.sol:16-20), as long as the
\* owner's factors decrease and the oracle does not revert: confirmations,
\* further batches and time never lengthen a period, a dispute never shortens
\* one; at any time a larger amount waits no less.
EvidenceMovesPeriods ==
    [][EvidenceNext /\ OrderedFactors /\ ~Reverts /\ ~Reverts' =>
        \A n \in Batches, a \in Amounts :
            /\ totalBatchesDisputed' > totalBatchesDisputed =>
                   ChallengePeriodFor(a, n)' >= ChallengePeriodFor(a, n)
            /\ totalBatchesDisputed' = totalBatchesDisputed =>
                   ChallengePeriodFor(a, n)' <= ChallengePeriodFor(a, n)
            /\ \A b \in Amounts : a <= b =>
                   ChallengePeriodFor(a, n) <= ChallengePeriodFor(b, n)]_periodVars
=============================================================================
