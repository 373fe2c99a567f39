------------------------------ MODULE MCUpkeep ------------------------------
\* The instance of Upkeep for TLC, with the states it is explored from.
EXTENDS Upkeep, TLC

CONSTANTS s1, root1, root2, cutFacet, facetA, facetB, account, f, g, w1, w2, w3

NoClaims == {}
MCLeaves == [r \in Roots |-> Claims]

\* No selector, one, two in either order or twice the same, three.
SelectorLists ==
    {<<>>, <<f>>, <<g>>, <<CutSelector>>, <<OwnerSelector>>, <<f, g>>, <<g, f>>, <<f, f>>,
     <<CutSelector, f>>, <<f, g, CutSelector>>, <<g, OwnerSelector, f>>}

Group(action, facet, selectors) ==
    [action |-> action, facet |-> facet, selectors |-> selectors]

\* One group of any kind, or two that the second half of a cut may undo or
\* fail on.
MCCuts ==
    {<<Group(a, c, l)>> : a \in {"Add", "Replace"}, c \in Facets \cup {NoFacet},
                          l \in SelectorLists}
    \cup {<<Group("Remove", c, l)>> : c \in {facetA, NoFacet}, l \in SelectorLists}
    \cup {<<Group(a, c, <<f>>), Group(b, d, l)>> :
              a \in {"Add", "Replace"}, c \in {facetA, facetB},
              b \in {"Replace", "Remove"}, d \in {facetA, NoFacet},
              l \in {<<f>>, <<g, f>>}}

MCTiers == {<<1, 100>>, <<2, 3>>, <<3, 2>>}
MCInitialTiers == <<1, 100>>
MCInitialFactors == <<100, 85, 70, 50>>
\* Smaller than the defaults, not in order, above 1.
MCFactors == {<<0, 0, 0, 0>>, <<50, 100, 70, 85>>, <<101, 85, 70, 50>>}

TowerSymmetry == Permutations(Watchtowers)

\* The states explored on from.  Of the facets: the registries are filled
\* before the first batch, there is no DA policy, and withdrawal roots are
\* alike.
UpgradeScope ==
    /\ requiredDaMode = DaNone /\ daActivationBatch = 0
    /\ latestBatchNumber > 0 => activeSequencers = <<s1>> /\ sequencers = {s1}
    /\ \A n \in BatchNumbers : batchWithdrawalRoots[n] \in {NoRoot, root1}

\* Of the oracle: contracts are wired before the first batch and stay wired,
\* except for the facet's side while no dispute has begun; tiers change while
\* the factors are the first ones; few batches or many.
OracleScope ==
    /\ committed # {} \/ recordedBatches > 0 =>
          sequencerFacet = Facet /\ disputeGame = Game /\ gameRecords
    /\ totalBatchesDisputed > 0 => facetRecords
    /\ tiers # MCInitialTiers => watchtowerFactors = MCInitialFactors
    /\ recordedBatches \in 0..1 \cup 2000..2001

UpkeepScope == UpgradeScope /\ OracleScope
============================================================================
