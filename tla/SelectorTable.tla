--------------------------- MODULE SelectorTable ---------------------------
(***************************************************************************)
(* The proxy of the diamond (Diamond.sol, LibDiamond.sol, DiamondCutFacet, *)
(* OwnershipFacet): the table that leads a selector to its facet, with the *)
(* lists from which the loupe answers.  A cut that fails anywhere reverts  *)
(* as a whole, so the functions of the library take a table to a table or  *)
(* to Reverted.  Positions count from 1.                                   *)
(***************************************************************************)
EXTENDS Integers, SequencesExt

CONSTANTS
    Selectors,
    Facets,             \* addresses a cut may name, the diamond's among them
    NoFacet,            \* address(0)
    Itself,             \* the diamond's own address
    HasCode,            \* the facets that are contracts
    Cuts,               \* lists of [action, facet, selectors] the owner tries
    CutSelector,        \* diamondCut
    OwnerSelector,      \* transferOwnership
    CutFacets,          \* facets whose code has diamondCut
    OwnerFacets,        \* facets whose code has transferOwnership
    Owners,             \* addresses that may own, NoOwner among them
    NoOwner,            \* address(0), which calls nothing
    Reverted

\* FacetCut
Groups == [action : {"Add", "Replace", "Remove"}, facet : Facets \cup {NoFacet},
           selectors : Seq(Selectors)]

\* selectorToFacetAndPosition, facetFunctionSelectors and facetAddresses of
\* DiamondStorage.
Routes == [Selectors -> Facets \cup {NoFacet}]
Tables == [facetAddress : Routes, selectorPosition : [Selectors -> Nat],
           functionSelectors : [Facets -> Seq(Selectors)],
           facetPosition : [Facets -> Nat], facetAddresses : Seq(Facets)]

ASSUME SelectorTableAssumption ==
    /\ NoFacet \notin Facets
    /\ HasCode \cup {Itself} \cup CutFacets \cup OwnerFacets \subseteq Facets
    /\ CutFacets # {} /\ CutFacets \cup {Itself} \subseteq HasCode
    /\ {CutSelector, OwnerSelector} \subseteq Selectors
    /\ NoOwner \in Owners
    /\ Cuts \subseteq Seq(Groups)
    /\ Reverted \notin Tables \cup Routes

VARIABLES
    ds,                 \* DiamondStorage without its owner
    contractOwner

tableVars == <<ds, contractOwner>>

EmptyTable ==
    [facetAddress |-> [s \in Selectors |-> NoFacet],
     selectorPosition |-> [s \in Selectors |-> 0],
     functionSelectors |-> [f \in Facets |-> <<>>],
     facetPosition |-> [f \in Facets |-> 0],
     facetAddresses |-> <<>>]

----------------------------------------------------------------------------
AddFacet(t, facet) ==
    [t EXCEPT !.facetPosition[facet] = Len(t.facetAddresses) + 1,
              !.facetAddresses = Append(@, facet)]

AddFunction(t, selector, position, facet) ==
    [t EXCEPT !.selectorPosition[selector] = position,
              !.functionSelectors[facet] = Append(@, selector),
              !.facetAddress[selector] = facet]

\* The last element takes the place of element i and is popped.
MoveLast(list, i) == Front(ReplaceAt(list, i, Last(list)))

\* Without the new position of the facet that moved.
DropFacetOnly(t, facet) ==
    [t EXCEPT !.facetAddresses = MoveLast(@, t.facetPosition[facet]),
              !.facetPosition[facet] = 0]

\* The facet leaves the list of facets: the last one takes its place.
DropFacet(t, facet) ==
    LET moved == Last(t.facetAddresses)
        place == t.facetPosition[facet]
    IN  [t EXCEPT !.facetAddresses = MoveLast(@, place),
                  !.facetPosition = [@ EXCEPT ![moved] = place, ![facet] = 0]]

\* A selector leaves its facet: the last selector of the facet takes its
\* place; with its last selector the facet goes as well.
RemoveFunction(t, facet, selector) ==
    LET list == t.functionSelectors[facet]
        place == t.selectorPosition[selector]
        removed == [t EXCEPT
            !.functionSelectors[facet] = MoveLast(@, place),
            !.selectorPosition = [@ EXCEPT ![Last(list)] = place, ![selector] = 0],
            !.facetAddress[selector] = NoFacet]
    IN  IF facet \in {NoFacet, Itself} THEN Reverted
        ELSE IF Len(list) = 1 THEN DropFacet(removed, facet)
        ELSE removed

\* step(table, i) for each place i of a list, up to the first that reverts.
ForEach(step(_, _), t, list) ==
    FoldLeftDomain(LAMBDA u, i : IF u = Reverted THEN Reverted ELSE step(u, i), t, list)

\* The checks before the loop of addFunctions and replaceFunctions, and the
\* facet listed when it has no selector yet.
WithFacet(t, facet, selectors) ==
    IF selectors = <<>> \/ facet = NoFacet THEN Reverted
    ELSE IF t.functionSelectors[facet] # <<>> THEN t
    ELSE IF facet \in HasCode THEN AddFacet(t, facet)
    ELSE Reverted

AddFunctions(t, facet, selectors) ==
    LET added(u, i) ==
            IF u.facetAddress[selectors[i]] # NoFacet THEN Reverted
            ELSE AddFunction(u, selectors[i], Len(t.functionSelectors[facet]) + i, facet)
    IN  ForEach(added, WithFacet(t, facet, selectors), selectors)

ReplaceFunctions(t, facet, selectors) ==
    LET replaced(u, i) ==
            LET old == u.facetAddress[selectors[i]]
                removed == RemoveFunction(u, old, selectors[i])
            IN  IF old = facet \/ removed = Reverted THEN Reverted
                ELSE AddFunction(removed, selectors[i],
                                 Len(t.functionSelectors[facet]) + i, facet)
    IN  ForEach(replaced, WithFacet(t, facet, selectors), selectors)

RemoveFunctions(t, facet, selectors) ==
    LET removed(u, i) == RemoveFunction(u, u.facetAddress[selectors[i]], selectors[i])
    IN  IF selectors = <<>> \/ facet # NoFacet THEN Reverted
        ELSE ForEach(removed, t, selectors)

\* LibDiamond.diamondCut up to the call of _init.
CutTable(t, cut) ==
    LET done(u, i) ==
            CASE cut[i].action = "Add" -> AddFunctions(u, cut[i].facet, cut[i].selectors)
              [] cut[i].action = "Replace" -> ReplaceFunctions(u, cut[i].facet, cut[i].selectors)
              [] cut[i].action = "Remove" -> RemoveFunctions(u, cut[i].facet, cut[i].selectors)
    IN  ForEach(done, t, cut)

----------------------------------------------------------------------------
\* The constructor: diamondCut of one facet is the first function.
TableInit ==
    /\ ds \in {CutTable(EmptyTable,
                        <<[action |-> "Add", facet |-> f, selectors |-> <<CutSelector>>]>>) :
                  f \in CutFacets}
    /\ contractOwner \in Owners

\* A call that reaches code which has the function called.
Reaches(selector, facets) ==
    contractOwner # NoOwner /\ ds.facetAddress[selector] \in facets

\* diamondCut (owner), with an _init that succeeds or is none; one that fails
\* reverts the cut, and so does a facet that is no contract.
DiamondCut(cut) ==
    /\ Reaches(CutSelector, CutFacets)
    /\ CutTable(ds, cut) # Reverted
    /\ ds' = CutTable(ds, cut)
    /\ UNCHANGED contractOwner

\* transferOwnership (owner): to any address, 0 included.
TransferOwnership(newOwner) ==
    /\ Reaches(OwnerSelector, OwnerFacets)
    /\ contractOwner' = newOwner
    /\ UNCHANGED ds

TableNext ==
    \/ \E cut \in Cuts : DiamondCut(cut)
    \/ \E o \in Owners : TransferOwnership(o)

TableSpec == TableInit /\ [][TableNext]_tableVars

----------------------------------------------------------------------------
\* The route of a selector and the lists behind the loupe tell one story: a
\* selector leads to a facet exactly when the facet's list has it, at the
\* position kept for it and nowhere else; the listed facets are those with
\* selectors, each once and at its position (LibDiamond.sol:26-30).
RoutesAreListed ==
    /\ \A f \in Facets :
          LET list == ds.functionSelectors[f]
          IN  /\ IsInjective(list)
              /\ ToSet(list) = {s \in Selectors : ds.facetAddress[s] = f}
              /\ \A i \in DOMAIN list : ds.selectorPosition[list[i]] = i
    /\ IsInjective(ds.facetAddresses)
    /\ ToSet(ds.facetAddresses) = {f \in Facets : ds.functionSelectors[f] # <<>>}
    /\ \A i \in DOMAIN ds.facetAddresses : ds.facetPosition[ds.facetAddresses[i]] = i

Router == INSTANCE Routing WITH Refused <- Reverted

\* A cut is refused exactly when the map refuses it, whatever the order of its
\* selectors and wherever in it the obstacle is, and else leads every selector
\* where the map does, those it does not name included (LibDiamond.sol:74-89).
CutsActAsOnAMap ==
    \A cut \in Cuts :
        LET t == CutTable(ds, cut)
        IN  IF t = Reverted THEN Router!RouteAfter(ds.facetAddress, cut) = Reverted
            ELSE t.facetAddress = Router!RouteAfter(ds.facetAddress, cut)
=============================================================================
