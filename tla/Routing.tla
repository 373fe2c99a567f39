------------------------------ MODULE Routing ------------------------------
(***************************************************************************)
(* What a cut is documented to do (docs of EIP-2535, the headers of        *)
(* LibDiamond.sol), on a plain map from selectors to facets: one group of  *)
(* selectors after another is added, replaced or removed, all of them or,  *)
(* when one group cannot be taken as it is, none.                          *)
(***************************************************************************)
EXTENDS SequencesExt

CONSTANTS NoFacet, Itself, HasCode, Refused

\* A group is taken when its selectors are distinct and all of them lead to
\* nothing (to be added), or to something that is neither the diamond's own
\* nor there already (to be replaced or removed).
Accepts(route, group) ==
    LET leadsTo == {route[s] : s \in ToSet(group.selectors)}
    IN  /\ group.selectors # <<>>
        /\ IsInjective(group.selectors)
        /\ \/ group.action = "Add" /\ group.facet \in HasCode /\ leadsTo = {NoFacet}
           \/ /\ group.action = "Replace" /\ group.facet \in HasCode
              /\ leadsTo \cap {NoFacet, Itself, group.facet} = {}
           \/ /\ group.action = "Remove" /\ group.facet = NoFacet
              /\ leadsTo \cap {NoFacet, Itself} = {}

\* The selectors named lead to the group's facet, which is none on removal;
\* the others stay.
Regrouped(route, group) ==
    [s \in DOMAIN route |-> IF s \in ToSet(group.selectors) THEN group.facet ELSE route[s]]

RouteAfter(route, cut) ==
    FoldLeft(LAMBDA r, group : IF r # Refused /\ Accepts(r, group)
                               THEN Regrouped(r, group) ELSE Refused,
             route, cut)
=============================================================================
