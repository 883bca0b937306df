----------------------------- MODULE MCDraftApi -----------------------------
(***************************************************************************)
(* An instance of DraftApi: one draft and room for another, two people,    *)
(* two requests at a time.                                                 *)
(***************************************************************************)
EXTENDS DraftApi, TLC

CONSTANTS d1, d2, p1, p2, w1, w2

TwoDocs == {d1, d2}
TwoParties == {p1, p2}
TwoWorkers == {w1, w2}
Symmetry == Permutations(TwoWorkers)

One(party, order) == [party |-> party, order |-> order]

\* Both at once; then in turn, the second in the list first, or nobody.
Together == <<One(p1, 1), One(p2, 1)>>
Lists == {<<One(p1, 2), One(p2, 1)>>, <<One(p2, 1), One(p1, 1)>>, <<>>}

\* The roles' own people, or the other way round.
Recipients == {<<>>, <<p2, p1>>}
=============================================================================
