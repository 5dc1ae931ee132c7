------------------------- MODULE MCToolChoiceQueue -------------------------
EXTENDS ToolChoiceQueue, TLC

CONSTANTS p1, p2, c1, c2

TwoPreviews == {p1, p2}
TwoCalls == {c1, c2}
Symmetry == Permutations(TwoPreviews) \union Permutations(TwoCalls)
=============================================================================
