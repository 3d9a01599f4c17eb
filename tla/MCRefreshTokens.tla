--------------------------- MODULE MCRefreshTokens ---------------------------
EXTENDS RefreshTokens, TLC

CONSTANTS ann, bob, tab, phone

Symmetry == Permutations(Clients) \cup Permutations(Users)
=============================================================================
