------------------------------ MODULE MCSessions ------------------------------
EXTENDS Sessions, TLC

CONSTANTS ann, bob, tab, phone, old, new

Symmetry == Permutations(Clients) \cup Permutations(Users) \cup Permutations(Names)
=============================================================================
