-------------------------- MODULE MCMatchPagination --------------------------
EXTENDS MatchPagination

\* UTC; east and west of it; east and west in one half of the year.
Offsets == {{0}, {1}, {-1}, {0, 1}, {-1, 0}}
=============================================================================
