------------------------- MODULE MCLeaderboardCache -------------------------
EXTENDS LeaderboardCache

CONSTANTS quorum, correction, deletion, users, pairs, page
=============================================================================
