------------------------------ MODULE MCGame2048 ------------------------------
EXTENDS Game2048
\* 100, 400 and 700 of 2048.c, for a board of four cells.
Thresholds == [l \in 3..5 |-> CASE l = 5 -> 7 [] l = 4 -> 15 [] l = 3 -> 19]
=============================================================================
