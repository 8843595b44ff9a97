------------------------------ MODULE SlideRule ------------------------------
(***************************************************************************)
(* The rule of the game for one line: the tiles without the gaps, equal    *)
(* neighbours merged from the front, each tile once.  A tile is the        *)
(* exponent of the power of two it shows.                                  *)
(***************************************************************************)
EXTENDS Integers, Sequences

CONSTANT SIZE       \* the cells of a line, of the board
ASSUME SizeAssumption == SIZE \in Nat \ {0}
Index == 0..(SIZE - 1)

\* (uint32_t)1 << e: what a tile shows.
Shown(e) == LET power[i \in 0..e] == IF i = 0 THEN 1 ELSE 2 * power[i - 1]
            IN  power[e]

\* A line is a function on 0 .. n - 1.
Tiles(line, n) ==
  LET from[i \in 0..n] == IF i = n THEN <<>>
                          ELSE IF line[i] = 0 THEN from[i + 1]
                          ELSE <<line[i]>> \o from[i + 1]
  IN  from[0]

Pair(tiles, i) == i < Len(tiles) /\ tiles[i] = tiles[i + 1]
Merge(tiles) ==
  LET from[i \in 1..(Len(tiles) + 1)] ==
        IF i > Len(tiles) THEN <<>>
        ELSE IF Pair(tiles, i) THEN <<tiles[i] + 1>> \o from[i + 2]
        ELSE <<tiles[i]>> \o from[i + 1]
  IN  from[1]

\* The powers of two that come out of merging.
MergeScore(tiles) ==
  LET from[i \in 1..(Len(tiles) + 1)] ==
        IF i > Len(tiles) THEN 0
        ELSE IF Pair(tiles, i) THEN Shown(tiles[i] + 1) + from[i + 2]
        ELSE from[i + 1]
  IN  from[1]

Slid(line, n) == LET merged == Merge(Tiles(line, n))
                 IN  [i \in 0..(n - 1) |-> IF i < Len(merged) THEN merged[i + 1] ELSE 0]
SlidScore(line, n) == MergeScore(Tiles(line, n))
=============================================================================
