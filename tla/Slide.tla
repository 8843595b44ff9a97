-------------------------------- MODULE Slide --------------------------------
(***************************************************************************)
(* slideArray and findTarget of 2048.c, which push the tiles of one line   *)
(* to its beginning and merge equal neighbours once: one step is one       *)
(* iteration of a loop.  A tile is the exponent of its power of two, 0 an  *)
(* empty cell.                                                             *)
(***************************************************************************)
EXTENDS SlideRule

CONSTANT MaxTile   \* bound: the largest tile of the line to begin with

ASSUME MaxTileAssumption == MaxTile \in Nat

VARIABLES loop,       \* "for": the loop of slideArray, "find": that of findTarget, "place"
          array, x, t, stop,   \* the code's variables of these names
          gained,     \* what this call adds to score
          success,
          line        \* history: the line to begin with

slideVars == <<loop, array, x, t, stop, gained, success, line>>

SlideInit ==
  /\ line \in [Index -> 0..MaxTile]
  /\ array = line
  /\ loop = "for" /\ x = 0 /\ t = 0 /\ stop = 0
  /\ gained = 0 /\ success = FALSE

\* An empty cell, or the first one, which has nowhere to go.
SkipCell ==
  /\ loop = "for" /\ x < SIZE
  /\ array[x] = 0 \/ x = 0
  /\ x' = x + 1
  /\ UNCHANGED <<loop, array, t, stop, gained, success, line>>

\* findTarget looks back from the cell before x.
StartSearch ==
  /\ loop = "for" /\ x < SIZE
  /\ array[x] /= 0 /\ x /= 0
  /\ t' = x - 1
  /\ loop' = "find"
  /\ UNCHANGED <<array, x, stop, gained, success, line>>

\* The search ends at a tile, on it or behind it, or at the stop position.
\* t is unsigned and t >= 0 always true: nothing else ends it.
\* Bug: only tiles end it.
BugSearch ==
  /\ loop = "find"
  /\ IF array[t] /= 0
     THEN /\ t' = IF array[t] = array[x] THEN t ELSE t + 1
          /\ loop' = "place"
     ELSE /\ t' = t - 1
          /\ loop' = loop
  /\ UNCHANGED <<array, x, stop, gained, success, line>>
Search ==
  /\ loop = "find"
  /\ IF array[t] /= 0
     THEN /\ t' = IF array[t] = array[x] THEN t ELSE t + 1
          /\ loop' = "place"
     ELSE IF t = stop
          THEN /\ loop' = "place" /\ t' = t
          ELSE /\ t' = t - 1 /\ loop' = loop
  /\ UNCHANGED <<array, x, stop, gained, success, line>>

Moved(tile) == [array EXCEPT ![t] = tile, ![x] = 0]

\* Bug: a merged tile may merge again.
BugPlace ==
  /\ loop = "place"
  /\ \/ /\ t = x
        /\ UNCHANGED <<array, stop, gained, success>>
     \/ /\ t /= x /\ array[t] = 0
        /\ array' = Moved(array[x]) /\ success' = TRUE
        /\ UNCHANGED <<stop, gained>>
     \/ /\ t /= x /\ array[t] = array[x] /\ array[t] /= 0
        /\ array' = Moved(array[t] + 1) /\ success' = TRUE
        /\ gained' = gained + Shown(array[t] + 1)
        /\ UNCHANGED stop
  /\ loop' = "for" /\ x' = x + 1
  /\ UNCHANGED <<t, line>>
\* Move, merge, or stay.
Place ==
  /\ loop = "place"
  /\ \/ /\ t = x
        /\ UNCHANGED <<array, stop, gained, success>>
     \/ /\ t /= x /\ array[t] = 0
        /\ array' = Moved(array[x]) /\ success' = TRUE
        /\ UNCHANGED <<stop, gained>>
     \/ /\ t /= x /\ array[t] = array[x] /\ array[t] /= 0
        /\ array' = Moved(array[t] + 1) /\ success' = TRUE
        /\ gained' = gained + Shown(array[t] + 1)
        /\ stop' = t + 1
  /\ loop' = "for" /\ x' = x + 1
  /\ UNCHANGED <<t, line>>

SlideNext == SkipCell \/ StartSearch \/ Search \/ Place
SlideSpec == SlideInit /\ [][SlideNext]_slideVars
-----------------------------------------------------------------------------
\* gained is a sum of powers of two and line never changes.
SlideTypeOK ==
  /\ loop \in {"for", "find", "place"}
  /\ array \in [Index -> Nat]
  /\ x \in 0..SIZE /\ stop \in 0..SIZE /\ t \in Index
  /\ success \in BOOLEAN

\* findTarget never runs past the beginning of the line, although its loop
\* has no end of its own (2048.c:97), and its target is a cell that is
\* empty, holds an equal tile, or is x itself: no tile is overwritten.
TargetInArray ==
  /\ loop = "find" => t \in 0..(x - 1)
  /\ loop = "place" => /\ t \in 0..x
                       /\ array[t] = 0 \/ array[t] = array[x]

\* slideArray computes the rule of the game, reports whether anything moved,
\* and scores what was merged.
ComputesRule ==
  loop = "for" /\ x = SIZE =>
    /\ array = Slid(line, SIZE)
    /\ gained = SlidScore(line, SIZE)
    /\ success = (array /= line)
=============================================================================
