------------------------------- MODULE Game2048 -------------------------------
(***************************************************************************)
(* sa_game_2048, the game a sleeper has to win before sa-control sends the *)
(* packet that disarms the alarm, together with the volume of the playback *)
(* process, which the game turns down as the score grows.  A tile is the   *)
(* exponent of its power of two, and SlideRule is what slideArray does to  *)
(* a line (Slide).  The playback process comes and goes as the daemon      *)
(* starts and stops it, which is external here.                            *)
(***************************************************************************)
EXTENDS FiniteSetsExt, SlideRule

CONSTANTS Threshold,     \* Threshold[l]: the score that earns volume l, 3 .. 5
          Goal,          \* the score that ends the game
          PlayerDies,    \* may the playback process die or be replaced?
          Quits          \* may the keyboard input end?

Loudest == 6

ASSUME GameAssumption ==
  /\ SIZE > 1 /\ Goal \in Nat
  /\ PlayerDies \in BOOLEAN /\ Quits \in BOOLEAN
  /\ Threshold \in [3..5 -> Nat]
  /\ Threshold[5] <= Threshold[4] /\ Threshold[4] <= Threshold[3] /\ Threshold[3] <= Goal

VARIABLES pc,            \* "input", "moved", "ask", "louder", "checks", "wait", "won", "quit", "died"
          board, score,
          flags,         \* the levels l whose flag is 1: flag5, flag4, flag3
          cmd,           \* the command under way at "wait"
          player,        \* "none", "idle", "playing"
          volume,        \* its volume
          answer,        \* history: the last answer to RESTART, in this turn
          fours,         \* history: how many 4s addRandom has put on this board
          lasting        \* history: the same process has been playing all the game

vars == <<pc, board, score, flags, cmd, player, volume, answer, fours, lasting>>
sound == <<player, volume, lasting>>

Cells == Index \X Index
Blank == [x \in Index |-> [y \in Index |-> 0]]
-----------------------------------------------------------------------------
(* The board.                                                              *)

\* Bug: the transposed board.
BugRotateBoard(b) == [x \in Index |-> [y \in Index |-> b[y][x]]]
RotateBoard(b) == [x \in Index |-> [y \in Index |-> b[y][SIZE - 1 - x]]]
Half(b) == RotateBoard(RotateBoard(b))

Up(b)    == [x \in Index |-> Slid(b[x], SIZE)]
Left(b)  == RotateBoard(Half(Up(RotateBoard(b))))
Down(b)  == Half(Up(Half(b)))
Right(b) == RotateBoard(Up(RotateBoard(Half(b))))

Move(b, dir) == CASE dir = "up" -> Up(b) [] dir = "left" -> Left(b)
                  [] dir = "down" -> Down(b) [] dir = "right" -> Right(b)
\* The board as the move slides it: by rows of board[x].
Turned(b, dir) == CASE dir = "up" -> b [] dir = "left" -> RotateBoard(b)
                    [] dir = "down" -> Half(b) [] dir = "right" -> RotateBoard(Half(b))
\* moveUp slides the rows one after the other; each adds to the score.
Total(f, n) ==
  LET upto[k \in 0..n] == IF k = 0 THEN 0 ELSE upto[k - 1] + f[k - 1]
  IN  upto[n]
Gain(b, dir) == Total([x \in Index |-> SlidScore(Turned(b, dir)[x], SIZE)], SIZE)

Empty(b) == {c \in Cells : b[c[1]][c[2]] = 0}
Put(b, c, n) == [b EXCEPT ![c[1]][c[2]] = n]

\* addRandom: a 2, or a 4, in an empty cell; a full board stays.
AddRandom(b) ==
  IF Empty(b) = {} THEN {[board |-> b, four |-> 0]}
  ELSE {[board |-> Put(b, c, n), four |-> n - 1] : c \in Empty(b), n \in {1, 2}}

\* initBoard: two tiles on an empty board.  The second choice is made on
\* the outcome of the first.
InitBoards ==
  UNION {{[board |-> two.board, four |-> one.four + two.four] : two \in AddRandom(one.board)}
         : one \in AddRandom(Blank)}
-----------------------------------------------------------------------------
Init ==
  /\ pc = "input"
  /\ \E start \in InitBoards : board = start.board /\ fours = start.four
  /\ score = 0 /\ flags = {3, 4, 5}
  /\ cmd = Loudest /\ answer = "none"
  /\ player \in {"none", "playing"} /\ volume = Loudest
  /\ lasting = (player = "playing")

\* A key that moves tiles.
MoveTiles(dir) ==
  /\ pc = "input"
  /\ Move(board, dir) /= board
  /\ board' = Move(board, dir) /\ score' = score + Gain(board, dir)
  /\ pc' = "moved" /\ answer' = "none"
  /\ UNCHANGED <<flags, cmd, sound, fours>>

\* Any other key, or a direction in which nothing moves.
OtherKey ==
  /\ pc = "input"
  /\ pc' = "checks" /\ answer' = "none"
  /\ UNCHANGED <<board, score, flags, cmd, sound, fours>>

NewTile ==
  /\ pc = "moved"
  /\ \E new \in AddRandom(board) : board' = new.board /\ fours' = fours + new.four
  /\ pc' = "checks"
  /\ UNCHANGED <<score, flags, cmd, sound, answer>>

AskRestart ==
  /\ pc = "input"
  /\ pc' = "ask" /\ answer' = "none"
  /\ UNCHANGED <<board, score, flags, cmd, sound, fours>>

\* The flags are set and the volume is reset whatever the answer is.
\* Bug: initBoard leaves the score.
BugInitBoard ==
  /\ \E start \in InitBoards : board' = start.board /\ fours' = start.four
  /\ UNCHANGED score
InitBoard ==
  /\ \E start \in InitBoards : board' = start.board /\ fours' = start.four
  /\ score' = 0

\* Bug: the playback process is not told.
BugRestart ==
  /\ pc = "ask"
  /\ \/ answer' = "y" /\ InitBoard
     \/ answer' = "n" /\ UNCHANGED <<board, score, fours>>
  /\ flags' = {3, 4, 5}
  /\ pc' = "checks"
  /\ UNCHANGED <<cmd, sound>>
Restart ==
  /\ pc = "ask"
  /\ \/ answer' = "y" /\ InitBoard
     \/ answer' = "n" /\ UNCHANGED <<board, score, fours>>
  /\ flags' = {3, 4, 5}
  /\ pc' = "louder"
  /\ UNCHANGED <<cmd, sound>>

\* sa_util_w_play_sock: nobody listens, and the result 0 is ignored, or the
\* process is connected and will answer.
After(command) == IF command = Loudest THEN "checks" ELSE "input"
Tell(command) ==
  /\ pc' = IF player = "none" THEN After(command) ELSE "wait"
  /\ cmd' = command

TellLouder ==
  /\ pc = "louder"
  /\ Tell(Loudest)
  /\ UNCHANGED <<board, score, flags, sound, answer, fours>>

\* The chain of else-ifs: one command in a turn, the loudest level first.
Due == {l \in flags : score > Threshold[l]}
TellQuieter ==
  /\ pc = "checks" /\ Due /= {}
  /\ LET level == Max(Due)
     IN  Tell(level) /\ flags' = flags \ {level}
  /\ UNCHANGED <<board, score, sound, answer, fours>>

\* Bug: the end of the game is not the last of the chain.
BugEndTurn ==
  /\ pc = "checks"
  /\ pc' = IF score > Goal THEN "won" ELSE "input"
  /\ score > Goal \/ Due = {}
  /\ UNCHANGED <<board, score, flags, cmd, sound, answer, fours>>
EndTurn ==
  /\ pc = "checks" /\ Due = {}
  /\ pc' = IF score > Goal THEN "won" ELSE "input"
  /\ UNCHANGED <<board, score, flags, cmd, sound, answer, fours>>

\* The end of the input: a read that fails at RESTART counts as "no".
Quit ==
  /\ Quits
  /\ pc = "input"
  /\ pc' = "quit"
  /\ UNCHANGED <<board, score, flags, cmd, sound, answer, fours>>
-----------------------------------------------------------------------------
(* The playback process: it answers, and then a process that was not       *)
(* playing yet dies of the command (SoundProcess).                         *)

PlayerAnswers ==
  /\ pc = "wait"
  /\ volume' = cmd
  /\ player' = IF player = "idle" THEN "none" ELSE player
  /\ lasting' = (lasting /\ player = "playing")
  /\ pc' = After(cmd)
  /\ UNCHANGED <<board, score, flags, cmd, answer, fours>>

PlayerStarts ==
  /\ PlayerDies
  /\ player = "none"
  /\ player' = "idle" /\ volume' = Loudest
  /\ UNCHANGED <<pc, board, score, flags, cmd, answer, fours, lasting>>

\* Its context is ready, which sets the volume.
PlayerPlays ==
  /\ player = "idle"
  /\ player' = "playing" /\ volume' = Loudest
  /\ UNCHANGED <<pc, board, score, flags, cmd, answer, fours, lasting>>

\* Without an answer sa_util_w_play_sock ends the game and its program.
PlayerLeaves ==
  /\ PlayerDies
  /\ player /= "none"
  /\ player' = "none" /\ lasting' = FALSE
  /\ pc' = IF pc = "wait" THEN "died" ELSE pc
  /\ UNCHANGED <<board, score, flags, cmd, volume, answer, fours>>

Next ==
  \/ \E dir \in {"up", "left", "down", "right"} : MoveTiles(dir)
  \/ OtherKey \/ NewTile \/ AskRestart \/ Restart \/ TellLouder \/ TellQuieter
  \/ EndTurn \/ Quit
  \/ PlayerAnswers \/ PlayerStarts \/ PlayerPlays \/ PlayerLeaves
Spec == Init /\ [][Next]_vars
-----------------------------------------------------------------------------
\* What a tile has brought, if it was merged from 2s only.
Worth(e) == IF e = 0 THEN 0 ELSE (e - 1) * Shown(e)
BoardWorth(b) == Total([x \in Index |-> Total([y \in Index |-> Worth(b[x][y])], SIZE)], SIZE)

\* The score that was made, with the 4s that came for nothing, is what the
\* tiles on the board are worth, over any number of moves and restarts: no
\* rotation, merge or new tile loses or duplicates a tile.
ScoreIsWorth == score + 4 * fours = BoardWorth(board)

\* What the keys mean on the screen, where board[x][y] is in column x and
\* row y: the moves by rotation (2048.c:165-194) slide each row or column
\* towards its side.
Column(b, x) == b[x]
Row(b, y) == [x \in Index |-> b[x][y]]
Reversed(l) == [i \in Index |-> l[SIZE - 1 - i]]
DirectionsAgree ==
  \A i \in Index :
    /\ Column(Up(board), i) = Slid(Column(board, i), SIZE)
    /\ Reversed(Column(Down(board), i)) = Slid(Reversed(Column(board, i)), SIZE)
    /\ Row(Left(board), i) = Slid(Row(board, i), SIZE)
    /\ Reversed(Row(Right(board), i)) = Slid(Reversed(Row(board, i)), SIZE)

\* A process that plays below full volume was turned down for a score the
\* game still has: restarting the game gives the volume back, also if the
\* process was replaced in between (2048.c:403-428).
VolumeEarned ==
  player = "playing" /\ volume < Loudest =>
    score > Threshold[volume] \/ pc = "louder" \/ (pc = "wait" /\ cmd = Loudest)

\* Who wins has heard the alarm get quieter by all levels, if one process
\* was playing all the time: also one who restarted, or jumped over a
\* threshold, plays at level 3 in the end.
WonIsQuiet == pc = "won" /\ lasting => volume = 3

\* "RESTART? (y/n)" (2048.c:405): after "no" the game goes on as it was, and
\* nothing is sent before the next key.
NoChangesNothing ==
  [][answer = "n" /\ player = "playing" /\ player' = player => volume' = volume]_vars
=============================================================================
