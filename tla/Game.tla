-------------------------------- MODULE Game --------------------------------
(***************************************************************************)
(* The platform game of lab3 (lab3/amgame/src/game.c, platform.c, ball.c): *)
(* an arena that scrolls down over platforms, and a ball the player pushes *)
(* to the left and to the right.  One thread runs the main loop            *)
(*                                                                         *)
(*     update_objects -> handle_input -> draw_frame, check_gameover        *)
(*                                                                         *)
(* The platforms live in a circular buffer of MAX_PLATFORM_NR slots.       *)
(* Speeds are in pixels per frame: the code divides by TARGET_FPS.         *)
(***************************************************************************)
EXTENDS Integers, SequencesExt

CONSTANTS
    ARENA_HEIGHT, ARENA_WIDTH,
    BALL_RADIUS,
    PLATFORM_HEIGHT, PLATFORM_WIDTH,
    MAX_PLATFORM_NR,
    MIN_PLATFORM_Y_DISTANCE,   \* ARENA_HEIGHT / 10
    MAX_PLATFORM_Y_DISTANCE,   \* ARENA_HEIGHT / 2
    ArenaSpeed,                \* ARENA_SPEED / TARGET_FPS
    BallSpeedX, BallSpeedY,    \* BALL_SPEED_X and BALL_SPEED_Y / TARGET_FPS
    PlatformX,                 \* values of rand() % (ARENA_WIDTH - PLATFORM_WIDTH)
    MaxArenaY                  \* bound: how far the arena scrolls

Diameter == 2 * BALL_RADIUS

ASSUME SizeAssumption ==
    /\ {ARENA_HEIGHT, ARENA_WIDTH, BALL_RADIUS, PLATFORM_HEIGHT, PLATFORM_WIDTH,
        MAX_PLATFORM_NR, MIN_PLATFORM_Y_DISTANCE, MAX_PLATFORM_Y_DISTANCE,
        ArenaSpeed, BallSpeedX, BallSpeedY} \subseteq Nat \ {0}
    /\ PlatformX # {} /\ PlatformX \subseteq 0..(ARENA_WIDTH - PLATFORM_WIDTH - 1)
    /\ MaxArenaY \in Nat

\* Mutant: half of the ball is forgotten.
FirstYTooHigh == ARENA_HEIGHT \div 3 + BALL_RADIUS

\* The first platform of a game, below the ball.
FirstY == ARENA_HEIGHT \div 3 + Diameter

\* The i-th of those that reset_game adds below it, while they fit into the arena.
ResetY(i) == FirstY + i * MIN_PLATFORM_Y_DISTANCE

Others == (ARENA_HEIGHT - PLATFORM_HEIGHT - 1 - FirstY) \div MIN_PLATFORM_Y_DISTANCE

\* The numbers of the headers: at least one platform is added; the platform that
\* must be generated at the latest is generated in time; the buffer has room for
\* all the platforms that fit into the arena.
ASSUME FlightAssumption ==
    /\ ResetY(1) < ARENA_HEIGHT - PLATFORM_HEIGHT
    /\ MIN_PLATFORM_Y_DISTANCE + PLATFORM_HEIGHT < MAX_PLATFORM_Y_DISTANCE
    /\ MAX_PLATFORM_Y_DISTANCE + ArenaSpeed <= ARENA_HEIGHT + PLATFORM_HEIGHT + 1
    /\ ARENA_HEIGHT + PLATFORM_HEIGHT
         < (MAX_PLATFORM_NR - 1) * MIN_PLATFORM_Y_DISTANCE

\* Of the ball: it is as fast sideways as down; the arena is wider than a platform
\* with a ball on each side; two platforms are a ball and a frame apart.
ASSUME BallAssumption ==
    /\ BallSpeedX = BallSpeedY
    /\ 2 * Diameter + PLATFORM_WIDTH <= ARENA_WIDTH
    /\ Diameter + BallSpeedX <= ARENA_WIDTH
    /\ Diameter + PLATFORM_HEIGHT + BallSpeedY <= MIN_PLATFORM_Y_DISTANCE

VARIABLES
    arena_y,
    ball,              \* [x, y, dx, dy]
    platforms,         \* the slots, those that are not in use included
    platform_begin,
    platform_end,
    last_platform_y,
    pc                 \* the part of the main loop that runs next

vars == <<arena_y, ball, platforms, platform_begin, platform_end,
          last_platform_y, pc>>

Slots == 0..(MAX_PLATFORM_NR - 1)

-----------------------------------------------------------------------------
(* The ring of platforms *)

\* The slots that are in use, in the order of the loops over them.
InUse == (platform_end - platform_begin) % MAX_PLATFORM_NR
Slot(i) == (platform_begin + i) % MAX_PLATFORM_NR
Live == [i \in 1..InUse |-> platforms[Slot(i - 1)]]

Full(begin) == (platform_end + 1) % MAX_PLATFORM_NR = begin

\* The platform is above the arena.
Out(p, y) == p.y + PLATFORM_HEIGHT < y

\* The removal loop does not test platform_end: it goes on through the slots
\* that are not in use, for ever if every platform in the buffer is out.
Kept(y) == {i \in Slots : ~Out(platforms[Slot(i)], y)}

\* Mutant: no minimal distance.
MayGenerateAnywhere(begin, y) == ~Full(begin) /\ y > last_platform_y

\* update_objects, whose ring now begins at begin, may generate a platform at y,
\* and does whatever rand() % MAX_PLATFORM_Y_DISTANCE is.
MayGenerate(begin, y) ==
    /\ ~Full(begin)
    /\ y - last_platform_y >= MIN_PLATFORM_Y_DISTANCE

MustGenerate(begin, y) ==
    /\ MayGenerate(begin, y)
    /\ y - last_platform_y >= MAX_PLATFORM_Y_DISTANCE

\* Mutant: the end of the ring does not wrap around.
GenerateUnwrapped(x, y) ==
    /\ platforms' = [platforms EXCEPT ![platform_end] = [x |-> x, y |-> y]]
    /\ platform_end' = platform_end + 1
    /\ last_platform_y' = IF y > last_platform_y THEN y ELSE last_platform_y

Generate(x, y) ==
    /\ platforms' = [platforms EXCEPT ![platform_end] = [x |-> x, y |-> y]]
    /\ platform_end' = (platform_end + 1) % MAX_PLATFORM_NR
    /\ last_platform_y' = IF y > last_platform_y THEN y ELSE last_platform_y

-----------------------------------------------------------------------------
(* The ball *)

MovedBall ==
    LET x == ball.x + ball.dx
    IN [ball EXCEPT
          !.x = IF x < 0 THEN 0
                ELSE IF x + Diameter >= ARENA_WIDTH THEN ARENA_WIDTH - Diameter
                ELSE x,
          !.y = @ + ball.dy]

\* Mutant: the left edge is one pixel too far, too.
CollidesBothSides(b, p) ==
    ~ \/ b.x + Diameter < p.x
      \/ b.x > p.x + PLATFORM_WIDTH
      \/ b.y + Diameter <= p.y
      \/ b.y > p.y + PLATFORM_HEIGHT

\* The right and the lower edge are one pixel too far.
Collides(b, p) ==
    ~ \/ b.x + Diameter <= p.x
      \/ b.x > p.x + PLATFORM_WIDTH
      \/ b.y + Diameter <= p.y
      \/ b.y > p.y + PLATFORM_HEIGHT

\* The ball k turns of the loop of ball_reverse_to_collision earlier.
Reversed(b, k) ==
    [b EXCEPT !.y = IF b.dy > 0 THEN @ - k ELSE @,
              !.x = IF b.dx < 0 THEN @ + k ELSE IF b.dx > 0 THEN @ - k ELSE @]

\* In this many turns a ball that moves has left the platform.
Turns == 0..(Diameter + PLATFORM_WIDTH + PLATFORM_HEIGHT + 1)

ReverseToCollision(b, p) ==
    Reversed(b, Min({k \in Turns : ~Collides(Reversed(b, k), p)}))

\* Mutant: the ball is always put on top of the platform.
FixCollisionFromTop(b, p) ==
    IF Collides(b, p) THEN [b EXCEPT !.y = ReverseToCollision(b, p).y] ELSE b

\* From the left, from the right, else from the top.
FixCollision(b, p) ==
    LET rev == ReverseToCollision(b, p)
    IN IF ~Collides(b, p) THEN b
       ELSE IF rev.x + Diameter <= p.x \/ rev.x >= p.x + PLATFORM_WIDTH
            THEN [b EXCEPT !.x = rev.x]
            ELSE [b EXCEPT !.y = rev.y]

\* The loop of ball_reverse_to_collision does not end for a ball at rest.
Immovable(b) ==
    /\ b.dx = 0 /\ b.dy = 0
    /\ \E p \in Range(Live) : Collides(b, p)

-----------------------------------------------------------------------------
(* The main loop *)

\* main calls reset_game on buffers that are all zeroes.
Init ==
    /\ arena_y = 0
    /\ ball = [x |-> 0, y |-> 0, dx |-> 0, dy |-> 0]
    /\ platforms = [i \in Slots |-> [x |-> 0, y |-> 0]]
    /\ platform_begin = 0
    /\ platform_end = 0
    /\ last_platform_y = 0
    /\ pc = "reset"

\* Mutant: the last platform of the game before is not forgotten.
ResetLastForgets == Max({last_platform_y, ResetY(Others)})

ResetLast == ResetY(Others)

\* The assertion of platform_generate fails if the others do not fit into the
\* buffer, of which one slot stays free.
ResetGame ==
    /\ pc = "reset"
    /\ arena_y' = 0
    /\ ball' = [x  |-> ARENA_WIDTH \div 2 - BALL_RADIUS, y |-> ARENA_HEIGHT \div 3,
                dx |-> 0, dy |-> 0]
    /\ \E xs \in [1..Others -> PlatformX] :
         platforms' = [i \in Slots |->
           IF i = 0 THEN [x |-> (ARENA_WIDTH - PLATFORM_WIDTH) \div 2, y |-> FirstY]
           ELSE IF i <= Others THEN [x |-> xs[i], y |-> ResetY(i)]
           ELSE platforms[i]]
    /\ platform_begin' = 0
    /\ platform_end' = (Others + 1) % MAX_PLATFORM_NR
    /\ last_platform_y' = ResetLast
    /\ pc' = IF Others + 1 < MAX_PLATFORM_NR THEN "update" ELSE "assert"

UpdateObjects ==
    /\ pc = "update"
    /\ arena_y < MaxArenaY
    /\ arena_y' = arena_y + ArenaSpeed
    /\ ball' = [FoldLeft(FixCollision, MovedBall, Live) EXCEPT !.dy = BallSpeedY]
    /\ pc' = IF Immovable(MovedBall) \/ Kept(arena_y') = {} THEN "loop" ELSE "input"
    /\ platform_begin' = IF Kept(arena_y') = {} THEN platform_begin
                         ELSE Slot(Min(Kept(arena_y')))
    /\ LET y == arena_y' + ARENA_HEIGHT
       IN \/ /\ MayGenerate(platform_begin', y)
             /\ \E x \in PlatformX : Generate(x, y)
          \/ /\ ~MustGenerate(platform_begin', y)
             /\ UNCHANGED <<platforms, platform_end, last_platform_y>>

Game == <<arena_y, platforms, platform_begin, platform_end, last_platform_y>>

\* The keys A, D and ESCAPE; every other event is ignored.
HandleInput ==
    /\ pc = "input"
    /\ \/ /\ ball' = [ball EXCEPT !.dx = Max({@ - BallSpeedX, -BallSpeedX})]
          /\ pc' = "check"
       \/ /\ ball' = [ball EXCEPT !.dx = Min({@ + BallSpeedX, BallSpeedX})]
          /\ pc' = "check"
       \/ /\ pc' \in {"check", "exit"}
          /\ UNCHANGED ball
    /\ UNCHANGED Game

Gameover ==
    \/ ball.y < arena_y
    \/ ball.y + Diameter > arena_y + ARENA_HEIGHT

CheckGameover ==
    /\ pc = "check"
    /\ pc' = IF Gameover THEN "reset" ELSE "update"
    /\ UNCHANGED <<ball, Game>>

Next == ResetGame \/ UpdateObjects \/ HandleInput \/ CheckGameover

Spec == Init /\ [][Next]_vars

-----------------------------------------------------------------------------
(* Properties *)

TypeOK ==
    /\ arena_y \in Nat
    /\ ball \in [x : Int, y : Int, dx : {-BallSpeedX, 0, BallSpeedX},
                 dy : {0, BallSpeedY}]
    /\ platforms \in [Slots -> [x : Nat, y : Nat]]
    /\ {platform_begin, platform_end} \subseteq Slots
    /\ last_platform_y \in Nat
    /\ pc \in {"reset", "update", "input", "check", "exit", "loop", "assert"}

\* No loop of the game runs for ever and no assertion fails: the removal loop
\* of update_objects finds a platform that is not out, the ball of the loop of
\* ball_reverse_to_collision moves, platform_generate finds a free slot.
NeverStuck == pc \notin {"loop", "assert"}

\* What the removal loop relies on and does not test (game.c): when it begins,
\* one of the platforms in use stays.
NeverRunsOut == pc = "update" =>
    \E i \in 1..InUse : ~Out(Live[i], arena_y + ArenaSpeed)

\* The pixels of the ball and of a platform.
Overlaps(b, p) ==
    /\ b.x < p.x + PLATFORM_WIDTH  /\ p.x < b.x + Diameter
    /\ b.y < p.y + PLATFORM_HEIGHT /\ p.y < b.y + Diameter

\* update_objects limits the ball horizontally in the arena.
BallInArena == pc = "update" => ball.x \in 0..(ARENA_WIDTH - Diameter)

\* Between two frames the ball is in no platform and between the top and the
\* bottom of the arena; a platform that leaves a gap exactly as wide as the ball
\* at the right wall can push it one pixel into the wall (ball_fix_collision
\* runs after the ball is limited, and its right edge is one pixel too far).
BallIsFree == pc = "update" =>
    /\ \A p \in Range(Live) : ~Overlaps(ball, p)
    /\ ball.y >= arena_y /\ ball.y + Diameter <= arena_y + ARENA_HEIGHT
    /\ \/ ball.x \in 0..(ARENA_WIDTH - Diameter)
       \/ /\ ball.x = ARENA_WIDTH - Diameter + 1
          /\ \E p \in Range(Live) : p.x + PLATFORM_WIDTH = ARENA_WIDTH - Diameter

\* A ball that was beside a platform, or below its edge, is put on top of it.
PutOnTop(p) ==
    /\ ball.y + Diameter > p.y
    /\ ball'.y + Diameter <= p.y

\* A ball that is pressed against the right wall, in a gap exactly as wide.
Wedged(p) ==
    /\ ball.dx > 0
    /\ ball.x = ARENA_WIDTH - Diameter
    /\ ball.x = p.x + PLATFORM_WIDTH

\* ball_fix_collision puts a ball on top of a platform only if it hits it from
\* the top; the one exception is a wedged ball, for which ball_collide counts a
\* pixel too many on the right and the reverse motion ends above the platform.
OnTopOnlyIfWedged ==
    [][UpdateObjects => \A p \in Range(Live) : PutOnTop(p) => Wedged(p)]_vars

Heights == [i \in 1..InUse |-> Live[i].y]

\* The gap below which a platform is generated for certain, and one frame.
MaxGap == MAX_PLATFORM_Y_DISTANCE + ArenaSpeed - 1

Flight == INSTANCE Stairs WITH
    Height <- ARENA_HEIGHT, Thickness <- PLATFORM_HEIGHT, Speed <- ArenaSpeed,
    MinGap <- MIN_PLATFORM_Y_DISTANCE,
    MaxGap <- MaxGap,
    top <- arena_y, stairs <- Heights

\* The ring of platforms implements an endless flight of stairs.
ImplementsStairs == Flight!Spec

=============================================================================
