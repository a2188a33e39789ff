SPECIFICATION Spec
CHECK_DEADLOCK FALSE
CONSTANTS
  ARENA_HEIGHT = 20
  ARENA_WIDTH = 10
  BALL_RADIUS = 2
  PLATFORM_HEIGHT = 1
  PLATFORM_WIDTH = 2
  MAX_PLATFORM_NR = 5
  MIN_PLATFORM_Y_DISTANCE = 7
  MAX_PLATFORM_Y_DISTANCE = 9
  ArenaSpeed = 1
  BallSpeedX = 2
  BallSpeedY = 2
  PlatformX = {0, 4}
  MaxArenaY = 19
INVARIANTS TypeOK NeverStuck NeverRunsOut BallIsFree
PROPERTIES OnTopOnlyIfWedged ImplementsStairs
