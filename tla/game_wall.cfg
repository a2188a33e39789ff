SPECIFICATION Spec
CHECK_DEADLOCK FALSE
CONSTANTS
  ARENA_HEIGHT = 200
  ARENA_WIDTH = 150
  BALL_RADIUS = 5
  PLATFORM_HEIGHT = 3
  PLATFORM_WIDTH = 30
  MAX_PLATFORM_NR = 32
  MIN_PLATFORM_Y_DISTANCE = 20
  MAX_PLATFORM_Y_DISTANCE = 100
  ArenaSpeed = 1
  BallSpeedX = 2
  BallSpeedY = 2
  PlatformX = {110}
  MaxArenaY = 80
INVARIANTS BallInArena
