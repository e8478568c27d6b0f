SPECIFICATION Spec
CONSTANTS
  Answers = {low, high}
  TIMEOUT = 8
  Delays = {1, 4}
PROPERTIES ExpiredStaysExpired SilenceFreezes
