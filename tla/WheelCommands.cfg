SPECIFICATION Spec
CONSTANTS
  Keys = {"w", "s"}
  Modes = {"evdev", "termios"}
  Speeds = {2}
  MaxSpeed = 1
  CmdTimeout = 1
  KeyTimeout = 1
  Depth = 2
INVARIANTS
  WatchdogStops
  StoppedIsTold
PROPERTIES
  ReleaseStops
  GoneStops
