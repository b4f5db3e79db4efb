CONSTANTS
  Posts = {p1, p2, p3}
  CtlMowers = {a, b}
  NoPost = NoPost

SPECIFICATION ControlsSpec

PROPERTY StopReachesThisMower

CHECK_DEADLOCK FALSE
