CONSTANTS
  Socks = {s1, s2, s3}
  PageMowers = {a, b}
  MaxNippleTries = 1
  None = None
  Posts = {p1, p2, p3}
  CtlMowers = {a, b}
  NoPost = NoPost
  Clients = {c1, c2}
  Stops = {k1, k2}
  CamMowers = {m1, m2}
  MaxPosts = 1
  NoCam = NoCam
  ViewMowers = {v1, v2}
  Nowhere = Nowhere

SPECIFICATION PageSpec

SYMMETRY MCSymmetry

INVARIANTS
  OneLiveSocket
  NeverAbandoned
  StopIsOut
  OneAwaited
  StopCutsBlades
  CameraIsThisMowers
  NoClientForgotten
  PollingGoesOn
  ShownIsThisMowers

PROPERTY TwoTapsOneMower

CHECK_DEADLOCK FALSE
