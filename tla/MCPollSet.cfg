CONSTANTS
  None = None
  Services = {v1, v2}
  Socks = {s1, s2, s3}
  Fds = {f1, f2}
  Events = {"in", "out"}
  v1 = v1
  v2 = v2
  s1 = s1
  s2 = s2
  s3 = s3
  f1 = f1
  f2 = f2
SYMMETRY Symmetry
SPECIFICATION Spec
INVARIANTS TypeOK PollExact SlotsExact ModifyKnown
