SPECIFICATION Spec
CONSTANTS
  f1 = f1
  f2 = f2
  a = a
  b = b
  c1 = c1
  c2 = c2
  c3 = c3
  m1 = m1
  m2 = m2
  s1 = s1
  s2 = s2
  Absent = Absent
  NoCommit = NoCommit
  Files = {f1, f2}
  Contents = {a, b}
  Commits = {c1, c2, c3}
  Root = c1
  Servers = {m1, m2}
  Specs = {s1, s2}
  Timed = {s1}
  Retain = {s2}
  TreeOf <- MCTreeOf
  ServerOf <- MCServerOf
  Matching <- MCMatching
  Oversize <- MCOversize
  Depth = 2
  MaxEvents = 3
INVARIANTS
  TypeOK
  RecordedIsThere
  GoneIsClean
  NotForgotten
PROPERTIES
  Settles
\* once a source is gone, or its schedule is invalid, nothing may be left to do
CHECK_DEADLOCK FALSE
