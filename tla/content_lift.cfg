SPECIFICATION ContentSpec
CONSTANTS
  Docs = {d1, d2, d3}
  Threads = {t1, t2}
  Top = Top
  Cascades = {TRUE, FALSE}
  Editors = {e1, e2}
  Pages = {p1}
  MaxSaves = 2
  MaxVersions = 3
  Uploaders = {u1, u2}
  Files = {f1, f2}
  Keys = {k1}
  NoFile = NoFile
  Notes = {g1, g2, g3, g4}
  Importers = {r1, r2}
  ZipSize = 2
  NoNote = NoNote
  Senders = {n1, n2}
  Pictures = {i1, i2, i3, i4}
  Keep = 2
  c1 = c1
  c2 = c2
  c3 = c3
  Readers = {b1, b2}
  Objects = {c1, c2, c3}
  Cost <- CacheCost
  Cap = 3
  NoObject = NoObject
  NoReader = NoReader
  Sources = {s1, s2}
  Replicas = {q1, q2}
  Viewers = {v1}
  Admitted = 1
  Nobody = Nobody
SYMMETRY SamePages
CHECK_DEADLOCK FALSE
INVARIANTS NoCycle
