SPECIFICATION Spec
CONSTANTS
  Threads = {t1, t2, t3}
  Conns = {c1, c2, c3, c4, c5}
  MinConn = 2
  MaxConn = 3
  MaxKeys = 5
  Kinds <- BothKinds
  None = None
SYMMETRY Symmetric
INVARIANTS TypeOK LentOnce NothingLeaks WithinLimit PooledClean PlacesComeBack OwnConnection
