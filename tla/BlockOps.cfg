SPECIFICATION Spec
CONSTANTS
  Threads = {t1, t2}
  Groups = {g1, g2}
  ClustersPerGroup = 2
  ClusterRatio = 1
  Uninit = {}
SYMMETRY Symmetry
INVARIANTS GroupCountExact DiskCountExact PercpuTrails
PROPERTIES CommitIsComplete
