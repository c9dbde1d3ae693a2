CONSTANTS
  Refs <- MCRefs
  Unset = Unset
  Hosts = {h1, h2}
  Ids = {t1, t2}
  Bridges = {b1, b2}
  Tenants = {n1}
  Key = k
SPECIFICATION Spec
INVARIANTS ReadyMeansDone ReviewShowsSaved
SYMMETRY MCSymmetry
