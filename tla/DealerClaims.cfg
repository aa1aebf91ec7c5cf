SPECIFICATION Spec
CONSTANTS
  p1 = p1
  p2 = p2
  d1 = d1
  d2 = d2
  Profile = {p1, p2}
  Dealer = {d1, d2}
  Nearby <- MCNearby
  Nobody = Nobody
  Dormancy = 0
SYMMETRY Permuted
INVARIANTS Exclusivity SendsOnlyHeld
PROPERTIES HolderUndisturbed LockSpec
