CONSTANTS
  u1 = u1  u2 = u2  u3 = u3  m = m  n = n  f = f  g = g  h = h
  fi = fi  ff = ff  gf = gf  gg = gg  hi = hi  hf = hf
  Upload = {u1, u3}
  Name = {m, n}
  Vnfd = {f, g, h}
  NameOf <- TwoNames
  VnfdsOf <- ThreeVnfds
  NsdAfter <- NsdPlaces
  Part = {fi, ff, gf, gg, hi, hf}
  Image = {fi, hi}
  PartsOf <- SixParts
  Faults = {"create", "poll", "remove"}
SPECIFICATION Spec
INVARIANTS
  CatalogInv
  DeletedFlavorsGone
  FilesListed
  NamesUnique
  FailedLeavesFinished
CHECK_DEADLOCK FALSE
