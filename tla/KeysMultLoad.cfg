SPECIFICATION Spec
CHECK_DEADLOCK FALSE
CONSTANTS
  c1 = c1
  c2 = c2
  c3 = c3
  p1 = p1
  p2 = p2
  t1 = t1
  t2 = t2
  NoStream = NoStream
  Contexts = {c1}
  Params = {p1}
  ParamsOf <- MCSameParams
  Tags = {t1, t2}
  Indices = {0, 1}
  SumIndices <- MCSumIndices
  RotationLists = {{0, 1}}
  HeldIndices = {{1}}
  Maps = {1, 2, 3, 4}
  UsedKinds = {"mult"}
  Releases = FALSE
PROPERTY DeserializeMultReplacesMatchingOnly
