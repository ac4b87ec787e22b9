SPECIFICATION Spec
CHECK_DEADLOCK FALSE
CONSTANTS
  c1 = c1
  c2 = c2
  c3 = c3
  p1 = p1
  p2 = p2
  t1 = t1
  t2 = t2
  NoStream = NoStream
  Contexts = {c1, c2, c3}
  Params = {p1, p2}
  ParamsOf <- MCParamsOf
  Tags = {t1, t2}
  Indices = {0, 1}
  SumIndices <- MCSumIndices
  RotationLists = {{}, {0, 1}}
  HeldIndices = {{}, {1}}
  Maps = {1, 2}
  UsedKinds = {"mult", "sum", "automorphism"}
  Releases = TRUE
SYMMETRY Symmetric
CONSTRAINT Bounds
INVARIANT TypeOK
INVARIANT KeysUnderTheirTag
INVARIANT ContextsNotDuplicated
INVARIANT ContextSelectionSound
PROPERTY KeyGenOnlyAdds
PROPERTY DeserializeReplacesMatchingOnly
PROPERTY DeserializeRestores
