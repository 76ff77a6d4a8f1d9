CONSTANTS
  w1 = w1
  w2 = w2
  Writers = {w1, w2}
  Pages <- MCPages
  HalfRange = 32
  IntRange = 8
  Null = Null
SPECIFICATION Spec
INVARIANTS TypeOK AuthorsResolve ChangesMatchIssue
PROPERTIES ImplementsPageStore PageEnds
