SPECIFICATION Spec
CONSTANTS
  a = a
  b = b
  Elem <- MCElem
  N <- MCN
INVARIANT TypeOK
INVARIANT MoreWritesAll
INVARIANT StaleIsSafe
PROPERTY SpanStable
PROPERTY ImplementsQueue
