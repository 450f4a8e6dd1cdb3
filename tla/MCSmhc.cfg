SPECIFICATION Spec
CONSTANT MaxBlocks = 2
INVARIANT TypeOK
INVARIANT OkIsAnswered
INVARIANT WidthsAgree
PROPERTY CardGivenBack
PROPERTY CallsEnd
