CONSTANT Half = 4
SPECIFICATION FairSpec
CHECK_DEADLOCK FALSE
INVARIANT TypeOK
PROPERTIES
  IteratesAsPromised
  Ends
