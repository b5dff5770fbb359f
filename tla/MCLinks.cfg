SPECIFICATION Spec
CONSTANTS
  NKeys = 7
  MaxQueued = 2
INVARIANTS TreeSound 
PROPERTY LinksAreList
