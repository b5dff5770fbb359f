SPECIFICATION Spec
CONSTANTS
  NPages = 32
  NSlots = 256
  PagerStates <- Pointers
 
PROPERTY WordIsPte
