SPECIFICATION Spec
CONSTANTS
  k1 = k1
  k2 = k2
  Key <- MCKey
  Val = {v1, v2}
  MaxId = 2
  Bounds <- MCBounds
SYMMETRY Symmetry
 
PROPERTIES ImplementsUndoDb
