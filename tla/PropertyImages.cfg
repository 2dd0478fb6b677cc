SPECIFICATION Spec
CONSTANTS
  Blobs = {b1, b2, b3}
  Managers = {m1}
  NoRow = NoRow
  MaxImages = 3
  MaxRows = 5
SYMMETRY ImagesSymmetry
INVARIANTS
  OneCover
PROPERTY
  ImplementsGallery
CHECK_DEADLOCK FALSE
