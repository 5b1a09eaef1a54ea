SPECIFICATION Spec
CONSTANTS
  Names = {x, y, z}
  Values <- MCValues
  Addresses <- MCAddresses
  FirstAddresses <- MCFirstAddresses
  MaxLayers = 3
  MaxEntries = 3
SYMMETRY Symmetry
INVARIANTS FrameLayout EnclosedByProcedure NamesUnique IInv
