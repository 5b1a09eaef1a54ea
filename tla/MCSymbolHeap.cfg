SPECIFICATION Spec
CONSTANTS
  Names = {x, y}
  Values <- MCValues
  Addresses <- MCAddresses
  Garbage <- MCGarbage
  MaxHeap = 8
  MaxLayers = 3
INVARIANTS LinksSound LayersAreLists QueriesAgree
PROPERTIES ImplementsTable
