CONSTANTS
  Managers <- MCManagers
  Items <- MCItems
  Contents <- MCContents
  Image <- MCImage
  MaxLists = 2
  Bases = {1, 2}
  Top = 12
  MaxGo = 3
  Slots = 6
  MaxItems = 2
SPECIFICATION Spec
PROPERTIES BuiltFromBuffer
