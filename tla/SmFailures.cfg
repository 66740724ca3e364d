CONSTANTS
  i2c = i2c
  b1 = b1
  b2 = b2
  Block <- Heap
  Static <- Statics
  NameOf <- StaticName
  Name <- Names
  Offset <- Offsets
  NoDevice = NoDevice
  Unset = Unset
  HW_TABLE_MAX = 2
  Empty = Empty
  Driver <- Drivers
SPECIFICATION DevicesSpec
INVARIANT FailuresFault
