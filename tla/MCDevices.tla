----------------------------- MODULE MCDevices -----------------------------
(* Instances of Devices: the static I2C device and two blocks of the heap, *)
(* two names, and a table of two slots, which can be full and have a hole  *)
(* in front of a device.                                                   *)
EXTENDS Devices, TLC

CONSTANTS i2c, b1, b2

Heap == {b1, b2}
Statics == {i2c}
StaticName == [d \in Statics |-> "i2c"]
Blocks == Permutations(Heap)
Names == {"i2c", "flash"}
Offsets == {2, 3}

(* i2c_driver returns 0; that of a created device is the caller's. *)
Drivers == [d \in Heap \union Statics |-> IF d \in Statics THEN {"passed"} ELSE Outcome]
=============================================================================
