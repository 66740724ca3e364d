------------------------------ MODULE Devices ------------------------------
(***************************************************************************)
(* The I2C device's state machine over the device table: i2c_run gives the *)
(* command of the RUN event to hw_launcher, which looks up the device that *)
(* the first word names and calls its driver. The owner of the devices     *)
(* changes the table between the calls of the machine.                     *)
(***************************************************************************)
EXTENDS IdsSm, HwTable

CONSTANTS
  Empty,   \* a command line without words
  Driver   \* what the driver of a device may come to

Outcome == {"passed", "failed", "other"}

ASSUME DevicesAssumption ==
  /\ Empty \notin Name \union {NoDevice}
  /\ Driver \in [Device -> SUBSET Outcome]

VARIABLE command   \* the first word of the command of the call

devices == << vars, table, command >>

DevicesInit == Init /\ HwInit /\ command = Empty

(* hw_launcher: "0" is taken for the failure of hw_lookup, so the device   *)
(* in the first slot is not run; -1, of a name that is not found, is used  *)
(* as an index, and anything may come of that. Of any other it returns     *)
(* what the driver returns, which each device brings along.                *)
Outcomes(n) ==
  IF n = Empty \/ hw_lookup(n) = 0 THEN {"failed"}
  ELSE IF hw_lookup(n) = -1 THEN Outcome
  ELSE Driver[hw_table[hw_lookup(n)]]

Call ==
  \/ \E e \in Event : sm_run_raw(e)
  \/ sm_run

Continue == Advance \/ sm_sw_exec \/ sm_hw_fault \/ Nested \/ Return \/ sm_fail

Ends == \E o \in Outcome : o \in Outcomes(command) /\ CommandOver(o)

(* The command is a parameter: it is gone when the call returns.           *)
Passing(n) == command' = IF pc' = "idle" THEN Empty ELSE n

DevicesNext ==
  \/ Present /\ UNCHANGED << table, command >>
  \/ Call /\ (\E n \in Name \union {Empty} : Passing(n)) /\ UNCHANGED table
  \/ (Continue \/ Ends \/ sm_watchdog) /\ Passing(command) /\ UNCHANGED table
  \/ pc = "idle" /\ TableNext /\ UNCHANGED << vars, command >>

DevicesSpec == DevicesInit /\ [][DevicesNext]_devices

=============================================================================
