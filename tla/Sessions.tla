------------------------------ MODULE Sessions ------------------------------
(***************************************************************************)
(* A test that runs with a log and a mailbox session: LogFiles and Mailbox *)
(* together. A test that has suspended itself leaves the operator in the   *)
(* log menu, with the log of this run still open: there is no terminator   *)
(* yet where the walk over its strings should end.                         *)
(***************************************************************************)
EXTENDS LogFiles, Mailbox, FiniteSets

sessions == << vars, mailbox >>

SessionInit == Init /\ MailboxInit

(* The test itself runs, no call of its to IDS does.                       *)
InTest == running /\ calls = <<>>

(* A test is loaded: its image is copied over the one before and its       *)
(* static data are cleared, so that it does not know where mb_dispatch is. *)
(* What IDS knows of the one before is not cleared.                        *)
ids_load_elf_image == dispatch' = FALSE /\ UNCHANGED << callback, ack, calls >>

Start(logged) == StartRun(logged) /\ ids_load_elf_image

End ==
  /\ calls = <<>>
  /\ EndRun
  /\ UNCHANGED mailbox

TestStep ==
  /\ InTest
  /\ \/ (\E text \in Texts : lprintf(text)) /\ UNCHANGED mailbox
     \/ (\E pattern \in Byte : TestRam(pattern)) /\ UNCHANGED mailbox
     \/ ids_load_elf_image /\ UNCHANGED vars          \* the next test of the run
     \/ (\E kind \in {"ram", "own"} : mb_start(kind)) /\ UNCHANGED vars
     \/ (\E op \in Op : Request(op)) /\ UNCHANGED vars

(* The operator outside a run.                                             *)
Operator == menu_del_appl /\ UNCHANGED mailbox

SessionNext ==
  \/ \E logged \in BOOLEAN : Start(logged)
  \/ End
  \/ TestStep
  \/ Operator
  \/ InRequest /\ UNCHANGED vars
  \/ mb_suspend /\ UNCHANGED vars

SessionSpec == SessionInit /\ [][SessionNext]_sessions

(* IDS is left and started again: fileio_init resets the load address, but *)
(* log_menu is as it was.                                                  *)
fileio_init ==
  /\ ~running
  /\ load' = Base
  /\ UNCHANGED << mem, menu, active, running, log, written, mailbox >>

RestartSpec == SessionInit /\ [][SessionNext \/ fileio_init]_sessions

-----------------------------------------------------------------------------
(* What was printed for log i, and what of it before the string w.         *)
Printed(i) == { w \in written : w.log = i /\ w.text # EofText }
Before(w) == { v \in Printed(w.log) : v.at < w.at }

(* Whenever the operator looks at a log, from the execution menu or from a *)
(* suspended test whose log is open, it shows first what was printed for   *)
(* it, string by string, whatever the walk goes on to show of an open one  *)
(* (fileio.c:387-392, mailbox.c:67).                                       *)
ViewStartsWithLog ==
  (Suspended \/ ~running) =>
    \A i \in 1 .. Len(menu) :
      EndOf(i) <= Limit =>
        LET shown == Shown(mem, menu[i], -1)
        IN  \A w \in Printed(i) :
              LET k == Cardinality(Before(w)) + 1
              IN  k <= Len(shown) /\ shown[k] = w.text

-----------------------------------------------------------------------------
(* What the sources say and the code does not do.                          *)

(* load_addr is "the next unused location after this log file is closed"   *)
(* (fileio.c:451-453): no string of a listed log lies there or behind it.  *)
NextUnused == \A w \in written : w.at + Size(w.text) <= load
=============================================================================
