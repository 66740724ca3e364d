------------------------------ MODULE TestExec ------------------------------
(***************************************************************************)
(* The execution engine of IDS (lib_ids/exec.c): the GO command of the     *)
(* execution menu, the cycle loop, the walk over the master list, a test   *)
(* list or one test, the pass/fail policy that decides which test is run   *)
(* next, and the operator's ^C.                                            *)
(*                                                                         *)
(* The engine is one thread, but what it does depends on two parties it    *)
(* does not control: the downloaded tests, which pass or fail, and the     *)
(* operator, who may confirm a ^C at each place the engine polls for one.  *)
(* One action stands for the code between two such choices.                *)
(***************************************************************************)
EXTENDS Integers

CONSTANTS
  NumLists,    \* test lists in the master list
  Size,        \* Size[l]: tests in list l
  FirstParm,   \* FirstParm[t]: type of the first parameter of test t
  Parms,       \* Parms[t]: parameters of test t (menu items after RUN)
  TestCycles,  \* TestCycles[t]: its "cycles" parameter, 1 when it has none
  Services,    \* tests whose "ids-svc" item names a service
  PassActions, \* policies the operator may give a passing test
  FailActions, \* policies the operator may give a failing test
  CycleValues, \* numbers the operator may type for CYCLES
  Targets,     \* menus the operator may select RUN in
  RunModes     \* modes the operator may start a run in

List == 1 .. NumLists
Test == UNION { {l} \X (1 .. Size[l]) : l \in List }

(* A policy vector is an ASCII word with an optional "=count"; a word that *)
(* starts with a digit ("jump" here) is the menu number of the next test.  *)
StopWords == {"stop", "abort", "halt"}
ActionWord == StopWords \union
  {"retry", "jump", "next", "skip", "spin", "pause", "ignore", "back",
   "wait", "sleep", "fail", "loop", "unknown"}
Action == [word : ActionWord, arg : Nat]

Modes == {"default", "autorun", "config", "debug"}
LogModes == {"default", "autorun"}

(* The menu RUN was selected in: the master list, one list or one test.    *)
Master == [kind |-> "master", list |-> 0, test |-> 0]
OneList(l) == [kind |-> "list", list |-> l, test |-> 0]
OneTest(t) == [kind |-> "test", list |-> t[1], test |-> t[2]]
AllTargets ==
  {Master} \union { OneList(l) : l \in List } \union { OneTest(t) : t \in Test }

Next0 == [word |-> "next", arg |-> 0]
Stop0 == [word |-> "stop", arg |-> 0]

ASSUME TestExecAssumption ==
  /\ NumLists \in Nat
  /\ Size \in [List -> Nat]
  /\ FirstParm \in [Test -> {"PARM", "REG", "SVC"}]
  /\ Parms \in [Test -> Nat]
  /\ TestCycles \in [Test -> Nat \ {0}]
  /\ Services \subseteq Test
  /\ PassActions \subseteq Action /\ Next0 \in PassActions
  /\ FailActions \subseteq Action /\ Stop0 \in FailActions
  /\ CycleValues \subseteq Nat
  /\ Targets \subseteq AllTargets
  /\ RunModes \subseteq Modes

VARIABLES
  pc,        \* where the engine is
  target,    \* execution_menu.itemlist[EXEC_GO].menu
  mode,      \* ids_mode, as saved by test_go_appl
  cycle,     \* do_test_cycles_appl: cycle
  cycles,    \*                      cycles
  error,     \*                      error
  listno,    \* do_test_go_appl on the master list: testindex
  status,    \* value last returned by do_test_go_appl
  frame,     \* locals of do_test_go_appl on a list or a test
  iter,      \* do_test_appl: cycle
  verdict,   \* the text last shown: passtext, failtext or abortext
  logging,   \* log # -1
  policy,    \* pass and fail vectors in the test headers
  (* History of the current run, read by the properties only. *)
  quits,     \* the places where the operator confirmed a ^C
  struck,    \* a test failed and its policy ended the list
  ran,       \* a test was executed
  tries      \* do_test_appl calls on the test since the engine moved to it

run == << pc, target, mode, cycle, cycles, error, listno, status, frame,
          iter, verdict, logging >>
history == << quits, struck, ran, tries >>
vars == << run, policy, history >>

Frame == [list : 0 .. NumLists, items : Nat, index : Nat \union {-1},
          last : Nat \union {-1}, spin : BOOLEAN, retry : 0 .. 3,
          loop : Nat, rv : {0, -1}]

PC == {"idle", "cycle", "master", "list", "exec", "policy", "poll",
       "cycled", "done"}

TypeOK ==
  /\ pc \in PC
  /\ target \in AllTargets
  /\ mode \in Modes
  /\ cycle \in Nat /\ cycles \in Nat
  /\ error \in {0, -1}
  /\ listno \in 1 .. NumLists + 1
  /\ status \in {0, -1, -100}
  /\ frame \in Frame
  /\ iter \in Nat
  /\ verdict \in {"none", "pass", "fail", "abort"}
  /\ logging \in BOOLEAN
  /\ policy \in [Test -> [pass : PassActions, fail : FailActions]]
  /\ quits \subseteq {"list", "cycle", "pause"}
  /\ struck \in BOOLEAN
  /\ ran \in BOOLEAN
  /\ tries \in Nat

FromZero(l, n) ==                                  \* mutant
  [list |-> l, items |-> n, index |-> 1, last |-> 0, spin |-> FALSE,
   retry |-> 0, loop |-> 0, rv |-> 0]
BehindFirst(l, n) ==                               \* mutant
  [list |-> l, items |-> n, index |-> 2, last |-> -1, spin |-> FALSE,
   retry |-> 0, loop |-> 0, rv |-> 0]
NewFrame(l, n) ==
  [list |-> l, items |-> n, index |-> 1, last |-> -1, spin |-> FALSE,
   retry |-> 0, loop |-> 0, rv |-> 0]
NoFrame == NewFrame(0, 0)

Init ==
  /\ pc = "idle"
  /\ target = Master
  /\ mode = "default"
  /\ cycle = 0 /\ cycles = 1
  /\ error = 0 /\ status = 0 /\ listno = 1
  /\ frame = NoFrame /\ iter = 0
  /\ verdict = "none" /\ logging = FALSE
  /\ policy = [t \in Test |-> [pass |-> Next0, fail |-> Stop0]]
  /\ quits = {} /\ struck = FALSE /\ ran = FALSE /\ tries = 0

-----------------------------------------------------------------------------
(* Between runs: the operator edits policies (^P and ^F in a test list).   *)

EditPass(t, a) ==
  /\ pc = "idle"
  /\ policy' = [policy EXCEPT ![t].pass = a]
  /\ UNCHANGED << run, history >>

EditFail(t, a) ==
  /\ pc = "idle"
  /\ policy' = [policy EXCEPT ![t].fail = a]
  /\ UNCHANGED << run, history >>

(* test_execution_appl and test_go_appl down to the call of the cycle      *)
(* loop. Only the modes that log read CYCLES, and a value below 1 becomes  *)
(* 1. Creating the log fails when the log menu is full. Debug mode runs    *)
(* nothing and reports a failure.                                          *)
CycleCount(m, n) == IF m \in LogModes /\ n >= 1 THEN n ELSE 1

Go(tgt, m, n, created) ==
  /\ pc = "idle"
  /\ target' = tgt /\ mode' = m
  /\ cycles' = CycleCount(m, n) /\ cycle' = 0
  /\ logging' = (m \in LogModes /\ created)
  /\ error' = 0
  /\ IF m = "debug"
       THEN pc' = "done" /\ status' = -1
       ELSE pc' = "cycle" /\ status' = 0
  /\ listno' = 1 /\ frame' = NoFrame /\ iter' = 0 /\ verdict' = "none"
  /\ quits' = {} /\ struck' = FALSE /\ ran' = FALSE /\ tries' = 0
  /\ UNCHANGED policy

-----------------------------------------------------------------------------
(* do_test_cycles_appl *)

BeginCycle ==
  /\ pc = "cycle"
  /\ status' = 0
  /\ CASE target.kind = "master" ->
            pc' = "master" /\ listno' = 1 /\ frame' = NoFrame
       [] target.kind = "list" ->
            /\ pc' = "list"
            /\ frame' = NewFrame(target.list, Size[target.list])
            /\ UNCHANGED listno
       [] target.kind = "test" ->
            /\ pc' = "list"
            /\ frame' = NewFrame(target.list,
                                 Parms[<<target.list, target.test>>])
            /\ UNCHANGED listno
  /\ tries' = 0
  /\ UNCHANGED << target, mode, cycle, cycles, error, iter, verdict,
                  logging, policy, quits, struck, ran >>

(* An abort leaves at once; a failure is latched and the next cycle runs.  *)
LatchLost(e, s) == IF s = -1 THEN -1 ELSE 0        \* mutant
Latch(e, s) == IF s = -1 THEN -1 ELSE e

AbortMissed(s) == FALSE                            \* mutant
Aborted(s) == s = -100

EndCycle(quit) ==
  /\ pc = "cycled"
  /\ error' = Latch(error, status)
  /\ IF Aborted(status)
       THEN /\ ~quit                                \* no poll on this path
            /\ pc' = "done" /\ UNCHANGED << status, cycle, quits >>
       ELSE IF quit
         THEN /\ pc' = "done" /\ status' = -100 /\ UNCHANGED cycle
              /\ quits' = quits \union {"cycle"}
         ELSE /\ cycle' = cycle + 1
              /\ IF cycles = 0 \/ cycle + 1 < cycles
                   THEN pc' = "cycle" /\ UNCHANGED status
                   ELSE pc' = "done" /\ status' = error'
              /\ UNCHANGED quits
  /\ UNCHANGED << target, mode, cycles, listno, frame, iter, verdict,
                  logging, policy, struck, ran, tries >>

(* The rest of test_go_appl: the verdict is shown and the log closed.      *)
VerdictOfAny(s) == IF s # 0 THEN "abort" ELSE "pass"    \* mutant
Verdict(s) ==
  IF s = -1 THEN "fail" ELSE IF s = -100 THEN "abort" ELSE "pass"

Finish ==
  /\ pc = "done"
  /\ verdict' = Verdict(status)
  /\ logging' = FALSE
  /\ pc' = "idle"
  /\ frame' = NoFrame /\ iter' = 0 /\ listno' = 1 /\ cycle' = 0
  /\ UNCHANGED << target, mode, cycles, error, status, policy,
                  history >>

-----------------------------------------------------------------------------
(* do_test_go_appl on the master list: one call of itself per test list.   *)

NextList ==
  /\ pc = "master"
  /\ listno <= NumLists
  /\ frame' = NewFrame(listno, Size[listno])
  /\ pc' = "list"
  /\ tries' = 0
  /\ UNCHANGED << target, mode, cycle, cycles, error, listno, status,
                  iter, verdict, logging, policy, quits, struck, ran >>

EndMaster ==
  /\ pc = "master"
  /\ listno > NumLists
  /\ pc' = "cycled"
  /\ UNCHANGED << target, mode, cycle, cycles, error, listno, status,
                  frame, iter, verdict, logging, policy, history >>

(* do_test_go_appl on a list or a test returns v: to the loop over the     *)
(* lists, which only a failure leaves early, or to the cycle loop.         *)
Return(v) ==
  /\ status' = v
  /\ IF target.kind = "master" /\ v # -1
       THEN pc' = "master" /\ listno' = listno + 1
       ELSE pc' = "cycled" /\ UNCHANGED listno
  /\ UNCHANGED << target, mode, cycle, cycles, error, iter, verdict,
                  logging, policy >>

-----------------------------------------------------------------------------
(* do_test_go_appl on a list or a test: the loop over the items.           *)

Stay(next) ==
  /\ pc' = next
  /\ UNCHANGED << target, mode, cycle, cycles, error, listno, status,
                  verdict, logging, policy >>

(* The test the current item stands for. Item 0 of a test list is RUN: it  *)
(* refers to the list menu itself and to the header of the first test.     *)
Current ==
  IF target.kind = "test" THEN <<target.list, target.test>>
  ELSE <<frame.list, IF frame.index = 0 THEN 1 ELSE frame.index>>

RunItem == target.kind # "test" /\ frame.index = 0

NextTest ==
  /\ pc = "list"
  /\ frame.index \in 0 .. frame.items
  /\ Stay("exec")
  /\ iter' = 0
  /\ tries' = tries + 1
  /\ UNCHANGED << frame, quits, struck, ran >>

LeaveList ==
  /\ pc = "list"
  /\ frame.index \notin 0 .. frame.items
  /\ Return(frame.rv)
  /\ UNCHANGED << frame, history >>

(* do_test_appl: the test is executed up to its own number of cycles,      *)
(* while it passes. A service always passes.                               *)
Repetitions == IF RunItem THEN 1 ELSE TestCycles[Current]

Execute(ok) ==
  /\ pc = "exec"
  /\ ~RunItem /\ Current \in Services => ok
  /\ frame' = [frame EXCEPT !.rv = IF ok THEN 0 ELSE -1]
  /\ iter' = iter + 1
  /\ Stay(IF ok /\ iter + 1 < Repetitions THEN "exec" ELSE "policy")
  /\ ran' = TRUE
  /\ UNCHANGED << quits, struck, tries >>

-----------------------------------------------------------------------------
(* The policy part of the loop, in the order of the source.                *)

Failed == frame.rv # 0
Decision == IF Failed THEN policy[Current].fail ELSE policy[Current].pass

(* listmenu->itemlist[1] is an ITEM_PARM: this was an individual test.     *)
SingleTest == target.kind = "test" /\ FirstParm[Current] = "PARM"

ReturnSingle ==
  /\ pc = "policy"
  /\ SingleTest
  /\ Return(frame.rv)
  /\ struck' = (struck \/ Failed)
  /\ UNCHANGED << frame, quits, ran, tries >>

(* The operator confirms a ^C: before the policy is read, or after it has  *)
(* moved on.                                                               *)
PolledAfterMove == pc = "poll"                     \* mutant
Polled == (pc = "policy" /\ ~SingleTest) \/ pc = "poll"

Interrupt ==
  /\ Polled
  /\ Return(-100)
  /\ quits' = quits \union {"list"}
  /\ UNCHANGED << frame, struck, ran, tries >>

NoInterrupt ==
  /\ pc = "poll"
  /\ Stay("list")
  /\ UNCHANGED << frame, iter, history >>

DecidingInSpin == pc = "policy" /\ ~SingleTest     \* mutant
Deciding == pc = "policy" /\ ~SingleTest /\ ~frame.spin
Obeys(words) == Deciding /\ Decision.word \in words

(* Once a spin started the same test runs again whatever its policy says.  *)
KeepSpinning ==
  /\ pc = "policy" /\ ~SingleTest
  /\ frame.spin
  /\ Stay("list")
  /\ tries' = 0
  /\ UNCHANGED << frame, iter, quits, struck, ran >>

OneRetryMore == frame.retry <= 3                   \* mutant
RetriesLeft == frame.retry < 3

Retry ==
  /\ Obeys({"retry"})
  /\ RetriesLeft
  /\ frame' = [frame EXCEPT !.retry = @ + 1]
  /\ Stay("list")
  /\ UNCHANGED << iter, history >>

(* Every break out of the loop that returns the test's own result.         *)
Stop ==
  /\ \/ Obeys({"retry"}) /\ ~RetriesLeft
     \/ Obeys(StopWords)
     \/ Obeys({"fail"}) /\ Failed
     \/ Obeys({"loop"}) /\ Failed /\ frame.loop = 1
     \/ Obeys({"fail", "loop", "unknown"}) /\ ~Failed    \* unknown action
  /\ Return(frame.rv)
  /\ struck' = (struck \/ Failed)
  /\ UNCHANGED << frame, quits, ran, tries >>

RetriesKept(f) == f                                \* mutant
NoRetries(f) == [f EXCEPT !.retry = 0]

Spin ==
  /\ Obeys({"spin"})
  /\ frame' = NoRetries([frame EXCEPT !.spin = TRUE])
  /\ Stay("list")
  /\ tries' = 0
  /\ UNCHANGED << iter, quits, struck, ran >>

(* Go to an item, remember the one left as "last", forget the retries.     *)
Move(to, last, rv, loop) ==
  /\ frame' = NoRetries([frame EXCEPT !.index = to, !.last = last, !.rv = rv,
                                      !.loop = loop])
  /\ Stay("poll")
  /\ tries' = 0
  /\ UNCHANGED << iter, struck, ran >>

SameIndex == frame.index                           \* mutant
NextIndex == frame.index + 1

Jump ==
  /\ Obeys({"jump"})
  /\ Move(Decision.arg - 1, frame.index, frame.rv, frame.loop)
  /\ UNCHANGED quits

Advance ==
  /\ Obeys({"next", "wait", "sleep"})
  /\ Move(NextIndex, frame.index, frame.rv, frame.loop)
  /\ UNCHANGED quits

Skip ==
  /\ Obeys({"skip"})
  /\ Move(frame.index + 2, frame.index, frame.rv, frame.loop)
  /\ UNCHANGED quits

Ignore ==
  /\ Obeys({"ignore"})
  /\ Move(NextIndex, frame.index, 0, frame.loop)
  /\ UNCHANGED quits

(* exec_pause polls for ^C; what it returns is dropped.                    *)
Pause(quit) ==
  /\ Obeys({"pause"})
  /\ Move(NextIndex, frame.index, 0, frame.loop)
  /\ quits' = IF quit THEN quits \union {"pause"} ELSE quits

Back ==
  /\ Obeys({"back"})
  /\ Move(frame.last, frame.last, frame.rv, frame.loop)
  /\ UNCHANGED quits

(* On the fail track "loop" counts down over the tests of the list, and a  *)
(* word it does not know clears the failure.                               *)
CountLoop ==
  /\ Obeys({"loop"}) /\ Failed /\ frame.loop # 1
  /\ Move(NextIndex, frame.index, 0,
          IF frame.loop = 0 THEN Decision.arg ELSE frame.loop - 1)
  /\ UNCHANGED quits

Forgive ==
  /\ Obeys({"unknown"}) /\ Failed
  /\ Move(NextIndex, frame.index, 0, frame.loop)
  /\ UNCHANGED quits

-----------------------------------------------------------------------------
Edit ==
  \E t \in Test :
    \/ \E a \in PassActions : EditPass(t, a)
    \/ \E a \in FailActions : EditFail(t, a)

Begin ==
  \E tgt \in Targets, m \in RunModes, n \in CycleValues, created \in BOOLEAN :
    /\ m = "autorun" => tgt = Master     \* menu_list_appl selects item 1
    /\ Go(tgt, m, n, created)

Obey ==
  \/ ReturnSingle \/ KeepSpinning \/ Retry \/ Stop \/ Spin \/ Jump
  \/ Advance \/ Skip \/ Ignore \/ Pause(TRUE) \/ Pause(FALSE) \/ Back
  \/ CountLoop \/ Forgive

(* What the board does on its own: the engine and the tests it runs.       *)
Engine ==
  \/ BeginCycle \/ EndCycle(FALSE) \/ Finish
  \/ NextList \/ EndMaster \/ NextTest \/ LeaveList
  \/ Execute(TRUE) \/ Execute(FALSE)
  \/ NoInterrupt \/ Obey

Quit == Interrupt \/ EndCycle(TRUE)

Next == Edit \/ Begin \/ Engine \/ Quit

Spec == Init /\ [][Next]_vars

(* The engine is a thread that never sleeps for ever: every test returns,  *)
(* and a prompt other than a ^C is answered.                               *)
FairSpec == Spec /\ WF_vars(Engine)

-----------------------------------------------------------------------------
Confirmed == quits \intersect {"list", "cycle"}
Ended == {"cycled", "done", "idle"}

(* A test that fails under a policy that ends the list decides the run:    *)
(* neither a later cycle that passes nor the return through the master     *)
(* list may turn the verdict into PASS (the latch of exec.c:263-271 and    *)
(* the early return of exec.c:330-331); only an abort replaces it.         *)
StrikeDecides ==
  pc = "idle" /\ struck =>
    verdict = "fail" \/ (verdict = "abort" /\ Confirmed # {})

(* The run is reported as aborted only if the operator confirmed a ^C that *)
(* the engine itself polled for (exec.c:267-268, 360-361, 507-508).        *)
AbortNeedsOperator == verdict = "abort" => Confirmed # {}

(* A confirmed ^C outside a master list run ends the run: nothing is       *)
(* executed after it and the verdict is ABORT, even when a failure was     *)
(* latched before.                                                         *)
AbortHonoured ==
  "cycle" \in quits \/ ("list" \in quits /\ target.kind # "master") =>
    /\ pc \in Ended
    /\ pc \in {"cycled", "done"} => status = -100
    /\ pc = "idle" => verdict = "abort"

(* "retry" runs a test at most four times in a row, and the allowance is   *)
(* each test's own: tests that used it up before do not shorten it         *)
(* (exec.c:381-393).                                                       *)
RetryAllowance == Obeys({"retry"}) => tries = frame.retry + 1 /\ tries <= 4

(* Once a spin has started only the operator ends it, whatever the later   *)
(* results and policies are (exec.c:362-380).                              *)
SpinUntilQuit == [][frame.spin /\ ~frame'.spin => "list" \in quits]_vars

(* A run comes to an end while no policy spins, jumps or goes back. This   *)
(* is said of numbers of cycles above zero: by the comment at              *)
(* exec.c:248-250 zero cycles are for ever (exec.c:259), by exec.c:180 one.*)
Endless == {"spin", "jump", "back"}
Forward ==
  \A t \in Test : policy[t].pass.word \notin Endless /\ policy[t].fail.word \notin Endless

RunEnds ==
  0 \notin CycleValues => ((pc # "idle" /\ Forward) ~> (pc = "idle"))

(* No policy makes the engine deaf: spinning, jumping or going back for    *)
(* ever, it still ends the run for an operator who insists, who types ^C   *)
(* and confirms it again and again.                                        *)
Insists == SF_vars(Interrupt)
OperatorCanStop == Insists => ((pc # "idle") ~> (pc = "idle"))

(* The RUN item of a list menu is executed as if it were a test only when  *)
(* a policy jumps to item 1, although the loop accepts its index at any    *)
(* time (exec.c:317, 400-406, 452).                                        *)
JumpsToRun ==
  \E t \in Test, track \in {"pass", "fail"} : policy[t][track] = [word |-> "jump", arg |-> 1]

RunItemByJump == pc = "exec" /\ RunItem => JumpsToRun

(* PASS says that a test was executed, but for a target without tests and  *)
(* a test without parameters, which the loop is not entered for            *)
(* (exec.c:309-317).                                                       *)
Runnable ==
  CASE target.kind = "test" -> Parms[<<target.list, target.test>>] > 0
    [] target.kind = "list" -> Size[target.list] > 0
    [] OTHER                -> \E l \in 1 .. NumLists : Size[l] > 0

PassMeansRun == verdict = "pass" /\ Runnable => ran

-----------------------------------------------------------------------------
(* What the sources say and the engine does not do.                        *)

(* "^C Interrupt -- Do you really want to quit?" (exec.c:790): after the   *)
(* answer y no further test is executed, in a run of the master list as in *)
(* any other, and at the prompt of the pause policy as at any other.       *)
QuitEndsRun == quits \intersect {"list", "pause"} # {} => pc # "exec"

=============================================================================
