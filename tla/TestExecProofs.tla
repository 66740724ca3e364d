--------------------------- MODULE TestExecProofs ---------------------------
(* Theorems about the execution engine, for every set of lists, tests,     *)
(* parameters and policies.                                                *)
EXTENDS TestExec, TLAPS

InLoop == {"list", "exec", "policy", "poll"}

(* The locals of do_test_go_appl agree with the menu it walks: a frame on  *)
(* a list is on a list of the master list and has its number of items, an  *)
(* item is executed only inside the menu, and RUN (item 0) is reached only *)
(* in a list that has tests.                                               *)
FrameInv ==
  /\ pc \in InLoop /\ target.kind # "test" =>
       frame.list \in List /\ frame.items = Size[frame.list]
  /\ pc \in InLoop /\ target.kind = "master" => listno \in List
  /\ pc \in InLoop /\ frame.items = 0 => frame.index # 0
  /\ pc \in {"exec", "policy"} => frame.index \in 0 .. frame.items

TypeInv == TypeOK /\ FrameInv

LEMMA TestMember ==
  ASSUME NEW l \in List, NEW i \in 1 .. Size[l]
  PROVE  <<l, i>> \in Test
BY DEF Test

LEMMA TestPair ==
  ASSUME NEW t \in Test
  PROVE  /\ t = <<t[1], t[2]>>
         /\ t[1] \in List /\ t[2] \in 1 .. Size[t[1]]
BY DEF Test

LEMMA TargetShape ==
  ASSUME NEW tgt \in AllTargets
  PROVE  /\ tgt.kind \in {"master", "list", "test"}
         /\ tgt.kind = "list" => tgt.list \in List
         /\ tgt.kind = "test" => <<tgt.list, tgt.test>> \in Test
         /\ tgt.list \in 0 .. NumLists
<1> USE TestExecAssumption DEF List
<1>1. CASE tgt = Master
  BY <1>1 DEF Master
<1>2. CASE \E l \in List : tgt = OneList(l)
  BY <1>2 DEF OneList
<1>3. CASE \E t \in Test : tgt = OneTest(t)
  <2>1. PICK t \in Test : tgt = OneTest(t)
    BY <1>3
  <2>2. /\ tgt.kind = "test" /\ tgt.list = t[1] /\ tgt.test = t[2]
        /\ t[1] \in List
        /\ <<t[1], t[2]>> \in Test
    BY <2>1, TestPair DEF OneTest
  <2>3. QED
    BY <2>2
<1>4. QED
  BY <1>1, <1>2, <1>3 DEF AllTargets

(* The item being executed stands for a test of the master list.           *)
LEMMA CurrentIsTest ==
  ASSUME TypeInv, pc \in {"exec", "policy"}
  PROVE  Current \in Test
<1>1. CASE target.kind = "test"
  <2>1. target \in AllTargets
    BY DEF TypeInv, TypeOK
  <2>2. <<target.list, target.test>> \in Test
    BY <1>1, <2>1, TargetShape
  <2>3. QED
    BY <1>1, <2>2 DEF Current
<1>2. CASE target.kind # "test"
  <2>1. /\ frame.list \in List /\ frame.items = Size[frame.list]
        /\ frame.index \in 0 .. frame.items
        /\ frame.items # 0 \/ frame.index # 0
        /\ Size[frame.list] \in Nat
    BY <1>2, TestExecAssumption DEF TypeInv, FrameInv, InLoop
  <2>2. IF frame.index = 0 THEN 1 \in 1 .. Size[frame.list]
                           ELSE frame.index \in 1 .. Size[frame.list]
    BY <2>1
  <2>3. QED
    BY <1>2, <2>1, <2>2, TestMember DEF Current
<1>3. QED
  BY <1>1, <1>2

LEMMA DecisionType ==
  ASSUME TypeInv, pc \in {"exec", "policy"}
  PROVE  Decision.word \in ActionWord /\ Decision.arg \in Nat
<1>1. Current \in Test
  BY CurrentIsTest
<1>2. policy[Current].pass \in Action /\ policy[Current].fail \in Action
  BY <1>1, TestExecAssumption DEF TypeInv, TypeOK
<1>3. QED
  BY <1>2 DEF Decision, Action

-----------------------------------------------------------------------------
(* The two shapes every step inside the loop has.                          *)
LEMMA ReturnType ==
  ASSUME TypeInv, pc \in InLoop, NEW v \in {0, -1, -100}, Return(v),
         frame' = frame, quits' \subseteq {"list", "cycle", "pause"},
         struck' \in BOOLEAN, ran' \in BOOLEAN, tries' \in Nat
  PROVE  TypeInv'
<1>1. pc' \in {"master", "cycled"} /\ status' = v
  BY DEF Return
<1>2. listno' \in 1 .. NumLists + 1
  BY TestExecAssumption DEF Return, TypeInv, TypeOK, FrameInv, List
<1>3. TypeOK'
  BY <1>1, <1>2 DEF Return, TypeInv, TypeOK, PC
<1>4. FrameInv'
  BY <1>1 DEF FrameInv, InLoop
<1>5. QED
  BY <1>3, <1>4 DEF TypeInv

LEMMA StayType ==
  ASSUME TypeInv, pc \in InLoop, NEW next \in InLoop, Stay(next),
         frame' \in Frame, frame'.list = frame.list,
         frame'.items = frame.items,
         frame.items = 0 => frame'.index # 0,
         next \in {"exec", "policy"} => frame'.index \in 0 .. frame.items,
         iter' \in Nat, quits' \subseteq {"list", "cycle", "pause"},
         struck' \in BOOLEAN, ran' \in BOOLEAN, tries' \in Nat
  PROVE  TypeInv'
<1>1. pc' = next /\ target' = target /\ listno' = listno
  BY DEF Stay
<1>2. TypeOK'
  BY <1>1 DEF Stay, TypeInv, TypeOK, PC, InLoop
<1>3. FrameInv'
  BY <1>1 DEF FrameInv, TypeInv
<1>4. QED
  BY <1>2, <1>3 DEF TypeInv

LEMMA MoveType ==
  ASSUME TypeInv, pc = "policy", NEW to \in Nat \union {-1},
         NEW last \in Nat \union {-1}, NEW rv \in {0, -1}, NEW loop \in Nat,
         Move(to, last, rv, loop),
         quits' \subseteq {"list", "cycle", "pause"}
  PROVE  TypeInv'
<1>1. frame \in Frame /\ iter \in Nat /\ struck \in BOOLEAN /\ ran \in BOOLEAN
      /\ frame.index \in 0 .. frame.items
  BY DEF TypeInv, TypeOK, FrameInv
<1>2. /\ frame' \in Frame /\ frame'.list = frame.list
      /\ frame'.items = frame.items /\ frame'.index = to
  <2>1. [frame EXCEPT !.index = to] \in Frame
    BY <1>1 DEF Frame
  <2>2. [frame EXCEPT !.index = to, !.last = last] \in Frame
    BY <2>1 DEF Frame
  <2>3. [frame EXCEPT !.index = to, !.last = last, !.rv = rv] \in Frame
    BY <2>2 DEF Frame
  <2>4. [frame EXCEPT !.index = to, !.last = last, !.rv = rv, !.loop = loop]
          \in Frame
    BY <2>3 DEF Frame
  <2>5. 0 \in 0 .. 3
    OBVIOUS
  <2>6. frame' \in Frame
    BY <2>4, <2>5 DEF Frame, Move, NoRetries
  <2>7. QED
    BY <1>1, <2>6 DEF Frame, Move, NoRetries
<1>3. Stay("poll") /\ iter' = iter /\ struck' = struck /\ ran' = ran
      /\ tries' = 0
  BY DEF Move
<1>4. frame.items # 0
  BY <1>1 DEF TypeInv, FrameInv, InLoop
<1>5. QED
  BY <1>1, <1>2, <1>3, <1>4, StayType DEF InLoop

LEMMA NewFrameType ==
  ASSUME NEW l \in 0 .. NumLists, NEW n \in Nat
  PROVE  /\ NewFrame(l, n) \in Frame
         /\ NewFrame(l, n).list = l /\ NewFrame(l, n).items = n
         /\ NewFrame(l, n).index = 1
BY DEF NewFrame, Frame

LEMMA InitType == Init => TypeInv
<1> SUFFICES ASSUME Init PROVE TypeInv
  OBVIOUS
<1>1. NoFrame \in Frame
  BY NewFrameType, TestExecAssumption DEF NoFrame
<1>2. Master \in AllTargets
  BY DEF AllTargets
<1>3. policy \in [Test -> [pass : PassActions, fail : FailActions]]
  BY TestExecAssumption DEF Init
<1>4. listno \in 1 .. NumLists + 1
  BY TestExecAssumption DEF Init
<1>5. TypeOK
  BY <1>1, <1>2, <1>3, <1>4 DEF Init, TypeOK, PC, Modes
<1>6. FrameInv
  BY DEF Init, FrameInv, InLoop
<1>7. QED
  BY <1>5, <1>6 DEF TypeInv

(* Steps outside the loop over the items.                                  *)
LEMMA OuterType ==
  ASSUME TypeInv, NumLists \in Nat,
         \/ Edit \/ Begin \/ BeginCycle \/ EndCycle(TRUE) \/ EndCycle(FALSE)
         \/ Finish \/ NextList \/ EndMaster
  PROVE  TypeInv'
<1> USE DEF TypeInv
<1>1. NoFrame \in Frame /\ NoFrame.index = 1
  BY NewFrameType DEF NoFrame
<1>2. CASE Edit
  <2>1. policy' \in [Test -> [pass : PassActions, fail : FailActions]]
    BY <1>2 DEF Edit, EditPass, EditFail, TypeOK
  <2>2. pc = "idle" /\ UNCHANGED << run, history >>
    BY <1>2 DEF Edit, EditPass, EditFail
  <2>3. QED
    BY <2>1, <2>2 DEF TypeOK, FrameInv, InLoop, run, history
<1>3. CASE Begin
  <2>1. PICK tgt \in Targets, m \in RunModes, n \in CycleValues,
             created \in BOOLEAN : Go(tgt, m, n, created)
    BY <1>3 DEF Begin
  <2>2. tgt \in AllTargets /\ m \in Modes /\ n \in Nat /\ CycleCount(m, n) \in Nat
    BY TestExecAssumption DEF CycleCount
  <2>3. pc' \in {"done", "cycle"} /\ status' \in {0, -1}
    BY <2>1 DEF Go
  <2>4. /\ target' = tgt /\ mode' = m /\ cycles' \in Nat
        /\ cycle' = 0 /\ logging' \in BOOLEAN /\ error' = 0 /\ listno' = 1
        /\ frame' = NoFrame /\ iter' = 0 /\ verdict' = "none" /\ quits' = {}
        /\ struck' = FALSE /\ ran' = FALSE /\ tries' = 0 /\ policy' = policy
    BY <2>1, <2>2 DEF Go
  <2>5. listno' \in 1 .. NumLists + 1 /\ cycle' \in Nat /\ iter' \in Nat
        /\ tries' \in Nat /\ error' \in {0, -1} /\ quits' \subseteq {"list", "cycle", "pause"}
        /\ policy' \in [Test -> [pass : PassActions, fail : FailActions]]
        /\ status' \in {0, -1, -100} /\ frame' \in Frame
        /\ pc' \in PC
    BY <1>1, <2>2, <2>3, <2>4 DEF TypeOK, PC
  <2>5a. TypeOK'
    BY <2>2, <2>4, <2>5 DEF TypeOK
  <2>6. FrameInv'
    BY <2>3 DEF FrameInv, InLoop
  <2>7. QED
    BY <2>5a, <2>6
<1>4. CASE BeginCycle
  <2>1. /\ pc' \in {"master", "list"}
        /\ pc' = "list" => target.kind \in {"list", "test"}
        /\ listno' \in 1 .. NumLists + 1
        /\ frame' \in Frame /\ frame'.index = 1
        /\ target.kind = "list" =>
             frame'.list \in List /\ frame'.items = Size[frame'.list]
    <3>1. CASE target.kind = "master"
      BY <1>1, <1>4, <3>1 DEF BeginCycle
    <3>2. CASE target.kind = "list"
      <4>1. target.list \in List /\ Size[target.list] \in Nat
            /\ target.list \in 0 .. NumLists
        BY <3>2, TargetShape, TestExecAssumption DEF TypeOK
      <4>2. pc' = "list" /\ frame' = NewFrame(target.list, Size[target.list])
            /\ listno' = listno
        BY <1>4, <3>2 DEF BeginCycle
      <4>3. QED
        BY <3>2, <4>1, <4>2, NewFrameType DEF TypeOK
    <3>3. CASE target.kind = "test"
      <4>1. Parms[<<target.list, target.test>>] \in Nat
            /\ target.list \in 0 .. NumLists
        BY <3>3, TargetShape, TestExecAssumption DEF TypeOK
      <4>2. /\ pc' = "list" /\ listno' = listno
            /\ frame' = NewFrame(target.list, Parms[<<target.list, target.test>>])
        BY <1>4, <3>3 DEF BeginCycle
      <4>3. QED
        BY <3>3, <4>1, <4>2, NewFrameType DEF TypeOK
    <3>4. QED
      BY <3>1, <3>2, <3>3, TargetShape DEF TypeOK
  <2>2. QED
    BY <1>4, <2>1 DEF BeginCycle, TypeOK, FrameInv, InLoop, PC
<1>5. ASSUME NEW quit \in BOOLEAN, EndCycle(quit)
      PROVE  TypeInv'
  <2>0. error' \in {0, -1}
    BY <1>5 DEF EndCycle, Latch, TypeOK
  <2>1. /\ pc' \in {"cycle", "done"} /\ cycle' \in Nat
        /\ status' \in {0, -1, -100}
        /\ quits' \subseteq {"list", "cycle", "pause"}
    <3>1. /\ status = -100 => pc' = "done" /\ status' = status /\ cycle' = cycle
                              /\ quits' = quits
          /\ status # -100 /\ quit => pc' = "done" /\ status' = -100
                              /\ cycle' = cycle /\ quits' = quits \union {"cycle"}
          /\ status # -100 /\ ~quit => cycle' = cycle + 1 /\ quits' = quits
                              /\ pc' \in {"cycle", "done"}
                              /\ status' \in {status, error'}
      BY <1>5 DEF EndCycle, Aborted
    <3>2. cycle \in Nat /\ status \in {0, -1, -100}
          /\ quits \subseteq {"list", "cycle", "pause"}
      BY DEF TypeOK
    <3>3. CASE status = -100
      BY <3>1, <3>2, <3>3
    <3>4. CASE status # -100 /\ quit
      BY <3>1, <3>2, <3>4
    <3>5. CASE status # -100 /\ ~quit
      <4>1. cycle' = cycle + 1 /\ quits' = quits
            /\ pc' \in {"cycle", "done"} /\ status' \in {status, error'}
        BY <3>1, <3>5
      <4>2. cycle' \in Nat
        BY <4>1, <3>2
      <4>3. status' \in {0, -1, -100}
        BY <2>0, <4>1, <3>2
      <4>4. QED
        BY <4>1, <4>2, <4>3, <3>2
    <3>6. QED
      BY <3>3, <3>4, <3>5
  <2>2. QED
    BY <1>5, <2>0, <2>1 DEF EndCycle, TypeOK, FrameInv, InLoop, PC
<1>6. CASE Finish
  <2>1. pc' = "idle" /\ frame' = NoFrame /\ iter' = 0 /\ listno' = 1
        /\ cycle' = 0 /\ logging' = FALSE
        /\ UNCHANGED << target, mode, cycles, error, status, policy >>
        /\ UNCHANGED << quits, struck, ran, tries >>
    BY <1>6 DEF Finish, history
  <2>2. verdict' \in {"fail", "abort", "pass"}
    BY <1>6 DEF Finish, Verdict
  <2>3. listno' \in 1 .. NumLists + 1
    BY <2>1, TestExecAssumption
  <2>4. QED
    BY <1>1, <2>1, <2>2, <2>3 DEF TypeOK, FrameInv, InLoop, PC
<1>7. CASE NextList
  <2>1. listno \in List /\ Size[listno] \in Nat /\ listno \in 0 .. NumLists
    BY <1>7, TestExecAssumption DEF NextList, TypeOK, List
  <2>2. frame' \in Frame /\ frame'.list = listno
        /\ frame'.items = Size[listno] /\ frame'.index = 1
    BY <1>7, <2>1, NewFrameType DEF NextList
  <2>3. QED
    BY <1>7, <2>1, <2>2 DEF NextList, TypeOK, FrameInv, InLoop, PC
<1>8. CASE EndMaster
  BY <1>8 DEF EndMaster, TypeOK, FrameInv, InLoop, PC, history
<1>9. QED
  BY <1>2, <1>3, <1>4, <1>5, <1>6, <1>7, <1>8

(* Steps of the loop over the items.                                       *)
LEMMA LoopType ==
  ASSUME TypeInv,
         \/ NextTest \/ LeaveList \/ Execute(TRUE) \/ Execute(FALSE)
         \/ NoInterrupt \/ Interrupt \/ Obey
  PROVE  TypeInv'
<1>0. /\ frame \in Frame /\ iter \in Nat /\ tries \in Nat
      /\ quits \subseteq {"list", "cycle", "pause"}
      /\ struck \in BOOLEAN /\ ran \in BOOLEAN
      /\ frame.rv \in {0, -1} /\ frame.index \in Nat \union {-1}
      /\ frame.last \in Nat \union {-1} /\ frame.items \in Nat
      /\ frame.loop \in Nat /\ frame.retry \in 0 .. 3
      /\ frame.rv \in {0, -1, -100}
  BY DEF TypeInv, TypeOK, Frame
<1>1. pc \in {"exec", "policy"} =>
        frame.index \in 0 .. frame.items /\ frame.items # 0
  BY DEF TypeInv, FrameInv, InLoop
<1>1a. pc \in InLoop /\ frame.items = 0 => frame.index # 0
  BY DEF TypeInv, FrameInv
<1>2. CASE NextTest
  <2>1. pc = "list" /\ frame.index \in 0 .. frame.items /\ Stay("exec")
        /\ iter' = 0 /\ tries' = tries + 1 /\ frame' = frame
        /\ quits' = quits /\ struck' = struck /\ ran' = ran
    BY <1>2 DEF NextTest
  <2>2. frame' \in Frame /\ iter' \in Nat /\ tries' \in Nat
        /\ quits' \subseteq {"list", "cycle", "pause"}
        /\ struck' \in BOOLEAN /\ ran' \in BOOLEAN
    BY <1>0, <2>1
  <2>3. frame.items = 0 => frame'.index # 0
    BY <1>1a, <2>1 DEF InLoop
  <2>4. QED
    BY <2>1, <2>2, <2>3, StayType DEF InLoop
<1>3. CASE LeaveList
  <2>1. pc = "list" /\ Return(frame.rv) /\ frame' = frame
        /\ quits' = quits /\ struck' = struck /\ ran' = ran /\ tries' = tries
    BY <1>3 DEF LeaveList, history
  <2>2. QED
    BY <1>0, <2>1, ReturnType DEF InLoop
<1>4. ASSUME NEW ok \in BOOLEAN, Execute(ok)
      PROVE  TypeInv'
  <2>1. PICK next \in {"exec", "policy"} : Stay(next)
    BY <1>4 DEF Execute
  <2>2. pc = "exec" /\ frame' = [frame EXCEPT !.rv = IF ok THEN 0 ELSE -1]
        /\ iter' = iter + 1 /\ ran' = TRUE
        /\ quits' = quits /\ struck' = struck /\ tries' = tries
    BY <1>4 DEF Execute
  <2>3. frame' \in Frame /\ frame'.list = frame.list
        /\ frame'.items = frame.items /\ frame'.index = frame.index
    BY <1>0, <2>2 DEF Frame
  <2>4. QED
    BY <1>0, <1>1, <2>1, <2>2, <2>3, StayType DEF InLoop
<1>5. CASE NoInterrupt
  <2>1. pc = "poll" /\ Stay("list") /\ frame' = frame /\ iter' = iter
        /\ quits' = quits /\ struck' = struck /\ ran' = ran /\ tries' = tries
    BY <1>5 DEF NoInterrupt, history
  <2>2. QED
    BY <1>0, <1>1a, <2>1, StayType DEF InLoop
<1>6. CASE Interrupt
  <2>1. pc \in {"policy", "poll"} /\ Return(-100) /\ frame' = frame
        /\ quits' = quits \union {"list"} /\ struck' = struck /\ ran' = ran
        /\ tries' = tries
    BY <1>6 DEF Interrupt, Polled
  <2>2. QED
    BY <1>0, <2>1, ReturnType DEF InLoop
<1>7. CASE ReturnSingle \/ Stop
  <2>1. pc = "policy" /\ Return(frame.rv) /\ frame' = frame
        /\ quits' = quits /\ struck' = (struck \/ Failed) /\ ran' = ran
        /\ tries' = tries
    BY <1>7 DEF ReturnSingle, Stop, Obeys, Deciding
  <2>2. struck' \in BOOLEAN
    BY <2>1 DEF Failed
  <2>3. QED
    BY <1>0, <2>1, <2>2, ReturnType DEF InLoop
<1>8. CASE KeepSpinning \/ Retry \/ Spin
  <2>1. /\ pc = "policy" /\ Stay("list") /\ iter' = iter /\ quits' = quits
        /\ struck' = struck /\ ran' = ran /\ tries' \in {0, tries}
        /\ \/ frame' = frame
           \/ frame' = [frame EXCEPT !.retry = @ + 1] /\ frame.retry < 3
           \/ frame' = [frame EXCEPT !.spin = TRUE, !.retry = 0]
    BY <1>8 DEF KeepSpinning, Retry, Spin, Obeys, Deciding, history,
                RetriesLeft, NoRetries
  <2>2. frame' \in Frame /\ frame'.list = frame.list
        /\ frame'.items = frame.items /\ frame'.index = frame.index
    <3>1. CASE frame' = frame
      BY <1>0, <3>1
    <3>2. CASE frame' = [frame EXCEPT !.retry = @ + 1] /\ frame.retry < 3
      <4>1. frame.retry + 1 \in 0 .. 3
        BY <1>0, <3>2
      <4>2. QED
        BY <1>0, <3>2, <4>1 DEF Frame
    <3>3. CASE frame' = [frame EXCEPT !.spin = TRUE, !.retry = 0]
      <4>1. [frame EXCEPT !.spin = TRUE] \in Frame
        BY <1>0 DEF Frame
      <4>2. 0 \in 0 .. 3
        OBVIOUS
      <4>3. frame' \in Frame
        BY <3>3, <4>1, <4>2 DEF Frame
      <4>4. QED
        BY <1>0, <3>3, <4>3 DEF Frame
    <3>4. QED
      BY <2>1, <3>1, <3>2, <3>3
  <2>3. QED
    BY <1>0, <1>1, <2>1, <2>2, StayType DEF InLoop
<1>9. CASE \/ Jump \/ Advance \/ Skip \/ Ignore \/ Pause(TRUE) \/ Pause(FALSE)
           \/ Back \/ CountLoop \/ Forgive
  <2>1. pc = "policy"
    BY <1>9 DEF Jump, Advance, Skip, Ignore, Pause, Back, CountLoop, Forgive,
                Obeys, Deciding
  <2>2. quits' \subseteq {"list", "cycle", "pause"}
    BY <1>0, <1>9 DEF Jump, Advance, Skip, Ignore, Pause, Back, CountLoop, Forgive
  <2>3. Decision.arg \in Nat
    BY <2>1, DecisionType
  <2>4. PICK to \in Nat \union {-1}, last \in Nat \union {-1},
             rv \in {0, -1}, loop \in Nat : Move(to, last, rv, loop)
    <3>1. /\ frame.index + 1 \in Nat \union {-1}
          /\ frame.index + 2 \in Nat \union {-1}
          /\ Decision.arg - 1 \in Nat \union {-1}
          /\ frame.loop # 0 => frame.loop - 1 \in Nat
      BY <1>0, <2>3
    <3>2. QED
      BY <1>0, <1>9, <2>3, <3>1
         DEF Jump, Advance, Skip, Ignore, Pause, Back, CountLoop, Forgive,
             NextIndex
  <2>5. QED
    BY <2>1, <2>2, <2>4, MoveType
<1>10. QED
  BY <1>2, <1>3, <1>4, <1>5, <1>6, <1>7, <1>8, <1>9 DEF Obey

LEMMA TypeStep == TypeInv /\ [Next]_vars => TypeInv'
<1> SUFFICES ASSUME TypeInv, [Next]_vars PROVE TypeInv'
  OBVIOUS
<1>1. CASE Next
  BY <1>1, OuterType, LoopType, TestExecAssumption DEF Next, Engine, Quit
<1>2. CASE UNCHANGED vars
  BY <1>2 DEF vars, run, history, TypeInv, TypeOK, FrameInv
<1>3. QED
  BY <1>1, <1>2

LEMMA TypeInvariant == Spec => []TypeInv
BY InitType, TypeStep, PTL DEF Spec

(* Every variable keeps its type; in particular the engine reads a policy  *)
(* only of a test that exists.                                             *)
THEOREM Typing == Spec => []TypeOK
<1>1. TypeInv => TypeOK
  BY DEF TypeInv
<1>2. QED
  BY <1>1, TypeInvariant, PTL

-----------------------------------------------------------------------------
(* Where a failure that ended a list is remembered on its way to the       *)
(* verdict, and where an abort comes from.                                 *)
StrikeInv ==
  struck => \/ pc = "cycled" /\ status = -1
            \/ pc \notin {"idle", "done"} /\ error = -1
            \/ pc = "done" /\ status \in {-1, -100}
            \/ pc = "idle" /\ verdict \in {"fail", "abort"}

AbortInv ==
  /\ status = -100 => Confirmed # {}
  /\ verdict = "abort" => Confirmed # {}

VerdictInv == TypeInv /\ StrikeInv /\ AbortInv /\ AbortHonoured

LEMMA InitVerdict == Init => VerdictInv
BY InitType DEF Init, VerdictInv, StrikeInv, AbortInv, AbortHonoured

(* A return from the loop over the items keeps the failure it carries: -1  *)
(* goes to the cycle loop at once, past the rest of the master list.       *)
LEMMA ReturnVerdict ==
  ASSUME VerdictInv, pc \in InLoop, NEW v \in {0, -1, -100}, Return(v),
         \/ struck' = struck /\ (v # -100 => quits' = quits)
         \/ struck' = (struck \/ v = -1) /\ quits' = quits /\ v \in {0, -1},
         v = -100 => quits' = quits \union {"list"}
  PROVE  StrikeInv' /\ AbortInv' /\ AbortHonoured'
<1>1. /\ status' = v /\ error' = error /\ verdict' = verdict /\ target' = target
      /\ pc' \in {"master", "cycled"}
      /\ pc' = "master" <=> (target.kind = "master" /\ v # -1)
  BY DEF Return
<1>2. struck => error = -1
  BY DEF VerdictInv, StrikeInv, InLoop
<1>3. StrikeInv'
  BY <1>1, <1>2 DEF StrikeInv
<1>4. quits \subseteq quits' /\ (v = -100 => "list" \in quits')
  OBVIOUS
<1>5. AbortInv'
  BY <1>1, <1>4 DEF VerdictInv, AbortInv, Confirmed
<1>6. AbortHonoured'
  BY <1>1, <1>4 DEF VerdictInv, AbortHonoured, Ended, InLoop
<1>7. QED
  BY <1>3, <1>5, <1>6

(* A step that stays in the loop cannot lose a failure, and no step is     *)
(* taken there after an abort that is to be honoured.                      *)
LEMMA StayVerdict ==
  ASSUME VerdictInv, pc \in InLoop, NEW next \in InLoop, Stay(next),
         struck' = struck,
         quits' \in {quits, quits \union {"pause"}}
  PROVE  StrikeInv' /\ AbortInv' /\ AbortHonoured'
<1>1. /\ pc' = next /\ status' = status /\ error' = error
      /\ verdict' = verdict /\ target' = target
  BY DEF Stay
<1>2. StrikeInv'
  BY <1>1 DEF VerdictInv, StrikeInv, InLoop
<1>3. AbortInv'
  BY <1>1 DEF VerdictInv, AbortInv, Confirmed
<1>4. AbortHonoured'
  BY <1>1 DEF VerdictInv, AbortHonoured, Ended, InLoop
<1>5. QED
  BY <1>2, <1>3, <1>4

LEMMA LoopVerdict ==
  ASSUME VerdictInv,
         \/ NextTest \/ LeaveList \/ Execute(TRUE) \/ Execute(FALSE)
         \/ NoInterrupt \/ Interrupt \/ Obey
  PROVE  StrikeInv' /\ AbortInv' /\ AbortHonoured'
<1>0. frame.rv \in {0, -1}
  BY DEF VerdictInv, TypeInv, TypeOK, Frame
<1>1. CASE NextTest
  BY <1>1, StayVerdict DEF NextTest, InLoop
<1>2. CASE LeaveList
  <2>1. pc = "list" /\ Return(frame.rv) /\ struck' = struck /\ quits' = quits
    BY <1>2 DEF LeaveList, history
  <2>2. QED
    BY <1>0, <2>1, ReturnVerdict DEF InLoop
<1>3. ASSUME NEW ok \in BOOLEAN, Execute(ok)
      PROVE  StrikeInv' /\ AbortInv' /\ AbortHonoured'
  <2>1. PICK next \in {"exec", "policy"} : Stay(next)
    BY <1>3 DEF Execute
  <2>2. pc = "exec" /\ struck' = struck /\ quits' = quits
    BY <1>3 DEF Execute
  <2>3. QED
    BY <2>1, <2>2, StayVerdict DEF InLoop
<1>4. CASE NoInterrupt
  BY <1>4, StayVerdict DEF NoInterrupt, InLoop, history
<1>5. CASE Interrupt
  <2>1. pc \in InLoop /\ Return(-100) /\ struck' = struck
        /\ quits' = quits \union {"list"}
    BY <1>5 DEF Interrupt, Polled, InLoop
  <2>2. QED
    BY <2>1, ReturnVerdict
<1>6. CASE ReturnSingle \/ Stop
  <2>1. pc = "policy" /\ Return(frame.rv) /\ quits' = quits
        /\ struck' = (struck \/ Failed)
    BY <1>6 DEF ReturnSingle, Stop, Obeys, Deciding
  <2>2. struck' = (struck \/ frame.rv = -1)
    BY <1>0, <2>1 DEF Failed
  <2>3. QED
    BY <1>0, <2>1, <2>2, ReturnVerdict DEF InLoop
<1>7. CASE KeepSpinning \/ Retry \/ Spin
  <2>1. pc = "policy" /\ Stay("list") /\ struck' = struck /\ quits' = quits
    BY <1>7 DEF KeepSpinning, Retry, Spin, Obeys, Deciding, history
  <2>2. QED
    BY <2>1, StayVerdict DEF InLoop
<1>8. CASE \/ Jump \/ Advance \/ Skip \/ Ignore \/ Pause(TRUE) \/ Pause(FALSE)
           \/ Back \/ CountLoop \/ Forgive
  <2>1. /\ pc = "policy" /\ Stay("poll") /\ struck' = struck
        /\ quits' \in {quits, quits \union {"pause"}}
    BY <1>8 DEF Jump, Advance, Skip, Ignore, Pause, Back, CountLoop, Forgive,
                Obeys, Deciding, Move
  <2>2. QED
    BY <2>1, StayVerdict DEF InLoop
<1>9. QED
  BY <1>1, <1>2, <1>3, <1>4, <1>5, <1>6, <1>7, <1>8 DEF Obey

LEMMA OuterVerdict ==
  ASSUME VerdictInv,
         \/ Edit \/ Begin \/ BeginCycle \/ EndCycle(TRUE) \/ EndCycle(FALSE)
         \/ Finish \/ NextList \/ EndMaster
  PROVE  StrikeInv' /\ AbortInv' /\ AbortHonoured'
<1> USE DEF VerdictInv, StrikeInv, AbortInv, AbortHonoured, Confirmed, Ended
<1>1. CASE Edit
  BY <1>1 DEF Edit, EditPass, EditFail, run, history
<1>2. CASE Begin
  BY <1>2 DEF Begin, Go
<1>3. CASE BeginCycle
  <2>1. /\ pc = "cycle" /\ status' = 0 /\ error' = error
        /\ verdict' = verdict /\ quits' = quits /\ struck' = struck
        /\ target' = target
    BY <1>3 DEF BeginCycle
  <2>2. target.kind \in {"master", "list", "test"}
    BY DEF TypeInv, TypeOK, AllTargets, Master, OneList, OneTest
  <2>3. pc' \in {"master", "list"}
    BY <1>3, <2>2 DEF BeginCycle
  <2>4. QED
    BY <2>1, <2>3
<1>4. ASSUME NEW quit \in BOOLEAN, EndCycle(quit)
      PROVE  StrikeInv' /\ AbortInv' /\ AbortHonoured'
  <2>1. /\ pc = "cycled" /\ status \in {0, -1, -100} /\ error \in {0, -1}
        /\ error' = (IF status = -1 THEN -1 ELSE error)
        /\ struck' = struck /\ verdict' = verdict /\ target' = target
    BY <1>4 DEF EndCycle, Latch, TypeInv, TypeOK
  <2>2. CASE status = -100
    <3>1. pc' = "done" /\ status' = -100 /\ quits' = quits
      BY <1>4, <2>2 DEF EndCycle, Aborted
    <3>2. QED
      BY <2>1, <2>2, <3>1
  <2>3. CASE status # -100 /\ quit
    <3>1. pc' = "done" /\ status' = -100 /\ quits' = quits \union {"cycle"}
      BY <1>4, <2>3 DEF EndCycle, Aborted
    <3>2. QED
      BY <2>1, <2>3, <3>1
  <2>4. CASE status # -100 /\ ~quit
    <3>1. /\ quits' = quits
          /\ \/ pc' = "cycle" /\ status' = status
             \/ pc' = "done" /\ status' = error'
      BY <1>4, <2>4 DEF EndCycle, Aborted
    <3>2. QED
      BY <2>1, <2>4, <3>1
  <2>5. QED
    BY <2>2, <2>3, <2>4
<1>5. CASE Finish
  <2>1. /\ pc = "done" /\ pc' = "idle" /\ status' = status
        /\ target' = target /\ quits' = quits /\ struck' = struck
    BY <1>5 DEF Finish, history
  <2>2. /\ status = -1 => verdict' = "fail"
        /\ status = -100 => verdict' = "abort"
        /\ status = 0 => verdict' = "pass"
    BY <1>5 DEF Finish, Verdict
  <2>3. status \in {0, -1, -100}
    BY DEF TypeInv, TypeOK
  <2>4. QED
    BY <2>1, <2>2, <2>3
<1>6. CASE NextList
  BY <1>6 DEF NextList
<1>7. CASE EndMaster
  BY <1>7 DEF EndMaster, history
<1>8. QED
  BY <1>1, <1>2, <1>3, <1>4, <1>5, <1>6, <1>7

LEMMA VerdictStep == VerdictInv /\ [Next]_vars => VerdictInv'
<1> SUFFICES ASSUME VerdictInv, [Next]_vars PROVE VerdictInv'
  OBVIOUS
<1>1. TypeInv'
  BY TypeStep DEF VerdictInv
<1>2. CASE Next
  BY <1>1, <1>2, OuterVerdict, LoopVerdict DEF Next, Engine, Quit, VerdictInv
<1>3. CASE UNCHANGED vars
  BY <1>1, <1>3 DEF vars, run, history, VerdictInv, StrikeInv, AbortInv,
                    AbortHonoured, Confirmed
<1>4. QED
  BY <1>2, <1>3

LEMMA VerdictInvariant == Spec => []VerdictInv
BY InitVerdict, VerdictStep, PTL DEF Spec

(* A failure under a policy that ends the list always reaches the verdict. *)
THEOREM FailureReported == Spec => []StrikeDecides
<1>1. VerdictInv => StrikeDecides
  BY DEF VerdictInv, StrikeInv, AbortInv, StrikeDecides
<1>2. QED
  BY <1>1, VerdictInvariant, PTL

(* No run is reported as aborted unless the operator confirmed a ^C.       *)
THEOREM NoSpuriousAbort == Spec => []AbortNeedsOperator
<1>1. VerdictInv => AbortNeedsOperator
  BY DEF VerdictInv, AbortInv, AbortNeedsOperator
<1>2. QED
  BY <1>1, VerdictInvariant, PTL

(* A confirmed ^C ends every run that is not a master list run.            *)
THEOREM AbortEndsListRun == Spec => []AbortHonoured
<1>1. VerdictInv => AbortHonoured
  BY DEF VerdictInv
<1>2. QED
  BY <1>1, VerdictInvariant, PTL

-----------------------------------------------------------------------------
(* The retries spent are counted for the test that is current, whatever    *)
(* policies led to it.                                                     *)
RetryInv ==
  /\ pc = "list" /\ ~frame.spin => tries = frame.retry
  /\ pc \in {"exec", "policy"} /\ ~frame.spin => tries = frame.retry + 1
  /\ pc = "poll" => ~frame.spin /\ frame.retry = 0 /\ tries = 0

(* A spin stays on a test of the list, in a loop that no result can leave. *)
SpinInv ==
  frame.spin =>
    \/ "list" \in quits
    \/ /\ pc \in {"list", "exec", "policy"}
       /\ frame.index \in 0 .. frame.items
       /\ ~SingleTest

RepeatInv == TypeInv /\ RetryInv /\ SpinInv

LEMMA InitRepeat == Init => RepeatInv
BY InitType DEF Init, RepeatInv, RetryInv, SpinInv, NoFrame, NewFrame

LEMMA SingleTestKept ==
  ASSUME target' = target
  PROVE  SingleTest' <=> SingleTest
<1>1. CASE target.kind = "test"
  <2>1. Current = <<target.list, target.test>>
        /\ Current' = <<target.list, target.test>>
    BY <1>1 DEF Current
  <2>2. QED
    BY <2>1 DEF SingleTest
<1>2. CASE target.kind # "test"
  BY <1>2 DEF SingleTest
<1>3. QED
  BY <1>1, <1>2

LEMMA MoveRepeat ==
  ASSUME RepeatInv, Deciding, NEW to, NEW last, NEW rv, NEW loop,
         Move(to, last, rv, loop)
  PROVE  RetryInv' /\ SpinInv' /\ frame'.spin = frame.spin
<1>1. pc' = "poll" /\ tries' = 0 /\ frame.spin = FALSE
  BY DEF Move, Stay, Deciding, RepeatInv, TypeInv, TypeOK, Frame
<1>2. frame'.spin = frame.spin /\ frame'.retry = 0
  BY DEF Move, NoRetries, RepeatInv, TypeInv, TypeOK, Frame
<1>3. QED
  BY <1>1, <1>2 DEF RetryInv, SpinInv

(* A step of the loop keeps both, and only an interrupt ends a spin.       *)
LEMMA LoopRepeat ==
  ASSUME RepeatInv,
         \/ NextTest \/ LeaveList \/ Execute(TRUE) \/ Execute(FALSE)
         \/ NoInterrupt \/ Interrupt \/ Obey
  PROVE  RetryInv' /\ SpinInv' /\ frame'.spin \in {frame.spin, TRUE}
<1>0. frame \in Frame /\ tries \in Nat /\ frame.spin \in BOOLEAN
      /\ frame.retry \in 0 .. 3
  BY DEF RepeatInv, TypeInv, TypeOK, Frame
<1>1. CASE NextTest
  <2>1. /\ pc = "list" /\ pc' = "exec" /\ target' = target /\ frame' = frame
        /\ tries' = tries + 1 /\ quits' = quits
    BY <1>1 DEF NextTest, Stay
  <2>2. SingleTest' <=> SingleTest
    BY <2>1, SingleTestKept
  <2>3. QED
    BY <1>0, <2>1, <2>2 DEF RepeatInv, RetryInv, SpinInv
<1>2. CASE LeaveList
  <2>1. /\ pc = "list" /\ frame.index \notin 0 .. frame.items
        /\ pc' \in {"master", "cycled"} /\ frame' = frame /\ quits' = quits
    BY <1>2 DEF LeaveList, Return, history
  <2>2. QED
    BY <2>1 DEF RepeatInv, RetryInv, SpinInv
<1>3. ASSUME NEW ok \in BOOLEAN, Execute(ok)
      PROVE  RetryInv' /\ SpinInv' /\ frame'.spin \in {frame.spin, TRUE}
  <2>1. /\ pc = "exec" /\ pc' \in {"exec", "policy"} /\ target' = target
        /\ tries' = tries /\ quits' = quits
    BY <1>3 DEF Execute, Stay
  <2>2. /\ frame'.spin = frame.spin /\ frame'.retry = frame.retry
        /\ frame'.index = frame.index /\ frame'.items = frame.items
    BY <1>0, <1>3 DEF Execute, Frame
  <2>3. SingleTest' <=> SingleTest
    BY <2>1, SingleTestKept
  <2>4. QED
    BY <2>1, <2>2, <2>3 DEF RepeatInv, RetryInv, SpinInv
<1>4. CASE NoInterrupt
  <2>1. /\ pc = "poll" /\ pc' = "list" /\ frame' = frame /\ tries' = tries
        /\ quits' = quits
    BY <1>4 DEF NoInterrupt, Stay, history
  <2>2. QED
    BY <2>1 DEF RepeatInv, RetryInv, SpinInv
<1>5. CASE Interrupt
  <2>1. /\ pc' \in {"master", "cycled"} /\ frame' = frame
        /\ quits' = quits \union {"list"}
    BY <1>5 DEF Interrupt, Return
  <2>2. QED
    BY <2>1 DEF RetryInv, SpinInv
<1>6. CASE ReturnSingle
  <2>1. /\ pc = "policy" /\ pc' \in {"master", "cycled"} /\ frame' = frame
        /\ quits' = quits /\ SingleTest
    BY <1>6 DEF ReturnSingle, Return
  <2>2. QED
    BY <2>1 DEF RepeatInv, RetryInv, SpinInv
<1>7. CASE Stop
  <2>1. Deciding /\ Return(frame.rv) /\ frame' = frame /\ quits' = quits
    BY <1>7 DEF Stop, Obeys
  <2>2. pc' \in {"master", "cycled"} /\ ~frame.spin
    BY <2>1 DEF Return, Deciding
  <2>3. QED
    BY <2>1, <2>2 DEF RetryInv, SpinInv
<1>8. CASE KeepSpinning
  <2>1. /\ pc = "policy" /\ frame.spin /\ pc' = "list" /\ frame' = frame
        /\ quits' = quits /\ target' = target
    BY <1>8 DEF KeepSpinning, Stay
  <2>2. SingleTest' <=> SingleTest
    BY <2>1, SingleTestKept
  <2>3. QED
    BY <2>1, <2>2 DEF RepeatInv, RetryInv, SpinInv
<1>9. CASE Retry
  <2>1. /\ Deciding /\ pc' = "list" /\ tries' = tries
        /\ frame' = [frame EXCEPT !.retry = @ + 1]
    BY <1>9 DEF Retry, Obeys, Stay, history
  <2>2. /\ frame'.spin = frame.spin /\ frame'.retry = frame.retry + 1
        /\ frame.spin = FALSE /\ pc = "policy"
    BY <1>0, <2>1 DEF Frame, Deciding
  <2>3. QED
    BY <2>1, <2>2 DEF RepeatInv, RetryInv, SpinInv
<1>10. CASE Spin
  <2>1. /\ Deciding /\ pc' = "list" /\ target' = target
        /\ frame' = NoRetries([frame EXCEPT !.spin = TRUE])
    BY <1>10 DEF Spin, Obeys, Stay
  <2>2. /\ frame'.spin = TRUE /\ frame'.index = frame.index
        /\ frame'.items = frame.items
    BY <1>0, <2>1 DEF Frame, NoRetries
  <2>3. frame.index \in 0 .. frame.items /\ ~SingleTest
    BY <2>1 DEF RepeatInv, TypeInv, FrameInv, Deciding
  <2>4. SingleTest' <=> SingleTest
    BY <2>1, SingleTestKept
  <2>5. QED
    BY <2>1, <2>2, <2>3, <2>4 DEF RetryInv, SpinInv
<1>11. CASE \/ Jump \/ Advance \/ Skip \/ Ignore \/ Pause(TRUE) \/ Pause(FALSE)
            \/ Back \/ CountLoop \/ Forgive
  <2>1. Deciding
    BY <1>11 DEF Jump, Advance, Skip, Ignore, Pause, Back, CountLoop, Forgive,
                 Obeys
  <2>2. \E to, last, rv, loop : Move(to, last, rv, loop)
    BY <1>11 DEF Jump, Advance, Skip, Ignore, Pause, Back, CountLoop, Forgive
  <2>3. QED
    BY <2>1, <2>2, MoveRepeat
<1>12. QED
  BY <1>1, <1>2, <1>3, <1>4, <1>5, <1>6, <1>7, <1>8, <1>9, <1>10, <1>11
     DEF Obey

LEMMA OuterRepeat ==
  ASSUME RepeatInv,
         \/ Edit \/ Begin \/ BeginCycle \/ EndCycle(TRUE) \/ EndCycle(FALSE)
         \/ Finish \/ NextList \/ EndMaster
  PROVE  /\ RetryInv' /\ SpinInv'
         /\ frame.spin /\ ~frame'.spin => "list" \in quits
<1>1. pc \notin InLoop
  BY DEF Edit, EditPass, EditFail, Begin, Go, BeginCycle, EndCycle, Finish,
         NextList, EndMaster, InLoop
<1>2. frame.spin => "list" \in quits
  BY <1>1 DEF RepeatInv, SpinInv, InLoop
<1>3. CASE Edit
  BY <1>2, <1>3 DEF Edit, EditPass, EditFail, run, history, RepeatInv, RetryInv,
                    SpinInv
<1>4. CASE Begin \/ Finish
  <2>1. pc' \in {"done", "cycle", "idle"} /\ frame' = NoFrame
    BY <1>4 DEF Begin, Go, Finish
  <2>2. QED
    BY <1>2, <2>1 DEF RetryInv, SpinInv, NoFrame, NewFrame
<1>5. CASE BeginCycle
  <2>1. target.kind \in {"master", "list", "test"}
    BY DEF RepeatInv, TypeInv, TypeOK, AllTargets, Master, OneList, OneTest
  <2>2. tries' = 0 /\ pc' \in {"master", "list"} /\ ~frame'.spin
        /\ frame'.retry = 0
    <3>1. CASE target.kind = "master"
      BY <1>5, <3>1 DEF BeginCycle, NoFrame, NewFrame
    <3>2. CASE target.kind = "list"
      BY <1>5, <3>2 DEF BeginCycle, NewFrame
    <3>3. CASE target.kind = "test"
      BY <1>5, <3>3 DEF BeginCycle, NewFrame
    <3>4. QED
      BY <2>1, <3>1, <3>2, <3>3
  <2>3. QED
    BY <1>2, <2>2 DEF RetryInv, SpinInv
<1>6. CASE EndCycle(TRUE) \/ EndCycle(FALSE)
  <2>1. pc' \in {"done", "cycle"} /\ frame' = frame /\ quits \subseteq quits'
    BY <1>6 DEF EndCycle
  <2>2. QED
    BY <1>2, <2>1 DEF RetryInv, SpinInv
<1>7. CASE NextList
  <2>1. tries' = 0 /\ pc' = "list" /\ ~frame'.spin /\ frame'.retry = 0
    BY <1>7 DEF NextList, NewFrame
  <2>2. QED
    BY <1>2, <2>1 DEF RetryInv, SpinInv
<1>8. CASE EndMaster
  <2>1. pc' = "cycled" /\ frame' = frame /\ quits' = quits
    BY <1>8 DEF EndMaster, history
  <2>2. QED
    BY <1>2, <2>1 DEF RetryInv, SpinInv
<1>9. QED
  BY <1>3, <1>4, <1>5, <1>6, <1>7, <1>8

LEMMA RepeatStep ==
  ASSUME RepeatInv, [Next]_vars
  PROVE  /\ RepeatInv'
         /\ [frame.spin /\ ~frame'.spin => "list" \in quits]_vars
<1>1. TypeInv'
  BY TypeStep DEF RepeatInv
<1>2. CASE \/ NextTest \/ LeaveList \/ Execute(TRUE) \/ Execute(FALSE)
           \/ NoInterrupt \/ Interrupt \/ Obey
  <2>1. RetryInv' /\ SpinInv' /\ frame'.spin \in {frame.spin, TRUE}
    BY <1>2, LoopRepeat
  <2>2. QED
    BY <1>1, <2>1 DEF RepeatInv
<1>3. CASE \/ Edit \/ Begin \/ BeginCycle \/ EndCycle(TRUE) \/ EndCycle(FALSE)
           \/ Finish \/ NextList \/ EndMaster
  BY <1>1, <1>3, OuterRepeat DEF RepeatInv
<1>4. CASE UNCHANGED vars
  <2>1. pc' = pc /\ frame' = frame /\ tries' = tries /\ quits' = quits
        /\ target' = target
    BY <1>4 DEF vars, run, history
  <2>2. SingleTest' <=> SingleTest
    BY <2>1, SingleTestKept
  <2>3. QED
    BY <1>1, <1>4, <2>1, <2>2 DEF RepeatInv, RetryInv, SpinInv
<1>5. QED
  BY <1>2, <1>3, <1>4 DEF Next, Engine, Quit

LEMMA RepeatInvariant == Spec => []RepeatInv
BY InitRepeat, RepeatStep, PTL DEF Spec

(* A test is repeated at most three times, and no other test uses up its   *)
(* retries.                                                                *)
THEOREM RetriesBounded == Spec => []RetryAllowance
<1>1. RepeatInv => RetryAllowance
  <2> SUFFICES ASSUME RepeatInv, Obeys({"retry"})
               PROVE  tries = frame.retry + 1 /\ tries <= 4
    BY DEF RetryAllowance
  <2>1. pc = "policy" /\ ~frame.spin /\ frame.retry \in 0 .. 3
    BY DEF Obeys, Deciding, RepeatInv, TypeInv, TypeOK, Frame
  <2>2. tries = frame.retry + 1
    BY <2>1 DEF RepeatInv, RetryInv
  <2>3. QED
    BY <2>1, <2>2
<1>2. QED
  BY <1>1, RepeatInvariant, PTL

(* Nothing but a ^C of the operator ends a spin.                           *)
THEOREM SpinForever == Spec => SpinUntilQuit
BY RepeatStep, RepeatInvariant, PTL DEF Spec, SpinUntilQuit

-----------------------------------------------------------------------------
(* Item 0 is reached by a jump to item 1, or by going back to where such a *)
(* jump came from; the policies do not change while the engine runs.       *)
JumpInv ==
  pc \in InLoop /\ (frame.index = 0 \/ frame.last = 0) => JumpsToRun

JumpTypeInv == TypeInv /\ JumpInv

(* A move to an item the current one leads to keeps it, if a move to item  *)
(* 0 is a jump there.                                                      *)
LEMMA MoveJump ==
  ASSUME JumpTypeInv, pc = "policy", NEW to, NEW last \in {frame.index, frame.last},
         NEW rv, NEW loop, Move(to, last, rv, loop),
         to = 0 => JumpsToRun
  PROVE  JumpInv'
<1>1. frame'.index = to /\ frame'.last = last /\ policy' = policy
  BY DEF Move, Stay, NoRetries, JumpTypeInv, TypeInv, TypeOK, Frame
<1>2. JumpsToRun' <=> JumpsToRun
  BY <1>1 DEF JumpsToRun
<1>3. frame.index = 0 \/ frame.last = 0 => JumpsToRun
  BY DEF JumpTypeInv, JumpInv, InLoop
<1>4. QED
  BY <1>1, <1>2, <1>3 DEF JumpInv

(* What a jump to item 1 says of the policies.                             *)
LEMMA JumpFound ==
  ASSUME JumpTypeInv, pc = "policy", Decision.word = "jump", Decision.arg = 1
  PROVE  JumpsToRun
<1>1. Current \in Test
  BY CurrentIsTest DEF JumpTypeInv
<1>2. policy[Current].pass \in Action /\ policy[Current].fail \in Action
  BY <1>1, TestExecAssumption DEF JumpTypeInv, TypeInv, TypeOK
<1>3. \E track \in {"pass", "fail"} : Decision = policy[Current][track]
  BY DEF Decision
<1>4. PICK track \in {"pass", "fail"} : Decision = policy[Current][track]
  BY <1>3
<1>5. policy[Current][track] = [word |-> "jump", arg |-> 1]
  BY <1>2, <1>4 DEF Action
<1>6. QED
  BY <1>1, <1>5 DEF JumpsToRun

LEMMA LoopJump ==
  ASSUME JumpTypeInv,
         \/ NextTest \/ LeaveList \/ Execute(TRUE) \/ Execute(FALSE)
         \/ NoInterrupt \/ Interrupt \/ Obey
  PROVE  JumpInv'
<1>0. frame \in Frame
  BY DEF JumpTypeInv, TypeInv, TypeOK
<1>1. CASE LeaveList \/ Interrupt \/ ReturnSingle \/ Stop
  <2>1. pc' \notin InLoop
    BY <1>1 DEF LeaveList, Interrupt, ReturnSingle, Stop, Return, InLoop
  <2>2. QED
    BY <2>1 DEF JumpInv
<1>2. CASE \/ NextTest \/ Execute(TRUE) \/ Execute(FALSE) \/ NoInterrupt
           \/ KeepSpinning \/ Retry \/ Spin
  <2>1. pc \in InLoop /\ policy' = policy
    BY <1>2 DEF NextTest, Execute, NoInterrupt, KeepSpinning, Retry, Spin, Stay,
                Obeys, Deciding, InLoop
  <2>2. frame'.index = frame.index /\ frame'.last = frame.last
    BY <1>0, <1>2 DEF NextTest, Execute, NoInterrupt, KeepSpinning, Retry, Spin,
                      history, NoRetries, Frame
  <2>3. JumpsToRun' <=> JumpsToRun
    BY <2>1 DEF JumpsToRun
  <2>4. QED
    BY <2>1, <2>2, <2>3 DEF JumpTypeInv, JumpInv
<1>3. CASE Jump
  <2>1. pc = "policy" /\ Decision.word = "jump"
    BY <1>3 DEF Jump, Obeys, Deciding
  <2>2. Decision.arg \in Nat
    BY <2>1, DecisionType DEF JumpTypeInv
  <2>3. Decision.arg - 1 = 0 => JumpsToRun
    BY <2>1, <2>2, JumpFound
  <2>4. QED
    BY <1>3, <2>1, <2>3, MoveJump DEF Jump
<1>4. CASE Back
  <2>1. pc = "policy"
    BY <1>4 DEF Back, Obeys, Deciding
  <2>2. frame.last = 0 => JumpsToRun
    BY <2>1 DEF JumpTypeInv, JumpInv, InLoop
  <2>3. QED
    BY <1>4, <2>1, <2>2, MoveJump DEF Back
<1>5. CASE \/ Advance \/ Skip \/ Ignore \/ Pause(TRUE) \/ Pause(FALSE)
           \/ CountLoop \/ Forgive
  <2>1. pc = "policy"
    BY <1>5 DEF Advance, Skip, Ignore, Pause, CountLoop, Forgive, Obeys, Deciding
  <2>2. frame.index \in Nat
    BY <1>0, <2>1 DEF JumpTypeInv, TypeInv, FrameInv, Frame
  <2>3. \E to \in {frame.index + 1, frame.index + 2} : \E rv, loop :
          Move(to, frame.index, rv, loop)
    BY <1>5 DEF Advance, Skip, Ignore, Pause, CountLoop, Forgive, NextIndex
  <2>4. QED
    BY <2>1, <2>2, <2>3, MoveJump
<1>6. QED
  BY <1>1, <1>2, <1>3, <1>4, <1>5 DEF Obey

LEMMA OuterJump ==
  ASSUME JumpTypeInv,
         \/ Edit \/ Begin \/ BeginCycle \/ EndCycle(TRUE) \/ EndCycle(FALSE)
         \/ Finish \/ NextList \/ EndMaster
  PROVE  JumpInv'
<1>1. CASE BeginCycle \/ NextList
  <2>1. target.kind \in {"master", "list", "test"}
    BY TargetShape DEF JumpTypeInv, TypeInv, TypeOK
  <2>2. \E l, n : frame' = NewFrame(l, n)
    BY <1>1, <2>1 DEF BeginCycle, NextList, NoFrame
  <2>2a. frame'.index = 1 /\ frame'.last = -1
    BY <2>2 DEF NewFrame
  <2>3. QED
    BY <2>2a DEF JumpInv
<1>2. CASE \/ Edit \/ Begin \/ EndCycle(TRUE) \/ EndCycle(FALSE) \/ Finish
           \/ EndMaster
  <2>1. pc' \notin InLoop
    BY <1>2 DEF Edit, EditPass, EditFail, Begin, Go, EndCycle, Finish, EndMaster,
                run, InLoop
  <2>2. QED
    BY <2>1 DEF JumpInv
<1>3. QED
  BY <1>1, <1>2

LEMMA JumpStep == JumpTypeInv /\ [Next]_vars => JumpTypeInv'
<1> SUFFICES ASSUME JumpTypeInv, [Next]_vars PROVE JumpTypeInv'
  OBVIOUS
<1>1. TypeInv'
  BY TypeStep DEF JumpTypeInv
<1>2. CASE Next
  BY <1>1, <1>2, OuterJump, LoopJump DEF Next, Engine, Quit, JumpTypeInv
<1>3. CASE UNCHANGED vars
  BY <1>1, <1>3 DEF vars, run, history, JumpTypeInv, JumpInv, JumpsToRun
<1>4. QED
  BY <1>2, <1>3

(* Only a jump to item 1 gets the RUN item of a list menu executed.        *)
THEOREM RunItemNeedsJump == Spec => []RunItemByJump
<1>1. Init => JumpTypeInv
  BY InitType DEF Init, JumpTypeInv, JumpInv, InLoop
<1>2. JumpTypeInv => RunItemByJump
  BY DEF JumpTypeInv, JumpInv, InLoop, RunItem, RunItemByJump
<1>3. QED
  BY <1>1, <1>2, JumpStep, PTL DEF Spec

-----------------------------------------------------------------------------
(* While nothing was executed in this run the loop over the items is at    *)
(* its start, every list passed was empty, and a cycle that ended had      *)
(* nothing to execute. A verdict is shown between runs only.               *)
Untested ==
  /\ pc = "master" => \A l \in 1 .. listno - 1 : Size[l] = 0
  /\ pc = "list" =>
       /\ frame.index = 1 /\ frame.rv = 0
       /\ CASE target.kind = "master" ->
                 /\ frame.items = Size[listno]
                 /\ \A l \in 1 .. listno - 1 : Size[l] = 0
            [] target.kind = "list" -> frame.items = Size[target.list]
            [] target.kind = "test" ->
                 frame.items = Parms[<<target.list, target.test>>]
  /\ pc \notin {"policy", "poll"}
  /\ pc = "cycled" => ~Runnable
  /\ pc = "done" => ~Runnable \/ status # 0
  /\ pc = "idle" /\ verdict = "pass" => ~Runnable

RanInv ==
  /\ ~ran => Untested
  /\ pc # "idle" => verdict = "none"
  /\ pc = "master" => target.kind = "master"

RanTypeInv == TypeInv /\ RanInv

(* A loop that is left before a test was executed had no item to begin     *)
(* with.                                                                   *)
LEMMA LeaveUntested ==
  ASSUME RanTypeInv, LeaveList, ~ran
  PROVE  Untested'
<1>1. /\ pc = "list" /\ frame.index = 1 /\ frame.index \notin 0 .. frame.items
      /\ frame.items \in Nat /\ listno \in 1 .. NumLists + 1
      /\ target \in AllTargets /\ NumLists \in Nat
  BY TestExecAssumption
     DEF LeaveList, RanTypeInv, RanInv, Untested, TypeInv, TypeOK, Frame
<1>2. frame.items = 0
  BY <1>1
<1>3. /\ target' = target /\ pc' \in {"master", "cycled"}
      /\ pc' = "master" => target.kind = "master" /\ listno' = listno + 1
      /\ target.kind # "master" => pc' = "cycled"
  BY DEF LeaveList, Return
<1>4. CASE target.kind = "list"
  <2>1. Size[target.list] = 0
    BY <1>1, <1>2, <1>4 DEF RanTypeInv, RanInv, Untested
  <2>2. ~Runnable'
    BY <1>3, <1>4, <2>1 DEF Runnable
  <2>3. QED
    BY <1>3, <1>4, <2>2 DEF Untested
<1>5. CASE target.kind = "test"
  <2>1. Parms[<<target.list, target.test>>] = 0
    BY <1>1, <1>2, <1>5 DEF RanTypeInv, RanInv, Untested
  <2>2. ~Runnable'
    BY <1>3, <1>5, <2>1 DEF Runnable
  <2>3. QED
    BY <1>3, <1>5, <2>2 DEF Untested
<1>6. CASE target.kind = "master"
  <2>1. Size[listno] = 0 /\ \A l \in 1 .. listno - 1 : Size[l] = 0
    BY <1>1, <1>2, <1>6 DEF RanTypeInv, RanInv, Untested
  <2>2. \A l \in 1 .. (listno + 1) - 1 : Size[l] = 0
    BY <1>1, <2>1
  <2>3. frame.rv = 0
    BY <1>1 DEF RanTypeInv, RanInv, Untested
  <2>4. pc' = "master"
    BY <1>6, <2>3 DEF LeaveList, Return
  <2>5. QED
    BY <1>3, <2>2, <2>4 DEF Untested
<1>7. QED
  BY <1>1, <1>4, <1>5, <1>6, TargetShape

LEMMA LoopUntested ==
  ASSUME RanTypeInv, ~ran',
         \/ NextTest \/ LeaveList \/ Execute(TRUE) \/ Execute(FALSE)
         \/ NoInterrupt \/ Interrupt \/ Obey
  PROVE  Untested'
<1>1. CASE NextTest
  <2>1. pc' = "exec"
    BY <1>1 DEF NextTest, Stay
  <2>2. QED
    BY <2>1 DEF Untested
<1>2. CASE LeaveList
  BY <1>2, LeaveUntested DEF LeaveList, history
<1>3. ASSUME NEW ok \in BOOLEAN, Execute(ok) PROVE FALSE
  BY <1>3 DEF Execute
<1>4. CASE NoInterrupt \/ Interrupt \/ Obey
  <2>1. pc \in {"policy", "poll"} /\ ran' = ran
    BY <1>4 DEF NoInterrupt, Interrupt, Polled, Obey, ReturnSingle, KeepSpinning,
                Retry, Stop, Spin, Jump, Advance, Skip, Ignore, Pause, Back,
                CountLoop, Forgive, Move, Obeys, Deciding, history
  <2>2. QED
    BY <2>1 DEF RanTypeInv, RanInv, Untested
<1>5. QED
  BY <1>1, <1>2, <1>3, <1>4

LEMMA OuterUntested ==
  ASSUME RanTypeInv, ~ran',
         \/ Edit \/ Begin \/ BeginCycle \/ EndCycle(TRUE) \/ EndCycle(FALSE)
         \/ Finish \/ NextList \/ EndMaster
  PROVE  Untested'
<1>0. target \in AllTargets /\ status \in {0, -1, -100}
  BY DEF RanTypeInv, TypeInv, TypeOK
<1>1. CASE Edit
  <2>1. pc = "idle" /\ UNCHANGED << pc, verdict, ran, target >>
    BY <1>1 DEF Edit, EditPass, EditFail, run, history
  <2>2. Runnable' <=> Runnable
    BY <2>1 DEF Runnable
  <2>3. QED
    BY <2>1, <2>2 DEF RanTypeInv, RanInv, Untested
<1>2. CASE Begin
  <2>1. pc' \in {"cycle", "done"} /\ (pc' = "done" => status' # 0)
    BY <1>2 DEF Begin, Go
  <2>2. QED
    BY <2>1 DEF Untested
<1>3. CASE BeginCycle
  <2>0. ran' = ran /\ target' = target
    BY <1>3 DEF BeginCycle
  <2>1. CASE target.kind = "master"
    <3>1. pc' = "master" /\ listno' = 1
      BY <1>3, <2>1 DEF BeginCycle
    <3>2. QED
      BY <3>1 DEF Untested
  <2>2. CASE target.kind = "list"
    <3>1. /\ pc' = "list"
          /\ frame' = NewFrame(target.list, Size[target.list])
      BY <1>3, <2>2 DEF BeginCycle
    <3>2. QED
      BY <2>0, <2>2, <3>1 DEF Untested, NewFrame
  <2>3. CASE target.kind = "test"
    <3>1. /\ pc' = "list"
          /\ frame' = NewFrame(target.list, Parms[<<target.list, target.test>>])
      BY <1>3, <2>3 DEF BeginCycle
    <3>2. QED
      BY <2>0, <2>3, <3>1 DEF Untested, NewFrame
  <2>4. QED
    BY <1>0, <2>1, <2>2, <2>3, TargetShape
<1>4. ASSUME NEW quit \in BOOLEAN, EndCycle(quit)
      PROVE  Untested'
  <2>1. ~Runnable /\ target' = target /\ pc' \in {"done", "cycle"}
    BY <1>4 DEF EndCycle, RanTypeInv, RanInv, Untested
  <2>2. ~Runnable'
    BY <2>1 DEF Runnable
  <2>3. QED
    BY <2>1, <2>2 DEF Untested
<1>5. CASE Finish
  <2>1. /\ pc = "done" /\ pc' = "idle" /\ ran' = ran /\ target' = target
        /\ verdict' = Verdict(status)
    BY <1>5 DEF Finish, history
  <2>2. ~Runnable \/ status # 0
    BY <2>1 DEF RanTypeInv, RanInv, Untested
  <2>3. verdict' = "pass" => ~Runnable
    BY <1>0, <2>1, <2>2 DEF Verdict
  <2>4. Runnable' <=> Runnable
    BY <2>1 DEF Runnable
  <2>5. QED
    BY <2>1, <2>3, <2>4 DEF Untested
<1>6. CASE NextList
  <2>1. /\ pc = "master" /\ pc' = "list" /\ ran' = ran /\ target' = target
        /\ listno' = listno /\ frame' = NewFrame(listno, Size[listno])
    BY <1>6 DEF NextList
  <2>2. target.kind = "master"
    BY <2>1 DEF RanTypeInv, RanInv
  <2>3. QED
    BY <2>1, <2>2 DEF RanTypeInv, RanInv, Untested, NewFrame
<1>7. CASE EndMaster
  <2>1. /\ pc = "master" /\ pc' = "cycled" /\ ran' = ran /\ target' = target
        /\ listno > NumLists
    BY <1>7 DEF EndMaster, history
  <2>2. target.kind = "master"
    BY <2>1 DEF RanTypeInv, RanInv
  <2>3. listno \in 1 .. NumLists + 1 /\ NumLists \in Nat
    BY TestExecAssumption DEF RanTypeInv, TypeInv, TypeOK
  <2>4. \A l \in 1 .. NumLists : Size[l] = 0
    BY <2>1, <2>3 DEF RanTypeInv, RanInv, Untested
  <2>5. ~Runnable'
    BY <2>1, <2>2, <2>4 DEF Runnable
  <2>6. QED
    BY <2>1, <2>5 DEF Untested
<1>8. QED
  BY <1>1, <1>2, <1>3, <1>4, <1>5, <1>6, <1>7

(* Only the end of a run shows a verdict, and only in a run of the master  *)
(* list the engine is between lists.                                       *)
LEMMA ShownWhenIdle ==
  ASSUME RanTypeInv, Next
  PROVE  /\ pc' # "idle" => verdict' = "none"
         /\ pc' = "master" => target'.kind = "master"
<1>1. CASE Edit \/ Finish
  <2>1. pc' = "idle"
    BY <1>1 DEF Edit, EditPass, EditFail, Finish, run
  <2>2. QED
    BY <2>1
<1>2. CASE Begin
  <2>1. verdict' = "none" /\ pc' \in {"done", "cycle"}
    BY <1>2 DEF Begin, Go
  <2>2. QED
    BY <2>1
<1>3. CASE BeginCycle
  <2>1. pc = "cycle" /\ verdict' = verdict /\ target' = target
    BY <1>3 DEF BeginCycle
  <2>2. target.kind \in {"master", "list", "test"}
    BY TargetShape DEF RanTypeInv, TypeInv, TypeOK
  <2>3. target.kind # "master" => pc' = "list"
    BY <1>3, <2>2 DEF BeginCycle
  <2>4. QED
    BY <2>1, <2>3 DEF RanTypeInv, RanInv
<1>4. CASE EndCycle(TRUE) \/ EndCycle(FALSE) \/ NextList \/ EndMaster
  <2>1. /\ pc # "idle" /\ pc' \in {"done", "cycle", "list", "cycled"}
        /\ verdict' = verdict
    BY <1>4 DEF EndCycle, NextList, EndMaster
  <2>2. QED
    BY <2>1 DEF RanTypeInv, RanInv
<1>5. CASE LeaveList \/ Interrupt \/ ReturnSingle \/ Stop
  <2>1. pc # "idle" /\ \E v : Return(v)
    BY <1>5 DEF LeaveList, Interrupt, Polled, ReturnSingle, Stop, Obeys, Deciding
  <2>2. QED
    BY <2>1 DEF Return, RanTypeInv, RanInv
<1>6. CASE \/ NextTest \/ Execute(TRUE) \/ Execute(FALSE) \/ NoInterrupt
           \/ KeepSpinning \/ Retry \/ Spin \/ Jump \/ Advance \/ Skip \/ Ignore
           \/ Pause(TRUE) \/ Pause(FALSE) \/ Back \/ CountLoop \/ Forgive
  <2>1. pc # "idle" /\ \E next \in {"exec", "policy", "list", "poll"} : Stay(next)
    BY <1>6 DEF NextTest, Execute, NoInterrupt, KeepSpinning, Retry, Spin, Jump,
                Advance, Skip, Ignore, Pause, Back, CountLoop, Forgive, Move,
                Obeys, Deciding
  <2>2. QED
    BY <2>1 DEF Stay, RanTypeInv, RanInv
<1>7. QED
  BY <1>1, <1>2, <1>3, <1>4, <1>5, <1>6 DEF Next, Engine, Quit, Obey

LEMMA RanStep == RanTypeInv /\ [Next]_vars => RanTypeInv'
<1> SUFFICES ASSUME RanTypeInv, [Next]_vars PROVE RanTypeInv'
  OBVIOUS
<1>1. TypeInv'
  BY TypeStep DEF RanTypeInv
<1>2. CASE Next
  <2>1. ASSUME ~ran' PROVE Untested'
    BY <1>2, <2>1, LoopUntested, OuterUntested DEF Next, Engine, Quit
  <2>2. QED
    BY <1>1, <1>2, <2>1, ShownWhenIdle DEF RanTypeInv, RanInv
<1>3. CASE UNCHANGED vars
  BY <1>1, <1>3 DEF vars, run, history, RanTypeInv, RanInv, Untested, Runnable
<1>4. QED
  BY <1>2, <1>3

(* A run that had something to execute and reports PASS executed a test.   *)
THEOREM NoHollowPass == Spec => []PassMeansRun
<1>1. Init => RanTypeInv
  <2> SUFFICES ASSUME Init PROVE RanTypeInv
    OBVIOUS
  <2>1. pc = "idle" /\ verdict = "none"
    BY DEF Init
  <2>2. QED
    BY <2>1, InitType DEF RanTypeInv, RanInv, Untested
<1>2. RanTypeInv => PassMeansRun
  BY DEF RanTypeInv, RanInv, Untested, PassMeansRun
<1>3. QED
  BY <1>1, <1>2, RanStep, PTL DEF Spec
=============================================================================
