---------------------------- MODULE MCTestExec ----------------------------
(* Small instances of TestExec for TLC.                                    *)
EXTENDS TestExec

A(word) == [word |-> word, arg |-> 0]
N(word, n) == [word |-> word, arg |-> n]

(* Every test has one ordinary parameter and is executed once per call. *)
OneListSize == <<2>>
EmptyListSize == <<2, 0>>

PlainParm == [t \in Test |-> "PARM"]
OneParm == [t \in Test |-> 1]
OneCycle == [t \in Test |-> 1]

(* Test 1 repeats itself; the first parameter of test 2 is a register.     *)
MixedParm == [t \in Test |-> IF t[2] = 2 THEN "REG" ELSE "PARM"]
MixedParms == [t \in Test |-> t[2]]
MixedCycles == [t \in Test |-> IF t[2] = 1 THEN 2 ELSE 1]

FirstTest == { <<1, 1>> }

ListPass == { A("next"), A("spin"), A("retry"), N("jump", 2), A("stop") }
ListFail == { A("stop"), A("fail"), A("next"), A("retry"), A("back"),
              N("loop", 2), A("ignore"), A("unknown") }
MenuPass == { A("next"), A("pause"), A("back"), A("spin"), A("skip") }
MenuFail == { A("stop"), A("wait"), A("retry"), N("loop", 2), N("jump", 1) }
PausePass == { A("next"), A("pause") }
StopFail == { A("stop") }

ListTarget == { OneList(1) }
AllMenus == AllTargets
=============================================================================
