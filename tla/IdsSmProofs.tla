---------------------------- MODULE IdsSmProofs ----------------------------
(***************************************************************************)
(* The state machine settles: what its nested dispatches leave behind,     *)
(* whichever calls are made in whichever order.                            *)
(***************************************************************************)
EXTENDS IdsSm, TLAPS

(* Where a call is fixes the state the machine is in.                      *)
WhereInv ==
  /\ pc = "startup" => state = "PRES"
  /\ pc = "init"    => state = "NOINIT"
  /\ pc = "boot"    => state = "NOBOOT"
  /\ pc = "exec"    => state = "READY"
  /\ pc = "fault"   => state = "FAULT"
  /\ pc = "driver"  => state = "BUSY"
  /\ pc = "nested"  => state = "BUSY" /\ outcome \in {"passed", "failed"}
  /\ pc = "return"  =>
       \/ outcome = "passed" /\ state = "READY"
       \/ outcome = "failed" /\ state = "FAULT"
       \/ outcome = "other" /\ state = "BUSY"
  /\ pc = "failed"  => state = "READY" /\ outcome = "passed"

(* Only a call that began in FAULT returns without its command.            *)
StartInv == pc = "fault" => from = "FAULT" /\ outcome = "none"

SmInv == TypeOK /\ WhereInv /\ StartInv /\ Settled /\ CommandStarted /\ LiveTarget

(* The arcs and handlers, entry by entry.                                  *)
LEMMA Table ==
  /\ Arcs["NOSTATE"] = {} /\ Arcs["PRES"] = {"reset", "fail"}
  /\ Arcs["NOINIT"] = {"reset", "init", "fail"}
  /\ Arcs["NOBOOT"] = {"reset", "boot", "fail"}
  /\ Arcs["READY"] = {"run"}
  /\ Arcs["BUSY"] = {"reset", "pass", "fail", "halt"}
  /\ Arcs["FAULT"] = {"reset", "ignore", "halt"}
  /\ Handler["reset"] = "NOINIT" /\ Handler["init"] = "NOBOOT"
  /\ Handler["boot"] = "READY" /\ Handler["run"] = "BUSY"
  /\ Handler["pass"] = "READY" /\ Handler["fail"] = "FAULT"
  /\ Handler["ignore"] = "READY" /\ Handler["halt"] = "NOBOOT"
BY DEF Arcs, BusyArcs, FaultArcs, Handler

LEMMA CaseTable ==
  /\ Case["startup"].event = "reset" /\ Case["startup"].next = "init"
  /\ Case["init"].event = "init" /\ Case["init"].next = "boot"
  /\ Case["boot"].event = "boot" /\ Case["boot"].next = "exec"
BY DEF Case, AfterInit

LEMMA HandlerType == \A e \in Event : Handler[e] \in State
BY DEF Handler, Event, State

LEMMA InitSm == Init => SmInv
BY DEF Init, SmInv, TypeOK, WhereInv, StartInv, Settled, CommandStarted,
       LiveTarget, Back, State, PC, Startup

(* A dispatch keeps the machine's types.                                   *)
LEMMA DispatchType ==
  ASSUME TypeOK, NEW e \in Event, sm_dispatch(e)
  PROVE  /\ state' \in State /\ last' \in Event \union {"noevent"}
         /\ active' \in BOOLEAN
         /\ active' => active
         /\ Result(state, e) \in {0, -1}
BY HandlerType DEF TypeOK, sm_dispatch, Result

LEMMA RawStep ==
  ASSUME SmInv, NEW e \in Event, sm_run_raw(e)
  PROVE  SmInv'
<1>1. pc = "idle" /\ call' = "raw" /\ from' = state /\ outcome' = "none"
      /\ hooked' = hooked
  BY DEF sm_run_raw
<1>2. CASE e = "run" /\ "run" \in Arcs[state]
  <2>1. state' = "BUSY" /\ active' = TRUE /\ pc' = "driver"
        /\ last' = last /\ rv' = rv
    BY <1>2, Table DEF sm_run_raw, Launch
  <2>2. QED
    BY <1>1, <2>1 DEF SmInv, TypeOK, WhereInv, StartInv, Settled,
                      CommandStarted, LiveTarget, Back, State, PC
<1>3. CASE ~(e = "run" /\ "run" \in Arcs[state])
  <2>1. sm_dispatch(e) /\ pc' = "idle" /\ rv' = Result(state, e)
    BY <1>3 DEF sm_run_raw, Finish
  <2>2. /\ state' \in State /\ last' \in Event \union {"noevent"}
        /\ active' \in BOOLEAN /\ (active' => active) /\ rv' \in {0, -1}
    BY <2>1, DispatchType DEF SmInv
  <2>3. TypeOK'
    BY <1>1, <2>1, <2>2 DEF SmInv, TypeOK, PC
  <2>4. LiveTarget'
    <3>1. active' => active /\ state' = state
      BY <2>1 DEF sm_dispatch, SmInv, TypeOK
    <3>2. active => hooked /\ state = "BUSY"
      BY <1>1 DEF SmInv, LiveTarget
    <3>3. QED
      BY <1>1, <3>1, <3>2 DEF LiveTarget
  <2>5. QED
    BY <1>1, <2>1, <2>2, <2>3, <2>4 DEF SmInv, WhereInv, StartInv, Settled,
                                        CommandStarted, Back
<1>4. QED
  BY <1>2, <1>3

LEMMA RunStep ==
  ASSUME SmInv, sm_run
  PROVE  SmInv'
<1>1. /\ pc = "idle" /\ call' = "run" /\ from' = state /\ outcome' = "none"
      /\ hooked' = hooked /\ state' = state /\ last' = last /\ active' = active
  BY DEF sm_run, machine
<1>2. state \in State /\ rv \in {0, -1, 1}
  BY DEF SmInv, TypeOK
<1>3. /\ state = "PRES" => pc' = "startup" /\ rv' = rv
      /\ state = "NOINIT" => pc' = "init" /\ rv' = rv
      /\ state = "NOBOOT" => pc' = "boot" /\ rv' = rv
      /\ state = "READY" => pc' = "exec" /\ rv' = rv
      /\ state = "FAULT" => pc' = "fault" /\ rv' = rv
      /\ state = "BUSY" => pc' = "idle" /\ rv' = 1
      /\ state = "NOSTATE" => pc' = "idle" /\ rv' = -1
  BY DEF sm_run, Finish
<1>4. TypeOK'
  BY <1>1, <1>2, <1>3 DEF SmInv, TypeOK, State, PC, Startup
<1>5. WhereInv' /\ StartInv'
  BY <1>1, <1>2, <1>3 DEF WhereInv, StartInv, State
<1>6. Settled' /\ CommandStarted'
  BY <1>1, <1>2, <1>3 DEF Settled, CommandStarted, Back, Usable, State
<1>7. LiveTarget'
  BY <1>1 DEF SmInv, LiveTarget
<1>8. QED
  BY <1>4, <1>5, <1>6, <1>7 DEF SmInv

(* The startup never fails on its way to READY.                            *)
LEMMA AdvanceStep ==
  ASSUME SmInv, Advance
  PROVE  SmInv'
<1>1. /\ pc \in Startup /\ sm_dispatch(Case[pc].event)
      /\ pc' = IF Moves(state, Case[pc].event) THEN Case[pc].next ELSE "failed"
      /\ hooked' = hooked /\ call' = call /\ rv' = rv /\ from' = from
      /\ outcome' = outcome
  BY DEF Advance
<1>2. \/ pc = "startup" /\ pc' = "init" /\ state' = "NOINIT" /\ last' = "reset"
      \/ pc = "init" /\ pc' = "boot" /\ state' = "NOBOOT" /\ last' = "init"
      \/ pc = "boot" /\ pc' = "exec" /\ state' = "READY" /\ last' = "boot"
  BY <1>1, Table, CaseTable DEF SmInv, WhereInv, Startup, sm_dispatch, Moves
<1>3. active' \in BOOLEAN /\ (active' => active)
  BY <1>1 DEF SmInv, TypeOK, sm_dispatch
<1>4. TypeOK'
  BY <1>1, <1>2, <1>3 DEF SmInv, TypeOK, State, Event, PC, Startup
<1>5. WhereInv' /\ StartInv' /\ Settled' /\ CommandStarted'
  BY <1>2 DEF WhereInv, StartInv, Settled, CommandStarted, Back
<1>6. LiveTarget'
  <2>1. state # "BUSY" /\ pc \notin {"driver", "nested", "return"}
    BY <1>1, <1>2 DEF SmInv, WhereInv, Startup
  <2>2. ~active
    BY <2>1 DEF SmInv, LiveTarget
  <2>3. QED
    BY <1>3, <2>2 DEF LiveTarget
<1>7. QED
  BY <1>4, <1>5, <1>6 DEF SmInv

LEMMA ExecStep ==
  ASSUME SmInv, sm_sw_exec \/ sm_hw_fault
  PROVE  SmInv'
<1>1. CASE sm_sw_exec
  <2>1. /\ state' = "BUSY" /\ active' = TRUE /\ pc' = "driver" /\ last' = last
        /\ rv' = rv /\ hooked' = hooked /\ call' = call /\ from' = from
        /\ outcome' = outcome
    BY <1>1, Table DEF sm_sw_exec, Launch
  <2>2. QED
    BY <2>1 DEF SmInv, TypeOK, WhereInv, StartInv, Settled, CommandStarted,
                LiveTarget, Back, State, PC
<1>2. CASE sm_hw_fault
  <2>1. /\ pc = "fault" /\ sm_dispatch("reset") /\ pc' = "idle"
        /\ rv' = Result(state, "reset") /\ hooked' = hooked /\ call' = call
        /\ from' = from /\ outcome' = outcome
    BY <1>2 DEF sm_hw_fault, Finish
  <2>2. state = "FAULT" /\ from = "FAULT" /\ state' = "NOINIT"
        /\ last' = "reset" /\ active' = FALSE
    BY <2>1, Table DEF SmInv, WhereInv, StartInv, sm_dispatch, Moves
  <2>3. outcome = "none" /\ rv' \in {0, -1}
    BY <2>1 DEF SmInv, StartInv, Result
  <2>4. QED
    BY <2>1, <2>2, <2>3 DEF SmInv, TypeOK, WhereInv, StartInv, Settled,
                            CommandStarted, LiveTarget, Back, Usable, State,
                            Event, PC
<1>3. QED
  BY <1>1, <1>2

(* The command, the dispatch of its result, and the end of both.           *)
LEMMA CommandStep ==
  ASSUME SmInv, NEW o \in {"passed", "failed", "other"}, CommandOver(o)
  PROVE  SmInv'
<1>1. /\ pc = "driver" /\ outcome' = o /\ state' = state /\ last' = last
      /\ active' = active /\ hooked' = hooked /\ call' = call /\ rv' = rv
      /\ from' = from
      /\ pc' = IF o = "other" THEN "return" ELSE "nested"
  BY DEF CommandOver, machine
<1>2. state = "BUSY"
  BY <1>1 DEF SmInv, WhereInv
<1>3. QED
  BY <1>1, <1>2 DEF SmInv, TypeOK, WhereInv, StartInv, Settled,
                    CommandStarted, LiveTarget, Back, State, PC

LEMMA NestedStep ==
  ASSUME SmInv, Nested
  PROVE  SmInv'
<1>1. /\ pc = "nested" /\ pc' = "return" /\ hooked' = hooked /\ call' = call
      /\ rv' = rv /\ from' = from /\ outcome' = outcome
      /\ sm_dispatch(IF outcome = "passed" THEN "pass" ELSE "fail")
  BY DEF Nested
<1>2. state = "BUSY" /\ outcome \in {"passed", "failed"}
  BY <1>1 DEF SmInv, WhereInv
<1>3. \/ outcome = "passed" /\ state' = "READY" /\ last' = "pass"
      \/ outcome = "failed" /\ state' = "FAULT" /\ last' = "fail"
  BY <1>1, <1>2, Table DEF sm_dispatch, Moves
<1>4. active' \in BOOLEAN
  BY <1>1 DEF sm_dispatch, SmInv, TypeOK
<1>5. QED
  BY <1>1, <1>3, <1>4 DEF SmInv, TypeOK, WhereInv, StartInv, Settled,
                    CommandStarted, LiveTarget, Back, State, Event, PC

LEMMA ReturnStep ==
  ASSUME SmInv, Return
  PROVE  SmInv'
<1>1. /\ pc = "return" /\ active' = FALSE /\ hooked' = hooked
      /\ state' = state /\ call' = call /\ from' = from /\ outcome' = outcome
  BY DEF Return, Cleared
<1>2. \/ state # "READY" /\ last' = "run" /\ pc' = "idle" /\ rv' = 0
      \/ state = "READY" /\ last' = last /\ pc' = "idle" /\ rv' = -1
      \/ state = "READY" /\ last' = last /\ pc' = "failed" /\ rv' = rv
  BY DEF Return, Finish
<1>3. \/ outcome = "passed" /\ state = "READY"
      \/ outcome = "failed" /\ state = "FAULT"
      \/ outcome = "other" /\ state = "BUSY"
  BY <1>1 DEF SmInv, WhereInv
<1>4. TypeOK'
  BY <1>1, <1>2 DEF SmInv, TypeOK, Event, PC
<1>5. QED
  BY <1>1, <1>2, <1>3, <1>4 DEF SmInv, WhereInv, StartInv, Settled,
                                CommandStarted, LiveTarget, Back

LEMMA FailStep ==
  ASSUME SmInv, sm_fail
  PROVE  SmInv'
<1>1. /\ pc = "failed" /\ pc' = "idle" /\ rv' = -1 /\ sm_dispatch("fail")
      /\ hooked' = hooked /\ call' = call /\ from' = from /\ outcome' = outcome
  BY DEF sm_fail, Finish
<1>2. state = "READY" /\ outcome = "passed"
  BY <1>1 DEF SmInv, WhereInv
<1>3. state' = state /\ last' = last /\ active' = active
  BY <1>1, <1>2, Table DEF sm_dispatch, Moves, SmInv, TypeOK
<1>4. QED
  BY <1>1, <1>2, <1>3 DEF SmInv, TypeOK, WhereInv, StartInv, Settled,
                          CommandStarted, LiveTarget, Back, PC

LEMMA WatchdogStep ==
  ASSUME SmInv, sm_watchdog
  PROVE  SmInv'
<1>1. /\ hooked /\ pc = "driver" /\ outcome' = "terminated" /\ hooked' = hooked
      /\ call' = call /\ from' = from /\ pc' = "idle" /\ rv' \in {0, -1, 1}
  BY DEF sm_watchdog, Finish, Result
<1>2. \/ state' = state /\ last' = last /\ active' = active
      \/ sm_dispatch("reset")
  BY DEF sm_watchdog, machine
<1>3. state' \in State /\ last' \in Event \union {"noevent"}
      /\ active' \in BOOLEAN
  BY <1>2, DispatchType DEF SmInv, TypeOK, Event
<1>4. state = "BUSY"
  BY <1>1 DEF SmInv, WhereInv
<1>5. LiveTarget'
  <2>1. CASE UNCHANGED machine
    BY <1>1, <1>4, <2>1 DEF machine, LiveTarget
  <2>2. CASE sm_dispatch("reset")
    BY <1>4, <2>2, Table DEF sm_dispatch, LiveTarget
  <2>3. QED
    BY <2>1, <2>2 DEF sm_watchdog
<1>6. QED
  BY <1>1, <1>3, <1>5 DEF SmInv, TypeOK, WhereInv, StartInv, Settled,
                          CommandStarted, Back, PC

LEMMA SmStep == SmInv /\ [Next]_vars => SmInv'
<1> SUFFICES ASSUME SmInv, [Next]_vars PROVE SmInv'
  OBVIOUS
<1>1. CASE Present
  BY <1>1 DEF Present, SmInv, TypeOK, WhereInv, StartInv, Settled,
              CommandStarted, LiveTarget, Back, State, PC
<1>2. CASE UNCHANGED vars
  BY <1>2 DEF vars, machine, SmInv, TypeOK, WhereInv, StartInv, Settled,
              CommandStarted, LiveTarget, Back
<1>3. QED
  BY <1>1, <1>2, RawStep, RunStep, AdvanceStep, ExecStep, CommandStep,
     NestedStep, ReturnStep, FailStep, WatchdogStep DEF Next

LEMMA SmInvariant == Spec => []SmInv
BY InitSm, SmStep, PTL DEF Spec

(* Every variable of the machine stays in its range: sm_dispatch only ever *)
(* returns 0 or -1, and 1 where the watchdog has a caller.                 *)
THEOREM MachineTyping == Spec => []TypeOK
<1>1. SmInv => TypeOK
  BY DEF SmInv
<1>2. QED
  BY <1>1, SmInvariant, PTL

(* A command that passed leaves the machine READY and one that failed      *)
(* leaves it in FAULT, through every order of nested dispatches.           *)
THEOREM MachineSettles == Spec => []Settled
<1>1. SmInv => Settled
  BY DEF SmInv
<1>2. QED
  BY <1>1, SmInvariant, PTL

(* From every state of the startup sm_run reaches its command.             *)
THEOREM RunReachesCommand == Spec => []CommandStarted
<1>1. SmInv => CommandStarted
  BY DEF SmInv
<1>2. QED
  BY <1>1, SmInvariant, PTL

(* Outside the handler of RUN active is set only where sm_watchdog has     *)
(* terminated a raw call, and only as long as the machine is BUSY.         *)
THEOREM JumpTargetLive == Spec => []LiveTarget
<1>1. SmInv => LiveTarget
  BY DEF SmInv
<1>2. QED
  BY <1>1, SmInvariant, PTL

(* The dispatch of an event in FAULT.                                      *)
LEMMA FaultDispatch ==
  ASSUME NEW e \in Event, state = "FAULT", sm_dispatch(e), state' # "FAULT"
  PROVE  last' \in {"reset", "ignore", "halt"}
BY Table DEF sm_dispatch, Moves, Event

LEMMA FaultStep ==
  ASSUME SmInv, [Next]_vars, state = "FAULT", state' # "FAULT"
  PROVE  last' \in {"reset", "ignore", "halt"}
<1>1. pc \in {"idle", "fault", "return"}
  BY DEF SmInv, TypeOK, WhereInv, PC, Startup
<1>2. CASE \E e \in Event : sm_run_raw(e)
  BY <1>2, FaultDispatch, Table DEF sm_run_raw
<1>3. CASE sm_hw_fault
  BY <1>3, FaultDispatch DEF sm_hw_fault, Event
<1>4. state' = state \/ (\E e \in Event : sm_run_raw(e)) \/ sm_hw_fault
  BY <1>1 DEF Next, vars, machine, Present, sm_run, Advance, Startup,
              sm_sw_exec, CommandOver, Nested, Return, sm_fail, sm_watchdog
<1>5. QED
  BY <1>2, <1>3, <1>4

(* A fault is left only by a reset, an ignore or a halt.                   *)
THEOREM FaultsStick == Spec => FaultSticks
<1>1. SmInv /\ [Next]_vars =>
        [state = "FAULT" /\ state' # "FAULT" =>
           last' \in {"reset", "ignore", "halt"}]_vars
  BY FaultStep
<1>2. QED
  BY <1>1, SmInvariant, PTL DEF Spec, FaultSticks
=============================================================================
