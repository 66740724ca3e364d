------------------------------- MODULE IdsSm -------------------------------
(***************************************************************************)
(* The hardware state machine of IDS (lib_ids/hw/idssm.c) with the arcs    *)
(* of idssm.h and the handlers of its instance, the I2C device             *)
(* (lib_ids/hw/idshw_i2c.c).                                               *)
(*                                                                         *)
(* The handler of RUN starts a command on the device and, when it is over, *)
(* dispatches PASS or FAIL itself: a dispatch inside the dispatch of RUN.  *)
(* A step is one dispatch; that of RUN is split where the command runs,    *)
(* which may hang or, if sm_watchdog has a caller, be terminated.          *)
(***************************************************************************)
EXTENDS Integers

State == {"NOSTATE", "PRES", "NOINIT", "NOBOOT", "READY", "BUSY", "FAULT"}
Event == {"reset", "init", "boot", "run", "pass", "fail", "ignore", "halt"}

BusyArcsNoFail == {"reset", "pass", "halt"}                   \* mutant
BusyArcs == {"reset", "pass", "fail", "halt"}

FaultArcsPass == {"reset", "pass", "halt"}                    \* mutant
FaultArcs == {"reset", "ignore", "halt"}

Arcs ==
  [NOSTATE |-> {},
   PRES    |-> {"reset", "fail"},
   NOINIT  |-> {"reset", "init", "fail"},
   NOBOOT  |-> {"reset", "boot", "fail"},
   READY   |-> {"run"},
   BUSY    |-> BusyArcs,
   FAULT   |-> FaultArcs]

(* The state each handler sets.                                            *)
Handler ==
  [reset |-> "NOINIT", init |-> "NOBOOT", boot |-> "READY", run |-> "BUSY",
   pass |-> "READY", fail |-> "FAULT", ignore |-> "READY", halt |-> "NOBOOT"]

VARIABLES
  hooked,  \* sm_watchdog has a caller: not yet (the comment of sm_dispatch)
  state,   \* curr_state
  last,    \* last_event
  active,  \* the static active # 0
  pc,      \* where the call is
  call,    \* the public function called: sm_run_raw (and sm_pass, sm_fail,
           \* sm_ignore, which are sm_run_raw of one event) or sm_run
  rv,      \* what the last call returned
  (* History of the last call, read by the properties only. *)
  from,    \* the state it started in
  outcome  \* how its command ended

machine == << state, last, active >>
vars == << hooked, machine, pc, call, rv, from, outcome >>

Startup == {"startup", "init", "boot"}
PC == {"idle", "exec", "driver", "nested", "return", "failed", "fault"}
      \union Startup

TypeOK ==
  /\ hooked \in BOOLEAN
  /\ state \in State
  /\ last \in Event \union {"noevent"}
  /\ active \in BOOLEAN
  /\ pc \in PC
  /\ call \in {"none", "raw", "run"}
  /\ rv \in {0, -1, 1}
  /\ from \in State
  /\ outcome \in {"none", "passed", "failed", "other", "terminated"}

Init ==
  /\ hooked \in BOOLEAN
  /\ state = "NOSTATE" /\ last = "noevent" /\ active = FALSE
  /\ pc = "idle" /\ call = "none" /\ rv = 0
  /\ from = "NOSTATE" /\ outcome = "none"

-----------------------------------------------------------------------------
(* sm_dispatch of an event whose handler only sets the state: the result   *)
(* is 0 only if the state changed.                                         *)
Moves(s, e) == e \in Arcs[s] /\ Handler[e] # s
ResultEvent(s, e) == IF Moves(s, e) THEN 2 ELSE -1            \* mutant
Result(s, e) == IF Moves(s, e) THEN 0 ELSE -1

sm_dispatch(e) ==
  /\ state' = IF e \in Arcs[state] THEN Handler[e] ELSE state
  /\ last' = IF Moves(state, e) THEN e ELSE last
  /\ active' = (active /\ e \notin Arcs[state])

(* A dispatch of RUN up to the command, if READY has its arc.              *)
Launch ==
  /\ state' = Handler["run"]
  /\ active' = TRUE
  /\ pc' = "driver"
  /\ UNCHANGED << last, rv >>

Finish(v) == pc' = "idle" /\ rv' = v

-----------------------------------------------------------------------------
(* The owner of the machine finds the device (setstate to ST_PRES).        *)
Present ==
  /\ pc = "idle" /\ state = "NOSTATE"
  /\ state' = "PRES"
  /\ UNCHANGED << hooked, last, active, pc, call, rv, from, outcome >>

sm_run_raw(e) ==
  /\ pc = "idle"
  /\ call' = "raw" /\ from' = state /\ outcome' = "none"
  /\ IF e = "run" /\ "run" \in Arcs[state]
       THEN Launch
       ELSE sm_dispatch(e) /\ Finish(Result(state, e))
  /\ UNCHANGED hooked

(* sm_run enters its switch at the current state ...                       *)
sm_run ==
  /\ pc = "idle"
  /\ call' = "run" /\ from' = state /\ outcome' = "none"
  /\ CASE state = "PRES"    -> pc' = "startup" /\ UNCHANGED rv
       [] state = "NOINIT"  -> pc' = "init" /\ UNCHANGED rv
       [] state = "NOBOOT"  -> pc' = "boot" /\ UNCHANGED rv
       [] state = "READY"   -> pc' = "exec" /\ UNCHANGED rv
       [] state = "FAULT"   -> pc' = "fault" /\ UNCHANGED rv
       [] state = "BUSY"    -> Finish(1)
       [] state = "NOSTATE" -> Finish(-1)
  /\ UNCHANGED << hooked, machine >>

(* ... and falls through the cases below it, unless one of them fails.     *)
BreakAfterInit == "idle"                                      \* mutant
AfterInit == "boot"

Case ==
  [startup |-> [event |-> "reset", next |-> "init"],
   init    |-> [event |-> "init", next |-> AfterInit],
   boot    |-> [event |-> "boot", next |-> "exec"]]

Advance ==
  /\ pc \in Startup
  /\ sm_dispatch(Case[pc].event)
  /\ pc' = IF Moves(state, Case[pc].event) THEN Case[pc].next ELSE "failed"
  /\ UNCHANGED << hooked, call, rv, from, outcome >>

sm_sw_exec ==
  /\ pc = "exec"
  /\ "run" \in Arcs[state]
  /\ Launch
  /\ UNCHANGED << hooked, call, from, outcome >>

(* sm_hw_fault: FAULT has no arc for RUN, so only the reset takes place.   *)
sm_hw_fault ==
  /\ pc = "fault"
  /\ sm_dispatch("reset")
  /\ Finish(Result(state, "reset"))
  /\ UNCHANGED << hooked, call, from, outcome >>

-----------------------------------------------------------------------------
(* The command is over: the handler of RUN dispatches PASS or FAIL, unless *)
(* the driver returned something else than 0 or -1, ...                    *)
CommandOver(o) ==
  /\ pc = "driver"
  /\ outcome' = o
  /\ pc' = IF o = "other" THEN "return" ELSE "nested"
  /\ UNCHANGED << hooked, machine, call, rv, from >>

Nested ==
  /\ pc = "nested"
  /\ sm_dispatch(IF outcome = "passed" THEN "pass" ELSE "fail")
  /\ pc' = "return"
  /\ UNCHANGED << hooked, call, rv, from, outcome >>

(* ... and the dispatch of RUN, which began in READY, looks whether the    *)
(* state is another one now.                                               *)
LeftActive == active                                          \* mutant
Cleared == FALSE

Return ==
  /\ pc = "return"
  /\ active' = Cleared
  /\ IF state # "READY"
       THEN last' = "run" /\ Finish(0)
       ELSE /\ UNCHANGED last
            /\ IF call = "raw" THEN Finish(-1) ELSE pc' = "failed" /\ UNCHANGED rv
  /\ UNCHANGED << hooked, state, call, from, outcome >>

(* sm_run of a failure.                                                    *)
sm_fail ==
  /\ pc = "failed"
  /\ sm_dispatch("fail")
  /\ Finish(-1)
  /\ UNCHANGED << hooked, call, from, outcome >>

(* sm_watchdog: the dispatch returns 1 and leaves active as it is. sm_run  *)
(* resets the device.                                                      *)
sm_watchdog ==
  /\ hooked
  /\ pc = "driver" /\ active
  /\ outcome' = "terminated"
  /\ IF call = "raw"
       THEN Finish(1) /\ UNCHANGED machine
       ELSE sm_dispatch("reset") /\ Finish(Result(state, "reset"))
  /\ UNCHANGED << hooked, call, from >>

Next ==
  \/ Present
  \/ \E e \in Event : sm_run_raw(e)
  \/ sm_run \/ Advance \/ sm_sw_exec \/ sm_hw_fault
  \/ \E o \in {"passed", "failed", "other"} : CommandOver(o)
  \/ Nested \/ Return \/ sm_fail
  \/ sm_watchdog

Spec == Init /\ [][Next]_vars

-----------------------------------------------------------------------------
Usable == {"PRES", "NOINIT", "NOBOOT", "READY"}
Back == pc = "idle" /\ call = "run"

(* sm_run never gets stuck on its way: from each state the startup leads   *)
(* through, it reaches READY and starts the command ("attempts to advance  *)
(* the state machine to the ready state", idssm.c:81-83).                  *)
CommandStarted == Back /\ from \in Usable => outcome # "none"

(* A command that passed or failed leaves the machine READY or in FAULT,   *)
(* whoever called, although two dispatches changed it one inside the other *)
(* (idshw_i2c.c:171-178).                                                  *)
Settled ==
  pc = "idle" =>
    /\ outcome = "passed" => state = "READY"
    /\ outcome = "failed" => state = "FAULT"

(* A fault is left only by a reset, an ignore or a halt, and last_event    *)
(* says by which one.                                                      *)
FaultSticks ==
  [][state = "FAULT" /\ state' # "FAULT" =>
       last' \in {"reset", "ignore", "halt"}]_vars

(* The jump target of the watchdog is live: active is set only while the   *)
(* handler of RUN is on the stack. Where a terminated raw call has left it *)
(* set, the next arc the machine takes clears it (idssm.c:205-213, 226).   *)
LiveTarget ==
  active /\ pc \notin {"driver", "nested", "return"} => hooked /\ state = "BUSY"

-----------------------------------------------------------------------------
(* What the sources say and the code does not do.                          *)

(* "Drive the failures to the ST_FAULT state." (idssm.c:116): when sm_run  *)
(* of a machine that was found reports a failure, it is in FAULT.          *)
FailuresFault ==
  ~hooked /\ Back /\ rv = -1 /\ from # "NOSTATE" => state = "FAULT"
=============================================================================
