------------------------------ MODULE Mailbox ------------------------------
(***************************************************************************)
(* The mailbox (lib_ids/mailbox.c) between IDS and a test that it runs,    *)
(* with the callback the RAM tests bring along (ram_callback). A test      *)
(* starts a session with mb_start and requests services of mb_dispatch,    *)
(* which may call the test back, which may request again. What is on the   *)
(* C stack is kept as a sequence of frames, the innermost last.            *)
(***************************************************************************)
EXTENDS Integers, Sequences

CONSTANTS
  MaxAck,   \* bounds of the model: how far acknowledges are counted
  MaxDepth  \* and the innermost frames of the stack that are kept

ASSUME MailboxAssumption == MaxAck \in Nat /\ MaxDepth \in Nat \ {0, 1}

VARIABLES
  callback,  \* mb_callback of IDS: "none", "ram" (ram_callback) or "own", a
             \* callback of the test's that only answers
  ack,       \* the static ack of mb_dispatch
  dispatch,  \* mb_callback of the running test is set: it may make requests
  calls      \* the frames of a request

mailbox == << callback, ack, dispatch, calls >>

(* "file" stands for GETFILE, PGMFILE and PUTFILE, which do nothing.       *)
Op == {"nop", "ack", "ping", "susp", "reloc", "file", "exec", "end"}

MailboxInit ==
  /\ callback = "none" /\ ack = 0
  /\ dispatch = FALSE /\ calls = <<>>

(* A function of of was called with op and has not called another yet.     *)
Frame(of, op) == [of |-> of, op |-> op, calling |-> FALSE]

Depth == Len(calls)
Inner == calls[Depth]
In(of, ops) == calls # <<>> /\ Inner.of = of /\ Inner.op \in ops /\ ~Inner.calling

(* IDS and the test call each other in turns: a stack that grows beyond    *)
(* the bound is kept without its outermost call and callback.              *)
Call(of, op) ==
  LET deeper == Append([calls EXCEPT ![Depth].calling = TRUE], Frame(of, op))
  IN  calls' = IF Depth < MaxDepth THEN deeper ELSE SubSeq(deeper, 3, Depth + 1)

Return == calls' = SubSeq(calls, 1, Depth - 1)

-----------------------------------------------------------------------------
(* The test.                                                               *)
mb_start(kind) ==
  /\ calls = <<>>
  /\ callback' = kind /\ dispatch' = TRUE
  /\ UNCHANGED << ack, calls >>

Request(op) ==
  /\ calls = <<>> /\ dispatch
  /\ calls' = <<Frame("ids", op)>>
  /\ UNCHANGED << callback, ack, dispatch >>

-----------------------------------------------------------------------------
(* mb_dispatch: nothing is done without a callback; ACK counts, PING,      *)
(* RELOC and END go to the callback.                                       *)
Refuse ==
  /\ In("ids", Op) /\ callback = "none"
  /\ Return /\ UNCHANGED << callback, ack, dispatch >>

Ack ==
  /\ In("ids", {"ack"}) /\ callback # "none"
  /\ ack' = IF ack < MaxAck THEN ack + 1 ELSE ack
  /\ Return /\ UNCHANGED << callback, dispatch >>

(* A command of EXEC_CMD is found and run, or is not; the rest return 0.   *)
Serve ==
  /\ In("ids", {"nop", "file", "exec"}) /\ callback # "none"
  /\ Return /\ UNCHANGED << callback, ack, dispatch >>

Passed == [ping |-> "ack", reloc |-> "reloc", end |-> "end"]

CallBack(op) ==
  /\ In("ids", {op}) /\ callback # "none"
  /\ Call(callback, Passed[op])
  /\ UNCHANGED << callback, ack, dispatch >>

(* mb_suspend: the operator looks at the logs until a ^C, which is the     *)
(* only way out of its loop.                                               *)
Suspended == In("ids", {"susp"}) /\ callback # "none"

mb_suspend == Suspended /\ Return /\ UNCHANGED << callback, ack, dispatch >>

-----------------------------------------------------------------------------
(* The callback of the test: ram_callback answers an ACK itself, and passes *)
(* a PING as an ACK, RELOC and END as they are on to mb_dispatch.          *)
Own ==
  /\ In("own", Op)
  /\ Return /\ UNCHANGED << callback, ack, dispatch >>

RamAnswer ==
  /\ In("ram", Op)
  /\ ~dispatch \/ Inner.op \notin DOMAIN Passed
  /\ Return /\ UNCHANGED << callback, ack, dispatch >>

RamRequest(op) ==
  /\ In("ram", {op}) /\ dispatch
  /\ Call("ids", Passed[op])
  /\ UNCHANGED << callback, ack, dispatch >>

-----------------------------------------------------------------------------
(* mb_dispatch and ram_callback return when the function they called does. *)
(* Only then does END close the session, each on its own side.             *)
Closes(of) == Inner.of = of /\ Inner.op = "end"

Answered ==
  /\ calls # <<>> /\ Inner.calling
  /\ callback' = IF Closes("ids") THEN "none" ELSE callback
  /\ ack' = IF Closes("ids") THEN 0 ELSE ack
  /\ dispatch' = (dispatch /\ ~Closes("ram"))
  /\ Return

InRequest ==
  \/ Refuse \/ Ack \/ Serve \/ Own \/ RamAnswer \/ Answered
  \/ \E op \in DOMAIN Passed : CallBack(op) \/ RamRequest(op)

=============================================================================
