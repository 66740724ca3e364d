----------------------------- MODULE ListFiles -----------------------------
(***************************************************************************)
(* The files of IDS as the host tools write them (tools/ids/mktest.c,      *)
(* mklist.c) and as they lie in memory (include/ids/idsfs.h): a test is a  *)
(* header and its program, a list a header and its tests. A header is one  *)
(* cell, a program some cells more.                                        *)
(*                                                                         *)
(* A parameter of a test is what the menu builder tells apart: "parm" and  *)
(* "reg" (a register, in braces), "svc" (ids-svc=tftp), "nosvc" (a service *)
(* of another name), "open" (a register without its closing brace) and     *)
(* "bare" (no equal sign).                                                 *)
(***************************************************************************)
EXTENDS Naturals, Sequences, SequencesExt

(* mktest takes an argument of 31 characters and stores 30 of them: the    *)
(* brace of a register is lost, or the '=' of an empty value.              *)
Stored ==
  [parm |-> "parm", reg |-> "reg", svc |-> "svc", nosvc |-> "nosvc",
   reg31 |-> "open", empty31 |-> "bare"]

mktest(name, args, cells) ==
  [name |-> name,
   parms |-> FoldLeft(LAMBDA ps, arg : Append(ps, Stored[arg]), <<>>, args),
   size |-> 1 + cells, pass |-> "next", fail |-> "stop"]

-----------------------------------------------------------------------------
(* The arguments of mklist: -pass= and -fail= hold for the next test only. *)
set_test_hdr(acc, t) ==
  [tests |-> Append(acc.tests, [t EXCEPT !.pass = acc.pass, !.fail = acc.fail]),
   pass |-> "next", fail |-> "stop"]

Argument(acc, arg) ==
  CASE arg.opt = "pass" -> [acc EXCEPT !.pass = arg.word]
    [] arg.opt = "fail" -> [acc EXCEPT !.fail = arg.word]
    [] arg.opt = "file" -> set_test_hdr(acc, arg.test)

mklist(args) ==
  FoldLeft(Argument, [tests |-> <<>>, pass |-> "next", fail |-> "stop"],
           args).tests

(* The list header counts the tests and sums their sizes, its own left out.*)
SizeOf(tests) == FoldLeft(LAMBDA sum, t : sum + t.size, 0, tests)

Payload == [kind |-> "payload"]

ListHeader(tests) ==
  [kind |-> "list", tests |-> Len(tests), size |-> SizeOf(tests)]

TestCells(t) ==
  <<[kind |-> "test", test |-> t]>> \o [k \in 1 .. t.size - 1 |-> Payload]

TlsFile(tests) ==
  <<ListHeader(tests)>> \o
    FoldLeft(LAMBDA cells, t : cells \o TestCells(t), <<>>, tests)
=============================================================================
