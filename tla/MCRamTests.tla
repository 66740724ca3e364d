----------------------------- MODULE MCRamTests -----------------------------
(* The jobs of RamTests: what each program is given, which faults the      *)
(* memory may have, and whether its bits turn over. Regions of 1, 3 and 9  *)
(* words enter the loops of ram.h everywhere it matters; those of the      *)
(* address tests are ones of the Makefile's, a few of them scaled down.    *)
EXTENDS RamTests

Job(prog, memory, size, type, access) ==
  [prog |-> prog, memory |-> memory, size |-> size, type |-> type, access |-> access,
   bits |-> {}, cells |-> {}, lines |-> {}, mask |-> {}, old |-> {}, flips |-> FALSE]

Size(n, access) == n * (Width[access] \div 8)

Stuck(prog, access, n) ==
  [Job(prog, 2, Size(n, access), "ham", access) EXCEPT
    !.bits = All(Width[access]), !.cells = {2, 1 + n}]

DataJobs ==
  { Stuck(p, a, n) : p \in {"refresh", "readback"}, a \in {"char"}, n \in {3, 9} }
    \union { Stuck(p, a, 1) : p \in {"refresh", "readback"}, a \in {"short", "long"} }
    \union { [Job(p, 2, 3, t, "char") EXCEPT !.flips = TRUE] :
               p \in {"refresh", "readback"}, t \in Listed }

PatternJobs ==
  { Job("refresh", 2, 1, t, "char") : t \in Modifiers \union {"unknown"} }
    \union { Job("refresh", 2, 8, t, "longlong") : t \in Listed }

OtherJobs ==
  { Job("cache", 2, Size(n, a), "ham", a) : n \in {1, 8, 9}, a \in {"char", "long"} }
    \union { Job(p, 2, 3, "ham", "other") : p \in {"refresh", "readback", "cache"} }
    \union { Job("readback", 2, 8, "ham", "longlong") }
    \union { [Job(p, 2, 8, "ham", a) EXCEPT !.bits = {0}, !.cells = {2}] :
               p \in Sa, a \in {"char", "short", "long", "longlong"} }

AddressJobs ==
  { [Job(p, m, 4 * n, "ham", "long") EXCEPT !.lines = 0 .. 4] :
      p \in Address, m \in {0, 1, 3, 4}, n \in {1, 4, 16} }
    \union { [Job(p, 4, 16, "ham", "long") EXCEPT !.lines = 0 .. 4, !.old = v] :
               p \in Address, v \in {Fives(32), Inverted(32, Fives(32))} }
    \union { [Job("alias", m, 4 * n, "ham", "long") EXCEPT !.lines = 0 .. 3] :
               m \in {4}, n \in {3, 8, 12} }

RegisterJobs ==
  { [Job(p, 2, n, "ham", "char") EXCEPT !.bits = All(8), !.cells = {2, 3},
       !.mask = m, !.old = {0, 3, 5}] :
      p \in Register, n \in {1, 2}, m \in {All(8), {1, 3}, {1}} }

AllJobs == DataJobs \union PatternJobs \union OtherJobs \union AddressJobs \union RegisterJobs

(* The address tests of ram-lite.tls and ram.tls: 0x00400000 for 0x100000  *)
(* and for 0x01000000 bytes, scaled to a memory of 32 words.               *)
MakefileJobs == { Job(p, 4, 4 * n, "ham", "long") : p \in Address, n \in {1, 16} }

TwoValues == { {}, {0, 5, 33} }
=============================================================================
