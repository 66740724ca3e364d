------------------------------- MODULE Patgen -------------------------------
(***************************************************************************)
(* The pattern generator the RAM tests call (lib_ids/patgen.c, the macros  *)
(* of test_api.h). A value of w bits is the set of its bits that are one.  *)
(*                                                                         *)
(* The macros know 8, 16 and 32 bits: of a 64-bit value they see and set   *)
(* the half LONG names (bits 32 to 63, the board is big-endian); the other *)
(* half keeps what the caller's variable held.                             *)
(***************************************************************************)
EXTENDS Integers, Sequences

Width == [char |-> 8, short |-> 16, long |-> 32, longlong |-> 64]

All(w) == 0 .. w - 1
Zero == {}
Fives(w) == { b \in All(w) : b % 2 = 0 }

(* The fixed lists: all zeros, all ones, halves, quarters, ... and fives.  *)
Stripes(w, d) == { b \in All(w) : (b \div d) % 2 = 1 }
Halves == [x \in {8, 16, 32, 64} |->
             CASE x = 8 -> <<4, 2, 1>> [] x = 16 -> <<8, 4, 2, 1>>
               [] x = 32 -> <<16, 8, 4, 2, 1>> [] OTHER -> <<32, 16, 8, 4, 2, 1>>]

Ham(w) ==
  <<Zero, All(w)>> \o [k \in DOMAIN Halves[w] |-> Stripes(w, Halves[w][k])]
    \o <<Fives(w)>>

(* What SET_PV and PUT_PV write, and GET_PV reads, of a value.             *)
Seen(w) == IF w = 64 THEN 32 ELSE w
GET_PV(w, v) == IF w = 64 THEN { b - 32 : b \in v \ All(32) } ELSE v
PUT_PV(w, v, x) ==
  IF w = 64 THEN (v \intersect All(32)) \union { b + 32 : b \in x \intersect All(32) }
            ELSE x

(* The type of a menu parameter as a modifier: an unknown one is DEFAULT.  *)
Modifiers ==
  {"zero", "ones", "ascend", "descend", "repeat", "random", "invert", "comp2",
   "xor", "or", "and", "lshift", "rshift", "ham", "odd"}
modgen(requested) == IF requested \in Modifiers THEN requested ELSE "default"

(* The lists come to an end: zero and ones, which have one value, and ham. *)
Listed == {"zero", "ones", "ham"}
Values(w, mod) ==
  CASE mod = "zero" -> <<Zero>> [] mod = "ones" -> <<All(Seen(w))>> [] OTHER -> Ham(w)

(* A pvalue: width, value, index into the list, and the flag PVF_END.      *)
spatgen(w, seed, mod, rand) ==
  [w |-> w, n |-> 0, end |-> FALSE,
   v |-> IF mod \in Listed THEN PUT_PV(w, seed, Values(w, mod)[1])
         ELSE IF mod = "random" THEN PUT_PV(w, seed, rand) ELSE seed]

Inverted(w, x) == All(w) \ x
PlusOne(w, x) == { b \in All(w) : (b \in x) # ((0 .. b - 1) \subseteq x) }  \* a carry
LeftBy(w, x, n) == { b + n : b \in x } \intersect All(w)

(* The operators on the part of the value the macros see.                  *)
Operator(w, x, mask, mod, rand) ==
  CASE mod = "ascend"  -> PlusOne(w, x)
    [] mod = "descend" -> Inverted(w, PlusOne(w, Inverted(w, x)))
    [] mod = "random"  -> rand
    [] mod = "invert"  -> Inverted(w, x)
    [] mod = "comp2"   -> PlusOne(w, Inverted(w, x))
    [] mod = "lshift"  -> LeftBy(w, x, 1)
    [] mod = "rshift"  -> LeftBy(w, x, -1)
    [] mod = "xor"     -> (x \ mask) \union (mask \ x)
    [] mod = "or"      -> x \union mask
    [] mod = "and"     -> x \intersect mask
    [] OTHER           -> x

Last(p, mod) == p.n + 1 >= Len(Values(p.w, mod))

Rewound(p) == [p EXCEPT !.n = 0]                             \* mutant
Ended(p) == [p EXCEPT !.end = TRUE]

patgen(p, mask, mod, rand) ==
  IF mod \in Listed
    THEN IF p.end THEN p
         ELSE IF Last(p, mod) THEN Ended(p)
         ELSE [p EXCEPT !.n = @ + 1, !.v = PUT_PV(p.w, @, Values(p.w, mod)[p.n + 2])]
    ELSE [p EXCEPT !.v =
            PUT_PV(p.w, @, Operator(Seen(p.w), GET_PV(p.w, @), mask, mod, rand))]
=============================================================================
