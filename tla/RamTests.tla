------------------------------ MODULE RamTests ------------------------------
(***************************************************************************)
(* The test programs of the board: its RAM tests (board/anacazids/ram),    *)
(* its register tests (board/anacazids/lib/reg-*.c) and the RAM test of    *)
(* the stand-alone library (ids_sa/ram/ram.c). Each is the sequence of     *)
(* accesses it makes, with what it expects of them; a step is one access.  *)
(*                                                                         *)
(* The memory they test is not part of the sources. It is Cells words of   *)
(* the width of the access, and it may have one fault: a bit of a cell     *)
(* that is stuck, two data lines or two address lines that are shorted (a  *)
(* wired AND), an address line that is stuck. In a job with flips a bit    *)
(* that was right may also turn over between two accesses.                 *)
(***************************************************************************)
EXTENDS Patgen, FiniteSets

CONSTANTS
  Lines,  \* address lines of the memory, a bound of the model
  Jobs,   \* programs with their arguments
  Junk,   \* what a variable that is not initialised may hold
  Rand    \* what rand() may return

(* The powers of two, as the loops make them: mask <<= 1.                  *)
Power[l \in 0 .. Lines] == IF l = 0 THEN 1 ELSE 2 * Power[l - 1]

Cells == 0 .. Power[Lines] - 1

VARIABLES
  job,      \* the program and its arguments
  fault,    \* of the memory
  mem,      \* its cells that were written, the others are as in the job
  pg,       \* generated, the pvalue of the refresh and readback tests
  k,        \* the next access
  held,     \* contents, of the register tests
  result,   \* what the program returns: "run" while it does not
  fails,    \* the stand-alone test has counted a failure
  (* History, read by the properties only. *)
  touched,  \* cells accessed
  fresh,    \* cells written and not read since
  lost      \* a bit turned over in one of them

vars == << job, fault, mem, pg, k, held, result, fails, touched, fresh,
           lost >>

Sa == {"sa_refresh", "sa_integrity", "sa_cache"}
Patterned == {"refresh", "readback", "sa_refresh", "sa_integrity", "sa_cache"}
Address == {"addr_lo", "addr_hi"}
Register == {"reg_rw", "reg_ro", "reg_wo"}

WidthOf(j) == IF j.access = "other" THEN 8 ELSE Width[j.access]
w == WidthOf(job)

(* Bits turn over only in the programs that look for that. Of a region of  *)
(* no cell the alias test does not come to an end, nor do the address tests*)
(* with an address above every single bit: ram_addr_init does not find it. *)
ASSUME RamTestsAssumption ==
  /\ Lines \in Nat
  /\ \A j \in Jobs :
       /\ j.prog \in Patterned \union Address \union Register \union {"cache", "alias"}
       /\ j.access \in DOMAIN Width \union {"other"}
       /\ j.memory \in Nat /\ j.size \in Nat
       /\ j.bits \union j.mask \subseteq All(WidthOf(j))
       /\ j.flips \in BOOLEAN /\ j.flips => j.prog \in {"refresh", "readback"}
       /\ j.lines \subseteq 0 .. Lines - 1
       /\ j.prog = "alias" => j.size >= WidthOf(j) \div 8
       /\ j.prog \in Address => \E l \in 0 .. Lines - 1 : j.memory <= Power[l]
       /\ j.prog \in Register => j.size \in {1, 2}

-----------------------------------------------------------------------------
(* The memory.                                                             *)
Bit(a, l) == (a \div Power[l]) % 2 = 1
Differ(a, f) == Bit(a, f.x) # Bit(a, f.y)

Cell(a) ==
  CASE fault.kind = "line0" /\ Bit(a, fault.x)  -> a - Power[fault.x]
    [] fault.kind = "line1" /\ ~Bit(a, fault.x) -> a + Power[fault.x]
    [] fault.kind = "lines" /\ Differ(a, fault) ->
         IF Bit(a, fault.x) THEN a - Power[fault.x] ELSE a - Power[fault.y]
    [] OTHER -> a

Wired(v) ==
  IF fault.kind = "data" /\ ~{fault.x, fault.y} \subseteq v
    THEN v \ {fault.x, fault.y} ELSE v

Stored(m, c) == IF c \in DOMAIN m THEN m[c] ELSE job.old

Content(m, a) ==
  CASE fault.kind = "stuck0" /\ Cell(a) = fault.cell -> Stored(m, Cell(a)) \ {fault.x}
    [] fault.kind = "stuck1" /\ Cell(a) = fault.cell -> Stored(m, Cell(a)) \union {fault.x}
    [] OTHER -> Stored(m, Cell(a))

Read(a) == Content(mem, a)
Put(m, c, v) == [ d \in DOMAIN m \union {c} |-> IF d = c THEN v ELSE m[d] ]
Write(a, v) == Put(mem, Cell(a), Wired(v))

-----------------------------------------------------------------------------
(* Accesses: write, read and expect a value, read and expect another one,  *)
(* read; of a register: keep its contents, expect them, put them back.     *)
W(a, v) == [op |-> "write", a |-> a, v |-> v]
R(a, v) == [op |-> "is", a |-> a, v |-> v]
X(a, v) == [op |-> "is not", a |-> a, v |-> v]
Look(a) == [op |-> "look", a |-> a, v |-> Zero]
Keep(a) == [op |-> "keep", a |-> a, v |-> Zero]
Same(a) == [op |-> "same", a |-> a, v |-> Zero]
Back(a) == [op |-> "back", a |-> a, v |-> Zero]

Bytes == w \div 8
Count == job.size \div Bytes

(* The loops of ram.h are eight accesses long and are entered at overrun:  *)
(* how many accesses they make for Count cells.                            *)
OverrunOfSize == job.size % 8                                \* mutant
overrun == IF job.prog \in Sa THEN job.size % 8 ELSE Count % 8

Entered == IF overrun = 0 THEN 8 ELSE overrun
Accesses == IF Count <= Entered THEN Entered
                                ELSE Entered + 8 * ((Count - Entered + 7) \div 8)

Up == [n \in 1 .. Accesses |-> job.memory + n - 1]

FillAll(v) == [n \in DOMAIN Up |-> W(Up[n], v)]
FindAll(v) == [n \in DOMAIN Up |-> R(Up[n], v)]

RAM_FIND(v) == FindAll(v)

refresh_test(v) == FillAll(v) \o RAM_FIND(v)
readback_test(v) ==
  [n \in 1 .. 2 * Accesses |-> IF n % 2 = 1 THEN W(Up[(n + 1) \div 2], v)
                                            ELSE R(Up[n \div 2], v)]
cache_fill_test == [n \in DOMAIN Up |-> Look(Up[n])]

(* The stand-alone tests make the same accesses, entered elsewhere.        *)
sa_refresh_test(v) == refresh_test(v)
integrity_test(v) == readback_test(v)
sa_cache_fill_test == cache_fill_test

(* Each location holds its own address, written upwards, then, after a     *)
(* clear, downwards. Count is not 0: the loop down would not end.          *)
Addr(a) == { l \in 0 .. Lines - 1 : Bit(a, l) }
Find == [n \in DOMAIN Up |-> R(Up[n], Addr(Up[n]))]

ram_alias_test ==
  [n \in DOMAIN Up |-> W(Up[n], Addr(Up[n]))] \o Find
    \o FillAll(Zero)
    \o [n \in 1 .. Count |-> W(job.memory + Count - n, Addr(job.memory + Count - n))]
    \o Find

(* ram_addr_init, in words: the first power of two at or above memory, and *)
(* the last one that is not above memend.                                  *)
Powers == { Power[l] : l \in 0 .. Lines }
FirstFrom(a) == CHOOSE p \in Powers : p >= a /\ \A q \in Powers : q >= a => p <= q

memend == job.memory + Count
start == FirstFrom(job.memory)
stop == LET s == IF start < memend THEN FirstFrom(memend) ELSE start
        IN  IF s > memend THEN s \div 2 ELSE s

Location(p) == IF p = start THEN start ELSE start + p
Single == { Power[l] : l \in 0 .. Lines - 1 }
StartNotSkipped == { p \in Single : p <= stop }              \* mutant
Masked == { p \in Single : p <= stop /\ Location(p) # start }

(* Masks and bits are taken upwards.                                       *)
Least(S) == CHOOSE x \in S : \A y \in S : x <= y
Upwards(S) ==
  LET up[T \in SUBSET S] == IF T = {} THEN <<>>
                            ELSE <<Least(T)>> \o up[T \ {Least(T)}]
  IN  up[S]

Masks == Upwards(Masked)

background == Fives(w)
foreground == Inverted(w, Fives(w))

ram_addr_lo_test ==
  [n \in DOMAIN Masks |-> W(Location(Masks[n]), background)]
    \o <<W(start, foreground), X(0, foreground)>>
    \o [n \in DOMAIN Masks |-> R(Location(Masks[n]), background)]

ZeroUnchecked == <<W(start, background)>>                    \* mutant
Base == <<W(start, background), X(0, background)>>

ram_addr_hi_test ==
  Base \o [n \in 1 .. 2 * Len(Masks) |->
             IF n % 2 = 1 THEN W(Location(Masks[(n + 1) \div 2]), foreground)
                          ELSE R(start, background)]

(* The registers are tested one after the other; a bit that is not in its  *)
(* mask is left out. The size of such a job is the number of registers.    *)
WriteRead(r, S) ==
  LET bits == Upwards(S)
  IN  [n \in 1 .. 2 * Len(bits) |->
         IF n % 2 = 1 THEN W(r, {bits[(n + 1) \div 2]}) ELSE R(r, {bits[n \div 2]})]

reg_rw_test(r) == <<Keep(r)>> \o WriteRead(r, job.mask) \o <<Back(r)>>

reg_ro_test(r) == <<Keep(r)>> \o [n \in 1 .. w |-> Same(r)]
reg_wo_test(r) == [n \in 1 .. w |-> W(r, {n - 1})]

RegTest(r) ==
  CASE job.prog = "reg_rw" -> reg_rw_test(r)
    [] job.prog = "reg_ro" -> reg_ro_test(r)
    [] OTHER               -> reg_wo_test(r)

Regs == RegTest(job.memory) \o (IF job.size = 2 THEN RegTest(job.memory + 1) ELSE <<>>)

Script ==
  CASE job.prog = "refresh"       -> refresh_test(pg.v)
    [] job.prog = "readback"      -> readback_test(pg.v)
    [] job.prog = "cache"         -> cache_fill_test
    [] job.prog = "sa_refresh"    -> sa_refresh_test(pg.v)
    [] job.prog = "sa_integrity"  -> integrity_test(pg.v)
    [] job.prog = "sa_cache"      -> sa_cache_fill_test
    [] job.prog = "alias"         -> ram_alias_test
    [] job.prog = "addr_lo"       -> ram_addr_lo_test
    [] job.prog = "addr_hi"       -> ram_addr_hi_test
    [] job.prog \in Register      -> Regs

-----------------------------------------------------------------------------
(* What a program returns at once: for an access it does not know, or one  *)
(* its switch has no case for.                                             *)
Refused(j) ==
  \/ j.access = "other"
  \/ j.access = "longlong" /\ j.prog \in {"readback"} \union Sa

Refusal(j) == IF j.prog = "refresh" \/ j.prog \in Sa THEN "passed" ELSE "failed"

FaultsOf(j) ==
  {[kind |-> "none", x |-> 0, y |-> 0, cell |-> 0]}
    \union [kind : {"stuck0", "stuck1"}, x : j.bits, y : {0}, cell : j.cells]
    \union { f \in [kind : {"data"}, x : j.bits, y : j.bits, cell : {0}] : f.x < f.y }
    \union [kind : {"line0", "line1"}, x : j.lines, y : {0}, cell : {0}]
    \union { f \in [kind : {"lines"}, x : j.lines, y : j.lines, cell : {0}] : f.x < f.y }

Init ==
  /\ job \in Jobs /\ fault \in FaultsOf(job)
  /\ mem = <<>>
  /\ \E junk \in Junk, rand \in Rand :
       pg = spatgen(w, junk \intersect All(w), modgen(job.type), rand \intersect All(w))
  /\ k = 1 /\ held = Zero
  /\ result = IF Refused(job) THEN Refusal(job) ELSE "run"
  /\ fails = (Refused(job) /\ job.prog \in Sa)
  /\ touched = {} /\ fresh = {} /\ lost = FALSE

Failing(t, content) ==
  \/ t.op = "is" /\ content # t.v
  \/ t.op = "is not" /\ content = t.v
  \/ t.op = "same" /\ content # held

After(t) ==
  CASE t.op = "write" -> Write(t.a, t.v)
    [] t.op = "back"  -> Write(t.a, held)
    [] OTHER          -> mem

(* An access. A test ends with the first failure, the read-write test of a *)
(* register after it put the contents back; the stand-alone one counts it. *)
LeftAtFailure(r) == mem                                      \* mutant
AtFailure(r) == IF job.prog = "reg_rw" THEN Write(r, held) ELSE mem

(* The mains of the stand-alone tests return 0 whatever their tests do.    *)
OnlyCounted == job.prog \in Sa

Access(t, content) ==
  /\ touched' = touched \union {t.a}
  /\ fresh' = IF t.op = "write" THEN fresh \union {t.a} ELSE fresh \ {t.a}
  /\ held' = IF t.op = "keep" THEN content ELSE held
  /\ IF Failing(t, content) /\ ~OnlyCounted
       THEN result' = "failed" /\ mem' = AtFailure(t.a) /\ UNCHANGED << k, fails >>
       ELSE /\ mem' = After(t) /\ k' = k + 1
            /\ fails' = (fails \/ Failing(t, content))
            /\ UNCHANGED result
  /\ UNCHANGED << job, fault, pg, lost >>

Step ==
  /\ result = "run" /\ k <= Len(Script)
  /\ \E t \in {Script[k]} : Access(t, Read(t.a))

(* A pass over the region is over: the next pattern, or the end.           *)
NextPattern ==
  /\ result = "run" /\ k > Len(Script)
  /\ IF job.prog \in Patterned
       THEN /\ \E rand \in Rand : pg' = patgen(pg, Zero, modgen(job.type),
                                             rand \intersect All(w))
            /\ result' = IF pg'.end THEN "passed" ELSE "run"
            /\ k' = 1
       ELSE result' = "passed" /\ UNCHANGED << pg, k >>
  /\ UNCHANGED << job, fault, mem, held, fails, touched, fresh, lost >>

Flip(a) ==
  /\ result = "run" /\ job.flips /\ fault.kind = "none" /\ ~lost
  /\ mem' = Put(mem, a, IF 0 \in Read(a) THEN Read(a) \ {0} ELSE Read(a) \union {0})
  /\ lost' = (a \in fresh)
  /\ UNCHANGED << job, fault, pg, k, held, result, fails, touched, fresh >>

Region == job.memory .. job.memory + Count - 1

Next == Step \/ NextPattern \/ (\E a \in Region : Flip(a))

Spec == Init /\ [][Next]_vars /\ WF_vars(Step) /\ WF_vars(NextPattern)

-----------------------------------------------------------------------------
Over == result # "run"

(* The loops of ram.h, entered in the middle, touch the cells of a region  *)
(* that is not empty and no other, whatever the remainder of their number  *)
(* by eight (ram.h:25-157), with patterns that fit the access.             *)
WithinRegion ==
  /\ pg.v \subseteq All(w)
  /\ job.prog \in {"refresh", "readback", "cache", "alias"} /\ Count > 0
       => touched \subseteq Region

(* The faults each program is there to find:                               *)
DataFault ==
  /\ job.prog \in {"refresh", "readback"}
  /\ job.type = "ham" /\ job.access \in {"char", "short", "long"}
  /\ \/ fault.kind \in {"stuck0", "stuck1"} /\ fault.cell \in Region
     \/ fault.kind = "data"

LineFault == fault.kind \in {"line0", "line1", "lines"}
SeenLine(l) == Power[l] <= stop \/ Power[l] = start

AddressFault ==
  /\ LineFault
  /\ \/ job.prog = "alias" /\ \E a, b \in Region : a # b /\ Cell(a) = Cell(b)
     \/ job.prog \in Address /\ SeenLine(fault.x) /\ SeenLine(fault.y)

Tested == job.memory .. job.memory + job.size - 1
RegisterFault ==
  /\ job.prog = "reg_rw" /\ fault.kind \in {"stuck0", "stuck1"}
  /\ fault.cell \in Tested /\ fault.x \in job.mask
  /\ fault.kind = "stuck1" => job.mask # {fault.x}

(* a stuck or shorted bit, whichever one it is, by some pattern of the ham *)
(* list (patgen.c:37-60); an address line, by the addresses that differ in *)
(* one bit from the first (ram-addr-lo.c:67-110, ram-addr-hi.c:64-95), by  *)
(* two addresses of the region that are one cell (ram-alias.c:49-107); a   *)
(* bit of a register (reg-rw.c:30-49), a one only by some other bit of its *)
(* mask; a bit that turns over after a pattern was written and before the  *)
(* cell is read again, at whatever access it happens (ram-refresh.c:32-40, *)
(* ram-readback.c:32-39).                                                  *)
FaultsFound ==
  result = "passed" => ~(DataFault \/ AddressFault \/ RegisterFault \/ lost)

(* A memory without a fault passes every program that accepts its access,  *)
(* and the address tests unless location 0, which they compare and do not  *)
(* write, has held their pattern before (ram-addr-lo.c:89-95,              *)
(* ram-addr-hi.c:64-76).                                                   *)
StaleZero ==
  \/ job.prog = "addr_lo" /\ job.old = foreground
  \/ job.prog = "addr_hi" /\ job.old = background

NoFalseAlarm ==
  fault.kind = "none" /\ ~job.flips /\ ~Refused(job) /\ ~StaleZero =>
    result # "failed" /\ ~fails

(* The read-write test of a register leaves it as it was, also when it     *)
(* fails in the middle (reg-rw.c:39-48).                                   *)
Restored ==
  job.prog = "reg_rw" /\ Over /\ fault.kind # "data" =>
    \A r \in Tested : Read(r) = Content(<<>>, r)

(* With a pattern that comes from a list every program comes to its end.   *)
Ends == (job.prog \in Patterned => job.type \in Listed) ~> Over

-----------------------------------------------------------------------------
(* What the sources say and the code does not do.                          *)

(* The addresses of the address tests are in the region ("Single bit addrs *)
(* in region", ram-addr-lo.c:18, ram-addr-hi.c:18), the location 0 they    *)
(* check apart.                                                            *)
SingleBitsInRegion == job.prog \in Address => touched \subseteq Region \union {0}
=============================================================================
