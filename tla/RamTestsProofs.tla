--------------------------- MODULE RamTestsProofs ---------------------------
(***************************************************************************)
(* What the test programs do with every region, every width of access and  *)
(* every list of patterns: they stay within the region, a memory without a *)
(* fault passes them, a register is put back, and each finds the faults it *)
(* is there to find. All rest on the same facts about the sequences of     *)
(* accesses: which cell each is at, and which write it is that a read      *)
(* meets.                                                                  *)
(***************************************************************************)
EXTENDS RamTests, FiniteSetTheorems, SequenceTheorems, WellFoundedInduction, TLAPS

mod == modgen(job.type)

PValue(p) ==
  /\ DOMAIN p = {"w", "n", "end", "v"}
  /\ p.w = w /\ p.n \in Nat /\ p.v \subseteq All(w)

PatternInv ==
  /\ PValue(pg)
  /\ mod \in Listed => /\ pg.n < Len(Values(w, mod))
                       /\ w # 64 => pg.v = Values(w, mod)[pg.n + 1]
  /\ result = "run" => ~pg.end

JobInv ==
  /\ job \in Jobs /\ fault \in FaultsOf(job)
  /\ k \in Nat \ {0} /\ result \in {"run", "passed", "failed"} /\ fails \in BOOLEAN
  /\ result = "run" => ~Refused(job)

TypeInv == JobInv /\ PatternInv

-----------------------------------------------------------------------------
(* Induction over the naturals, of a set.                                  *)
LEMMA SetInduction ==
  ASSUME NEW S \in SUBSET Nat, 0 \in S, \A n \in S : n + 1 \in S
  PROVE  S = Nat
<1> SUFFICES ASSUME Nat \ S # {} PROVE FALSE
  OBVIOUS
<1>1. PICK x \in Nat \ S : \A y \in Nat \ S : ~(<<y, x>> \in OpToRel(<, Nat))
  <2>1. IsWellFoundedOn(OpToRel(<, Nat), Nat) /\ Nat \ S \subseteq Nat
    BY NatLessThanWellFounded
  <2>2. QED
    BY <2>1, WFMin
<1>2. \A y \in Nat : y < x => <<y, x>> \in OpToRel(<, Nat)
  BY DEF OpToRel
<1>3. x # 0 /\ x - 1 \in Nat /\ x - 1 < x
  OBVIOUS
<1>4. x - 1 \in S
  BY <1>1, <1>2, <1>3
<1>5. QED
  BY <1>3, <1>4

-----------------------------------------------------------------------------
(* The powers of two, and the order of the masks and the bits.             *)
LEMMA PowerIs ==
  \A l \in 0 .. Lines : /\ Power[l] = (IF l = 0 THEN 1 ELSE 2 * Power[l - 1])
                        /\ Power[l] \in Nat \ {0}
<1> DEFINE Next2(f, l) == IF l = 0 THEN 1 ELSE 2 * f[l - 1]
           Good(f, n) == \A l \in 0 .. n : f[l] = Next2(f, l) /\ f[l] \in Nat \ {0}
           S == { n \in Nat : \E f : Good(f, n) }
<1>0. Lines \in Nat
  BY RamTestsAssumption
<1>1. 0 \in S
  <2>1. Good([l \in {0} |-> 1], 0)
    OBVIOUS
  <2>2. QED
    BY <2>1, Zenon
<1>2. ASSUME NEW n \in S PROVE n + 1 \in S
  <2>1. PICK f : Good(f, n)
    OBVIOUS
  <2> DEFINE g == [l \in 0 .. n + 1 |-> IF l = n + 1 THEN 2 * f[n] ELSE f[l]]
  <2>2. n \in Nat /\ n + 1 \in Nat
    OBVIOUS
  <2>3. ASSUME NEW l \in 0 .. n + 1 PROVE g[l] = Next2(g, l) /\ g[l] \in Nat \ {0}
    <3>1. CASE l = n + 1
      <4>1. g[l] = 2 * f[n] /\ g[n] = f[n] /\ f[n] \in Nat \ {0} /\ l # 0 /\ l - 1 = n
        BY <2>1, <2>2, <3>1
      <4> HIDE DEF g
      <4>2. QED
        BY <4>1
    <3>2. CASE l \in 0 .. n
      <4>1. g[l] = f[l] /\ f[l] = Next2(f, l) /\ f[l] \in Nat \ {0}
        BY <2>1, <2>2, <3>2
      <4>2. l # 0 => g[l - 1] = f[l - 1]
        BY <2>2, <3>2
      <4> HIDE DEF g
      <4>3. QED
        BY <4>1, <4>2
    <3>3. QED
      BY <2>2, <3>1, <3>2
  <2> HIDE DEF g
  <2>4. Good(g, n + 1)
    BY <2>3
  <2>5. QED
    BY <2>2, <2>4
<1>3. S \in SUBSET Nat
  OBVIOUS
<1> HIDE DEF S
<1>4. S = Nat
  BY <1>1, <1>2, <1>3, SetInduction
<1>5. PICK f : Good(f, Lines)
  BY <1>0, <1>4 DEF S
<1> DEFINE g == [l \in 0 .. Lines |-> f[l]]
<1>6. ASSUME NEW l \in 0 .. Lines PROVE g[l] = f[l] /\ (l # 0 => g[l - 1] = f[l - 1])
  BY <1>0
<1>7. g = [l \in 0 .. Lines |-> IF l = 0 THEN 1 ELSE 2 * g[l - 1]]
  <2>1. \A l \in 0 .. Lines : g[l] = IF l = 0 THEN 1 ELSE 2 * g[l - 1]
    BY <1>5, <1>6
  <2>2. g = [l \in 0 .. Lines |-> g[l]]
    OBVIOUS
  <2> HIDE DEF g
  <2>3. QED
    BY <2>1, <2>2
<1> HIDE DEF g, Good
<1>8. Power = [l \in 0 .. Lines |-> IF l = 0 THEN 1 ELSE 2 * Power[l - 1]]
  BY <1>7, Zenon DEF Power
<1>9. \A l \in 0 .. Lines : Power[l] = IF l = 0 THEN 1 ELSE 2 * Power[l - 1]
  BY <1>8
<1> DEFINE T == { n \in Nat : n <= Lines => Power[n] \in Nat \ {0} }
<1>10. 0 \in T /\ T \in SUBSET Nat
  BY <1>0, <1>9
<1>11. ASSUME NEW n \in T PROVE n + 1 \in T
  <2>1. n + 1 <= Lines => n + 1 \in 0 .. Lines /\ n <= Lines /\ (n + 1) - 1 = n /\ n + 1 # 0
    BY <1>0
  <2>2. n + 1 <= Lines => Power[n + 1] = 2 * Power[n]
    BY <1>9, <2>1
  <2>3. QED
    BY <2>1, <2>2
<1> HIDE DEF T
<1>12. T = Nat
  BY <1>10, <1>11, SetInduction
<1>13. QED
  BY <1>0, <1>9, <1>12 DEF T

(* The bits of a sum of powers.                                            *)
LEMMA Quotient ==
  ASSUME NEW b \in Nat \ {0}, NEW q \in Nat, NEW r \in 0 .. b - 1
  PROVE  (b * q + r) \div b = q
OBVIOUS

LEMMA BitIs ==
  ASSUME NEW l \in 0 .. Lines, NEW q \in Nat, NEW r \in 0 .. Power[l] - 1
  PROVE  Bit(Power[l] * q + r, l) <=> q % 2 = 1
<1>1. Power[l] \in Nat \ {0}
  BY PowerIs
<1>2. (Power[l] * q + r) \div Power[l] = q
  BY <1>1, Quotient
<1>3. QED
  BY <1>2 DEF Bit

LEMMA PowerBelow ==
  ASSUME NEW l \in 0 .. Lines, NEW i \in 0 .. Lines, i < l
  PROVE  2 * Power[i] <= Power[l]
<1> DEFINE T == { n \in Nat : i < n /\ n <= Lines => 2 * Power[i] <= Power[n] }
<1>1. Lines \in Nat
  BY RamTestsAssumption
<1>2. 0 \in T /\ T \in SUBSET Nat
  BY <1>1
<1>3. ASSUME NEW n \in T PROVE n + 1 \in T
  <2> SUFFICES ASSUME i < n + 1, n + 1 <= Lines PROVE 2 * Power[i] <= Power[n + 1]
    OBVIOUS
  <2>1. n \in 0 .. Lines /\ n + 1 \in 0 .. Lines /\ n + 1 # 0 /\ (n + 1) - 1 = n
    BY <1>1
  <2>2. Power[n + 1] = 2 * Power[n] /\ Power[n] \in Nat /\ Power[i] \in Nat
    BY <2>1, PowerIs
  <2>3. i = n \/ i < n
    BY <2>1
  <2>4. i < n => 2 * Power[i] <= Power[n]
    BY <2>1
  <2>5. QED
    BY <2>2, <2>3, <2>4
<1> HIDE DEF T
<1>4. T = Nat
  BY <1>2, <1>3, SetInduction
<1>5. l \in T
  BY <1>1, <1>4
<1>6. QED
  BY <1>1, <1>5 DEF T

LEMMA PowerAbove ==
  ASSUME NEW l \in 0 .. Lines, NEW i \in 0 .. Lines, l < i
  PROVE  \E e \in Nat : Power[i] = Power[l] * (2 * e)
<1> DEFINE T == { n \in Nat : l <= n /\ n <= Lines => \E e \in Nat : Power[n] = Power[l] * e }
<1>1. Lines \in Nat /\ Power[l] \in Nat
  BY PowerIs, RamTestsAssumption
<1>2. 0 \in T
  <2>1. 0 >= l => Power[0] = Power[l] * 1
    BY <1>1
  <2>2. QED
    BY <1>1, <2>1
<1>3. ASSUME NEW n \in T PROVE n + 1 \in T
  <2> SUFFICES ASSUME l <= n + 1, n + 1 <= Lines PROVE \E e \in Nat : Power[n + 1] = Power[l] * e
    OBVIOUS
  <2>1. n \in 0 .. Lines /\ n + 1 \in 0 .. Lines /\ n + 1 # 0 /\ (n + 1) - 1 = n
    BY <1>1
  <2>2. Power[n + 1] = 2 * Power[n]
    BY <2>1, PowerIs
  <2>3. CASE l = n + 1
    <3>1. Power[n + 1] = Power[l] * 1
      BY <1>1, <2>3
    <3>2. QED
      BY <3>1
  <2>4. CASE l <= n
    <3>1. PICK e \in Nat : Power[n] = Power[l] * e
      BY <2>1, <2>4
    <3>2. Power[n + 1] = Power[l] * (2 * e) /\ 2 * e \in Nat
      BY <1>1, <2>2, <3>1
    <3>3. QED
      BY <3>2
  <2>5. QED
    BY <2>1, <2>3, <2>4
<1>4. T \in SUBSET Nat
  OBVIOUS
<1> HIDE DEF T
<1>5. T = Nat
  BY <1>2, <1>3, <1>4, SetInduction
<1>6. i - 1 \in Nat /\ l <= i - 1 /\ i - 1 <= Lines /\ i # 0
  BY <1>1
<1>7. PICK e \in Nat : Power[i - 1] = Power[l] * e
  BY <1>5, <1>6 DEF T
<1>8. Power[i] = 2 * Power[i - 1]
  BY <1>6, PowerIs
<1>9. Power[i] = Power[l] * (2 * e)
  BY <1>1, <1>7, <1>8
<1>10. QED
  BY <1>9

LEMMA PowerApart ==
  ASSUME NEW l \in 0 .. Lines, NEW i \in 0 .. Lines, i # l
  PROVE  \E e \in Nat, r \in Nat :
           /\ Power[i] = Power[l] * (2 * e) + r
           /\ IF i < l THEN e = 0 /\ r = Power[i] ELSE r = 0
<1>1. Power[i] \in Nat /\ Power[l] \in Nat
  BY PowerIs
<1>2. CASE i < l
  <2>1. Power[i] = Power[l] * (2 * 0) + Power[i]
    BY <1>1
  <2>2. QED
    BY <1>1, <1>2, <2>1
<1>3. CASE l < i
  <2>1. PICK e \in Nat : Power[i] = Power[l] * (2 * e)
    BY <1>3, PowerAbove
  <2>2. Power[i] = Power[l] * (2 * e) + 0
    BY <1>1, <2>1
  <2>3. ~(i < l)
    BY <1>3
  <2>4. QED
    BY <2>2, <2>3
<1>4. QED
  BY <1>2, <1>3

LEMMA PowerBit ==
  ASSUME NEW l \in 0 .. Lines
  PROVE  /\ ~Bit(0, l)
         /\ \A i \in 0 .. Lines : Bit(Power[i], l) <=> i = l
<1>1. Power[l] \in Nat \ {0}
  BY PowerIs
<1>2. ~Bit(0, l)
  <2>1. 0 = Power[l] * 0 + 0 /\ 0 \in 0 .. Power[l] - 1
    BY <1>1
  <2>2. Bit(Power[l] * 0 + 0, l) <=> 0 % 2 = 1
    BY <2>1, BitIs
  <2>3. QED
    BY <2>1, <2>2
<1>3. ASSUME NEW i \in 0 .. Lines PROVE Bit(Power[i], l) <=> i = l
  <2>1. CASE i = l
    <3>1. Power[l] = Power[l] * 1 + 0 /\ 0 \in 0 .. Power[l] - 1
      BY <1>1
    <3>2. Bit(Power[l] * 1 + 0, l) <=> 1 % 2 = 1
      BY <3>1, BitIs
    <3>3. QED
      BY <2>1, <3>1, <3>2
  <2>2. CASE i # l
    <3>1. PICK e \in Nat, r \in Nat : /\ Power[i] = Power[l] * (2 * e) + r
                                     /\ IF i < l THEN e = 0 /\ r = Power[i] ELSE r = 0
      BY <2>2, PowerApart
    <3>2. r \in 0 .. Power[l] - 1
      BY <1>1, <3>1, PowerBelow, PowerIs
    <3>3. Bit(Power[l] * (2 * e) + r, l) <=> (2 * e) % 2 = 1
      BY <3>2, 2 * e \in Nat, BitIs
    <3>4. QED
      BY <2>2, <3>1, <3>3
  <2>3. QED
    BY <2>1, <2>2
<1>4. QED
  BY <1>2, <1>3

LEMMA SumBit ==
  ASSUME NEW l \in 0 .. Lines, NEW i \in 0 .. Lines, NEW j \in 0 .. Lines, i # j
  PROVE  Bit(Power[i] + Power[j], l) <=> l \in {i, j}
<1>1. Power[l] \in Nat \ {0} /\ Power[i] \in Nat \ {0} /\ Power[j] \in Nat \ {0}
  BY PowerIs
<1>2. ASSUME NEW m \in 0 .. Lines, m # l
      PROVE  Bit(Power[l] + Power[m], l)
  <2>1. PICK e \in Nat, r \in Nat : /\ Power[m] = Power[l] * (2 * e) + r
                                   /\ IF m < l THEN e = 0 /\ r = Power[m] ELSE r = 0
    BY <1>2, PowerApart
  <2>2. r \in 0 .. Power[l] - 1
    BY <1>1, <2>1, PowerBelow, PowerIs
  <2>3. Power[l] + Power[m] = Power[l] * (2 * e + 1) + r
    BY <1>1, <2>1
  <2>4. Bit(Power[l] * (2 * e + 1) + r, l) <=> (2 * e + 1) % 2 = 1
    BY <2>2, 2 * e + 1 \in Nat, BitIs
  <2>5. QED
    BY <2>3, <2>4
<1>3. CASE l = i
  BY <1>2, <1>3
<1>4. CASE l = j
  BY <1>1, <1>2, <1>4, Power[i] + Power[j] = Power[j] + Power[i]
<1>5. CASE l \notin {i, j}
  <2>1. PICK e \in Nat, r \in Nat : /\ Power[i] = Power[l] * (2 * e) + r
                                   /\ IF i < l THEN e = 0 /\ r = Power[i] ELSE r = 0
    BY <1>5, PowerApart
  <2>2. PICK f \in Nat, s \in Nat : /\ Power[j] = Power[l] * (2 * f) + s
                                   /\ IF j < l THEN f = 0 /\ s = Power[j] ELSE s = 0
    BY <1>5, PowerApart
  <2>3. /\ i < l => 2 * Power[i] <= Power[l]
        /\ j < l => 2 * Power[j] <= Power[l]
        /\ i < j => 2 * Power[i] <= Power[j]
        /\ j < i => 2 * Power[j] <= Power[i]
    BY PowerBelow
  <2>4. r + s \in 0 .. Power[l] - 1
    BY <1>1, <2>1, <2>2, <2>3
  <2>5. Power[i] + Power[j] = Power[l] * (2 * (e + f)) + (r + s)
    BY <1>1, <2>1, <2>2
  <2>6. Bit(Power[l] * (2 * (e + f)) + (r + s), l) <=> (2 * (e + f)) % 2 = 1
    BY <2>4, 2 * (e + f) \in Nat, BitIs
  <2>7. QED
    BY <1>5, <2>5, <2>6
<1>6. QED
  BY <1>3, <1>4, <1>5

LEMMA LeastIs ==
  ASSUME NEW T \in SUBSET Nat, T # {}
  PROVE  Least(T) \in T /\ \A y \in T : Least(T) <= y
<1>1. PICK x \in T : \A y \in T : ~(<<y, x>> \in OpToRel(<, Nat))
  BY NatLessThanWellFounded, WFMin
<1>2. \A y \in T : y < x => <<y, x>> \in OpToRel(<, Nat)
  BY DEF OpToRel
<1>3. ASSUME NEW y \in T PROVE x <= y
  <2>1. x \in Nat /\ y \in Nat /\ ~(y < x)
    BY <1>1, <1>2
  <2>2. QED
    BY <2>1
<1>4. QED
  BY <1>3 DEF Least

(* The sequence of a finite set has each of its elements.                  *)
Taken(f, T) == IF T = {} THEN <<>> ELSE <<Least(T)>> \o f[T \ {Least(T)}]

LEMMA OneLess ==
  ASSUME NEW T \in SUBSET Nat, IsFiniteSet(T), T # {}, NEW n \in Nat, Cardinality(T) <= n + 1
  PROVE  /\ T \ {Least(T)} \in SUBSET T /\ IsFiniteSet(T \ {Least(T)})
         /\ Cardinality(T \ {Least(T)}) <= n
<1>1. Least(T) \in T
  BY LeastIs
<1>2. /\ IsFiniteSet(T \ {Least(T)}) /\ Cardinality(T \ {Least(T)}) = Cardinality(T) - 1
      /\ Cardinality(T) \in Nat
  BY <1>1, FS_RemoveElement, FS_CardinalityType
<1>3. QED
  BY <1>2

LEMMA UpwardsExists ==
  ASSUME NEW S \in SUBSET Nat, IsFiniteSet(S)
  PROVE  \E f : f = [T \in SUBSET S |-> Taken(f, T)]
<1> DEFINE Small(n) == { T \in SUBSET S : Cardinality(T) <= n }
           Good(f, n) == f = [T \in SUBSET S |-> f[T]] /\ \A T \in Small(n) : f[T] = Taken(f, T)
           N == { n \in Nat : \E f : Good(f, n) }
<1>0. \A T \in SUBSET S : IsFiniteSet(T) /\ Cardinality(T) \in Nat /\ T \in SUBSET Nat
                          /\ Cardinality(T) <= Cardinality(S)
  BY FS_Subset, FS_CardinalityType
<1>1. 0 \in N
  <2> DEFINE f == [T \in SUBSET S |-> <<>>]
  <2>1. ASSUME NEW T \in Small(0) PROVE f[T] = Taken(f, T)
    <3>1. T = {}
      BY <1>0, FS_EmptySet
    <3>2. QED
      BY <3>1 DEF Taken
  <2>2. Good(f, 0)
    BY <2>1
  <2> HIDE DEF f
  <2>3. QED
    BY <2>2
<1>2. ASSUME NEW n \in N PROVE n + 1 \in N
  <2>1. PICK f : Good(f, n)
    OBVIOUS
  <2> DEFINE g == [T \in SUBSET S |-> Taken(f, T)]
  <2>2. \A T \in Small(n) : g[T] = f[T]
    BY <2>1
  <2>3. ASSUME NEW T \in Small(n + 1) PROVE g[T] = Taken(g, T)
    <3>1. T # {} => T \ {Least(T)} \in Small(n)
      BY <1>0, OneLess
    <3>2. T # {} => g[T \ {Least(T)}] = f[T \ {Least(T)}]
      BY <2>2, <3>1
    <3>3. g[T] = Taken(f, T)
      OBVIOUS
    <3> HIDE DEF g
    <3>4. QED
      BY <3>2, <3>3 DEF Taken
  <2>4. g = [T \in SUBSET S |-> g[T]]
    OBVIOUS
  <2> HIDE DEF g
  <2>5. Good(g, n + 1)
    BY <2>3, <2>4
  <2>6. n + 1 \in Nat
    OBVIOUS
  <2>7. QED
    BY <2>5, <2>6, Zenon
<1>3. N \in SUBSET Nat
  OBVIOUS
<1> HIDE DEF N
<1>4. N = Nat
  BY <1>1, <1>2, <1>3, SetInduction
<1>5. PICK f : Good(f, Cardinality(S))
  BY <1>0, <1>4 DEF N
<1>6. \A T \in SUBSET S : f[T] = Taken(f, T)
  BY <1>0, <1>5
<1>7. f = [T \in SUBSET S |-> Taken(f, T)]
  BY <1>5, <1>6
<1>8. QED
  BY <1>7

Lists(q, T) == q \in Seq(T) /\ \A x \in T : \E n \in 1 .. Len(q) : q[n] = x

LEMMA NoneListed == Lists(<<>>, {})
BY DEF Lists

LEMMA UpwardsIs ==
  ASSUME NEW S \in SUBSET Nat, IsFiniteSet(S)
  PROVE  Lists(Upwards(S), S)
<1> DEFINE up == CHOOSE f : f = [T \in SUBSET S |->
                   IF T = {} THEN <<>> ELSE <<Least(T)>> \o f[T \ {Least(T)}]]
<1>1. Upwards(S) = up[S]
  BY DEF Upwards
<1>2. PICK f : f = [T \in SUBSET S |-> Taken(f, T)]
  BY UpwardsExists
<1>3. f = [T \in SUBSET S |-> IF T = {} THEN <<>> ELSE <<Least(T)>> \o f[T \ {Least(T)}]]
  BY <1>2 DEF Taken
<1>4. up = [T \in SUBSET S |-> IF T = {} THEN <<>> ELSE <<Least(T)>> \o up[T \ {Least(T)}]]
  BY <1>3, Zenon
<1> HIDE DEF up
<1>5. \A T \in SUBSET S : up[T] = IF T = {} THEN <<>> ELSE <<Least(T)>> \o up[T \ {Least(T)}]
  BY <1>4
<1> DEFINE N == { n \in Nat : \A T \in SUBSET S : Cardinality(T) <= n => Lists(up[T], T) }
<1>6. \A T \in SUBSET S : IsFiniteSet(T) /\ Cardinality(T) \in Nat /\ T \in SUBSET Nat
  BY FS_Subset, FS_CardinalityType
<1>7. 0 \in N
  <2> SUFFICES ASSUME NEW T \in SUBSET S, Cardinality(T) <= 0 PROVE Lists(up[T], T)
    OBVIOUS
  <2>1. T = {}
    BY <1>6, FS_EmptySet
  <2>2. QED
    BY <1>5, <2>1, NoneListed
<1>8. ASSUME NEW n \in N PROVE n + 1 \in N
  <2> SUFFICES ASSUME NEW T \in SUBSET S, Cardinality(T) <= n + 1, T # {} PROVE Lists(up[T], T)
    <3>1. Lists(up[{}], {})
      BY <1>5, NoneListed
    <3>2. n + 1 \in Nat
      OBVIOUS
    <3>3. QED
      BY <3>1, <3>2
  <2> DEFINE a == Least(T)
             q == up[T \ {a}]
  <2>1. T \ {a} \in SUBSET S /\ Cardinality(T \ {a}) <= n /\ a \in T /\ n \in Nat
    BY <1>6, OneLess, LeastIs
  <2>2. Lists(q, T \ {a}) /\ up[T] = <<a>> \o q
    BY <1>5, <2>1
  <2> HIDE DEF a, q
  <2>3. /\ q \in Seq(T) /\ <<a>> \in Seq(T) /\ Len(<<a>>) = 1 /\ <<a>>[1] = a
        /\ \A x \in T \ {a} : \E i \in 1 .. Len(q) : q[i] = x
    BY <2>1, <2>2 DEF Lists
  <2>4. /\ <<a>> \o q \in Seq(T) /\ Len(<<a>> \o q) = 1 + Len(q) /\ Len(q) \in Nat
        /\ \A i \in 1 .. 1 + Len(q) : (<<a>> \o q)[i] = IF i <= 1 THEN a ELSE q[i - 1]
    BY <2>3, ConcatProperties
  <2>5. ASSUME NEW x \in T PROVE \E i \in 1 .. 1 + Len(q) : (<<a>> \o q)[i] = x
    <3>1. CASE x = a
      <4>1. 1 \in 1 .. 1 + Len(q) /\ (<<a>> \o q)[1] = x
        BY <2>4, <3>1
      <4>2. QED
        BY <4>1
    <3>2. CASE x # a
      <4>1. PICK i \in 1 .. Len(q) : q[i] = x
        BY <2>3, <3>2
      <4>2. i + 1 \in 1 .. 1 + Len(q) /\ ~(i + 1 <= 1) /\ (i + 1) - 1 = i
        BY <2>4
      <4>3. (<<a>> \o q)[i + 1] = x
        BY <2>4, <4>1, <4>2
      <4>4. QED
        BY <4>2, <4>3
    <3>3. QED
      BY <3>1, <3>2
  <2>6. QED
    BY <2>2, <2>4, <2>5 DEF Lists
<1>9. N \in SUBSET Nat
  OBVIOUS
<1> HIDE DEF N
<1>10. N = Nat
  BY <1>7, <1>8, <1>9, SetInduction
<1>11. Lists(up[S], S)
  BY <1>6, <1>10, S \in SUBSET S DEF N
<1>12. QED
  BY <1>1, <1>11

-----------------------------------------------------------------------------
(* The arguments of a program and the accesses they make of it.            *)
LEMMA JobType ==
  ASSUME job \in Jobs
  PROVE  /\ w \in {8, 16, 32, 64} /\ Bytes \in {1, 2, 4, 8} /\ Bytes = w \div 8
         /\ job.memory \in Nat /\ job.size \in Nat /\ Count \in Nat
         /\ job.prog = "alias" => Count > 0
<1>1. w \in {8, 16, 32, 64}
  BY RamTestsAssumption DEF w, WidthOf, Width
<1>2. Bytes \in {1, 2, 4, 8} /\ Bytes = w \div 8
  BY <1>1 DEF Bytes
<1>3. job.memory \in Nat /\ job.size \in Nat /\ (job.prog = "alias" => job.size >= w \div 8)
  BY RamTestsAssumption DEF w
<1>4. Count \in Nat /\ (job.size >= Bytes => Count > 0)
  BY <1>2, <1>3 DEF Count
<1>5. QED
  BY <1>1, <1>2, <1>3, <1>4

(* The loops that are entered in the middle make an access for each cell.  *)
LEMMA AccessesAreCount ==
  ASSUME job \in Jobs
  PROVE  /\ Accesses \in Nat \ {0}
         /\ job.prog \notin Sa /\ Count > 0 => Accesses = Count
<1>1. Count \in Nat /\ job.size \in Nat
  BY JobType
<1>2. overrun \in 0 .. 7 /\ (job.prog \notin Sa => overrun = Count % 8)
  BY <1>1 DEF overrun
<1>3. Entered \in 1 .. 8
  BY <1>2 DEF Entered
<1>4. Accesses \in Nat \ {0}
  BY <1>1, <1>3 DEF Accesses
<1>5. ASSUME job.prog \notin Sa, Count > 0 PROVE Accesses = Count
  <2>1. PICK q \in Nat : Count = Entered + 8 * q
    <3>1. Count = 8 * (Count \div 8) + (Count % 8) /\ Count \div 8 \in Nat
      BY <1>1
    <3>2. CASE overrun = 0
      <4>1. Count % 8 = 0 /\ Entered = 8
        BY <1>2, <1>5, <3>2 DEF Entered
      <4>2. Count \div 8 - 1 \in Nat /\ Count = Entered + 8 * (Count \div 8 - 1)
        BY <1>1, <1>5, <3>1, <4>1
      <4>3. QED
        BY <4>2
    <3>3. CASE overrun # 0
      BY <1>1, <1>2, <1>5, <3>1, <3>3 DEF Entered
    <3>4. QED
      BY <3>2, <3>3
  <2>2. (8 * q + 7) \div 8 = q
    BY <2>1
  <2>3. QED
    BY <1>1, <1>3, <2>1, <2>2 DEF Accesses
<1>6. QED
  BY <1>4, <1>5

LEMMA UpIs ==
  ASSUME job \in Jobs
  PROVE  /\ DOMAIN Up = 1 .. Accesses
         /\ \A n \in 1 .. Accesses : Up[n] = job.memory + n - 1 /\ Up[n] \in Nat
         /\ \A m, n \in 1 .. Accesses : Up[m] = Up[n] => m = n
BY JobType, AccessesAreCount DEF Up

LEMMA FunctionIsSeq ==
  ASSUME NEW n \in Nat, NEW P, NEW f \in [1 .. n -> P]
  PROVE  f \in Seq(P) /\ Len(f) = n
OBVIOUS

LEMMA Joined ==
  ASSUME NEW P, NEW p \in Seq(P), NEW q \in Seq(P)
  PROVE  /\ p \o q \in Seq(P) /\ Len(p \o q) = Len(p) + Len(q)
         /\ \A i \in 1 .. Len(p) : (p \o q)[i] = p[i]
         /\ \A i \in 1 .. Len(q) : (p \o q)[Len(p) + i] = q[i]
<1> DEFINE s == p \o q
<1>1. /\ s \in Seq(P) /\ Len(s) = Len(p) + Len(q) /\ Len(p) \in Nat /\ Len(q) \in Nat
      /\ \A i \in 1 .. Len(p) + Len(q) : s[i] = IF i <= Len(p) THEN p[i] ELSE q[i - Len(p)]
  BY ConcatProperties
<1> HIDE DEF s
<1>2. \A i \in 1 .. Len(p) : s[i] = p[i]
  BY <1>1
<1>3. ASSUME NEW i \in 1 .. Len(q) PROVE s[Len(p) + i] = q[i]
  <2>1. Len(p) + i \in 1 .. Len(p) + Len(q) /\ ~(Len(p) + i <= Len(p)) /\ Len(p) + i - Len(p) = i
    BY <1>1
  <2>2. QED
    BY <1>1, <2>1
<1>4. QED
  BY <1>1, <1>2, <1>3 DEF s

LEMMA RefreshIs ==
  ASSUME job \in Jobs, NEW v
  PROVE  LET S == refresh_test(v)
         IN  /\ Len(S) = 2 * Accesses /\ DOMAIN S = 1 .. 2 * Accesses
             /\ \A n \in 1 .. Accesses : S[n] = W(Up[n], v)
             /\ \A n \in Accesses + 1 .. 2 * Accesses : S[n] = R(Up[n - Accesses], v)
<1> DEFINE P == { W(Up[n], v) : n \in 1 .. Accesses } \union { R(Up[n], v) : n \in 1 .. Accesses }
<1>1. Accesses \in Nat /\ DOMAIN Up = 1 .. Accesses
  BY AccessesAreCount, UpIs
<1>2. /\ FillAll(v) \in [1 .. Accesses -> P] /\ FindAll(v) \in [1 .. Accesses -> P]
      /\ \A n \in 1 .. Accesses : FillAll(v)[n] = W(Up[n], v) /\ FindAll(v)[n] = R(Up[n], v)
  BY <1>1 DEF FillAll, FindAll
<1> DEFINE f == FillAll(v)
           g == FindAll(v)
           S == f \o g
           A == Accesses
<1>3. A \in Nat /\ f \in Seq(P) /\ g \in Seq(P) /\ Len(f) = A /\ Len(g) = A
  BY <1>1, <1>2, FunctionIsSeq
<1> HIDE DEF P, f, g, A
<1>4. /\ S \in Seq(P) /\ Len(S) = Len(f) + Len(g)
      /\ \A i \in 1 .. Len(f) : S[i] = f[i]
      /\ \A i \in 1 .. Len(g) : S[Len(f) + i] = g[i]
  BY <1>3, Joined
<1>5. A + A = 2 * A /\ \A n \in A + 1 .. 2 * A : n - A \in 1 .. A /\ A + (n - A) = n
  BY <1>3
<1>6. refresh_test(v) = S
  BY DEF refresh_test, RAM_FIND, f, g
<1> HIDE DEF S
<1>7. \A i \in 1 .. A : f[i] = W(Up[i], v) /\ g[i] = R(Up[i], v)
  BY <1>2 DEF f, g, A
<1>8. /\ Len(S) = 2 * A /\ DOMAIN S = 1 .. 2 * A
      /\ \A n \in 1 .. A : S[n] = W(Up[n], v)
      /\ \A n \in A + 1 .. 2 * A : S[n] = R(Up[n - A], v)
  BY <1>3, <1>4, <1>5, <1>7
<1>9. QED
  BY <1>6, <1>8 DEF A

LEMMA ReadbackIs ==
  ASSUME job \in Jobs, NEW v
  PROVE  LET S == readback_test(v)
         IN  /\ Len(S) = 2 * Accesses /\ DOMAIN S = 1 .. 2 * Accesses
             /\ \A n \in 1 .. Accesses : /\ S[2 * n - 1] = W(Up[n], v)
                                         /\ S[2 * n] = R(Up[n], v)
<1> DEFINE S == readback_test(v)
<1>1. Accesses \in Nat
  BY AccessesAreCount
<1>2. S = [n \in 1 .. 2 * Accesses |-> IF n % 2 = 1 THEN W(Up[(n + 1) \div 2], v)
                                                   ELSE R(Up[n \div 2], v)]
  BY DEF readback_test
<1>3. Len(S) = 2 * Accesses /\ DOMAIN S = 1 .. 2 * Accesses
  BY <1>1, <1>2
<1> HIDE DEF S
<1>4. ASSUME NEW n \in 1 .. Accesses
      PROVE  S[2 * n - 1] = W(Up[n], v) /\ S[2 * n] = R(Up[n], v)
  <2>1. /\ 2 * n \in 1 .. 2 * Accesses /\ 2 * n - 1 \in 1 .. 2 * Accesses
        /\ (2 * n) % 2 = 0 /\ (2 * n - 1) % 2 = 1
        /\ (2 * n) \div 2 = n /\ ((2 * n - 1) + 1) \div 2 = n
    BY <1>1
  <2>2. QED
    BY <1>2, <2>1
<1>5. QED
  BY <1>3, <1>4 DEF S

-----------------------------------------------------------------------------
(* The patterns: the list that comes to an end, and their width.           *)
LEMMA HalvesIs ==
  ASSUME NEW x \in {8, 16, 32, 64}
  PROVE  /\ Len(Halves[x]) \in Nat
         /\ DOMAIN Halves[x] = 1 .. Len(Halves[x])
         /\ x = 8 => Halves[x] = <<4, 2, 1>>
         /\ x = 16 => Halves[x] = <<8, 4, 2, 1>>
         /\ x = 32 => Halves[x] = <<16, 8, 4, 2, 1>>
<1>1. CASE x = 8
  BY <1>1 DEF Halves
<1>2. CASE x = 16
  BY <1>2 DEF Halves
<1>3. CASE x = 32
  BY <1>3 DEF Halves
<1>4. CASE x = 64
  BY <1>4 DEF Halves
<1>5. QED
  BY <1>1, <1>2, <1>3, <1>4

LEMMA HamIs ==
  ASSUME NEW x \in {8, 16, 32, 64}
  PROVE  LET h == Len(Halves[x])
         IN  /\ h \in Nat /\ Len(Ham(x)) = h + 3 /\ Ham(x) \in [1 .. h + 3 -> SUBSET All(x)]
             /\ Ham(x)[1] = Zero /\ Ham(x)[2] = All(x)
             /\ \A i \in 1 .. h : Ham(x)[i + 2] = Stripes(x, Halves[x][i])
<1> DEFINE h == Len(Halves[x])
           P == SUBSET All(x)
           p == <<Zero, All(x)>>
           q == [i \in 1 .. h |-> Stripes(x, Halves[x][i])]
           r == <<Fives(x)>>
<1>1. h \in Nat /\ DOMAIN Halves[x] = 1 .. h
  BY HalvesIs
<1>2. Ham(x) = (p \o q) \o r
  BY <1>1 DEF Ham
<1>3. /\ p \in Seq(P) /\ q \in Seq(P) /\ r \in Seq(P)
      /\ Len(p) = 2 /\ Len(q) = h /\ Len(r) = 1
      /\ p[1] = Zero /\ p[2] = All(x)
      /\ \A i \in 1 .. h : q[i] = Stripes(x, Halves[x][i])
  <2>1. p \in Seq(P) /\ r \in Seq(P) /\ Len(p) = 2 /\ Len(r) = 1
    BY DEF Zero, Fives
  <2>2. q \in [1 .. h -> P]
    BY DEF Stripes
  <2>3. QED
    BY <1>1, <2>1, <2>2, FunctionIsSeq
<1>3a. p \in Seq(P) /\ q \in Seq(P)
  BY <1>3
<1>3b. r \in Seq(P)
  BY <1>3
<1> HIDE DEF h, p, q, r, P
<1> DEFINE s == p \o q
<1>4. /\ s \in Seq(P) /\ Len(s) = Len(p) + Len(q)
      /\ \A i \in 1 .. Len(p) : s[i] = p[i]
      /\ \A i \in 1 .. Len(q) : s[Len(p) + i] = q[i]
  BY <1>3a, Joined
<1> HIDE DEF s
<1>4a. s \in Seq(P)
  BY <1>4
<1> DEFINE t == s \o r
<1>5. /\ t \in Seq(P) /\ Len(t) = Len(s) + Len(r)
      /\ \A i \in 1 .. Len(s) : t[i] = s[i]
  BY <1>3b, <1>4a, Joined
<1> HIDE DEF t
<1>6. Len(s) = h + 2 /\ Len(t) = h + 3
  BY <1>1, <1>3, <1>4, <1>5
<1>7. /\ 1 \in 1 .. Len(s) /\ 2 \in 1 .. Len(s)
      /\ \A i \in 1 .. h : i + 2 \in 1 .. Len(s) /\ 2 + i = i + 2
  BY <1>1, <1>6
<1>8. /\ t[1] = Zero /\ t[2] = All(x)
      /\ \A i \in 1 .. h : t[i + 2] = Stripes(x, Halves[x][i])
  BY <1>3, <1>4, <1>5, <1>7
<1>9. t \in [1 .. h + 3 -> P]
  BY <1>5, <1>6
<1>10. Ham(x) = t
  BY <1>2 DEF s, t
<1>11. QED
  BY <1>1, <1>6, <1>8, <1>9, <1>10 DEF h, P

LEMMA ValuesIs ==
  ASSUME NEW x \in {8, 16, 32, 64}, NEW m \in Listed
  PROVE  /\ Len(Values(x, m)) \in Nat \ {0}
         /\ x # 64 => \A i \in 1 .. Len(Values(x, m)) : Values(x, m)[i] \subseteq All(x)
<1>1. CASE m = "ham"
  <2>1. Values(x, m) = Ham(x)
    BY <1>1 DEF Values
  <2>2. /\ Len(Ham(x)) \in Nat \ {0}
        /\ \A i \in 1 .. Len(Ham(x)) : Ham(x)[i] \in SUBSET All(x)
    <3>1. /\ Len(Halves[x]) \in Nat /\ Len(Ham(x)) = Len(Halves[x]) + 3
          /\ Ham(x) \in [1 .. Len(Halves[x]) + 3 -> SUBSET All(x)]
      BY HamIs
    <3>2. QED
      BY <3>1
  <2>3. QED
    BY <2>1, <2>2
<1>2. CASE m # "ham"
  BY <1>2 DEF Listed, Values, Zero, Seen
<1>3. QED
  BY <1>1, <1>2

LEMMA PatternFits ==
  ASSUME NEW x \in {8, 16, 32, 64}, NEW v \in SUBSET All(x), NEW y,
         x # 64 => y \subseteq All(x)
  PROVE  PUT_PV(x, v, y) \subseteq All(x)
BY DEF PUT_PV, All

LEMMA OperatorFits ==
  ASSUME NEW x \in {8, 16, 32}, NEW v \in SUBSET All(x), NEW m, NEW rand \in SUBSET All(x)
  PROVE  Operator(x, v, Zero, m, rand) \subseteq All(x)
<1>1. /\ \A y : PlusOne(x, y) \subseteq All(x) /\ Inverted(x, y) \subseteq All(x)
      /\ \A y, n : LeftBy(x, y, n) \subseteq All(x)
  BY DEF PlusOne, Inverted, LeftBy
<1>2. (v \ Zero) \union (Zero \ v) \subseteq All(x) /\ v \union Zero \subseteq All(x)
      /\ v \intersect Zero \subseteq All(x)
  BY DEF Zero
<1>3. Operator(x, v, Zero, m, rand) \in
        {PlusOne(x, v), Inverted(x, PlusOne(x, Inverted(x, v))), rand, Inverted(x, v),
         PlusOne(x, Inverted(x, v)), LeftBy(x, v, 1), LeftBy(x, v, -1),
         (v \ Zero) \union (Zero \ v), v \union Zero, v \intersect Zero, v}
  BY DEF Operator
<1>4. QED
  BY <1>1, <1>2, <1>3

LEMMA FirstPattern ==
  ASSUME job \in Jobs, NEW junk, NEW rand,
         pg = spatgen(w, junk \intersect All(w), mod, rand \intersect All(w))
  PROVE  PatternInv
<1>1. w \in {8, 16, 32, 64}
  BY JobType
<1>2. pg.v \subseteq All(w)
  <2>1. CASE mod \in Listed
    <3>1. Len(Values(w, mod)) \in Nat \ {0}
          /\ (w # 64 => \A i \in 1 .. Len(Values(w, mod)) : Values(w, mod)[i] \subseteq All(w))
      BY <1>1, <2>1, ValuesIs
    <3>2. pg.v = PUT_PV(w, junk \intersect All(w), Values(w, mod)[1])
      BY <2>1 DEF spatgen
    <3>3. QED
      BY <1>1, <3>1, <3>2, PatternFits
  <2>2. CASE mod \notin Listed
    BY <1>1, <2>2, PatternFits DEF spatgen
  <2>3. QED
    BY <2>1, <2>2
<1>3. /\ pg = [w |-> w, n |-> 0, end |-> FALSE, v |-> pg.v]
      /\ mod \in Listed => pg.v = PUT_PV(w, junk \intersect All(w), Values(w, mod)[1])
  BY DEF spatgen
<1>4. pg.n = 0 /\ ~pg.end /\ PValue(pg)
  <2>1. pg.n = 0 /\ pg.end = FALSE
    BY <1>3
  <2>2. PValue(pg)
    <3>1. DOMAIN pg = {"w", "n", "end", "v"} /\ pg.w = w /\ pg.n = 0
      BY <1>3
    <3>2. QED
      BY <1>2, <2>1, <3>1 DEF PValue
  <2>3. QED
    BY <2>1, <2>2
<1>5. mod \in Listed => /\ pg.n < Len(Values(w, mod))
                        /\ w # 64 => pg.v = Values(w, mod)[pg.n + 1]
  BY <1>1, <1>3, <1>4, ValuesIs DEF PUT_PV
<1>6. QED
  BY <1>2, <1>4, <1>5 DEF PatternInv

(* The next pattern of a list is the next one of it, and the end comes     *)
(* after the last.                                                         *)
LEMMA PatternStep ==
  ASSUME TypeInv, result = "run", NEW rand, NEW p,
         p = patgen(pg, Zero, mod, rand \intersect All(w))
  PROVE  /\ PValue(p)
         /\ mod \notin Listed => ~p.end
         /\ mod \in Listed =>
              /\ p.n < Len(Values(w, mod))
              /\ w # 64 => p.v = Values(w, mod)[p.n + 1]
              /\ p.end => p.n = pg.n /\ pg.n + 1 = Len(Values(w, mod))
              /\ ~p.end => p.n = pg.n + 1
<1>1. /\ w \in {8, 16, 32, 64} /\ pg.w = w /\ pg.n \in Nat /\ pg.v \subseteq All(w) /\ ~pg.end
      /\ PValue(pg)
      /\ mod \in Listed => /\ pg.n < Len(Values(w, mod))
                           /\ w # 64 => pg.v = Values(w, mod)[pg.n + 1]
  <2>1. w \in {8, 16, 32, 64}
    BY JobType DEF TypeInv, JobInv
  <2>2. QED
    BY <2>1 DEF TypeInv, PatternInv, PValue
<1>2. CASE mod \notin Listed
  <2> DEFINE y == Operator(Seen(w), GET_PV(w, pg.v), Zero, mod, rand \intersect All(w))
  <2>1. p = [pg EXCEPT !.v = PUT_PV(w, pg.v, y)]
    BY <1>1, <1>2 DEF patgen
  <2>2. w # 64 => y \subseteq All(w)
    BY <1>1, OperatorFits DEF Seen, GET_PV
  <2> HIDE DEF y
  <2>3. PUT_PV(w, pg.v, y) \subseteq All(w)
    BY <1>1, <2>2, PatternFits
  <2>4. p.v \subseteq All(w) /\ p.n = pg.n /\ p.end = pg.end
        /\ PValue(p)
    <3> DEFINE z == PUT_PV(w, pg.v, y)
    <3>1. z \in SUBSET All(w) /\ p = [pg EXCEPT !.v = z]
      BY <2>1, <2>3
    <3> HIDE DEF z
    <3>2. QED
      BY <1>1, <3>1 DEF PValue
  <2>5. QED
    BY <1>1, <1>2, <2>4
<1>3. CASE mod \in Listed /\ Last(pg, mod)
  <2>1. p = [pg EXCEPT !.end = TRUE]
    BY <1>1, <1>3 DEF patgen, Ended
  <2>2. Len(Values(w, mod)) \in Nat
    BY <1>1, <1>3, ValuesIs
  <2>3. pg.n + 1 = Len(Values(w, mod))
    BY <1>1, <1>3, <2>2 DEF Last
  <2>4. p.n = pg.n /\ p.v = pg.v /\ p.end = TRUE
        /\ PValue(p)
    BY <1>1, <2>1 DEF PValue
  <2>5. QED
    BY <1>1, <1>3, <2>3, <2>4
<1>4. CASE mod \in Listed /\ ~Last(pg, mod)
  <2> DEFINE y == Values(w, mod)[pg.n + 2]
  <2>1. p = [pg EXCEPT !.n = pg.n + 1, !.v = PUT_PV(w, pg.v, y)]
    BY <1>1, <1>4 DEF patgen
  <2>2. Len(Values(w, mod)) \in Nat /\ pg.n + 2 \in 1 .. Len(Values(w, mod))
    <3>1. Len(Values(w, mod)) \in Nat
      BY <1>1, <1>4, ValuesIs
    <3>2. QED
      BY <1>1, <1>4, <3>1 DEF Last
  <2>3. w # 64 => y \subseteq All(w)
    BY <1>1, <1>4, <2>2, ValuesIs
  <2>4. (pg.n + 1) + 1 = pg.n + 2 /\ pg.n + 1 \in Nat /\ pg.n + 1 < Len(Values(w, mod))
    BY <1>1, <2>2
  <2> HIDE DEF y
  <2>5. PUT_PV(w, pg.v, y) \subseteq All(w) /\ (w # 64 => PUT_PV(w, pg.v, y) = y)
    BY <1>1, <2>3, PatternFits DEF PUT_PV
  <2>6. /\ p.n = pg.n + 1 /\ p.v = PUT_PV(w, pg.v, y) /\ p.end = pg.end
        /\ PValue(p)
    <3> DEFINE z == PUT_PV(w, pg.v, y)
    <3>1. z \in SUBSET All(w) /\ p = [pg EXCEPT !.n = pg.n + 1, !.v = z]
      BY <2>1, <2>5
    <3> HIDE DEF z
    <3>2. DOMAIN pg = {"w", "n", "end", "v"}
      BY <1>1 DEF PValue
    <3>3. p.n = pg.n + 1 /\ p.v = z /\ p.end = pg.end /\ p.w = pg.w /\ DOMAIN p = DOMAIN pg
      BY <3>1, <3>2
    <3>4. PValue(p)
      <4>1. p.n \in Nat /\ p.w = w
        BY <1>1, <3>3
      <4>2. p.v \subseteq All(w)
        BY <3>1, <3>3
      <4>3. QED
        BY <3>2, <3>3, <4>1, <4>2 DEF PValue
    <3>5. QED
      BY <3>3, <3>4 DEF z
  <2>7. w # 64 => p.v = Values(w, mod)[p.n + 1]
    BY <2>4, <2>5, <2>6 DEF y
  <2>8. QED
    BY <1>1, <1>4, <2>4, <2>5, <2>6, <2>7
<1>5. QED
  BY <1>2, <1>3, <1>4

-----------------------------------------------------------------------------
(* The write that an access at i meets at a: the last one before it.       *)
LastWrite(S, i, a, j) ==
  /\ j \in 1 .. i - 1 /\ S[j].op = "write" /\ S[j].a = a
  /\ \A n \in j + 1 .. i - 1 : S[n].op \in {"write", "back"} => S[n].a # a

(* A read expects what was written last.                                   *)
ReadsWritten(S) ==
  \A i \in 1 .. Len(S) :
    /\ S[i].op \in {"write", "is", "look", "keep", "back"}
    /\ S[i].op = "is" => \E j : LastWrite(S, i, S[i].a, j) /\ S[j].v = S[i].v

(* A pattern that is written is read, before anything else is done there.  *)
WrittenRead(S, v) ==
  \A i \in 1 .. Len(S) :
    /\ S[i].op \in {"write", "is"} /\ S[i].v = v
    /\ S[i].op = "write" =>
         \E r \in i + 1 .. Len(S) : /\ S[r].op = "is" /\ S[r].a = S[i].a
                                    /\ \A n \in i + 1 .. r - 1 : S[n].a # S[i].a

(* The accesses are those to the cells of the loops.                       *)
AtUp(S) == \A i \in 1 .. Len(S) : \E n \in 1 .. Accesses : S[i].a = Up[n]

LEMMA Fields ==
  \A a, v : /\ W(a, v).op = "write" /\ W(a, v).a = a /\ W(a, v).v = v
            /\ R(a, v).op = "is" /\ R(a, v).a = a /\ R(a, v).v = v
            /\ Look(a).op = "look" /\ Look(a).a = a
            /\ Keep(a).op = "keep" /\ Keep(a).a = a
            /\ Same(a).op = "same" /\ Same(a).a = a
            /\ Back(a).op = "back" /\ Back(a).a = a
BY DEF W, R, Look, Keep, Same, Back

LEMMA OtherFields ==
  ASSUME NEW s, NEW a, NEW v, s = X(a, v)
  PROVE  s.op = "is not" /\ s.a = a /\ s.v = v
BY DEF X

LEMMA ZeroFields ==
  ASSUME NEW s, NEW v, s = X(0, v)
  PROVE  s.op = "is not" /\ s.a = 0 /\ s.v = v
<1> DEFINE z == 0
<1>1. z = 0
  OBVIOUS
<1> HIDE DEF z
<1>2. s = X(z, v)
  BY <1>1
<1>3. QED
  BY <1>1, <1>2, OtherFields

LEMMA RefreshReads ==
  ASSUME job \in Jobs, NEW v
  PROVE  LET S == refresh_test(v)
         IN  /\ ReadsWritten(S) /\ WrittenRead(S, v) /\ AtUp(S)
             /\ \A n \in 1 .. Accesses : S[Accesses + n] = R(Up[n], v)
<1> DEFINE S == refresh_test(v)
           A == Accesses
<1>1. /\ A \in Nat /\ Len(S) = 2 * A
      /\ \A n \in 1 .. A : S[n] = W(Up[n], v)
      /\ \A n \in A + 1 .. 2 * A : S[n] = R(Up[n - A], v)
  BY RefreshIs, AccessesAreCount
<1>2. \A m, n \in 1 .. A : Up[m] = Up[n] => m = n
  BY UpIs
<1> HIDE DEF S, A
<1>3. /\ \A n \in 1 .. A : S[n].op = "write" /\ S[n].a = Up[n] /\ S[n].v = v
      /\ \A n \in A + 1 .. 2 * A : S[n].op = "is" /\ S[n].a = Up[n - A] /\ S[n].v = v
  BY <1>1, Fields
<1>4. ReadsWritten(S)
  <2> SUFFICES ASSUME NEW i \in 1 .. 2 * A
               PROVE  /\ S[i].op \in {"write", "is", "look", "keep", "back"}
                      /\ S[i].op = "is" => \E j : LastWrite(S, i, S[i].a, j) /\ S[j].v = S[i].v
    BY <1>1 DEF ReadsWritten
  <2>1. i \in 1 .. A \/ i \in A + 1 .. 2 * A
    BY <1>1
  <2>2. ASSUME i \in A + 1 .. 2 * A PROVE LastWrite(S, i, S[i].a, i - A) /\ S[i - A].v = S[i].v
    <3>1. i - A \in 1 .. A /\ i - A \in 1 .. i - 1 /\ S[i].a = Up[i - A]
      BY <1>1, <1>3, <2>2
    <3>2. ASSUME NEW n \in (i - A) + 1 .. i - 1, S[n].op \in {"write", "back"} PROVE S[n].a # S[i].a
      <4>1. n \in 1 .. A
        BY <1>1, <1>3, <2>2, <3>2
      <4>2. n # i - A
        BY <1>1, <2>2, <3>2
      <4>3. QED
        BY <1>2, <1>3, <3>1, <4>1, <4>2
    <3>3. QED
      BY <1>3, <2>2, <3>1, <3>2 DEF LastWrite
  <2>3. QED
    BY <1>3, <2>1, <2>2
<1>5. WrittenRead(S, v)
  <2> SUFFICES ASSUME NEW i \in 1 .. 2 * A
               PROVE  /\ S[i].op \in {"write", "is"} /\ S[i].v = v
                      /\ S[i].op = "write" =>
                           \E r \in i + 1 .. 2 * A :
                             /\ S[r].op = "is" /\ S[r].a = S[i].a
                             /\ \A n \in i + 1 .. r - 1 : S[n].a # S[i].a
    BY <1>1 DEF WrittenRead
  <2>1. i \in 1 .. A \/ i \in A + 1 .. 2 * A
    BY <1>1
  <2>2. ASSUME i \in 1 .. A
        PROVE  \E r \in i + 1 .. 2 * A : /\ S[r].op = "is" /\ S[r].a = S[i].a
                                         /\ \A n \in i + 1 .. r - 1 : S[n].a # S[i].a
    <3>1. A + i \in A + 1 .. 2 * A /\ A + i \in i + 1 .. 2 * A /\ (A + i) - A = i
      BY <1>1, <2>2
    <3>2. S[A + i].op = "is" /\ S[A + i].a = S[i].a
      BY <1>3, <2>2, <3>1
    <3>3. ASSUME NEW n \in i + 1 .. (A + i) - 1 PROVE S[n].a # S[i].a
      <4>1. CASE n \in 1 .. A
        BY <1>1, <1>2, <1>3, <2>2, <4>1
      <4>2. CASE n \in A + 1 .. 2 * A
        <5>1. n - A \in 1 .. A /\ n - A # i
          BY <1>1, <2>2, <4>2
        <5>2. QED
          BY <1>2, <1>3, <2>2, <4>2, <5>1
      <4>3. QED
        BY <1>1, <2>2, <4>1, <4>2
    <3>4. QED
      BY <3>1, <3>2, <3>3
  <2>3. QED
    BY <1>3, <2>1, <2>2
<1>6. AtUp(S)
  <2>1. \A i \in 1 .. 2 * A : i \in 1 .. A \/ (i \in A + 1 .. 2 * A /\ i - A \in 1 .. A)
    BY <1>1
  <2>2. QED
    BY <1>1, <1>3, <2>1 DEF AtUp, A
<1>7. \A n \in 1 .. A : S[A + n] = R(Up[n], v)
  <2>1. \A n \in 1 .. A : A + n \in A + 1 .. 2 * A /\ (A + n) - A = n
    BY <1>1
  <2>2. QED
    BY <1>1, <2>1
<1>8. QED
  BY <1>4, <1>5, <1>6, <1>7 DEF S, A

LEMMA Parity ==
  ASSUME NEW A \in Nat, NEW i \in 1 .. 2 * A
  PROVE  (\E n \in 1 .. A : i = 2 * n - 1) \/ (\E n \in 1 .. A : i = 2 * n)
<1>1. CASE i % 2 = 0
  <2>1. i \div 2 \in 1 .. A /\ i = 2 * (i \div 2)
    BY <1>1
  <2>2. QED
    BY <2>1
<1>2. CASE i % 2 = 1
  <2>1. (i + 1) \div 2 \in 1 .. A /\ i = 2 * ((i + 1) \div 2) - 1
    BY <1>2
  <2>2. QED
    BY <2>1
<1>3. QED
  BY <1>1, <1>2

LEMMA ReadbackReads ==
  ASSUME job \in Jobs, NEW v
  PROVE  LET S == readback_test(v)
         IN  /\ ReadsWritten(S) /\ WrittenRead(S, v) /\ AtUp(S)
             /\ \A n \in 1 .. Accesses : S[2 * n] = R(Up[n], v)
<1> DEFINE S == readback_test(v)
           A == Accesses
<1>1. /\ A \in Nat /\ Len(S) = 2 * A
      /\ \A n \in 1 .. A : S[2 * n - 1] = W(Up[n], v) /\ S[2 * n] = R(Up[n], v)
  BY ReadbackIs, AccessesAreCount
<1> HIDE DEF S, A
<1>2. \A n \in 1 .. A :
        /\ S[2 * n - 1].op = "write" /\ S[2 * n - 1].a = Up[n] /\ S[2 * n - 1].v = v
        /\ S[2 * n].op = "is" /\ S[2 * n].a = Up[n] /\ S[2 * n].v = v
  <2> TAKE n \in 1 .. A
  <2>1. S[2 * n - 1] = W(Up[n], v) /\ S[2 * n] = R(Up[n], v)
    BY <1>1
  <2>2. QED
    BY <2>1 DEF W, R
<1>3. ReadsWritten(S)
  <2> SUFFICES ASSUME NEW i \in 1 .. 2 * A
               PROVE  /\ S[i].op \in {"write", "is", "look", "keep", "back"}
                      /\ S[i].op = "is" => \E j : LastWrite(S, i, S[i].a, j) /\ S[j].v = S[i].v
    BY <1>1 DEF ReadsWritten
  <2>1. CASE \E n \in 1 .. A : i = 2 * n - 1
    BY <1>2, <2>1
  <2>2. ASSUME NEW n \in 1 .. A, i = 2 * n
        PROVE  LastWrite(S, i, S[i].a, i - 1) /\ S[i - 1].v = S[i].v
    <3>1. i - 1 = 2 * n - 1 /\ i - 1 \in 1 .. i - 1 /\ (i - 1) + 1 .. i - 1 = {}
      BY <1>1, <2>2
    <3>2. QED
      BY <1>2, <2>2, <3>1 DEF LastWrite
  <2>3. QED
    BY <1>1, <1>2, <2>1, <2>2, Parity
<1>4. WrittenRead(S, v)
  <2> SUFFICES ASSUME NEW i \in 1 .. 2 * A
               PROVE  /\ S[i].op \in {"write", "is"} /\ S[i].v = v
                      /\ S[i].op = "write" =>
                           \E r \in i + 1 .. 2 * A :
                             /\ S[r].op = "is" /\ S[r].a = S[i].a
                             /\ \A n \in i + 1 .. r - 1 : S[n].a # S[i].a
    BY <1>1 DEF WrittenRead
  <2>1. CASE \E n \in 1 .. A : i = 2 * n
    BY <1>2, <2>1
  <2>2. ASSUME NEW n \in 1 .. A, i = 2 * n - 1
        PROVE  /\ i + 1 \in i + 1 .. 2 * A /\ S[i + 1].op = "is" /\ S[i + 1].a = S[i].a
               /\ i + 1 .. (i + 1) - 1 = {}
    <3>1. i + 1 = 2 * n /\ i + 1 \in i + 1 .. 2 * A /\ i + 1 .. (i + 1) - 1 = {}
      BY <1>1, <2>2
    <3>2. QED
      BY <1>2, <2>2, <3>1
  <2>3. CASE \E n \in 1 .. A : i = 2 * n - 1
    <3>1. PICK n \in 1 .. A : i = 2 * n - 1
      BY <2>3
    <3>2. S[i].v = v
      BY <1>2, <3>1
    <3>3. /\ i + 1 \in i + 1 .. 2 * A /\ S[i + 1].op = "is" /\ S[i + 1].a = S[i].a
          /\ \A m \in i + 1 .. (i + 1) - 1 : S[m].a # S[i].a
      BY <2>2, <3>1
    <3>4. S[i].op = "write"
      BY <1>2, <3>1
    <3>5. QED
      BY <3>2, <3>3, <3>4
  <2>4. QED
    BY <1>1, <2>1, <2>3, Parity
<1>5. AtUp(S)
  <2>1. \A i \in 1 .. 2 * A : \E n \in 1 .. A : S[i].a = Up[n]
    <3> TAKE i \in 1 .. 2 * A
    <3>1. PICK n \in 1 .. A : i = 2 * n - 1 \/ i = 2 * n
      BY <1>1, Parity
    <3>2. S[i].a = Up[n]
      BY <1>2, <3>1
    <3>3. QED
      BY <3>2
  <2>2. QED
    BY <1>1, <2>1 DEF AtUp, A
<1>6. QED
  BY <1>1, <1>3, <1>4, <1>5 DEF S, A

LEMMA LookReads ==
  ASSUME job \in Jobs
  PROVE  ReadsWritten(cache_fill_test) /\ AtUp(cache_fill_test)
<1> DEFINE S == cache_fill_test
<1>1. Accesses \in Nat /\ S = [n \in 1 .. Accesses |-> Look(Up[n])]
  BY AccessesAreCount, UpIs DEF cache_fill_test
<1>2. Len(S) = Accesses /\ \A n \in 1 .. Accesses : S[n].op = "look" /\ S[n].a = Up[n]
  BY <1>1, Fields
<1> HIDE DEF S
<1>3. QED
  BY <1>2 DEF ReadsWritten, AtUp, S

(* The alias test: up, find, clear, down, find.                            *)
LEMMA AliasIs ==
  ASSUME job \in Jobs, job.prog = "alias"
  PROVE  LET S == ram_alias_test
             A == Count
         IN  /\ A \in Nat /\ A = Accesses /\ Len(S) = 5 * A
             /\ \A n \in 1 .. A :
                  /\ S[n] = W(Up[n], Addr(Up[n]))
                  /\ S[A + n] = R(Up[n], Addr(Up[n]))
                  /\ S[2 * A + n] = W(Up[n], Zero)
                  /\ S[3 * A + n] = W(Up[A + 1 - n], Addr(Up[A + 1 - n]))
                  /\ S[4 * A + n] = R(Up[n], Addr(Up[n]))
<1> DEFINE A == Count
           up == [n \in DOMAIN Up |-> W(Up[n], Addr(Up[n]))]
           clear == FillAll(Zero)
           down == [n \in 1 .. Count |-> W(job.memory + Count - n, Addr(job.memory + Count - n))]
           P == { up[n] : n \in 1 .. A } \union { Find[n] : n \in 1 .. A }
                  \union { clear[n] : n \in 1 .. A } \union { down[n] : n \in 1 .. A }
<1>1. A \in Nat /\ A = Accesses /\ DOMAIN Up = 1 .. A /\ job.memory \in Nat
      /\ \A n \in 1 .. A : Up[n] = job.memory + n - 1
  BY JobType, AccessesAreCount, UpIs DEF Sa
<1>2. /\ up \in [1 .. A -> P] /\ Find \in [1 .. A -> P] /\ clear \in [1 .. A -> P]
      /\ down \in [1 .. A -> P]
  BY <1>1 DEF Find, FillAll
<1>3. \A n \in 1 .. A : /\ up[n] = W(Up[n], Addr(Up[n])) /\ Find[n] = R(Up[n], Addr(Up[n]))
                        /\ clear[n] = W(Up[n], Zero)
  BY <1>1 DEF Find, FillAll
<1>4. \A n \in 1 .. A : down[n] = W(Up[A + 1 - n], Addr(Up[A + 1 - n]))
  <2> SUFFICES ASSUME NEW n \in 1 .. A PROVE job.memory + Count - n = Up[A + 1 - n]
    OBVIOUS
  <2>1. A + 1 - n \in 1 .. A /\ job.memory + (A + 1 - n) - 1 = job.memory + Count - n
    BY <1>1
  <2>2. QED
    BY <1>1, <2>1
<1>5. ram_alias_test = (((up \o Find) \o clear) \o down) \o Find
  BY DEF ram_alias_test
<1> DEFINE f == Find
<1> HIDE DEF A, P, up, clear, down, f
<1>6. /\ up \in Seq(P) /\ f \in Seq(P) /\ clear \in Seq(P) /\ down \in Seq(P)
      /\ Len(up) = A /\ Len(f) = A /\ Len(clear) = A /\ Len(down) = A
  BY <1>1, <1>2, FunctionIsSeq DEF f
<1> DEFINE s1 == up \o f
<1>7. up \in Seq(P) /\ f \in Seq(P)
  BY <1>6
<1>8. /\ s1 \in Seq(P) /\ Len(s1) = Len(up) + Len(f)
      /\ \A i \in 1 .. Len(up) : s1[i] = up[i]
      /\ \A i \in 1 .. Len(f) : s1[Len(up) + i] = f[i]
  BY <1>7, Joined
<1> HIDE DEF s1
<1> DEFINE s2 == s1 \o clear
<1>9. s1 \in Seq(P) /\ clear \in Seq(P)
  BY <1>6, <1>8
<1>10. /\ s2 \in Seq(P) /\ Len(s2) = Len(s1) + Len(clear)
       /\ \A i \in 1 .. Len(s1) : s2[i] = s1[i]
       /\ \A i \in 1 .. Len(clear) : s2[Len(s1) + i] = clear[i]
  BY <1>9, Joined
<1> HIDE DEF s2
<1> DEFINE s3 == s2 \o down
<1>11. s2 \in Seq(P) /\ down \in Seq(P)
  BY <1>6, <1>10
<1>12. /\ s3 \in Seq(P) /\ Len(s3) = Len(s2) + Len(down)
       /\ \A i \in 1 .. Len(s2) : s3[i] = s2[i]
       /\ \A i \in 1 .. Len(down) : s3[Len(s2) + i] = down[i]
  BY <1>11, Joined
<1> HIDE DEF s3
<1> DEFINE s4 == s3 \o f
<1>13. s3 \in Seq(P) /\ f \in Seq(P)
  BY <1>6, <1>12
<1>14. /\ s4 \in Seq(P) /\ Len(s4) = Len(s3) + Len(f)
       /\ \A i \in 1 .. Len(s3) : s4[i] = s3[i]
       /\ \A i \in 1 .. Len(f) : s4[Len(s3) + i] = f[i]
  BY <1>13, Joined
<1> HIDE DEF s4
<1>15. Len(s1) = 2 * A /\ Len(s2) = 3 * A /\ Len(s3) = 4 * A /\ Len(s4) = 5 * A
  BY <1>1, <1>6, <1>8, <1>10, <1>12, <1>14
<1>16. ASSUME NEW n \in 1 .. A
       PROVE  /\ s4[n] = up[n] /\ s4[A + n] = f[n] /\ s4[2 * A + n] = clear[n]
              /\ s4[3 * A + n] = down[n] /\ s4[4 * A + n] = f[n]
  <2>1. /\ n \in 1 .. 2 * A /\ n \in 1 .. 3 * A /\ n \in 1 .. 4 * A
        /\ A + n \in 1 .. 2 * A /\ A + n \in 1 .. 3 * A /\ A + n \in 1 .. 4 * A
        /\ 2 * A + n \in 1 .. 3 * A /\ 2 * A + n \in 1 .. 4 * A /\ 3 * A + n \in 1 .. 4 * A
    BY <1>1
  <2>2. s1[n] = up[n] /\ s1[A + n] = f[n]
    BY <1>6, <1>8
  <2>3. s2[n] = up[n] /\ s2[A + n] = f[n] /\ s2[2 * A + n] = clear[n]
    BY <1>6, <1>10, <1>15, <2>1, <2>2
  <2>4. s3[n] = up[n] /\ s3[A + n] = f[n] /\ s3[2 * A + n] = clear[n] /\ s3[3 * A + n] = down[n]
    BY <1>6, <1>12, <1>15, <2>1, <2>3
  <2>5. QED
    BY <1>6, <1>14, <1>15, <2>1, <2>4
<1>17. ram_alias_test = s4
  BY <1>5 DEF s1, s2, s3, s4, f
<1>18. \A n \in 1 .. A :
         /\ s4[n] = W(Up[n], Addr(Up[n])) /\ s4[A + n] = R(Up[n], Addr(Up[n]))
         /\ s4[2 * A + n] = W(Up[n], Zero)
         /\ s4[3 * A + n] = W(Up[A + 1 - n], Addr(Up[A + 1 - n]))
         /\ s4[4 * A + n] = R(Up[n], Addr(Up[n]))
  BY <1>3, <1>4, <1>16 DEF f
<1>19. QED
  BY <1>1, <1>15, <1>17, <1>18 DEF A

LEMMA Fifths ==
  ASSUME NEW A \in Nat, NEW i \in 1 .. 5 * A
  PROVE  \E n \in 1 .. A : i \in {n, A + n, 2 * A + n, 3 * A + n, 4 * A + n}
<1>1. CASE i <= A
  BY <1>1
<1>2. CASE i > A /\ i <= 2 * A
  <2>1. i - A \in 1 .. A /\ i = A + (i - A)
    BY <1>2
  <2>2. QED
    BY <2>1
<1>3. CASE i > 2 * A /\ i <= 3 * A
  <2>1. i - 2 * A \in 1 .. A /\ i = 2 * A + (i - 2 * A)
    BY <1>3
  <2>2. QED
    BY <2>1
<1>4. CASE i > 3 * A /\ i <= 4 * A
  <2>1. i - 3 * A \in 1 .. A /\ i = 3 * A + (i - 3 * A)
    BY <1>4
  <2>2. QED
    BY <2>1
<1>5. CASE i > 4 * A
  <2>1. i - 4 * A \in 1 .. A /\ i = 4 * A + (i - 4 * A)
    BY <1>5
  <2>2. QED
    BY <2>1
<1>6. QED
  BY <1>1, <1>2, <1>3, <1>4, <1>5

LEMMA AliasReads ==
  ASSUME job \in Jobs, job.prog = "alias"
  PROVE  ReadsWritten(ram_alias_test) /\ AtUp(ram_alias_test)
<1> DEFINE S == ram_alias_test
           A == Count
<1>1. /\ A \in Nat /\ A = Accesses /\ Len(S) = 5 * A
      /\ \A n \in 1 .. A :
           /\ S[n] = W(Up[n], Addr(Up[n])) /\ S[A + n] = R(Up[n], Addr(Up[n]))
           /\ S[2 * A + n] = W(Up[n], Zero)
           /\ S[3 * A + n] = W(Up[A + 1 - n], Addr(Up[A + 1 - n]))
           /\ S[4 * A + n] = R(Up[n], Addr(Up[n]))
  BY AliasIs
<1>2. \A m, n \in 1 .. A : Up[m] = Up[n] => m = n
  BY <1>1, UpIs
<1> HIDE DEF S, A
<1>3. \A n \in 1 .. A :
        /\ S[n].op = "write" /\ S[n].a = Up[n] /\ S[n].v = Addr(Up[n])
        /\ S[A + n].op = "is" /\ S[A + n].a = Up[n] /\ S[A + n].v = Addr(Up[n])
        /\ S[2 * A + n].op = "write" /\ S[2 * A + n].a = Up[n]
        /\ S[3 * A + n].op = "write" /\ S[3 * A + n].a = Up[A + 1 - n]
        /\ S[3 * A + n].v = Addr(Up[A + 1 - n])
        /\ S[4 * A + n].op = "is" /\ S[4 * A + n].a = Up[n] /\ S[4 * A + n].v = Addr(Up[n])
  <2> TAKE n \in 1 .. A
  <2>1. /\ S[n] = W(Up[n], Addr(Up[n])) /\ S[A + n] = R(Up[n], Addr(Up[n]))
        /\ S[2 * A + n] = W(Up[n], Zero)
        /\ S[3 * A + n] = W(Up[A + 1 - n], Addr(Up[A + 1 - n]))
        /\ S[4 * A + n] = R(Up[n], Addr(Up[n]))
    BY <1>1
  <2>2. QED
    BY <2>1 DEF W, R
<1>4. \A n \in 1 .. A : A + 1 - n \in 1 .. A
  BY <1>1
<1>5. AtUp(S)
  <2>1. \A i \in 1 .. 5 * A : \E n \in 1 .. A : S[i].a = Up[n]
    <3> TAKE i \in 1 .. 5 * A
    <3>1. PICK n \in 1 .. A : i \in {n, A + n, 2 * A + n, 3 * A + n, 4 * A + n}
      BY <1>1, Fifths
    <3>2. QED
      BY <1>3, <1>4, <3>1
  <2>2. QED
    BY <1>1, <2>1 DEF AtUp
<1>6. ASSUME NEW m \in 1 .. A PROVE LastWrite(S, A + m, Up[m], m)
  <2>1. ASSUME NEW n \in m + 1 .. (A + m) - 1, S[n].op \in {"write", "back"} PROVE S[n].a # Up[m]
    <3>1. CASE n \in 1 .. A
      BY <1>1, <1>2, <1>3, <2>1, <3>1
    <3>2. CASE n > A
      <4>1. n - A \in 1 .. A /\ A + (n - A) = n
        BY <1>1, <2>1, <3>2
      <4>2. S[n].op = "is"
        BY <1>3, <4>1
      <4>3. QED
        BY <2>1, <4>2
    <3>3. QED
      BY <1>1, <2>1, <3>1, <3>2
  <2>2. m \in 1 .. (A + m) - 1
    BY <1>1
  <2>3. QED
    BY <1>3, <2>1, <2>2 DEF LastWrite
<1>7. ASSUME NEW m \in 1 .. A PROVE LastWrite(S, 4 * A + m, Up[m], 3 * A + (A + 1 - m))
  <2> DEFINE q == A + 1 - m
             j == 3 * A + q
  <2>1. q \in 1 .. A /\ A + 1 - q = m /\ j \in 1 .. (4 * A + m) - 1
    BY <1>1
  <2>2. S[j].op = "write" /\ S[j].a = Up[m]
    BY <1>3, <2>1
  <2>3. ASSUME NEW n \in j + 1 .. (4 * A + m) - 1, S[n].op \in {"write", "back"} PROVE S[n].a # Up[m]
    <3>1. CASE n <= 4 * A
      <4>1. n - 3 * A \in 1 .. A /\ 3 * A + (n - 3 * A) = n
            /\ A + 1 - (n - 3 * A) \in 1 .. A /\ A + 1 - (n - 3 * A) # m
        BY <1>1, <2>3, <3>1
      <4>2. S[n].a = Up[A + 1 - (n - 3 * A)]
        BY <1>3, <4>1
      <4>3. QED
        BY <1>2, <4>1, <4>2
    <3>2. CASE n > 4 * A
      <4>1. n - 4 * A \in 1 .. A /\ 4 * A + (n - 4 * A) = n
        <5>1. A \in Nat /\ j \in Nat
          BY <1>1, <2>1
        <5> HIDE DEF j
        <5>2. n \in Nat /\ n <= (4 * A + m) - 1
          BY <5>1
        <5>3. n - 4 * A \in Nat /\ n - 4 * A >= 1 /\ n - 4 * A <= m - 1
          BY <3>2, <5>1, <5>2
        <5>4. QED
          BY <5>1, <5>2, <5>3
      <4>2. S[n].op = "is"
        BY <1>3, <4>1
      <4>3. QED
        BY <2>3, <4>2
    <3>3. QED
      BY <1>1, <2>3, <3>1, <3>2
  <2> HIDE DEF j
  <2>4. LastWrite(S, 4 * A + m, Up[m], j)
    BY <2>1, <2>2, <2>3 DEF LastWrite
  <2>5. QED
    BY <2>4 DEF j
<1>8. ReadsWritten(S)
  <2> SUFFICES ASSUME NEW i \in 1 .. 5 * A
               PROVE  /\ S[i].op \in {"write", "is", "look", "keep", "back"}
                      /\ S[i].op = "is" => \E j : LastWrite(S, i, S[i].a, j) /\ S[j].v = S[i].v
    BY <1>1 DEF ReadsWritten
  <2>1. PICK n \in 1 .. A : i \in {n, A + n, 2 * A + n, 3 * A + n, 4 * A + n}
    BY <1>1, Fifths
  <2>2. CASE i = A + n
    BY <1>3, <1>6, <2>2
  <2>3. CASE i = 4 * A + n
    <3>1. A + 1 - (A + 1 - n) = n /\ A + 1 - n \in 1 .. A
      BY <1>1
    <3>2. S[3 * A + (A + 1 - n)].v = Addr(Up[n])
      BY <1>3, <3>1
    <3>3. QED
      BY <1>3, <1>7, <2>3, <3>2
  <2>4. CASE i \in {n, 2 * A + n, 3 * A + n}
    BY <1>3, <2>4
  <2>5. QED
    BY <2>1, <2>2, <2>3, <2>4
<1>9. QED
  BY <1>5, <1>8 DEF S

-----------------------------------------------------------------------------
(* The register tests. In the read-write test a register is kept, written  *)
(* and read in turn, and put back, before the next one is kept.            *)
PutsBack(S) ==
  /\ Len(S) \in Nat \ {0} /\ S[1].op = "keep" /\ S[Len(S)].op = "back"
  /\ \A i \in 1 .. Len(S) :
       /\ S[i].op \in {"keep", "write", "is", "back"}
       /\ S[i].op = "back" => i = Len(S) \/ S[i + 1].op = "keep"
       /\ S[i].op # "back" =>
            i + 1 \in 1 .. Len(S) /\ S[i + 1].a = S[i].a /\ S[i + 1].op # "keep"
       /\ S[i].op = "is" => /\ i - 1 \in 1 .. Len(S) /\ S[i - 1].op = "write"
                            /\ S[i - 1].a = S[i].a /\ S[i - 1].v = S[i].v

OnlyLooks(S) ==
  /\ Len(S) \in Nat \ {0} /\ S[1].op = "keep"
  /\ \A i \in 1 .. Len(S) : S[i].op \in {"keep", "same"}

OnlyWrites(S) == Len(S) \in Nat /\ \A i \in 1 .. Len(S) : S[i].op = "write"

(* It writes and reads every bit of the mask.                              *)
Tries(S, r) ==
  \A b \in job.mask : \E i \in 2 .. Len(S) : S[i - 1] = W(r, {b}) /\ S[i] = R(r, {b})

LEMMA MaskTaken ==
  ASSUME job \in Jobs
  PROVE  Lists(Upwards(job.mask), job.mask)
<1>1. w \in {8, 16, 32, 64} /\ job.mask \subseteq All(w)
  BY JobType, RamTestsAssumption DEF w
<1>2. IsFiniteSet(0 .. w - 1)
  BY <1>1, w - 1 \in Int, FS_Interval
<1>3. IsFiniteSet(job.mask) /\ job.mask \in SUBSET Nat
  BY <1>1, <1>2, FS_Subset DEF All
<1>4. QED
  BY <1>3, UpwardsIs

LEMMA ReadWriteIs ==
  ASSUME job \in Jobs, NEW r
  PROVE  /\ PutsBack(reg_rw_test(r)) /\ Tries(reg_rw_test(r), r)
         /\ \E P : reg_rw_test(r) \in Seq(P)
<1> DEFINE bits == Upwards(job.mask)
           C == Len(bits)
           q == WriteRead(r, job.mask)
           P == {Keep(r), Back(r)} \union { q[n] : n \in 1 .. 2 * C }
           S == reg_rw_test(r)
           p == <<Keep(r)>>
           b == <<Back(r)>>
           x(n) == {bits[n]}
<1>1. C \in Nat
  BY MaskTaken DEF Lists
<1>2. q = [n \in 1 .. 2 * C |-> IF n % 2 = 1 THEN W(r, x((n + 1) \div 2)) ELSE R(r, x(n \div 2))]
  BY DEF WriteRead
<1> HIDE DEF C, x
<1>3. q \in [1 .. 2 * C -> P]
  BY <1>2
<1>4. \A n \in 1 .. C : q[2 * n - 1] = W(r, x(n)) /\ q[2 * n] = R(r, x(n))
  <2> TAKE n \in 1 .. C
  <2>1. /\ 2 * n \in 1 .. 2 * C /\ 2 * n - 1 \in 1 .. 2 * C
        /\ (2 * n) % 2 = 0 /\ (2 * n - 1) % 2 = 1
        /\ (2 * n) \div 2 = n /\ ((2 * n - 1) + 1) \div 2 = n
    BY <1>1
  <2>2. QED
    BY <1>2, <2>1
<1>5. p \in Seq(P) /\ b \in Seq(P) /\ Len(p) = 1 /\ Len(b) = 1 /\ p[1] = Keep(r) /\ b[1] = Back(r)
  OBVIOUS
<1>6. q \in Seq(P) /\ Len(q) = 2 * C /\ 2 * C \in Nat
  BY <1>1, <1>3, FunctionIsSeq
<1>7. S = (p \o q) \o b
  BY DEF reg_rw_test
<1>8. p \in Seq(P) /\ q \in Seq(P)
  BY <1>5, <1>6
<1> HIDE DEF P, p, q, b, S
<1> DEFINE s == p \o q
<1>9. /\ s \in Seq(P) /\ Len(s) = Len(p) + Len(q)
      /\ \A i \in 1 .. Len(p) : s[i] = p[i]
      /\ \A i \in 1 .. Len(q) : s[Len(p) + i] = q[i]
  BY <1>8, Joined
<1>10. s \in Seq(P) /\ b \in Seq(P)
  BY <1>5, <1>9
<1> HIDE DEF s
<1> DEFINE t == s \o b
<1>11. /\ t \in Seq(P) /\ Len(t) = Len(s) + Len(b)
       /\ \A i \in 1 .. Len(s) : t[i] = s[i]
       /\ \A i \in 1 .. Len(b) : t[Len(s) + i] = b[i]
  BY <1>10, Joined
<1> HIDE DEF t
<1>12. S = t
  BY <1>7 DEF t, s
<1>13. Len(S) = 2 * C + 2 /\ Len(s) = 2 * C + 1
  BY <1>1, <1>5, <1>6, <1>9, <1>11, <1>12
<1>14. S[1] = Keep(r) /\ S[2 * C + 2] = Back(r)
  <2>1. 1 \in 1 .. Len(p) /\ 1 \in 1 .. Len(b) /\ 1 \in 1 .. Len(s) /\ Len(s) + 1 = 2 * C + 2
    BY <1>1, <1>5, <1>13
  <2>2. QED
    BY <1>5, <1>9, <1>11, <1>12, <2>1
<1>15. ASSUME NEW n \in 1 .. C PROVE S[2 * n] = W(r, x(n)) /\ S[2 * n + 1] = R(r, x(n))
  <2>1. /\ 2 * n - 1 \in 1 .. Len(q) /\ 2 * n \in 1 .. Len(q)
        /\ 1 + (2 * n - 1) = 2 * n /\ 1 + 2 * n = 2 * n + 1
        /\ 2 * n \in 1 .. Len(s) /\ 2 * n + 1 \in 1 .. Len(s)
    BY <1>1, <1>6, <1>13
  <2>2. s[2 * n] = q[2 * n - 1] /\ s[2 * n + 1] = q[2 * n]
    BY <1>5, <1>9, <2>1
  <2>3. QED
    BY <1>4, <1>11, <1>12, <2>1, <2>2
<1>16. /\ S[1].op = "keep" /\ S[1].a = r /\ S[2 * C + 2].op = "back" /\ S[2 * C + 2].a = r
  BY <1>14 DEF Keep, Back
<1>17. ASSUME NEW n \in 1 .. C
       PROVE  /\ S[2 * n].op = "write" /\ S[2 * n].a = r /\ S[2 * n].v = x(n)
              /\ S[2 * n + 1].op = "is" /\ S[2 * n + 1].a = r /\ S[2 * n + 1].v = x(n)
  <2>1. S[2 * n] = W(r, x(n)) /\ S[2 * n + 1] = R(r, x(n))
    BY <1>15
  <2>2. QED
    BY <2>1 DEF W, R
<1>18. ASSUME NEW i \in 1 .. 2 * C + 2
       PROVE  i = 1 \/ i = 2 * C + 2 \/ (\E n \in 1 .. C : i = 2 * n \/ i = 2 * n + 1)
  <2>1. CASE i \in 2 .. 2 * C + 1
    <3>1. i - 1 \in 1 .. 2 * C
      BY <1>1, <2>1
    <3>2. PICK n \in 1 .. C : i - 1 = 2 * n - 1 \/ i - 1 = 2 * n
      BY <1>1, <3>1, Parity
    <3>3. i = 2 * n \/ i = 2 * n + 1
      BY <1>1, <3>1, <3>2
    <3>4. QED
      BY <3>3
  <2>2. QED
    BY <1>1, <2>1
<1>19. \A i \in 2 .. 2 * C + 2 : S[i].a = r /\ S[i].op # "keep"
  <2> TAKE i \in 2 .. 2 * C + 2
  <2>1. CASE i = 2 * C + 2
    BY <1>16, <2>1
  <2>2. CASE i # 2 * C + 2
    <3>1. i \in 1 .. 2 * C + 2 /\ i # 1
      BY <1>1
    <3>2. PICK n \in 1 .. C : i = 2 * n \/ i = 2 * n + 1
      BY <1>18, <2>2, <3>1
    <3>3. QED
      BY <1>17, <3>2
  <2>3. QED
    BY <2>1, <2>2
<1>20. PutsBack(S)
  <2>1. ASSUME NEW i \in 1 .. Len(S)
        PROVE  /\ S[i].op \in {"keep", "write", "is", "back"}
               /\ S[i].op = "back" => i = Len(S)
               /\ S[i].op # "back" =>
                    i + 1 \in 1 .. Len(S) /\ S[i + 1].a = S[i].a /\ S[i + 1].op # "keep"
               /\ S[i].op = "is" => /\ i - 1 \in 1 .. Len(S) /\ S[i - 1].op = "write"
                                    /\ S[i - 1].a = S[i].a /\ S[i - 1].v = S[i].v
    <3>0. i = 1 \/ i = 2 * C + 2 \/ (\E n \in 1 .. C : i = 2 * n \/ i = 2 * n + 1)
      BY <1>13, <1>18
    <3>1. i # 2 * C + 2 => i + 1 \in 2 .. 2 * C + 2 /\ i + 1 \in 1 .. Len(S)
      BY <1>1, <1>13
    <3>2. CASE i = 1
      BY <1>1, <1>16, <1>19, <3>1, <3>2
    <3>3. CASE i = 2 * C + 2
      BY <1>13, <1>16, <3>3
    <3>4. ASSUME NEW n \in 1 .. C, i = 2 * n
          PROVE  S[i].op = "write" /\ S[i].a = r /\ i # 2 * C + 2
      <4>1. i # 2 * C + 2
        BY <1>1, <3>4
      <4>2. QED
        BY <1>17, <3>4, <4>1
    <3>5. ASSUME NEW n \in 1 .. C, i = 2 * n + 1
          PROVE  /\ S[i].op = "is" /\ S[i].a = r /\ i # 2 * C + 2
                 /\ i - 1 \in 1 .. Len(S) /\ S[i - 1].op = "write" /\ S[i - 1].a = r
                 /\ S[i - 1].v = S[i].v
      <4>1. i - 1 = 2 * n /\ i # 2 * C + 2 /\ i - 1 \in 1 .. Len(S)
        BY <1>1, <1>13, <3>5
      <4>2. QED
        BY <1>17, <3>5, <4>1
    <3>6. CASE \E n \in 1 .. C : i = 2 * n
      BY <1>19, <3>1, <3>4, <3>6
    <3>7. CASE \E n \in 1 .. C : i = 2 * n + 1
      BY <1>19, <3>1, <3>5, <3>7
    <3>8. QED
      BY <3>0, <3>2, <3>3, <3>6, <3>7
  <2>2. QED
    BY <1>1, <1>13, <1>16, <2>1 DEF PutsBack
<1>21. Tries(S, r)
  <2> SUFFICES ASSUME NEW c \in job.mask
               PROVE  \E i \in 2 .. Len(S) : S[i - 1] = W(r, {c}) /\ S[i] = R(r, {c})
    BY DEF Tries
  <2>1. PICK n \in 1 .. C : bits[n] = c
    BY MaskTaken DEF Lists, C
  <2>2. 2 * n + 1 \in 2 .. Len(S) /\ (2 * n + 1) - 1 = 2 * n
    BY <1>1, <1>13
  <2>3. S[2 * n] = W(r, {c}) /\ S[2 * n + 1] = R(r, {c})
    BY <1>15, <2>1 DEF x
  <2>4. QED
    BY <2>2, <2>3
<1>22. QED
  BY <1>11, <1>12, <1>20, <1>21 DEF S

LEMMA LooksAndWrites ==
  ASSUME job \in Jobs, NEW r
  PROVE  /\ OnlyLooks(reg_ro_test(r)) /\ (\E P : reg_ro_test(r) \in Seq(P))
         /\ OnlyWrites(reg_wo_test(r)) /\ (\E P : reg_wo_test(r) \in Seq(P))
<1>1. w \in {8, 16, 32, 64}
  BY JobType
<1>2. OnlyWrites(reg_wo_test(r)) /\ (\E P : reg_wo_test(r) \in Seq(P))
  <2>1. reg_wo_test(r) = [n \in 1 .. w |-> W(r, {n - 1})]
    BY DEF reg_wo_test
  <2>2. reg_wo_test(r) \in [1 .. w -> { W(r, {n - 1}) : n \in 1 .. w }]
    BY <2>1
  <2>3. reg_wo_test(r) \in Seq({ W(r, {n - 1}) : n \in 1 .. w }) /\ Len(reg_wo_test(r)) = w
    BY <1>1, <2>2, FunctionIsSeq
  <2>4. \A i \in 1 .. w : reg_wo_test(r)[i].op = "write"
    BY <2>1 DEF W
  <2>5. OnlyWrites(reg_wo_test(r))
    BY <2>3, <2>4 DEF OnlyWrites
  <2>6. QED
    BY <2>3, <2>5
<1>3. OnlyLooks(reg_ro_test(r)) /\ (\E P : reg_ro_test(r) \in Seq(P))
  <2> DEFINE P == {Keep(r), Same(r)}
             p == <<Keep(r)>>
             q == [n \in 1 .. w |-> Same(r)]
             s == p \o q
  <2>1. p \in Seq(P) /\ q \in Seq(P) /\ Len(p) = 1 /\ p[1] = Keep(r)
    BY <1>1
  <2>2. p \in Seq(P) /\ q \in Seq(P)
    BY <2>1
  <2> HIDE DEF p, q
  <2>3. /\ s \in Seq(P) /\ Len(s) = Len(p) + Len(q) /\ \A i \in 1 .. Len(p) : s[i] = p[i]
    BY <2>2, Joined
  <2>4. reg_ro_test(r) = s
    BY DEF reg_ro_test, p, q
  <2> HIDE DEF s
  <2>5. Len(s) \in Nat \ {0} /\ s[1] = Keep(r) /\ \A i \in 1 .. Len(s) : s[i] \in P
    BY <2>1, <2>3
  <2>6. OnlyLooks(s)
    BY <2>5 DEF OnlyLooks, Keep, Same
  <2> HIDE DEF P
  <2>7. QED
    BY <2>3, <2>4, <2>6
<1>4. QED
  BY <1>2, <1>3

(* What holds of the test of a register holds of the tests of two.         *)
LEMMA BothRegisters ==
  ASSUME NEW S, NEW T, NEW P, S \in Seq(P), T \in Seq(P)
  PROVE  /\ PutsBack(S) /\ PutsBack(T) => PutsBack(S \o T)
         /\ OnlyLooks(S) /\ OnlyLooks(T) => OnlyLooks(S \o T)
         /\ OnlyWrites(S) /\ OnlyWrites(T) => OnlyWrites(S \o T)
<1> DEFINE U == S \o T
           m == Len(S)
           n == Len(T)
<1>1. /\ U \in Seq(P) /\ Len(U) = m + n
      /\ \A i \in 1 .. m : U[i] = S[i]
      /\ \A i \in 1 .. n : U[m + i] = T[i]
  BY Joined
<1>2. m \in Nat /\ n \in Nat
  OBVIOUS
<1> HIDE DEF U, m, n
<1>3. \A i \in 1 .. m + n : i \in 1 .. m \/ (i - m \in 1 .. n /\ m + (i - m) = i)
  BY <1>2
<1>4. ASSUME OnlyWrites(S), OnlyWrites(T) PROVE OnlyWrites(U)
  <2>0. /\ \A i \in 1 .. m : S[i].op = "write"
        /\ \A i \in 1 .. n : T[i].op = "write"
    BY <1>4 DEF OnlyWrites, m, n
  <2>1. \A i \in 1 .. m + n : U[i].op = "write"
    <3> TAKE i \in 1 .. m + n
    <3>1. CASE i \in 1 .. m
      BY <1>1, <2>0, <3>1
    <3>2. CASE i - m \in 1 .. n /\ m + (i - m) = i
      <4>1. U[i] = T[i - m]
        BY <1>1, <3>2
      <4>2. QED
        BY <2>0, <3>2, <4>1
    <3>3. QED
      BY <1>3, <3>1, <3>2
  <2>2. QED
    BY <1>1, <2>1 DEF OnlyWrites
<1>5. ASSUME OnlyLooks(S), OnlyLooks(T) PROVE OnlyLooks(U)
  <2>1. /\ m \in Nat \ {0} /\ S[1].op = "keep"
        /\ \A i \in 1 .. m : S[i].op \in {"keep", "same"}
        /\ \A i \in 1 .. n : T[i].op \in {"keep", "same"}
    BY <1>5 DEF OnlyLooks, m, n
  <2>2. \A i \in 1 .. m + n : U[i].op \in {"keep", "same"}
    BY <1>1, <1>3, <2>1
  <2>3. U[1].op = "keep" /\ m + n \in Nat \ {0}
    BY <1>1, <1>2, <2>1
  <2>4. QED
    BY <1>1, <2>2, <2>3 DEF OnlyLooks
<1>6. ASSUME PutsBack(S), PutsBack(T) PROVE PutsBack(U)
  <2> DEFINE Good(row, i, l) ==
               /\ row[i].op \in {"keep", "write", "is", "back"}
               /\ row[i].op = "back" => i = l \/ row[i + 1].op = "keep"
               /\ row[i].op # "back" =>
                    i + 1 \in 1 .. l /\ row[i + 1].a = row[i].a /\ row[i + 1].op # "keep"
               /\ row[i].op = "is" => /\ i - 1 \in 1 .. l /\ row[i - 1].op = "write"
                                      /\ row[i - 1].a = row[i].a /\ row[i - 1].v = row[i].v
  <2>1. /\ m \in Nat \ {0} /\ S[1].op = "keep" /\ S[m].op = "back"
        /\ \A i \in 1 .. m : Good(S, i, m)
        /\ n \in Nat \ {0} /\ T[1].op = "keep" /\ T[n].op = "back"
        /\ \A i \in 1 .. n : Good(T, i, n)
    BY <1>6 DEF PutsBack, m, n
  <2>2. U[1].op = "keep" /\ U[m + n].op = "back" /\ U[m + 1].op = "keep" /\ m + n \in Nat \ {0}
    <3>1. 1 \in 1 .. m /\ n \in 1 .. n /\ 1 \in 1 .. n /\ m + n \in Nat \ {0}
      BY <2>1
    <3>2. QED
      BY <1>1, <2>1, <3>1
  <2>3. ASSUME NEW i \in 1 .. m PROVE Good(U, i, m + n)
    <3>1. Good(S, i, m) /\ U[i] = S[i]
      BY <1>1, <2>1
    <3>2. CASE i = m
      <4>1. U[i].op = "back"
        BY <2>1, <3>1, <3>2
      <4>2. QED
        BY <2>2, <3>2, <4>1
    <3>3. CASE i # m
      <4>1. i + 1 \in 1 .. m /\ i + 1 \in 1 .. m + n /\ U[i + 1] = S[i + 1]
        BY <1>1, <2>1, <3>3
      <4>2. i - 1 \in 1 .. m => i - 1 \in 1 .. m + n /\ U[i - 1] = S[i - 1]
        BY <1>1, <2>1
      <4>3. QED
        BY <3>1, <3>3, <4>1, <4>2
    <3>4. QED
      BY <3>2, <3>3
  <2>4. ASSUME NEW i \in 1 .. n PROVE Good(U, m + i, m + n)
    <3>1. Good(T, i, n) /\ U[m + i] = T[i]
      BY <1>1, <2>1
    <3>2. i + 1 \in 1 .. n =>
            (m + i) + 1 = m + (i + 1) /\ (m + i) + 1 \in 1 .. m + n /\ U[(m + i) + 1] = T[i + 1]
      <4>1. (m + i) + 1 = m + (i + 1) /\ (i + 1 \in 1 .. n => (m + i) + 1 \in 1 .. m + n)
        BY <1>2
      <4>2. QED
        BY <1>1, <4>1
    <3>3. i - 1 \in 1 .. n =>
            (m + i) - 1 = m + (i - 1) /\ (m + i) - 1 \in 1 .. m + n /\ U[(m + i) - 1] = T[i - 1]
      <4>1. (m + i) - 1 = m + (i - 1) /\ (i - 1 \in 1 .. n => (m + i) - 1 \in 1 .. m + n)
        BY <1>2
      <4>2. QED
        BY <1>1, <4>1
    <3>4. i = n \/ i + 1 \in 1 .. n
      BY <2>1
    <3>5. QED
      BY <3>1, <3>2, <3>3, <3>4
  <2>5. \A i \in 1 .. m + n : Good(U, i, m + n)
    BY <1>3, <2>3, <2>4
  <2> HIDE DEF Good
  <2>6. \A i \in 1 .. Len(U) : Good(U, i, Len(U))
    BY <1>1, <2>5
  <2>7. U[1].op = "keep" /\ U[Len(U)].op = "back" /\ Len(U) \in Nat \ {0}
    BY <1>1, <2>2
  <2>8. QED
    BY <2>6, <2>7 DEF PutsBack, Good
<1>7. QED
  BY <1>4, <1>5, <1>6 DEF U

LEMMA BothTried ==
  ASSUME NEW S, NEW T, NEW P, S \in Seq(P), T \in Seq(P), NEW r, Tries(S, r) \/ Tries(T, r)
  PROVE  Tries(S \o T, r)
<1> DEFINE U == S \o T
           m == Len(S)
           n == Len(T)
<1>1. /\ Len(U) = m + n
      /\ \A i \in 1 .. m : U[i] = S[i]
      /\ \A i \in 1 .. n : U[m + i] = T[i]
  BY Joined
<1>2. m \in Nat /\ n \in Nat
  OBVIOUS
<1> SUFFICES ASSUME NEW b \in job.mask
             PROVE  \E i \in 2 .. Len(U) : U[i - 1] = W(r, {b}) /\ U[i] = R(r, {b})
  BY DEF Tries
<1> HIDE DEF U
<1>3. CASE Tries(S, r)
  <2>1. PICK i \in 2 .. m : S[i - 1] = W(r, {b}) /\ S[i] = R(r, {b})
    BY <1>3 DEF Tries
  <2> HIDE DEF m, n
  <2>2. i \in 2 .. m + n /\ i \in 1 .. m /\ i - 1 \in 1 .. m
    BY <1>2
  <2>3. QED
    BY <1>1, <2>1, <2>2
<1>4. CASE Tries(T, r)
  <2>1. PICK i \in 2 .. n : T[i - 1] = W(r, {b}) /\ T[i] = R(r, {b})
    BY <1>4 DEF Tries
  <2> HIDE DEF m, n
  <2>2. m + i \in 2 .. m + n /\ i \in 1 .. n /\ i - 1 \in 1 .. n /\ (m + i) - 1 = m + (i - 1)
    BY <1>2
  <2>3. U[m + i] = R(r, {b}) /\ U[(m + i) - 1] = W(r, {b})
    BY <1>1, <2>1, <2>2
  <2>4. QED
    BY <1>1, <2>2, <2>3
<1>5. QED
  BY <1>3, <1>4

LEMMA RegsIs ==
  ASSUME job \in Jobs
  PROVE  /\ job.prog = "reg_rw" => PutsBack(Regs) /\ \A r \in Tested : Tries(Regs, r)
         /\ job.prog = "reg_ro" => OnlyLooks(Regs)
         /\ job.prog = "reg_wo" => OnlyWrites(Regs)
<1> DEFINE S == RegTest(job.memory)
           T == RegTest(job.memory + 1)
<1>1. ASSUME NEW r
      PROVE  job.prog \in Register =>
               /\ \E P : RegTest(r) \in Seq(P)
               /\ job.prog = "reg_rw" => PutsBack(RegTest(r)) /\ Tries(RegTest(r), r)
               /\ job.prog = "reg_ro" => OnlyLooks(RegTest(r))
               /\ job.prog = "reg_wo" => OnlyWrites(RegTest(r))
  <2>1. /\ job.prog = "reg_rw" => RegTest(r) = reg_rw_test(r)
        /\ job.prog = "reg_ro" => RegTest(r) = reg_ro_test(r)
        /\ job.prog = "reg_wo" => RegTest(r) = reg_wo_test(r)
    BY DEF RegTest
  <2>2. QED
    BY <2>1, ReadWriteIs, LooksAndWrites DEF Register
<1>2. Regs = S \o (IF job.size = 2 THEN T ELSE <<>>)
  BY DEF Regs
<1>3. SUFFICES ASSUME job.prog \in Register
               PROVE  /\ job.prog = "reg_rw" =>
                           PutsBack(Regs) /\ \A r \in Tested : Tries(Regs, r)
                      /\ job.prog = "reg_ro" => OnlyLooks(Regs)
                      /\ job.prog = "reg_wo" => OnlyWrites(Regs)
  BY DEF Register
<1>4. PICK P1 : S \in Seq(P1)
  BY <1>1, <1>3
<1>5. PICK P2 : T \in Seq(P2)
  BY <1>1, <1>3
<1>6. /\ job.prog = "reg_rw" => /\ PutsBack(S) /\ PutsBack(T)
                                /\ Tries(S, job.memory) /\ Tries(T, job.memory + 1)
      /\ job.prog = "reg_ro" => OnlyLooks(S) /\ OnlyLooks(T)
      /\ job.prog = "reg_wo" => OnlyWrites(S) /\ OnlyWrites(T)
  BY <1>1, <1>3
<1> HIDE DEF S, T
<1> DEFINE P == P1 \union P2
<1>7. S \in Seq(P) /\ T \in Seq(P)
  BY <1>4, <1>5
<1> HIDE DEF P
<1>0. job.memory \in Nat /\ job.size \in {1, 2}
  BY <1>3, RamTestsAssumption
<1>8. CASE job.size = 2
  <2>1. Regs = S \o T
    BY <1>2, <1>8
  <2>2. Tested = {job.memory, job.memory + 1}
    BY <1>0, <1>8 DEF Tested
  <2>3. job.prog = "reg_rw" => \A r \in Tested : Tries(Regs, r)
    BY <1>6, <1>7, <2>1, <2>2, BothTried
  <2>4. QED
    BY <1>6, <1>7, <2>1, <2>3, BothRegisters
<1>9. CASE job.size = 1
  <2>1. Regs = S \o <<>>
    BY <1>2, <1>9
  <2>2. Regs = S
    BY <1>7, <2>1, ConcatEmptySeq
  <2>3. Tested = {job.memory}
    BY <1>0, <1>9 DEF Tested
  <2>4. QED
    BY <1>6, <2>2, <2>3
<1>10. QED
  BY <1>0, <1>8, <1>9

-----------------------------------------------------------------------------
(* The address tests: what their loops make of the region.                 *)
LEMMA FirstFromIs ==
  ASSUME NEW a \in Nat, \E p \in Powers : p >= a
  PROVE  FirstFrom(a) \in Powers /\ FirstFrom(a) >= a
<1> DEFINE T == { p \in Powers : p >= a }
<1>1. Powers \in SUBSET Nat
  BY PowerIs DEF Powers
<1>2. T \in SUBSET Nat /\ T # {}
  BY <1>1
<1>3. Least(T) \in T /\ \A y \in T : Least(T) <= y
  BY <1>2, LeastIs
<1>4. \E p \in Powers : p >= a /\ \A q \in Powers : q >= a => p <= q
  BY <1>3
<1>5. QED
  BY <1>4 DEF FirstFrom

LEMMA StartIs ==
  ASSUME job \in Jobs, job.prog \in Address
  PROVE  start \in Nat \ {0} /\ \E l \in 0 .. Lines : start = Power[l]
<1>1. job.memory \in Nat /\ Lines \in Nat /\ \E l \in 0 .. Lines - 1 : job.memory <= Power[l]
  BY RamTestsAssumption
<1>2. PICK l \in 0 .. Lines - 1 : job.memory <= Power[l]
  BY <1>1
<1>3. l \in 0 .. Lines
  BY <1>1
<1>4. Power[l] \in Powers /\ Power[l] >= job.memory
  BY <1>1, <1>2, <1>3, PowerIs DEF Powers
<1>5. start \in Powers
  BY <1>1, <1>4, FirstFromIs DEF start
<1>6. QED
  BY <1>5, PowerIs DEF Powers

LEMMA MasksAre ==
  ASSUME job \in Jobs, job.prog \in Address
  PROVE  /\ Lists(Masks, Masked)
         /\ \A p \in Masked : p \in Nat \ {0} /\ p # start /\ Location(p) = start + p
<1>1. Lines \in Nat /\ start \in Nat \ {0}
  BY StartIs, RamTestsAssumption
<1>2. \A l \in 0 .. Lines - 1 : l \in 0 .. Lines
  BY <1>1
<1>3. Single \in SUBSET (Nat \ {0})
  BY <1>2, PowerIs DEF Single
<1>4. IsFiniteSet(Single)
  <2>1. IsFiniteSet(0 .. Lines - 1)
    BY <1>1, FS_Interval
  <2> DEFINE f == [l \in 0 .. Lines - 1 |-> Power[l]]
  <2>2. f \in Surjection(0 .. Lines - 1, Single)
    BY DEF Surjection, Single
  <2>3. QED
    BY <2>1, <2>2, FS_Surjection
<1>5. Masked \in SUBSET Nat /\ IsFiniteSet(Masked)
  <2>1. Masked \subseteq Single
    BY DEF Masked
  <2>2. QED
    BY <1>3, <1>4, <2>1, FS_Subset
<1>6. ASSUME NEW p \in Masked PROVE p \in Nat \ {0} /\ p # start /\ Location(p) = start + p
  <2>1. p \in Nat \ {0} /\ Location(p) # start
    BY <1>3 DEF Masked
  <2>2. QED
    BY <2>1 DEF Location
<1>7. QED
  BY <1>5, <1>6, UpwardsIs DEF Masks

(* The addresses they test are those of the masks, none of them the first. *)
Loc(n) == Location(Masks[n])

LEMMA LocIs ==
  ASSUME job \in Jobs, job.prog \in Address
  PROVE  /\ Len(Masks) \in Nat /\ DOMAIN Masks = 1 .. Len(Masks)
         /\ \A n \in 1 .. Len(Masks) : Loc(n) \in Nat \ {0, start}
         /\ \A p \in Masked : \E n \in 1 .. Len(Masks) : Loc(n) = start + p
<1>1. /\ Masks \in Seq(Masked) /\ \A x \in Masked : \E n \in 1 .. Len(Masks) : Masks[n] = x
  BY MasksAre DEF Lists
<1>2. Len(Masks) \in Nat /\ DOMAIN Masks = 1 .. Len(Masks)
  BY <1>1
<1>3. start \in Nat \ {0} /\ \A p \in Masked : p \in Nat \ {0} /\ Location(p) = start + p
  BY StartIs, MasksAre
<1>4. ASSUME NEW n \in 1 .. Len(Masks) PROVE Loc(n) \in Nat \ {0, start}
  <2>1. Masks[n] \in Masked
    BY <1>1
  <2>2. QED
    BY <1>3, <2>1 DEF Loc
<1>5. QED
  BY <1>1, <1>2, <1>3, <1>4 DEF Loc

LEMMA GroundsDiffer ==
  ASSUME job \in Jobs
  PROVE  background # foreground
<1>1. 0 \in background /\ 0 \notin foreground
  BY JobType DEF background, foreground, Fives, Inverted, All
<1>2. QED
  BY <1>1

LEMMA AddrLoIs ==
  ASSUME job \in Jobs, job.prog \in Address
  PROVE  LET S == ram_addr_lo_test
             M == Len(Masks)
         IN  /\ Len(S) = 2 * M + 2
             /\ S[M + 1] = W(start, foreground) /\ S[M + 2] = X(0, foreground)
             /\ \A n \in 1 .. M : /\ S[n] = W(Loc(n), background)
                                  /\ S[M + 2 + n] = R(Loc(n), background)
<1> DEFINE M == Len(Masks)
           p == [n \in DOMAIN Masks |-> W(Location(Masks[n]), background)]
           q == <<W(start, foreground), X(0, foreground)>>
           r == [n \in DOMAIN Masks |-> R(Location(Masks[n]), background)]
           P == {q[1], q[2]} \union { p[n] : n \in 1 .. M } \union { r[n] : n \in 1 .. M }
<1>1. M \in Nat /\ DOMAIN Masks = 1 .. M
  BY LocIs
<1>2. \A n \in 1 .. M : p[n] = W(Loc(n), background) /\ r[n] = R(Loc(n), background)
  BY <1>1 DEF Loc
<1>3. p \in [1 .. M -> P] /\ r \in [1 .. M -> P]
  BY <1>1
<1>4. /\ q \in Seq(P) /\ Len(q) = 2 /\ q[1] = W(start, foreground) /\ q[2] = X(0, foreground)
  OBVIOUS
<1>5. ram_addr_lo_test = (p \o q) \o r
  BY DEF ram_addr_lo_test
<1> HIDE DEF M, P, p, q, r
<1>6. p \in Seq(P) /\ r \in Seq(P) /\ Len(p) = M /\ Len(r) = M
  BY <1>1, <1>3, FunctionIsSeq
<1> DEFINE s == p \o q
<1>7. /\ s \in Seq(P) /\ Len(s) = Len(p) + Len(q)
      /\ \A i \in 1 .. Len(p) : s[i] = p[i]
      /\ \A i \in 1 .. Len(q) : s[Len(p) + i] = q[i]
  <2>1. p \in Seq(P) /\ q \in Seq(P)
    BY <1>4, <1>6
  <2>2. QED
    BY <2>1, Joined
<1> HIDE DEF s
<1> DEFINE t == s \o r
<1>8. /\ Len(t) = Len(s) + Len(r)
      /\ \A i \in 1 .. Len(s) : t[i] = s[i]
      /\ \A i \in 1 .. Len(r) : t[Len(s) + i] = r[i]
  <2>1. s \in Seq(P) /\ r \in Seq(P)
    BY <1>6, <1>7
  <2>2. QED
    BY <2>1, Joined
<1> HIDE DEF t
<1>9. Len(s) = M + 2 /\ Len(t) = 2 * M + 2
  BY <1>1, <1>4, <1>6, <1>7, <1>8
<1>10. t[M + 1] = W(start, foreground) /\ t[M + 2] = X(0, foreground)
  <2>1. 1 \in 1 .. Len(q) /\ 2 \in 1 .. Len(q) /\ M + 1 \in 1 .. Len(s) /\ M + 2 \in 1 .. Len(s)
    BY <1>1, <1>4, <1>9
  <2>2. QED
    BY <1>4, <1>6, <1>7, <1>8, <2>1
<1>11. ASSUME NEW n \in 1 .. M
       PROVE  t[n] = W(Loc(n), background) /\ t[M + 2 + n] = R(Loc(n), background)
  <2>1. n \in 1 .. Len(p) /\ n \in 1 .. Len(s) /\ n \in 1 .. Len(r)
    BY <1>1, <1>6, <1>9
  <2>2. QED
    BY <1>2, <1>7, <1>8, <1>9, <2>1
<1>12. QED
  BY <1>5, <1>9, <1>10, <1>11 DEF M, s, t

LEMMA AddrHiIs ==
  ASSUME job \in Jobs, job.prog \in Address
  PROVE  LET S == ram_addr_hi_test
             M == Len(Masks)
         IN  /\ Len(S) = 2 * M + 2
             /\ S[1] = W(start, background) /\ S[2] = X(0, background)
             /\ \A n \in 1 .. M : /\ S[2 * n + 1] = W(Loc(n), foreground)
                                  /\ S[2 * n + 2] = R(start, background)
<1> DEFINE M == Len(Masks)
           p == Base
           q == [n \in 1 .. 2 * M |-> IF n % 2 = 1 THEN W(Loc((n + 1) \div 2), foreground)
                                                   ELSE R(start, background)]
           P == {p[1], p[2]} \union { q[n] : n \in 1 .. 2 * M }
<1>1. M \in Nat
  BY LocIs
<1>2. /\ p \in Seq(P) /\ Len(p) = 2 /\ p[1] = W(start, background) /\ p[2] = X(0, background)
  BY DEF Base
<1>3. q \in [1 .. 2 * M -> P]
  OBVIOUS
<1>4. ram_addr_hi_test = p \o q
  BY DEF ram_addr_hi_test, Loc
<1>5. \A n \in 1 .. M : q[2 * n - 1] = W(Loc(n), foreground) /\ q[2 * n] = R(start, background)
  <2> TAKE n \in 1 .. M
  <2>1. /\ 2 * n \in 1 .. 2 * M /\ 2 * n - 1 \in 1 .. 2 * M
        /\ (2 * n) % 2 = 0 /\ (2 * n - 1) % 2 = 1 /\ ((2 * n - 1) + 1) \div 2 = n
    BY <1>1
  <2>2. QED
    BY <2>1
<1>6. 2 * M \in Nat
  BY <1>1
<1> HIDE DEF M, P, p, q
<1>7. q \in Seq(P) /\ Len(q) = 2 * M
  BY <1>3, <1>6, FunctionIsSeq
<1> DEFINE s == p \o q
<1>8. /\ Len(s) = Len(p) + Len(q)
      /\ \A i \in 1 .. Len(p) : s[i] = p[i]
      /\ \A i \in 1 .. Len(q) : s[Len(p) + i] = q[i]
  <2>1. p \in Seq(P) /\ q \in Seq(P)
    BY <1>2, <1>7
  <2>2. QED
    BY <2>1, Joined
<1> HIDE DEF s
<1>9. Len(s) = 2 * M + 2
  BY <1>1, <1>2, <1>7, <1>8
<1>10. s[1] = W(start, background) /\ s[2] = X(0, background)
  BY <1>2, <1>8
<1>11. ASSUME NEW n \in 1 .. M
       PROVE  s[2 * n + 1] = W(Loc(n), foreground) /\ s[2 * n + 2] = R(start, background)
  <2>1. /\ 2 * n - 1 \in 1 .. Len(q) /\ 2 * n \in 1 .. Len(q)
        /\ 2 + (2 * n - 1) = 2 * n + 1 /\ 2 + 2 * n = 2 * n + 2
    BY <1>1, <1>7
  <2>2. s[2 + (2 * n - 1)] = q[2 * n - 1] /\ s[2 + 2 * n] = q[2 * n]
    BY <1>2, <1>8, <2>1
  <2>3. QED
    BY <1>5, <2>1, <2>2
<1>12. QED
  BY <1>4, <1>9, <1>10, <1>11 DEF M, s

(* They write every address but 0, expect of each what they wrote last, and*)
(* of 0 that it does not hold v.                                           *)
Compares(S, v) ==
  \A i \in 1 .. Len(S) :
    /\ S[i].op \in {"write", "is", "is not"}
    /\ S[i].op = "write" => S[i].a # 0
    /\ S[i].op = "is not" => S[i].a = 0 /\ S[i].v = v
    /\ S[i].op = "is" => \E j : LastWrite(S, i, S[i].a, j) /\ S[j].v = S[i].v

LEMMA LoCompares ==
  ASSUME job \in Jobs, job.prog \in Address
  PROVE  Compares(ram_addr_lo_test, foreground)
<1> DEFINE S == ram_addr_lo_test
           M == Len(Masks)
<1>1. /\ Len(S) = 2 * M + 2
      /\ S[M + 1] = W(start, foreground) /\ S[M + 2] = X(0, foreground)
      /\ \A n \in 1 .. M : S[n] = W(Loc(n), background) /\ S[M + 2 + n] = R(Loc(n), background)
  BY AddrLoIs
<1>2. /\ M \in Nat /\ start \in Nat \ {0}
      /\ \A n \in 1 .. M : Loc(n) \in Nat \ {0, start}
  BY LocIs, StartIs
<1> HIDE DEF S, M
<1>3. /\ S[M + 1].op = "write" /\ S[M + 1].a = start
      /\ S[M + 2].op = "is not" /\ S[M + 2].a = 0 /\ S[M + 2].v = foreground
      /\ \A n \in 1 .. M :
           /\ S[n].op = "write" /\ S[n].a = Loc(n) /\ S[n].v = background
           /\ S[M + 2 + n].op = "is" /\ S[M + 2 + n].a = Loc(n) /\ S[M + 2 + n].v = background
  <2>1. /\ S[M + 1].op = "write" /\ S[M + 1].a = start
        /\ S[M + 2].op = "is not" /\ S[M + 2].a = 0 /\ S[M + 2].v = foreground
    <3>1. S[M + 1] = W(start, foreground)
      BY <1>1
    <3>2. S[M + 2] = X(0, foreground)
      BY <1>1
    <3>3. S[M + 1].op = "write" /\ S[M + 1].a = start /\ S[M + 1].v = foreground
      BY <3>1 DEF W
    <3>4. S[M + 2].op = "is not" /\ S[M + 2].a = 0 /\ S[M + 2].v = foreground
      BY <3>2, ZeroFields
    <3>5. QED
      BY <3>3, <3>4
  <2>2. ASSUME NEW n \in 1 .. M
        PROVE  /\ S[n].op = "write" /\ S[n].a = Loc(n) /\ S[n].v = background
               /\ S[M + 2 + n].op = "is" /\ S[M + 2 + n].a = Loc(n)
               /\ S[M + 2 + n].v = background
    <3>1. S[n] = W(Loc(n), background) /\ S[M + 2 + n] = R(Loc(n), background)
      BY <1>1
    <3>2. QED
      BY <3>1 DEF W, R
  <2>3. QED
    BY <2>1, <2>2
<1>4. ASSUME NEW n \in 1 .. M
      PROVE  \E j : LastWrite(S, M + 2 + n, Loc(n), j) /\ S[j].v = background
  <2> DEFINE T == { M - m : m \in { m \in 1 .. M : Loc(m) = Loc(n) } }
  <2>1. T \in SUBSET Nat /\ T # {}
    BY <1>2
  <2>2. Least(T) \in T /\ \A y \in T : Least(T) <= y
    BY <2>1, LeastIs
  <2>3. PICK j \in 1 .. M : Least(T) = M - j /\ Loc(j) = Loc(n)
    BY <2>2
  <2>4. \A m \in 1 .. M : Loc(m) = Loc(n) => m <= j
    <3> TAKE m \in 1 .. M
    <3>1. Loc(m) = Loc(n) => M - j <= M - m
      BY <2>2, <2>3
    <3>2. QED
      BY <1>2, <3>1
  <2>5. ASSUME NEW i \in j + 1 .. (M + 2 + n) - 1, S[i].op \in {"write", "back"}
        PROVE  S[i].a # Loc(n)
    <3>1. CASE i \in 1 .. M
      <4>1. i > j
        BY <1>2
      <4>2. Loc(i) # Loc(n)
        BY <2>4, <3>1, <4>1
      <4>3. QED
        BY <1>3, <3>1, <4>2
    <3>2. CASE i = M + 1
      BY <1>2, <1>3, <3>2
    <3>3. CASE i = M + 2
      BY <1>3, <2>5, <3>3
    <3>4. CASE i > M + 2
      <4>1. i - (M + 2) \in 1 .. M /\ M + 2 + (i - (M + 2)) = i
        BY <1>2, <2>3, <3>4
      <4>2. S[i].op = "is"
        BY <1>3, <4>1
      <4>3. QED
        BY <2>5, <4>2
    <3>5. QED
      BY <1>2, <2>3, <3>1, <3>2, <3>3, <3>4
  <2>6. j \in 1 .. (M + 2 + n) - 1
    BY <1>2, <2>3
  <2>7. LastWrite(S, M + 2 + n, Loc(n), j) /\ S[j].v = background
    BY <1>3, <2>3, <2>5, <2>6 DEF LastWrite
  <2>8. QED
    BY <2>7
<1>5. ASSUME NEW i \in 1 .. 2 * M + 2
      PROVE  /\ S[i].op \in {"write", "is", "is not"}
             /\ S[i].op = "write" => S[i].a # 0
             /\ S[i].op = "is not" => S[i].a = 0 /\ S[i].v = foreground
             /\ S[i].op = "is" => \E j : LastWrite(S, i, S[i].a, j) /\ S[j].v = S[i].v
  <2>0. CASE i \in 1 .. M
    <3>1. S[i].op = "write" /\ S[i].a # 0
      BY <1>2, <1>3, <2>0
    <3>2. QED
      BY <3>1
  <2>1. CASE i = M + 1
    <3>1. S[i].op = "write" /\ S[i].a # 0
      BY <1>2, <1>3, <2>1
    <3>2. QED
      BY <3>1
  <2>2. CASE i = M + 2
    BY <1>3, <2>2
  <2>3. CASE i > M + 2
    <3>1. i - (M + 2) \in 1 .. M /\ M + 2 + (i - (M + 2)) = i
      BY <1>2, <2>3
    <3>2. S[i].op = "is" /\ S[i].a = Loc(i - (M + 2)) /\ S[i].v = background
      BY <1>3, <3>1
    <3>3. QED
      BY <1>4, <3>1, <3>2
  <2>4. i \in 1 .. M \/ i = M + 1 \/ i = M + 2 \/ i > M + 2
    BY <1>2
  <2>5. QED
    BY <2>0, <2>1, <2>2, <2>3, <2>4
<1>6. QED
  BY <1>1, <1>5 DEF Compares, S

LEMMA HiCompares ==
  ASSUME job \in Jobs, job.prog \in Address
  PROVE  Compares(ram_addr_hi_test, background)
<1> DEFINE S == ram_addr_hi_test
           M == Len(Masks)
<1>1. /\ Len(S) = 2 * M + 2
      /\ S[1] = W(start, background) /\ S[2] = X(0, background)
      /\ \A n \in 1 .. M : /\ S[2 * n + 1] = W(Loc(n), foreground)
                           /\ S[2 * n + 2] = R(start, background)
  BY AddrHiIs
<1>2. /\ M \in Nat /\ start \in Nat \ {0}
      /\ \A n \in 1 .. M : Loc(n) \in Nat \ {0, start}
  BY LocIs, StartIs
<1> HIDE DEF S, M
<1>3. /\ S[1].op = "write" /\ S[1].a = start /\ S[1].v = background
      /\ S[2].op = "is not" /\ S[2].a = 0 /\ S[2].v = background
      /\ \A n \in 1 .. M :
           /\ S[2 * n + 1].op = "write" /\ S[2 * n + 1].a = Loc(n)
           /\ S[2 * n + 2].op = "is" /\ S[2 * n + 2].a = start /\ S[2 * n + 2].v = background
  <2>1. /\ S[1].op = "write" /\ S[1].a = start /\ S[1].v = background
        /\ S[2].op = "is not" /\ S[2].a = 0 /\ S[2].v = background
    <3>1. S[1] = W(start, background)
      BY <1>1
    <3>2. S[2] = X(0, background)
      BY <1>1
    <3>3. S[1].op = "write" /\ S[1].a = start /\ S[1].v = background
      BY <3>1 DEF W
    <3>4. S[2].op = "is not" /\ S[2].a = 0 /\ S[2].v = background
      BY <3>2, ZeroFields
    <3>5. QED
      BY <3>3, <3>4
  <2>2. ASSUME NEW n \in 1 .. M
        PROVE  /\ S[2 * n + 1].op = "write" /\ S[2 * n + 1].a = Loc(n)
               /\ S[2 * n + 2].op = "is" /\ S[2 * n + 2].a = start
               /\ S[2 * n + 2].v = background
    <3>1. S[2 * n + 1] = W(Loc(n), foreground) /\ S[2 * n + 2] = R(start, background)
      BY <1>1
    <3>2. QED
      BY <3>1 DEF W, R
  <2>3. QED
    BY <2>1, <2>2
<1>4. ASSUME NEW i \in 3 .. 2 * M + 2
      PROVE  \E n \in 1 .. M : i = 2 * n + 1 \/ i = 2 * n + 2
  <2>1. i - 2 \in 1 .. 2 * M
    BY <1>2
  <2>2. PICK n \in 1 .. M : i - 2 = 2 * n - 1 \/ i - 2 = 2 * n
    BY <1>2, <2>1, Parity
  <2>3. i = 2 * n + 1 \/ i = 2 * n + 2
    BY <1>2, <2>1, <2>2
  <2>4. QED
    BY <2>3
<1>5. ASSUME NEW n \in 1 .. M PROVE LastWrite(S, 2 * n + 2, start, 1)
  <2>1. ASSUME NEW i \in 2 .. 2 * n + 1, S[i].op \in {"write", "back"} PROVE S[i].a # start
    <3>1. CASE i = 2
      BY <1>3, <2>1, <3>1
    <3>2. CASE i # 2
      <4>1. i \in 3 .. 2 * M + 2
        BY <1>2, <3>2
      <4>2. PICK m \in 1 .. M : i = 2 * m + 1 \/ i = 2 * m + 2
        BY <1>4, <4>1
      <4>3. QED
        BY <1>2, <1>3, <2>1, <4>2
    <3>3. QED
      BY <3>1, <3>2
  <2>2. 1 \in 1 .. (2 * n + 2) - 1 /\ 1 + 1 .. (2 * n + 2) - 1 = 2 .. 2 * n + 1
    BY <1>2
  <2>3. QED
    BY <1>3, <2>1, <2>2 DEF LastWrite
<1>6. ASSUME NEW i \in 1 .. 2 * M + 2
      PROVE  /\ S[i].op \in {"write", "is", "is not"}
             /\ S[i].op = "write" => S[i].a # 0
             /\ S[i].op = "is not" => S[i].a = 0 /\ S[i].v = background
             /\ S[i].op = "is" => \E j : LastWrite(S, i, S[i].a, j) /\ S[j].v = S[i].v
  <2>1. CASE i \in {1, 2}
    BY <1>2, <1>3, <2>1
  <2>2. CASE i \notin {1, 2}
    <3>1. i \in 3 .. 2 * M + 2
      BY <1>2, <2>2
    <3>2. PICK n \in 1 .. M : i = 2 * n + 1 \/ i = 2 * n + 2
      BY <1>4, <3>1
    <3>3. QED
      BY <1>2, <1>3, <1>5, <3>2
  <2>3. QED
    BY <2>1, <2>2
<1>7. QED
  BY <1>1, <1>6 DEF Compares, S

-----------------------------------------------------------------------------
(* What each program does.                                                 *)
LEMMA Scripts ==
  ASSUME job \in Jobs
  PROVE  /\ Len(Script) \in Nat
         /\ job.prog \notin Address \union {"reg_ro"} => ReadsWritten(Script)
         /\ job.prog \in {"refresh", "readback", "cache", "alias"} => AtUp(Script)
         /\ job.prog \in {"refresh", "readback"} =>
              /\ WrittenRead(Script, pg.v)
              /\ \A n \in 1 .. Accesses : \E i \in 1 .. Len(Script) : Script[i] = R(Up[n], pg.v)
         /\ job.prog = "reg_rw" => PutsBack(Script) /\ \A r \in Tested : Tries(Script, r)
         /\ job.prog = "reg_ro" => OnlyLooks(Script)
         /\ job.prog = "alias" => Script = ram_alias_test
         /\ job.prog = "addr_lo" => Script = ram_addr_lo_test /\ Compares(Script, foreground)
         /\ job.prog = "addr_hi" => Script = ram_addr_hi_test /\ Compares(Script, background)
<1>1. job.prog \in Patterned \union Address \union Register \union {"cache", "alias"}
  BY RamTestsAssumption
<1>2. /\ job.prog \in {"refresh", "sa_refresh"} => Script = refresh_test(pg.v)
      /\ job.prog \in {"readback", "sa_integrity"} => Script = readback_test(pg.v)
      /\ job.prog \in {"cache", "sa_cache"} => Script = cache_fill_test
      /\ job.prog = "alias" => Script = ram_alias_test
      /\ job.prog = "addr_lo" => Script = ram_addr_lo_test
      /\ job.prog = "addr_hi" => Script = ram_addr_hi_test
      /\ job.prog \in Register => Script = Regs
  BY DEF Script, sa_refresh_test, integrity_test, sa_cache_fill_test, Register
<1>3. CASE job.prog \in {"refresh", "sa_refresh"}
  <2>1. /\ ReadsWritten(Script) /\ AtUp(Script) /\ WrittenRead(Script, pg.v)
        /\ \A n \in 1 .. Accesses : Script[Accesses + n] = R(Up[n], pg.v)
    BY <1>2, <1>3, RefreshReads
  <2>2. \A n \in 1 .. Accesses : Accesses + n \in 1 .. Len(Script)
    BY <1>2, <1>3, RefreshIs, AccessesAreCount
  <2>3. Len(Script) \in Nat
    BY <1>2, <1>3, RefreshIs, AccessesAreCount
  <2>4. QED
    BY <1>3, <2>1, <2>2, <2>3
<1>4. CASE job.prog \in {"readback", "sa_integrity"}
  <2>1. /\ ReadsWritten(Script) /\ AtUp(Script) /\ WrittenRead(Script, pg.v)
        /\ \A n \in 1 .. Accesses : Script[2 * n] = R(Up[n], pg.v)
    BY <1>2, <1>4, ReadbackReads
  <2>2. \A n \in 1 .. Accesses : 2 * n \in 1 .. Len(Script)
    BY <1>2, <1>4, ReadbackIs, AccessesAreCount
  <2>3. Len(Script) \in Nat
    BY <1>2, <1>4, ReadbackIs, AccessesAreCount
  <2>4. QED
    BY <1>4, <2>1, <2>2, <2>3
<1>5. CASE job.prog \in {"cache", "sa_cache"}
  <2>1. Len(cache_fill_test) \in Nat
    BY AccessesAreCount, UpIs DEF cache_fill_test
  <2>2. QED
    BY <1>2, <1>5, <2>1, LookReads
<1>6. CASE job.prog = "alias"
  <2>1. Len(ram_alias_test) \in Nat
    BY <1>6, AliasIs
  <2>2. QED
    BY <1>2, <1>6, <2>1, AliasReads
<1>7. CASE job.prog = "reg_rw"
  <2>1. PutsBack(Script) /\ \A r \in Tested : Tries(Script, r)
    BY <1>2, <1>7, RegsIs DEF Register
  <2>2. ReadsWritten(Script)
    <3> SUFFICES ASSUME NEW i \in 1 .. Len(Script)
                 PROVE  /\ Script[i].op \in {"write", "is", "look", "keep", "back"}
                        /\ Script[i].op = "is" =>
                             \E j : LastWrite(Script, i, Script[i].a, j) /\ Script[j].v = Script[i].v
      BY DEF ReadsWritten
    <3>1. /\ Script[i].op \in {"write", "is", "keep", "back"} /\ Len(Script) \in Nat
          /\ Script[i].op = "is" => /\ i - 1 \in 1 .. Len(Script) /\ Script[i - 1].op = "write"
                                    /\ Script[i - 1].a = Script[i].a
                                    /\ Script[i - 1].v = Script[i].v
      BY <2>1 DEF PutsBack
    <3>2. ASSUME i - 1 \in 1 .. Len(Script)
          PROVE  i - 1 \in 1 .. i - 1 /\ (i - 1) + 1 .. i - 1 = {}
      BY <3>2
    <3>3. QED
      BY <3>1, <3>2 DEF LastWrite
  <2>3. QED
    BY <1>7, <2>1, <2>2 DEF PutsBack
<1>8. CASE job.prog = "reg_ro"
  <2>1. OnlyLooks(Script)
    BY <1>2, <1>8, RegsIs DEF Register
  <2>2. QED
    BY <1>8, <2>1 DEF OnlyLooks
<1>9. CASE job.prog = "reg_wo"
  <2>1. OnlyWrites(Script)
    BY <1>2, <1>9, RegsIs DEF Register
  <2>2. QED
    BY <1>9, <2>1 DEF OnlyWrites, ReadsWritten
<1>10. CASE job.prog = "addr_lo"
  <2>1. Script = ram_addr_lo_test /\ Compares(Script, foreground)
    BY <1>2, <1>10, LoCompares DEF Address
  <2>2. Len(Script) \in Nat
    BY <1>10, <2>1, AddrLoIs, LocIs DEF Address
  <2>3. QED
    BY <1>10, <2>1, <2>2 DEF Address
<1>11. CASE job.prog = "addr_hi"
  <2>1. Script = ram_addr_hi_test /\ Compares(Script, background)
    BY <1>2, <1>11, HiCompares DEF Address
  <2>2. Len(Script) \in Nat
    BY <1>11, <2>1, AddrHiIs, LocIs DEF Address
  <2>3. QED
    BY <1>11, <2>1, <2>2 DEF Address
<1>12. QED
  BY <1>1, <1>3, <1>4, <1>5, <1>6, <1>7, <1>8, <1>9, <1>10, <1>11
     DEF Patterned, Register, Address

(* The accesses of a pass are those of the arguments and the pattern.      *)
LEMMA SameScript ==
  ASSUME job' = job, pg' = pg
  PROVE  Script' = Script
<1>1. w' = w /\ Count' = Count /\ job.memory' = job.memory
  BY DEF w, Count, Bytes
<1>2. Accesses' = Accesses
  BY <1>1 DEF Accesses, Entered, overrun
<1>3. Up' = Up
  BY <1>2 DEF Up
<1>4. \A v : refresh_test(v)' = refresh_test(v) /\ readback_test(v)' = readback_test(v)
  BY <1>2, <1>3 DEF refresh_test, FillAll, RAM_FIND, FindAll, readback_test
<1>5. cache_fill_test' = cache_fill_test /\ ram_alias_test' = ram_alias_test
  BY <1>1, <1>3 DEF cache_fill_test, ram_alias_test, Find, FillAll
<1>6. Regs' = Regs
  <2>1. \A r : WriteRead(r, job.mask)' = WriteRead(r, job.mask)
    BY <1>1 DEF WriteRead
  <2>2. QED
    BY <1>1, <2>1 DEF Regs, RegTest, reg_rw_test, reg_ro_test, reg_wo_test
<1>7. refresh_test(pg.v)' = refresh_test(pg.v) /\ readback_test(pg.v)' = readback_test(pg.v)
  BY <1>4
<1>8. ram_addr_lo_test' = ram_addr_lo_test /\ ram_addr_hi_test' = ram_addr_hi_test
  <2>1. start' = start
    BY <1>1 DEF start
  <2>2. stop' = stop
    BY <1>1, <2>1 DEF stop, memend
  <2>3. \A p : Location(p)' = Location(p)
    BY <2>1 DEF Location
  <2>4. Masks' = Masks
    BY <2>2, <2>3, <2>1 DEF Masks, Masked
  <2>5. background' = background /\ foreground' = foreground
    BY <1>1 DEF background, foreground
  <2>6. QED
    BY <2>1, <2>3, <2>4, <2>5 DEF ram_addr_lo_test, ram_addr_hi_test, Base
<1>9. QED
  BY <1>5, <1>6, <1>7, <1>8 DEF Script, sa_refresh_test, integrity_test, sa_cache_fill_test

-----------------------------------------------------------------------------
(* Of the regions: an access is to a cell of the loops.                    *)
RegionInv ==
  job.prog \in {"refresh", "readback", "cache", "alias"} /\ Count > 0 =>
    touched \subseteq Region

(* Of the memory: a cell holds what was written to it last, at whatever    *)
(* address, as long as no bit of it turns over.                            *)
LastIn(S, i, c, j) ==
  /\ j \in 1 .. i - 1 /\ S[j].op = "write" /\ Cell(S[j].a) = c
  /\ \A n \in j + 1 .. i - 1 : S[n].op \in {"write", "back"} => Cell(S[n].a) # c

Steady == ~(fault.kind = "none" /\ job.flips)

MemoryInv ==
  Steady /\ result = "run" =>
    \A c, j : LastIn(Script, k, c, j) => Stored(mem, c) = Wired(Script[j].v)

(* Of a memory without a fault: nothing has failed. A register that is     *)
(* only read is never written, so what was kept is what it always held, and*)
(* neither is the location 0 of the address tests.                         *)
Quiet == fault.kind = "none" /\ ~job.flips /\ ~Refused(job) /\ ~StaleZero

QuietInv ==
  Quiet => /\ result # "failed" /\ ~fails
           /\ job.prog = "reg_ro" => mem = <<>> /\ (k > 1 => held = job.old)
           /\ job.prog \in Address => 0 \notin DOMAIN mem

(* Of a register: its contents are elsewhere only between the access that  *)
(* keeps them and the one that puts them back, and then they are held.     *)
AsBefore(a) == Content(mem, a) = Content(<<>>, a)

Borrowed == result = "run" /\ k <= Len(Script) /\ Script[k].op # "keep"

RestoreInv ==
  job.prog = "reg_rw" /\ fault.kind # "data" =>
    IF Borrowed
      THEN LET r == Script[k].a
           IN  /\ held = Content(<<>>, r)
               /\ \A a : Cell(a) # Cell(r) => AsBefore(a)
      ELSE \A a : AsBefore(a)

(* Of a bit that turns over: a cell that was written is going to be read   *)
(* before anything else is done there, and until then it holds the pattern,*)
(* or one that was to hold it does not.                                    *)
Pending(a) ==
  \E r \in k .. Len(Script) : /\ Script[r].op = "is" /\ Script[r].a = a
                              /\ \A n \in k .. r - 1 : Script[n].a # a

LostInv ==
  /\ lost => job.flips /\ fault.kind = "none"
  /\ result = "passed" => ~lost
  /\ job.flips /\ fault.kind = "none" /\ result = "run" =>
       /\ \A a \in fresh : Pending(a)
       /\ ~lost => \A a \in fresh : Stored(mem, a) = pg.v
       /\ lost => \E a \in fresh : Stored(mem, a) # pg.v

(* Of a bad bit: no pattern that was tried could show it.                  *)
Reveals(v) ==
  \/ fault.kind = "stuck0" /\ fault.x \in v
  \/ fault.kind = "stuck1" /\ fault.x \notin v
  \/ fault.kind = "data" /\ (fault.x \in v) # (fault.y \in v)

ReadAt(i) == Script[i].op = "is" /\ (fault.kind # "data" => Script[i].a = fault.cell)

DataInv ==
  DataFault =>
    /\ result # "passed"
    /\ result = "run" => /\ \A n \in 1 .. pg.n : ~Reveals(Ham(w)[n])
                         /\ \A i \in 1 .. k - 1 : ReadAt(i) => ~Reveals(pg.v)

-----------------------------------------------------------------------------
(* What a write does to the memory.                                        *)
LEMMA PutIs ==
  ASSUME NEW m, NEW c, NEW u, NEW d
  PROVE  Stored(Put(m, c, u), d) = IF d = c THEN u ELSE Stored(m, d)
BY DEF Stored, Put

LEMMA Written ==
  ASSUME NEW a, NEW v, NEW d
  PROVE  Stored(Write(a, v), d) = IF d = Cell(a) THEN Wired(v) ELSE Stored(mem, d)
BY PutIs DEF Write

(* The types.                                                              *)
LEMMA InitTyped == Init => TypeInv
<1> SUFFICES ASSUME Init PROVE TypeInv
  OBVIOUS
<1>1. PatternInv
  <2>1. PICK junk \in Junk, rand \in Rand :
          pg = spatgen(w, junk \intersect All(w), mod, rand \intersect All(w))
    BY DEF Init, mod
  <2>2. QED
    BY <2>1, FirstPattern DEF Init
<1>2. JobInv
  BY DEF Init, JobInv, Refusal
<1>3. QED
  BY <1>1, <1>2 DEF TypeInv

LEMMA StepTyped == TypeInv /\ [Next]_vars => TypeInv'
<1> SUFFICES ASSUME TypeInv, [Next]_vars PROVE TypeInv'
  OBVIOUS
<1>0. JobInv /\ PatternInv
  BY DEF TypeInv
<1>1. job' = job /\ fault' = fault
  BY DEF Next, Step, Access, NextPattern, Flip, vars
<1>2. w' = w /\ mod' = mod
  BY <1>1 DEF w, mod
<1>3. ASSUME UNCHANGED pg, result' = "run" => result = "run" PROVE PatternInv'
  BY <1>0, <1>2, <1>3 DEF PatternInv, PValue
<1>4. CASE Step
  <2>1. UNCHANGED pg /\ result = "run" /\ result' \in {"run", "failed"} /\ k' \in {k, k + 1}
        /\ fails' \in BOOLEAN
    BY <1>0, <1>4 DEF Step, Access, JobInv
  <2>2. JobInv'
    BY <1>0, <1>1, <2>1 DEF JobInv
  <2>3. QED
    BY <1>3, <2>1, <2>2 DEF TypeInv
<1>5. CASE NextPattern
  <2>1. result = "run" /\ fails' = fails
    BY <1>5 DEF NextPattern
  <2>2. CASE job.prog \in Patterned
    <3>1. PICK rand \in Rand : pg' = patgen(pg, Zero, mod, rand \intersect All(w))
      BY <1>5, <2>2 DEF NextPattern, mod
    <3>2. k' = 1 /\ result' = (IF pg'.end THEN "passed" ELSE "run")
      BY <1>5, <2>2 DEF NextPattern
    <3>3. JobInv'
      BY <1>0, <1>1, <2>1, <3>2 DEF JobInv
    <3>4. /\ PValue(pg')
          /\ mod \in Listed => /\ pg'.n < Len(Values(w, mod))
                               /\ w # 64 => pg'.v = Values(w, mod)[pg'.n + 1]
      BY <2>1, <3>1, PatternStep
    <3>5. PatternInv'
      BY <1>2, <3>2, <3>4 DEF PatternInv, PValue
    <3>6. QED
      BY <3>3, <3>5 DEF TypeInv
  <2>3. CASE job.prog \notin Patterned
    <3>1. result' = "passed" /\ UNCHANGED << pg, k >>
      BY <1>5, <2>3 DEF NextPattern
    <3>2. JobInv'
      BY <1>0, <1>1, <2>1, <3>1 DEF JobInv
    <3>3. QED
      BY <1>3, <3>1, <3>2 DEF TypeInv
  <2>4. QED
    BY <2>2, <2>3
<1>6. CASE UNCHANGED << job, fault, pg, k, result, fails >>
  BY <1>0, <1>1, <1>3, <1>6 DEF TypeInv, JobInv
<1>7. QED
  BY <1>4, <1>5, <1>6 DEF Next, Flip, vars

(* The parts of an access that the invariants turn on.                     *)
LEMMA AccessIs ==
  ASSUME TypeInv, Step
  PROVE  LET t == Script[k]
         IN  /\ result = "run" /\ k \in 1 .. Len(Script) /\ k \in Nat \ {0}
             /\ UNCHANGED << job, fault, pg, lost, w >> /\ Script' = Script
             /\ touched' = touched \union {t.a}
             /\ fresh' = IF t.op = "write" THEN fresh \union {t.a} ELSE fresh \ {t.a}
             /\ held' = IF t.op = "keep" THEN Read(t.a) ELSE held
             /\ \/ /\ Failing(t, Read(t.a)) /\ ~OnlyCounted
                   /\ result' = "failed" /\ mem' = AtFailure(t.a) /\ k' = k /\ fails' = fails
                \/ /\ ~Failing(t, Read(t.a)) \/ OnlyCounted
                   /\ result' = "run" /\ mem' = After(t) /\ k' = k + 1
                   /\ fails' = (fails \/ Failing(t, Read(t.a)))
<1>1. /\ result = "run" /\ k <= Len(Script)
      /\ UNCHANGED << job, fault, pg, lost >> /\ job \in Jobs /\ k \in Nat \ {0}
  BY DEF Step, Access, TypeInv, JobInv
<1>2. k \in 1 .. Len(Script)
  BY <1>1, Scripts
<1>3. Access(Script[k], Read(Script[k].a))
  BY DEF Step
<1>4. Script' = Script
  BY <1>1, SameScript
<1>5. w' = w
  BY <1>1 DEF w
<1>6. QED
  BY <1>1, <1>2, <1>3, <1>4, <1>5 DEF Access

(* A pass that is over and what a step that is no access leaves.           *)
LEMMA PassIs ==
  ASSUME TypeInv, NextPattern
  PROVE  /\ result = "run" /\ k > Len(Script)
         /\ UNCHANGED << job, fault, mem, held, fails, touched, fresh, lost, w >>
         /\ job.prog \in Patterned =>
              /\ k' = 1 /\ result' = (IF pg'.end THEN "passed" ELSE "run")
              /\ \E rand \in Rand : pg' = patgen(pg, Zero, mod, rand \intersect All(w))
         /\ job.prog \notin Patterned => result' = "passed" /\ UNCHANGED << pg, k >>
BY DEF NextPattern, w, mod

LEMMA Arguments == [Next]_vars => UNCHANGED << job, fault, w, mod >>
BY DEF Next, Step, Access, NextPattern, Flip, vars, w, mod

-----------------------------------------------------------------------------
(* The programs stay in their region.                                      *)
LEMMA StepRegion == TypeInv /\ RegionInv /\ [Next]_vars => RegionInv'
<1> SUFFICES ASSUME TypeInv, RegionInv, [Next]_vars PROVE RegionInv'
  OBVIOUS
<1>1. UNCHANGED << job, Count, Region >>
  BY DEF Next, Step, Access, NextPattern, Flip, vars, Count, Bytes, Region, w
<1>2. SUFFICES ASSUME job.prog \in {"refresh", "readback", "cache", "alias"}, Count > 0
               PROVE  touched' \subseteq Region
  BY <1>1 DEF RegionInv
<1>3. touched \subseteq Region
  BY <1>2 DEF RegionInv
<1>4. CASE Step
  <2> DEFINE t == Script[k]
  <2>1. job \in Jobs /\ job.prog \notin Address /\ job.prog \notin Sa
    BY <1>2 DEF TypeInv, JobInv, Address, Sa
  <2>2. k \in 1 .. Len(Script) /\ touched' = touched \union {t.a}
    BY <1>4, <2>1, AccessIs
  <2>3. PICK n \in 1 .. Accesses : t.a = Up[n]
    BY <1>2, <2>1, <2>2, Scripts DEF AtUp
  <2>4. Accesses = Count /\ Count \in Nat /\ job.memory \in Nat
    BY <1>2, <2>1, AccessesAreCount, JobType
  <2>5. t.a = job.memory + n - 1
    BY <2>1, <2>3, UpIs
  <2>6. t.a \in Region
    BY <2>3, <2>4, <2>5 DEF Region
  <2>7. QED
    BY <1>3, <2>2, <2>6
<1>5. CASE UNCHANGED touched
  BY <1>3, <1>5
<1>6. QED
  BY <1>4, <1>5 DEF Next, NextPattern, Flip, vars

-----------------------------------------------------------------------------
(* The memory holds what was written.                                      *)
LEMMA OwnCell ==
  ASSUME ~LineFault, NEW a
  PROVE  Cell(a) = a
BY DEF LineFault, Cell

LEMMA LastOwn ==
  ASSUME ~LineFault, NEW S, NEW i, NEW a, NEW j, LastWrite(S, i, a, j)
  PROVE  LastIn(S, i, a, j)
BY OwnCell DEF LastWrite, LastIn

LEMMA StepMemory == TypeInv /\ MemoryInv /\ [Next]_vars => MemoryInv'
<1> SUFFICES ASSUME TypeInv, MemoryInv, [Next]_vars PROVE MemoryInv'
  OBVIOUS
<1>0. UNCHANGED << job, fault >> /\ \A a : Cell(a)' = Cell(a)
  BY Arguments DEF Cell, Differ
<1> SUFFICES ASSUME Steady, result' = "run", NEW c, NEW j, LastIn(Script', k', c, j)
             PROVE  (Stored(mem, c) = Wired(Script[j].v))'
  <2>1. Steady' = Steady
    BY <1>0 DEF Steady
  <2>2. \A c, j : LastIn(Script, k, c, j)' => LastIn(Script', k', c, j)
    BY <1>0 DEF LastIn, Cell, Differ
  <2>3. QED
    BY <2>1, <2>2 DEF MemoryInv
<1>1. CASE Step
  <2> DEFINE t == Script[k]
  <2>1. /\ UNCHANGED << job, fault >> /\ Script' = Script /\ k' = k + 1 /\ mem' = After(t)
        /\ k \in Nat \ {0} /\ result = "run"
    BY <1>1, AccessIs
  <2>2. (Stored(mem, c))' = Stored(mem', c) /\ (Wired(Script[j].v))' = Wired(Script[j].v)
    BY <2>1 DEF Stored, Wired
  <2>3. /\ j \in 1 .. k /\ Script[j].op = "write" /\ Cell(Script[j].a) = c
        /\ \A n \in j + 1 .. k : Script[n].op \in {"write", "back"} => Cell(Script[n].a) # c
    BY <2>1 DEF LastIn
  <2>4. CASE j = k
    BY <2>1, <2>2, <2>3, <2>4, Written DEF After
  <2>5. CASE j # k
    <3>1. LastIn(Script, k, c, j)
      BY <2>1, <2>3, <2>5 DEF LastIn
    <3>2. Stored(mem, c) = Wired(Script[j].v)
      BY <2>1, <3>1 DEF MemoryInv
    <3>3. t.op \in {"write", "back"} => Cell(t.a) # c
      BY <2>1, <2>3, <2>5
    <3>4. Stored(mem', c) = Stored(mem, c)
      BY <2>1, <3>3, Written DEF After
    <3>5. QED
      BY <2>2, <3>2, <3>4
  <2>6. QED
    BY <2>4, <2>5
<1>2. CASE NextPattern
  <2>1. CASE job.prog \in Patterned
    <3>1. k' = 1
      BY <1>2, <2>1, PassIs
    <3>2. QED
      BY <3>1 DEF LastIn
  <2>2. CASE job.prog \notin Patterned
    BY <1>2, <2>2, PassIs
  <2>3. QED
    BY <2>1, <2>2
<1>3. CASE \E b \in Region : Flip(b)
  <2>1. job.flips /\ fault.kind = "none"
    BY <1>3 DEF Flip
  <2>2. QED
    BY <2>1 DEF Steady
<1>4. CASE UNCHANGED vars
  <2>1. UNCHANGED << job, fault, mem, k, result >> /\ Script' = Script
    BY <1>4, SameScript DEF vars
  <2>2. (Stored(mem, c))' = Stored(mem, c) /\ (Wired(Script[j].v))' = Wired(Script[j].v)
    BY <2>1 DEF Stored, Wired
  <2>3. LastIn(Script, k, c, j)
    BY <2>1
  <2>4. QED
    BY <2>1, <2>2, <2>3 DEF MemoryInv
<1>5. QED
  BY <1>1, <1>2, <1>3, <1>4 DEF Next

-----------------------------------------------------------------------------
(* A memory without a fault.                                               *)
LEMMA QuietContent ==
  ASSUME fault.kind = "none", NEW m, NEW a
  PROVE  Content(m, a) = Stored(m, a) /\ Cell(a) = a /\ Wired(a) = a
BY DEF Content, Cell, Wired

LEMMA StepQuiet == TypeInv /\ MemoryInv /\ QuietInv /\ [Next]_vars => QuietInv'
<1> SUFFICES ASSUME TypeInv, MemoryInv, QuietInv, [Next]_vars PROVE QuietInv'
  OBVIOUS
<1>0. UNCHANGED << job, fault, w >>
  BY Arguments
<1> SUFFICES ASSUME Quiet
             PROVE  /\ result' # "failed" /\ ~fails'
                    /\ job.prog = "reg_ro" => mem' = <<>> /\ (k' > 1 => held' = job.old)
                    /\ job.prog \in Address => 0 \notin DOMAIN mem'
  <2>1. Quiet' = Quiet
    BY <1>0 DEF Quiet, Refused, StaleZero, background, foreground
  <2>2. QED
    BY <1>0, <2>1 DEF QuietInv
<1>1. /\ fault.kind = "none" /\ ~job.flips /\ ~StaleZero /\ job \in Jobs
      /\ result # "failed" /\ ~fails
      /\ job.prog = "reg_ro" => mem = <<>> /\ (k > 1 => held = job.old)
      /\ job.prog \in Address => 0 \notin DOMAIN mem
      /\ "reg_ro" \notin Address /\ "reg_ro" \notin Patterned
  BY DEF Quiet, QuietInv, TypeInv, JobInv, Address, Patterned
<1>2. CASE Step
  <2> DEFINE t == Script[k]
  <2>1. /\ result = "run" /\ k \in 1 .. Len(Script) /\ k \in Nat \ {0}
        /\ held' = (IF t.op = "keep" THEN Read(t.a) ELSE held)
        /\ ~Failing(t, Read(t.a)) =>
             result' = "run" /\ mem' = After(t) /\ k' = k + 1 /\ ~fails'
    BY <1>1, <1>2, AccessIs
  <2>2. Read(t.a) = Stored(mem, t.a)
    BY <1>1, QuietContent DEF Read
  <2>3. ASSUME NEW j, LastWrite(Script, k, t.a, j), Script[j].v = t.v
        PROVE  Read(t.a) = t.v
    <3>1. Stored(mem, t.a) = Wired(Script[j].v)
      BY <1>1, <2>1, <2>3, LastOwn DEF MemoryInv, Steady, LineFault
    <3>2. QED
      BY <1>1, <2>2, <2>3, <3>1, QuietContent
  <2>4. CASE job.prog \notin Address \union {"reg_ro"}
    <3>1. /\ t.op \in {"write", "is", "look", "keep", "back"}
          /\ t.op = "is" => \E j : LastWrite(Script, k, t.a, j) /\ Script[j].v = t.v
      BY <1>1, <2>1, <2>4, Scripts DEF ReadsWritten
    <3>2. ~Failing(t, Read(t.a))
      BY <2>3, <3>1 DEF Failing
    <3>3. QED
      BY <2>1, <2>4, <3>2
  <2>5. CASE job.prog = "reg_ro"
    <3>1. /\ Script[1].op = "keep" /\ t.op \in {"keep", "same"}
      BY <1>1, <2>1, <2>5, Scripts DEF OnlyLooks
    <3>2. Read(t.a) = job.old
      BY <1>1, <2>2, <2>5 DEF Stored
    <3>3. t.op = "same" => k > 1 /\ held = job.old
      BY <1>1, <2>1, <2>5, <3>1
    <3>4. ~Failing(t, Read(t.a))
      BY <3>1, <3>2, <3>3 DEF Failing
    <3>5. mem' = mem
      BY <2>1, <3>1, <3>4 DEF After
    <3>6. held' = job.old
      BY <2>1, <3>1, <3>2, <3>3
    <3>7. QED
      BY <1>1, <2>1, <2>5, <3>4, <3>5, <3>6
  <2>6. CASE job.prog \in Address
    <3> DEFINE z == IF job.prog = "addr_lo" THEN foreground ELSE background
    <3>1. Compares(Script, z) /\ job.old # z
      BY <1>1, <2>6, Scripts DEF StaleZero, Address
    <3> HIDE DEF z
    <3>2. /\ t.op \in {"write", "is", "is not"}
          /\ t.op = "write" => t.a # 0
          /\ t.op = "is not" => t.a = 0 /\ t.v = z
          /\ t.op = "is" => \E j : LastWrite(Script, k, t.a, j) /\ Script[j].v = t.v
      BY <2>1, <3>1 DEF Compares
    <3>3. Stored(mem, 0) = job.old
      BY <1>1, <2>6 DEF Stored
    <3>4. t.op = "is not" => Read(t.a) # t.v
      BY <2>2, <3>1, <3>2, <3>3
    <3>5. t.op = "is" => Read(t.a) = t.v
      BY <2>3, <3>2
    <3>6. ~Failing(t, Read(t.a))
      BY <3>2, <3>4, <3>5 DEF Failing
    <3>7. 0 \notin DOMAIN mem'
      <4>1. Cell(t.a) = t.a
        BY <1>1, QuietContent
      <4>2. mem' = mem \/ (t.a # 0 /\ mem' = Put(mem, t.a, Wired(t.v)))
        BY <2>1, <3>2, <3>6, <4>1 DEF After, Write
      <4>3. QED
        BY <1>1, <2>6, <4>2 DEF Put
    <3>8. QED
      BY <1>1, <2>1, <2>6, <3>6, <3>7
  <2>7. QED
    BY <2>4, <2>5, <2>6
<1>3. CASE NextPattern
  BY <1>1, <1>3, PassIs
<1>4. CASE \E b \in Region : Flip(b)
  BY <1>1, <1>4 DEF Flip
<1>5. CASE UNCHANGED vars
  BY <1>1, <1>5 DEF vars
<1>6. QED
  BY <1>2, <1>3, <1>4, <1>5 DEF Next

-----------------------------------------------------------------------------
(* The read-write test of a register. Contents are read through the fault, *)
(* so that what is put back reads as what was kept.                        *)
LEMMA Undisturbed ==
  ASSUME fault.kind # "data", NEW a, NEW v, NEW b, Cell(b) # Cell(a)
  PROVE  Content(Write(a, v), b) = Content(mem, b)
<1>1. Stored(Write(a, v), Cell(b)) = Stored(mem, Cell(b))
  BY Written
<1>2. QED
  BY <1>1 DEF Content

LEMMA PutBack ==
  ASSUME fault.kind # "data", NEW a, NEW b, Cell(b) = Cell(a)
  PROVE  Content(Write(a, Content(<<>>, a)), b) = Content(<<>>, b)
<1> DEFINE u == Content(<<>>, a)
           o == Stored(<<>>, Cell(a))
<1>1. Stored(Write(a, u), Cell(b)) = u
  BY Written DEF Wired
<1>2. CASE fault.kind = "stuck0" /\ Cell(a) = fault.cell
  <2>1. u = o \ {fault.x}
    BY <1>2 DEF Content
  <2>2. Content(Write(a, u), b) = Stored(Write(a, u), Cell(b)) \ {fault.x}
        /\ Content(<<>>, b) = Stored(<<>>, Cell(b)) \ {fault.x}
    BY <1>2 DEF Content
  <2>3. u \ {fault.x} = u
    BY <2>1
  <2>4. QED
    BY <1>1, <2>1, <2>2, <2>3
<1>3. CASE fault.kind = "stuck1" /\ Cell(a) = fault.cell
  <2>1. u = o \union {fault.x}
    BY <1>3 DEF Content
  <2>2. Content(Write(a, u), b) = Stored(Write(a, u), Cell(b)) \union {fault.x}
        /\ Content(<<>>, b) = Stored(<<>>, Cell(b)) \union {fault.x}
    BY <1>3 DEF Content
  <2>3. u \union {fault.x} = u
    BY <2>1
  <2>4. QED
    BY <1>1, <2>1, <2>2, <2>3
<1>4. CASE ~(fault.kind \in {"stuck0", "stuck1"} /\ Cell(a) = fault.cell)
  <2>1. u = o /\ Content(<<>>, b) = o /\ Content(Write(a, u), b) = Stored(Write(a, u), Cell(b))
    BY <1>4 DEF Content
  <2>2. QED
    BY <1>1, <2>1
<1>5. QED
  BY <1>2, <1>3, <1>4

LEMMA AllBack ==
  ASSUME fault.kind # "data", NEW a, held = Content(<<>>, a),
         \A b : Cell(b) # Cell(a) => AsBefore(b), NEW b
  PROVE  Content(Write(a, held), b) = Content(<<>>, b)
<1>1. CASE Cell(b) = Cell(a)
  BY <1>1, PutBack
<1>2. CASE Cell(b) # Cell(a)
  BY <1>2, Undisturbed DEF AsBefore
<1>3. QED
  BY <1>1, <1>2

LEMMA StepRestore == TypeInv /\ RestoreInv /\ [Next]_vars => RestoreInv'
<1> SUFFICES ASSUME TypeInv, RestoreInv, [Next]_vars PROVE RestoreInv'
  OBVIOUS
<1>0. UNCHANGED << job, fault >>
  BY Arguments
<1> DEFINE Kept(m, h, r) ==
             /\ h = Content(<<>>, r)
             /\ \A b : Cell(b) # Cell(r) => Content(m, b) = Content(<<>>, b)
           Untouched(m) == \A b : Content(m, b) = Content(<<>>, b)
<1> SUFFICES ASSUME job.prog = "reg_rw", fault.kind # "data"
             PROVE  IF Borrowed' THEN Kept(mem', held', Script'[k'].a) ELSE Untouched(mem')
  <2>1. /\ (\A a : AsBefore(a))' <=> Untouched(mem')
        /\ (held = Content(<<>>, Script[k].a))' <=> held' = Content(<<>>, Script'[k'].a)
    BY <1>0 DEF AsBefore, Content, Stored, Cell, Differ
  <2>2. (\A a : Cell(a) # Cell(Script[k].a) => AsBefore(a))'
          <=> \A a : Cell(a) # Cell(Script'[k'].a) => Content(mem', a) = Content(<<>>, a)
    BY <1>0 DEF AsBefore, Content, Stored, Cell, Differ
  <2>3. QED
    BY <1>0, <2>1, <2>2 DEF RestoreInv
<1>1. /\ job.prog \notin Address /\ job.prog \notin Patterned /\ job \in Jobs /\ ~job.flips
      /\ ~OnlyCounted
  BY RamTestsAssumption DEF TypeInv, JobInv, Address, Patterned, OnlyCounted, Sa
<1>2. PutsBack(Script)
  BY <1>1, Scripts
<1>3. IF Borrowed THEN Kept(mem, held, Script[k].a) ELSE Untouched(mem)
  BY DEF RestoreInv, AsBefore
<1>4. CASE Step
  <2> DEFINE t == Script[k]
  <2>1. /\ result = "run" /\ k \in 1 .. Len(Script) /\ k \in Nat \ {0} /\ Script' = Script
        /\ held' = (IF t.op = "keep" THEN Read(t.a) ELSE held)
        /\ \/ /\ Failing(t, Read(t.a))
              /\ result' = "failed" /\ mem' = AtFailure(t.a) /\ k' = k
           \/ /\ ~Failing(t, Read(t.a))
              /\ result' = "run" /\ mem' = After(t) /\ k' = k + 1
    BY <1>1, <1>4, AccessIs
  <2>2. /\ Len(Script) \in Nat \ {0} /\ Script[Len(Script)].op = "back"
        /\ t.op \in {"keep", "write", "is", "back"}
        /\ t.op = "back" => k = Len(Script) \/ Script[k + 1].op = "keep"
        /\ t.op # "back" =>
             k + 1 \in 1 .. Len(Script) /\ Script[k + 1].a = t.a /\ Script[k + 1].op # "keep"
    BY <1>2, <2>1 DEF PutsBack
  <2>3. Borrowed' <=> result' = "run" /\ k' <= Len(Script) /\ Script[k'].op # "keep"
    BY <2>1 DEF Borrowed
  <2>4. CASE t.op = "keep"
    <3>1. Untouched(mem) /\ ~Failing(t, Read(t.a)) /\ After(t) = mem
      BY <1>3, <2>4 DEF Borrowed, Failing, After
    <3>2. mem' = mem /\ k' = k + 1 /\ held' = Content(mem, t.a) /\ result' = "run" /\ Borrowed'
      BY <2>1, <2>2, <2>3, <2>4, <3>1 DEF Read
    <3>3. held' = Content(<<>>, t.a)
      BY <3>1, <3>2
    <3>4. QED
      BY <2>1, <2>2, <2>4, <3>1, <3>2, <3>3
  <2>5. CASE t.op # "keep"
    <3>1. Borrowed /\ Kept(mem, held, t.a) /\ held' = held
      BY <1>3, <2>1, <2>5 DEF Borrowed
    <3>2. Untouched(Write(t.a, held))
      BY <3>1, AllBack DEF AsBefore
    <3>3. CASE Failing(t, Read(t.a))
      <4>1. mem' = Write(t.a, held) /\ ~Borrowed'
        BY <2>1, <2>3, <3>3 DEF AtFailure
      <4>2. QED
        BY <3>2, <4>1
    <3>4. CASE ~Failing(t, Read(t.a)) /\ t.op = "back"
      <4>1. mem' = Write(t.a, held)
        BY <2>1, <3>4 DEF After
      <4>2. ~Borrowed'
        BY <2>1, <2>2, <2>3, <3>4
      <4>3. QED
        BY <3>2, <4>1, <4>2
    <3>5. CASE ~Failing(t, Read(t.a)) /\ t.op # "back"
      <4>1. Borrowed' /\ Script'[k'].a = t.a /\ mem' = After(t)
        BY <2>1, <2>2, <2>3, <3>5
      <4>2. mem' \in {mem, Write(t.a, t.v)}
        BY <3>5, <4>1 DEF After
      <4>3. \A b : Cell(b) # Cell(t.a) => Content(mem', b) = Content(mem, b)
        BY <4>2, Undisturbed
      <4>4. QED
        BY <3>1, <4>1, <4>3
    <3>6. QED
      BY <3>3, <3>4, <3>5
  <2>6. QED
    BY <2>4, <2>5
<1>5. CASE NextPattern
  <2>1. mem' = mem /\ result' = "passed" /\ k > Len(Script) /\ k \in Nat
    BY <1>1, <1>5, PassIs DEF TypeInv, JobInv
  <2>2. ~Borrowed /\ ~Borrowed'
    BY <1>2, <2>1 DEF Borrowed, PutsBack
  <2>3. QED
    BY <1>3, <2>1, <2>2
<1>6. CASE UNCHANGED vars
  <2>1. UNCHANGED << mem, held, k, result >> /\ Script' = Script
    BY <1>1, <1>6, SameScript DEF vars
  <2>2. Borrowed' = Borrowed
    BY <2>1 DEF Borrowed
  <2>3. QED
    BY <1>3, <2>1, <2>2
<1>7. QED
  BY <1>1, <1>4, <1>5, <1>6 DEF Next, Flip

-----------------------------------------------------------------------------
(* A bit that turns over. The read that is pending of a cell is the one    *)
(* that finds it, whatever the program does to other cells before.         *)
LEMMA Turned ==
  \A v : (IF 0 \in v THEN v \ {0} ELSE v \union {0}) # v
OBVIOUS

LEMMA StepLost == TypeInv /\ LostInv /\ [Next]_vars => LostInv'
<1> SUFFICES ASSUME TypeInv, LostInv, [Next]_vars PROVE LostInv'
  OBVIOUS
<1>0. UNCHANGED << job, fault >> /\ job \in Jobs /\ k \in Nat \ {0}
  BY Arguments DEF TypeInv, JobInv
<1> DEFINE Awaited(S, i, a) ==
             \E r \in i .. Len(S) : /\ S[r].op = "is" /\ S[r].a = a
                                    /\ \A n \in i .. r - 1 : S[n].a # a
           Good(f, l, m, p) == /\ ~l => \A a \in f : Stored(m, a) = p
                               /\ l => \E a \in f : Stored(m, a) # p
<1> SUFFICES /\ lost' => job.flips /\ fault.kind = "none"
             /\ result' = "passed" => ~lost'
             /\ job.flips /\ fault.kind = "none" /\ result' = "run" =>
                  /\ \A a \in fresh' : Awaited(Script', k', a)
                  /\ Good(fresh', lost', mem', pg'.v)
  <2>1. /\ \A a : Pending(a)' <=> Awaited(Script', k', a)
        /\ (/\ ~lost => \A a \in fresh : Stored(mem, a) = pg.v
            /\ lost => \E a \in fresh : Stored(mem, a) # pg.v)' <=> Good(fresh', lost', mem', pg'.v)
    BY <1>0 DEF Pending, Stored
  <2>2. QED
    BY <1>0, <2>1 DEF LostInv
<1>1. /\ lost => job.flips /\ fault.kind = "none"
      /\ result = "passed" => ~lost
      /\ job.flips /\ fault.kind = "none" /\ result = "run" =>
           (\A a \in fresh : Awaited(Script, k, a)) /\ Good(fresh, lost, mem, pg.v)
  BY DEF LostInv, Pending
<1>2. CASE ~(job.flips /\ fault.kind = "none")
  <2>1. ~lost
    BY <1>1, <1>2
  <2>2. UNCHANGED lost
    BY <1>2 DEF Next, Step, Access, NextPattern, Flip, vars
  <2>3. ~lost'
    BY <2>1, <2>2
  <2>4. QED
    BY <1>2, <2>3
<1>3. ASSUME job.flips, fault.kind = "none"
      PROVE  /\ result' = "passed" => ~lost'
             /\ result' = "run" => /\ \A a \in fresh' : Awaited(Script', k', a)
                                   /\ Good(fresh', lost', mem', pg'.v)
  <2>0. /\ job.prog \in {"refresh", "readback"} /\ job.prog \in Patterned
        /\ job.prog \notin Address
    BY <1>0, <1>3, RamTestsAssumption DEF Patterned, Address
  <2>1. WrittenRead(Script, pg.v) /\ Len(Script) \in Nat
    BY <1>0, <2>0, Scripts
  <2>2. CASE Step
    <3> DEFINE t == Script[k]
    <3>1. /\ result = "run" /\ k \in 1 .. Len(Script)
          /\ UNCHANGED << pg, lost >> /\ Script' = Script
          /\ fresh' = (IF t.op = "write" THEN fresh \union {t.a} ELSE fresh \ {t.a})
          /\ \/ result' = "failed"
             \/ /\ ~Failing(t, Read(t.a)) \/ OnlyCounted
                /\ result' = "run" /\ mem' = After(t) /\ k' = k + 1
      BY <2>0, <2>2, AccessIs
    <3>2. ~OnlyCounted
      BY <2>0 DEF OnlyCounted, Sa
    <3>3. CASE result' = "failed"
      BY <3>3
    <3>4. ASSUME result' = "run"
          PROVE  /\ \A a \in fresh' : Awaited(Script, k + 1, a)
                 /\ Good(fresh', lost, mem', pg.v)
      <4>1. ~Failing(t, Read(t.a)) /\ mem' = After(t)
        BY <3>1, <3>2, <3>4
      <4>2. (\A a \in fresh : Awaited(Script, k, a)) /\ Good(fresh, lost, mem, pg.v)
        BY <1>1, <1>3, <3>1
      <4>3. /\ t.op \in {"write", "is"} /\ t.v = pg.v
            /\ t.op = "write" => Awaited(Script, k + 1, t.a)
        <5>1. /\ t.op \in {"write", "is"} /\ t.v = pg.v
              /\ t.op = "write" =>
                   \E r \in k + 1 .. Len(Script) :
                     /\ Script[r].op = "is" /\ Script[r].a = t.a
                     /\ \A n \in k + 1 .. r - 1 : Script[n].a # t.a
          BY <2>1, <3>1 DEF WrittenRead
        <5>2. QED
          BY <5>1
      <4>4. ASSUME NEW a, Awaited(Script, k, a), a # t.a PROVE Awaited(Script, k + 1, a)
        <5>1. PICK r \in k .. Len(Script) : /\ Script[r].op = "is" /\ Script[r].a = a
                                           /\ \A n \in k .. r - 1 : Script[n].a # a
          BY <4>4
        <5>2. r # k
          BY <4>4, <5>1
        <5>3. r \in k + 1 .. Len(Script) /\ \A n \in k + 1 .. r - 1 : n \in k .. r - 1
          BY <1>0, <2>1, <5>1, <5>2
        <5>4. QED
          BY <5>1, <5>3
      <4>5. ASSUME t.op = "write", t.a \in fresh PROVE FALSE
        <5>1. PICK r \in k .. Len(Script) : /\ Script[r].op = "is" /\ Script[r].a = t.a
                                           /\ \A n \in k .. r - 1 : Script[n].a # t.a
          BY <4>2, <4>5
        <5>2. r # k
          BY <4>5, <5>1
        <5>3. k \in k .. r - 1
          BY <1>0, <2>1, <5>1, <5>2
        <5>4. QED
          BY <5>1, <5>3
      <4>6. \A a \in fresh' : Awaited(Script, k + 1, a)
        <5> TAKE a \in fresh'
        <5>1. CASE a = t.a
          BY <3>1, <4>3, <5>1
        <5>2. CASE a # t.a
          <6>1. a \in fresh
            BY <3>1, <5>2
          <6>2. Awaited(Script, k, a)
            BY <4>2, <6>1
          <6>3. QED
            BY <4>4, <5>2, <6>2
        <5>3. QED
          BY <5>1, <5>2
      <4> HIDE DEF Awaited
      <4>7. CASE t.op = "write"
        <5>1. \A a : Stored(mem', a) = IF a = t.a THEN pg.v ELSE Stored(mem, a)
          <6>1. mem' = Write(t.a, pg.v) /\ Cell(t.a) = t.a /\ Wired(pg.v) = pg.v
            BY <1>3, <4>1, <4>3, <4>7, QuietContent DEF After
          <6>2. QED
            BY <6>1, Written
        <5>2. fresh' = fresh \union {t.a} /\ t.a \notin fresh
          BY <3>1, <4>5, <4>7
        <5>3. Good(fresh', lost, mem', pg.v)
          BY <4>2, <5>1, <5>2
        <5>4. QED
          BY <4>6, <5>3
      <4>8. CASE t.op = "is"
        <5>1. mem' = mem /\ fresh' = fresh \ {t.a}
          BY <3>1, <4>1, <4>8 DEF After
        <5>2. Stored(mem, t.a) = pg.v
          BY <1>3, <4>1, <4>3, <4>8, QuietContent DEF Failing, Read
        <5>3. Good(fresh', lost, mem', pg.v)
          BY <4>2, <5>1, <5>2
        <5>4. QED
          BY <4>6, <5>3
      <4>9. QED
        BY <4>3, <4>7, <4>8
    <3>5. result' \in {"run", "failed"}
      BY <3>1
    <3> HIDE DEF Awaited, Good
    <3>6. QED
      BY <3>1, <3>3, <3>4, <3>5
  <2>3. CASE NextPattern
    <3>1. /\ result = "run" /\ k > Len(Script) /\ UNCHANGED << fresh, lost, mem >>
      BY <2>3, PassIs
    <3>2. (\A a \in fresh : Awaited(Script, k, a)) /\ Good(fresh, lost, mem, pg.v)
      BY <1>1, <1>3, <3>1
    <3>3. fresh = {}
      <4>1. k .. Len(Script) = {}
        BY <1>0, <2>1, <3>1
      <4>2. QED
        BY <3>2, <4>1
    <3>4. ~lost
      BY <3>2, <3>3
    <3>5. QED
      BY <3>1, <3>3, <3>4
  <2>4. ASSUME NEW b \in Region, Flip(b)
        PROVE  /\ result' = "run" /\ \A a \in fresh' : Awaited(Script', k', a)
               /\ Good(fresh', lost', mem', pg'.v)
    <3> DEFINE u == IF 0 \in Read(b) THEN Read(b) \ {0} ELSE Read(b) \union {0}
    <3>1. /\ result = "run" /\ ~lost /\ UNCHANGED << pg, k, fresh, result >>
          /\ mem' = Put(mem, b, u) /\ lost' = (b \in fresh)
      BY <2>4 DEF Flip
    <3>2. (\A a \in fresh : Awaited(Script, k, a)) /\ Good(fresh, lost, mem, pg.v)
      BY <1>1, <1>3, <3>1
    <3>3. Script' = Script
      BY <1>0, <2>0, <3>1, SameScript
    <3>4. u # Stored(mem, b)
      BY <1>3, QuietContent, Turned DEF Read
    <3> HIDE DEF u, Awaited
    <3>5. \A a : Stored(mem', a) = IF a = b THEN u ELSE Stored(mem, a)
      BY <3>1, PutIs
    <3>6. Good(fresh, lost', mem', pg.v)
      <4>1. \A a \in fresh : Stored(mem, a) = pg.v
        BY <3>1, <3>2
      <4>2. QED
        BY <3>1, <3>4, <3>5, <4>1
    <3>7. QED
      BY <3>1, <3>2, <3>3, <3>6
  <2>5. CASE UNCHANGED vars
    <3>1. UNCHANGED << pg, k, fresh, lost, mem, result >> /\ Script' = Script
      BY <1>0, <2>0, <2>5, SameScript DEF vars
    <3>2. QED
      BY <1>1, <1>3, <3>1
  <2> HIDE DEF Awaited, Good
  <2>6. QED
    BY <2>2, <2>3, <2>4, <2>5 DEF Next
<1> HIDE DEF Awaited, Good
<1>4. lost' => job.flips /\ fault.kind = "none"
  <2>1. UNCHANGED lost \/ (job.flips /\ fault.kind = "none")
    BY DEF Next, Step, Access, NextPattern, Flip, vars
  <2>2. QED
    BY <1>1, <2>1
<1>5. QED
  BY <1>2, <1>3, <1>4

-----------------------------------------------------------------------------
(* A bad bit. Two bits of a value differ in a digit of their numbers, and  *)
(* there is a pattern of stripes for every digit.                          *)
LEMMA Halving ==
  ASSUME NEW n \in Nat
  PROVE  /\ n \div 8 = 2 * (n \div 16) + ((n \div 8) % 2)
         /\ n \div 4 = 2 * (n \div 8) + ((n \div 4) % 2)
         /\ n \div 2 = 2 * (n \div 4) + ((n \div 2) % 2)
         /\ n \div 1 = 2 * (n \div 2) + ((n \div 1) % 2)
         /\ n \div 1 = n
<1>1. n \div 8 = 2 * (n \div 16) + ((n \div 8) % 2)
  OBVIOUS
<1>2. n \div 4 = 2 * (n \div 8) + ((n \div 4) % 2)
  OBVIOUS
<1>3. n \div 2 = 2 * (n \div 4) + ((n \div 2) % 2)
  OBVIOUS
<1>4. n \div 1 = n /\ n = 2 * (n \div 2) + (n % 2)
  OBVIOUS
<1>5. QED
  BY <1>1, <1>2, <1>3, <1>4

LEMMA StripesDiffer ==
  ASSUME NEW x \in {8, 16, 32}, NEW b \in All(x), NEW c \in All(x), b # c
  PROVE  \E i \in 1 .. Len(Halves[x]) :
           (b \in Stripes(x, Halves[x][i])) # (c \in Stripes(x, Halves[x][i]))
<1> SUFFICES ASSUME \A i \in 1 .. Len(Halves[x]) :
                      (b \in Stripes(x, Halves[x][i])) <=> (c \in Stripes(x, Halves[x][i]))
             PROVE  FALSE
  OBVIOUS
<1>1. ASSUME NEW d \in {1, 2, 4, 8, 16}, \E i \in 1 .. Len(Halves[x]) : Halves[x][i] = d
      PROVE  (b \div d) % 2 = (c \div d) % 2
  <2>1. (b \in Stripes(x, d)) <=> (c \in Stripes(x, d))
    BY <1>1
  <2>2. b \in Nat /\ c \in Nat
    BY DEF All
  <2>3. ((b \div d) % 2 = 1) <=> ((c \div d) % 2 = 1)
    BY <2>1 DEF Stripes
  <2>4. (b \div d) % 2 \in {0, 1} /\ (c \div d) % 2 \in {0, 1}
    BY <2>2
  <2>5. QED
    BY <2>3, <2>4
<1>2. CASE x = 8
  <2>1. Halves[x] = <<4, 2, 1>>
    BY <1>2 DEF Halves
  <2>2. Len(Halves[x]) = 3 /\ Halves[x][1] = 4 /\ Halves[x][2] = 2 /\ Halves[x][3] = 1
    BY <2>1
  <2>3. /\ (b \div 4) % 2 = (c \div 4) % 2 /\ (b \div 2) % 2 = (c \div 2) % 2
        /\ (b \div 1) % 2 = (c \div 1) % 2
    BY <1>1, <2>2
  <2>4. b \in Nat /\ c \in Nat /\ (b \div 4) % 2 = b \div 4 /\ (c \div 4) % 2 = c \div 4
    BY <1>2 DEF All
  <2>5. b \div 2 = c \div 2
    BY <2>3, <2>4, Halving
  <2>6. QED
    BY <2>3, <2>4, <2>5, Halving
<1>3. CASE x = 16
  <2>1. Halves[x] = <<8, 4, 2, 1>>
    BY <1>3 DEF Halves
  <2>2. /\ Len(Halves[x]) = 4 /\ Halves[x][1] = 8 /\ Halves[x][2] = 4 /\ Halves[x][3] = 2
        /\ Halves[x][4] = 1
    BY <2>1
  <2>3. /\ (b \div 8) % 2 = (c \div 8) % 2
        /\ (b \div 4) % 2 = (c \div 4) % 2 /\ (b \div 2) % 2 = (c \div 2) % 2
        /\ (b \div 1) % 2 = (c \div 1) % 2
    BY <1>1, <2>2
  <2>4. b \in Nat /\ c \in Nat /\ (b \div 8) % 2 = b \div 8 /\ (c \div 8) % 2 = c \div 8
    BY <1>3 DEF All
  <2>5. b \div 4 = c \div 4
    BY <2>3, <2>4, Halving
  <2>6. b \div 2 = c \div 2
    BY <2>3, <2>4, <2>5, Halving
  <2>7. QED
    BY <2>3, <2>4, <2>6, Halving
<1>4. CASE x = 32
  <2>1. Halves[x] = <<16, 8, 4, 2, 1>>
    BY <1>4 DEF Halves
  <2>2. /\ Len(Halves[x]) = 5 /\ Halves[x][1] = 16 /\ Halves[x][2] = 8 /\ Halves[x][3] = 4
        /\ Halves[x][4] = 2 /\ Halves[x][5] = 1
    BY <2>1
  <2>3. /\ (b \div 16) % 2 = (c \div 16) % 2 /\ (b \div 8) % 2 = (c \div 8) % 2
        /\ (b \div 4) % 2 = (c \div 4) % 2 /\ (b \div 2) % 2 = (c \div 2) % 2
        /\ (b \div 1) % 2 = (c \div 1) % 2
    BY <1>1, <2>2
  <2>4. b \in Nat /\ c \in Nat /\ (b \div 16) % 2 = b \div 16 /\ (c \div 16) % 2 = c \div 16
    BY <1>4 DEF All
  <2>5. b \div 8 = c \div 8
    BY <2>3, <2>4, Halving
  <2>6. b \div 4 = c \div 4
    BY <2>3, <2>4, <2>5, Halving
  <2>7. b \div 2 = c \div 2
    BY <2>3, <2>4, <2>6, Halving
  <2>8. QED
    BY <2>3, <2>4, <2>7, Halving
<1>5. QED
  BY <1>2, <1>3, <1>4

LEMMA FaultIs ==
  ASSUME TypeInv
  PROVE  /\ fault.kind \in {"stuck0", "stuck1"} => fault.x \in All(w)
         /\ fault.kind = "data" => fault.x \in All(w) /\ fault.y \in All(w) /\ fault.x # fault.y
<1>1. job.bits \subseteq All(w) /\ fault \in FaultsOf(job) /\ w \in {8, 16, 32, 64}
  BY RamTestsAssumption, JobType DEF TypeInv, JobInv, w
<1>2. fault.kind \in {"stuck0", "stuck1"} => fault.x \in job.bits
  BY <1>1 DEF FaultsOf
<1>3. fault.kind = "data" => fault.x \in job.bits /\ fault.y \in job.bits /\ fault.x < fault.y
  BY <1>1 DEF FaultsOf
<1>4. All(w) \subseteq Nat
  BY <1>1 DEF All
<1>5. QED
  BY <1>1, <1>2, <1>3, <1>4

LEMMA HamReveals ==
  ASSUME TypeInv, DataFault
  PROVE  /\ w \in {8, 16, 32} /\ mod = "ham" /\ Values(w, mod) = Ham(w)
         /\ Len(Ham(w)) \in Nat /\ \E n \in 1 .. Len(Ham(w)) : Reveals(Ham(w)[n])
<1>1. job.access \in {"char", "short", "long"} /\ job.type = "ham"
      /\ fault.kind \in {"stuck0", "stuck1", "data"}
  BY DEF DataFault
<1>2. w \in {8, 16, 32}
  BY <1>1 DEF w, WidthOf, Width
<1>3. mod = "ham" /\ Values(w, mod) = Ham(w)
  BY <1>1 DEF mod, modgen, Modifiers, Values
<1>4. LET h == Len(Halves[w])
      IN  /\ h \in Nat /\ Len(Ham(w)) = h + 3 /\ Ham(w)[1] = Zero /\ Ham(w)[2] = All(w)
          /\ \A i \in 1 .. h : Ham(w)[i + 2] = Stripes(w, Halves[w][i])
  BY <1>2, HamIs
<1>5. Len(Ham(w)) \in Nat /\ 1 \in 1 .. Len(Ham(w)) /\ 2 \in 1 .. Len(Ham(w))
      /\ \A i \in 1 .. Len(Halves[w]) : i + 2 \in 1 .. Len(Ham(w))
  BY <1>4
<1>6. CASE fault.kind = "stuck0"
  <2>1. Reveals(Ham(w)[2])
    BY <1>4, <1>6, FaultIs DEF Reveals
  <2>2. QED
    BY <1>2, <1>3, <1>5, <2>1
<1>7. CASE fault.kind = "stuck1"
  <2>1. Reveals(Ham(w)[1])
    BY <1>4, <1>7 DEF Reveals, Zero
  <2>2. QED
    BY <1>2, <1>3, <1>5, <2>1
<1>8. CASE fault.kind = "data"
  <2>1. PICK i \in 1 .. Len(Halves[w]) :
          (fault.x \in Stripes(w, Halves[w][i])) # (fault.y \in Stripes(w, Halves[w][i]))
    BY <1>2, <1>8, FaultIs, StripesDiffer
  <2>2. Reveals(Ham(w)[i + 2])
    BY <1>4, <1>8, <2>1 DEF Reveals
  <2>3. QED
    BY <1>2, <1>3, <1>5, <2>2
<1>9. QED
  BY <1>1, <1>6, <1>7, <1>8

(* A pattern that passes the access that would show a bad bit does not.    *)
LEMMA PassedReveals ==
  ASSUME fault.kind \in {"stuck0", "stuck1", "data"}, NEW v, NEW a,
         Stored(mem, a) = Wired(v), Read(a) = v, fault.kind # "data" => a = fault.cell
  PROVE  ~Reveals(v)
<1>1. Cell(a) = a
  BY DEF Cell
<1>2. CASE fault.kind = "stuck0"
  <2>1. v \ {fault.x} = v
    BY <1>1, <1>2 DEF Read, Content, Wired
  <2>2. QED
    BY <1>2, <2>1 DEF Reveals
<1>3. CASE fault.kind = "stuck1"
  <2>1. v \union {fault.x} = v
    BY <1>1, <1>3 DEF Read, Content, Wired
  <2>2. QED
    BY <1>3, <2>1 DEF Reveals
<1>4. CASE fault.kind = "data"
  <2>1. Wired(v) = v
    BY <1>1, <1>4 DEF Read, Content
  <2>2. {fault.x, fault.y} \subseteq v \/ v \ {fault.x, fault.y} = v
    BY <1>4, <2>1 DEF Wired
  <2>3. QED
    BY <1>4, <2>2 DEF Reveals
<1>5. QED
  BY <1>2, <1>3, <1>4

(* A whole pass has read the cell, so its pattern does not show the fault. *)
LEMMA PassReads ==
  ASSUME TypeInv, DataFault
  PROVE  \E i \in 1 .. Len(Script) : ReadAt(i)
<1>1. job \in Jobs /\ job.prog \in {"refresh", "readback"} /\ job.prog \notin Sa
  BY DEF DataFault, TypeInv, JobInv, Sa
<1>2. \A n \in 1 .. Accesses : \E i \in 1 .. Len(Script) : Script[i] = R(Up[n], pg.v)
  BY <1>1, Scripts
<1>3. ASSUME NEW n \in 1 .. Accesses, fault.kind # "data" => Up[n] = fault.cell
      PROVE  \E i \in 1 .. Len(Script) : ReadAt(i)
  <2>1. PICK i \in 1 .. Len(Script) : Script[i] = R(Up[n], pg.v)
    BY <1>2
  <2>2. Script[i].op = "is" /\ Script[i].a = Up[n]
    BY <2>1 DEF R
  <2>3. ReadAt(i)
    BY <1>3, <2>2 DEF ReadAt
  <2>4. QED
    BY <2>3
<1>4. Accesses \in Nat \ {0} /\ (Count > 0 => Accesses = Count)
      /\ Count \in Nat /\ job.memory \in Nat
  BY <1>1, AccessesAreCount, JobType
<1>5. CASE fault.kind = "data"
  <2>1. 1 \in 1 .. Accesses
    BY <1>4
  <2>2. QED
    BY <1>3, <1>5, <2>1
<1>6. CASE fault.kind # "data"
  <2>1. fault.cell \in Region
    BY <1>6 DEF DataFault
  <2>2. fault.cell - job.memory + 1 \in 1 .. Accesses
        /\ job.memory + (fault.cell - job.memory + 1) - 1 = fault.cell
    BY <1>4, <2>1 DEF Region
  <2>3. Up[fault.cell - job.memory + 1] = fault.cell
    BY <1>1, <2>2, UpIs
  <2>4. QED
    BY <1>3, <2>2, <2>3
<1>7. QED
  BY <1>5, <1>6

LEMMA StepData == TypeInv /\ MemoryInv /\ DataInv /\ [Next]_vars => DataInv'
<1> SUFFICES ASSUME TypeInv, MemoryInv, DataInv, [Next]_vars PROVE DataInv'
  OBVIOUS
<1>0. UNCHANGED << job, fault, w >> /\ job \in Jobs /\ k \in Nat \ {0}
  BY Arguments DEF TypeInv, JobInv
<1> DEFINE ReadIn(S, i) == S[i].op = "is" /\ (fault.kind # "data" => S[i].a = fault.cell)
<1> SUFFICES ASSUME DataFault
             PROVE  /\ result' # "passed"
                    /\ result' = "run" =>
                         /\ \A n \in 1 .. pg'.n : ~Reveals(Ham(w)[n])
                         /\ \A i \in 1 .. k' - 1 : ReadIn(Script', i) => ~Reveals(pg'.v)
  <2>1. DataFault' = DataFault
    BY <1>0 DEF DataFault, Region, Count, Bytes
  <2>2. /\ (\A n \in 1 .. pg.n : ~Reveals(Ham(w)[n]))'
             <=> \A n \in 1 .. pg'.n : ~Reveals(Ham(w)[n])
        /\ (\A i \in 1 .. k - 1 : ReadAt(i) => ~Reveals(pg.v))'
             <=> \A i \in 1 .. k' - 1 : ReadIn(Script', i) => ~Reveals(pg'.v)
    BY <1>0 DEF Reveals, ReadAt
  <2>3. QED
    BY <2>1, <2>2 DEF DataInv
<1>1. /\ result # "passed"
      /\ result = "run" => /\ \A n \in 1 .. pg.n : ~Reveals(Ham(w)[n])
                           /\ \A i \in 1 .. k - 1 : ReadIn(Script, i) => ~Reveals(pg.v)
  BY DEF DataInv, ReadAt
<1>2. /\ job.prog \in {"refresh", "readback"} /\ job.prog \in Patterned
      /\ job.prog \notin Address /\ job.prog \notin Sa
      /\ fault.kind \in {"stuck0", "stuck1", "data"}
  BY DEF DataFault, Patterned, Address, Sa
<1>3. CASE Step
  <2> DEFINE t == Script[k]
  <2>1. /\ result = "run" /\ k \in 1 .. Len(Script) /\ UNCHANGED pg /\ Script' = Script
        /\ \/ result' = "failed"
           \/ /\ ~Failing(t, Read(t.a)) \/ OnlyCounted
              /\ result' = "run" /\ k' = k + 1
    BY <1>2, <1>3, AccessIs
  <2>2. CASE result' = "failed"
    BY <2>2
  <2>3. ASSUME result' = "run", NEW i \in 1 .. k' - 1, ReadIn(Script, i) PROVE ~Reveals(pg.v)
    <3>1. ~Failing(t, Read(t.a)) /\ k' = k + 1
      BY <1>2, <2>1, <2>3 DEF OnlyCounted
    <3>2. CASE i # k
      <4>1. i \in 1 .. k - 1
        BY <1>0, <2>3, <3>1, <3>2
      <4>2. QED
        BY <1>1, <2>1, <2>3, <4>1
    <3>3. CASE i = k
      <4>1. t.op = "is" /\ (fault.kind # "data" => t.a = fault.cell)
        BY <2>3, <3>3
      <4>2. t.v = pg.v
        BY <1>0, <1>2, <2>1, Scripts DEF WrittenRead
      <4>3. PICK j : LastWrite(Script, k, t.a, j) /\ Script[j].v = t.v
        <5>1. ReadsWritten(Script)
          BY <1>0, <1>2, Scripts
        <5>2. QED
          BY <2>1, <4>1, <5>1 DEF ReadsWritten
      <4>4. Stored(mem, t.a) = Wired(pg.v)
        BY <1>2, <2>1, <4>2, <4>3, LastOwn DEF MemoryInv, Steady, LineFault
      <4>5. Read(t.a) = pg.v
        BY <3>1, <4>1, <4>2 DEF Failing
      <4>6. QED
        BY <1>2, <4>1, <4>4, <4>5, PassedReveals
    <3>4. QED
      BY <3>2, <3>3
  <2>4. QED
    BY <1>1, <2>1, <2>2, <2>3
<1>4. CASE NextPattern
  <2>1. /\ result = "run" /\ k > Len(Script) /\ k' = 1
        /\ result' = (IF pg'.end THEN "passed" ELSE "run")
    BY <1>2, <1>4, PassIs
  <2>2. PICK rand \in Rand : pg' = patgen(pg, Zero, mod, rand \intersect All(w))
    BY <1>2, <1>4, PassIs
  <2>3. /\ w \in {8, 16, 32} /\ mod = "ham" /\ Values(w, mod) = Ham(w) /\ Len(Ham(w)) \in Nat
        /\ \E n \in 1 .. Len(Ham(w)) : Reveals(Ham(w)[n])
    BY HamReveals
  <2>4. pg.n \in Nat /\ pg.v = Ham(w)[pg.n + 1]
    BY <2>3 DEF TypeInv, PatternInv, PValue, Listed
  <2>5. ~Reveals(Ham(w)[pg.n + 1])
    <3>1. PICK i \in 1 .. Len(Script) : ReadAt(i)
      BY PassReads
    <3>2. i \in 1 .. k - 1
      <4>1. Len(Script) \in Nat
        BY <1>0, <1>2, Scripts
      <4>2. QED
        BY <1>0, <2>1, <4>1
    <3>3. QED
      BY <1>1, <2>1, <2>4, <3>1, <3>2 DEF ReadAt
  <2>6. \A n \in 1 .. pg.n + 1 : ~Reveals(Ham(w)[n])
    <3>1. \A n \in 1 .. pg.n + 1 : n \in 1 .. pg.n \/ n = pg.n + 1
      BY <2>4
    <3>2. QED
      BY <1>1, <2>1, <2>5, <3>1
  <2>7. /\ pg'.end => pg.n + 1 = Len(Ham(w))
        /\ ~pg'.end => pg'.n = pg.n + 1
    <3>1. mod \in Listed
      BY <2>3 DEF Listed
    <3>2. /\ pg'.end => pg'.n = pg.n /\ pg.n + 1 = Len(Values(w, mod))
          /\ ~pg'.end => pg'.n = pg.n + 1
      BY <2>1, <2>2, <3>1, PatternStep
    <3>3. QED
      BY <2>3, <3>2
  <2>8. ~pg'.end
    BY <2>3, <2>6, <2>7
  <2>9. QED
    BY <2>1, <2>6, <2>7, <2>8
<1>5. CASE \E b \in Region : Flip(b)
  BY <1>2, <1>5 DEF Flip
<1>6. CASE UNCHANGED vars
  <2>1. UNCHANGED << pg, k, result >> /\ Script' = Script
    BY <1>0, <1>2, <1>6, SameScript DEF vars
  <2>2. QED
    BY <1>1, <2>1
<1>7. QED
  BY <1>3, <1>4, <1>5, <1>6 DEF Next

-----------------------------------------------------------------------------
(* What a fault makes of the other programs: an access is betrayed when the*)
(* value written last to its cell, as it is stored and as it is shown, is  *)
(* not one it accepts. A program that passes has met no such access.       *)
Shown(a, u) ==
  CASE fault.kind = "stuck0" /\ Cell(a) = fault.cell -> u \ {fault.x}
    [] fault.kind = "stuck1" /\ Cell(a) = fault.cell -> u \union {fault.x}
    [] OTHER -> u

Refuses(t, u) == (t.op = "is" /\ u # t.v) \/ (t.op = "is not" /\ u = t.v)

Betrayed(S, i) ==
  \E j : LastIn(S, i, Cell(S[i].a), j) /\ Refuses(S[i], Shown(S[i].a, Wired(S[j].v)))

BetrayInv ==
  job.prog \notin Patterned =>
    /\ result \in {"run", "passed"} => \A i \in 1 .. k - 1 : ~Betrayed(Script, i)
    /\ result = "passed" => k > Len(Script)

LEMMA ReadShows == \A a : Read(a) = Shown(a, Stored(mem, Cell(a)))
BY DEF Read, Content, Shown

LEMMA StepBetray == TypeInv /\ MemoryInv /\ BetrayInv /\ [Next]_vars => BetrayInv'
<1> SUFFICES ASSUME TypeInv, MemoryInv, BetrayInv, [Next]_vars PROVE BetrayInv'
  OBVIOUS
<1>0. UNCHANGED << job, fault >>
  BY Arguments
<1> SUFFICES ASSUME job.prog \notin Patterned
             PROVE  /\ result' \in {"run", "passed"} =>
                         \A i \in 1 .. k' - 1 : ~Betrayed(Script', i)
                    /\ result' = "passed" => k' > Len(Script')
  <2>1. \A i, j : LastIn(Script, i, Cell(Script[i].a), j)'
                    <=> LastIn(Script', i, Cell(Script'[i].a), j)
    BY <1>0 DEF LastIn, Cell, Differ
  <2>2. \A i, j : Refuses(Script[i], Shown(Script[i].a, Wired(Script[j].v)))'
                    <=> Refuses(Script'[i], Shown(Script'[i].a, Wired(Script'[j].v)))
    BY <1>0 DEF Refuses, Shown, Wired, Cell, Differ
  <2>3. \A i : Betrayed(Script, i)' <=> Betrayed(Script', i)
    BY <2>1, <2>2 DEF Betrayed
  <2>4. QED
    BY <1>0, <2>3 DEF BetrayInv
<1>1. /\ result \in {"run", "passed"} => \A i \in 1 .. k - 1 : ~Betrayed(Script, i)
      /\ result = "passed" => k > Len(Script)
      /\ k \in Nat \ {0} /\ job \in Jobs /\ Steady
  BY RamTestsAssumption DEF BetrayInv, TypeInv, JobInv, Steady, Patterned
<1>2. CASE Step
  <2> DEFINE t == Script[k]
  <2>1. /\ result = "run" /\ k \in 1 .. Len(Script) /\ Script' = Script
        /\ \/ result' = "failed"
           \/ /\ ~Failing(t, Read(t.a)) \/ OnlyCounted
              /\ result' = "run" /\ k' = k + 1
    BY <1>2, AccessIs
  <2>2. CASE result' = "failed"
    BY <2>2
  <2>3. CASE result' = "run"
    <3>1. ~Failing(t, Read(t.a)) /\ k' = k + 1
      BY <2>1, <2>3 DEF OnlyCounted, Patterned, Sa
    <3>2. ~Betrayed(Script, k)
      <4> SUFFICES ASSUME NEW j, LastIn(Script, k, Cell(t.a), j)
                   PROVE  ~Refuses(t, Shown(t.a, Wired(Script[j].v)))
        BY DEF Betrayed
      <4>1. Stored(mem, Cell(t.a)) = Wired(Script[j].v)
        BY <1>1, <2>1 DEF MemoryInv
      <4>2. QED
        BY <3>1, <4>1, ReadShows DEF Failing, Refuses
    <3>3. \A i \in 1 .. k' - 1 : i \in 1 .. k - 1 \/ i = k
      BY <1>1, <3>1
    <3>4. QED
      BY <1>1, <2>1, <2>3, <3>2, <3>3
  <2>4. QED
    BY <2>1, <2>2, <2>3
<1>3. CASE NextPattern
  <2>1. result = "run" /\ k > Len(Script) /\ UNCHANGED << job, pg, k >>
    BY <1>3, PassIs
  <2>2. QED
    BY <1>1, <2>1, SameScript
<1>4. CASE \E b \in Region : Flip(b)
  BY <1>1, <1>4, RamTestsAssumption DEF Flip, Patterned
<1>5. CASE UNCHANGED vars
  BY <1>1, <1>5, SameScript DEF vars
<1>6. QED
  BY <1>2, <1>3, <1>4, <1>5 DEF Next

LEMMA PassedUnbetrayed ==
  ASSUME TypeInv, BetrayInv, job.prog \notin Patterned, result = "passed",
         NEW i \in 1 .. Len(Script)
  PROVE  ~Betrayed(Script, i)
<1>1. Len(Script) \in Nat /\ k \in Nat /\ k > Len(Script)
  BY Scripts DEF BetrayInv, TypeInv, JobInv
<1>2. i \in 1 .. k - 1
  BY <1>1
<1>3. QED
  BY <1>2 DEF BetrayInv

(* A write right before an access, and one with no other after it.         *)
LEMMA LastBefore ==
  ASSUME NEW S, NEW i \in Nat, NEW j \in 1 .. i - 1, S[j].op = "write",
         Cell(S[j].a) = Cell(S[i].a),
         \A n \in j + 1 .. i - 1 : S[n].op \notin {"write", "back"},
         Refuses(S[i], Shown(S[i].a, Wired(S[j].v)))
  PROVE  Betrayed(S, i)
<1>1. LastIn(S, i, Cell(S[i].a), j)
  BY Zenon DEF LastIn
<1>2. QED
  BY <1>1, Zenon DEF Betrayed

(* A register: the bit that is stuck is written alone, or another one is.  *)
LEMMA RegisterBetrayed ==
  ASSUME TypeInv, RegisterFault
  PROVE  \E i \in 1 .. Len(Script) : Betrayed(Script, i)
<1>1. /\ job.prog = "reg_rw" /\ job \in Jobs /\ fault.kind \in {"stuck0", "stuck1"}
      /\ fault.cell \in Tested /\ fault.x \in job.mask
      /\ fault.kind = "stuck1" => job.mask # {fault.x}
  BY DEF RegisterFault, TypeInv, JobInv
<1>2. PICK b \in job.mask : IF fault.kind = "stuck0" THEN b = fault.x ELSE b # fault.x
  BY <1>1
<1>3. Tries(Script, fault.cell) /\ Len(Script) \in Nat
  BY <1>1, Scripts
<1>4. PICK i \in 2 .. Len(Script) :
        Script[i - 1] = W(fault.cell, {b}) /\ Script[i] = R(fault.cell, {b})
  BY <1>3 DEF Tries
<1>5. /\ Script[i - 1].op = "write" /\ Script[i - 1].a = fault.cell /\ Script[i - 1].v = {b}
      /\ Script[i].op = "is" /\ Script[i].a = fault.cell /\ Script[i].v = {b}
  BY <1>4, Fields
<1>6. Cell(fault.cell) = fault.cell /\ Wired({b}) = {b}
  BY <1>1 DEF Cell, Wired
<1>7. Shown(fault.cell, {b}) # {b}
  BY <1>1, <1>2, <1>6 DEF Shown
<1>8. i - 1 \in 1 .. i - 1 /\ (i - 1) + 1 .. i - 1 = {} /\ i \in Nat /\ i \in 1 .. Len(Script)
  BY <1>3
<1>9. Betrayed(Script, i)
  BY <1>5, <1>6, <1>7, <1>8, LastBefore DEF Refuses
<1>10. QED
  BY <1>8, <1>9

(* An address line changes no value, but two addresses of one cell differ  *)
(* in it, so they are not the same value either.                           *)
LEMMA LineShows ==
  ASSUME LineFault, NEW a, NEW v
  PROVE  Shown(a, Wired(v)) = v
BY DEF LineFault, Shown, Wired

LEMMA LineIs ==
  ASSUME TypeInv, LineFault
  PROVE  /\ Lines \in Nat /\ fault.x \in 0 .. Lines - 1
         /\ fault.kind = "lines" => fault.y \in 0 .. Lines - 1 /\ fault.x # fault.y
<1>1. job \in Jobs /\ fault \in FaultsOf(job) /\ Lines \in Nat /\ job.lines \subseteq 0 .. Lines - 1
  BY RamTestsAssumption DEF TypeInv, JobInv
<1>2. fault.x \in job.lines
  BY <1>1 DEF FaultsOf, LineFault
<1>3. fault.kind = "lines" => fault.y \in job.lines /\ fault.x < fault.y
  BY <1>1 DEF FaultsOf
<1>4. QED
  BY <1>1, <1>2, <1>3

LEMMA AddressesDiffer ==
  ASSUME TypeInv, LineFault, NEW a \in Nat, NEW b \in Nat, a # b, Cell(a) = Cell(b)
  PROVE  Addr(a) # Addr(b)
<1> SUFFICES ASSUME Addr(a) = Addr(b) PROVE FALSE
  OBVIOUS
<1>1. \A l \in 0 .. Lines - 1 : Bit(a, l) = Bit(b, l)
  <2>1. \A c, l : Bit(c, l) \in BOOLEAN
    BY DEF Bit
  <2>2. \A l \in 0 .. Lines - 1 : Bit(a, l) <=> Bit(b, l)
    BY DEF Addr
  <2>3. QED
    BY <2>1, <2>2
<1>2. /\ Lines \in Nat /\ fault.x \in 0 .. Lines - 1
      /\ fault.kind = "lines" => fault.y \in 0 .. Lines - 1
  BY LineIs
<1>3. /\ Power[fault.x] \in Nat
      /\ fault.kind = "lines" => Power[fault.y] \in Nat
  BY <1>2, PowerIs
<1>4. /\ Bit(a, fault.x) = Bit(b, fault.x)
      /\ fault.kind = "lines" => Bit(a, fault.y) = Bit(b, fault.y)
  BY <1>1, <1>2
<1>5. PICK d \in Int : Cell(a) = a + d /\ Cell(b) = b + d
  <2>1. a = a + 0 /\ b = b + 0 /\ \A p \in Nat : a - p = a + (-p) /\ b - p = b + (-p) /\ -p \in Int
    OBVIOUS
  <2>2. CASE fault.kind = "line0"
    BY <1>3, <1>4, <2>1, <2>2 DEF Cell
  <2>3. CASE fault.kind = "line1"
    <3>1. /\ Cell(a) = IF ~Bit(a, fault.x) THEN a + Power[fault.x] ELSE a
          /\ Cell(b) = IF ~Bit(a, fault.x) THEN b + Power[fault.x] ELSE b
      BY <1>4, <2>3 DEF Cell
    <3>2. Power[fault.x] \in Int /\ 0 \in Int
      BY <1>3
    <3>3. QED
      BY <2>1, <3>1, <3>2, Zenon
  <2>4. CASE fault.kind = "lines"
    <3>1. CASE Differ(a, fault)
      <4>1. Differ(b, fault)
        BY <1>4, <2>4, <3>1 DEF Differ
      <4>2. /\ Cell(a) = IF Bit(a, fault.x) THEN a - Power[fault.x] ELSE a - Power[fault.y]
            /\ Cell(b) = IF Bit(a, fault.x) THEN b - Power[fault.x] ELSE b - Power[fault.y]
        BY <1>4, <2>4, <3>1, <4>1 DEF Cell
      <4>3. QED
        BY <1>3, <2>1, <2>4, <4>2
    <3>2. CASE ~Differ(a, fault)
      <4>1. ~Differ(b, fault)
        BY <1>4, <2>4, <3>2 DEF Differ
      <4>2. Cell(a) = a /\ Cell(b) = b
        BY <2>4, <3>2, <4>1 DEF Cell
      <4>3. QED
        BY <2>1, <4>2
    <3>3. QED
      BY <3>1, <3>2
  <2>5. QED
    BY <2>2, <2>3, <2>4 DEF LineFault
<1>6. a + d = b + d
  BY <1>5
<1>7. QED
  BY <1>6

(* The first search of the alias test: at the lower of the two addresses,  *)
(* whose cell was written with a higher one later.                         *)
LEMMA AliasBetrayed ==
  ASSUME TypeInv, AddressFault, job.prog = "alias"
  PROVE  \E i \in 1 .. Len(Script) : Betrayed(Script, i)
<1> DEFINE S == Script
           A == Count
<1>1. job \in Jobs /\ LineFault /\ job.prog \notin Address
  BY DEF TypeInv, JobInv, AddressFault, Address
<1>2. /\ A \in Nat /\ A = Accesses /\ Len(S) = 5 * A
      /\ \A n \in 1 .. A : S[n] = W(Up[n], Addr(Up[n])) /\ S[A + n] = R(Up[n], Addr(Up[n]))
  BY <1>1, AliasIs, Scripts
<1>3. /\ job.memory \in Nat
      /\ \A n \in 1 .. A : Up[n] = job.memory + n - 1 /\ Up[n] \in Nat
  BY <1>1, <1>2, UpIs, JobType
<1>4. Region = job.memory .. job.memory + A - 1
  BY DEF Region
<1> HIDE DEF S, A
<1>5. PICK m, n \in 1 .. A : m < n /\ Cell(Up[m]) = Cell(Up[n])
  <2>1. PICK a, b \in Region : a # b /\ Cell(a) = Cell(b)
    BY <1>1 DEF AddressFault
  <2>2. /\ a - job.memory + 1 \in 1 .. A /\ b - job.memory + 1 \in 1 .. A
        /\ job.memory + (a - job.memory + 1) - 1 = a /\ job.memory + (b - job.memory + 1) - 1 = b
    BY <1>2, <1>3, <1>4
  <2>3. Up[a - job.memory + 1] = a /\ Up[b - job.memory + 1] = b
    BY <1>3, <2>2
  <2>4. a - job.memory + 1 < b - job.memory + 1 \/ b - job.memory + 1 < a - job.memory + 1
    BY <1>3, <1>4, <2>1
  <2>5. QED
    BY <2>1, <2>2, <2>3, <2>4
<1> DEFINE T == { A - q : q \in { p \in 1 .. A : Cell(Up[p]) = Cell(Up[m]) } }
<1>6. T \in SUBSET Nat /\ A - n \in T
  BY <1>2, <1>5
<1>7. Least(T) \in T /\ \A y \in T : Least(T) <= y
  BY <1>6, LeastIs
<1>8. PICK j \in 1 .. A : Least(T) = A - j /\ Cell(Up[j]) = Cell(Up[m])
  BY <1>7
<1>9. \A q \in 1 .. A : Cell(Up[q]) = Cell(Up[m]) => q <= j
  <2> TAKE q \in 1 .. A
  <2>1. Cell(Up[q]) = Cell(Up[m]) => A - j <= A - q
    BY <1>7, <1>8
  <2>2. QED
    BY <1>2, <2>1
<1> HIDE DEF T
<1>10. j > m /\ Up[j] # Up[m]
  <2>1. n <= j
    BY <1>5, <1>9
  <2>2. j > m
    BY <1>2, <1>5, <2>1
  <2>3. QED
    BY <1>2, <1>3, <2>2
<1>11. \A q \in 1 .. A :
         /\ S[q].op = "write" /\ S[q].a = Up[q] /\ S[q].v = Addr(Up[q])
         /\ S[A + q].op = "is" /\ S[A + q].a = Up[q] /\ S[A + q].v = Addr(Up[q])
  <2> TAKE q \in 1 .. A
  <2>1. S[q] = W(Up[q], Addr(Up[q])) /\ S[A + q] = R(Up[q], Addr(Up[q]))
    BY <1>2
  <2>2. QED
    BY <2>1 DEF W, R
<1>12. LastIn(S, A + m, Cell(Up[m]), j)
  <2>1. ASSUME NEW q \in j + 1 .. (A + m) - 1, S[q].op \in {"write", "back"}
        PROVE  Cell(S[q].a) # Cell(Up[m])
    <3>1. CASE q \in 1 .. A
      <4>1. ~(q <= j)
        BY <1>2
      <4>2. QED
        BY <1>9, <1>11, <3>1, <4>1
    <3>2. CASE q > A
      <4>1. q - A \in 1 .. A /\ A + (q - A) = q
        BY <1>2, <3>2
      <4>2. S[q].op = "is"
        BY <1>11, <4>1
      <4>3. QED
        BY <2>1, <4>2
    <3>3. QED
      BY <1>2, <3>1, <3>2
  <2>2. j \in 1 .. (A + m) - 1
    BY <1>2
  <2>3. QED
    BY <1>8, <1>11, <2>1, <2>2 DEF LastIn
<1>13. Addr(Up[j]) # Addr(Up[m])
  BY <1>1, <1>3, <1>8, <1>10, AddressesDiffer
<1>14. Betrayed(S, A + m)
  <2>1. Shown(Up[m], Wired(Addr(Up[j]))) = Addr(Up[j])
    BY <1>1, LineShows
  <2>2. Refuses(S[A + m], Shown(S[A + m].a, Wired(S[j].v)))
    BY <1>11, <1>13, <2>1 DEF Refuses
  <2>3. QED
    BY <1>11, <1>12, <2>2 DEF Betrayed
<1>15. A + m \in 1 .. Len(S)
  BY <1>2
<1>16. QED
  BY <1>14, <1>15 DEF S

(* An address line of the address tests puts one of their addresses in the *)
(* cell of the first, or that in the cell of location 0.                   *)
LEMMA FirstAliased ==
  ASSUME TypeInv, AddressFault, job.prog \in Address
  PROVE  Cell(0) = Cell(start) \/ \E p \in Masked : Cell(start + p) = Cell(start)
<1>1. job \in Jobs /\ LineFault /\ SeenLine(fault.x) /\ SeenLine(fault.y)
  BY DEF TypeInv, JobInv, AddressFault, Address
<1>2. /\ Lines \in Nat /\ fault.x \in 0 .. Lines - 1
      /\ fault.kind = "lines" => fault.y \in 0 .. Lines - 1 /\ fault.x # fault.y
  BY <1>1, LineIs
<1>3. PICK s \in 0 .. Lines : start = Power[s]
  BY <1>1, StartIs
<1> DEFINE x == fault.x
           y == fault.y
           both == fault.kind = "lines"
<1>4. x \in 0 .. Lines /\ (both => y \in 0 .. Lines /\ x # y)
      /\ Power[s] \in Nat \ {0} /\ Power[x] \in Nat \ {0} /\ (both => Power[y] \in Nat \ {0})
  BY <1>2, PowerIs
<1>5. /\ ~Bit(0, x) /\ (Bit(Power[s], x) <=> x = s)
      /\ both => ~Bit(0, y) /\ (Bit(Power[s], y) <=> y = s)
      /\ x # s => /\ Bit(Power[s] + Power[x], x)
                  /\ both => (Bit(Power[s] + Power[x], y) <=> y = s)
  <2>1. ~Bit(0, x) /\ (Bit(Power[s], x) <=> x = s)
    BY <1>4, PowerBit
  <2>2. both => ~Bit(0, y) /\ (Bit(Power[s], y) <=> y = s)
    BY <1>4, PowerBit
  <2>3. x # s => Bit(Power[s] + Power[x], x)
    BY <1>4, SumBit
  <2>4. x # s /\ both => (Bit(Power[s] + Power[x], y) <=> y \in {s, x})
    BY <1>4, SumBit
  <2>5. QED
    BY <1>4, <2>1, <2>2, <2>3, <2>4
<1>6. Power[s] - Power[s] = 0 /\ 0 + Power[s] = Power[s]
      /\ (Power[s] + Power[x]) - Power[x] = Power[s]
  BY <1>4
<1>7. x # s => Power[x] \in Masked /\ Power[x] # start
  <2> SUFFICES ASSUME x # s PROVE Power[x] \in Masked /\ Power[x] # start
    OBVIOUS
  <2>1. Power[x] # Power[s]
    <3>1. x < s \/ s < x
      BY <1>2
    <3>2. 2 * Power[x] <= Power[s] \/ 2 * Power[s] <= Power[x]
      BY <1>4, <3>1, PowerBelow
    <3>3. QED
      BY <1>4, <3>2
  <2>2. Power[x] \in Single /\ Power[x] <= stop
    BY <1>1, <1>2, <1>3, <2>1 DEF Single, SeenLine
  <2>3. start + Power[x] # start
    BY <1>3, <1>4
  <2>4. QED
    BY <1>3, <2>1, <2>2, <2>3 DEF Masked, Location
<1>8. CASE fault.kind = "line0"
  <2>1. x = s => Cell(0) = 0 /\ Cell(start) = 0
    BY <1>3, <1>5, <1>6, <1>8 DEF Cell
  <2>2. x # s => Cell(start) = start /\ Cell(start + Power[x]) = start
    BY <1>3, <1>5, <1>6, <1>8 DEF Cell
  <2>3. QED
    BY <1>7, <2>1, <2>2
<1>9. CASE fault.kind = "line1"
  <2>1. x = s => Cell(0) = start /\ Cell(start) = start
    BY <1>3, <1>5, <1>6, <1>9 DEF Cell
  <2>2. x # s => Cell(start) = start + Power[x] /\ Cell(start + Power[x]) = start + Power[x]
    BY <1>3, <1>5, <1>6, <1>9 DEF Cell
  <2>3. QED
    BY <1>7, <2>1, <2>2
<1>10. CASE both
  <2>1. x = s \/ y = s => Cell(0) = 0 /\ Cell(start) = 0
    <3>1. ~Differ(0, fault)
      BY <1>5, <1>10 DEF Differ, Bit
    <3>2. Cell(0) = 0
      BY <1>10, <3>1 DEF Cell
    <3>3. x = s => Cell(start) = 0
      BY <1>3, <1>4, <1>5, <1>6, <1>10 DEF Cell, Differ
    <3>4. y = s => Cell(start) = 0
      BY <1>3, <1>4, <1>5, <1>6, <1>10 DEF Cell, Differ
    <3>5. QED
      BY <3>2, <3>3, <3>4
  <2>2. x # s /\ y # s => Cell(start) = start /\ Cell(start + Power[x]) = start
    <3> SUFFICES ASSUME x # s, y # s
                 PROVE  Cell(start) = start /\ Cell(start + Power[x]) = start
      OBVIOUS
    <3>1. ~Differ(start, fault)
      BY <1>3, <1>5, <1>10 DEF Differ, Bit
    <3>2. Differ(start + Power[x], fault) /\ Bit(start + Power[x], x)
      BY <1>3, <1>5, <1>10 DEF Differ
    <3>3. QED
      BY <1>3, <1>6, <1>10, <3>1, <3>2 DEF Cell
  <2>3. QED
    BY <1>7, <2>1, <2>2
<1>11. QED
  BY <1>1, <1>8, <1>9, <1>10 DEF LineFault

LEMMA LoBetrayed ==
  ASSUME TypeInv, AddressFault, job.prog = "addr_lo"
  PROVE  \E i \in 1 .. Len(Script) : Betrayed(Script, i)
<1> DEFINE S == Script
           M == Len(Masks)
<1>1. job \in Jobs /\ LineFault /\ job.prog \in Address
  BY DEF TypeInv, JobInv, AddressFault, Address
<1>2. /\ M \in Nat /\ \A p \in Masked : \E n \in 1 .. M : Loc(n) = start + p
  BY <1>1, LocIs
<1>3. /\ Len(S) = 2 * M + 2
      /\ S[M + 1] = W(start, foreground) /\ S[M + 2] = X(0, foreground)
      /\ \A n \in 1 .. M : S[M + 2 + n] = R(Loc(n), background)
  BY <1>1, AddrLoIs, Scripts
<1> HIDE DEF S, M
<1>4. S[M + 1].op = "write" /\ S[M + 1].a = start /\ S[M + 1].v = foreground
  BY <1>3, Fields
<1>5. S[M + 2].op = "is not" /\ S[M + 2].a = 0 /\ S[M + 2].v = foreground
  BY <1>3, ZeroFields
<1>6. \A n \in 1 .. M :
        S[M + 2 + n].op = "is" /\ S[M + 2 + n].a = Loc(n) /\ S[M + 2 + n].v = background
  <2> TAKE n \in 1 .. M
  <2>1. S[M + 2 + n] = R(Loc(n), background)
    BY <1>3
  <2>2. QED
    BY <2>1, Fields
<1>7. \A a : Shown(a, Wired(foreground)) = foreground
  BY <1>1, LineShows
<1>8. CASE Cell(0) = Cell(start)
  <2>1. Refuses(S[M + 2], Shown(S[M + 2].a, Wired(S[M + 1].v)))
    BY <1>4, <1>5, <1>7 DEF Refuses
  <2>2. M + 1 \in 1 .. (M + 2) - 1 /\ (M + 1) + 1 .. (M + 2) - 1 = {} /\ M + 2 \in Nat
        /\ M + 2 \in 1 .. Len(S)
    BY <1>2, <1>3
  <2>3. Betrayed(S, M + 2)
    BY <1>4, <1>5, <1>8, <2>1, <2>2, LastBefore
  <2>4. QED
    BY <2>2, <2>3 DEF S
<1>9. ASSUME NEW p \in Masked, Cell(start + p) = Cell(start)
      PROVE  \E i \in 1 .. Len(S) : Betrayed(S, i)
  <2>1. PICK n \in 1 .. M : Loc(n) = start + p
    BY <1>2
  <2>2. Refuses(S[M + 2 + n], Shown(S[M + 2 + n].a, Wired(S[M + 1].v)))
    BY <1>1, <1>4, <1>6, <1>7, GroundsDiffer DEF Refuses
  <2>3. /\ M + 1 \in 1 .. (M + 2 + n) - 1 /\ M + 2 + n \in Nat /\ M + 2 + n \in 1 .. Len(S)
        /\ (M + 1) + 1 = M + 2
    BY <1>2, <1>3
  <2>4. ASSUME NEW i \in M + 2 .. (M + 2 + n) - 1 PROVE S[i].op \notin {"write", "back"}
    <3>1. CASE i = M + 2
      BY <1>5, <3>1
    <3>2. CASE i # M + 2
      <4>1. i - (M + 2) \in 1 .. M /\ M + 2 + (i - (M + 2)) = i
        BY <1>2, <3>2
      <4>2. S[i].op = "is"
        BY <1>6, <4>1
      <4>3. QED
        BY <4>2
    <3>3. QED
      BY <3>1, <3>2
  <2>5. Cell(S[M + 1].a) = Cell(S[M + 2 + n].a)
    BY <1>4, <1>6, <1>9, <2>1
  <2>6. Betrayed(S, M + 2 + n)
    BY <1>4, <2>2, <2>3, <2>4, <2>5, LastBefore
  <2>7. QED
    BY <2>3, <2>6
<1>10. QED
  BY <1>1, <1>8, <1>9, FirstAliased DEF S

LEMMA HiBetrayed ==
  ASSUME TypeInv, AddressFault, job.prog = "addr_hi"
  PROVE  \E i \in 1 .. Len(Script) : Betrayed(Script, i)
<1> DEFINE S == Script
           M == Len(Masks)
<1>1. job \in Jobs /\ LineFault /\ job.prog \in Address
  BY DEF TypeInv, JobInv, AddressFault, Address
<1>2. /\ M \in Nat /\ \A p \in Masked : \E n \in 1 .. M : Loc(n) = start + p
  BY <1>1, LocIs
<1>3. /\ Len(S) = 2 * M + 2
      /\ S[1] = W(start, background) /\ S[2] = X(0, background)
      /\ \A n \in 1 .. M : /\ S[2 * n + 1] = W(Loc(n), foreground)
                           /\ S[2 * n + 2] = R(start, background)
  BY <1>1, AddrHiIs, Scripts
<1> HIDE DEF S, M
<1>4. S[1].op = "write" /\ S[1].a = start /\ S[1].v = background
  BY <1>3, Fields
<1>5. S[2].op = "is not" /\ S[2].a = 0 /\ S[2].v = background
  BY <1>3, ZeroFields
<1>6. ASSUME NEW n \in 1 .. M
      PROVE  /\ S[2 * n + 1].op = "write" /\ S[2 * n + 1].a = Loc(n)
             /\ S[2 * n + 1].v = foreground
             /\ S[2 * n + 2].op = "is" /\ S[2 * n + 2].a = start
             /\ S[2 * n + 2].v = background
  <2>1. S[2 * n + 1] = W(Loc(n), foreground) /\ S[2 * n + 2] = R(start, background)
    BY <1>3
  <2>2. QED
    BY <2>1, Fields
<1>7. \A a, v : Shown(a, Wired(v)) = v
  BY <1>1, LineShows
<1>8. CASE Cell(0) = Cell(start)
  <2>1. Refuses(S[2], Shown(S[2].a, Wired(S[1].v)))
    BY <1>4, <1>5, <1>7 DEF Refuses
  <2>2. 1 \in 1 .. 2 - 1 /\ 1 + 1 .. 2 - 1 = {} /\ 2 \in Nat /\ 2 \in 1 .. Len(S)
    BY <1>2, <1>3
  <2>3. Betrayed(S, 2)
    BY <1>4, <1>5, <1>8, <2>1, <2>2, LastBefore
  <2>4. QED
    BY <2>2, <2>3 DEF S
<1>9. ASSUME NEW p \in Masked, Cell(start + p) = Cell(start)
      PROVE  \E i \in 1 .. Len(S) : Betrayed(S, i)
  <2>1. PICK n \in 1 .. M : Loc(n) = start + p
    BY <1>2
  <2> DEFINE i == 2 * n + 2
             j == 2 * n + 1
  <2>2. Refuses(S[i], Shown(S[i].a, Wired(S[j].v)))
    BY <1>1, <1>6, <1>7, GroundsDiffer DEF Refuses
  <2>3. j \in 1 .. i - 1 /\ j + 1 .. i - 1 = {} /\ i \in Nat /\ i \in 1 .. Len(S)
    BY <1>2, <1>3
  <2>4. S[j].op = "write" /\ Cell(S[j].a) = Cell(S[i].a)
    BY <1>6, <1>9, <2>1
  <2> HIDE DEF i, j
  <2>5. Betrayed(S, i)
    BY <2>2, <2>3, <2>4, LastBefore
  <2>6. QED
    BY <2>3, <2>5
<1>10. QED
  BY <1>1, <1>8, <1>9, FirstAliased DEF S

-----------------------------------------------------------------------------
(* The theorems.                                                           *)
RamInv ==
  /\ TypeInv /\ RegionInv /\ MemoryInv /\ QuietInv /\ RestoreInv /\ LostInv /\ DataInv
  /\ BetrayInv

LEMMA InitRam == Init => RamInv
<1> SUFFICES ASSUME Init PROVE RamInv
  OBVIOUS
<1>1. TypeInv /\ job \in Jobs /\ k = 1 /\ mem = <<>> /\ touched = {} /\ fresh = {} /\ lost = FALSE
      /\ result = (IF Refused(job) THEN Refusal(job) ELSE "run")
      /\ (fails <=> Refused(job) /\ job.prog \in Sa)
  BY InitTyped DEF Init
<1>2. RegionInv
  BY <1>1 DEF RegionInv
<1>3. MemoryInv
  BY <1>1 DEF MemoryInv, LastIn
<1>4. QuietInv
  BY <1>1 DEF QuietInv, Quiet
<1>5. RestoreInv
  <2>1. \A a : AsBefore(a)
    BY <1>1 DEF AsBefore
  <2>2. ASSUME job.prog = "reg_rw" PROVE ~Borrowed
    <3>1. Script[1].op = "keep"
      BY <1>1, <2>2, Scripts DEF PutsBack
    <3>2. QED
      BY <1>1, <3>1 DEF Borrowed
  <2>3. QED
    BY <2>1, <2>2 DEF RestoreInv
<1>6. LostInv
  BY <1>1 DEF LostInv
<1>7. DataInv
  <2> SUFFICES ASSUME DataFault
               PROVE  /\ result # "passed"
                      /\ result = "run" => /\ \A n \in 1 .. pg.n : ~Reveals(Ham(w)[n])
                                           /\ \A i \in 1 .. k - 1 : ReadAt(i) => ~Reveals(pg.v)
    BY DEF DataInv
  <2>1. ~Refused(job)
    BY DEF DataFault, Refused
  <2>2. result = "run"
    BY <1>1, <2>1
  <2>3. pg.n = 0
    BY DEF Init, spatgen
  <2>4. QED
    BY <1>1, <2>2, <2>3
<1>8. BetrayInv
  <2>1. ASSUME job.prog \notin Patterned PROVE result # "passed"
    BY <1>1, <2>1 DEF Refusal, Patterned, Sa
  <2>2. 1 .. k - 1 = {}
    BY <1>1
  <2>3. QED
    BY <2>1, <2>2 DEF BetrayInv
<1>9. QED
  BY <1>1, <1>2, <1>3, <1>4, <1>5, <1>6, <1>7, <1>8 DEF RamInv

(* The invariant of the test programs: what the memory holds, what is held *)
(* of a register, which cells wait to be read, which patterns are tried and*)
(* that no access has been betrayed.                                       *)
THEOREM RamInvariant == Spec => []RamInv
<1>1. RamInv /\ [Next]_vars => RamInv'
  BY StepTyped, StepRegion, StepMemory, StepQuiet, StepRestore, StepLost, StepData,
     StepBetray DEF RamInv
<1>2. QED
  BY InitRam, <1>1, PTL DEF Spec

(* The loops of ram.h touch the cells of the region and no other, for any  *)
(* number of cells, with patterns that fit the access (ram.h:25-157).      *)
THEOREM RegionIsKept == Spec => []WithinRegion
<1>1. RamInv => WithinRegion
  BY DEF RamInv, TypeInv, PatternInv, PValue, RegionInv, WithinRegion
<1>2. QED
  BY RamInvariant, <1>1, PTL

(* A memory without a fault passes every program that accepts its access,  *)
(* the address tests unless location 0 held their pattern before           *)
(* (ram-addr-lo.c:89-95, ram-addr-hi.c:64-76).                             *)
THEOREM NoneFailsForNothing == Spec => []NoFalseAlarm
<1>1. RamInv => NoFalseAlarm
  BY DEF RamInv, QuietInv, Quiet, NoFalseAlarm
<1>2. QED
  BY RamInvariant, <1>1, PTL

(* The read-write test leaves a register as it was, at a failure too       *)
(* (reg-rw.c:39-48).                                                       *)
THEOREM RegistersRestored == Spec => []Restored
<1>1. RamInv => Restored
  BY DEF RamInv, RestoreInv, Borrowed, AsBefore, Restored, Over, Read
<1>2. QED
  BY RamInvariant, <1>1, PTL

(* A program that passes has met none of the faults it is there to find: a *)
(* stuck or shorted bit, with the ham list, or one that turned over        *)
(* (patgen.c:37-60, ram-refresh.c:32-40, ram-readback.c:32-39), a line of  *)
(* the addresses (ram-alias.c:49-107, ram-addr-lo.c:67-110,                *)
(* ram-addr-hi.c:64-95), a stuck bit of a register (reg-rw.c:30-49).       *)
THEOREM FaultsAreFound == Spec => []FaultsFound
<1>1. RamInv => FaultsFound
  <2> SUFFICES ASSUME RamInv, result = "passed"
               PROVE  ~(DataFault \/ AddressFault \/ RegisterFault \/ lost)
    BY DEF FaultsFound
  <2>1. ~DataFault /\ ~lost
    BY DEF RamInv, DataInv, LostInv
  <2>2. ASSUME NEW i \in 1 .. Len(Script), Betrayed(Script, i), job.prog \notin Patterned
        PROVE  FALSE
    BY <2>2, PassedUnbetrayed DEF RamInv
  <2>3. ~AddressFault
    <3> SUFFICES ASSUME AddressFault PROVE FALSE
      OBVIOUS
    <3>1. job.prog \in {"alias", "addr_lo", "addr_hi"} /\ job.prog \notin Patterned
      BY DEF AddressFault, Address, Patterned
    <3>2. \E i \in 1 .. Len(Script) : Betrayed(Script, i)
      BY <3>1, AliasBetrayed, LoBetrayed, HiBetrayed DEF RamInv
    <3>3. QED
      BY <2>2, <3>1, <3>2
  <2>4. ~RegisterFault
    <3> SUFFICES ASSUME RegisterFault PROVE FALSE
      OBVIOUS
    <3>1. job.prog \notin Patterned
      BY DEF RegisterFault, Patterned
    <3>2. \E i \in 1 .. Len(Script) : Betrayed(Script, i)
      BY RegisterBetrayed DEF RamInv
    <3>3. QED
      BY <2>2, <3>1, <3>2
  <2>5. QED
    BY <2>1, <2>3, <2>4
<1>2. QED
  BY RamInvariant, <1>1, PTL
=============================================================================
