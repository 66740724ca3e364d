------------------------- MODULE TlsDownloadProofs -------------------------
(***************************************************************************)
(* The test lists in memory, for lists and managers of any size: what the  *)
(* download loads is what the menu builder finds there, list by list and   *)
(* test by test.                                                           *)
(***************************************************************************)
EXTENDS MenuBuilder, Integers, SequenceTheorems, WellFoundedInduction, TLAPS

LEMMA SetInduction ==
  ASSUME NEW S \in SUBSET Nat, 0 \in S, \A n \in S : n + 1 \in S
  PROVE  S = Nat
<1> SUFFICES ASSUME Nat \ S # {} PROVE FALSE
  OBVIOUS
<1>1. PICK x \in Nat \ S : \A y \in Nat \ S : ~(<<y, x>> \in OpToRel(<, Nat))
  <2>1. IsWellFoundedOn(OpToRel(<, Nat), Nat)
    BY NatLessThanWellFounded
  <2>2. Nat \ S \subseteq Nat
    OBVIOUS
  <2>3. QED
    BY <2>1, <2>2, WFMin
<1>2. \A y \in Nat : y < x => <<y, x>> \in OpToRel(<, Nat)
  BY DEF OpToRel
<1>3. x # 0 /\ x - 1 \in Nat /\ x - 1 < x
  OBVIOUS
<1>4. x - 1 \in S
  BY <1>1, <1>2, <1>3
<1>5. QED
  BY <1>3, <1>4

(* The fold by which the host tools write the tests of a list: its         *)
(* recursive function over sets of indices exists, built up by the largest *)
(* index in a set.                                                         *)
Joined(c, g, s) == IF s = {} THEN <<>> ELSE g[s \ {Max(s)}] \o c[Max(s)]

LEMMA MaxBounds ==
  ASSUME NEW k \in Nat, NEW s \in SUBSET (1 .. k + 1), s # {}
  PROVE  /\ k + 1 \in s => Max(s) = k + 1
         /\ k + 1 \notin s => s \in SUBSET (1 .. k)
<1>1. ASSUME k + 1 \in s PROVE Max(s) = k + 1
  <2>1. \A y \in s : k + 1 >= y
    OBVIOUS
  <2>2. \A x \in s : (\A y \in s : x >= y) => x = k + 1
    BY <1>1
  <2>3. QED
    BY <1>1, <2>1, <2>2 DEF Max
<1>2. QED
  BY <1>1

LEMMA LargestIndex ==
  ASSUME NEW n \in Nat, NEW s \in SUBSET (1 .. n), s # {}
  PROVE  \E x \in s : \A y \in s : x >= y
<1> DEFINE Has(k) == \A t \in SUBSET (1 .. k) : t # {} => \E x \in t : \A y \in t : x >= y
           S == { k \in Nat : Has(k) }
<1>1. 0 \in S
  <2>1. 1 .. 0 = {}
    OBVIOUS
  <2>2. QED
    BY <2>1
<1>2. ASSUME NEW k \in S PROVE k + 1 \in S
  <2>1. ASSUME NEW t \in SUBSET (1 .. k + 1), t # {} PROVE \E x \in t : \A y \in t : x >= y
    <3>1. CASE k + 1 \in t
      <4>1. \A y \in t : k + 1 >= y
        OBVIOUS
      <4>2. QED
        BY <3>1, <4>1
    <3>2. CASE k + 1 \notin t
      <4>1. t \in SUBSET (1 .. k)
        BY <2>1, <3>2, MaxBounds
      <4>2. QED
        BY <2>1, <4>1
    <3>3. QED
      BY <3>1, <3>2
  <2>2. QED
    BY <2>1
<1>3. n \in S
  <2>1. S \in SUBSET Nat
    OBVIOUS
  <2> HIDE DEF S
  <2>2. QED
    BY <1>1, <1>2, <2>1, SetInduction
<1>4. QED
  BY <1>3

LEMMA FoldExists ==
  ASSUME NEW n \in Nat, NEW c
  PROVE  \E g : g = [s \in SUBSET (1 .. n) |-> Joined(c, g, s)]
<1> DEFINE Good(k, g) == /\ DOMAIN g = SUBSET (1 .. k)
                         /\ \A s \in SUBSET (1 .. k) : g[s] = Joined(c, g, s)
           S == { k \in Nat : \E g : Good(k, g) }
<1>1. 0 \in S
  <2> DEFINE g == [s \in SUBSET (1 .. 0) |-> <<>>]
  <2>1. 1 .. 0 = {}
    OBVIOUS
  <2>2. \A s \in SUBSET (1 .. 0) : g[s] = Joined(c, g, s)
    BY <2>1 DEF Joined
  <2>3. Good(0, g)
    BY <2>2
  <2>4. QED
    BY <2>3
<1>2. ASSUME NEW k \in S PROVE k + 1 \in S
  <2>1. PICK h : Good(k, h)
    OBVIOUS
  <2> DEFINE g == [s \in SUBSET (1 .. k + 1) |->
                     IF s \in SUBSET (1 .. k) THEN h[s] ELSE Joined(c, h, s)]
  <2>2. \A s \in SUBSET (1 .. k + 1) :
          g[s] = IF s \in SUBSET (1 .. k) THEN h[s] ELSE Joined(c, h, s)
    OBVIOUS
  <2>3. \A s \in SUBSET (1 .. k) : s \in SUBSET (1 .. k + 1) /\ g[s] = h[s]
    OBVIOUS
  <2>4. ASSUME NEW s \in SUBSET (1 .. k + 1) PROVE g[s] = Joined(c, g, s)
    <3>1. CASE s \in SUBSET (1 .. k)
      <4>1. s \ {Max(s)} \in SUBSET (1 .. k)
        BY <3>1
      <4>2. g[s \ {Max(s)}] = h[s \ {Max(s)}] /\ g[s] = h[s]
        BY <2>3, <3>1, <4>1
      <4>3. h[s] = Joined(c, h, s)
        BY <2>1, <3>1
      <4> HIDE DEF g
      <4>4. QED
        BY <4>2, <4>3 DEF Joined
    <3>2. CASE s \notin SUBSET (1 .. k)
      <4>1. s # {} /\ k + 1 \in s
        <5>1. \A x \in 1 .. k + 1 : x = k + 1 \/ x \in 1 .. k
          OBVIOUS
        <5>2. QED
          BY <3>2, <5>1
      <4>2. Max(s) = k + 1 /\ s \ {Max(s)} \in SUBSET (1 .. k)
        <5>1. Max(s) = k + 1
          BY <4>1, MaxBounds
        <5>2. QED
          BY <5>1
      <4>3. g[s \ {Max(s)}] = h[s \ {Max(s)}] /\ g[s] = Joined(c, h, s)
        BY <2>2, <2>3, <3>2, <4>2
      <4> HIDE DEF g
      <4>4. QED
        BY <4>3 DEF Joined
    <3>3. QED
      BY <3>1, <3>2
  <2>5. DOMAIN g = SUBSET (1 .. k + 1)
    OBVIOUS
  <2> HIDE DEF g
  <2>6. Good(k + 1, g)
    BY <2>4, <2>5
  <2>7. k + 1 \in Nat
    OBVIOUS
  <2> HIDE DEF Good
  <2>8. QED
    BY <2>6, <2>7
<1>3. n \in S
  <2>1. S \in SUBSET Nat
    OBVIOUS
  <2> HIDE DEF S
  <2>2. QED
    BY <1>1, <1>2, <2>1, SetInduction
<1>4. PICK g : Good(n, g)
  BY <1>3
<1> DEFINE f == [s \in SUBSET (1 .. n) |-> g[s]]
<1>5. ASSUME NEW s \in SUBSET (1 .. n) PROVE f[s] = Joined(c, f, s)
  <2>1. s \ {Max(s)} \in SUBSET (1 .. n)
    OBVIOUS
  <2>2. f[s \ {Max(s)}] = g[s \ {Max(s)}] /\ f[s] = g[s]
    BY <2>1
  <2>3. g[s] = Joined(c, g, s)
    BY <1>4
  <2> HIDE DEF f
  <2>4. QED
    BY <2>2, <2>3 DEF Joined
<1>6. f = [s \in SUBSET (1 .. n) |-> f[s]]
  OBVIOUS
<1> HIDE DEF f
<1>7. f = [s \in SUBSET (1 .. n) |-> Joined(c, f, s)]
  BY <1>5, <1>6
<1>8. QED
  BY <1>7

(* What the fold has joined after the first k, for each k.                 *)
Joins(n, d, g) == g = [s \in SUBSET (1 .. n) |-> Joined(d, g, s)]

Chained(n, d, all, c) ==
  /\ c[0] = <<>> /\ c[n] = all
  /\ \A k \in 1 .. n : c[k] = c[k - 1] \o d[k]

LEMMA JoinedUp ==
  ASSUME NEW n \in Nat, NEW d, NEW g, Joins(n, d, g)
  PROVE  \E c : Chained(n, d, g[1 .. n], c)
<1> DEFINE c == [k \in 0 .. n |-> g[1 .. k]]
<1>1. \A s \in SUBSET (1 .. n) : g[s] = Joined(d, g, s)
  BY DEF Joins
<1>2. c[0] = <<>>
  <2>1. 0 \in 0 .. n /\ 1 .. 0 = {} /\ {} \in SUBSET (1 .. n)
    OBVIOUS
  <2>2. g[{}] = <<>>
    BY <1>1, <2>1 DEF Joined
  <2>3. QED
    BY <2>1, <2>2
<1>3. ASSUME NEW k \in 1 .. n PROVE c[k] = c[k - 1] \o d[k]
  <2>1. /\ 1 .. k \in SUBSET (1 .. n) /\ 1 .. k # {} /\ (1 .. k) \ {k} = 1 .. k - 1
        /\ k \in 0 .. n /\ k - 1 \in 0 .. n /\ k - 1 \in Nat /\ k - 1 + 1 = k
        /\ 1 .. k \in SUBSET (1 .. k - 1 + 1) /\ k - 1 + 1 \in 1 .. k
    <3>1. k \in 0 .. n /\ k - 1 \in 0 .. n /\ k - 1 \in Nat /\ k - 1 + 1 = k /\ k \in 1 .. k
      OBVIOUS
    <3>2. \A x \in 1 .. k : x \in 1 .. n
      OBVIOUS
    <3>3. (1 .. k) \ {k} = 1 .. k - 1
      BY <3>1
    <3>4. QED
      BY <3>1, <3>2, <3>3
  <2>2. Max(1 .. k) = k
    BY <2>1, MaxBounds
  <2>3. g[1 .. k] = g[(1 .. k) \ {Max(1 .. k)}] \o d[Max(1 .. k)]
    BY <1>1, <2>1 DEF Joined
  <2>4. g[1 .. k] = g[1 .. k - 1] \o d[k]
    BY <2>1, <2>2, <2>3
  <2>5. QED
    BY <2>1, <2>4
<1>4. c[n] = g[1 .. n]
  OBVIOUS
<1> HIDE DEF c
<1>5. Chained(n, d, g[1 .. n], c)
  BY <1>2, <1>3, <1>4 DEF Chained
<1>6. QED
  BY <1>5

(* The cells of the first k tests.                                         *)
LEMMA CellsJoined ==
  ASSUME NEW ts, NEW n \in Nat, DOMAIN ts = 1 .. n
  PROVE  \E c : /\ c[0] = <<>>
                /\ \A k \in 1 .. n : c[k] = c[k - 1] \o TestCells(ts[k])
                /\ FoldLeft(LAMBDA cells, t : cells \o TestCells(t), <<>>, ts) = c[n]
<1> DEFINE iter == CHOOSE g : g = [s \in SUBSET (DOMAIN ts) |->
                      IF s = {} THEN <<>>
                      ELSE g[s \ {Max(s)}] \o TestCells(ts[Max(s)])]
           d == [k \in 1 .. n |-> TestCells(ts[k])]
<1>1. FoldLeft(LAMBDA cells, t : cells \o TestCells(t), <<>>, ts) = iter[DOMAIN ts]
  BY DEF FoldLeft, MapThenFoldSet
<1>2. PICK g : g = [s \in SUBSET (1 .. n) |-> Joined(d, g, s)]
  BY FoldExists, Zenon
<1>3. \A h : \A s \in SUBSET (1 .. n) :
        Joined(d, h, s) = IF s = {} THEN <<>> ELSE h[s \ {Max(s)}] \o TestCells(ts[Max(s)])
  <2>1. ASSUME NEW s \in SUBSET (1 .. n), s # {} PROVE d[Max(s)] = TestCells(ts[Max(s)])
    <3>1. \E x \in s : \A y \in s : x >= y
      BY <2>1, LargestIndex
    <3>2. Max(s) \in 1 .. n
      BY <3>1 DEF Max
    <3> QED
      BY <3>2
  <2> HIDE DEF d
  <2>2. QED
    BY <2>1 DEF Joined
<1> HIDE DEF d
<1>4. g = [s \in SUBSET (DOMAIN ts) |->
             IF s = {} THEN <<>> ELSE g[s \ {Max(s)}] \o TestCells(ts[Max(s)])]
  BY <1>2, <1>3
<1>5. iter = [s \in SUBSET (DOMAIN ts) |->
                IF s = {} THEN <<>> ELSE iter[s \ {Max(s)}] \o TestCells(ts[Max(s)])]
  BY <1>4, Zenon
<1> HIDE DEF iter
<1>6. PICK h : h = iter
  OBVIOUS
<1>7. Joins(n, d, h)
  BY <1>3, <1>5, <1>6 DEF Joins
<1>c. PICK c : Chained(n, d, h[1 .. n], c)
  BY <1>7, JoinedUp
<1>8. /\ c[0] = <<>> /\ c[n] = h[1 .. n]
      /\ \A k \in 1 .. n : c[k] = c[k - 1] \o d[k]
  BY <1>c DEF Chained
<1>9. c[n] = iter[DOMAIN ts] /\ \A k \in 1 .. n : c[k] = c[k - 1] \o TestCells(ts[k])
  BY <1>6, <1>8 DEF d
<1>10. QED
  BY <1>1, <1>8, <1>9, Zenon

(* The lists of the first k items of a file manager.                       *)
LEMMA ListsJoined ==
  ASSUME NEW ts, NEW n \in Nat, DOMAIN ts = 1 .. n
  PROVE  \E c : /\ c[0] = <<>>
                /\ \A k \in 1 .. n : c[k] = c[k - 1] \o ListsOf(ts[k])
                /\ FoldLeft(LAMBDA lists, item : lists \o ListsOf(item), <<>>, ts) = c[n]
<1> DEFINE iter == CHOOSE g : g = [s \in SUBSET (DOMAIN ts) |->
                      IF s = {} THEN <<>>
                      ELSE g[s \ {Max(s)}] \o ListsOf(ts[Max(s)])]
           d == [k \in 1 .. n |-> ListsOf(ts[k])]
<1>1. FoldLeft(LAMBDA lists, item : lists \o ListsOf(item), <<>>, ts) = iter[DOMAIN ts]
  BY DEF FoldLeft, MapThenFoldSet
<1>2. PICK g : g = [s \in SUBSET (1 .. n) |-> Joined(d, g, s)]
  BY FoldExists, Zenon
<1>3. \A h : \A s \in SUBSET (1 .. n) :
        Joined(d, h, s) = IF s = {} THEN <<>> ELSE h[s \ {Max(s)}] \o ListsOf(ts[Max(s)])
  <2>1. ASSUME NEW s \in SUBSET (1 .. n), s # {} PROVE d[Max(s)] = ListsOf(ts[Max(s)])
    <3>1. \E x \in s : \A y \in s : x >= y
      BY <2>1, LargestIndex
    <3>2. Max(s) \in 1 .. n
      BY <3>1 DEF Max
    <3> QED
      BY <3>2
  <2> HIDE DEF d
  <2>2. QED
    BY <2>1 DEF Joined
<1> HIDE DEF d
<1>4. g = [s \in SUBSET (DOMAIN ts) |->
             IF s = {} THEN <<>> ELSE g[s \ {Max(s)}] \o ListsOf(ts[Max(s)])]
  BY <1>2, <1>3
<1>5. iter = [s \in SUBSET (DOMAIN ts) |->
                IF s = {} THEN <<>> ELSE iter[s \ {Max(s)}] \o ListsOf(ts[Max(s)])]
  BY <1>4, Zenon
<1> HIDE DEF iter
<1>6. PICK h : h = iter
  OBVIOUS
<1>7. Joins(n, d, h)
  BY <1>3, <1>5, <1>6 DEF Joins
<1>c. PICK c : Chained(n, d, h[1 .. n], c)
  BY <1>7, JoinedUp
<1>8. /\ c[0] = <<>> /\ c[n] = h[1 .. n]
      /\ \A k \in 1 .. n : c[k] = c[k - 1] \o d[k]
  BY <1>c DEF Chained
<1>9. c[n] = iter[DOMAIN ts] /\ \A k \in 1 .. n : c[k] = c[k - 1] \o ListsOf(ts[k])
  BY <1>6, <1>8 DEF d
<1>10. QED
  BY <1>1, <1>8, <1>9, Zenon

-----------------------------------------------------------------------------
(* A file: its header, and where each of its tests begins.                 *)
TestHeader(t) == [kind |-> "test", test |-> t]

Laid(cells, ts, pos) ==
  /\ Len(cells) \in Nat \ {0} /\ cells[1] = ListHeader(ts)
  /\ pos \in [1 .. Len(ts) + 1 -> Nat] /\ pos[1] = 2 /\ pos[Len(ts) + 1] = Len(cells) + 1
  /\ \A i \in 1 .. Len(ts) :
       /\ pos[i + 1] = pos[i] + ts[i].size /\ pos[i] <= Len(cells)
       /\ cells[pos[i]] = TestHeader(ts[i])

LEMMA CellsOfTest ==
  ASSUME NEW t \in Test, NEW Cell, TestHeader(t) \in Cell, Payload \in Cell
  PROVE  /\ TestCells(t) \in Seq(Cell) /\ Len(TestCells(t)) = t.size
         /\ TestCells(t)[1] = TestHeader(t)
<1> DEFINE body == [k \in 1 .. t.size - 1 |-> Payload]
           head == <<TestHeader(t)>>
<1>1. t.size \in Nat \ {0}
  BY DEF Test
<1>2. body \in Seq(Cell) /\ Len(body) = t.size - 1
  <2>1. body \in [1 .. t.size - 1 -> Cell] /\ t.size - 1 \in Nat
    BY <1>1
  <2>2. body \in Seq(Cell)
    BY <2>1, SeqDef
  <2>3. QED
    BY <2>1, <2>2, LenProperties
<1>3. head \in Seq(Cell) /\ Len(head) = 1 /\ head[1] = TestHeader(t)
  OBVIOUS
<1>4. TestCells(t) = head \o body
  BY DEF TestCells, TestHeader
<1> HIDE DEF head, body
<1>5. /\ head \o body \in Seq(Cell) /\ Len(head \o body) = Len(head) + Len(body)
      /\ \A j \in 1 .. Len(head) + Len(body) :
           (head \o body)[j] = IF j <= Len(head) THEN head[j] ELSE body[j - Len(head)]
  BY <1>2, <1>3, ConcatProperties
<1>6. (head \o body)[1] = head[1]
  <2>1. 1 \in 1 .. Len(head) + Len(body) /\ 1 <= Len(head)
    BY <1>1, <1>2, <1>3
  <2>2. QED
    BY <1>5, <2>1
<1>7. Len(head \o body) = t.size
  BY <1>1, <1>2, <1>3, <1>5
<1>8. QED
  BY <1>3, <1>4, <1>5, <1>6, <1>7

LEMMA FileLaid ==
  ASSUME NEW f \in File
  PROVE  /\ Contents[f] \in Seq(Test)
         /\ \E Cell : Image[f] \in Seq(Cell)
         /\ \E pos : Laid(Image[f], Contents[f], pos)
<1> DEFINE ts == Contents[f]
           n == Len(ts)
           Cell == { TestHeader(t) : t \in Test } \union {Payload, ListHeader(ts)}
<1>1. ts \in Seq(Test) /\ n \in Nat /\ DOMAIN ts = 1 .. n /\ \A k \in 1 .. n : ts[k] \in Test
  <2>1. ts \in Seq(Test)
    BY TlsDownloadAssumption
  <2> HIDE DEF ts
  <2>2. QED
    BY <2>1
<1>2. PICK c : /\ c[0] = <<>>
               /\ \A k \in 1 .. n : c[k] = c[k - 1] \o TestCells(ts[k])
               /\ Image[f] = <<ListHeader(ts)>> \o c[n]
  <2>1. Image[f] = <<ListHeader(ts)>> \o
                     FoldLeft(LAMBDA cells, t : cells \o TestCells(t), <<>>, ts)
    BY TlsDownloadAssumption DEF TlsFile
  <2>2. PICK c : /\ c[0] = <<>>
                 /\ \A k \in 1 .. n : c[k] = c[k - 1] \o TestCells(ts[k])
                 /\ FoldLeft(LAMBDA cells, t : cells \o TestCells(t), <<>>, ts) = c[n]
    BY <1>1, CellsJoined
  <2>3. Image[f] = <<ListHeader(ts)>> \o c[n]
    BY <2>1, <2>2, Zenon
  <2>4. QED
    BY <2>2, <2>3, Zenon
<1>4. \A t \in Test : /\ TestCells(t) \in Seq(Cell) /\ Len(TestCells(t)) = t.size
                      /\ TestCells(t)[1] = TestHeader(t) /\ t.size \in Nat \ {0}
  <2> SUFFICES ASSUME NEW t \in Test
               PROVE  /\ TestCells(t) \in Seq(Cell) /\ Len(TestCells(t)) = t.size
                      /\ TestCells(t)[1] = TestHeader(t) /\ t.size \in Nat \ {0}
    OBVIOUS
  <2>1. TestHeader(t) \in Cell /\ Payload \in Cell
    OBVIOUS
  <2> HIDE DEF Cell
  <2>2. QED
    BY <2>1, CellsOfTest DEF Test
<1>5. ListHeader(ts) \in Cell
  OBVIOUS
<1> HIDE DEF ts, n, Cell
<1> DEFINE Upto(m) ==
      /\ c[m] \in Seq(Cell)
      /\ \A k \in 1 .. m :
           /\ Len(c[k]) = Len(c[k - 1]) + ts[k].size /\ Len(c[k]) <= Len(c[m])
           /\ Len(c[k - 1]) \in Nat /\ Len(c[k]) \in Nat
           /\ c[m][Len(c[k - 1]) + 1] = TestHeader(ts[k])
<1>6. Upto(0)
  BY <1>2
<1>7. ASSUME NEW m \in Nat, m + 1 <= n, Upto(m) PROVE Upto(m + 1)
  <2> DEFINE u == TestCells(ts[m + 1])
  <2>1. m + 1 \in 1 .. n /\ ts[m + 1] \in Test /\ m + 1 - 1 = m
    BY <1>1, <1>7
  <2>2. u \in Seq(Cell) /\ Len(u) = ts[m + 1].size /\ u[1] = TestHeader(ts[m + 1])
        /\ ts[m + 1].size \in Nat \ {0}
    BY <1>4, <2>1
  <2>3. c[m + 1] = c[m] \o u
    <3>1. PICK k \in 1 .. n : k = m + 1
      BY <2>1
    <3>2. c[k] = c[k - 1] \o TestCells(ts[k])
      BY <1>2
    <3>3. k - 1 = m
      BY <3>1
    <3>4. QED
      BY <3>1, <3>2, <3>3 DEF u
  <2>4. c[m] \in Seq(Cell) /\ Len(c[m]) \in Nat
    BY <1>7
  <2> HIDE DEF u
  <2>5. /\ c[m + 1] \in Seq(Cell) /\ Len(c[m + 1]) = Len(c[m]) + Len(u)
        /\ \A j \in 1 .. Len(c[m]) : c[m + 1][j] = c[m][j]
        /\ c[m + 1][Len(c[m]) + 1] = u[1]
    <3>1. /\ c[m] \o u \in Seq(Cell) /\ Len(c[m] \o u) = Len(c[m]) + Len(u)
          /\ \A j \in 1 .. Len(c[m]) + Len(u) :
               (c[m] \o u)[j] = IF j <= Len(c[m]) THEN c[m][j] ELSE u[j - Len(c[m])]
      BY <2>2, <2>4, ConcatProperties
    <3>2. \A j \in 1 .. Len(c[m]) : j \in 1 .. Len(c[m]) + Len(u) /\ j <= Len(c[m])
      BY <2>2, <2>4
    <3>3. /\ Len(c[m]) + 1 \in 1 .. Len(c[m]) + Len(u) /\ ~(Len(c[m]) + 1 <= Len(c[m]))
          /\ Len(c[m]) + 1 - Len(c[m]) = 1
      BY <2>2, <2>4
    <3>4. QED
      BY <2>3, <3>1, <3>2, <3>3
  <2>6. ASSUME NEW k \in 1 .. m + 1
        PROVE  /\ Len(c[k]) = Len(c[k - 1]) + ts[k].size /\ Len(c[k]) <= Len(c[m + 1])
               /\ Len(c[k - 1]) \in Nat /\ Len(c[k]) \in Nat
               /\ c[m + 1][Len(c[k - 1]) + 1] = TestHeader(ts[k])
    <3>1. CASE k = m + 1
      <4>1. /\ Len(c[m + 1]) = Len(c[m]) + ts[m + 1].size /\ Len(c[m + 1]) \in Nat
            /\ c[m + 1][Len(c[m]) + 1] = TestHeader(ts[m + 1])
        BY <2>2, <2>4, <2>5
      <4>2. k - 1 = m
        BY <3>1
      <4>3. QED
        BY <2>4, <3>1, <4>1, <4>2
    <3>2. CASE k # m + 1
      <4>1. k \in 1 .. m
        BY <3>2
      <4>2. ts[k].size \in Nat \ {0}
        <5>1. k \in 1 .. n
          BY <1>1, <1>7, <4>1
        <5>2. QED
          BY <1>1, <1>4, <5>1
      <4>3. /\ Len(c[k]) = Len(c[k - 1]) + ts[k].size /\ Len(c[k]) <= Len(c[m])
            /\ Len(c[k - 1]) \in Nat /\ Len(c[k]) \in Nat
            /\ c[m][Len(c[k - 1]) + 1] = TestHeader(ts[k])
        BY <1>7, <4>1
      <4>4. Len(c[k - 1]) + 1 \in 1 .. Len(c[m]) /\ Len(c[k]) <= Len(c[m + 1])
        <5>1. PICK x \in Nat, y \in Nat : x = Len(c[k - 1]) /\ y = Len(c[k])
          BY <4>3
        <5>2. PICK p \in Nat, z \in Nat, w \in Nat \ {0} : p = Len(c[m]) /\ z = Len(c[m + 1]) /\ w = ts[k].size
          BY <2>2, <2>4, <2>5, <4>2
        <5>3. y = x + w /\ y <= p /\ p <= z
          <6>1. p <= z
            BY <2>2, <2>5, <5>2
          <6>2. QED
            BY <4>3, <5>1, <5>2, <6>1
        <5>4. x + 1 \in 1 .. p /\ y <= z
          BY <5>3
        <5>5. QED
          BY <5>1, <5>2, <5>4
      <4>5. c[m + 1][Len(c[k - 1]) + 1] = TestHeader(ts[k])
        BY <2>5, <4>3, <4>4
      <4>6. QED
        BY <4>3, <4>4, <4>5
    <3>3. QED
      BY <3>1, <3>2
  <2>7. QED
    BY <2>5, <2>6
<1> DEFINE S == { m \in Nat : m <= n => Upto(m) }
<1>8. n \in S
  <2>1. 0 \in S
    BY <1>6
  <2>2. ASSUME NEW m \in S PROVE m + 1 \in S
    <3>1. m \in Nat /\ m + 1 \in Nat /\ (m + 1 <= n => m <= n) /\ (m <= n => Upto(m))
      BY <1>1
    <3> HIDE DEF Upto
    <3>2. m + 1 <= n => Upto(m + 1)
      BY <1>7, <3>1
    <3>3. QED
      BY <3>1, <3>2
  <2>3. S \in SUBSET Nat
    OBVIOUS
  <2> HIDE DEF S
  <2>4. QED
    BY <1>1, <2>1, <2>2, <2>3, SetInduction
<1>9. Upto(n)
  <2>1. n <= n
    BY <1>1
  <2> HIDE DEF Upto
  <2>2. QED
    BY <1>8, <2>1
<1> DEFINE h == <<ListHeader(ts)>>
<1>10. h \in Seq(Cell) /\ Len(h) = 1 /\ h[1] = ListHeader(ts)
  BY <1>5
<1>11. c[n] \in Seq(Cell) /\ Len(c[n]) \in Nat
  BY <1>9
<1>12. /\ Image[f] \in Seq(Cell) /\ Len(Image[f]) = Len(c[n]) + 1
       /\ Image[f][1] = ListHeader(ts)
       /\ \A j \in 1 .. Len(c[n]) : Image[f][j + 1] = c[n][j]
  <2>1. Image[f] = h \o c[n]
    BY <1>2
  <2> HIDE DEF h
  <2>2. /\ h \o c[n] \in Seq(Cell) /\ Len(h \o c[n]) = 1 + Len(c[n])
        /\ \A j \in 1 .. 1 + Len(c[n]) : (h \o c[n])[j] = IF j <= 1 THEN h[j] ELSE c[n][j - 1]
    <3>1. /\ h \o c[n] \in Seq(Cell) /\ Len(h \o c[n]) = Len(h) + Len(c[n])
          /\ \A j \in 1 .. Len(h) + Len(c[n]) :
               (h \o c[n])[j] = IF j <= Len(h) THEN h[j] ELSE c[n][j - Len(h)]
      BY <1>10, <1>11, ConcatProperties
    <3>2. QED
      BY <1>10, <3>1
  <2>3. (h \o c[n])[1] = h[1]
    BY <1>11, <2>2
  <2>4. ASSUME NEW j \in 1 .. Len(c[n]) PROVE (h \o c[n])[j + 1] = c[n][j]
    <3>1. j + 1 \in 1 .. 1 + Len(c[n]) /\ ~(j + 1 <= 1) /\ j + 1 - 1 = j
      BY <1>11
    <3>2. QED
      BY <2>2, <3>1
  <2>5. QED
    BY <1>10, <1>11, <2>1, <2>2, <2>3, <2>4
<1> DEFINE pos == [k \in 1 .. n + 1 |-> Len(c[k - 1]) + 2]
<1>13. Laid(Image[f], ts, pos)
  <2>1. \A k \in 0 .. n : Len(c[k]) \in Nat
    <3>1. \A k \in 1 .. n : Len(c[k]) \in Nat
      BY <1>9
    <3>2. Len(c[0]) \in Nat
      BY <1>2
    <3>3. QED
      BY <3>1, <3>2
  <2>2. \A k \in 1 .. n + 1 : pos[k] = Len(c[k - 1]) + 2 /\ k - 1 \in 0 .. n
    BY <1>1
  <2>3. pos \in [1 .. n + 1 -> Nat]
    BY <2>1, <2>2
  <2> HIDE DEF pos
  <2>4. pos[1] = 2
    <3>1. 1 \in 1 .. n + 1 /\ 1 - 1 = 0 /\ Len(c[0]) = 0
      BY <1>1, <1>2
    <3>2. QED
      BY <2>2, <3>1
  <2>5. pos[n + 1] = Len(Image[f]) + 1
    <3>1. n + 1 \in 1 .. n + 1 /\ n + 1 - 1 = n
      BY <1>1
    <3>2. pos[n + 1] = Len(c[n]) + 2
      <4>1. PICK k \in 1 .. n + 1 : k = n + 1
        BY <3>1
      <4>2. pos[k] = Len(c[k - 1]) + 2 /\ k - 1 = n
        BY <1>1, <2>2, <4>1
      <4>3. QED
        BY <4>1, <4>2
    <3>3. QED
      BY <1>11, <1>12, <3>2
  <2>6. ASSUME NEW i \in 1 .. n
        PROVE  /\ pos[i + 1] = pos[i] + ts[i].size /\ pos[i] <= Len(Image[f])
               /\ Image[f][pos[i]] = TestHeader(ts[i])
    <3>1. i \in 1 .. n + 1 /\ i + 1 \in 1 .. n + 1 /\ i + 1 - 1 = i
      BY <1>1
    <3>2. pos[i] = Len(c[i - 1]) + 2 /\ pos[i + 1] = Len(c[i]) + 2
      BY <2>2, <3>1
    <3>3. /\ Len(c[i]) = Len(c[i - 1]) + ts[i].size /\ Len(c[i]) <= Len(c[n])
          /\ Len(c[i - 1]) \in Nat /\ Len(c[i]) \in Nat /\ ts[i].size \in Nat \ {0}
          /\ c[n][Len(c[i - 1]) + 1] = TestHeader(ts[i])
      BY <1>1, <1>4, <1>9
    <3>a. PICK x \in Nat, y \in Nat, z \in Nat, w \in Nat \ {0} :
            x = Len(c[i - 1]) /\ y = Len(c[i]) /\ z = Len(c[n]) /\ w = ts[i].size
      BY <1>11, <3>3
    <3>b. y = x + w /\ y <= z /\ pos[i] = x + 2 /\ pos[i + 1] = y + 2 /\ Len(Image[f]) = z + 1
      BY <1>12, <3>2, <3>3, <3>a
    <3>c. x + 1 \in 1 .. z /\ x + 1 + 1 = pos[i] /\ pos[i + 1] = pos[i] + w /\ pos[i] <= z + 1
      BY <3>b
    <3>4. Len(c[i - 1]) + 1 \in 1 .. Len(c[n]) /\ Len(c[i - 1]) + 1 + 1 = pos[i]
      BY <3>a, <3>c
    <3>5. Image[f][pos[i]] = TestHeader(ts[i])
      BY <1>12, <3>3, <3>4
    <3>6. pos[i + 1] = pos[i] + ts[i].size /\ pos[i] <= Len(Image[f])
      BY <3>a, <3>b, <3>c
    <3>7. QED
      BY <3>5, <3>6
  <2>7. Len(Image[f]) \in Nat \ {0}
    BY <1>11, <1>12
  <2>8. QED
    BY <1>12, <2>3, <2>4, <2>5, <2>6, <2>7 DEF Laid, n
<1>14. QED
  BY <1>1, <1>12, <1>13 DEF ts

-----------------------------------------------------------------------------
(* A walk that follows a function from address to address goes where the   *)
(* addresses lead that are known to follow one another.                    *)
Follows(p, g, lo, hi) == \A k \in lo + 1 .. hi : p[k] = g[p[k - 1]]

WalkIs(w, g, lo, hi, from) ==
  w = [k \in lo .. hi |-> IF k = lo THEN from ELSE g[w[k - 1]]]

LEMMA WalkExists ==
  ASSUME NEW g, NEW lo \in Nat, NEW hi \in Nat, NEW p, Follows(p, g, lo, hi)
  PROVE  \E w : WalkIs(w, g, lo, hi, p[lo])
<1> DEFINE q == [k \in lo .. hi |-> p[k]]
<1>1. ASSUME NEW k \in lo .. hi PROVE p[k] = IF k = lo THEN p[lo] ELSE g[q[k - 1]]
  <2>1. k # lo => k \in lo + 1 .. hi /\ k - 1 \in lo .. hi
    OBVIOUS
  <2>2. k # lo => q[k - 1] = p[k - 1]
    BY <2>1
  <2>3. QED
    BY <2>1, <2>2 DEF Follows
<1>2. \A k \in lo .. hi : q[k] = IF k = lo THEN p[lo] ELSE g[q[k - 1]]
  BY <1>1
<1>3. q = [k \in lo .. hi |-> q[k]]
  OBVIOUS
<1> HIDE DEF q
<1>4. WalkIs(q, g, lo, hi, p[lo])
  BY <1>2, <1>3 DEF WalkIs
<1>5. QED
  BY <1>4

LEMMA Walked ==
  ASSUME NEW g, NEW lo \in Nat, NEW hi \in Nat, lo <= hi, NEW p, Follows(p, g, lo, hi),
         NEW w, WalkIs(w, g, lo, hi, p[lo])
  PROVE  w[hi] = p[hi]
<1> DEFINE S == { d \in Nat : lo + d <= hi => w[lo + d] = p[lo + d] }
<1>1. \A k \in lo .. hi : w[k] = IF k = lo THEN p[lo] ELSE g[w[k - 1]]
  BY DEF WalkIs
<1>2. 0 \in S
  <2>1. lo + 0 = lo /\ lo \in lo .. hi
    OBVIOUS
  <2>2. QED
    BY <1>1, <2>1
<1>3. ASSUME NEW d \in S PROVE d + 1 \in S
  <2>1. ASSUME lo + (d + 1) <= hi PROVE w[lo + (d + 1)] = p[lo + (d + 1)]
    <3>1. PICK k \in lo + 1 .. hi : k = lo + (d + 1)
      BY <2>1
    <3>2. k - 1 = lo + d /\ k # lo /\ k \in lo .. hi /\ lo + d <= hi
      BY <3>1
    <3>3. w[k] = g[w[k - 1]] /\ w[k - 1] = p[k - 1]
      BY <1>1, <3>2
    <3>4. p[k] = g[p[k - 1]]
      BY DEF Follows
    <3>5. QED
      BY <3>1, <3>3, <3>4
  <2>2. QED
    BY <2>1
<1>4. hi - lo \in S
  <2>1. S \in SUBSET Nat /\ hi - lo \in Nat
    OBVIOUS
  <2> HIDE DEF S
  <2>2. QED
    BY <1>2, <1>3, <2>1, SetInduction
<1>5. lo + (hi - lo) = hi /\ hi <= hi
  OBVIOUS
<1>6. QED
  BY <1>4, <1>5

(* A file as it lies in memory, with the size of its transfer.             *)
Holds(f, a) == \A j \in 1 .. Len(Image[f]) : mem[a + j - 1] = Resized(f)[j]

LEMMA ListRead ==
  ASSUME DOMAIN mem = 1 .. Top, NEW f \in File, NEW a \in Nat \ {0},
         a + Len(Image[f]) <= Top + 1, Holds(f, a)
  PROVE  /\ a \in DOMAIN mem /\ Len(Image[f]) \in Nat \ {0}
         /\ next_tls[a] = a + Len(Image[f]) /\ BehindList[a] = a + Len(Image[f])
         /\ ListAt[a] = Contents[f]
<1> DEFINE ts == Contents[f]
           n == Len(ts)
           l == Len(Image[f])
<1>1. PICK pos : Laid(Image[f], ts, pos)
  BY FileLaid
<1>2. ts \in Seq(Test) /\ n \in Nat /\ l \in Nat \ {0} /\ Top \in Nat
      /\ Image[f][1] = ListHeader(ts)
      /\ \A i \in 1 .. n : ts[i] \in Test /\ ts[i].size \in Nat \ {0}
  <2>1. ts \in Seq(Test) /\ Top \in Nat
    BY FileLaid, TlsDownloadAssumption
  <2>2. l \in Nat \ {0} /\ Image[f][1] = ListHeader(ts)
    BY <1>1 DEF Laid
  <2>3. \A t \in Test : t.size \in Nat \ {0}
    BY DEF Test
  <2> HIDE DEF ts, l
  <2>4. n \in Nat /\ \A i \in 1 .. n : ts[i] \in Test
    BY <2>1
  <2>5. QED
    BY <2>1, <2>2, <2>3, <2>4
<1>3. PICK Cell : Image[f] \in Seq(Cell)
  BY FileLaid
<1>4. /\ a \in DOMAIN mem
      /\ mem[a].kind = "list" /\ mem[a].tests = n /\ mem[a].size = l
  <2>1. 1 \in 1 .. l /\ a + 1 - 1 = a /\ a \in 1 .. Top
    BY <1>2
  <2>2. mem[a] = Resized(f)[1]
    BY <2>1 DEF Holds
  <2>3. Resized(f)[1] = [ListHeader(ts) EXCEPT !.size = l]
    BY <1>2, <1>3, <2>1 DEF Resized
  <2>4. QED
    BY <2>1, <2>2, <2>3 DEF ListHeader
<1>5. ASSUME NEW j \in 2 .. l PROVE a + j - 1 \in 1 .. Top /\ mem[a + j - 1] = Image[f][j]
  <2>1. j \in 1 .. l /\ j # 1 /\ a + j - 1 \in 1 .. Top
    BY <1>2
  <2>2. mem[a + j - 1] = Resized(f)[j]
    BY <2>1 DEF Holds
  <2>3. Resized(f)[j] = Image[f][j]
    BY <1>3, <2>1 DEF Resized
  <2>4. QED
    BY <2>1, <2>2, <2>3
<1> HIDE DEF ts, n, l
<1>6. /\ pos \in [1 .. n + 1 -> Nat] /\ pos[1] = 2 /\ pos[n + 1] = l + 1
      /\ \A i \in 1 .. n : /\ pos[i + 1] = pos[i] + ts[i].size /\ pos[i] <= l
                           /\ Image[f][pos[i]] = TestHeader(ts[i])
  BY <1>1 DEF Laid, n, l
<1> DEFINE p == [i \in 1 .. n + 1 |-> a + pos[i] - 1]
<1>7. \A i \in 1 .. n + 1 : pos[i] >= 2 /\ pos[i] \in Nat
  <2> DEFINE S == { d \in Nat : d + 1 \in 1 .. n + 1 => pos[d + 1] >= 2 }
  <2>1. 0 \in S
    BY <1>6
  <2>2. ASSUME NEW d \in S PROVE d + 1 \in S
    <3>1. ASSUME d + 1 + 1 \in 1 .. n + 1 PROVE pos[d + 1 + 1] >= 2
      <4>1. d + 1 \in 1 .. n /\ d + 1 \in 1 .. n + 1
        BY <1>2, <3>1
      <4>2. pos[d + 1 + 1] = pos[d + 1] + ts[d + 1].size /\ ts[d + 1].size \in Nat /\ pos[d + 1] >= 2
            /\ pos[d + 1] \in Nat
        BY <1>2, <1>6, <4>1
      <4>3. QED
        BY <4>2
    <3>2. QED
      BY <3>1
  <2>3. S = Nat
    <3>1. S \in SUBSET Nat
      OBVIOUS
    <3> HIDE DEF S
    <3>2. QED
      BY <2>1, <2>2, <3>1, SetInduction
  <2>4. ASSUME NEW i \in 1 .. n + 1 PROVE pos[i] >= 2 /\ pos[i] \in Nat
    <3>1. i - 1 \in Nat /\ i - 1 + 1 = i
      BY <1>2
    <3>2. i - 1 \in S
      BY <2>3, <3>1
    <3>3. QED
      BY <1>6, <3>1, <3>2
  <2>5. QED
    BY <2>4
<1>8. ASSUME NEW i \in 1 .. n
      PROVE  /\ p[i] \in 1 .. Top /\ TestAt(p[i]) = ts[i] /\ p[i + 1] = BehindTest[p[i]]
  <2>1. i \in 1 .. n + 1 /\ i + 1 \in 1 .. n + 1
    BY <1>2
  <2>2. pos[i] \in 2 .. l
    BY <1>2, <1>6, <1>7, <2>1
  <2>3. p[i] = a + pos[i] - 1 /\ p[i + 1] = a + pos[i + 1] - 1
    BY <2>1
  <2>4. p[i] \in 1 .. Top /\ mem[p[i]] = TestHeader(ts[i])
    BY <1>5, <1>6, <2>2, <2>3
  <2>5. TestAt(p[i]) = ts[i]
    BY <2>4 DEF TestAt, TestHeader
  <2>6. BehindTest[p[i]] = p[i] + ts[i].size
    BY <2>4, <2>5 DEF BehindTest
  <2>7. p[i + 1] = p[i] + ts[i].size
    <3>1. PICK x \in Nat, w \in Nat : x = pos[i] /\ w = ts[i].size
      BY <1>2, <2>2
    <3>2. pos[i + 1] = x + w
      BY <1>6, <3>1
    <3>3. QED
      BY <2>3, <3>1, <3>2
  <2>8. QED
    BY <2>4, <2>5, <2>6, <2>7
<1>9. ASSUME NEW i \in 1 .. n + 1 PROVE TestAddr(a, i) = p[i]
  <2>1. i \in Nat /\ 1 <= i /\ i <= n + 1
    BY <1>2
  <2>2. p[1] = a + 1
    BY <1>2, <1>6
  <2>3. \A k \in 1 + 1 .. i : p[k] = BehindTest[p[k - 1]]
    <3>1. \A k \in 1 + 1 .. i : k - 1 \in 1 .. n /\ k - 1 + 1 = k
      BY <1>2
    <3>2. QED
      BY <1>8, <3>1
  <2> HIDE DEF p
  <2> DEFINE w == CHOOSE w : w = [k \in 1 .. i |-> IF k = 1 THEN a + 1 ELSE BehindTest[w[k - 1]]]
  <2>4. TestAddr(a, i) = w[i]
    BY DEF TestAddr
  <2> HIDE DEF w
  <2>5. 1 \in Nat /\ Follows(p, BehindTest, 1, i)
    BY <2>3 DEF Follows
  <2>6. PICK v : WalkIs(v, BehindTest, 1, i, p[1])
    BY <2>1, <2>5, WalkExists
  <2>7. v = [k \in 1 .. i |-> IF k = 1 THEN a + 1 ELSE BehindTest[v[k - 1]]]
    BY <2>2, <2>6 DEF WalkIs
  <2>8. w = [k \in 1 .. i |-> IF k = 1 THEN a + 1 ELSE BehindTest[w[k - 1]]]
    BY <2>7, Zenon DEF w
  <2>9. WalkIs(w, BehindTest, 1, i, p[1])
    BY <2>2, <2>8 DEF WalkIs
  <2>10. QED
    BY <2>1, <2>4, <2>5, <2>9, Walked
<1>10. next_tls[a] = a + l
  BY <1>4 DEF next_tls, SizeAt
<1>11. TestsAt(a) = n
  BY <1>4 DEF TestsAt
<1>12. BehindList[a] = a + l
  <2>1. BehindList[a] = TestAddr(a, n + 1)
    BY <1>4, <1>11 DEF BehindList
  <2>2. n + 1 \in 1 .. n + 1
    BY <1>2
  <2>3. p[n + 1] = a + pos[n + 1] - 1
    BY <2>2
  <2>4. QED
    BY <1>2, <1>6, <1>9, <2>1, <2>2, <2>3
<1>13. ListAt[a] = ts
  <2>1. ListAt[a] = [i \in 1 .. n |-> TestAt(TestAddr(a, i))]
    BY <1>4, <1>11 DEF ListAt
  <2>2. \A i \in 1 .. n : TestAt(TestAddr(a, i)) = ts[i]
    <3>1. \A i \in 1 .. n : i \in 1 .. n + 1
      BY <1>2
    <3>2. QED
      BY <1>8, <1>9, <3>1
  <2>3. ts = [i \in 1 .. n |-> ts[i]]
    BY <1>2 DEF n
  <2>4. QED
    BY <2>1, <2>2, <2>3
<1>14. QED
  BY <1>2, <1>4, <1>10, <1>12, <1>13 DEF ts, l

-----------------------------------------------------------------------------
(* The lists loaded, one behind the other from the base address on.        *)
Placed(fs, ps) ==
  /\ fs \in [1 .. entries -> File] /\ ps \in [1 .. entries + 1 -> Nat] /\ ps[1] = base
  /\ \A k \in 1 .. entries : ps[k + 1] = ps[k] + Len(Image[fs[k]]) /\ Holds(fs[k], ps[k])

DirInv ==
  /\ DOMAIN mem = 1 .. Top /\ entries \in 0 .. MaxLists
  /\ at # "uboot" => base \in Bases
  /\ entries # 0 => base = ram /\ base \in Bases
  /\ \E fs, ps : Placed(fs, ps)

LEMMA FileLength == \A f \in File : Len(Image[f]) \in Nat \ {0}
BY FileLaid DEF Laid

LEMMA Multiples ==
  ASSUME NEW n \in Nat, NEW k \in Nat, NEW s \in Nat
  PROVE  /\ n * s \in Nat /\ (n + 1) * s = n * s + s
         /\ n <= k => n * s <= k * s
<1>1. n * s \in Nat /\ (n + 1) * s = n * s + s
  OBVIOUS
<1>2. ASSUME n <= k PROVE n * s <= k * s
  <2>1. PICK d \in Nat : k = n + d
    BY <1>2
  <2>2. (n + d) * s = n * s + d * s /\ d * s \in Nat /\ n * s \in Nat
    OBVIOUS
  <2>3. QED
    BY <2>1, <2>2
<1>3. QED
  BY <1>1, <1>2

(* What lies one behind the other, nothing longer than size.               *)
LEMMA Stacked ==
  ASSUME NEW n \in Nat, NEW size \in Nat, NEW ps \in [1 .. n + 1 -> Nat], NEW len,
         \A k \in 1 .. n : len[k] \in Nat /\ len[k] <= size /\ ps[k + 1] = ps[k] + len[k]
  PROVE  \A k \in 1 .. n + 1 :
           /\ ps[1] <= ps[k] /\ ps[k] <= ps[1] + (k - 1) * size
           /\ ps[k] <= ps[n + 1]
<1>1. ASSUME NEW k \in 1 .. n + 1 PROVE ps[1] <= ps[k] /\ ps[k] <= ps[1] + (k - 1) * size
  <2> DEFINE Low(d) == ps[1] <= ps[d + 1] /\ ps[d + 1] <= ps[1] + d * size
             S == { d \in Nat : d <= n => Low(d) }
  <2>1. 0 \in S
    <3>1. 0 + 1 = 1 /\ 1 \in 1 .. n + 1 /\ 0 * size = 0
      OBVIOUS
    <3>2. ps[1] \in Nat
      BY <3>1
    <3>3. QED
      BY <3>1, <3>2
  <2>2. ASSUME NEW d \in S PROVE d + 1 \in S
    <3>1. ASSUME d + 1 <= n PROVE Low(d + 1)
      <4>1. PICK j \in 1 .. n : j = d + 1
        BY <3>1
      <4>2. d \in Nat /\ d <= n /\ j \in 1 .. n + 1 /\ j + 1 \in 1 .. n + 1 /\ 1 \in 1 .. n + 1
        BY <4>1
      <4>3. PICK x \in Nat, l \in Nat, b \in Nat :
              x = ps[j] /\ l = len[j] /\ b = ps[1] /\ l <= size /\ ps[j + 1] = x + l
        BY <4>2
      <4>4. PICK p \in Nat, q \in Nat : p = d * size /\ q = (d + 1) * size /\ q = p + size
        BY <4>2, Multiples
      <4>5. b <= x /\ x <= b + p
        BY <4>1, <4>2, <4>3, <4>4
      <4>6. b <= x + l /\ x + l <= b + q
        BY <4>3, <4>4, <4>5
      <4>7. QED
        BY <4>1, <4>3, <4>4, <4>6
    <3> HIDE DEF Low
    <3>2. QED
      BY <3>1
  <2>3. S = Nat
    <3>1. S \in SUBSET Nat
      OBVIOUS
    <3> HIDE DEF S
    <3>2. QED
      BY <2>1, <2>2, <3>1, SetInduction
  <2>4. PICK d \in Nat : k = d + 1 /\ d <= n /\ k - 1 = d
    <3>1. k - 1 \in Nat /\ k = k - 1 + 1 /\ k - 1 <= n
      OBVIOUS
    <3>2. QED
      BY <3>1
  <2>5. Low(d)
    BY <2>3, <2>4
  <2>6. QED
    BY <2>4, <2>5
<1>2. ASSUME NEW k \in 1 .. n + 1 PROVE ps[k] <= ps[n + 1]
  <2> DEFINE S == { d \in Nat : d <= n => ps[n + 1 - d] <= ps[n + 1] }
  <2>1. 0 \in S
    <3>1. n + 1 - 0 = n + 1 /\ n + 1 \in 1 .. n + 1
      OBVIOUS
    <3>2. ps[n + 1] \in Nat
      BY <3>1
    <3>3. QED
      BY <3>1, <3>2
  <2>2. ASSUME NEW d \in S PROVE d + 1 \in S
    <3>1. ASSUME d + 1 <= n PROVE ps[n + 1 - (d + 1)] <= ps[n + 1]
      <4>1. PICK j \in 1 .. n : j = n - d
        BY <3>1
      <4>2. j = n + 1 - (d + 1) /\ j + 1 = n + 1 - d /\ d <= n /\ d \in Nat
            /\ j \in 1 .. n + 1 /\ n + 1 \in 1 .. n + 1
        BY <3>1, <4>1
      <4>3. ps[j + 1] <= ps[n + 1]
        BY <4>2
      <4>4. PICK x \in Nat, l \in Nat, t \in Nat :
              x = ps[j] /\ l = len[j] /\ t = ps[n + 1] /\ ps[j + 1] = x + l
        BY <4>2
      <4>5. x <= t
        BY <4>3, <4>4
      <4>6. QED
        BY <4>2, <4>4, <4>5
    <3>2. QED
      BY <3>1
  <2>3. S = Nat
    <3>1. S \in SUBSET Nat
      OBVIOUS
    <3> HIDE DEF S
    <3>2. QED
      BY <2>1, <2>2, <3>1, SetInduction
  <2>4. PICK d \in Nat : d = n + 1 - k /\ d <= n /\ n + 1 - d = k
    <3>1. n + 1 - k \in Nat /\ n + 1 - k <= n /\ n + 1 - (n + 1 - k) = k
      OBVIOUS
    <3>2. QED
      BY <3>1
  <2>5. ps[n + 1 - d] <= ps[n + 1]
    BY <2>3, <2>4
  <2>6. QED
    BY <2>4, <2>5
<1>3. QED
  BY <1>1, <1>2

LEMMA Sizes ==
  /\ MaxLists \in Nat /\ Top \in Nat /\ Bases \subseteq Nat \ {0}
  /\ \E size \in Nat : /\ \A f \in File : Len(Image[f]) <= size
                       /\ \A b \in Bases : b + MaxLists * size <= Top + 1
<1>1. MaxLists \in Nat /\ Top \in Nat /\ Bases \subseteq 1 .. Top
  BY TlsDownloadAssumption
<1>2. Bases \subseteq Nat \ {0}
  BY <1>1
<1>3. PICK size \in 0 .. Top : /\ \A f \in File : Len(Image[f]) <= size
                               /\ \A b \in Bases : b + MaxLists * size <= Top + 1
  BY TlsDownloadAssumption
<1>4. size \in Nat
  BY <1>1
<1>5. QED
  BY <1>1, <1>2, <1>3, <1>4

(* They fit into the memory of the model, and so does one more.            *)
LEMMA PlacedFits ==
  ASSUME DirInv, base \in Bases, NEW fs, NEW ps, Placed(fs, ps)
  PROVE  \A k \in 1 .. entries + 1 :
           /\ ps[k] \in Nat \ {0} /\ ps[k] <= ps[entries + 1]
           /\ \A f \in File : k <= MaxLists => ps[k] + Len(Image[f]) <= Top + 1
<1>1. entries \in Nat /\ entries <= MaxLists
  BY Sizes DEF DirInv
<1>2. /\ fs \in [1 .. entries -> File] /\ ps \in [1 .. entries + 1 -> Nat] /\ ps[1] = base
      /\ \A k \in 1 .. entries : ps[k + 1] = ps[k] + Len(Image[fs[k]])
  BY DEF Placed
<1>3. PICK size \in Nat : /\ \A f \in File : Len(Image[f]) <= size
                          /\ base + MaxLists * size <= Top + 1
  BY Sizes
<1>4. PICK n \in Nat : n = entries
  BY <1>1
<1> DEFINE len == [k \in 1 .. n |-> Len(Image[fs[k]])]
<1>5. \A k \in 1 .. n : len[k] \in Nat /\ len[k] <= size /\ ps[k + 1] = ps[k] + len[k]
  BY <1>2, <1>3, <1>4, FileLength
<1>6. ps \in [1 .. n + 1 -> Nat]
  BY <1>2, <1>4
<1> HIDE DEF len
<1>7. \A k \in 1 .. n + 1 : ps[1] <= ps[k] /\ ps[k] <= ps[1] + (k - 1) * size /\ ps[k] <= ps[n + 1]
  BY <1>5, <1>6, Stacked
<1>8. ASSUME NEW k \in 1 .. n + 1
      PROVE  /\ ps[k] \in Nat \ {0} /\ ps[k] <= ps[n + 1]
             /\ \A f \in File : k <= MaxLists => ps[k] + Len(Image[f]) <= Top + 1
  <2>1. PICK x \in Nat, b \in Nat \ {0} : x = ps[k] /\ b = base
    BY <1>6, Sizes
  <2>2. b <= x /\ x <= b + (k - 1) * size
    BY <1>2, <1>7, <2>1
  <2>3. ASSUME NEW f \in File, k <= MaxLists PROVE x + Len(Image[f]) <= Top + 1
    <3>1. PICK l \in Nat : l = Len(Image[f]) /\ l <= size
      BY <1>3, FileLength
    <3>2. k - 1 \in Nat /\ k \in Nat /\ k - 1 + 1 = k /\ MaxLists \in Nat /\ Top \in Nat
      BY Sizes
    <3>3. PICK p \in Nat, q \in Nat, m \in Nat :
            p = (k - 1) * size /\ q = k * size /\ m = MaxLists * size /\ q = p + size /\ q <= m
      <4>1. (k - 1) * size \in Nat /\ (k - 1 + 1) * size = (k - 1) * size + size
        BY <3>2, Multiples
      <4>2. k * size \in Nat /\ MaxLists * size \in Nat /\ k * size <= MaxLists * size
        BY <2>3, <3>2, Multiples
      <4>3. QED
        BY <3>2, <4>1, <4>2
    <3>4. x <= b + p /\ b + m <= Top + 1
      BY <1>3, <2>1, <2>2, <3>3
    <3>5. QED
      BY <3>1, <3>2, <3>3, <3>4
  <2>4. QED
    BY <1>7, <2>1, <2>2, <2>3
<1>9. QED
  BY <1>4, <1>8

(* What the walks find.                                                    *)
LEMMA ListsRead ==
  DirInv => \A fs, ps : Placed(fs, ps) =>
    /\ ListsFrom(base, entries) = [k \in 1 .. entries |-> Contents[fs[k]]]
    /\ Behind(entries) = ps[entries + 1]
<1> SUFFICES ASSUME DirInv, NEW fs, NEW ps, Placed(fs, ps)
             PROVE  /\ ListsFrom(base, entries) = [k \in 1 .. entries |-> Contents[fs[k]]]
                    /\ Behind(entries) = ps[entries + 1]
  OBVIOUS
<1>a. entries \in Nat /\ entries <= MaxLists
  BY Sizes DEF DirInv
<1>b. /\ ps \in [1 .. entries + 1 -> Nat] /\ ps[1] = base
      /\ \A k \in 1 .. entries :
           /\ ps[k + 1] = ps[k] + Len(Image[fs[k]]) /\ fs[k] \in File
           /\ Holds(fs[k], ps[k])
  BY DEF Placed
<1>n. PICK n \in Nat : n = entries
  BY <1>a
<1>1. /\ n \in Nat /\ n <= MaxLists
      /\ ps \in [1 .. n + 1 -> Nat] /\ ps[1] = base
      /\ \A k \in 1 .. n : /\ ps[k + 1] = ps[k] + Len(Image[fs[k]]) /\ fs[k] \in File
                           /\ Holds(fs[k], ps[k])
  BY <1>a, <1>b, <1>n
<1>2. ASSUME NEW k \in 1 .. n
      PROVE  /\ next_tls[ps[k]] = ps[k + 1] /\ BehindList[ps[k]] = ps[k + 1]
             /\ ListAt[ps[k]] = Contents[fs[k]]
  <2>1. base \in Bases /\ DOMAIN mem = 1 .. Top
    BY <1>n DEF DirInv
  <2>2. k \in 1 .. entries + 1 /\ k <= MaxLists
    BY <1>n, <1>1, Sizes
  <2>3. fs[k] \in File /\ Holds(fs[k], ps[k]) /\ ps[k + 1] = ps[k] + Len(Image[fs[k]])
    BY <1>1
  <2>4. ps[k] \in Nat \ {0} /\ ps[k] + Len(Image[fs[k]]) <= Top + 1
    BY <2>1, <2>2, <2>3, PlacedFits
  <2>5. PICK f \in File, a \in Nat \ {0} : f = fs[k] /\ a = ps[k]
    BY <2>3, <2>4
  <2>6. a + Len(Image[f]) <= Top + 1 /\ Holds(f, a)
    BY <2>3, <2>4, <2>5
  <2>7. next_tls[a] = a + Len(Image[f]) /\ BehindList[a] = a + Len(Image[f])
        /\ ListAt[a] = Contents[f]
    BY <2>1, <2>6, ListRead
  <2>8. QED
    BY <2>3, <2>5, <2>7
<1>3. ASSUME NEW k \in 1 .. n PROVE ListAddr(base, k) = ps[k]
  <2> DEFINE w == CHOOSE w : w = [j \in 1 .. k |-> IF j = 1 THEN base ELSE BehindList[w[j - 1]]]
  <2>1. ListAddr(base, k) = w[k]
    BY DEF ListAddr
  <2>2. k \in Nat /\ 1 \in Nat /\ 1 <= k
    BY <1>1
  <2>3. Follows(ps, BehindList, 1, k)
    <3>1. ASSUME NEW j \in 1 + 1 .. k PROVE ps[j] = BehindList[ps[j - 1]]
      <4>1. j - 1 \in 1 .. n /\ j - 1 + 1 = j
        BY <1>1
      <4>2. QED
        BY <1>2, <4>1
    <3>2. QED
      BY <3>1 DEF Follows
  <2> HIDE DEF w
  <2>4. PICK v : WalkIs(v, BehindList, 1, k, ps[1])
    BY <2>2, <2>3, WalkExists
  <2>5. v = [j \in 1 .. k |-> IF j = 1 THEN base ELSE BehindList[v[j - 1]]]
    BY <1>1, <2>4 DEF WalkIs
  <2>6. w = [j \in 1 .. k |-> IF j = 1 THEN base ELSE BehindList[w[j - 1]]]
    BY <2>5, Zenon DEF w
  <2>7. WalkIs(w, BehindList, 1, k, ps[1])
    BY <1>1, <2>6 DEF WalkIs
  <2>8. QED
    BY <2>1, <2>2, <2>3, <2>7, Walked
<1>4. ListsFrom(base, n) = [k \in 1 .. n |-> Contents[fs[k]]]
  <2>1. \A k \in 1 .. n : ListAt[ListAddr(base, k)] = Contents[fs[k]]
    BY <1>2, <1>3
  <2>2. QED
    BY <2>1 DEF ListsFrom
<1>5. Behind(n) = ps[n + 1]
  <2> DEFINE w == CHOOSE w : w = [j \in 0 .. n |-> IF j = 0 THEN base ELSE next_tls[w[j - 1]]]
             q == [j \in 0 .. n |-> ps[j + 1]]
  <2>1. Behind(n) = w[n]
    BY DEF Behind
  <2>2. n \in Nat /\ 0 \in Nat /\ 0 <= n /\ q[0] = base /\ q[n] = ps[n + 1]
    BY <1>1
  <2>3. Follows(q, next_tls, 0, n)
    <3>1. ASSUME NEW j \in 0 + 1 .. n PROVE q[j] = next_tls[q[j - 1]]
      <4>1. j \in 1 .. n /\ j \in 0 .. n /\ j - 1 \in 0 .. n /\ j - 1 + 1 = j
        BY <1>1
      <4>2. q[j] = ps[j + 1] /\ q[j - 1] = ps[j]
        BY <4>1
      <4>3. QED
        BY <1>2, <4>1, <4>2
    <3>2. QED
      BY <3>1 DEF Follows
  <2> HIDE DEF w, q
  <2>4. PICK v : WalkIs(v, next_tls, 0, n, q[0])
    BY <2>2, <2>3, WalkExists
  <2>5. v = [j \in 0 .. n |-> IF j = 0 THEN base ELSE next_tls[v[j - 1]]]
    BY <2>2, <2>4 DEF WalkIs
  <2>6. w = [j \in 0 .. n |-> IF j = 0 THEN base ELSE next_tls[w[j - 1]]]
    BY <2>5, Zenon DEF w
  <2>7. WalkIs(w, next_tls, 0, n, q[0])
    BY <2>2, <2>6 DEF WalkIs
  <2>8. QED
    BY <2>1, <2>2, <2>3, <2>7, Walked
<1>6. QED
  BY <1>n, <1>4, <1>5

LEMMA ListsReadNext ==
  (DirInv => \A fs, ps : Placed(fs, ps) =>
     /\ ListsFrom(base, entries) = [k \in 1 .. entries |-> Contents[fs[k]]]
     /\ Behind(entries) = ps[entries + 1])'
BY ListsRead, PTL

-----------------------------------------------------------------------------
(* What a step does to the lists: nothing, empty them, or add one.         *)
LEMMA BelowKept ==
  ASSUME DirInv, base \in Bases, NEW fs, NEW ps, Placed(fs, ps), NEW k \in 1 .. entries,
         \A b \in DOMAIN mem : b < ps[entries + 1] => mem'[b] = mem[b]
  PROVE  Holds(fs[k], ps[k])'
<1>1. entries \in Nat /\ entries <= MaxLists /\ MaxLists \in Nat /\ Top \in Nat /\ DOMAIN mem = 1 .. Top
  BY Sizes DEF DirInv
<1>2. fs[k] \in File /\ Holds(fs[k], ps[k]) /\ ps[k + 1] = ps[k] + Len(Image[fs[k]])
  BY DEF Placed
<1>3. k \in 1 .. entries + 1 /\ k + 1 \in 1 .. entries + 1 /\ k <= MaxLists
  BY <1>1
<1>4. /\ ps[k] \in Nat \ {0} /\ ps[k] + Len(Image[fs[k]]) <= Top + 1
      /\ ps[k + 1] <= ps[entries + 1]
  BY <1>2, <1>3, PlacedFits
<1>5. ps[entries + 1] \in Nat
  <2>1. entries + 1 \in 1 .. entries + 1
    BY <1>1
  <2>2. QED
    BY <2>1, PlacedFits
<1>6. PICK a \in Nat \ {0}, l \in Nat, e \in Nat :
        a = ps[k] /\ l = Len(Image[fs[k]]) /\ e = ps[entries + 1] /\ a + l <= e /\ a + l <= Top + 1
  BY <1>2, <1>4, <1>5, FileLength
<1>7. ASSUME NEW j \in 1 .. l PROVE mem'[a + j - 1] = Resized(fs[k])[j]
  <2>1. a + j - 1 \in 1 .. Top /\ a + j - 1 < e
    <3>1. Top \in Nat /\ a + l <= e /\ a + l <= Top + 1
      BY <1>1, <1>6
    <3>2. QED
      BY <3>1
  <2>2. mem'[a + j - 1] = mem[a + j - 1]
    BY <1>1, <1>6, <2>1
  <2>3. mem[a + j - 1] = Resized(fs[k])[j]
    BY <1>2, <1>6 DEF Holds
  <2>4. QED
    BY <2>2, <2>3
<1>8. QED
  BY <1>6, <1>7 DEF Holds, Resized

LEMMA ListsKept ==
  ASSUME DirInv, base' = base, entries' = entries, DOMAIN mem' = DOMAIN mem,
         at' # "uboot" => base' \in Bases, entries # 0 => ram' = base,
         \A b \in DOMAIN mem : b < Behind(entries) => mem'[b] = mem[b]
  PROVE  DirInv' /\ ListsFrom(base, entries)' = ListsFrom(base, entries)
<1>1. PICK fs, ps : Placed(fs, ps)
  BY DEF DirInv
<1>2. /\ ListsFrom(base, entries) = [k \in 1 .. entries |-> Contents[fs[k]]]
      /\ Behind(entries) = ps[entries + 1]
  BY <1>1, ListsRead
<1>3. ASSUME NEW k \in 1 .. entries PROVE Holds(fs[k], ps[k])'
  <2>1. entries # 0 /\ base \in Bases
    BY <1>3 DEF DirInv
  <2>2. QED
    BY <1>1, <1>2, <2>1, BelowKept
<1>4. Placed(fs, ps)'
  BY <1>1, <1>3 DEF Placed
<1>5. DirInv'
  BY <1>4 DEF DirInv
<1>6. ListsFrom(base, entries)' = [k \in 1 .. entries |-> Contents[fs[k]]]
  BY <1>4, <1>5, ListsReadNext
<1>7. QED
  BY <1>2, <1>5, <1>6

LEMMA ListsEmptied ==
  ASSUME DirInv, entries' = 0, DOMAIN mem' = DOMAIN mem, base' \in Nat,
         at' # "uboot" => base' \in Bases
  PROVE  DirInv' /\ ListsFrom(base, entries)' = <<>>
<1>1. 1 .. 0 = {}
  OBVIOUS
<1>2. PICK fs, ps : fs \in [1 .. 0 -> File] /\ ps \in [1 .. 0 + 1 -> Nat] /\ ps[1] = base'
  <2>1. [k \in 1 .. 0 |-> k] \in [1 .. 0 -> File]
    BY <1>1
  <2>2. [k \in 1 .. 0 + 1 |-> base'] \in [1 .. 0 + 1 -> Nat] /\ [k \in 1 .. 0 + 1 |-> base'][1] = base'
    OBVIOUS
  <2>3. QED
    BY <2>1, <2>2
<1>3. Placed(fs, ps)'
  BY <1>1, <1>2 DEF Placed
<1>4. \E xs, ys : Placed(xs, ys)'
  BY <1>3
<1>5. DirInv'
  BY <1>4, Sizes DEF DirInv
<1>6. ListsFrom(base, entries)' = <<>>
  BY <1>1 DEF ListsFrom
<1>7. QED
  BY <1>5, <1>6

LEMMA ArrivedBelow ==
  ASSUME DirInv, NEW cells, NEW n \in Nat, NEW a \in Nat
  PROVE  /\ DOMAIN Arrived(cells, n, a) = DOMAIN mem
         /\ \A b \in DOMAIN mem : b < a => Arrived(cells, n, a)[b] = mem[b]
<1>1. DOMAIN mem = 1 .. Top /\ Top \in Nat
  BY Sizes DEF DirInv
<1>2. \A b \in 1 .. Top : b < a => b - a \notin 0 .. n - 1
  BY <1>1
<1>3. QED
  BY <1>1, <1>2 DEF Arrived

LEMMA ListAdded ==
  ASSUME DirInv, base \in Bases, entries < MaxLists, NEW f \in File,
         mem' = Arrived(Resized(f), Len(Image[f]), Behind(entries)),
         entries' = entries + 1, base' = base, ram' = base
  PROVE  DirInv' /\ ListsFrom(base, entries)' = Append(ListsFrom(base, entries), Contents[f])
<1>1. PICK fs, ps : Placed(fs, ps)
  BY DEF DirInv
<1>2. /\ ListsFrom(base, entries) = [k \in 1 .. entries |-> Contents[fs[k]]]
      /\ Behind(entries) = ps[entries + 1]
  BY <1>1, ListsRead
<1>3. PICK n \in Nat : n = entries /\ n + 1 <= MaxLists
  BY Sizes DEF DirInv
<1>4. PICK a \in Nat \ {0}, l \in Nat \ {0} :
        a = ps[n + 1] /\ l = Len(Image[f]) /\ a + l <= Top + 1
  <2>1. n + 1 \in 1 .. entries + 1
    BY <1>3
  <2>2. ps[n + 1] \in Nat \ {0} /\ ps[n + 1] + Len(Image[f]) <= Top + 1
    BY <1>1, <1>3, <2>1, PlacedFits
  <2>3. QED
    BY <2>2, FileLength
<1>5. mem' = Arrived(Resized(f), l, a) /\ DOMAIN mem = 1 .. Top /\ Top \in Nat
  BY <1>2, <1>3, <1>4, Sizes DEF DirInv
<1>6. DOMAIN mem' = DOMAIN mem /\ \A b \in DOMAIN mem : b < a => mem'[b] = mem[b]
  <2>1. l \in Nat /\ a \in Nat
    OBVIOUS
  <2>2. QED
    BY <1>5, <2>1, ArrivedBelow
<1>7. Holds(f, a)'
  <2>1. ASSUME NEW j \in 1 .. l PROVE mem'[a + j - 1] = Resized(f)[j]
    <3>1. a + j - 1 \in 1 .. Top
      BY <1>4, <1>5
    <3>2. a + j - 1 - a \in 0 .. l - 1 /\ a + j - 1 - a + 1 = j
      OBVIOUS
    <3>3. QED
      BY <1>5, <3>1, <3>2 DEF Arrived
  <2>2. QED
    BY <1>4, <2>1 DEF Holds, Resized
<1>8. \A k \in 1 .. n : Holds(fs[k], ps[k])'
  BY <1>1, <1>3, <1>4, <1>6, BelowKept
<1> DEFINE gs == [k \in 1 .. n + 1 |-> IF k = n + 1 THEN f ELSE fs[k]]
           qs == [k \in 1 .. n + 1 + 1 |-> IF k = n + 1 + 1 THEN a + l ELSE ps[k]]
<1>9. /\ fs \in [1 .. n -> File] /\ ps \in [1 .. n + 1 -> Nat] /\ ps[1] = base
      /\ \A k \in 1 .. n : ps[k + 1] = ps[k] + Len(Image[fs[k]])
  BY <1>1, <1>3 DEF Placed
<1>10. gs \in [1 .. n + 1 -> File]
  <2>1. ASSUME NEW k \in 1 .. n + 1, k # n + 1 PROVE fs[k] \in File
    <3>1. k \in 1 .. n
      BY <2>1
    <3>2. QED
      BY <1>9, <3>1
  <2>2. QED
    BY <2>1
<1>11. qs \in [1 .. n + 1 + 1 -> Nat] /\ qs[1] = base
  <2>1. ASSUME NEW k \in 1 .. n + 1 + 1, k # n + 1 + 1 PROVE ps[k] \in Nat
    <3>1. k \in 1 .. n + 1
      BY <2>1
    <3>2. QED
      BY <1>9, <3>1
  <2>2. a + l \in Nat /\ 1 \in 1 .. n + 1 + 1 /\ 1 # n + 1 + 1
    OBVIOUS
  <2>3. QED
    BY <1>9, <2>1, <2>2
<1>12. \A k \in 1 .. n : gs[k] = fs[k] /\ qs[k] = ps[k] /\ qs[k + 1] = ps[k + 1]
  <2>1. ASSUME NEW k \in 1 .. n
        PROVE  /\ k \in 1 .. n + 1 /\ k # n + 1
               /\ k \in 1 .. n + 1 + 1 /\ k # n + 1 + 1
               /\ k + 1 \in 1 .. n + 1 + 1 /\ k + 1 # n + 1 + 1
    OBVIOUS
  <2>2. QED
    BY <2>1
<1>13. gs[n + 1] = f /\ qs[n + 1] = a /\ qs[n + 1 + 1] = a + l
  <2>1. n + 1 \in 1 .. n + 1 /\ n + 1 \in 1 .. n + 1 + 1 /\ n + 1 # n + 1 + 1
        /\ n + 1 + 1 \in 1 .. n + 1 + 1
    OBVIOUS
  <2>2. QED
    BY <1>4, <2>1
<1> HIDE DEF gs, qs
<1>14. PICK hs, rs : hs = gs /\ rs = qs
  OBVIOUS
<1>15. ASSUME NEW k \in 1 .. n + 1
       PROVE  rs[k + 1] = rs[k] + Len(Image[hs[k]]) /\ Holds(hs[k], rs[k])'
  <2>1. CASE k = n + 1
    <3>1. hs[k] = f /\ rs[k] = a /\ rs[k + 1] = a + l
      BY <1>13, <1>14, <2>1
    <3>2. QED
      BY <1>4, <1>7, <3>1
  <2>2. CASE k # n + 1
    <3>1. k \in 1 .. n
      BY <2>2
    <3>2. hs[k] = fs[k] /\ rs[k] = ps[k] /\ rs[k + 1] = ps[k + 1]
      BY <1>12, <1>14, <3>1
    <3>3. ps[k + 1] = ps[k] + Len(Image[fs[k]]) /\ Holds(fs[k], ps[k])'
      BY <1>8, <1>9, <3>1
    <3>4. QED
      BY <3>2, <3>3
  <2>3. QED
    BY <2>1, <2>2
<1>16. Placed(hs, rs)'
  BY <1>3, <1>10, <1>11, <1>14, <1>15 DEF Placed
<1>17. DirInv'
  <2>1. entries' \in 0 .. MaxLists
    BY <1>3, Sizes
  <2>2. \E xs, ys : Placed(xs, ys)'
    BY <1>16
  <2>3. QED
    BY <1>5, <1>6, <2>1, <2>2 DEF DirInv
<1>18. ListsFrom(base, entries)' = [k \in 1 .. n + 1 |-> Contents[hs[k]]]
  BY <1>3, <1>16, <1>17, ListsReadNext
<1>19. Append([k \in 1 .. n |-> Contents[fs[k]]], Contents[f]) = [k \in 1 .. n + 1 |-> Contents[hs[k]]]
  <2> DEFINE s == [k \in 1 .. n |-> Contents[fs[k]]]
             t == [k \in 1 .. n + 1 |-> Contents[hs[k]]]
  <2>1. s \in Seq(Seq(Test)) /\ Len(s) = n
    <3>1. \A k \in 1 .. n : Contents[fs[k]] \in Seq(Test)
      BY <1>9, FileLaid
    <3>2. s \in [1 .. n -> Seq(Test)]
      BY <3>1
    <3>3. s \in Seq(Seq(Test))
      BY <3>2, SeqDef
    <3>4. QED
      BY <3>2, <3>3, LenProperties
  <2>2. \A k \in 1 .. n : t[k] = s[k]
    <3>1. \A k \in 1 .. n : k \in 1 .. n + 1 /\ hs[k] = fs[k]
      BY <1>12, <1>14
    <3>2. QED
      BY <3>1
  <2>3. t[n + 1] = Contents[f]
    <3>1. n + 1 \in 1 .. n + 1
      OBVIOUS
    <3>2. QED
      BY <1>13, <1>14, <3>1
  <2>4. t = [k \in 1 .. n + 1 |-> t[k]]
    OBVIOUS
  <2> HIDE DEF s, t
  <2>5. Append(s, Contents[f]) = [k \in 1 .. n + 1 |-> IF k = n + 1 THEN Contents[f] ELSE s[k]]
    BY <2>1 
  <2>6. \A k \in 1 .. n + 1 : t[k] = IF k = n + 1 THEN Contents[f] ELSE s[k]
    <3>1. \A k \in 1 .. n + 1 : k = n + 1 \/ k \in 1 .. n
      OBVIOUS
    <3>2. QED
      BY <2>2, <2>3, <3>1
  <2>7. QED
    BY <2>4, <2>5, <2>6 DEF s, t
<1>20. QED
  BY <1>2, <1>3, <1>17, <1>18, <1>19

LEMMA LoadedEntries ==
  DirInv => /\ Loaded = entries
            /\ Fetchable => base \in Bases /\ entries < MaxLists /\ Item \in File
<1> SUFFICES ASSUME DirInv
             PROVE  /\ Loaded = entries
                    /\ Fetchable => base \in Bases /\ entries < MaxLists /\ Item \in File
  OBVIOUS
<1>1. entries \in 0 .. MaxLists /\ MaxLists \in Nat \ {0}
  BY TlsDownloadAssumption DEF DirInv
<1>2. Moved => entries = 0
  BY DEF DirInv, Moved
<1>3. QED
  BY <1>1, <1>2 DEF DirInv, Loaded, Fetchable, InLoop, Moved, AtLimit

LEMMA ListsNumber == DirInv => Len(ListsFrom(base, entries)) = entries
<1> SUFFICES ASSUME DirInv PROVE Len(ListsFrom(base, entries)) = entries
  OBVIOUS
<1>1. PICK n \in Nat : n = entries
  BY Sizes DEF DirInv
<1> DEFINE c(k) == ListAt[ListAddr(base, k)]
           s == [k \in 1 .. n |-> c(k)]
<1>2. ListsFrom(base, n) = s
  BY DEF ListsFrom
<1>3. s \in Seq({ c(k) : k \in 1 .. n }) /\ DOMAIN s = 1 .. n
  <2> HIDE DEF c
  <2>1. s \in [1 .. n -> { c(k) : k \in 1 .. n }]
    OBVIOUS
  <2>2. QED
    BY <2>1, SeqDef
<1> HIDE DEF s
<1>4. Len(s) = n
  BY <1>3, LenProperties
<1>5. QED
  BY <1>1, <1>2, <1>4

-----------------------------------------------------------------------------
(* Each step of the download, as the directory sees it.                    *)
Stands == << mem, base, entries >>

LEMMA Standing ==
  ASSUME DirInv, UNCHANGED Stands, ram' = ram, at' # "uboot" => base \in Bases
  PROVE  DirInv' /\ ListsFrom(base, entries)' = ListsFrom(base, entries)
<1>1. base' = base /\ entries' = entries /\ mem' = mem
  BY DEF Stands
<1>2. entries # 0 => ram' = base
  BY DEF DirInv
<1>3. QED
  BY <1>1, <1>2, ListsKept

Steps == /\ DirInv'
         /\ Directory!Next \/ UNCHANGED << ListsFrom(base, entries), at # "uboot" >>

LEMMA InitDirectory == Init => DirInv /\ Directory!Init
<1> SUFFICES ASSUME Init PROVE DirInv /\ Directory!Init
  OBVIOUS
<1>1. mem = [a \in 1 .. Top |-> Unused] /\ base = 0 /\ entries = 0 /\ at = "uboot"
  BY DEF Init, DownloadInit
<1>2. 1 .. 0 = {}
  OBVIOUS
<1>3. PICK fs, ps : fs \in [1 .. 0 -> File] /\ ps \in [1 .. 0 + 1 -> Nat] /\ ps[1] = 0
  <2>1. [k \in 1 .. 0 |-> k] \in [1 .. 0 -> File]
    BY <1>2
  <2>2. [k \in 1 .. 0 + 1 |-> 0] \in [1 .. 0 + 1 -> Nat] /\ [k \in 1 .. 0 + 1 |-> 0][1] = 0
    OBVIOUS
  <2>3. QED
    BY <2>1, <2>2
<1>4. Placed(fs, ps)
  BY <1>1, <1>2, <1>3 DEF Placed
<1>5. DirInv
  BY <1>1, <1>4, Sizes DEF DirInv
<1>6. ListsFrom(base, entries) = <<>>
  BY <1>1, <1>2 DEF ListsFrom
<1>7. QED
  BY <1>1, <1>5, <1>6 DEF Directory!Init

LEMMA InitSteps == DirInv /\ fileio_init => Steps
<1> SUFFICES ASSUME DirInv, fileio_init PROVE Steps
  OBVIOUS
<1>1. /\ at = "uboot" /\ at' = "menu" /\ entries' = 0 /\ mem' = mem
      /\ base' \in Bases /\ base' \in Nat
  BY Sizes DEF fileio_init
<1>2. DirInv' /\ ListsFrom(base, entries)' = <<>>
  BY <1>1, ListsEmptied
<1>3. Directory!Start
  BY <1>1, <1>2 DEF Directory!Start
<1>4. QED
  BY <1>2, <1>3 DEF Steps, Directory!Next

LEMMA LeaveSteps == DirInv /\ Leave => Steps
<1> SUFFICES ASSUME DirInv, Leave PROVE Steps
  OBVIOUS
<1>1. at = "menu" /\ at' = "uboot" /\ UNCHANGED Stands /\ ram' = ram
  BY DEF Leave, directory, Stands
<1>2. DirInv' /\ ListsFrom(base, entries)' = ListsFrom(base, entries)
  BY <1>1, Standing
<1>3. Directory!Quit
  BY <1>1, <1>2 DEF Directory!Quit
<1>4. QED
  BY <1>2, <1>3 DEF Steps, Directory!Next

(* The steps that leave the lists and IDS up: the beginning and the end of *)
(* a download, an item that names no list, and the operator's refusal.     *)
LEMMA QuietSteps ==
  DirInv /\ ((\E m \in Managers, isauto \in BOOLEAN : Go(m, isauto)) \/ Skip \/ Refuse \/ EndGo)
    => Steps
<1> SUFFICES ASSUME DirInv,
                    (\E m \in Managers, isauto \in BOOLEAN : Go(m, isauto)) \/ Skip \/ Refuse \/ EndGo
             PROVE  Steps
  OBVIOUS
<1>1. UNCHANGED Stands /\ ram' = ram /\ at # "uboot" /\ at' # "uboot"
  BY DEF Go, Skip, Refuse, EndGo, Full, InLoop, directory, Stands
<1>2. DirInv' /\ ListsFrom(base, entries)' = ListsFrom(base, entries)
  BY <1>1, Standing DEF DirInv
<1>3. QED
  BY <1>1, <1>2 DEF Steps

LEMMA ClearSteps == DirInv /\ Clear => Steps
<1> SUFFICES ASSUME DirInv, Clear PROVE Steps
  OBVIOUS
<1>1. /\ at # "uboot" /\ at' = at /\ entries' = 0 /\ mem' = mem /\ base' = base
      /\ AtLimit /\ base \in Bases /\ base \in Nat
  BY Sizes DEF DirInv, Clear, Full, InLoop, Emptied
<1>2. DirInv' /\ ListsFrom(base, entries)' = <<>>
  BY <1>1, ListsEmptied
<1>3. Len(ListsFrom(base, entries)) = MaxLists
  <2>1. entries = MaxLists
    BY <1>1, Sizes DEF AtLimit, DirInv
  <2>2. QED
    BY <2>1, ListsNumber
<1>4. Directory!Clear
  BY <1>1, <1>2, <1>3 DEF Directory!Clear
<1>5. QED
  BY <1>2, <1>4 DEF Steps, Directory!Next

LEMMA FetchAdds ==
  DirInv /\ Fetch =>
    DirInv' /\ ListsFrom(base, entries)' = Append(ListsFrom(base, entries), Contents[Item])
<1> SUFFICES ASSUME DirInv, Fetch
             PROVE  /\ DirInv'
                    /\ ListsFrom(base, entries)' = Append(ListsFrom(base, entries), Contents[Item])
  OBVIOUS
<1>1. Fetchable /\ Loaded = entries /\ base \in Bases /\ entries < MaxLists /\ Item \in File
  BY LoadedEntries DEF Fetch
<1>2. PICK f \in File : f = Item
  BY <1>1
<1>3. /\ mem' = Arrived(Resized(f), Len(Image[f]), Behind(entries))
      /\ entries' = entries + 1 /\ base' = base /\ ram' = base
  BY <1>1, <1>2 DEF Fetch
<1>4. DirInv' /\ ListsFrom(base, entries)' = Append(ListsFrom(base, entries), Contents[f])
  BY <1>1, <1>3, ListAdded
<1>5. QED
  BY <1>2, <1>4

LEMMA FetchSteps == DirInv /\ Fetch => Steps
<1> SUFFICES ASSUME DirInv, Fetch PROVE Steps
  OBVIOUS
<1>1. Fetchable /\ entries < MaxLists /\ Item \in File
  BY LoadedEntries DEF Fetch
<1>2. PICK f \in File : f = Item
  BY <1>1
<1>3. at # "uboot" /\ at' = at
  BY DEF Fetch, Fetchable, InLoop
<1>4. DirInv' /\ ListsFrom(base, entries)' = Append(ListsFrom(base, entries), Contents[f])
  BY <1>2, FetchAdds
<1>5. Len(ListsFrom(base, entries)) < MaxLists
  BY <1>1, ListsNumber
<1>6. Directory!Load(Contents[f])
  BY <1>3, <1>4, <1>5 DEF Directory!Load
<1>7. QED
  BY <1>4, <1>6 DEF Steps, Directory!Next

(* A transfer that fails writes behind the lists.                          *)
LEMMA FailKeeps ==
  DirInv /\ (\E n \in {0, 1} : FetchFails(n)) =>
    DirInv' /\ ListsFrom(base, entries)' = ListsFrom(base, entries)
<1> SUFFICES ASSUME DirInv, NEW n \in {0, 1}, FetchFails(n)
             PROVE  DirInv' /\ ListsFrom(base, entries)' = ListsFrom(base, entries)
  OBVIOUS
<1>1. Fetchable /\ Loaded = entries /\ base \in Bases
  BY LoadedEntries DEF FetchFails
<1>2. PICK a : a \in DOMAIN mem /\ a = Behind(entries) /\ mem' = Arrived(Image[Item], n, a)
  BY <1>1 DEF FetchFails
<1>3. entries' = entries /\ base' = base /\ ram' = base
  BY <1>1 DEF FetchFails, NotCounted
<1>4. DOMAIN mem' = DOMAIN mem /\ \A b \in DOMAIN mem : b < Behind(entries) => mem'[b] = mem[b]
  <2>1. a \in Nat /\ n \in Nat
    BY <1>2, Sizes DEF DirInv
  <2>2. QED
    BY <1>2, <2>1, ArrivedBelow
<1>5. QED
  BY <1>1, <1>3, <1>4, ListsKept

LEMMA FailSteps == DirInv /\ (\E n \in {0, 1} : FetchFails(n)) => Steps
<1> SUFFICES ASSUME DirInv, NEW n \in {0, 1}, FetchFails(n) PROVE Steps
  OBVIOUS
<1>1. at' = at
  BY DEF FetchFails
<1>2. QED
  BY <1>1, FailKeeps DEF Steps

LEMMA AllSteps == DirInv /\ [Next]_vars => Steps
<1> SUFFICES ASSUME DirInv, [Next]_vars PROVE Steps
  OBVIOUS
<1>1. CASE DownloadNext
  BY <1>1, InitSteps, LeaveSteps, QuietSteps, ClearSteps, FetchSteps, FailSteps
     DEF DownloadNext, LoopStep
<1>2. CASE UNCHANGED download
  <2>1. UNCHANGED Stands /\ ram' = ram /\ at' = at
    BY <1>2 DEF download, directory, Stands
  <2>2. DirInv' /\ ListsFrom(base, entries)' = ListsFrom(base, entries)
    BY <2>1, Standing DEF DirInv
  <2>3. QED
    BY <2>1, <2>2 DEF Steps
<1>3. DownloadNext \/ UNCHANGED download
  BY DEF Next, menu_list_appl, EditService, vars
<1>4. QED
  BY <1>1, <1>2, <1>3

(* The lists a walk over their tests finds in memory are the lists that    *)
(* were loaded, in order, however often the directory was cleared, moved   *)
(* or started again and whatever transfer failed (fileio.c:252-337): the   *)
(* size the download writes into each header leads where the sizes of the  *)
(* tests lead.                                                             *)
THEOREM ListsStay == Spec => ImplementsDirectory
<1>1. Init => DirInv /\ Directory!Init
  BY InitDirectory
<1>2. DirInv /\ [Next]_vars => DirInv'
  BY AllSteps DEF Steps
<1>3. DirInv /\ [Next]_vars =>
        [Directory!Next]_<< ListsFrom(base, entries), at # "uboot" >>
  BY AllSteps DEF Steps
<1>4. QED
  BY <1>1, <1>2, <1>3, PTL DEF Spec, ImplementsDirectory, Directory!Spec

-----------------------------------------------------------------------------
(* The lists a download has wanted up to an item of its manager are the    *)
(* last ones loaded.                                                       *)
Chain(m) ==
  CHOOSE c : /\ c[0] = <<>> /\ c[Len(Items[m])] = Wanted(m)
             /\ \A k \in 1 .. Len(Items[m]) : c[k] = c[k - 1] \o ListsOf(Items[m][k])

EndsWith(s, w) ==
  /\ Len(w) <= Len(s)
  /\ \A i \in 1 .. Len(w) : s[Len(s) - Len(w) + i] = w[i]

ProgInv ==
  /\ mgr \in Managers
  /\ at = "get" => file \in 1 .. Len(Items[mgr]) + 1
  /\ at = "get" /\ whole => EndsWith(ListsFrom(base, entries), Chain(mgr)[file - 1])
  /\ at = "menu" /\ whole => EndsWith(ListsFrom(base, entries), Wanted(mgr))
  /\ at = "get" /\ file # 1 /\ load # base => ~whole /\ Items[mgr][file - 1] \in File
  /\ at = "menu" /\ load # base => ~whole /\ Items[mgr][Len(Items[mgr])] \in File

LEMMA ItemsTyped ==
  \A m \in Managers : /\ Items[m] \in Seq(STRING) /\ Len(Items[m]) \in Nat \ {0}
                      /\ DOMAIN Items[m] = 1 .. Len(Items[m])
<1> SUFFICES ASSUME NEW m \in Managers
             PROVE  /\ Items[m] \in Seq(STRING) /\ Len(Items[m]) \in Nat \ {0}
                    /\ DOMAIN Items[m] = 1 .. Len(Items[m])
  OBVIOUS
<1>1. Items[m] \in Seq(STRING) /\ Items[m] # <<>>
  BY TlsDownloadAssumption
<1>2. QED
  BY <1>1, EmptySeq, LenProperties

LEMMA ChainIs ==
  ASSUME NEW m \in Managers
  PROVE  /\ Chain(m)[0] = <<>> /\ Chain(m)[Len(Items[m])] = Wanted(m)
         /\ \A k \in 1 .. Len(Items[m]) :
              Chain(m)[k] = Chain(m)[k - 1] \o ListsOf(Items[m][k])
<1>1. PICK c : /\ c[0] = <<>>
               /\ \A k \in 1 .. Len(Items[m]) : c[k] = c[k - 1] \o ListsOf(Items[m][k])
               /\ FoldLeft(LAMBDA lists, item : lists \o ListsOf(item), <<>>, Items[m])
                    = c[Len(Items[m])]
  <2>1. Len(Items[m]) \in Nat /\ DOMAIN Items[m] = 1 .. Len(Items[m])
    BY ItemsTyped
  <2>2. QED
    BY <2>1, ListsJoined
<1>2. c[Len(Items[m])] = Wanted(m)
  BY <1>1, Zenon DEF Wanted
<1>3. QED
  BY <1>1, <1>2, Zenon DEF Chain

LEMMA ChainTyped ==
  ASSUME NEW m \in Managers, NEW k \in 0 .. Len(Items[m])
  PROVE  Chain(m)[k] \in Seq(Seq(Test))
<1> DEFINE c == Chain(m)
           S == { d \in Nat : d <= Len(Items[m]) => c[d] \in Seq(Seq(Test)) }
<1>1. Len(Items[m]) \in Nat
  BY ItemsTyped
<1>2. 0 \in S
  <2>1. c[0] = <<>>
    BY ChainIs
  <2> HIDE DEF c
  <2>2. c[0] \in Seq(Seq(Test))
    BY <2>1
  <2>3. QED
    BY <2>2
<1>3. ASSUME NEW d \in S PROVE d + 1 \in S
  <2>1. ASSUME d + 1 <= Len(Items[m]) PROVE c[d + 1] \in Seq(Seq(Test))
    <3>1. PICK j \in 1 .. Len(Items[m]) : j = d + 1 /\ j - 1 = d
      BY <1>1, <2>1
    <3>2. c[j] = c[d] \o ListsOf(Items[m][j])
      BY <3>1, ChainIs
    <3>3. c[d] \in Seq(Seq(Test))
      BY <1>1, <2>1
    <3>4. ListsOf(Items[m][j]) \in Seq(Seq(Test))
      BY FileLaid DEF ListsOf
    <3> HIDE DEF c
    <3>5. QED
      BY <3>1, <3>2, <3>3, <3>4, ConcatProperties
  <2>2. QED
    BY <2>1
<1>4. S = Nat
  <2>1. S \in SUBSET Nat
    OBVIOUS
  <2> HIDE DEF S
  <2>2. QED
    BY <1>2, <1>3, <2>1, SetInduction
<1>5. k \in Nat /\ k <= Len(Items[m])
  BY <1>1
<1>6. QED
  BY <1>4, <1>5

LEMMA ListsTyped == DirInv => ListsFrom(base, entries) \in Seq(Seq(Test))
<1> SUFFICES ASSUME DirInv PROVE ListsFrom(base, entries) \in Seq(Seq(Test))
  OBVIOUS
<1>1. PICK fs, ps : Placed(fs, ps)
  BY DEF DirInv
<1>2. PICK n \in Nat : n = entries
  BY Sizes DEF DirInv
<1>3. \A k \in 1 .. n : Contents[fs[k]] \in Seq(Test)
  BY <1>1, <1>2, FileLaid DEF Placed
<1> DEFINE s == [k \in 1 .. n |-> Contents[fs[k]]]
<1>4. s \in [1 .. n -> Seq(Test)]
  BY <1>3
<1>5. ListsFrom(base, entries) = s
  BY <1>1, <1>2, ListsRead
<1> HIDE DEF s
<1>6. s \in Seq(Seq(Test))
  BY <1>4, SeqDef
<1>7. QED
  BY <1>5, <1>6

LEMMA EndsWithNothing == ASSUME NEW X, NEW s \in Seq(X) PROVE EndsWith(s, <<>>)
<1>1. Len(s) \in Nat /\ Len(<<>>) = 0
  OBVIOUS
<1>2. QED
  BY <1>1 DEF EndsWith

LEMMA EndsWithMore ==
  ASSUME NEW X, NEW s \in Seq(X), NEW w \in Seq(X), NEW x \in X, EndsWith(s, w)
  PROVE  EndsWith(Append(s, x), w \o <<x>>)
<1>1. PICK m \in Nat, n \in Nat : m = Len(w) /\ n = Len(s) /\ m <= n
  BY DEF EndsWith
<1>2. /\ Len(Append(s, x)) = n + 1 /\ Append(s, x)[n + 1] = x
      /\ \A i \in 1 .. n : Append(s, x)[i] = s[i]
  BY <1>1, AppendProperties
<1>3. w \o <<x>> = Append(w, x)
  OBVIOUS
<1>4. /\ Len(Append(w, x)) = m + 1 /\ Append(w, x)[m + 1] = x
      /\ \A i \in 1 .. m : Append(w, x)[i] = w[i]
  BY <1>1, AppendProperties
<1>5. ASSUME NEW i \in 1 .. m + 1
      PROVE  Append(s, x)[(n + 1) - (m + 1) + i] = Append(w, x)[i]
  <2>1. CASE i = m + 1
    <3>1. (n + 1) - (m + 1) + i = n + 1
      BY <2>1
    <3>2. QED
      BY <1>2, <1>4, <2>1, <3>1
  <2>2. CASE i # m + 1
    <3>1. i \in 1 .. m /\ (n + 1) - (m + 1) + i = n - m + i /\ n - m + i \in 1 .. n
      BY <1>1, <2>2
    <3>2. s[n - m + i] = w[i]
      BY <1>1, <3>1 DEF EndsWith
    <3>3. QED
      BY <1>2, <1>4, <3>1, <3>2
  <2>3. QED
    BY <2>1, <2>2
<1>6. m + 1 <= n + 1
  BY <1>1
<1>7. QED
  BY <1>2, <1>3, <1>4, <1>5, <1>6 DEF EndsWith

LEMMA EndsWithLast ==
  ASSUME NEW X, NEW s \in Seq(X), NEW w \in Seq(X), EndsWith(s, w)
  PROVE  Len(w) <= Len(s) /\ SubSeq(s, Len(s) - Len(w) + 1, Len(s)) = w
<1>1. PICK m \in Nat, n \in Nat : m = Len(w) /\ n = Len(s) /\ m <= n
  BY DEF EndsWith
<1>2. SubSeq(s, n - m + 1, n) = [i \in 1 .. n - (n - m + 1) + 1 |-> s[n - m + 1 + i - 1]]
  BY <1>1
<1>3. n - (n - m + 1) + 1 = m
  OBVIOUS
<1>4. \A i \in 1 .. m : n - m + 1 + i - 1 = n - m + i /\ s[n - m + i] = w[i]
  BY <1>1 DEF EndsWith
<1>5. w = [i \in 1 .. m |-> w[i]]
  BY <1>1
<1>6. SubSeq(s, n - m + 1, n) = [i \in 1 .. m |-> s[n - m + 1 + i - 1]]
  BY <1>2, <1>3
<1>7. SubSeq(s, n - m + 1, n) = w
  BY <1>4, <1>5, <1>6
<1>8. QED
  BY <1>1, <1>7

LEMMA ProgComplete == DirInv /\ ProgInv => DownloadComplete
<1> SUFFICES ASSUME DirInv, ProgInv PROVE DownloadComplete
  OBVIOUS
<1>1. ListsFrom(base, entries) \in Seq(Seq(Test))
  BY ListsTyped
<1>2. Wanted(mgr) \in Seq(Seq(Test))
  <2>1. mgr \in Managers /\ Len(Items[mgr]) \in 0 .. Len(Items[mgr])
    BY ItemsTyped DEF ProgInv
  <2>2. QED
    BY <2>1, ChainIs, ChainTyped
<1>3. QED
  BY <1>1, <1>2, EndsWithLast DEF ProgInv, DownloadComplete

(* The item a download is at.                                              *)
LEMMA NextItem ==
  ASSUME ProgInv, InLoop
  PROVE  /\ mgr \in Managers /\ file \in 1 .. Len(Items[mgr]) /\ Len(Items[mgr]) \in Nat
         /\ Chain(mgr)[file - 1] \in Seq(Seq(Test))
         /\ Item \notin File => Chain(mgr)[file] = Chain(mgr)[file - 1]
         /\ Item \in File => /\ Contents[Item] \in Seq(Test)
                             /\ Chain(mgr)[file] = Chain(mgr)[file - 1] \o <<Contents[Item]>>
<1>1. PICK n \in Nat : n = Len(Items[mgr]) /\ mgr \in Managers /\ at = "get"
  BY ItemsTyped DEF ProgInv, InLoop
<1>2. PICK k \in 1 .. n : k = file
  BY <1>1 DEF ProgInv, InLoop
<1>3. k - 1 \in 0 .. n
  OBVIOUS
<1>4. Chain(mgr)[k - 1] \in Seq(Seq(Test))
  BY <1>1, <1>3, ChainTyped
<1>5. Chain(mgr)[k] = Chain(mgr)[k - 1] \o ListsOf(Item)
  BY <1>1, <1>2, ChainIs DEF Item
<1>6. Item \notin File => Chain(mgr)[k] = Chain(mgr)[k - 1]
  <2>1. ASSUME Item \notin File PROVE Chain(mgr)[k] = Chain(mgr)[k - 1] \o <<>>
    BY <1>5, <2>1 DEF ListsOf
  <2>2. Chain(mgr)[k - 1] \o <<>> = Chain(mgr)[k - 1]
    BY <1>4, ConcatEmptySeq
  <2>3. QED
    BY <2>1, <2>2
<1>7. Item \in File => /\ Contents[Item] \in Seq(Test)
                       /\ Chain(mgr)[k] = Chain(mgr)[k - 1] \o <<Contents[Item]>>
  BY <1>5, FileLaid DEF ListsOf
<1>8. QED
  BY <1>1, <1>2, <1>4, <1>6, <1>7

LEMMA InitProg == Init => ProgInv
BY DEF Init, DownloadInit, ProgInv

LEMMA SkipProg == DirInv /\ ProgInv /\ Skip => ProgInv'
<1> SUFFICES ASSUME DirInv, ProgInv, Skip PROVE ProgInv'
  OBVIOUS
<1>1. /\ mgr' = mgr /\ at = "get" /\ at' = "get" /\ whole' = whole /\ file' = file + 1
      /\ load' = base' /\ InLoop /\ Item \notin File
  BY DEF Skip, InLoop
<1>2. ListsFrom(base, entries)' = ListsFrom(base, entries)
  <2>1. UNCHANGED Stands /\ ram' = ram /\ at # "uboot" /\ at' # "uboot"
    BY <1>1 DEF Skip, Stands
  <2>2. QED
    BY <2>1, Standing DEF DirInv
<1>3. /\ mgr \in Managers /\ file \in 1 .. Len(Items[mgr]) /\ Len(Items[mgr]) \in Nat
      /\ Chain(mgr)[file] = Chain(mgr)[file - 1]
  BY <1>1, NextItem
<1>4. PICK k \in Nat : k = file /\ file' - 1 = k /\ file' \in 1 .. Len(Items[mgr]) + 1
  BY <1>1, <1>3
<1>5. whole => EndsWith(ListsFrom(base, entries), Chain(mgr)[k])
  BY <1>1, <1>3, <1>4 DEF ProgInv
<1>6. (whole => EndsWith(ListsFrom(base, entries), Chain(mgr)[file - 1]))'
  BY <1>1, <1>2, <1>4, <1>5
<1>7. QED
  BY <1>1, <1>3, <1>4, <1>6 DEF ProgInv

(* A download begins with nothing wanted, and so it does over after the    *)
(* directory was cleared.                                                  *)
LEMMA GoProg ==
  DirInv /\ ProgInv /\ (\E m \in Managers, isauto \in BOOLEAN : Go(m, isauto)) => ProgInv'
<1> SUFFICES ASSUME DirInv, ProgInv, NEW m \in Managers, NEW isauto \in BOOLEAN, Go(m, isauto)
             PROVE  ProgInv'
  OBVIOUS
<1>1. mgr' = m /\ at' = "get" /\ file' = 1
  BY DEF Go
<1>2. Chain(m)[0] = <<>> /\ Len(Items[m]) \in Nat \ {0}
  BY ChainIs, ItemsTyped
<1>3. ListsFrom(base, entries)' \in Seq(Seq(Test))
  <2>1. UNCHANGED Stands
    BY DEF Go, directory, Stands
  <2>2. ListsFrom(base, entries)' = ListsFrom(base, entries)
    <3>1. ram' = ram /\ at # "uboot" /\ at' # "uboot"
      BY DEF Go, directory
    <3>2. QED
      BY <2>1, <3>1, Standing DEF DirInv
  <2>3. QED
    BY <2>2, ListsTyped
<1>4. EndsWith(ListsFrom(base, entries), Chain(mgr)[file - 1])'
  <2>1. file' - 1 = 0
    BY <1>1
  <2>2. QED
    BY <1>1, <1>2, <1>3, <2>1, EndsWithNothing
<1>5. QED
  BY <1>1, <1>2, <1>4 DEF ProgInv

LEMMA ClearProg == DirInv /\ ProgInv /\ Clear => ProgInv'
<1> SUFFICES ASSUME DirInv, ProgInv, Clear PROVE ProgInv'
  OBVIOUS
<1>1. /\ mgr' = mgr /\ mgr \in Managers /\ at' = "get" /\ file' = 1
  BY DEF Clear, Full, InLoop, FirstFile, ProgInv
<1>2. Chain(mgr)[0] = <<>> /\ Len(Items[mgr]) \in Nat \ {0}
  BY <1>1, ChainIs, ItemsTyped
<1>3. ListsFrom(base, entries)' = <<>>
  <2>1. /\ at # "uboot" /\ entries' = 0 /\ mem' = mem /\ base' = base /\ base \in Bases
        /\ base \in Nat
    BY Sizes DEF DirInv, Clear, Full, InLoop, Emptied
  <2>2. QED
    BY <2>1, ListsEmptied
<1>4. EndsWith(ListsFrom(base, entries), Chain(mgr)[file - 1])'
  <2>1. file' - 1 = 0 /\ <<>> \in Seq(Seq(Test))
    BY <1>1
  <2>2. QED
    BY <1>1, <1>2, <1>3, <2>1, EndsWithNothing
<1>5. QED
  BY <1>1, <1>2, <1>4 DEF ProgInv

LEMMA FetchProg == DirInv /\ ProgInv /\ Fetch => ProgInv'
<1> SUFFICES ASSUME DirInv, ProgInv, Fetch PROVE ProgInv'
  OBVIOUS
<1>1. /\ mgr' = mgr /\ at = "get" /\ at' = "get" /\ whole' = whole /\ file' = file + 1
      /\ load' = base' /\ InLoop /\ Item \in File
  BY DEF Fetch, Fetchable, InLoop, Rewound
<1>2. ListsFrom(base, entries)' = Append(ListsFrom(base, entries), Contents[Item])
  BY FetchAdds
<1>3. /\ mgr \in Managers /\ file \in 1 .. Len(Items[mgr]) /\ Len(Items[mgr]) \in Nat
      /\ Chain(mgr)[file - 1] \in Seq(Seq(Test)) /\ Contents[Item] \in Seq(Test)
      /\ Chain(mgr)[file] = Chain(mgr)[file - 1] \o <<Contents[Item]>>
  BY <1>1, NextItem
<1>4. PICK k \in Nat : k = file /\ file' - 1 = k /\ file' \in 1 .. Len(Items[mgr]) + 1
  BY <1>1, <1>3
<1>5. ASSUME whole
      PROVE  EndsWith(Append(ListsFrom(base, entries), Contents[Item]), Chain(mgr)[k])
  <2>1. EndsWith(ListsFrom(base, entries), Chain(mgr)[file - 1])
    BY <1>1, <1>5 DEF ProgInv
  <2>2. ListsFrom(base, entries) \in Seq(Seq(Test))
    BY ListsTyped
  <2>3. QED
    BY <1>3, <1>4, <2>1, <2>2, EndsWithMore
<1>6. (whole => EndsWith(ListsFrom(base, entries), Chain(mgr)[file - 1]))'
  BY <1>1, <1>2, <1>4, <1>5
<1>7. QED
  BY <1>1, <1>3, <1>4, <1>6 DEF ProgInv

LEMMA FailProg == DirInv /\ ProgInv /\ (\E n \in {0, 1} : FetchFails(n)) => ProgInv'
<1> SUFFICES ASSUME DirInv, ProgInv, NEW n \in {0, 1}, FetchFails(n) PROVE ProgInv'
  OBVIOUS
<1>1. /\ mgr' = mgr /\ at = "get" /\ at' = "get" /\ ~whole' /\ file' = file + 1
      /\ InLoop /\ Item \in File
  BY DEF FetchFails, Fetchable, InLoop
<1>2. mgr \in Managers /\ file \in 1 .. Len(Items[mgr]) /\ Len(Items[mgr]) \in Nat
  BY <1>1, NextItem
<1>3. PICK k \in Nat : k = file /\ file' - 1 = k /\ file' \in 1 .. Len(Items[mgr]) + 1
  BY <1>1, <1>2
<1>4. Items[mgr][k] \in File
  BY <1>1, <1>3 DEF Item
<1>5. (Items[mgr][file - 1] \in File)'
  BY <1>1, <1>3, <1>4
<1>6. QED
  BY <1>1, <1>2, <1>3, <1>5 DEF ProgInv

LEMMA EndProg == DirInv /\ ProgInv /\ EndGo => ProgInv'
<1> SUFFICES ASSUME DirInv, ProgInv, EndGo PROVE ProgInv'
  OBVIOUS
<1>1. /\ mgr' = mgr /\ at = "get" /\ at' = "menu" /\ whole' = whole /\ load' = load
      /\ base' = base /\ mgr \in Managers
  BY DEF EndGo, directory, ProgInv
<1>2. ListsFrom(base, entries)' = ListsFrom(base, entries)
  <2>1. UNCHANGED Stands /\ ram' = ram /\ at # "uboot" /\ at' # "uboot"
    BY <1>1 DEF EndGo, directory, Stands
  <2>2. QED
    BY <2>1, Standing DEF DirInv
<1>3. PICK n \in Nat \ {0} : n = Len(Items[mgr])
  BY <1>1, ItemsTyped
<1>4. file = n + 1 /\ file # 1 /\ file - 1 = n
  BY <1>1, <1>3 DEF ProgInv, EndGo
<1>5. Chain(mgr)[n] = Wanted(mgr)
  BY <1>1, <1>3, ChainIs
<1>6. whole => EndsWith(ListsFrom(base, entries), Wanted(mgr))
  BY <1>1, <1>4, <1>5 DEF ProgInv
<1>7. load # base => ~whole /\ Items[mgr][n] \in File
  BY <1>1, <1>4 DEF ProgInv
<1>8. (whole => EndsWith(ListsFrom(base, entries), Wanted(mgr)))'
  BY <1>1, <1>2, <1>6
<1>9. (load # base => ~whole /\ Items[mgr][Len(Items[mgr])] \in File)'
  BY <1>1, <1>3, <1>7
<1>10. QED
  BY <1>1, <1>8, <1>9 DEF ProgInv

LEMMA RestProg == DirInv /\ ProgInv /\ (fileio_init \/ Leave \/ Refuse) => ProgInv'
<1>1. fileio_init \/ Leave \/ Refuse =>
        mgr' = mgr /\ (at' = "uboot" \/ (at' = "menu" /\ ~whole' /\ load' = base'))
  BY DEF fileio_init, Leave, Refuse
<1>2. QED
  BY <1>1 DEF ProgInv

LEMMA IdleProg == DirInv /\ ProgInv /\ UNCHANGED download => ProgInv'
<1> SUFFICES ASSUME DirInv, ProgInv, UNCHANGED download PROVE ProgInv'
  OBVIOUS
<1>1. /\ UNCHANGED Stands /\ ram' = ram /\ at' = at /\ base' = base /\ mgr' = mgr
      /\ whole' = whole /\ file' = file /\ load' = load
  BY DEF download, directory, Stands
<1>2. ListsFrom(base, entries)' = ListsFrom(base, entries)
  BY <1>1, Standing DEF DirInv
<1>3. QED
  BY <1>1, <1>2 DEF ProgInv

LEMMA NextProg == DirInv /\ ProgInv /\ [Next]_vars => ProgInv'
<1>1. [Next]_vars => DownloadNext \/ UNCHANGED download
  BY DEF Next, menu_list_appl, EditService, vars
<1>2. QED
  BY <1>1, SkipProg, GoProg, ClearProg, FetchProg, FailProg, EndProg, RestProg, IdleProg
     DEF DownloadNext, LoopStep

(* A download nothing went wrong with leaves the files of its manager as   *)
(* the last lists, and the load address is where the lists begin unless a  *)
(* transfer failed for the very last item (fileio.c:252-337).              *)
THEOREM DownloadsComplete == Spec => []DownloadComplete
<1>1. Init => DirInv /\ ProgInv
  BY InitDirectory, InitProg
<1>2. DirInv /\ ProgInv /\ [Next]_vars => (DirInv /\ ProgInv)'
  BY AllSteps, NextProg DEF Steps
<1>3. DirInv /\ ProgInv => DownloadComplete
  BY ProgComplete
<1>4. QED
  BY <1>1, <1>2, <1>3, PTL DEF Spec

-----------------------------------------------------------------------------
(* The menus of the first k lists.                                         *)
LEMMA MenusJoined ==
  ASSUME NEW ts, NEW n \in Nat, DOMAIN ts = 1 .. n
  PROVE  \E c : /\ c[0] = <<>>
                /\ \A k \in 1 .. n : c[k] = c[k - 1] \o MenusOf(ts[k])
                /\ FoldLeft(LAMBDA hs, tests : hs \o MenusOf(tests), <<>>, ts) = c[n]
<1> DEFINE iter == CHOOSE g : g = [s \in SUBSET (DOMAIN ts) |->
                      IF s = {} THEN <<>>
                      ELSE g[s \ {Max(s)}] \o MenusOf(ts[Max(s)])]
           d == [k \in 1 .. n |-> MenusOf(ts[k])]
<1>1. FoldLeft(LAMBDA hs, tests : hs \o MenusOf(tests), <<>>, ts) = iter[DOMAIN ts]
  BY DEF FoldLeft, MapThenFoldSet
<1>2. PICK g : g = [s \in SUBSET (1 .. n) |-> Joined(d, g, s)]
  BY FoldExists, Zenon
<1>3. \A h : \A s \in SUBSET (1 .. n) :
        Joined(d, h, s) = IF s = {} THEN <<>> ELSE h[s \ {Max(s)}] \o MenusOf(ts[Max(s)])
  <2>1. ASSUME NEW s \in SUBSET (1 .. n), s # {} PROVE d[Max(s)] = MenusOf(ts[Max(s)])
    <3>1. \E x \in s : \A y \in s : x >= y
      BY <2>1, LargestIndex
    <3>2. Max(s) \in 1 .. n
      BY <3>1 DEF Max
    <3> QED
      BY <3>2
  <2> HIDE DEF d
  <2>2. QED
    BY <2>1 DEF Joined
<1> HIDE DEF d
<1>4. g = [s \in SUBSET (DOMAIN ts) |->
             IF s = {} THEN <<>> ELSE g[s \ {Max(s)}] \o MenusOf(ts[Max(s)])]
  BY <1>2, <1>3
<1>5. iter = [s \in SUBSET (DOMAIN ts) |->
                IF s = {} THEN <<>> ELSE iter[s \ {Max(s)}] \o MenusOf(ts[Max(s)])]
  BY <1>4, Zenon
<1> HIDE DEF iter
<1>6. PICK h : h = iter
  OBVIOUS
<1>7. Joins(n, d, h)
  BY <1>3, <1>5, <1>6 DEF Joins
<1>c. PICK c : Chained(n, d, h[1 .. n], c)
  BY <1>7, JoinedUp
<1>8. /\ c[0] = <<>> /\ c[n] = h[1 .. n]
      /\ \A k \in 1 .. n : c[k] = c[k - 1] \o d[k]
  BY <1>c DEF Chained
<1>9. c[n] = iter[DOMAIN ts] /\ \A k \in 1 .. n : c[k] = c[k - 1] \o MenusOf(ts[k])
  BY <1>6, <1>8 DEF d
<1>10. QED
  BY <1>1, <1>8, <1>9, Zenon

(* Two sequences joined, element by element.                               *)
InTurn(s, t, r) ==
  /\ Len(s) \in Nat /\ Len(t) \in Nat /\ Len(r) = Len(s) + Len(t)
  /\ \A j \in 1 .. Len(s) : j \in 1 .. Len(r) /\ r[j] = s[j]
  /\ \A j \in 1 .. Len(t) : Len(s) + j \in 1 .. Len(r) /\ r[Len(s) + j] = t[j]

LEMMA JoinedElements ==
  ASSUME NEW X, NEW s \in Seq(X), NEW t \in Seq(X)
  PROVE  s \o t \in Seq(X) /\ InTurn(s, t, s \o t)
<1>1. /\ s \o t \in Seq(X) /\ Len(s \o t) = Len(s) + Len(t)
      /\ \A j \in 1 .. Len(s) + Len(t) :
           (s \o t)[j] = IF j <= Len(s) THEN s[j] ELSE t[j - Len(s)]
  BY ConcatProperties
<1>2. Len(s) \in Nat /\ Len(t) \in Nat
  OBVIOUS
<1>3. PICK a \in Nat, b \in Nat : a = Len(s) /\ b = Len(t)
  BY <1>2
<1>4. ASSUME NEW j \in 1 .. a PROVE j \in 1 .. a + b /\ (s \o t)[j] = s[j]
  BY <1>1, <1>3
<1>5. ASSUME NEW j \in 1 .. b PROVE a + j \in 1 .. a + b /\ (s \o t)[a + j] = t[j]
  <2>1. a + j \in 1 .. a + b /\ ~(a + j <= a) /\ a + j - a = j
    OBVIOUS
  <2>2. QED
    BY <1>1, <1>3, <2>1
<1>6. QED
  BY <1>1, <1>2, <1>3, <1>4, <1>5 DEF InTurn

(* The menus that a build needs: one for each list, and behind it one for  *)
(* each of its tests.                                                      *)
ListHdr(tests) == [list |-> TRUE, count |-> Len(tests)]
TestHdr(t) == [list |-> FALSE, count |-> Len(t.parms), parms |-> t.parms]

(* Tests and lists that the menus have room for.                           *)
Fit == { t \in Test : t.parms \in Seq(Parm) /\ Len(t.parms) <= MaxItems }
Fits == { tests \in Seq(Fit) : Len(tests) <= MaxItems }

Hdr == { ListHdr(tests) : tests \in Fits } \union { TestHdr(t) : t \in Fit }

LEMMA MenusOfList ==
  ASSUME NEW ts \in Fits
  PROVE  /\ MenusOf(ts) \in Seq(Hdr) /\ Len(MenusOf(ts)) = Len(ts) + 1 /\ Len(ts) \in Nat
         /\ MenusOf(ts)[1] = ListHdr(ts)
         /\ \A i \in 1 .. Len(ts) : MenusOf(ts)[i + 1] = TestHdr(ts[i])
<1> DEFINE n == Len(ts)
           body == [k \in 1 .. n |-> TestHdr(ts[k])]
           head == <<ListHdr(ts)>>
<1>1. n \in Nat /\ DOMAIN ts = 1 .. n /\ \A k \in 1 .. n : ts[k] \in Fit
  BY DEF Fits
<1>2. body \in Seq(Hdr) /\ Len(body) = n /\ \A k \in 1 .. n : body[k] = TestHdr(ts[k])
  <2>1. body \in [1 .. n -> Hdr]
    BY <1>1 DEF Hdr
  <2> HIDE DEF n
  <2>2. body \in Seq(Hdr)
    BY <1>1, <2>1, SeqDef
  <2>3. Len(body) = n
    BY <1>1, <2>1, <2>2, LenProperties
  <2>4. QED
    BY <2>2, <2>3
<1>3. head \in Seq(Hdr) /\ Len(head) = 1 /\ head[1] = ListHdr(ts)
  BY DEF Hdr
<1>4. MenusOf(ts) = head \o body
  BY <1>1 DEF MenusOf, ListHdr, TestHdr
<1> HIDE DEF head, body, n
<1>5. /\ head \o body \in Seq(Hdr) /\ Len(head \o body) = 1 + n
      /\ \A j \in 1 .. 1 : (head \o body)[j] = head[j]
      /\ \A j \in 1 .. n : (head \o body)[1 + j] = body[j]
  <2>1. head \o body \in Seq(Hdr) /\ InTurn(head, body, head \o body)
    BY <1>2, <1>3, JoinedElements
  <2>2. QED
    BY <1>2, <1>3, <2>1 DEF InTurn
<1>6. (head \o body)[1] = ListHdr(ts)
  <2>1. 1 \in 1 .. 1
    OBVIOUS
  <2>2. QED
    BY <1>3, <1>5, <2>1
<1>7. \A i \in 1 .. n : i + 1 = 1 + i /\ (head \o body)[i + 1] = TestHdr(ts[i])
  <2>1. \A i \in 1 .. n : i + 1 = 1 + i
    OBVIOUS
  <2>2. QED
    BY <1>2, <1>5, <2>1
<1>8. Len(head \o body) = n + 1
  BY <1>1, <1>5
<1>9. QED
  BY <1>1, <1>4, <1>5, <1>6, <1>7, <1>8 DEF n

(* The slot that menu_alloc hands out to each list.                        *)
Allocated(lists, hs, slot) ==
  /\ hs \in Seq(Hdr) /\ slot \in [1 .. Len(lists) + 1 -> Nat]
  /\ slot[1] = 1 /\ slot[Len(lists) + 1] = Len(hs) + 1
  /\ \A k \in 1 .. Len(lists) :
       /\ slot[k + 1] = slot[k] + Len(MenusOf(lists[k]))
       /\ slot[k] \in 1 .. Len(hs) /\ hs[slot[k]] = ListHdr(lists[k])
       /\ \A i \in 1 .. Len(lists[k]) :
            slot[k] + i \in 1 .. Len(hs) /\ hs[slot[k] + i] = TestHdr(lists[k][i])

SlotAt(c, k) == Len(c[k - 1]) + 1

LEMMA HeadersAllocated ==
  ASSUME NEW lists \in Seq(Fits)
  PROVE  \E slot : Allocated(lists, Headers(lists), slot)
<1> DEFINE n == Len(lists)
<1>1. n \in Nat /\ DOMAIN lists = 1 .. n /\ \A k \in 1 .. n : lists[k] \in Fits
  OBVIOUS
<1>2. PICK c : /\ c[0] = <<>>
               /\ \A k \in 1 .. n : c[k] = c[k - 1] \o MenusOf(lists[k])
               /\ Headers(lists) = c[n]
  <2>1. PICK c : /\ c[0] = <<>>
                 /\ \A k \in 1 .. n : c[k] = c[k - 1] \o MenusOf(lists[k])
                 /\ FoldLeft(LAMBDA hs, tests : hs \o MenusOf(tests), <<>>, lists) = c[n]
    BY <1>1, MenusJoined
  <2>2. Headers(lists) = c[n]
    BY <2>1, Zenon DEF Headers
  <2>3. QED
    BY <2>1, <2>2, Zenon
<1> DEFINE In(m, k) ==
             /\ SlotAt(c, k + 1) = SlotAt(c, k) + Len(MenusOf(lists[k]))
             /\ SlotAt(c, k) \in 1 .. Len(c[m]) /\ c[m][SlotAt(c, k)] = ListHdr(lists[k])
             /\ \A i \in 1 .. Len(lists[k]) :
                  SlotAt(c, k) + i \in 1 .. Len(c[m]) /\ c[m][SlotAt(c, k) + i] = TestHdr(lists[k][i])
           Upto(m) == c[m] \in Seq(Hdr) /\ \A k \in 1 .. m : In(m, k)
<1>3. Upto(0)
  BY <1>2
<1>4. ASSUME NEW m \in Nat, m + 1 <= n, Upto(m) PROVE Upto(m + 1)
  <2> DEFINE u == MenusOf(lists[m + 1])
             ts == lists[m + 1]
  <2>1. m + 1 \in 1 .. n /\ ts \in Fits /\ m + 1 - 1 = m
    BY <1>1, <1>4
  <2>2. /\ u \in Seq(Hdr) /\ Len(u) = Len(ts) + 1 /\ Len(ts) \in Nat
        /\ u[1] = ListHdr(ts) /\ \A i \in 1 .. Len(ts) : u[i + 1] = TestHdr(ts[i])
    BY <2>1, MenusOfList
  <2>a. PICK q \in 1 .. n : q = m + 1 /\ q - 1 = m
    BY <2>1
  <2>3. c[m + 1] = c[m] \o u
    BY <1>2, <2>a
  <2>4. PICK old, new : /\ old = c[m] /\ new = c[m + 1]
                        /\ old \in Seq(Hdr) /\ new = old \o u
    BY <1>4, <2>3
  <2>5. /\ new \in Seq(Hdr) /\ Len(old) \in Nat /\ Len(u) \in Nat
        /\ Len(new) = Len(old) + Len(u)
        /\ \A j \in 1 .. Len(old) : j \in 1 .. Len(new) /\ new[j] = old[j]
        /\ \A j \in 1 .. Len(u) : Len(old) + j \in 1 .. Len(new) /\ new[Len(old) + j] = u[j]
    <3> HIDE DEF u
    <3>1. old \o u \in Seq(Hdr) /\ InTurn(old, u, old \o u)
      BY <2>2, <2>4, JoinedElements
    <3>2. QED
      BY <2>4, <3>1 DEF InTurn
  <2>6. ASSUME NEW j \in 1 .. m PROVE In(m + 1, j)
    <3>1. In(m, j)
      BY <1>4
    <3>2. \A x \in 1 .. Len(c[m]) : x \in 1 .. Len(c[m + 1]) /\ c[m + 1][x] = c[m][x]
      BY <2>4, <2>5
    <3>3. QED
      BY <3>1, <3>2
  <2>7. In(m + 1, m + 1)
    <3>1. SlotAt(c, m + 1) = Len(old) + 1 /\ SlotAt(c, m + 1 + 1) = Len(new) + 1
      <4>1. m + 1 + 1 - 1 = m + 1
        OBVIOUS
      <4>2. c[m + 1 - 1] = old /\ c[m + 1 + 1 - 1] = new
        BY <2>1, <2>4, <4>1
      <4>3. Len(c[m + 1 - 1]) + 1 = Len(old) + 1 /\ Len(c[m + 1 + 1 - 1]) + 1 = Len(new) + 1
        BY <4>2, Zenon
      <4>4. QED
        BY <4>3, SMT DEF SlotAt
    <3> HIDE DEF u
    <3>2. SlotAt(c, m + 1 + 1) = SlotAt(c, m + 1) + Len(u)
      BY <2>5, <3>1
    <3>3. SlotAt(c, m + 1) \in 1 .. Len(new) /\ new[SlotAt(c, m + 1)] = u[1]
      <4>1. 1 \in 1 .. Len(u)
        BY <2>2
      <4>2. QED
        BY <2>5, <3>1, <4>1
    <3>4. ASSUME NEW i \in 1 .. Len(ts)
          PROVE  SlotAt(c, m + 1) + i \in 1 .. Len(new) /\ new[SlotAt(c, m + 1) + i] = u[i + 1]
      <4>1. i + 1 \in 1 .. Len(u) /\ Len(old) + (i + 1) = Len(old) + 1 + i
        BY <2>2, <2>5
      <4>2. Len(old) + (i + 1) \in 1 .. Len(new) /\ new[Len(old) + (i + 1)] = u[i + 1]
        BY <2>5, <4>1
      <4>3. QED
        BY <3>1, <4>1, <4>2
    <3>5. /\ SlotAt(c, m + 1 + 1) = SlotAt(c, m + 1) + Len(MenusOf(lists[m + 1]))
          /\ SlotAt(c, m + 1) \in 1 .. Len(c[m + 1]) /\ c[m + 1][SlotAt(c, m + 1)] = ListHdr(lists[m + 1])
          /\ \A i \in 1 .. Len(lists[m + 1]) :
               /\ SlotAt(c, m + 1) + i \in 1 .. Len(c[m + 1])
               /\ c[m + 1][SlotAt(c, m + 1) + i] = TestHdr(lists[m + 1][i])
      BY <2>2, <2>4, <3>2, <3>3, <3>4 DEF u
    <3>6. QED
      BY <3>5
  <2>8. \A k \in 1 .. m + 1 : k = m + 1 \/ k \in 1 .. m
    OBVIOUS
  <2> HIDE DEF In
  <2>9. QED
    BY <2>4, <2>5, <2>6, <2>7, <2>8
<1> HIDE DEF Upto
<1>5. Upto(n)
  <2> DEFINE S == { m \in Nat : m <= n => Upto(m) }
  <2>1. 0 \in S
    BY <1>3
  <2>2. ASSUME NEW m \in S PROVE m + 1 \in S
    BY <1>1, <1>4
  <2>3. S \in SUBSET Nat
    OBVIOUS
  <2> HIDE DEF S
  <2>4. n \in S
    BY <1>1, <2>1, <2>2, <2>3, SetInduction
  <2>5. QED
    BY <1>1, <2>4 DEF S
<1> DEFINE hs == c[n]
           slot == [k \in 1 .. n + 1 |-> SlotAt(c, k)]
<1>6. hs \in Seq(Hdr) /\ \A k \in 1 .. n : In(n, k)
  BY <1>5 DEF Upto
<1>7. slot[1] = 1 /\ slot[n + 1] = Len(hs) + 1
  <2>1. 1 \in 1 .. n + 1 /\ n + 1 \in 1 .. n + 1 /\ 1 - 1 = 0 /\ n + 1 - 1 = n
    BY <1>1
  <2>2. Len(c[0]) = 0
    BY <1>2
  <2>3. SlotAt(c, 1) = 1
    BY <2>1, <2>2 DEF SlotAt
  <2>5. SlotAt(c, n + 1) = Len(hs) + 1
    BY <2>1 DEF SlotAt
  <2>4. QED
    BY <2>1, <2>3, <2>5
<1>8. \A k \in 1 .. n : k \in 1 .. n + 1 /\ k + 1 \in 1 .. n + 1
  BY <1>1
<1>9. \A k \in 1 .. n : slot[k] = SlotAt(c, k) /\ slot[k + 1] = SlotAt(c, k + 1)
  BY <1>8
<1>10. slot \in [1 .. n + 1 -> Nat]
  <2> SUFFICES ASSUME NEW k \in 1 .. n + 1 PROVE SlotAt(c, k) \in Nat
    OBVIOUS
  <2>1. CASE k = n + 1
    <3>1. SlotAt(c, k) = Len(hs) + 1 /\ Len(hs) \in Nat
      BY <1>1, <1>6, <2>1 DEF SlotAt
    <3>2. QED
      BY <3>1
  <2>2. CASE k # n + 1
    <3>1. k \in 1 .. n
      BY <1>1, <2>2
    <3>2. SlotAt(c, k) \in 1 .. Len(hs)
      BY <1>6, <3>1
    <3>3. QED
      BY <3>2
  <2>3. QED
    BY <2>1, <2>2
<1> HIDE DEF slot
<1>11. Allocated(lists, hs, slot)
  BY <1>6, <1>7, <1>9, <1>10 DEF Allocated
<1>12. QED
  BY <1>2, <1>11

LEMMA SlotsListed ==
  ASSUME NEW lists \in Seq(Fits), NEW hs, NEW slot, Allocated(lists, hs, slot)
  PROVE  /\ Len(ListSlots(lists)) = Len(lists)
         /\ \A k \in 1 .. Len(lists) : ListSlots(lists)[k] = slot[k]
<1> DEFINE n == Len(lists)
           Step(g) == [k \in DOMAIN lists |->
                         IF k = 1 THEN 1 ELSE g[k - 1] + Len(MenusOf(lists[k - 1]))]
           f == CHOOSE g : g = Step(g)
           w == [k \in 1 .. n |-> slot[k]]
<1>1. n \in Nat /\ DOMAIN lists = 1 .. n
  OBVIOUS
<1>2. /\ slot \in [1 .. n + 1 -> Nat] /\ slot[1] = 1
      /\ \A k \in 1 .. n : slot[k + 1] = slot[k] + Len(MenusOf(lists[k]))
  BY DEF Allocated
<1>3. ListSlots(lists) = f
  BY DEF ListSlots
<1>4. \A k \in 1 .. n : k # 1 => k - 1 \in 1 .. n /\ k - 1 + 1 = k
  BY <1>1
<1>5. \A k \in 1 .. n : slot[k] = IF k = 1 THEN 1 ELSE w[k - 1] + Len(MenusOf(lists[k - 1]))
  <2> SUFFICES ASSUME NEW k \in 1 .. n, k # 1
               PROVE  slot[k] = w[k - 1] + Len(MenusOf(lists[k - 1]))
    BY <1>2
  <2>1. PICK j \in 1 .. n : j = k - 1 /\ j + 1 = k
    BY <1>4
  <2>2. slot[k] = slot[j] + Len(MenusOf(lists[j])) /\ w[j] = slot[j]
    BY <1>2, <2>1
  <2>3. QED
    BY <2>1, <2>2
<1>6. w = Step(w)
  BY <1>1, <1>5
<1> HIDE DEF w
<1>7. f = Step(f)
  <2> HIDE DEF Step
  <2>1. QED
    BY <1>6, Zenon
<1> HIDE DEF f
<1>8. \A k \in 1 .. n : f[k] = IF k = 1 THEN 1 ELSE f[k - 1] + Len(MenusOf(lists[k - 1]))
  BY <1>1, <1>7
<1> DEFINE S == { k \in Nat : k + 1 \in 1 .. n => f[k + 1] = slot[k + 1] }
<1>9. n \in S /\ \A k \in Nat : k \in S
  <2>1. 0 \in S
    BY <1>2, <1>8
  <2>2. ASSUME NEW k \in S PROVE k + 1 \in S
    <3> SUFFICES ASSUME k + 1 + 1 \in 1 .. n PROVE f[k + 1 + 1] = slot[k + 1 + 1]
      OBVIOUS
    <3>1. k + 1 \in 1 .. n /\ k + 1 + 1 # 1 /\ k + 1 + 1 - 1 = k + 1
      BY <1>1
    <3>2. PICK j \in 1 .. n : j = k + 1
      BY <3>1
    <3>3. f[j] = slot[j] /\ slot[j + 1] = slot[j] + Len(MenusOf(lists[j]))
      BY <1>2, <3>2
    <3>4. f[j + 1] = f[j + 1 - 1] + Len(MenusOf(lists[j + 1 - 1])) /\ j + 1 - 1 = j
      BY <1>8, <3>1, <3>2
    <3>5. QED
      BY <3>2, <3>3, <3>4
  <2>3. S \in SUBSET Nat
    OBVIOUS
  <2> HIDE DEF S
  <2>4. \A k \in Nat : k \in S
    BY <2>1, <2>2, <2>3, SetInduction
  <2>5. QED
    BY <1>1, <2>4
<1>10. ASSUME NEW k \in 1 .. n PROVE f[k] = slot[k]
  <2>1. PICK j \in Nat : k = j + 1
    BY <1>1
  <2>2. j \in S
    BY <1>9
  <2>3. QED
    BY <2>1, <2>2
<1>11. Len(f) = n
  <2>1. f = [k \in 1 .. n |-> f[k]]
    BY <1>1, <1>7
  <2>2. f \in [1 .. n -> Nat]
    <3>1. \A k \in 1 .. n : f[k] \in Nat
      <4>1. ASSUME NEW k \in 1 .. n PROVE f[k] \in Nat
        <5>1. k \in 1 .. n + 1 /\ f[k] = slot[k]
          BY <1>1, <1>10
        <5>2. QED
          BY <1>2, <5>1
      <4>2. QED
        BY <4>1
    <3>2. QED
      BY <2>1, <3>1
  <2>3. f \in Seq(Nat)
    BY <1>1, <2>2, SeqDef
  <2>4. QED
    BY <1>1, <2>2, <2>3, LenProperties
<1>12. QED
  BY <1>3, <1>10, <1>11

(* The lists in memory, as the builder reads them, are files of the        *)
(* server: their tests and parameters fit into the menus.                  *)
LEMMA ListsFit ==
  DirInv => /\ ListsFrom(base, entries) \in Seq(Fits)
            /\ \E n \in Nat, size \in Nat :
                 /\ n <= MaxLists /\ Len(ListsFrom(base, entries)) = n
                 /\ MaxLists * size <= Slots
                 /\ \A k \in 1 .. n : Len(ListsFrom(base, entries)[k]) < size
<1> SUFFICES ASSUME DirInv
             PROVE  /\ ListsFrom(base, entries) \in Seq(Fits)
                    /\ \E n \in Nat, size \in Nat :
                         /\ n <= MaxLists /\ Len(ListsFrom(base, entries)) = n
                         /\ MaxLists * size <= Slots
                         /\ \A k \in 1 .. n : Len(ListsFrom(base, entries)[k]) < size
  OBVIOUS
<1>1. PICK fs, ps : Placed(fs, ps)
  BY DEF DirInv
<1>2. PICK n \in Nat : n = entries /\ n <= MaxLists
  BY Sizes DEF DirInv
<1> DEFINE s == [k \in 1 .. n |-> Contents[fs[k]]]
<1>3. ListsFrom(base, entries) = s
  BY <1>1, <1>2, ListsRead
<1>4. \A k \in 1 .. n : fs[k] \in File
  BY <1>1, <1>2 DEF Placed
<1>5. \A f \in File : Contents[f] \in Fits
  <2> SUFFICES ASSUME NEW f \in File PROVE Contents[f] \in Fits
    OBVIOUS
  <2>1. Contents[f] \in Seq(Test) /\ Len(Contents[f]) <= MaxItems
    BY FileLaid, MenuBuilderAssumption
  <2>2. PICK ts \in Seq(Test) : ts = Contents[f]
    BY <2>1
  <2>3. Len(ts) \in Nat /\ DOMAIN ts = 1 .. Len(ts) /\ ts \in [1 .. Len(ts) -> Test]
    OBVIOUS
  <2>4. \A i \in DOMAIN ts : ts[i].parms \in Seq(Parm) /\ Len(ts[i].parms) <= MaxItems
    BY <2>2, MenuBuilderAssumption
  <2>5. \A i \in 1 .. Len(ts) : ts[i] \in Fit
    BY <2>3, <2>4 DEF Fit
  <2>6. ts \in [1 .. Len(ts) -> Fit]
    BY <2>3, <2>5
  <2>7. ts \in Seq(Fit)
    BY <2>3, <2>6, SeqDef
  <2>8. QED
    BY <2>1, <2>2, <2>7 DEF Fits
<1>6. PICK size \in 0 .. Slots : /\ \A f \in File : Len(Contents[f]) < size
                                /\ MaxLists * size <= Slots
  BY MenuBuilderAssumption
<1>7. s \in [1 .. n -> Fits] /\ \A k \in 1 .. n : s[k] = Contents[fs[k]]
  BY <1>4, <1>5
<1> HIDE DEF s
<1>8. s \in Seq(Fits) /\ Len(s) = n
  <2>1. s \in Seq(Fits)
    BY <1>7, SeqDef
  <2>2. QED
    BY <1>7, <2>1, LenProperties
<1>9. \A k \in 1 .. n : Len(s[k]) < size
  BY <1>4, <1>6, <1>7
<1>10. size \in Nat
  BY <1>6, MenuBuilderAssumption
<1>11. QED
  BY <1>2, <1>3, <1>6, <1>8, <1>9, <1>10

(* Their menus fit into the pool.                                          *)
LEMMA PoolSuffices ==
  ASSUME NEW n \in Nat, NEW size \in Nat, n <= MaxLists, MaxLists * size <= Slots,
         NEW lists \in Seq(Fits), Len(lists) = n, \A k \in 1 .. n : Len(lists[k]) < size,
         NEW hs, NEW slot, Allocated(lists, hs, slot)
  PROVE  Len(hs) \in Nat /\ Len(hs) <= Slots
<1> DEFINE len == [k \in 1 .. n |-> Len(MenusOf(lists[k]))]
<1>1. /\ slot \in [1 .. n + 1 -> Nat] /\ slot[1] = 1 /\ slot[n + 1] = Len(hs) + 1
      /\ \A k \in 1 .. n : slot[k + 1] = slot[k] + Len(MenusOf(lists[k]))
      /\ hs \in Seq(Hdr)
  BY DEF Allocated
<1>2. \A k \in 1 .. n : len[k] \in Nat /\ len[k] <= size /\ slot[k + 1] = slot[k] + len[k]
  <2> SUFFICES ASSUME NEW k \in 1 .. n
               PROVE  /\ Len(MenusOf(lists[k])) \in Nat /\ Len(MenusOf(lists[k])) <= size
                      /\ slot[k + 1] = slot[k] + Len(MenusOf(lists[k]))
    OBVIOUS
  <2>1. lists[k] \in Fits
    OBVIOUS
  <2>2. Len(MenusOf(lists[k])) = Len(lists[k]) + 1 /\ Len(lists[k]) \in Nat
    BY <2>1, MenusOfList
  <2>3. PICK x \in Nat : x = Len(lists[k]) /\ x < size
    BY <2>2
  <2>4. x + 1 \in Nat /\ x + 1 <= size /\ Len(MenusOf(lists[k])) = x + 1
    BY <2>2, <2>3
  <2>5. slot[k + 1] = slot[k] + Len(MenusOf(lists[k]))
    BY <1>1
  <2>6. QED
    BY <2>4, <2>5
<1> HIDE DEF len
<1>3. /\ n + 1 \in 1 .. n + 1 /\ n + 1 - 1 = n /\ Len(hs) \in Nat
      /\ Slots \in Nat /\ MaxLists \in Nat
  BY <1>1, MenuBuilderAssumption, TlsDownloadAssumption
<1>4. slot[n + 1] <= slot[1] + (n + 1 - 1) * size
  <2>1. \A k \in 1 .. n + 1 : slot[k] <= slot[1] + (k - 1) * size
    BY <1>1, <1>2, Stacked
  <2>2. QED
    BY <1>3, <2>1
<1>5. n * size <= MaxLists * size /\ n * size \in Nat /\ MaxLists * size \in Nat
  BY <1>3, Multiples
<1>6. PICK x \in Nat, y \in Nat : x = n * size /\ y = MaxLists * size
  BY <1>5
<1>7. Len(hs) + 1 <= 1 + x
  BY <1>1, <1>3, <1>4, <1>6
<1>8. QED
  BY <1>3, <1>5, <1>6, <1>7

LEMMA ParmKinds == Parm = {"parm", "reg", "svc", "nosvc", "open", "bare"}
BY DEF Parm, Stored

(* What menu_tls_builder makes of a parameter.                             *)
LEMMA ItemMade ==
  ASSUME NEW parm \in Parm, NEW bound, NEW old
  PROVE  /\ parm = "bare" => ParmItem(parm, bound, old) = old
         /\ parm # "bare" =>
              LET item == ParmItem(parm, bound, old)
              IN  /\ item.menu = bound
                  /\ item.type = CASE parm = "reg" -> "reg"
                                   [] parm \in {"svc", "nosvc"} -> "svc"
                                   [] OTHER -> "parm"
<1>1. CASE parm = "bare"
  BY <1>1 DEF ParmItem
<1>2. CASE parm # "bare"
  <2>1. ParmItem(parm, bound, old) = [type |-> TypeOf(old.type, parm), menu |-> bound,
                                      func |-> FuncOf(parm)]
    BY <1>2 DEF ParmItem
  <2>2. TypeOf(old.type, parm) = CASE parm = "reg" -> "reg"
                                   [] parm \in {"svc", "nosvc"} -> "svc"
                                   [] OTHER -> "parm"
    BY <1>2, ParmKinds DEF TypeOf
  <2>3. QED
    BY <1>2, <2>1, <2>2
<1>3. QED
  BY <1>1, <1>2

LEMMA HeaderRoom ==
  ASSUME NEW h \in Hdr
  PROVE  /\ h.count \in Nat /\ h.count <= MaxItems /\ h.list \in BOOLEAN
         /\ ~h.list => \A i \in 1 .. h.count : h.parms[i] \in Parm
<1>1. CASE \E tests \in Fits : h = ListHdr(tests)
  <2>1. PICK tests \in Fits : h = ListHdr(tests)
    BY <1>1
  <2>2. Len(tests) \in Nat /\ Len(tests) <= MaxItems
    BY DEF Fits
  <2>3. h.count = Len(tests) /\ h.list = TRUE
    BY <2>1 DEF ListHdr
  <2>4. QED
    BY <2>2, <2>3
<1>2. CASE \E t \in Fit : h = TestHdr(t)
  <2>1. PICK t \in Fit : h = TestHdr(t)
    BY <1>2
  <2>2. PICK ps \in Seq(Parm) : ps = t.parms /\ Len(ps) <= MaxItems
    BY DEF Fit
  <2>3. h.count = Len(ps) /\ h.list = FALSE /\ h.parms = ps
    BY <2>1, <2>2 DEF TestHdr
  <2>4. Len(ps) \in Nat /\ \A i \in 1 .. Len(ps) : ps[i] \in Parm
    OBVIOUS
  <2>5. QED
    BY <2>2, <2>3, <2>4
<1>3. QED
  BY <1>1, <1>2 DEF Hdr

(* The menu of a header after a build, item by item.                       *)
Filled(hs, k) ==
  LET h == hs[k] IN
  /\ pool'[k].count = h.count
  /\ \A i \in 1 .. h.count :
       LET item == pool'[k].items[i] IN
       IF h.list THEN item.type = "test" /\ item.menu = k + i
       ELSE item = ParmItem(h.parms[i], ServiceBefore(Services(hs), k, i), pool[k].items[i])

LEMMA BuildFills ==
  ASSUME menu_list_appl, NEW hs \in Seq(Hdr), hs = Headers(Walk), Len(hs) <= Slots
  PROVE  \A k \in 1 .. Len(hs) : Filled(hs, k)
<1> SUFFICES ASSUME NEW k \in 1 .. Len(hs) PROVE Filled(hs, k)
  OBVIOUS
<1>1. k \in 1 .. Slots /\ k \in DOMAIN hs
  BY MenuBuilderAssumption
<1>2. PICK services : services = Services(hs)
  OBVIOUS
<1>3. PICK h \in Hdr : h = hs[k]
  OBVIOUS
<1>4. pool' = [j \in 1 .. Slots |-> IF j \in DOMAIN hs THEN Menu(hs[j], services, j) ELSE pool[j]]
  BY <1>2 DEF menu_list_appl
<1>5. pool'[k] = Menu(h, services, k)
  BY <1>1, <1>3, <1>4
<1>6. h.count \in Nat /\ h.count <= MaxItems /\ MaxItems \in Nat
  BY HeaderRoom, MenuBuilderAssumption
<1>7. /\ Menu(h, services, k).count = h.count
      /\ \A i \in 1 .. MaxItems :
           Menu(h, services, k).items[i] =
             IF i > h.count THEN pool[k].items[i]
             ELSE IF h.list THEN [type |-> "test", menu |-> k + i, func |-> "none"]
             ELSE ParmItem(h.parms[i], ServiceBefore(services, k, i), pool[k].items[i])
  BY DEF Menu
<1>8. \A i \in 1 .. h.count :
        pool'[k].items[i] =
          IF h.list THEN [type |-> "test", menu |-> k + i, func |-> "none"]
          ELSE ParmItem(h.parms[i], ServiceBefore(services, k, i), pool[k].items[i])
  <2> SUFFICES ASSUME NEW i \in 1 .. h.count
               PROVE  Menu(h, services, k).items[i] =
                        IF h.list THEN [type |-> "test", menu |-> k + i, func |-> "none"]
                        ELSE ParmItem(h.parms[i], ServiceBefore(services, k, i), pool[k].items[i])
    BY <1>5
  <2>1. i \in 1 .. MaxItems /\ ~(i > h.count)
    BY <1>6
  <2>2. QED
    BY <1>7, <2>1
<1>9. ASSUME NEW i \in 1 .. h.count
      PROVE  IF h.list THEN pool'[k].items[i].type = "test" /\ pool'[k].items[i].menu = k + i
             ELSE pool'[k].items[i] = ParmItem(h.parms[i], ServiceBefore(services, k, i), pool[k].items[i])
  <2>1. PICK item : item = pool'[k].items[i]
    OBVIOUS
  <2>2. CASE h.list
    <3>1. item = [type |-> "test", menu |-> k + i, func |-> "none"]
      BY <1>8, <2>1, <2>2
    <3>2. QED
      BY <2>1, <2>2, <3>1
  <2>3. CASE ~h.list
    BY <1>8, <2>3
  <2>4. QED
    BY <2>2, <2>3
<1>10. pool'[k].count = h.count
  BY <1>5, <1>7
<1>11. QED
  BY <1>2, <1>3, <1>9, <1>10 DEF Filled

LEMMA ItemKinds ==
  ASSUME NEW hs \in Seq(Hdr), NEW k \in 1 .. Len(hs), Filled(hs, k), NEW i \in 1 .. hs[k].count
  PROVE  LET item == pool'[k].items[i] IN
         IF hs[k].list THEN item.type = "test"
         ELSE hs[k].parms[i] # "bare" =>
                /\ item.menu = ServiceBefore(Services(hs), k, i) /\ item.type # "test"
                /\ item.type = "svc" <=> hs[k].parms[i] \in {"svc", "nosvc"}
<1>1. PICK h \in Hdr : h = hs[k]
  OBVIOUS
<1>2. PICK item : item = pool'[k].items[i]
  OBVIOUS
<1>3. CASE h.list
  BY <1>1, <1>2, <1>3 DEF Filled
<1>4. CASE ~h.list
  <2>1. PICK parm \in Parm : parm = h.parms[i]
    BY <1>1, <1>4, HeaderRoom
  <2>2. PICK bound, old : bound = ServiceBefore(Services(hs), k, i) /\ old = pool[k].items[i]
    OBVIOUS
  <2>3. item = ParmItem(parm, bound, old)
    BY <1>1, <1>2, <1>4, <2>1, <2>2 DEF Filled
  <2>4. parm # "bare" => /\ item.menu = bound /\ item.type # "test"
                         /\ item.type = "svc" <=> parm \in {"svc", "nosvc"}
    BY <2>3, ItemMade, ParmKinds
  <2>5. QED
    BY <1>1, <1>2, <1>4, <2>1, <2>2, <2>4
<1>5. QED
  BY <1>1, <1>3, <1>4, HeaderRoom

LEMMA MembersOf ==
  ASSUME NEW hs, NEW x
  PROVE  /\ x \in ItemsSet(hs) <=>
              \E k \in DOMAIN hs : \E i \in 1 .. hs[k].count :
                x = <<k, i>> /\ (hs[k].list \/ hs[k].parms[i] # "bare")
         /\ x \in Services(hs) <=>
              \E k \in DOMAIN hs : \E i \in 1 .. hs[k].count :
                x = <<k, i>> /\ ~hs[k].list /\ hs[k].parms[i] \in {"svc", "nosvc"}
<1>1. x \in ItemsSet(hs) <=>
        \E k \in DOMAIN hs : \E i \in 1 .. hs[k].count :
          x = <<k, i>> /\ (hs[k].list \/ hs[k].parms[i] # "bare")
  BY DEF ItemsSet
<1>2. x \in Services(hs) <=>
        \E k \in DOMAIN hs : \E i \in 1 .. hs[k].count :
          x = <<k, i>> /\ ~hs[k].list /\ hs[k].parms[i] \in {"svc", "nosvc"}
  BY DEF Services
<1>3. QED
  BY <1>1, <1>2

LEMMA BuildBinds ==
  ASSUME menu_list_appl, NEW hs \in Seq(Hdr), hs = Headers(Walk), Len(hs) <= Slots
  PROVE  BoundToNearest'
<1>1. \A k \in 1 .. Len(hs) : Filled(hs, k)
  BY BuildFills
<1>2. DOMAIN hs = 1 .. Len(hs) /\ fresh' = ItemsSet(hs)
  BY DEF menu_list_appl
<1> DEFINE Kind(x) == pool'[x[1]].items[x[2]].type
<1>3. ASSUME NEW x \in ItemsSet(hs)
      PROVE  x \in Services(hs) <=> Kind(x) = "svc"
  <2>k. PICK k \in DOMAIN hs : \E i \in 1 .. hs[k].count :
          x = <<k, i>> /\ (hs[k].list \/ hs[k].parms[i] # "bare")
    BY MembersOf
  <2>1. PICK i \in 1 .. hs[k].count : x = <<k, i>> /\ (hs[k].list \/ hs[k].parms[i] # "bare")
    BY <2>k
  <2>2. x \in Services(hs) <=> ~hs[k].list /\ hs[k].parms[i] \in {"svc", "nosvc"}
    <3>1. x \in Services(hs) <=>
            \E j \in DOMAIN hs : \E m \in 1 .. hs[j].count :
              x = <<j, m>> /\ ~hs[j].list /\ hs[j].parms[m] \in {"svc", "nosvc"}
      BY MembersOf
    <3>2. \A j, m : x = <<j, m>> => j = k /\ m = i
      BY <2>1
    <3>3. QED
      BY <2>1, <3>1, <3>2
  <2>3. hs[k].list \in BOOLEAN
    BY HeaderRoom, <1>2
  <2>4. IF hs[k].list THEN pool'[k].items[i].type = "test"
        ELSE pool'[k].items[i].type = "svc" <=> hs[k].parms[i] \in {"svc", "nosvc"}
    BY <1>1, <1>2, <2>1, ItemKinds
  <2>5. Kind(x) = pool'[k].items[i].type
    BY <2>1
  <2> HIDE DEF Kind
  <2>6. CASE hs[k].list
    BY <2>2, <2>4, <2>5, <2>6
  <2>7. CASE ~hs[k].list
    BY <2>2, <2>4, <2>5, <2>7
  <2>8. QED
    BY <2>3, <2>6, <2>7
<1>4. \A x \in Services(hs) : x \in ItemsSet(hs)
  <2> SUFFICES ASSUME NEW x \in Services(hs) PROVE x \in ItemsSet(hs)
    OBVIOUS
  <2>1. \E k \in DOMAIN hs : \E i \in 1 .. hs[k].count :
          x = <<k, i>> /\ ~hs[k].list /\ hs[k].parms[i] \in {"svc", "nosvc"}
    BY MembersOf
  <2>2. \E k \in DOMAIN hs : \E i \in 1 .. hs[k].count :
          x = <<k, i>> /\ (hs[k].list \/ hs[k].parms[i] # "bare")
    BY <2>1
  <2>3. QED
    BY <2>2, MembersOf
<1>5. { s \in fresh' : Kind(s) = "svc" } = Services(hs)
  <2> HIDE DEF Kind
  <2>1. QED
    BY <1>2, <1>3, <1>4
<1>6. ASSUME NEW x \in ItemsSet(hs)
      PROVE  LET item == pool'[x[1]].items[x[2]]
                 before == { s \in Services(hs) : Precedes(s, x[1], x[2]) }
             IN  item.type # "test" /\ before # {} => item.menu = Max({ s[1] : s \in before })
  <2>k. PICK k \in DOMAIN hs : \E i \in 1 .. hs[k].count :
          x = <<k, i>> /\ (hs[k].list \/ hs[k].parms[i] # "bare")
    BY MembersOf
  <2>1. PICK i \in 1 .. hs[k].count : x = <<k, i>> /\ (hs[k].list \/ hs[k].parms[i] # "bare")
    BY <2>k
  <2>2. PICK item : item = pool'[k].items[i]
    OBVIOUS
  <2> DEFINE before == { s \in Services(hs) : Precedes(s, k, i) }
  <2>3. ASSUME item.type # "test", before # {} PROVE item.menu = Max({ s[1] : s \in before })
    <3>1. ~hs[k].list
      BY <1>1, <1>2, <2>2, <2>3, ItemKinds
    <3>2. item.menu = ServiceBefore(Services(hs), k, i)
      BY <1>1, <1>2, <2>1, <2>2, <3>1, ItemKinds
    <3>3. { s[1] : s \in before } # {}
      BY <2>3
    <3>4. ServiceBefore(Services(hs), k, i) = Max({ s[1] : s \in before })
      BY <3>3, Zenon DEF ServiceBefore
    <3>5. QED
      BY <3>2, <3>4
  <2>4. x[1] = k /\ x[2] = i
    BY <2>1
  <2>5. QED
    BY <2>2, <2>3, <2>4
<1>7. QED
  BY <1>2, <1>5, <1>6 DEF BoundToNearest

(* A list of the walk in its menu, and each of its tests in the menu its   *)
(* item leads to.                                                          *)
LEMMA BuildShows ==
  ASSUME menu_list_appl, NEW lists \in Seq(Fits), lists = Walk, Len(Headers(lists)) <= Slots,
         NEW slot, Allocated(lists, Headers(lists), slot), NEW k \in 1 .. Len(lists)
  PROVE  LET menu == pool'[slot[k]]
         IN  /\ menu.count = Len(lists[k])
             /\ \A i \in DOMAIN lists[k] :
                  LET to == menu.items[i].menu
                  IN  ShowsTest(pool'[to], lists[k][i], pool[to])
<1>1. PICK hs : hs = Headers(lists)
  OBVIOUS
<1>2. /\ hs \in Seq(Hdr) /\ slot[k] \in 1 .. Len(hs) /\ hs[slot[k]] = ListHdr(lists[k])
      /\ \A i \in 1 .. Len(lists[k]) :
           slot[k] + i \in 1 .. Len(hs) /\ hs[slot[k] + i] = TestHdr(lists[k][i])
  BY <1>1 DEF Allocated
<1>3. \A j \in 1 .. Len(hs) : Filled(hs, j)
  BY <1>1, <1>2, BuildFills
<1>4. PICK ts \in Fits : ts = lists[k]
  OBVIOUS
<1>5. DOMAIN ts = 1 .. Len(ts) /\ \A i \in 1 .. Len(ts) : ts[i] \in Fit
  BY DEF Fits
<1>6. hs[slot[k]].count = Len(ts) /\ hs[slot[k]].list = TRUE
  BY <1>2, <1>4 DEF ListHdr
<1>7. /\ pool'[slot[k]].count = Len(ts)
      /\ \A i \in 1 .. Len(ts) : pool'[slot[k]].items[i].menu = slot[k] + i
  BY <1>2, <1>3, <1>6 DEF Filled
<1>8. ASSUME NEW i \in 1 .. Len(ts)
      PROVE  ShowsTest(pool'[slot[k] + i], ts[i], pool[slot[k] + i])
  <2>1. PICK to \in 1 .. Len(hs) : to = slot[k] + i /\ hs[to] = TestHdr(ts[i])
    BY <1>2, <1>4
  <2>2. PICK t \in Fit : t = ts[i]
    BY <1>5
  <2>3. PICK h \in Hdr : h = TestHdr(t) /\ h = hs[to]
    BY <1>2, <2>1, <2>2
  <2>4. h.list = FALSE /\ h.count = Len(t.parms) /\ h.parms = t.parms
    BY <2>3 DEF TestHdr
  <2>5. /\ pool'[to].count = h.count
        /\ \A m \in 1 .. h.count :
             pool'[to].items[m] = ParmItem(h.parms[m], ServiceBefore(Services(hs), to, m), pool[to].items[m])
    BY <1>3, <2>3, <2>4 DEF Filled
  <2>6. DOMAIN t.parms = 1 .. Len(t.parms)
    BY DEF Fit
  <2>7. ASSUME NEW m \in DOMAIN t.parms
        PROVE  LET parm == t.parms[m]
                   item == pool'[to].items[m]
               IN  IF parm = "bare" THEN item = pool[to].items[m]
                   ELSE item.type = CASE parm = "reg" -> "reg"
                                      [] parm \in {"svc", "nosvc"} -> "svc"
                                      [] OTHER -> "parm"
    <3>1. PICK parm \in Parm : parm = t.parms[m]
      BY <2>4, <2>6, HeaderRoom
    <3>2. PICK item, old, bound : /\ item = pool'[to].items[m] /\ old = pool[to].items[m]
                                  /\ bound = ServiceBefore(Services(hs), to, m)
      OBVIOUS
    <3>3. item = ParmItem(parm, bound, old)
      BY <2>4, <2>5, <2>6, <3>1, <3>2
    <3>4. IF parm = "bare" THEN item = old
          ELSE item.type = CASE parm = "reg" -> "reg"
                             [] parm \in {"svc", "nosvc"} -> "svc"
                             [] OTHER -> "parm"
      BY <3>3, ItemMade
    <3>5. QED
      BY <3>1, <3>2, <3>4
  <2>8. ShowsTest(pool'[to], t, pool[to])
    BY <2>4, <2>5, <2>7 DEF ShowsTest
  <2>9. QED
    BY <2>1, <2>2, <2>8
<1>9. QED
  BY <1>4, <1>5, <1>7, <1>8

LEMMA BuildMenus ==
  ASSUME DirInv, menu_list_appl, load = base, NEW lists, lists = ListsFrom(base, entries)
  PROVE  /\ BoundToNearest'
         /\ Len(list_menu') = Len(lists)
         /\ \A k \in DOMAIN lists :
              LET menu == pool'[list_menu'[k]]
              IN  /\ menu.count = Len(lists[k])
                  /\ \A i \in DOMAIN lists[k] :
                       LET to == menu.items[i].menu
                       IN  ShowsTest(pool'[to], lists[k][i], pool[to])
<1>1. lists \in Seq(Fits) /\ lists = Walk /\ DOMAIN lists = 1 .. Len(lists)
  <2>1. lists \in Seq(Fits)
    BY ListsFit
  <2>2. QED
    BY <2>1 DEF Walk
<1>2. PICK slot : Allocated(lists, Headers(lists), slot)
  BY <1>1, HeadersAllocated
<1>3. Headers(lists) \in Seq(Hdr) /\ Len(Headers(lists)) <= Slots
  <2>1. PICK n \in Nat, size \in Nat : /\ n <= MaxLists /\ Len(lists) = n
                                       /\ MaxLists * size <= Slots
                                       /\ \A k \in 1 .. n : Len(lists[k]) < size
    BY ListsFit
  <2>2. Len(Headers(lists)) <= Slots
    BY <1>1, <1>2, <2>1, PoolSuffices
  <2>3. QED
    BY <1>2, <2>2 DEF Allocated
<1>4. BoundToNearest'
  BY <1>1, <1>3, BuildBinds
<1>5. list_menu' = ListSlots(lists)
  BY <1>1 DEF menu_list_appl
<1>6. Len(list_menu') = Len(lists) /\ \A k \in 1 .. Len(lists) : list_menu'[k] = slot[k]
  BY <1>1, <1>2, <1>5, SlotsListed
<1>7. ASSUME NEW k \in DOMAIN lists
      PROVE  LET menu == pool'[list_menu'[k]]
             IN  /\ menu.count = Len(lists[k])
                 /\ \A i \in DOMAIN lists[k] :
                      LET to == menu.items[i].menu
                      IN  ShowsTest(pool'[to], lists[k][i], pool[to])
  <2>1. list_menu'[k] = slot[k]
    BY <1>1, <1>6
  <2>2. LET menu == pool'[slot[k]]
        IN  /\ menu.count = Len(lists[k])
            /\ \A i \in DOMAIN lists[k] :
                 LET to == menu.items[i].menu
                 IN  ShowsTest(pool'[to], lists[k][i], pool[to])
    BY <1>1, <1>2, <1>3, BuildShows
  <2>3. QED
    BY <2>1, <2>2
<1>8. QED
  BY <1>4, <1>6, <1>7

(* A build from where the lists begin has a menu for each list with an item *)
(* for each of its tests, that leads to the menu of its parameters, each    *)
(* bound to the service last seen (builder.c:146-321).                      *)
THEOREM MenusAreTheLists == Spec => MenusShowLists
<1>1. Init => DirInv
  BY InitDirectory
<1>2. DirInv /\ [Next]_vars => DirInv'
  BY AllSteps DEF Steps
<1>3. DirInv /\ [Next]_vars =>
        [built' /\ load = base =>
           LET lists == ListsFrom(base, entries)
           IN  /\ BoundToNearest'
               /\ Len(list_menu') = Len(lists)
               /\ \A k \in DOMAIN lists :
                    LET menu == pool'[list_menu'[k]]
                    IN  /\ menu.count = Len(lists[k])
                        /\ \A i \in DOMAIN lists[k] :
                             LET slot == menu.items[i].menu
                             IN  ShowsTest(pool'[slot], lists[k][i], pool[slot])]_vars
  <2>1. [Next]_vars /\ built' => menu_list_appl \/ UNCHANGED vars
    BY DEF Next, EditService
  <2>2. QED
    BY <2>1, BuildMenus
<1>4. QED
  BY <1>1, <1>2, <1>3, PTL DEF Spec, MenusShowLists
=============================================================================
