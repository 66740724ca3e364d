--------------------------- MODULE SessionsProofs ---------------------------
(***************************************************************************)
(* What holds of a test with a log and a mailbox session, whatever it      *)
(* prints and requests: its log is a log file of LogFiles, and what the    *)
(* operator is shown of it begins with what was printed.                   *)
(***************************************************************************)
EXTENDS Sessions, LogFilesProofs, FiniteSetTheorems

(* A mailbox session leaves the logs alone: its requests are stutters of   *)
(* LogFiles, also while a suspended test shows them.                       *)
LEMMA StepOfLogs == [SessionNext]_sessions => [Next]_vars
<1>1. ASSUME SessionNext PROVE Next \/ UNCHANGED vars
  <2>1. CASE \E logged \in BOOLEAN : Start(logged)
    BY <2>1 DEF Start, Next
  <2>2. CASE End
    BY <2>2 DEF End, Next
  <2>3. CASE TestStep
    BY <2>3 DEF TestStep, Next
  <2>4. CASE Operator
    BY <2>4 DEF Operator, Next
  <2>5. QED
    BY <1>1, <2>1, <2>2, <2>3, <2>4 DEF SessionNext
<1>2. QED
  BY <1>1 DEF sessions

(* The logs of tests that hold sessions are those of LogFiles, so what is  *)
(* proved of their extents and contents holds of them.                     *)
THEOREM LogsImplemented == SessionSpec => Spec
<1>1. SessionInit => Init
  BY DEF SessionInit
<1>2. QED
  BY <1>1, StepOfLogs, PTL DEF SessionSpec, Spec

(* So is what the operator reads of them: a log that a suspended or ended  *)
(* test has printed reads as LogStore promises.                            *)
THEOREM SessionsKeepThePromise == SessionSpec => ImplementsStore
BY LogsImplemented, LogsKeepTheirPromise, PTL

-----------------------------------------------------------------------------
(* Where the strings of log i end, before its terminator if it has one.    *)
PrintEnd(i) == IF i = log THEN load ELSE EndOf(i) - Terminator

(* What was printed for log i is the strings of ts, the k-th stored at     *)
(* pos[k], one behind the other from the start of the log.                 *)
Trail(i, ts, pos, from, to, printed) ==
  /\ ts \in Seq(Texts)
  /\ pos[1] = from /\ pos[Len(ts) + 1] = to
  /\ \A k \in 1 .. Len(ts) : pos[k + 1] = pos[k] + Size(ts[k])
  /\ printed = { [log |-> i, at |-> pos[k], text |-> ts[k]] : k \in 1 .. Len(ts) }

Track(i, ts, pos) == Trail(i, ts, pos, menu[i], PrintEnd(i), Printed(i))

ViewInv == \A i \in 1 .. Len(menu) : \E ts, pos : Track(i, ts, pos)

(* A log that a step leaves alone.                                         *)
LEMMA TrackKept ==
  ASSUME NEW i, \E ts, pos : Track(i, ts, pos), menu'[i] = menu[i],
         PrintEnd(i)' = PrintEnd(i), Printed(i)' = Printed(i)
  PROVE  (\E ts, pos : Track(i, ts, pos))'
<1>1. PICK ts, pos : Track(i, ts, pos)
  OBVIOUS
<1>2. Track(i, ts, pos)'
  BY <1>1 DEF Track
<1>3. QED
  BY <1>2

LEMMA LogsAlone ==
  ASSUME ViewInv, UNCHANGED << load, menu, log, written >> PROVE ViewInv'
<1>1. ASSUME NEW i \in 1 .. Len(menu) PROVE (\E ts, pos : Track(i, ts, pos))'
  <2>1. PrintEnd(i)' = PrintEnd(i) /\ Printed(i)' = Printed(i) /\ menu'[i] = menu[i]
    BY DEF PrintEnd, EndOf, Printed
  <2>2. QED
    BY <2>1, TrackKept DEF ViewInv
<1>2. QED
  BY <1>1 DEF ViewInv

LEMMA ViewStart ==
  ASSUME LogInv, ViewInv, NEW logged \in BOOLEAN, StartRun(logged) PROVE ViewInv'
<1>n. PICK n \in Nat : n = Len(menu)
  <2>1. menu \in Seq(Addr)
    BY DEF LogInv, TypeOK
  <2>2. QED
    BY <2>1
<1>1. /\ log = 0 /\ load' = load /\ written' = written /\ menu \in Seq(Addr)
      /\ load \in Addr
  BY DEF LogInv, TypeOK, OpenInv, StartRun
<1>2. CASE logged /\ n < MaxLogs
  <2>1. menu' = Append(menu, load) /\ log' = n + 1
    BY <1>n, <1>2, <1>1 DEF StartRun, fileio_create
  <2>2. /\ Len(menu') = n + 1 /\ menu'[n + 1] = load
        /\ \A i \in 1 .. n : menu'[i] = menu[i]
    BY <1>n, <1>1, <2>1
  <2>3. ASSUME NEW i \in 1 .. n PROVE (\E ts, pos : Track(i, ts, pos))'
    <3>1. i # log /\ i # log' /\ i # Len(menu')
      BY <1>1, <2>1, <2>2
    <3>2. EndOf(i)' = EndOf(i)
      <4>1. EndOf(i)' = menu'[i + 1]
        BY <3>1 DEF EndOf
      <4>2. CASE i = n
        BY <1>n, <2>2, <4>1, <4>2 DEF EndOf
      <4>3. CASE i # n
        <5>1. i + 1 \in 1 .. n
          BY <1>1, <4>3
        <5>2. QED
          BY <1>n, <2>2, <4>1, <4>3, <5>1 DEF EndOf
      <4>4. QED
        BY <4>2, <4>3
    <3>3. PrintEnd(i)' = PrintEnd(i) /\ Printed(i)' = Printed(i)
      BY <1>1, <3>1, <3>2 DEF PrintEnd, Printed
    <3>4. QED
      BY <1>n, <2>2, <3>3, TrackKept DEF ViewInv
  <2>4. (\E ts, pos : Track(n + 1, ts, pos))'
    <3>1. Printed(n + 1)' = {}
      <4>1. \A w \in written : w.log \in 1 .. n
        BY <1>n DEF LogInv, OwnExtent
      <4>2. \A w \in written : w.log # n + 1
        BY <1>1, <4>1
      <4>3. QED
        BY <1>1, <4>2 DEF Printed
    <3>2. PrintEnd(n + 1)' = load
      BY <1>1, <2>1 DEF PrintEnd
    <3>3. PICK ts : ts = <<>> /\ Len(ts) = 0 /\ ts \in Seq(Texts)
      <4>1. Len(<<>>) = 0 /\ <<>> \in Seq(Texts)
        OBVIOUS
      <4>2. QED
        BY <4>1
    <3>4. PICK pos : pos[1] = load
      <4>1. [k \in {1} |-> load][1] = load
        OBVIOUS
      <4>2. QED
        BY <4>1
    <3>5. 1 .. Len(ts) = {} /\ Len(ts) + 1 = 1
      BY <3>3
    <3>6. Trail(n + 1, ts, pos, load, load, {})
      BY <3>3, <3>4, <3>5 DEF Trail
    <3>8. Track(n + 1, ts, pos)'
      BY <2>2, <3>1, <3>2, <3>6 DEF Track
    <3>7. QED
      BY <3>8
  <2>5. \A i \in 1 .. Len(menu') : i \in 1 .. n \/ i = n + 1
    BY <1>1, <2>2
  <2>6. QED
    BY <2>3, <2>4, <2>5, Zenon DEF ViewInv
<1>3. CASE ~(logged /\ n < MaxLogs)
  <2>1. menu' = menu /\ log' = log
    BY <1>n, <1>1, <1>3 DEF StartRun, fileio_create
  <2>2. QED
    BY <1>1, <2>1, LogsAlone
<1>4. QED
  BY <1>2, <1>3

LEMMA ViewPrint ==
  ASSUME LogInv, ViewInv, NEW text \in Texts, lprintf(text) PROVE ViewInv'
<1>n. PICK n \in Nat : n = Len(menu)
  <2>1. menu \in Seq(Addr)
    BY DEF LogInv, TypeOK
  <2>2. QED
    BY <2>1
<1>1. /\ log = n /\ n \in Nat /\ n # 0 /\ menu' = menu /\ log' = log /\ menu \in Seq(Addr)
      /\ load \in Addr
  BY <1>n DEF LogInv, TypeOK, OpenInv, lprintf
<1>2. CASE Fits(text)
  <2>1. /\ load' = load + Size(text)
        /\ written' = written \union {[log |-> n, at |-> load, text |-> text]}
    BY <1>n, <1>2 DEF lprintf, Store, Behind
  <2>2. ASSUME NEW i \in 1 .. n, i # n PROVE (\E ts, pos : Track(i, ts, pos))'
    <3>1. PrintEnd(i)' = PrintEnd(i)
      BY <1>n, <1>1, <2>2 DEF PrintEnd, EndOf
    <3>2. Printed(i)' = Printed(i)
      BY <2>1, <2>2 DEF Printed
    <3>3. QED
      BY <1>n, <1>1, <3>1, <3>2, TrackKept DEF ViewInv
  <2>3. (\E ts, pos : Track(n, ts, pos))'
    <3>1. PICK ts, pos : Track(n, ts, pos)
      BY <1>n, <1>1 DEF ViewInv
    <3>2. PICK l \in Nat : l = Len(ts)
      BY <3>1 DEF Track, Trail
    <3>3. /\ ts \in Seq(Texts) /\ pos[1] = menu[n] /\ pos[l + 1] = load
          /\ \A k \in 1 .. l : pos[k + 1] = pos[k] + Size(ts[k])
          /\ Printed(n) = { [log |-> n, at |-> pos[k], text |-> ts[k]] : k \in 1 .. l }
      BY <1>1, <3>1, <3>2 DEF Track, Trail, PrintEnd
    <3>4. PICK us \in Seq(Texts) : /\ us = Append(ts, text) /\ Len(us) = l + 1 /\ us[l + 1] = text
                                   /\ \A k \in 1 .. l : us[k] = ts[k]
      <4>1. /\ Append(ts, text) \in Seq(Texts) /\ Len(Append(ts, text)) = l + 1
            /\ Append(ts, text)[l + 1] = text
            /\ \A k \in 1 .. l : Append(ts, text)[k] = ts[k]
        BY <3>2, <3>3, AppendProperties
      <4>2. QED
        BY <4>1
    <3>5. PICK up : /\ \A k \in 1 .. l + 1 : up[k] = pos[k]
                    /\ up[l + 2] = load + Size(text)
      <4> DEFINE u == [k \in 1 .. l + 2 |-> IF k = l + 2 THEN load + Size(text) ELSE pos[k]]
      <4>1. \A k \in 1 .. l + 1 : k \in 1 .. l + 2 /\ k # l + 2
        OBVIOUS
      <4>2. l + 2 \in 1 .. l + 2
        OBVIOUS
      <4>3. /\ \A k \in 1 .. l + 1 : u[k] = pos[k]
            /\ u[l + 2] = load + Size(text)
        BY <4>1, <4>2
      <4> HIDE DEF u
      <4>4. QED
        BY <4>3
    <3>6. \A k \in 1 .. l + 1 : k = l + 1 \/ (k \in 1 .. l /\ k + 1 \in 1 .. l + 1)
      OBVIOUS
    <3>7. \A k \in 1 .. l + 1 : up[k + 1] = up[k] + Size(us[k])
      <4> SUFFICES ASSUME NEW k \in 1 .. l + 1 PROVE up[k + 1] = up[k] + Size(us[k])
        OBVIOUS
      <4>1. CASE k = l + 1
        <5>1. k + 1 = l + 2
          BY <4>1
        <5>2. QED
          BY <3>3, <3>4, <3>5, <4>1, <5>1
      <4>2. CASE k # l + 1
        <5>1. k \in 1 .. l /\ k + 1 \in 1 .. l + 1
          BY <3>6, <4>2
        <5>2. QED
          BY <3>3, <3>4, <3>5, <5>1
      <4>3. QED
        BY <4>1, <4>2
    <3>8. text # EofText
      BY LogFilesAssumption
    <3>9. Printed(n)' = Printed(n) \union {[log |-> n, at |-> load, text |-> text]}
      <4>1. \A w \in written' : w \in written \/ w = [log |-> n, at |-> load, text |-> text]
        BY <2>1
      <4>2. QED
        BY <2>1, <3>8 DEF Printed
    <3>10. Printed(n)' = { [log |-> n, at |-> up[k], text |-> us[k]] : k \in 1 .. l + 1 }
      <4> DEFINE e(k) == [log |-> n, at |-> up[k], text |-> us[k]]
      <4>1. \A k \in 1 .. l : k \in 1 .. l + 1 /\ e(k) = [log |-> n, at |-> pos[k], text |-> ts[k]]
        BY <3>4, <3>5, <3>6
      <4>2. l + 1 \in 1 .. l + 1 /\ e(l + 1) = [log |-> n, at |-> load, text |-> text]
        BY <3>3, <3>4, <3>5
      <4> HIDE DEF e
      <4>3. { [log |-> n, at |-> pos[k], text |-> ts[k]] : k \in 1 .. l } = { e(k) : k \in 1 .. l }
        BY <4>1
      <4>4. { e(k) : k \in 1 .. l } \union {e(l + 1)} = { e(k) : k \in 1 .. l + 1 }
        BY <3>6, <4>1, <4>2
      <4>5. Printed(n)' = { e(k) : k \in 1 .. l + 1 }
        BY <3>3, <3>9, <4>2, <4>3, <4>4
      <4>6. QED
        BY <4>5 DEF e
    <3>11. up[1] = menu'[n]
      BY <1>1, <3>3, <3>5
    <3>12. up[Len(us) + 1] = PrintEnd(n)'
      <4>1. PrintEnd(n)' = load'
        BY <1>1 DEF PrintEnd
      <4>2. Len(us) + 1 = l + 2
        BY <3>4
      <4>3. QED
        BY <2>1, <3>5, <4>1, <4>2
    <3>13. Track(n, us, up)'
      <4>1. PICK a, e, p : a = menu'[n] /\ e = PrintEnd(n)' /\ p = Printed(n)'
        OBVIOUS
      <4>2. Trail(n, us, up, a, e, p)
        BY <3>4, <3>7, <3>10, <3>11, <3>12, <4>1 DEF Trail
      <4>3. QED
        BY <4>1, <4>2 DEF Track
    <3>14. QED
      BY <3>13
  <2>4. QED
    BY <1>n, <1>1, <2>2, <2>3, Zenon DEF ViewInv
<1>3. CASE ~Fits(text)
  <2>1. load' = load /\ written' = written
    BY <1>3 DEF lprintf
  <2>2. QED
    BY <1>1, <2>1, LogsAlone
<1>4. QED
  BY <1>2, <1>3

LEMMA ViewEnd == ASSUME LogInv, ViewInv, EndRun PROVE ViewInv'
<1>n. PICK n \in Nat : n = Len(menu)
  <2>1. menu \in Seq(Addr)
    BY DEF LogInv, TypeOK
  <2>2. QED
    BY <2>1
<1>1. n \in Nat /\ menu' = menu /\ log' = 0 /\ load \in Addr /\ (log # 0 => log = n)
  BY <1>n DEF LogInv, TypeOK, OpenInv, EndRun
<1>2. CASE log # 0
  <2>1. /\ load' = load + Terminator
        /\ written' = written \union {[log |-> log, at |-> load, text |-> EofText]}
    BY <1>2 DEF EndRun, fileio_close, Store, Behind, Terminator
  <2>2. load \in Nat /\ Terminator \in Nat
    BY <1>1, AddrBounds, Numbers DEF Addr
  <2>3. ASSUME NEW i \in 1 .. n PROVE (\E ts, pos : Track(i, ts, pos))'
    <3>1. Printed(i)' = Printed(i)
      BY <2>1 DEF Printed
    <3>2. PrintEnd(i)' = PrintEnd(i)
      <4>1. CASE i = n
        <5>1. PrintEnd(i) = load /\ i # 0
          BY <1>1, <1>2, <4>1 DEF PrintEnd
        <5>2. PrintEnd(i)' = load' - Terminator
          BY <1>n, <1>1, <4>1, <5>1 DEF PrintEnd, EndOf
        <5>3. QED
          BY <2>1, <2>2, <5>1, <5>2
      <4>2. CASE i # n
        BY <1>n, <1>1, <1>2, <4>2 DEF PrintEnd, EndOf
      <4>3. QED
        BY <4>1, <4>2
    <3>3. QED
      BY <1>n, <1>1, <3>1, <3>2, TrackKept DEF ViewInv
  <2>4. QED
    BY <1>n, <1>1, <2>3, Zenon DEF ViewInv
<1>3. CASE log = 0
  <2>1. load' = load /\ written' = written
    BY <1>3 DEF EndRun, fileio_close
  <2>2. QED
    BY <1>1, <1>3, <2>1, LogsAlone
<1>4. QED
  BY <1>2, <1>3

LEMMA ViewStep == LogInv /\ ViewInv /\ [Next]_vars => ViewInv'
<1> SUFFICES ASSUME LogInv, ViewInv, [Next]_vars PROVE ViewInv'
  OBVIOUS
<1>1. CASE menu_del_appl
  <2>1. Len(menu') = 0
    BY <1>1 DEF menu_del_appl, NoItems
  <2>2. QED
    BY <2>1 DEF ViewInv
<1>2. CASE UNCHANGED << load, menu, log, written >>
  BY <1>2, LogsAlone
<1>3. CASE \E pattern \in Byte : TestRam(pattern)
  BY <1>2, <1>3 DEF TestRam
<1>4. QED
  BY <1>1, <1>2, <1>3, ViewStart, ViewPrint, ViewEnd DEF Next, vars

-----------------------------------------------------------------------------
(* Places with something between each and the next are in order.           *)
LEMMA Ascending ==
  ASSUME NEW n \in Nat, NEW pos, pos[1] \in Nat,
         \A k \in 1 .. n : \E s \in Nat \ {0} : pos[k + 1] = pos[k] + s
  PROVE  \A k \in 1 .. n + 1 :
           pos[k] \in Nat /\ \A j \in 1 .. n + 1 : j < k => pos[j] < pos[k]
<1> DEFINE Up(k) == \A j \in 1 .. k : pos[j] \in Nat /\ (j < k => pos[j] < pos[k])
           S == { d \in Nat : d <= n => Up(d + 1) }
<1>1. 0 \in S
  OBVIOUS
<1>2. ASSUME NEW d \in S PROVE d + 1 \in S
  <2> SUFFICES ASSUME d + 1 <= n PROVE Up(d + 1 + 1)
    OBVIOUS
  <2>1. PICK k \in 1 .. n : k = d + 1
    OBVIOUS
  <2>2. PICK s \in Nat \ {0} : pos[k + 1] = pos[k] + s
    OBVIOUS
  <2>3. \A j \in 1 .. k : pos[j] \in Nat /\ (j < k => pos[j] < pos[k])
    BY <1>2, <2>1
  <2>4. pos[k] \in Nat /\ pos[k + 1] \in Nat /\ pos[k] < pos[k + 1]
    BY <2>2, <2>3
  <2>5. \A j \in 1 .. k + 1 : j = k + 1 \/ j = k \/ (j \in 1 .. k /\ j < k)
    OBVIOUS
  <2>6. ASSUME NEW j \in 1 .. k + 1
        PROVE  pos[j] \in Nat /\ (j < k + 1 => pos[j] < pos[k + 1])
    <3>1. CASE j = k + 1
      BY <2>4, <3>1
    <3>2. CASE j = k
      BY <2>4, <3>2
    <3>3. CASE j \in 1 .. k /\ j < k
      <4>1. pos[j] \in Nat /\ pos[j] < pos[k]
        BY <2>3, <3>3
      <4>2. PICK x \in Nat, y \in Nat : x = pos[j] /\ y = pos[k]
        BY <2>4, <4>1
      <4>3. QED
        BY <2>2, <4>1, <4>2
    <3>4. QED
      BY <2>5, <3>1, <3>2, <3>3
  <2>7. QED
    BY <2>1, <2>6
<1>3. S \in SUBSET Nat
  OBVIOUS
<1>4. S = Nat
  <2> HIDE DEF S
  <2>1. QED
    BY <1>1, <1>2, <1>3, SetInduction
<1>5. ASSUME NEW k \in 1 .. n + 1 PROVE Up(k)
  <2>1. PICK d \in Nat : k = d + 1 /\ d <= n
    OBVIOUS
  <2> HIDE DEF Up
  <2>2. \A x \in Nat : x <= n => Up(x + 1)
    BY <1>4
  <2>3. QED
    BY <2>1, <2>2
<1>6. QED
  BY <1>5

(* The k-th string of a log is the one with k - 1 before it.               *)
Ranked(W, x, k) == Cardinality({ v \in W : v.at < x.at }) + 1 = k

LEMMA CountedBefore ==
  ASSUME NEW n \in Nat, NEW pos, NEW W, NEW w, \A v : v \in W <=> \E k \in 1 .. n : v = w[k],
         \A k \in 1 .. n : w[k].at = pos[k] /\ pos[k] \in Nat,
         \A k \in 1 .. n : \A j \in 1 .. n : j < k => pos[j] < pos[k],
         NEW k \in 1 .. n
  PROVE  Ranked(W, w[k], k)
<1>1. PICK l \in Nat : k = l + 1
  OBVIOUS
<1> DEFINE B == { v \in W : v.at < w[k].at }
           f == [j \in 1 .. l |-> w[j]]
<1>2. \A j \in 1 .. l : j \in 1 .. n /\ j < k
  BY <1>1
<1>3. \A j \in 1 .. n : j \in 1 .. l \/ j = k \/ k < j
  BY <1>1
<1>4. f \in [1 .. l -> B]
  <2> SUFFICES ASSUME NEW j \in 1 .. l PROVE w[j] \in W /\ w[j].at < w[k].at
    OBVIOUS
  <2>1. j \in 1 .. n /\ j < k
    BY <1>2
  <2>2. QED
    BY <2>1
<1>5. \A i \in 1 .. l : \A j \in 1 .. l : f[i] = f[j] => i = j
  <2> SUFFICES ASSUME NEW i \in 1 .. l, NEW j \in 1 .. l, w[i] = w[j] PROVE i = j
    OBVIOUS
  <2>1. i \in 1 .. n /\ j \in 1 .. n /\ pos[i] = pos[j] /\ pos[i] \in Nat
    BY <1>2
  <2>2. ~(i < j) /\ ~(j < i)
    BY <2>1
  <2>3. QED
    BY <2>2
<1>6. \A v \in B : \E j \in 1 .. l : f[j] = v
  <2> SUFFICES ASSUME NEW v \in B PROVE \E j \in 1 .. l : w[j] = v
    OBVIOUS
  <2>1. PICK j \in 1 .. n : v = w[j]
    OBVIOUS
  <2>2. pos[j] < pos[k] /\ pos[j] \in Nat /\ pos[k] \in Nat
    BY <2>1
  <2>3. j # k /\ ~(k < j)
    BY <2>2
  <2>4. QED
    BY <1>3, <2>1, <2>3
<1> HIDE DEF f, B
<1>7. f \in Bijection(1 .. l, B)
  <2>1. IsInjective(f)
    BY <1>4, <1>5 DEF IsInjective
  <2>2. QED
    BY <1>4, <1>6, <2>1 DEF Bijection, Injection, Surjection
<1>8. Cardinality(B) = l
  BY <1>7, FS_CountingElements DEF ExistsBijection
<1>9. QED
  BY <1>1, <1>8 DEF B, Ranked

LEMMA ViewShows == LogInv /\ ViewInv => ViewStartsWithLog
<1> SUFFICES ASSUME LogInv, ViewInv, NEW i \in 1 .. Len(menu), EndOf(i) <= Limit,
                    NEW e \in Printed(i)
             PROVE  LET shown == Shown(mem, menu[i], -1)
                        k == Cardinality(Before(e)) + 1
                    IN  k <= Len(shown) /\ shown[k] = e.text
  BY DEF ViewStartsWithLog
<1>1. PICK ts, pos : Track(i, ts, pos)
  BY DEF ViewInv
<1>2. PICK n \in Nat : n = Len(ts)
  BY <1>1 DEF Track, Trail
<1> DEFINE w == [k \in 1 .. n |-> [log |-> i, at |-> pos[k], text |-> ts[k]]]
<1>3. /\ ts \in Seq(Texts) /\ pos[1] = menu[i]
      /\ \A k \in 1 .. n : pos[k + 1] = pos[k] + Size(ts[k])
      /\ Printed(i) = { w[k] : k \in 1 .. n }
  BY <1>1, <1>2 DEF Track, Trail
<1>4. \A k \in 1 .. n : ts[k] \in Seq(Chars) /\ Size(ts[k]) \in Nat \ {0}
  <2>1. \A k \in 1 .. n : ts[k] \in Texts
    BY <1>2, <1>3
  <2>2. QED
    BY <2>1, LogFilesAssumption DEF Size
<1>5. /\ menu[i] \in Addr /\ menu[i] \in Nat /\ menu[i] \in Place
      /\ EndOf(i) \in Nat /\ EndOf(i) <= Top
  BY Extents, AddrPlace
<1>6. \A k \in 1 .. n + 1 :
        pos[k] \in Nat /\ \A j \in 1 .. n + 1 : j < k => pos[j] < pos[k]
  BY <1>3, <1>4, <1>5, Ascending
<1>7. ASSUME NEW k \in 1 .. n
      PROVE  /\ w[k].at = pos[k] /\ w[k].text = ts[k]
             /\ pos[k] + Size(ts[k]) <= EndOf(i) /\ Holds(mem, pos[k], ts[k])
  <2>1. w[k] = [log |-> i, at |-> pos[k], text |-> ts[k]] /\ w[k] \in Printed(i)
    BY <1>3
  <2>2. PICK v : v = w[k] /\ v \in written /\ v.log = i /\ v.at = pos[k] /\ v.text = ts[k]
    BY <2>1 DEF Printed
  <2>3. pos[k] + Size(ts[k]) <= EndOf(i)
    BY <2>2 DEF LogInv, OwnExtent
  <2>4. pos[k] + Size(ts[k]) <= Limit
    <3>1. pos[k] \in Nat /\ Size(ts[k]) \in Nat /\ Limit \in Nat
      BY <1>4, <1>6, Numbers
    <3>2. QED
      BY <1>5, <2>3, <3>1
  <2>5. Holds(mem, pos[k], ts[k])
    BY <2>2, <2>4 DEF LogInv, RecordKept, Holds
  <2>6. QED
    BY <2>1, <2>3, <2>5
<1> HIDE DEF w
<1> DEFINE b == pos[n + 1]
<1>8. b \in Nat /\ b <= Top /\ Base <= b /\ menu[i] <= b
  <2>1. Base <= menu[i]
    BY <1>5, AddrPlace
  <2>2. CASE n = 0
    <3>1. b = menu[i]
      BY <1>3, <2>2
    <3>2. QED
      BY <1>5, <2>1, <3>1, AddrPlace
  <2>3. CASE n # 0
    <3>1. n \in 1 .. n /\ 1 \in 1 .. n + 1 /\ n + 1 \in 1 .. n + 1 /\ 1 < n + 1
      BY <2>3
    <3>2. b = pos[n] + Size(ts[n])
      BY <1>3, <3>1
    <3>3. b <= EndOf(i)
      BY <1>7, <3>1, <3>2
    <3>4. b \in Nat /\ pos[1] < b
      BY <1>6, <3>1
    <3>5. QED
      BY <1>3, <1>5, <2>1, <3>3, <3>4, TopNumber
  <2>4. QED
    BY <2>2, <2>3
<1>9. b \in Place /\ -1 \notin menu[i] .. b - 1
  BY <1>5, <1>8, TopNumber DEF Place
<1>10. Strung(mem, menu[i], b, ts)
  <2> DEFINE at == [k \in 1 .. n + 1 |-> pos[k]]
  <2>1. \A k \in 1 .. n : k \in 1 .. n + 1 /\ k + 1 \in 1 .. n + 1
    OBVIOUS
  <2>2. 1 \in 1 .. n + 1 /\ n + 1 \in 1 .. n + 1
    OBVIOUS
  <2>3. ASSUME NEW k \in 1 .. n + 1 PROVE pos[k] \in menu[i] .. b
    <3>1. pos[k] \in Nat /\ pos[1] <= pos[k] /\ pos[k] <= pos[n + 1]
      <4>1. pos[k] \in Nat /\ pos[1] \in Nat /\ pos[n + 1] \in Nat
        BY <1>6, <2>2
      <4>2. k = 1 \/ 1 < k
        OBVIOUS
      <4>3. k = n + 1 \/ k < n + 1
        OBVIOUS
      <4>4. 1 < k => pos[1] < pos[k]
        BY <1>6, <2>2
      <4>5. k < n + 1 => pos[k] < pos[n + 1]
        BY <1>6, <2>2
      <4>6. QED
        BY <4>1, <4>2, <4>3, <4>4, <4>5
    <3>2. QED
      BY <1>3, <1>5, <1>8, <3>1
  <2>4. at \in [1 .. n + 1 -> menu[i] .. b]
    BY <2>3
  <2>5. at[1] = menu[i] /\ at[n + 1] = b
    BY <1>3, <2>2
  <2>6. \A k \in 1 .. n : at[k + 1] = at[k] + Size(ts[k]) /\ Holds(mem, at[k], ts[k])
    BY <1>3, <1>7, <2>1
  <2> HIDE DEF at, b
  <2>7. QED
    BY <1>2, <2>4, <2>5, <2>6 DEF Strung
<1> HIDE DEF b
<1>11. PICK shown : shown = Shown(mem, menu[i], -1) /\ Starts(shown, ts, 1)
  BY <1>3, <1>5, <1>9, <1>10, StringsFirst
<1>12. Len(shown) \in Nat /\ n <= Len(shown) /\ \A j \in 1 .. n : shown[j] = ts[j]
  BY <1>2, <1>11 DEF Starts
<1>13. PICK k \in 1 .. n : e = w[k]
  BY <1>3
<1>14. Before(e) = { v \in Printed(i) : v.at < w[k].at }
  BY <1>13 DEF Before, Printed
<1>15. Cardinality(Before(e)) + 1 = k
  <2>1. \A x \in 1 .. n : w[x].at = pos[x] /\ pos[x] \in Nat
    BY <1>6, <1>7
  <2>2. \A x \in 1 .. n : \A j \in 1 .. n : j < x => pos[j] < pos[x]
    BY <1>6
  <2>3. Cardinality({ v \in Printed(i) : v.at < w[k].at }) + 1 = k
    <3>1. PICK W : W = Printed(i)
      OBVIOUS
    <3>2. \A v : v \in W <=> \E x \in 1 .. n : v = w[x]
      BY <1>3, <3>1
    <3>3. Ranked(W, w[k], k)
      BY <2>1, <2>2, <3>2, CountedBefore
    <3>4. QED
      BY <3>1, <3>3 DEF Ranked
  <2>4. QED
    BY <1>14, <2>3
<1>16. shown[k] = e.text /\ k <= Len(shown)
  BY <1>7, <1>12, <1>13
<1>17. QED
  BY <1>11, <1>15, <1>16

(* Whenever the operator looks at a log, also at the open one of a test    *)
(* that has suspended itself, it begins with the strings that were printed *)
(* for it, in their order (fileio.c:387-392, mailbox.c:67).                *)
THEOREM ViewsBeginWithTheLog == SessionSpec => []ViewStartsWithLog
<1>1. Init => ViewInv
  BY DEF Init, ViewInv
<1>2. Spec => []LogInv
  BY LogInvariant
<1>3. LogInv /\ ViewInv => ViewStartsWithLog
  BY ViewShows
<1>4. QED
  BY <1>1, <1>2, <1>3, ViewStep, LogsImplemented, PTL DEF Spec
=============================================================================
