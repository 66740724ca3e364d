--------------------------- MODULE LogFilesProofs ---------------------------
(***************************************************************************)
(* The layout of the log area, for areas, strings and menus of any size:   *)
(* how far the logs can run over its end, that each log keeps to its own   *)
(* bytes, and that what is stored below the scratch RAM stays there. Then  *)
(* the refinement of LogStore: the walk of the log menu over the bytes of  *)
(* a log reads, string by string, what the run of the log has printed.     *)
(***************************************************************************)
EXTENDS LogFiles, TLAPS, SequenceTheorems, WellFoundedInduction

(* The only log that may be open is the last one, and only during its run. *)
OpenInv ==
  /\ log # 0 => running /\ log = Len(menu)
  /\ active = IF log = 0 THEN 0 ELSE 1

(* The logs lie one behind the other, the next one goes behind the last.   *)
OrderInv ==
  /\ \A i \in 1 .. Len(menu) : menu[i] <= load
  /\ \A i \in 1 .. Len(menu), j \in 1 .. Len(menu) : i <= j => menu[i] <= menu[j]

LogInv ==
  /\ TypeOK /\ OpenInv /\ OrderInv
  /\ RecordKept /\ OwnExtent /\ OverrunBounded

Terminator == Size(EofText)

LEMMA Numbers ==
  /\ Base \in Nat /\ Limit \in Nat /\ Base < Limit /\ MaxLogs \in Nat
  /\ Terminator \in Nat /\ Terminator >= 2
  /\ Terminator * MaxLogs \in Nat
<1>1. /\ Base \in Nat /\ Limit \in Nat /\ Base < Limit /\ MaxLogs \in Nat
  BY LogFilesAssumption
<1>2. Terminator \in Nat /\ Terminator >= 2
  BY LogFilesAssumption DEF Terminator, Size
<1>3. ASSUME NEW t \in Nat, NEW n \in Nat PROVE t * n \in Nat
  OBVIOUS
<1>4. QED
  BY <1>1, <1>2, <1>3

LEMMA EndsBehind ==
  ASSUME NEW n \in Nat
  PROVE  /\ Terminator * n \in Nat
         /\ Terminator * (n + 1) = Terminator * n + Terminator
         /\ n <= MaxLogs => Terminator * n <= Terminator * MaxLogs
<1>1. ASSUME NEW t \in Nat
      PROVE  t * n \in Nat /\ t * (n + 1) = t * n + t
  OBVIOUS
<1>2. ASSUME NEW t \in Nat, NEW m \in Nat, n <= m PROVE t * n <= t * m
  <2>1. PICK d \in Nat : m = n + d
    BY <1>2
  <2>2. t * (n + d) = t * n + t * d /\ t * d \in Nat /\ t * n \in Nat
    OBVIOUS
  <2>3. QED
    BY <2>1, <2>2
<1>3. QED
  BY <1>1, <1>2, Numbers

LEMMA AddrBounds ==
  /\ Addr = Base .. Limit + Terminator * MaxLogs
  /\ Base \in Addr
  /\ \A a \in Addr : a \in Int /\ Base <= a
  /\ \A b \in Addr, a \in Int : Base <= a /\ a <= b => a \in Addr
<1>1. Addr = Base .. Limit + Terminator * MaxLogs
  BY DEF Addr, Top, Terminator
<1>2. QED
  BY <1>1, Numbers

(* The bound on the load address keeps it inside the memory of the model.  *)
LEMMA LoadInMemory ==
  ASSUME NEW a \in Int, NEW n \in 0 .. MaxLogs,
         Base <= a, a < Limit + Terminator * n
  PROVE  a \in Addr
<1>1. Terminator * n <= Terminator * MaxLogs /\ Terminator * n \in Nat
  BY EndsBehind, Numbers
<1>2. QED
  BY <1>1, Numbers, AddrBounds

LEMMA InitLog == Init => LogInv
<1> SUFFICES ASSUME Init PROVE LogInv
  OBVIOUS
<1>1. Base \in Addr
  BY AddrBounds
<1>2. TypeOK
  <2>1. mem \in [Addr -> Byte]
    BY DEF Init
  <2>2. menu \in Seq(Addr) /\ Len(menu) <= MaxLogs
    BY Numbers DEF Init
  <2>3. written \subseteq [log : 1 .. MaxLogs, at : Addr,
                           text : Texts \union {EofText}]
    BY DEF Init
  <2>4. load \in Addr /\ log \in 0 .. MaxLogs
    BY <1>1, Numbers DEF Init
  <2>5. QED
    BY <2>1, <2>2, <2>3, <2>4 DEF Init, TypeOK
<1>3. OverrunBounded
  <2>1. Terminator * 0 = 0
    BY Numbers
  <2>2. Len(menu) - active = 0 /\ load < Limit
    BY Numbers DEF Init
  <2>3. QED
    BY <2>1, <2>2, Numbers DEF OverrunBounded, Terminator
<1>4. QED
  BY <1>2, <1>3 DEF Init, LogInv, OpenInv, OrderInv, RecordKept, OwnExtent

(* Where every string of the menu's logs ends.                             *)
LEMMA WrittenBelowLoad ==
  ASSUME LogInv, NEW w \in written
  PROVE  /\ w.log \in 1 .. Len(menu) /\ w.at \in Addr
         /\ w.text \in Seq(Chars)
         /\ w.at + Size(w.text) <= load
<1>1. w.log \in 1 .. Len(menu) /\ w.at + Size(w.text) <= EndOf(w.log)
  BY DEF LogInv, OwnExtent
<1>2. w.at \in Addr /\ w.text \in Seq(Chars) /\ load \in Addr /\ menu \in Seq(Addr)
  BY LogFilesAssumption DEF LogInv, TypeOK
<1>3. EndOf(w.log) <= load /\ EndOf(w.log) \in Int
  <2>1. CASE w.log = Len(menu)
    BY <1>2, <2>1, AddrBounds DEF EndOf
  <2>2. CASE w.log # Len(menu)
    <3>1. w.log + 1 \in 1 .. Len(menu)
      BY <1>1, <1>2, <2>2
    <3>2. menu[w.log + 1] <= load /\ menu[w.log + 1] \in Addr
      BY <1>2, <3>1 DEF LogInv, OrderInv
    <3>3. QED
      BY <2>2, <3>2, AddrBounds DEF EndOf
  <2>3. QED
    BY <2>1, <2>2
<1>4. Size(w.text) \in Nat
  BY <1>2 DEF Size
<1>5. load \in Int /\ w.at \in Int
  BY <1>2, AddrBounds
<1>6. QED
  BY <1>1, <1>2, <1>3, <1>4, <1>5

(* Storing a string for the last log: nothing that was stored is touched.  *)
LEMMA StoreKeeps ==
  ASSUME LogInv, NEW text \in Seq(Chars), NEW l, l = Len(menu), l # 0,
         Store(text), menu' = menu,
         written' = written \union {[log |-> l, at |-> load, text |-> text]},
         load' \in Addr
  PROVE  RecordKept' /\ OwnExtent' /\ OrderInv' /\ mem' \in [Addr -> Byte]
<1>1. /\ load \in Addr /\ load \in Int /\ Size(text) \in Nat
      /\ load' = load + Size(text) /\ load' \in Int /\ Len(text) \in Nat
      /\ menu \in Seq(Addr) /\ l \in 1 .. Len(menu) /\ Len(menu) \in Nat
  <2>1. load \in Addr /\ load \in Int /\ menu \in Seq(Addr)
    BY AddrBounds DEF LogInv, TypeOK
  <2>2. Len(text) \in Nat /\ Len(menu) \in Nat
    BY <2>1
  <2>3. QED
    BY <2>1, <2>2 DEF Store, Behind, Size
<1>2. mem' = [a \in Addr |->
               IF a \in load .. load + Len(text) - 1 THEN text[a - load + 1]
               ELSE IF a = load + Len(text) THEN Nul ELSE mem[a]]
  BY DEF Store, ByteAfter
<1>3. mem' \in [Addr -> Byte]
  <2>1. ASSUME NEW a \in Addr, a \in load .. load + Len(text) - 1
        PROVE  text[a - load + 1] \in Chars
    BY <1>1, <2>1
  <2>2. mem \in [Addr -> Byte]
    BY DEF LogInv, TypeOK
  <2>3. QED
    BY <1>2, <2>1, <2>2 DEF Byte
<1>4. OrderInv'
  <2>1. \A i \in 1 .. Len(menu) : menu[i] \in Int /\ menu[i] <= load
    <3>1. ASSUME NEW i \in 1 .. Len(menu) PROVE menu[i] \in Addr
      BY <1>1
    <3>2. QED
      BY <3>1, AddrBounds DEF LogInv, OrderInv
  <2>2. QED
    BY <1>1, <2>1 DEF LogInv, OrderInv, Size
<1>5. OwnExtent'
  <2>1. ASSUME NEW w \in written
        PROVE  /\ w.log \in 1 .. Len(menu) /\ menu[w.log] <= w.at
               /\ w.at + Size(w.text) <= EndOf(w.log)'
    <3>1. w.log \in 1 .. Len(menu) /\ menu[w.log] <= w.at
          /\ w.at + Size(w.text) <= EndOf(w.log)
      BY DEF LogInv, OwnExtent
    <3>2. CASE w.log = Len(menu)
      <4>1. w.at + Size(w.text) <= load /\ w.at + Size(w.text) \in Int
        BY WrittenBelowLoad, AddrBounds DEF Size
      <4>2. QED
        BY <1>1, <3>1, <3>2, <4>1 DEF EndOf
    <3>3. CASE w.log # Len(menu)
      BY <3>1, <3>3 DEF EndOf
    <3>4. QED
      BY <3>2, <3>3
  <2>2. menu[l] <= load /\ EndOf(l)' = load'
    BY <1>1 DEF LogInv, OrderInv, EndOf
  <2>3. QED
    BY <1>1, <2>1, <2>2 DEF OwnExtent
<1>6. RecordKept'
  <2>1. ASSUME NEW w \in written, w.at + Size(w.text) <= Limit
        PROVE  /\ \A k \in 1 .. Len(w.text) : mem'[w.at + k - 1] = w.text[k]
               /\ mem'[w.at + Len(w.text)] = Nul
    <3>1. /\ \A k \in 1 .. Len(w.text) : mem[w.at + k - 1] = w.text[k]
          /\ mem[w.at + Len(w.text)] = Nul
      BY <2>1 DEF LogInv, RecordKept
    <3>2. /\ w.at \in Addr /\ w.at \in Int /\ Len(w.text) \in Nat
          /\ w.at + Len(w.text) + 1 <= load
      BY WrittenBelowLoad, AddrBounds DEF Size
    <3>3. ASSUME NEW a \in w.at .. w.at + Len(w.text)
          PROVE  mem'[a] = mem[a]
      <4>1. a \in Int /\ a < load /\ w.at <= a /\ Base <= a
        BY <1>1, <3>2, AddrBounds
      <4>a. a \in Addr
        BY <1>1, <4>1, AddrBounds
      <4>2. QED
        BY <1>1, <1>2, <4>1, <4>a
    <3>4. QED
      <4>1. ASSUME NEW k \in 1 .. Len(w.text)
            PROVE  mem'[w.at + k - 1] = w.text[k]
        <5>1. w.at + k - 1 \in w.at .. w.at + Len(w.text)
          BY <3>2
        <5>2. QED
          BY <3>1, <3>3, <5>1
      <4>2. mem'[w.at + Len(w.text)] = Nul
        <5>1. w.at + Len(w.text) \in w.at .. w.at + Len(w.text)
          BY <3>2
        <5>2. QED
          BY <3>1, <3>3, <5>1
      <4>3. QED
        BY <4>1, <4>2
  <2>2. /\ \A k \in 1 .. Len(text) : mem'[load + k - 1] = text[k]
        /\ mem'[load + Len(text)] = Nul
    <3>1. \A a \in load .. load + Len(text) : a \in Addr
      <4>1. load + Len(text) <= load'
        BY <1>1 DEF Size
      <4>2. QED
        BY <1>1, <4>1, AddrBounds
    <3>2. ASSUME NEW k \in 1 .. Len(text) PROVE mem'[load + k - 1] = text[k]
      BY <1>1, <1>2, <3>1
    <3>3. mem'[load + Len(text)] = Nul
      BY <1>1, <1>2, <3>1
    <3>4. QED
      BY <3>2, <3>3
  <2>3. QED
    BY <2>1, <2>2 DEF RecordKept
<1>7. QED
  BY <1>3, <1>4, <1>5, <1>6

(* A log may be opened while the menu has room: it starts where the last   *)
(* one ended.                                                              *)
LEMMA StartStep ==
  ASSUME LogInv, NEW logged \in BOOLEAN, StartRun(logged)
  PROVE  LogInv'
<1>1. /\ log = 0 /\ active = 0 /\ menu \in Seq(Addr) /\ load \in Addr
      /\ Len(menu) \in Nat /\ Len(menu) <= MaxLogs
  BY DEF LogInv, OpenInv, TypeOK, StartRun
<1>2. /\ mem' = mem /\ load' = load /\ written' = written
      /\ running' = TRUE
  BY DEF StartRun
<1>3. CASE menu' = Append(menu, load) /\ log' = Len(menu) + 1 /\ active' = 1
           /\ Len(menu) < MaxLogs
  <2>1. /\ menu' \in Seq(Addr) /\ Len(menu') = Len(menu) + 1
        /\ \A i \in 1 .. Len(menu) : menu'[i] = menu[i]
        /\ menu'[Len(menu) + 1] = load
    BY <1>1, <1>3
  <2>2. TypeOK'
    <3>1. log' \in 0 .. MaxLogs /\ Len(menu') <= MaxLogs /\ active' \in {0, 1}
      BY <1>1, <1>3, <2>1, Numbers
    <3>2. mem' \in [Addr -> Byte] /\ load' \in Addr
          /\ running' \in BOOLEAN
      BY <1>1, <1>2 DEF LogInv, TypeOK
    <3>3. written' \subseteq [log : 1 .. MaxLogs, at : Addr,
                             text : Texts \union {EofText}]
      BY <1>2 DEF LogInv, TypeOK
    <3>4. QED
      BY <2>1, <3>1, <3>2, <3>3 DEF TypeOK
  <2>3. OrderInv'
    <3>1. load \in Int /\ \A i \in 1 .. Len(menu) : menu[i] \in Int
      <4>1. ASSUME NEW i \in 1 .. Len(menu) PROVE menu[i] \in Addr
        BY <1>1
      <4>2. QED
        BY <1>1, <4>1, AddrBounds
    <3>2. QED
      BY <1>1, <1>2, <2>1, <3>1 DEF LogInv, OrderInv
  <2>4. OwnExtent'
    <3>1. ASSUME NEW w \in written
          PROVE  /\ w.log \in 1 .. Len(menu') /\ menu'[w.log] <= w.at
                 /\ w.at + Size(w.text) <= EndOf(w.log)'
      <4>1. w.log \in 1 .. Len(menu) /\ menu[w.log] <= w.at
            /\ w.at + Size(w.text) <= EndOf(w.log)
        BY DEF LogInv, OwnExtent
      <4>2. EndOf(w.log)' = EndOf(w.log)
        BY <1>1, <1>2, <2>1, <4>1 DEF EndOf
      <4>3. QED
        BY <1>1, <2>1, <4>1, <4>2
    <3>2. QED
      BY <1>2, <3>1 DEF OwnExtent
  <2>5. RecordKept'
    BY <1>2 DEF LogInv, RecordKept
  <2>6. OverrunBounded'
    <3>1. Len(menu') - active' = Len(menu) - active
      BY <1>1, <1>3, <2>1
    <3>2. QED
      BY <1>2, <3>1 DEF LogInv, OverrunBounded
  <2>7. OpenInv'
    BY <1>1, <1>2, <1>3, <2>1 DEF OpenInv
  <2>8. QED
    BY <2>2, <2>3, <2>4, <2>5, <2>6, <2>7 DEF LogInv
<1>4. CASE menu' = menu /\ log' = 0 /\ active' = active
  BY <1>1, <1>2, <1>4, Numbers DEF LogInv, TypeOK, OpenInv, OrderInv, RecordKept,
                          OwnExtent, OverrunBounded, EndOf
<1>5. QED
  BY <1>1, <1>3, <1>4 DEF StartRun, fileio_create

(* A string of the run stays inside the area or is dropped.                *)
LEMMA PrintStep ==
  ASSUME LogInv, NEW text \in Texts, lprintf(text)
  PROVE  LogInv'
<1>1. /\ menu' = menu /\ active' = active /\ running' = running /\ log' = log
      /\ active > 0
  BY DEF lprintf
<1>2. CASE Fits(text)
  <2>1. /\ Store(text)
        /\ written' = written \union
             {[log |-> Len(menu), at |-> load, text |-> text]}
    BY <1>2 DEF lprintf
  <2>2. /\ log = Len(menu) /\ Len(menu) # 0 /\ Len(menu) \in 1 .. MaxLogs
        /\ text \in Seq(Chars) /\ load \in Addr /\ load \in Int /\ active = 1
    BY <1>1, LogFilesAssumption, AddrBounds DEF LogInv, OpenInv, TypeOK
  <2>3. Size(text) \in Nat /\ load' = load + Size(text) /\ load' < Limit
    BY <1>2, <2>1, <2>2, Numbers DEF Size, Store, Behind, Fits
  <2>4. Len(menu) - active \in 0 .. MaxLogs
        /\ Terminator * (Len(menu) - active) \in Nat
    BY <2>2, EndsBehind, Numbers
  <2>5. load' < Limit + Terminator * (Len(menu) - active) /\ load' \in Int
    BY <2>2, <2>3, <2>4, Numbers
  <2>6. load' \in Addr
    BY <2>2, <2>3, <2>4, <2>5, LoadInMemory, AddrBounds
  <2>7. RecordKept' /\ OwnExtent' /\ OrderInv' /\ mem' \in [Addr -> Byte]
    BY <1>1, <2>1, <2>2, <2>6, StoreKeeps
  <2>8. OverrunBounded'
    BY <1>1, <2>5 DEF OverrunBounded, Terminator
  <2>9. TypeOK'
    BY <1>1, <2>1, <2>2, <2>6, <2>7 DEF LogInv, TypeOK
  <2>10. OpenInv'
    BY <1>1 DEF LogInv, OpenInv
  <2>11. QED
    BY <2>7, <2>8, <2>9, <2>10 DEF LogInv
<1>3. CASE ~Fits(text)
  <2>1. mem' = mem /\ load' = load /\ written' = written
    BY <1>3 DEF lprintf
  <2>2. QED
    BY <1>1, <2>1 DEF LogInv, TypeOK, OpenInv, OrderInv, RecordKept,
                      OwnExtent, OverrunBounded, EndOf
<1>4. QED
  BY <1>2, <1>3

(* The terminator may lie beyond the end of the area, once for each log.   *)
LEMMA EndStep ==
  ASSUME LogInv, EndRun
  PROVE  LogInv'
<1>1. menu' = menu /\ running' = FALSE /\ log' = 0
  BY DEF EndRun
<1>2. CASE log # 0 /\ fileio_close
  <2>1. /\ Store(EofText) /\ active' = 0
        /\ written' = written \union
             {[log |-> log, at |-> load, text |-> EofText]}
    BY <1>2 DEF fileio_close, Inactive
  <2>2. /\ log = Len(menu) /\ Len(menu) # 0 /\ Len(menu) \in 1 .. MaxLogs
        /\ EofText \in Seq(Chars) /\ load \in Addr /\ load \in Int
        /\ active = 1 /\ Base <= load
    BY <1>2, LogFilesAssumption, AddrBounds DEF LogInv, OpenInv, TypeOK
  <2>3. load' = load + Terminator /\ load' \in Int /\ Base <= load'
    BY <2>1, <2>2, Numbers DEF Store, Behind, Terminator
  <2>4. PICK n \in Nat : n = Len(menu) - 1
    BY <2>2, Numbers
  <2>5. load < Limit + Terminator * n
    BY <2>2, <2>4 DEF LogInv, OverrunBounded, Terminator
  <2>6. load' < Limit + Terminator * (n + 1)
    BY <2>2, <2>3, <2>5, EndsBehind, Numbers
  <2>7. n + 1 = Len(menu') - active' /\ n + 1 \in 0 .. MaxLogs
    BY <1>1, <2>1, <2>2, <2>4, Numbers
  <2>8. load' \in Addr
    BY <2>3, <2>6, <2>7, LoadInMemory
  <2>9. RecordKept' /\ OwnExtent' /\ OrderInv' /\ mem' \in [Addr -> Byte]
    BY <1>1, <2>1, <2>2, <2>8, StoreKeeps
  <2>10. OverrunBounded'
    BY <2>6, <2>7 DEF OverrunBounded, Terminator
  <2>11. TypeOK'
    <3>1. [log |-> log, at |-> load, text |-> EofText]
             \in [log : 1 .. MaxLogs, at : Addr, text : Texts \union {EofText}]
      BY <2>2
    <3>2. written' \subseteq [log : 1 .. MaxLogs, at : Addr,
                             text : Texts \union {EofText}]
      BY <2>1, <3>1 DEF LogInv, TypeOK
    <3>3. log' \in 0 .. MaxLogs /\ menu' \in Seq(Addr) /\ Len(menu') <= MaxLogs
      BY <1>1, Numbers DEF LogInv, TypeOK
    <3>5. QED
      BY <1>1, <2>1, <2>8, <2>9, <3>2, <3>3 DEF TypeOK
  <2>12. OpenInv'
    BY <1>1, <2>1 DEF OpenInv
  <2>13. QED
    BY <2>9, <2>10, <2>11, <2>12 DEF LogInv
<1>3. CASE log = 0 /\ UNCHANGED << mem, load, active, written >>
  BY <1>1, <1>3 DEF LogInv, TypeOK, OpenInv, OrderInv, RecordKept,
                    OwnExtent, OverrunBounded, EndOf
<1>4. QED
  BY <1>2, <1>3 DEF EndRun

(* CLEAR LOGS forgets the logs, and a RAM test keeps to its scratch RAM.   *)
LEMMA ClearStep ==
  ASSUME LogInv, menu_del_appl
  PROVE  LogInv'
<1>1. /\ menu' = <<>> /\ load' = Base /\ written' = {} /\ mem' = mem
      /\ active' = active /\ running' = running /\ log' = log
      /\ log = 0 /\ active = 0
  BY DEF menu_del_appl, NoItems, LogInv, OpenInv
<1>2. Terminator * 0 = 0
  BY Numbers
<1>3. OverrunBounded'
  BY <1>1, <1>2, Numbers DEF OverrunBounded, Terminator
<1>4. TypeOK'
  <2>1. menu' \in Seq(Addr) /\ Len(menu') <= MaxLogs
    BY <1>1, Numbers
  <2>2. QED
    BY <1>1, <2>1, AddrBounds DEF LogInv, TypeOK
<1>5. QED
  BY <1>1, <1>3, <1>4 DEF LogInv, OpenInv, OrderInv, RecordKept, OwnExtent

LEMMA ScribbleStep ==
  ASSUME LogInv, NEW pattern \in Byte, TestRam(pattern)
  PROVE  LogInv'
<1>1. /\ mem' = [a \in Addr |-> IF a >= Limit THEN pattern ELSE mem[a]]
      /\ load' = load /\ menu' = menu /\ active' = active
      /\ running' = running /\ log' = log
      /\ written' = written
  BY DEF TestRam
<1>2. mem' \in [Addr -> Byte]
  BY <1>1 DEF LogInv, TypeOK
<1>3. RecordKept'
  <2>1. ASSUME NEW w \in written, w.at + Size(w.text) <= Limit,
               NEW a \in w.at .. w.at + Len(w.text)
        PROVE  mem'[a] = mem[a]
    <3>1. w.at \in Addr /\ w.at \in Int /\ Base <= w.at
          /\ Len(w.text) \in Nat /\ load \in Addr
      BY WrittenBelowLoad, AddrBounds DEF LogInv, TypeOK
    <3>2. a \in Int /\ a < Limit /\ Base <= a /\ w.at + Len(w.text) < load
      BY <2>1, <3>1, WrittenBelowLoad, Numbers, AddrBounds DEF Size
    <3>3. a \in Addr
      BY <2>1, <3>1, <3>2, AddrBounds
    <3>4. QED
      BY <1>1, <3>2, <3>3, Numbers
  <2>2. ASSUME NEW w \in written, w.at + Size(w.text) <= Limit
        PROVE  /\ \A k \in 1 .. Len(w.text) : mem'[w.at + k - 1] = w.text[k]
               /\ mem'[w.at + Len(w.text)] = Nul
    <3>1. /\ \A k \in 1 .. Len(w.text) : mem[w.at + k - 1] = w.text[k]
          /\ mem[w.at + Len(w.text)] = Nul
      BY <2>2 DEF LogInv, RecordKept
    <3>2. w.at \in Int /\ Len(w.text) \in Nat
      BY WrittenBelowLoad, AddrBounds
    <3>3. ASSUME NEW k \in 1 .. Len(w.text)
          PROVE  mem'[w.at + k - 1] = w.text[k]
      <4>1. w.at + k - 1 \in w.at .. w.at + Len(w.text)
        BY <3>2
      <4>2. QED
        BY <2>1, <2>2, <3>1, <4>1
    <3>4. w.at + Len(w.text) \in w.at .. w.at + Len(w.text)
      BY <3>2
    <3>5. QED
      BY <2>1, <2>2, <3>1, <3>3, <3>4
  <2>3. QED
    BY <1>1, <2>2 DEF RecordKept
<1>4. QED
  BY <1>1, <1>2, <1>3 DEF LogInv, TypeOK, OpenInv, OrderInv, OwnExtent,
                          OverrunBounded, EndOf

LEMMA LogStep == LogInv /\ [Next]_vars => LogInv'
<1> SUFFICES ASSUME LogInv, [Next]_vars PROVE LogInv'
  OBVIOUS
<1>1. CASE Next
  BY <1>1, StartStep, PrintStep, EndStep, ClearStep, ScribbleStep DEF Next
<1>2. CASE UNCHANGED vars
  BY <1>2 DEF vars, LogInv, TypeOK, OpenInv, OrderInv, RecordKept,
              OwnExtent, OverrunBounded, EndOf
<1>3. QED
  BY <1>1, <1>2

LEMMA LogInvariant == Spec => []LogInv
BY InitLog, LogStep, PTL DEF Spec

(* Every variable of the log files keeps its type; in particular no string *)
(* is stored outside the bytes the model reserves for it.                  *)
THEOREM LogTyping == Spec => []TypeOK
<1>1. LogInv => TypeOK
  BY DEF LogInv
<1>2. QED
  BY <1>1, LogInvariant, PTL

(* However many runs are logged, the logs reach beyond the log area by     *)
(* less than one terminator for each closed log.                           *)
THEOREM BoundedOverrun == Spec => []OverrunBounded
<1>1. LogInv => OverrunBounded
  BY DEF LogInv
<1>2. QED
  BY <1>1, LogInvariant, PTL

(* The logs never share a byte: the SIZE column counts what each holds.    *)
THEOREM SeparateLogs == Spec => []OwnExtent
<1>1. LogInv => OwnExtent
  BY DEF LogInv
<1>2. QED
  BY <1>1, LogInvariant, PTL

(* Nothing that is stored below the scratch RAM is ever overwritten while  *)
(* its log is in the menu.                                                 *)
THEOREM NothingOverwritten == Spec => []RecordKept
<1>1. LogInv => RecordKept
  BY DEF LogInv
<1>2. QED
  BY <1>1, LogInvariant, PTL

-----------------------------------------------------------------------------
(* The walk of menu_show_appl. Its recursive function exists: it is built  *)
(* from the end of the memory downwards, each string leads further up.     *)
OneString(m, to, f, a) ==
  IF a = to \/ NulFrom(m, a) = {} THEN <<>>
  ELSE IF TextAt(m, a) = EofText THEN <<>>
  ELSE <<TextAt(m, a)>> \o f[a + Strlen(m, a) + 1]

Place == Base .. Top + 1

LEMMA TopNumber == Top \in Nat /\ Base \in Nat /\ Base <= Top
BY Numbers DEF Top, Terminator

LEMMA SetInduction ==
  ASSUME NEW S \in SUBSET Nat, 0 \in S, \A n \in S : n + 1 \in S
  PROVE  S = Nat
<1> SUFFICES ASSUME Nat \ S # {} PROVE FALSE
  OBVIOUS
<1>1. PICK x \in Nat \ S : \A y \in Nat \ S : ~(<<y, x>> \in OpToRel(<, Nat))
  <2>1. IsWellFoundedOn(OpToRel(<, Nat), Nat)
    BY NatLessThanWellFounded
  <2>2. Nat \ S \subseteq Nat
    OBVIOUS
  <2>3. QED
    BY <2>1, <2>2, WFMin
<1>2. \A y \in Nat : y < x => <<y, x>> \in OpToRel(<, Nat)
  BY DEF OpToRel
<1>3. x # 0 /\ x - 1 \in Nat /\ x - 1 < x
  OBVIOUS
<1>4. x - 1 \in S
  BY <1>1, <1>2, <1>3
<1>5. QED
  BY <1>3, <1>4

(* The least NUL from an address on ends the string that begins there.     *)
LEMMA LeastNul ==
  ASSUME NEW m, NEW a \in Nat, NEW e \in NulFrom(m, a),
         \A b \in NulFrom(m, a) : e <= b
  PROVE  Strlen(m, a) = e - a
<1>1. \A b \in NulFrom(m, a) : b \in Int
  BY TopNumber DEF NulFrom
<1>2. \A b \in NulFrom(m, a) : (\A c \in NulFrom(m, a) : b <= c) => b = e
  BY <1>1
<1>3. QED
  BY <1>2 DEF Strlen

LEMMA StrlenBounds ==
  ASSUME NEW m, NEW a \in Nat, NulFrom(m, a) # {}
  PROVE  Strlen(m, a) \in 0 .. Top - a
<1>1. NulFrom(m, a) \subseteq Nat
  BY TopNumber DEF NulFrom
<1>2. PICK e \in NulFrom(m, a) : \A b \in NulFrom(m, a) : ~(<<b, e>> \in OpToRel(<, Nat))
  <2>1. IsWellFoundedOn(OpToRel(<, Nat), Nat)
    BY NatLessThanWellFounded
  <2>2. QED
    BY <2>1, <1>1, WFMin
<1>3. \A b \in NulFrom(m, a) : e <= b
  <2>1. \A b \in NulFrom(m, a) : b < e => <<b, e>> \in OpToRel(<, Nat)
    BY <1>1 DEF OpToRel
  <2>2. \A b \in NulFrom(m, a) : ~(b < e)
    BY <1>2, <2>1
  <2>3. e \in Nat /\ \A b \in NulFrom(m, a) : b \in Nat
    BY <1>1
  <2>4. QED
    BY <2>2, <2>3
<1>4. Strlen(m, a) = e - a
  BY <1>3, LeastNul
<1>5. e \in a .. Top
  BY DEF NulFrom
<1>6. QED
  BY <1>4, <1>5, TopNumber

LEMMA WalkExists ==
  ASSUME NEW m, NEW to
  PROVE  \E f : f = [a \in Place |-> OneString(m, to, f, a)]
<1> DEFINE Up(n) == { a \in Place : Top + 1 - n <= a }
           S == { n \in Nat : \E f : /\ DOMAIN f = Place
                                     /\ \A a \in Up(n) : f[a] = OneString(m, to, f, a) }
<1>0. Place \subseteq Nat
  BY TopNumber DEF Place
<1>1. ASSUME NEW f, NEW g, NEW a \in Place, \A b \in Place : a < b => f[b] = g[b]
      PROVE  OneString(m, to, f, a) = OneString(m, to, g, a)
  <2>1. ASSUME NulFrom(m, a) # {}
        PROVE  f[a + Strlen(m, a) + 1] = g[a + Strlen(m, a) + 1]
    <3>1. a \in Nat
      BY <1>0
    <3>2. Strlen(m, a) \in 0 .. Top - a
      BY <2>1, <3>1, StrlenBounds
    <3>3. a + Strlen(m, a) + 1 \in Place /\ a < a + Strlen(m, a) + 1
      BY <3>1, <3>2, TopNumber DEF Place
    <3>4. QED
      BY <1>1, <3>3
  <2>2. QED
    BY <2>1 DEF OneString
<1>2. ASSUME NEW n \in Nat, NEW f, DOMAIN f = Place, \A a \in Up(n) : f[a] = OneString(m, to, f, a)
      PROVE  \E g : /\ DOMAIN g = Place
                    /\ \A a \in Up(n + 1) : g[a] = OneString(m, to, g, a)
  <2> DEFINE g == [a \in Place |-> IF a \in Up(n) THEN f[a] ELSE OneString(m, to, f, a)]
  <2>1. \A a \in Place : g[a] = IF a \in Up(n) THEN f[a] ELSE OneString(m, to, f, a)
    OBVIOUS
  <2>2. ASSUME NEW a \in Up(n + 1) PROVE g[a] = OneString(m, to, g, a)
    <3>1. a \in Place /\ a \in Nat /\ Top + 1 - (n + 1) <= a
      BY <1>0
    <3>2. \A b \in Place : a < b => b \in Up(n)
      BY <1>0, <3>1, TopNumber
    <3>3. \A b \in Place : a < b => f[b] = g[b]
      BY <2>1, <3>2
    <3>4. OneString(m, to, f, a) = OneString(m, to, g, a)
      BY <1>1, <3>1, <3>3
    <3>5. g[a] = OneString(m, to, f, a)
      BY <1>2, <2>1, <3>1
    <3>6. QED
      BY <3>4, <3>5
  <2>3. DOMAIN g = Place
    OBVIOUS
  <2>4. QED
    BY <2>2, <2>3
<1>3. 0 \in S
  <2> DEFINE f == [a \in Place |-> <<>>]
             g == [a \in Place |-> OneString(m, to, f, a)]
  <2>1. ASSUME NEW a \in Up(0) PROVE g[a] = OneString(m, to, g, a)
    <3>1. a \in Place /\ \A b \in Place : ~(a < b)
      BY <1>0, TopNumber DEF Place
    <3>2. QED
      BY <1>1, <3>1
  <2>2. DOMAIN g = Place
    OBVIOUS
  <2>3. QED
    BY <2>1, <2>2
<1>4. S = Nat
  <2>1. \A n \in S : n + 1 \in S
    BY <1>2
  <2>2. S \in SUBSET Nat
    OBVIOUS
  <2> HIDE DEF S
  <2>3. QED
    BY <1>3, <2>1, <2>2, SetInduction
<1>5. Top + 1 \in S
  <2> HIDE DEF S
  <2>1. QED
    BY <1>4, TopNumber
<1>6. PICK f : /\ DOMAIN f = Place
               /\ \A a \in Up(Top + 1) : f[a] = OneString(m, to, f, a)
  BY <1>5
<1>7. \A a \in Place : a \in Up(Top + 1)
  <2>1. \A a \in Place : Top + 1 - (Top + 1) <= a
    BY <1>0, TopNumber
  <2>2. QED
    BY <2>1
<1> DEFINE g == [a \in Place |-> f[a]]
<1>8. \A a \in Place : g[a] = OneString(m, to, g, a)
  <2> SUFFICES ASSUME NEW a \in Place PROVE g[a] = OneString(m, to, g, a)
    OBVIOUS
  <2>1. \A b \in Place : a < b => f[b] = g[b]
    OBVIOUS
  <2>2. QED
    BY <1>1, <1>6, <1>7, <2>1
<1>9. g = [a \in Place |-> OneString(m, to, g, a)]
  BY <1>8
<1>10. QED
  BY <1>9

(* One step of it.                                                         *)
LEMMA ShownStep ==
  ASSUME NEW m, NEW to, NEW a \in Place
  PROVE  Shown(m, a, to) =
           IF a = to \/ NulFrom(m, a) = {} THEN <<>>
           ELSE IF TextAt(m, a) = EofText THEN <<>>
           ELSE <<TextAt(m, a)>> \o Shown(m, a + Strlen(m, a) + 1, to)
<1> DEFINE f == CHOOSE f : f = [b \in Place |->
                  IF b = to \/ NulFrom(m, b) = {} THEN <<>>
                  ELSE IF TextAt(m, b) = EofText THEN <<>>
                  ELSE <<TextAt(m, b)>> \o f[b + Strlen(m, b) + 1]]
<1>1. \A b : Shown(m, b, to) = f[b]
  BY DEF Shown, Place
<1>2. f = [b \in Place |->
             IF b = to \/ NulFrom(m, b) = {} THEN <<>>
             ELSE IF TextAt(m, b) = EofText THEN <<>>
             ELSE <<TextAt(m, b)>> \o f[b + Strlen(m, b) + 1]]
  <2>1. PICK g : g = [b \in Place |-> OneString(m, to, g, b)]
    BY WalkExists
  <2>2. g = [b \in Place |->
               IF b = to \/ NulFrom(m, b) = {} THEN <<>>
               ELSE IF TextAt(m, b) = EofText THEN <<>>
               ELSE <<TextAt(m, b)>> \o g[b + Strlen(m, b) + 1]]
    BY <2>1, Zenon DEF OneString
  <2>3. QED
    BY <2>2, Zenon
<1> HIDE DEF f
<1>3. QED
  BY <1>1, <1>2

-----------------------------------------------------------------------------
(* A string in memory, and strings one behind the other from a to b.       *)
Holds(m, a, t) ==
  /\ \A j \in 1 .. Len(t) : m[a + j - 1] = t[j]
  /\ m[a + Len(t)] = Nul

Strung(m, a, b, ts) ==
  \E at \in [1 .. Len(ts) + 1 -> a .. b] :
    /\ at[1] = a /\ at[Len(ts) + 1] = b
    /\ \A k \in 1 .. Len(ts) : at[k + 1] = at[k] + Size(ts[k]) /\ Holds(m, at[k], ts[k])

(* The walk reads a string as it was stored.                               *)
LEMMA TextRead ==
  ASSUME NEW m, NEW a \in Nat, NEW t \in Seq(Chars), Holds(m, a, t), a + Len(t) <= Top
  PROVE  /\ NulFrom(m, a) # {}
         /\ Strlen(m, a) = Len(t)
         /\ TextAt(m, a) = t
<1>1. Len(t) \in Nat /\ \A j \in 1 .. Len(t) : t[j] \in Chars
  OBVIOUS
<1>2. a + Len(t) \in NulFrom(m, a)
  BY <1>1, TopNumber DEF NulFrom, Holds
<1>3. ASSUME NEW b \in NulFrom(m, a) PROVE a + Len(t) <= b
  <2>1. b \in Int /\ a <= b /\ m[b] = Nul
    BY <1>1, TopNumber DEF NulFrom
  <2>2. ASSUME b < a + Len(t) PROVE FALSE
    <3>1. b - a + 1 \in 1 .. Len(t) /\ a + (b - a + 1) - 1 = b
      BY <1>1, <2>1, <2>2
    <3>2. m[b] = t[b - a + 1]
      BY <3>1 DEF Holds
    <3>3. QED
      BY <1>1, <2>1, <3>1, <3>2, LogFilesAssumption
  <2>3. QED
    BY <1>1, <2>1, <2>2
<1>4. Strlen(m, a) = Len(t)
  <2>1. Strlen(m, a) = a + Len(t) - a
    BY <1>2, <1>3, LeastNul
  <2>2. QED
    BY <1>1, <2>1
<1>5. TextAt(m, a) = t
  <2>1. TextAt(m, a) = [k \in 1 .. Len(t) |-> m[a + k - 1]]
    BY <1>4 DEF TextAt
  <2>2. \A k \in 1 .. Len(t) : m[a + k - 1] = t[k]
    BY DEF Holds
  <2>3. t = [k \in 1 .. Len(t) |-> t[k]]
    OBVIOUS
  <2>4. QED
    BY <2>1, <2>2, <2>3
<1>6. QED
  BY <1>2, <1>4, <1>5

(* It reads all strings up to b, if what it shows from there is nothing.   *)
LEMMA StringsRead ==
  ASSUME NEW m, NEW a \in Place, NEW b \in Place, NEW ts \in Seq(Texts),
         Strung(m, a, b, ts), NEW to, to \notin a .. b - 1, Shown(m, b, to) = <<>>
  PROVE  Shown(m, a, to) = ts
<1> DEFINE n == Len(ts)
<1>0. n \in Nat /\ a \in Nat /\ b \in Nat /\ b <= Top + 1 /\ Base <= a
  BY TopNumber DEF Place
<1>1. PICK at \in [1 .. n + 1 -> a .. b] :
        /\ at[1] = a /\ at[n + 1] = b
        /\ \A k \in 1 .. n : at[k + 1] = at[k] + Size(ts[k]) /\ Holds(m, at[k], ts[k])
  BY DEF Strung
<1>2. \A k \in 1 .. n : ts[k] \in Seq(Chars) /\ ts[k] # EofText
  <2>1. \A k \in 1 .. n : ts[k] \in Texts
    OBVIOUS
  <2>2. QED
    BY <2>1, LogFilesAssumption
<1> DEFINE Rest(k) == Shown(m, at[k], to) = SubSeq(ts, k, n)
<1>3. Rest(n + 1)
  <2>1. SubSeq(ts, n + 1, n) = <<>>
    BY <1>0, SubSeqEmpty
  <2>2. QED
    BY <1>1, <2>1
<1>4. ASSUME NEW k \in 1 .. n, Rest(k + 1) PROVE Rest(k)
  <2>1. k \in 1 .. n + 1 /\ k + 1 \in 1 .. n + 1
    BY <1>0
  <2>3. at[k] \in a .. b /\ at[k + 1] \in a .. b
    BY <1>1, <2>1
  <2>4. ts[k] \in Seq(Chars) /\ ts[k] # EofText /\ Len(ts[k]) \in Nat
    BY <1>2
  <2>5. at[k + 1] = at[k] + Len(ts[k]) + 1 /\ Holds(m, at[k], ts[k])
    <3>1. at[k + 1] = at[k] + Size(ts[k]) /\ Holds(m, at[k], ts[k])
      BY <1>1
    <3>2. at[k] \in Int
      BY <1>0, <2>3
    <3>3. QED
      BY <2>4, <3>1, <3>2 DEF Size
  <2>6. at[k] \in Nat /\ at[k] \in Place /\ at[k] \in a .. b - 1 /\ at[k] + Len(ts[k]) <= Top
    BY <1>0, <2>3, <2>4, <2>5, TopNumber DEF Place
  <2>7. NulFrom(m, at[k]) # {} /\ Strlen(m, at[k]) = Len(ts[k]) /\ TextAt(m, at[k]) = ts[k]
    BY <2>4, <2>5, <2>6, TextRead
  <2>8. at[k] # to
    BY <2>6
  <2>9. Shown(m, at[k], to) = <<ts[k]>> \o Shown(m, at[k + 1], to)
    <3>1. Shown(m, at[k], to) = <<ts[k]>> \o Shown(m, at[k] + Len(ts[k]) + 1, to)
      BY <2>4, <2>6, <2>7, <2>8, ShownStep
    <3>2. QED
      BY <2>5, <3>1
  <2>10. SubSeq(ts, k, n) = <<ts[k]>> \o SubSeq(ts, k + 1, n)
    BY <1>0, SubSeqRecursiveFirst
  <2>11. QED
    BY <1>4, <2>9, <2>10
<1> HIDE DEF Rest
<1>5. \A d \in Nat : d <= n => Rest(n + 1 - d)
  <2> DEFINE S == { d \in Nat : d <= n => Rest(n + 1 - d) }
  <2>1. 0 \in S
    <3>1. n + 1 - 0 = n + 1
      BY <1>0
    <3>2. QED
      BY <1>3, <3>1
  <2>2. ASSUME NEW d \in Nat, d <= n => Rest(n + 1 - d)
        PROVE  d + 1 <= n => Rest(n + 1 - (d + 1))
    <3> SUFFICES ASSUME d + 1 <= n PROVE Rest(n + 1 - (d + 1))
      OBVIOUS
    <3>1. d <= n /\ n - d \in 1 .. n /\ n + 1 - d = n - d + 1 /\ n + 1 - (d + 1) = n - d
      BY <1>0
    <3>2. Rest(n - d + 1)
      BY <2>2, <3>1
    <3>3. QED
      BY <1>4, <3>1, <3>2
  <2>3. S = Nat
    <3>1. S \in SUBSET Nat
      OBVIOUS
    <3>2. ASSUME NEW d \in S PROVE d + 1 \in S
      BY <2>2
    <3> HIDE DEF S
    <3>3. QED
      BY <2>1, <3>1, <3>2, SetInduction
  <2>4. QED
    BY <2>3
<1>6. Rest(1)
  <2>1. n + 1 - n = 1 /\ n <= n
    BY <1>0
  <2>2. QED
    BY <1>0, <1>5, <2>1
<1>7. SubSeq(ts, 1, n) = ts
  BY SubSeqFull
<1>8. QED
  BY <1>1, <1>6, <1>7 DEF Rest

(* What the walk shows of a log that is still open: nothing marks its end, *)
(* so the walk may go on, but it shows the strings of the log first.       *)
LEMMA ShownTyped ==
  ASSUME NEW m, NEW to
  PROVE  \A a \in Place : Shown(m, a, to) \in Seq({ TextAt(m, x) : x \in Place })
<1> DEFINE X == { TextAt(m, x) : x \in Place }
           S == { d \in Nat : \A a \in Place : Top + 1 - a <= d => Shown(m, a, to) \in Seq(X) }
<1>1. ASSUME NEW a \in Place,
             \A b \in Place : b > a => Shown(m, b, to) \in Seq(X)
      PROVE  Shown(m, a, to) \in Seq(X)
  <2>1. CASE a = to \/ NulFrom(m, a) = {} \/ TextAt(m, a) = EofText
    <3>1. Shown(m, a, to) = <<>>
      BY <2>1, ShownStep
    <3>2. QED
      BY <3>1
  <2>2. CASE ~(a = to \/ NulFrom(m, a) = {} \/ TextAt(m, a) = EofText)
    <3>1. PICK b : b = a + Strlen(m, a) + 1
      OBVIOUS
    <3>2. b \in Place /\ b > a
      <4>1. a \in Nat
        BY TopNumber DEF Place
      <4>2. Strlen(m, a) \in Nat /\ a + Strlen(m, a) <= Top
        <5>1. NulFrom(m, a) # {}
          BY <2>2
        <5>2. Strlen(m, a) \in 0 .. Top - a
          BY <4>1, <5>1, StrlenBounds
        <5>3. QED
          BY <4>1, <5>2, TopNumber
      <4>3. QED
        BY <3>1, <4>1, <4>2, TopNumber DEF Place
    <3>3. Shown(m, a, to) = <<TextAt(m, a)>> \o Shown(m, b, to)
      BY <2>2, <3>1, ShownStep
    <3>4. PICK s \in Seq(X) : s = Shown(m, b, to)
      BY <1>1, <3>2
    <3>5. PICK t \in X : t = TextAt(m, a)
      OBVIOUS
    <3> HIDE DEF X
    <3>6. <<t>> \o s \in Seq(X)
      OBVIOUS
    <3>7. QED
      BY <3>3, <3>4, <3>5, <3>6
  <2>3. QED
    BY <2>1, <2>2
<1> HIDE DEF X
<1>2. \A a \in Place : a \in Nat /\ Base <= a /\ a <= Top + 1
  BY TopNumber DEF Place
<1>3. 0 \in S
  <2> SUFFICES ASSUME NEW a \in Place, Top + 1 - a <= 0 PROVE Shown(m, a, to) \in Seq(X)
    OBVIOUS
  <2>1. \A b \in Place : ~(b > a)
    BY <1>2, TopNumber
  <2>2. QED
    BY <1>1, <2>1
<1>4. ASSUME NEW d \in S PROVE d + 1 \in S
  <2> SUFFICES ASSUME NEW a \in Place, Top + 1 - a <= d + 1 PROVE Shown(m, a, to) \in Seq(X)
    OBVIOUS
  <2>1. \A b \in Place : b > a => Top + 1 - b <= d
    BY <1>2, TopNumber
  <2>2. QED
    BY <1>1, <1>4, <2>1
<1>5. S \in SUBSET Nat
  OBVIOUS
<1>6. ASSUME NEW a \in Place PROVE Shown(m, a, to) \in Seq(X)
  <2>1. Top + 1 - a \in Nat /\ Top + 1 - a <= Top + 1 - a
    BY <1>2, TopNumber
  <2> HIDE DEF S
  <2>2. Top + 1 - a \in S
    BY <1>3, <1>4, <1>5, <2>1, SetInduction
  <2>3. QED
    BY <2>1, <2>2 DEF S
<1>7. QED
  BY <1>6 DEF X

(* s begins with the elements of ts from k on.                             *)
Starts(s, ts, k) ==
  /\ Len(s) \in Nat /\ Len(ts) - k + 1 <= Len(s)
  /\ \A j \in 1 .. Len(ts) - k + 1 : s[j] = ts[j + k - 1]

LEMMA StringsFirst ==
  ASSUME NEW m, NEW a \in Place, NEW b \in Place, NEW ts \in Seq(Texts),
         Strung(m, a, b, ts), NEW to, to \notin a .. b - 1
  PROVE  Starts(Shown(m, a, to), ts, 1)
<1> DEFINE n == Len(ts)
           X == { TextAt(m, x) : x \in Place }
<1>0. n \in Nat /\ a \in Nat /\ b \in Nat /\ b <= Top + 1 /\ Base <= a
  BY TopNumber DEF Place
<1>1. PICK at \in [1 .. n + 1 -> a .. b] :
        /\ at[1] = a /\ at[n + 1] = b
        /\ \A k \in 1 .. n : at[k + 1] = at[k] + Size(ts[k]) /\ Holds(m, at[k], ts[k])
  BY DEF Strung
<1>2. \A k \in 1 .. n : ts[k] \in Seq(Chars) /\ ts[k] # EofText
  <2>1. \A k \in 1 .. n : ts[k] \in Texts
    OBVIOUS
  <2>2. QED
    BY <2>1, LogFilesAssumption
<1>t. \A x \in Place : Shown(m, x, to) \in Seq(X)
  BY ShownTyped
<1> HIDE DEF X
<1> DEFINE Rest(k) == Starts(Shown(m, at[k], to), ts, k)
<1>3. Rest(n + 1)
  <2>1. Shown(m, b, to) \in Seq(X)
    BY <1>t
  <2>2. PICK s \in Seq(X) : s = Shown(m, at[n + 1], to)
    BY <1>1, <2>1
  <2>3. Len(s) \in Nat /\ n - (n + 1) + 1 = 0
    BY <1>0
  <2>4. Starts(s, ts, n + 1)
    BY <2>3 DEF Starts
  <2>5. QED
    BY <2>2, <2>4
<1>4. ASSUME NEW k \in 1 .. n, Rest(k + 1) PROVE Rest(k)
  <2>1. k \in 1 .. n + 1 /\ k + 1 \in 1 .. n + 1
    BY <1>0
  <2>3. at[k] \in a .. b /\ at[k + 1] \in a .. b
    BY <1>1, <2>1
  <2>4. ts[k] \in Seq(Chars) /\ ts[k] # EofText /\ Len(ts[k]) \in Nat
    BY <1>2
  <2>5. at[k + 1] = at[k] + Len(ts[k]) + 1 /\ Holds(m, at[k], ts[k])
    <3>1. at[k + 1] = at[k] + Size(ts[k]) /\ Holds(m, at[k], ts[k])
      BY <1>1
    <3>2. at[k] \in Int
      BY <1>0, <2>3
    <3>3. QED
      BY <2>4, <3>1, <3>2 DEF Size
  <2>6. /\ at[k] \in Nat /\ at[k] \in Place /\ at[k] \in a .. b - 1
        /\ at[k] + Len(ts[k]) <= Top /\ at[k + 1] \in Place
    BY <1>0, <2>3, <2>4, <2>5, TopNumber DEF Place
  <2>7. NulFrom(m, at[k]) # {} /\ Strlen(m, at[k]) = Len(ts[k]) /\ TextAt(m, at[k]) = ts[k]
    BY <2>4, <2>5, <2>6, TextRead
  <2>8. at[k] # to
    BY <2>6
  <2>9. Shown(m, at[k], to) = <<ts[k]>> \o Shown(m, at[k + 1], to)
    <3>1. Shown(m, at[k], to) = <<ts[k]>> \o Shown(m, at[k] + Len(ts[k]) + 1, to)
      BY <2>4, <2>6, <2>7, <2>8, ShownStep
    <3>2. QED
      BY <2>5, <3>1
  <2>10. PICK s \in Seq(X) : s = Shown(m, at[k + 1], to)
    BY <1>t, <2>6
  <2>11. PICK t : t = ts[k] /\ t \in X
    <3>1. TextAt(m, at[k]) \in X
      BY <2>6 DEF X
    <3>2. QED
      BY <2>7, <3>1
  <2>12. Starts(s, ts, k + 1)
    BY <1>4, <2>10
  <2>13. /\ <<t>> \o s \in Seq(X) /\ Len(<<t>> \o s) = Len(s) + 1 /\ (<<t>> \o s)[1] = t
         /\ \A j \in 1 .. Len(s) : (<<t>> \o s)[j + 1] = s[j]
    <3>1. <<t>> \in Seq(X) /\ Len(<<t>>) = 1 /\ <<t>>[1] = t /\ Len(s) \in Nat
      BY <2>11
    <3>2. /\ <<t>> \o s \in Seq(X) /\ Len(<<t>> \o s) = 1 + Len(s)
          /\ \A j \in 1 .. 1 + Len(s) :
               (<<t>> \o s)[j] = IF j <= 1 THEN <<t>>[j] ELSE s[j - 1]
      BY <3>1, ConcatProperties
    <3>3. \A j \in 1 .. Len(s) : j + 1 \in 1 .. 1 + Len(s) /\ ~(j + 1 <= 1) /\ j + 1 - 1 = j
      BY <3>1
    <3>4. 1 \in 1 .. 1 + Len(s) /\ 1 <= 1
      BY <3>1
    <3>5. QED
      BY <3>1, <3>2, <3>3, <3>4
  <2>14. PICK r : /\ r = <<t>> \o s /\ Len(r) = Len(s) + 1 /\ r[1] = t
                  /\ \A j \in 1 .. Len(s) : r[j + 1] = s[j]
    BY <2>13
  <2>15. /\ Len(s) \in Nat /\ n - (k + 1) + 1 <= Len(s)
         /\ \A j \in 1 .. n - (k + 1) + 1 : s[j] = ts[j + (k + 1) - 1]
    BY <2>12 DEF Starts
  <2>16. ASSUME NEW j \in 1 .. n - k + 1 PROVE r[j] = ts[j + k - 1]
    <3>1. CASE j = 1
      <4>1. j + k - 1 = k
        BY <1>0, <3>1
      <4>2. QED
        BY <2>11, <2>14, <3>1, <4>1
    <3>2. CASE j # 1
      <4>1. PICK i \in Nat : j = i + 1
        BY <1>0
      <4>2. i \in 1 .. n - (k + 1) + 1 /\ i + (k + 1) - 1 = j + k - 1 /\ i \in 1 .. Len(s)
        BY <1>0, <2>15, <3>2, <4>1
      <4>3. s[i] = ts[i + (k + 1) - 1]
        BY <2>15, <4>2
      <4>4. r[i + 1] = s[i]
        BY <2>14, <4>2
      <4>5. QED
        BY <4>1, <4>2, <4>3, <4>4
    <3>3. QED
      BY <3>1, <3>2
  <2>17. Len(r) \in Nat /\ n - k + 1 <= Len(r)
    BY <1>0, <2>14, <2>15
  <2>18. Starts(r, ts, k)
    BY <2>16, <2>17 DEF Starts
  <2>19. QED
    BY <2>9, <2>10, <2>11, <2>14, <2>18
<1> HIDE DEF Rest
<1>5. \A d \in Nat : d <= n => Rest(n + 1 - d)
  <2> DEFINE S == { d \in Nat : d <= n => Rest(n + 1 - d) }
  <2>1. 0 \in S
    <3>1. n + 1 - 0 = n + 1
      BY <1>0
    <3>2. QED
      BY <1>3, <3>1
  <2>2. ASSUME NEW d \in S PROVE d + 1 \in S
    <3> SUFFICES ASSUME d + 1 <= n PROVE Rest(n + 1 - (d + 1))
      OBVIOUS
    <3>1. d <= n /\ n - d \in 1 .. n /\ n + 1 - d = n - d + 1 /\ n + 1 - (d + 1) = n - d
      BY <1>0
    <3>2. Rest(n - d + 1)
      BY <2>2, <3>1
    <3>3. QED
      BY <1>4, <3>1, <3>2
  <2>3. S \in SUBSET Nat
    OBVIOUS
  <2>4. S = Nat
    <3> HIDE DEF S
    <3>1. QED
      BY <2>1, <2>2, <2>3, SetInduction
  <2>5. QED
    BY <2>4
<1>6. Rest(1)
  <2>1. n + 1 - n = 1 /\ n <= n
    BY <1>0
  <2>2. QED
    BY <1>0, <1>5, <2>1
<1>7. QED
  BY <1>1, <1>6 DEF Rest

(* Making a string of strings, and keeping it.                             *)
LEMMA NoString ==
  ASSUME NEW m, NEW a \in Int PROVE Strung(m, a, a, <<>>)
<1> DEFINE at == [k \in 1 .. 1 |-> a]
<1>1. Len(<<>>) + 1 = 1 /\ 1 .. Len(<<>>) = {} /\ at \in [1 .. 1 -> a .. a] /\ at[1] = a
  OBVIOUS
<1> HIDE DEF at
<1>2. \E p \in [1 .. Len(<<>>) + 1 -> a .. a] :
        /\ p[1] = a /\ p[Len(<<>>) + 1] = a
        /\ \A k \in 1 .. Len(<<>>) :
             p[k + 1] = p[k] + Size(<<>>[k]) /\ Holds(m, p[k], <<>>[k])
  <2>1. at \in [1 .. Len(<<>>) + 1 -> a .. a] /\ at[Len(<<>>) + 1] = a
    BY <1>1
  <2>2. QED
    BY <1>1, <2>1
<1>3. QED
  BY <1>2 DEF Strung

LEMMA StringAppended ==
  ASSUME NEW m, NEW a \in Int, NEW b \in Int, NEW ts \in Seq(Seq(Chars)),
         NEW t \in Seq(Chars), Strung(m, a, b, ts), Holds(m, b, t)
  PROVE  Strung(m, a, b + Size(t), Append(ts, t))
<1> DEFINE n == Len(ts)
           us == Append(ts, t)
           c == b + Size(t)
<1>0. n \in Nat /\ Size(t) \in Nat /\ c \in Int /\ b <= c
  BY DEF Size
<1>1. PICK at \in [1 .. n + 1 -> a .. b] :
        /\ at[1] = a /\ at[n + 1] = b
        /\ \A k \in 1 .. n : at[k + 1] = at[k] + Size(ts[k]) /\ Holds(m, at[k], ts[k])
  BY DEF Strung
<1>2. /\ Len(us) = n + 1 /\ us[n + 1] = t
      /\ \A k \in 1 .. n : us[k] = ts[k]
  OBVIOUS
<1> DEFINE up == [k \in 1 .. n + 2 |-> IF k = n + 2 THEN c ELSE at[k]]
<1>3. /\ \A k \in 1 .. n + 1 : up[k] = at[k]
      /\ up[n + 2] = c
  BY <1>0
<1>4. up \in [1 .. n + 2 -> a .. c]
  <2>1. n + 1 \in 1 .. n + 1
    BY <1>0
  <2>2. a <= b
    <3>1. at[n + 1] \in a .. b
      BY <2>1
    <3>2. b \in a .. b
      BY <1>1, <3>1
    <3>3. QED
      BY <3>2
  <2>3. \A k \in 1 .. n + 2 : k # n + 2 => k \in 1 .. n + 1
    BY <1>0
  <2>4. \A k \in 1 .. n + 1 : at[k] \in a .. c
    <3>1. \A x \in a .. b : x \in a .. c
      BY <1>0
    <3>2. QED
      BY <1>1, <3>1
  <2>5. c \in a .. c
    BY <1>0, <2>2
  <2>6. QED
    BY <2>3, <2>4, <2>5
<1>5. up[1] = a
  BY <1>0, <1>1, <1>3
<1>6. ASSUME NEW k \in 1 .. n + 1
      PROVE  up[k + 1] = up[k] + Size(us[k]) /\ Holds(m, up[k], us[k])
  <2>1. CASE k = n + 1
    <3>1. up[k + 1] = c /\ up[k] = b /\ us[k] = t
      BY <1>0, <1>1, <1>2, <1>3, <2>1
    <3>2. QED
      BY <3>1
  <2>2. CASE k # n + 1
    <3>1. k \in 1 .. n /\ k + 1 \in 1 .. n + 1
      BY <1>0, <2>2
    <3>2. QED
      BY <1>1, <1>2, <1>3, <3>1
  <2>3. QED
    BY <2>1, <2>2
<1> HIDE DEF up, us, n
<1>7. n + 1 + 1 = n + 2
  BY <1>0
<1>8. Strung(m, a, c, us)
  <2>1. up \in [1 .. Len(us) + 1 -> a .. c] /\ up[Len(us) + 1] = c
    BY <1>2, <1>3, <1>4, <1>7
  <2>2. \A k \in 1 .. Len(us) : up[k + 1] = up[k] + Size(us[k]) /\ Holds(m, up[k], us[k])
    BY <1>2, <1>6
  <2>3. QED
    BY <1>5, <2>1, <2>2 DEF Strung
<1>9. QED
  BY <1>8 DEF us

LEMMA HoldsKept ==
  ASSUME NEW m, NEW m2, NEW a \in Int, NEW t \in Seq(Chars), Holds(m, a, t),
         \A x \in a .. a + Len(t) : m2[x] = m[x]
  PROVE  Holds(m2, a, t)
<1>1. Len(t) \in Nat
  OBVIOUS
<1>2. a + Len(t) \in a .. a + Len(t) /\ \A j \in 1 .. Len(t) : a + j - 1 \in a .. a + Len(t)
  BY <1>1
<1>3. QED
  BY <1>2 DEF Holds

LEMMA StrungKept ==
  ASSUME NEW m, NEW m2, NEW a \in Int, NEW b \in Int, NEW ts \in Seq(Seq(Chars)),
         Strung(m, a, b, ts), \A x \in a .. b - 1 : m2[x] = m[x]
  PROVE  Strung(m2, a, b, ts)
<1>1. PICK at \in [1 .. Len(ts) + 1 -> a .. b] :
        /\ at[1] = a /\ at[Len(ts) + 1] = b
        /\ \A k \in 1 .. Len(ts) : at[k + 1] = at[k] + Size(ts[k]) /\ Holds(m, at[k], ts[k])
  BY DEF Strung
<1>2. ASSUME NEW k \in 1 .. Len(ts) PROVE Holds(m2, at[k], ts[k])
  <2>1. /\ at[k] \in a .. b /\ at[k + 1] \in a .. b /\ at[k] \in Int
        /\ ts[k] \in Seq(Chars) /\ Len(ts[k]) \in Nat
    <3>1. Len(ts) \in Nat /\ ts[k] \in Seq(Chars)
      OBVIOUS
    <3>2. k \in 1 .. Len(ts) + 1 /\ k + 1 \in 1 .. Len(ts) + 1
      BY <3>1
    <3>3. at[k] \in a .. b /\ at[k + 1] \in a .. b
      BY <1>1, <3>2
    <3>4. QED
      BY <3>1, <3>3
  <2>2. at[k + 1] = at[k] + Len(ts[k]) + 1
    BY <1>1, <2>1 DEF Size
  <2>3. \A x \in at[k] .. at[k] + Len(ts[k]) : x \in a .. b - 1
    BY <2>1, <2>2
  <2>4. QED
    BY <1>1, <2>1, <2>3, HoldsKept
<1>3. QED
  BY <1>1, <1>2 DEF Strung

-----------------------------------------------------------------------------
(* What lies in memory: behind the start of a closed log inside the area   *)
(* the strings of its run and the terminator, behind that of the open one  *)
(* its strings so far, none of them if an earlier log left no room.        *)
ClosedReads(i) ==
  EndOf(i) <= Limit =>
    /\ \E ts \in Seq(Texts) : Strung(mem, menu[i], EndOf(i) - Terminator, ts)
    /\ Holds(mem, EndOf(i) - Terminator, EofText)

OpenReads ==
  log # 0 =>
    /\ \E ts \in Seq(Texts) : Strung(mem, menu[log], load, ts)
    /\ menu[log] = load \/ load <= Limit

ReadsInv == OpenReads /\ \A i \in 1 .. Len(menu) : i # log => ClosedReads(i)

LEMMA AddrPlace == \A a \in Addr : a \in Place /\ a \in Nat /\ Base <= a /\ a <= Top
BY TopNumber DEF Addr, Place

LEMMA TextSeqs == \A ts \in Seq(Texts) : ts \in Seq(Seq(Chars))
BY LogFilesAssumption, SeqMonotonic

LEMMA StrungOrder ==
  ASSUME NEW m, NEW a \in Int, NEW b \in Int, NEW ts \in Seq(Texts), Strung(m, a, b, ts)
  PROVE  a <= b
<1>1. Len(ts) + 1 \in 1 .. Len(ts) + 1
  OBVIOUS
<1>2. QED
  BY <1>1 DEF Strung

LEMMA OpenRead ==
  ASSUME NEW m, NEW a \in Addr, NEW b \in Addr, NEW ts \in Seq(Texts), Strung(m, a, b, ts)
  PROVE  Shown(m, a, b) = ts
<1>1. a \in Place /\ b \in Place /\ b \notin a .. b - 1
  BY AddrPlace
<1>2. Shown(m, b, b) = <<>>
  BY <1>1, ShownStep
<1>3. QED
  BY <1>1, <1>2, StringsRead

LEMMA ClosedRead ==
  ASSUME NEW m, NEW a \in Addr, NEW b \in Addr, NEW ts \in Seq(Texts),
         Strung(m, a, b - Terminator, ts), Holds(m, b - Terminator, EofText)
  PROVE  Shown(m, a, -1) = ts
<1> DEFINE e == b - Terminator
<1>1. a \in Place /\ a \in Nat /\ b \in Nat /\ b <= Top /\ Base <= a
  BY AddrPlace
<1>2. e \in Int /\ a <= e
  BY <1>1, Numbers, StrungOrder
<1>3. EofText \in Seq(Chars) /\ Len(EofText) \in Nat /\ Terminator = Len(EofText) + 1
  BY LogFilesAssumption DEF Terminator, Size
<1>4. e \in Nat /\ e \in Place /\ e + Len(EofText) <= Top
  BY <1>1, <1>2, <1>3, TopNumber DEF Place
<1>5. NulFrom(m, e) # {} /\ TextAt(m, e) = EofText
  BY <1>3, <1>4, TextRead
<1>6. -1 # e /\ -1 \notin a .. e - 1
  BY <1>1, <1>2
<1>7. Shown(m, e, -1) = <<>>
  BY <1>4, <1>5, ShownStep
<1>8. QED
  BY <1>1, <1>4, <1>6, <1>7, StringsRead

-----------------------------------------------------------------------------
(* The refinement.                                                         *)
Entry(i) ==
  [lines |-> CASE StateOf(i) = "open"   -> Shown(mem, menu[i], load)
               [] StateOf(i) = "closed" -> Shown(mem, menu[i], -1)
               [] StateOf(i) = "lost"   -> <<>>,
   state |-> StateOf(i)]

LEMMA StoreIs == store = [i \in 1 .. Len(menu) |-> Entry(i)]
BY DEF store, Entry

LEMMA EntryIs ==
  ASSUME NEW i
  PROVE  /\ i = log => Entry(i) = [lines |-> Shown(mem, menu[i], load), state |-> "open"]
         /\ i # log /\ EndOf(i) > Limit => Entry(i) = [lines |-> <<>>, state |-> "lost"]
         /\ i # log /\ ~(EndOf(i) > Limit) =>
              Entry(i) = [lines |-> Shown(mem, menu[i], -1), state |-> "closed"]
BY DEF Entry, StateOf

(* Where the logs of the menu begin and end.                               *)
LEMMA Extents ==
  ASSUME LogInv, NEW i \in 1 .. Len(menu)
  PROVE  menu[i] \in Addr /\ EndOf(i) \in Addr /\ EndOf(i) <= load /\ load \in Addr
<1>1. menu \in Seq(Addr) /\ load \in Addr /\ Len(menu) \in Nat
  BY DEF LogInv, TypeOK
<1>2. \A j \in 1 .. Len(menu) : menu[j] \in Addr /\ menu[j] <= load
  BY <1>1 DEF LogInv, OrderInv
<1>3. i # Len(menu) => i + 1 \in 1 .. Len(menu)
  BY <1>1
<1>4. load <= load
  BY <1>1, AddrPlace
<1>5. QED
  BY <1>1, <1>2, <1>3, <1>4 DEF EndOf

(* A closed log stays as it is while nothing below its end is stored.      *)
LEMMA ClosedKept ==
  ASSUME LogInv, ReadsInv, NEW i \in 1 .. Len(menu), i # log, i # log',
         menu'[i] = menu[i], EndOf(i)' = EndOf(i),
         EndOf(i) <= Limit => \A x \in Addr : x < EndOf(i) => mem'[x] = mem[x]
  PROVE  Entry(i)' = Entry(i) /\ ClosedReads(i)'
<1> DEFINE a == menu[i]
           b == EndOf(i)
<1>1. a \in Addr /\ b \in Addr /\ a \in Nat /\ b \in Nat /\ Base <= a /\ b <= Top
  BY Extents, AddrPlace
<1>2. CASE b <= Limit
  <2>1. PICK ts \in Seq(Texts) : Strung(mem, a, b - Terminator, ts)
    BY <1>2 DEF ReadsInv, ClosedReads
  <2>2. Holds(mem, b - Terminator, EofText)
    BY <1>2 DEF ReadsInv, ClosedReads
  <2>3. a <= b - Terminator /\ b - Terminator \in Int
    BY <1>1, <2>1, Numbers, StrungOrder
  <2>4. ts \in Seq(Seq(Chars))
    BY TextSeqs
  <2>5. \A x \in a .. b - 1 : mem'[x] = mem[x]
    BY <1>1, <1>2, AddrBounds
  <2>6. Strung(mem', a, b - Terminator, ts)
    <3>1. \A x \in a .. b - Terminator - 1 : x \in a .. b - 1
      BY <1>1, Numbers
    <3>2. QED
      BY <1>1, <2>1, <2>3, <2>4, <2>5, <3>1, StrungKept
  <2>7. Holds(mem', b - Terminator, EofText)
    <3>1. EofText \in Seq(Chars) /\ Len(EofText) \in Nat /\ Terminator = Len(EofText) + 1
      BY LogFilesAssumption DEF Terminator, Size
    <3>2. \A x \in b - Terminator .. b - Terminator + Len(EofText) : x \in a .. b - 1
      BY <1>1, <2>3, <3>1
    <3>3. QED
      BY <2>2, <2>3, <2>5, <3>1, <3>2, HoldsKept
  <2>8. Shown(mem, a, -1) = ts /\ Shown(mem', a, -1) = ts
    BY <1>1, <2>1, <2>2, <2>6, <2>7, ClosedRead
  <2>9. ~(b > Limit)
    BY <1>1, <1>2, Numbers
  <2>10. Entry(i) = [lines |-> ts, state |-> "closed"]
    BY <2>8, <2>9, EntryIs
  <2>11. Entry(i)' = [lines |-> ts, state |-> "closed"]
    BY <2>8, <2>9 DEF Entry, StateOf
  <2>12. ClosedReads(i)'
    BY <2>6, <2>7 DEF ClosedReads
  <2>13. QED
    BY <2>10, <2>11, <2>12
<1>3. CASE ~(b <= Limit)
  <2>1. b > Limit
    BY <1>1, <1>3, Numbers
  <2>2. Entry(i) = [lines |-> <<>>, state |-> "lost"]
    BY <2>1, EntryIs
  <2>3. Entry(i)' = [lines |-> <<>>, state |-> "lost"]
    BY <2>1 DEF Entry, StateOf
  <2>4. ClosedReads(i)'
    BY <1>3 DEF ClosedReads
  <2>5. QED
    BY <2>2, <2>3, <2>4
<1>4. QED
  BY <1>2, <1>3

(* The store as a sequence, and the two ways it changes.                   *)
LEMMA Sequence ==
  ASSUME NEW n \in Nat, NEW f, f = [i \in 1 .. n |-> f[i]]
  PROVE  Len(f) = n /\ f \in Seq({ f[i] : i \in 1 .. n })
<1>1. f \in [1 .. n -> { f[i] : i \in 1 .. n }]
  OBVIOUS
<1>2. f \in Seq({ f[i] : i \in 1 .. n })
  BY <1>1, SeqDef
<1>3. Len(f) = n
  BY <1>1, <1>2, LenProperties
<1>4. QED
  BY <1>2, <1>3

LEMMA Appended ==
  ASSUME NEW n \in Nat, NEW e,
         NEW f, f = [i \in 1 .. n |-> f[i]],
         NEW g, g = [i \in 1 .. n + 1 |-> g[i]],
         \A i \in 1 .. n : g[i] = f[i], g[n + 1] = e
  PROVE  g = Append(f, e)
<1> DEFINE S == { f[i] : i \in 1 .. n } \union {e}
<1>1. Len(f) = n /\ f \in Seq({ f[i] : i \in 1 .. n })
  BY Sequence, Zenon
<1>2. f \in Seq(S)
  BY <1>1
<1>3. n + 1 \in Nat /\ n + 1 \in 1 .. n + 1 /\ \A i \in 1 .. n + 1 : i = n + 1 \/ i \in 1 .. n
  OBVIOUS
<1>4. Len(g) = n + 1 /\ g \in Seq({ g[i] : i \in 1 .. n + 1 })
  BY <1>3, Sequence, Zenon
<1>5. \A i \in 1 .. n + 1 : g[i] \in S
  BY <1>3
<1>6. g \in Seq(S)
  BY <1>4, <1>5
<1>7. /\ Append(f, e) \in Seq(S) /\ Len(Append(f, e)) = n + 1
      /\ \A i \in 1 .. n : Append(f, e)[i] = f[i]
      /\ Append(f, e)[n + 1] = e
  <2>1. e \in S
    OBVIOUS
  <2> HIDE DEF S
  <2>2. QED
    BY <1>1, <1>2, <2>1, AppendProperties
<1> HIDE DEF S
<1>8. \A i \in 1 .. Len(g) : g[i] = Append(f, e)[i]
  BY <1>3, <1>4, <1>7
<1>9. QED
  BY <1>4, <1>6, <1>7, <1>8, SeqEqual

LEMMA Replaced ==
  ASSUME NEW n \in Nat \ {0},
         NEW f, f = [i \in 1 .. n |-> f[i]],
         NEW g, g = [i \in 1 .. n |-> g[i]],
         \A i \in 1 .. n - 1 : g[i] = f[i]
  PROVE  g = [f EXCEPT ![n] = g[n]]
<1>1. \A i \in 1 .. n : g[i] = IF i = n THEN g[n] ELSE f[i]
  OBVIOUS
<1>2. QED
  BY <1>1

LEMMA StoreLength ==
  ASSUME LogInv
  PROVE  /\ Len(store) = Len(menu) /\ Len(menu) \in Nat
         /\ store = [i \in 1 .. Len(menu) |-> store[i]]
         /\ \A i \in 1 .. Len(menu) : store[i] = Entry(i)
<1>1. Len(menu) \in Nat
  BY DEF LogInv, TypeOK
<1>2. store = [i \in 1 .. Len(menu) |-> Entry(i)]
  BY StoreIs
<1>3. \A i \in 1 .. Len(menu) : store[i] = Entry(i)
  BY <1>2
<1>4. store = [i \in 1 .. Len(menu) |-> store[i]]
  BY <1>2
<1>5. QED
  BY <1>1, <1>3, <1>4, Sequence

LEMMA StoreOpen ==
  ASSUME LogInv
  PROVE  Promise!Open <=> log # 0
<1>1. Len(store) = Len(menu) /\ Len(menu) \in Nat
  BY StoreLength
<1>2. log # 0 => log = Len(menu) /\ Len(menu) # 0
  BY DEF LogInv, OpenInv
<1>3. CASE Len(menu) = 0
  <2>1. store = <<>>
    BY <1>3, StoreIs
  <2>2. QED
    BY <1>2, <1>3, <2>1 DEF Promise!Open
<1>4. CASE Len(menu) # 0
  <2>1. Len(menu) \in 1 .. Len(menu)
    BY <1>1, <1>4
  <2>2. store[Len(menu)] = Entry(Len(menu)) /\ store # <<>>
    BY <1>1, <1>4, <2>1, StoreLength
  <2>3. Entry(Len(menu)).state = "open" <=> Len(menu) = log
    BY DEF Entry, StateOf
  <2>4. QED
    BY <1>1, <1>2, <1>4, <2>2, <2>3 DEF Promise!Open, Promise!Last, LogInv, TypeOK
<1>5. QED
  BY <1>3, <1>4

LEMMA SameLogs ==
  ASSUME ReadsInv, UNCHANGED << mem, load, menu, log >>
  PROVE  ReadsInv' /\ UNCHANGED store
<1>1. ReadsInv'
  BY DEF ReadsInv, OpenReads, ClosedReads, EndOf
<1>2. UNCHANGED store
  BY DEF store, StateOf, EndOf
<1>3. QED
  BY <1>1, <1>2

(* What a string stored at the load address leaves in memory.              *)
LEMMA Stored ==
  ASSUME LogInv, NEW text \in Seq(Chars), Store(text), load' \in Addr
  PROVE  /\ Holds(mem', load, text)
         /\ load' = load + Size(text) /\ load < load' /\ load \in Nat
         /\ \A x \in Addr : x < load => mem'[x] = mem[x]
<1>1. load \in Addr /\ load \in Nat /\ load' \in Nat /\ Len(text) \in Nat
  BY AddrPlace DEF LogInv, TypeOK
<1>2. load' = load + Size(text) /\ load' = load + Len(text) + 1
  BY <1>1 DEF Store, Behind, Size
<1>3. mem' = [a \in Addr |->
               IF a \in load .. load + Len(text) - 1 THEN text[a - load + 1]
               ELSE IF a = load + Len(text) THEN Nul ELSE mem[a]]
  BY DEF Store, ByteAfter
<1>4. \A x \in Addr : x < load => mem'[x] = mem[x]
  BY <1>1, <1>3, AddrBounds
<1>5. \A a \in load .. load + Len(text) : a \in Addr
  BY <1>1, <1>2, AddrBounds
<1>6. \A k \in 1 .. Len(text) : mem'[load + k - 1] = text[k]
  BY <1>1, <1>3, <1>5
<1>7. mem'[load + Len(text)] = Nul
  BY <1>1, <1>3, <1>5
<1>8. Holds(mem', load, text)
  BY <1>6, <1>7 DEF Holds
<1>9. load < load'
  BY <1>1, <1>2
<1>10. QED
  BY <1>1, <1>2, <1>4, <1>8, <1>9

LEMMA StartPromise ==
  ASSUME LogInv, LogInv', ReadsInv, NEW logged \in BOOLEAN, StartRun(logged)
  PROVE  ReadsInv' /\ (Promise!Begin \/ UNCHANGED store)
<1>1. log = 0 /\ mem' = mem /\ load' = load
  BY DEF StartRun, LogInv, OpenInv
<1>2. CASE menu' = Append(menu, load) /\ log' = Len(menu) + 1 /\ Len(menu) < MaxLogs
  <2>1. PICK n \in Nat : n = Len(menu)
    BY DEF LogInv, TypeOK
  <2>2. /\ Len(menu') = n + 1 /\ menu'[n + 1] = load /\ log' = n + 1
        /\ \A i \in 1 .. n : menu'[i] = menu[i]
    BY <1>2, <2>1 DEF LogInv, TypeOK
  <2>3. ASSUME NEW i \in 1 .. n
        PROVE  Entry(i)' = Entry(i) /\ ClosedReads(i)'
    <3>1. i \in 1 .. Len(menu) /\ i # log /\ i # log' /\ menu'[i] = menu[i]
      BY <1>1, <2>1, <2>2
    <3>2. EndOf(i)' = EndOf(i)
      BY <1>1, <2>1, <2>2 DEF EndOf
    <3>3. QED
      BY <1>1, <3>1, <3>2, ClosedKept
  <2>4. load \in Addr /\ load \in Int /\ load \in Place
    BY AddrPlace DEF LogInv, TypeOK
  <2>5. Shown(mem, load, load) = <<>>
    BY <2>4, ShownStep
  <2>6. Entry(n + 1)' = [lines |-> <<>>, state |-> "open"]
    BY <1>1, <2>2, <2>5 DEF Entry, StateOf
  <2>7. store' = Append(store, [lines |-> <<>>, state |-> "open"])
    <3>1. store = [i \in 1 .. n |-> store[i]] /\ \A i \in 1 .. n : store[i] = Entry(i)
      BY <2>1, StoreLength
    <3>2. store' = [i \in 1 .. n + 1 |-> Entry(i)']
      BY <2>2, StoreIs DEF store, Entry
    <3>3. store' = [i \in 1 .. n + 1 |-> store'[i]] /\ \A i \in 1 .. n + 1 : store'[i] = Entry(i)'
      BY <3>2
    <3>4. \A i \in 1 .. n : store'[i] = store[i]
      BY <2>3, <3>1, <3>3
    <3>5. store'[n + 1] = [lines |-> <<>>, state |-> "open"]
      BY <2>6, <3>3
    <3>6. QED
      BY <3>1, <3>3, <3>4, <3>5, Appended
  <2>8. Promise!Begin
    BY <1>1, <1>2, <2>7, StoreLength, StoreOpen DEF Promise!Begin
  <2>9. OpenReads'
    <3>1. Strung(mem, load, load, <<>>) /\ <<>> \in Seq(Texts)
      BY <2>4, NoString
    <3>2. QED
      BY <1>1, <2>2, <3>1 DEF OpenReads
  <2>10. \A i \in 1 .. Len(menu') : i # log' => ClosedReads(i)'
    BY <2>2, <2>3
  <2>11. QED
    BY <2>8, <2>9, <2>10 DEF ReadsInv
<1>3. CASE menu' = menu /\ log' = 0
  BY <1>1, <1>3, SameLogs
<1>4. QED
  BY <1>2, <1>3 DEF StartRun, fileio_create

(* A step that stores a string behind the open log leaves the others alone.*)
LEMMA OthersKept ==
  ASSUME LogInv, ReadsInv, NEW n \in Nat, n = Len(menu), n # 0, log = n, log' \in {0, n},
         menu' = menu, \A x \in Addr : x < load => mem'[x] = mem[x]
  PROVE  \A i \in 1 .. n - 1 : Entry(i)' = Entry(i) /\ ClosedReads(i)'
<1> SUFFICES ASSUME NEW i \in 1 .. n - 1 PROVE Entry(i)' = Entry(i) /\ ClosedReads(i)'
  OBVIOUS
<1>1. i \in 1 .. Len(menu) /\ i # log /\ i # log' /\ menu'[i] = menu[i]
  OBVIOUS
<1>2. EndOf(i)' = EndOf(i)
  BY DEF EndOf
<1>3. \A x \in Addr : x < EndOf(i) => mem'[x] = mem[x]
  <2>1. EndOf(i) \in Nat /\ load \in Nat /\ EndOf(i) <= load
    BY <1>1, Extents, AddrPlace
  <2>2. QED
    BY <2>1, AddrPlace
<1>4. QED
  BY <1>1, <1>2, <1>3, ClosedKept

LEMMA LastReplaced ==
  ASSUME LogInv, NEW n \in Nat, n = Len(menu), n # 0, menu' = menu,
         \A i \in 1 .. n - 1 : Entry(i)' = Entry(i)
  PROVE  store' = [store EXCEPT ![Len(store)] = Entry(n)'] /\ store[Len(store)] = Entry(n)
<1>1. /\ store = [i \in 1 .. n |-> store[i]] /\ \A i \in 1 .. n : store[i] = Entry(i)
      /\ Len(store) = n
  BY StoreLength
<1>2. store' = [i \in 1 .. n |-> Entry(i)']
  BY StoreIs DEF store, Entry
<1>3. store' = [i \in 1 .. n |-> store'[i]] /\ \A i \in 1 .. n : store'[i] = Entry(i)'
  BY <1>2
<1>4. n \in 1 .. n /\ \A i \in 1 .. n - 1 : i \in 1 .. n
  OBVIOUS
<1>5. \A i \in 1 .. n - 1 : store'[i] = store[i]
  BY <1>1, <1>3, <1>4
<1>6. store' = [store EXCEPT ![n] = store'[n]]
  BY <1>1, <1>3, <1>5, Replaced
<1>7. QED
  BY <1>1, <1>3, <1>4, <1>6

LEMMA OpenEntry ==
  ASSUME LogInv, ReadsInv, log # 0
  PROVE  \E ts \in Seq(Texts) :
           /\ Strung(mem, menu[log], load, ts) /\ menu[log] \in Addr
           /\ Entry(log) = [lines |-> ts, state |-> "open"]
<1>1. PICK ts \in Seq(Texts) : Strung(mem, menu[log], load, ts)
  BY DEF ReadsInv, OpenReads
<1>2. log \in 1 .. Len(menu)
  BY DEF LogInv, OpenInv, TypeOK
<1>3. menu[log] \in Addr /\ load \in Addr
  BY <1>2, Extents
<1>4. Shown(mem, menu[log], load) = ts
  BY <1>1, <1>3, OpenRead
<1>5. QED
  BY <1>1, <1>3, <1>4, EntryIs

LEMMA PrintPromise ==
  ASSUME LogInv, LogInv', ReadsInv, NEW text \in Texts, lprintf(text)
  PROVE  ReadsInv' /\ (Promise!Record(text) \/ UNCHANGED store)
<1>1. menu' = menu /\ log' = log /\ active > 0
  BY DEF lprintf
<1>2. CASE Fits(text)
  <2>1. PICK n \in Nat : n = Len(menu)
    BY DEF LogInv, TypeOK
  <2>2. log = n /\ n # 0
    BY <1>1, <2>1 DEF LogInv, OpenInv
  <2>3. text \in Seq(Chars) /\ Store(text) /\ load' \in Addr /\ load \in Addr
    BY <1>2, LogFilesAssumption DEF lprintf, LogInv, TypeOK
  <2>4. /\ Holds(mem', load, text)
        /\ load' = load + Size(text) /\ load < load' /\ load \in Nat
        /\ \A x \in Addr : x < load => mem'[x] = mem[x]
    BY <2>3, Stored
  <2>5. PICK ts \in Seq(Texts) : /\ Strung(mem, menu[n], load, ts) /\ menu[n] \in Addr
                                 /\ Entry(n) = [lines |-> ts, state |-> "open"]
    BY <2>2, OpenEntry
  <2>6. ts \in Seq(Seq(Chars)) /\ Append(ts, text) \in Seq(Texts)
    BY TextSeqs
  <2>7. Strung(mem', menu[n], load', Append(ts, text))
    <3>1. menu[n] \in Int /\ \A x \in menu[n] .. load - 1 : x \in Addr /\ x < load
      BY <2>3, <2>4, <2>5, AddrBounds
    <3>2. Strung(mem', menu[n], load, ts)
      BY <2>4, <2>5, <2>6, <3>1, StrungKept
    <3>3. QED
      BY <2>3, <2>4, <2>6, <3>1, <3>2, StringAppended
  <2>8. Entry(n)' = [lines |-> Append(ts, text), state |-> "open"]
    <3>1. Shown(mem', menu[n], load') = Append(ts, text)
      BY <2>3, <2>5, <2>6, <2>7, OpenRead
    <3>2. QED
      BY <1>1, <2>2, <3>1 DEF Entry, StateOf
  <2>9. \A i \in 1 .. n - 1 : Entry(i)' = Entry(i) /\ ClosedReads(i)'
    BY <1>1, <2>1, <2>2, <2>4, OthersKept
  <2>10. store' = [store EXCEPT ![Len(store)].lines = Append(@, text)]
    <3>1. store' = [store EXCEPT ![Len(store)] = Entry(n)'] /\ store[Len(store)] = Entry(n)
      BY <1>1, <2>1, <2>2, <2>9, LastReplaced
    <3>2. Entry(n)' = [Entry(n) EXCEPT !.lines = Append(@, text)]
      <4> DEFINE us == Append(ts, text)
      <4>1. [[lines |-> ts, state |-> "open"] EXCEPT !.lines = us] = [lines |-> us, state |-> "open"]
        <5> HIDE DEF us
        <5>1. QED
          OBVIOUS
      <4>2. Entry(n).lines = ts
        BY <2>5
      <4>3. QED
        BY <2>5, <2>8, <4>1, <4>2, Zenon
    <3>3. QED
      BY <3>1, <3>2
  <2>11. Promise!Record(text)
    BY <2>2, <2>10, StoreOpen DEF Promise!Record, Promise!Last
  <2>12. OpenReads'
    <3>1. load' <= Limit
      BY <1>2, <2>3, <2>4, Numbers, AddrBounds DEF Fits
    <3>2. QED
      BY <1>1, <2>2, <2>6, <2>7, <3>1 DEF OpenReads
  <2>13. \A i \in 1 .. Len(menu') : i # log' => ClosedReads(i)'
    BY <1>1, <2>1, <2>2, <2>9
  <2>14. QED
    BY <2>11, <2>12, <2>13 DEF ReadsInv
<1>3. CASE ~Fits(text)
  BY <1>1, <1>3, SameLogs DEF lprintf
<1>4. QED
  BY <1>2, <1>3

LEMMA EndPromise ==
  ASSUME LogInv, LogInv', ReadsInv, EndRun
  PROVE  ReadsInv' /\ (Promise!Close \/ Promise!Lose \/ UNCHANGED store)
<1>1. menu' = menu /\ log' = 0
  BY DEF EndRun
<1>2. CASE log # 0 /\ fileio_close
  <2>1. PICK n \in Nat : n = Len(menu)
    BY DEF LogInv, TypeOK
  <2>2. log = n /\ n # 0
    BY <1>2, <2>1 DEF LogInv, OpenInv
  <2>3. EofText \in Seq(Chars) /\ Store(EofText) /\ load' \in Addr /\ load \in Addr
    BY <1>2, LogFilesAssumption DEF fileio_close, LogInv, TypeOK
  <2>4. /\ Holds(mem', load, EofText)
        /\ load' = load + Terminator /\ load < load' /\ load \in Nat
        /\ \A x \in Addr : x < load => mem'[x] = mem[x]
    BY <2>3, Stored DEF Terminator
  <2>5. PICK ts \in Seq(Texts) : /\ Strung(mem, menu[n], load, ts) /\ menu[n] \in Addr
                                 /\ Entry(n) = [lines |-> ts, state |-> "open"]
    BY <2>2, OpenEntry
  <2>6. ts \in Seq(Seq(Chars))
    BY TextSeqs
  <2>7. Strung(mem', menu[n], load' - Terminator, ts) /\ Holds(mem', load' - Terminator, EofText)
    <3>1. menu[n] \in Int /\ \A x \in menu[n] .. load - 1 : x \in Addr /\ x < load
      BY <2>3, <2>4, <2>5, AddrBounds
    <3>2. Strung(mem', menu[n], load, ts)
      BY <2>4, <2>5, <2>6, <3>1, StrungKept
    <3>3. load' - Terminator = load
      BY <2>4, Numbers
    <3>4. QED
      BY <2>4, <3>2, <3>3
  <2>8. EndOf(n)' = load' /\ menu'[n] = menu[n]
    BY <1>1, <2>1 DEF EndOf
  <2>9. Entry(n)' = IF load' > Limit THEN [lines |-> <<>>, state |-> "lost"]
                    ELSE [lines |-> ts, state |-> "closed"]
    <3>1. Shown(mem', menu[n], -1) = ts
      BY <2>3, <2>5, <2>7, ClosedRead
    <3>2. CASE load' > Limit
      BY <1>1, <2>2, <2>8, <3>2 DEF Entry, StateOf
    <3>3. CASE ~(load' > Limit)
      BY <1>1, <2>2, <2>8, <3>1, <3>3 DEF Entry, StateOf
    <3>4. QED
      BY <3>2, <3>3
  <2>10. \A i \in 1 .. n - 1 : Entry(i)' = Entry(i) /\ ClosedReads(i)'
    BY <1>1, <2>1, <2>2, <2>4, OthersKept
  <2>11. store' = [store EXCEPT ![Len(store)] = Entry(n)'] /\ store[Len(store)] = Entry(n)
    BY <1>1, <2>1, <2>2, <2>10, LastReplaced
  <2>12. Promise!Close \/ Promise!Lose
    <3>1. Promise!Open
      BY <2>2, StoreOpen
    <3>2. CASE load' > Limit
      BY <2>9, <2>11, <3>1, <3>2 DEF Promise!Lose, Promise!Last
    <3>3. CASE ~(load' > Limit)
      <4>1. Entry(n)' = [Entry(n) EXCEPT !.state = "closed"]
        BY <2>5, <2>9, <3>3
      <4>2. store' = [store EXCEPT ![Len(store)].state = "closed"]
        BY <2>11, <4>1
      <4>3. QED
        BY <3>1, <4>2 DEF Promise!Close, Promise!Last
    <3>4. QED
      BY <3>2, <3>3
  <2>13. ClosedReads(n)'
    BY <2>7, <2>8 DEF ClosedReads
  <2>14. \A i \in 1 .. Len(menu') : ClosedReads(i)'
    <3>1. \A i \in 1 .. n : i = n \/ i \in 1 .. n - 1
      OBVIOUS
    <3>2. QED
      BY <1>1, <2>1, <2>10, <2>13, <3>1
  <2>15. QED
    BY <1>1, <2>12, <2>14 DEF ReadsInv, OpenReads
<1>3. CASE log = 0 /\ UNCHANGED << mem, load, active, written >>
  BY <1>1, <1>3, SameLogs
<1>4. QED
  BY <1>2, <1>3 DEF EndRun

LEMMA ClearPromise ==
  ASSUME LogInv, LogInv', ReadsInv, menu_del_appl
  PROVE  ReadsInv' /\ Promise!Clear
<1>1. menu' = <<>> /\ log' = 0 /\ log = 0
  BY DEF menu_del_appl, NoItems, LogInv, OpenInv
<1>2. store' = <<>>
  BY <1>1 DEF store
<1>3. Promise!Clear
  BY <1>1, <1>2, StoreOpen DEF Promise!Clear
<1>4. ReadsInv'
  BY <1>1 DEF ReadsInv, OpenReads
<1>5. QED
  BY <1>3, <1>4

LEMMA ScribblePromise ==
  ASSUME LogInv, LogInv', ReadsInv, NEW pattern \in Byte, TestRam(pattern)
  PROVE  ReadsInv' /\ UNCHANGED store
<1>1. menu' = menu /\ log' = log /\ load' = load
  BY DEF TestRam
<1>2. PICK n \in Nat : n = Len(menu)
  BY DEF LogInv, TypeOK
<1>3. \A x \in Addr : x < Limit => mem'[x] = mem[x]
  BY Numbers, AddrBounds DEF TestRam
<1>4. ASSUME NEW i \in 1 .. n, i # log
      PROVE  Entry(i)' = Entry(i) /\ ClosedReads(i)'
  <2>1. EndOf(i)' = EndOf(i) /\ i \in 1 .. Len(menu) /\ menu'[i] = menu[i] /\ i # log'
    BY <1>1, <1>2, <1>4 DEF EndOf
  <2>2. EndOf(i) <= Limit => \A x \in Addr : x < EndOf(i) => mem'[x] = mem[x]
    <3>1. EndOf(i) \in Int
      BY <2>1, Extents, AddrPlace
    <3>2. QED
      BY <1>3, <3>1, Numbers, AddrBounds
  <2>3. QED
    BY <1>4, <2>1, <2>2, ClosedKept
<1>5. ASSUME log # 0 PROVE Entry(log)' = Entry(log) /\ OpenReads'
  <2>1. PICK ts \in Seq(Texts) : /\ Strung(mem, menu[log], load, ts) /\ menu[log] \in Addr
                                 /\ Entry(log) = [lines |-> ts, state |-> "open"]
    BY <1>5, OpenEntry
  <2>2. load \in Addr /\ load \in Int /\ load \in Place /\ menu[log] \in Int
    BY <2>1, AddrPlace DEF LogInv, TypeOK
  <2>3. Strung(mem', menu[log], load, ts)
    <3>1. CASE menu[log] = load
      <4>1. \A x \in menu[log] .. load - 1 : mem'[x] = mem[x]
        BY <2>2, <3>1
      <4>2. QED
        BY <2>1, <2>2, <4>1, StrungKept, TextSeqs
    <3>2. CASE load <= Limit
      <4>1. \A x \in menu[log] .. load - 1 : mem'[x] = mem[x]
        BY <1>3, <2>1, <2>2, <3>2, Numbers, AddrBounds
      <4>2. QED
        BY <2>1, <2>2, <4>1, StrungKept, TextSeqs
    <3>3. QED
      BY <1>5, <3>1, <3>2 DEF ReadsInv, OpenReads
  <2>4. Shown(mem', menu[log], load) = ts
    BY <2>1, <2>2, <2>3, OpenRead
  <2>5. Entry(log)' = [lines |-> ts, state |-> "open"]
    BY <1>1, <2>4 DEF Entry, StateOf
  <2>6. OpenReads'
    BY <1>1, <1>5, <2>3 DEF ReadsInv, OpenReads
  <2>7. QED
    BY <2>1, <2>5, <2>6
<1>6. \A i \in 1 .. n : Entry(i)' = Entry(i)
  BY <1>4, <1>5, <1>1
<1>7. UNCHANGED store
  <2>1. store' = [i \in 1 .. n |-> Entry(i)'] /\ store = [i \in 1 .. n |-> Entry(i)]
    BY <1>1, <1>2, StoreIs DEF store, Entry
  <2>2. QED
    BY <1>6, <2>1
<1>8. OpenReads'
  BY <1>1, <1>5 DEF OpenReads
<1>9. \A i \in 1 .. Len(menu') : i # log' => ClosedReads(i)'
  BY <1>1, <1>2, <1>4
<1>10. QED
  BY <1>7, <1>8, <1>9 DEF ReadsInv

LEMMA InitPromise == Init => ReadsInv /\ Promise!Init
<1> SUFFICES ASSUME Init PROVE ReadsInv /\ Promise!Init
  OBVIOUS
<1>1. menu = <<>> /\ log = 0
  BY DEF Init
<1>2. store = <<>>
  BY <1>1 DEF store
<1>3. QED
  BY <1>1, <1>2 DEF ReadsInv, OpenReads, Promise!Init

LEMMA StepPromise ==
  LogInv /\ LogInv' /\ ReadsInv /\ [Next]_vars => ReadsInv' /\ [Promise!Next]_store
<1> SUFFICES ASSUME LogInv, LogInv', ReadsInv, [Next]_vars
             PROVE  ReadsInv' /\ [Promise!Next]_store
  OBVIOUS
<1>1. ASSUME NEW logged \in BOOLEAN, StartRun(logged)
      PROVE  ReadsInv' /\ [Promise!Next]_store
  BY <1>1, StartPromise DEF Promise!Next
<1>2. ASSUME NEW text \in Texts, lprintf(text)
      PROVE  ReadsInv' /\ [Promise!Next]_store
  BY <1>2, PrintPromise DEF Promise!Next
<1>3. CASE EndRun
  BY <1>3, EndPromise DEF Promise!Next
<1>4. CASE menu_del_appl
  BY <1>4, ClearPromise DEF Promise!Next
<1>5. ASSUME NEW pattern \in Byte, TestRam(pattern)
      PROVE  ReadsInv' /\ [Promise!Next]_store
  BY <1>5, ScribblePromise
<1>6. CASE UNCHANGED vars
  BY <1>6, SameLogs DEF vars
<1>7. QED
  BY <1>1, <1>2, <1>3, <1>4, <1>5, <1>6 DEF Next

(* For areas, strings and menus of any size the log files keep the promise *)
(* of LogStore: what the operator reads of a closed log that lies inside   *)
(* the area is, string by string, what its run printed, whatever later     *)
(* runs log, lose and overwrite.                                           *)
THEOREM LogsKeepTheirPromise == Spec => ImplementsStore
<1>1. Init => ReadsInv /\ Promise!Init
  BY InitPromise
<1>2. LogInv /\ LogInv' /\ ReadsInv /\ [Next]_vars => ReadsInv' /\ [Promise!Next]_store
  BY StepPromise
<1>3. QED
  BY <1>1, <1>2, LogInvariant, PTL DEF Spec, ImplementsStore, Promise!Spec
=============================================================================
