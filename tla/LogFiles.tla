------------------------------ MODULE LogFiles ------------------------------
(***************************************************************************)
(* The log files of IDS (lib_ids/fileio.c): fileio_create, lprintf,        *)
(* fileio_close and the CLEAR LOGS item, with the log area in memory byte  *)
(* by byte. The area ends where the scratch RAM begins that the RAM tests  *)
(* of a run overwrite (GET_RAM(MEMORY)), so a log that runs over the end   *)
(* of the area is written into memory that is not its own.                 *)
(*                                                                         *)
(* A log has no header: the log menu keeps the address where it starts and *)
(* its end is the string "end-of-file" that fileio_close puts behind the   *)
(* strings of the run. The operator views a log by walking these strings.  *)
(***************************************************************************)
EXTENDS Integers, Sequences

CONSTANTS
  Base,     \* log_dir.base_addr, GET_RAM(LOGFILES)
  Limit,    \* log_dir.limit_addr, GET_RAM(MEMORY)
  Chars,    \* the bytes of a string
  Texts,    \* the strings a run may print
  EofText,  \* "end-of-file"
  MaxLogs   \* items in log_menu

Nul == "nul"

ASSUME LogFilesAssumption ==
  /\ Base \in Nat /\ Limit \in Nat /\ Base < Limit
  /\ Nul \notin Chars
  /\ Texts \subseteq Seq(Chars)
  /\ EofText \in Seq(Chars) /\ EofText # <<>> /\ EofText \notin Texts
  /\ MaxLogs \in Nat

VARIABLES
  mem,      \* the log area and the scratch RAM behind it
  load,     \* log_dir.load_addr
  menu,     \* log_menu: where each log starts
  active,   \* fileio_log_active
  running,  \* test_go_appl is between its start and its end
  log,      \* its local log, 0 for -1
  (* History, read by the properties only. *)
  written   \* the strings stored for the logs of the menu

vars == << mem, load, menu, active, running, log, written >>

Size(text) == Len(text) + 1               \* with the '\0'

(* The bytes a run can reach: each log is closed once.                     *)
Top == Limit + Size(EofText) * MaxLogs
Addr == Base .. Top
Byte == Chars \union {Nul}

TypeOK ==
  /\ mem \in [Addr -> Byte]
  /\ load \in Addr
  /\ menu \in Seq(Addr) /\ Len(menu) <= MaxLogs
  /\ active \in {0, 1}
  /\ running \in BOOLEAN
  /\ log \in 0 .. MaxLogs
  /\ written \subseteq [log : 1 .. MaxLogs, at : Addr,
                        text : Texts \union {EofText}]

Init ==
  /\ mem \in { [a \in Addr |-> c] : c \in Byte }    \* never initialised
  /\ load = Base
  /\ menu = <<>>
  /\ active = 0
  /\ running = FALSE /\ log = 0
  /\ written = {}

(* memcpy or sprintf of a text to the load address, and the '\0' after it. *)
NulLeftOut(text, a) == mem[a]                      \* mutant
ByteAfter(text, a) == IF a = load + Len(text) THEN Nul ELSE mem[a]

NulOverwritten(text) == load + Len(text)           \* mutant
Behind(text) == load + Size(text)

Store(text) ==
  /\ mem' = [a \in Addr |->
               IF a \in load .. load + Len(text) - 1 THEN text[a - load + 1]
               ELSE ByteAfter(text, a)]
  /\ load' = Behind(text)

-----------------------------------------------------------------------------
(* test_go_appl opens a log in the modes that log, if the menu has room.   *)
fileio_create(logged) ==
  IF logged /\ Len(menu) < MaxLogs
    THEN /\ menu' = Append(menu, load)
         /\ log' = Len(menu) + 1
         /\ active' = active + 1
    ELSE log' = 0 /\ UNCHANGED << menu, active >>

StartRun(logged) ==
  /\ ~running
  /\ running' = TRUE
  /\ fileio_create(logged)
  /\ UNCHANGED << mem, load, written >>

(* A string is stored if the byte after its '\0' is inside the area still. *)
FitsExactly(text) == ~(load + Size(text) > Limit)  \* mutant
Fits(text) == ~(load + Size(text) >= Limit)

lprintf(text) ==
  /\ active > 0
  /\ IF Fits(text)
       THEN /\ Store(text)
            /\ written' = written \union
                 {[log |-> Len(menu), at |-> load, text |-> text]}
       ELSE UNCHANGED << mem, load, written >>
  /\ UNCHANGED << menu, active, running, log >>

(* The terminator is stored wherever the last string ended.                *)
StillActive == active                              \* mutant
Inactive == 0

fileio_close ==
  /\ log \in 1 .. Len(menu)
  /\ Store(EofText)
  /\ written' = written \union {[log |-> log, at |-> load, text |-> EofText]}
  /\ active' = Inactive

EndRun ==
  /\ running
  /\ running' = FALSE /\ log' = 0
  /\ \/ log # 0 /\ fileio_close
     \/ log = 0 /\ UNCHANGED << mem, load, active, written >>
  /\ UNCHANGED menu

(* CLEAR LOGS, in the execution menu only: it leaves the memory as it is.  *)
MenuKept == menu                                   \* mutant
NoItems == <<>>

menu_del_appl ==
  /\ ~running
  /\ menu' = NoItems
  /\ load' = Base
  /\ written' = {}
  /\ UNCHANGED << mem, active, running, log >>

(* A RAM test of the run fills the scratch RAM with a pattern.             *)
TestRam(pattern) ==
  /\ running
  /\ mem' = [a \in Addr |-> IF a >= Limit THEN pattern ELSE mem[a]]
  /\ UNCHANGED << load, menu, active, running, log, written >>

Next ==
  \/ \E logged \in BOOLEAN : StartRun(logged)
  \/ \E text \in Texts : lprintf(text)
  \/ EndRun
  \/ menu_del_appl
  \/ \E pattern \in Byte : TestRam(pattern)

Spec == Init /\ [][Next]_vars

-----------------------------------------------------------------------------
(* What the operator sees: the walk of menu_show_appl from one string to   *)
(* the next. It ends at "end-of-file" (or, for a log that is not closed,   *)
(* at the load address) or runs out of the memory of the model.            *)
NulFrom(m, a) == { b \in a .. Top : m[b] = Nul }
Strlen(m, a) == (CHOOSE b \in NulFrom(m, a) : \A c \in NulFrom(m, a) : b <= c) - a
TextAt(m, a) == [k \in 1 .. Strlen(m, a) |-> m[a + k - 1]]

Shown(m, from, to) ==
  LET walk[a \in Base .. Top + 1] ==
        IF a = to \/ NulFrom(m, a) = {} THEN <<>>
        ELSE IF TextAt(m, a) = EofText THEN <<>>
        ELSE <<TextAt(m, a)>> \o walk[a + Strlen(m, a) + 1]
  IN  walk[from]

(* Where log i ends: what menu_show computes its SIZE from.                *)
EndOf(i) == IF i = Len(menu) THEN load ELSE menu[i + 1]

StateOf(i) ==
  IF i = log THEN "open" ELSE IF EndOf(i) > Limit THEN "lost" ELSE "closed"

store ==
  [i \in 1 .. Len(menu) |->
    [lines |-> CASE StateOf(i) = "open"   -> Shown(mem, menu[i], load)
                 [] StateOf(i) = "closed" -> Shown(mem, menu[i], -1)
                 [] StateOf(i) = "lost"   -> <<>>,
     state |-> StateOf(i)]]

Promise == INSTANCE LogStore
  WITH store <- store, Texts <- Texts, MaxLogs <- MaxLogs

-----------------------------------------------------------------------------
(* Whatever the later runs print, close and clear and whatever their RAM   *)
(* tests overwrite, a log that lies inside the log area reads as the run   *)
(* printed it (the comment of fileio.c:523-527).                           *)
ImplementsStore == Promise!Spec

(* Every string stored for a log of the menu is still in memory, unless it *)
(* reaches into the scratch RAM (fileio.c:505-510, 538-543).               *)
RecordKept ==
  \A w \in written :
    w.at + Size(w.text) <= Limit =>
      /\ \A k \in 1 .. Len(w.text) : mem[w.at + k - 1] = w.text[k]
      /\ mem[w.at + Len(w.text)] = Nul

(* The strings of a log lie between its start and the start of the next    *)
(* log, so that the SIZE shown for it (menu.c:177-180) counts them all and *)
(* nothing else.                                                           *)
OwnExtent ==
  \A w \in written :
    /\ w.log \in 1 .. Len(menu)
    /\ menu[w.log] <= w.at
    /\ w.at + Size(w.text) <= EndOf(w.log)

(* lprintf never crosses the end of the area; each close may, by no more   *)
(* than one terminator (fileio.c:505, 538-543).                            *)
OverrunBounded ==
  load < Limit + Size(EofText) * (Len(menu) - active)

=============================================================================
