---------------------------- MODULE TlsDownload ----------------------------
(***************************************************************************)
(* The download of test lists (lib_ids/fileio.c): fileio_init, and the     *)
(* loop of fileio_tftp over the items of a file manager menu. The lists    *)
(* lie one behind the other in memory and nothing but their number is      *)
(* kept: where the next one goes is found by walking over the sizes in     *)
(* their headers, which the transfer has overwritten.                      *)
(***************************************************************************)
EXTENDS ListFiles

CONSTANTS
  Managers,   \* the file manager menus
  Items,      \* of each, its items from RUN on: names of files
  Contents,   \* the files of the server, by name: the tests of each list
  Image,      \* and their cells
  MaxLists,   \* 15
  Bases,      \* addresses the RAM LAYOUT menu may give for TLS FILES
  Top,        \* the last address of the model
  MaxGo       \* downloads of a behaviour, a bound of the model

File == DOMAIN Contents

Unused == [kind |-> "unused"]    \* memory no header was ever stored in

Test == [name : STRING, parms : Seq(STRING), size : Nat \ {0},
         pass : STRING, fail : STRING]

ASSUME TlsDownloadAssumption ==
  /\ \A f \in File : Contents[f] \in Seq(Test)
  /\ Image = [f \in File |-> TlsFile(Contents[f])]
  /\ Items \in [Managers -> Seq(STRING)]
  /\ \A m \in Managers : Items[m] # <<>> /\ Len(Items[m]) <= MaxLists + 1   \* RUN and 15 more
  /\ MaxLists \in Nat \ {0} /\ Top \in Nat /\ MaxGo \in Nat
  /\ Bases \subseteq 1 .. Top /\ Bases # {}
  (* As many lists as the directory takes fit into the memory of the model.*)
  /\ \E size \in 0 .. Top : /\ \A f \in File : Len(Image[f]) <= size
                            /\ \A b \in Bases : b + MaxLists * size <= Top + 1

VARIABLES
  mem,      \* from TLS FILES up
  base,     \* base_addr of the directory entry
  load,     \* load_addr
  entries,  \* entries
  ram,      \* the static ram_load_addr
  (* fileio_tftp *)
  at,       \* "uboot", "menu" or "get"
  mgr,      \* file_mgr
  file,     \* file + 1
  auto,     \* the mode was autorun
  (* History of the last download, read by the properties only. *)
  whole,    \* no transfer failed and the operator refused nothing
  gone      \* downloads so far

directory == << mem, base, load, entries, ram >>
download == << directory, at, mgr, file, auto, whole, gone >>

DownloadInit ==
  /\ mem = [a \in 1 .. Top |-> Unused]
  /\ base = 0 /\ load = 0 /\ entries = 0 /\ ram = 0
  /\ at = "uboot"
  /\ mgr \in Managers /\ file = 1 /\ auto = FALSE
  /\ whole = FALSE /\ gone = 0

-----------------------------------------------------------------------------
(* What a header reads as, whatever lies there: strtol of no digits is 0.  *)
SizeAt(a) == IF mem[a].kind = "list" THEN mem[a].size ELSE 0
TestsAt(a) == IF mem[a].kind = "list" THEN mem[a].tests ELSE 0
TestAt(a) ==
  IF mem[a].kind = "test" THEN mem[a].test ELSE [name |-> "", parms |-> <<>>, size |-> 0]

(* next_tls, n times: by the sizes in the list headers.                    *)
next_tls == [a \in DOMAIN mem |-> a + SizeAt(a)]

Behind(n) ==
  LET walk[k \in 0 .. n] == IF k = 0 THEN base ELSE next_tls[walk[k - 1]]
  IN  walk[n]

(* fileio_init, at every start of IDS: the static ram_load_addr stays.     *)
fileio_init ==
  /\ at = "uboot"
  /\ base' \in Bases /\ load' = base' /\ entries' = 0
  /\ at' = "menu" /\ whole' = FALSE
  /\ UNCHANGED << mem, ram, mgr, file, auto, gone >>

Leave == at = "menu" /\ at' = "uboot" /\ UNCHANGED << directory, mgr, file, auto, whole, gone >>

(* GO of the TFTP menu for the file manager the menu was entered from.     *)
Go(m, isauto) ==
  /\ at = "menu" /\ gone < MaxGo
  /\ gone' = gone + 1
  /\ at' = "get" /\ mgr' = m /\ file' = 1 /\ auto' = isauto /\ whole' = TRUE
  /\ UNCHANGED directory

Item == Items[mgr][file]
InLoop == at = "get" /\ file <= Len(Items[mgr])

(* An item that names no list, among them RUN and default.tls.             *)
Skip ==
  /\ InLoop /\ Item \notin File
  /\ load' = base
  /\ file' = file + 1
  /\ UNCHANGED << mem, base, entries, ram, at, mgr, auto, whole, gone >>

Moved == base # ram       \* the load address is another one than last time

AtLimit == entries >= MaxLists
Full == InLoop /\ Item \in File /\ ~Moved /\ AtLimit

(* Autorun, or a y of the operator, clears the lists and starts over.      *)
SameFile == file                                   \* mutant
FirstFile == 1

NotEmptied == entries                              \* mutant
Emptied == 0

Clear ==
  /\ Full
  /\ load' = base /\ entries' = Emptied /\ file' = FirstFile
  /\ UNCHANGED << mem, base, ram, at, mgr, auto, whole, gone >>

Refuse ==
  /\ Full /\ ~auto
  /\ load' = base
  /\ at' = "menu" /\ whole' = FALSE
  /\ UNCHANGED << mem, base, entries, ram, mgr, file, auto, gone >>

Fetchable == InLoop /\ Item \in File /\ (Moved \/ ~AtLimit)
Loaded == IF Moved THEN 0 ELSE entries

(* The first n cells of a file arrive at address a. The header of a whole  *)
(* file gets the size of the transfer.                                     *)
Arrived(cells, n, a) ==
  [b \in DOMAIN mem |-> IF b - a \in 0 .. n - 1 THEN cells[b - a + 1] ELSE mem[b]]

SizeLeftAsWritten(f) == Image[f]                   \* mutant
Resized(f) == [Image[f] EXCEPT ![1].size = Len(Image[f])]

Rewound(a) == base

Fetch ==
  /\ Fetchable
  /\ \E a \in DOMAIN mem :
       /\ a = Behind(Loaded)
       /\ mem' = Arrived(Resized(Item), Len(Image[Item]), a)
       /\ load' = Rewound(a)
  /\ entries' = Loaded + 1 /\ ram' = base
  /\ file' = file + 1
  /\ UNCHANGED << base, at, mgr, auto, whole, gone >>

(* A transfer that fails may have stored the first part of the file. The   *)
(* load address stays where that file would have gone.                     *)
NotCounted == Loaded

FetchFails(n) ==
  /\ Fetchable
  /\ \E a \in DOMAIN mem :
       /\ a = Behind(Loaded)
       /\ mem' = Arrived(Image[Item], n, a)
       /\ load' = a
  /\ entries' = NotCounted /\ ram' = base
  /\ file' = file + 1 /\ whole' = FALSE
  /\ UNCHANGED << base, at, mgr, auto, gone >>

EndGo ==
  /\ at = "get" /\ file > Len(Items[mgr])
  /\ at' = "menu"
  /\ UNCHANGED << directory, mgr, file, auto, whole, gone >>

(* A transfer that fails stored nothing or the first cell (a bound).       *)
LoopStep ==
  Skip \/ Clear \/ Refuse \/ Fetch \/ (\E n \in {0, 1} : FetchFails(n)) \/ EndGo

DownloadNext ==
  \/ fileio_init \/ Leave
  \/ \E m \in Managers, isauto \in BOOLEAN : Go(m, isauto)
  \/ LoopStep

-----------------------------------------------------------------------------
(* The lists a walk finds that goes over the tests of each list by their   *)
(* own sizes, as the menu builder does: n lists from address a on.         *)
BehindTest == [a \in DOMAIN mem |-> a + TestAt(a).size]

TestAddr(list, i) ==
  LET walk[k \in 1 .. i] == IF k = 1 THEN list + 1 ELSE BehindTest[walk[k - 1]]
  IN  walk[i]

BehindList == [a \in DOMAIN mem |-> TestAddr(a, TestsAt(a) + 1)]

ListAddr(from, n) ==
  LET walk[k \in 1 .. n] == IF k = 1 THEN from ELSE BehindList[walk[k - 1]]
  IN  walk[n]

ListAt == [a \in DOMAIN mem |->
             [i \in 1 .. TestsAt(a) |-> TestAt(TestAddr(a, i))]]

ListsFrom(from, n) == [k \in 1 .. n |-> ListAt[ListAddr(from, k)]]

Directory ==
  INSTANCE ListDirectory WITH
    Lists <- { Contents[f] : f \in File },
    lists <- ListsFrom(base, entries),
    up    <- at # "uboot"

(* Whatever is downloaded, fails or is refused, the lists in memory are    *)
(* those that were loaded, in order, found by walking over the tests of    *)
(* each, although what the download walks over is a size that mklist did   *)
(* not write (fileio.c:331, mklist.c:210).                                 *)
ImplementsDirectory == Directory!Spec

ListsOf(item) == IF item \in File THEN <<Contents[item]>> ELSE <<>>

Wanted(m) == FoldLeft(LAMBDA lists, item : lists \o ListsOf(item), <<>>, Items[m])

(* What a download leaves: if nothing went wrong with it, the files of its *)
(* manager are the last lists loaded, however many others were loaded      *)
(* before and whenever the directory was cleared on the way; and load_addr,*)
(* which the menu builder takes for the start of the lists (builder.c:107),*)
(* is somewhere else only after a transfer failed for the very last item   *)
(* (fileio.c:259, 269-287, 317-325, 337).                                  *)
DownloadComplete ==
  at = "menu" =>
    /\ whole =>
         LET lists == ListsFrom(base, entries)
             n == Len(Wanted(mgr))
         IN  /\ n <= Len(lists)
             /\ SubSeq(lists, Len(lists) - n + 1, Len(lists)) = Wanted(mgr)
    /\ load # base => ~whole /\ Items[mgr][Len(Items[mgr])] \in File

(* A download comes to an end, restarts at the first file included         *)
(* (fileio.c:285-287): LoopStep goes on whenever it can.                   *)
DownloadEnds == (at = "get") ~> (at = "menu")

=============================================================================
