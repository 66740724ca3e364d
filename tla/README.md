# A verification development for IDS, the Integrated Diagnostics Subsystem

IDS is a diagnostics shell that runs inside U-Boot. From its menus an operator
downloads *test lists* (`.tls` files, each a sequence of small ELF programs with
a header), runs the master list, one list or one test in cycles, decides with
*pass* and *fail policies* how the run goes on, interrupts it with ^C and reads
the *logs* of the runs. Everything is one thread driven from the serial console.
What makes it hard is not parallelism but control: which test runs next depends
on results and policies nobody enumerated, state is kept in static variables and
raw memory that several parts share without headers or bounds, and calls nest
(tests call back into the shell, a state machine dispatches from inside a
dispatch).

File names below are relative to `src/`; `exec.c`, `fileio.c`, ... are in
`lib_ids/`.

## 1. Inventory

| component | source | state | operations | what makes it correct |
|---|---|---|---|---|
| Execution engine | `exec.c` | the run: cycle, latched error, loop index, last index, spin, retry, loop count; policies in the test headers | RUN/GO, cycle loop, list loop, policies, ^C | the verdict tells what happened: failures that end a list are reported, ABORT only for an operator, PASS only for something run, ^C obeyed, retries bounded per test, the loop ends or can be ended |
| Log files | `fileio.c`, `idsfs.h` | `log_dir` (base, load, limit), `log_menu`, `fileio_log_active`, the log area | create, `lprintf`, close, show, clear | a log reads as its run printed it; logs do not overlap or grow into other memory |
| Mailbox | `mailbox.c`, `ram_callback` of the RAM tests | `mb_callback`, `ack`, the C stack of calls between IDS and a test | start, dispatch of ten requests, suspend | a request returns to the test, END closes the session on both sides, what is printed meanwhile is in the log |
| Test list download | `fileio.c` | `dir_tbl[TLSFILES]`, static `ram_load_addr`, the lists in memory | `fileio_tftp`, restart at 15 lists | the directory and the lists in memory agree; base address valid after a failed transfer |
| Menu builder | `builder.c` | menu pool, `list_menu`, static `ids_svc` | build, allocate, insert RUN, edit of a service | menus mirror the headers, nothing left over from an earlier build |
| Menu interface | `menu.c`, `menutab.c` | the C stack of menu loops, `this_menu`, `ids_mode`, the menu of the method and its file manager | `ui`, hot keys, items, autorun | nesting stays bounded, the mode is restored, registers are refreshed under their own menu, a download goes through the manager it was asked of |
| Startup, vectors | `main.c`, `ids_jmpvec.c`, `cmd_ids.c` | jump vector, initialised flags | start, quit, restart | a restart starts clean |
| Hardware table | `hw/idshw.c` | table of device pointers, links | create, load, terminate, attach, detach, look up, launch | a slot means one live device, no duplicates, no dangling links |
| Hardware state machine | `hw/idssm.c`, `idssm.h`, `hw/idshw_i2c.c` | state, last event, static `active`, jump buffer | raw event, `sm_run`, watchdog | commands settle the machine, startup reaches READY, faults stick |
| Pattern generator | `patgen.c`, `test_api.h` | none | patgen, modgen, spatgen | width-exact words, sequences end |
| RAM and register tests | `board/anacazids/ram`, `lib/reg-*.c`, `ids_sa/ram/ram.c` | the memory under test | fill, walk, verify | a stuck, shorted or aliased bit is found, good memory passes, accesses stay in the region, loops end |
| Host tools | `tools/ids` | files | build headers | headers are what download and builder read |
| Commands, memory tools, ELF loader, clock, RGB bus, display helpers, stand-alone C library, board headers | `cmd.c`, `memtools.c`, `fileio.c:578-750`, `exec.c:730-758`, `idshw_rgb.c`, ... | | | not modelled, see section 7 |

How they interact: the *menu interface* calls the *engine* through the RUN item
the *builder* puts into every menu; the engine loads tests with the *ELF loader*
and prints through `lprintf` into the *log files*; tests call back through the
*jump vectors* and the *mailbox*, and overwrite the scratch RAM that begins
where the log area ends (`GET_RAM(MEMORY)` is both the limit of the logs and the
memory given to the RAM tests); a test that suspends itself gives the operator
the log menu while its own log is open; the builder starts from the address the
*download* leaves; the handler of RUN in the *state machine* launches a driver
of the *hardware table*. Nothing in the core calls the state machine yet; its
only caller is the `LINUX` test program at the end of `idshw_i2c.c`.

`PROJECT.json` lists the hazards line by line, each with the properties that
watch it or the reason why none does.

## 2. Modules

| module | models | uses |
|---|---|---|
| `TestExec` | the engine | |
| `LogStore` | what the logs promise (abstract) | |
| `LogFiles` | the log area byte by byte, implements `LogStore` | `LogStore` |
| `Mailbox` | calls between IDS and a test | |
| `Sessions` | a run with a log and a mailbox session; restarts of IDS | `LogFiles`, `Mailbox` |
| `ListFiles` | the files `mktest` and `mklist` write | |
| `ListDirectory` | what the download promises (abstract) | |
| `TlsDownload` | `fileio_init`, `fileio_tftp`, implements `ListDirectory` | `ListFiles`, `ListDirectory` |
| `MenuBuilder` | the menus built from what the download left | `TlsDownload` |
| `MenuTab` | the compiled-in menus | |
| `MenuShell` | the menu loops, keys and applications | `MenuTab` |
| `IdsSm` | the I2C state machine | |
| `HwTable` | the device table | |
| `Devices` | the machine whose commands are launched from the table | `IdsSm`, `HwTable` |
| `Patgen` | the pattern generator | |
| `RamTests` | the RAM and register test programs on a faulty memory | `Patgen` |
| `TestExecProofs`, `LogFilesProofs`, `SessionsProofs`, `IdsSmProofs`, `DevicesProofs`, `MenuShellProofs`, `RamTestsProofs` | the theorems | each the module it is named after |
| `TlsDownloadProofs` | the theorems about the download | `MenuBuilder`, whose steps include its own |
| `MC...` | the instances | |

What is left to do, in this order: the composition of `TestExec` with `Sessions`
(the log of a run lists the tests in the order the engine ran them); the clock.

## 3. Modules and the code

### TestExec (`exec.c`)

The engine is sequential code between choices made by others: a test passes or
fails, the operator confirms a ^C or not. An action is the code between two such
choices; `pc` names the place:

| pc | place in the code | actions |
|---|---|---|
| `idle` | between runs | `EditPass`, `EditFail` (menu.c:1121-1153), `Go` (`test_execution_appl`, `test_go_appl`) |
| `cycle` | top of `do_test_cycles_appl`'s loop | `BeginCycle` |
| `master` | loop over the lists, 317-334 | `NextList`, `EndMaster` |
| `list` | loop condition at 317 for a list or a test | `NextTest`, `LeaveList` |
| `exec` | `do_test_appl`, the test's own cycles | `Execute(ok)` |
| `policy` | from 358 on: the result is known | `ReturnSingle`, `Interrupt`, `KeepSpinning`, `Retry`, `Stop`, `Spin`, `Jump`, `Advance`, `Skip`, `Ignore`, `Pause`, `Back`, `CountLoop`, `Forgive` |
| `poll` | the poll at 507 | `Interrupt`, `NoInterrupt` |
| `cycled` | back in the cycle loop, 263-268 | `EndCycle(quit)` |
| `done` | back in `test_go_appl` | `Finish` |

`frame` holds the locals of the innermost `do_test_go_appl`; the outer one, over
the lists, has only `listno`, because its spin, retry and loop are never used. A
run of one test goes through the same loop: its menu's items are the test's
parameters, and the first of them being an `ITEM_PARM` makes the loop end after
one execution (358). If it is a register or a service it does not: the loop then
runs the same test once for each item, under its policies. Item 0 of a list menu
is RUN, whose `ids` header is that of the first test; the policy "1" jumps
there. All this is in `Current`, `RunItem` and `SingleTest`.

Policies are words; what follows a "=" or the number of a jump is `arg`. Abort,
stop and halt stay distinct words, in one guard. What the model leaves out: the
pass and fail counters and the text of the result line (no decision reads them),
time, the argument vector of a test, and the unreachable mode "bringup".

History variables, read by properties only: `quits` (where a ^C was confirmed),
`struck` (a failing test's policy ended its list), `ran`, `tries`.

### LogStore and LogFiles (`fileio.c`)

`LogStore` is what a log promises: one open log at a time, `Record` appends a
string, `Close` freezes it, `Clear` drops all of them, `Lose` admits that a log
which outgrew the area is gone. `LogFiles` has the bytes: `mem` (the log area
and the memory behind it, never initialised), the load address, the menu of
start addresses and `fileio_log_active`. Its actions are the functions of the
source under their names, inside `StartRun`/`EndRun`, the part of
`test_go_appl` that opens and closes the log. `TestRam` is the environment: the
RAM tests fill what lies behind `limit_addr`.

The refinement mapping `store` *reads* the bytes the way the operator does:
`Shown` walks from string to string until "end-of-file" (`menu_show_appl`).
Nothing in the mapping knows what was printed, so `ImplementsStore` says that
whatever other runs print, close, clear and overwrite, a log inside the area
reads as its run printed it. A string is a sequence of bytes over `Chars` with a
NUL behind it; two letters suffice for strings that are prefixes of each other
and of the terminator. Assumed: no run prints the string "end-of-file" itself
(a test that does truncates its own log).

### Mailbox and Sessions (`mailbox.c`, `ram_callback`)

A test and IDS call each other: `mb_dispatch` calls the callback of the test,
which may call `mb_dispatch` again. `calls` is the C stack of such a request,
innermost frame last; a function that has called another is `calling` and goes
on when that one returns (`Answered`), which is where END closes the session,
each side its own. `callback` is `mb_callback` of IDS: it is set by `mb_start`,
cleared by END, and stays as it is when the test is over. `dispatch` is the
static of the test, which a new image clears (`ids_load_elf_image`). END and
RELOC are answered by `ram_callback` with the same request, so the two call each
other until the stack is gone. The model keeps the innermost `MaxDepth` frames
of such a stack; the recursion is then a loop of its own, and no request is ever
stuck: deadlock is checked.

The repository's own tests have the call of `mb_start` commented out
(ram-addr-lo.c:205-207); the model covers tests that make it, which is what the
mailbox is for, with `ram_callback` or with a callback that only answers.

`Sessions` composes both: a step of the test prints, overwrites the scratch RAM,
starts a session or makes a request; `mb_suspend` leaves the operator in the log
menu. `fileio_init` is the restart of IDS (quit to U-Boot, `ids` again): it is
in `RestartSpec` only, because after it the logs of the menu are lost
(`LogRestart`).

### ListFiles, ListDirectory, TlsDownload, MenuBuilder

Memory is a sequence of cells: a header of a list or a test is one cell, a
program some more. `TlsDownload` is the loop of `fileio_tftp` over the items of
a file manager: `Skip` for an item that names no list, `Clear`/`Refuse` at the
limit of 15 lists, `Fetch`, `FetchFails` (the transfer stored nothing or the
beginning). Where a list goes is found by `next_tls`, over the sizes in the list
headers, which the download itself writes (`Resized`); the builder finds the
lists by the sizes of their tests (`BehindTest`). `ImplementsDirectory` says
that the two agree: read the builder's way, the memory refines `ListDirectory`.
`load` and `base` are apart because `menu_list_appl` uses the one for the other.

`MenuBuilder` is one build per step (`menu_list_appl` runs to its end without a
choice of anyone's): the pool is handed out in the order of the walk, the items
of a test are what the parameter words make of the items an earlier build left
in that slot. What the words are is decided by `mktest`, which stores 30 of the
31 characters it accepts: the brace of a register or the equal sign of an empty
value is lost (`Stored`).

### MenuTab and MenuShell (`menutab.c`, `menu.c`)

Every menu is a loop on the C stack, and so are the help and the policy editors:
`stack` is that stack, with frames for loops and for applications that go on
when what they called returns (`config_..._appl`, `regress_run_appl`). A run of
tests is a frame too: at its tests, waiting in the pause of a policy, or over
and waiting for any key, which it does in every mode but autorun. An item or a
key is an action, ESC returns. `by` says whether an item or a key opened a loop:
in the first case the loop below starts over and sets `this_menu` again, in the
second it is still inside `ui`. Of the download the shell knows through which
file manager it goes: `mgr_of` is the field in the menu of each method where RUN
of a manager and the autorun stash it, `file_mgr` what `fileio_tftp` found in
that of tftp. What comes of the transfers is the subject of `TlsDownload`. The
menus the builder makes are represented by one of each kind.

### HwTable and Devices (`idshw.c`)

Slots hold devices: blocks of the heap, or static ones, which their owner may
load as often as the lookup of their name lets him. A block that is free has no
name; malloc may hand it out again, and its links are then unset. A call of
the machine has the first word of the command as its parameter (`command`), and
what comes of the command is decided by `hw_launcher` (`Outcomes`): the handle 0
counts as a failure, -1 is used as an index, so anything may come of it, and of
any other slot it returns what the driver of the device may (`Driver`). The
owner changes the table between calls only: the code has one thread and the
drivers do not touch the table.

### Patgen and RamTests

A value is the set of its one bits; 64-bit values are seen by the macros of
`test_api.h` by their upper half only. A test program is the sequence of its
accesses (`Script`), one access is one step, one pass over the region per
pattern. The memory is external: `2^Lines` words of the width of the access,
with at most one fault (a stuck bit, two shorted data lines, an address line
stuck or shorted with another), or with bits that turn over at any time
(`Flip`). The loops of `ram.h` are entered in the middle of eight accesses;
`overrun` is what the tests make of it, the count modulo 8, in the stand-alone
tests the size modulo 8.

### IdsSm (`idssm.c`, `idssm.h`, `idshw_i2c.c`)

A step is one dispatch. The arcs are the macro table of `idssm.h`, the handlers
those of the I2C instance. `sm_run`'s switch falls through its cases: `pc` walks
"startup", "init", "boot", "exec". The dispatch of RUN is split at the command
(`Launch`, `CommandOver`, `Nested`, `Return`), because the handler dispatches
PASS or FAIL from inside: `Return` is the code after the handler, which compares
the state with READY, the state the dispatch began in. `hooked` is chosen once:
whether `sm_watchdog` has a caller. In this repository it has none ("BUG!!!
Hook up sm_watchdog", idssm.c:192), so what the sources say of the machine is
judged with `~hooked`, and the runs explore both.

## 4. Runs

| run | instance | distinct states | shows |
|---|---|---|---|
| `ExecList` | one list of 2 tests, 5 pass x 8 fail policies, 1 or 2 cycles | 650 626 | `AbortHonoured`, `RetryAllowance`, `SpinUntilQuit` |
| `ExecMenus` | two lists, one empty; RUN from every menu in every mode; a service, a register first parameter, test cycles 2, CYCLES 1 and 2; the remaining policies, `jump` to item 1 among them | 375 021 | `AbortNeedsOperator`, `StrikeDecides`, `RunItemByJump`, `PassMeansRun`; under fairness `RunEnds`, `OperatorCanStop` |
| `Sessions` | a log area of 5 bytes, 2 logs, strings of 0-2 bytes, one-byte terminator; the innermost 3 calls | 235 462 | the byte-level invariants, `ImplementsStore`, `ViewStartsWithLog` |
| `Devices` | table of 2 slots, a static device and 2 heap blocks, 2 names, a link offset that exists and one that does not; drivers that pass, fail and return anything | 862 918 | `CommandStarted`, `Settled`, `LiveTarget`, `FaultSticks` for the machine; `SlotsLive`, `LinksLive`, `NamesStable` for the table |
| `Lists` | 2 lists fit, 2 managers, two base addresses, 3 downloads | 238 870 | `DownloadComplete`, `ImplementsDirectory`, `MenusShowLists`; under fairness `DownloadEnds` |
| `Shell` | the real `menutab` with all items of MODE | 187 186 | `NestingBounded`, `AutorunScoped`, `FetchesWhatIsAsked`, `RefreshesDisplayed` |
| `RamTests` | memories of 32 words, regions of 1 to 16, all widths, all list patterns and every modifier | 46 193 | `WithinRegion`, `FaultsFound`, `NoFalseAlarm`, `Restored`; under fairness `Ends` |

Bounds. The engine's policies are per test, so two tests give every ordered pair
of policies and let a jump, a back, a skip and a spin lead to another test than
the current one; the second list is empty because what is carried from one list
to the next is the return value alone, and the empty one is the case where the
loop is not entered. A second cycle is needed for what is carried between
cycles. The retry limit 3 is the code's own. The policies are split over two
runs to keep each within minutes; between them every action fires. An area of 5
bytes overflows in every run that prints twice, and lets the second log begin
behind the limit; a third run finds the menu full. Three calls are a PING with
the ACK that answers it, and one turn of the recursion of END. A table of two slots
can be full and can have a hole in front of a device; blocks are symmetric.
Two lists that fit, where a manager asks for two more, reach the limit in the
first, in the middle and at the end of a download; `MaxGo` = 3 downloads reach
it from every fill level. The shell needs no bound: its
stack is bounded by the code (`NestingBounded`). The regions of the
RAM tests enter the unrolled loops at 1, 3 and 0 (counts 1, 3, 8, 9); the
address tests get every alignment of a region to the power of two above it.

Deadlock is not checked in `RamTests` (programs return).

Expected violations, each a statement of the sources that the code does not
meet (`PROJECT.json`, findings):

| run | the sources say | the code |
|---|---|---|
| `ExecQuit` | "Do you really want to quit?" (exec.c:790) | exec.c:441 drops the -100 of `exec_pause`; the next test runs |
| `SmFailures` | failures end in FAULT (idssm.c:116) | after a command that passed, `sm_run` returns -1 with the machine READY |
| `LogRestart` | `load_addr` is the next unused location (fileio.c:452-453) | a restart of IDS resets it under the logs the menu still lists |
| `ListsMisplaced` | menus are built from the buffer downloaded (builder.c:115-116) | after a transfer that failed for the last item, from behind it |
| `RamRegion` | "Single bit addrs in region" (ram-addr-lo.c:18, ram-addr-hi.c:18) | with the arguments of the Makefile they are not in the region |

Met on the way and not given a run of their own:

- a confirmed ^C in a run of the master list skips to the next list only
  (exec.c:330 tests for -1); `AbortHonoured` is stated of the other runs;
- the policy "1" executes the RUN item as a test, with the header of the first
  (exec.c:400-406): `RunItemByJump` says it happens in no other way;
- a test without parameters reports PASS without having been run
  (exec.c:309-317): `PassMeansRun` says that this and empty lists are all;
- `fileio_close` stores the terminator behind `limit_addr` when the area is
  nearly full (fileio.c:539): `OverrunBounded` says by how much;
- the device in the first slot cannot be launched: `hw_launcher` takes its handle
  0 for a failure, and uses the -1 of a name that is not found as an index
  (idshw.c:176), against 161-163 and 188. `Outcomes` says so; no property does,
  since none that holds should rest on it;
- behind the hole of a terminated device the "Already exists" of `hw_load`
  (idshw.c:85-86, 102) does not see a device, which is then in two slots:
  `SlotsLive` excludes this for blocks of the heap only, which are not loaded
  twice, `NamesStable` says that it takes a hole;
- END does not end a session with `ram_callback`: each side calls the other
  before it clears its callback (mailbox.c:167-169, ram-addr-lo.c:187-189);
- the runs of the autorun obey the policy pause, which waits for a key
  (exec.c:441), against the "autorun mode that does not wait for operator input"
  of menu.c:1203-1204: `AutorunScoped` speaks of menus and the end of runs only;
- after ^T or ^L and ESC `this_menu` is not the menu displayed (menu.c:590, 637),
  and the command that refreshes "the current menu referenced by this_menu"
  (1265-1266) works on the one that was left. `RefreshesDisplayed` says that it
  is never the registers of a test that are then read;
- the address tests compare location 0 with a pattern and do not write it
  (ram-addr-lo.c:93, ram-addr-hi.c:75): a good memory in which an earlier test
  left the pattern there fails; `NoFalseAlarm` excludes exactly this;
- a mask of a single bit cannot show that this bit of a register is stuck at one
  (the register is compared while the bit is set, reg-rw.c:30-49): `FaultsFound`
  asks for a second bit;
- RUN of a manager stashes it in the menu of the present method only; when the
  method was another one and METHOD leads to tftp, or when ^L opened the menu,
  the download goes through an older manager (menu.c:470, 1155-1200):
  `FetchesWhatIsAsked` is stated of RUN while the method is tftp, and of the
  autorun. Before any RUN there is none, and the item list at address 0 is
  walked, which the guard of `fileio_tftp` leaves out;
- CYCLES 0 is clamped to 1 (exec.c:180) against the comment at 248-250, so
  `RunEnds` is stated of, and its run has, cycles above 0; a string
  dropped by a full log does not stop the logging of later, shorter ones
  (fileio.c:503-505); `sm_run` in FAULT resets instead of proceeding
  (idssm.c:83-84, 176-185); the stand-alone tests return 0 whatever they count
  (ids_sa/ram/ram.c:459), and overrun their region for wide accesses (241).

## 5. Fairness

Everything is one thread, so weak fairness of what that thread does between two
inputs is all that is assumed; inputs (keys, results, transfers) are free.

- `TestExec.FairSpec`: weak fairness of `Engine`, all steps the board takes by
  itself; that a test returns and a prompt other than ^C is answered is assumed.
  Fairness of the whole, not of each action, leaves the results of the tests and
  the edits of the operator free. `RunEnds` has its premise in the property: the
  run ends or at some time a policy spins, jumps or goes back. `OperatorCanStop`
  has the operator as its premise: *if* a ^C is confirmed again and again
  whenever the engine keeps polling (`Insists`, strong fairness of `Interrupt`),
  every run ends. It says that every loop passes a poll.
- `MenuBuilder`: weak fairness of `LoopStep`, the loop of the download; a
  transfer ends, with or without success. `MaxGo` bounds how often a download is
  started, not the loop.
- `RamTests`: weak fairness of `Step` and of `NextPattern`, each of which the
  program alternates between; `Flip` is free.

## 6. Proofs

Checked by `tlapm`, for all values of the constants under the named assumptions
of the modules; `IdsSm` has no constants. Most of them are types. The others:

- `LogFilesAssumption`: no string contains the terminating zero byte, and the
  text written at the end of a log (fileio.c:539) is not one that a test prints;
- `MenuShellAssumption`: the items of MODE are those of the compiled-in menu,
  any of them;
- `RamTestsAssumption`: a job is one of the programs with an access, a region
  and bits of that width; faulty lines are lines of the memory; bits turn over
  only in the programs that look for it; an alias test has a region (for an empty
  one its loop downwards never ends, a hazard of its own); the region of an
  address test begins at or below a single-bit address of the memory
  (`ram_addr_init` finds no start otherwise); a register test is of one or two
  registers;
- `TlsDownloadAssumption`: a file of the server is what `mklist` made of tests
  of at least one cell, a file manager has its RUN item and no more files than
  15, and the memory of the model holds 15 lists of the longest kind: what lies
  behind TLS FILES is not part of the model;
- `MenuBuilderAssumption`: a list has at most as many tests, and a test at most
  as many parameters, as a menu has items behind RUN (idsfs.h:110 has room for 15
  of them, and nothing in the builder checks it), and the pool holds the menus of
  15 such lists (240, where `MENU_LIMIT` is 512).

`TestExecProofs`. `TypeInv` is `TypeOK` with `FrameInv`: in the loop, the frame
of a list has the list's size and its current item is a test of the list. The
policy table is a function on `Test`, so `Decision` has a type only because the
index is in range; that is why the range is part of the invariant. `Typing`
follows. `StrikeDecides`, `AbortNeedsOperator` and `AbortHonoured` speak of
`idle` only or of a few places; their strengthenings say what `status`, `error`
and `rv` are at *every* place once the history variable is set: a struck run
carries -1 in the frame, then in `status`, then in `error`, and no later cycle
can clear the latch; -100 is in `status` only with a confirmed ^C; after such a
^C outside the master list, `pc` is on the straight path to `idle`.
`RetryAllowance` needs `RetryInv`, which relates `tries` and the retry count at
each place of the loop (equal before a test is entered, one apart after it, both
zero once the index has moved), and `SpinUntilQuit` needs `SpinInv`: a spinning
frame stays on an item inside the list and is not the run of a single test, so
neither the loop condition nor the break at 358 can end it. `RunItemNeedsJump`
needs `JumpInv`: item 0 is the current item *or the one a back leads to* only
where some policy jumps to item 1, since a back after such a jump returns to
what the jump came from; policies do not change while the engine runs.
`NoHollowPass` needs `RanInv`: as long as no test was executed (`Untested`), the
engine is at the first item of its list with return value 0, every list the
master list has passed was empty, and it is past the loop only if there was
nothing to run.

`MenuShellProofs`. Each menu has a level, and an item or key leads to a menu of
a higher one: `ShellInv` says of each frame of the stack what it may be at its
depth (`FrameOK`), what lies below it (`CallerOK`, the condition under which the
code calls it), and of autorun (`AutorunOK`) that its frame is the third, on top
or with the run it has started above it. `NestingBounded` is the level of the
deepest menu. `DownloadsAreAskedFor` needs `FieldInv`: between the two steps in
which the autorun stashes a manager and downloads, the field of the method holds
that manager; and a download loop that RUN has opened is the fifth on the stack,
right above its manager, which the field of tftp holds for as long as RUN has
met no other method. `PlaceKept` says that only RUN puts such a loop there. The
proof enumerates the compiled-in menus once (what the items of a menu lead to);
`Used` may be any set of items of MODE.

`RamTestsProofs`. `RamInv` says of a job under way: the values of the pattern
generator are values of its list (`PatternInv`); the accesses of a script are to
cells of the region (`RegionInv`); a cell holds what was written to it last, at
whatever address (`MemoryInv`), and in a memory without a fault every comparison
succeeds (`QuietInv`; it knows of location 0 that it is as it was); between the
steps that borrow a register, its value is kept (`RestoreInv`); a bit that turned
over is still to be compared (`LostInv`), and so is the cell of a stuck or shorted
bit under some pattern left of the ham list (`DataInv`); and no access passed so
far was betrayed (`BetrayInv`): what the fault makes of the value written last to
its cell is never what the access refuses. The scripts are unrolled loops, so the
invariants quantify over the accesses left in them.

`FaultsAreFound` then needs of each program one access that its fault betrays.
`DataInv` and `LostInv` are for the patterns. `RegisterBetrayed` is the read of
the bit stuck at zero, or of another bit of the mask when it is stuck at one.
`AliasBetrayed` takes the lower of two addresses that are one cell: the highest
such address was written to it last. `FirstAliased` is for the address tests: a
line that is seen makes some location and the start, or location 0, one cell. It
rests on facts about the bits of powers of two and their sums (`PowerBit`,
`SumBit`), proved from the recursive `Power` by taking a least counterexample;
`Upwards`, which lists the masks, is likewise shown to be a function that exists
and to list each mask once.

`LogFilesProofs`. `LogInv` is `TypeOK` with `OpenInv` (the run that holds a log
holds the last one, and only then `active` is 1), `OrderInv` (start addresses
ascend and none is above the load address) and the three properties, which
need each other: that a store does not touch an old string (`RecordKept`)
follows from all old strings lying below the load address (`OwnExtent`); the
type of the load address follows from `OverrunBounded`, which counts one
terminator per closed log. `LogsKeepTheirPromise`, the refinement of `LogStore`,
needs to know what lies in memory: `ReadsInv` says that between the start and
the end of a closed log inside the area the strings of its run are `Strung`, each
behind the zero of the one before, and then the terminator; and of the open log
the same up to the load address. What the operator reads is a walk over these
bytes, a recursive function over addresses. That it exists, and that it finds
the strings that are strung there, is proved by induction over the addresses, as
the absence of a least counterexample (`WFMin`). Then each step is a
`Begin`, `Record`, `Close`, `Lose` or `Clear` of the store or a stutter.
`StringsFirst` is the same about a walk that nothing stops where the strings end:
it shows them first, whatever it goes on to show.

`IdsSmProofs`. `SmInv` fixes the state of the machine at every `pc`: BUSY while
the command runs, READY or FAULT between `Nested` and `Return` as `outcome`
says, the startup state at each case of `sm_run`. `Settled`,
`CommandStarted` and `LiveTarget` are part of it; `FaultSticks` follows because
in FAULT only a raw event or `sm_hw_fault` changes the state, and only through
an arc of FAULT. `MachineTyping` is its
first conjunct.

`SessionsProofs`. `LogsImplemented`: every step of the composition is a step of
`LogFiles` or leaves its variables alone, so `LogFiles!Spec` and all theorems of
`LogFilesProofs` hold for runs with sessions; `SessionsKeepThePromise` is the
refinement among them. `ViewsBeginWithTheLog` is about
logs that are still open, where the refinement says nothing of what the walk of
the operator meets behind the load address. It needs `ViewInv`: what was printed
for a log is a sequence of strings placed one behind the other from the start of
the log to the load address, or, once it is closed, to its terminator. No byte of
memory is in it: that the bytes are still there is `RecordKept`, that they lie
below the scratch RAM is `OwnExtent`, and with both the strings of `ViewInv` are
`Strung` and are read first. The k-th string of the sequence is the one with k - 1
before it (`CountedBefore`), which is how the property names it. The property
is stated for the moments at which the operator can look; it is proved of all.

`DevicesProofs`. `MachineImplemented`: the machine in the composition implements
`IdsSm!Spec`, the outcomes `hw_launcher` allows being some of those `IdsSm`
allows, so the theorems of `IdsSmProofs` hold for it. `TableInv` joins
`TableTypeOK` (theorem `TableTyping`), `SlotsLive` and `LinksLive` with `StaticInv` (a static device
keeps its name, so it is never a free block) and `AttachedInv` (a link to a
device is one `hw_attach` set and nobody reset, or one of a block that was never
set). `LinksLive` needs them: a terminate frees a block, and only what is known
of `attached` says that no other device points to it. `NamesLeadToTheSame`
compares what `hw_lookup` finds before and after each operation on the table.

`TlsDownloadProofs`, for the specification of `MenuBuilder`. A file is cells
(`TlsFile`, a fold over its tests); `FileLaid` says where in them each test
begins, by induction over the largest index of a set, as the fold is defined.
`ListRead`: where a file lies in memory with the size of its transfer in the
header, the walk over the sizes of its tests and the one over the size in its
header end at the same address, and the first finds its tests. `DirInv` says
that files lie one behind the other from the base address on, as many as
`entries` counts (`Placed`), and that there are none while the directory has
not been loaded at this base address. A download adds one behind them
(`ListAdded`), a failed one writes behind them only (`ArrivedBelow`). `ListsStay`
is the refinement of `ListDirectory`. `DownloadsComplete` needs `ProgInv`: in the
middle of a download nothing went wrong with, the lists end with the files of
the manager up to the current item, also after the directory was cleared and the
first file came again; and `load_addr` is apart from the base address only
behind an item whose transfer failed. Both invariants were checked by TLC on the
states of `Lists` before they were proved, as were `ReadsInv` and `ViewInv`,
`ShellInv` and `RamInv` on those of `Sessions`, `Shell` and `RamTests`.

`MenusAreTheLists` is about the one step `menu_list_appl`, from any state in which
`DirInv` holds. `HeadersAllocated` says where in the row of menus that `menu_alloc`
hands out the menu of each list and, behind it, those of its tests are, by
induction over the lists; `SlotsListed` that `list_menu` leads to these places;
`PoolSuffices` that the pool has them all. `BuildFills` is what the step makes of
each item of each menu, from the word of its parameter alone unless that has no
equal sign. From it follow `BuildShows`, that a menu shows its list or test, and
`BuildBinds`: the items of type "svc" the build has set are exactly those of the
service parameters, so the nearest one before an item in the pool is the one the
walk had seen last.

Only model-checked: the liveness properties (`RunEnds`, `OperatorCanStop`,
`DownloadEnds`, `Ends`), which need fairness and are out of the prover's reach. Every invariant and every action property of the passing runs
is a theorem. The expected violations are counterexamples and need no proof.

## 7. Not modelled

- The statistics and counters of the engine, the clock (exec.c:596-660,
  730-758): assignments and divisions no other part reads; the two faults seen
  while reading are in the hazards.
- The ELF loader (fileio.c:578-750): one pass over the headers of a file and a
  jump; what it jumps to is the environment of `TestExec` and `Sessions`.
- How the operator types and sees values (`menu_show`, `find_value`,
  conversions in menu.c), the command table and the memory tools (cmd.c,
  memtools.c), the display helpers: text, without state between calls.
- The RGB bus (idshw_rgb.c) has no caller; the registers behind it are not part
  of the repository. The board headers are names.
- The stand-alone C library (ids_sa/lib) is taken over from U-Boot and Linux.
- The time a test takes, the heartbeat of the console, and the contents of
  memory the code reads by mistake (the item list at address 0 behind an unset
  file manager, the array behind `key_strokes`, `hw_table[-1]`): what they hold
  is not determined by the sources. Where control goes on, the model lets any
  outcome happen (`Outcomes`); where it does not, the action is not enabled.
