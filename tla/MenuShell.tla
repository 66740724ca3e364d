----------------------------- MODULE MenuShell -----------------------------
(***************************************************************************)
(* The menu interface (lib_ids/menu.c) and the applications behind the     *)
(* menus of MenuTab. Every menu is a loop of its own on the C stack, and   *)
(* so are its help and policy editors: a key of the operator or an item    *)
(* calls the next loop, ESC returns from it. The stack is kept as a        *)
(* sequence of frames, the innermost last.                                 *)
(*                                                                         *)
(* Of the download it knows through which file manager it goes; what comes *)
(* of the transfers is the subject of TlsDownload. Keys that are asked for *)
(* inside an item (a value, a question, any key after a download) are part *)
(* of its step, those a run of tests waits for have steps of their own.    *)
(***************************************************************************)
EXTENDS MenuTab, FiniteSets

CONSTANT Used   \* items of mode_menu the operator uses, a bound of the model

ASSUME MenuShellAssumption == Used \subseteq 1 .. Len(mode_menu)

VARIABLES
  stack,      \* the frames of ids_main
  this_menu,
  mode,       \* ids_mode
  comm,       \* tftp_menu.itemlist[1].menu: the menu of the chosen method
  mgr_of,     \* itemlist[0].menu of both, "none" for 0
  file_mgr    \* the local of the last fileio_tftp, "none" before any

vars == << stack, this_menu, mode, comm, mgr_of, file_mgr >>

(* A loop of ui(): menu_input, list_input, and menu_help and the policy    *)
(* editors, which leave this_menu as it is. by is what called it: an item  *)
(* of the loop below, one of its keys, or an application.                  *)
Loop(input, m, by) == [kind |-> "loop", input |-> input, menu |-> m, by |-> by]

(* An application that goes on when what it called returns: config_..._appl*)
(* with menu_list_appl, regress_run_appl with its next step. A test run:   *)
(* at its tests, or where it waits for a key in a pause or when it is over.*)
Then(step) == [kind |-> "then", step |-> step, saved |-> "none"]
Autorun(step, saved) == [kind |-> "autorun", step |-> step, saved |-> saved]
Run(at) == [kind |-> "run", at |-> at]

Depth == Len(stack)
Frame == stack[Depth]
Below == SubSeq(stack, 1, Depth - 1)
Replace(f) == Append(Below, f)

AtLoop == stack # <<>> /\ Frame.kind = "loop"
At(input) == AtLoop /\ Frame.input = input
RunAt(at) == stack # <<>> /\ Frame = Run(at)

MenuInputOnly == {"menu"}                          \* mutant
Setting == {"menu", "list"}                        \* inputs that set this_menu

Shows(input, m) == IF input \in Setting THEN m ELSE this_menu

Init ==
  /\ stack = <<Loop("menu", "main", "app")>>
  /\ this_menu = "main" /\ mode = "main"
  /\ comm = "tftp" /\ mgr_of = [tftp |-> "none", xmodem |-> "none"]
  /\ file_mgr = "none"

method == << comm, mgr_of >>

-----------------------------------------------------------------------------
(* Calls from a loop, or from the step of an application.                  *)
Call(frames, input, m, by) ==
  /\ stack' = Append(frames, Loop(input, m, by))
  /\ this_menu' = Shows(input, m)

(* menu_list_appl in mode m: the lists of the debug menu are compiled in.  *)
menu_list_appl(m, frames) ==
  Call(frames, "menu", IF m = "debug" THEN "debug_list" ELSE "master", "item")

(* The manager is stashed in the menu of the method, where the download    *)
(* finds it.                                                               *)
StashOnce(m) ==                                    \* mutant
  mgr_of' = IF mgr_of[comm] = "none" THEN [mgr_of EXCEPT ![comm] = m] ELSE mgr_of
Stash(m) == mgr_of' = [mgr_of EXCEPT ![comm] = m]

Fetch == file_mgr' = mgr_of.tftp

-----------------------------------------------------------------------------
(* The item the operator selects; its loop goes on with the same menu.     *)
Enter(i) ==
  /\ AtLoop /\ Frame.input \in {"menu", "list"}
  /\ i \in DOMAIN itemlist(Frame.menu)
  /\ Frame.menu = "mode" => i \in Used

Selected(i, item) == Enter(i) /\ itemlist(Frame.menu)[i] = item

Stay == stack' = stack /\ this_menu' = Shows(Frame.input, Frame.menu)

EnterEdit(i) ==
  /\ Selected(i, Edit) \/ Selected(i, Appl("leaf"))
  /\ Stay /\ UNCHANGED << mode, method, file_mgr >>

EnterMenu(i, m) ==
  /\ Selected(i, Sub(m))
  /\ Call(stack, "menu", m, "item")
  /\ UNCHANGED << mode, method, file_mgr >>

EnterList(i) ==
  /\ Selected(i, [type |-> "list", to |-> "list"])
  /\ Call(stack, "list", "list", "item")
  /\ UNCHANGED << mode, method, file_mgr >>

(* config_..._appl: the file manager first, then the menus of the lists.   *)
config_appl(i, f) ==
  /\ Selected(i, Appl(f))
  /\ mode' = Config[f].mode
  /\ Call(Append(stack, Then("list")), "menu", Config[f].mgr, "app")
  /\ UNCHANGED << method, file_mgr >>

config_debug_appl(i) ==
  /\ Selected(i, Appl("config_debug"))
  /\ mode' = "debug" /\ menu_list_appl("debug", stack)
  /\ UNCHANGED << method, file_mgr >>

console_appl(i) ==
  /\ Selected(i, Appl("console"))
  /\ mode' = "default" /\ menu_list_appl("default", stack)
  /\ UNCHANGED << method, file_mgr >>

(* test_execution_appl in a mode the operator works in, and GO there.      *)
test_execution_appl(i) ==
  /\ Selected(i, Appl("test_execution")) /\ mode # "autorun"
  /\ Call(stack, "menu", "execution", "item")
  /\ UNCHANGED << mode, method, file_mgr >>

test_go_appl(i) ==
  /\ Selected(i, Appl("test_go"))
  /\ stack' = Append(stack, Run("tests"))
  /\ UNCHANGED << this_menu, mode, method, file_mgr >>

(* RUN of a file manager stashes the manager in the menu of the method.    *)
download_run_appl(i) ==
  /\ Selected(i, Appl("download_run"))
  /\ Stash(Frame.menu)
  /\ Call(stack, "menu", comm, "item")
  /\ UNCHANGED << mode, comm, file_mgr >>

fileio_tftp(i) ==
  /\ Selected(i, Appl("fileio_tftp"))
  /\ mgr_of.tftp # "none"     \* else the item list at address 0 is walked
  /\ Fetch
  /\ Stay /\ UNCHANGED << mode, method >>

(* METHOD: the name that is typed, or none on ESC, changes the menu of the *)
(* loop to that of the method. Only xmodem and its kin have another one.   *)
download_appl(i, typed) ==
  /\ Selected(i, Ctl)
  /\ comm' = IF typed \in {"tftp", "xmodem"} THEN typed ELSE comm
  /\ stack' = Replace([Frame EXCEPT !.menu = comm'])
  /\ this_menu' = comm'
  /\ UNCHANGED << mode, mgr_of, file_mgr >>

-----------------------------------------------------------------------------
(* The keys of ui() and of its hot key functions.                          *)
AnywhereTwice == TRUE                              \* mutant
NotTwice == Frame.menu # "ram_carve"

RamCarve ==
  /\ At("menu") \/ At("list")
  /\ NotTwice
  /\ Call(stack, "menu", "ram_carve", "key")
  /\ UNCHANGED << mode, method, file_mgr >>

DownloadControl ==
  /\ AtLoop /\ Frame.menu = "file_mgr"
  /\ Call(stack, "menu", comm, "key")
  /\ UNCHANGED << mode, method, file_mgr >>

menu_help ==
  /\ At("menu") \/ At("list")
  /\ mode = "debug"
  /\ Call(stack, "help", Frame.menu, "key")
  /\ UNCHANGED << mode, method, file_mgr >>

menu_policy(editor) ==
  /\ At("list")
  /\ Call(stack, editor, Frame.menu, "key")
  /\ UNCHANGED << mode, method, file_mgr >>

(* ESC: the loop below that called it by an item starts over; one that     *)
(* called it by a key is still inside ui() and leaves this_menu alone.     *)
Back ==
  LET caller == stack[Depth - 1]
  IN  /\ stack' = Below
      /\ this_menu' = IF Frame.by = "item" /\ caller.kind = "loop"
                        THEN Shows(caller.input, caller.menu) ELSE this_menu

Escape ==
  /\ AtLoop /\ Depth > 1
  /\ Back
  /\ UNCHANGED << mode, method, file_mgr >>

(* ESC in the main menu: the operator quits, or ids_main starts over.      *)
Quit == stack = <<Loop("menu", "main", "app")>> /\ stack' = <<>>
        /\ UNCHANGED << this_menu, mode, method, file_mgr >>

ids_main ==
  /\ stack = <<Loop("menu", "main", "app")>> \/ stack = <<>>
  /\ stack' = <<Loop("menu", "main", "app")>>
  /\ this_menu' = "main" /\ mode' = "main"
  /\ comm' = IF stack = <<>> THEN "tftp" ELSE comm       \* menutab_init
  /\ UNCHANGED << mgr_of, file_mgr >>

-----------------------------------------------------------------------------
(* Applications that go on by themselves.                                  *)
AfterConfig ==
  /\ stack # <<>> /\ Frame.kind = "then"
  /\ menu_list_appl(mode, Below)
  /\ UNCHANGED << mode, method, file_mgr >>

(* The policy pause of one of the tests, with any policy after it.         *)
exec_pause ==
  /\ RunAt("tests")
  /\ stack' = Replace(Run("pause"))
  /\ UNCHANGED << this_menu, mode, method, file_mgr >>

Returns ==
  /\ stack' = Below
  /\ this_menu' = IF stack[Depth - 1].kind = "loop" THEN "execution" ELSE this_menu

RunEnds ==
  /\ RunAt("tests")
  /\ IF mode = "autorun" THEN Returns
                         ELSE stack' = Replace(Run("over")) /\ UNCHANGED this_menu
  /\ UNCHANGED << mode, method, file_mgr >>

HitAnyKey ==
  /\ \/ RunAt("pause") /\ stack' = Replace(Run("tests")) /\ UNCHANGED this_menu
     \/ RunAt("over") /\ Returns
  /\ UNCHANGED << mode, method, file_mgr >>

(* regress_run_appl: for three managers, download and run what was built.  *)
Regress == <<"a6ddr", "fpga", "chan">>

regress_run_appl(i) ==
  /\ Selected(i, Appl("regress_run"))
  /\ mode' = "autorun"
  /\ stack' = Append(stack, Autorun([n |-> 1, do |-> "stash"], mode))
  /\ UNCHANGED << this_menu, method, file_mgr >>

AtRegress(do) == stack # <<>> /\ Frame.kind = "autorun" /\ Frame.step.do = do

RegressStash ==
  /\ AtRegress("stash")
  /\ Stash(Regress[Frame.step.n])
  /\ stack' = Replace([Frame EXCEPT !.step.do = "get"])
  /\ UNCHANGED << this_menu, mode, comm, file_mgr >>

(* The first item of xmodem_menu does nothing.                             *)
RegressGet ==
  /\ AtRegress("get")
  /\ IF comm = "tftp" THEN Fetch ELSE UNCHANGED file_mgr
  /\ stack' = Replace([Frame EXCEPT !.step.do = "run"])
  /\ UNCHANGED << this_menu, mode, method >>

NextManager ==
  [n |-> Frame.step.n + 1, do |-> IF Frame.step.n = Len(Regress) THEN "done" ELSE "stash"]

RegressRun ==
  /\ AtRegress("run")
  /\ stack' = Append(Replace([Frame EXCEPT !.step = NextManager]), Run("tests"))
  /\ UNCHANGED << this_menu, mode, method, file_mgr >>

ModeLeft == mode                                   \* mutant
Restored == Frame.saved

RegressDone ==
  /\ AtRegress("done")
  /\ mode' = Restored
  /\ stack' = Below /\ this_menu' = "mode"
  /\ UNCHANGED << method, file_mgr >>

Internal ==
  \/ AfterConfig
  \/ exec_pause \/ RunEnds
  \/ RegressStash \/ RegressGet \/ RegressRun \/ RegressDone

Item(i) ==
  \/ EnterEdit(i)
  \/ \E m \in DOMAIN Menus : EnterMenu(i, m)
  \/ EnterList(i)
  \/ \E f \in DOMAIN Config : config_appl(i, f)
  \/ config_debug_appl(i) \/ console_appl(i) \/ regress_run_appl(i)
  \/ test_execution_appl(i) \/ test_go_appl(i)
  \/ download_run_appl(i) \/ fileio_tftp(i)
  \/ \E typed \in {"tftp", "xmodem", "kermit"} : download_appl(i, typed)

Key ==
  \/ RamCarve \/ DownloadControl \/ menu_help
  \/ menu_policy("pass") \/ menu_policy("fail")
  \/ HitAnyKey \/ Escape \/ Quit \/ ids_main

Next == (\E i \in 1 .. 16 : Item(i)) \/ Key \/ Internal

Spec == Init /\ [][Next]_vars

-----------------------------------------------------------------------------
(* However the operator goes through the menus and back, the loops on the  *)
(* C stack stay few: no key or item leads round in a circle (menu.c:577,   *)
(* 1109).                                                                  *)
NestingBounded == Depth <= 8

(* The mode is autorun as long as regress_run_appl has not returned. In    *)
(* that time no menu is open and no run that is over waits for a key; a    *)
(* pause inside of one waits all the same (menu.c:1209-1235 and where the  *)
(* mode is looked at: builder.c:109, exec.c:124, 242; exec.c:441).         *)
AutorunScoped ==
  /\ mode = "autorun" <=> \E k \in DOMAIN stack : stack[k].kind = "autorun"
  /\ mode = "autorun" => ~AtLoop /\ ~RunAt("over")

(* Which manager a download goes through depends on a field that ^L,       *)
(* METHOD and earlier visits have left somewhere (menu.c:470, 1155-1200).  *)
(* AUTORUN gets the manager of its step whatever they left, and so does    *)
(* the operator by RUN of a manager, as long as at no such RUN the method  *)
(* was another one than tftp.                                              *)
AskedFor == IF mode = "autorun" THEN Regress[Frame.step.n] ELSE stack[Depth - 1].menu
ByRun == mode # "autorun" /\ Frame.by = "item"

OnlyTftp == mgr_of.xmodem = "none"

FetchesWhatIsAsked ==
  [][file_mgr' # file_mgr /\ (mode = "autorun" \/ (ByRun /\ OnlyTftp))
       => file_mgr' = AskedFor]_vars

(* The command that refreshes registers never reads those of a test whose  *)
(* menu is not the one displayed (menu.c:1265-1276, 544, 633, 645).        *)
RefreshesDisplayed == AtLoop /\ this_menu = "test" => Frame.menu = "test"

=============================================================================
