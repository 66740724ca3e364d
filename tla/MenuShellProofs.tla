-------------------------- MODULE MenuShellProofs --------------------------
(***************************************************************************)
(* What holds of the menus however the operator goes through them: how     *)
(* deep their loops nest, what autorun may not meet, what is displayed     *)
(* when registers are refreshed, and through which manager a download      *)
(* goes. The invariant gives each menu a level: a loop lies no deeper on   *)
(* the stack than the level of its menu, and what a menu leads to has a    *)
(* higher one.                                                             *)
(***************************************************************************)
EXTENDS MenuShell, SequenceTheorems, TLAPS

MenuName == DOMAIN Menus \union FileMgr

Level(m) ==
  CASE m = "main" -> 1
    [] m = "mode" -> 2
    [] m \in {"master", "debug_list"} -> 3
    [] m \in {"list", "builtin"} \union FileMgr -> 4
    [] m \in {"test", "tftp", "xmodem"} -> 5
    [] m = "execution" -> 6
    [] m = "log" -> 7
    [] m = "ram_carve" -> 8

(* In debug mode only these are entered, and help is shown over them.      *)
DebugMenu == {"main", "mode", "debug_list", "builtin", "ram_carve"}
DebugLevel(m) == IF m = "ram_carve" THEN 5 ELSE Level(m)

Method == {"tftp", "xmodem"}
Editor == {"help", "pass", "fail"}
Mode == {"main", "autorun", "debug", "default", "config"}

LoopFrame ==
  [kind : {"loop"}, input : Setting \union Editor, menu : MenuName,
   by : {"item", "key", "app"}]
Steps == {"stash", "get", "run", "done"}
ThenFrame == [kind : {"then"}, step : {"list"}, saved : {"none"}]
AutorunFrame ==
  [kind : {"autorun"}, step : [n : 1 .. 4, do : Steps],
   saved : Mode \ {"autorun"}]
RunFrame == [kind : {"run"}, at : {"tests", "pause", "over"}]
FrameType == LoopFrame \union ThenFrame \union AutorunFrame \union RunFrame

MainLoop == Loop("menu", "main", "app")
ModeLoop(f) == f.kind = "loop" /\ f.menu = "mode" /\ f.input = "menu"

(* A frame and the place where it lies.                                    *)
FrameOK(f, k) ==
  /\ f.kind = "loop" =>
       /\ f.input \in Setting => k <= Level(f.menu)
       /\ f.input = "list" => f.menu = "list"
       /\ f.input \in {"pass", "fail"} => k <= 5 /\ f.menu = "list"
       /\ f.input = "help" => k <= 6 /\ f.menu \in DebugMenu
       /\ f.menu = "test" => f.by = "item"
       /\ f.menu \in FileMgr => k = 4
       /\ f.menu \in Method /\ f.by = "item" => k = 5
  /\ f.kind \in {"then", "autorun"} => k = 3
  /\ f.kind = "autorun" /\ f.step.do # "done" => f.step.n <= 3
  /\ f.kind = "run" => k <= 7

(* A frame and the one below it.                                           *)
CallerOK(f, below) ==
  /\ f.kind \in {"then", "autorun"} => ModeLoop(below)
  /\ f.kind = "loop" /\ f.by = "item" => below.kind = "loop" /\ below.input \in Setting

DebugOK(f, k) ==
  /\ f.kind = "loop" /\ f.menu \in DebugMenu
  /\ f.input \in Setting => k <= DebugLevel(f.menu)

StackOK(s, md) ==
  /\ s \in Seq(FrameType)
  /\ s # <<>> => s[1] = MainLoop
  /\ \A k \in 1 .. Len(s) : FrameOK(s[k], k)
  /\ \A k \in 2 .. Len(s) : CallerOK(s[k], s[k - 1])
  /\ md = "debug" => \A k \in 1 .. Len(s) : DebugOK(s[k], k)

(* Autorun is the mode exactly while its frame is on the stack: on top, or *)
(* below the test run that it waits for.                                   *)
AutorunOK(s, md) ==
  /\ md = "autorun" =>
       /\ Len(s) \in {3, 4} /\ s[3].kind = "autorun"
       /\ Len(s) = 4 => s[4].kind = "run" /\ s[4].at # "over"
  /\ md # "autorun" => \A k \in 1 .. Len(s) : s[k].kind # "autorun"

ShellInv ==
  /\ mode \in Mode /\ comm \in {"tftp", "xmodem"}
  /\ StackOK(stack, mode)
  /\ AutorunOK(stack, mode)
  /\ RefreshesDisplayed

-----------------------------------------------------------------------------
(* What the items of a menu are.                                           *)
Leads(m) ==
  CASE m = "main" -> {Edit, Sub("mode")}
    [] m = "mode" -> { Appl(f) : f \in {"regress_run", "config_debug", "leaf", "console"}
                                         \union DOMAIN Config }
    [] m = "execution" -> {Appl("test_go"), Appl("leaf"), Edit, Sub("log")}
    [] m = "ram_carve" -> {Edit}
    [] m \in FileMgr -> {Appl("download_run"), Edit}
    [] m = "tftp" -> {Appl("fileio_tftp"), Ctl, Edit}
    [] m = "xmodem" -> {Appl("leaf"), Ctl, Edit}
    [] m \in {"log", "builtin"} -> {Appl("leaf")}
    [] m = "debug_list" -> {Sub("builtin")}
    [] m = "master" -> {Appl("test_execution"), [type |-> "list", to |-> "list"]}
    [] m = "list" -> {Appl("test_execution"), Sub("test")}
    [] m = "test" -> {Appl("test_execution"), Edit}

LEMMA Concatenated ==
  ASSUME NEW S, NEW p \in Seq(S), NEW q \in Seq(S), NEW i \in DOMAIN (p \o q)
  PROVE  (\E j \in DOMAIN p : (p \o q)[i] = p[j]) \/ (\E j \in DOMAIN q : (p \o q)[i] = q[j])
OBVIOUS

LEMMA EditsSeq ==
  ASSUME NEW n \in Nat
  PROVE  Edits(n) \in Seq({Edit}) /\ \A j \in DOMAIN Edits(n) : Edits(n)[j] = Edit
BY DEF Edits

LEMMA ItemLeads ==
  ASSUME NEW m \in MenuName, NEW i \in DOMAIN itemlist(m)
  PROVE  itemlist(m)[i] \in Leads(m)
<1>1. m \in FileMgr \/ m \in DOMAIN Menus
  BY DEF MenuName
<1>2. CASE m \in FileMgr
  <2>1. itemlist(m) = <<Appl("download_run")>> \o Edits(15)
    BY <1>2 DEF itemlist, file_mgr_menu
  <2>2. QED
    BY <1>2, <2>1, EditsSeq DEF Leads, FileMgr, Tls
<1>3. CASE m = "main"
  BY <1>3 DEF itemlist, Menus, main_menu, Leads, FileMgr, Tls
<1>4. CASE m = "mode"
  BY <1>4 DEF itemlist, Menus, mode_menu, Leads, FileMgr, Tls, Config
<1>5. CASE m = "tftp"
  <2>1. itemlist(m) = <<Appl("fileio_tftp"), Ctl>> \o Edits(8)
    BY <1>5 DEF itemlist, Menus, tftp_menu, FileMgr, Tls
  <2>2. QED
    BY <1>5, <2>1, EditsSeq DEF Leads, FileMgr, Tls
<1>6. CASE m = "xmodem"
  <2>1. itemlist(m) = <<Appl("leaf"), Ctl>> \o Edits(4)
    BY <1>6 DEF itemlist, Menus, xmodem_menu, FileMgr, Tls
  <2>2. QED
    BY <1>6, <2>1, EditsSeq DEF Leads, FileMgr, Tls
<1>7. CASE m = "ram_carve"
  <2>1. itemlist(m) = Edits(6)
    BY <1>7 DEF itemlist, Menus, ram_carve_menu, FileMgr, Tls
  <2>2. QED
    BY <1>7, <2>1, EditsSeq DEF Leads, FileMgr, Tls
<1>8. CASE m = "execution"
  BY <1>8 DEF itemlist, Menus, execution_menu, Leads, FileMgr, Tls
<1>9. CASE m \in {"log", "builtin", "debug_list", "master", "list", "test"}
  BY <1>9 DEF itemlist, Menus, Leads, FileMgr, Tls
<1>10. QED
  BY <1>1, <1>2, <1>3, <1>4, <1>5, <1>6, <1>7, <1>8, <1>9 DEF Menus

LEMMA LevelBound == \A m \in MenuName : Level(m) \in 1 .. 8
BY DEF MenuName, Menus, Level, FileMgr, Tls

-----------------------------------------------------------------------------
(* What a push and a pop do to the stack.                                  *)
LEMMA PushOK ==
  ASSUME NEW s, NEW md, StackOK(s, md), s # <<>>, NEW f \in FrameType,
         FrameOK(f, Len(s) + 1), CallerOK(f, s[Len(s)]),
         md = "debug" => DebugOK(f, Len(s) + 1)
  PROVE  /\ StackOK(Append(s, f), md)
         /\ Len(Append(s, f)) = Len(s) + 1 /\ Append(s, f)[Len(s) + 1] = f
         /\ \A k \in 1 .. Len(s) : Append(s, f)[k] = s[k]
<1> DEFINE t == Append(s, f)
<1>1. s \in Seq(FrameType) /\ Len(s) \in Nat \ {0}
  BY DEF StackOK
<1>2. /\ t \in Seq(FrameType) /\ Len(t) = Len(s) + 1 /\ t[Len(s) + 1] = f
      /\ \A k \in 1 .. Len(s) : t[k] = s[k]
  BY <1>1
<1> HIDE DEF t
<1>3. t # <<>> /\ t[1] = MainLoop
  BY <1>1, <1>2 DEF StackOK
<1>4. \A k \in 1 .. Len(t) : FrameOK(t[k], k)
  BY <1>1, <1>2 DEF StackOK
<1>5. \A k \in 2 .. Len(t) : CallerOK(t[k], t[k - 1])
  <2> TAKE k \in 2 .. Len(t)
  <2>1. CASE k = Len(s) + 1
    BY <1>1, <1>2, <2>1
  <2>2. CASE k \in 2 .. Len(s)
    BY <1>1, <1>2, <2>2 DEF StackOK
  <2>3. QED
    BY <1>1, <1>2, <2>1, <2>2
<1>6. md = "debug" => \A k \in 1 .. Len(t) : DebugOK(t[k], k)
  BY <1>1, <1>2 DEF StackOK
<1>7. StackOK(t, md)
  BY <1>2, <1>3, <1>4, <1>5, <1>6 DEF StackOK
<1>8. QED
  BY <1>2, <1>7 DEF t

LEMMA PopOK ==
  ASSUME NEW s, NEW md, StackOK(s, md), s # <<>>
  PROVE  /\ StackOK(SubSeq(s, 1, Len(s) - 1), md)
         /\ Len(SubSeq(s, 1, Len(s) - 1)) = Len(s) - 1
         /\ \A k \in 1 .. Len(s) - 1 : SubSeq(s, 1, Len(s) - 1)[k] = s[k]
<1> DEFINE t == SubSeq(s, 1, Len(s) - 1)
<1>1. s \in Seq(FrameType) /\ Len(s) \in Nat \ {0}
  BY DEF StackOK
<1>2. /\ t \in Seq(FrameType) /\ Len(t) = Len(s) - 1
      /\ \A k \in 1 .. Len(s) - 1 : t[k] = s[k]
  <2>1. \A k \in 1 .. Len(s) - 1 : s[k] \in FrameType
    BY <1>1
  <2>2. Len(s) - 1 \in Int /\ (1 > Len(s) - 1 => Len(s) - 1 = 0)
    BY <1>1
  <2>3. /\ t \in Seq(FrameType)
        /\ Len(t) = IF 1 <= Len(s) - 1 THEN (Len(s) - 1) - 1 + 1 ELSE 0
        /\ \A k \in 1 .. (Len(s) - 1) - 1 + 1 : t[k] = s[1 + k - 1]
    BY <2>1, <2>2, SubSeqProperties
  <2>4. QED
    BY <2>2, <2>3
<1> HIDE DEF t
<1>3. t # <<>> => t[1] = MainLoop
  BY <1>1, <1>2 DEF StackOK
<1>4. /\ \A k \in 1 .. Len(t) : FrameOK(t[k], k)
      /\ \A k \in 2 .. Len(t) : CallerOK(t[k], t[k - 1])
  BY <1>1, <1>2 DEF StackOK
<1>5. md = "debug" => \A k \in 1 .. Len(t) : DebugOK(t[k], k)
  BY <1>1, <1>2 DEF StackOK
<1>6. StackOK(t, md)
  BY <1>2, <1>3, <1>4, <1>5 DEF StackOK
<1>7. QED
  BY <1>2, <1>6 DEF t

(* The mode is set in the mode menu, below which there is only the main    *)
(* menu.                                                                   *)
LEMMA ModeMenuDepth ==
  ASSUME NEW s, NEW md, StackOK(s, md), NEW k \in 1 .. Len(s), ModeLoop(s[k])
  PROVE  k = 2
<1>1. FrameOK(s[k], k) /\ s # <<>> /\ s[1] = MainLoop /\ k \in Nat
  BY DEF StackOK
<1>2. k <= 2
  <2>1. k <= Level(s[k].menu) /\ s[k].menu = "mode"
    BY <1>1 DEF FrameOK, ModeLoop, Setting
  <2>2. Level("mode") = 2
    BY DEF Level, FileMgr, Tls
  <2>3. QED
    BY <2>1, <2>2
<1>3. ~ModeLoop(MainLoop)
  BY DEF ModeLoop, MainLoop, Loop
<1>4. QED
  BY <1>1, <1>2, <1>3

LEMMA ModeOK ==
  ASSUME NEW s, NEW md, StackOK(s, md), Len(s) \in {1, 2},
         Len(s) = 2 => ModeLoop(s[2]), NEW to
  PROVE  StackOK(s, to)
<1>1. s \in Seq(FrameType) /\ s[1] = MainLoop /\ s # <<>>
  BY DEF StackOK
<1>2. DebugOK(s[1], 1)
  BY <1>1 DEF MainLoop, Loop, DebugOK, DebugMenu, DebugLevel, Level
<1>3. Len(s) = 2 => DebugOK(s[2], 2)
  BY DEF ModeLoop, DebugOK, DebugMenu, DebugLevel, Level
<1>4. \A k \in 1 .. Len(s) : DebugOK(s[k], k)
  BY <1>2, <1>3
<1>5. QED
  BY <1>4 DEF StackOK

(* A loop that is called from the top of the stack, in a mode other than   *)
(* autorun.                                                                *)
LEMMA CallOK ==
  ASSUME NEW s, NEW md, md # "autorun", StackOK(s, md), AutorunOK(s, md), s # <<>>,
         NEW f \in LoopFrame \union RunFrame \union ThenFrame,
         FrameOK(f, Len(s) + 1), CallerOK(f, s[Len(s)]),
         md = "debug" => DebugOK(f, Len(s) + 1)
  PROVE  /\ StackOK(Append(s, f), md) /\ AutorunOK(Append(s, f), md)
         /\ Len(Append(s, f)) = Len(s) + 1 /\ Append(s, f)[Len(s) + 1] = f
<1>1. f \in FrameType /\ f.kind # "autorun" /\ Len(s) \in Nat
  BY DEF FrameType, LoopFrame, RunFrame, ThenFrame, StackOK
<1>2. /\ StackOK(Append(s, f), md)
      /\ Len(Append(s, f)) = Len(s) + 1 /\ Append(s, f)[Len(s) + 1] = f
      /\ \A k \in 1 .. Len(s) : Append(s, f)[k] = s[k]
  BY <1>1, PushOK
<1>3. AutorunOK(Append(s, f), md)
  BY <1>1, <1>2 DEF AutorunOK
<1>4. QED
  BY <1>2, <1>3

(* The loop the operator is in.                                            *)
LEMMA LoopShape ==
  ASSUME ShellInv, AtLoop
  PROVE  /\ stack # <<>> /\ Depth \in Nat \ {0} /\ Frame = stack[Depth]
         /\ Frame \in LoopFrame /\ FrameOK(Frame, Depth)
         /\ mode # "autorun"
         /\ mode = "debug" => DebugOK(Frame, Depth)
<1>1. stack \in Seq(FrameType) /\ stack # <<>> /\ Depth \in Nat \ {0}
  BY DEF ShellInv, StackOK, AtLoop, Depth
<1>2. Frame \in FrameType /\ Frame.kind = "loop" /\ Frame = stack[Depth]
  BY <1>1 DEF AtLoop, Frame, Depth
<1>3. Frame \in LoopFrame
  BY <1>2 DEF FrameType, LoopFrame, ThenFrame, AutorunFrame, RunFrame
<1>4. FrameOK(Frame, Depth) /\ (mode = "debug" => DebugOK(Frame, Depth))
  BY <1>1, <1>2 DEF ShellInv, StackOK, Depth
<1>5. mode # "autorun"
  <2> SUFFICES ASSUME mode = "autorun" PROVE FALSE
    OBVIOUS
  <2>1. /\ Depth \in {3, 4} /\ stack[3].kind = "autorun"
        /\ Depth = 4 => stack[4].kind = "run"
    BY DEF ShellInv, AutorunOK, Depth
  <2>2. QED
    BY <1>2, <2>1
<1>6. QED
  BY <1>1, <1>2, <1>3, <1>4, <1>5

(* What a loop calls keeps the invariant when its place is right.          *)
LEMMA LoopCalls ==
  ASSUME ShellInv, AtLoop, NEW md \in Mode \ {"autorun"}, StackOK(stack, md),
         NEW input \in Setting \union Editor, NEW m \in MenuName,
         NEW by \in {"item", "key"}, Call(stack, input, m, by),
         FrameOK(Loop(input, m, by), Depth + 1),
         by = "item" => Frame.input \in Setting,
         md = "debug" => DebugOK(Loop(input, m, by), Depth + 1),
         input \in Editor => m = Frame.menu,
         mode' = md, comm' \in {"tftp", "xmodem"}
  PROVE  ShellInv'
<1> DEFINE f == Loop(input, m, by)
<1>1. /\ f \in LoopFrame /\ f.kind = "loop" /\ f.input = input /\ f.menu = m /\ f.by = by
  BY DEF Loop, LoopFrame
<1>2. /\ stack # <<>> /\ Depth \in Nat \ {0} /\ Frame = stack[Depth]
      /\ Frame \in LoopFrame /\ mode # "autorun"
  BY LoopShape
<1>3. stack' = Append(stack, f) /\ this_menu' = Shows(input, m)
  BY DEF Call
<1> HIDE DEF f
<1>4. CallerOK(f, stack[Len(stack)])
  BY <1>1, <1>2 DEF CallerOK, Depth, LoopFrame
<1>5. AutorunOK(stack, md)
  BY <1>2 DEF ShellInv, AutorunOK
<1>6. StackOK(stack', md) /\ AutorunOK(stack', md)
  BY <1>1, <1>2, <1>3, <1>4, <1>5, CallOK DEF f, Depth
<1>7. stack \in Seq(FrameType) /\ f \in FrameType
  BY <1>1 DEF StackOK, FrameType
<1>8. Frame' = f
  BY <1>3, <1>7 DEF Frame, Depth
<1>9. RefreshesDisplayed'
  BY <1>1, <1>2, <1>3, <1>8 DEF ShellInv, RefreshesDisplayed, Shows, Setting, Editor
<1>10. QED
  BY <1>6, <1>9 DEF ShellInv

-----------------------------------------------------------------------------
(* In which menu an item can be selected.                                  *)
LEMMA LeadsFrom ==
  ASSUME NEW m \in MenuName
  PROVE  /\ \A x : Sub(x) \in Leads(m) =>
              <<m, x>> \in {<<"main", "mode">>, <<"execution", "log">>,
                           <<"debug_list", "builtin">>, <<"list", "test">>}
         /\ [type |-> "list", to |-> "list"] \in Leads(m) => m = "master"
         /\ \A f \in DOMAIN Config \union {"regress_run", "config_debug", "console"} :
              Appl(f) \in Leads(m) => m = "mode"
         /\ Appl("test_execution") \in Leads(m) => m \in {"master", "list", "test"}
         /\ Appl("test_go") \in Leads(m) => m = "execution"
         /\ Appl("download_run") \in Leads(m) => m \in FileMgr
         /\ Ctl \in Leads(m) => m \in {"tftp", "xmodem"}
         /\ Appl("fileio_tftp") \in Leads(m) => m = "tftp"
BY DEF MenuName, Menus, FileMgr, Tls, Leads, Sub, Appl, Edit, Ctl, Config

LEMMA Selecting ==
  ASSUME ShellInv, NEW i, NEW item, Selected(i, item)
  PROVE  /\ AtLoop /\ Frame.input \in Setting /\ Frame.menu \in MenuName
         /\ item \in Leads(Frame.menu)
<1>1. AtLoop /\ Frame.input \in Setting /\ i \in DOMAIN itemlist(Frame.menu)
  BY DEF Selected, Enter, Setting
<1>2. Frame.menu \in MenuName
  BY <1>1, LoopShape DEF LoopFrame
<1>3. QED
  BY <1>1, <1>2, ItemLeads DEF Selected

(* The place a menu is called at by an item of another one.                *)
LEMMA NextLevel ==
  ASSUME ShellInv, AtLoop, Frame.input \in Setting, NEW x \in MenuName,
         NEW by \in {"item", "key"},
         Level(x) >= Level(Frame.menu) + 1,
         x = "test" => by = "item",
         x \notin FileMgr, x \in Method /\ by = "item" => Depth = 4,
         mode = "debug" => x \in DebugMenu /\ DebugLevel(x) >= DebugLevel(Frame.menu) + 1,
         NEW input \in Setting, input = "list" => x = "list"
  PROVE  /\ FrameOK(Loop(input, x, by), Depth + 1)
         /\ mode = "debug" => DebugOK(Loop(input, x, by), Depth + 1)
<1>1. /\ Depth \in Nat /\ Frame \in LoopFrame /\ FrameOK(Frame, Depth)
      /\ mode = "debug" => DebugOK(Frame, Depth)
  BY LoopShape
<1>2. Frame.menu \in MenuName /\ Frame.kind = "loop"
  BY <1>1 DEF LoopFrame
<1>3. Level(x) \in Nat /\ Level(Frame.menu) \in Nat
  BY <1>2, LevelBound
<1>4. Depth <= Level(Frame.menu)
  BY <1>1, <1>2 DEF FrameOK
<1>5. Depth + 1 <= Level(x)
  BY <1>1, <1>3, <1>4
<1>6. FrameOK(Loop(input, x, by), Depth + 1)
  BY <1>5 DEF FrameOK, Loop, Setting, Method
<1>7. ASSUME mode = "debug" PROVE DebugOK(Loop(input, x, by), Depth + 1)
  <2>1. Depth <= DebugLevel(Frame.menu) /\ DebugLevel(Frame.menu) \in Nat
        /\ DebugLevel(x) \in Nat
    BY <1>1, <1>3, <1>7 DEF DebugOK, DebugLevel
  <2>2. Depth + 1 <= DebugLevel(x)
    BY <1>1, <1>7, <2>1
  <2>3. QED
    BY <1>7, <2>2 DEF DebugOK, Loop
<1>8. QED
  BY <1>6, <1>7

LEMMA Levels ==
  /\ Level("main") = 1 /\ Level("mode") = 2
  /\ Level("master") = 3 /\ Level("debug_list") = 3
  /\ Level("list") = 4 /\ Level("builtin") = 4 /\ \A m \in FileMgr : Level(m) = 4
  /\ Level("test") = 5 /\ Level("tftp") = 5 /\ Level("xmodem") = 5
  /\ Level("execution") = 6 /\ Level("log") = 7 /\ Level("ram_carve") = 8
BY DEF Level, FileMgr, Tls

-----------------------------------------------------------------------------
(* The items of the menus.                                                 *)
LEMMA StayStep ==
  ASSUME ShellInv, AtLoop, Frame.input \in Setting, Stay, mode' = mode, comm' = comm
  PROVE  ShellInv'
<1>1. stack' = stack /\ this_menu' = Frame.menu /\ mode # "autorun"
  BY LoopShape DEF Stay, Shows
<1>2. StackOK(stack', mode') /\ AutorunOK(stack', mode')
  BY <1>1 DEF ShellInv
<1>3. Frame' = Frame
  BY <1>1 DEF Frame, Depth
<1>4. RefreshesDisplayed'
  BY <1>1, <1>3 DEF RefreshesDisplayed
<1>5. QED
  BY <1>1, <1>2, <1>4 DEF ShellInv

LEMMA MenuItemStep ==
  ASSUME ShellInv, NEW i,
         \/ \E m \in DOMAIN Menus : EnterMenu(i, m)
         \/ EnterList(i) \/ test_execution_appl(i) \/ download_run_appl(i)
  PROVE  ShellInv'
<1>0. /\ mode' = mode /\ comm' = comm /\ mode \in Mode /\ comm \in {"tftp", "xmodem"}
      /\ AtLoop /\ StackOK(stack, mode)
  BY Selecting DEF EnterMenu, EnterList, test_execution_appl, download_run_appl, method,
                   ShellInv
<1>1. mode # "autorun" /\ (mode = "debug" => Frame.menu \in DebugMenu)
  BY <1>0, LoopShape DEF DebugOK
<1> DEFINE Goes(input, x) ==
             /\ Call(stack, input, x, "item") /\ input \in Setting /\ x \in MenuName
             /\ Frame.input \in Setting
             /\ Level(x) >= Level(Frame.menu) + 1
             /\ x \notin FileMgr /\ (x \in Method => Depth = 4)
             /\ mode = "debug" => x \in DebugMenu /\ DebugLevel(x) >= DebugLevel(Frame.menu) + 1
             /\ input = "list" => x = "list"
<1>2. ASSUME NEW input, NEW x, Goes(input, x) PROVE ShellInv'
  <2>1. /\ FrameOK(Loop(input, x, "item"), Depth + 1)
        /\ mode = "debug" => DebugOK(Loop(input, x, "item"), Depth + 1)
    BY <1>0, <1>2, NextLevel
  <2>2. QED
    BY <1>0, <1>1, <1>2, <2>1, LoopCalls DEF Setting, Editor
<1>3. ASSUME NEW m \in DOMAIN Menus, EnterMenu(i, m) PROVE \E input, x : Goes(input, x)
  <2>1. /\ Frame.input \in Setting /\ Frame.menu \in MenuName /\ Sub(m) \in Leads(Frame.menu)
        /\ Call(stack, "menu", m, "item")
    BY <1>3, Selecting DEF EnterMenu
  <2>2. <<Frame.menu, m>> \in {<<"main", "mode">>, <<"execution", "log">>,
                                <<"debug_list", "builtin">>, <<"list", "test">>}
    BY <2>1, LeadsFrom
  <2>3. Level(m) >= Level(Frame.menu) + 1
    BY <2>2, Levels
  <2>4. mode = "debug" => m \in DebugMenu /\ DebugLevel(m) >= DebugLevel(Frame.menu) + 1
    BY <1>1, <2>2, <2>3 DEF DebugMenu, DebugLevel
  <2>5. Goes("menu", m)
    BY <2>1, <2>2, <2>3, <2>4 DEF MenuName, Setting, Method, FileMgr, Tls
  <2>6. QED
    BY <2>5
<1>4. ASSUME EnterList(i) PROVE \E input, x : Goes(input, x)
  <2>1. /\ Frame.input \in Setting /\ Frame.menu = "master"
        /\ Call(stack, "list", "list", "item")
    BY <1>4, Selecting, LeadsFrom DEF EnterList
  <2>2. Level("list") >= Level(Frame.menu) + 1 /\ Frame.menu \notin DebugMenu
    BY <2>1, Levels DEF DebugMenu
  <2>3. Goes("list", "list")
    BY <1>1, <2>1, <2>2 DEF MenuName, Menus, Setting, Method, FileMgr, Tls
  <2>4. QED
    BY <2>3
<1>5. ASSUME test_execution_appl(i) PROVE \E input, x : Goes(input, x)
  <2>1. /\ Frame.input \in Setting /\ Frame.menu \in {"master", "list", "test"}
        /\ Call(stack, "menu", "execution", "item")
    BY <1>5, Selecting, LeadsFrom DEF test_execution_appl
  <2>2. Level("execution") >= Level(Frame.menu) + 1 /\ Frame.menu \notin DebugMenu
    BY <2>1, Levels DEF DebugMenu
  <2>3. Goes("menu", "execution")
    BY <1>1, <2>1, <2>2 DEF MenuName, Menus, Setting, Method, FileMgr, Tls
  <2>4. QED
    BY <2>3
<1>6. ASSUME download_run_appl(i) PROVE \E input, x : Goes(input, x)
  <2>1. /\ Frame.input \in Setting /\ Frame.menu \in FileMgr
        /\ Call(stack, "menu", comm, "item")
    BY <1>6, Selecting, LeadsFrom DEF download_run_appl
  <2>2. Level(comm) >= Level(Frame.menu) + 1 /\ Frame.menu \notin DebugMenu
    BY <1>0, <2>1, Levels DEF DebugMenu, FileMgr, Tls
  <2>3. Depth = 4
    BY <1>0, <2>1, LoopShape DEF FrameOK, LoopFrame
  <2>4. Goes("menu", comm)
    BY <1>0, <1>1, <2>1, <2>2, <2>3 DEF MenuName, Menus, Setting, FileMgr, Tls
  <2>5. QED
    BY <2>4
<1> HIDE DEF Goes
<1>7. QED
  BY <1>2, <1>3, <1>4, <1>5, <1>6

(* The applications that set the mode: only in the mode menu.              *)
LEMMA InModeMenu ==
  ASSUME ShellInv, AtLoop, Frame.input \in Setting, Frame.menu = "mode"
  PROVE  Depth = 2 /\ ModeLoop(Frame) /\ \A md : StackOK(stack, md)
<1>1. /\ Frame.kind = "loop" /\ Frame.input = "menu" /\ stack # <<>>
      /\ Depth \in Nat \ {0} /\ Frame = stack[Depth] /\ FrameOK(Frame, Depth)
  BY LoopShape DEF FrameOK, LoopFrame, Setting
<1>2. ModeLoop(Frame)
  BY <1>1 DEF ModeLoop
<1>3. Depth = 2
  <2>1. Depth \in 1 .. Len(stack) /\ ModeLoop(stack[Depth])
    BY <1>1, <1>2 DEF Depth
  <2>2. StackOK(stack, mode)
    BY DEF ShellInv
  <2>3. QED
    BY <2>1, <2>2, ModeMenuDepth
<1>4. \A md : StackOK(stack, md)
  BY <1>1, <1>2, <1>3, ModeOK DEF ShellInv, Depth
<1>5. QED
  BY <1>2, <1>3, <1>4

LEMMA ModeItemStep ==
  ASSUME ShellInv, NEW i, config_debug_appl(i) \/ console_appl(i)
  PROVE  ShellInv'
<1>1. /\ AtLoop /\ Frame.input \in Setting /\ Frame.menu = "mode"
  BY Selecting, LeadsFrom DEF config_debug_appl, console_appl
<1>2. /\ Depth = 2 /\ \A md : StackOK(stack, md)
  BY <1>1, InModeMenu
<1>3. PICK md \in {"debug", "default"}, x \in {"debug_list", "master"} :
        /\ mode' = md /\ comm' = comm /\ Call(stack, "menu", x, "item")
        /\ md = "debug" => x = "debug_list"
  BY DEF config_debug_appl, console_appl, menu_list_appl, method
<1>4. FrameOK(Loop("menu", x, "item"), Depth + 1)
  BY <1>2, Levels DEF FrameOK, Loop, Setting, Method, FileMgr, Tls
<1>5. md = "debug" => DebugOK(Loop("menu", x, "item"), Depth + 1)
  BY <1>2, <1>3, Levels DEF DebugOK, DebugMenu, DebugLevel, Loop, Setting
<1>6. comm \in {"tftp", "xmodem"} /\ md \in Mode \ {"autorun"} /\ x \in MenuName
  BY DEF ShellInv, Mode, MenuName, Menus
<1>7. QED
  BY <1>1, <1>2, <1>3, <1>4, <1>5, <1>6, LoopCalls DEF Setting, Editor

LEMMA ConfigItemStep ==
  ASSUME ShellInv, NEW i, NEW f \in DOMAIN Config, config_appl(i, f)
  PROVE  ShellInv'
<1>1. /\ AtLoop /\ Frame.input \in Setting /\ Frame.menu = "mode"
  BY Selecting, LeadsFrom DEF config_appl
<1>2. /\ Depth = 2 /\ ModeLoop(Frame) /\ \A md : StackOK(stack, md)
  BY <1>1, InModeMenu
<1> DEFINE md == Config[f].mode
           m == Config[f].mgr
           t == Append(stack, Then("list"))
           top == Loop("menu", m, "app")
<1>3. md \in {"config", "default"} /\ m \in FileMgr
  BY DEF Config, FileMgr, Tls
<1>4. /\ stack' = Append(t, top) /\ this_menu' = m /\ mode' = md /\ comm' = comm
  BY DEF config_appl, Call, Shows, Setting, method
<1>5. stack # <<>> /\ Frame = stack[Len(stack)] /\ Len(stack) = 2 /\ mode # "autorun"
  BY <1>1, <1>2, LoopShape DEF Depth
<1>6. /\ Then("list") \in ThenFrame /\ FrameOK(Then("list"), 3)
      /\ CallerOK(Then("list"), Frame) /\ Len(stack) + 1 = 3
  BY <1>2, <1>5 DEF Then, ThenFrame, FrameOK, CallerOK
<1>7. AutorunOK(stack, md) /\ StackOK(stack, md) /\ md # "debug" /\ md # "autorun"
  BY <1>2, <1>3, <1>5 DEF ShellInv, AutorunOK
<1>8. StackOK(t, md) /\ AutorunOK(t, md) /\ Len(t) = 3 /\ t[3] = Then("list")
  <2>1. FrameOK(Then("list"), Len(stack) + 1) /\ CallerOK(Then("list"), stack[Len(stack)])
    BY <1>5, <1>6
  <2>2. Then("list") \in LoopFrame \union RunFrame \union ThenFrame
    BY <1>6
  <2> HIDE DEF md
  <2>3. /\ StackOK(t, md) /\ AutorunOK(t, md) /\ Len(t) = Len(stack) + 1
        /\ t[Len(stack) + 1] = Then("list")
    BY <1>5, <1>7, <2>1, <2>2, CallOK
  <2>4. QED
    BY <1>6, <2>3
<1>9. t # <<>> /\ Len(t) + 1 = 4
  BY <1>8
<1>10. /\ top \in LoopFrame /\ CallerOK(top, t[3])
  BY <1>3 DEF LoopFrame, Loop, CallerOK, Setting, MenuName
<1>11. FrameOK(top, 4)
  BY <1>3, Levels DEF FrameOK, Loop, Setting, FileMgr, Tls, Method
<1> HIDE DEF md, m, t, top
<1>12. StackOK(stack', md) /\ AutorunOK(stack', md)
  <2>1. FrameOK(top, Len(t) + 1) /\ CallerOK(top, t[Len(t)])
    BY <1>8, <1>9, <1>10, <1>11
  <2>2. QED
    BY <1>4, <1>7, <1>8, <1>9, <1>10, <2>1, CallOK
<1>13. this_menu' # "test"
  BY <1>3, <1>4 DEF FileMgr, Tls
<1>14. QED
  BY <1>3, <1>4, <1>12, <1>13 DEF ShellInv, Mode, RefreshesDisplayed

(* GO pushes a run, which is no loop.                                      *)
LEMMA GoItemStep ==
  ASSUME ShellInv, NEW i, test_go_appl(i)
  PROVE  ShellInv'
<1>1. /\ AtLoop /\ Frame.input \in Setting /\ Frame.menu = "execution"
      /\ stack' = Append(stack, Run("tests")) /\ mode' = mode /\ comm' = comm
  BY Selecting, LeadsFrom DEF test_go_appl, method
<1>2. /\ stack # <<>> /\ Depth \in Nat /\ FrameOK(Frame, Depth) /\ mode # "autorun"
      /\ Frame = stack[Depth] /\ mode # "debug" /\ Frame.kind = "loop"
  BY <1>1, LoopShape DEF DebugOK, DebugMenu, LoopFrame
<1>3. /\ FrameOK(Run("tests"), Depth + 1) /\ CallerOK(Run("tests"), Frame)
      /\ Run("tests").kind = "run" /\ Run("tests") \in RunFrame
  BY <1>1, <1>2, Levels DEF FrameOK, Run, CallerOK, RunFrame
<1>4. StackOK(stack', mode) /\ AutorunOK(stack', mode)
  BY <1>1, <1>2, <1>3, CallOK DEF ShellInv, Depth
<1>5. Frame' = Run("tests")
  BY <1>1, <1>2, <1>3 DEF Frame, Depth, ShellInv, StackOK, FrameType
<1>6. QED
  BY <1>1, <1>2, <1>3, <1>4, <1>5 DEF ShellInv, RefreshesDisplayed, AtLoop

(* METHOD exchanges the loop for one on the menu of the method.            *)
LEMMA MethodItemStep ==
  ASSUME ShellInv, NEW i, NEW typed, download_appl(i, typed)
  PROVE  ShellInv'
<1>1. /\ AtLoop /\ Frame.input \in Setting /\ Frame.menu \in {"tftp", "xmodem"}
  BY Selecting, LeadsFrom DEF download_appl
<1>2. comm' \in {"tftp", "xmodem"} /\ mode' = mode
  BY DEF download_appl, ShellInv
<1> DEFINE f == [Frame EXCEPT !.menu = comm']
<1>3. /\ stack # <<>> /\ Depth \in Nat \ {0} /\ Frame = stack[Depth]
      /\ Frame \in LoopFrame /\ FrameOK(Frame, Depth) /\ mode # "autorun"
      /\ mode # "debug"
  BY <1>1, LoopShape DEF DebugOK, DebugMenu
<1>4. /\ f \in LoopFrame /\ f.kind = "loop" /\ f.menu = comm' /\ f.by = Frame.by
      /\ f.input = Frame.input /\ Frame.kind = "loop"
  BY <1>2, <1>3 DEF LoopFrame, MenuName, Menus
<1>5. stack' = Append(Below, f) /\ this_menu' = comm'
  BY DEF download_appl, Replace
<1> HIDE DEF f
<1>6. /\ StackOK(Below, mode) /\ Len(Below) = Depth - 1
      /\ \A k \in 1 .. Depth - 1 : Below[k] = stack[k]
  BY <1>3, PopOK DEF ShellInv, Below, Depth
<1>7. FrameOK(f, Depth)
  BY <1>1, <1>2, <1>3, <1>4, Levels DEF FrameOK, Setting, Method, FileMgr, Tls
<1>8. Depth # 1
  <2> SUFFICES ASSUME Depth = 1 PROVE FALSE
    OBVIOUS
  <2>1. Frame = MainLoop
    BY <1>3 DEF ShellInv, StackOK
  <2>2. QED
    BY <1>1, <2>1 DEF MainLoop, Loop
<1>9. CallerOK(f, Below[Len(Below)]) /\ Below # <<>>
  <2>1. CallerOK(Frame, stack[Depth - 1])
    <3>0. Depth = Len(stack)
      BY DEF Depth
    <3>1. Depth \in 2 .. Len(stack)
      BY <1>3, <1>8, <3>0
    <3>2. CallerOK(stack[Depth], stack[Depth - 1])
      BY <3>1 DEF ShellInv, StackOK
    <3>3. QED
      BY <1>3, <3>2
  <2>2. Below[Len(Below)] = stack[Depth - 1] /\ Below # <<>>
    BY <1>3, <1>6, <1>8
  <2>3. QED
    BY <1>4, <2>1, <2>2 DEF CallerOK
<1>10. AutorunOK(Below, mode)
  BY <1>3, <1>6 DEF ShellInv, AutorunOK, Depth
<1>11. StackOK(stack', mode) /\ AutorunOK(stack', mode)
  BY <1>3, <1>4, <1>5, <1>6, <1>7, <1>9, <1>10, CallOK
<1>12. RefreshesDisplayed'
  BY <1>2, <1>5 DEF RefreshesDisplayed
<1>13. QED
  BY <1>2, <1>3, <1>11, <1>12 DEF ShellInv

LEMMA RegressItemStep ==
  ASSUME ShellInv, NEW i, regress_run_appl(i)
  PROVE  ShellInv'
<1>1. /\ AtLoop /\ Frame.input \in Setting /\ Frame.menu = "mode"
  BY Selecting, LeadsFrom DEF regress_run_appl
<1>2. /\ Depth = 2 /\ ModeLoop(Frame) /\ \A md : StackOK(stack, md)
  BY <1>1, InModeMenu
<1> DEFINE f == Autorun([n |-> 1, do |-> "stash"], mode)
<1>3. stack' = Append(stack, f) /\ mode' = "autorun" /\ comm' = comm
  BY DEF regress_run_appl, method
<1>4. stack # <<>> /\ Frame = stack[Len(stack)] /\ Len(stack) = 2 /\ mode # "autorun"
  BY <1>1, <1>2, LoopShape DEF Depth
<1>5. /\ f \in FrameType /\ FrameOK(f, 3) /\ CallerOK(f, Frame) /\ f.kind = "autorun"
  BY <1>2, <1>4 DEF Autorun, AutorunFrame, Steps, FrameType, FrameOK, CallerOK, ShellInv, Mode
<1> HIDE DEF f
<1>6. /\ StackOK(stack', "autorun") /\ Len(stack') = 3 /\ stack'[3] = f
  <2>1. /\ StackOK(stack, "autorun") /\ FrameOK(f, Len(stack) + 1)
        /\ CallerOK(f, stack[Len(stack)]) /\ Len(stack) + 1 = 3
    BY <1>2, <1>4, <1>5
  <2>2. /\ StackOK(Append(stack, f), "autorun")
        /\ Len(Append(stack, f)) = Len(stack) + 1 /\ Append(stack, f)[Len(stack) + 1] = f
    BY <1>4, <1>5, <2>1, PushOK
  <2>3. QED
    BY <1>3, <2>1, <2>2
<1>7. AutorunOK(stack', "autorun")
  BY <1>5, <1>6 DEF AutorunOK
<1>8. Frame' = f
  BY <1>6 DEF Frame, Depth
<1>9. QED
  BY <1>3, <1>5, <1>6, <1>7, <1>8 DEF ShellInv, Mode, RefreshesDisplayed, AtLoop, Depth

LEMMA ItemStep ==
  ASSUME ShellInv, NEW i, Item(i)
  PROVE  ShellInv'
<1>1. CASE EnterEdit(i) \/ fileio_tftp(i)
  BY <1>1, Selecting, StayStep DEF EnterEdit, fileio_tftp, method
<1>2. QED
  BY <1>1, MenuItemStep, ModeItemStep, ConfigItemStep, GoItemStep, MethodItemStep,
     RegressItemStep DEF Item

-----------------------------------------------------------------------------
(* The keys.                                                               *)
LEMMA CallKeyStep ==
  ASSUME ShellInv,
         \/ RamCarve \/ DownloadControl \/ menu_help
         \/ menu_policy("pass") \/ menu_policy("fail")
  PROVE  ShellInv'
<1>1. /\ AtLoop /\ mode' = mode /\ comm' = comm
      /\ mode \in Mode /\ comm \in {"tftp", "xmodem"} /\ StackOK(stack, mode)
  BY DEF RamCarve, DownloadControl, menu_help, menu_policy, At, method, ShellInv
<1>2. /\ Depth \in Nat \ {0} /\ Frame \in LoopFrame /\ FrameOK(Frame, Depth)
      /\ Frame.kind = "loop" /\ Frame.menu \in MenuName /\ mode # "autorun"
      /\ mode = "debug" => DebugOK(Frame, Depth)
  BY <1>1, LoopShape DEF LoopFrame
<1>3. CASE RamCarve
  <2>1. /\ Frame.input \in Setting /\ Frame.menu # "ram_carve"
        /\ Call(stack, "menu", "ram_carve", "key")
    BY <1>3 DEF RamCarve, At, NotTwice, Setting
  <2>2. Level("ram_carve") >= Level(Frame.menu) + 1
    BY <1>2, <2>1 DEF Level, MenuName, Menus, FileMgr, Tls
  <2>3. mode = "debug" => /\ "ram_carve" \in DebugMenu
                          /\ DebugLevel("ram_carve") >= DebugLevel(Frame.menu) + 1
    BY <1>2, <2>1, Levels DEF DebugOK, DebugMenu, DebugLevel
  <2>4. "ram_carve" \in MenuName
    BY DEF MenuName, Menus
  <2>5. /\ FrameOK(Loop("menu", "ram_carve", "key"), Depth + 1)
        /\ mode = "debug" => DebugOK(Loop("menu", "ram_carve", "key"), Depth + 1)
    BY <1>1, <2>1, <2>2, <2>3, <2>4, NextLevel DEF Setting, FileMgr, Tls
  <2>6. QED
    BY <1>1, <1>2, <2>1, <2>4, <2>5, LoopCalls DEF Setting, Editor
<1>4. CASE DownloadControl
  <2>1. Frame.menu = "file_mgr" /\ Call(stack, "menu", comm, "key")
    BY <1>4 DEF DownloadControl
  <2>2. Frame.menu \notin DebugMenu /\ comm \in MenuName
    BY <1>1, <2>1 DEF DebugMenu, MenuName, Menus
  <2>3. Frame.input \in Setting /\ mode # "debug"
    BY <1>2, <2>1, <2>2 DEF FrameOK, DebugOK, LoopFrame, Editor
  <2>4. Level(comm) >= Level(Frame.menu) + 1
    BY <1>1, <2>1, Levels DEF FileMgr, Tls
  <2>5. FrameOK(Loop("menu", comm, "key"), Depth + 1)
    BY <1>1, <2>2, <2>3, <2>4, NextLevel DEF Setting, FileMgr, Tls
  <2>6. QED
    BY <1>1, <1>2, <2>1, <2>2, <2>3, <2>5, LoopCalls DEF Setting, Editor
<1>5. CASE menu_help
  <2>1. /\ Frame.input \in Setting /\ mode = "debug"
        /\ Call(stack, "help", Frame.menu, "key")
    BY <1>5 DEF menu_help, At, Setting
  <2>2. Frame.menu \in DebugMenu /\ Depth + 1 <= 6
    BY <1>2, <2>1, Levels DEF DebugOK, DebugMenu, DebugLevel
  <2>3. FrameOK(Loop("help", Frame.menu, "key"), Depth + 1)
    BY <2>2 DEF FrameOK, Loop, Setting, DebugMenu, Method, FileMgr, Tls
  <2>4. DebugOK(Loop("help", Frame.menu, "key"), Depth + 1)
    BY <2>2 DEF DebugOK, Loop, Setting
  <2>5. QED
    BY <1>1, <1>2, <2>1, <2>3, <2>4, LoopCalls DEF Editor
<1>6. ASSUME NEW e \in {"pass", "fail"}, menu_policy(e) PROVE ShellInv'
  <2>1. Frame.input = "list" /\ Call(stack, e, Frame.menu, "key")
    BY <1>6 DEF menu_policy, At
  <2>2. Frame.menu = "list" /\ Depth <= 4
    BY <1>2, <2>1, Levels DEF FrameOK, Setting
  <2>3. mode # "debug"
    BY <1>2, <2>2 DEF DebugOK, DebugMenu
  <2>4. FrameOK(Loop(e, Frame.menu, "key"), Depth + 1)
    BY <1>2, <2>2 DEF FrameOK, Loop, Setting, Method, FileMgr, Tls
  <2>5. QED
    BY <1>1, <1>2, <2>1, <2>3, <2>4, LoopCalls DEF Editor
<1>7. QED
  BY <1>3, <1>4, <1>5, <1>6

(* The stack without its top frame.                                        *)
LEMMA BelowShape ==
  ASSUME ShellInv, stack # <<>>
  PROVE  /\ StackOK(Below, mode) /\ Len(Below) = Depth - 1 /\ Depth \in Nat \ {0}
         /\ \A k \in 1 .. Depth - 1 : Below[k] = stack[k]
         /\ Frame = stack[Depth] /\ Frame \in FrameType /\ FrameOK(Frame, Depth)
         /\ Depth > 1 => CallerOK(Frame, stack[Depth - 1]) /\ Below # <<>>
         /\ Depth = 1 => Frame = MainLoop
<1>1. Depth = Len(stack) /\ Frame = stack[Depth]
  BY DEF Depth, Frame
<1>2. stack \in Seq(FrameType) /\ Depth \in Nat \ {0} /\ StackOK(stack, mode)
  BY <1>1 DEF ShellInv, StackOK
<1>3. /\ StackOK(Below, mode) /\ Len(Below) = Depth - 1
      /\ \A k \in 1 .. Depth - 1 : Below[k] = stack[k]
  BY <1>1, <1>2, PopOK DEF Below
<1>4. Frame \in FrameType /\ FrameOK(Frame, Depth) /\ (Depth = 1 => Frame = MainLoop)
  BY <1>1, <1>2 DEF StackOK
<1>5. Depth > 1 => CallerOK(Frame, stack[Depth - 1])
  BY <1>1, <1>2 DEF StackOK
<1>6. Depth > 1 => Below # <<>>
  BY <1>2, <1>3
<1>7. QED
  BY <1>1, <1>2, <1>3, <1>4, <1>5, <1>6

LEMMA EscapeStep ==
  ASSUME ShellInv, Escape
  PROVE  ShellInv'
<1>1. AtLoop /\ Depth > 1 /\ Back /\ mode' = mode /\ comm' = comm
  BY DEF Escape, method
<1>2. mode # "autorun" /\ stack # <<>> /\ Frame \in LoopFrame /\ Frame.kind = "loop"
  BY <1>1, LoopShape DEF LoopFrame
<1>3. /\ stack' = Below /\ StackOK(Below, mode) /\ Len(Below) = Depth - 1 /\ Depth \in Nat
      /\ \A k \in 1 .. Depth - 1 : Below[k] = stack[k]
      /\ FrameOK(Frame, Depth) /\ CallerOK(Frame, stack[Depth - 1])
  BY <1>1, <1>2, BelowShape DEF Back
<1>4. AutorunOK(Below, mode)
  BY <1>2, <1>3 DEF ShellInv, AutorunOK, Depth
<1>5. RefreshesDisplayed'
  <2>1. Frame' = stack[Depth - 1]
    BY <1>1, <1>3 DEF Frame, Depth
  <2>2. CASE Frame.by = "item"
    <3>1. stack[Depth - 1].kind = "loop" /\ stack[Depth - 1].input \in Setting
      BY <1>2, <1>3, <2>2 DEF CallerOK
    <3>2. this_menu' = stack[Depth - 1].menu
      BY <1>1, <2>2, <3>1 DEF Back, Shows
    <3>3. QED
      BY <2>1, <3>2 DEF RefreshesDisplayed
  <2>3. CASE Frame.by # "item"
    <3>1. this_menu' = this_menu
      BY <1>1, <2>3 DEF Back
    <3>2. Frame.menu # "test"
      BY <1>2, <1>3, <2>3 DEF FrameOK
    <3>3. QED
      BY <1>1, <3>1, <3>2 DEF ShellInv, RefreshesDisplayed
  <2>4. QED
    BY <2>2, <2>3
<1>6. QED
  BY <1>1, <1>2, <1>3, <1>4, <1>5 DEF ShellInv

LEMMA MainOK == \A md : StackOK(<<MainLoop>>, md) /\ StackOK(<<>>, md)
<1>1. MainLoop \in FrameType /\ MainLoop.kind = "loop" /\ MainLoop.menu = "main"
      /\ MainLoop.input = "menu" /\ MainLoop.by = "app"
  BY DEF MainLoop, Loop, FrameType, LoopFrame, Setting, MenuName, Menus
<1>2. FrameOK(MainLoop, 1) /\ DebugOK(MainLoop, 1)
  BY <1>1, Levels DEF FrameOK, DebugOK, DebugMenu, DebugLevel, Setting, Method, FileMgr, Tls
<1>3. QED
  BY <1>1, <1>2 DEF StackOK

LEMMA MainStep ==
  ASSUME ShellInv, Quit \/ ids_main
  PROVE  ShellInv'
<1>1. stack \in {<<>>, <<MainLoop>>} /\ stack' \in {<<>>, <<MainLoop>>}
  BY DEF Quit, ids_main, MainLoop
<1>2. \A k \in DOMAIN <<MainLoop>> : <<MainLoop>>[k].kind = "loop"
  BY DEF MainLoop, Loop
<1>3. mode # "autorun" /\ mode' \in Mode \ {"autorun"} /\ comm' \in {"tftp", "xmodem"}
  <2>1. mode # "autorun"
    BY <1>1 DEF ShellInv, AutorunOK
  <2>2. QED
    BY <2>1 DEF ShellInv, Quit, ids_main, method, Mode
<1>4. StackOK(stack', mode') /\ AutorunOK(stack', mode')
  BY <1>1, <1>2, <1>3, MainOK DEF AutorunOK
<1>5. RefreshesDisplayed'
  BY DEF Quit, ids_main, RefreshesDisplayed, AtLoop
<1>6. QED
  BY <1>3, <1>4, <1>5 DEF ShellInv

-----------------------------------------------------------------------------
(* The applications that go on.                                            *)
LEMMA AfterConfigStep ==
  ASSUME ShellInv, AfterConfig
  PROVE  ShellInv'
<1>1. /\ stack # <<>> /\ Frame.kind = "then" /\ menu_list_appl(mode, Below)
      /\ mode' = mode /\ comm' = comm
  BY DEF AfterConfig, method
<1>2. /\ StackOK(Below, mode) /\ Len(Below) = Depth - 1
      /\ \A k \in 1 .. Depth - 1 : Below[k] = stack[k]
      /\ Frame = stack[Depth] /\ FrameOK(Frame, Depth)
      /\ Depth > 1 => CallerOK(Frame, stack[Depth - 1]) /\ Below # <<>>
  BY <1>1, BelowShape
<1>3. Depth = 3 /\ ModeLoop(stack[2]) /\ Below # <<>> /\ Depth = Len(stack)
  <2>1. Depth = 3 /\ ModeLoop(stack[2]) /\ Below # <<>>
    BY <1>1, <1>2 DEF FrameOK, CallerOK
  <2>2. QED
    BY <2>1 DEF Depth
<1>4. mode # "autorun"
  BY <1>1, <1>2, <1>3 DEF ShellInv, AutorunOK
<1>5. mode # "debug"
  <2>1. mode = "debug" => DebugOK(stack[3], 3)
    BY <1>3 DEF ShellInv, StackOK
  <2>2. QED
    BY <1>1, <1>2, <1>3, <2>1 DEF DebugOK
<1> DEFINE f == Loop("menu", "master", "item")
<1>6. stack' = Append(Below, f) /\ this_menu' = "master"
  BY <1>1, <1>5 DEF menu_list_appl, Call, Shows, Setting
<1>7. f \in LoopFrame /\ FrameOK(f, 3) /\ CallerOK(f, stack[2])
  BY <1>3, Levels DEF Loop, LoopFrame, FrameOK, CallerOK, ModeLoop, Setting, MenuName, Menus,
                     Method, FileMgr, Tls
<1> HIDE DEF f
<1>8. FrameOK(f, Len(Below) + 1) /\ CallerOK(f, Below[Len(Below)])
  BY <1>2, <1>3, <1>7
<1>9. AutorunOK(Below, mode)
  BY <1>2, <1>3, <1>4 DEF ShellInv, AutorunOK
<1>10. StackOK(stack', mode) /\ AutorunOK(stack', mode)
  BY <1>2, <1>3, <1>4, <1>5, <1>6, <1>7, <1>8, <1>9, CallOK
<1>11. QED
  BY <1>1, <1>4, <1>6, <1>10 DEF ShellInv, RefreshesDisplayed

(* A test run on top of the stack.                                         *)
LEMMA RunShape ==
  ASSUME ShellInv, NEW at, RunAt(at)
  PROVE  /\ stack # <<>> /\ Depth > 1 /\ Depth = Len(stack) /\ Frame = stack[Depth]
         /\ Frame.kind = "run" /\ Frame.at = at /\ Depth <= 7
         /\ StackOK(Below, mode) /\ Len(Below) = Depth - 1 /\ Below # <<>>
         /\ \A k \in 1 .. Depth - 1 : Below[k] = stack[k]
         /\ AutorunOK(Below, mode)
         /\ mode = "autorun" => Depth = 4 /\ at # "over"
         /\ mode # "debug"
<1>1. stack # <<>> /\ Frame.kind = "run" /\ Frame.at = at
  BY DEF RunAt, Run
<1>2. /\ StackOK(Below, mode) /\ Len(Below) = Depth - 1 /\ Depth \in Nat \ {0}
      /\ \A k \in 1 .. Depth - 1 : Below[k] = stack[k]
      /\ Frame = stack[Depth] /\ (Depth = 1 => Frame = MainLoop)
      /\ FrameOK(Frame, Depth) /\ (Depth > 1 => Below # <<>>)
  BY <1>1, BelowShape
<1>3. Depth > 1 /\ Depth = Len(stack) /\ Below # <<>> /\ Depth <= 7
  BY <1>1, <1>2 DEF MainLoop, Loop, Depth, FrameOK
<1>4. AutorunOK(Below, mode) /\ (mode = "autorun" => Depth = 4 /\ at # "over")
  BY <1>1, <1>2, <1>3 DEF ShellInv, AutorunOK
<1>5. mode # "debug"
  <2>1. mode = "debug" => DebugOK(stack[Depth], Depth)
    BY <1>2, <1>3 DEF ShellInv, StackOK
  <2>2. QED
    BY <1>1, <1>2, <2>1 DEF DebugOK
<1>6. QED
  BY <1>1, <1>2, <1>3, <1>4, <1>5

LEMMA ReturnsStep ==
  ASSUME ShellInv, NEW at, RunAt(at), Returns, mode' = mode, comm' = comm
  PROVE  ShellInv'
<1>1. stack' = Below
  BY DEF Returns
<1>2. /\ StackOK(Below, mode) /\ AutorunOK(Below, mode) /\ Len(Below) = Depth - 1
      /\ \A k \in 1 .. Depth - 1 : Below[k] = stack[k]
      /\ Depth > 1 /\ Depth = Len(stack)
  BY RunShape
<1>3. Frame' = stack[Depth - 1]
  BY <1>1, <1>2 DEF Frame, Depth
<1>4. RefreshesDisplayed'
  BY <1>3 DEF Returns, RefreshesDisplayed, AtLoop
<1>5. QED
  BY <1>1, <1>2, <1>4 DEF ShellInv

LEMMA WaitStep ==
  ASSUME ShellInv, NEW at, RunAt(at), NEW to \in {"tests", "pause", "over"},
         stack' = Replace(Run(to)), mode' = mode, comm' = comm,
         mode = "autorun" => to # "over"
  PROVE  ShellInv'
<1> DEFINE f == Run(to)
<1>1. f \in RunFrame /\ f.kind = "run" /\ f.at = to /\ f \in FrameType
  BY DEF Run, RunFrame, FrameType
<1>2. /\ Depth > 1 /\ Depth = Len(stack) /\ Depth <= 7 /\ mode # "debug"
      /\ StackOK(Below, mode) /\ Len(Below) = Depth - 1 /\ Below # <<>>
      /\ \A k \in 1 .. Depth - 1 : Below[k] = stack[k]
      /\ mode = "autorun" => Depth = 4
  BY RunShape
<1>3. stack' = Append(Below, f)
  BY DEF Replace
<1> HIDE DEF f
<1>4. FrameOK(f, Len(Below) + 1) /\ CallerOK(f, Below[Len(Below)])
  BY <1>1, <1>2 DEF FrameOK, CallerOK
<1>5. /\ StackOK(stack', mode) /\ Len(stack') = Depth /\ stack'[Depth] = f
      /\ \A k \in 1 .. Depth - 1 : stack'[k] = stack[k]
  <2>1. /\ StackOK(Append(Below, f), mode)
        /\ Len(Append(Below, f)) = Len(Below) + 1 /\ Append(Below, f)[Len(Below) + 1] = f
        /\ \A k \in 1 .. Len(Below) : Append(Below, f)[k] = Below[k]
    BY <1>1, <1>2, <1>4, PushOK
  <2>2. QED
    BY <1>2, <1>3, <2>1
<1>6. AutorunOK(stack', mode)
  BY <1>1, <1>2, <1>5 DEF ShellInv, AutorunOK
<1>7. Frame' = f
  BY <1>2, <1>5 DEF Frame, Depth
<1>8. QED
  BY <1>1, <1>5, <1>6, <1>7 DEF ShellInv, RefreshesDisplayed, AtLoop

LEMMA RunStep ==
  ASSUME ShellInv, exec_pause \/ RunEnds \/ HitAnyKey
  PROVE  ShellInv'
<1>1. mode' = mode /\ comm' = comm
  BY DEF exec_pause, RunEnds, HitAnyKey, method
<1>2. CASE exec_pause
  BY <1>1, <1>2, WaitStep DEF exec_pause
<1>3. CASE RunEnds
  <2>1. CASE mode = "autorun"
    BY <1>1, <1>3, <2>1, ReturnsStep DEF RunEnds
  <2>2. CASE mode # "autorun"
    BY <1>1, <1>3, <2>2, WaitStep DEF RunEnds
  <2>3. QED
    BY <2>1, <2>2
<1>4. CASE HitAnyKey
  BY <1>1, <1>4, ReturnsStep, WaitStep DEF HitAnyKey
<1>5. QED
  BY <1>2, <1>3, <1>4

(* Where regress_run_appl is when it goes on.                              *)
LEMMA AtAutorun ==
  ASSUME ShellInv, stack # <<>>, Frame.kind = "autorun"
  PROVE  /\ mode = "autorun" /\ Depth = 3 /\ Frame \in AutorunFrame
         /\ Frame.step.do # "done" => Frame.step.n <= 3
         /\ \A md : StackOK(Below, md)
         /\ Len(Below) = 2 /\ Below # <<>> /\ ModeLoop(Below[2])
         /\ \A k \in 1 .. 2 : Below[k].kind # "autorun"
<1>1. /\ StackOK(Below, mode) /\ Len(Below) = Depth - 1
      /\ \A k \in 1 .. Depth - 1 : Below[k] = stack[k]
      /\ Frame = stack[Depth] /\ FrameOK(Frame, Depth) /\ Frame \in FrameType
      /\ Depth > 1 => CallerOK(Frame, stack[Depth - 1]) /\ Below # <<>>
  BY BelowShape
<1>2. Depth = 3 /\ Depth = Len(stack) /\ (Frame.step.do # "done" => Frame.step.n <= 3)
  BY <1>1 DEF FrameOK, Depth
<1>3. Len(Below) = 2 /\ Below # <<>> /\ ModeLoop(Below[2])
  BY <1>1, <1>2 DEF CallerOK
<1>4. mode = "autorun"
  BY <1>1, <1>2 DEF ShellInv, AutorunOK
<1>5. Frame \in AutorunFrame
  BY <1>1 DEF FrameType, LoopFrame, ThenFrame, RunFrame
<1>6. \A md : StackOK(Below, md)
  BY <1>1, <1>3, ModeOK
<1>7. \A k \in 1 .. 2 : Below[k].kind # "autorun"
  BY <1>1, <1>3 DEF StackOK, FrameOK
<1>8. QED
  BY <1>2, <1>3, <1>4, <1>5, <1>6, <1>7

(* The frame of autorun with its next step in it.                          *)
LEMMA AutorunGoesOn ==
  ASSUME ShellInv, stack # <<>>, Frame.kind = "autorun",
         NEW f \in AutorunFrame, f.step.do # "done" => f.step.n <= 3
  PROVE  /\ StackOK(Replace(f), "autorun") /\ Len(Replace(f)) = 3 /\ Replace(f)[3] = f
         /\ f.kind = "autorun"
<1>1. /\ StackOK(Below, "autorun") /\ Len(Below) = 2 /\ Below # <<>> /\ ModeLoop(Below[2])
  BY AtAutorun
<1>2. f \in FrameType /\ f.kind = "autorun"
  BY DEF FrameType, AutorunFrame
<1>3. FrameOK(f, 3) /\ CallerOK(f, Below[2]) /\ Len(Below) + 1 = 3
  BY <1>1, <1>2 DEF FrameOK, CallerOK
<1>4. FrameOK(f, Len(Below) + 1) /\ CallerOK(f, Below[Len(Below)])
  BY <1>1, <1>3
<1>5. /\ StackOK(Append(Below, f), "autorun")
      /\ Len(Append(Below, f)) = Len(Below) + 1 /\ Append(Below, f)[Len(Below) + 1] = f
  BY <1>1, <1>2, <1>4, PushOK
<1>6. QED
  BY <1>2, <1>3, <1>5 DEF Replace

LEMMA RegressStep ==
  ASSUME ShellInv, RegressStash \/ RegressGet \/ RegressRun \/ RegressDone
  PROVE  ShellInv'
<1>1. stack # <<>> /\ Frame.kind = "autorun" /\ comm' \in {"tftp", "xmodem"}
  BY DEF RegressStash, RegressGet, RegressRun, RegressDone, AtRegress, method, ShellInv
<1>2. /\ mode = "autorun" /\ Frame \in AutorunFrame
      /\ Frame.step \in [n : 1 .. 4, do : Steps]
      /\ Frame.saved \in Mode \ {"autorun"}
      /\ Frame.step.do # "done" => Frame.step.n <= 3
  BY <1>1, AtAutorun DEF AutorunFrame
<1>3. CASE RegressStash \/ RegressGet
  <2> DEFINE f == [Frame EXCEPT !.step.do = IF RegressStash THEN "get" ELSE "run"]
  <2>1. f \in AutorunFrame /\ f.step.n <= 3
    BY <1>2, <1>3 DEF AutorunFrame, Steps, RegressStash, RegressGet, AtRegress
  <2>2. stack' = Replace(f) /\ mode' = mode
    BY <1>3 DEF RegressStash, RegressGet, AtRegress
  <2> HIDE DEF f
  <2>3. StackOK(stack', "autorun") /\ Len(stack') = 3 /\ stack'[3] = f /\ f.kind = "autorun"
    BY <1>1, <2>1, <2>2, AutorunGoesOn
  <2>4. AutorunOK(stack', "autorun")
    BY <2>3 DEF AutorunOK
  <2>5. Frame' = f /\ Depth' = 3
    BY <2>3 DEF Frame, Depth
  <2>6. QED
    BY <1>1, <1>2, <2>2, <2>3, <2>4, <2>5 DEF ShellInv, RefreshesDisplayed, AtLoop
<1>4. CASE RegressRun
  <2> DEFINE g == [Frame EXCEPT !.step = NextManager]
  <2>1. Frame.step.n \in 1 .. 3 /\ Len(Regress) = 3
    BY <1>2, <1>4 DEF RegressRun, AtRegress, Regress, Steps
  <2>2. /\ NextManager \in [n : 1 .. 4, do : Steps]
        /\ NextManager.do # "done" => NextManager.n <= 3
    BY <2>1 DEF NextManager, Steps
  <2>3. g \in AutorunFrame /\ (g.step.do # "done" => g.step.n <= 3)
    BY <1>2, <2>2 DEF AutorunFrame
  <2> DEFINE r == Run("tests")
  <2>4. stack' = Append(Replace(g), r) /\ mode' = mode
    BY <1>4 DEF RegressRun
  <2> HIDE DEF g
  <2>5. StackOK(Replace(g), "autorun") /\ Len(Replace(g)) = 3 /\ Replace(g)[3] = g
        /\ g.kind = "autorun"
    BY <1>1, <2>3, AutorunGoesOn
  <2>6. /\ r \in FrameType /\ r.kind = "run" /\ r.at = "tests"
        /\ FrameOK(r, Len(Replace(g)) + 1)
        /\ CallerOK(r, Replace(g)[Len(Replace(g))]) /\ Replace(g) # <<>>
    BY <2>5 DEF Run, RunFrame, FrameType, FrameOK, CallerOK
  <2> HIDE DEF r
  <2>7. /\ StackOK(stack', "autorun") /\ Len(stack') = Len(Replace(g)) + 1
        /\ stack'[Len(Replace(g)) + 1] = r
        /\ \A k \in 1 .. Len(Replace(g)) : stack'[k] = Replace(g)[k]
    BY <2>4, <2>5, <2>6, PushOK
  <2>8. Len(stack') = 4 /\ stack'[4] = r /\ stack'[3] = g
    BY <2>5, <2>7
  <2>9. AutorunOK(stack', "autorun")
    BY <2>5, <2>6, <2>8 DEF AutorunOK
  <2>10. Frame' = r
    BY <2>8 DEF Frame, Depth
  <2>11. QED
    BY <1>1, <1>2, <2>4, <2>6, <2>7, <2>9, <2>10 DEF ShellInv, RefreshesDisplayed, AtLoop
<1>5. CASE RegressDone
  <2>1. /\ stack' = Below /\ mode' = Frame.saved /\ this_menu' = "mode"
    BY <1>5 DEF RegressDone, Restored
  <2>2. StackOK(stack', mode') /\ Len(stack') = 2
        /\ \A k \in 1 .. 2 : stack'[k].kind # "autorun"
    BY <1>1, <2>1, AtAutorun
  <2>3. AutorunOK(stack', mode')
    BY <1>2, <2>1, <2>2 DEF AutorunOK
  <2>4. QED
    BY <1>1, <1>2, <2>1, <2>2, <2>3 DEF ShellInv, RefreshesDisplayed
<1>6. QED
  BY <1>3, <1>4, <1>5

-----------------------------------------------------------------------------
LEMMA ShellInit == Init => ShellInv
<1> SUFFICES ASSUME Init PROVE ShellInv
  OBVIOUS
<1>1. stack = <<MainLoop>> /\ this_menu = "main" /\ mode = "main" /\ comm = "tftp"
  BY DEF Init, MainLoop
<1>2. AutorunOK(stack, mode)
  BY <1>1 DEF AutorunOK, MainLoop, Loop
<1>3. QED
  BY <1>1, <1>2, MainOK DEF ShellInv, Mode, RefreshesDisplayed

LEMMA ShellStep == ShellInv /\ [Next]_vars => ShellInv'
<1> SUFFICES ASSUME ShellInv, [Next]_vars PROVE ShellInv'
  OBVIOUS
<1>1. CASE UNCHANGED vars
  BY <1>1 DEF vars, ShellInv, RefreshesDisplayed, AtLoop, Frame, Depth
<1>2. CASE \E i \in 1 .. 16 : Item(i)
  BY <1>2, ItemStep
<1>3. CASE Key
  BY <1>3, CallKeyStep, EscapeStep, MainStep, RunStep DEF Key
<1>4. CASE Internal
  BY <1>4, AfterConfigStep, RunStep, RegressStep DEF Internal
<1>5. QED
  BY <1>1, <1>2, <1>3, <1>4 DEF Next

THEOREM ShellInvariant == Spec => []ShellInv
BY ShellInit, ShellStep, PTL DEF Spec

(* However the operator goes through the menus, at most eight loops lie on *)
(* the C stack: those of the levels (menu.c:577, 1109).                    *)
THEOREM NestingIsBounded == Spec => []NestingBounded
<1>1. ASSUME ShellInv PROVE NestingBounded
  <2>1. CASE stack = <<>>
    BY <2>1 DEF NestingBounded, Depth
  <2>2. CASE stack # <<>>
    <3>1. Depth \in Nat /\ Frame \in FrameType /\ FrameOK(Frame, Depth)
      BY <1>1, <2>2, BelowShape
    <3>2. CASE Frame \in LoopFrame
      BY <3>1, <3>2, LevelBound DEF FrameOK, LoopFrame, Editor, NestingBounded
    <3>3. CASE Frame \notin LoopFrame
      BY <3>1, <3>3 DEF FrameOK, FrameType, ThenFrame, AutorunFrame, RunFrame, NestingBounded
    <3>4. QED
      BY <3>2, <3>3
  <2>3. QED
    BY <2>1, <2>2
<1>2. QED
  BY <1>1, ShellInvariant, PTL

(* The mode says whether regress_run_appl is under way, and while it is no *)
(* loop of a menu is on top and no run asks for a key when it is over      *)
(* (menu.c:1209-1235, builder.c:109, exec.c:124, 242).                     *)
THEOREM AutorunIsScoped == Spec => []AutorunScoped
<1>1. ASSUME ShellInv PROVE AutorunScoped
  <2>1. stack \in Seq(FrameType)
    BY <1>1 DEF ShellInv, StackOK
  <2>2. mode = "autorun" => \E k \in DOMAIN stack : stack[k].kind = "autorun"
    BY <1>1, <2>1 DEF ShellInv, AutorunOK
  <2>3. mode # "autorun" => ~\E k \in DOMAIN stack : stack[k].kind = "autorun"
    BY <1>1, <2>1 DEF ShellInv, AutorunOK
  <2>4. mode = "autorun" => ~AtLoop
    BY <1>1, LoopShape
  <2>5. mode = "autorun" => ~RunAt("over")
    BY <1>1, RunShape
  <2>6. QED
    BY <2>2, <2>3, <2>4, <2>5 DEF AutorunScoped
<1>2. QED
  BY <1>1, ShellInvariant, PTL

(* The registers of a test are never refreshed while another menu than its *)
(* own is displayed (menu.c:1265-1276, 544, 633, 645).                     *)
THEOREM RefreshesTheDisplayed == Spec => []RefreshesDisplayed
<1>1. ShellInv => RefreshesDisplayed
  BY DEF ShellInv
<1>2. QED
  BY <1>1, ShellInvariant, PTL

-----------------------------------------------------------------------------
(* Which manager the field of a method holds. The loop of a download that  *)
(* RUN has opened lies right above that of its manager, at the fifth place *)
(* of the stack.                                                           *)
OpenedByRun(s) ==
  Len(s) >= 5 /\ s[5].kind = "loop" /\ s[5].menu \in Method /\ s[5].by = "item"

FieldInv ==
  /\ mgr_of \in [Method -> FileMgr \union {"none"}]
  /\ OpenedByRun(stack) /\ OnlyTftp => mgr_of.tftp = stack[4].menu
  /\ mode = "autorun" /\ stack[3].step.do = "get"
       => Len(stack) = 3 /\ mgr_of[comm] = Regress[stack[3].step.n]

(* As long as the mode is autorun neither an item nor a key of a menu can  *)
(* come between its steps.                                                 *)
LEMMA AutorunAlone ==
  ASSUME ShellInv, mode = "autorun", Next
  PROVE  Internal \/ HitAnyKey
<1>1. /\ Len(stack) \in {3, 4} /\ ~AtLoop
  BY LoopShape DEF ShellInv, AutorunOK
<1>2. ~\E i : Item(i)
  <2> SUFFICES ASSUME NEW i, Item(i) PROVE FALSE
    OBVIOUS
  <2>1. PICK item : Selected(i, item)
    BY DEF Item, EnterEdit, EnterMenu, EnterList, config_appl, config_debug_appl,
           console_appl, regress_run_appl, test_execution_appl, test_go_appl,
           download_run_appl, fileio_tftp, download_appl
  <2>2. QED
    BY <1>1, <2>1, Selecting
<1>3. ~(RamCarve \/ DownloadControl \/ menu_help \/ menu_policy("pass")
        \/ menu_policy("fail") \/ Escape \/ Quit \/ ids_main)
  <2>1. stack # <<>> /\ stack # <<MainLoop>>
    BY <1>1
  <2>2. QED
    BY <1>1, <2>1 DEF RamCarve, DownloadControl, menu_help, menu_policy, At,
                      Escape, Quit, ids_main, MainLoop
<1>4. QED
  BY <1>2, <1>3 DEF Next, Key

(* How the fifth place changes.                                            *)
LEMMA PushPlace ==
  ASSUME NEW s \in Seq(FrameType), NEW f \in FrameType,
         OpenedByRun(Append(s, f)),
         Len(s) = 4 => ~(f.kind = "loop" /\ f.menu \in Method /\ f.by = "item")
  PROVE  OpenedByRun(s) /\ Append(s, f)[4] = s[4]
<1>1. Len(s) \in Nat
  OBVIOUS
<1>2. Len(Append(s, f)) = Len(s) + 1
  BY AppendProperties
<1>3. Append(s, f)[Len(s) + 1] = f /\ \A k \in 1 .. Len(s) : Append(s, f)[k] = s[k]
  BY AppendProperties
<1>4. Len(s) + 1 >= 5
  BY <1>2 DEF OpenedByRun
<1>5. Len(s) # 4
  BY <1>3 DEF OpenedByRun
<1>6. \A n \in Nat : n + 1 >= 5 /\ n # 4 => n >= 5
  OBVIOUS
<1>7. Len(s) >= 5
  BY <1>1, <1>4, <1>5, <1>6, Zenon
<1>8. QED
  BY <1>3, <1>7 DEF OpenedByRun

LEMMA PopPlace ==
  ASSUME ShellInv, stack # <<>>, OpenedByRun(Below)
  PROVE  OpenedByRun(stack) /\ Below[4] = stack[4]
<1>1. /\ Len(Below) = Depth - 1 /\ Depth \in Nat
      /\ \A k \in 1 .. Depth - 1 : Below[k] = stack[k]
  BY BelowShape
<1>2. QED
  BY <1>1 DEF OpenedByRun, Depth

LEMMA ReplacePlace ==
  ASSUME ShellInv, stack # <<>>, NEW f \in FrameType, OpenedByRun(Replace(f)),
         f.kind = "loop" => Frame.kind = "loop" /\ f.by = Frame.by /\ Frame.menu \in Method
  PROVE  OpenedByRun(stack) /\ Replace(f)[4] = stack[4]
<1>1. /\ Len(Below) = Depth - 1 /\ Depth \in Nat \ {0} /\ StackOK(Below, mode)
      /\ \A k \in 1 .. Depth - 1 : Below[k] = stack[k]
      /\ Frame = stack[Depth] /\ Depth = Len(stack)
  BY BelowShape DEF Depth
<1>2. /\ Len(Replace(f)) = Depth /\ Replace(f)[Depth] = f
      /\ \A k \in 1 .. Depth - 1 : Replace(f)[k] = Below[k]
  BY <1>1 DEF Replace, StackOK
<1>3. Depth >= 5
  BY <1>2 DEF OpenedByRun
<1>4. Replace(f)[4] = stack[4]
  BY <1>1, <1>2, <1>3
<1>5. CASE Depth = 5
  BY <1>1, <1>2, <1>3, <1>5 DEF OpenedByRun
<1>6. CASE Depth > 5
  BY <1>1, <1>2, <1>6 DEF OpenedByRun
<1>7. QED
  BY <1>1, <1>3, <1>4, <1>5, <1>6

(* Every step but RUN of a manager leaves that place as it is, or without  *)
(* such a loop.                                                            *)
LEMMA PlaceKept ==
  ASSUME ShellInv, [Next]_vars, ~\E i : download_run_appl(i), OpenedByRun(stack')
  PROVE  OpenedByRun(stack) /\ stack'[4] = stack[4]
<1>0. stack \in Seq(FrameType)
  BY DEF ShellInv, StackOK
<1>1. CASE stack' = stack
  BY <1>1
<1>2. ASSUME NEW input \in Setting \union Editor, NEW m \in MenuName,
             NEW by \in {"item", "key"}, m \in Method => by = "key",
             Call(stack, input, m, by)
      PROVE  OpenedByRun(stack) /\ stack'[4] = stack[4]
  BY <1>0, <1>2, PushPlace DEF Call, Loop, LoopFrame, FrameType
<1>3. ASSUME NEW i, Item(i) PROVE OpenedByRun(stack) /\ stack'[4] = stack[4]
  <2>1. CASE EnterEdit(i) \/ fileio_tftp(i)
    BY <1>1, <2>1 DEF EnterEdit, fileio_tftp, Stay
  <2>2. ASSUME NEW m \in DOMAIN Menus, EnterMenu(i, m)
        PROVE  OpenedByRun(stack) /\ stack'[4] = stack[4]
    <3>1. Sub(m) \in Leads(Frame.menu) /\ Frame.menu \in MenuName
          /\ Call(stack, "menu", m, "item")
      BY <2>2, Selecting DEF EnterMenu
    <3>2. m \notin Method /\ m \in MenuName
      BY <3>1, LeadsFrom DEF Method, MenuName
    <3>3. QED
      BY <1>2, <3>1, <3>2 DEF Setting
  <2>3. CASE EnterList(i) \/ config_debug_appl(i) \/ console_appl(i) \/ test_execution_appl(i)
    <3>1. \E input \in Setting, m \in {"list", "debug_list", "master", "execution"} :
            Call(stack, input, m, "item")
      BY <2>3 DEF EnterList, config_debug_appl, console_appl, test_execution_appl,
                  menu_list_appl, Setting
    <3>2. \A m \in {"list", "debug_list", "master", "execution"} :
            m \in MenuName /\ m \notin Method
      BY DEF MenuName, Menus, Method
    <3>3. QED
      BY <1>2, <3>1, <3>2
  <2>4. CASE test_go_appl(i) \/ regress_run_appl(i)
    <3>1. PICK f : stack' = Append(stack, f) /\ f.kind \in {"run", "autorun"}
                   /\ f \in FrameType
      <4>1. CASE test_go_appl(i)
        BY <4>1 DEF test_go_appl, Run, RunFrame, FrameType
      <4>2. CASE regress_run_appl(i)
        <5>1. mode \in Mode \ {"autorun"}
          BY <4>2, Selecting, LoopShape DEF regress_run_appl, ShellInv
        <5>2. QED
          BY <4>2, <5>1 DEF regress_run_appl, Autorun, AutorunFrame, Steps, FrameType
      <4>3. QED
        BY <2>4, <4>1, <4>2
    <3>2. QED
      BY <1>0, <3>1, PushPlace
  <2>5. ASSUME NEW f \in DOMAIN Config, config_appl(i, f)
        PROVE  FALSE
    <3>1. Len(stack) = 2
      BY <2>5, Selecting, LeadsFrom, InModeMenu DEF config_appl, Depth
    <3> DEFINE g == Then("list")
               l == Loop("menu", Config[f].mgr, "app")
    <3>2. g \in FrameType /\ l \in FrameType
      BY DEF Then, ThenFrame, Loop, LoopFrame, FrameType, Config, MenuName, FileMgr, Tls,
             Setting
    <3>3. stack' = Append(Append(stack, g), l)
      BY <2>5 DEF config_appl, Call
    <3> HIDE DEF g, l
    <3>4. Append(stack, g) \in Seq(FrameType) /\ Len(Append(stack, g)) = Len(stack) + 1
      BY <1>0, <3>2, AppendProperties
    <3>5. Len(stack') = Len(stack) + 1 + 1
      BY <3>2, <3>3, <3>4, AppendProperties
    <3>6. Len(stack') = 4
      BY <3>1, <3>5
    <3>7. QED
      BY <3>6 DEF OpenedByRun
  <2>6. ASSUME NEW typed, download_appl(i, typed)
        PROVE  OpenedByRun(stack) /\ stack'[4] = stack[4]
    <3>1. AtLoop /\ Frame.menu \in Method /\ comm' \in Method
      BY <2>6, Selecting, LeadsFrom DEF download_appl, Method, ShellInv
    <3>2. Frame \in LoopFrame /\ stack # <<>>
      BY <3>1, LoopShape
    <3> DEFINE f == [Frame EXCEPT !.menu = comm']
    <3>3. f \in FrameType /\ f.by = Frame.by /\ Frame.kind = "loop"
      BY <3>1, <3>2 DEF LoopFrame, FrameType, MenuName, Menus, Method
    <3>4. stack' = Replace(f)
      BY <2>6 DEF download_appl
    <3> HIDE DEF f
    <3>5. QED
      BY <3>1, <3>2, <3>3, <3>4, ReplacePlace
  <2>7. QED
    BY <1>3, <2>1, <2>2, <2>3, <2>4, <2>5, <2>6 DEF Item
<1>4. CASE RamCarve \/ DownloadControl \/ menu_help \/ menu_policy("pass") \/ menu_policy("fail")
  <2>1. AtLoop
    BY <1>4 DEF RamCarve, DownloadControl, menu_help, menu_policy, At
  <2>2. /\ Frame.menu \in MenuName /\ comm \in MenuName
        /\ "ram_carve" \in MenuName
    BY <2>1, LoopShape DEF LoopFrame, ShellInv, MenuName, Menus
  <2>3. \E input \in Setting \union Editor, m \in MenuName : Call(stack, input, m, "key")
    BY <1>4, <2>2 DEF RamCarve, DownloadControl, menu_help, menu_policy, Setting, Editor
  <2>4. QED
    BY <1>2, <2>3
<1>5. CASE stack # <<>> /\ stack' = Below
  BY <1>5, PopPlace
<1>6. CASE \E to \in {"tests", "pause", "over"} : stack # <<>> /\ stack' = Replace(Run(to))
  BY <1>6, ReplacePlace DEF Run, RunFrame, FrameType
<1>7. CASE exec_pause \/ RunEnds \/ HitAnyKey \/ Escape \/ RegressDone
  BY <1>5, <1>6, <1>7 DEF exec_pause, RunEnds, HitAnyKey, Escape, RegressDone, Returns, Back,
                          RunAt, AtLoop, AtRegress
<1>8. CASE RegressStash \/ RegressGet \/ RegressRun
  <2>1. stack # <<>> /\ Frame.kind = "autorun" /\ Frame.step.do # "done"
    BY <1>8 DEF RegressStash, RegressGet, RegressRun, AtRegress
  <2>2. mode = "autorun" /\ ShellInv'
    BY <1>8, <2>1, AtAutorun, RegressStep
  <2>3. mode' = mode
    BY <1>8 DEF RegressStash, RegressGet, RegressRun
  <2>4. QED
    BY <2>2, <2>3 DEF ShellInv, AutorunOK, OpenedByRun
<1>9. CASE AfterConfig
  <2> DEFINE l == Loop("menu", IF mode = "debug" THEN "debug_list" ELSE "master", "item")
  <2>1. Frame.kind = "then" /\ stack # <<>> /\ stack' = Append(Below, l)
    BY <1>9 DEF AfterConfig, menu_list_appl, Call
  <2>2. l \in FrameType
    BY DEF Loop, FrameType, LoopFrame, Setting, MenuName, Menus
  <2> HIDE DEF l
  <2>3. Below \in Seq(FrameType) /\ Len(Below) = 2
    BY <2>1, BelowShape DEF FrameOK, StackOK
  <2>4. Len(stack') = Len(Below) + 1
    BY <2>1, <2>2, <2>3, AppendProperties
  <2>5. Len(stack') = 3
    BY <2>3, <2>4
  <2>6. QED
    BY <2>5 DEF OpenedByRun
<1>10. CASE Quit \/ ids_main
  BY <1>10 DEF Quit, ids_main, OpenedByRun
<1>11. CASE UNCHANGED vars
  BY <1>1, <1>11 DEF vars
<1>12. QED
  BY <1>3, <1>4, <1>7, <1>8, <1>9, <1>10, <1>11 DEF Next, Key, Internal

(* RUN of a manager puts the loop of the method above that of the manager, *)
(* which it stashes.                                                       *)
LEMMA RunOfManager ==
  ASSUME ShellInv, NEW i, download_run_appl(i)
  PROVE  /\ mode # "autorun" /\ mode' = mode /\ Frame.menu \in FileMgr
         /\ Depth = 4 /\ Frame = stack[4] /\ stack'[4] = stack[4]
         /\ mgr_of' = [mgr_of EXCEPT ![comm] = Frame.menu]
<1>1. AtLoop /\ Frame.menu \in FileMgr
  <2>1. Appl("download_run") \in Leads(Frame.menu) /\ Frame.menu \in MenuName /\ AtLoop
    BY Selecting DEF download_run_appl
  <2>2. QED
    BY <2>1, LeadsFrom
<1>2. /\ mode # "autorun" /\ Depth = 4 /\ Frame = stack[4] /\ Len(stack) = 4
  <2>1. mode # "autorun" /\ Frame.kind = "loop" /\ FrameOK(Frame, Depth)
    BY <1>1, LoopShape DEF AtLoop
  <2>2. Depth = 4
    BY <1>1, <2>1 DEF FrameOK
  <2>3. QED
    BY <2>1, <2>2 DEF Depth, Frame
<1> DEFINE l == Loop("menu", comm, "item")
<1>3. stack' = Append(stack, l) /\ mode' = mode
      /\ mgr_of' = [mgr_of EXCEPT ![comm] = Frame.menu]
  BY DEF download_run_appl, Call, Stash
<1>4. l \in FrameType /\ stack \in Seq(FrameType)
  BY DEF Loop, FrameType, LoopFrame, Setting, MenuName, Menus, ShellInv, StackOK
<1> HIDE DEF l
<1>5. stack'[4] = stack[4]
  BY <1>2, <1>3, <1>4, AppendProperties
<1>6. QED
  BY <1>1, <1>2, <1>3, <1>5

LEMMA FieldKept ==
  ASSUME ShellInv, [Next]_vars, ~\E i : download_run_appl(i), ~RegressStash
  PROVE  mgr_of' = mgr_of
BY DEF Next, Key, Internal, Item, EnterEdit, EnterMenu, EnterList, config_appl,
       config_debug_appl, console_appl, regress_run_appl, test_execution_appl, test_go_appl,
       fileio_tftp, download_appl, RamCarve, DownloadControl, menu_help, menu_policy,
       HitAnyKey, Escape, Quit, ids_main, AfterConfig, exec_pause, RunEnds, RegressGet,
       RegressRun, RegressDone, method, vars

(* The steps of regress_run_appl itself.                                   *)
LEMMA RegressFrames ==
  ASSUME ShellInv, RegressStash \/ RegressGet \/ RegressRun
  PROVE  /\ mode = "autorun" /\ Depth = 3 /\ Frame = stack[3] /\ Frame.step.n \in 1 .. 3
         /\ Regress[Frame.step.n] \in FileMgr
         /\ RegressStash => Len(stack') = 3 /\ stack'[3].step = [Frame.step EXCEPT !.do = "get"]
         /\ ~RegressStash => stack'[3].step.do # "get"
<1>1. /\ stack # <<>> /\ Frame.kind = "autorun" /\ Frame.step.do \in {"stash", "get", "run"}
  BY DEF RegressStash, RegressGet, RegressRun, AtRegress
<1>2. /\ mode = "autorun" /\ Depth = 3 /\ Frame = stack[3] /\ Frame \in AutorunFrame
      /\ Frame.step \in [n : 1 .. 4, do : Steps] /\ Frame.step.n \in 1 .. 3
  BY <1>1, AtAutorun DEF AutorunFrame, Frame
<1>3. Regress[Frame.step.n] \in FileMgr
  BY <1>2 DEF Regress, FileMgr, Tls
<1>4. CASE RegressStash \/ RegressGet
  <2> DEFINE f == [Frame EXCEPT !.step.do = IF RegressStash THEN "get" ELSE "run"]
  <2>1. /\ f \in AutorunFrame /\ f.step.n <= 3
        /\ f.step = [Frame.step EXCEPT !.do = IF RegressStash THEN "get" ELSE "run"]
        /\ f.step.do = IF RegressStash THEN "get" ELSE "run"
    BY <1>2 DEF AutorunFrame, Steps
  <2>2. stack' = Replace(f) /\ (RegressStash => ~RegressGet)
    BY <1>4 DEF RegressStash, RegressGet, AtRegress
  <2> HIDE DEF f
  <2>3. Len(stack') = 3 /\ stack'[3] = f
    BY <1>1, <2>1, <2>2, AutorunGoesOn
  <2>4. QED
    BY <1>2, <1>3, <2>1, <2>3
<1>5. CASE RegressRun
  <2> DEFINE g == [Frame EXCEPT !.step = NextManager]
             r == Run("tests")
  <2>1. /\ NextManager \in [n : 1 .. 4, do : Steps] /\ NextManager.do # "get"
        /\ NextManager.do # "done" => NextManager.n <= 3
    BY <1>2 DEF NextManager, Steps, Regress
  <2>2. g \in AutorunFrame /\ g.step = NextManager
    BY <1>2, <2>1 DEF AutorunFrame
  <2>3. stack' = Append(Replace(g), r) /\ r \in FrameType /\ ~RegressStash
    BY <1>5 DEF RegressRun, RegressStash, AtRegress, Run, RunFrame, FrameType
  <2> HIDE DEF g, r
  <2>4. StackOK(Replace(g), "autorun") /\ Len(Replace(g)) = 3 /\ Replace(g)[3] = g
    BY <1>1, <2>1, <2>2, AutorunGoesOn
  <2>5. Replace(g) \in Seq(FrameType)
    BY <2>4 DEF StackOK
  <2>6. stack'[3] = g
    BY <2>3, <2>4, <2>5, AppendProperties
  <2>7. QED
    BY <1>2, <1>3, <2>1, <2>2, <2>3, <2>6
<1>6. QED
  BY <1>4, <1>5

LEMMA AutorunBegins ==
  ASSUME ShellInv, [Next]_vars, mode # "autorun", mode' = "autorun"
  PROVE  stack'[3].step.do = "stash"
<1>1. PICK i : regress_run_appl(i)
  <2>1. ~RegressDone
    BY AtAutorun DEF RegressDone, AtRegress
  <2>2. \A f \in DOMAIN Config : Config[f].mode # "autorun"
    BY DEF Config
  <2>3. QED
    BY <2>1, <2>2 DEF Next, Key, Internal, Item, EnterEdit, EnterMenu, EnterList, config_appl,
       config_debug_appl, console_appl, test_execution_appl, test_go_appl, download_run_appl,
       fileio_tftp, download_appl, RamCarve, DownloadControl, menu_help, menu_policy,
       HitAnyKey, Escape, Quit, ids_main, AfterConfig, exec_pause, RunEnds, RegressStash,
       RegressGet, RegressRun, vars
<1>2. Frame.menu = "mode" /\ AtLoop /\ Frame.input \in Setting
  BY <1>1, Selecting, LeadsFrom DEF regress_run_appl
<1>3. Depth = 2
  BY <1>2, InModeMenu
<1> DEFINE f == Autorun([n |-> 1, do |-> "stash"], mode)
<1>4. stack' = Append(stack, f) /\ f.step.do = "stash"
  BY <1>1 DEF regress_run_appl, Autorun
<1>5. f \in FrameType /\ stack \in Seq(FrameType) /\ Len(stack) = 2
  BY <1>3 DEF Autorun, AutorunFrame, Steps, FrameType, ShellInv, StackOK, Mode, Depth
<1> HIDE DEF f
<1>6. Append(stack, f)[Len(stack) + 1] = f
  BY <1>5, AppendProperties
<1>7. stack'[3] = f
  BY <1>4, <1>5, <1>6
<1>8. QED
  BY <1>4, <1>7

(* While autorun goes on, its frame changes only by its own steps.         *)
LEMMA AutorunFrameKept ==
  ASSUME ShellInv, [Next]_vars, mode = "autorun", mode' = "autorun",
         ~(RegressStash \/ RegressGet \/ RegressRun)
  PROVE  /\ stack'[3] = stack[3] /\ comm' = comm
         /\ stack' = stack \/ Len(stack) = 4
<1>1. CASE UNCHANGED vars
  BY <1>1 DEF vars
<1>2. ~AfterConfig /\ ~RegressDone
  <2>1. ASSUME RegressDone PROVE FALSE
    <3>1. stack # <<>> /\ Frame.kind = "autorun" /\ mode' = Frame.saved
      BY <2>1 DEF RegressDone, AtRegress, Restored
    <3>2. QED
      BY <3>1, AtAutorun DEF AutorunFrame
  <2>2. ASSUME AfterConfig PROVE FALSE
    <3>1. stack # <<>> /\ Frame.kind = "then"
      BY <2>2 DEF AfterConfig
    <3>2. QED
      BY <3>1 DEF ShellInv, AutorunOK, Frame, Depth
  <2>3. QED
    BY <2>1, <2>2
<1>3. CASE exec_pause \/ RunEnds \/ HitAnyKey
  <2>1. PICK at : RunAt(at) /\ (stack' = Below \/ \E to : stack' = Append(Below, Run(to)) /\ Run(to) \in FrameType)
    BY <1>3 DEF exec_pause, RunEnds, HitAnyKey, Returns, Replace, Run, RunFrame, FrameType
  <2>2. Depth = 4 /\ Len(stack) = 4
    BY <2>1, RunShape
  <2>3. Below \in Seq(FrameType) /\ Len(Below) = 3 /\ Below[3] = stack[3]
    BY <2>1, <2>2, RunShape DEF StackOK
  <2>4. stack'[3] = stack[3]
    BY <2>1, <2>3, AppendProperties
  <2>5. QED
    BY <1>3, <2>2, <2>4 DEF exec_pause, RunEnds, HitAnyKey, method
<1>4. QED
  BY <1>1, <1>2, <1>3, AutorunAlone DEF Internal

LEMMA FieldInit == Init => FieldInv
<1> SUFFICES ASSUME Init PROVE FieldInv
  OBVIOUS
<1>1. mode = "main" /\ Len(stack) = 1 /\ mgr_of = [tftp |-> "none", xmodem |-> "none"]
  BY DEF Init
<1>2. QED
  BY <1>1 DEF FieldInv, OpenedByRun, Method

LEMMA FieldStep == ShellInv /\ ShellInv' /\ FieldInv /\ [Next]_vars => FieldInv'
<1> SUFFICES ASSUME ShellInv, ShellInv', FieldInv, [Next]_vars PROVE FieldInv'
  OBVIOUS
<1>0. /\ comm \in Method /\ "none" \notin FileMgr
      /\ mgr_of \in [Method -> FileMgr \union {"none"}]
  BY DEF FieldInv, ShellInv, Method, FileMgr, Tls
<1>1. mgr_of' \in [Method -> FileMgr \union {"none"}]
  <2>1. CASE \E i : download_run_appl(i)
    BY <1>0, <2>1, RunOfManager
  <2>2. CASE RegressStash
    BY <1>0, <2>2, RegressFrames DEF RegressStash, Stash
  <2>3. QED
    BY <1>0, <2>1, <2>2, FieldKept
<1>2. ASSUME OpenedByRun(stack'), OnlyTftp' PROVE mgr_of'.tftp = stack'[4].menu
  <2>1. CASE \E i : download_run_appl(i)
    <3>1. /\ Frame.menu \in FileMgr /\ stack'[4] = Frame
          /\ mgr_of' = [mgr_of EXCEPT ![comm] = Frame.menu]
      BY <2>1, RunOfManager
    <3>2. comm = "tftp"
      BY <1>0, <1>2, <3>1 DEF OnlyTftp, Method
    <3>3. QED
      BY <1>0, <3>1, <3>2 DEF Method
  <2>2. CASE ~\E i : download_run_appl(i)
    <3>1. OpenedByRun(stack) /\ stack'[4] = stack[4]
      BY <1>2, <2>2, PlaceKept
    <3>2. mode # "autorun"
      BY <3>1 DEF ShellInv, AutorunOK, OpenedByRun
    <3>3. mgr_of' = mgr_of
      BY <2>2, <3>2, FieldKept, RegressFrames
    <3>4. QED
      BY <1>2, <3>1, <3>3 DEF FieldInv, OnlyTftp
  <2>3. QED
    BY <2>1, <2>2
<1>3. ASSUME mode' = "autorun", stack'[3].step.do = "get"
      PROVE  Len(stack') = 3 /\ mgr_of'[comm'] = Regress[stack'[3].step.n]
  <2>1. CASE mode # "autorun"
    BY <1>3, <2>1, AutorunBegins
  <2>2. CASE mode = "autorun" /\ (RegressStash \/ RegressGet \/ RegressRun)
    <3>1. /\ RegressStash /\ Len(stack') = 3 /\ Frame.step.n \in 1 .. 3
          /\ stack'[3].step = [Frame.step EXCEPT !.do = "get"]
      BY <1>3, <2>2, RegressFrames
    <3>2. comm' = comm /\ mgr_of' = [mgr_of EXCEPT ![comm] = Regress[Frame.step.n]]
      BY <3>1 DEF RegressStash, Stash
    <3>3. stack'[3].step.n = Frame.step.n
      BY <3>1
    <3>4. QED
      BY <1>0, <3>1, <3>2, <3>3
  <2>3. CASE mode = "autorun" /\ ~(RegressStash \/ RegressGet \/ RegressRun)
    <3>1. /\ stack'[3] = stack[3] /\ comm' = comm
          /\ stack' = stack \/ Len(stack) = 4
      BY <1>3, <2>3, AutorunFrameKept
    <3>2. Len(stack) = 3 /\ mgr_of[comm] = Regress[stack[3].step.n]
      BY <1>3, <2>3, <3>1 DEF FieldInv
    <3>3. mgr_of' = mgr_of
      BY <2>3, FieldKept, RunOfManager
    <3>4. QED
      BY <3>1, <3>2, <3>3
  <2>4. QED
    BY <2>1, <2>2, <2>3
<1>4. QED
  BY <1>1, <1>2, <1>3 DEF FieldInv

(* AUTORUN downloads through the manager of its step whatever the operator *)
(* did before it. So does a download that RUN of a manager leads to        *)
(* through that manager, as long as no RUN has met another method than     *)
(* tftp (menu.c:1155-1200, 1218-1222, fileio.c:236).                       *)
THEOREM DownloadsAreAskedFor == Spec => FetchesWhatIsAsked
<1> DEFINE A == file_mgr' # file_mgr /\ (mode = "autorun" \/ (ByRun /\ OnlyTftp))
                  => file_mgr' = AskedFor
<1>1. ASSUME ShellInv, FieldInv, Next PROVE A
  <2> SUFFICES ASSUME file_mgr' # file_mgr, mode = "autorun" \/ (ByRun /\ OnlyTftp)
               PROVE  file_mgr' = AskedFor
    OBVIOUS
  <2>1. RegressGet \/ \E i : fileio_tftp(i)
    BY <1>1 DEF Next, Key, Internal, Item, EnterEdit, EnterMenu, EnterList, config_appl,
       config_debug_appl, console_appl, regress_run_appl, test_execution_appl, test_go_appl,
       download_run_appl, download_appl, RamCarve, DownloadControl, menu_help, menu_policy,
       HitAnyKey, Escape, Quit, ids_main, AfterConfig, exec_pause, RunEnds, RegressStash,
       RegressRun, RegressDone
  <2>2. CASE RegressGet
    <3>1. mode = "autorun" /\ Frame = stack[3] /\ Frame.step.do = "get"
      BY <1>1, <2>2, RegressFrames DEF RegressGet, AtRegress
    <3>2. comm = "tftp" /\ file_mgr' = mgr_of.tftp
      BY <2>2 DEF RegressGet, Fetch
    <3>3. QED
      BY <1>1, <3>1, <3>2 DEF FieldInv, AskedFor
  <2>3. ASSUME NEW i, fileio_tftp(i) PROVE file_mgr' = AskedFor
    <3>1. AtLoop /\ Frame.menu = "tftp" /\ file_mgr' = mgr_of.tftp
      <4>1. Appl("fileio_tftp") \in Leads(Frame.menu) /\ Frame.menu \in MenuName /\ AtLoop
        BY <1>1, <2>3, Selecting DEF fileio_tftp
      <4>2. QED
        BY <2>3, <4>1, LeadsFrom DEF fileio_tftp, Fetch
    <3>2. mode # "autorun" /\ Frame.by = "item" /\ OnlyTftp
      BY <1>1, <3>1, LoopShape DEF ByRun
    <3>3. Frame = stack[Depth] /\ Frame.kind = "loop" /\ FrameOK(Frame, Depth)
      BY <1>1, <3>1, LoopShape DEF AtLoop
    <3>4. Depth = 5
      BY <3>1, <3>2, <3>3 DEF FrameOK, Method
    <3>5. OpenedByRun(stack)
      BY <3>1, <3>2, <3>3, <3>4 DEF OpenedByRun, Depth, Method
    <3>6. QED
      BY <1>1, <3>1, <3>2, <3>4, <3>5 DEF FieldInv, AskedFor
  <2>4. QED
    BY <2>1, <2>2, <2>3
<1>2. ShellInv /\ FieldInv /\ [Next]_vars => [A]_vars
  BY <1>1
<1>3. Spec => []FieldInv
  BY FieldInit, FieldStep, ShellInvariant, PTL DEF Spec
<1>4. QED
  BY <1>2, <1>3, ShellInvariant, PTL DEF Spec, FetchesWhatIsAsked

=============================================================================
