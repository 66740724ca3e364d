------------------------------ MODULE MenuTab ------------------------------
(***************************************************************************)
(* The menus of IDS as they are compiled in (lib_ids/menutab.c, for the    *)
(* MPC8378 TCM board), with the functions menutab_init gives their items.  *)
(* An item is its type and what it leads to: a function, or the menu that  *)
(* menu_input or list_input is called with. The parameters among the items *)
(* do nothing but hold a value.                                            *)
(***************************************************************************)
EXTENDS Naturals, Sequences

Appl(f) == [type |-> "appl", to |-> f]
Sub(m)  == [type |-> "menu", to |-> m]
Edit    == [type |-> "edit", to |-> "none"]  \* PARM, CNTR, NAME, TIME, DATE, REG
Ctl     == [type |-> "ctl", to |-> "download_appl"]

Edits(n) == [k \in 1 .. n |-> Edit]

main_menu == <<Edit, Edit, Sub("mode")>>

mode_menu ==
  << Appl("regress_run"), Appl("config_debug"), Appl("config_only"),
     Appl("config_regress"), Appl("config_regress"), Appl("config_edvt"),
     Appl("config_a6ddr"), Appl("config_fpga"), Appl("config_chan"),
     Appl("config_a6debug"), Appl("leaf"), Appl("leaf"), Appl("console") >>

(* GO, SHOWLIST, NAME, CYCLES, ELAPSED TIME, the logs, and two more leaves.*)
execution_menu ==
  << Appl("test_go"), Appl("leaf"), Edit, Edit, Edit, Sub("log"),
     Appl("leaf"), Appl("leaf") >>

ram_carve_menu == Edits(6)

(* The file managers: how many of their 15 parameters name a list of tests;*)
(* the others are default.tls.                                             *)
Tls ==
  [file_mgr |-> 2, config |-> 12, edvt |-> 6, a6ddr |-> 14, fpga |-> 14,
   a6debug |-> 8, chan |-> 13]

FileMgr == DOMAIN Tls
file_mgr_menu == <<Appl("download_run")>> \o Edits(15)

tftp_menu == <<Appl("fileio_tftp"), Ctl>> \o Edits(8)
xmodem_menu == <<Appl("leaf"), Ctl>> \o Edits(4)

(* The file manager each application of mode_menu opens, and the mode it   *)
(* sets.                                                                   *)
Config ==
  [config_only |-> [mode |-> "config", mgr |-> "config"],
   config_regress |-> [mode |-> "default", mgr |-> "file_mgr"],
   config_edvt |-> [mode |-> "default", mgr |-> "edvt"],
   config_a6ddr |-> [mode |-> "default", mgr |-> "a6ddr"],
   config_fpga |-> [mode |-> "default", mgr |-> "fpga"],
   config_chan |-> [mode |-> "default", mgr |-> "chan"],
   config_a6debug |-> [mode |-> "default", mgr |-> "a6debug"]]

(* The menus of the builder, one of each kind: the list of lists, a list,  *)
(* a test. The first item is RUN; log_menu has the logs of the runs.       *)
Menus ==
  [main |-> main_menu, mode |-> mode_menu, execution |-> execution_menu,
   ram_carve |-> ram_carve_menu, tftp |-> tftp_menu, xmodem |-> xmodem_menu,
   log |-> <<Appl("leaf")>>,
   debug_list |-> <<Sub("builtin"), Sub("builtin")>>,
   builtin |-> <<Appl("leaf")>>,
   master |-> <<Appl("test_execution"), [type |-> "list", to |-> "list"]>>,
   list |-> <<Appl("test_execution"), Sub("test")>>,
   test |-> <<Appl("test_execution"), Edit>>]

itemlist(m) == IF m \in FileMgr THEN file_mgr_menu ELSE Menus[m]
=============================================================================
