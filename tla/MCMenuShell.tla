---------------------------- MODULE MCMenuShell ----------------------------
(* An instance of MenuShell: the menus compiled in, of MODE the items that *)
(* the configuration names.                                                *)
EXTENDS MenuShell
=============================================================================
