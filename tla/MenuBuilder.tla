---------------------------- MODULE MenuBuilder ----------------------------
(***************************************************************************)
(* The menu builder (lib_ids/builder.c) on the lists that TlsDownload left *)
(* in memory: menu_list_appl builds a menu for each list and each test in  *)
(* a pool of menus that is reused from its start by every build, and never *)
(* cleared. The first item of each menu is RUN; the others, numbered from  *)
(* 1 here, are the tests of a list or the parameters of a test.            *)
(***************************************************************************)
EXTENDS TlsDownload

CONSTANTS
  Slots,      \* menus of the pool the instance needs
  MaxItems    \* items of a menu behind RUN: 15

Parm == { Stored[arg] : arg \in DOMAIN Stored }

(* The files of the server fit into the menus: nothing in builder.c checks *)
(* the items of a menu, a test header has room for 15 (idsfs.h:110).       *)
ASSUME MenuBuilderAssumption ==
  /\ MaxItems \in Nat /\ Slots \in Nat
  /\ \A f \in File :
       /\ Len(Contents[f]) <= MaxItems
       /\ \A i \in DOMAIN Contents[f] :
            /\ Contents[f][i].parms \in Seq(Parm)
            /\ Len(Contents[f][i].parms) <= MaxItems
  (* So do as many lists as the directory takes into the pool: 15 lists of *)
  (* 15 tests need 240 menus, MENU_LIMIT is 512 (builder.c:66).            *)
  /\ \E size \in 0 .. Slots : /\ \A f \in File : Len(Contents[f]) < size
                              /\ MaxLists * size <= Slots

VARIABLES
  pool,       \* menu_pool
  list_menu,  \* the menus of the items of list_menu, RUN left out
  ids_svc,    \* static: the last service menu, 0 for none
  (* History, read by the properties only. *)
  fresh,      \* items of the pool the last build set: <<slot, index>>
  built       \* the last step was a build

built_menus == << pool, list_menu, ids_svc, fresh >>
menus == << built_menus, built >>
vars == << download, menus >>

NoItem == [type |-> "unused", menu |-> 0, func |-> "none"]

BuilderInit ==
  /\ pool = [k \in 1 .. Slots |->
               [run |-> "none", count |-> 0,
                items |-> [i \in 1 .. MaxItems |-> NoItem]]]
  /\ list_menu = <<>> /\ ids_svc = 0
  /\ fresh = {} /\ built = FALSE

Init == DownloadInit /\ BuilderInit

-----------------------------------------------------------------------------
(* What the walk of menu_tls_builder reads: it starts at the load address. *)
Walk == ListsFrom(load, entries)

(* menu_alloc hands out the slots in the order of the walk: a list, then   *)
(* its tests.                                                              *)
MenusOf(tests) ==
  <<[list |-> TRUE, count |-> Len(tests)]>> \o
    [k \in DOMAIN tests |-> [list |-> FALSE, count |-> Len(tests[k].parms),
                            parms |-> tests[k].parms]]

Headers(lists) ==
  FoldLeft(LAMBDA hs, tests : hs \o MenusOf(tests), <<>>, lists)

ListSlots(lists) ==
  LET slot[k \in DOMAIN lists] ==
        IF k = 1 THEN 1 ELSE slot[k - 1] + Len(MenusOf(lists[k - 1]))
  IN  slot

(* The parameters ids-svc=..., as <<slot, index>>, and those before one.   *)
Services(hs) ==
  UNION { { <<k, i>> : i \in { j \in 1 .. hs[k].count :
                               hs[k].parms[j] \in {"svc", "nosvc"} } } :
          k \in { j \in DOMAIN hs : ~hs[j].list } }

Precedes(s, k, i) == s[1] < k \/ (s[1] = k /\ s[2] < i)

(* The service menu an item is bound to: that of the last service before   *)
(* it in the walk, or the one an earlier build left.                       *)
ServiceBefore(services, k, i) ==
  LET before == { s[1] : s \in { t \in services : Precedes(t, k, i) } }
  IN  IF before = {} THEN ids_svc ELSE Max(before)

(* menu_update_svc: only tftp is a service.                                *)
FuncOf(parm) == IF parm = "svc" THEN "tftp" ELSE "none"

TypeKept(old, parm) ==                             \* mutant
  IF parm = "reg" \/ old = "unused" THEN "reg" ELSE old
TypeOf(old, parm) ==
  CASE parm \in {"parm", "open"}  -> "parm"
    [] parm \in {"svc", "nosvc"}  -> "svc"
    [] parm = "reg"               -> "reg"

(* An item without '=' gets its name and keeps the rest.                   *)
ParmItem(parm, bound, old) ==
  IF parm = "bare" THEN old
  ELSE [type |-> TypeOf(old.type, parm), menu |-> bound, func |-> FuncOf(parm)]

(* menu_insert_run sets RUN of each menu; a service replaces it.           *)
RunOf(header, services, k) ==
  LET own == { s[2] : s \in { t \in services : t[1] = k } }
  IN  IF own = {} THEN "execution" ELSE FuncOf(header.parms[Max(own)])

Menu(header, services, k) ==
  [run   |-> RunOf(header, services, k),
   count |-> header.count,
   items |-> [i \in 1 .. MaxItems |->
                IF i > header.count THEN pool[k].items[i]
                ELSE IF header.list
                  THEN [type |-> "test", menu |-> k + i, func |-> "none"]
                  ELSE ParmItem(header.parms[i], ServiceBefore(services, k, i),
                                pool[k].items[i])]]

ItemsSet(hs) ==
  UNION { { <<k, i>> : i \in { j \in 1 .. hs[k].count :
                               hs[k].list \/ hs[k].parms[j] # "bare" } } :
          k \in DOMAIN hs }

menu_list_appl ==
  /\ at = "menu"
  /\ LET hs == Headers(Walk)
         services == Services(hs)
     IN  /\ pool' = [k \in 1 .. Slots |->
                       IF k \in DOMAIN hs THEN Menu(hs[k], services, k)
                       ELSE pool[k]]
         /\ list_menu' = ListSlots(Walk)
         /\ ids_svc' = ServiceBefore(services, Slots + 1, 1)
         /\ fresh' = ItemsSet(hs)
  /\ built' = TRUE
  /\ UNCHANGED download

(* item_input of an ITEM_SVC: RUN follows menu_update_svc, which leaves    *)
(* the function of the item as it is if the new name is no service.        *)
EditService(k, i, word) ==
  /\ at = "menu"
  /\ \E n \in DOMAIN list_menu :
       k \in list_menu[n] + 1 .. list_menu[n] + pool[list_menu[n]].count
  /\ i <= pool[k].count /\ pool[k].items[i].type = "svc"
  /\ LET func == IF word = "tftp" THEN "tftp" ELSE pool[k].items[i].func
     IN  pool' = [pool EXCEPT ![k].items[i].func = func, ![k].run = func]
  /\ built' = FALSE
  /\ UNCHANGED << download, list_menu, ids_svc, fresh >>

Next ==
  \/ DownloadNext /\ built' = FALSE /\ UNCHANGED built_menus
  \/ menu_list_appl
  \/ \E k \in 1 .. Slots, i \in 1 .. MaxItems, word \in {"tftp", "other"} :
       EditService(k, i, word)

Spec == Init /\ [][Next]_vars /\ WF_vars(LoopStep /\ built' = FALSE /\ UNCHANGED built_menus)

-----------------------------------------------------------------------------
ShowsTest(menu, test, before) ==
  /\ menu.count = Len(test.parms)
  /\ \A i \in DOMAIN test.parms :
       LET parm == test.parms[i]
           item == menu.items[i]
       IN  IF parm = "bare" THEN item = before.items[i]
           ELSE item.type = CASE parm = "reg" -> "reg"
                              [] parm \in {"svc", "nosvc"} -> "svc"
                              [] OTHER -> "parm"

(* The items the last build set, bound to the nearest service before them. *)
BoundToNearest ==
  LET services == { s \in fresh : pool[s[1]].items[s[2]].type = "svc" }
      before(k, i) == { s \in services : Precedes(s, k, i) }
  IN  \A x \in fresh :
        LET item == pool[x[1]].items[x[2]]
        IN  item.type # "test" /\ before(x[1], x[2]) # {} =>
              item.menu = Max({ s[1] : s \in before(x[1], x[2]) })

(* A build from where the lists begin shows them: item i of the k-th list  *)
(* leads to a menu with the parameters of test i, each as what it is, and  *)
(* only one without '=' keeps what an earlier build of the pool left there.*)
(* They take their values (exec.c:683-697) from the service menu last seen *)
(* by the build, their own or an earlier one; only those before the first  *)
(* service keep that of an earlier build (builder.c:146-321).              *)
MenusShowLists ==
  [][built' /\ load = base =>
       LET lists == ListsFrom(base, entries)
       IN  /\ BoundToNearest'
           /\ Len(list_menu') = Len(lists)
           /\ \A k \in DOMAIN lists :
                LET menu == pool'[list_menu'[k]]
                IN  /\ menu.count = Len(lists[k])
                    /\ \A i \in DOMAIN lists[k] :
                         LET slot == menu.items[i].menu
                         IN  ShowsTest(pool'[slot], lists[k][i], pool[slot])]_vars

-----------------------------------------------------------------------------
(* What the sources say and the code does not do.                          *)

(* The menus are built "from the 'tlsbase' buffer downloaded via tftp"     *)
(* (builder.c:115-116): they show the lists that were loaded.              *)
BuiltFromBuffer == [][built' => Walk = ListsFrom(base, entries)]_vars
=============================================================================
