------------------------------ MODULE HwTable ------------------------------
(***************************************************************************)
(* The hardware device table of IDS (lib_ids/hw/idshw.c). Devices are      *)
(* created in blocks of the heap, or are static, and are loaded into the   *)
(* first free slot of the table; they are looked up by name, up to the     *)
(* first free slot. A device that is terminated leaves a hole, and is not  *)
(* detached from its masters.                                              *)
(***************************************************************************)
EXTENDS Integers, FiniteSets

CONSTANTS
  Block,     \* what malloc hands out
  Static,    \* devices of HW_DEVICE, not from the heap
  NameOf,    \* their names
  Name,      \* the names of devices
  Offset,    \* the links callers attach to: 0 ctl, 1 data, 2 link
  NoDevice,  \* the null pointer
  Unset,     \* a pointer nobody has set
  HW_TABLE_MAX

Device == Block \union Static
Slot == 0 .. HW_TABLE_MAX - 1

ASSUME HwTableAssumption ==
  /\ HW_TABLE_MAX \in Nat \ {0}
  /\ Block \intersect Static = {}
  /\ NoDevice \notin Device \union Name /\ Unset \notin Device \union {NoDevice}
  /\ NameOf \in [Static -> Name]
  /\ Offset \subseteq Nat

VARIABLES
  hw_table,  \* the device in each slot
  name,      \* the name of each device, NoDevice for a block that is free
  links,     \* ctl, data and link of each device
  (* History, read by the properties only. *)
  attached,  \* the links that hw_attach set and hw_detach has not reset
  torn       \* a device was terminated that was still attached to another

table == << hw_table, name, links, attached, torn >>

LinkOffset == Offset \intersect 0 .. 2

HwInit ==
  /\ hw_table = [hd \in Slot |-> NoDevice]
  /\ name = [d \in Device |-> IF d \in Static THEN NameOf[d] ELSE NoDevice]
  /\ links = [d \in Device |->
               [off \in LinkOffset |-> IF d \in Static THEN NoDevice ELSE Unset]]
  /\ attached = {} /\ torn = FALSE

TableTypeOK ==
  /\ hw_table \in [Slot -> Device \union {NoDevice}]
  /\ name \in [Device -> Name \union {NoDevice}]
  /\ links \in [Device -> [LinkOffset -> Device \union {NoDevice, Unset}]]
  /\ attached \subseteq Device \X LinkOffset
  /\ torn \in BOOLEAN

-----------------------------------------------------------------------------
(* hw_lookup: of a name, only in front of the first free slot; of no name, *)
(* that slot.                                                              *)
Free == { hd \in Slot : hw_table[hd] = NoDevice }
Front == { hd \in Slot : \A free \in Free : hd < free }
First(slots) == { hd \in slots : \A other \in slots : hd <= other }
Least(slots) == IF First(slots) = {} THEN -1 ELSE CHOOSE hd \in First(slots) : TRUE

NextFree == Least(Free)

hw_lookup(n) == Least({ hd \in Front : name[hw_table[hd]] = n })

(* hw_create finds a block or does nothing; what malloc returns has links  *)
(* that nobody has set.                                                    *)
Created(d, n) ==
  /\ d \in Block /\ name[d] = NoDevice
  /\ name' = [name EXCEPT ![d] = n]
  /\ links' = [links EXCEPT ![d] = [off \in LinkOffset |-> Unset]]

(* hw_load of a device with this name: it fails if the name is found or if *)
(* the table is full.                                                      *)
Unchecked(n) == NextFree                           \* mutant
LoadAt(n) == IF hw_lookup(n) # -1 THEN -1 ELSE NextFree

hw_load(d, n) ==
  hw_table' = IF LoadAt(n) = -1 THEN hw_table ELSE [hw_table EXCEPT ![LoadAt(n)] = d]

(* "hd = load(hw_create(...))" (idshw.c:44): the block of a load that      *)
(* fails is lost.                                                          *)
Create(d, n) ==
  /\ Created(d, n) /\ hw_load(d, n)
  /\ UNCHANGED << attached, torn >>

(* A static device is loaded by its owner, as often as he likes: only the  *)
(* lookup of its name is in the way. The pointer to a block is not kept.   *)
LoadStatic(d) ==
  /\ d \in Static
  /\ hw_load(d, name[d])
  /\ UNCHANGED << name, links, attached, torn >>

-----------------------------------------------------------------------------
(* hw_attach and hw_detach of a slot that holds a device: nothing happens  *)
(* if no device has the name, or for an offset that is no link.            *)
hw_attach(master, off, n) ==
  /\ hw_table[master] # NoDevice
  /\ off \in LinkOffset /\ hw_lookup(n) # -1
  /\ links' = [links EXCEPT ![hw_table[master]][off] = hw_table[hw_lookup(n)]]
  /\ attached' = attached \union {<<hw_table[master], off>>}
  /\ UNCHANGED << hw_table, name, torn >>

LeftLinked(d, off) == links[d][off]                \* mutant
Detached(d, off) == NoDevice

hw_detach(master, off) ==
  /\ hw_table[master] # NoDevice /\ off \in LinkOffset
  /\ links' = [links EXCEPT ![hw_table[master]][off] = Detached(hw_table[master], off)]
  /\ attached' = attached \ {<<hw_table[master], off>>}
  /\ UNCHANGED << hw_table, name, torn >>

(* hw_terminate frees the block of a created device and leaves a hole.     *)
SlotKept(hd) == hw_table[hd]                       \* mutant
Hole(hd) == NoDevice

hw_terminate(hd) ==
  LET d == hw_table[hd] IN
  /\ d # NoDevice
  /\ hw_table' = [hw_table EXCEPT ![hd] = Hole(hd)]
  /\ IF d \in Block
       THEN /\ name' = [name EXCEPT ![d] = NoDevice]
            /\ links' = [links EXCEPT ![d] = [off \in LinkOffset |-> Unset]]
            /\ attached' = { link \in attached : link[1] # d }
       ELSE UNCHANGED << name, links, attached >>
  /\ torn' = (torn \/ \E link \in attached : link[1] # d /\ links[link[1]][link[2]] = d)

TableNext ==
  \/ \E d \in Block, n \in Name : Create(d, n)
  \/ \E d \in Static : LoadStatic(d)
  \/ \E master \in Slot, off \in Offset :
       \/ \E n \in Name : hw_attach(master, off, n)
       \/ hw_detach(master, off)
  \/ \E hd \in Slot : hw_terminate(hd)

-----------------------------------------------------------------------------
(* Whatever is loaded, refused and terminated, no slot holds a block that  *)
(* is free, and no two slots the same block, which hw_terminate would free *)
(* twice (idshw.c:81-104).                                                 *)
SlotsLive ==
  \A hd \in Slot : hw_table[hd] # NoDevice =>
    /\ name[hw_table[hd]] # NoDevice
    /\ hw_table[hd] \in Block =>
         \A other \in Slot : hw_table[other] = hw_table[hd] => other = hd

(* If each device is detached before it is terminated, the order idshw.h   *)
(* lists (46-51), then no link leads into a block that is free.            *)
LinksLive ==
  ~torn =>
    \A d \in Device, off \in LinkOffset :
      links[d][off] \in Device => name[links[d][off]] # NoDevice

Named(n) == { hd \in Slot : hw_table[hd] # NoDevice /\ name[hw_table[hd]] = n }

(* A second device of a name is loaded only while a hole hides the first   *)
(* one from hw_load (idshw.c:85, 102, 207), and a name that is found leads *)
(* to the same slot for as long as no slot up to that one is terminated.   *)
NamesStable ==
  [][\A n \in Name :
       /\ Cardinality(Named(n)') > Cardinality(Named(n)) /\ Named(n) # {} =>
            \A hd \in Named(n) : \E free \in Free : free < hd
       /\ hw_lookup(n) # -1 /\ hw_lookup(n)' # hw_lookup(n) =>
            \E hd \in 0 .. hw_lookup(n) :
              hw_table[hd] # NoDevice /\ hw_table'[hd] = NoDevice]_table

=============================================================================
