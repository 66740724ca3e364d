--------------------------- MODULE DevicesProofs ---------------------------
(***************************************************************************)
(* The machine keeps its promises over any device table, and the table its *)
(* own over any machine, for every number of slots, blocks and names.      *)
(***************************************************************************)
EXTENDS Devices, IdsSmProofs, FiniteSetTheorems, WellFoundedInduction

(* The machine of the composition is the machine of IdsSm.                 *)
LEMMA MachineStep == [DevicesNext]_devices => [Next]_vars
<1>1. ASSUME DevicesNext PROVE Next \/ UNCHANGED vars
  <2>1. CASE Present
    BY <2>1 DEF Next
  <2>2. CASE Call
    BY <2>2 DEF Call, Next
  <2>3. CASE Continue
    BY <2>3 DEF Continue, Next
  <2>4. CASE Ends
    BY <2>4 DEF Ends, Outcome, Next
  <2>5. QED
    BY <1>1, <2>1, <2>2, <2>3, <2>4 DEF DevicesNext, Next
<1>2. QED
  BY <1>1 DEF devices

(* Whatever hw_launcher makes of the table, the machine behaves as IdsSm   *)
(* says: the composition implements it.                                    *)
THEOREM MachineImplemented == DevicesSpec => Spec
<1>1. DevicesInit => Init
  BY DEF DevicesInit
<1>2. QED
  BY <1>1, MachineStep, PTL DEF DevicesSpec, Spec

-----------------------------------------------------------------------------
(* A slot that is looked up is one of those looked for.                    *)
LEMMA LeastOf == ASSUME NEW slots, Least(slots) # -1 PROVE Least(slots) \in slots
BY DEF Least, First

LEMMA NextFreeIsFree == NextFree # -1 => NextFree \in Slot /\ hw_table[NextFree] = NoDevice
BY LeastOf DEF NextFree, Free

LEMMA FoundIsNamed ==
  ASSUME NEW n, hw_lookup(n) # -1
  PROVE  /\ hw_lookup(n) \in Slot
         /\ hw_table[hw_lookup(n)] # NoDevice
         /\ name[hw_table[hw_lookup(n)]] = n
<1> DEFINE slots == { hd \in Front : name[hw_table[hd]] = n }
<1>1. hw_lookup(n) \in slots
  BY LeastOf DEF hw_lookup
<1>2. slots \subseteq Slot
  BY DEF Front
<1>3. \A hd \in Front : hw_table[hd] # NoDevice
  BY HwTableAssumption DEF Front, Free, Slot
<1>4. QED
  BY <1>1, <1>2, <1>3

(* A link into a device was attached, and nobody has detached it.          *)
AttachedInv ==
  \A d \in Device, off \in LinkOffset :
    links[d][off] \in Device => <<d, off>> \in attached

StaticInv == \A d \in Static : name[d] # NoDevice

TableInv == TableTypeOK /\ SlotsLive /\ StaticInv /\ AttachedInv /\ LinksLive

LEMMA InitTable == HwInit => TableInv
<1> SUFFICES ASSUME HwInit PROVE TableInv
  OBVIOUS
<1>1. name \in [Device -> Name \union {NoDevice}]
  BY HwTableAssumption DEF HwInit, Device
<1>2. links \in [Device -> [LinkOffset -> Device \union {NoDevice, Unset}]]
  BY DEF HwInit
<1>3. TableTypeOK
  BY <1>1, <1>2 DEF HwInit, TableTypeOK
<1>4. \A d \in Device, off \in LinkOffset : links[d][off] \notin Device
  BY HwTableAssumption DEF HwInit, Device
<1>5. StaticInv
  BY HwTableAssumption DEF HwInit, StaticInv, Device
<1>6. QED
  BY <1>3, <1>4, <1>5 DEF TableInv, SlotsLive, AttachedInv, LinksLive, HwInit

(* Loading a device that is not free, and if it is a block in no slot yet. *)
LEMMA LoadStep ==
  ASSUME TableTypeOK, SlotsLive, NEW d \in Device, NEW n, hw_load(d, n),
         d \in Block => \A hd \in Slot : hw_table[hd] # d,
         name' \in [Device -> Name \union {NoDevice}], name'[d] # NoDevice,
         \A other \in Device : other # d => name'[other] = name[other]
  PROVE  hw_table' \in [Slot -> Device \union {NoDevice}] /\ SlotsLive'
<1>1. CASE LoadAt(n) = -1
  <2>1. hw_table' = hw_table
    BY <1>1 DEF hw_load
  <2>2. \A hd \in Slot : hw_table[hd] # NoDevice => name'[hw_table[hd]] # NoDevice
    BY DEF TableTypeOK, SlotsLive
  <2>3. QED
    BY <2>1, <2>2 DEF TableTypeOK, SlotsLive
<1>2. CASE LoadAt(n) # -1
  <2>1. LoadAt(n) \in Slot
    BY <1>2, NextFreeIsFree DEF LoadAt
  <2>2. hw_table' = [hw_table EXCEPT ![LoadAt(n)] = d]
    BY <1>2 DEF hw_load
  <2>3. \A hd \in Slot : hw_table'[hd] = IF hd = LoadAt(n) THEN d ELSE hw_table[hd]
    BY <2>1, <2>2 DEF TableTypeOK
  <2>4. hw_table' \in [Slot -> Device \union {NoDevice}]
    BY <2>1, <2>2 DEF TableTypeOK
  <2>5. SlotsLive'
    <3> SUFFICES ASSUME NEW hd \in Slot, hw_table'[hd] # NoDevice
                 PROVE  /\ name'[hw_table'[hd]] # NoDevice
                        /\ hw_table'[hd] \in Block =>
                             \A other \in Slot :
                               hw_table'[other] = hw_table'[hd] => other = hd
      BY DEF SlotsLive
    <3>1. hw_table[hd] \in Device \union {NoDevice}
      BY DEF TableTypeOK
    <3>2. QED
      BY <2>3, <3>1 DEF SlotsLive
  <2>6. QED
    BY <2>4, <2>5
<1>3. QED
  BY <1>1, <1>2

LEMMA CreateStep ==
  ASSUME TableInv, NEW d \in Block, NEW n \in Name, Create(d, n)
  PROVE  TableInv'
<1> USE DEF TableInv
<1>1. d \in Device /\ d \notin Static
  BY HwTableAssumption DEF Device
<1>2. name[d] = NoDevice /\ name' = [name EXCEPT ![d] = n]
  BY DEF Create, Created
<1>3. n # NoDevice
  BY HwTableAssumption
<1>4. name' \in [Device -> Name \union {NoDevice}]
  BY <1>2 DEF TableTypeOK
<1>5. \A other \in Device : name'[other] = IF other = d THEN n ELSE name[other]
  BY <1>1, <1>2 DEF TableTypeOK
<1>6. \A hd \in Slot : hw_table[hd] # d
  BY <1>2, HwTableAssumption, <1>1 DEF SlotsLive
<1>7. hw_table' \in [Slot -> Device \union {NoDevice}] /\ SlotsLive'
  BY <1>1, <1>3, <1>4, <1>5, <1>6, LoadStep DEF Create
<1>8. links' = [links EXCEPT ![d] = [off \in LinkOffset |-> Unset]]
  BY DEF Create, Created
<1>9. links' \in [Device -> [LinkOffset -> Device \union {NoDevice, Unset}]]
  BY <1>8 DEF TableTypeOK
<1>10. \A e \in Device, off \in LinkOffset :
         links'[e][off] = IF e = d THEN Unset ELSE links[e][off]
  BY <1>1, <1>8 DEF TableTypeOK
<1>11. attached' = attached /\ torn' = torn
  BY DEF Create
<1>12. TableTypeOK'
  BY <1>4, <1>7, <1>9, <1>11 DEF TableTypeOK
<1>13. StaticInv'
  BY <1>1, <1>5 DEF StaticInv, Device
<1>14. AttachedInv'
  BY <1>10, <1>11, HwTableAssumption DEF AttachedInv
<1>15. LinksLive'
  BY <1>3, <1>5, <1>10, <1>11, HwTableAssumption DEF LinksLive
<1>16. QED
  BY <1>7, <1>12, <1>13, <1>14, <1>15

LEMMA LoadStaticStep ==
  ASSUME TableInv, NEW d \in Static, LoadStatic(d)
  PROVE  TableInv'
<1> USE DEF TableInv
<1>1. d \in Device /\ name[d] # NoDevice
  BY DEF Device, StaticInv
<1>2. UNCHANGED << name, links, attached, torn >>
  BY DEF LoadStatic
<1>3. hw_table' \in [Slot -> Device \union {NoDevice}] /\ SlotsLive'
  BY <1>1, <1>2, HwTableAssumption, LoadStep DEF LoadStatic, TableTypeOK
<1>4. QED
  BY <1>2, <1>3 DEF TableTypeOK, StaticInv, AttachedInv, LinksLive

LEMMA AttachStep ==
  ASSUME TableInv, NEW master \in Slot, NEW off \in Offset, NEW n \in Name,
         hw_attach(master, off, n)
  PROVE  TableInv'
<1> USE DEF TableInv
<1> DEFINE d == hw_table[master]
           slave == hw_table[hw_lookup(n)]
<1>1. d \in Device /\ off \in LinkOffset
  BY DEF hw_attach, TableTypeOK
<1>2. slave \in Device /\ name[slave] # NoDevice
  BY FoundIsNamed, HwTableAssumption DEF hw_attach, TableTypeOK
<1>3. links' = [links EXCEPT ![d][off] = slave]
  BY DEF hw_attach
<1>4. links' \in [Device -> [LinkOffset -> Device \union {NoDevice, Unset}]]
  BY <1>1, <1>2, <1>3 DEF TableTypeOK
<1>5. \A e \in Device, o \in LinkOffset :
        links'[e][o] = IF e = d /\ o = off THEN slave ELSE links[e][o]
  BY <1>1, <1>3 DEF TableTypeOK
<1>6. attached' = attached \union {<<d, off>>} /\ UNCHANGED << hw_table, name, torn >>
  BY DEF hw_attach
<1>7. TableTypeOK'
  BY <1>1, <1>4, <1>6 DEF TableTypeOK
<1>8. AttachedInv'
  BY <1>5, <1>6 DEF AttachedInv
<1>9. LinksLive'
  BY <1>2, <1>5, <1>6 DEF LinksLive
<1>10. QED
  BY <1>6, <1>7, <1>8, <1>9 DEF SlotsLive, StaticInv

LEMMA DetachStep ==
  ASSUME TableInv, NEW master \in Slot, NEW off \in Offset, hw_detach(master, off)
  PROVE  TableInv'
<1> USE DEF TableInv
<1> DEFINE d == hw_table[master]
<1>1. d \in Device /\ off \in LinkOffset
  BY DEF hw_detach, TableTypeOK
<1>2. links' = [links EXCEPT ![d][off] = NoDevice]
  BY DEF hw_detach, Detached
<1>3. links' \in [Device -> [LinkOffset -> Device \union {NoDevice, Unset}]]
  BY <1>1, <1>2 DEF TableTypeOK
<1>4. \A e \in Device, o \in LinkOffset :
        links'[e][o] = IF e = d /\ o = off THEN NoDevice ELSE links[e][o]
  BY <1>1, <1>2 DEF TableTypeOK
<1>5. attached' = attached \ {<<d, off>>} /\ UNCHANGED << hw_table, name, torn >>
  BY DEF hw_detach
<1>6. TableTypeOK'
  BY <1>3, <1>5 DEF TableTypeOK
<1>7. AttachedInv'
  BY <1>4, <1>5, HwTableAssumption DEF AttachedInv
<1>8. LinksLive'
  BY <1>4, <1>5, HwTableAssumption DEF LinksLive
<1>9. QED
  BY <1>5, <1>6, <1>7, <1>8 DEF SlotsLive, StaticInv

LEMMA TerminateStep ==
  ASSUME TableInv, NEW hd \in Slot, hw_terminate(hd)
  PROVE  TableInv'
<1> USE DEF TableInv
<1> DEFINE d == hw_table[hd]
<1>1. d \in Device /\ d # NoDevice
  BY DEF hw_terminate, TableTypeOK
<1>2. hw_table' = [hw_table EXCEPT ![hd] = NoDevice]
  BY DEF hw_terminate, Hole
<1>3. hw_table' \in [Slot -> Device \union {NoDevice}]
  BY <1>2 DEF TableTypeOK
<1>4. \A other \in Slot : hw_table'[other] = IF other = hd THEN NoDevice ELSE hw_table[other]
  BY <1>2 DEF TableTypeOK
<1>5. torn' = (torn \/ \E link \in attached : link[1] # d /\ links[link[1]][link[2]] = d)
  BY DEF hw_terminate
<1>6. CASE d \in Block
  <2>1. name' = [name EXCEPT ![d] = NoDevice]
    BY <1>6 DEF hw_terminate
  <2>2. links' = [links EXCEPT ![d] = [off \in LinkOffset |-> Unset]]
    BY <1>6 DEF hw_terminate
  <2>3. attached' = { link \in attached : link[1] # d }
    BY <1>6 DEF hw_terminate
  <2>4. name' \in [Device -> Name \union {NoDevice}]
    BY <2>1 DEF TableTypeOK
  <2>5. \A e \in Device : name'[e] = IF e = d THEN NoDevice ELSE name[e]
    BY <1>1, <2>1 DEF TableTypeOK
  <2>6. links' \in [Device -> [LinkOffset -> Device \union {NoDevice, Unset}]]
    BY <2>2 DEF TableTypeOK
  <2>7. \A e \in Device, off \in LinkOffset :
          links'[e][off] = IF e = d THEN Unset ELSE links[e][off]
    BY <1>1, <2>2 DEF TableTypeOK
  <2>8. torn' \in BOOLEAN
    BY <1>5 DEF TableTypeOK
  <2>9. attached' \subseteq Device \X LinkOffset
    BY <2>3 DEF TableTypeOK
  <2>10. TableTypeOK'
    BY <1>3, <2>4, <2>6, <2>8, <2>9 DEF TableTypeOK
  <2>11. SlotsLive'
    <3> SUFFICES ASSUME NEW s \in Slot, hw_table'[s] # NoDevice
                 PROVE  /\ name'[hw_table'[s]] # NoDevice
                        /\ hw_table'[s] \in Block =>
                             \A other \in Slot :
                               hw_table'[other] = hw_table'[s] => other = s
      BY DEF SlotsLive
    <3>1. s # hd /\ hw_table'[s] = hw_table[s] /\ hw_table[s] # NoDevice
      BY <1>4
    <3>2. hw_table[s] # d
      BY <1>1, <1>6, <3>1 DEF SlotsLive
    <3>3. hw_table[s] \in Device
      BY <3>1 DEF TableTypeOK
    <3>4. name'[hw_table'[s]] # NoDevice
      BY <2>5, <3>1, <3>2, <3>3 DEF SlotsLive
    <3>5. hw_table'[s] \in Block =>
            \A other \in Slot : hw_table'[other] = hw_table'[s] => other = s
      BY <1>4, <3>1 DEF SlotsLive
    <3>6. QED
      BY <3>4, <3>5
  <2>12. StaticInv'
    BY <1>6, <2>5, HwTableAssumption DEF StaticInv, Device
  <2>13. AttachedInv'
    <3> SUFFICES ASSUME NEW e \in Device, NEW off \in LinkOffset, links'[e][off] \in Device
                 PROVE  <<e, off>> \in attached'
      BY DEF AttachedInv
    <3>1. e # d /\ links'[e][off] = links[e][off]
      BY <2>7, HwTableAssumption
    <3>2. <<e, off>> \in attached
      BY <3>1 DEF AttachedInv
    <3>3. QED
      BY <2>3, <3>1, <3>2
  <2>14. LinksLive'
    <3> SUFFICES ASSUME ~torn', NEW e \in Device, NEW off \in LinkOffset,
                        links'[e][off] \in Device
                 PROVE  name'[links'[e][off]] # NoDevice
      BY DEF LinksLive
    <3>1. e # d /\ links'[e][off] = links[e][off]
      BY <2>7, HwTableAssumption
    <3>2. <<e, off>> \in attached
      BY <3>1 DEF AttachedInv
    <3>3. ~torn /\ links[e][off] # d
      <4>1. \A link \in attached : ~(link[1] # d /\ links[link[1]][link[2]] = d)
        BY <1>5
      <4>2. <<e, off>>[1] = e /\ <<e, off>>[2] = off
        OBVIOUS
      <4>3. QED
        BY <1>5, <3>1, <3>2, <4>1, <4>2
    <3>4. QED
      BY <2>5, <3>1, <3>3 DEF LinksLive
  <2>15. QED
    BY <2>10, <2>11, <2>12, <2>13, <2>14
<1>7. CASE d \notin Block
  <2>1. UNCHANGED << name, links, attached >>
    BY <1>7 DEF hw_terminate
  <2>2. torn' \in BOOLEAN /\ (torn => torn')
    BY <1>5 DEF TableTypeOK
  <2>3. TableTypeOK'
    BY <1>3, <2>1, <2>2 DEF TableTypeOK
  <2>4. SlotsLive'
    BY <1>4, <2>1 DEF SlotsLive
  <2>5. QED
    BY <2>1, <2>2, <2>3, <2>4 DEF StaticInv, AttachedInv, LinksLive
<1>8. QED
  BY <1>6, <1>7

LEMMA TableStep == TableInv /\ [DevicesNext]_devices => TableInv'
<1> SUFFICES ASSUME TableInv, [DevicesNext]_devices PROVE TableInv'
  OBVIOUS
<1>1. CASE UNCHANGED table
  BY <1>1 DEF table, TableInv, TableTypeOK, SlotsLive, StaticInv, AttachedInv, LinksLive
<1>2. CASE TableNext
  BY <1>2, CreateStep, LoadStaticStep, AttachStep, DetachStep, TerminateStep DEF TableNext
<1>3. QED
  BY <1>1, <1>2 DEF DevicesNext, devices, table

LEMMA TableInvariant == DevicesSpec => []TableInv
<1>1. DevicesInit => TableInv
  BY InitTable DEF DevicesInit
<1>2. QED
  BY <1>1, TableStep, PTL DEF DevicesSpec

(* Each slot is empty or holds a device, and each link a device, nothing,  *)
(* or what malloc returned.                                                *)
THEOREM TableTyping == DevicesSpec => []TableTypeOK
<1>1. TableInv => TableTypeOK
  BY DEF TableInv
<1>2. QED
  BY <1>1, TableInvariant, PTL

(* No slot holds a block that was freed, and no two slots the same block,  *)
(* whatever is loaded over the holes that hw_terminate leaves.             *)
THEOREM SlotsStayLive == DevicesSpec => []SlotsLive
<1>1. TableInv => SlotsLive
  BY DEF TableInv
<1>2. QED
  BY <1>1, TableInvariant, PTL

(* As long as every device is detached before it is terminated, no link    *)
(* leads into a freed block.                                               *)
THEOREM LinksStayLive == DevicesSpec => []LinksLive
<1>1. TableInv => LinksLive
  BY DEF TableInv
<1>2. QED
  BY <1>1, TableInvariant, PTL
-----------------------------------------------------------------------------
(* What is looked up is found, and it is the least slot of the name.       *)
LEMMA LeastExists ==
  ASSUME NEW slots \in SUBSET Slot, slots # {}
  PROVE  Least(slots) \in First(slots) /\ Least(slots) \in slots
<1>1. Slot \subseteq Nat
  BY HwTableAssumption DEF Slot
<1>2. PICK hd \in slots : \A other \in slots : ~(<<other, hd>> \in OpToRel(<, Nat))
  <2>1. IsWellFoundedOn(OpToRel(<, Nat), Nat) /\ slots \subseteq Nat
    BY <1>1, NatLessThanWellFounded
  <2>2. QED
    BY <2>1, WFMin
<1>3. hd \in First(slots)
  <2>1. \A other \in slots : other \in Nat /\ hd \in Nat /\ ~(other < hd)
    BY <1>1, <1>2 DEF OpToRel
  <2>2. QED
    BY <2>1 DEF First
<1>4. QED
  BY <1>3 DEF Least, First

LEMMA LeastIs ==
  ASSUME NEW slots \in SUBSET Slot, NEW hd \in slots, \A other \in slots : hd <= other
  PROVE  Least(slots) = hd
<1>1. Least(slots) \in First(slots) /\ Least(slots) \in slots
  BY LeastExists
<1>2. Least(slots) <= hd /\ hd <= Least(slots)
  BY <1>1 DEF First
<1>3. Least(slots) \in Nat /\ hd \in Nat
  <2>1. \A s \in Slot : s \in Nat
    BY HwTableAssumption DEF Slot
  <2>2. Least(slots) \in Slot /\ hd \in Slot
    BY <1>1
  <2>3. QED
    BY <2>1, <2>2
<1>4. QED
  BY <1>2, <1>3

LEMMA LookedUp ==
  ASSUME NEW n, hw_lookup(n) # -1
  PROVE  /\ hw_lookup(n) \in Slot /\ hw_lookup(n) \in Front
         /\ name[hw_table[hw_lookup(n)]] = n
         /\ \A hd \in Front : name[hw_table[hd]] = n => hw_lookup(n) <= hd
<1> DEFINE slots == { hd \in Front : name[hw_table[hd]] = n }
<1>1. slots \in SUBSET Slot /\ hw_lookup(n) = Least(slots)
  BY DEF hw_lookup, Front
<1>2. slots # {}
  BY <1>1 DEF Least, First
<1>3. Least(slots) \in First(slots) /\ Least(slots) \in slots
  BY <1>1, <1>2, LeastExists
<1>4. QED
  BY <1>1, <1>3 DEF First

(* A name leads to the same slot as long as the slots up to it stay.       *)
LEMMA LookupStays ==
  ASSUME TableTypeOK, NEW n, hw_lookup(n) # -1,
         \A hd \in 0 .. hw_lookup(n) :
           hw_table'[hd] = hw_table[hd] /\ name'[hw_table[hd]] = name[hw_table[hd]]
  PROVE  hw_lookup(n)' = hw_lookup(n)
<1> DEFINE s == hw_lookup(n)
           slots == { hd \in Front' : name'[hw_table'[hd]] = n }
<1>1. /\ s \in Slot /\ s \in Front /\ name[hw_table[s]] = n
      /\ \A hd \in Front : name[hw_table[hd]] = n => s <= hd
  BY LookedUp
<1>2. \A hd \in 0 .. s :
        hw_table'[hd] = hw_table[hd] /\ name'[hw_table[hd]] = name[hw_table[hd]]
  OBVIOUS
<1>3. Slot = 0 .. HW_TABLE_MAX - 1 /\ HW_TABLE_MAX \in Nat
  BY HwTableAssumption DEF Slot
<1>4. hw_lookup(n)' = Least(slots)
  BY DEF hw_lookup, Least, First
<1> HIDE DEF s
<1>5. ASSUME NEW hd \in Slot, hd <= s PROVE hd \in 0 .. s
  BY <1>1, <1>3, <1>5
<1>6. ASSUME NEW hd \in Slot, hd <= s PROVE hd \in Front
  BY <1>1, <1>3, <1>6 DEF Front, Free
<1>7. s \in Front'
  <2> SUFFICES ASSUME NEW free \in Slot, hw_table'[free] = NoDevice PROVE s < free
    BY <1>1 DEF Front, Free
  <2>1. CASE free <= s
    <3>1. hw_table[free] = NoDevice
      BY <1>2, <1>5, <2>1
    <3>2. s < free
      BY <1>1, <3>1 DEF Front, Free
    <3>3. QED
      BY <3>2
  <2>2. CASE ~(free <= s)
    BY <1>1, <1>3, <2>2
  <2>3. QED
    BY <2>1, <2>2
<1>8. s \in slots
  <2>1. s \in 0 .. s
    BY <1>1, <1>3
  <2>2. QED
    BY <1>1, <1>2, <1>7, <2>1
<1>9. ASSUME NEW hd \in slots PROVE s <= hd
  <2>1. hd \in Slot
    BY DEF Front
  <2>2. CASE hd <= s
    <3>1. hd \in Front /\ hd \in 0 .. s
      BY <1>5, <1>6, <2>1, <2>2
    <3>2. QED
      BY <1>1, <1>2, <3>1
  <2>3. CASE ~(hd <= s)
    BY <1>1, <1>3, <2>1, <2>3
  <2>4. QED
    BY <2>2, <2>3
<1>10. slots \in SUBSET Slot
  BY DEF Front
<1> HIDE DEF slots
<1>11. Least(slots) = s
  BY <1>8, <1>9, <1>10, LeastIs
<1>12. QED
  BY <1>4, <1>11 DEF s

(* A hole lies in front of every device of a name that is not found.       *)
LEMMA HiddenByHole ==
  ASSUME NEW n, hw_lookup(n) = -1, NEW hd \in Named(n)
  PROVE  \E free \in Free : free < hd
<1> DEFINE slots == { other \in Front : name[hw_table[other]] = n }
<1>1. slots \in SUBSET Slot /\ hw_lookup(n) = Least(slots)
  BY DEF hw_lookup, Front
<1>2. Slot = 0 .. HW_TABLE_MAX - 1 /\ HW_TABLE_MAX \in Nat
  BY HwTableAssumption DEF Slot
<1>3. slots = {}
  <2>1. ASSUME slots # {} PROVE FALSE
    <3>1. Least(slots) \in Slot
      BY <1>1, <2>1, LeastExists
    <3>2. QED
      BY <1>1, <1>2, <3>1
  <2>2. QED
    BY <2>1
<1>4. hd \in Slot /\ hw_table[hd] # NoDevice /\ name[hw_table[hd]] = n
  BY DEF Named
<1>5. hd \notin Front
  BY <1>3, <1>4
<1>6. PICK free \in Free : ~(hd < free)
  BY <1>4, <1>5 DEF Front
<1>7. free # hd /\ free \in Slot
  BY <1>4, <1>6 DEF Free
<1>8. QED
  BY <1>2, <1>4, <1>6, <1>7

LEMMA FewerNamed ==
  ASSUME NEW n, Named(n)' \subseteq Named(n)
  PROVE  ~(Cardinality(Named(n)') > Cardinality(Named(n)))
<1>1. IsFiniteSet(Named(n))
  <2>1. IsFiniteSet(Slot)
    BY HwTableAssumption, FS_Interval DEF Slot
  <2>2. Named(n) \subseteq Slot
    BY DEF Named
  <2>3. QED
    BY <2>1, <2>2, FS_Subset
<1>2. /\ IsFiniteSet(Named(n)') /\ Cardinality(Named(n)') <= Cardinality(Named(n))
  BY <1>1, FS_Subset
<1>3. Cardinality(Named(n)') \in Nat /\ Cardinality(Named(n)) \in Nat
  BY <1>1, <1>2, FS_CardinalityType
<1>4. QED
  BY <1>2, <1>3

(* The names of a step of the table.                                       *)
Hidden(n) ==
  Cardinality(Named(n)') > Cardinality(Named(n)) /\ Named(n) # {} =>
    \A hd \in Named(n) : \E free \in Free : free < hd

Led(n) ==
  hw_lookup(n) # -1 /\ hw_lookup(n)' # hw_lookup(n) =>
    \E hd \in 0 .. hw_lookup(n) : hw_table[hd] # NoDevice /\ hw_table'[hd] = NoDevice

LEMMA NamesOfLoad ==
  ASSUME TableInv, NEW d \in Device, NEW n0, hw_load(d, n0),
         name'[d] = n0,
         \A hd \in Slot : hw_table[hd] # NoDevice =>
           name'[hw_table[hd]] = name[hw_table[hd]],
         NEW n
  PROVE  Hidden(n) /\ Led(n)
<1>1. /\ hw_table \in [Slot -> Device \union {NoDevice}] /\ NoDevice \notin Device
      /\ Slot = 0 .. HW_TABLE_MAX - 1 /\ HW_TABLE_MAX \in Nat
      /\ name \in [Device -> Name \union {NoDevice}] /\ TableTypeOK
  BY HwTableAssumption DEF TableInv, TableTypeOK, Slot
<1> DEFINE at == LoadAt(n0)
<1>2. at # -1 => /\ at \in Slot /\ hw_table[at] = NoDevice /\ hw_lookup(n0) = -1
                 /\ hw_table' = [hw_table EXCEPT ![at] = d]
  BY NextFreeIsFree DEF LoadAt, hw_load
<1>3. at = -1 => hw_table' = hw_table
  BY DEF hw_load
<1> HIDE DEF at
<1>4. \A hd \in Slot : hw_table[hd] # NoDevice =>
        hw_table'[hd] = hw_table[hd] /\ name'[hw_table[hd]] = name[hw_table[hd]]
  BY <1>1, <1>2, <1>3
<1>5. Led(n)
  <2>1. ASSUME hw_lookup(n) # -1 PROVE hw_lookup(n)' = hw_lookup(n)
    <3>1. hw_lookup(n) \in Slot /\ hw_lookup(n) \in Front
      BY <2>1, LookedUp
    <3>2. ASSUME NEW hd \in 0 .. hw_lookup(n) PROVE hd \in Slot /\ hw_table[hd] # NoDevice
      BY <1>1, <3>1 DEF Front, Free
    <3>3. QED
      BY <1>1, <1>4, <2>1, <3>2, LookupStays
  <2>2. QED
    BY <2>1 DEF Led
<1>6. Hidden(n)
  <2>1. CASE at # -1 /\ n = n0
    BY <1>2, <2>1, HiddenByHole DEF Hidden
  <2>2. CASE ~(at # -1 /\ n = n0)
    <3>1. Named(n)' \subseteq Named(n)
      <4> SUFFICES ASSUME NEW hd \in Slot, hw_table'[hd] # NoDevice, name'[hw_table'[hd]] = n
                   PROVE  hw_table[hd] # NoDevice /\ name[hw_table[hd]] = n
        BY DEF Named
      <4>1. CASE at # -1 /\ hd = at
        BY <1>1, <1>2, <2>2, <4>1
      <4>2. CASE ~(at # -1 /\ hd = at)
        <5>1. hw_table'[hd] = hw_table[hd]
          BY <1>1, <1>2, <1>3, <4>2
        <5>2. QED
          BY <1>1, <1>4, <5>1
      <4>3. QED
        BY <4>1, <4>2
    <3>2. QED
      BY <3>1, FewerNamed DEF Hidden
  <2>3. QED
    BY <2>1, <2>2
<1>7. QED
  BY <1>5, <1>6

LEMMA NamesOfTerminate ==
  ASSUME TableInv, NEW hd0 \in Slot, hw_terminate(hd0), NEW n
  PROVE  Named(n)' \subseteq Named(n) /\ Led(n)
<1> DEFINE d == hw_table[hd0]
<1>1. /\ hw_table \in [Slot -> Device \union {NoDevice}] /\ NoDevice \notin Device
      /\ Slot = 0 .. HW_TABLE_MAX - 1 /\ HW_TABLE_MAX \in Nat
      /\ name \in [Device -> Name \union {NoDevice}] /\ TableTypeOK
      /\ \A hd, other \in Slot :
           hw_table[hd] \in Block /\ hw_table[other] = hw_table[hd] => other = hd
  BY HwTableAssumption DEF TableInv, TableTypeOK, SlotsLive, Slot, Device
<1>2. /\ d # NoDevice /\ hw_table' = [hw_table EXCEPT ![hd0] = NoDevice]
      /\ name' = name \/ (d \in Block /\ name' = [name EXCEPT ![d] = NoDevice])
  BY DEF hw_terminate, Hole
<1> HIDE DEF d
<1>3. \A hd \in Slot : hd # hd0 /\ hw_table[hd] # NoDevice =>
        hw_table'[hd] = hw_table[hd] /\ name'[hw_table[hd]] = name[hw_table[hd]]
  BY <1>1, <1>2 DEF d
<1>4. hw_table'[hd0] = NoDevice /\ \A hd \in Slot : hd # hd0 => hw_table'[hd] = hw_table[hd]
  BY <1>1, <1>2
<1>5. Named(n)' \subseteq Named(n)
  BY <1>3, <1>4 DEF Named
<1>6. Led(n)
  <2> SUFFICES ASSUME hw_lookup(n) # -1, ~(hd0 \in 0 .. hw_lookup(n))
               PROVE  hw_lookup(n)' = hw_lookup(n)
    BY <1>2, <1>4 DEF Led, d
  <2>1. hw_lookup(n) \in Slot /\ hw_lookup(n) \in Front
    BY LookedUp
  <2>2. ASSUME NEW hd \in 0 .. hw_lookup(n)
        PROVE  hd \in Slot /\ hd # hd0 /\ hw_table[hd] # NoDevice
    BY <1>1, <2>1 DEF Front, Free
  <2>3. QED
    BY <1>1, <1>3, <2>2, LookupStays
<1>7. QED
  BY <1>5, <1>6

LEMMA NamesStep ==
  ASSUME TableInv, TableNext, NEW n
  PROVE  Hidden(n) /\ Led(n)
<1>1. ASSUME NEW d \in Block, NEW n0 \in Name, Create(d, n0) PROVE Hidden(n) /\ Led(n)
  <2>1. d \in Device /\ name[d] = NoDevice /\ name' = [name EXCEPT ![d] = n0] /\ hw_load(d, n0)
    BY <1>1 DEF Create, Created, Device
  <2>2. name \in [Device -> Name \union {NoDevice}] /\ NoDevice \notin Device
    BY HwTableAssumption DEF TableInv, TableTypeOK
  <2>3. \A hd \in Slot : hw_table[hd] # d
    BY <2>1, <2>2 DEF TableInv, SlotsLive
  <2>4. name'[d] = n0 /\ \A hd \in Slot : hw_table[hd] # NoDevice =>
                            name'[hw_table[hd]] = name[hw_table[hd]]
    BY <2>1, <2>2, <2>3
  <2>5. QED
    BY <2>1, <2>4, NamesOfLoad
<1>2. ASSUME NEW d \in Static, LoadStatic(d) PROVE Hidden(n) /\ Led(n)
  <2>1. d \in Device /\ hw_load(d, name[d]) /\ name' = name
    BY <1>2 DEF LoadStatic, Device
  <2>2. QED
    BY <2>1, NamesOfLoad
<1>3. ASSUME UNCHANGED << hw_table, name >> PROVE Hidden(n) /\ Led(n)
  <2>1. Named(n)' \subseteq Named(n)
    BY <1>3 DEF Named
  <2>2. hw_lookup(n)' = hw_lookup(n)
    BY <1>3 DEF hw_lookup, Front, Free, Least, First
  <2>3. QED
    BY <2>1, <2>2, FewerNamed DEF Hidden, Led
<1>4. ASSUME NEW hd \in Slot, hw_terminate(hd) PROVE Hidden(n) /\ Led(n)
  BY <1>4, NamesOfTerminate, FewerNamed DEF Hidden
<1>5. QED
  BY <1>1, <1>2, <1>3, <1>4 DEF TableNext, hw_attach, hw_detach

(* A second device of a name comes only while a hole hides the first from  *)
(* hw_load, and a name that is found goes on leading to the same slot until*)
(* a slot up to that one is terminated (idshw.c:85, 102, 207).             *)
THEOREM NamesLeadToTheSame == DevicesSpec => NamesStable
<1>1. TableInv /\ [DevicesNext]_devices =>
        [\A n \in Name :
           /\ Cardinality(Named(n)') > Cardinality(Named(n)) /\ Named(n) # {} =>
                \A hd \in Named(n) : \E free \in Free : free < hd
           /\ hw_lookup(n) # -1 /\ hw_lookup(n)' # hw_lookup(n) =>
                \E hd \in 0 .. hw_lookup(n) :
                  hw_table[hd] # NoDevice /\ hw_table'[hd] = NoDevice]_table
  <2>1. DevicesNext => TableNext \/ UNCHANGED table
    BY DEF DevicesNext
  <2>2. UNCHANGED devices => UNCHANGED table
    BY DEF devices
  <2>3. QED
    BY <2>1, <2>2, NamesStep DEF Hidden, Led
<1>2. QED
  BY <1>1, TableInvariant, PTL DEF DevicesSpec, NamesStable

=============================================================================
