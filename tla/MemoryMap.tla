------------------------------ MODULE MemoryMap -------------------------------
(***************************************************************************)
(* The start goes on, the memory is divided: getMemorySize of load.asm asks *)
(* the BIOS for the zones, InitGlobal of kentry.asm copies them, and        *)
(* pMemoryModuleInit of pMemory.c gives each to the page frames, to a list  *)
(* of units or to a list of blocks.  What it makes of a zone is in Pages    *)
(* and Heap.                                                               *)
(*                                                                         *)
(* Maps are those of machines the code is made for: at most 20 zones, in    *)
(* ascending order, that do not overlap; the first is at 0 and reaches      *)
(* beyond BaseOfAPP.  Of base and length the code takes the low words, and  *)
(* it does not look how many lists it has used, so the zones that can be    *)
(* used lie below 4 GB and are not more than the lists and the page frames  *)
(* take.  That none is too small for its list is taken for granted.         *)
(***************************************************************************)
EXTENDS BootLoader, FiniteSets

CONSTANTS ZONE_RESERVED,
          MEM_LIST_NUM,
          WordRange,    \* what a word of 32 bits is taken modulo
          Maps          \* sequences of zones [base, len, type]

ASSUME MapsAssumption ==
    /\ BaseOfAPP \in Nat
    /\ MEM_LIST_NUM \in Nat \ {0} /\ WordRange \in Nat
    /\ \A m \in Maps :
        /\ m \in Seq([base : Nat, len : Nat \ {0}, type : Nat])
        /\ Len(m) \in 1 .. 20 /\ m[1].base = 0 /\ m[1].len > BaseOfAPP
        /\ \A j, k \in DOMAIN m : j < k => m[j].base + m[j].len <= m[k].base
        /\ LET given == {k \in DOMAIN m : m[k].type # ZONE_RESERVED}
           IN  /\ Cardinality(given) <= MEM_LIST_NUM + 1
               /\ \A k \in given : m[k].len < WordRange /\ m[k].base + m[k].len <= WordRange

VARIABLES
    phase,
    bios,       \* the map of the machine, and how far it has been told
    told,
    ards,       \* the table of the loader
    gMemInfo,   \* the table of the kernel
    i,
    gVMemList, gFMemList,   \* the zones given to each list, in its order
    page        \* the zone for the page frames so far, length 0 for none

mapVars == <<phase, bios, told, ards, gMemInfo, i, gVMemList, gFMemList, page>>

Zone(base, len) == [base |-> base, len |-> len]

MapInit ==
    /\ phase = "e820"
    /\ bios = <<>> /\ told = 0
    /\ ards = <<>> /\ gMemInfo = <<>> /\ i = 0
    /\ gVMemList = <<>> /\ gFMemList = <<>>
    /\ page = Zone(0, 0)

(* The BIOS has both calls: without them the kernel would have no memory.   *)
eax_0xe801 ==
    /\ phase = "e820" /\ bios = <<>>
    /\ bios' \in Maps
    /\ UNCHANGED <<phase, told, ards, gMemInfo, i, gVMemList, gFMemList, page>>

(* One call of the BIOS: it answers with a zone and 0 or more to come...    *)
getMemoryInfo ==
    /\ phase = "e820" /\ told < Len(bios)
    /\ ards' = Append(ards, bios[told + 1])
    /\ told' = told + 1
    /\ phase' \in IF told' = Len(bios) THEN {"e820", "InitGlobal"} ELSE {"e820"}
    /\ UNCHANGED <<bios, gMemInfo, i, gVMemList, gFMemList, page>>

(* ... or, some of them only when asked behind the last one, with the carry *)
(* flag, and that call counts for nothing.                                  *)
getError ==
    /\ phase = "e820" /\ bios # <<>> /\ told = Len(bios)
    /\ phase' = "InitGlobal"
    /\ UNCHANGED <<bios, told, ards, gMemInfo, i, gVMemList, gFMemList, page>>

InitGlobal ==
    /\ phase = "InitGlobal"
    /\ gMemInfo' = ards
    /\ phase' = "zones"
    /\ UNCHANGED <<bios, told, ards, i, gVMemList, gFMemList, page>>

(* What pMemoryModuleInit sees of zone i, and what it does with it: *)
LowWords(z) == [z EXCEPT !.base = @ % WordRange, !.len = @ % WordRange]

Larger(z) == z.len > page.len

ReplacedLost == gVMemList
Replaced == IF page.len # 0 THEN Append(gVMemList, page) ELSE gVMemList

NextZone ==
    /\ phase = "zones" /\ i < Len(gMemInfo)
    /\ i' = i + 1
    /\ UNCHANGED <<phase, bios, told, ards, gMemInfo>>

LowMemory(z) ==
    /\ z.base = 0 /\ z.type # ZONE_RESERVED
    /\ gVMemList' = Append(gVMemList, Zone(BaseOfAPP, z.len - BaseOfAPP))
    /\ UNCHANGED <<gFMemList, page>>

ForPages(z) ==
    /\ z.base # 0 /\ z.type # ZONE_RESERVED /\ Larger(z)
    /\ gVMemList' = Replaced
    /\ page' = Zone(z.base, z.len)
    /\ UNCHANGED gFMemList

ForUnits(z) ==
    /\ z.base # 0 /\ z.type # ZONE_RESERVED /\ ~Larger(z)
    /\ gFMemList' = Append(gFMemList, Zone(z.base, z.len))
    /\ UNCHANGED <<gVMemList, page>>

Reserved(z) ==
    /\ z.type = ZONE_RESERVED
    /\ UNCHANGED <<gVMemList, gFMemList, page>>

DivideZone ==
    /\ NextZone
    /\ LET z == LowWords(gMemInfo[i + 1])
       IN  LowMemory(z) \/ ForPages(z) \/ ForUnits(z) \/ Reserved(z)

InitPages ==
    /\ phase = "zones" /\ i = Len(gMemInfo)
    /\ phase' = "divided"
    /\ UNCHANGED <<bios, told, ards, gMemInfo, i, gVMemList, gFMemList, page>>

MapNext == eax_0xe801 \/ getMemoryInfo \/ getError \/ InitGlobal \/ DivideZone \/ InitPages

StartInit == BootInit /\ MapInit

StartNext ==
    \/ BootNext /\ UNCHANGED mapVars
    \/ pc = "entered" /\ MapNext /\ UNCHANGED bootVars

StartSpec == StartInit /\ [][StartNext]_<<bootVars, mapVars>>

-----------------------------------------------------------------------------
In(a, z) == a >= z.base /\ a < z.base + z.len

Usable(a) ==
    a >= BaseOfAPP /\ \E k \in DOMAIN bios : In(a, bios[k]) /\ bios[k].type # ZONE_RESERVED

(* How many lists hand out address a. *)
Owners(a) ==
    Cardinality({k \in DOMAIN gVMemList : In(a, gVMemList[k])})
    + Cardinality({k \in DOMAIN gFMemList : In(a, gFMemList[k])})
    + (IF In(a, page) THEN 1 ELSE 0)

Addresses == 0 .. IF bios = <<>> THEN 0 ELSE bios[Len(bios)].base + bios[Len(bios)].len

(* Every address above the programs that the machine has and does not       *)
(* reserve is handed out by one list, no other address by any, in whatever  *)
(* sizes and order the zones come; the page frames are the largest zone but *)
(* the first, and there are as many lists of units and of blocks as needed. *)
MemoryDividedOnce ==
    /\ Len(gVMemList) <= MEM_LIST_NUM /\ Len(gFMemList) <= MEM_LIST_NUM
    /\ \A a \in Addresses : Owners(a) <= IF Usable(a) THEN 1 ELSE 0
    /\ phase = "divided" =>
        /\ \A a \in Addresses : Usable(a) => Owners(a) = 1
        /\ \A k \in DOMAIN gFMemList : gFMemList[k].len <= page.len
        /\ \A k \in 2 .. Len(gVMemList) : gVMemList[k].len < page.len
=============================================================================
