----------------------------- MODULE MCSequential ------------------------------
(***************************************************************************)
(* The parts that run without interleaving, in one run: each behaviour is   *)
(* one of lists, trees, the start of the machine and strings, the others    *)
(* staying as they begin; the machine of the start is off, and there is no  *)
(* memory of characters, where they are not needed.                         *)
(***************************************************************************)
EXTENDS Rings, BTree, MemoryMap, Strings

VARIABLE part

(* A floppy with sectors of 8 bytes: boot sector, twice 2 sectors of table, *)
(* 3 of directory, then cluster 2.  In memory there is room for 2 sectors   *)
(* of loader and 3 of kernel.  Chains are contiguous, scattered, backwards; *)
(* files just fit, do not fill their last sector, or are one byte too long; *)
(* either or neither file comes first in the directory, or is missing.      *)
CONSTANT OtherName

Orders == {<<2, 3, 4, 5, 6, 7, 8, 9>>, <<2, 4, 6, 8, 3, 5, 7, 9>>, <<9, 8, 7, 6, 5, 4, 3, 2>>}
Sizes == {<<16, 24>>, <<5, 23>>, <<17, 24>>, <<16, 25>>}
Roots == {<<OtherName, LoadBin, OtherName, KernelBin>>, <<OtherName, KernelBin, LoadBin>>,
          <<OtherName, KernelBin>>, <<OtherName, LoadBin>>}

Sectors(bytes) == (bytes + 7) \div 8

Disk(order, sizes, names) ==
    LET chains == (LoadBin :> SubSeq(order, 1, Sectors(sizes[1])))
                  @@ (KernelBin :> SubSeq(order, Sectors(sizes[1]) + 1,
                                          Sectors(sizes[1]) + Sectors(sizes[2])))
        size == (LoadBin :> sizes[1]) @@ (KernelBin :> sizes[2])
        files == {LoadBin, KernelBin} \cap ToSet(names)
    IN  [root |-> [k \in DOMAIN names |->
                    IF names[k] \in files
                    THEN [name |-> names[k], FstClus |-> chains[names[k]][1],
                          FileSize |-> size[names[k]]]
                    ELSE [name |-> names[k], FstClus |-> 0, FileSize |-> 0]],
         chain |-> [f \in files |-> chains[f]], size |-> [f \in files |-> size[f]]]

MCDisks == {Disk(o, s, n) : o \in Orders, s \in Sizes, n \in Roots}

(* Behind low memory three zones of any lengths, the first one behind a     *)
(* hole; only reserved ones reach beyond the words.                         *)
AllMaps ==
    {<<[base |-> 0, len |-> 66, type |-> 1],
       [base |-> 68, len |-> l[1], type |-> t[1]],
       [base |-> 68 + l[1], len |-> l[2], type |-> t[2]],
       [base |-> 68 + l[1] + l[2], len |-> l[3], type |-> t[3]]>> :
            l \in [1 .. 3 -> 1 .. 3], t \in [1 .. 3 -> 1 .. 2]}

MCMaps ==
    {m \in AllMaps : \A k \in DOMAIN m :
        m[k].type = ZONE_RESERVED \/ m[k].base + m[k].len <= WordRange}

MCZones == MCMaps \cup {SubSeq(m, 1, 1) : m \in MCMaps}

(* The same nodes are linked into lists and into trees; Vector, the root of *)
(* the tree, aside, they are alike.                                         *)
NodeSymmetry == Permutations(Node \ {Vector})

-----------------------------------------------------------------------------
MCInit ==
    /\ part \in {"lists", "trees", "start", "strings"}
    /\ Init /\ TreeInit /\ MapInit
    /\ IF part = "start" THEN BootInit
       ELSE /\ stage = "off" /\ pc = "off" /\ mem = <<>> /\ disk = <<>>
            /\ dir = <<>> /\ es = 0 /\ si = 0 /\ dx = 0
    /\ IF part = "strings" THEN StringsInit ELSE chars = [p \in {0} |-> EOS]

MCNext ==
    /\ part' = part
    /\ \/ part = "lists" /\ Next /\ UNCHANGED <<treeVars, bootVars, mapVars, chars>>
       \/ part = "trees" /\ TreeNext /\ UNCHANGED <<ringVars, bootVars, mapVars, chars>>
       \/ part = "start" /\ StartNext /\ UNCHANGED <<ringVars, treeVars, chars>>
       \/ part = "strings" /\ StringsNext /\ UNCHANGED <<ringVars, treeVars, bootVars, mapVars>>

vars == <<part, ringVars, treeVars, bootVars, mapVars, chars>>

MCSpec == MCInit /\ [][MCNext]_vars

=============================================================================
