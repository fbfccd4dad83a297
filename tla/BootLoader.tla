------------------------------ MODULE BootLoader ------------------------------
(***************************************************************************)
(* The two loading stages (blfunc.asm, included by boot.asm and load.asm):  *)
(* the boot sector loads LOAD.BIN, which loads KERNEL.BIN, each from the     *)
(* FAT12 floppy into fixed addresses of a memory that the root directory,   *)
(* the allocation table and both programs share.                            *)
(*                                                                         *)
(* A byte of memory is the byte of the disk it was read from: its sector    *)
(* and its place there.  The registers are bp, es, si and dx of the code.   *)
(***************************************************************************)
EXTENDS Integers, Sequences

CONSTANTS
    BytsPerSec, RootEntryOffset, RootEntryLength, FatTableOffset, FatTableLength,
    ClusterOffset,                      \* 0x1f: sector of cluster c is c + 0x1f
    BaseOfBoot, BootBuffer, FAT1Address, BaseOfLoader, BaseOfKernel, BaseOfAPP,
    Segment,                            \* where si wraps, 64 KB
    MemSize,
    LoadBin, KernelBin,                 \* names, other entries have other ones
    Disks                               \* [root, chain, size]: see Fat

(* Where the areas are: the table is read behind the code of the boot        *)
(* sector, the programs follow, and a segment is a number of sectors.       *)
ASSUME LayoutAssumption ==
    /\ {BaseOfBoot, BootBuffer, FAT1Address, BaseOfLoader, BaseOfKernel, BaseOfAPP, MemSize,
        RootEntryOffset, RootEntryLength, FatTableOffset, FatTableLength, ClusterOffset,
        BytsPerSec, Segment} \subseteq Nat
    /\ BytsPerSec > 0 /\ Segment > 0 /\ Segment % BytsPerSec = 0
    /\ BaseOfBoot <= BootBuffer /\ BootBuffer <= BaseOfBoot + BytsPerSec
    /\ BootBuffer <= FAT1Address
    /\ FAT1Address + FatTableLength * BytsPerSec <= BaseOfLoader
    /\ BaseOfLoader <= BaseOfKernel /\ BaseOfKernel <= BaseOfAPP /\ BaseOfAPP <= MemSize

(* A disk as the file system leaves it: files are chains of clusters that   *)
(* no other has and the table has entries for; the directory has an entry   *)
(* for each, behind its first one, with its first cluster and its size.  No  *)
(* file reaches the end of memory, where addresses would wrap.              *)
ASSUME DisksAssumption ==
    \A d \in Disks :
        /\ DOMAIN d.size = DOMAIN d.chain
        /\ \A f \in DOMAIN d.chain :
            /\ d.chain[f] \in Seq(Nat)
            /\ d.size[f] \in 1 .. Len(d.chain[f]) * BytsPerSec
            /\ BaseOfKernel + Len(d.chain[f]) * BytsPerSec <= MemSize
            /\ \A k \in DOMAIN d.chain[f] :
                LET c == d.chain[f][k]
                IN  c >= 2 /\ c <= 4086 /\ (c \div 2) * 3 + 2 < FatTableLength * BytsPerSec
            /\ \E n \in 2 .. Len(d.root) : d.root[n].name = f
        /\ \A f, g \in DOMAIN d.chain :
            \A j \in DOMAIN d.chain[f], k \in DOMAIN d.chain[g] :
                d.chain[f][j] = d.chain[g][k] => f = g /\ j = k
        /\ Len(d.root) \in Nat
        /\ \A n \in 2 .. Len(d.root) :
            LET f == d.root[n].name
            IN  f \in {LoadBin, KernelBin} =>
                    /\ f \in DOMAIN d.chain
                    /\ d.root[n].FstClus = d.chain[f][1] /\ d.root[n].FileSize = d.size[f]

VARIABLES
    stage,      \* the program that runs
    pc, disk, mem,
    dir,        \* the root entry that memCpy saved below the stack
    es, si, dx  \* es as the address its segment begins at

bootVars == <<stage, pc, disk, mem, dir, es, si, dx>>

TargetStr == [boot |-> LoadBin, loader |-> KernelBin]
LoadAddress == [boot |-> BaseOfLoader, loader |-> BaseOfKernel]
Limit == [boot |-> BaseOfKernel, loader |-> BaseOfAPP]

(* Behind the code of the program: in the loader the last byte of the file. *)
Buffer == IF stage = "boot" THEN BootBuffer
          ELSE BaseOfLoader + disk.size[LoadBin] - 1

-----------------------------------------------------------------------------
(* The disk as mkfs and cp leave it: chain gives the clusters of each file, *)
(* the allocation table their successors, 12 bits each, two in three bytes. *)
Fat(c) ==
    IF c < 2 THEN 4080 + 15 * c
    ELSE LET links == UNION {{f} \X DOMAIN disk.chain[f] : f \in DOMAIN disk.chain}
             link == {l \in links : disk.chain[l[1]][l[2]] = c}
         IN  IF link = {} THEN 0
             ELSE LET l == CHOOSE l \in link : TRUE
                      next == l[2] + 1
                  IN  IF next \in DOMAIN disk.chain[l[1]] THEN disk.chain[l[1]][next] ELSE 4095

FatByte(k) ==
    LET even == Fat(2 * (k \div 3))
        odd == Fat(2 * (k \div 3) + 1)
    IN  CASE k % 3 = 0 -> even % 256
          [] k % 3 = 1 -> even \div 256 + 16 * (odd % 16)
          [] k % 3 = 2 -> odd \div 16

-----------------------------------------------------------------------------
(* cx sectors from sector ax on, to address bx *)
readSector(m, ax, cx, bx) ==
    [a \in DOMAIN m |->
        IF a \in bx .. bx + cx * BytsPerSec - 1
        THEN <<ax + ((a - bx) \div BytsPerSec), (a - bx) % BytsPerSec>>
        ELSE m[a]]

(* What a byte of memory is when it is read as one of the table; 255 if it  *)
(* came from elsewhere.                                                     *)
TableByte(m, a) ==
    LET sector == m[a][1]
    IN  IF sector \in FatTableOffset .. FatTableOffset + FatTableLength - 1
        THEN FatByte((sector - FatTableOffset) * BytsPerSec + m[a][2])
        ELSE 255

fatVec(m, index) ==
    LET b(i) == TableByte(m, FAT1Address + (index \div 2) * 3 + i)
    IN  IF index % 2 = 1 THEN b(2) * 16 + b(1) \div 16
        ELSE (b(1) % 16) * 256 + b(0)

(* The entries that findEntry compares with the target.  The first one is   *)
(* compared with what di happens to point to, which is no name: di is set   *)
(* only when the loop goes on.                                              *)
Matching == {i \in 2 .. Len(disk.root) : disk.root[i].name = TargetStr[stage]}

-----------------------------------------------------------------------------
BootInit ==
    /\ disk \in Disks
    /\ stage = "boot" /\ pc = "root"
    /\ mem = readSector([a \in 0 .. MemSize - 1 |-> <<-1, 0>>], 0, 1, BaseOfBoot)
    /\ dir = [name |-> LoadBin, FstClus |-> 0, FileSize |-> 0]
    /\ es = 0 /\ si = 0 /\ dx = 0

ReadRoot ==
    /\ pc = "root"
    /\ mem' = readSector(mem, RootEntryOffset, RootEntryLength, Buffer)
    /\ pc' = "find"
    /\ UNCHANGED <<stage, disk, dir, es, si, dx>>

findEntry ==
    /\ pc = "find" /\ Matching # {}
    /\ dir' = disk.root[CHOOSE i \in Matching : \A j \in Matching : i <= j]
    /\ pc' = "fat"
    /\ UNCHANGED <<stage, disk, mem, es, si, dx>>

NotFound ==
    /\ pc = "find" /\ Matching = {}
    /\ pc' = "FindError" /\ dx' = 0
    /\ UNCHANGED <<stage, disk, mem, dir, es, si>>

ReadFat ==
    /\ pc = "fat"
    /\ mem' = readSector(mem, FatTableOffset, FatTableLength, FAT1Address)
    /\ es' = LoadAddress[stage] /\ si' = 0 /\ dx' = dir.FstClus
    /\ pc' = "load"
    /\ UNCHANGED <<stage, disk, dir>>

(* loadFile: 0x0ff7 and above end the chain. *)
loadSectorSameSegment ==
    /\ pc = "load" /\ dx < 4087
    /\ mem' = readSector(mem, dx + ClusterOffset, 1, es + si)
    /\ dx' = fatVec(mem', dx)
    /\ si' = (si + BytsPerSec) % Segment
    /\ UNCHANGED <<stage, pc, disk, dir, es>>
loadSector ==
    /\ pc = "load" /\ dx < 4087
    /\ mem' = readSector(mem, dx + ClusterOffset, 1, es + si)
    /\ dx' = fatVec(mem', dx)
    /\ si' = (si + BytsPerSec) % Segment
    /\ es' = IF si' = 0 THEN es + Segment ELSE es
    /\ UNCHANGED <<stage, pc, disk, dir>>

TooLong == LoadAddress[stage] + dir.FileSize > Limit[stage]

Enter ==
    /\ pc = "load" /\ dx >= 4087
    /\ IF TooLong THEN pc' = "LenError" /\ stage' = stage
       ELSE IF stage = "boot" THEN stage' = "loader" /\ pc' = "root"
       ELSE stage' = "kernel" /\ pc' = "entered"
    /\ UNCHANGED <<disk, mem, dir, es, si, dx>>

BootNext == ReadRoot \/ findEntry \/ NotFound \/ ReadFat \/ loadSector \/ Enter

-----------------------------------------------------------------------------
(* Byte n of file f where the file system put it. *)
FileByte(f, n) == <<disk.chain[f][n \div BytsPerSec + 1] + ClusterOffset, n % BytsPerSec>>

InMemory(f, base, length) == \A n \in 0 .. length - 1 : mem[base + n] = FileByte(f, n)

(* The program that runs is whole while it runs: neither the directory, the *)
(* table nor the file it loads is read over its code; what it jumps to is   *)
(* the whole file, and it fits below the next area.  Loading fails only     *)
(* when there is no such file or when it is too long.                       *)
LoadedWhole ==
    /\ stage = "boot" => \A a \in BaseOfBoot .. BootBuffer - 1 : mem[a] = <<0, a - BaseOfBoot>>
    /\ stage = "loader" => InMemory(LoadBin, BaseOfLoader, disk.size[LoadBin] - 1)
    /\ stage = "kernel" =>
        /\ InMemory(KernelBin, BaseOfKernel, disk.size[KernelBin])
        /\ BaseOfKernel + disk.size[KernelBin] <= BaseOfAPP
    /\ pc = "FindError" => TargetStr[stage] \notin DOMAIN disk.chain
    /\ pc = "LenError" => LoadAddress[stage] + disk.size[TargetStr[stage]] > Limit[stage]
=============================================================================
