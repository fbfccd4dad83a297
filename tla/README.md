# H.H.H.OS in TLA+

H.H.H.OS is a small 32-bit kernel for x86: a boot loader, a kernel with a text
screen, a heap, page frames, a keyboard driver, a preemptive scheduler and
mutexes, and an application of a few tasks linked into the same image. This
directory holds models of the parts of the kernel that change state, the TLC
configurations that check them, and proofs that `tlapm` checks.

Paths such as `task.c:203` are relative to the repository's `src/`.

    tlc -config MCScheduler.cfg MCScheduler        # one run
    tlapm SchedulerProofs.tla                      # one module's proofs

## 1. The system

### 1.1 Components

| Component | Code | State | Operations |
|---|---|---|---|
| scheduler | `task.c` | ready queue, running queue (bounded), sleep list, a wait queue per task, pool of tasks, `gCurrentTaskAddr`; per task `current`/`total` (turn), `ticks`, name | tick, kill, register, wait, sleep |
| queues, lists, stacks | `queue.c`, `list.c`, `stack.c` | doubly linked rings of cells, `length` | add at either end, remove, rotate, unlink, replace, destroy |
| mutexes | `mutex.c` | list of mutexes; per mutex `lock`, `type`, wait queue | create, enter, exit, destroy |
| system calls | `syscall.c`, `syscall.asm`, exit path in `ihandler.asm` | saved `eax` of each task | one wrapper per call; `EnterCritical` repeats while the result is 0 |
| application | `app.c` | `mutex`, `i`, where each task is | the code of AMain, createTask, destroyTask, Task |
| interrupt path | `ihandler.asm`, `ihandler.c`, `task.asm` | frames on the kernel stack, `gCurrentTaskAddr`, `tss.esp0`, `gs`, the interrupt flag, requests in service | entry, handler, end of interrupt, exit, `int 0x80` |
| keyboard | `keyboard.c` | `cPause`, `E0`, `cShift`, `cCapsLock`, `cNumLock`, queue of key codes | `PutScanCode` per byte, `FetchKeyCode` |
| screen | `screen.c` | video memory, `SCREEN_POS`, `printInfo`, the adapter's start address and cursor | put a character, move, clear, scroll |
| heap | `pMemory.c`, `memory.c` | chains of fixed units, lists of variable blocks | `malloc`, `free` |
| frames, paging | `pMemory.c`, `vMemory.c` | counted frames in a chain, directory, tables | allocate, free, page fault, link, unlink |
| PIC, clock, gates | `pic.c`, `clock.c`, `interrupt.c` | masks, timer divisor, IDT | device writes at start; `SetIFState` |
| loader | `boot.asm`, `load.asm`, `blfunc.asm` | memory below 1 MB, the FAT12 floppy, `es:si`, the cluster in `dx` | read the directory, find, read the table, load sector by sector, check the length |
| memory map | `load.asm`, `kentry.asm`, `pMemory.c` | `ARDS` table, `gMemInfo`, the lists' zones | ask the BIOS, copy, divide |
| strings | `string.c` | bytes | length, copy, compare, search |
| trees | `btree.c` | `parent`, `lChild`, `rChild` | insert, remove, clear, find, measure; no other file calls them |
| unused modules | `event.c`, `bitmap.c` | | no other file calls them |
| the rest | `kmain.c`, `kernel.c`, `assert.c`, `io.asm` | | start, descriptors, ports |

### 1.2 How they interact

* Tasks call the kernel by `int 0x80`; the entry saves their registers into the
  task's frame, enables interrupts and calls the handler. The result goes into
  the saved `eax` of whatever task is current when the handler is done
  (`ihandler.asm:48`), and `SysCall` reads it there.
* The timer interrupt calls `Schedule` only if it interrupted user mode
  (`ihandler.c:35`). So a system call is never suspended in the middle, and
  tasks interleave at ticks and at the calls that block.
* A mutex call that blocks puts the task into the mutex's queue, picks the next
  task and jumps to it with interrupts disabled; the return path is not taken.
  Exit moves all waiters to the ready queue, and they call again.
* A task's death wakes its waiters, frees its node, name, wait queue and stack;
  all of these addresses are used again.
* The keyboard interrupt allocates a heap block per key. Tasks call `malloc` and
  `free` themselves, in user mode, in `RegisterApp`.
* All queues, the pool, the sleep list, the blocks of the heap and the mutexes are
  rings of cells inside the blocks they link (`list.c`); a cell is in one ring.
* The boot sector loads the loader, the loader loads the kernel and leaves the
  memory map at a fixed address; the kernel divides the memory by it once.
* Every page beyond the first region is mapped by the page fault of its first
  use, which may allocate a frame for a table and clear it, and so fault again.

### 1.3 What is hard, and what makes each part correct

| Part | Hard to test | Correct means |
|---|---|---|
| scheduler | counters compared for equality, blocks used again, the front of the queue standing for the current task, the extra rotation of calls that block | every task in exactly one queue, right counters, nobody overtaken, nobody starved, waiters woken by the right death |
| mutexes | wake-all and retry, results overwritten by others, death inside a section | sections exclude each other, nobody waits for a free lock |
| lists | every order of calls, the list of mutexes at address 0 | the links are a ring of the members, both ways |
| application | order of registrations, waits and deaths | it ends, the mutex outlives its users, and no worker is killed |
| interrupt path | nesting at every point where the flag is set | a task gets its own registers back, a call is not disturbed, requests end |
| keyboard | state kept between bytes of overlapping keys | codes are those of the keys, shift does not stick |
| screen | wrap of video memory after thousands of lines | what is visible is a terminal |
| heap | orders of split and merge | blocks are disjoint and nothing is lost |
| paging | faults inside the fault handler | one holder per frame, no mapping lost |
| loader | areas that overlap, 12-bit entries, the end of a segment | what is jumped to is the whole file, what runs stays whole |
| memory map | maps of other machines | each usable address in one list |
| strings, trees | overlaps, falling back, the other child | the reference definition |

The full list, line by line, is `hazards` in `PROJECT.json`; those without a
property say why.

## 2. Modules

    Queues ── Scheduler ── Mutex ── MutexClients ── App
      │           │                      └─ (refines Lock)
      │           └─ SchedulerProofs ── MutexProofs (with MutexClients, Lock and App)
      ├─ QueueLemmas (used by all proof modules that have sequences)
      └─ Rings
    Rings, BTree, BootLoader ── MemoryMap, Strings ── MCSequential
    Rings, MemoryMap, Strings, BTree, QueueLemmas ── SequentialProofs
    Screen ── (refines Terminal);  Screen, Keyboard ── DeviceProofs
    Heap ── (refines Allocator);  Heap ── HeapProofs;  Pages ── PagesProofs
    InterruptPath ── InterruptProofs
    MC*: one per run's constants and symmetry

Definitions keep the names of the functions and variables they stand for; each
is mapped to its lines in `PROJECT.json` (`map`). An operator that stands next
to another with almost the same body (`MovedOnce` and `Moved`) is a deliberately
faulty variant: the property it is paired with under `mutants` must fail when it
takes the other's place.

**Scheduler.** A task is the address of its `TaskNode_t`. Queues are sequences;
`Idle` is the idle task, in no queue. Each handler is one step: `Tick`
(`Schedule`: wake sleepers, end the turn, `ScheduleNext`), `KillTask`,
`Register`, `WaitTask`, `SleepTask`. `ScheduleNext(ready, running, slice)` takes
the queues as its caller left them and is used by all of them and by the
mutexes. `FindTaskByName` finds the newest task of a name. A freed block may be
registered again, with the same address. The code's `current` (ticks used in
this turn) is `slice` here, `gCurrentTaskAddr` is `current`.

**Mutex** extends it with `lock`, `mtype`, `valid` (the list of mutexes) and
`eax` (saved results). The branches of `Sys_EnterCritical` and
`Sys_ExitCritical` are `EnterInvalid`, `EnterTaken`, `EnterBlocked`,
`ExitInvalid`, `ExitUnlocked`, `ExitKilled`. `Return` writes the result where the
code does, into the frame of the task that is current *afterwards*.

**MutexClients** adds programs: any task enters, leaves, creates, destroys,
sleeps, waits, registers others or dies at any time. A client calls, is back
(`phase = "returned"`), may be preempted, and only then reads its result: 0 repeats
the call, anything else begins the section. A program may also pass the 0 of a
variable that no mutex has been stored in (`NoMutex`). What programs do not do:
* exit a normal mutex they have not entered, which the kernel does not prevent;
* destroy a normal mutex, which the kernel does when it is free, or create one at an
  address where a task still believes to be in a section;
* enter, create or destroy inside a section. So a task holds one mutex at a time, and
  the owner of a strict mutex enters again (`mutex.c:97`) only through the repetition
  of a call whose result was overwritten. A nested section would not be safe: the
  first exit unlocks.

`Lock` is the abstract lock; `Sections` is the refinement mapping.

**Rings** is the layer below the queues: `links` has `next` and `prev` of every
cell, heads included, and the calls of `list.c`, `queue.c` and `stack.c` change
it as the code does. `members` is a ghost: what the calls have put into each
list, in order, changed as the name of the call says. `LinksHoldMembers` makes
the sequences of all other modules a sound view of the cells. Three kinds of
lists differ in what may be called: queues, stacks and bare lists (the pool, the
sleep list, blocks, events, mutexes). The list of mutexes starts as the BIOS
leaves it, as `mutex.c:16` initialises another variable of the same name: its
head is at address 0 and one foreign cell is in the ring.

**App** is `app.c`, one program of `MutexClients`: AMain as a script of calls, the
creator, the destroyer and the workers with the load and the store of `i++` as
separate steps. Every system call is a step of `MutexClients` that is taken in the
program's order, so that the invariant of any clients holds of this one; `pc` and
`round` say where in its own code a task is.

**InterruptPath** keeps a stack of contexts inside the kernel. An interrupt may
come wherever the interrupt flag is set; where the exit reads below `esp`, in
between `pop gs` and `iret`, and before the end of interrupt are separate
program points. An exit notes in `frame` the frame it loads: from there on the
stack pointer is in it, whatever `gCurrentTaskAddr` becomes (`Resume`). A context
whose `gs` was 0 because it met such an exit has stored its own frame, named by
its depth. The task the scheduler chooses is left open, so what holds here
holds for every scheduler. `CallIsUndisturbed` justifies that the modules above
treat a handler as one step.

**Screen** has video memory as a function of cells and the four variables that
say where things go. `Terminal` is a grid that moves up by a row; `Screen`
implements it, the grid being the visible rows. The contents of a row that
scrolls in are left open, since the code leaves them what they were after a wrap:
old text that appears there is not seen as an error. The model's video memory has one
row more than `SCREEN_CELLS`, as the adapter has: `ScrollUp` erases the row behind the
last one that fits, cells 8160 to 8239 of a `SCREEN_MEM_SIZE` of 8192 cells
(`screen.c:72`), and `VisibleInMemory` is about the visible rows only.

**Heap** is the memory map of the emulated machine: one list of units for small
requests and one of blocks. `live` records what callers hold; `Allocator` is the
promise.

**Keyboard** has one step per byte. The bytes come from keys that are pressed,
repeated and released in any order. What the user means is kept apart from the
decoder: `down` has the keys held, `locks` turns over with each press of a lock key, and
`meant` has for every queued code the characters the user accepts (`Column`, from the shift
keys held and the locks set). The codes themselves are those the keys send; the fake
shifts of Print Screen are among them, since the decoder takes them for the key. While
two keys that send shift codes overlap (`overlapped`), and while Print Screen is down,
either character is accepted: there is one `cShift` for all of them. `KeyAssumption`
names the keys: those with one code, with or without the prefix `e0`, those whose entry
in the table is empty, Print Screen and Pause, without the fake shifts of grey keys.

**BootLoader** gives each byte of memory the byte of the disk it was read from,
so that "the whole file is there and nothing else was overwritten" can be said.
A disk is a directory, the chains of clusters and the sizes; `fatVec` decodes
the table out of the bytes that are in memory at that moment. `LayoutAssumption` and
`DisksAssumption` say where the areas are and what a file system leaves on a disk.

**MemoryMap** goes on after the kernel is entered: the BIOS tells its zones one
by one, `InitGlobal` copies them, and one step per zone gives it to a list. It
ends where `Heap` and `Pages` begin. The loop looks at the low words only (`LowWords`)
and does not count the lists it uses, so `MapsAssumption` has the maps the code is
made for: zones that can be used lie below 4 GB and are at most one more than
`MEM_LIST_NUM`; reserved ones may be anywhere. `MemoryDividedOnce` includes that the
lists suffice.

**Strings** has the functions as operators on a memory of characters, with loops
as recursive functions of their counters; `StringsNext` applies those that write.
Characters are ASCII, areas fit and strings do not overlap (`memcpy`'s may); `strncpy`
gets strings of at most `n` characters, and its reference is what the code does, to pad
to `n + 1`.
The two loops of Knuth, Morris and Pratt that fall back in the table are one
operator, `Fall`, on which `make_pmt` and `strfind` rest.

**BTree** has the three links of each node and the calls that change them; the
recursive functions are recursive functions. A caller may insert any node that is in no
other tree, one that hangs below the root already and the root included: the code
refuses it, but the caller has overwritten its parent. `misled` is a ghost with those
nodes. Callers do not insert a node of another tree, remove one whose parent is null, or
clear a subtree that hangs somewhere.

**MCSequential** composes the four parts that run alone into one specification:
each behaviour is one of them, the others staying as they begin.

**Pages** counts addresses in pages. The clearing of a new table is a separate
step that may fault; `faults` is the stack of faults being handled. `crowded` is
a ghost: more stacks have been alive than the first region has frames for.

## 3. Runs

All take from seconds to two minutes with two workers. States are distinct states.

| Run | States | Instance | Shows |
|---|---|---|---|
| `sched` | 8,131 | 3 blocks, running queue of 2, turns of 2 ticks, sleeps of 2 ticks, fair timer | consistency of queues, counters and current task, four promises about steps; sleepers wake, runnable tasks get turns |
| `mutex` | 273,816 | 3 tasks, 1 mutex address, created and destroyed again and again with both types | mutual exclusion as a refinement of `Lock`, no lost wake-up, strict re-entry |
| `app` | 97,625 | 2 workers of 2 rounds, 3 blocks | the application ends, the mutex outlives the workers, no worker is killed, none loses another's increment |
| `screen` | 7,680 | 2 x 3 screen, 11 cells of memory | refinement of `Terminal`, over wraps |
| `interrupts` | 11,240 | 3 tasks, 4 contexts deep | frames, levels, end of interrupts, calls undisturbed |
| `heap` | 23,788 | 3 units of 2 bytes, 12 bytes of blocks, sizes 1, 2, 3, 5 | refinement of `Allocator`, no loss |
| `keyboard` | 181,736 | 12 keys, 3 held, 2 codes queued | decoding, nothing left behind, shift |
| `pages` | 445,372 | 10 frames, 7 entries per table | one holder per frame; without crowding no nesting, leak or loss |
| `sequential` | 84,022 | 4 list heads and 4 cells, which are also the nodes of the trees; a floppy of 8 clusters of 8 bytes in 80 bytes of memory; 4 zones, 3 lists of each kind, words below 75; 7 characters | links follow the sequences, a tree is one after any calls, refused inserts included, and the recursive functions agree, loaded files are whole, memory is divided once, strings agree with their references |
| `app_result` | (violated) | as `app` | finding 1 |
| `interrupts_gs` | (violated) | 2 tasks, 3 deep | finding 2 |
| `pages_run_out` | (violated) | as `pages` | finding 3 |

### 3.1 Bounds

* *Tasks.* A block has no identity beyond its address: the safety runs of the
  mutex and interrupt modules use symmetry (so does `sequential`, for nodes); runs
  with liveness properties do not.
  Three tasks are one running, one more in the running queue, and one for the
  ready queue, a wait queue or the sleep list; two can overtake each other when
  the running queue is empty. What more tasks could do is covered by proofs. The
  application needs three at once when its running queue holds two.
* *Running queue.* `MAX_RUNNING_TASK` is 4 in the code and 1 in the runs: the
  queue then holds two tasks, which is enough for it to be full, rotate, and
  leave tasks behind. The proofs hold for every value.
* *Ticks.* Turns of two or one ticks and sleeps of at most two reach
  both sides of each comparison. All counters are bounded by these constants: no
  artificial guard is needed.
* *Mutex addresses.* One address, so that a mutex is destroyed and another one
  created at the same place.
* *Screen.* `11` cells are five rows of two and one cell that is no row: the
  rows are copied back at every third scroll.
* *Interrupts.* `MaxDepth` bounds the contexts; a system call under a timer under
  a keyboard interrupt needs three.
* *Keyboard.* `MaxCodes` bounds the queue and `MaxDown` the keys held; a key's own
  sequence has at most six bytes and two codes.
* *Sequential parts.* Four cells are enough for one beside each end of a list of
  two. The areas of the loader hold two or three sectors, a segment two, so that
  files fit exactly, leave part of a sector empty, are a byte too long, and cross
  a segment; chains are in order, scattered or backwards. Three zones behind the
  first one, of three lengths and reserved or not, come in every order. Seven
  characters over three letters hold two strings and a needle that falls back in
  the table (`1 1 2` in `1 1 1 2`). Four nodes make trees of height four or with
  two full generations.
* *Pages.* `FrameMax` and `PAGE_MAX` put frames in the first region and beyond it;
  `MaxTasks` is no limit, as frames run out first.

Deadlock is checked in all runs but the two of `Pages`, which stops when an
assertion fails, as the machine does, and `sequential`, where the start ends.

### 3.2 Fairness

* `WF(Tick)`, `WF(Timer)`: the timer is periodic and a tick that finds the kernel
  busy does nothing but end itself; a task cannot disable interrupts. Ticks that
  find user mode therefore come again and again.
* `App` also assumes `SF` of each task's steps: a task that gets the
  processor again and again executes something, a tick being 10 ms and thousands
  of instructions. Weak fairness would not do, since a step of a task is disabled
  by every tick that takes the processor away.
* `RoundRobin` is under the premise that from some moment on nobody blocks or
  dies. Without it the property is false: a task that blocks is taken from the
  front and `ScheduleNext` then rotates over the next one (`task.c:258`).

### 3.3 Where the code does something else than it says

1. **`app_result`** (`ihandler.asm:48`). "save system call return value": a call
   that switches tasks stores its result in the frame of the task it switches
   to. A task that has not read its own result yet loses it. Strict mutexes are
   safe against it (`StrictOwnerNeverWaits`), as `EnterCritical` repeats the
   call; the address returned by `CreateMutex` is not, and neither is the register
   with which a worker increments `i`: between load and store it may become 0, and
   the count starts again from 1. `IncrementsCount` says that this is the only way
   in which a count is lost while there is a mutex.
2. **`interrupts_gs`** (`ihandler.asm:147`). The entry takes `gs = 0` for user
   mode, and the exit pops `gs` with interrupts enabled. An interrupt before
   `iret` is taken for one of a task.
3. **`pages_run_out`** (`vMemory.c:31`). A new page table is cleared at its own
   address before it is mapped. Beyond the first region the clearing faults,
   which allocates the next table, and so on until no frame is left, and the
   assertion of `PMemAlloc` fails.

## 4. Proofs

| Theorem | Module | States |
|---|---|---|
| `TypeCorrect` | `SchedulerProofs` | `Spec => []TypeOK` |
| `CurrentRuns` | | `[]CurrentIsFront`: the task that runs is the front |
| `TasksInOnePlace` | | `[]OnePlace`: a live task is in one queue, once; a dead one in none |
| `NoOrphans` | | `[]NoOrphanWaiter` |
| `CountersStayInRange` | | `[]CountersInRange` |
| `RunningQueueBounded` | | the running queue holds at most `MAX_RUNNING_TASK + 1` tasks |
| `WorkIsConserved` | | `[][...]`: while there is room in the running queue no task stays ready (`WorkConserving`) |
| `NobodyOvertakes` | | `ReadyIsFIFO` |
| `TurnsAreUsedUp` | | `TurnIsUsedUp` |
| `WaitsForTheDead` | | `WaitEndsWithTarget` |
| `LinksAreRings` | `SequentialProofs` | `[]LinksHoldMembers`, for any number of lists and cells |
| `ReadersSeeMembers` | | `[]ReadersAgree`: so are what searches, fronts and ends return |
| `ProgramsAreWhole` | | `StartSpec => []LoadedWhole`, for every disk and layout of the areas |
| `MapIsDivided` | | `StartSpec => []MemoryDividedOnce`, for every map whose usable zones lie below 4 GB and are at most `MEM_LIST_NUM + 1` |
| `TreesAreTrees` | | `TreeSpec => []TreeAgrees`, for any number of nodes |
| `StringsAreStrings` | | `StringsSpec => []StringsAgree`, for any size of memory and characters of ASCII |
| `SectionsAreLocked` | `MutexProofs` | `ClientSpec => []SectionIsLocked`: who is in a section owns the lock |
| `NoLostWakeUp` | | `[]WaitersOnlyIfLocked` |
| `StrictOwnersRun` | | `[]StrictOwnerNeverWaits` |
| `MutexesImplementLock` | | the clients implement `Lock`: `ClientSpec => ImplementsLock` |
| `SchedulerUnderMutexes` | | `[]OnePlace` with the calls of `mutex.c` |
| `FramesAreLoaded` | `InterruptProofs` | `[]UserFrameLoaded`, for any number of tasks and any depth |
| `SlotsTellLevels` | | `[]SlotTellsLevel` |
| `EndsAnswerTheirRequests` | | `[]InServiceIsUnfinished` |
| `CallsAreUndisturbed` | | `CallIsUndisturbed` |
| `ScreenImplementsTerminal` | `DeviceProofs` | the screen implements `Terminal` |
| `StaysVisible` | | `[]VisibleInMemory`, for every screen and memory size |
| `RegistersFollow` | | `[]HardwareFollows` |
| `KeysAreDecoded` | | `KeyboardSpec => []Decoded`, for every set of the keys of `KeyAssumption`, any number held |
| `ShiftIsReleased` | | `[]ShiftNeverSticks` |
| `LockExcludes` | `MutexProofs` | the abstract lock is mutually exclusive |
| `SectionsExclude` | | so are the sections of clients that keep the restrictions of section 2: `ClientSpec => []AbstractLock!MutualExclusion` |
| `AppInvariant` | | `AppSpec => []AInv`, for any number of workers, rounds and tasks |
| `AppIsAClient` | | the application keeps what `MutexClients` promises: `SectionIsLocked`, `WaitersOnlyIfLocked`, `OnePlace` |
| `WorkersLeaveAsOwners` | | `[]LeavesAsOwner`: no worker is killed by its exit |
| `NoIncrementLost` | | `[]IncrementsCount`: no worker stores between another's load and store |
| `MutexStays` | | `[]MutexOutlivesWorkers` |
| `PagesInvariant` | `PagesProofs` | `[]PInv`, for any memory size, table length and number of tasks |
| `HoldersDiffer` | | `[]FramesHeldOnce`: a counted frame has one holder |
| `FramesReturn` | | `[]NoFrameLeaked`, with room in the first region |
| `FaultsStaySingle` | | `[]FaultsDoNotNest`, with room in the first region |
| `TablesStay` | | `NoTableLost`, with room in the first region |
| `HeapInvariant` | `HeapProofs` | `[]HInv`, for any sizes of units, headers and memory |
| `BlocksTile` | | `[]Tiles` |
| `EverythingComesBack` | | `[]NothingLost` |
| `HeapImplementsAllocator` | | the heap implements `Allocator` |

They hold for every value of the constants under the assumptions named in
`Scheduler`, `Mutex`, `MutexClients`, `App`, `InterruptPath`, `Screen`, `Pages`, `Heap`,
`Rings`, `BootLoader`, `MemoryMap`, `BTree`, `Strings` and `Keyboard`: the idle task
is no ordinary task, a task's wait queue is named by the task, priorities are
below `MAX_RUNNING_TICK` (260 against a `uint8_t`), a tick is at least 1 ms, the
address of a mutex is neither that of a task nor 0, the application's tasks have
different names and none is called like the idle task, a worker does at least one
round, a task's frame is no
context's, video memory holds the screen and two more rows, the first region of
memory has at least the directory and two tables (frames begin at 1 MB, page 256 of
the 1024 that the boot table maps), the kernel's data lie outside the frames, the memory of
the units and that of the blocks do not overlap, heads of lists are no members and
there are finitely many cells, a map has 1 to 20 zones in ascending order that do not
overlap, the first at 0 and reaching beyond the programs, of which those that are not
reserved lie below 4 GB and are at most `MEM_LIST_NUM + 1`, and keys are those that
`KeyAssumption` names (section 2). For the loader: the areas lie in memory in the order of
`common.asm` and `blfunc.asm`, the table of 9 sectors from 0x7e00 just below 0x9000, and
a segment is a number of sectors; chains of clusters share none and have entries in the
table, the directory has each file behind its first entry, and no file is empty or
reaches the end of memory. The nodes of a tree are finitely many, null being none of
them, and characters are natural numbers (ASCII, so that `char` compares them as such).

**The scheduler's invariant** `IInv` is the conjunction of the five properties
with two more, `RunningBounded` and `TurnsPositive` (a task of the pool has
`total > 0`). `CurrentIsFront` is established anew by every `ScheduleNext`, and
the others lean on it and on each other. `TypeOK` needs it: a handler that finds
a current task other than the idle one takes the head of the running queue, which
must not be empty. `OnePlace` needs it because what dies, sleeps or blocks is
taken from the front, and must be the task whose other fields and links change;
it also needs `NoOrphanWaiter`, since registering a task at a freed address
initialises the wait queue there and would lose the waiters of a task that is
gone. `NoOrphanWaiter` needs `OnePlace`: the task that dies waits nowhere.
`CountersInRange` needs `OnePlace`, so that the counters a step changes belong to
the tasks it moves, and `TurnsPositive` for a task whose turn starts at 0.
`RunningBounded` carries itself, but `Moved` is the number of tasks
`ReadyToRunning` takes only while it holds.

The argument goes through one lemma on `ScheduleNext` (`ScheduleNextKeeps`): for
any queues given to it, the tasks in the two queues stay the same, none is
doubled, and the current task is the front. Each action then has a lemma
(`TickKeeps`, `KillKeeps`, `RegisterKeeps`, `BlockKeeps`, `SleepKeeps`) that
establishes what it hands to `ScheduleNext`. `QueueLemmas` has the facts on
sequences: what rotating, splitting, selecting, appending and concatenating do to
the set of elements and to injectivity.

**The scheduler's steps.** The action properties follow from `IInv`, which holds
before and after every step. `SchedulerProofs` first says what each handler hands
to `ScheduleNext` (`TickHandled` to `SleepHandled`): the ready queue with tasks
added at its end, and the running queue as it is or without its front. What
`ScheduleNext` takes is a prefix of that (`ScheduleNextTakes`), which is FIFO
order and, with the number it takes, work conservation.

**The mutexes' invariant** `MInv` contains the scheduler's. `SectionIsLocked` is
not inductive: a section begins when a task reads a result that is not 0, and
between the call and the reading others run. `GrantIsHeld` says that such a result
belongs to an owner. It holds although results are overwritten
(`ihandler.asm:48`): the calls that switch to another task return 0, and those
that return something else return to their caller (`QuietKeeps` and the lemmas of
the calls). `StraysAreStrict` is about
tasks that entered an address which held no mutex then: what is created there
later is strict, so their exit unlocks nothing that another task owns.
`WaitersOnlyIfLocked` needs the scheduler's `OnePlace` for the wake-up of all
waiters, and `StrictOwnerNeverWaits` for the task that runs, which waits nowhere.
The calls of `task.c` leave the mutexes' queues alone (`ScheduleStep`), so the
scheduler's lemmas are used as they are. The refinement maps the beginning of a
section to the abstract acquisition: `MInv` excludes that another task is in it.

**The application's invariant** `AInv` is `MInv`, since each of its steps is one of
`MutexClients`, with what AMain's script adds. `OneEach`: a name of the application
belongs to at most one live task, and only if AMain has registered it (the script
registers each once, `RegisteredOnce`). `Awaited`: where AMain has called `Wait` for
a task it is in that task's wait queue or the task is dead; this is what the wake-up
by a death (`WaitsForTheDead` in the scheduler) gives, whatever the order in which
tasks end. So while AMain is behind its wait for the creator there is no creator, and when
it registers the destroyer there is no worker (`NoWorkerWithDestroyer`), which is
`MutexOutlivesWorkers`; `MutexKept` is the same for the variable `mutex`. `TaskStory`
says of each task, by its name, where it can be and what it holds: a worker past its
grant is in the section `at = mutex`, and while a mutex is stored it owns the lock, by
`SectionIsLocked`. `LeavesAsOwner` follows. Two workers between load and store would
both own it, so the one that stores is alone there (`OneLoads`), which is
`IncrementsCount`. A step of one task disturbs another's story only through what
calls change for others: saved results and wake-ups (`Bystander`). There is one lemma
per action; without a stored mutex, when the creator's result was overwritten,
workers run unlocked, and both properties say nothing of that.

**The interrupt path's invariant** is `InterruptProofs!IInv`. `Nesting`: only the newest
context can have been entered from the kernel, and a context above another was taken for
one of a task exactly if that one is after its `pop gs`. `GsTells`: `gs` is 0 in a task
and after `pop gs`, nowhere else. `FramesOK`: an exit goes to a task's frame or to the
context below. `OwnersOK` is why a task gets its own frame: the newest context that
leads to a task leads to the one whose frame the processor saves to; an older one may
lead elsewhere, when the timer has come after its `pop gs`, but is dropped when the
newer one resumes a task. `UserFrameLoaded` follows at `iret`. `ServiceOrder`: two
unfinished handlers are the keyboard's under the timer's, so a non-specific end of
interrupt ends the right one.

**The lists' invariant** `RInv` is `LinksHoldMembers`, split by call
(`CallsByNumber`), with the types of the links and the facts that heads are never
members and that a free node is in no ring. The argument is about three numbered
cells: inserting or unlinking changes the links of the cell and of its two
neighbours, which are neighbours in the sequence too because the ring is
injective; all others keep theirs, those of other rings because rings share no
cell. What the readers return needs the loop of `List_FindNode`: `Visited` is the
function of the nodes it comes to. That this recursive function exists, and that it
meets the members in order and then the head (`WalkMeetsMembers`), is shown by the
least number at which it would fail, which takes the place of an induction.

**The loader's invariant** `LInv`. `CodeWhole` is what `LoadedWhole` says of the code that
runs. `SoFar(k)` says of a file being loaded that its first `k` clusters are in memory
one behind the other, that `es:si` is the address of the next, whatever segments it has
crossed (`NextSector`), and that `dx` is the next cluster or the end mark. That a step
leads from `k` to `k + 1` needs `TableWhole`, the table in memory being that of the
disk, as all files are loaded behind it, and `Decode`: the twelve bits that `fatVec`
takes from two of three bytes are the entry. A cluster is in one chain at one place, so
the entry is its successor (`FatNext`). At the end mark `k` is the length of the chain.

**The division of memory** `DInv`. `MemoryDividedOnce` counts the owners of an
address; the invariant has what the count comes from. `MapProgress`: the tables hold
as many zones as have been told. `FromZones`, `AllGiven`, `GivenOnce`: what the lists
and the page frames have is, one to one, the zones that were divided and are not
reserved, the first without the part of the programs (`Place`). Zones lie apart, so
their places do (`PlacesApart`), and an address has one owner or none (`OwnersAre`).
`LargestIsPage` is needed at the step in which a larger zone takes the place of the
page frames: the one before moves to the blocks, and is smaller. `Counted`: the zones
given away are as many as the lists and the page frames have, and all but the first need
page frames to begin with; so with `MEM_LIST_NUM + 1` zones the lists suffice. That the
low words of a usable zone are the zone (`WordsHold`) rests on `MapsAssumption`.

**The trees' invariant** `TInv` has the types, `HangOnce` (a node is the child of at
most one other, on one side, and `root` of none), `KnowsParent` (a child that is not
`misled` has the node it hangs on for its parent) and `Acyclic`: every set of nodes that
is not empty has one without a child in the set. `Acyclic` takes the place of an
induction over subtrees. It gives a recursive function its existence (`FoldExists`) and
its value, each time by the nodes where it would fail: the lowest of them has children
for which it does not. An insertion keeps it because the object is found below `root`
and the node is not, so nothing below the node leads back to the object; a removal
because links only go, the wrong ones that follow from an overwritten parent included.
The generations by which `TreeAgrees` measures are shown to end within as many steps as
there are nodes (`GenerationsCount`).

**The strings' invariant** `SInv` is small: memory holds characters and the last one
ends a string, which every write keeps since it fits in front of that one
(`WithKeeps`). The work is what the loops compute from such a memory. `ScanExists` and
`ScanValue` do for a loop that goes on by one what an induction would: it exists where
it does not leave memory, and has the value of the first place at which it stops;
`CopiesCopy` is the loop that writes, right whenever no character is written before it
is read (`InOrder`), which `memcpy` sees to by its direction. The search goes through
`Longest(P, T, j, b)`: `b` characters of the needle match in front of place `j` of the
text, and no more do. A shorter match lies inside a longer one as a border of it
(`InnerMatch`), so falling along the table of longest borders passes over no match that
can go on (`FallingRight`), and one more character leads from longest to longest
(`AdvanceLongest`). The table is the same search, of the needle in its own rest
(`TableRight`); `SearchEnds` adds that no earlier place had the whole needle, so the
one found is the first.

**The screen's invariant** is `VisibleInMemory` with `SCREEN_POS` a natural
number, and `HardwareFollows`. The one fact behind it is `ScrolledFits`: the row
`ScrollUp` leaves in `SCREEN_POS` is one that fits, or 0, where the assumption on
the memory's size makes it fit. For the refinement of `Terminal`, no two
visible places are the same cell (`CellInjective`), so that a character changes
one place of the grid (`PutShows`), and a scroll shows the rows below the first,
moved by one, whether the window moves on or is copied back to the start of memory
(`ScrollShows`).

**The keyboard's invariant** `KInv` looks forward: there are modifiers and codes to which
the bytes that are still to come lead the decoder, from where it is, and which suit the
user. `KeyPending` is the first half, ending with no open prefix; `PausePending` has the
same for the sequence of Pause, which is counted by another variable. `Behind` is the
decoder behind some bytes, spelled out for the at most four there are. `Follows` and
`AllAccepted` are the second half: the locks are the user's, shift is on only while a key
that sends it is down and, unless such keys have overlapped, exactly while a shift key
is; each code is one the user accepts. `KeysMatch` says of each kind of key that its bytes
give the codes of its events, from any modifiers, and `KeysSteer` what they do to the
modifiers: that only the shift keys and Print Screen touch shift, on when pressed and
off when released, and only the lock keys the locks.

**The abstract lock's invariant** says that each section has at most one holder;
with the refinement it holds of the clients' sections.

**The frames' invariant** `PInv`. `FramesHeldOnce` speaks of the tables that faults
have in hand as a set; it is inductive only with `TablesApart`, that no two faults
have the same one, for the outermost fault gives its table away while the others
keep theirs. `NoFrameLeaked` and the rest hold while the first region has room
(`~crowded`), and for that it must be shown that every frame in use lies in the first
region. `RoomLeft` says so: the chain has the first region's frames before all
others (`LowFirst`), which frees and allocations keep, and only the first region
and that of the kernel's data ever have a table. `NextIsLow` is a counting argument:
were the next frame beyond the first region, all of the `PAGE_MAX - FrameBase`
frames in it would be held, by the directory, at most two tables, and stacks, which
`Roomy` limits to fewer. So a new table is always mapped when it is cleared, its
clearing does not fault (`FaultsDoNotNest`), and none is replaced (`NoTableLost`).
`HoldersDiffer` needs none of this and holds without room too.

**The heap's invariant** `HInv`. `Tiles` relates neighbours; `Laid` orders all blocks,
since that two blocks apart do not overlap would need an induction from `Tiles`. The
callers' part is that they hold the held units and every block but the first, with
the sizes they asked for; each held block has a positive size, so that addresses
tell blocks from each other and from units. Splitting the first block that fits and
merging with the predecessor are described entry by entry (`SplitEntries`,
`MergedEntries`), from general facts on inserting and removing at a position. The
refinement follows: `ChunksApart` and the order of blocks make what is handed out
disjoint from what is held (`Abstract!Alloc`), and units are at multiples of their
size.

**Only model-checked**: the liveness properties `SleeperWakes`, `RoundRobin` and
`Terminates`, which need fairness and so `ENABLED`, out of the prover's reach. Every
invariant and every action property that a passing run checks is proved. Induction over
data is out of its reach as well; where a recursive function walks over characters,
nodes or cells the proofs argue with a least counterexample instead.

### 4.1 Seen while modelling

No document of the repository says otherwise, so these are no findings; the
models have them as they are.

* `mutex.c:16`: the static `gMutexList` stays null; the list of mutexes is at
  address 0.
* `mutex.c:141`: the owner of a strict mutex may enter it again, but there is no count:
  the first exit unlocks it and the second one kills the task.
* `keyboard.c:461`: one `cShift` for two shift keys. Of two that are held the one
  released first turns shift off, and so does Print Screen's fake shift while a shift key
  is held; pressed alone, Print Screen turns shift on for its own code. The fake
  shifts are queued as codes of the left shift key.
* `keyboard.c:463`: a lock key that is held repeats, and each repeat turns the lock over.
* `keyboard.c:455`: the table has 95 entries and the scan code is not compared with
  that; a code from 95 to 127 is looked up behind it. No key of `KeyAssumption` sends one.
* `queue.c:64`: `Queue_Destroy` leaves `length`; `Rings` demands an
  initialisation before the queue is used again.
* `blfunc.asm:213`: the first directory entry is compared with whatever `di`
  points to. The first entry of a volume made with lower-case names is part of a
  long name, so nothing is missed.
* `blfunc.asm:103`: a file without clusters is loaded from sector 31 on. Disks
  have no empty files here.
* `blfunc.asm:321`: a failed read is repeated with another function number.
* `load.asm:235`: the table of the memory map has 20 entries and no test.
* `pMemory.c:353`: only the low words of base and length are looked at; a usable zone at
  4 GB would be taken for the one at 0. `pMemory.c:363`, `374`: there are
  `MEM_LIST_NUM` lists of each kind, and the loop does not look whether it has passed the
  last one. `MapsAssumption` excludes both.
* `string.c:84`: `char` is signed, so `strcmp` puts a character beyond ASCII before the
  end of the string.
* `string.c:26`: `strncpy` writes `n + 1` characters, and runs on when the string
  is longer than `n`; `strncmp`, `memcmp` and `memchr` look one character too far.
  None has a caller that meets it.
* `btree.c:12`: an insert of a node that hangs already is refused, but the caller has
  set its parent to the new place. A later `BTree_Remove` of it clears the right link
  of the node it names instead: the removed node stays in the tree, and the child that
  hung there, if any, falls off. `TreeAgrees` allows for the parents
  (`misled`); the links stay a tree.
* `btree.c:64`: removing the root, or a node that was removed in that way before, writes
  through its null parent.

## 5. What is not modelled

* The bytes of names in the scheduler (they are values; `strcmp` is in
  `Strings`), the formatting of numbers, descriptors, the IDT, masks of the
  interrupt controller.
* Steps inside `malloc` and `free`. The code has no lock there, although tasks
  and the keyboard interrupt call them; `Heap` says what is promised to one
  caller at a time.
* Running out of heap, page faults beyond the memory's end, `UnLinkPage` (no
  caller), faults other than page faults.
* A disk that fails, the switch to protected mode, the order of the other
  initialisations: initial states are those `kmain.c` leaves behind.
* The branch of `PMemAlloc` that counts a page a second time (`pMemory.c:213`): every
  caller passes the null pointer.
* Fake shifts that a keyboard sends around the grey keys while shift is held or
  Num Lock is on, Print Screen's other codes with shift, control or Alt held, and empty
  entries of the table behind the prefix `e0`, which would leave the prefix open for the
  next key (no key of a keyboard of that time sends one).
* `bitmap.c`: `BitMap_Scan` asserts that the pointer it writes through is null,
  so no call of it can succeed; `event.c` beyond its list (see `Rings`). Nothing
  uses them.

## 6. Plan

The scheduler with its proofs came first, then mutexes and clients, the
application, the interrupt path that justifies their atomicity, the sequential
parts (screen, heap, keyboard, frames), the cells of the lists with their proof,
the start, strings and trees, and last the proofs of the mutexes, the terminal,
the interrupt path, the frames, the heap, the application, the readers of the lists,
the loader, the division of memory, the keyboard, the trees and the strings. What
would come next are models: heap operations in steps, with a second caller;
exhaustion; `UnLinkPage` and addresses beyond memory; masks of the interrupt
controller with the cascade line; a disk that fails.
