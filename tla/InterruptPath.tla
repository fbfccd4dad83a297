---------------------------- MODULE InterruptPath -----------------------------
(***************************************************************************)
(* The way into and out of the kernel (ihandler.asm): system calls and     *)
(* hardware interrupts, how they nest, which task's frame they save to and *)
(* return from.  What the scheduler decides is left open: any task may be  *)
(* next.                                                                   *)
(***************************************************************************)
EXTENDS Integers, Sequences

CONSTANTS
    Task,
    MaxDepth    \* bound: contexts on top of each other

(* A frame of a task is never taken for the depth of a context. *)
ASSUME TaskAssumption == \A t \in Task : t \notin Nat

Irq == {"timer", "keyboard"}

Eflags == 514   \* what an interrupt pushes first: the interrupt flag is set

VARIABLES
    ctx,        \* contexts inside the kernel, the newest last
    user,       \* the task whose user code runs, or was interrupted
    gCurrentTaskAddr,   \* a task's frame, or the depth of a context it points into
    esp0,       \* pTSS->esp0: the task whose frame the processor saves to
    gs,         \* "video" in the kernel, "null" in a task
    isr         \* requests the 8259A has in service

vars == <<ctx, user, gCurrentTaskAddr, esp0, gs, isr>>

(* A context entered with gs = null stored its frame in gCurrentTaskAddr    *)
(* and left a 3 on the kernel stack (slot); one with gs = video stayed on   *)
(* the stack it interrupted and left a 0.  An exit notes the frame it has   *)
(* loaded (0 before that).                                                  *)
Context(src, rpl) ==
    [src |-> src, rpl |-> rpl, slot |-> rpl, pc |-> "handle", frame |-> 0]

Top == ctx[Len(ctx)]
At(pc) == ctx # <<>> /\ Top.pc = pc
Goto(pc) == [ctx EXCEPT ![Len(ctx)].pc = pc]

-----------------------------------------------------------------------------
(* The interrupt flag.  A gate clears it; only the entry from gs = null and *)
(* the system call set it again.                                            *)
AlwaysEnabled == TRUE
IF9 == IF ctx = <<>> THEN TRUE ELSE Top.rpl = 3

(* The 8259A requests what is not in service nor below what is.             *)
Requests(irq) == isr = {} \/ (irq = "timer" /\ "timer" \notin isr)

(* A non-specific end of interrupt clears the highest request in service.   *)
SendEOI == isr' = isr \ (IF "timer" \in isr THEN {"timer"} ELSE isr)

(* Entry of an interrupt.  Between the call's clean-up and the comparison   *)
(* of the slot below esp, what the processor pushes overwrites the slot.    *)
Interrupt(irq) ==
    LET rpl   == IF gs = "null" THEN 3 ELSE 0
        saved == IF At("compare") THEN [ctx EXCEPT ![Len(ctx)].slot = Eflags] ELSE ctx
    IN  /\ IF9 /\ Requests(irq) /\ Len(ctx) < MaxDepth
        /\ ctx' = Append(saved, Context(irq, rpl))
        /\ gCurrentTaskAddr' = IF rpl = 0 THEN gCurrentTaskAddr
                               ELSE IF ctx = <<>> THEN esp0 ELSE Len(ctx)
        /\ gs' = "video"
        /\ isr' = isr \union {irq}
        /\ UNCHANGED <<user, esp0>>

(* int 0x80 from a task. *)
SysCallHandlerEntry ==
    /\ ctx = <<>>
    /\ ctx' = <<Context("call", 3)>>
    /\ gCurrentTaskAddr' = esp0
    /\ gs' = "video"
    /\ UNCHANGED <<user, esp0, isr>>

-----------------------------------------------------------------------------
(* ScheduleNext: the next task's frame becomes the current one, and the     *)
(* frame the processor saves to (PrepareForRun).                            *)
ScheduleUnprepared(t) == gCurrentTaskAddr' = t /\ esp0' = esp0
ScheduleNext(t) ==
    /\ gCurrentTaskAddr' = t
    /\ esp0' = IF t = gCurrentTaskAddr THEN esp0 ELSE t

(* TimerHandler schedules only if the timer came while a task ran.          *)
AnyLevel(slot) == TRUE
FromUser(slot) == slot = 3

TimerHandler ==
    /\ At("handle") /\ Top.src = "timer"
    /\ IF FromUser(Top.slot) THEN \E t \in Task : ScheduleNext(t)
       ELSE UNCHANGED <<gCurrentTaskAddr, esp0>>
    /\ ctx' = Goto("eoi")
    /\ UNCHANGED <<user, gs, isr>>

(* KeyBoardHandler stores the key. *)
KeyBoardHandler ==
    /\ At("handle") /\ Top.src = "keyboard"
    /\ ctx' = Goto("eoi")
    /\ UNCHANGED <<user, gCurrentTaskAddr, esp0, gs, isr>>

EndOfInterruptIfUser ==
    /\ At("eoi")
    /\ IF Top.rpl = 3 THEN SendEOI ELSE isr' = isr
    /\ ctx' = Goto("compare")
    /\ UNCHANGED <<user, gCurrentTaskAddr, esp0, gs>>

(* Both handlers end so, at either level. *)
EndOfInterrupt ==
    /\ At("eoi")
    /\ SendEOI
    /\ ctx' = Goto("compare")
    /\ UNCHANGED <<user, gCurrentTaskAddr, esp0, gs>>

-----------------------------------------------------------------------------
(* Resuming a frame: the user code of a task, or the exit of the context    *)
(* that an interrupt took for a task, where that exit was interrupted.      *)
Resume(frame) ==
    /\ gs' = "null"
    /\ IF frame \in Task
       THEN ctx' = <<>> /\ user' = frame
       ELSE ctx' = SubSeq(ctx, 1, frame) /\ user' = user
    /\ UNCHANGED <<gCurrentTaskAddr, esp0, isr>>

(* The exit of an interrupt.  One that found gs = video returns at once,    *)
(* the interrupt flag being clear; the other goes on from the frame of the  *)
(* current task, the flag being set.                                        *)
Return ==
    /\ At("compare") /\ Top.slot = 0
    /\ ctx' = SubSeq(ctx, 1, Len(ctx) - 1)
    /\ UNCHANGED <<user, gCurrentTaskAddr, esp0, gs, isr>>

LoadFrame ==
    /\ At("compare") /\ Top.slot # 0
    /\ ctx' = [ctx EXCEPT ![Len(ctx)].pc = "frame", ![Len(ctx)].frame = gCurrentTaskAddr]
    /\ UNCHANGED <<user, gCurrentTaskAddr, esp0, gs, isr>>

PopGs ==
    /\ At("frame")
    /\ gs' = "null"
    /\ ctx' = Goto("popped")
    /\ UNCHANGED <<user, gCurrentTaskAddr, esp0, isr>>

(* The stack pointer is in the frame since LoadFrame, whatever a nested      *)
(* interrupt has left in gCurrentTaskAddr.                                  *)
Iret == At("popped") /\ Resume(Top.frame)

(* The work of a system call, then its exit: one step, since `cli` opens it.*)
(* MutexSchedule runs the next task with the flag clear too.                *)
CallWorks(t) ==
    /\ At("handle") /\ Top.src = "call"
    /\ ScheduleNext(t)
    /\ ctx' = Goto("done")
    /\ UNCHANGED <<user, gs, isr>>

CallReturns == At("done") /\ Resume(gCurrentTaskAddr)

-----------------------------------------------------------------------------
(* LaunchTask has prepared the first task and started the clock; RunTask    *)
(* loads its frame with the interrupt flag set.                             *)
Init ==
    /\ user \in Task
    /\ gCurrentTaskAddr = user /\ esp0 = user
    /\ ctx = <<[Context("boot", 3) EXCEPT !.pc = "frame", !.frame = user]>>
    /\ gs = "video"
    /\ isr = {}

Next ==
    \/ \E irq \in Irq : Interrupt(irq)
    \/ SysCallHandlerEntry
    \/ TimerHandler \/ KeyBoardHandler \/ EndOfInterrupt
    \/ Return \/ LoadFrame \/ PopGs \/ Iret
    \/ \E t \in Task : CallWorks(t)
    \/ CallReturns

Spec == Init /\ [][Next]_vars

-----------------------------------------------------------------------------
(* Whatever interrupted whatever, user code runs only in the task whose     *)
(* frame the processor will save to: no task's registers go to another's.   *)
UserFrameLoaded == ctx = <<>> => user = esp0

(* An interrupt that arrives during a system call never switches tasks      *)
(* under it: the scheduler and the mutexes see their calls one at a time.   *)
CallIsUndisturbed ==
    [][ctx # <<>> /\ ctx[1].src = "call" /\ Top.src # "call"
       => UNCHANGED <<gCurrentTaskAddr, esp0>>]_vars

(* The word an exit compares is below the stack pointer, where an interrupt *)
(* may overwrite it; it still tells how the context was entered.            *)
SlotTellsLevel == \A i \in DOMAIN ctx : ctx[i].slot = 0 <=> ctx[i].rpl = 0

(* The 8259A has in service exactly the interrupts whose handlers have yet  *)
(* to send their end of interrupt, however they nest.                       *)
InServiceIsUnfinished ==
    isr = {ctx[i].src : i \in {j \in DOMAIN ctx : ctx[j].src \in Irq
                                                  /\ ctx[j].pc \in {"handle", "eoi"}}}

(* "RPL = 0 gs --> video32Selector, RPL = 3 gs --> 0" (ihandler.asm:92-93): *)
(* wherever an interrupt may come, gs tells a task from the kernel.  In an  *)
(* exit after `pop gs` it does not.                                         *)
GsTellsPrivilege == IF9 => (gs = "null" <=> ctx = <<>>)
=============================================================================
