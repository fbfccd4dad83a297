--------------------------- MODULE InterruptProofs ----------------------------
(***************************************************************************)
(* Proofs about the way into and out of the kernel, for any number of      *)
(* tasks and any depth of nesting.                                         *)
(***************************************************************************)
EXTENDS InterruptPath, SequenceTheorems, TLAPS

ContextType ==
    [src : Irq \cup {"call", "boot"}, rpl : {0, 3}, slot : {0, 3, Eflags},
     pc : {"handle", "eoi", "compare", "frame", "popped", "done"},
     frame : Task \cup Nat]

TypeOK ==
    /\ ctx \in Seq(ContextType)
    /\ user \in Task /\ esp0 \in Task
    /\ gCurrentTaskAddr \in Task \cup Nat
    /\ gs \in {"null", "video"}
    /\ isr \subseteq Irq

(* A context whose exit is on its way through a frame; one that will go on  *)
(* from the frame of the current task; one that still owes the 8259A an end *)
(* of interrupt.                                                            *)
Loaded(c) == c.pc \in {"frame", "popped"}
Pending(c) == c.rpl = 3 /\ ~Loaded(c)
Unfinished(c) == c.src \in Irq /\ c.pc \in {"handle", "eoi"}

(* What a single context tells. *)
ContextOK(c) ==
    /\ c.slot = 0 <=> c.rpl = 0
    /\ c.rpl = 0 => c.src \in Irq /\ ~Loaded(c)
    /\ c.src = "call" => c.pc \in {"handle", "done"}
    /\ c.src # "call" => c.pc # "done"
    /\ c.src = "boot" => Loaded(c)

(* Only the newest context stays on a stack it interrupted, and one that    *)
(* was taken for an interrupt of a task met an exit after `pop gs`.         *)
Nesting ==
    \A i \in DOMAIN ctx :
        /\ ContextOK(ctx[i])
        /\ i < Len(ctx) => ctx[i].rpl = 3
        /\ i = 1 => ctx[i].rpl = 3
        /\ i > 1 => (ctx[i].rpl = 3 <=> ctx[i - 1].pc = "popped")
        /\ ctx[i].src = "call" => i = 1

GsTells == gs = "null" <=> (ctx = <<>> \/ Top.pc = "popped")

(* A frame is that of a task or of the context that was interrupted. *)
FrameBelow(frame, i) == frame \in Task \/ (i > 1 /\ frame = i - 1)

FramesOK ==
    \A i \in DOMAIN ctx :
        /\ Loaded(ctx[i]) => FrameBelow(ctx[i].frame, i)
        /\ Pending(ctx[i]) => FrameBelow(gCurrentTaskAddr, i)

(* The context leads to a task and not to the exit of another context. *)
LeadsToTask(c) ==
    \/ Loaded(c) /\ c.frame \in Task
    \/ Pending(c) /\ gCurrentTaskAddr \in Task

(* The newest context that leads to a task leads to the one whose frame the *)
(* processor saves to; older ones are dropped with it.                      *)
OwnersOK ==
    \A i \in DOMAIN ctx :
        /\ Pending(ctx[i]) /\ gCurrentTaskAddr \in Task => gCurrentTaskAddr = esp0
        /\ Loaded(ctx[i]) /\ ctx[i].frame \in Task =>
             \/ ctx[i].frame = esp0
             \/ \E j \in DOMAIN ctx : j > i /\ LeadsToTask(ctx[j])

(* The timer interrupts the keyboard's handler, nothing the timer's. *)
ServiceOrder ==
    \A i, j \in DOMAIN ctx :
        i < j /\ Unfinished(ctx[i]) /\ Unfinished(ctx[j])
            => ctx[i].src = "keyboard" /\ ctx[j].src = "timer"

IInv ==
    /\ TypeOK /\ Nesting /\ GsTells /\ FramesOK /\ OwnersOK
    /\ ServiceOrder /\ InServiceIsUnfinished
    /\ UserFrameLoaded

-----------------------------------------------------------------------------
(* The contexts after the newest one changed. *)
LEMMA TopChanges ==
    ASSUME TypeOK, ctx # <<>>, NEW c \in ContextType,
           ctx' = [ctx EXCEPT ![Len(ctx)] = c]
    PROVE  /\ ctx' \in Seq(ContextType) /\ Len(ctx') = Len(ctx)
           /\ Len(ctx) \in DOMAIN ctx /\ DOMAIN ctx' = DOMAIN ctx
           /\ DOMAIN ctx = 1 .. Len(ctx) /\ Len(ctx) \in Nat
           /\ ctx' # <<>> /\ Top' = c
           /\ ctx'[Len(ctx)] = c
           /\ \A i \in DOMAIN ctx : i # Len(ctx) => ctx'[i] = ctx[i]
BY DEF TypeOK, Top

(* The newest context at another point of its way. *)
LEMMA GotoChanges ==
    ASSUME TypeOK, ctx # <<>>,
           NEW p \in {"handle", "eoi", "compare", "frame", "popped", "done"},
           ctx' = Goto(p)
    PROVE  /\ [Top EXCEPT !.pc = p] \in ContextType
           /\ ctx' = [ctx EXCEPT ![Len(ctx)] = [Top EXCEPT !.pc = p]]
<1>1. Top \in ContextType
  BY DEF TypeOK, Top
<1> QED  BY <1>1 DEF Goto, Top, ContextType, TypeOK

(* The first context is entered from a task. *)
LEMMA InitEstablishes == Init => IInv
<1> SUFFICES ASSUME Init  PROVE  IInv
  OBVIOUS
<1> DEFINE c == [Context("boot", 3) EXCEPT !.pc = "frame", !.frame = user]
<1>1. /\ user \in Task /\ gCurrentTaskAddr = user /\ esp0 = user
      /\ ctx = <<c>> /\ gs = "video" /\ isr = {}
  BY DEF Init
<1>2. /\ c.src = "boot" /\ c.rpl = 3 /\ c.slot = 3 /\ c.pc = "frame" /\ c.frame = user
      /\ c \in ContextType
  BY <1>1 DEF Context, ContextType
<1> HIDE DEF c
<1>3. /\ ctx \in Seq(ContextType) /\ Len(ctx) = 1 /\ ctx[1] = c /\ DOMAIN ctx = {1}
      /\ Top = c /\ ctx # <<>>
  BY <1>1, <1>2 DEF Top
<1>4. TypeOK
  BY <1>1, <1>3 DEF TypeOK
<1>5. Nesting /\ GsTells
  BY <1>1, <1>2, <1>3 DEF Nesting, ContextOK, GsTells, Loaded, Irq
<1>6. FramesOK /\ OwnersOK /\ ServiceOrder /\ InServiceIsUnfinished
  BY <1>1, <1>2, <1>3
  DEF FramesOK, FrameBelow, OwnersOK, Loaded, Pending, ServiceOrder, InServiceIsUnfinished, Irq
<1>7. UserFrameLoaded
  BY <1>3 DEF UserFrameLoaded
<1> QED  BY <1>4, <1>5, <1>6, <1>7 DEF IInv

(* The service requests after a step that moves one context on without an   *)
(* end of interrupt: it owes one afterwards if it did before.               *)
LEMMA ServiceStays ==
    ASSUME InServiceIsUnfinished, ServiceOrder, isr' = isr, DOMAIN ctx' = DOMAIN ctx,
           \A i \in DOMAIN ctx :
               ctx'[i].src = ctx[i].src /\ (Unfinished(ctx[i]) <=> Unfinished(ctx'[i]))
    PROVE  InServiceIsUnfinished' /\ ServiceOrder'
<1>1. InServiceIsUnfinished'
  BY DEF InServiceIsUnfinished, Unfinished
<1>2. ServiceOrder'
  BY DEF ServiceOrder, Unfinished
<1> QED  BY <1>1, <1>2

(* Below a context entered from a task, or taken for that, every exit waits *)
(* after its `pop gs`.                                                      *)
LEMMA PoppedBelow ==
    ASSUME TypeOK, Nesting, NEW i \in DOMAIN ctx, NEW j \in DOMAIN ctx,
           i < j, ctx[j].rpl = 3
    PROVE  ctx[i].pc = "popped" /\ Loaded(ctx[i]) /\ ~Pending(ctx[i]) /\ ~Unfinished(ctx[i])
<1>1. DOMAIN ctx = 1 .. Len(ctx) /\ Len(ctx) \in Nat
  BY DEF TypeOK
<1>2. i + 1 \in DOMAIN ctx /\ i + 1 > 1 /\ (i + 1) - 1 = i
  BY <1>1
<1>3. ctx[i + 1].rpl = 3
  <2>1. CASE i + 1 = j
    BY <2>1
  <2>2. CASE i + 1 # j
    <3>1. i + 1 < Len(ctx)
      BY <1>1, <2>2
    <3> QED  BY <1>2, <3>1 DEF Nesting
  <2> QED  BY <2>1, <2>2
<1>4. ctx[(i + 1) - 1].pc = "popped"
  BY <1>2, <1>3 DEF Nesting
<1> QED  BY <1>2, <1>4 DEF Loaded, Pending, Unfinished

(* Frames and owners after a step that neither schedules nor loads a frame. *)
LEMMA OwnersStay ==
    ASSUME FramesOK, OwnersOK, DOMAIN ctx' = DOMAIN ctx,
           gCurrentTaskAddr' = gCurrentTaskAddr, esp0' = esp0,
           \A i \in DOMAIN ctx :
               /\ ctx'[i].frame = ctx[i].frame
               /\ Loaded(ctx'[i]) <=> Loaded(ctx[i])
               /\ Pending(ctx'[i]) <=> Pending(ctx[i])
    PROVE  FramesOK' /\ OwnersOK'
<1>1. FramesOK'
  BY DEF FramesOK, FrameBelow, Loaded, Pending
<1>2. OwnersOK'
  BY DEF OwnersOK, LeadsToTask, Loaded, Pending
<1> QED  BY <1>1, <1>2

(* Frames and owners after the scheduler ran in the newest context.  That   *)
(* context leads to the next task, and so no older one matters.             *)
LEMMA OwnersScheduled ==
    ASSUME TypeOK, Nesting, FramesOK, OwnersOK, NEW t \in Task, ScheduleNext(t),
           NEW n, n = Len(ctx), n \in DOMAIN ctx, Pending(ctx[n]),
           DOMAIN ctx' = DOMAIN ctx, Pending(ctx'[n]),
           \A i \in DOMAIN ctx : i # n => ctx'[i] = ctx[i]
    PROVE  FramesOK' /\ OwnersOK' /\ esp0' \in Task /\ gCurrentTaskAddr' \in Task
<1>1. gCurrentTaskAddr' = t /\ gCurrentTaskAddr' = esp0'
  BY DEF ScheduleNext, OwnersOK
<1>2. DOMAIN ctx = 1 .. n /\ n \in Nat
  BY DEF TypeOK
<1>3. ~ Loaded(ctx'[n])
  BY DEF Pending, Loaded
<1>4. ASSUME NEW i \in DOMAIN ctx, i # n  PROVE  i < n /\ ~Pending(ctx[i])
  <2>1. i < n /\ ctx[n].rpl = 3
    BY <1>2, <1>4 DEF Pending
  <2> QED  BY <2>1, PoppedBelow
<1>5. FramesOK'
  BY <1>1, <1>3, <1>4 DEF FramesOK, FrameBelow, Loaded, Pending
<1>6. LeadsToTask(ctx[n])'
  BY <1>1 DEF LeadsToTask, Pending, Loaded
<1>7. OwnersOK'
  <2>1. ASSUME NEW i \in DOMAIN ctx'
        PROVE  /\ Pending(ctx[i])' /\ gCurrentTaskAddr' \in Task => gCurrentTaskAddr' = esp0'
               /\ Loaded(ctx[i])' /\ ctx'[i].frame \in Task =>
                    \/ ctx'[i].frame = esp0'
                    \/ \E j \in DOMAIN ctx' : j > i /\ LeadsToTask(ctx[j])'
    BY <1>1, <1>2, <1>3, <1>4, <1>6 DEF Pending, Loaded
  <2> QED  BY <2>1 DEF OwnersOK
<1> QED  BY <1>1, <1>5, <1>7

(* What a step tells that moves the newest context on to p. *)
LEMMA TopMoves ==
    ASSUME IInv, ctx # <<>>,
           NEW p \in {"handle", "eoi", "compare", "popped", "done"},
           ctx' = Goto(p), gs' \in {"null", "video"}, gs' = "null" <=> p = "popped",
           p = "popped" => Loaded(Top),
           p # "popped" => ~Loaded(Top),
           p = "done" <=> Top.src = "call"
    PROVE  /\ ctx' \in Seq(ContextType) /\ DOMAIN ctx' = DOMAIN ctx
           /\ Nesting' /\ GsTells' /\ UserFrameLoaded'
           /\ Len(ctx) \in DOMAIN ctx /\ Top = ctx[Len(ctx)] /\ Top \in ContextType
           /\ ctx'[Len(ctx)] = [Top EXCEPT !.pc = p]
           /\ \A i \in DOMAIN ctx : i # Len(ctx) => ctx'[i] = ctx[i]
           /\ \A i \in DOMAIN ctx :
                /\ ctx'[i].frame = ctx[i].frame /\ ctx'[i].src = ctx[i].src
                /\ Loaded(ctx'[i]) <=> Loaded(ctx[i])
                /\ Pending(ctx'[i]) <=> Pending(ctx[i])
<1> DEFINE n == Len(ctx)
           c == [Top EXCEPT !.pc = p]
<1>1. TypeOK /\ Nesting /\ GsTells
  BY DEF IInv
<1>2. c \in ContextType /\ ctx' = [ctx EXCEPT ![n] = c]
  BY <1>1, GotoChanges
<1>3. /\ ctx' \in Seq(ContextType) /\ Len(ctx') = n
      /\ n \in DOMAIN ctx /\ DOMAIN ctx' = DOMAIN ctx
      /\ DOMAIN ctx = 1 .. n /\ n \in Nat
      /\ ctx' # <<>> /\ Top' = c /\ ctx'[n] = c
      /\ \A i \in DOMAIN ctx : i # n => ctx'[i] = ctx[i]
  BY <1>1, <1>2, TopChanges
<1>4. Top = ctx[n] /\ Top \in ContextType
  BY <1>1, <1>3 DEF Top, TypeOK
<1>5. /\ c.src = Top.src /\ c.rpl = Top.rpl /\ c.slot = Top.slot
      /\ c.frame = Top.frame /\ c.pc = p
  BY <1>4 DEF ContextType
<1>6. c = [Top EXCEPT !.pc = p]
  OBVIOUS
<1> HIDE DEF c
<1>7. Loaded(c) <=> Loaded(Top)
  BY <1>5 DEF Loaded
<1>8. ContextOK(c)
  <2>1. ContextOK(Top)
    BY <1>1, <1>3, <1>4 DEF Nesting
  <2> QED  BY <1>5, <1>7, <2>1 DEF ContextOK, Loaded
<1>9. Nesting'
  <2>1. ASSUME NEW i \in DOMAIN ctx, i > 1
        PROVE  ctx'[i].rpl = 3 <=> ctx'[i - 1].pc = "popped"
    <3>1. i - 1 \in DOMAIN ctx /\ i - 1 # n /\ ctx'[i].rpl = ctx[i].rpl
      BY <1>3, <1>4, <1>5, <2>1
    <3> QED  BY <1>1, <1>3, <2>1, <3>1 DEF Nesting
  <2>2. ASSUME NEW i \in DOMAIN ctx
        PROVE  /\ ContextOK(ctx'[i])
               /\ i < n => ctx'[i].rpl = 3
               /\ i = 1 => ctx'[i].rpl = 3
               /\ ctx'[i].src = "call" => i = 1
    BY <1>1, <1>3, <1>4, <1>5, <1>8 DEF Nesting
  <2> QED  BY <1>3, <2>1, <2>2 DEF Nesting, ContextOK, Loaded
<1>10. GsTells' /\ UserFrameLoaded'
  BY <1>3, <1>5 DEF GsTells, UserFrameLoaded
<1>11. ASSUME NEW i \in DOMAIN ctx
       PROVE  /\ ctx'[i].frame = ctx[i].frame /\ ctx'[i].src = ctx[i].src
              /\ Loaded(ctx'[i]) <=> Loaded(ctx[i])
              /\ Pending(ctx'[i]) <=> Pending(ctx[i])
  BY <1>3, <1>4, <1>5, <1>7 DEF Pending
<1> QED  BY <1>3, <1>4, <1>6, <1>9, <1>10, <1>11

(* TimerHandler. *)
LEMMA TimerKeeps ==
    ASSUME IInv, TimerHandler
    PROVE  IInv'
<1> DEFINE n == Len(ctx)
<1>1. /\ TypeOK /\ Nesting /\ GsTells /\ FramesOK /\ OwnersOK
      /\ ServiceOrder /\ InServiceIsUnfinished
  BY DEF IInv
<1>2. /\ ctx # <<>> /\ Top.pc = "handle" /\ Top.src = "timer" /\ ~Loaded(Top)
      /\ ctx' = Goto("eoi") /\ user' = user /\ gs' = gs /\ isr' = isr
  BY DEF TimerHandler, At, Loaded
<1>3. gs' = "video"
  BY <1>1, <1>2 DEF GsTells, TypeOK
<1>4. /\ ctx' \in Seq(ContextType) /\ DOMAIN ctx' = DOMAIN ctx
      /\ Nesting' /\ GsTells' /\ UserFrameLoaded'
      /\ n \in DOMAIN ctx /\ Top = ctx[n] /\ Top \in ContextType
      /\ ctx'[n] = [Top EXCEPT !.pc = "eoi"]
      /\ \A i \in DOMAIN ctx : i # n => ctx'[i] = ctx[i]
      /\ \A i \in DOMAIN ctx :
            /\ ctx'[i].frame = ctx[i].frame /\ ctx'[i].src = ctx[i].src
            /\ Loaded(ctx'[i]) <=> Loaded(ctx[i])
            /\ Pending(ctx'[i]) <=> Pending(ctx[i])
  BY <1>2, <1>3, TopMoves
<1>5. InServiceIsUnfinished' /\ ServiceOrder'
  <2>1. Unfinished(ctx[n]) /\ Unfinished(ctx'[n])
    BY <1>2, <1>4 DEF Unfinished, Irq, ContextType
  <2> QED  BY <1>1, <1>2, <1>4, <2>1, ServiceStays
<1>6. FramesOK' /\ OwnersOK' /\ esp0' \in Task /\ gCurrentTaskAddr' \in Task \cup Nat
  <2>1. CASE FromUser(Top.slot)
    <3>1. PICK t \in Task : ScheduleNext(t)
      BY <2>1 DEF TimerHandler
    <3>2. Pending(ctx[n])
      <4>1. ContextOK(ctx[n]) /\ ctx[n].rpl \in {0, 3}
        BY <1>1, <1>4 DEF Nesting, ContextType
      <4>2. ctx[n].slot # 0
        BY <1>4, <2>1 DEF FromUser
      <4> QED  BY <1>2, <1>4, <4>1, <4>2 DEF Pending, ContextOK
    <3> QED  BY <1>1, <1>4, <3>1, <3>2, OwnersScheduled
  <2>2. CASE ~FromUser(Top.slot)
    <3>1. gCurrentTaskAddr' = gCurrentTaskAddr /\ esp0' = esp0
      BY <2>2 DEF TimerHandler
    <3> QED  BY <1>1, <1>4, <3>1, OwnersStay DEF TypeOK
  <2> QED  BY <2>1, <2>2
<1> QED  BY <1>1, <1>2, <1>4, <1>5, <1>6 DEF IInv, TypeOK

(* KeyBoardHandler and `pop gs`. *)
LEMMA MoveKeeps ==
    ASSUME IInv, KeyBoardHandler \/ PopGs
    PROVE  IInv'
<1> DEFINE n == Len(ctx)
<1>1. /\ TypeOK /\ Nesting /\ GsTells /\ FramesOK /\ OwnersOK
      /\ ServiceOrder /\ InServiceIsUnfinished
  BY DEF IInv
<1>2. PICK p \in {"eoi", "popped"} :
        /\ ctx # <<>> /\ ctx' = Goto(p)
        /\ p = "eoi" => Top.pc = "handle" /\ Top.src = "keyboard" /\ gs' = gs
        /\ p = "popped" => Top.pc = "frame" /\ gs' = "null"
        /\ UNCHANGED <<user, gCurrentTaskAddr, esp0, isr>>
  BY DEF KeyBoardHandler, PopGs, At
<1>3. /\ gs' \in {"null", "video"}
      /\ gs' = "null" <=> p = "popped"
      /\ p = "popped" => Loaded(Top)
      /\ p # "popped" => ~Loaded(Top)
      /\ p = "done" <=> Top.src = "call"
  <2>1. Top = ctx[n] /\ n \in DOMAIN ctx
    BY <1>1, <1>2 DEF Top, TypeOK
  <2>2. Top.src = "call" => Top.pc \in {"handle", "done"}
    BY <1>1, <2>1 DEF Nesting, ContextOK
  <2> QED  BY <1>1, <1>2, <2>2 DEF GsTells, TypeOK, Loaded
<1>4. /\ ctx' \in Seq(ContextType) /\ DOMAIN ctx' = DOMAIN ctx
      /\ Nesting' /\ GsTells' /\ UserFrameLoaded'
      /\ n \in DOMAIN ctx /\ Top = ctx[n] /\ Top \in ContextType
      /\ ctx'[n] = [Top EXCEPT !.pc = p]
      /\ \A i \in DOMAIN ctx : i # n => ctx'[i] = ctx[i]
      /\ \A i \in DOMAIN ctx :
            /\ ctx'[i].frame = ctx[i].frame /\ ctx'[i].src = ctx[i].src
            /\ Loaded(ctx'[i]) <=> Loaded(ctx[i])
            /\ Pending(ctx'[i]) <=> Pending(ctx[i])
  BY <1>2, <1>3, TopMoves
<1>5. InServiceIsUnfinished' /\ ServiceOrder'
  <2>1. ctx'[n].pc = p /\ ctx'[n].src = ctx[n].src
    BY <1>4 DEF ContextType
  <2>2. Unfinished(ctx[n]) <=> Unfinished(ctx'[n])
    BY <1>2, <1>4, <2>1 DEF Unfinished
  <2> QED  BY <1>1, <1>2, <1>4, <2>2, ServiceStays
<1>6. FramesOK' /\ OwnersOK'
  BY <1>1, <1>2, <1>4, OwnersStay
<1> QED  BY <1>1, <1>2, <1>3, <1>4, <1>5, <1>6 DEF IInv, TypeOK

(* EndOfInterrupt: with the timer in service, it is the timer's. *)
LEMMA EndKeeps ==
    ASSUME IInv, EndOfInterrupt
    PROVE  IInv'
<1> DEFINE n == Len(ctx)
<1>1. /\ TypeOK /\ Nesting /\ GsTells /\ FramesOK /\ OwnersOK
      /\ ServiceOrder /\ InServiceIsUnfinished
  BY DEF IInv
<1>2. /\ ctx # <<>> /\ Top.pc = "eoi" /\ ctx' = Goto("compare") /\ SendEOI
      /\ UNCHANGED <<user, gCurrentTaskAddr, esp0, gs>>
  BY DEF EndOfInterrupt, At
<1>3. /\ gs' \in {"null", "video"}
      /\ gs' # "null"
      /\ ~Loaded(Top)
      /\ Top.src # "call"
  <2>1. Top = ctx[n] /\ n \in DOMAIN ctx
    BY <1>1, <1>2 DEF Top, TypeOK
  <2>2. Top.src = "call" => Top.pc \in {"handle", "done"}
    BY <1>1, <2>1 DEF Nesting, ContextOK
  <2> QED  BY <1>1, <1>2, <2>2 DEF GsTells, TypeOK, Loaded
<1>4. /\ ctx' \in Seq(ContextType) /\ DOMAIN ctx' = DOMAIN ctx
      /\ Nesting' /\ GsTells' /\ UserFrameLoaded'
      /\ n \in DOMAIN ctx /\ Top = ctx[n] /\ Top \in ContextType
      /\ ctx'[n] = [Top EXCEPT !.pc = "compare"]
      /\ \A i \in DOMAIN ctx : i # n => ctx'[i] = ctx[i]
      /\ \A i \in DOMAIN ctx :
            /\ ctx'[i].frame = ctx[i].frame /\ ctx'[i].src = ctx[i].src
            /\ Loaded(ctx'[i]) <=> Loaded(ctx[i])
            /\ Pending(ctx'[i]) <=> Pending(ctx[i])
  BY <1>2, <1>3, TopMoves
<1>5. /\ Unfinished(ctx[n]) /\ ~Unfinished(ctx'[n]) /\ Top.src \in Irq
      /\ DOMAIN ctx = 1 .. n /\ n \in Nat
  <2>1. Top.src \in Irq \cup {"call", "boot"}
    BY <1>4 DEF ContextType
  <2>2. Top.src = "boot" => Loaded(Top)
    BY <1>1, <1>4 DEF Nesting, ContextOK
  <2>3. Top.src \in Irq
    BY <1>3, <2>1, <2>2
  <2>4. ctx'[n].pc = "compare"
    BY <1>4 DEF ContextType
  <2> QED  BY <1>1, <1>2, <1>4, <2>3, <2>4 DEF Unfinished, TypeOK
<1>6. ASSUME NEW i \in DOMAIN ctx, i # n, Unfinished(ctx[i])
      PROVE  ctx[i].src = "keyboard" /\ Top.src = "timer"
  <2>1. i < n
    BY <1>5, <1>6
  <2> QED  BY <1>1, <1>4, <1>5, <1>6, <2>1 DEF ServiceOrder
<1>7. ASSUME NEW x
      PROVE  x \in isr <=> \E i \in DOMAIN ctx : Unfinished(ctx[i]) /\ ctx[i].src = x
  BY <1>1 DEF InServiceIsUnfinished, Unfinished
<1>8. isr' = isr \ {Top.src}
  <2>1. CASE Top.src = "timer"
    <3>1. "timer" \in isr
      BY <1>4, <1>5, <1>7, <2>1
    <3> QED  BY <1>2, <2>1, <3>1 DEF SendEOI
  <2>2. CASE Top.src = "keyboard"
    <3>1. \A x \in isr : x = "keyboard"
      BY <1>4, <1>6, <1>7, <2>2
    <3> QED  BY <1>2, <2>2, <3>1 DEF SendEOI
  <2> QED  BY <1>5, <2>1, <2>2 DEF Irq
<1>9. ASSUME NEW x
      PROVE  x \in isr' <=> \E i \in DOMAIN ctx : Unfinished(ctx'[i]) /\ ctx'[i].src = x
  <2>1. x \in isr' <=> x \in isr /\ x # Top.src
    BY <1>8
  <2> QED  BY <1>4, <1>5, <1>6, <1>7, <2>1
<1>10. InServiceIsUnfinished'
  BY <1>4, <1>9 DEF InServiceIsUnfinished, Unfinished
<1>11. ServiceOrder'
  BY <1>1, <1>4, <1>5 DEF ServiceOrder, Unfinished
<1>12. FramesOK' /\ OwnersOK'
  BY <1>1, <1>2, <1>4, OwnersStay
<1> QED  BY <1>1, <1>2, <1>3, <1>4, <1>8, <1>10, <1>11, <1>12 DEF IInv, TypeOK

(* LoadFrame: the context leads where the current frame did. *)
LEMMA LoadFrameKeeps ==
    ASSUME IInv, LoadFrame
    PROVE  IInv'
<1> DEFINE n == Len(ctx)
           c == [Top EXCEPT !.pc = "frame", !.frame = gCurrentTaskAddr]
<1>1. /\ TypeOK /\ Nesting /\ GsTells /\ FramesOK /\ OwnersOK
      /\ ServiceOrder /\ InServiceIsUnfinished
  BY DEF IInv
<1>2. /\ ctx # <<>> /\ Top.pc = "compare" /\ Top.slot # 0
      /\ UNCHANGED <<user, gCurrentTaskAddr, esp0, gs, isr>>
  BY DEF LoadFrame, At
<1>3. n \in DOMAIN ctx /\ Top = ctx[n] /\ Top \in ContextType
  BY <1>1, <1>2 DEF Top, TypeOK
<1>4. c \in ContextType /\ ctx' = [ctx EXCEPT ![n] = c]
  BY <1>1, <1>3 DEF LoadFrame, ContextType, TypeOK, Top
<1>5. /\ c.src = Top.src /\ c.rpl = Top.rpl /\ c.slot = Top.slot
      /\ c.frame = gCurrentTaskAddr /\ c.pc = "frame"
  BY <1>3 DEF ContextType
<1> HIDE DEF c
<1>6. /\ ctx' \in Seq(ContextType) /\ Len(ctx') = n
      /\ DOMAIN ctx' = DOMAIN ctx
      /\ DOMAIN ctx = 1 .. n /\ n \in Nat
      /\ ctx' # <<>> /\ Top' = c /\ ctx'[n] = c
      /\ \A i \in DOMAIN ctx : i # n => ctx'[i] = ctx[i]
  BY <1>1, <1>2, <1>4, TopChanges
<1>7. Pending(Top) /\ Loaded(c) /\ ~Pending(c) /\ ContextOK(c)
  <2>1. ContextOK(Top)
    BY <1>1, <1>3 DEF Nesting
  <2>2. Top.rpl = 3
    BY <1>2, <1>3, <2>1 DEF ContextOK, ContextType
  <2> QED  BY <1>2, <1>5, <2>1, <2>2 DEF ContextOK, Loaded, Pending
<1>8. Nesting'
  <2>1. ASSUME NEW i \in DOMAIN ctx, i > 1
        PROVE  ctx'[i].rpl = 3 <=> ctx'[i - 1].pc = "popped"
    <3>1. i - 1 \in DOMAIN ctx /\ i - 1 # n /\ ctx'[i].rpl = ctx[i].rpl
      BY <1>3, <1>5, <1>6, <2>1
    <3> QED  BY <1>1, <1>6, <2>1, <3>1 DEF Nesting
  <2>2. ASSUME NEW i \in DOMAIN ctx
        PROVE  /\ ContextOK(ctx'[i])
               /\ i < n => ctx'[i].rpl = 3
               /\ i = 1 => ctx'[i].rpl = 3
               /\ ctx'[i].src = "call" => i = 1
    BY <1>1, <1>3, <1>5, <1>6, <1>7 DEF Nesting
  <2> QED  BY <1>6, <2>1, <2>2 DEF Nesting, ContextOK, Loaded
<1>9. GsTells' /\ UserFrameLoaded'
  BY <1>1, <1>2, <1>5, <1>6 DEF GsTells, UserFrameLoaded
<1>10. FramesOK'
  BY <1>1, <1>2, <1>3, <1>5, <1>6, <1>7 DEF FramesOK, FrameBelow, Loaded, Pending
<1>11. OwnersOK'
  <2>1. ASSUME NEW i \in DOMAIN ctx, LeadsToTask(ctx[i])
        PROVE  LeadsToTask(ctx[i])'
    BY <1>2, <1>3, <1>5, <1>6, <1>7, <2>1 DEF LeadsToTask, Loaded, Pending
  <2>2. ASSUME NEW i \in DOMAIN ctx
        PROVE  /\ Pending(ctx[i])' /\ gCurrentTaskAddr' \in Task => gCurrentTaskAddr' = esp0'
               /\ Loaded(ctx[i])' /\ ctx'[i].frame \in Task =>
                    \/ ctx'[i].frame = esp0'
                    \/ \E j \in DOMAIN ctx' : j > i /\ LeadsToTask(ctx[j])'
    <3>1. CASE i = n
      BY <1>1, <1>2, <1>3, <1>5, <1>6, <1>7, <3>1 DEF OwnersOK, Loaded, Pending
    <3>2. CASE i # n
      <4>1. ctx'[i] = ctx[i]
        BY <1>6, <3>2
      <4> QED  BY <1>1, <1>2, <1>6, <2>1, <4>1 DEF OwnersOK, Loaded, Pending
    <3> QED  BY <3>1, <3>2
  <2> QED  BY <1>6, <2>2 DEF OwnersOK
<1>12. InServiceIsUnfinished' /\ ServiceOrder'
  <2>1. ~Unfinished(ctx[n]) /\ ~Unfinished(ctx'[n]) /\ ctx'[n].src = ctx[n].src
    BY <1>2, <1>3, <1>5, <1>6 DEF Unfinished
  <2>2. \A i \in DOMAIN ctx :
           ctx'[i].src = ctx[i].src /\ (Unfinished(ctx[i]) <=> Unfinished(ctx'[i]))
    BY <1>6, <2>1
  <2> QED  BY <1>1, <1>2, <1>6, <2>2, ServiceStays
<1> QED  BY <1>1, <1>2, <1>6, <1>8, <1>9, <1>10, <1>11, <1>12 DEF IInv, TypeOK

(* The work of a system call. *)
LEMMA CallWorksKeeps ==
    ASSUME IInv, NEW t \in Task, CallWorks(t)
    PROVE  IInv'
<1> DEFINE n == Len(ctx)
<1>1. /\ TypeOK /\ Nesting /\ GsTells /\ FramesOK /\ OwnersOK
      /\ ServiceOrder /\ InServiceIsUnfinished
  BY DEF IInv
<1>2. /\ ctx # <<>> /\ Top.pc = "handle" /\ Top.src = "call" /\ ~Loaded(Top)
      /\ ctx' = Goto("done") /\ user' = user /\ gs' = gs /\ isr' = isr
      /\ ScheduleNext(t)
  BY DEF CallWorks, At, Loaded
<1>3. gs' = "video"
  BY <1>1, <1>2 DEF GsTells, TypeOK
<1>4. /\ ctx' \in Seq(ContextType) /\ DOMAIN ctx' = DOMAIN ctx
      /\ Nesting' /\ GsTells' /\ UserFrameLoaded'
      /\ n \in DOMAIN ctx /\ Top = ctx[n] /\ Top \in ContextType
      /\ ctx'[n] = [Top EXCEPT !.pc = "done"]
      /\ \A i \in DOMAIN ctx : i # n => ctx'[i] = ctx[i]
      /\ \A i \in DOMAIN ctx :
            /\ ctx'[i].frame = ctx[i].frame /\ ctx'[i].src = ctx[i].src
            /\ Loaded(ctx'[i]) <=> Loaded(ctx[i])
            /\ Pending(ctx'[i]) <=> Pending(ctx[i])
  BY <1>2, <1>3, TopMoves
<1>5. InServiceIsUnfinished' /\ ServiceOrder'
  <2>1. ~Unfinished(ctx[n]) /\ ~Unfinished(ctx'[n])
    BY <1>2, <1>4 DEF Unfinished, Irq
  <2>2. \A i \in DOMAIN ctx :
           ctx'[i].src = ctx[i].src /\ (Unfinished(ctx[i]) <=> Unfinished(ctx'[i]))
    BY <1>4, <2>1
  <2> QED  BY <1>1, <1>2, <1>4, <2>2, ServiceStays
<1>6. FramesOK' /\ OwnersOK' /\ esp0' \in Task /\ gCurrentTaskAddr' \in Task
  <2>1. Pending(ctx[n])
    <3>1. ContextOK(ctx[n]) /\ ctx[n].rpl \in {0, 3}
      BY <1>1, <1>4 DEF Nesting, ContextType
    <3> QED  BY <1>2, <1>4, <3>1 DEF Pending, ContextOK, Irq
  <2> QED  BY <1>1, <1>2, <1>4, <2>1, OwnersScheduled
<1> QED  BY <1>1, <1>2, <1>3, <1>4, <1>5, <1>6 DEF IInv, TypeOK

(* An exit leaves the contexts below it, and no end of interrupt is lost. *)
LEMMA DropKeeps ==
    ASSUME IInv, ctx # <<>>, NEW k \in 1 .. Len(ctx) - 1, ctx' = SubSeq(ctx, 1, k),
           \A i \in DOMAIN ctx : i > k => ~Unfinished(ctx[i]) /\ ~LeadsToTask(ctx[i]),
           UNCHANGED <<gCurrentTaskAddr, esp0, isr>>
    PROVE  /\ ctx' \in Seq(ContextType) /\ ctx' # <<>> /\ Len(ctx') = k
           /\ Top' = ctx[k] /\ k \in DOMAIN ctx
           /\ Nesting' /\ FramesOK' /\ OwnersOK' /\ ServiceOrder'
           /\ InServiceIsUnfinished' /\ UserFrameLoaded'
<1>1. /\ TypeOK /\ Nesting /\ FramesOK /\ OwnersOK
      /\ ServiceOrder /\ InServiceIsUnfinished
  BY DEF IInv
<1>2. /\ ctx' \in Seq(ContextType) /\ Len(ctx') = k
      /\ DOMAIN ctx' = 1 .. k /\ DOMAIN ctx = 1 .. Len(ctx) /\ Len(ctx) \in Nat
      /\ k \in Nat /\ 1 <= k /\ k < Len(ctx)
      /\ \A i \in 1 .. k : ctx'[i] = ctx[i]
  BY <1>1 DEF TypeOK
<1>3. \A i \in DOMAIN ctx' : i \in DOMAIN ctx /\ ctx'[i] = ctx[i]
  BY <1>2
<1>4. ctx' # <<>> /\ Top' = ctx[k] /\ k \in DOMAIN ctx
  BY <1>2 DEF Top
<1>5. Nesting'
  <2>1. ASSUME NEW i \in DOMAIN ctx', i > 1  PROVE  i - 1 \in DOMAIN ctx'
    BY <1>2, <2>1
  <2>2. ASSUME NEW i \in DOMAIN ctx', i < k  PROVE  i < Len(ctx)
    BY <1>2, <2>2
  <2> QED  BY <1>1, <1>2, <1>3, <2>1, <2>2 DEF Nesting, ContextOK, Loaded
<1>6. FramesOK'
  BY <1>1, <1>3 DEF FramesOK, FrameBelow, Loaded, Pending
<1>7. OwnersOK'
  <2>1. ASSUME NEW j \in DOMAIN ctx, LeadsToTask(ctx[j])
        PROVE  j \in DOMAIN ctx' /\ LeadsToTask(ctx[j])'
    <3>1. j \in DOMAIN ctx'
      BY <1>2, <2>1
    <3> QED  BY <1>3, <2>1, <3>1 DEF LeadsToTask, Loaded, Pending
  <2> QED  BY <1>1, <1>3, <2>1 DEF OwnersOK, Loaded, Pending
<1>8. ServiceOrder'
  BY <1>1, <1>3 DEF ServiceOrder, Unfinished
<1>9. InServiceIsUnfinished'
  <2>1. ASSUME NEW x
        PROVE  (\E i \in DOMAIN ctx' : Unfinished(ctx'[i]) /\ ctx'[i].src = x)
                 <=> \E i \in DOMAIN ctx : Unfinished(ctx[i]) /\ ctx[i].src = x
    <3>1. \A i \in DOMAIN ctx : Unfinished(ctx[i]) => i \in DOMAIN ctx'
      BY <1>2
    <3> QED  BY <1>3, <3>1
  <2>2. ASSUME NEW x
        PROVE  x \in isr <=> \E i \in DOMAIN ctx : Unfinished(ctx[i]) /\ ctx[i].src = x
    BY <1>1 DEF InServiceIsUnfinished, Unfinished
  <2>3. ASSUME NEW x
        PROVE  x \in isr' <=> \E i \in DOMAIN ctx' : Unfinished(ctx'[i]) /\ ctx'[i].src = x
    BY <2>1, <2>2
  <2>4. isr' = {ctx'[i].src : i \in {j \in DOMAIN ctx' : Unfinished(ctx'[j])}}
    BY ONLY <2>3
  <2> QED  BY ONLY <2>4 DEF InServiceIsUnfinished, Unfinished
<1>10. UserFrameLoaded'
  BY <1>4 DEF UserFrameLoaded
<1> QED  BY <1>2, <1>4, <1>5, <1>6, <1>7, <1>8, <1>9, <1>10

(* An exit into the task whose frame the processor saves to leaves nothing. *)
LEMMA LeaveKeeps ==
    ASSUME IInv, ctx' = <<>>, user' = esp0, gs' = "null",
           \A i \in DOMAIN ctx : ~Unfinished(ctx[i]),
           UNCHANGED <<gCurrentTaskAddr, esp0, isr>>
    PROVE  IInv'
<1>1. TypeOK /\ InServiceIsUnfinished
  BY DEF IInv
<1>2. ctx' \in Seq(ContextType) /\ DOMAIN ctx' = {}
  OBVIOUS
<1>3. isr' = {}
  BY <1>1 DEF InServiceIsUnfinished, Unfinished
<1>4. TypeOK'
  BY <1>1, <1>2, <1>3 DEF TypeOK
<1>5. Nesting' /\ FramesOK' /\ OwnersOK' /\ ServiceOrder'
  BY <1>2 DEF Nesting, FramesOK, OwnersOK, ServiceOrder
<1>6. InServiceIsUnfinished'
  BY <1>2, <1>3 DEF InServiceIsUnfinished
<1>7. GsTells' /\ UserFrameLoaded'
  BY DEF GsTells, UserFrameLoaded
<1> QED  BY <1>4, <1>5, <1>6, <1>7 DEF IInv

(* Return, to a context that is not yet after its `pop gs`. *)
LEMMA ReturnKeeps ==
    ASSUME IInv, Return
    PROVE  IInv'
<1> DEFINE n == Len(ctx)
<1>1. TypeOK /\ Nesting /\ GsTells
  BY DEF IInv
<1>2. /\ ctx # <<>> /\ Top.pc = "compare" /\ Top.slot = 0
      /\ ctx' = SubSeq(ctx, 1, n - 1)
      /\ UNCHANGED <<user, gCurrentTaskAddr, esp0, gs, isr>>
  BY DEF Return, At
<1>3. n \in DOMAIN ctx /\ Top = ctx[n] /\ DOMAIN ctx = 1 .. n /\ n \in Nat
  BY <1>1, <1>2 DEF Top, TypeOK
<1>4. Top.rpl = 0 /\ n > 1
  <2>1. ContextOK(Top) /\ (n = 1 => Top.rpl = 3)
    BY <1>1, <1>3 DEF Nesting
  <2> QED  BY <1>2, <1>3, <2>1 DEF ContextOK
<1>5. ctx[n - 1].pc # "popped"
  BY <1>1, <1>3, <1>4 DEF Nesting
<1>6. ~Unfinished(ctx[n]) /\ ~LeadsToTask(ctx[n])
  BY <1>2, <1>3, <1>4 DEF Unfinished, LeadsToTask, Loaded, Pending
<1>7. n - 1 \in 1 .. Len(ctx) - 1
      /\ \A i \in DOMAIN ctx : i > n - 1 => ~Unfinished(ctx[i]) /\ ~LeadsToTask(ctx[i])
  BY <1>3, <1>4, <1>6
<1>8. /\ ctx' \in Seq(ContextType) /\ ctx' # <<>>
      /\ Top' = ctx[n - 1]
      /\ Nesting' /\ FramesOK' /\ OwnersOK' /\ ServiceOrder'
      /\ InServiceIsUnfinished' /\ UserFrameLoaded'
  BY <1>2, <1>7, DropKeeps
<1>9. GsTells'
  BY <1>1, <1>2, <1>5, <1>8 DEF GsTells
<1> QED  BY <1>1, <1>2, <1>8, <1>9 DEF IInv, TypeOK

(* Iret, to a task or to the exit that was interrupted after its `pop gs`. *)
LEMMA IretKeeps ==
    ASSUME IInv, Iret
    PROVE  IInv'
<1> DEFINE n == Len(ctx)
<1>1. TypeOK /\ Nesting /\ GsTells /\ FramesOK /\ OwnersOK
  BY DEF IInv
<1>2. /\ ctx # <<>> /\ Top.pc = "popped" /\ Resume(Top.frame)
  BY DEF Iret, At
<1>3. n \in DOMAIN ctx /\ Top = ctx[n] /\ Top \in ContextType
      /\ DOMAIN ctx = 1 .. n /\ n \in Nat
  BY <1>1, <1>2 DEF Top, TypeOK
<1>4. gs' = "null" /\ UNCHANGED <<gCurrentTaskAddr, esp0, isr>>
  BY <1>2 DEF Resume
<1>5. Loaded(Top) /\ Top.rpl = 3 /\ ~Pending(Top) /\ ~Unfinished(Top)
  <2>1. ContextOK(Top)
    BY <1>1, <1>3 DEF Nesting
  <2> QED  BY <1>2, <1>3, <2>1 DEF ContextOK, ContextType, Loaded, Pending, Unfinished
<1>6. CASE Top.frame \in Task
  <2>1. ctx' = <<>> /\ user' = Top.frame
    BY <1>2, <1>6 DEF Resume
  <2>2. Top.frame = esp0
    BY <1>1, <1>3, <1>5, <1>6 DEF OwnersOK
  <2>3. \A i \in DOMAIN ctx : ~Unfinished(ctx[i])
    <3>1. \A i \in DOMAIN ctx : i < n => ~Unfinished(ctx[i])
      BY <1>1, <1>3, <1>5, PoppedBelow
    <3> QED  BY <1>3, <1>5, <3>1
  <2> QED  BY <1>4, <2>1, <2>2, <2>3, LeaveKeeps
<1>7. CASE Top.frame \notin Task
  <2>1. Top.frame = n - 1 /\ n > 1
    BY <1>1, <1>3, <1>5, <1>7 DEF FramesOK, FrameBelow
  <2>2. ctx' = SubSeq(ctx, 1, n - 1) /\ user' = user
    BY <1>2, <1>7, <2>1 DEF Resume
  <2>3. ctx[n - 1].pc = "popped"
    BY <1>1, <1>3, <1>5, <2>1 DEF Nesting
  <2>4. ~Unfinished(ctx[n]) /\ ~LeadsToTask(ctx[n])
    BY <1>3, <1>5, <1>7 DEF LeadsToTask
  <2>5. n - 1 \in 1 .. Len(ctx) - 1
        /\ \A i \in DOMAIN ctx : i > n - 1 => ~Unfinished(ctx[i]) /\ ~LeadsToTask(ctx[i])
    BY <1>3, <2>1, <2>4
  <2>6. /\ ctx' \in Seq(ContextType) /\ ctx' # <<>>
        /\ Top' = ctx[n - 1]
        /\ Nesting' /\ FramesOK' /\ OwnersOK' /\ ServiceOrder'
        /\ InServiceIsUnfinished' /\ UserFrameLoaded'
    BY <1>2, <1>4, <2>2, <2>5, DropKeeps
  <2>7. GsTells'
    BY <1>4, <2>3, <2>6 DEF GsTells
  <2> QED  BY <1>1, <1>4, <2>2, <2>6, <2>7 DEF IInv, TypeOK
<1> QED  BY <1>6, <1>7

(* CallReturns: a system call is alone when it returns. *)
LEMMA CallReturnsKeeps ==
    ASSUME IInv, CallReturns
    PROVE  IInv'
<1>1. TypeOK /\ Nesting /\ FramesOK /\ OwnersOK
  BY DEF IInv
<1>2. ctx # <<>> /\ Top.pc = "done" /\ Resume(gCurrentTaskAddr)
  BY DEF CallReturns, At
<1>3. /\ Len(ctx) \in DOMAIN ctx /\ Top = ctx[Len(ctx)] /\ Top \in ContextType
      /\ DOMAIN ctx = 1 .. Len(ctx) /\ Len(ctx) \in Nat
  BY <1>1, <1>2 DEF Top, TypeOK
<1>4. Len(ctx) = 1 /\ Pending(Top) /\ ~Unfinished(Top)
  <2>1. ContextOK(Top) /\ (Top.src = "call" => Len(ctx) = 1)
    BY <1>1, <1>3 DEF Nesting
  <2>2. Top.src = "call"
    BY <1>2, <2>1 DEF ContextOK
  <2> QED  BY <1>2, <1>3, <2>1, <2>2
    DEF ContextOK, ContextType, Irq, Loaded, Pending, Unfinished
<1>5. gCurrentTaskAddr \in Task /\ gCurrentTaskAddr = esp0
  BY <1>1, <1>3, <1>4 DEF FramesOK, FrameBelow, OwnersOK
<1>6. /\ ctx' = <<>> /\ user' = esp0 /\ gs' = "null"
      /\ UNCHANGED <<gCurrentTaskAddr, esp0, isr>>
  BY <1>2, <1>5 DEF Resume
<1>7. \A i \in DOMAIN ctx : ~Unfinished(ctx[i])
  BY <1>3, <1>4
<1> QED  BY <1>6, <1>7, LeaveKeeps

(* A system call is the first context. *)
LEMMA SysCallKeeps ==
    ASSUME IInv, SysCallHandlerEntry
    PROVE  IInv'
<1> DEFINE c == Context("call", 3)
<1>1. /\ ctx = <<>> /\ ctx' = <<c>> /\ gCurrentTaskAddr' = esp0 /\ gs' = "video"
      /\ UNCHANGED <<user, esp0, isr>>
      /\ TypeOK /\ InServiceIsUnfinished
  BY DEF SysCallHandlerEntry, IInv
<1>2. /\ c.src = "call" /\ c.rpl = 3 /\ c.slot = 3 /\ c.pc = "handle" /\ c.frame = 0
      /\ c \in ContextType
  BY DEF Context, ContextType
<1> HIDE DEF c
<1>3. /\ ctx' \in Seq(ContextType) /\ Len(ctx') = 1 /\ ctx'[1] = c /\ DOMAIN ctx' = {1}
      /\ Top' = c /\ ctx' # <<>>
  BY <1>1, <1>2 DEF Top
<1>4. isr' = {}
  <2>1. DOMAIN ctx = {}
    BY <1>1
  <2> QED  BY <1>1, <2>1 DEF InServiceIsUnfinished
<1>5. TypeOK'
  BY <1>1, <1>3 DEF TypeOK
<1>6. Nesting' /\ GsTells'
  BY <1>1, <1>2, <1>3 DEF Nesting, ContextOK, GsTells, Loaded, Irq
<1>7. FramesOK' /\ OwnersOK'
  BY <1>1, <1>2, <1>3 DEF FramesOK, FrameBelow, OwnersOK, Loaded, Pending, TypeOK
<1>8. ServiceOrder' /\ InServiceIsUnfinished'
  BY <1>2, <1>3, <1>4 DEF ServiceOrder, Unfinished, InServiceIsUnfinished, Irq
<1>9. UserFrameLoaded'
  BY <1>3 DEF UserFrameLoaded
<1> QED  BY <1>5, <1>6, <1>7, <1>8, <1>9 DEF IInv

(* What an interrupt pushes may overwrite the slot of the context it meets, *)
(* which was entered from a task, and adds a context of its own.            *)
LEMMA InterruptAdds ==
    ASSUME IInv, NEW irq \in Irq, Interrupt(irq), NEW n, n = Len(ctx)
    PROVE  /\ ctx' \in Seq(ContextType) /\ Len(ctx') = n + 1 /\ n \in Nat
           /\ DOMAIN ctx' = 1 .. n + 1 /\ DOMAIN ctx = 1 .. n /\ ctx' # <<>>
           /\ Top' = ctx'[n + 1]
           /\ ctx'[n + 1].src = irq /\ ctx'[n + 1].pc = "handle"
           /\ ctx'[n + 1].rpl = IF gs = "null" THEN 3 ELSE 0
           /\ ctx'[n + 1].slot = ctx'[n + 1].rpl
           /\ \A i \in DOMAIN ctx :
                /\ ctx'[i].src = ctx[i].src /\ ctx'[i].rpl = ctx[i].rpl
                /\ ctx'[i].pc = ctx[i].pc /\ ctx'[i].frame = ctx[i].frame
                /\ ctx[i].rpl = 3
                /\ ctx'[i].slot = 0 <=> ctx[i].slot = 0
<1> DEFINE saved == IF At("compare") THEN [ctx EXCEPT ![Len(ctx)].slot = Eflags] ELSE ctx
           c == Context(irq, IF gs = "null" THEN 3 ELSE 0)
<1>1. TypeOK /\ Nesting
  BY DEF IInv
<1>2. ctx' = Append(saved, c) /\ (ctx # <<>> => Top.rpl = 3)
  BY DEF Interrupt, IF9
<1>3. /\ c.src = irq /\ c.pc = "handle" /\ c.rpl = (IF gs = "null" THEN 3 ELSE 0)
      /\ c.slot = c.rpl /\ c \in ContextType
  BY DEF Context, ContextType
<1>4. DOMAIN ctx = 1 .. n /\ n \in Nat
  BY <1>1 DEF TypeOK
<1>5. ASSUME NEW i \in DOMAIN ctx
      PROVE  ctx[i].rpl = 3 /\ ctx[i].slot # 0 /\ ctx[i] \in ContextType
  <2>1. ContextOK(ctx[i]) /\ (i < n => ctx[i].rpl = 3) /\ ctx[i] \in ContextType
    BY <1>1 DEF Nesting, TypeOK
  <2>2. ctx # <<>>
    BY <1>4
  <2>3. ctx[i].rpl = 3
    BY <1>2, <1>4, <2>1, <2>2 DEF Top
  <2> QED  BY <2>1, <2>3 DEF ContextOK
<1>6. /\ saved \in Seq(ContextType) /\ Len(saved) = n
      /\ \A i \in DOMAIN ctx :
           /\ saved[i].src = ctx[i].src /\ saved[i].rpl = ctx[i].rpl
           /\ saved[i].pc = ctx[i].pc /\ saved[i].frame = ctx[i].frame
           /\ saved[i].slot # 0
  <2>1. CASE At("compare")
    <3> DEFINE d == [ctx[n] EXCEPT !.slot = Eflags]
    <3>1. ctx # <<>> /\ n \in DOMAIN ctx
      BY <1>1, <1>4, <2>1 DEF At, TypeOK
    <3>2. saved = [ctx EXCEPT ![n] = d]
      BY <2>1
    <3>3. /\ d \in ContextType /\ d.src = ctx[n].src /\ d.rpl = ctx[n].rpl
          /\ d.pc = ctx[n].pc /\ d.frame = ctx[n].frame /\ d.slot # 0
      BY <1>5, <3>1 DEF ContextType, Eflags
    <3> HIDE DEF saved, d
    <3>4. /\ saved \in Seq(ContextType) /\ Len(saved) = n /\ saved[n] = d
          /\ \A i \in DOMAIN ctx : i # n => saved[i] = ctx[i]
      BY <1>1, <3>1, <3>2, <3>3 DEF TypeOK
    <3> QED  BY <1>5, <3>3, <3>4
  <2>2. CASE ~At("compare")
    <3>1. saved = ctx
      BY <2>2
    <3> QED  BY <1>1, <1>5, <3>1 DEF TypeOK
  <2> QED  BY <2>1, <2>2
<1> HIDE DEF saved, c
<1>7. /\ ctx' \in Seq(ContextType) /\ Len(ctx') = n + 1 /\ DOMAIN ctx' = 1 .. n + 1
      /\ ctx'[n + 1] = c
      /\ \A i \in 1 .. n : ctx'[i] = saved[i]
  BY <1>2, <1>3, <1>4, <1>6
<1>8. ctx' # <<>> /\ Top' = ctx'[n + 1]
  BY <1>4, <1>7 DEF Top
<1> QED  BY <1>3, <1>4, <1>5, <1>6, <1>7, <1>8

(* Entry of an interrupt. *)
LEMMA InterruptKeeps ==
    ASSUME IInv, NEW irq \in Irq, Interrupt(irq)
    PROVE  IInv'
<1> DEFINE n == Len(ctx)
<1>1. /\ TypeOK /\ Nesting /\ GsTells /\ FramesOK /\ OwnersOK
      /\ ServiceOrder /\ InServiceIsUnfinished
  BY DEF IInv
<1>2. /\ Requests(irq) /\ gs' = "video" /\ isr' = isr \cup {irq}
      /\ UNCHANGED <<user, esp0>>
      /\ gs # "null" => gCurrentTaskAddr' = gCurrentTaskAddr
      /\ gs = "null" /\ ctx = <<>> => gCurrentTaskAddr' = esp0
      /\ gs = "null" /\ ctx # <<>> => gCurrentTaskAddr' = n
  BY DEF Interrupt
<1>3. /\ ctx' \in Seq(ContextType) /\ Len(ctx') = n + 1 /\ n \in Nat
      /\ DOMAIN ctx' = 1 .. n + 1 /\ DOMAIN ctx = 1 .. n /\ ctx' # <<>>
      /\ Top' = ctx'[n + 1]
      /\ ctx'[n + 1].src = irq /\ ctx'[n + 1].pc = "handle"
      /\ ctx'[n + 1].rpl = (IF gs = "null" THEN 3 ELSE 0)
      /\ ctx'[n + 1].slot = ctx'[n + 1].rpl
  BY InterruptAdds
<1>4. ASSUME NEW i \in DOMAIN ctx
      PROVE  /\ ctx'[i].src = ctx[i].src /\ ctx'[i].rpl = ctx[i].rpl
             /\ ctx'[i].pc = ctx[i].pc /\ ctx'[i].frame = ctx[i].frame
             /\ ctx[i].rpl = 3
             /\ ctx'[i].slot = 0 <=> ctx[i].slot = 0
             /\ i \in DOMAIN ctx' /\ i # n + 1
  BY <1>3, InterruptAdds
<1>5. ASSUME NEW i \in DOMAIN ctx'
      PROVE  i = n + 1 \/ i \in DOMAIN ctx
  BY <1>3
<1>6. gs = "null" => gCurrentTaskAddr' = esp0 \/ (gCurrentTaskAddr' = n /\ n \notin Task /\ n > 0)
  BY <1>1, <1>2, <1>3, TaskAssumption DEF TypeOK
<1>7. TypeOK'
  <2>1. gCurrentTaskAddr' \in Task \cup Nat
    BY <1>1, <1>2, <1>3, <1>6 DEF TypeOK
  <2> QED  BY <1>1, <1>2, <1>3, <2>1 DEF TypeOK
<1>8. ctx # <<>> => (ctx'[n + 1].rpl = 3 <=> ctx'[n].pc = "popped")
  <2>1. ASSUME ctx # <<>>  PROVE  n \in DOMAIN ctx /\ Top = ctx[n]
    BY <1>1, <1>3, <2>1 DEF Top, TypeOK
  <2> QED  BY <1>1, <1>3, <1>4, <2>1 DEF GsTells
<1>9. Nesting'
  <2>1. ASSUME NEW i \in DOMAIN ctx
        PROVE  /\ ContextOK(ctx'[i])
               /\ i > 1 => (ctx'[i].rpl = 3 <=> ctx'[i - 1].pc = "popped")
               /\ ctx'[i].src = "call" => i = 1
               /\ ctx'[i].rpl = 3
    <3>1. ContextOK(ctx'[i])
      BY <1>1, <1>4 DEF Nesting, ContextOK, Loaded
    <3>2. i > 1 => (ctx'[i].rpl = 3 <=> ctx'[i - 1].pc = "popped")
      <4>1. i > 1 => i - 1 \in DOMAIN ctx
        BY <1>3
      <4> QED  BY <1>1, <1>4, <4>1 DEF Nesting
    <3> QED  BY <1>1, <1>4, <3>1, <3>2 DEF Nesting
  <2>2. /\ ContextOK(ctx'[n + 1])
        /\ ctx'[n + 1].src # "call"
        /\ n + 1 = 1 => ctx'[n + 1].rpl = 3
        /\ n + 1 > 1 => (ctx'[n + 1].rpl = 3 <=> ctx'[(n + 1) - 1].pc = "popped")
    <3>1. n + 1 = 1 => ctx = <<>>
      BY <1>1, <1>3 DEF TypeOK
    <3>2. n + 1 > 1 => ctx # <<>> /\ (n + 1) - 1 = n
      BY <1>1, <1>3 DEF TypeOK
    <3>3. n + 1 = 1 => ctx'[n + 1].rpl = 3
      BY <1>1, <1>3, <3>1 DEF GsTells
    <3>4. ContextOK(ctx'[n + 1])
      BY <1>3 DEF ContextOK, Irq, Loaded
    <3> QED  BY <1>3, <1>8, <3>2, <3>3, <3>4 DEF Irq
  <2>3. ASSUME NEW i \in DOMAIN ctx'
        PROVE  /\ ContextOK(ctx[i])'
               /\ i < Len(ctx') => ctx'[i].rpl = 3
               /\ i = 1 => ctx'[i].rpl = 3
               /\ i > 1 => (ctx'[i].rpl = 3 <=> ctx'[i - 1].pc = "popped")
               /\ ctx'[i].src = "call" => i = 1
    <3>1. CASE i \in DOMAIN ctx
      BY <2>1, <3>1 DEF ContextOK, Loaded
    <3>2. CASE i = n + 1
      BY <1>3, <2>2, <3>2 DEF ContextOK, Loaded
    <3> QED  BY <1>5, <3>1, <3>2
  <2> QED  BY <2>3 DEF Nesting
<1>10. GsTells' /\ UserFrameLoaded'
  BY <1>2, <1>3 DEF GsTells, UserFrameLoaded
<1>11. ~Loaded(ctx'[n + 1]) /\ (Pending(ctx'[n + 1]) => gs = "null")
  BY <1>3 DEF Loaded, Pending
<1>12. ASSUME NEW i \in DOMAIN ctx
       PROVE  /\ Loaded(ctx'[i]) <=> Loaded(ctx[i])
              /\ Pending(ctx'[i]) <=> Pending(ctx[i])
              /\ Unfinished(ctx'[i]) <=> Unfinished(ctx[i])
              /\ gs = "null" => ~Pending(ctx[i])
  <2>1. ASSUME gs = "null"  PROVE  ~Pending(ctx[i])
    <3>1. Nesting' /\ TypeOK' /\ i \in DOMAIN ctx' /\ n + 1 \in DOMAIN ctx'
          /\ i < n + 1 /\ ctx'[n + 1].rpl = 3
      BY <1>3, <1>4, <1>7, <1>9, <2>1
    <3>2. ctx # <<>> /\ n \in DOMAIN ctx /\ Top = ctx[n] /\ Top.pc = "popped"
      BY <1>1, <1>3, <2>1 DEF GsTells, Top, TypeOK
    <3>3. CASE i = n
      BY <3>2, <3>3 DEF Pending, Loaded
    <3>4. CASE i # n
      BY <1>1, <1>3, <1>4, <3>2, <3>4, PoppedBelow
    <3> QED  BY <3>3, <3>4
  <2> QED  BY <1>4, <2>1 DEF Loaded, Pending, Unfinished
<1>13. FramesOK'
  <2>1. ASSUME NEW i \in DOMAIN ctx'
        PROVE  /\ Loaded(ctx[i])' => FrameBelow(ctx'[i].frame, i)
               /\ Pending(ctx[i])' => FrameBelow(gCurrentTaskAddr', i)
    <3>1. CASE i \in DOMAIN ctx
      BY <1>1, <1>2, <1>4, <1>12, <3>1 DEF FramesOK, FrameBelow, Loaded, Pending
    <3>2. CASE i = n + 1
      BY <1>1, <1>3, <1>6, <1>11, <3>2 DEF FrameBelow, Loaded, Pending, TypeOK
    <3> QED  BY <1>5, <3>1, <3>2
  <2> QED  BY <2>1 DEF FramesOK, FrameBelow
<1>14. OwnersOK'
  <2>1. ASSUME NEW j \in DOMAIN ctx, LeadsToTask(ctx[j])
        PROVE  j \in DOMAIN ctx' /\ LeadsToTask(ctx[j])'
    BY <1>2, <1>4, <1>12, <2>1 DEF LeadsToTask, Loaded, Pending
  <2>2. ASSUME NEW i \in DOMAIN ctx'
        PROVE  /\ Pending(ctx[i])' /\ gCurrentTaskAddr' \in Task => gCurrentTaskAddr' = esp0'
               /\ Loaded(ctx[i])' /\ ctx'[i].frame \in Task =>
                    \/ ctx'[i].frame = esp0'
                    \/ \E j \in DOMAIN ctx' : j > i /\ LeadsToTask(ctx[j])'
    <3>1. CASE i \in DOMAIN ctx
      <4>1. Pending(ctx[i])' /\ gCurrentTaskAddr' \in Task => gCurrentTaskAddr' = esp0'
        BY <1>1, <1>2, <1>12, <3>1 DEF OwnersOK, Loaded, Pending
      <4>2. ASSUME Loaded(ctx[i])', ctx'[i].frame \in Task
            PROVE  \/ ctx'[i].frame = esp0'
                   \/ \E j \in DOMAIN ctx' : j > i /\ LeadsToTask(ctx[j])'
        <5>1. Loaded(ctx[i]) /\ ctx[i].frame \in Task
          BY <1>4, <3>1, <4>2 DEF Loaded
        <5>2. ctx[i].frame = esp0 \/ \E j \in DOMAIN ctx : j > i /\ LeadsToTask(ctx[j])
          BY <1>1, <3>1, <5>1 DEF OwnersOK
        <5> QED  BY <1>2, <1>4, <2>1, <3>1, <5>2
      <4> QED  BY <4>1, <4>2
    <3>2. CASE i = n + 1
      BY <1>2, <1>6, <1>11, <3>2 DEF Loaded, Pending
    <3> QED  BY <1>5, <3>1, <3>2
  <2> QED  BY <2>2 DEF OwnersOK
<1>15. Unfinished(ctx'[n + 1])
  BY <1>3 DEF Unfinished
<1>16. ASSUME NEW x
       PROVE  x \in isr <=> \E i \in DOMAIN ctx : Unfinished(ctx[i]) /\ ctx[i].src = x
  BY <1>1 DEF InServiceIsUnfinished, Unfinished
<1>17. InServiceIsUnfinished'
  <2>1. ASSUME NEW x
        PROVE  x \in isr' <=> \E i \in DOMAIN ctx' : Unfinished(ctx'[i]) /\ ctx'[i].src = x
    <3>1. n + 1 \in DOMAIN ctx'
      BY <1>3
    <3> QED  BY <1>2, <1>3, <1>4, <1>5, <1>12, <1>15, <1>16, <3>1
  <2> QED  BY <2>1 DEF InServiceIsUnfinished, Unfinished
<1>18. ServiceOrder'
  <2>1. ASSUME NEW i \in DOMAIN ctx, Unfinished(ctx[i])
        PROVE  ctx[i].src = "keyboard" /\ irq = "timer"
    <3>1. ctx[i].src \in isr /\ ctx[i].src \in Irq
      BY <1>16, <2>1 DEF Unfinished
    <3> QED  BY <1>2, <3>1 DEF Requests, Irq
  <2>2. ASSUME NEW i \in DOMAIN ctx', NEW j \in DOMAIN ctx', i < j,
               Unfinished(ctx'[i]), Unfinished(ctx'[j])
        PROVE  ctx'[i].src = "keyboard" /\ ctx'[j].src = "timer"
    <3>1. i \in DOMAIN ctx
      BY <1>3, <2>2
    <3>2. CASE j = n + 1
      BY <1>3, <1>4, <1>12, <2>1, <2>2, <3>1, <3>2
    <3>3. CASE j \in DOMAIN ctx
      BY <1>1, <1>4, <1>12, <2>2, <3>1, <3>3 DEF ServiceOrder
    <3> QED  BY <1>5, <3>2, <3>3
  <2> QED  BY <2>2 DEF ServiceOrder, Unfinished
<1> QED  BY <1>7, <1>9, <1>10, <1>13, <1>14, <1>17, <1>18 DEF IInv

-----------------------------------------------------------------------------
LEMMA InterruptStep == IInv /\ [Next]_vars => IInv'
<1> SUFFICES ASSUME IInv, [Next]_vars  PROVE  IInv'
  OBVIOUS
<1>1. ASSUME NEW irq \in Irq, Interrupt(irq)  PROVE  IInv'
  BY <1>1, InterruptKeeps
<1>2. CASE SysCallHandlerEntry
  BY <1>2, SysCallKeeps
<1>3. CASE TimerHandler
  BY <1>3, TimerKeeps
<1>4. CASE KeyBoardHandler \/ PopGs
  BY <1>4, MoveKeeps
<1>5. CASE EndOfInterrupt
  BY <1>5, EndKeeps
<1>6. CASE Return
  BY <1>6, ReturnKeeps
<1>7. CASE LoadFrame
  BY <1>7, LoadFrameKeeps
<1>8. CASE Iret
  BY <1>8, IretKeeps
<1>9. ASSUME NEW t \in Task, CallWorks(t)  PROVE  IInv'
  BY <1>9, CallWorksKeeps
<1>10. CASE CallReturns
  BY <1>10, CallReturnsKeeps
<1>11. CASE UNCHANGED vars
  BY <1>11 DEF vars, IInv, TypeOK, Nesting, ContextOK, GsTells, Top, FramesOK, FrameBelow,
       OwnersOK, LeadsToTask, Loaded, Pending, Unfinished, ServiceOrder,
       InServiceIsUnfinished, UserFrameLoaded
<1> QED  BY <1>1, <1>2, <1>3, <1>4, <1>5, <1>6, <1>7, <1>8, <1>9, <1>10, <1>11 DEF Next

(* The invariant: it relates how contexts nest, the frames they will load   *)
(* and the requests in service.                                             *)
THEOREM InterruptInvariant == Spec => []IInv
<1>1. Init => IInv
  BY InitEstablishes
<1>2. IInv /\ [Next]_vars => IInv'
  BY InterruptStep
<1> QED  BY <1>1, <1>2, PTL DEF Spec

(* However interrupts nest, user code runs only in the task whose frame the *)
(* processor will save to (ihandler.asm:144-157, PrepareForRun).            *)
THEOREM FramesAreLoaded == Spec => []UserFrameLoaded
<1>1. IInv => UserFrameLoaded
  BY DEF IInv
<1> QED  BY <1>1, InterruptInvariant, PTL

(* The word an exit compares below its stack pointer tells how the context  *)
(* was entered, though an interrupt may overwrite it (ihandler.asm:137-143).*)
THEOREM SlotsTellLevels == Spec => []SlotTellsLevel
<1>1. IInv => SlotTellsLevel
  BY DEF IInv, Nesting, ContextOK, SlotTellsLevel
<1> QED  BY <1>1, InterruptInvariant, PTL

(* Every end of interrupt clears the request it answers (SendEOI).          *)
THEOREM EndsAnswerTheirRequests == Spec => []InServiceIsUnfinished
<1>1. IInv => InServiceIsUnfinished
  BY DEF IInv
<1> QED  BY <1>1, InterruptInvariant, PTL

(* No interrupt switches tasks under a system call (TimerHandler's RPL).    *)
THEOREM CallsAreUndisturbed == Spec => CallIsUndisturbed
<1> DEFINE Undisturbed ==
        ctx # <<>> /\ ctx[1].src = "call" /\ Top.src # "call"
            => UNCHANGED <<gCurrentTaskAddr, esp0>>
<1>1. ASSUME IInv, [Next]_vars, ctx # <<>>, ctx[1].src = "call", Top.src # "call"
      PROVE  UNCHANGED <<gCurrentTaskAddr, esp0>>
  <2>1. TypeOK /\ Nesting /\ GsTells
    BY <1>1 DEF IInv
  <2>2. /\ DOMAIN ctx = 1 .. Len(ctx) /\ Len(ctx) \in Nat /\ 1 \in DOMAIN ctx
        /\ Len(ctx) \in DOMAIN ctx /\ Top = ctx[Len(ctx)]
    BY <1>1, <2>1 DEF TypeOK, Top
  <2>3. ctx[1].pc # "popped"
    BY <1>1, <2>1, <2>2 DEF Nesting, ContextOK
  <2>4. Top.rpl = 0
    <3>1. Len(ctx) > 1
      BY <1>1, <2>2
    <3>2. Top.rpl \in {0, 3}
      <4>1. Top \in ContextType
        BY <2>1, <2>2 DEF TypeOK
      <4> QED  BY <4>1 DEF ContextType
    <3>3. Top.rpl # 3
      <4>1. ASSUME Top.rpl = 3  PROVE  FALSE
        BY <2>1, <2>2, <2>3, <3>1, <4>1, PoppedBelow
      <4> QED  BY <4>1
    <3> QED  BY <3>2, <3>3
  <2>5. Top.slot = 0 /\ ~IF9 /\ ctx # <<>> /\ ~FromUser(Top.slot)
    BY <1>1, <2>1, <2>2, <2>4 DEF Nesting, ContextOK, IF9, FromUser
  <2>6. CASE TimerHandler
    BY <2>5, <2>6 DEF TimerHandler
  <2>7. CASE \E irq \in Irq : Interrupt(irq)
    BY <2>5, <2>7 DEF Interrupt
  <2>8. CASE SysCallHandlerEntry
    BY <1>1, <2>8 DEF SysCallHandlerEntry
  <2>9. CASE KeyBoardHandler \/ EndOfInterrupt \/ Return \/ LoadFrame \/ PopGs
    BY <2>9 DEF KeyBoardHandler, EndOfInterrupt, Return, LoadFrame, PopGs
  <2>10. CASE Iret \/ CallReturns
    BY <2>10 DEF Iret, CallReturns, Resume
  <2>11. CASE \E t \in Task : CallWorks(t)
    BY <1>1, <2>11 DEF CallWorks
  <2>12. CASE UNCHANGED vars
    BY <2>12 DEF vars
  <2> QED  BY <1>1, <2>6, <2>7, <2>8, <2>9, <2>10, <2>11, <2>12 DEF Next
<1>2. IInv /\ [Next]_vars => [Undisturbed]_vars
  BY <1>1 DEF vars
<1> QED  BY <1>2, InterruptInvariant, PTL DEF Spec, CallIsUndisturbed
=============================================================================
