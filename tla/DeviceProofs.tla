----------------------------- MODULE DeviceProofs -----------------------------
(* Proofs about the two devices of the console: the text screen, for every  *)
(* size of it and of video memory, and the keyboard, for every set of keys  *)
(* that send the scan codes of set 1 and any number of keys and key codes.  *)
EXTENDS Screen, Keyboard, SequenceTheorems, TLAPS

-----------------------------------------------------------------------------
(* The screen.  Its inductive invariant: both properties, and SCREEN_POS is *)
(* a number, as the arithmetic of ScrollUp needs.                           *)
IInv ==
    /\ width \in 0 .. SCREEN_WIDTH - 1 /\ height \in 0 .. SCREEN_HEIGHT - 1
    /\ SCREEN_POS \in Nat
    /\ (SCREEN_POS + SCREEN_HEIGHT) * SCREEN_WIDTH <= SCREEN_CELLS
    /\ HardwareFollows

(* What ScrollUp leaves in SCREEN_POS: the next row if it fits, or zero.    *)
LEMMA ScrolledFits ==
    ASSUME NEW pos \in Nat
    PROVE  /\ ScrolledPos(pos) \in Nat
           /\ (ScrolledPos(pos) + SCREEN_HEIGHT) * SCREEN_WIDTH <= SCREEN_CELLS
<1>1. CASE Fits(pos)
  <2>1. pos * SCREEN_WIDTH + SCREEN_HEIGHT * SCREEN_WIDTH = (pos + SCREEN_HEIGHT) * SCREEN_WIDTH
    BY ScreenAssumption, SMT
  <2> QED BY <1>1, <2>1, ScreenAssumption, SMT DEF ScrolledPos, Fits
<1>2. CASE ~ Fits(pos)
  <2>1. (SCREEN_HEIGHT + 2) * SCREEN_WIDTH = SCREEN_HEIGHT * SCREEN_WIDTH + 2 * SCREEN_WIDTH
    BY ScreenAssumption, SMT
  <2>2. SCREEN_HEIGHT * SCREEN_WIDTH \in Nat
    BY ScreenAssumption, SMT
  <2> QED BY <1>2, <2>1, <2>2, ScreenAssumption, SMT DEF ScrolledPos
<1> QED BY <1>1, <1>2

(* The end of a row leaves the position at the start of a row on the screen *)
(* and the start address at the first visible row.                          *)
LEMMA NextRowKeeps ==
    ASSUME IInv, NEW mem, NextRow(mem)
    PROVE  /\ width' \in 0 .. SCREEN_WIDTH - 1 /\ height' \in 0 .. SCREEN_HEIGHT - 1
           /\ SCREEN_POS' \in Nat
           /\ (SCREEN_POS' + SCREEN_HEIGHT) * SCREEN_WIDTH <= SCREEN_CELLS
           /\ start' = SCREEN_POS' * SCREEN_WIDTH
<1>1. CASE height + 1 = SCREEN_HEIGHT
  <2>1. SCREEN_POS + 1 \in Nat
    BY DEF IInv
  <2>2. SCREEN_POS' = ScrolledPos(SCREEN_POS + 1) /\ start' = SCREEN_POS' * SCREEN_WIDTH
    BY <1>1 DEF NextRow, ScrollUp
  <2>3. SCREEN_POS' \in Nat /\ (SCREEN_POS' + SCREEN_HEIGHT) * SCREEN_WIDTH <= SCREEN_CELLS
    BY <2>1, <2>2, ScrolledFits
  <2>4. width' = 0 /\ height' = height
    BY <1>1 DEF NextRow
  <2> QED BY <2>2, <2>3, <2>4, ScreenAssumption DEF IInv
<1>2. CASE height + 1 # SCREEN_HEIGHT
  <2>1. width' = 0 /\ height' = height + 1 /\ SCREEN_POS' = SCREEN_POS /\ start' = start
    BY <1>2 DEF NextRow
  <2> QED BY <1>2, <2>1, ScreenAssumption DEF IInv, HardwareFollows
<1> QED BY <1>1, <1>2

(* No operation takes the position off the screen or the visible rows out   *)
(* of memory.                                                               *)
LEMMA StepKeeps == IInv /\ [Next]_vars => IInv'
<1> SUFFICES ASSUME IInv, [Next]_vars PROVE IInv'
  OBVIOUS
<1>1. ASSUME NEW c \in Char, Putchar(c) PROVE IInv'
  <2> DEFINE mem == [vram EXCEPT ![(height + SCREEN_POS) * SCREEN_WIDTH + width] = c]
  <2>1. cursor' = (height' + SCREEN_POS') * SCREEN_WIDTH + width'
    BY <1>1 DEF Putchar, SetCursorPos
  <2>2. CASE width + 1 = SCREEN_WIDTH
    <3>1. NextRow(mem)
      BY <1>1, <2>2 DEF Putchar
    <3> QED BY <2>1, <3>1, NextRowKeeps DEF IInv, HardwareFollows
  <2>3. CASE width + 1 # SCREEN_WIDTH
    <3>1. width' = width + 1 /\ UNCHANGED <<SCREEN_POS, height, start>>
      BY <1>1, <2>3 DEF Putchar
    <3> QED BY <2>1, <2>3, <3>1, ScreenAssumption DEF IInv, HardwareFollows
  <2> QED BY <2>2, <2>3
<1>2. CASE LineFeed
  <2>1. NextRow(vram) /\ cursor' = (height' + SCREEN_POS') * SCREEN_WIDTH + width'
    BY <1>2 DEF LineFeed, SetCursorPos
  <2> QED BY <2>1, NextRowKeeps DEF IInv, HardwareFollows
<1>3. ASSUME NEW w \in 0 .. SCREEN_WIDTH - 1, NEW h \in 0 .. SCREEN_HEIGHT - 1, SetPrintPos(w, h)
      PROVE IInv'
  <2>1. /\ width' = w /\ height' = h /\ SCREEN_POS' = SCREEN_POS /\ start' = start
        /\ cursor' = (h + SCREEN_POS') * SCREEN_WIDTH + w
    BY <1>3 DEF SetPrintPos, SetCursorPos
  <2> QED BY <2>1 DEF IInv, HardwareFollows
<1>4. CASE ClearScreen
  <2>1. /\ SCREEN_POS' = ScrolledPos(SCREEN_POS + 1) /\ start' = SCREEN_POS' * SCREEN_WIDTH
        /\ width' = 0 /\ height' = 0 /\ cursor' = (0 + SCREEN_POS') * SCREEN_WIDTH + 0
    BY <1>4 DEF ClearScreen, ScrollUp, SetCursorPos
  <2>2. SCREEN_POS + 1 \in Nat
    BY DEF IInv
  <2>3. SCREEN_POS' \in Nat /\ (SCREEN_POS' + SCREEN_HEIGHT) * SCREEN_WIDTH <= SCREEN_CELLS
    BY <2>1, <2>2, ScrolledFits
  <2> QED BY <2>1, <2>3, ScreenAssumption DEF IInv, HardwareFollows
<1>5. CASE UNCHANGED vars
  BY <1>5 DEF vars, IInv, HardwareFollows
<1> QED BY <1>1, <1>2, <1>3, <1>4, <1>5 DEF Next

(* The boot screen fits: InitEstablishes and StepKeeps make IInv inductive. *)
LEMMA InitEstablishes == Init => IInv
<1> SUFFICES ASSUME Init PROVE IInv
  OBVIOUS
<1>1. SCREEN_HEIGHT * SCREEN_WIDTH <= SCREEN_CELLS
  <2>1. (SCREEN_HEIGHT + 2) * SCREEN_WIDTH = SCREEN_HEIGHT * SCREEN_WIDTH + 2 * SCREEN_WIDTH
    BY ScreenAssumption, SMT
  <2>2. SCREEN_HEIGHT * SCREEN_WIDTH \in Nat
    BY ScreenAssumption, SMT
  <2> QED BY <2>1, <2>2, ScreenAssumption, SMT
<1> QED BY <1>1, ScreenAssumption, SMT DEF Init, IInv, HardwareFollows

(* For every screen and memory size, the visible rows lie in video memory   *)
(* and the position on the screen.                                          *)
THEOREM StaysVisible == Spec => []VisibleInMemory
<1>1. IInv => VisibleInMemory
  BY DEF IInv, VisibleInMemory
<1> QED BY InitEstablishes, StepKeeps, <1>1, PTL DEF Spec

(* The start address and the hardware cursor always agree with SCREEN_POS   *)
(* and the position, however putchar and ScrollUp got there.                *)
THEOREM RegistersFollow == Spec => []HardwareFollows
<1>1. IInv => HardwareFollows
  BY DEF IInv
<1> QED BY InitEstablishes, StepKeeps, <1>1, PTL DEF Spec

-----------------------------------------------------------------------------
(* The visible part of a video memory. *)
View(mem, pos) ==
    [r \in 0 .. SCREEN_HEIGHT - 1 |->
        [k \in 0 .. SCREEN_WIDTH - 1 |-> mem[(pos + r) * SCREEN_WIDTH + k]]]

Row == [0 .. SCREEN_WIDTH - 1 -> Char]

(* A cell of a row comes before every cell of a later row. *)
LEMMA RowBefore ==
    ASSUME NEW a \in Nat, NEW b \in Nat, a < b, NEW k \in 0 .. SCREEN_WIDTH - 1
    PROVE  a * SCREEN_WIDTH + k \in Nat /\ a * SCREEN_WIDTH + k < b * SCREEN_WIDTH
<1> DEFINE d == b - (a + 1)
<1>1. d \in Nat /\ b = a + 1 + d
  OBVIOUS
<1>2. SCREEN_WIDTH \in Nat /\ k \in Nat /\ k < SCREEN_WIDTH
  BY ScreenAssumption
<1> HIDE DEF d
<1>3. a * SCREEN_WIDTH \in Nat /\ d * SCREEN_WIDTH \in Nat
  BY <1>1, <1>2, SMT
<1>4. (a + 1 + d) * SCREEN_WIDTH = a * SCREEN_WIDTH + SCREEN_WIDTH + d * SCREEN_WIDTH
  BY <1>1, <1>2, SMT
<1> QED  BY <1>1, <1>2, <1>3, <1>4, SMT

(* A cell belongs to one row and one column. *)
LEMMA CellInjective ==
    ASSUME NEW a \in Nat, NEW b \in Nat,
           NEW k \in 0 .. SCREEN_WIDTH - 1, NEW w \in 0 .. SCREEN_WIDTH - 1,
           a * SCREEN_WIDTH + k = b * SCREEN_WIDTH + w
    PROVE  a = b /\ k = w
<1>1. a * SCREEN_WIDTH \in Int /\ b * SCREEN_WIDTH \in Int
  BY ScreenAssumption
<1>2. ~ (a < b)
  BY <1>1, RowBefore
<1>3. ~ (b < a)
  BY <1>1, RowBefore
<1>4. a = b
  BY <1>2, <1>3
<1> QED  BY <1>1, <1>4

(* Every visible cell lies in video memory. *)
LEMMA VisibleCell ==
    ASSUME NEW pos \in Nat, (pos + SCREEN_HEIGHT) * SCREEN_WIDTH <= SCREEN_CELLS,
           NEW r \in 0 .. SCREEN_HEIGHT - 1, NEW k \in 0 .. SCREEN_WIDTH - 1
    PROVE  /\ (pos + r) * SCREEN_WIDTH + k \in Cells
           /\ (pos + r) * SCREEN_WIDTH + k < SCREEN_CELLS
<1>1. pos + r \in Nat /\ pos + SCREEN_HEIGHT \in Nat /\ pos + r < pos + SCREEN_HEIGHT
  BY ScreenAssumption
<1>2. /\ (pos + r) * SCREEN_WIDTH + k \in Nat
      /\ (pos + r) * SCREEN_WIDTH + k < (pos + SCREEN_HEIGHT) * SCREEN_WIDTH
  BY <1>1, RowBefore
<1>3. /\ (pos + SCREEN_HEIGHT) * SCREEN_WIDTH \in Nat
      /\ SCREEN_CELLS \in Nat /\ SCREEN_WIDTH \in Nat \ {0}
  BY ScreenAssumption, SMT
<1> HIDE DEF Cells
<1>4. (pos + r) * SCREEN_WIDTH + k < SCREEN_CELLS
  BY <1>2, <1>3, SMT
<1> QED  BY <1>2, <1>3, <1>4, SMT DEF Cells

(* The visible part of a memory of characters is a grid of characters. *)
LEMMA ViewIsGrid ==
    ASSUME NEW pos \in Nat, (pos + SCREEN_HEIGHT) * SCREEN_WIDTH <= SCREEN_CELLS,
           NEW mem \in [Cells -> Char]
    PROVE  View(mem, pos) \in [0 .. SCREEN_HEIGHT - 1 -> Row]
<1>1. ASSUME NEW r \in 0 .. SCREEN_HEIGHT - 1, NEW k \in 0 .. SCREEN_WIDTH - 1
      PROVE  mem[(pos + r) * SCREEN_WIDTH + k] \in Char
  BY VisibleCell
<1> QED  BY <1>1 DEF View, Row

(* ScrollUp moves every visible row up by one, whether it moves the start   *)
(* of the visible part on or copies the rows back.                          *)
LEMMA ScrollShows ==
    ASSUME IInv, NEW mem \in [Cells -> Char], ScrollUp(mem)
    PROVE  /\ vram' \in [Cells -> Char]
           /\ \E bottom \in Row :
                View(vram', SCREEN_POS') =
                    [r \in 0 .. SCREEN_HEIGHT - 1 |->
                        IF r = SCREEN_HEIGHT - 1 THEN bottom
                        ELSE View(mem, SCREEN_POS)[r + 1]]
<1> DEFINE pos == SCREEN_POS + 1
           W == SCREEN_WIDTH
           H == SCREEN_HEIGHT
<1>1. /\ SCREEN_POS \in Nat /\ pos \in Nat /\ W \in Nat \ {0} /\ H \in Nat \ {0}
      /\ SCREEN_CELLS \in Nat /\ (SCREEN_POS + H) * W <= SCREEN_CELLS
  BY ScreenAssumption DEF IInv
<1>2. SCREEN_POS' = ScrolledPos(pos) /\ vram' = ScrolledMem(mem, pos)
  BY DEF ScrollUp
<1>3. /\ SCREEN_POS' \in Nat /\ (SCREEN_POS' + H) * W <= SCREEN_CELLS
  BY <1>1, <1>2, ScrolledFits
<1>4. ASSUME NEW r \in 0 .. H - 1, NEW k \in 0 .. W - 1, r # H - 1
      PROVE  /\ (SCREEN_POS + (r + 1)) * W + k \in Cells
             /\ (SCREEN_POS + (r + 1)) * W + k < (SCREEN_POS + H) * W
             /\ (pos + r) * W + k = (SCREEN_POS + (r + 1)) * W + k
  <2>1. r + 1 \in 0 .. H - 1
    BY <1>1, <1>4
  <2>2. (SCREEN_POS + (r + 1)) * W + k \in Cells
    BY <1>1, <2>1, VisibleCell
  <2>3. /\ SCREEN_POS + (r + 1) \in Nat /\ SCREEN_POS + H \in Nat
        /\ SCREEN_POS + (r + 1) < SCREEN_POS + H
    BY <1>1, <2>1
  <2>4. (SCREEN_POS + (r + 1)) * W + k < (SCREEN_POS + H) * W
    BY <2>3, RowBefore
  <2>5. pos + r = SCREEN_POS + (r + 1)
    BY <1>1
  <2> QED  BY <2>2, <2>4, <2>5
<1>5. SCREEN_ERASER \in Char
  BY ScreenAssumption
<1>6. /\ vram' \in [Cells -> Char]
      /\ \A r \in 0 .. H - 1, k \in 0 .. W - 1 :
            r # H - 1 =>
                vram'[(SCREEN_POS' + r) * W + k] = mem[(SCREEN_POS + (r + 1)) * W + k]
  <2>1. CASE Fits(pos)
    <3>1. SCREEN_POS' = pos /\ vram' = Blanked(mem, (pos + H) * W)
      BY <1>2, <2>1 DEF ScrolledPos, ScrolledMem
    <3>2. vram' \in [Cells -> Char]
      BY <1>5, <3>1 DEF Blanked
    <3>3. ASSUME NEW r \in 0 .. H - 1, NEW k \in 0 .. W - 1, r # H - 1
          PROVE  vram'[(SCREEN_POS' + r) * W + k] = mem[(SCREEN_POS + (r + 1)) * W + k]
      <4> DEFINE c == (SCREEN_POS + (r + 1)) * W + k
      <4>1. c \in Cells /\ c < (SCREEN_POS + H) * W /\ (pos + r) * W + k = c
        BY <1>4, <3>3
      <4>2. (SCREEN_POS + H) * W < (pos + H) * W
        <5>1. SCREEN_POS + H \in Nat /\ pos + H \in Nat /\ SCREEN_POS + H < pos + H
          BY <1>1
        <5>2. 0 \in 0 .. W - 1
          BY <1>1
        <5>3. (SCREEN_POS + H) * W + 0 < (pos + H) * W
          BY <5>1, <5>2, RowBefore
        <5>4. (SCREEN_POS + H) * W \in Int
          BY <1>1, <5>1
        <5> QED  BY <5>3, <5>4
      <4>3. c \notin (pos + H) * W .. (pos + H) * W + W - 1
        <5>1. c \in Int /\ (SCREEN_POS + H) * W \in Int /\ (pos + H) * W \in Int
          BY <1>1, <4>1 DEF Cells
        <5> HIDE DEF c, pos
        <5> QED  BY <4>1, <4>2, <5>1
      <4> HIDE DEF c
      <4> QED  BY <3>1, <4>1, <4>3 DEF Blanked, c
    <3> QED  BY <3>2, <3>3
  <2>2. CASE ~Fits(pos)
    <3> DEFINE back == Copied(mem, pos)
    <3>1. SCREEN_POS' = 0 /\ vram' = Blanked(back, (H - 1) * W)
      BY <1>2, <2>2 DEF ScrolledPos, ScrolledMem
    <3>2. ASSUME NEW c \in Cells, c < (H - 1) * W  PROVE  c + pos * W \in Cells
      <4>1. (H - 1) * W + pos * W = (SCREEN_POS + H) * W
        BY <1>1, SMT
      <4>2. pos * W \in Nat /\ (H - 1) * W \in Nat /\ c \in Nat
        BY <1>1, SMT DEF Cells
      <4> HIDE DEF pos
      <4>3. c + pos * W < SCREEN_CELLS /\ c + pos * W \in Nat
        BY <1>1, <3>2, <4>1, <4>2
      <4> QED  BY <1>1, <4>3 DEF Cells
    <3>3. back \in [Cells -> Char]
      <4>1. \A c \in Cells : back[c] \in Char
        BY <3>2 DEF Copied
      <4> QED  BY <4>1 DEF Copied
    <3>4. vram' \in [Cells -> Char]
      BY <1>5, <3>1, <3>3 DEF Blanked
    <3>5. ASSUME NEW r \in 0 .. H - 1, NEW k \in 0 .. W - 1, r # H - 1
          PROVE  vram'[(SCREEN_POS' + r) * W + k] = mem[(SCREEN_POS + (r + 1)) * W + k]
      <4> DEFINE c == r * W + k
      <4>1. c \in Nat /\ c < (H - 1) * W
        <5>1. r \in Nat /\ H - 1 \in Nat /\ r < H - 1
          BY <1>1, <3>5
        <5> QED  BY <5>1, RowBefore
      <4>2. (SCREEN_POS' + r) * W + k = c
        BY <3>1
      <4>3. c + pos * W = (SCREEN_POS + (r + 1)) * W + k
        BY <1>1, SMT
      <4>4. c \in Cells
        <5>1. (0 + r) * W + k \in Cells
          BY <1>3, <3>1, VisibleCell
        <5> QED  BY <5>1
      <4>5. (H - 1) * W \in Int
        BY <1>1
      <4> HIDE DEF c, back
      <4>6. vram'[c] = back[c]
        <5>1. c \notin (H - 1) * W .. (H - 1) * W + W - 1
          BY <4>1, <4>5
        <5> QED  BY <3>1, <4>4, <5>1 DEF Blanked
      <4>7. back[c] = mem[c + pos * W]
        BY <4>1, <4>4 DEF back, Copied
      <4> QED  BY <4>2, <4>3, <4>6, <4>7
    <3> QED  BY <3>4, <3>5
  <2> QED  BY <2>1, <2>2
<1> DEFINE bottom == View(vram', SCREEN_POS')[H - 1]
<1>7. View(vram', SCREEN_POS') \in [0 .. H - 1 -> Row] /\ bottom \in Row
  <2>1. View(vram', SCREEN_POS') \in [0 .. H - 1 -> Row]
    BY <1>3, <1>6, ViewIsGrid
  <2>2. H - 1 \in 0 .. H - 1
    BY <1>1
  <2> QED  BY <2>1, <2>2
<1>8. ASSUME NEW r \in 0 .. H - 1, r # H - 1
      PROVE  View(vram', SCREEN_POS')[r] = View(mem, SCREEN_POS)[r + 1]
  <2>1. r + 1 \in 0 .. H - 1
    BY <1>1, <1>8
  <2> QED  BY <1>6, <1>8, <2>1 DEF View
<1> HIDE DEF bottom
<1>9. View(vram', SCREEN_POS') =
        [r \in 0 .. H - 1 |->
            IF r = H - 1 THEN bottom ELSE View(mem, SCREEN_POS)[r + 1]]
  BY <1>7, <1>8 DEF bottom, View
<1> QED  BY <1>6, <1>7, <1>9

(* The invariant the refinement needs: video memory holds characters. *)
TInv == IInv /\ vram \in [Cells -> Char]

(* The end of a row is a line feed of the terminal. *)
LEMMA NextRowImplements ==
    ASSUME IInv, NEW mem \in [Cells -> Char], NextRow(mem)
    PROVE  vram' \in [Cells -> Char] /\ Term!LineFeed(View(mem, SCREEN_POS))
<1>1. /\ height \in 0 .. SCREEN_HEIGHT - 1 /\ SCREEN_HEIGHT \in Nat \ {0}
  BY ScreenAssumption DEF IInv
<1>2. width' = 0
  BY DEF NextRow
<1>3. CASE height + 1 = SCREEN_HEIGHT
  <2>1. ScrollUp(mem) /\ height' = height
    BY <1>3 DEF NextRow
  <2>2. PICK bottom \in Row :
          View(vram', SCREEN_POS') =
            [r \in 0 .. SCREEN_HEIGHT - 1 |->
                IF r = SCREEN_HEIGHT - 1 THEN bottom ELSE View(mem, SCREEN_POS)[r + 1]]
    BY <2>1, ScrollShows
  <2>3. vram' \in [Cells -> Char]
    BY <2>1, ScrollShows
  <2>4. height = SCREEN_HEIGHT - 1 /\ ~ (height < SCREEN_HEIGHT - 1)
    BY <1>1, <1>3
  <2>5. [r \in 0 .. SCREEN_HEIGHT - 1 |-> VisibleRow(r)]' =
            [r \in 0 .. SCREEN_HEIGHT - 1 |->
                IF r = height THEN bottom ELSE View(mem, SCREEN_POS)[r + 1]]
    BY <2>2, <2>4 DEF VisibleRow, View
  <2> QED  BY <1>2, <2>1, <2>2, <2>3, <2>4, <2>5
           DEF Term!LineFeed, Term!Rows, Term!Row, Term!Cols, Row
<1>4. CASE height + 1 # SCREEN_HEIGHT
  <2>1. vram' = mem /\ height' = height + 1 /\ SCREEN_POS' = SCREEN_POS
    BY <1>4 DEF NextRow
  <2>2. height < SCREEN_HEIGHT - 1
    BY <1>1, <1>4
  <2>3. [r \in 0 .. SCREEN_HEIGHT - 1 |-> VisibleRow(r)]' = View(mem, SCREEN_POS)
    BY <2>1 DEF VisibleRow, View
  <2> QED  BY <1>2, <2>1, <2>2, <2>3 DEF Term!LineFeed
<1> QED  BY <1>3, <1>4

(* A character goes to the cell of the position and to no other. *)
LEMMA PutShows ==
    ASSUME TInv, NEW c \in Char, NEW mem,
           mem = [vram EXCEPT ![(height + SCREEN_POS) * SCREEN_WIDTH + width] = c]
    PROVE  /\ mem \in [Cells -> Char]
           /\ View(mem, SCREEN_POS) =
                [[r \in 0 .. SCREEN_HEIGHT - 1 |-> VisibleRow(r)]
                    EXCEPT ![height][width] = c]
<1> DEFINE cell == (height + SCREEN_POS) * SCREEN_WIDTH + width
<1>1. /\ SCREEN_POS \in Nat /\ (SCREEN_POS + SCREEN_HEIGHT) * SCREEN_WIDTH <= SCREEN_CELLS
      /\ width \in 0 .. SCREEN_WIDTH - 1 /\ height \in 0 .. SCREEN_HEIGHT - 1
      /\ vram \in [Cells -> Char]
  BY DEF TInv, IInv
<1>2. height \in Nat /\ height + SCREEN_POS = SCREEN_POS + height
  BY <1>1
<1>3. cell = (SCREEN_POS + height) * SCREEN_WIDTH + width /\ cell \in Cells
  BY <1>1, <1>2, VisibleCell
<1> HIDE DEF cell
<1>4. mem \in [Cells -> Char] /\ \A x \in Cells : mem[x] = IF x = cell THEN c ELSE vram[x]
  BY <1>1, <1>3 DEF cell
<1>5. ASSUME NEW r \in 0 .. SCREEN_HEIGHT - 1, NEW k \in 0 .. SCREEN_WIDTH - 1
      PROVE  mem[(SCREEN_POS + r) * SCREEN_WIDTH + k] =
                IF r = height /\ k = width THEN c
                ELSE vram[(SCREEN_POS + r) * SCREEN_WIDTH + k]
  <2>1. (SCREEN_POS + r) * SCREEN_WIDTH + k \in Cells
    BY <1>1, VisibleCell
  <2>2. SCREEN_POS + r \in Nat /\ SCREEN_POS + height \in Nat
    BY <1>1
  <2>3. (SCREEN_POS + r) * SCREEN_WIDTH + k = cell => r = height /\ k = width
    <3>1. ASSUME (SCREEN_POS + r) * SCREEN_WIDTH + k
                    = (SCREEN_POS + height) * SCREEN_WIDTH + width
          PROVE  SCREEN_POS + r = SCREEN_POS + height /\ k = width
      BY <1>1, <2>2, <3>1, CellInjective
    <3>2. SCREEN_POS + r = SCREEN_POS + height => r = height
      BY <1>1
    <3> QED  BY <1>3, <3>1, <3>2
  <2> QED  BY <1>3, <1>4, <2>1, <2>3
<1>6. ASSUME NEW r \in 0 .. SCREEN_HEIGHT - 1
      PROVE  View(mem, SCREEN_POS)[r] =
                IF r = height THEN [VisibleRow(height) EXCEPT ![width] = c] ELSE VisibleRow(r)
  <2>1. View(mem, SCREEN_POS)[r] =
          [k \in 0 .. SCREEN_WIDTH - 1 |-> mem[(SCREEN_POS + r) * SCREEN_WIDTH + k]]
    BY DEF View
  <2>2. CASE r = height
    <3>1. \A k \in 0 .. SCREEN_WIDTH - 1 :
            mem[(SCREEN_POS + r) * SCREEN_WIDTH + k] =
              IF k = width THEN c ELSE vram[(SCREEN_POS + r) * SCREEN_WIDTH + k]
      BY <1>5, <2>2
    <3>2. [VisibleRow(height) EXCEPT ![width] = c] =
            [k \in 0 .. SCREEN_WIDTH - 1 |->
                IF k = width THEN c ELSE vram[(SCREEN_POS + height) * SCREEN_WIDTH + k]]
      BY <1>1 DEF VisibleRow
    <3>3. View(mem, SCREEN_POS)[r] =
            [k \in 0 .. SCREEN_WIDTH - 1 |->
                IF k = width THEN c ELSE vram[(SCREEN_POS + height) * SCREEN_WIDTH + k]]
      <4> DEFINE row(k) == (SCREEN_POS + r) * SCREEN_WIDTH + k
                 put(k) == IF k = width THEN c ELSE vram[row(k)]
      <4>1. View(mem, SCREEN_POS)[r] = [k \in 0 .. SCREEN_WIDTH - 1 |-> mem[row(k)]]
        BY <2>1
      <4>2. \A k \in 0 .. SCREEN_WIDTH - 1 : mem[row(k)] = put(k)
        BY <3>1
      <4> HIDE DEF row, put
      <4>3. View(mem, SCREEN_POS)[r] = [k \in 0 .. SCREEN_WIDTH - 1 |-> put(k)]
        BY <4>1, <4>2
      <4> QED  BY <2>2, <4>3 DEF put, row
    <3> QED  BY <2>2, <3>2, <3>3
  <2>3. CASE r # height
    <3>1. \A k \in 0 .. SCREEN_WIDTH - 1 :
            mem[(SCREEN_POS + r) * SCREEN_WIDTH + k] =
              vram[(SCREEN_POS + r) * SCREEN_WIDTH + k]
      BY <1>5, <2>3
    <3> DEFINE row(k) == (SCREEN_POS + r) * SCREEN_WIDTH + k
    <3>2. /\ View(mem, SCREEN_POS)[r] = [k \in 0 .. SCREEN_WIDTH - 1 |-> mem[row(k)]]
          /\ VisibleRow(r) = [k \in 0 .. SCREEN_WIDTH - 1 |-> vram[row(k)]]
          /\ \A k \in 0 .. SCREEN_WIDTH - 1 : mem[row(k)] = vram[row(k)]
      BY <2>1, <3>1 DEF VisibleRow
    <3> HIDE DEF row
    <3>3. [k \in 0 .. SCREEN_WIDTH - 1 |-> mem[row(k)]]
            = [k \in 0 .. SCREEN_WIDTH - 1 |-> vram[row(k)]]
      BY <3>2, Zenon
    <3>4. View(mem, SCREEN_POS)[r] = VisibleRow(r)
      BY <3>2, <3>3, Zenon
    <3> QED  BY <2>3, <3>4
  <2> QED  BY <2>2, <2>3
<1> DEFINE grid == [r \in 0 .. SCREEN_HEIGHT - 1 |-> VisibleRow(r)]
           v == View(mem, SCREEN_POS)
<1>7. v = [r \in 0 .. SCREEN_HEIGHT - 1 |-> v[r]]
  BY DEF View
<1>8. [grid EXCEPT ![height][width] = c] =
        [r \in 0 .. SCREEN_HEIGHT - 1 |->
            IF r = height THEN [VisibleRow(height) EXCEPT ![width] = c] ELSE VisibleRow(r)]
  BY <1>1
<1> HIDE DEF v
<1>9. v = [grid EXCEPT ![height][width] = c]
  BY <1>6, <1>7, <1>8 DEF v
<1> QED  BY <1>4, <1>9 DEF v

(* Every step of the screen is a step of the terminal. *)
LEMMA StepImplements ==
    ASSUME TInv, [Next]_vars
    PROVE  /\ vram' \in [Cells -> Char]
           /\ [Term!Next]_<<[r \in 0 .. SCREEN_HEIGHT - 1 |-> VisibleRow(r)], width, height>>
<1> DEFINE grid == [r \in 0 .. SCREEN_HEIGHT - 1 |-> VisibleRow(r)]
<1>1. /\ IInv /\ vram \in [Cells -> Char] /\ SCREEN_POS \in Nat
      /\ width \in 0 .. SCREEN_WIDTH - 1 /\ height \in 0 .. SCREEN_HEIGHT - 1
      /\ SCREEN_WIDTH \in Nat \ {0} /\ SCREEN_HEIGHT \in Nat \ {0}
  BY ScreenAssumption DEF TInv, IInv
<1>2. grid = View(vram, SCREEN_POS)
  BY DEF VisibleRow, View
<1>3. ASSUME NEW c \in Char, Putchar(c)
      PROVE  vram' \in [Cells -> Char] /\ Term!Put(c)
  <2> DEFINE mem == [vram EXCEPT ![(height + SCREEN_POS) * SCREEN_WIDTH + width] = c]
  <2>1. mem \in [Cells -> Char] /\ View(mem, SCREEN_POS) = [grid EXCEPT ![height][width] = c]
    BY PutShows
  <2>2. CASE width + 1 = SCREEN_WIDTH
    <3>1. NextRow(mem)
      BY <1>3, <2>2 DEF Putchar
    <3>2. ~ (width < SCREEN_WIDTH - 1)
      BY <1>1, <2>2
    <3>3. vram' \in [Cells -> Char] /\ Term!LineFeed(View(mem, SCREEN_POS))
      BY <1>1, <2>1, <3>1, NextRowImplements
    <3> QED  BY <2>1, <3>2, <3>3 DEF Term!Put
  <2>3. CASE width + 1 # SCREEN_WIDTH
    <3>1. vram' = mem /\ width' = width + 1 /\ height' = height /\ SCREEN_POS' = SCREEN_POS
      BY <1>3, <2>3 DEF Putchar
    <3>2. width < SCREEN_WIDTH - 1
      BY <1>1, <2>3
    <3>3. grid' = View(mem, SCREEN_POS)
      BY <3>1 DEF VisibleRow, View
    <3> QED  BY <2>1, <3>1, <3>2, <3>3 DEF Term!Put
  <2> QED  BY <2>2, <2>3
<1>4. ASSUME LineFeed  PROVE  vram' \in [Cells -> Char] /\ Term!LineFeed(grid)
  BY <1>1, <1>2, <1>4, NextRowImplements DEF LineFeed
<1>5. ASSUME NEW w \in 0 .. SCREEN_WIDTH - 1, NEW h \in 0 .. SCREEN_HEIGHT - 1,
             SetPrintPos(w, h)
      PROVE  vram' \in [Cells -> Char] /\ Term!Move(w, h)
  <2>1. vram' = vram /\ SCREEN_POS' = SCREEN_POS /\ width' = w /\ height' = h
    BY <1>5 DEF SetPrintPos
  <2>2. grid' = grid
    BY <2>1 DEF VisibleRow
  <2> QED  BY <1>1, <2>1, <2>2 DEF Term!Move
<1>6. ASSUME ClearScreen
      PROVE  vram' \in [Cells -> Char] /\ Term!Clear(SCREEN_ERASER)
  <2>1. ScrollUp(Erased) /\ width' = 0 /\ height' = 0
    BY <1>6 DEF ClearScreen
  <2>2. Erased \in [Cells -> Char]
    BY <1>1, ScreenAssumption DEF Erased
  <2>3. PICK bottom \in Row :
          View(vram', SCREEN_POS') =
            [r \in 0 .. SCREEN_HEIGHT - 1 |->
                IF r = SCREEN_HEIGHT - 1 THEN bottom ELSE View(Erased, SCREEN_POS)[r + 1]]
    BY <1>1, <2>1, <2>2, ScrollShows
  <2>4. ASSUME NEW r \in 0 .. SCREEN_HEIGHT - 1, r # SCREEN_HEIGHT - 1
        PROVE  View(Erased, SCREEN_POS)[r + 1] = [k \in 0 .. SCREEN_WIDTH - 1 |-> SCREEN_ERASER]
    <3>1. r + 1 \in 0 .. SCREEN_HEIGHT - 1
      BY <1>1, <2>4
    <3>2. ASSUME NEW k \in 0 .. SCREEN_WIDTH - 1
          PROVE  Erased[(SCREEN_POS + (r + 1)) * SCREEN_WIDTH + k] = SCREEN_ERASER
      <4> DEFINE cell == (SCREEN_POS + (r + 1)) * SCREEN_WIDTH + k
      <4>1. cell \in Cells
        BY <1>1, <3>1, VisibleCell DEF IInv
      <4>2. /\ cell \in Nat /\ cell < (SCREEN_POS + SCREEN_HEIGHT) * SCREEN_WIDTH
        <5>1. /\ SCREEN_POS + (r + 1) \in Nat /\ SCREEN_POS + SCREEN_HEIGHT \in Nat
              /\ SCREEN_POS + (r + 1) < SCREEN_POS + SCREEN_HEIGHT
          BY <1>1, <3>1
        <5> QED  BY <5>1, RowBefore
      <4>3. SCREEN_POS * SCREEN_WIDTH <= cell
        <5>1. SCREEN_POS < SCREEN_POS + (r + 1) /\ 0 \in 0 .. SCREEN_WIDTH - 1
          BY <1>1, <3>1
        <5>2. SCREEN_POS * SCREEN_WIDTH + 0 < (SCREEN_POS + (r + 1)) * SCREEN_WIDTH
          BY <1>1, <3>1, <5>1, RowBefore
        <5>3. /\ SCREEN_POS * SCREEN_WIDTH \in Int
              /\ (SCREEN_POS + (r + 1)) * SCREEN_WIDTH \in Int
          BY <1>1, <3>1
        <5> QED  BY <5>2, <5>3
      <4>4. /\ SCREEN_POS * SCREEN_WIDTH \in Int
            /\ (SCREEN_POS + SCREEN_HEIGHT) * SCREEN_WIDTH \in Int
        BY <1>1
      <4> HIDE DEF cell
      <4>5. cell \in SCREEN_POS * SCREEN_WIDTH .. (SCREEN_POS + SCREEN_HEIGHT) * SCREEN_WIDTH - 1
        BY <4>2, <4>3, <4>4
      <4> QED  BY <4>1, <4>5 DEF Erased, cell
    <3> QED  BY <3>1, <3>2 DEF View
  <2>5. grid' = [r \in 0 .. SCREEN_HEIGHT - 1 |->
                    IF r = SCREEN_HEIGHT - 1 THEN bottom
                    ELSE [k \in 0 .. SCREEN_WIDTH - 1 |-> SCREEN_ERASER]]
    <3>1. grid' = View(vram', SCREEN_POS')
      BY DEF VisibleRow, View
    <3> QED  BY <2>3, <2>4, <3>1
  <2>6. vram' \in [Cells -> Char]
    BY <1>1, <2>1, <2>2, ScrollShows
  <2> QED  BY <2>1, <2>3, <2>5, <2>6 DEF Term!Clear, Term!Rows, Term!Row, Term!Cols, Row
<1>7. CASE UNCHANGED vars
  <2>1. vram' = vram /\ SCREEN_POS' = SCREEN_POS /\ width' = width /\ height' = height
    BY <1>7 DEF vars
  <2> QED  BY <1>1, <2>1 DEF VisibleRow
<1> QED  BY <1>3, <1>4, <1>5, <1>6, <1>7, ScreenAssumption
         DEF Next, Term!Next, Term!Cols, Term!Rows

(* The boot screen is a blank terminal. *)
LEMMA InitImplements == Init => TInv /\ Term!Init
<1> SUFFICES ASSUME Init PROVE TInv /\ Term!Init
  OBVIOUS
<1>1. IInv /\ vram \in [Cells -> Char]
  BY InitEstablishes, ScreenAssumption DEF Init
<1>2. View(vram, SCREEN_POS) \in [0 .. SCREEN_HEIGHT - 1 -> Row]
  BY <1>1, ViewIsGrid DEF IInv
<1>3. [r \in 0 .. SCREEN_HEIGHT - 1 |-> VisibleRow(r)] = View(vram, SCREEN_POS)
  BY DEF VisibleRow, View
<1> QED  BY <1>1, <1>2, <1>3 DEF TInv, Init, Term!Init, Term!Rows, Term!Row, Term!Cols, Row

(* What is visible is a terminal, for every size of the screen and of video *)
(* memory: scrolling loses, doubles and moves no character.                 *)
THEOREM ScreenImplementsTerminal == Spec => ImplementsTerminal
<1>1. TInv /\ [Next]_vars => TInv'
  BY StepKeeps, StepImplements DEF TInv
<1>2. TInv /\ [Next]_vars =>
        [Term!Next]_<<[r \in 0 .. SCREEN_HEIGHT - 1 |-> VisibleRow(r)], width, height>>
  BY StepImplements
<1> QED  BY <1>1, <1>2, InitImplements, PTL DEF Spec, ImplementsTerminal, Term!Spec

-----------------------------------------------------------------------------
(* The keyboard.  What the decoder can be, and what it is between keys.     *)
Modifiers == [shift : BOOLEAN, caps : BOOLEAN, num : BOOLEAN]
Bytes == 0 .. 224
Codes == [scode : Int, pressed : BOOLEAN, column : {1, 2}]
Decoding(e0, m, codes) == [E0 |-> e0, m |-> m, codes |-> codes]
Idling(m, codes) == Decoding(FALSE, m, codes)

(* The decoder behind bytes that are no part of Pause; a key has at most    *)
(* four of them. *)
Behind(d, bytes) ==
    CASE Len(bytes) = 0 -> d
      [] Len(bytes) = 1 -> KeyHandler(d, bytes[1])
      [] Len(bytes) = 2 -> KeyHandler(KeyHandler(d, bytes[1]), bytes[2])
      [] Len(bytes) = 3 -> KeyHandler(KeyHandler(KeyHandler(d, bytes[1]), bytes[2]), bytes[3])
      [] Len(bytes) = 4 ->
            KeyHandler(KeyHandler(KeyHandler(KeyHandler(d, bytes[1]), bytes[2]), bytes[3]), bytes[4])

(* What the decoder makes of the events of a key: the modifiers after each  *)
(* of them, and the codes.                                                  *)
After(events, m) ==
    LET state[k \in 0 .. Len(events)] ==
            IF k = 0 THEN m ELSE Modified(state[k - 1], events[k].scode, events[k].pressed)
    IN  state

Coded(events, m) ==
    [k \in DOMAIN events |->
        [scode |-> events[k].scode, pressed |-> events[k].pressed,
         column |-> Column(events[k].letter, events[k].pad, After(events, m)[k])]]

(* The rest of the line leads the decoder to modifiers m and codes c. *)
KeyPending(m, c) ==
    /\ cPause = 0
    /\ line \in Seq(Bytes) /\ Len(line) <= 4
    /\ Behind(decoder, line) = Idling(m, c)

PausePending(m, c) ==
    /\ cPause \in 0 .. 5
    /\ line \in Seq(Int) /\ Len(line) = 6 - cPause
    /\ \A j \in 1 .. 6 - cPause : line[j] = cPauseCode[cPause + j]
    /\ KeyHandler(KeyHandler(decoder, 94), 222) = Idling(m, c)

(* The modifiers are those of the user: the locks, and shift only while a   *)
(* key that sends it is down, and exactly while a shift key is when no two  *)
(* such keys have overlapped.                                               *)
Held(keys) == keys \cap ShiftKeys # {}
Unclear == overlapped \/ PrintScreen \in down

Follows(m) ==
    /\ m.caps = locks.caps /\ m.num = locks.num
    /\ m.shift => SendShift(down) # {}
    /\ ~Unclear => m.shift = Held(down)

(* The codes are accepted. *)
Accepts(code, want) ==
    code.scode = want.scode /\ code.pressed = want.pressed /\ code.column \in want.columns
AllAccepted(c, wants) ==
    Len(c) = Len(wants) /\ \A n \in 1 .. Len(c) : Accepts(c[n], wants[n])

(* The inductive invariant of the keyboard. *)
Wants == [scode : Int, pressed : BOOLEAN, columns : SUBSET {1, 2}]
UserType ==
    /\ overlapped \in BOOLEAN
    /\ locks \in [caps : BOOLEAN, num : BOOLEAN]
    /\ meant \in Seq(Wants)
OneSender == ~overlapped => \A j, k \in SendShift(down) : j = k

KInv ==
    /\ UserType /\ OneSender
    /\ \E m \in Modifiers, c \in Seq(Codes) :
        /\ KeyPending(m, c) \/ PausePending(m, c)
        /\ Follows(m) /\ AllAccepted(c, meant)

-----------------------------------------------------------------------------
(* What one or two events of a key do: After is defined event by event.     *)
LEMMA AfterEach ==
    ASSUME NEW events, Len(events) \in 0 .. 2, NEW m
    PROVE  /\ After(events, m)[0] = m
           /\ Len(events) >= 1 =>
                After(events, m)[1] = Modified(m, events[1].scode, events[1].pressed)
           /\ Len(events) = 2 =>
                After(events, m)[2] =
                    Modified(After(events, m)[1], events[2].scode, events[2].pressed)
<1> DEFINE N == Len(events)
           next(s, k) == Modified(s, events[k].scode, events[k].pressed)
           f == [k \in 0 .. N |-> IF k = 0 THEN m
                                  ELSE IF k = 1 THEN next(m, 1) ELSE next(next(m, 1), 2)]
           g == After(events, m)
<1>0. N \in 0 .. 2
  OBVIOUS
<1> HIDE DEF next, N
<1>1. f = [k \in 0 .. N |-> IF k = 0 THEN m ELSE next(f[k - 1], k)]
  <2>1. ASSUME NEW k \in 0 .. N
        PROVE  f[k] = IF k = 0 THEN m ELSE next(f[k - 1], k)
    <3>1. k \in {0, 1, 2} /\ N \in {0, 1, 2}
      BY <1>0
    <3>2. CASE k = 0
      BY <3>2
    <3>3. CASE k = 1
      <4>1. 0 \in 0 .. N /\ k - 1 = 0 /\ f[0] = m
        BY <3>1, <3>3
      <4> QED  BY <3>3, <4>1
    <3>4. CASE k = 2
      <4>1. 1 \in 0 .. N /\ k - 1 = 1 /\ f[1] = next(m, 1)
        BY <3>1, <3>4
      <4> QED  BY <3>4, <4>1
    <3> QED  BY <3>1, <3>2, <3>3, <3>4
  <2>2. f = [k \in 0 .. N |-> f[k]]
    OBVIOUS
  <2> HIDE DEF f
  <2> QED  BY <2>1, <2>2
<1> HIDE DEF f
<1>2. \E h : h = [k \in 0 .. N |-> IF k = 0 THEN m ELSE next(h[k - 1], k)]
  BY <1>1
<1>3. g = [k \in 0 .. N |-> IF k = 0 THEN m ELSE next(g[k - 1], k)]
  BY <1>2, Zenon DEF After, next, N
<1> HIDE DEF g
<1>4. /\ g[0] = m
      /\ N >= 1 => g[1] = next(g[0], 1)
      /\ N = 2 => g[2] = next(g[1], 2)
  <2>1. /\ 0 \in 0 .. N /\ (N >= 1 => 1 \in 0 .. N) /\ (N = 2 => 2 \in 0 .. N)
        /\ 1 - 1 = 0 /\ 2 - 1 = 1
    BY <1>0
  <2>2. \A k \in 0 .. N : g[k] = IF k = 0 THEN m ELSE next(g[k - 1], k)
    BY <1>3
  <2> QED  BY <2>1, <2>2
<1> QED  BY <1>4 DEF g, next, N

-----------------------------------------------------------------------------
(* An event of a key: its byte, what it does to the modifiers, its code;    *)
(* and that gKeyMap and the prefix E0 have the key for what it is.          *)
Events == [scode : 1 .. 94, pressed : BOOLEAN, letter : BOOLEAN, pad : BOOLEAN]
ByteOf(e) == IF e.pressed THEN e.scode ELSE e.scode + 128
Then(m, e) == Modified(m, e.scode, e.pressed)
CodeOf(e, m) == [scode |-> e.scode, pressed |-> e.pressed, column |-> Column(e.letter, e.pad, m)]
Truthful(e, e0) ==
    InKeyMap(e.scode) /\ e.letter = IsLetter(e.scode) /\ e.pad = IsNumPadKey(e.scode, e0)

LEMMA EventType ==
    ASSUME NEW s \in 1 .. 94, NEW p \in BOOLEAN, NEW letter \in BOOLEAN, NEW pad \in BOOLEAN
    PROVE  /\ Event(s, p, letter, pad) \in Events
           /\ Event(s, p, letter, pad).scode = s /\ Event(s, p, letter, pad).pressed = p
           /\ Event(s, p, letter, pad).letter = letter /\ Event(s, p, letter, pad).pad = pad
BY DEF Event, Events

LEMMA ThenType ==
    ASSUME NEW e \in Events, NEW m \in Modifiers
    PROVE  Then(m, e) \in Modifiers
BY DEF Events, Then, Modified, Modifiers

LEMMA CodeType ==
    ASSUME NEW e \in Events, NEW m
    PROVE  CodeOf(e, m) \in Codes
<1>1. Column(e.letter, e.pad, m) \in {1, 2}
  BY DEF Column
<1> QED  BY <1>1 DEF Events, CodeOf, Codes

LEMMA MakesColumn ==
    ASSUME NEW e \in Events, NEW e0, Truthful(e, e0), NEW m \in Modifiers
    PROVE  MakeCode(e.scode, m, e0) = Column(e.letter, e.pad, m)
<1>1. /\ m.shift \in BOOLEAN /\ m.caps \in BOOLEAN /\ m.num \in BOOLEAN
      /\ e.letter \in BOOLEAN /\ e.pad \in BOOLEAN
  BY DEF Modifiers, Events
<1>2. MakeCode(e.scode, m, e0) = IF e.pad THEN MakeNumCode(m) ELSE MakeNormalCode(e.letter, m)
  BY Zenon DEF Truthful, MakeCode
<1>3. MakeNumCode(m) = IF m.num /\ ~m.shift THEN 1 ELSE 2
  BY <1>1 DEF MakeNumCode
<1>4. MakeNormalCode(e.letter, m) = IF m.shift # (e.letter /\ m.caps) THEN 2 ELSE 1
  BY <1>1, Zenon DEF MakeNormalCode
<1> QED  BY <1>2, <1>3, <1>4, Zenon DEF Column

LEMMA ByteType ==
    ASSUME NEW e \in Events
    PROVE  /\ ByteOf(e) \in 1 .. 222 /\ ByteOf(e) # 224 /\ ByteOf(e) % 128 = e.scode
           /\ (ByteOf(e) < 128) = e.pressed
<1>0. e.scode \in 1 .. 94 /\ e.pressed \in BOOLEAN
  BY DEF Events
<1>1. /\ ByteOf(e) \in 1 .. 222 /\ ByteOf(e) # 224 /\ ByteOf(e) % 128 = e.scode
      /\ ByteOf(e) < 128 <=> e.pressed
  BY <1>0 DEF ByteOf
<1>2. (ByteOf(e) < 128) \in BOOLEAN
  BY <1>1, SMT
<1> DEFINE q == ByteOf(e) < 128
<1> HIDE DEF q
<1>3. q = e.pressed
  BY <1>0, <1>1, <1>2, Zenon DEF q
<1> QED  BY <1>1, <1>3 DEF q

(* The decoder, byte by byte: the prefix, an event, an unknown scan code. *)
LEMMA PrefixByte ==
    ASSUME NEW m, NEW c
    PROVE  KeyHandler(Idling(m, c), 224) = Decoding(TRUE, m, c)
BY DEF KeyHandler, Idling, Decoding

LEMMA CodeByte ==
    ASSUME NEW e \in Events, NEW e0, Truthful(e, e0), NEW m \in Modifiers, NEW c
    PROVE  KeyHandler(Decoding(e0, m, c), ByteOf(e)) =
                Idling(Then(m, e), Append(c, CodeOf(e, Then(m, e))))
<1> DEFINE byte == ByteOf(e)
<1>1. byte # 224 /\ byte % 128 = e.scode /\ (byte < 128) = e.pressed
  BY ByteType
<1> HIDE DEF byte
<1>2. MakeCode(e.scode, Then(m, e), e0) = Column(e.letter, e.pad, Then(m, e))
  BY ThenType, MakesColumn
<1>3. KeyHandler(Decoding(e0, m, c), byte) =
            [E0 |-> FALSE, m |-> Modified(m, e.scode, e.pressed),
             codes |-> Append(c, [scode |-> e.scode, pressed |-> e.pressed,
                            column |-> MakeCode(e.scode, Modified(m, e.scode, e.pressed), e0)])]
  <2>1. InKeyMap(byte % 128)
    BY <1>1 DEF Truthful
  <2>2. KeyHandler(Decoding(e0, m, c), byte) =
            [E0 |-> FALSE, m |-> Modified(m, byte % 128, byte < 128),
             codes |-> Append(c, [scode |-> byte % 128, pressed |-> byte < 128,
                    column |-> MakeCode(byte % 128, Modified(m, byte % 128, byte < 128), e0)])]
    BY <1>1, <2>1, Zenon DEF KeyHandler, Decoding
  <2> QED  BY <1>1, <2>2, Zenon
<1> QED  BY <1>2, <1>3, Zenon DEF Idling, Decoding, CodeOf, Then, byte

LEMMA UnknownByte ==
    ASSUME NEW s \in 1 .. 94, ~InKeyMap(s), NEW byte \in {s, s + 128}, NEW d
    PROVE  KeyHandler(d, byte) = d
<1>1. byte # 224 /\ byte % 128 = s
  OBVIOUS
<1> QED  BY <1>1 DEF KeyHandler

(* One event and two events. *)
LEMMA OneEvent ==
    ASSUME NEW e \in Events, NEW m \in Modifiers, NEW c \in Seq(Codes)
    PROVE  /\ After(<<e>>, m)[Len(<<e>>)] = Then(m, e)
           /\ c \o Coded(<<e>>, m) = Append(c, CodeOf(e, Then(m, e)))
<1> DEFINE events == <<e>>
<1>1. Len(events) = 1 /\ DOMAIN events = 1 .. 1 /\ events[1] = e
  OBVIOUS
<1> HIDE DEF events
<1>2. After(events, m)[1] = Then(m, e)
  <2>1. Len(events) \in 0 .. 2 /\ Len(events) >= 1
    BY <1>1
  <2>2. After(events, m)[1] = Modified(m, events[1].scode, events[1].pressed)
    BY <2>1, AfterEach
  <2> QED  BY <1>1, <2>2, Zenon DEF Then
<1> DEFINE code == CodeOf(e, Then(m, e))
<1>3. code \in Codes
  BY ThenType, CodeType
<1>4. Coded(events, m) = [j \in 1 .. 1 |-> CodeOf(events[j], After(events, m)[j])]
  BY <1>1, Zenon DEF Coded, CodeOf
<1>5. Coded(events, m) = <<code>>
  <2>1. CodeOf(events[1], After(events, m)[1]) = code
    BY <1>1, <1>2, Zenon
  <2> HIDE DEF code
  <2> QED  BY <1>4, <2>1
<1>6. c \o <<code>> = Append(c, code)
  <2> HIDE DEF code
  <2> QED  BY <1>3
<1> QED  BY <1>1, <1>2, <1>5, <1>6, Zenon DEF events

LEMMA TwoEvents ==
    ASSUME NEW e1 \in Events, NEW e2 \in Events, NEW m \in Modifiers, NEW c \in Seq(Codes)
    PROVE  /\ After(<<e1, e2>>, m)[Len(<<e1, e2>>)] = Then(Then(m, e1), e2)
           /\ c \o Coded(<<e1, e2>>, m) =
                Append(Append(c, CodeOf(e1, Then(m, e1))), CodeOf(e2, Then(Then(m, e1), e2)))
<1> DEFINE events == <<e1, e2>>
<1>1. Len(events) = 2 /\ DOMAIN events = 1 .. 2 /\ events[1] = e1 /\ events[2] = e2
  OBVIOUS
<1> HIDE DEF events
<1>2. After(events, m)[1] = Then(m, e1) /\ After(events, m)[2] = Then(Then(m, e1), e2)
  <2>1. Len(events) \in 0 .. 2 /\ Len(events) >= 1
    BY <1>1
  <2>2. /\ After(events, m)[1] = Modified(m, events[1].scode, events[1].pressed)
        /\ After(events, m)[2] =
                Modified(After(events, m)[1], events[2].scode, events[2].pressed)
    BY <1>1, <2>1, AfterEach
  <2> QED  BY <1>1, <2>2, Zenon DEF Then
<1> DEFINE code1 == CodeOf(e1, Then(m, e1))
           code2 == CodeOf(e2, Then(Then(m, e1), e2))
<1>3. code1 \in Codes /\ code2 \in Codes
  <2>1. Then(m, e1) \in Modifiers
    BY ThenType
  <2>2. Then(Then(m, e1), e2) \in Modifiers
    BY <2>1, ThenType
  <2> QED  BY <2>1, <2>2, CodeType
<1>4. Coded(events, m) = [j \in 1 .. 2 |-> CodeOf(events[j], After(events, m)[j])]
  BY <1>1, Zenon DEF Coded, CodeOf
<1>5. Coded(events, m) = <<code1, code2>>
  <2>1. /\ CodeOf(events[1], After(events, m)[1]) = code1
        /\ CodeOf(events[2], After(events, m)[2]) = code2
    BY <1>1, <1>2, Zenon
  <2> HIDE DEF code1, code2
  <2> QED  BY <1>4, <2>1
<1>6. c \o <<code1, code2>> = Append(Append(c, code1), code2)
  <2> HIDE DEF code1, code2
  <2> QED  BY <1>3
<1> QED  BY <1>1, <1>2, <1>5, <1>6, Zenon DEF events

(* One byte after another. *)
LEMMA BehindCases ==
    ASSUME NEW d, NEW bytes
    PROVE  /\ Len(bytes) = 0 => Behind(d, bytes) = d
           /\ Len(bytes) = 1 => Behind(d, bytes) = KeyHandler(d, bytes[1])
           /\ Len(bytes) = 2 => Behind(d, bytes) = KeyHandler(KeyHandler(d, bytes[1]), bytes[2])
           /\ Len(bytes) = 3 =>
                Behind(d, bytes) =
                    KeyHandler(KeyHandler(KeyHandler(d, bytes[1]), bytes[2]), bytes[3])
           /\ Len(bytes) = 4 =>
                Behind(d, bytes) = KeyHandler(KeyHandler(KeyHandler(
                                        KeyHandler(d, bytes[1]), bytes[2]), bytes[3]), bytes[4])
<1> DEFINE n == Len(bytes)
<1> HIDE DEF n
<1>1. ASSUME n = 0 PROVE  Behind(d, bytes) = d
  BY <1>1 DEF Behind, n
<1>2. ASSUME n = 1 PROVE  Behind(d, bytes) = KeyHandler(d, bytes[1])
  BY <1>2 DEF Behind, n
<1>3. ASSUME n = 2 PROVE  Behind(d, bytes) = KeyHandler(KeyHandler(d, bytes[1]), bytes[2])
  BY <1>3 DEF Behind, n
<1>4. ASSUME n = 3
      PROVE  Behind(d, bytes) = KeyHandler(KeyHandler(KeyHandler(d, bytes[1]), bytes[2]), bytes[3])
  BY <1>4 DEF Behind, n
<1>5. ASSUME n = 4
      PROVE  Behind(d, bytes) = KeyHandler(KeyHandler(KeyHandler(
                                        KeyHandler(d, bytes[1]), bytes[2]), bytes[3]), bytes[4])
  BY <1>5 DEF Behind, n
<1> QED  BY <1>1, <1>2, <1>3, <1>4, <1>5, Zenon DEF n

LEMMA BehindTail ==
    ASSUME NEW d, NEW bytes \in Seq(Bytes), bytes # <<>>, Len(bytes) <= 4
    PROVE  Behind(d, bytes) = Behind(KeyHandler(d, Head(bytes)), Tail(bytes))
<1> DEFINE rest == Tail(bytes)
<1>1. Head(bytes) = bytes[1] /\ Len(rest) = Len(bytes) - 1 /\ Len(bytes) \in 1 .. 4
  <2>1. Head(bytes) = bytes[1]
    OBVIOUS
  <2>2. Len(rest) = Len(bytes) - 1
    BY HeadTailProperties
  <2>3. Len(bytes) \in Nat /\ Len(bytes) # 0
    BY EmptySeq
  <2> QED  BY <2>1, <2>2, <2>3
<1>2. \A j \in 1 .. Len(bytes) - 1 : rest[j] = bytes[j + 1]
  BY HeadTailProperties
<1> HIDE DEF rest
<1>3. CASE Len(bytes) = 1
  <2>1. Behind(d, bytes) = KeyHandler(d, bytes[1])
    BY <1>3, BehindCases
  <2>2. Len(rest) = 0
    BY <1>1, <1>3
  <2>3. Behind(KeyHandler(d, bytes[1]), rest) = KeyHandler(d, bytes[1])
    BY <2>2, BehindCases
  <2> QED  BY <1>1, <2>1, <2>3 DEF rest
<1>4. CASE Len(bytes) = 2
  <2>1. rest[1] = bytes[2]
    BY <1>2, <1>4
  <2>2. Len(rest) = 1
    BY <1>1, <1>4
  <2>3. Behind(d, bytes) = KeyHandler(KeyHandler(d, bytes[1]), bytes[2])
    BY <1>4, BehindCases
  <2>4. Behind(KeyHandler(d, bytes[1]), rest) = KeyHandler(KeyHandler(d, bytes[1]), rest[1])
    BY <2>2, BehindCases
  <2> QED  BY <1>1, <2>1, <2>3, <2>4, Zenon DEF rest
<1>5. CASE Len(bytes) = 3
  <2>1. rest[1] = bytes[2] /\ rest[2] = bytes[3]
    BY <1>2, <1>5
  <2>2. Len(rest) = 2
    BY <1>1, <1>5
  <2>3. Behind(d, bytes) = KeyHandler(KeyHandler(KeyHandler(d, bytes[1]), bytes[2]), bytes[3])
    BY <1>5, BehindCases
  <2>4. Behind(KeyHandler(d, bytes[1]), rest) =
            KeyHandler(KeyHandler(KeyHandler(d, bytes[1]), rest[1]), rest[2])
    BY <2>2, BehindCases
  <2> QED  BY <1>1, <2>1, <2>3, <2>4, Zenon DEF rest
<1>6. CASE Len(bytes) = 4
  <2>1. rest[1] = bytes[2] /\ rest[2] = bytes[3] /\ rest[3] = bytes[4]
    BY <1>2, <1>6
  <2>2. Len(rest) = 3
    BY <1>1, <1>6
  <2>3. Behind(d, bytes) =
            KeyHandler(KeyHandler(KeyHandler(KeyHandler(d, bytes[1]), bytes[2]), bytes[3]), bytes[4])
    BY <1>6, BehindCases
  <2>4. Behind(KeyHandler(d, bytes[1]), rest) =
            KeyHandler(KeyHandler(KeyHandler(KeyHandler(d, bytes[1]), rest[1]), rest[2]), rest[3])
    BY <2>2, BehindCases
  <2> QED  BY <1>1, <2>1, <2>3, <2>4, Zenon DEF rest
<1> QED  BY <1>1, <1>3, <1>4, <1>5, <1>6 DEF rest

-----------------------------------------------------------------------------
(* Every key keeps its word: its bytes lead the decoder where its events    *)
(* lead the modifiers and the codes.                                        *)
Matches(bytes, events) ==
    \A m \in Modifiers, c \in Seq(Codes) :
        LET n == After(events, m)[Len(events)]
            t == c \o Coded(events, m)
        IN  /\ n \in Modifiers /\ t \in Seq(Codes)
            /\ \/ /\ bytes \in Seq(Bytes) /\ Len(bytes) <= 4
                  /\ Behind(Idling(m, c), bytes) = Idling(n, t)
               \/ /\ bytes = cPauseCode
                  /\ KeyHandler(KeyHandler(Idling(m, c), 94), 222) = Idling(n, t)

LEMMA OneByteMatches ==
    ASSUME NEW e \in Events, Truthful(e, FALSE)
    PROVE  Matches(<<ByteOf(e)>>, <<e>>)
<1>1. ASSUME NEW m \in Modifiers, NEW c \in Seq(Codes)
      PROVE  /\ Then(m, e) \in Modifiers
             /\ Append(c, CodeOf(e, Then(m, e))) \in Seq(Codes)
             /\ Behind(Idling(m, c), <<ByteOf(e)>>) =
                    Idling(Then(m, e), Append(c, CodeOf(e, Then(m, e))))
  <2>1. Then(m, e) \in Modifiers /\ CodeOf(e, Then(m, e)) \in Codes
    BY ThenType, CodeType
  <2>2. KeyHandler(Idling(m, c), ByteOf(e)) = Idling(Then(m, e), Append(c, CodeOf(e, Then(m, e))))
    BY CodeByte, Zenon DEF Idling
  <2>4. Behind(Idling(m, c), <<ByteOf(e)>>) = KeyHandler(Idling(m, c), ByteOf(e))
    <3> DEFINE bytes == <<ByteOf(e)>>
    <3>1. Len(bytes) = 1 /\ bytes[1] = ByteOf(e)
      OBVIOUS
    <3> HIDE DEF bytes
    <3>2. Behind(Idling(m, c), bytes) = KeyHandler(Idling(m, c), ByteOf(e))
      BY <3>1, BehindCases
    <3> QED  BY <3>2 DEF bytes
  <2>5. Append(c, CodeOf(e, Then(m, e))) \in Seq(Codes)
    BY <2>1
  <2> QED  BY <2>1, <2>2, <2>4, <2>5, Zenon
<1>2. <<ByteOf(e)>> \in Seq(Bytes) /\ Len(<<ByteOf(e)>>) <= 4
  <2>1. ByteOf(e) \in Bytes
    BY ByteType DEF Bytes
  <2> QED  BY <2>1
<1> QED  BY <1>1, <1>2, OneEvent, Zenon DEF Matches

LEMMA PrefixedMatches ==
    ASSUME NEW e \in Events, Truthful(e, TRUE)
    PROVE  Matches(<<224, ByteOf(e)>>, <<e>>)
<1>1. ASSUME NEW m \in Modifiers, NEW c \in Seq(Codes)
      PROVE  /\ Then(m, e) \in Modifiers
             /\ Append(c, CodeOf(e, Then(m, e))) \in Seq(Codes)
             /\ Behind(Idling(m, c), <<224, ByteOf(e)>>) =
                    Idling(Then(m, e), Append(c, CodeOf(e, Then(m, e))))
  <2>1. Then(m, e) \in Modifiers /\ CodeOf(e, Then(m, e)) \in Codes
    BY ThenType, CodeType
  <2>2. KeyHandler(KeyHandler(Idling(m, c), 224), ByteOf(e)) =
            Idling(Then(m, e), Append(c, CodeOf(e, Then(m, e))))
    <3>1. KeyHandler(Idling(m, c), 224) = Decoding(TRUE, m, c)
      BY PrefixByte, Zenon
    <3> QED  BY <3>1, CodeByte, ZenonT(60)
  <2>4. Behind(Idling(m, c), <<224, ByteOf(e)>>) =
            KeyHandler(KeyHandler(Idling(m, c), 224), ByteOf(e))
    <3> DEFINE bytes == <<224, ByteOf(e)>>
    <3>1. Len(bytes) = 2 /\ bytes[1] = 224 /\ bytes[2] = ByteOf(e)
      OBVIOUS
    <3> HIDE DEF bytes
    <3>2. Behind(Idling(m, c), bytes) = KeyHandler(KeyHandler(Idling(m, c), 224), ByteOf(e))
      BY <3>1, BehindCases
    <3> QED  BY <3>2 DEF bytes
  <2>5. Append(c, CodeOf(e, Then(m, e))) \in Seq(Codes)
    BY <2>1
  <2> QED  BY <2>1, <2>2, <2>4, <2>5, Zenon
<1>2. <<224, ByteOf(e)>> \in Seq(Bytes) /\ Len(<<224, ByteOf(e)>>) <= 4
  <2>1. ByteOf(e) \in Bytes /\ 224 \in Bytes
    BY ByteType DEF Bytes
  <2> QED  BY <2>1
<1>3. ASSUME NEW m \in Modifiers, NEW c \in Seq(Codes)
      PROVE  /\ After(<<e>>, m)[Len(<<e>>)] \in Modifiers
             /\ c \o Coded(<<e>>, m) \in Seq(Codes)
             /\ Behind(Idling(m, c), <<224, ByteOf(e)>>) =
                    Idling(After(<<e>>, m)[Len(<<e>>)], c \o Coded(<<e>>, m))
  BY <1>1, OneEvent, ZenonT(60)
<1> QED  BY <1>2, <1>3 DEF Matches

LEMMA TwiceMatches ==
    ASSUME NEW e1 \in Events, NEW e2 \in Events, Truthful(e1, TRUE), Truthful(e2, TRUE)
    PROVE  Matches(<<224, ByteOf(e1), 224, ByteOf(e2)>>, <<e1, e2>>)
<1>1. ASSUME NEW m \in Modifiers, NEW c \in Seq(Codes)
      PROVE  LET n1 == Then(m, e1)
                 n2 == Then(n1, e2)
                 c1 == Append(c, CodeOf(e1, n1))
                 c2 == Append(c1, CodeOf(e2, n2))
             IN  /\ n2 \in Modifiers /\ c2 \in Seq(Codes)
                 /\ Behind(Idling(m, c), <<224, ByteOf(e1), 224, ByteOf(e2)>>) = Idling(n2, c2)
  <2> DEFINE n1 == Then(m, e1)
             n2 == Then(n1, e2)
             c1 == Append(c, CodeOf(e1, n1))
             c2 == Append(c1, CodeOf(e2, n2))
  <2>1. n1 \in Modifiers /\ CodeOf(e1, n1) \in Codes
    BY ThenType, CodeType
  <2>2. n2 \in Modifiers /\ CodeOf(e2, n2) \in Codes
    BY <2>1, ThenType, CodeType
  <2>3. KeyHandler(KeyHandler(Idling(m, c), 224), ByteOf(e1)) = Idling(n1, c1)
    <3>1. KeyHandler(Idling(m, c), 224) = Decoding(TRUE, m, c)
      BY PrefixByte, Zenon
    <3> QED  BY <3>1, CodeByte, ZenonT(60)
  <2>4. KeyHandler(KeyHandler(Idling(n1, c1), 224), ByteOf(e2)) = Idling(n2, c2)
    <3>1. KeyHandler(Idling(n1, c1), 224) = Decoding(TRUE, n1, c1)
      BY PrefixByte, Zenon
    <3> HIDE DEF n1, c1
    <3>2. KeyHandler(Decoding(TRUE, n1, c1), ByteOf(e2)) =
              Idling(Then(n1, e2), Append(c1, CodeOf(e2, Then(n1, e2))))
      BY <2>1, CodeByte, Zenon
    <3> QED  BY <3>1, <3>2, Zenon
  <2>6. Behind(Idling(m, c), <<224, ByteOf(e1), 224, ByteOf(e2)>>) =
            KeyHandler(KeyHandler(KeyHandler(
                KeyHandler(Idling(m, c), 224), ByteOf(e1)), 224), ByteOf(e2))
    <3> DEFINE bytes == <<224, ByteOf(e1), 224, ByteOf(e2)>>
    <3>1. /\ Len(bytes) = 4 /\ bytes[1] = 224 /\ bytes[2] = ByteOf(e1)
          /\ bytes[3] = 224 /\ bytes[4] = ByteOf(e2)
      OBVIOUS
    <3> HIDE DEF bytes
    <3>2. Behind(Idling(m, c), bytes) =
            KeyHandler(KeyHandler(KeyHandler(
                KeyHandler(Idling(m, c), 224), ByteOf(e1)), 224), ByteOf(e2))
      BY <3>1, BehindCases
    <3> QED  BY <3>2 DEF bytes
  <2>7. c2 \in Seq(Codes)
    BY <2>1, <2>2
  <2> QED  BY <2>2, <2>3, <2>4, <2>6, <2>7, ZenonT(60)
<1>2. /\ <<224, ByteOf(e1), 224, ByteOf(e2)>> \in Seq(Bytes)
      /\ Len(<<224, ByteOf(e1), 224, ByteOf(e2)>>) <= 4
  <2>1. ByteOf(e1) \in Bytes /\ ByteOf(e2) \in Bytes /\ 224 \in Bytes
    BY ByteType DEF Bytes
  <2> QED  BY <2>1
<1>3. ASSUME NEW m \in Modifiers, NEW c \in Seq(Codes)
      PROVE  /\ After(<<e1, e2>>, m)[Len(<<e1, e2>>)] \in Modifiers
             /\ c \o Coded(<<e1, e2>>, m) \in Seq(Codes)
             /\ Behind(Idling(m, c), <<224, ByteOf(e1), 224, ByteOf(e2)>>) =
                    Idling(After(<<e1, e2>>, m)[Len(<<e1, e2>>)], c \o Coded(<<e1, e2>>, m))
  <2>1. /\ After(<<e1, e2>>, m)[Len(<<e1, e2>>)] = Then(Then(m, e1), e2)
        /\ c \o Coded(<<e1, e2>>, m) =
             Append(Append(c, CodeOf(e1, Then(m, e1))), CodeOf(e2, Then(Then(m, e1), e2)))
    BY TwoEvents, Zenon
  <2> QED  BY <1>1, <2>1, ZenonT(60)
<1> QED  BY <1>2, <1>3, ZenonT(60) DEF Matches

(* A key whose bytes change nothing means nothing. *)
LEMMA NothingMatches ==
    ASSUME NEW bytes \in Seq(Bytes), Len(bytes) <= 4,
           \A m \in Modifiers, c \in Seq(Codes) : Behind(Idling(m, c), bytes) = Idling(m, c)
    PROVE  Matches(bytes, <<>>)
<1> DEFINE none == <<>>
<1>1. Len(none) = 0 /\ DOMAIN none = {}
  OBVIOUS
<1> HIDE DEF none
<1>2. ASSUME NEW m \in Modifiers, NEW c \in Seq(Codes)
      PROVE  After(none, m)[Len(none)] = m /\ c \o Coded(none, m) = c
  <2>1. After(none, m)[0] = m
    BY <1>1, AfterEach
  <2>2. Coded(none, m) = [j \in {} |-> CodeOf(none[j], After(none, m)[j])]
    BY <1>1, Zenon DEF Coded, CodeOf
  <2>3. Coded(none, m) = <<>>
    BY <2>2
  <2> QED  BY <1>1, <2>1, <2>3
<1>3. Matches(bytes, none)
  BY <1>2, Zenon DEF Matches
<1> QED  BY <1>3 DEF none

KeepsWord(k) ==
    /\ Matches(k.make, k.pressed) /\ Matches(k.break, k.released)

LEMMA EventsOfKey ==
    ASSUME NEW s \in 1 .. 94, NEW e0, InKeyMap(s)
    PROVE  LET press == Event(s, TRUE, IsLetter(s), IsNumPadKey(s, e0))
               release == Event(s, FALSE, IsLetter(s), IsNumPadKey(s, e0))
           IN  /\ press \in Events /\ Truthful(press, e0) /\ ByteOf(press) = s
               /\ release \in Events /\ Truthful(release, e0) /\ ByteOf(release) = s + 128
<1>1. IsLetter(s) \in BOOLEAN /\ IsNumPadKey(s, e0) \in BOOLEAN
  <2>1. CASE e0
    BY <2>1 DEF IsLetter, IsNumPadKey
  <2>2. CASE ~e0
    BY <2>2 DEF IsLetter, IsNumPadKey
  <2> QED  BY <2>1, <2>2, Zenon
<1> DEFINE letter == IsLetter(s)
           pad == IsNumPadKey(s, e0)
<1> HIDE DEF letter, pad
<1>2. ASSUME NEW p \in BOOLEAN
      PROVE  Event(s, p, letter, pad) \in Events /\ Truthful(Event(s, p, letter, pad), e0)
  <2>1. /\ Event(s, p, letter, pad).scode = s
        /\ Event(s, p, letter, pad).letter = letter /\ Event(s, p, letter, pad).pad = pad
    BY DEF Event
  <2>2. Event(s, p, letter, pad) \in Events
    BY <1>1 DEF Event, Events, letter, pad
  <2> QED  BY <2>1, <2>2, Zenon DEF Truthful, letter, pad
<1>3. ByteOf(Event(s, TRUE, letter, pad)) = s /\ ByteOf(Event(s, FALSE, letter, pad)) = s + 128
  BY DEF ByteOf, Event
<1> QED  BY <1>2, <1>3, Zenon DEF letter, pad

LEMMA MainMatches ==
    ASSUME NEW s \in 1 .. 94, InKeyMap(s)
    PROVE  KeepsWord(Plain(<<>>, s, IsLetter(s), IsNumPadKey(s, FALSE)))
<1> DEFINE press == Event(s, TRUE, IsLetter(s), IsNumPadKey(s, FALSE))
           release == Event(s, FALSE, IsLetter(s), IsNumPadKey(s, FALSE))
<1>1. /\ press \in Events /\ Truthful(press, FALSE) /\ ByteOf(press) = s
      /\ release \in Events /\ Truthful(release, FALSE) /\ ByteOf(release) = s + 128
  BY EventsOfKey, Zenon
<1> HIDE DEF press, release
<1>2. Matches(<<s>>, <<press>>) /\ Matches(<<s + 128>>, <<release>>)
  <2>1. Matches(<<ByteOf(press)>>, <<press>>) /\ Matches(<<ByteOf(release)>>, <<release>>)
    BY <1>1, OneByteMatches
  <2> QED  BY <1>1, <2>1, Zenon
<1>3. <<>> \o <<s>> = <<s>> /\ <<>> \o <<s + 128>> = <<s + 128>>
  OBVIOUS
<1> QED  BY <1>1, <1>2, <1>3, Zenon DEF KeepsWord, Plain, press, release

LEMMA PairOf ==
    ASSUME NEW S, NEW a \in S, NEW b \in S
    PROVE  <<a>> \o <<b>> = <<a, b>>
<1> DEFINE x == <<a>>
           y == <<b>>
           pair == <<a, b>>
<1>1. x \in Seq(S) /\ Len(x) = 1 /\ x[1] = a
  OBVIOUS
<1>2. y \in Seq(S) /\ Len(y) = 1 /\ y[1] = b
  OBVIOUS
<1>3. pair \in Seq(S) /\ Len(pair) = 2 /\ pair[1] = a /\ pair[2] = b
  OBVIOUS
<1> HIDE DEF x, y, pair
<1>4. x \o y \in Seq(S) /\ Len(x \o y) = Len(x) + Len(y)
  BY <1>1, <1>2, ConcatProperties, Zenon
<1>5. Len(x \o y) = 2
  BY <1>1, <1>2, <1>4
<1>6. (x \o y)[1] = x[1] /\ (x \o y)[2] = y[1]
  <2>1. \A j \in 1 .. Len(x) + Len(y) :
            (x \o y)[j] = IF j <= Len(x) THEN x[j] ELSE y[j - Len(x)]
    BY <1>1, <1>2, ConcatProperties, Zenon
  <2> QED  BY <1>1, <1>2, <2>1, SMTT(30)
<1>7. \A j \in 1 .. 2 : (x \o y)[j] = pair[j]
  <2>1. \A j \in 1 .. 2 : j = 1 \/ j = 2
    OBVIOUS
  <2> QED  BY <1>1, <1>2, <1>3, <1>6, <2>1
<1>8. x \o y = pair
  BY <1>3, <1>4, <1>5, <1>7, SeqEqual
<1> QED  BY <1>8 DEF x, y, pair

LEMMA GreyMatches ==
    ASSUME NEW s \in 1 .. 94, InKeyMap(s)
    PROVE  KeepsWord(Plain(<<224>>, s, IsLetter(s), IsNumPadKey(s, TRUE)))
<1> DEFINE press == Event(s, TRUE, IsLetter(s), IsNumPadKey(s, TRUE))
           release == Event(s, FALSE, IsLetter(s), IsNumPadKey(s, TRUE))
<1>1. /\ press \in Events /\ Truthful(press, TRUE) /\ ByteOf(press) = s
      /\ release \in Events /\ Truthful(release, TRUE) /\ ByteOf(release) = s + 128
  BY EventsOfKey, Zenon
<1> HIDE DEF press, release
<1>2. Matches(<<224, s>>, <<press>>) /\ Matches(<<224, s + 128>>, <<release>>)
  <2>1. Matches(<<224, ByteOf(press)>>, <<press>>) /\ Matches(<<224, ByteOf(release)>>, <<release>>)
    BY <1>1, PrefixedMatches
  <2> QED  BY <1>1, <2>1, Zenon
<1>3. <<224>> \o <<s>> = <<224, s>> /\ <<224>> \o <<s + 128>> = <<224, s + 128>>
  <2>1. 224 \in Int /\ s \in Int /\ s + 128 \in Int
    OBVIOUS
  <2>2. <<224>> \o <<s>> = <<224, s>>
    BY <2>1, PairOf, ZenonT(60)
  <2>3. <<224>> \o <<s + 128>> = <<224, s + 128>>
    <3> DEFINE t == s + 128
    <3>1. 224 \in Int /\ t \in Int
      BY <2>1
    <3> HIDE DEF t
    <3>2. <<224>> \o <<t>> = <<224, t>>
      BY <3>1, PairOf, ZenonT(60)
    <3> QED  BY <3>2 DEF t
  <2> QED  BY <2>2, <2>3
<1> QED  BY <1>1, <1>2, <1>3, ZenonT(60) DEF KeepsWord, Plain, press, release

LEMMA SilentMatches ==
    ASSUME NEW s \in 1 .. 94, ~InKeyMap(s)
    PROVE  KeepsWord(Silent(s))
<1>1. ASSUME NEW byte \in {s, s + 128}
      PROVE  Matches(<<byte>>, <<>>)
  <2>1. ASSUME NEW m, NEW c
        PROVE  Behind(Idling(m, c), <<byte>>) = Idling(m, c)
    <3> DEFINE bytes == <<byte>>
    <3>1. Len(bytes) = 1 /\ bytes[1] = byte
      OBVIOUS
    <3>2. KeyHandler(Idling(m, c), byte) = Idling(m, c)
      BY UnknownByte
    <3> HIDE DEF bytes
    <3>3. Behind(Idling(m, c), bytes) = KeyHandler(Idling(m, c), byte)
      BY <3>1, BehindCases
    <3> QED  BY <3>2, <3>3 DEF bytes
  <2>2. byte \in Bytes
    BY DEF Bytes
  <2>3. <<byte>> \in Seq(Bytes) /\ Len(<<byte>>) <= 4
    BY <2>2
  <2> QED  BY <2>1, <2>3, NothingMatches
<1>2. s \in {s, s + 128} /\ s + 128 \in {s, s + 128}
  OBVIOUS
<1>3. Matches(<<s>>, <<>>) /\ Matches(<<s + 128>>, <<>>)
  BY <1>1, <1>2, Zenon
<1> QED  BY <1>3, Zenon DEF KeepsWord, Silent

LEMMA PrintScreenMatches == KeepsWord(PrintScreen)
<1>1. /\ 42 \in 1 .. 94 /\ 55 \in 1 .. 94 /\ InKeyMap(42) /\ InKeyMap(55)
      /\ IsLetter(42) = FALSE /\ IsLetter(55) = FALSE
      /\ IsNumPadKey(42, TRUE) = FALSE /\ IsNumPadKey(55, TRUE) = FALSE
  BY DEF InKeyMap, IsLetter, IsNumPadKey
<1> DEFINE d1 == Event(42, TRUE, FALSE, FALSE)
           d2 == Event(55, TRUE, FALSE, FALSE)
           u1 == Event(55, FALSE, FALSE, FALSE)
           u2 == Event(42, FALSE, FALSE, FALSE)
<1>2. /\ d1 \in Events /\ Truthful(d1, TRUE) /\ ByteOf(d1) = 42
      /\ u2 \in Events /\ Truthful(u2, TRUE) /\ ByteOf(u2) = 42 + 128
  <2> DEFINE p(x, y) == Event(42, TRUE, x, y)
             r(x, y) == Event(42, FALSE, x, y)
             l == IsLetter(42)
             n == IsNumPadKey(42, TRUE)
  <2>1. /\ p(l, n) \in Events /\ Truthful(p(l, n), TRUE) /\ ByteOf(p(l, n)) = 42
        /\ r(l, n) \in Events /\ Truthful(r(l, n), TRUE) /\ ByteOf(r(l, n)) = 42 + 128
    BY <1>1, EventsOfKey
  <2>2. l = FALSE /\ n = FALSE
    BY <1>1
  <2> HIDE DEF l, n
  <2> QED  BY <2>1, <2>2, Zenon
<1>3. /\ d2 \in Events /\ Truthful(d2, TRUE) /\ ByteOf(d2) = 55
      /\ u1 \in Events /\ Truthful(u1, TRUE) /\ ByteOf(u1) = 55 + 128
  <2> DEFINE p(x, y) == Event(55, TRUE, x, y)
             r(x, y) == Event(55, FALSE, x, y)
             l == IsLetter(55)
             n == IsNumPadKey(55, TRUE)
  <2>1. /\ p(l, n) \in Events /\ Truthful(p(l, n), TRUE) /\ ByteOf(p(l, n)) = 55
        /\ r(l, n) \in Events /\ Truthful(r(l, n), TRUE) /\ ByteOf(r(l, n)) = 55 + 128
    BY <1>1, EventsOfKey, ZenonT(60)
  <2>2. l = FALSE /\ n = FALSE
    BY <1>1
  <2> HIDE DEF l, n
  <2> QED  BY <2>1, <2>2, Zenon
<1>4. 42 + 128 = 170 /\ 55 + 128 = 183
  OBVIOUS
<1> HIDE DEF d1, d2, u1, u2
<1>5. /\ Matches(<<224, ByteOf(d1), 224, ByteOf(d2)>>, <<d1, d2>>)
      /\ Matches(<<224, ByteOf(u1), 224, ByteOf(u2)>>, <<u1, u2>>)
  BY <1>2, <1>3, TwiceMatches
<1>6. Matches(<<224, 42, 224, 55>>, <<d1, d2>>) /\ Matches(<<224, 183, 224, 170>>, <<u1, u2>>)
  <2>1. ByteOf(d1) = 42 /\ ByteOf(d2) = 55 /\ ByteOf(u1) = 183 /\ ByteOf(u2) = 170
    BY <1>2, <1>3, <1>4
  <2> QED  BY <1>5, <2>1, Zenon
<1> QED  BY <1>6, Zenon DEF KeepsWord, PrintScreen, d1, d2, u1, u2

LEMMA PauseMatches == KeepsWord(Pause)
<1> DEFINE press == Event(94, TRUE, FALSE, FALSE)
           release == Event(94, FALSE, FALSE, FALSE)
<1>1. /\ press \in Events /\ Truthful(press, FALSE) /\ ByteOf(press) = 94
      /\ release \in Events /\ Truthful(release, FALSE) /\ ByteOf(release) = 222
  <2>1. /\ 94 \in 1 .. 94 /\ InKeyMap(94) /\ IsLetter(94) = FALSE /\ IsNumPadKey(94, FALSE) = FALSE
        /\ 94 + 128 = 222
    BY DEF InKeyMap, IsLetter, IsNumPadKey
  <2>2. /\ press \in Events /\ Truthful(press, FALSE) /\ ByteOf(press) = 94
        /\ release \in Events /\ Truthful(release, FALSE) /\ ByteOf(release) = 94 + 128
    <3> DEFINE p(x, y) == Event(94, TRUE, x, y)
               r(x, y) == Event(94, FALSE, x, y)
               l == IsLetter(94)
               e0 == FALSE
               n == IsNumPadKey(94, e0)
    <3>1. l = FALSE /\ n = FALSE
      BY <2>1
    <3>2. 94 \in 1 .. 94 /\ InKeyMap(94)
      BY <2>1
    <3> HIDE DEF e0
    <3>3. /\ p(l, n) \in Events /\ Truthful(p(l, n), e0) /\ ByteOf(p(l, n)) = 94
          /\ r(l, n) \in Events /\ Truthful(r(l, n), e0) /\ ByteOf(r(l, n)) = 94 + 128
      BY <3>2, EventsOfKey
    <3> HIDE DEF l, n
    <3> QED  BY <3>1, <3>3, Zenon DEF e0
  <2> QED  BY <2>1, <2>2, ZenonT(60)
<1> HIDE DEF press, release
<1>2. ASSUME NEW m \in Modifiers, NEW c \in Seq(Codes)
      PROVE  LET n1 == Then(m, press)
                 n2 == Then(n1, release)
                 c1 == Append(c, CodeOf(press, n1))
                 c2 == Append(c1, CodeOf(release, n2))
             IN  /\ n2 \in Modifiers /\ c2 \in Seq(Codes)
                 /\ KeyHandler(KeyHandler(Idling(m, c), 94), 222) = Idling(n2, c2)
  <2> DEFINE n1 == Then(m, press)
             n2 == Then(n1, release)
             c1 == Append(c, CodeOf(press, n1))
             c2 == Append(c1, CodeOf(release, n2))
  <2>1. n1 \in Modifiers /\ CodeOf(press, n1) \in Codes
    BY <1>1, ThenType, CodeType
  <2>2. n2 \in Modifiers /\ CodeOf(release, n2) \in Codes
    BY <1>1, <2>1, ThenType, CodeType
  <2>3. KeyHandler(Idling(m, c), ByteOf(press)) = Idling(n1, c1)
    BY <1>1, CodeByte, ZenonT(60) DEF Idling
  <2>4. KeyHandler(Idling(n1, c1), ByteOf(release)) = Idling(n2, c2)
    <3> HIDE DEF n1, c1
    <3> QED  BY <1>1, <2>1, CodeByte, ZenonT(60) DEF Idling
  <2>5. c2 \in Seq(Codes)
    BY <2>1, <2>2
  <2> QED  BY <1>1, <2>2, <2>3, <2>4, <2>5, Zenon
<1>3. ASSUME NEW m \in Modifiers, NEW c \in Seq(Codes)
      PROVE  /\ After(<<press, release>>, m)[Len(<<press, release>>)] \in Modifiers
             /\ c \o Coded(<<press, release>>, m) \in Seq(Codes)
             /\ KeyHandler(KeyHandler(Idling(m, c), 94), 222) =
                    Idling(After(<<press, release>>, m)[Len(<<press, release>>)],
                           c \o Coded(<<press, release>>, m))
  <2>1. /\ After(<<press, release>>, m)[Len(<<press, release>>)] = Then(Then(m, press), release)
        /\ c \o Coded(<<press, release>>, m) =
             Append(Append(c, CodeOf(press, Then(m, press))),
                    CodeOf(release, Then(Then(m, press), release)))
    <3>1. press \in Events /\ release \in Events
      BY <1>1
    <3> QED  BY <3>1, TwoEvents, Zenon
  <2> QED  BY <1>2, <2>1, ZenonT(60)
<1>4. Matches(cPauseCode, <<press, release>>)
  BY <1>3, Zenon DEF Matches
<1>5. ASSUME NEW m, NEW c
      PROVE  Behind(Idling(m, c), <<>>) = Idling(m, c)
  BY BehindCases
<1>6. <<>> \in Seq(Bytes) /\ Len(<<>>) <= 4
  OBVIOUS
<1>7. Matches(<<>>, <<>>)
  BY <1>5, <1>6, NothingMatches
<1> QED  BY <1>4, <1>7, Zenon DEF KeepsWord, Pause, cPauseCode, press, release

LEMMA KeysMatch ==
    ASSUME NEW k \in Key
    PROVE  KeepsWord(k)
<1>1. \A s \in LetterCodes : KeepsWord(Plain(<<>>, s, TRUE, FALSE))
  <2>1. \A s \in LetterCodes :
            s \in 1 .. 94 /\ InKeyMap(s) /\ IsLetter(s) = TRUE /\ IsNumPadKey(s, FALSE) = FALSE
    BY DEF LetterCodes, InKeyMap, IsLetter, IsNumPadKey
  <2> QED  BY <2>1, MainMatches, Zenon
<1>2. \A s \in PadCodes : KeepsWord(Plain(<<>>, s, FALSE, TRUE))
  <2>1. \A s \in PadCodes :
            s \in 1 .. 94 /\ InKeyMap(s) /\ IsLetter(s) = FALSE /\ IsNumPadKey(s, FALSE) = TRUE
    BY DEF PadCodes, InKeyMap, IsLetter, IsNumPadKey
  <2> QED  BY <2>1, MainMatches, Zenon
<1>3. \A s \in MainCodes : KeepsWord(Plain(<<>>, s, FALSE, FALSE))
  <2>1. \A s \in MainCodes :
            s \in 1 .. 94 /\ InKeyMap(s) /\ IsLetter(s) = FALSE /\ IsNumPadKey(s, FALSE) = FALSE
    BY DEF MainCodes, LetterCodes, PadCodes, InKeyMap, IsLetter, IsNumPadKey
  <2> QED  BY <2>1, MainMatches, Zenon
<1>4. \A s \in {28, 53} : KeepsWord(Plain(<<224>>, s, FALSE, TRUE))
  <2>1. \A s \in {28, 53} :
            s \in 1 .. 94 /\ InKeyMap(s) /\ IsLetter(s) = FALSE /\ IsNumPadKey(s, TRUE) = TRUE
    BY DEF InKeyMap, IsLetter, IsNumPadKey
  <2> QED  BY <2>1, GreyMatches, ZenonT(60)
<1>5. \A s \in GreyCodes : KeepsWord(Plain(<<224>>, s, FALSE, FALSE))
  <2>1. \A s \in GreyCodes :
            s \in 1 .. 94 /\ InKeyMap(s) /\ IsLetter(s) = FALSE /\ IsNumPadKey(s, TRUE) = FALSE
    BY DEF GreyCodes, InKeyMap, IsLetter, IsNumPadKey
  <2> QED  BY <2>1, GreyMatches, ZenonT(60)
<1>6. \A s \in {85, 86, 89, 90} : KeepsWord(Silent(s))
  <2>1. \A s \in {85, 86, 89, 90} : s \in 1 .. 94 /\ ~InKeyMap(s)
    BY DEF InKeyMap
  <2> QED  BY <2>1, SilentMatches, Zenon
<1>7. CASE k \in PlainKeys
  <2> USE <1>7 DEF PlainKeys
  <2>1. CASE k \in {Plain(<<>>, s, TRUE, FALSE) : s \in LetterCodes}
    BY <1>1, <2>1, Zenon
  <2>2. CASE k \in {Plain(<<>>, s, FALSE, TRUE) : s \in PadCodes}
    BY <1>2, <2>2, Zenon
  <2>3. CASE k \in {Plain(<<>>, s, FALSE, FALSE) : s \in MainCodes}
    BY <1>3, <2>3, Zenon
  <2>4. CASE k \in {Plain(<<224>>, s, FALSE, TRUE) : s \in {28, 53}}
    BY <1>4, <2>4, Zenon
  <2>5. CASE k \in {Plain(<<224>>, s, FALSE, FALSE) : s \in GreyCodes}
    BY <1>5, <2>5, Zenon
  <2> QED  BY <2>1, <2>2, <2>3, <2>4, <2>5, Zenon
<1>8. CASE k \in {Silent(s) : s \in {85, 86, 89, 90}}
  <2>1. PICK s \in {85, 86, 89, 90} : k = Silent(s)
    BY <1>8
  <2> QED  BY <1>6, <2>1
<1> QED  BY <1>7, <1>8, KeyAssumption, PrintScreenMatches, PauseMatches, Zenon

-----------------------------------------------------------------------------
(* What a key does to the modifiers: shift is set to on if sh, and else     *)
(* left alone; the locks are turned over or left alone.                     *)
Steers(events, sh, on, caps, num) ==
    \A m \in Modifiers :
        LET n == After(events, m)[Len(events)]
        IN  /\ n.shift = IF sh THEN on ELSE m.shift
            /\ n.caps = IF caps THEN ~m.caps ELSE m.caps
            /\ n.num = IF num THEN ~m.num ELSE m.num

Steady(events) ==
    \A m \in Modifiers, j \in 1 .. Len(events) :
        After(events, m)[j] = After(events, m)[Len(events)]

KeySteers(k) ==
    /\ k.pressed \in Seq(Events) /\ k.released \in Seq(Events)
    /\ Steers(k.pressed, k \in ShiftKeys \cup {PrintScreen}, TRUE, k = CapsLockKey, k = NumLockKey)
    /\ Steers(k.released, k \in ShiftKeys \cup {PrintScreen}, FALSE, FALSE, FALSE)
    /\ k # PrintScreen => Steady(k.pressed) /\ Steady(k.released)

LEMMA ThenFields ==
    ASSUME NEW e \in Events, NEW m \in Modifiers
    PROVE  /\ Then(m, e).shift = IF IsShift(e.scode) THEN e.pressed ELSE m.shift
           /\ Then(m, e).caps = IF IsCapsLock(e.scode) /\ e.pressed THEN ~m.caps ELSE m.caps
           /\ Then(m, e).num = IF IsNumLock(e.scode) /\ e.pressed THEN ~m.num ELSE m.num
<1>1. m.caps \in BOOLEAN /\ m.num \in BOOLEAN /\ e.pressed \in BOOLEAN
  BY DEF Modifiers, Events
<1>2. IsCapsLock(e.scode) \in BOOLEAN /\ IsNumLock(e.scode) \in BOOLEAN
  BY DEF IsCapsLock, IsNumLock
<1>3. /\ Then(m, e).shift = IF IsShift(e.scode) THEN e.pressed ELSE m.shift
      /\ Then(m, e).caps = (m.caps # (IsCapsLock(e.scode) /\ e.pressed))
      /\ Then(m, e).num = (m.num # (IsNumLock(e.scode) /\ e.pressed))
  BY DEF Then, Modified
<1>4. (m.caps # (IsCapsLock(e.scode) /\ e.pressed)) =
            IF IsCapsLock(e.scode) /\ e.pressed THEN ~m.caps ELSE m.caps
  BY <1>1, <1>2, Zenon
<1>5. (m.num # (IsNumLock(e.scode) /\ e.pressed)) =
            IF IsNumLock(e.scode) /\ e.pressed THEN ~m.num ELSE m.num
  BY <1>1, <1>2, Zenon
<1> QED  BY <1>3, <1>4, <1>5, Zenon

LEMMA OneSteers ==
    ASSUME NEW e \in Events
    PROVE  /\ <<e>> \in Seq(Events) /\ Steady(<<e>>)
           /\ Steers(<<e>>, IsShift(e.scode), e.pressed, IsCapsLock(e.scode) /\ e.pressed,
                     IsNumLock(e.scode) /\ e.pressed)
<1>1. ASSUME NEW m \in Modifiers
      PROVE  After(<<e>>, m)[Len(<<e>>)] = Then(m, e)
  <2>1. <<>> \in Seq(Codes)
    OBVIOUS
  <2> QED  BY <2>1, OneEvent, Zenon
<1>2. <<e>> \in Seq(Events) /\ Len(<<e>>) = 1 /\ 1 .. Len(<<e>>) = {1}
  OBVIOUS
<1>3. Steady(<<e>>)
  BY <1>2 DEF Steady
<1>4. Steers(<<e>>, IsShift(e.scode), e.pressed, IsCapsLock(e.scode) /\ e.pressed,
             IsNumLock(e.scode) /\ e.pressed)
  <2>1. ASSUME NEW m \in Modifiers
        PROVE  LET n == After(<<e>>, m)[Len(<<e>>)]
               IN  /\ n.shift = IF IsShift(e.scode) THEN e.pressed ELSE m.shift
                   /\ n.caps = IF IsCapsLock(e.scode) /\ e.pressed THEN ~m.caps ELSE m.caps
                   /\ n.num = IF IsNumLock(e.scode) /\ e.pressed THEN ~m.num ELSE m.num
    <3> DEFINE n == After(<<e>>, m)[Len(<<e>>)]
               shift == IF IsShift(e.scode) THEN e.pressed ELSE m.shift
               caps == IF IsCapsLock(e.scode) /\ e.pressed THEN ~m.caps ELSE m.caps
               num == IF IsNumLock(e.scode) /\ e.pressed THEN ~m.num ELSE m.num
    <3>1. Then(m, e).shift = shift /\ Then(m, e).caps = caps /\ Then(m, e).num = num
      BY ThenFields
    <3>2. n = Then(m, e)
      BY <1>1
    <3> HIDE DEF n, shift, caps, num
    <3>3. n.shift = shift /\ n.caps = caps /\ n.num = num
      BY <3>1, <3>2
    <3> QED  BY <3>3 DEF n, shift, caps, num
  <2> QED  BY <2>1, Zenon DEF Steers
<1> QED  BY <1>2, <1>3, <1>4

LEMMA NoneSteers ==
    ASSUME NEW on
    PROVE  <<>> \in Seq(Events) /\ Steady(<<>>) /\ Steers(<<>>, FALSE, on, FALSE, FALSE)
<1> DEFINE none == <<>>
<1>1. none \in Seq(Events) /\ Len(none) = 0 /\ 1 .. Len(none) = {}
  OBVIOUS
<1> HIDE DEF none
<1>2. \A m : After(none, m)[Len(none)] = m
  BY <1>1, AfterEach
<1>3. Steady(none)
  BY <1>1, Zenon DEF Steady
<1>4. Steers(none, FALSE, on, FALSE, FALSE)
  BY <1>2, Zenon DEF Steers
<1> QED  BY <1>1, <1>3, <1>4 DEF none

LEMMA TwoSteer ==
    ASSUME NEW e1 \in Events, NEW e2 \in Events, NEW m \in Modifiers
    PROVE  /\ <<e1, e2>> \in Seq(Events) /\ Len(<<e1, e2>>) = 2
           /\ Then(m, e1) \in Modifiers
           /\ After(<<e1, e2>>, m)[1] = Then(m, e1)
           /\ After(<<e1, e2>>, m)[2] = Then(Then(m, e1), e2)
<1> DEFINE events == <<e1, e2>>
<1>1. /\ events \in Seq(Events) /\ Len(events) = 2 /\ Len(events) \in 0 .. 2
      /\ Len(events) >= 1 /\ events[1] = e1 /\ events[2] = e2
  OBVIOUS
<1> HIDE DEF events
<1>2. /\ After(events, m)[1] = Modified(m, events[1].scode, events[1].pressed)
      /\ After(events, m)[2] = Modified(After(events, m)[1], events[2].scode, events[2].pressed)
  BY <1>1, AfterEach
<1>3. After(events, m)[1] = Then(m, e1) /\ After(events, m)[2] = Then(Then(m, e1), e2)
  BY <1>1, <1>2, Zenon DEF Then
<1>4. Then(m, e1) \in Modifiers
  BY ThenType
<1> QED  BY <1>1, <1>3, <1>4 DEF events

(* Keys told apart by the first scan code they press. *)
LEMMA FirstOf ==
    ASSUME NEW prefix, NEW s, NEW letter, NEW pad
    PROVE  /\ Len(Plain(prefix, s, letter, pad).pressed) = 1
           /\ Plain(prefix, s, letter, pad).pressed[1].scode = s
<1> DEFINE e == Event(s, TRUE, letter, pad)
<1>1. Plain(prefix, s, letter, pad).pressed = <<e>>
  BY Zenon DEF Plain
<1>2. e.scode = s
  BY DEF Event
<1> HIDE DEF e
<1>3. Len(<<e>>) = 1 /\ <<e>>[1] = e
  OBVIOUS
<1> QED  BY <1>1, <1>2, <1>3, Zenon

Simple(s) == Plain(<<>>, s, FALSE, FALSE)

LEMMA FirstOfSimple ==
    ASSUME NEW s
    PROVE  Len(Simple(s).pressed) = 1 /\ Simple(s).pressed[1].scode = s
<1> DEFINE no == FALSE
<1>1. /\ Len(Plain(<<>>, s, no, no).pressed) = 1
      /\ Plain(<<>>, s, no, no).pressed[1].scode = s
  <2> HIDE DEF no
  <2> QED  BY FirstOf
<1> QED  BY <1>1, Zenon DEF Simple

LEMMA NoSteeringKey ==
    ASSUME NEW k, Len(k.pressed) # 1 \/ k.pressed[1].scode \notin {42, 54, 58, 69}
    PROVE  k \notin ShiftKeys /\ k # CapsLockKey /\ k # NumLockKey
<1>1. ASSUME NEW t \in {42, 54, 58, 69}
      PROVE  k # Plain(<<>>, t, FALSE, FALSE)
  <2>1. k # Simple(t)
    BY FirstOfSimple
  <2> QED  BY <2>1 DEF Simple
<1>2. \A t \in {42, 54} : k # Plain(<<>>, t, FALSE, FALSE)
  BY <1>1
<1>3. k \notin ShiftKeys
  BY <1>2, Zenon DEF ShiftKeys
<1>4. k # CapsLockKey /\ k # NumLockKey
  BY <1>1 DEF CapsLockKey, NumLockKey
<1> QED  BY <1>3, <1>4

LEMMA PlainSteers ==
    ASSUME NEW s \in 1 .. 94, NEW letter \in BOOLEAN, NEW pad \in BOOLEAN, NEW prefix,
           s \in {42, 54, 58, 69} => prefix = <<>> /\ letter = FALSE /\ pad = FALSE
    PROVE  KeySteers(Plain(prefix, s, letter, pad))
<1> DEFINE k == Plain(prefix, s, letter, pad)
           press == Event(s, TRUE, letter, pad)
           release == Event(s, FALSE, letter, pad)
<1>1. k.pressed = <<press>> /\ k.released = <<release>>
  BY Zenon DEF Plain
<1>2. /\ press \in Events /\ press.scode = s /\ press.pressed = TRUE
      /\ release \in Events /\ release.scode = s /\ release.pressed = FALSE
  BY DEF Event, Events
<1>3. ASSUME NEW t \in {42, 54, 58, 69}
      PROVE  k = Plain(<<>>, t, FALSE, FALSE) <=> s = t
  <2>1. CASE s = t
    BY <2>1
  <2>2. CASE s # t
    <3>1. Simple(t).pressed[1].scode = t
      BY FirstOfSimple
    <3>2. k.pressed[1].scode = s
      BY FirstOf, SMT
    <3> HIDE DEF k
    <3> QED  BY <2>2, <3>1, <3>2, Zenon DEF Simple
  <2> QED  BY <2>1, <2>2
<1>4. k # PrintScreen
  <2>1. Len(k.pressed) = 1
    BY FirstOf
  <2>2. Len(PrintScreen.pressed) = 2
    BY DEF PrintScreen
  <2> HIDE DEF k
  <2> QED  BY <2>1, <2>2
<1>5. /\ k \in ShiftKeys \cup {PrintScreen} <=> IsShift(s)
      /\ k = CapsLockKey <=> IsCapsLock(s)
      /\ k = NumLockKey <=> IsNumLock(s)
  <2>1. k \in ShiftKeys <=> s \in {42, 54}
    <3> HIDE DEF k
    <3>1. k \in ShiftKeys <=> k = Plain(<<>>, 42, FALSE, FALSE) \/ k = Plain(<<>>, 54, FALSE, FALSE)
      BY DEF ShiftKeys
    <3> QED  BY <1>3, <3>1
  <2>2. k = CapsLockKey <=> s = 58
    BY <1>3 DEF CapsLockKey
  <2>3. k = NumLockKey <=> s = 69
    BY <1>3 DEF NumLockKey
  <2> QED  BY <1>4, <2>1, <2>2, <2>3 DEF IsShift, IsCapsLock, IsNumLock
<1> HIDE DEF k, press, release
<1>6. /\ <<press>> \in Seq(Events) /\ Steady(<<press>>)
      /\ Steers(<<press>>, IsShift(s), TRUE, IsCapsLock(s) /\ TRUE, IsNumLock(s) /\ TRUE)
  BY <1>2, OneSteers
<1>7. /\ <<release>> \in Seq(Events) /\ Steady(<<release>>)
      /\ Steers(<<release>>, IsShift(s), FALSE, IsCapsLock(s) /\ FALSE, IsNumLock(s) /\ FALSE)
  BY <1>2, OneSteers
<1>8. /\ Steers(<<press>>, k \in ShiftKeys \cup {PrintScreen}, TRUE, k = CapsLockKey, k = NumLockKey)
      /\ Steers(<<release>>, k \in ShiftKeys \cup {PrintScreen}, FALSE, FALSE, FALSE)
  BY <1>5, <1>6, <1>7, Zenon DEF Steers
<1>9. KeySteers(k)
  BY <1>1, <1>6, <1>7, <1>8, Zenon DEF KeySteers
<1> QED  BY <1>9 DEF k

LEMMA SilentSteers ==
    ASSUME NEW s
    PROVE  KeySteers(Silent(s))
<1> DEFINE k == Silent(s)
<1>1. k.pressed = <<>> /\ k.released = <<>>
  BY DEF Silent
<1>2. k \notin ShiftKeys /\ k # CapsLockKey /\ k # NumLockKey /\ k # PrintScreen
  <2>1. Len(k.pressed) = 0
    BY <1>1
  <2>2. Len(PrintScreen.pressed) = 2
    BY DEF PrintScreen
  <2> HIDE DEF k
  <2> QED  BY <2>1, <2>2, NoSteeringKey
<1> HIDE DEF k
<1>3. Steers(<<>>, k \in ShiftKeys \cup {PrintScreen}, TRUE, k = CapsLockKey, k = NumLockKey)
  <2>1. Steers(<<>>, FALSE, TRUE, FALSE, FALSE)
    BY NoneSteers
  <2> QED  BY <1>2, <2>1, Zenon DEF Steers
<1>4. Steers(<<>>, k \in ShiftKeys \cup {PrintScreen}, FALSE, FALSE, FALSE)
  <2>1. Steers(<<>>, FALSE, FALSE, FALSE, FALSE)
    BY NoneSteers
  <2> QED  BY <1>2, <2>1, Zenon DEF Steers
<1>5. KeySteers(k)
  BY <1>1, <1>3, <1>4, NoneSteers, Zenon DEF KeySteers
<1> QED  BY <1>5 DEF k

LEMMA PrintScreenSteers == KeySteers(PrintScreen)
<1> DEFINE k == PrintScreen
           d1 == Event(42, TRUE, FALSE, FALSE)
           d2 == Event(55, TRUE, FALSE, FALSE)
           u1 == Event(55, FALSE, FALSE, FALSE)
           u2 == Event(42, FALSE, FALSE, FALSE)
<1>1. k.pressed = <<d1, d2>> /\ k.released = <<u1, u2>>
  BY DEF PrintScreen
<1>2. /\ d1 \in Events /\ d1.scode = 42 /\ d1.pressed = TRUE
      /\ d2 \in Events /\ d2.scode = 55 /\ d2.pressed = TRUE
      /\ u1 \in Events /\ u1.scode = 55 /\ u1.pressed = FALSE
      /\ u2 \in Events /\ u2.scode = 42 /\ u2.pressed = FALSE
  BY DEF Event, Events
<1>3. k \notin ShiftKeys /\ k # CapsLockKey /\ k # NumLockKey
  <2>1. Len(k.pressed) = 2
    BY <1>1
  <2> HIDE DEF k
  <2> QED  BY <2>1, NoSteeringKey
<1>4. /\ IsShift(42) /\ ~IsCapsLock(42) /\ ~IsNumLock(42)
      /\ ~IsShift(55) /\ ~IsCapsLock(55) /\ ~IsNumLock(55)
  BY DEF IsShift, IsCapsLock, IsNumLock
<1> HIDE DEF d1, d2, u1, u2
<1>5. ASSUME NEW e1 \in Events, NEW e2 \in Events, NEW on,
             \/ e1.scode = 42 /\ e1.pressed = on /\ e2.scode = 55
             \/ e2.scode = 42 /\ e2.pressed = on /\ e1.scode = 55
      PROVE  Steers(<<e1, e2>>, TRUE, on, FALSE, FALSE)
  <2>1. ASSUME NEW m \in Modifiers
        PROVE  LET n == Then(Then(m, e1), e2)
               IN  n.shift = on /\ n.caps = m.caps /\ n.num = m.num
    <3>1. Then(m, e1) \in Modifiers
      BY ThenType
    <3>0. ~IsCapsLock(e1.scode) /\ ~IsNumLock(e1.scode) /\ ~IsCapsLock(e2.scode) /\ ~IsNumLock(e2.scode)
      BY <1>4, <1>5
    <3>2. /\ Then(m, e1).shift = IF IsShift(e1.scode) THEN e1.pressed ELSE m.shift
          /\ Then(m, e1).caps = m.caps /\ Then(m, e1).num = m.num
      BY <3>0, ThenFields, Zenon
    <3> DEFINE l == Then(m, e1)
    <3> HIDE DEF l
    <3>3. /\ Then(l, e2).shift = IF IsShift(e2.scode) THEN e2.pressed ELSE l.shift
          /\ Then(l, e2).caps = l.caps /\ Then(l, e2).num = l.num
      <4>1. l \in Modifiers
        BY <3>1 DEF l
      <4> QED  BY <3>0, <4>1, ThenFields, Zenon
    <3> QED  BY <1>4, <1>5, <3>2, <3>3, ZenonT(60) DEF l
  <2>2. \A m \in Modifiers : After(<<e1, e2>>, m)[Len(<<e1, e2>>)] = Then(Then(m, e1), e2)
    BY TwoSteer, Zenon
  <2> QED  BY <2>1, <2>2, Zenon DEF Steers
<1>6. Steers(<<d1, d2>>, TRUE, TRUE, FALSE, FALSE) /\ Steers(<<u1, u2>>, TRUE, FALSE, FALSE, FALSE)
  BY <1>2, <1>5
<1>7. /\ Steers(<<d1, d2>>, k \in ShiftKeys \cup {PrintScreen}, TRUE, k = CapsLockKey, k = NumLockKey)
      /\ Steers(<<u1, u2>>, k \in ShiftKeys \cup {PrintScreen}, FALSE, FALSE, FALSE)
  BY <1>3, <1>6, Zenon DEF Steers
<1>8. <<d1, d2>> \in Seq(Events) /\ <<u1, u2>> \in Seq(Events)
  BY <1>2
<1> QED  BY <1>1, <1>7, <1>8, Zenon DEF KeySteers

LEMMA PauseSteers == KeySteers(Pause)
<1> DEFINE k == Pause
           press == Event(94, TRUE, FALSE, FALSE)
           release == Event(94, FALSE, FALSE, FALSE)
<1>1. k.pressed = <<press, release>> /\ k.released = <<>> /\ k.break = <<>>
  BY DEF Pause
<1>2. press \in Events /\ press.scode = 94 /\ release \in Events /\ release.scode = 94
  BY DEF Event, Events
<1>3. k \notin ShiftKeys /\ k # CapsLockKey /\ k # NumLockKey /\ k # PrintScreen
  <2>1. k.pressed[1].scode = 94
    <3> HIDE DEF press, release, k
    <3>1. k.pressed[1] = press
      BY <1>1
    <3> QED  BY <1>2, <3>1
  <2>2. PrintScreen.pressed[1].scode = 42
    <3> DEFINE d1 == Event(42, TRUE, FALSE, FALSE)
               d2 == Event(55, TRUE, FALSE, FALSE)
    <3>1. PrintScreen.pressed = <<d1, d2>>
      BY Zenon DEF PrintScreen
    <3>2. d1.scode = 42
      BY DEF Event
    <3> HIDE DEF d1, d2
    <3>3. <<d1, d2>>[1] = d1
      OBVIOUS
    <3> QED  BY <3>1, <3>2, <3>3, Zenon
  <2> HIDE DEF k
  <2> QED  BY <2>1, <2>2, NoSteeringKey
<1> HIDE DEF k, press, release
<1>4. ASSUME NEW m \in Modifiers, NEW e \in Events, e.scode = 94
      PROVE  Then(m, e) = m
  <2>1. ~IsShift(94) /\ ~IsCapsLock(94) /\ ~IsNumLock(94)
    BY DEF IsShift, IsCapsLock, IsNumLock
  <2>2. /\ Then(m, e).shift = m.shift /\ Then(m, e).caps = m.caps /\ Then(m, e).num = m.num
    BY <1>4, <2>1, ThenFields, ZenonT(60)
  <2>3. Then(m, e) \in Modifiers
    BY ThenType
  <2> QED  BY <2>2, <2>3 DEF Modifiers
<1>5. ASSUME NEW m \in Modifiers
      PROVE  /\ <<press, release>> \in Seq(Events) /\ Len(<<press, release>>) = 2
             /\ After(<<press, release>>, m)[1] = m /\ After(<<press, release>>, m)[2] = m
  BY <1>2, <1>4, TwoSteer
<1>6. <<press, release>> \in Seq(Events) /\ 1 .. Len(<<press, release>>) = {1, 2}
  BY <1>2
<1>7. Steers(<<press, release>>, k \in ShiftKeys \cup {PrintScreen}, TRUE, k = CapsLockKey, k = NumLockKey)
  BY <1>3, <1>5, Zenon DEF Steers
<1>8. Steady(<<press, release>>)
  <2> DEFINE events == <<press, release>>
  <2>1. 1 .. Len(events) = {1, 2} /\ Len(events) = 2
    BY <1>6
  <2> HIDE DEF events
  <2>2. \A m \in Modifiers : After(events, m)[1] = m /\ After(events, m)[2] = m
    BY <1>5, Zenon DEF events
  <2>3. Steady(events)
    BY <2>1, <2>2, Zenon DEF Steady
  <2> QED  BY <2>3 DEF events
<1>9. Steers(<<>>, k \in ShiftKeys \cup {PrintScreen}, FALSE, FALSE, FALSE)
  <2>1. Steers(<<>>, FALSE, FALSE, FALSE, FALSE)
    BY NoneSteers
  <2> QED  BY <1>3, <2>1, Zenon DEF Steers
<1>10. KeySteers(k)
  BY <1>1, <1>6, <1>7, <1>8, <1>9, NoneSteers, Zenon DEF KeySteers
<1> QED  BY <1>10 DEF k

LEMMA KeysSteer ==
    ASSUME NEW k \in Key
    PROVE  KeySteers(k)
<1>1. \A s \in LetterCodes : KeySteers(Plain(<<>>, s, TRUE, FALSE))
  <2>1. \A s \in LetterCodes : s \in 1 .. 94 /\ s \notin {42, 54, 58, 69}
    BY DEF LetterCodes
  <2> QED  BY <2>1, PlainSteers, Zenon
<1>2. \A s \in PadCodes : KeySteers(Plain(<<>>, s, FALSE, TRUE))
  <2>1. \A s \in PadCodes : s \in 1 .. 94 /\ s \notin {42, 54, 58, 69}
    BY DEF PadCodes
  <2> QED  BY <2>1, PlainSteers, Zenon
<1>3. \A s \in MainCodes : KeySteers(Plain(<<>>, s, FALSE, FALSE))
  <2>1. \A s \in MainCodes : s \in 1 .. 94
    BY DEF MainCodes
  <2> QED  BY <2>1, PlainSteers, ZenonT(60)
<1>4. \A s \in {28, 53} : KeySteers(Plain(<<224>>, s, FALSE, TRUE))
  <2>1. \A s \in {28, 53} : s \in 1 .. 94 /\ s \notin {42, 54, 58, 69}
    OBVIOUS
  <2> QED  BY <2>1, PlainSteers, ZenonT(60)
<1>5. \A s \in GreyCodes : KeySteers(Plain(<<224>>, s, FALSE, FALSE))
  <2>1. \A s \in GreyCodes : s \in 1 .. 94 /\ s \notin {42, 54, 58, 69}
    BY DEF GreyCodes
  <2> QED  BY <2>1, PlainSteers, Zenon
<1>6. CASE k \in PlainKeys
  <2> USE <1>6 DEF PlainKeys
  <2>1. CASE k \in {Plain(<<>>, s, TRUE, FALSE) : s \in LetterCodes}
    BY <1>1, <2>1, Zenon
  <2>2. CASE k \in {Plain(<<>>, s, FALSE, TRUE) : s \in PadCodes}
    BY <1>2, <2>2, Zenon
  <2>3. CASE k \in {Plain(<<>>, s, FALSE, FALSE) : s \in MainCodes}
    BY <1>3, <2>3, Zenon
  <2>4. CASE k \in {Plain(<<224>>, s, FALSE, TRUE) : s \in {28, 53}}
    BY <1>4, <2>4, Zenon
  <2>5. CASE k \in {Plain(<<224>>, s, FALSE, FALSE) : s \in GreyCodes}
    BY <1>5, <2>5, Zenon
  <2> QED  BY <2>1, <2>2, <2>3, <2>4, <2>5, Zenon
<1>7. CASE k \in {Silent(s) : s \in {85, 86, 89, 90}}
  <2>1. PICK s : k = Silent(s)
    BY <1>7
  <2> QED  BY <2>1, SilentSteers, Zenon
<1> QED  BY <1>6, <1>7, KeyAssumption, PrintScreenSteers, PauseSteers, Zenon

-----------------------------------------------------------------------------
(* The steps.  Between keys the decoder is idle.                            *)
LEMMA AtRest ==
    ASSUME NEW m, NEW c, KeyPending(m, c) \/ PausePending(m, c), line = <<>>
    PROVE  cPause = 0 /\ decoder = Idling(m, c)
<1>1. Len(line) = 0
  OBVIOUS
<1>2. ~PausePending(m, c)
  BY <1>1 DEF PausePending
<1> QED  BY <1>1, <1>2, BehindCases DEF KeyPending

LEMMA SendsKeeps ==
    ASSUME NEW m \in Modifiers, NEW c \in Seq(Codes), KeyPending(m, c) \/ PausePending(m, c),
           NEW bytes, NEW events, Matches(bytes, events), Sends(bytes, events),
           NEW n, NEW t, n = After(events, m)[Len(events)], t = c \o Coded(events, m)
    PROVE  /\ n \in Modifiers /\ t \in Seq(Codes)
           /\ KeyPending(n, t)' \/ PausePending(n, t)'
<1>1. line = <<>> /\ line' = bytes /\ cPause' = cPause /\ decoder' = decoder
  BY DEF Sends
<1>2. cPause = 0 /\ decoder = Idling(m, c)
  BY <1>1, AtRest
<1>3. /\ n \in Modifiers /\ t \in Seq(Codes)
      /\ \/ /\ bytes \in Seq(Bytes) /\ Len(bytes) <= 4
            /\ Behind(Idling(m, c), bytes) = Idling(n, t)
         \/ /\ bytes = cPauseCode
            /\ KeyHandler(KeyHandler(Idling(m, c), 94), 222) = Idling(n, t)
  BY ZenonT(60) DEF Matches
<1>4. ASSUME bytes \in Seq(Bytes), Len(bytes) <= 4, Behind(Idling(m, c), bytes) = Idling(n, t)
      PROVE  KeyPending(n, t)'
  BY <1>1, <1>2, <1>4 DEF KeyPending
<1>5. ASSUME bytes = cPauseCode, KeyHandler(KeyHandler(Idling(m, c), 94), 222) = Idling(n, t)
      PROVE  PausePending(n, t)'
  <2>1. cPauseCode \in Seq(Int) /\ Len(cPauseCode) = 6
    BY DEF cPauseCode
  <2> QED  BY <1>1, <1>2, <1>5, <2>1 DEF PausePending
<1> QED  BY <1>3, <1>4, <1>5, Zenon

LEMMA ByteKeeps ==
    ASSUME NEW m, NEW c, KeyPending(m, c) \/ PausePending(m, c), KeyBoardHandler
    PROVE  KeyPending(m, c)' \/ PausePending(m, c)'
<1>0. /\ line # <<>> /\ PutScanCode(Head(line)) /\ line' = Tail(line)
  BY DEF KeyBoardHandler
<1>1. CASE KeyPending(m, c)
  <2>0. line \in Seq(Bytes) /\ Len(line) <= 4 /\ cPause = 0
    BY <1>1 DEF KeyPending
  <2>1. Head(line) \in Bytes /\ line' \in Seq(Bytes) /\ Len(line') = Len(line) - 1
    BY <1>0, <2>0, HeadTailProperties
  <2>2. Len(line') <= 4
    BY <2>0, <2>1, LenProperties
  <2>3. Head(line) # 225
    <3>1. Head(line) \in Bytes
      BY <2>1
    <3> QED  BY <3>1 DEF Bytes
  <2>4. cPause' = 0 /\ decoder' = KeyHandler(decoder, Head(line))
    BY <1>0, <2>0, <2>3 DEF PutScanCode, PauseEnds
  <2>5. Behind(decoder, line) = Behind(decoder', line')
    BY <1>0, <2>0, <2>4, BehindTail
  <2> QED  BY <1>0, <1>1, <2>1, <2>2, <2>4, <2>5 DEF KeyPending
<1>2. CASE PausePending(m, c)
  <2>0. /\ cPause \in 0 .. 5 /\ line \in Seq(Int) /\ Len(line) = 6 - cPause
        /\ \A j \in 1 .. 6 - cPause : line[j] = cPauseCode[cPause + j]
        /\ KeyHandler(KeyHandler(decoder, 94), 222) = Idling(m, c)
    BY <1>2 DEF PausePending
  <2>1. Head(line) = cPauseCode[cPause + 1]
    <3>1. 1 \in 1 .. 6 - cPause
      BY <2>0
    <3>2. Head(line) = line[1]
      BY <1>0, <2>0
    <3> QED  BY <2>0, <3>1, <3>2
  <2>2. line' \in Seq(Int) /\ Len(line') = 5 - cPause
        /\ \A j \in 1 .. 5 - cPause : line'[j] = line[j + 1]
    BY <1>0, <2>0, HeadTailProperties
  <2>3. Head(line) = 225 \/ cPause > 0
    BY <2>0, <2>1, SMTT(30) DEF cPauseCode
  <2>4. Len(cPauseCode) = 6
    BY DEF cPauseCode
  <2>5. CASE cPause = 5
    <3>1. cPause' = 0 /\ decoder' = Idling(m, c)
      BY <1>0, <2>0, <2>1, <2>3, <2>4, <2>5 DEF PutScanCode, PauseEnds
    <3>2. line' = <<>> /\ Len(line') = 0
      BY <2>2, <2>5
    <3>3. line' \in Seq(Bytes) /\ Len(line') <= 4
      BY <3>2
    <3>4. Behind(decoder', line') = Idling(m, c)
      BY <1>0, <3>1, <3>2, BehindCases
    <3> QED  BY <3>1, <3>3, <3>4 DEF KeyPending
  <2>6. CASE cPause \in 0 .. 4
    <3>1. cPause' = cPause + 1 /\ decoder' = decoder
      BY <1>0, <2>1, <2>3, <2>4, <2>6 DEF PutScanCode
    <3>2. cPause' \in 0 .. 5 /\ Len(line') = 6 - cPause'
      BY <2>2, <2>6, <3>1
    <3>3. \A j \in 1 .. 6 - cPause' : line'[j] = cPauseCode[cPause' + j]
      <4>1. ASSUME NEW j \in 1 .. 6 - cPause'
            PROVE  line'[j] = cPauseCode[cPause' + j]
        <5>1. /\ j \in 1 .. 5 - cPause /\ j + 1 \in 1 .. 6 - cPause
              /\ cPause + (j + 1) = cPause' + j
          BY <2>6, <3>1
        <5> QED  BY <2>0, <2>2, <5>1
      <4> QED  BY <4>1
    <3> QED  BY <1>0, <2>0, <2>2, <3>1, <3>2, <3>3 DEF PausePending
  <2> QED  BY <2>0, <2>5, <2>6
<1> QED  BY <1>1, <1>2

(* The codes of a key are accepted, if the modifiers it leads to are those  *)
(* of the user or every character is.                                       *)
LEMMA SendsAccepted ==
    ASSUME NEW m \in Modifiers, NEW c \in Seq(Codes), meant \in Seq(Wants), AllAccepted(c, meant),
           NEW bytes, NEW events \in Seq(Events), Sends(bytes, events),
           Coded(events, m) \in Seq(Codes),
           \A j \in 1 .. Len(events) : Coded(events, m)[j].column \in Accepted(events[j]),
           \A j \in 1 .. Len(events) : Accepted(events[j]) \subseteq {1, 2}
    PROVE  meant' \in Seq(Wants) /\ AllAccepted(c \o Coded(events, m), meant')
<1> DEFINE N == Len(events)
           a == Coded(events, m)
           w == [j \in DOMAIN events |->
                    [scode |-> events[j].scode, pressed |-> events[j].pressed,
                     columns |-> Accepted(events[j])]]
<1>1. meant' = meant \o w
  BY Zenon DEF Sends
<1>2. N \in Nat /\ DOMAIN events = 1 .. N
  OBVIOUS
<1>3. \A j \in 1 .. N :
        /\ w[j] \in Wants
        /\ a[j].scode = w[j].scode /\ a[j].pressed = w[j].pressed /\ a[j].column \in w[j].columns
  <2>1. ASSUME NEW j \in 1 .. N
        PROVE  /\ w[j] \in Wants
               /\ a[j].scode = w[j].scode /\ a[j].pressed = w[j].pressed /\ a[j].column \in w[j].columns
    <3>1. events[j] \in Events
      OBVIOUS
    <3>2. w[j] = [scode |-> events[j].scode, pressed |-> events[j].pressed,
                  columns |-> Accepted(events[j])]
      BY <1>2
    <3>3. a[j].scode = events[j].scode /\ a[j].pressed = events[j].pressed
      BY <1>2 DEF Coded
    <3>4. a[j].column \in Accepted(events[j]) /\ Accepted(events[j]) \in SUBSET {1, 2}
      OBVIOUS
    <3> HIDE DEF a, w
    <3> QED  BY <3>1, <3>2, <3>3, <3>4 DEF Wants, Events
  <2> QED  BY <2>1
<1>4. a \in Seq(Codes) /\ Len(a) = N
  <2>1. DOMAIN a = 1 .. N
    BY <1>2 DEF Coded
  <2> QED  BY <1>2, <2>1
<1>5. w \in Seq(Wants) /\ Len(w) = N
  <2>1. w = [j \in 1 .. N |-> w[j]]
    BY <1>2
  <2> HIDE DEF w
  <2> QED  BY <1>2, <1>3, <2>1
<1> HIDE DEF a, w, N
<1>6. meant' \in Seq(Wants)
  BY <1>1, <1>5
<1>7. AllAccepted(c \o a, meant \o w)
  <2>1. /\ Len(c \o a) = Len(c) + N /\ Len(meant \o w) = Len(meant) + N /\ Len(c) = Len(meant)
        /\ Len(c) \in Nat
    <3>1. Len(c) = Len(meant)
      BY DEF AllAccepted
    <3>2. Len(c \o a) = Len(c) + N /\ Len(c) \in Nat
      BY <1>4, ConcatProperties, LenProperties
    <3>3. Len(meant \o w) = Len(meant) + N
      BY <1>5, ConcatProperties
    <3> QED  BY <3>1, <3>2, <3>3
  <2>2. ASSUME NEW j \in 1 .. Len(c) + N
        PROVE  /\ (c \o a)[j] = IF j <= Len(c) THEN c[j] ELSE a[j - Len(c)]
               /\ (meant \o w)[j] = IF j <= Len(c) THEN meant[j] ELSE w[j - Len(c)]
    <3>1. j \in 1 .. Len(c) + Len(a) /\ j \in 1 .. Len(meant) + Len(w)
      BY <1>4, <1>5, <2>1
    <3>2. (c \o a)[j] = IF j <= Len(c) THEN c[j] ELSE a[j - Len(c)]
      BY <1>4, <3>1, ConcatProperties
    <3>3. (meant \o w)[j] = IF j <= Len(meant) THEN meant[j] ELSE w[j - Len(meant)]
      BY <1>5, <3>1, ConcatProperties
    <3> QED  BY <2>1, <3>2, <3>3
  <2>3. ASSUME NEW j \in 1 .. Len(c) + N
        PROVE  Accepts((c \o a)[j], (meant \o w)[j])
    <3>1. CASE j <= Len(c)
      <4>1. j \in 1 .. Len(c)
        BY <1>2, <2>1, <3>1
      <4>2. Accepts(c[j], meant[j])
        BY <4>1 DEF AllAccepted
      <4> QED  BY <2>2, <3>1, <4>2, Zenon
    <3>2. CASE ~(j <= Len(c))
      <4>1. j - Len(c) \in 1 .. N
        BY <1>2, <2>1, <3>2
      <4>2. Accepts(a[j - Len(c)], w[j - Len(c)])
        BY <1>3, <4>1 DEF Accepts
      <4> QED  BY <2>2, <3>2, <4>2, Zenon
    <3> QED  BY <3>1, <3>2
  <2> QED  BY <2>1, <2>3 DEF AllAccepted
<1> QED  BY <1>1, <1>6, <1>7 DEF a

(* A key that goes down or up: on says which. *)
LEMMA KeyKeeps ==
    ASSUME UserType, OneSender,
           NEW m \in Modifiers, NEW c \in Seq(Codes), KeyPending(m, c) \/ PausePending(m, c),
           Follows(m), AllAccepted(c, meant),
           NEW k, NEW bytes, NEW events \in Seq(Events), NEW on \in BOOLEAN,
           Matches(bytes, events), Sends(bytes, events),
           down' = IF on THEN down \cup {k} ELSE down \ {k},
           NEW caps \in BOOLEAN, NEW num \in BOOLEAN,
           Steers(events, k \in ShiftKeys \cup {PrintScreen}, on, caps, num),
           k # PrintScreen => Steady(events),
           k \in down \cup down',
           locks' = [caps |-> IF caps THEN ~locks.caps ELSE locks.caps,
                     num |-> IF num THEN ~locks.num ELSE locks.num]
    PROVE  KInv'
<1> DEFINE sender == k \in ShiftKeys \cup {PrintScreen}
<1>1. PICK n, t : n = After(events, m)[Len(events)] /\ t = c \o Coded(events, m)
  OBVIOUS
<1>2. n \in Modifiers /\ t \in Seq(Codes) /\ (KeyPending(n, t)' \/ PausePending(n, t)')
  BY <1>1, SendsKeeps
<1>3. /\ n.shift = IF sender THEN on ELSE m.shift
      /\ n.caps = IF caps THEN ~m.caps ELSE m.caps
      /\ n.num = IF num THEN ~m.num ELSE m.num
  BY <1>1, Zenon DEF Steers
<1>4. overlapped' = (SendShift(down') # {} /\ (overlapped \/ \E i, j \in SendShift(down') : i # j))
  BY Zenon DEF Sends
<1>5. SendShift(down') = IF sender THEN IF on THEN SendShift(down) \cup {k} ELSE SendShift(down) \ {k}
                         ELSE SendShift(down)
  BY DEF SendShift
<1>6. OneSender'
  BY <1>4, Zenon DEF OneSender
<1>7. overlapped' \in BOOLEAN /\ locks' \in [caps : BOOLEAN, num : BOOLEAN]
  <2>1. overlapped' \in BOOLEAN
    BY <1>4
  <2>2. locks.caps \in BOOLEAN /\ locks.num \in BOOLEAN
    BY DEF UserType
  <2> QED  BY <2>1, <2>2
<1>8. n.caps = locks'.caps /\ n.num = locks'.num
  <2>1. m.caps = locks.caps /\ m.num = locks.num
    BY DEF Follows
  <2>2. /\ locks'.caps = IF caps THEN ~locks.caps ELSE locks.caps
        /\ locks'.num = IF num THEN ~locks.num ELSE locks.num
    OBVIOUS
  <2> QED  BY <1>3, <2>1, <2>2, Zenon
<1>9. n.shift => SendShift(down') # {}
  <2>1. m.shift => SendShift(down) # {}
    BY DEF Follows
  <2>2. CASE sender /\ on
    BY <1>5, <2>2
  <2>3. CASE sender /\ ~on
    BY <1>3, <2>3, Zenon
  <2>4. CASE ~sender
    BY <1>3, <1>5, <2>1, <2>4, Zenon
  <2> QED  BY <2>2, <2>3, <2>4
<1>10. ASSUME ~overlapped', PrintScreen \notin down'
       PROVE  n.shift = Held(down')
  <2>1. SendShift(down') = {} \/ (~overlapped /\ \A i, j \in SendShift(down') : i = j)
    BY <1>4, <1>10, Zenon
  <2>2. Held(down') = (SendShift(down') # {})
    BY <1>10, Zenon DEF Held, SendShift
  <2>3. CASE sender /\ on
    <3>1. SendShift(down') # {} /\ n.shift = TRUE
      BY <1>3, <1>5, <2>3
    <3> QED  BY <2>2, <3>1
  <2>4. CASE sender /\ ~on
    <3>1. n.shift = FALSE
      BY <1>3, <2>4
    <3>2. SendShift(down') = {}
      <4>1. CASE ~overlapped
        <5>1. \A i, j \in SendShift(down) : i = j
          BY <4>1 DEF OneSender
        <5>2. SendShift(down') = SendShift(down) \ {k}
          BY <1>5, <2>4
        <5>3. CASE k \in down
          <6>1. k \in SendShift(down)
            BY <2>4, <5>3 DEF SendShift
          <6> QED  BY <5>1, <5>2, <6>1
        <5>4. CASE k \notin down
          <6>1. down' = down \ {k}
            BY <2>4
          <6> QED  BY <5>4, <6>1
        <5> QED  BY <5>3, <5>4
      <4> QED  BY <2>1, <4>1
    <3> QED  BY <2>2, <3>1, <3>2
  <2>5. CASE ~sender
    <3>1. n.shift = m.shift /\ SendShift(down') = SendShift(down) /\ m.shift \in BOOLEAN
      BY <1>3, <1>5, <2>5 DEF Modifiers
    <3>2. CASE SendShift(down') = {}
      <4>1. ~m.shift
        BY <3>1, <3>2 DEF Follows
      <4> QED  BY <2>2, <3>1, <3>2, <4>1
    <3>3. CASE ~overlapped /\ SendShift(down') # {}
      <4>1. PrintScreen \notin down
        BY <1>10, <2>5
      <4>2. m.shift = Held(down)
        BY <3>3, <4>1 DEF Follows, Unclear
      <4>3. Held(down) = (SendShift(down) # {})
        BY <4>1, Zenon DEF Held, SendShift
      <4> QED  BY <2>2, <3>1, <4>2, <4>3
    <3> QED  BY <2>1, <3>2, <3>3
  <2> QED  BY <2>3, <2>4, <2>5
<1>11. Follows(n)'
  BY <1>8, <1>9, <1>10, Zenon DEF Follows, Unclear
<1>12. \A j \in 1 .. Len(events) : Accepted(events[j]) \subseteq {1, 2}
  BY DEF Accepted, Column
<1>13. Coded(events, m) \in Seq(Codes)
  <2>1. \A j \in 1 .. Len(events) : Coded(events, m)[j] \in Codes
    <3>1. ASSUME NEW j \in 1 .. Len(events)
          PROVE  Coded(events, m)[j] \in Codes
      <4>1. events[j] \in Events
        OBVIOUS
      <4>2. Coded(events, m)[j] = CodeOf(events[j], After(events, m)[j])
        BY DEF Coded, CodeOf
      <4> QED  BY <4>1, <4>2, CodeType, Zenon
    <3> QED  BY <3>1
  <2>2. Coded(events, m) = [j \in 1 .. Len(events) |-> Coded(events, m)[j]]
    BY DEF Coded
  <2> DEFINE a == Coded(events, m)
  <2> HIDE DEF a
  <2> QED  BY <2>1, <2>2 DEF a
<1>14. \A j \in 1 .. Len(events) : Coded(events, m)[j].column \in Accepted(events[j])
  <2>1. ASSUME NEW j \in 1 .. Len(events)
        PROVE  Coded(events, m)[j].column \in Accepted(events[j])
    <3>1. Coded(events, m)[j].column = Column(events[j].letter, events[j].pad, After(events, m)[j])
      BY DEF Coded
    <3>2. CASE overlapped' \/ PrintScreen \in down \cup down'
      <4>1. Coded(events, m)[j].column \in {1, 2}
        BY <3>1 DEF Column
      <4> QED  BY <3>2, <4>1 DEF Accepted
    <3>3. CASE ~(overlapped' \/ PrintScreen \in down \cup down')
      <4>1. k # PrintScreen
        BY <3>3
      <4>2. After(events, m)[j] = n
        BY <1>1, <4>1, Zenon DEF Steady
      <4>3. n.shift = Held(down')
        BY <1>10, <3>3
      <4>4. n = [shift |-> Held(down'), caps |-> locks'.caps, num |-> locks'.num]
        <5>1. n = [shift |-> n.shift, caps |-> n.caps, num |-> n.num]
          BY <1>2 DEF Modifiers
        <5> QED  BY <1>8, <4>3, <5>1, Zenon
      <4>5. Accepted(events[j]) = {Column(events[j].letter, events[j].pad, n)}
        BY <3>3, <4>4, Zenon DEF Accepted, Held
      <4> QED  BY <3>1, <4>2, <4>5
    <3> QED  BY <3>2, <3>3
  <2> QED  BY <2>1
<1>15. meant' \in Seq(Wants) /\ AllAccepted(t, meant')
  BY <1>1, <1>12, <1>13, <1>14, SendsAccepted DEF UserType
<1> QED  BY <1>2, <1>6, <1>7, <1>11, <1>15, Zenon DEF KInv, UserType, AllAccepted

LEMMA KeyboardStarts == KeyboardInit => KInv
<1> SUFFICES ASSUME KeyboardInit PROVE KInv
  OBVIOUS
<1> USE DEF KeyboardInit
<1>1. NoModifier \in Modifiers /\ ~NoModifier.shift /\ ~NoModifier.caps /\ ~NoModifier.num
  BY DEF NoModifier, Modifiers
<1>2. <<>> \in Seq(Codes) /\ Len(<<>>) = 0 /\ meant \in Seq(Wants) /\ AllAccepted(<<>>, meant)
  BY DEF AllAccepted
<1>3. line \in Seq(Bytes) /\ Len(line) = 0 /\ Len(line) <= 4
  OBVIOUS
<1>4. decoder = Idling(NoModifier, <<>>)
  BY DEF Idling, Decoding
<1>5. Behind(decoder, line) = decoder
  BY <1>3, BehindCases
<1>6. KeyPending(NoModifier, <<>>)
  BY <1>3, <1>4, <1>5 DEF KeyPending
<1>7. SendShift(down) = {} /\ ~Held(down)
  BY DEF SendShift, Held
<1>8. UserType /\ OneSender
  BY <1>2, <1>7 DEF UserType, OneSender
<1>9. Follows(NoModifier)
  <2>1. NoModifier.caps = locks.caps /\ NoModifier.num = locks.num
    BY DEF NoModifier
  <2>2. NoModifier.shift = FALSE
    BY DEF NoModifier
  <2>3. Held(down) = FALSE
    BY <1>7, Zenon DEF Held
  <2> QED  BY <1>1, <2>1, <2>2, <2>3, Zenon DEF Follows
<1> QED  BY <1>1, <1>2, <1>6, <1>8, <1>9 DEF KInv

LEMMA KeyboardSteps == KInv /\ [KeyboardNext]_keyboardVars => KInv'
<1> SUFFICES ASSUME KInv, [KeyboardNext]_keyboardVars PROVE KInv'
  OBVIOUS
<1>0. PICK m \in Modifiers, c \in Seq(Codes) :
            (KeyPending(m, c) \/ PausePending(m, c)) /\ Follows(m) /\ AllAccepted(c, meant)
  BY DEF KInv
<1>u. UserType /\ OneSender
  BY DEF KInv
<1>1. ASSUME NEW k \in Key, Press(k) PROVE KInv'
  <2>1. /\ Sends(k.make, k.pressed) /\ down' = down \cup {k}
        /\ locks' = [caps |-> locks.caps # (k = CapsLockKey), num |-> locks.num # (k = NumLockKey)]
    BY <1>1 DEF Press
  <2>2. KeepsWord(k) /\ KeySteers(k)
    BY KeysMatch, KeysSteer
  <2>3. locks.caps \in BOOLEAN /\ locks.num \in BOOLEAN
    BY <1>u DEF UserType
  <2> DEFINE caps == k = CapsLockKey
             num == k = NumLockKey
             on == TRUE
  <2>4. caps \in BOOLEAN /\ num \in BOOLEAN /\ on \in BOOLEAN
    OBVIOUS
  <2>5. /\ (locks.caps # caps) = IF caps THEN ~locks.caps ELSE locks.caps
        /\ (locks.num # num) = IF num THEN ~locks.num ELSE locks.num
    <3> HIDE DEF caps, num
    <3> QED  BY <2>3, <2>4, Zenon
  <2>6. locks' = [caps |-> IF caps THEN ~locks.caps ELSE locks.caps,
                  num |-> IF num THEN ~locks.num ELSE locks.num]
    BY <2>1, <2>5, Zenon
  <2>7. down' = IF on THEN down \cup {k} ELSE down \ {k}
    BY <2>1
  <2>8. /\ Matches(k.make, k.pressed) /\ k.pressed \in Seq(Events)
        /\ Steers(k.pressed, k \in ShiftKeys \cup {PrintScreen}, on, caps, num)
        /\ k # PrintScreen => Steady(k.pressed)
    BY <2>2, Zenon DEF KeepsWord, KeySteers
  <2>9. k \in down \cup down'
    BY <2>1
  <2> HIDE DEF caps, num, on
  <2> QED  BY <1>0, <1>u, <2>1, <2>4, <2>6, <2>7, <2>8, <2>9, KeyKeeps
<1>2. ASSUME NEW k \in Key, Release(k) PROVE KInv'
  <2>1. Sends(k.break, k.released) /\ down' = down \ {k} /\ k \in down /\ locks' = locks
    BY <1>2 DEF Release
  <2>2. KeepsWord(k) /\ KeySteers(k)
    BY KeysMatch, KeysSteer
  <2> DEFINE no == FALSE
  <2>3. no \in BOOLEAN
    OBVIOUS
  <2>4. locks' = [caps |-> IF no THEN ~locks.caps ELSE locks.caps,
                  num |-> IF no THEN ~locks.num ELSE locks.num]
    BY <1>u, <2>1 DEF UserType
  <2>5. down' = IF no THEN down \cup {k} ELSE down \ {k}
    BY <2>1
  <2>6. /\ Matches(k.break, k.released) /\ k.released \in Seq(Events)
        /\ Steers(k.released, k \in ShiftKeys \cup {PrintScreen}, no, no, no)
        /\ k # PrintScreen => Steady(k.released)
    BY <2>2, Zenon DEF KeepsWord, KeySteers
  <2>7. k \in down \cup down'
    BY <2>1
  <2> HIDE DEF no
  <2> QED  BY <1>0, <1>u, <2>1, <2>3, <2>4, <2>5, <2>6, <2>7, KeyKeeps
<1>3. ASSUME KeyBoardHandler PROVE KInv'
  <2>1. UNCHANGED userVars
    BY <1>3 DEF KeyBoardHandler
  <2>2. KeyPending(m, c)' \/ PausePending(m, c)'
    BY <1>0, <1>3, ByteKeeps
  <2> QED  BY <1>0, <1>u, <2>1, <2>2
      DEF KInv, userVars, UserType, OneSender, Follows, Unclear, AllAccepted
<1>4. ASSUME FetchKeyCode PROVE KInv'
  <2>0. /\ line = <<>> /\ decoder.codes # <<>>
        /\ decoder' = [decoder EXCEPT !.codes = Tail(@)] /\ meant' = Tail(meant)
        /\ line' = line /\ down' = down /\ locks' = locks /\ overlapped' = overlapped
        /\ cPause' = cPause
    BY <1>4 DEF FetchKeyCode
  <2>1. cPause = 0 /\ decoder = Idling(m, c)
    BY <1>0, <2>0, AtRest
  <2>2. c # <<>> /\ decoder' = Idling(m, Tail(c))
    BY <2>0, <2>1 DEF Idling, Decoding
  <2>3. /\ Tail(c) \in Seq(Codes) /\ Len(Tail(c)) = Len(c) - 1
        /\ \A j \in 1 .. Len(c) - 1 : Tail(c)[j] = c[j + 1]
    BY <2>2, HeadTailProperties
  <2>4. meant \in Seq(Wants) /\ Len(meant) = Len(c) /\ Len(c) \in Nat /\ Len(c) # 0
    <3>1. Len(c) \in Nat /\ Len(c) # 0
      BY <2>2, EmptySeq
    <3> QED  BY <1>0, <1>u, <3>1 DEF UserType, AllAccepted
  <2>5. /\ meant' \in Seq(Wants) /\ Len(meant') = Len(c) - 1
        /\ \A j \in 1 .. Len(c) - 1 : meant'[j] = meant[j + 1]
    <3>1. meant # <<>>
      BY <2>4
    <3> QED  BY <2>0, <2>4, <3>1, HeadTailProperties
  <2>6. AllAccepted(Tail(c), meant')
    <3>1. ASSUME NEW j \in 1 .. Len(c) - 1
          PROVE  Accepts(Tail(c)[j], meant'[j])
      <4>1. j + 1 \in 1 .. Len(c)
        BY <2>4
      <4>2. Accepts(c[j + 1], meant[j + 1])
        BY <1>0, <4>1 DEF AllAccepted
      <4> QED  BY <2>3, <2>5, <4>2
    <3> QED  BY <2>3, <2>5, <3>1 DEF AllAccepted
  <2>7. line' \in Seq(Bytes) /\ Len(line') = 0 /\ Len(line') <= 4
    BY <2>0
  <2>8. KeyPending(m, Tail(c))'
    BY <2>0, <2>1, <2>2, <2>7, BehindCases DEF KeyPending
  <2>9. UserType' /\ OneSender' /\ Follows(m)'
    BY <1>0, <1>u, <2>0, <2>5 DEF UserType, OneSender, Follows, Unclear
  <2> QED  BY <2>3, <2>6, <2>8, <2>9 DEF KInv, AllAccepted
<1>5. ASSUME UNCHANGED keyboardVars PROVE KInv'
  BY <1>5 DEF KInv, keyboardVars, userVars, KeyPending, PausePending, UserType, OneSender,
              Follows, Unclear, AllAccepted
<1> QED  BY <1>1, <1>2, <1>3, <1>4, <1>5 DEF KeyboardNext

LEMMA KeyboardInvariant == KeyboardSpec => []KInv
BY KeyboardStarts, KeyboardSteps, PTL DEF KeyboardSpec

(* For any set of the keys that KeyAssumption names, any number of them     *)
(* held and any length of the queue, keyboard.c queues one code for each    *)
(* scan code sent, with the character the user means wherever the keys that *)
(* send shift codes have not overlapped.                                    *)
THEOREM KeysAreDecoded == KeyboardSpec => []Decoded
<1>1. KInv => Decoded
  <2> SUFFICES ASSUME KInv, line = <<>>
               PROVE  /\ Len(decoder.codes) = Len(meant)
                      /\ \A n \in DOMAIN meant :
                            /\ decoder.codes[n].scode = meant[n].scode
                            /\ decoder.codes[n].pressed = meant[n].pressed
                            /\ decoder.codes[n].column \in meant[n].columns
                      /\ cPause = 0 /\ ~decoder.E0
    BY DEF Decoded
  <2>1. PICK m \in Modifiers, c \in Seq(Codes) :
            (KeyPending(m, c) \/ PausePending(m, c)) /\ AllAccepted(c, meant)
    BY DEF KInv
  <2>2. cPause = 0 /\ decoder.codes = c /\ decoder.E0 = FALSE
    BY <2>1, AtRest DEF Idling, Decoding
  <2>3. meant \in Seq(Wants)
    BY DEF KInv, UserType
  <2>4. DOMAIN meant = 1 .. Len(meant)
    BY <2>3
  <2> QED  BY <2>1, <2>2, <2>4 DEF AllAccepted, Accepts
<1> QED  BY <1>1, KeyboardInvariant, PTL

(* However many keys overlap, with all of them up cShift is off.            *)
THEOREM ShiftIsReleased == KeyboardSpec => []ShiftNeverSticks
<1>1. KInv => ShiftNeverSticks
  <2> SUFFICES ASSUME KInv, line = <<>>, down = {} PROVE ~decoder.m.shift
    BY DEF ShiftNeverSticks
  <2>1. PICK m \in Modifiers, c \in Seq(Codes) :
            (KeyPending(m, c) \/ PausePending(m, c)) /\ Follows(m)
    BY DEF KInv
  <2>2. decoder.m = m
    BY <2>1, AtRest DEF Idling, Decoding
  <2>3. SendShift(down) = {}
    BY DEF SendShift
  <2> QED  BY <2>1, <2>2, <2>3 DEF Follows
<1> QED  BY <1>1, KeyboardInvariant, PTL
=============================================================================
