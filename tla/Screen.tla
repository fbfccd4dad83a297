------------------------------- MODULE Screen --------------------------------
(***************************************************************************)
(* The text screen (screen.c): characters go to video memory, a line feed  *)
(* at the bottom moves the start of the visible part of video memory on by *)
(* one row, and when the memory ends the visible rows are copied back to   *)
(* its beginning.                                                          *)
(***************************************************************************)
EXTENDS Integers

CONSTANTS
    Char,           \* characters with a glyph
    SCREEN_ERASER,  \* the blank
    SCREEN_WIDTH, SCREEN_HEIGHT,
    SCREEN_CELLS    \* SCREEN_MEM_SIZE / 2: cells of video memory

ASSUME ScreenAssumption ==
    /\ SCREEN_WIDTH \in Nat \ {0} /\ SCREEN_HEIGHT \in Nat \ {0}
    /\ SCREEN_CELLS \in Nat
    /\ (SCREEN_HEIGHT + 2) * SCREEN_WIDTH <= SCREEN_CELLS
    /\ SCREEN_ERASER \in Char

VARIABLES
    vram,       \* video memory; the adapter has more than SCREEN_CELLS cells
    SCREEN_POS, \* first visible row
    width, height, \* printInfo
    start,      \* CRT start address
    cursor      \* CRT cursor address

vars == <<vram, SCREEN_POS, width, height, start, cursor>>

Cells == 0 .. SCREEN_CELLS + SCREEN_WIDTH - 1

-----------------------------------------------------------------------------
Blanked(mem, from) ==
    [c \in Cells |-> IF c \in from .. from + SCREEN_WIDTH - 1 THEN SCREEN_ERASER ELSE mem[c]]

(* The memcpy of ScrollUp: all visible rows but the one that scrolls in. *)
CopiedShort(mem, pos) ==
    [c \in Cells |-> IF c < (SCREEN_HEIGHT - 2) * SCREEN_WIDTH
                     THEN mem[c + pos * SCREEN_WIDTH] ELSE mem[c]]
Copied(mem, pos) ==
    [c \in Cells |-> IF c < (SCREEN_HEIGHT - 1) * SCREEN_WIDTH
                     THEN mem[c + pos * SCREEN_WIDTH] ELSE mem[c]]

(* ScrollUp, given video memory and the row SCREEN_POS + 1: the row erased  *)
(* is the one below the last visible one, unless memory ends there.         *)
FitsLastRow(pos) == (pos + SCREEN_HEIGHT - 1) * SCREEN_WIDTH < SCREEN_CELLS
Fits(pos) == (pos + SCREEN_HEIGHT) * SCREEN_WIDTH < SCREEN_CELLS

ScrolledPos(pos) == IF Fits(pos) THEN pos ELSE 0

ScrolledMem(mem, pos) ==
    IF Fits(pos) THEN Blanked(mem, (pos + SCREEN_HEIGHT) * SCREEN_WIDTH)
    ELSE Blanked(Copied(mem, pos), (SCREEN_HEIGHT - 1) * SCREEN_WIDTH)

ScrollUp(mem) ==
    /\ SCREEN_POS' = ScrolledPos(SCREEN_POS + 1)
    /\ vram' = ScrolledMem(mem, SCREEN_POS + 1)
    /\ start' = SCREEN_POS' * SCREEN_WIDTH

(* SetCursorPos ends every successful putchar. *)
StaleCursorPos(w, h) == cursor' = (h + SCREEN_POS) * SCREEN_WIDTH + w
SetCursorPos(w, h) == cursor' = (h + SCREEN_POS') * SCREEN_WIDTH + w

(* The end of a row, by '\n' or by its last cell. *)
NextRow(mem) ==
    /\ width' = 0
    /\ IF height + 1 = SCREEN_HEIGHT
       THEN ScrollUp(mem) /\ height' = height
       ELSE vram' = mem /\ height' = height + 1 /\ UNCHANGED <<SCREEN_POS, start>>

LineFeed == NextRow(vram) /\ SetCursorPos(width', height')

(* putchar of a character with a glyph ('\t' prints a blank). *)
Putchar(c) ==
    LET mem == [vram EXCEPT ![(height + SCREEN_POS) * SCREEN_WIDTH + width] = c]
    IN  /\ width < SCREEN_WIDTH /\ height < SCREEN_HEIGHT
        /\ IF width + 1 = SCREEN_WIDTH
           THEN NextRow(mem)
           ELSE /\ vram' = mem /\ width' = width + 1
                /\ UNCHANGED <<SCREEN_POS, height, start>>
        /\ SetCursorPos(width', height')

SetPrintPos(w, h) ==
    /\ w < SCREEN_WIDTH /\ h < SCREEN_HEIGHT
    /\ width' = w /\ height' = h
    /\ UNCHANGED <<vram, SCREEN_POS, start>>
    /\ SetCursorPos(w, h)

(* ClearScreen prints a blank into every cell, the last of which scrolls.   *)
Erased ==
    [c \in Cells |->
        IF c \in SCREEN_POS * SCREEN_WIDTH .. (SCREEN_POS + SCREEN_HEIGHT) * SCREEN_WIDTH - 1
        THEN SCREEN_ERASER ELSE vram[c]]

ClearScreen ==
    /\ ScrollUp(Erased)
    /\ width' = 0 /\ height' = 0
    /\ SetCursorPos(0, 0)

(* Before ScreenInit: the BIOS leaves blank video memory. *)
Init ==
    /\ vram = [c \in Cells |-> SCREEN_ERASER]
    /\ SCREEN_POS = 0 /\ width = 0 /\ height = 0
    /\ start = 0 /\ cursor = 0

Next ==
    \/ \E c \in Char : Putchar(c)
    \/ LineFeed
    \/ \E w \in 0 .. SCREEN_WIDTH - 1, h \in 0 .. SCREEN_HEIGHT - 1 : SetPrintPos(w, h)
    \/ ClearScreen

Spec == Init /\ [][Next]_vars

-----------------------------------------------------------------------------
(* The position stays on the screen and the visible rows inside video       *)
(* memory, however often ScrollUp has moved SCREEN_POS on.                  *)
VisibleInMemory ==
    /\ width \in 0 .. SCREEN_WIDTH - 1 /\ height \in 0 .. SCREEN_HEIGHT - 1
    /\ SCREEN_POS >= 0 /\ (SCREEN_POS + SCREEN_HEIGHT) * SCREEN_WIDTH <= SCREEN_CELLS

(* The adapter shows the row the program thinks is first, and its cursor is *)
(* where the next character goes: SetCursorPos runs after ScrollUp.         *)
HardwareFollows ==
    /\ start = SCREEN_POS * SCREEN_WIDTH
    /\ cursor = (height + SCREEN_POS) * SCREEN_WIDTH + width

VisibleRow(r) == [c \in 0 .. SCREEN_WIDTH - 1 |-> vram[(SCREEN_POS + r) * SCREEN_WIDTH + c]]

(* What is visible is a terminal: no character is lost or moved but by a    *)
(* line feed at the bottom, also when the visible rows are copied back.     *)
Term == INSTANCE Terminal WITH
    Width <- SCREEN_WIDTH, Height <- SCREEN_HEIGHT,
    grid <- [r \in 0 .. SCREEN_HEIGHT - 1 |-> VisibleRow(r)], col <- width, row <- height

ImplementsTerminal == Term!Spec
=============================================================================
