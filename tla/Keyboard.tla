------------------------------- MODULE Keyboard -------------------------------
(***************************************************************************)
(* The keyboard decoder (keyboard.c): one interrupt per byte of the        *)
(* controller, a key being one to six bytes.  PutScanCode turns them into  *)
(* key codes and queues those for FetchKeyCode.                            *)
(***************************************************************************)
EXTENDS Integers, SequencesExt

CONSTANTS
    Key,        \* keys: bytes when pressed and released, and what they mean
    MaxCodes,   \* bound: key codes in the queue
    MaxDown     \* bound: keys held at once

VARIABLES
    line,       \* bytes of the present key still to come
    down,       \* keys held down
    locks,      \* ghost: how the user has set Caps Lock and Num Lock
    overlapped, \* ghost: two keys that send shift codes were down together
    meant,      \* ghost: for each queued code what the user accepts
    cPause,     \* bytes of the Pause sequence seen
    decoder     \* E0, cShift, cCapsLock, cNumLock and the queue

userVars == <<down, locks, overlapped, meant>>
keyboardVars == <<line, userVars, cPause, decoder>>

-----------------------------------------------------------------------------
(* Scan codes.  gKeyMap has an entry for each up to 0x5e; some are empty.   *)
(* The code reads behind the table for a scan code beyond it, which no key  *)
(* of KeyAssumption sends.                                                  *)
InKeyMap(scancode) == scancode \in (1 .. 94) \ {85, 86, 89, 90}
IsLetter(scancode) == scancode \in 16 .. 25 \union 30 .. 38 \union 44 .. 50
IsShift(scancode) == scancode \in {42, 54}
IsCapsLock(scancode) == scancode = 58
IsNumLock(scancode) == scancode = 69

IsPadCode(scancode, e0) == scancode \in (71 .. 83) \union {55}
IsNumPadKey(scancode, e0) ==
    IF e0 THEN scancode \in {53, 28} ELSE scancode \in (71 .. 83) \union {55}

(* The character a code carries: the first or the second of its entry. *)
MakeNormalCode(letter, m) ==
    IF m.caps /\ letter THEN IF m.shift THEN 1 ELSE 2
    ELSE IF m.shift THEN 2 ELSE 1

MakeNumCode(m) == IF ~m.num THEN 2 ELSE IF m.shift THEN 2 ELSE 1

MakeCode(scancode, m, e0) ==
    IF IsNumPadKey(scancode, e0) THEN MakeNumCode(m) ELSE MakeNormalCode(IsLetter(scancode), m)

(* The modifiers after a code of a key. *)
ModifiedOnPress(m, scancode, pressed) == [m EXCEPT !.shift = @ \/ (IsShift(scancode) /\ pressed)]
Modified(m, scancode, pressed) ==
    [shift |-> IF IsShift(scancode) THEN pressed ELSE m.shift,
     caps  |-> m.caps # (IsCapsLock(scancode) /\ pressed),
     num   |-> m.num # (IsNumLock(scancode) /\ pressed)]

(* KeyHandler: an unknown scan code changes nothing. *)
KeyHandler(d, byte) ==
    LET pressed  == byte < 128
        scancode == byte % 128
        m == Modified(d.m, scancode, pressed)
    IN  IF byte = 224 THEN [d EXCEPT !.E0 = TRUE]
        ELSE IF ~InKeyMap(scancode) THEN d
        ELSE [E0 |-> FALSE, m |-> m,
              codes |-> Append(d.codes, [scode |-> scancode, pressed |-> pressed,
                                         column |-> MakeCode(scancode, m, d.E0)])]

-----------------------------------------------------------------------------
cPauseCode == <<225, 29, 69, 225, 157, 197>>

(* PauseHandler: a byte that does not fit ends the sequence and goes on to  *)
(* KeyHandler; the last one stores Pause pressed and released.              *)
PauseEnds == cPause' = 0

PutScanCode(byte) ==
    IF (byte = 225 \/ cPause > 0) /\ byte = cPauseCode[cPause + 1]
    THEN IF cPause + 1 = Len(cPauseCode)
         THEN PauseEnds /\ decoder' = KeyHandler(KeyHandler(decoder, 94), 222)
         ELSE cPause' = cPause + 1 /\ decoder' = decoder
    ELSE PauseEnds /\ decoder' = KeyHandler(decoder, byte)

(* KeyBoardHandler: the next byte of the controller. *)
KeyBoardHandler ==
    /\ line # <<>>
    /\ PutScanCode(Head(line))
    /\ line' = Tail(line)
    /\ UNCHANGED userVars

FetchKeyCode ==
    /\ line = <<>> /\ decoder.codes # <<>>
    /\ decoder' = [decoder EXCEPT !.codes = Tail(@)]
    /\ meant' = Tail(meant)
    /\ UNCHANGED <<line, down, locks, overlapped, cPause>>

-----------------------------------------------------------------------------
(* The keyboard.  A key sends one byte sequence when pressed (again and     *)
(* again when held) and one when released; each stands for some scan codes. *)
Event(scode, pressed, letter, pad) ==
    [scode |-> scode, pressed |-> pressed, letter |-> letter, pad |-> pad]

(* A key with a single scan code, with or without the prefix 0xe0. *)
Plain(prefix, scode, letter, pad) ==
    [make |-> prefix \o <<scode>>, break |-> prefix \o <<scode + 128>>,
     pressed |-> <<Event(scode, TRUE, letter, pad)>>,
     released |-> <<Event(scode, FALSE, letter, pad)>>]

(* A key whose entry in gKeyMap is empty, as the one beside left shift.     *)
Silent(scode) ==
    [make |-> <<scode>>, break |-> <<scode + 128>>, pressed |-> <<>>, released |-> <<>>]

(* Print Screen comes with a fake left shift around it, which the decoder   *)
(* takes for the key: it queues codes of its own and is on in between.      *)
(* With shift or control held keyboards leave it out (see PlainKeys).       *)
PrintScreen ==
    [make |-> <<224, 42, 224, 55>>, break |-> <<224, 183, 224, 170>>,
     pressed |-> <<Event(42, TRUE, FALSE, FALSE), Event(55, TRUE, FALSE, FALSE)>>,
     released |-> <<Event(55, FALSE, FALSE, FALSE), Event(42, FALSE, FALSE, FALSE)>>]

(* Pause sends everything when pressed. *)
Pause ==
    [make |-> <<225, 29, 69, 225, 157, 197>>, break |-> <<>>,
     pressed |-> <<Event(94, TRUE, FALSE, FALSE), Event(94, FALSE, FALSE, FALSE)>>,
     released |-> <<>>]

(* The keys of a keyboard: with a single code those of the main block and   *)
(* the numeric pad, which have no prefix but for two keys of the pad, and   *)
(* those between them, which have one.                                      *)
LetterCodes == 16 .. 25 \cup 30 .. 38 \cup 44 .. 50
PadCodes == 71 .. 83 \cup {55}
MainCodes == 1 .. 94 \ (LetterCodes \cup PadCodes \cup {85, 86, 89, 90})

GreyCodes == {29, 55, 56} \cup (71 .. 83) \cup (91 .. 93)

PlainKeys ==
    {Plain(<<>>, s, TRUE, FALSE) : s \in LetterCodes}
    \cup {Plain(<<>>, s, FALSE, TRUE) : s \in PadCodes}
    \cup {Plain(<<>>, s, FALSE, FALSE) : s \in MainCodes}
    \cup {Plain(<<224>>, s, FALSE, TRUE) : s \in {28, 53}}
    \cup {Plain(<<224>>, s, FALSE, FALSE) : s \in GreyCodes}

ASSUME KeyAssumption ==
    Key \subseteq PlainKeys \cup {Silent(s) : s \in {85, 86, 89, 90}} \cup {PrintScreen, Pause}

(* The user.  Shift is meant while a shift key is down; each press of a     *)
(* lock key turns the lock over, as do the repeated ones of a key held.     *)
ShiftKeys == {Plain(<<>>, s, FALSE, FALSE) : s \in {42, 54}}
CapsLockKey == Plain(<<>>, 58, FALSE, FALSE)
NumLockKey == Plain(<<>>, 69, FALSE, FALSE)

SendShift(keys) == keys \cap (ShiftKeys \cup {PrintScreen})

(* A letter is a capital by shift or by Caps Lock, the pad has digits with  *)
(* Num Lock and without shift, any other key has two characters.            *)
Column(letter, pad, m) ==
    IF pad THEN IF m.num /\ ~m.shift THEN 1 ELSE 2
    ELSE IF m.shift # (letter /\ m.caps) THEN 2 ELSE 1

(* While keys that send shift codes overlap, and while Print Screen is      *)
(* down, the decoder may have shift on or off; either character will do.    *)
Accepted(e) ==
    IF overlapped' \/ PrintScreen \in down \cup down' THEN {1, 2}
    ELSE {Column(e.letter, e.pad, [shift |-> down' \cap ShiftKeys # {},
                                   caps |-> locks'.caps, num |-> locks'.num])}

Sends(bytes, events) ==
    /\ line = <<>> /\ Len(meant) + Len(events) <= MaxCodes
    /\ line' = bytes
    /\ LET s == SendShift(down')
       IN  overlapped' = (s # {} /\ (overlapped \/ \E j, k \in s : j # k))
    /\ meant' = meant \o [n \in DOMAIN events |->
                            [scode |-> events[n].scode, pressed |-> events[n].pressed,
                             columns |-> Accepted(events[n])]]
    /\ UNCHANGED <<cPause, decoder>>

Press(k) ==
    /\ down' = down \cup {k} /\ Cardinality(down') <= MaxDown
    /\ locks' = [caps |-> locks.caps # (k = CapsLockKey), num |-> locks.num # (k = NumLockKey)]
    /\ Sends(k.make, k.pressed)

Release(k) ==
    /\ k \in down /\ down' = down \ {k} /\ locks' = locks
    /\ Sends(k.break, k.released)

NoModifier == [shift |-> FALSE, caps |-> FALSE, num |-> FALSE]

KeyboardInit ==
    /\ line = <<>> /\ down = {} /\ meant = <<>> /\ overlapped = FALSE
    /\ locks = [caps |-> FALSE, num |-> FALSE]
    /\ cPause = 0
    /\ decoder = [E0 |-> FALSE, m |-> NoModifier, codes |-> <<>>]

KeyboardNext ==
    \/ \E k \in Key : Press(k) \/ Release(k)
    \/ KeyBoardHandler
    \/ FetchKeyCode

KeyboardSpec == KeyboardInit /\ [][KeyboardNext]_keyboardVars

-----------------------------------------------------------------------------
(* Between keys the queue holds one code for each scan code the keys have   *)
(* sent, in order, those of a fake shift included, and none for prefixes    *)
(* and the bytes of Pause; a code carries the character that goes with the  *)
(* shift keys held and the locks set at the time, as long as no two of the  *)
(* shift keys and Print Screen overlap; and no half-decoded sequence is     *)
(* left to change the next key.                                             *)
Decoded ==
    line = <<>> =>
        /\ Len(decoder.codes) = Len(meant)
        /\ \A n \in DOMAIN meant :
            /\ decoder.codes[n].scode = meant[n].scode
            /\ decoder.codes[n].pressed = meant[n].pressed
            /\ decoder.codes[n].column \in meant[n].columns
        /\ cPause = 0 /\ ~decoder.E0

(* However keys overlap, shift does not stick: with every key up it is off. *)
ShiftNeverSticks == line = <<>> /\ down = {} => ~decoder.m.shift
=============================================================================
