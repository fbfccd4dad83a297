------------------------------ MODULE MCKeyboard ------------------------------
(* The keys of the run: one of each kind of byte sequence the driver tells  *)
(* apart.                                                                   *)
EXTENDS Keyboard

KeyA        == Plain(<<>>, 30, TRUE, FALSE)
Slash       == Plain(<<>>, 53, FALSE, FALSE)
PadSlash    == Plain(<<224>>, 53, FALSE, TRUE)
Pad7        == Plain(<<>>, 71, FALSE, TRUE)
Home        == Plain(<<224>>, 71, FALSE, FALSE)

(* The key between left shift and Z: gKeyMap's entry is empty. *)
NonUsBackslash == Silent(86)

MCKey == {KeyA, Slash, PadSlash, Pad7, Home, CapsLockKey, NumLockKey,
          NonUsBackslash, PrintScreen, Pause} \cup ShiftKeys
=============================================================================
