-------------------------------- MODULE Keys --------------------------------
(***************************************************************************)
(* The bytes a key of the session pane is sent as (src/tui/vt_input.rs).   *)
(* A key is a code and the modifiers that are held; a character is its     *)
(* number.  Only characters of one byte are looked at.                     *)
(***************************************************************************)
EXTENDS Integers, Sequences, SequencesExt

Esc == 27
Digit(n) == 48 + n
Letter(c) == c \in 65..90 \/ c \in 97..122
NoBytes == <<>>            \* a key that has no encoding is dropped

Char(c) == [is |-> "char", char |-> c]
Named(name) == [is |-> name]
Function(n) == [is |-> "f", f |-> n]
CursorKeys == {"up", "down", "right", "left", "home", "end"}

\* Control codes of the punctuation that has one.
Control == [c \in {32, 64, 91, 92, 93, 94, 95, 63} |->
              CASE c \in {32, 64} -> 0 [] c = 63 -> 127 [] OTHER -> c - 64]
ControlByte(c) ==
    CASE Letter(c)          -> <<c % 32>>
      [] c \in DOMAIN Control -> <<Control[c]>>
      [] OTHER -> <<c>>

Final == [up |-> 65, down |-> 66, right |-> 67, left |-> 68, end |-> 70, home |-> 72]
ModifierParameter(mods) ==
    1 + (IF "shift" \in mods THEN 1 ELSE 0) + (IF "alt" \in mods THEN 2 ELSE 0)
      + (IF "ctrl" \in mods THEN 4 ELSE 0)
CursorKey(name, mods, appCursor) ==
    CASE mods # {}            -> <<Esc, 91, 49, 59, Digit(ModifierParameter(mods)), Final[name]>>
      [] mods = {} /\ appCursor  -> <<Esc, 79, Final[name]>>
      [] mods = {} /\ ~appCursor -> <<Esc, 91, Final[name]>>

\* ESC [ n ~ for a number of one or two digits.
Tilde(n) == <<Esc, 91>> \o (IF n < 10 THEN <<Digit(n)>> ELSE <<Digit(n \div 10), Digit(n % 10)>>) \o <<126>>
FunctionKey(n) ==
    CASE n \in 1..4  -> <<Esc, 79, 79 + n>>
      [] n = 5       -> Tilde(15)
      [] n \in 6..10 -> Tilde(n + 11)
      [] n \in 11..12 -> Tilde(n + 12)
      [] OTHER -> NoBytes

Plain(key, mods, appCursor) ==
    CASE key.is = "char"      -> IF "ctrl" \in mods THEN ControlByte(key.char) ELSE <<key.char>>
      [] key.is = "enter"     -> <<13>>
      [] key.is = "backspace" -> <<IF "ctrl" \in mods THEN 8 ELSE 127>>
      [] key.is = "tab"       -> <<9>>
      [] key.is = "backTab"   -> <<Esc, 91, 90>>
      [] key.is = "esc"       -> <<Esc>>
      [] key.is = "delete"    -> IF "ctrl" \in mods THEN <<Esc, 91, 51, 59, 53, 126>> ELSE Tilde(3)
      [] key.is \in CursorKeys -> CursorKey(key.is, mods, appCursor)
      [] key.is = "insert"    -> Tilde(2)
      [] key.is = "pageUp"    -> Tilde(5)
      [] key.is = "pageDown"  -> Tilde(6)
      [] key.is = "f"         -> FunctionKey(key.f)
      [] OTHER -> NoBytes

\* Alt is an ESC in front of what is not a sequence of its own.
IsCsi(bytes) == IsPrefix(<<Esc, 91>>, bytes) \/ IsPrefix(<<Esc, 79>>, bytes)
Encode(key, mods, appCursor) ==
    LET out == Plain(key, mods, appCursor)
    IN IF out # NoBytes /\ "alt" \in mods /\ ~IsCsi(out) THEN <<Esc>> \o out ELSE out
=============================================================================
