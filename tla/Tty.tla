-------------------------------- MODULE Tty ---------------------------------
(***************************************************************************)
(* The terminal guard (src/terminal.rs): the alternate screen, raw mode    *)
(* and what is on the primary screen, which the process leaves behind.     *)
(*                                                                         *)
(* A step is one write to the terminal or one access of primary_dirty: the *)
(* task of the fatal signals runs on another thread, so its restore falls  *)
(* anywhere between the steps of the main task.  Errors of the writes are  *)
(* left out.                                                               *)
(***************************************************************************)
EXTENDS Sequences, SequencesExt

\* primary: whose text is on it.  saw: the restores that found it dirty.
Start == [alt |-> FALSE, raw |-> FALSE, primary |-> "user", dirty |-> FALSE, saw |-> {}]

Written(t, text) == IF t.alt THEN t ELSE [t EXCEPT !.primary = text]
Step(t, op) ==
    CASE op = "init"   -> [t EXCEPT !.alt = TRUE, !.raw = TRUE]
      [] op = "draw"   -> Written(t, "frame")
      [] op = "leave"  -> [t EXCEPT !.alt = FALSE, !.primary = "nothing"]
      [] op = "mark"   -> [t EXCEPT !.dirty = TRUE]
      [] op = "remote" -> Written(t, "session")
      [] op = "enter"  -> [t EXCEPT !.alt = TRUE]
      [] op = "clear"  -> Written(t, "nothing")
      [] op = "message" -> Written(t, "message")
      [] op = "restore" -> [t EXCEPT !.alt = FALSE, !.raw = FALSE]
      [] op \in {"look", "sigLook"} -> [t EXCEPT !.saw = IF t.dirty THEN @ \cup {op} ELSE @]
      [] op = "wipe"    -> IF "look" \in t.saw THEN Written(t, "nothing") ELSE t
      [] op = "sigWipe" -> IF "sigLook" \in t.saw THEN Written(t, "nothing") ELSE t

After(ops) == FoldLeft(Step, Start, ops)

Suspend == <<"leave", "mark">>
Resume == <<"enter", "clear">>

Session == Suspend \o <<"remote">> \o Resume \o <<"draw">>
\* A process that runs the interface, with so many sessions, up to its end.
Work(sessions) == <<"init", "draw">> \o FlattenSeq([i \in 1..sessions |-> Session])
Drop == <<"restore", "look", "wipe">>
OnSignal == <<"restore", "sigLook", "sigWipe">>
\* The hook of ratatui restores, then the message is printed; Drop restores.
Unwind == <<"restore", "message", "restore">>

\* Each step of the signal's restore falls after at[i] steps of the main task;
\* the process is gone after at[4] of them.
Killed(main, at) ==
    SubSeq(main, 1, at[1]) \o FlattenSeq([i \in 1..3 |-> <<OnSignal[i]>> \o SubSeq(main, at[i] + 1, at[i + 1])])
=============================================================================
