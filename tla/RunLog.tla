------------------------------- MODULE RunLog -------------------------------
(***************************************************************************)
(* The log of a script run (src/tui/script_run.rs): what the events of the *)
(* run append, which part of it is on the screen, and what its keys ask    *)
(* for; and the placeholders of a step's command                           *)
(* (src/ssh/script_runner.rs, ScriptVars).                                 *)
(*                                                                         *)
(* A line of the log is one row.  Characters and Backspace leave the path  *)
(* of the save prompt with some text, so they are one key, "text".         *)
(***************************************************************************)
EXTENDS Integers, Sequences, SequencesExt

CONSTANTS
    Decode(_),     \* from_utf8_lossy of the bytes of a chunk
    NewLine,       \* as Decode gives it
    Trim(_)        \* a text without the blanks around it

Nothing == [do |-> "nothing"]
Stay(s) == [to |-> s, out |-> Nothing]
Done(s, out) == [to |-> s, out |-> out]
Closed == <<>>              \* no save prompt
Row(kind, text) == [kind |-> kind, text |-> text]
AtTail == -1                \* no offset: the end of the log is followed

NewRunState(targets) ==
    [targets |-> targets, current |-> 0, log |-> <<>>, partial |-> <<>>, finished |-> FALSE,
     scroll |-> AtTail, height |-> 0, save |-> Closed, result |-> "no"]

Push(s, kind, text) == [s EXCEPT !.log = Append(@, Row(kind, text))]
FlushPartial(s) ==
    IF s.partial = <<>> THEN s ELSE [Push(s, "output", s.partial) EXCEPT !.partial = <<>>]

\* The text up to its last line break is cut into lines.
Breaks(text) == SelectSeq([i \in DOMAIN text |-> i], LAMBDA i : text[i] = NewLine)
Output(s, chunk) ==
    LET text == s.partial \o Decode(chunk)
        ends == Breaks(text)
        line(i) == Row("output", SubSeq(text, IF i = 1 THEN 1 ELSE ends[i - 1] + 1, ends[i] - 1))
    IN [s EXCEPT !.log = @ \o [i \in DOMAIN ends |-> line(i)],
                 !.partial = IF ends = <<>> THEN text ELSE SubSeq(text, Last(ends) + 1, Len(text))]

ServerStarted(s, name) ==
    LET here == [s EXCEPT !.current = @ + 1]
        flushed == FlushPartial(here)
    IN CASE s.targets <= 1 -> here
         [] s.targets > 1 /\ here.current > 1 -> Push(Push(flushed, "blank", <<>>), "server", name)
         [] s.targets > 1 /\ here.current = 1 -> Push(flushed, "server", name)
StepStarted(s, command)  == Push(s, "step", command)
StepFinished(s, code)    == Push(FlushPartial(s), "exit", code)
StepTimedOut(s)          == Push(FlushPartial(s), "timedOut", <<>>)
StepSkipped(s)           == Push(s, "skipped", <<>>)
StepError(s)             == Push(FlushPartial(s), "error", <<>>)
ServerConnectError(s)    == Push(s, "error", <<>>)
ConnectError(s)          == [ServerConnectError(s) EXCEPT !.finished = TRUE]
MarkFinished(s)          == [FlushPartial(s) EXCEPT !.finished = TRUE]
MarkCancelled(s)         == [Push(FlushPartial(s), "cancelled", <<>>) EXCEPT !.finished = TRUE]

---------------------------------------------------------------------------
\* The view.  render is what learns the height.

MaxScroll(s) == IF Len(s.log) > s.height THEN Len(s.log) - s.height ELSE 0
Offset(s) == IF s.scroll = AtTail \/ s.scroll > MaxScroll(s) THEN MaxScroll(s) ELSE s.scroll
Shown(s) ==
    SubSeq(s.log, Offset(s) + 1, IF Len(s.log) < s.height THEN Len(s.log) ELSE Offset(s) + s.height)
ScrollBy(s, n) ==
    LET from == IF s.scroll = AtTail THEN MaxScroll(s) ELSE s.scroll
        to == IF from + n < 0 THEN 0 ELSE from + n
    IN [s EXCEPT !.scroll = IF to >= MaxScroll(s) THEN AtTail ELSE to]
Page(s) == IF s.height > 2 THEN s.height - 1 ELSE 1

SaveKey(s, k) ==
    CASE k.key = "text"  -> Stay([s EXCEPT !.save = <<k.text>>])
      [] k.key = "esc"   -> Stay([s EXCEPT !.save = Closed])
      [] k.key = "enter" -> LET path == Trim(s.save[1])
                                shut == [s EXCEPT !.save = Closed]
                            IN IF path = "" THEN Stay(shut) ELSE Done(shut, [do |-> "save", path |-> path])
      [] OTHER -> Stay(s)

RunKey(s, k) ==
    IF s.save # Closed THEN SaveKey(s, k)
    ELSE CASE k.key = "up"        -> Stay(ScrollBy(s, -1))
           [] k.key = "down"      -> Stay(ScrollBy(s, 1))
           [] k.key = "pageUp"    -> Stay(ScrollBy(s, -Page(s)))
           [] k.key = "pageDown"  -> Stay(ScrollBy(s, Page(s)))
           [] k.key = "home"      -> Stay([s EXCEPT !.scroll = 0])
           [] k.key = "end"       -> Stay([s EXCEPT !.scroll = AtTail])
           [] k.key = "?"         -> Done(s, [do |-> "help"])
           [] k.key = "s" /\ s.finished -> Stay([s EXCEPT !.result = "no", !.save = <<"default">>])
           [] k.key \in {"enter", "esc", "q"} /\ s.finished -> Done(s, [do |-> "close"])
           [] OTHER -> Stay(s)

---------------------------------------------------------------------------
(***************************************************************************)
(* ScriptVars.expand.  A command is a sequence of characters; Values gives *)
(* the keys there are, without blanks, and what each stands for.           *)
(***************************************************************************)
Open == <<"{", "{">>
Close == <<"}", "}">>
Find(text, what, from) ==
    LET at == {i \in from..(Len(text) - 1) : SubSeq(text, i, i + 1) = what}
    IN IF at = {} THEN 0 ELSE CHOOSE i \in at : \A j \in at : i <= j
TrimBlanks(text) ==
    LET solid == {i \in DOMAIN text : text[i] # " "}
    IN IF solid = {} THEN <<>>
       ELSE SubSeq(text, CHOOSE i \in solid : \A j \in solid : i <= j,
                         CHOOSE i \in solid : \A j \in solid : i >= j)

Expand(text, values) ==
    LET from[i \in 1..(Len(text) + 1)] ==
            LET open == Find(text, Open, i)
                close == Find(text, Close, open + 2)
                key == TrimBlanks(SubSeq(text, open + 2, close - 1))
            IN IF open = 0 THEN SubSeq(text, i, Len(text))
               ELSE SubSeq(text, i, open - 1) \o
                    (IF close # 0 /\ key \in DOMAIN values THEN values[key] \o from[close + 2]
                     ELSE Open \o from[open + 2])
    IN from[1]

\* Only the command is expanded, never the text a condition looks for.
ExpandScript(steps, values) ==
    [i \in DOMAIN steps |-> [steps[i] EXCEPT !.command = Expand(@, values)]]
=============================================================================
