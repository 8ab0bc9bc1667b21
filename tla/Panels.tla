------------------------------- MODULE Panels -------------------------------
(***************************************************************************)
(* What of a screen is on the terminal (src/tui/widgets.rs, chrome.rs, and *)
(* the lines that the forms and the dialogs give them): text wrapped into  *)
(* rows, the rows left by the header and the footer, and the scroll that   *)
(* is to keep the row of the focus in view.                                *)
(*                                                                         *)
(* A line is the name of what it shows; a text is a sequence of characters.*)
(* Rows and scrolls count from 0, as in the code.  Colours and places are  *)
(* left out, and so is u16: no terminal is that high.                      *)
(***************************************************************************)
EXTENDS Integers, Sequences, SequencesExt, FiniteSetsExt

CONSTANTS
    TextOf(_),                     \* the text of a line
    MinFormWidth, MinFormHeight,   \* MIN_FORM_WIDTH, MIN_FORM_HEIGHT
    MinPanelWidth, MinPanelHeight  \* MIN_PANEL_WIDTH, MIN_PANEL_HEIGHT

AtLeastZero(n) == IF n < 0 THEN 0 ELSE n

---------------------------------------------------------------------------
\* wrap_text

OntoLast(rows, chars) == [rows EXCEPT ![Len(rows)] = @ \o chars]

\* split_inclusive(' '): a word has the blank after it.
Words(text) ==
    FoldLeft(LAMBDA words, char : IF words = <<>> \/ Last(Last(words)) = " "
                                  THEN Append(words, <<char>>) ELSE OntoLast(words, <<char>>),
             <<>>, text)

AddChar(rows, char, width) ==
    IF Len(Last(rows)) = width THEN Append(rows, <<char>>) ELSE OntoLast(rows, <<char>>)

AddWord(rows, word, width) ==
    LET col == Len(Last(rows))
        start == IF col + Len(word) > width /\ col > 0 THEN Append(rows, <<>>) ELSE rows
    IN IF Len(word) <= width THEN OntoLast(start, word)
       ELSE FoldLeft(LAMBDA r, char : AddChar(r, char, width), start, word)

WrapText(text, asked) ==
    LET width == IF asked < 1 THEN 1 ELSE asked
    IN FoldLeft(LAMBDA rows, word : AddWord(rows, word, width), <<<<>>>>, Words(text))

WrappedHeight(lines, width) ==
    FoldLeft(LAMBDA sum, line : sum + Len(WrapText(TextOf(line), width)), 0, lines)

---------------------------------------------------------------------------
\* chrome::render, where a Min comes before a Length; and locked_body.

HeaderHeight == 1
MinChromeHeight == 8
Body(height, footer) ==
    IF height < MinChromeHeight THEN height ELSE Max({height - HeaderHeight - footer, 3})

BrandHeight == 3
RoomForBoth == BrandHeight + 14
LockedBody(height) ==
    LET body == Body(height, 0) IN IF body < RoomForBoth THEN body ELSE body - (BrandHeight + 1)

---------------------------------------------------------------------------
\* The scroll, and a form or a dialog drawn with it.

FormScrollOffset(focusRow, total, visible) ==
    IF visible = 0 \/ total <= visible THEN 0
    ELSE Min({AtLeastZero(focusRow - (visible - 1)), total - visible})

TooSmall == [drawn |-> FALSE]
Scrolled(focusRow, total, visible) ==
    LET offset == FormScrollOffset(focusRow, total, visible)
    IN [drawn |-> TRUE, offset |-> offset, visible |-> visible, total |-> total,
        above |-> offset > 0, below |-> offset + visible < total]

\* A form has one row to a line, and a border.
RenderForm(area, lines, focusRow) ==
    IF area.width < MinFormWidth \/ area.height < MinFormHeight THEN TooSmall
    ELSE Scrolled(focusRow, Len(lines), area.height - 2)

\* A dialog wraps.  Its width is its own, and three more rows than its text are
\* two of border and one of padding.
ContentWidth(area, width) ==
    Min({area.width, Max({Min({width, AtLeastZero(area.width - 4)}), MinPanelWidth})}) - 6
RenderPanel(area, width, lines, focusRow) ==
    IF area.width < MinPanelWidth \/ area.height < MinPanelHeight THEN TooSmall
    ELSE LET content == ContentWidth(area, width)
             total == WrappedHeight(lines, content)
             height == Min({total + 3, area.height})
             upto == WrappedHeight(SubSeq(lines, 1, Min({focusRow + 1, Len(lines)})), content)
         IN Scrolled(AtLeastZero(upto - 1), total, height - 3)

---------------------------------------------------------------------------
(***************************************************************************)
(* The lines of the screens, and the row each gives for its focus.  The    *)
(* states are those of Forms and Locks.                                    *)
(***************************************************************************)
ErrorLine(s) == IF s.error = "no" THEN <<>> ELSE <<"error">>
RowIn(fields, focus) == AtLeastZero(SelectInSeq(fields, LAMBDA f : f = focus) - 1)

ServerLines(s) ==
    <<"name", "host", "port", "username", "tags", "auth">>
        \o (IF s.choices # <<>> THEN <<"jump">> ELSE <<>>)
        \o (CASE s.kind = "password" -> <<"password">>
              [] s.kind = "sshKey"   -> <<"keyPath", "passphrase">>
              [] s.kind = "agent"    -> <<>>)
        \o <<"blank">> \o ErrorLine(s)

ForwardLines(s) ==
    <<"kind", "bindAddr", "bindPort">>
        \o (IF s.kind # "dynamic" THEN <<"destHost", "destPort">> ELSE <<>>)
        \o <<"blank">> \o ErrorLine(s)

StepLines(e, error) ==
    <<"command">>
        \o (IF e.at # 1
            THEN <<"condition">> \o (IF e.kind = "contains" THEN <<"needle">> ELSE <<>>) ELSE <<>>)
        \o <<"timeout", "blank", "vars", IF error = "no" THEN "hint" ELSE "error">>

Notice(s) == IF s.error # "no" THEN "error" ELSE IF s.info # "no" THEN "info" ELSE "hint"

UnlockIntro(s) == IF s.mode = "migrate" THEN <<"message">> ELSE <<>>
UnlockLines(s) ==
    UnlockIntro(s) \o <<"blank", "password">>
        \o (IF s.mode \in {"firstRun", "migrate"} THEN <<"confirm">> ELSE <<>>)
        \o <<"blank", Notice(s)>>
UnlockFocusRow(s) == Len(UnlockIntro(s)) + (IF s.focus = "password" THEN 1 ELSE 2)
UnlockWidth(s) == IF s.mode = "migrate" THEN 72 ELSE 56

CodeLines(s) == <<"blank", "code", "blank", Notice(s)>>
ConfirmLines == <<"question", "blank", "hint">>
OverwriteLines(remaining) ==
    <<"question", "blank">> \o (IF remaining > 1 THEN <<"applyAll">> ELSE <<>>) \o <<"hint">>
LastRow(lines) == Len(lines) - 1
=============================================================================
