------------------------------ MODULE MCPanels ------------------------------
(***************************************************************************)
(* Panels, Socks and Probe over small inputs.  What they promise is        *)
(* assumed here, for every input within the bounds, so TLC checks it       *)
(* whenever it runs a module that extends this one.                        *)
(***************************************************************************)
EXTENDS Integers, Sequences, SequencesExt, FiniteSets, FiniteSetsExt

SeqsUpTo(S, n) == UNION {[1..i -> S] : i \in 0..n}

---------------------------------------------------------------------------
(***************************************************************************)
(* The panels, with dialogs of at least 10 columns instead of 44, of which *)
(* 4 are for the text.                                                     *)
(***************************************************************************)
Prose(words) == FlattenSeq([i \in 1..words |-> <<"x", "x", "x", " ">>])
TextOfLine(line) ==
    CASE line = "blank" -> <<>>
      [] line = "code"  -> <<"x", "x">>
      [] line = "hint"  -> Prose(4)
      [] line \in {"message", "question"} -> Prose(12)
      [] OTHER -> Prose(2)
P == INSTANCE Panels WITH TextOf <- TextOfLine, MinFormWidth <- 30, MinFormHeight <- 7,
                          MinPanelWidth <- 10, MinPanelHeight <- 9

ShortTexts == SeqsUpTo({"x", " "}, 6)
FirstWord(row) == SubSeq(row, 1, IF Contains(row, " ") THEN SelectInSeq(row, LAMBDA c : c = " ") ELSE Len(row))
Joined(rows, i) == rows[i] # <<>> /\ Last(rows[i]) # " "

\* Wrapping loses no character and no row is too wide; a word is broken only if
\* it is wider than the terminal, and a row ends only when what comes next does
\* not fit.
ASSUME WrapsEverything == \A text \in ShortTexts : \A width \in 0..4 :
    LET rows == P!WrapText(text, width)
        room == IF width = 0 THEN 1 ELSE width
    IN /\ FlattenSeq(rows) = text
       /\ \A i \in DOMAIN rows : Len(rows[i]) <= room /\ (rows[i] = <<>> => text = <<>>)
       /\ \A i \in 1..(Len(rows) - 1) :
            IF Joined(rows, i)
            THEN Len(rows[i]) = room /\ \E word \in ToSet(P!Words(text)) : Len(word) > room
            ELSE \/ Len(rows[i]) + Len(FirstWord(rows[i + 1])) > room
                 \/ \E word \in ToSet(P!Words(text)) :
                       Len(word) > room /\ IsPrefix(FirstWord(rows[i + 1]), word)

\* A row is drawn, and no more was scrolled away for it than had to be.
InView(view, row) ==
    /\ row >= view.offset /\ row < view.offset + view.visible
    /\ view.offset > 0 => row = view.offset + view.visible - 1
Sound(view) ==
    /\ view.offset >= 0 /\ (view.total > view.visible => view.offset + view.visible <= view.total)
    /\ view.above = (\E row \in 0..(view.total - 1) : row < view.offset)
    /\ view.below = (\E row \in 0..(view.total - 1) : row >= view.offset + view.visible)
    /\ view.total <= view.visible => ~view.above /\ ~view.below

\* Whatever the terminal's height, a form that is drawn shows the field that is
\* typed into, and its arrows say what else there is.
FormShows(lines, focusRow) == \A height \in 1..14 : \A footer \in 0..3 :
    LET view == P!RenderForm([width |-> 30, height |-> P!Body(height, footer)], lines, focusRow)
    IN view.drawn => Sound(view) /\ InView(view, focusRow)

Dialogs == {<<P!ConfirmLines, P!LastRow(P!ConfirmLines)>>}
    \cup {<<P!OverwriteLines(n), P!LastRow(P!OverwriteLines(n))>> : n \in 1..2}
    \cup {<<P!CodeLines(s), P!LastRow(P!CodeLines(s))>> : s \in [error : {"no", "bad"}, info : {"no", "note"}]}
    \cup {<<P!UnlockLines(s), P!UnlockFocusRow(s)>> :
            s \in {u \in [mode : {"unlock", "firstRun", "migrate"}, focus : {"password", "confirm"},
                          error : {"no", "bad"}, info : {"no"}] : u.mode = "unlock" => u.focus = "password"}}

\* A dialog, however long its text, shows the end of the line it is about, and
\* all of its text where the terminal has the height for it.
ASSUME DialogShows == \A dialog \in Dialogs : \A width \in {10, 13, 40} : \A height \in 9..24 :
    LET area == [width |-> width, height |-> height]
        view == P!RenderPanel(area, 12, dialog[1], dialog[2])
        rows == P!WrappedHeight(SubSeq(dialog[1], 1, dialog[2] + 1), P!ContentWidth(area, 12))
    IN /\ view.drawn /\ Sound(view) /\ InView(view, rows - 1)
       /\ height >= view.total + 3 => view.visible = view.total

\* A field of the lock screen is the one its focus names, below any paragraph.
ASSUME LockFocus == \A mode \in {"unlock", "firstRun", "migrate"} : \A focus \in {"password", "confirm"} :
    LET s == [mode |-> mode, focus |-> focus, error |-> "no", info |-> "no"]
    IN mode # "unlock" \/ focus = "password" => P!UnlockLines(s)[P!UnlockFocusRow(s) + 1] = focus

\* A higher terminal shows no less, but where the bands come in: a form that has
\* a footer is drawn at 7 rows, and then not before 8 and the footer's.
Drawn(height, footer) ==
    P!RenderForm([width |-> 30, height |-> P!Body(height, footer)], <<"name">>, 0).drawn
ASSUME BandsTakeAway == \A footer \in 0..3 :
    {height \in 1..20 : Drawn(height, footer) /\ ~Drawn(height + 1, footer)} = IF footer = 0 THEN {} ELSE {7}

\* A lock screen gives up the brand before it gives up a row of its text.
ASSUME BrandGivesWay == \A height \in 10..40 :
    LET body == P!LockedBody(height) IN body < height - 1 => body >= P!RoomForBoth - P!BrandHeight - 1

---------------------------------------------------------------------------
(***************************************************************************)
(* SOCKS5, with hosts of a few bytes; 9 is no UTF-8.                       *)
(***************************************************************************)
S5 == INSTANCE Socks WITH Utf8 <- LAMBDA bytes : 9 \notin ToSet(bytes)

Ip(n) == [i \in 1..n |-> i]
Asks == {[type |-> 1, host |-> Ip(4)], [type |-> 4, host |-> Ip(16)]}
            \cup {[type |-> 3, host |-> host] : host \in SeqsUpTo({1, 5}, 2)}
Greeting(methods) == <<5, Len(methods)>> \o methods
AskFor(ask, port) ==
    <<5, 1, 0, ask.type>> \o (IF ask.type = 3 THEN <<Len(ask.host)>> ELSE <<>>) \o ask.host \o port
Clients == {[methods |-> m, ask |-> a, port |-> p] : m \in {<<0>>, <<2, 0>>}, a \in Asks, p \in {<<0, 80>>, <<1, 2>>}}
Written(c) == Greeting(c.methods) \o AskFor(c.ask, c.port)

\* A client is taken where it asked to go, and nothing that it sent early is
\* missing from the tunnel.
ASSUME SocksGoesWhereAsked == \A c \in Clients : \A early \in {<<>>, <<5>>, <<0, 7, 1>>} :
    LET asked == S5!Handshake(Written(c) \o early)
    IN /\ asked.is = "asked" /\ asked.type = c.ask.type /\ asked.host = c.ask.host
       /\ asked.port = 256 * c.port[1] + c.port[2]
       /\ S5!Serve(Written(c) \o early, TRUE).carried = early

\* A client that stops within the handshake opens no channel and gets no reply.
ASSUME SocksCutShort == \A c \in Clients : \A n \in 0..(Len(Written(c)) - 1) :
    LET served == S5!Serve(SubSeq(Written(c), 1, n), TRUE) IN ~served.tunnel /\ Len(served.sent) <= 2

\* Whatever a client sends, it goes only where these bytes say, and it is refused
\* only for a command or a type there is none of; the rest of a request that is
\* refused is never read.
Requests == SeqsUpTo({0, 1, 3, 5}, 5) \cup {<<5, 1, 0>> \o r : r \in SeqsUpTo({1, 3, 9}, 5)}
ASSUME SocksTakesNoOther == \A bytes \in Requests :
    LET result == S5!Request(bytes)
    IN CASE result.is = "asked" ->
                LET n == Len(bytes) - Len(result.left)
                IN AskFor(result, SubSeq(bytes, n - 1, n)) = <<5, 1, 0>> \o SubSeq(bytes, 4, n)
         [] result.is = "refused" ->
                /\ Len(bytes) >= 4 /\ result.left = SubSeq(bytes, 5, Len(bytes))
                /\ IF bytes[2] # 1 THEN result.code = 7 ELSE bytes[4] \notin {1, 3, 4} /\ result.code = 8
         [] result.is = "broken" -> result.sent = <<>>

---------------------------------------------------------------------------
(***************************************************************************)
(* The probe.                                                              *)
(***************************************************************************)
Pr == INSTANCE Probe WITH NewLine <- "nl", Blank <- " ",
                          IsNumber <- LAMBDA value : value # <<>> /\ ToSet(value) \subseteq {"1", "2"}

Cards == {<<>>, <<<<"a">>>>, <<<<"a">>, <<"b">>>>}
Hosts == {[cpuModel |-> m, cpuCores |-> <<"2">>, memTotal |-> t, memUsed |-> u, diskTotal |-> <<"2", "2">>,
           diskUsed |-> d, gpus |-> g] :
             m \in {<<>>, <<"a", " ", "b">>}, t \in {<<>>, <<"1", "2">>}, u \in {<<>>, <<"1", "2">>},
             d \in {<<>>, <<"2">>}, g \in Cards}
Msg(is, text) == [is |-> is, data |-> text]
Heard(before, after) == Pr!ExecCapture(<<Msg("data", before), Msg("other", <<>>), Msg("data", after), Msg("eof", <<>>)>>)

\* What the host said is read, whatever it greets with and however its output is
\* cut into messages, and the poll reads the same figures as the probe.
ASSUME ProbeReadsHost == \A host \in Hosts : \A banner \in {<<>>, <<"a", "nl">>} :
    LET text == banner \o Pr!ProbeOutput(host)
        read == Pr!Parse(text)
    IN /\ \A key \in ToSet(Pr!Single) : read[key] = host[key]
       /\ read.gpus = host.gpus /\ read.gpu = IF host.gpus = <<>> THEN <<>> ELSE host.gpus[1]
       /\ \A n \in 0..Len(text) : Heard(SubSeq(text, 1, n), SubSeq(text, n + 1, Len(text))).text = text
       /\ Pr!ParseUsage(Pr!UsageOutput(host)) = [key \in ToSet(Pr!Dynamic) |-> read[key]]

\* The end of the command may be told before the last of its output.  A figure
\* is then the host's or missing, unless the cut is within its digits.
ASSUME CutOnlyWithin == \A host \in {h \in Hosts : h.gpus = <<>>} :
    LET text == Pr!ProbeOutput(host) IN \A n \in 0..Len(text) :
        LET early == <<Msg("data", SubSeq(text, 1, n)), Msg("exitStatus", <<>>), Msg("data", SubSeq(text, n + 1, Len(text)))>>
            read == Pr!Parse(Pr!ExecCapture(early).text)
        IN \A key \in Pr!Numeric : read[key] \in {host[key], <<>>}
              \/ (n < Len(text) /\ text[n] \in {"1", "2"} /\ text[n + 1] \in {"1", "2"}
                    /\ key = Last(SelectSeq(SubSeq(text, 1, n), LAMBDA x : x \in Pr!Numeric)))
=============================================================================
