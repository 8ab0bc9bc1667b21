------------------------------ MODULE MCScreens ------------------------------
(***************************************************************************)
(* Forms, RunLog, Keys and Tty over small inputs.  What they promise is    *)
(* assumed here, for every input within the bounds, so TLC checks it       *)
(* whenever it runs a module that extends this one.                        *)
(***************************************************************************)
EXTENDS MCPanels

---------------------------------------------------------------------------
(***************************************************************************)
(* The forms, over a few texts for each field.                             *)
(***************************************************************************)
TrimOf(t) == CASE t = " " -> "" [] t = "x " -> "x" [] OTHER -> t
NumberOf(t) == CASE t = "22" -> 22 [] t = "7" -> 7 [] OTHER -> 0
DigitsOf(n) == CASE n = 22 -> "22" [] n = 7 -> "7"
PartsOf(t) == CASE t = "" -> <<"">> [] t = "a" -> <<"a">> [] t = "a,b" -> <<"a", "b">>
                [] t = "b,A,,a" -> <<"b", "A", "", "a">> [] t = "b,A" -> <<"b", "A">>
JoinOf(tags) == CHOOSE t \in {"", "a", "a,b", "b,A"} : SelectSeq(PartsOf(t), LAMBDA p : p # "") = tags
FoldOf(t) == IF t = "A" THEN "a" ELSE t

F == INSTANCE Forms WITH Trim <- TrimOf, Number <- NumberOf, Digits <- DigitsOf, Parts <- PartsOf,
                         Join <- JoinOf, Fold <- FoldOf, Loopback <- "lo"

Stroke(name) == [key |-> name, text |-> ""]
Strokes == {Stroke(k) : k \in {"esc", "tab", "backTab", "enter", "ctrlEnter", "left", "right", "up",
                               "down", "ctrlUp", "ctrlDown", "a", "e", "d"}}
Typing(texts) == {[key |-> "text", text |-> t] : t \in texts}

\* The states reached from init in at most n steps of Succ.
Reached(init, Succ(_), n) ==
    LET from[i \in 0..n] ==
            IF i = 0 THEN [all |-> init, new |-> init]
            ELSE LET before == from[i - 1]
                     new == UNION {Succ(s) : s \in before.new} \ before.all
                 IN [all |-> before.all \cup new, new |-> new]
    IN from[n].all

ServerForms ==
    {[F!AddServer(<<4, 5>>) EXCEPT !.val = v, !.kind = kind, !.jump = jump] :
        kind \in {"password", "sshKey", "agent"}, jump \in 1..3,
        v \in [name : {" ", "x "}, host : {" ", "x "}, port : {"22", "x "}, username : {" ", "x "},
               tags : {"b,A,,a"}, password : {"x ", "22"}, keyPath : {" ", "x "}, passphrase : {"22", " "}]}
SavedServers == {F!SubmitServer(s).out.entry : s \in {t \in ServerForms : F!SubmitServer(t).out # F!Nothing}}

\* What the form lets through is complete, and an edit of it that changes
\* nothing gives it back; only a jump that is no choice any more is lost.
ASSUME EditKeepsServer == SavedServers # {} /\ \A e \in SavedServers : \A choices \in {<<>>, <<4>>, <<5, 4>>} :
    /\ e.name = "x" /\ e.host = "x" /\ e.username = "x" /\ e.port = 22 /\ e.tags = <<"b", "A">>
    /\ e.auth.kind = "sshKey" => e.auth.keyPath = "x "
    /\ F!SubmitServer(F!EditServer(e, choices)).out.entry =
          [e EXCEPT !.jump = IF Contains(choices, @) THEN @ ELSE 0]

\* The focus is on a field that is shown, whatever is cycled under it, and no
\* field is out of the reach of Tab.
ServerSucc(s) == {F!ServerKey(s, k).to : k \in Strokes}
ForwardSucc(s) == {F!ForwardKey(s, k).to : k \in Strokes}
Tabbed(Succ(_), s, fields) == {t.focus : t \in Reached({s}, Succ, Len(fields))} = ToSet(fields)
ServerTab(s) == {F!ServerKey(s, Stroke("tab")).to}
ForwardTab(s) == {F!ForwardKey(s, Stroke("tab")).to}
StepEditSucc(s) == {F!StepEditKey(s, Stroke(k)) : k \in {"tab", "backTab", "left", "right"}}
ASSUME FocusIsShown ==
    /\ \A s \in Reached({F!AddServer(c) : c \in {<<>>, <<4, 5>>}}, ServerSucc, 16) :
          /\ s.focus \in ToSet(F!ServerFields(s)) /\ s.jump \in 1..(Len(s.choices) + 1)
          /\ Tabbed(ServerTab, s, F!ServerFields(s))
    /\ \A s \in Reached({F!AddForward}, ForwardSucc, 12) :
          s.focus \in ToSet(F!ForwardFields(s)) /\ Tabbed(ForwardTab, s, F!ForwardFields(s))
    /\ \A s \in Reached({F!BeginStepEdit(F!AddScript, at) : at \in 1..2}, StepEditSucc, 8) :
          s.edit.focus \in ToSet(F!StepFields(s.edit))

\* The lines of a form are in the order of its fields, so that the row a form
\* scrolls to is the field the focus is on.
OnItsRow(fields, lines, focus) ==
    LET row == P!RowIn(fields, focus) IN lines[row + 1] = focus /\ FormShows(lines, row)
ASSUME RowIsFocus ==
    /\ \A s \in Reached({F!AddServer(c) : c \in {<<>>, <<4, 5>>}}, ServerSucc, 16) :
          OnItsRow(F!ServerFields(s), P!ServerLines(s), s.focus)
    /\ \A s \in Reached({F!AddForward}, ForwardSucc, 12) :
          OnItsRow(F!ForwardFields(s), P!ForwardLines(s), s.focus)
    /\ \A s \in Reached({F!BeginStepEdit(F!AddScript, at) : at \in 1..2}, StepEditSucc, 8) :
          OnItsRow(F!StepFields(s.edit), P!StepLines(s.edit, s.error), s.edit.focus)

ForwardForms ==
    {F!ForwardForm(3, kind, addr, port, host, dest) : kind \in ToSet(F!ForwardKinds),
        addr \in {" ", "x "}, port \in {"22", "x"}, host \in {"", "x "}, dest \in {"7", ""}}
SavedRules == {F!SubmitForward(s).out.rule : s \in {t \in ForwardForms : F!SubmitForward(t).out # F!Nothing}}

\* A rule listens on an address that was meant, goes somewhere unless it is a
\* proxy, and is given back by an edit that changes nothing.
ASSUME EditKeepsRule == SavedRules # {} /\ \A r \in SavedRules :
    /\ r.bindAddr \in {"x", "lo"} /\ r.bindPort = 22
    /\ IF r.kind = "dynamic" THEN DOMAIN r \cap {"destHost", "destPort"} = {}
                             ELSE r.destHost = "x" /\ r.destPort = 7
    /\ F!SubmitForward(F!EditForward(r)).out.rule = r

\* Bound: two steps.  A step is edited by setting its fields in one go.
Fills == [command : {" ", "x "}, kind : {"always", "success", "contains"}, needle : {" ", "x "},
          timeout : {"", "7", "x"}]
Filling(s) == {[s EXCEPT !.edit.command = f.command, !.edit.kind = f.kind, !.edit.needle = f.needle,
                        !.edit.timeout = f.timeout] : f \in Fills}
ScriptSucc(s) ==
    {t \in IF s.edit = F!NoEdit THEN {F!ScriptKey(s, k).to : k \in Strokes \cup Typing({"x "})}
           ELSE {F!ScriptKey(e, Stroke(k)).to : e \in Filling(s), k \in {"ctrlEnter", "esc"}} :
       Len(t.steps) <= 2 /\ t.error = "no" /\ t.auto = FALSE}
ScriptForms == Reached({F!AddScript}, ScriptSucc, 24)
SoundStep(t) ==
    /\ t.command = "x" /\ t.timeout \in {0, 7}
    /\ t.condition.needle = IF t.condition.is = "contains" THEN "x" ELSE ""

\* However steps are added, edited, moved and deleted: each is complete, the
\* cursor and the edited step are there, and an edit that changes nothing
\* gives the step back.  Only the first loses a condition it was moved up with.
ASSUME StepsStaySound ==
    LET forms == ScriptForms
    IN \A s \in forms :
        /\ \A i \in DOMAIN s.steps : SoundStep(s.steps[i])
        /\ s.selected \in 1..(IF s.steps = <<>> THEN 1 ELSE Len(s.steps))
        /\ s.edit # F!NoEdit => s.edit.at \in {s.selected, Len(s.steps) + 1}
        /\ s.edit = F!NoEdit => \A i \in DOMAIN s.steps :
              F!CommitStepEdit(F!BeginStepEdit(s, i)).steps =
                 IF i = 1 THEN [s.steps EXCEPT ![1].condition = F!FirstCondition] ELSE s.steps
        /\ LET asked == F!ScriptKey(s, Stroke("ctrlEnter")).out IN asked.do = "submit" =>
              s.edit = F!NoEdit /\ asked.script.steps # <<>> /\ asked.script.name = "x"

---------------------------------------------------------------------------
(***************************************************************************)
(* The log of a script run.  Output comes in bytes; "hi" and "lo" are the  *)
(* halves of one character.                                                *)
(***************************************************************************)
Whole(chunk, i) == i \in 1..(Len(chunk) - 1) /\ chunk[i] = "hi" /\ chunk[i + 1] = "lo"
DecodeOf(chunk) ==
    FlattenSeq([i \in DOMAIN chunk |->
        CASE Whole(chunk, i)     -> <<"eth">>
          [] Whole(chunk, i - 1) -> <<>>
          [] OTHER -> <<IF chunk[i] \in {"hi", "lo"} THEN "?" ELSE chunk[i]>>])
RL == INSTANCE RunLog WITH Decode <- DecodeOf, NewLine <- "nl", Trim <- TrimOf

Printed(s, chunks) == FoldLeft(RL!Output, s, chunks)
Streams == UNION {[1..n -> {"a", "nl", "hi", "lo"}] : n \in 0..4}
Cuts(bytes) == {<<SubSeq(bytes, 1, i), SubSeq(bytes, i + 1, j), SubSeq(bytes, j + 1, Len(bytes))>> :
                  i \in 0..Len(bytes), j \in 0..Len(bytes)}
SplitsNone(chunks) == \A i \in 1..2 : ~(chunks[i] # <<>> /\ Last(chunks[i]) = "hi")
LogText(log) == FlattenSeq([i \in DOMAIN log |-> log[i].text \o <<"nl">>])

\* However the output is cut into chunks, the log has all of it, in order and
\* line by line, unless a chunk ends within a character.
ASSUME LogKeepsOutput ==
    \A bytes \in Streams : \A chunks \in {c \in Cuts(bytes) : c[1] \o c[2] \o c[3] = bytes /\ SplitsNone(c)} :
        LET text == DecodeOf(bytes)
            log == RL!MarkFinished(Printed(RL!NewRunState(1), chunks)).log
        IN LogText(log) = text \o (IF text = <<>> \/ Last(text) = "nl" THEN <<>> ELSE <<"nl">>)

\* A run of up to two steps on each of two servers, or no connection to one.
StepRuns == {<<out, how>> : out \in {<<>>, <<"a">>, <<"a", "nl">>}, how \in {"exit", "timedOut", "error"}}
             \cup {<<<<>>, "skipped">>}
StepLogged(s, step) ==
    LET ran == Printed(RL!StepStarted(s, <<"cmd">>), <<step[1]>>)
    IN CASE step[2] = "exit"     -> RL!StepFinished(ran, <<0>>)
         [] step[2] = "timedOut" -> RL!StepTimedOut(ran)
         [] step[2] = "error"    -> RL!StepError(ran)
         [] step[2] = "skipped"  -> RL!StepSkipped(s)
Visits == {<<>>} \cup {<<x>> : x \in StepRuns} \cup {<<x, <<<<"a">>, "exit">>>> : x \in StepRuns}
              \cup {<<<<<<>>, "unreached">>>>}
VisitLogged(s, visit) ==
    LET started == RL!ServerStarted(s, <<"srv">>)
    IN IF visit # <<>> /\ visit[1][2] = "unreached" THEN RL!ServerConnectError(started)
       ELSE FoldLeft(StepLogged, started, visit)
Kinds(log) == [i \in DOMAIN log |-> log[i].kind]
StepKinds(step) ==
    CASE step[2] = "skipped"   -> <<"skipped">>
      [] step[2] = "unreached" -> <<"error">>
      [] OTHER -> <<"step">> \o (IF step[1] = <<>> THEN <<>> ELSE <<"output">>) \o <<step[2]>>
VisitKinds(visit) == <<"server">> \o FlattenSeq([i \in DOMAIN visit |-> StepKinds(visit[i])])

\* Each server has its section and each step its output above its own end,
\* whatever the output ends with; and Esc in the middle of a step loses none.
ASSUME SectionsInOrder ==
    \A one, two \in Visits :
        LET run == FoldLeft(VisitLogged, RL!NewRunState(2), <<one, two>>)
            kinds == VisitKinds(one) \o <<"blank">> \o VisitKinds(two)
        IN /\ Kinds(RL!MarkFinished(run).log) = kinds
           /\ Kinds(RL!MarkCancelled(RL!Output(RL!StepStarted(run, <<"cmd">>), <<"a">>)).log)
                = kinds \o <<"step", "output", "cancelled">>

Views == {[RL!NewRunState(1) EXCEPT !.log = [i \in 1..n |-> RL!Row("output", <<i>>)], !.height = h,
                                    !.scroll = at] : n \in 0..4, h \in 1..3, at \in -1..3}
Grown(s) == RL!Push(s, "output", <<9>>)

\* Output that comes in moves the view only if it was at the end, where it
\* stays; and a key that scrolls leaves it at the end or above it.
ASSUME PinnedViewStays ==
    \A s \in {v \in Views : v.scroll = RL!AtTail \/ v.scroll < RL!MaxScroll(v)} :
        /\ IF s.scroll = RL!AtTail THEN Last(RL!Shown(Grown(s))) = RL!Row("output", <<9>>)
                                   ELSE RL!Shown(Grown(s)) = RL!Shown(s)
        /\ \A key \in {"up", "down", "pageUp", "pageDown"} :
              LET t == RL!RunKey(s, Stroke(key)).to
              IN t.scroll = RL!AtTail \/ t.scroll \in 0..(RL!MaxScroll(s) - 1)

RunStrokes == Strokes \cup {Stroke(k) : k \in {"s", "q", "?", "pageUp", "home", "end"}} \cup Typing({" ", "x "})
RunSucc(s) == {RL!RunKey(s, k).to : k \in RunStrokes} \cup {RL!MarkFinished(s)}

\* Nothing is closed or saved before the run is over, a key typed into a path
\* does not close the screen, and the path that is saved to is not blank.
ASSUME KeptWhileRunning ==
    \A s \in Reached({[RL!NewRunState(1) EXCEPT !.height = 2]}, RunSucc, 6) : \A k \in RunStrokes :
        LET out == RL!RunKey(s, k).out
        IN /\ out.do \in {"close", "save"} => s.finished
           /\ s.save # RL!Closed => out.do \notin {"close", "help"}
           /\ out.do = "save" => out.path # "" /\ s.save # RL!Closed

---------------------------------------------------------------------------
\* Placeholders: h stands for the host, V.

Values == [k \in {<<"h">>} |-> <<"V">>]
Tokens == {<<"{", "{">>, <<"}", "}">>, <<"{">>, <<"}">>, <<"h">>, <<" ">>}
Commands == {FlattenSeq(t) : t \in UNION {[1..n -> Tokens] : n \in 0..5}}
Occurs(text, what) == \E i \in DOMAIN text : IsPrefix(what, SubSeq(text, i, Len(text)))
Spots(text) == {<<i, j>> \in (DOMAIN text) \X (DOMAIN text) :
                  /\ j > i + 2 /\ j < Len(text)
                  /\ SubSeq(text, i, i + 1) = RL!Open /\ SubSeq(text, j, j + 1) = RL!Close
                  /\ RL!TrimBlanks(SubSeq(text, i + 2, j - 1)) = <<"h">>}
Substituted(text) ==
    LET spots == Spots(text)
    IN FlattenSeq([p \in DOMAIN text |->
          IF \E s \in spots : s[1] = p THEN <<"V">>
          ELSE IF \E s \in spots : s[1] < p /\ p <= s[2] + 1 THEN <<>> ELSE <<text[p]>>])

\* Every placeholder whose key is known is substituted, and all other text is
\* left as it was; but one right after a third brace is missed.
ASSUME KnownAreExpanded ==
    \A text \in Commands : ~Occurs(text, <<"{", "{", "{">>) => RL!Expand(text, Values) = Substituted(text)

---------------------------------------------------------------------------
(***************************************************************************)
(* The keys of the pane.                                                   *)
(***************************************************************************)
K == INSTANCE Keys

Chars1 == {K!Char(c) : c \in 32..126}
NamedKeys == {K!Named(n) : n \in {"enter", "backspace", "tab", "backTab", "esc", "delete", "insert", "pageUp",
                                  "pageDown"} \cup K!CursorKeys}
AllKeys == Chars1 \cup NamedKeys \cup {K!Function(n) : n \in 1..12}

\* The remote side can tell apart any two keys that are pressed alone, and only
\* Esc is how another key begins.
ASSUME KeysToldApart == \A app \in BOOLEAN : \A one \in AllKeys : \A two \in AllKeys \ {one} :
    IsPrefix(K!Encode(one, {}, app), K!Encode(two, {}, app)) => one = K!Named("esc")

\* With Ctrl a character is some other key exactly where a terminal has it so.
ASSUME KnownCollisions ==
    {<<c, name>> \in (97..122 \cup 32..64 \cup 91..95) \X {t.is : t \in NamedKeys} :
        K!Encode(K!Char(c), {"ctrl"}, FALSE) = K!Encode(K!Named(name), {}, FALSE)}
      = {<<105, "tab">>, <<109, "enter">>, <<91, "esc">>, <<63, "backspace">>}

\* Alt is lost on the keys that are sequences without a parameter, and on no
\* other.
ASSUME AltIsSent == \A app \in BOOLEAN :
    {one \in AllKeys : K!Encode(one, {"alt"}, app) = K!Encode(one, {}, app)}
      = {K!Named(n) : n \in {"backTab", "delete", "insert", "pageUp", "pageDown"}}
          \cup {K!Function(n) : n \in 1..12}

---------------------------------------------------------------------------
(***************************************************************************)
(* The terminal, with up to two sessions.                                  *)
(***************************************************************************)
T == INSTANCE Tty

GivenBack(t, sessions) ==
    ~t.alt /\ ~t.raw /\ t.primary = IF sessions = 0 THEN "user" ELSE "nothing"

\* Whoever quits gets the terminal back, the own screen if no session was on it,
\* and whoever panics, at any step, can read the message.
ASSUME GivenBackAtEnd == \A n \in 0..2 :
    /\ GivenBack(T!After(T!Work(n) \o T!Drop), n)
    /\ \A i \in 1..Len(T!Work(n)) :
          LET t == T!After(SubSeq(T!Work(n), 1, i) \o T!Unwind)
          IN ~t.alt /\ ~t.raw /\ t.primary = "message"

Falls(main) == {at \in [1..4 -> 1..Len(main)] : at[1] <= at[2] /\ at[2] <= at[3] /\ at[3] <= at[4]}

\* A fatal signal gives it back as well, at any step of the main task; if the
\* main task goes on meanwhile, only the start of the next screen can leave it
\* on the alternate one, and raw mode is off in any case.
ASSUME GivenBackOnSignal == \A n \in 0..1 : LET main == T!Work(n) \o T!Drop IN \A at \in Falls(main) :
    LET t == T!After(T!Killed(main, at))
        meanwhile == ToSet(SubSeq(main, at[1] + 1, at[4]))
        suspended == n = 1 /\ at[1] >= 3
    IN /\ ~t.raw
       /\ t.alt => "enter" \in meanwhile
       /\ meanwhile = {} => GivenBack(t, IF suspended THEN 1 ELSE 0)
=============================================================================
