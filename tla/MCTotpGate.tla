----------------------------- MODULE MCTotpGate -----------------------------
(* The code gate as it is, and beside it the screens in front of the vault, *)
(* checked over every state that keys take a small instance to.             *)
EXTENDS TotpGate, Sequences

\* The states reached from init in at most n steps of Succ.
Reached(init, Succ(_), n) ==
    LET from[i \in 0..n] ==
            IF i = 0 THEN [all |-> init, new |-> init]
            ELSE LET before == from[i - 1]
                     new == UNION {Succ(s) : s \in before.new} \ before.all
                 IN [all |-> before.all \cup new, new |-> new]
    IN from[n].all

---------------------------------------------------------------------------
(***************************************************************************)
(* The wizard and the settings.  "wide" has four characters in eight bytes. *)
(***************************************************************************)
CharsOf(t) == CASE t \in {"long", "other"} -> 8 [] t \in {"wide", "short"} -> 4 [] OTHER -> 0
BytesOf(t) == CASE t \in {"long", "other", "wide"} -> 8 [] t = "short" -> 4 [] OTHER -> 0

Z == INSTANCE Wizard WITH
        Chars <- CharsOf, Bytes <- BytesOf, MinLen <- 8,
        Offered <- [language |-> <<"en", "tr">>, theme |-> <<"mono">>, autoLock |-> <<0, 1, 5>>,
                    connect |-> <<"full", "pane">>]

Opened == Z!NewSettings([language |-> "tr", theme |-> "gone", autoLock |-> 5, connect |-> "full"],
                        "password", TRUE)
Secrets == {"", "short", "wide", "long", "other"}
Strokes == {Z!Key(k) : k \in {"esc", "enter", "ctrlEnter", "up", "down", "left", "right", "tab", "y", "n"}}
SetupKeys == Strokes \cup {Z!Text(t) : t \in Secrets}
SetupSucc(s) == {Z!SetupKey(s, k).to : k \in
                   IF s.step = "enrol" THEN Strokes \cup {Z!Text(c) : c \in {"", "live", "wrong"}}
                                       ELSE SetupKeys}
Setups == Reached({Z!NewSetup(store) : store \in BOOLEAN}, SetupSucc, 20)

\* No key leads out of the states above.
ASSUME AllSetups == \A s \in Setups : SetupSucc(s) \subseteq Setups

\* A vault is only ever asked for with what its mode needs: a password that
\* was typed twice, a secret whose code was right, a store that is there --
\* also when an earlier attempt failed and the wizard goes on.
Confirmed(s, asked) == asked.password = s.password /\ s.password = s.confirm /\ CharsOf(s.password) >= 8
ASSUME CreatedWithItsInputs == \A s \in Setups : \A k \in SetupKeys :
    LET asked == Z!SetupKey(s, k).out IN asked.do = "create" =>
        /\ asked.mode \in Z!WithStore => s.store
        /\ asked.password = "" => asked.mode = "none"
        /\ asked.password # "" => Confirmed(s, asked)
        /\ IF asked.mode \in Z!WithCode THEN asked.secret = Z!Secret /\ s.code = "live"
                                        ELSE asked.secret = ""

\* A password that mixes scripts: the wizard counts characters, the settings
\* bytes, so one accepts what the other refuses.
ASSUME LengthsDiffer ==
    LET typed(t) == [Z!NewSetup(TRUE) EXCEPT !.step = "password", !.password = t, !.confirm = t,
                                             !.onConfirm = TRUE]
        changed(t) == [Opened EXCEPT !.pw.new = t, !.pw.confirm = t]
    IN {t \in Secrets : (Z!SetupKey(typed(t), Z!Key("enter")).out.do = "create")
                          # (Z!SubmitPassword(changed(t)).out.do = "changePassword")} = {"wide"}

SettingsKeys == {Z!Key("backTab")} \cup Strokes \cup {Z!Text(t) : t \in {"", "short", "long", "live"}}
Typed(s) == s.pw # Opened.pw \/ s.focus # Opened.focus
Moved(s) == s.at # Opened.at
Asking(s) == s.wizard # Z!NoWizard
\* Bound: one of the lists, the password form and the wizard in use at a time.
SettingsSucc(s) ==
    {t \in {Z!SettingsKey(s, k).to : k \in SettingsKeys} :
       Cardinality({b \in {<<1, Typed(t)>>, <<2, Moved(t)>>, <<3, Asking(t)>>} : b[2]}) <= 1}
Settings == Reached({Opened}, SettingsSucc, 24)

ASSUME AllSettings == \A s \in Settings : SettingsSucc(s) \subseteq Settings

\* The wizard is only there on its tab, where Esc leaves it and not the
\* settings; what it asked for is passed on as it is and the wizard is gone.
ASSUME WizardStaysInside == \A s \in Settings :
    /\ Asking(s) => s.tab = "security" /\ Z!SettingsKey(s, Z!Key("esc")) = Z!Stay([s EXCEPT
                                                     !.wizard = Z!NoWizard, !.error = "no"])
    /\ \A k \in SettingsKeys : LET asked == Z!SettingsKey(s, k) IN
          /\ asked.out.do = "close" <=> k.key = "esc" /\ ~Asking(s)
          /\ asked.out.do = "changeMode" =>
                /\ asked.to.wizard = Z!NoWizard
                /\ [asked.out EXCEPT !.do = "create"] = Z!SetupKey(s.wizard, k).out

\* A password is changed to what was typed twice, once: nothing of it stays
\* in the form.  A choice is the one the cursor is on.
ASSUME SubmittedOnce == \A s \in Settings : \A k \in SettingsKeys :
    LET asked == Z!SettingsKey(s, k) IN
    /\ asked.out.do = "changePassword" =>
          /\ asked.out.new = s.pw.new /\ s.pw.new = s.pw.confirm /\ BytesOf(asked.out.new) >= 8
          /\ asked.out.current = s.pw.current /\ \A f \in DOMAIN asked.to.pw : asked.to.pw[f] = ""
    /\ asked.out.do = "select" => s.tab = asked.out.list /\ asked.to = s
    /\ asked.to.tab # s.tab => asked.to.pw = s.pw /\ asked.to.at = s.at

---------------------------------------------------------------------------
(***************************************************************************)
(* The lock screens and the command line.  Codes come again after three    *)
(* steps or two.  Names that differ in case only are one to the command    *)
(* line.                                                                   *)
(***************************************************************************)
CodeOf(step) == <<0, 1, 2, 0, 1, 0, 1, 0>>[step + 1]
LowerOf(name) == CASE name = "WEB" -> "web" [] name = "Db" -> "db" [] OTHER -> name

L == INSTANCE Locks WITH Bytes <- BytesOf, MinLen <- 8, MaxTries <- 3, Generate <- CodeOf, Skew <- 1,
                         Lower <- LowerOf

UnlockKeys == {Z!Key(k) : k \in {"esc", "enter", "tab", "up", "left"}} \cup {Z!Text(t) : t \in Secrets}
UnlockSucc(s) ==
    {L!UnlockKey(s, k).to : k \in UnlockKeys} \cup {[s EXCEPT !.error = "wrong", !.retryable = FALSE]}
Unlocks == Reached({L!NewUnlock(mode) : mode \in {"firstRun", "unlock", "migrate"}}, UnlockSucc, 12)

\* A password leaves the screen once: the field it was in is empty when the
\* answer comes, so Enter alone never sends it again.  A new one was typed
\* twice.  Nothing said before the last key stays on the screen.
ASSUME PasswordSentOnce == \A s \in Unlocks : \A k \in UnlockKeys :
    LET asked == L!UnlockKey(s, k) IN
    /\ UnlockSucc(s) \subseteq Unlocks
    /\ asked.out.do \in {"try", "set"} =>
          /\ asked.out.password # "" /\ asked.to.password = ""
          /\ L!UnlockKey(asked.to, Z!Key("enter")).out = L!Nothing
          /\ asked.out.do = "set" <=> L!IsNewPassword(s)
          /\ asked.out.do = "set" => s.confirm = asked.out.password /\ BytesOf(s.confirm) >= 8
    /\ asked.to.error # "no" => k.key = "enter" /\ asked.out = L!Nothing
    /\ asked.to.retryable /\ asked.to.info = "no"

CodeKeys == {Z!Key(k) : k \in {"esc", "enter", "tab"}} \cup {Z!Text(t) : t \in {"", "part", "live"}}
CodeSucc(s) == {L!CodeKey(s, k).to : k \in CodeKeys}
ASSUME CodeSentOnce == \A s \in Reached({L!NewCodeScreen}, CodeSucc, 4) : \A k \in CodeKeys :
    LET asked == L!CodeKey(s, k) IN asked.out.do = "code" =>
        asked.out.code = "live" /\ L!CodeKey(asked.to, Z!Key("enter")).out = L!Nothing

\* A code is judged by the newest step it can stand for: once it was taken it
\* is replayed for as long as it is the code of no newer step, and a code that
\* is not taken never has a step to store.
ASSUME NewestStepWins == \A at, last \in 0..6 : \A code \in 0..2 :
    LET first == L!CheckCode(TRUE, code, at, last)
        steps == {t \in 0..7 : t \in at - 1 .. at + 1 /\ CodeOf(t) = code}
    IN /\ first.is = "invalid" <=> steps = {}
       /\ first.is = "accepted" =>
             /\ first.step \in steps /\ first.step > last /\ \A t \in steps : t <= first.step
             /\ \A later \in at..6 : LET again == L!CheckCode(TRUE, code, later, first.step) IN
                   again.is = "accepted" => again.step > first.step
       /\ first.is = "replayed" => steps # {} /\ \A t \in steps : t <= last
       /\ L!CheckCode(FALSE, code, at, last).is = "invalid"
       /\ L!VerifyEnrolment(TRUE, code, at) <=> \E t \in steps : t > 0

\* The command line asks a bounded number of times, opens nothing that is not
\* past its second factor, and asks no more once no answer can help.
Screens == {L!At(a) : a \in {"setup", "locked", "migrate", "daily", "code", "open", "unopenable", "cannotOpen"}}
RunSucc(c) == IF c.result = "asking" THEN L!UnlockTurn(c) ELSE {}
Runs == Reached({L!NewRun(a) : a \in Screens \cup {L!Escalated}}, RunSucc, 12)
ASSUME AskedInVain == \A c \in Runs :
    /\ RunSucc(c) \subseteq Runs
    /\ c.tries <= 3 /\ Len(c.asked) <= 3 + 2
    /\ c.result = "opened" => c.app.at = "open"
    /\ c.result = "gaveUp" => c.tries = 3
    /\ c.result = "asking" /\ c.asked # <<>> => c.app.retryable
    /\ \A i \in 1..(Len(c.asked) - 1) : c.asked[i] # c.asked[i + 1] =>
          <<c.asked[i], c.asked[i + 1]>> \in {<<"daily", "locked">>, <<"locked", "code">>}

\* A server more never turns a name into another server, and neither does
\* the order they are in.
Servers == {"web", "WEB", "db", "Db", "db-1"}
ASSUME NameMeansOne == \A a, b, c, name \in Servers :
    /\ L!Resolve(<<a, b, c>>, name) \in {0, L!Resolve(<<a, b>>, name), 3}
    /\ L!Resolve(<<a, b, c>>, name) = 3 => L!Resolve(<<a, b>>, name) = 0
    /\ LET one == L!Resolve(<<a, b, c>>, name)  other == L!Resolve(<<c, b, a>>, name)
       IN one + other = IF one = 0 THEN 0 ELSE 4
=============================================================================
