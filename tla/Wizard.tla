------------------------------- MODULE Wizard -------------------------------
(***************************************************************************)
(* The security wizard (src/tui/setup.rs) and the settings screen it is    *)
(* embedded in (src/tui/settings.rs): what a key makes of each, and what   *)
(* the screen then asks the application to do.                             *)
(*                                                                         *)
(* Characters and Backspace leave the focused field with some content, so  *)
(* they are one key, "text".  A password is told apart from another one    *)
(* and has a length in characters and in bytes; a code is "live" when the  *)
(* authenticator shows it.                                                 *)
(***************************************************************************)
EXTENDS Integers, Sequences, SequencesExt

CONSTANTS
    Chars(_), Bytes(_),   \* the length of a password
    MinLen,               \* MIN_PASSWORD_LEN
    Offered               \* what each list of the settings offers, in order

Empty == ""
Secret == "secret"

Nothing == [do |-> "nothing"]
Quit == [do |-> "quit"]
Stay(s) == [to |-> s, out |-> Nothing]
Done(s, out) == [to |-> s, out |-> out]
Fail(s, why) == Stay([s EXCEPT !.error = why])

Text(content) == [key |-> "text", text |-> content]
Key(name) == [key |-> name, text |-> Empty]
\* Only the password tab looks whether Ctrl is down.
IsEnter(k) == k.key \in {"enter", "ctrlEnter"}

---------------------------------------------------------------------------
\* SetupState

Modes == <<"none", "password", "passwordTotp", "totpDaily">>
WithCode == {"passwordTotp", "totpDaily"}
WithStore == {"none", "totpDaily"}

NewSetup(store) ==
    [step |-> "mode", store |-> store, selected |-> 2, mode |-> "password", password |-> Empty,
     confirm |-> Empty, onConfirm |-> FALSE, recovery |-> TRUE, secret |-> Empty, code |-> Empty,
     error |-> "no"]

Available(s, mode) == mode \in WithStore => s.store
Create(mode, password, secret) ==
    [do |-> "create", mode |-> mode, password |-> password, secret |-> secret]

ChooseMode(s, k) ==
    LET mode == Modes[s.selected]
    IN CASE k.key = "up"    -> Stay([s EXCEPT !.selected = IF @ = 1 THEN 1 ELSE @ - 1])
         [] k.key = "down"  -> Stay([s EXCEPT !.selected = IF @ = Len(Modes) THEN @ ELSE @ + 1])
         [] IsEnter(k) ->
                IF ~Available(s, mode) THEN Fail(s, "noStore")
                ELSE Stay([s EXCEPT !.mode = mode, !.error = "no",
                                    !.step = IF mode = "none" THEN "offer" ELSE "password"])
         [] OTHER -> Stay(s)

OfferRecovery(s, k) ==
    CASE k.key \in {"left", "right", "up", "down"} -> Stay([s EXCEPT !.recovery = ~@])
      [] k.key = "y" -> Stay([s EXCEPT !.recovery = TRUE, !.step = "password"])
      [] IsEnter(k) /\ s.recovery -> Stay([s EXCEPT !.step = "password"])
      [] k.key = "n" \/ (IsEnter(k) /\ ~s.recovery) -> Done(s, Create("none", Empty, Empty))
      [] OTHER -> Stay(s)

\* The password and the secret are taken out of the wizard.
Finish(s) ==
    Done([s EXCEPT !.password = Empty, !.confirm = Empty,
                   !.secret = IF s.mode \in WithCode THEN Empty ELSE @],
         Create(s.mode, s.password, IF s.mode \in WithCode THEN s.secret ELSE Empty))

AdvanceFromPassword(s) ==
    IF s.mode \in WithCode
    THEN Stay([s EXCEPT !.secret = Secret, !.code = Empty, !.step = "enrol"])
    ELSE Finish(s)

Passwords(s, k) ==
    CASE k.key \in {"tab", "up", "down"} -> Stay([s EXCEPT !.onConfirm = ~@])
      [] k.key = "text" -> Stay(IF s.onConfirm THEN [s EXCEPT !.confirm = k.text]
                                               ELSE [s EXCEPT !.password = k.text])
      [] IsEnter(k) /\ ~s.onConfirm -> Stay([s EXCEPT !.onConfirm = TRUE])
      [] IsEnter(k) /\ s.onConfirm ->
             IF Chars(s.password) < MinLen THEN Fail(s, "tooShort")
             ELSE IF s.password # s.confirm THEN Fail(s, "differ")
             ELSE AdvanceFromPassword([s EXCEPT !.error = "no"])
      [] OTHER -> Stay(s)

\* totp::verify_enrollment: no code is right for a secret that does not decode.
Verifies(secret, code) == secret = Secret /\ code = "live"

Enrol(s, k) ==
    CASE k.key = "text" -> Stay([s EXCEPT !.code = k.text])
      [] IsEnter(k) -> IF Verifies(s.secret, s.code) THEN Finish([s EXCEPT !.error = "no"])
                        ELSE Fail([s EXCEPT !.code = Empty], "invalidCode")
      [] OTHER -> Stay(s)

SetupKey(s, k) ==
    IF k.key = "esc" THEN Done(s, Quit)
    ELSE CASE s.step = "mode"      -> ChooseMode(s, k)
           [] s.step = "offer"     -> OfferRecovery(s, k)
           [] s.step = "password"  -> Passwords(s, k)
           [] s.step = "enrol"     -> Enrol(s, k)

---------------------------------------------------------------------------
\* SettingsState

Tabs == <<"language", "theme", "password", "security", "autoLock", "connect">>
Lists == {"language", "theme", "autoLock", "connect"}
Fields == <<"current", "new", "confirm">>
NoWizard == [step |-> "none"]

\* A value that is not in the list stands at its first entry.
Position(list, value) == IF Contains(list, value) THEN SelectInSeq(list, LAMBDA c : c = value) ELSE 1
NewSettings(current, mode, store) ==
    [tab |-> "language", at |-> [l \in Lists |-> Position(Offered[l], current[l])],
     focus |-> "current", pw |-> [f \in ToSet(Fields) |-> Empty], error |-> "no", mode |-> mode,
     store |-> store, wizard |-> NoWizard]

Wizarding(s) == s.tab = "security" /\ s.wizard # NoWizard
\* The element n places after x, around the end.
Around(seq, x, n) == seq[((SelectInSeq(seq, LAMBDA y : y = x) - 1 + n) % Len(seq)) + 1]

ListKey(s, k) ==
    LET l == s.tab
    IN CASE k.key = "up"    -> Stay([s EXCEPT !.at[l] = IF @ > 1 THEN @ - 1 ELSE @])
         [] k.key = "down"  -> Stay([s EXCEPT !.at[l] = IF @ < Len(Offered[l]) THEN @ + 1 ELSE @])
         [] IsEnter(k)      -> Done(s, [do |-> "select", list |-> l, choice |-> Offered[l][s.at[l]]])
         [] OTHER -> Stay(s)

\* Here and on the lock screens a password is as long as its bytes.
SubmitPassword(s) ==
    IF Bytes(s.pw.new) < MinLen THEN Fail(s, "tooShort")
    ELSE IF s.pw.new # s.pw.confirm THEN Fail([s EXCEPT !.pw.confirm = Empty], "differ")
    ELSE Done([s EXCEPT !.pw = [f \in DOMAIN @ |-> Empty]],
                       [do |-> "changePassword", current |-> s.pw.current, new |-> s.pw.new])

PasswordKey(state, k) ==
    LET s == [state EXCEPT !.error = "no"]
    IN CASE k.key = "tab"     -> Stay([s EXCEPT !.focus = Around(Fields, @, 1)])
         [] k.key = "backTab" -> Stay([s EXCEPT !.focus = Around(Fields, @, -1)])
         [] k.key = "text"    -> Stay([s EXCEPT !.pw[s.focus] = k.text])
         [] k.key = "ctrlEnter" \/ (k.key = "enter" /\ s.focus = "confirm") -> SubmitPassword(s)
         [] k.key = "enter" /\ s.focus # "confirm" -> Stay([s EXCEPT !.focus = Around(Fields, @, 1)])
         [] OTHER -> Stay(s)

SecurityKey(s, k) ==
    IF s.wizard = NoWizard
    THEN Stay(IF IsEnter(k) THEN [s EXCEPT !.wizard = NewSetup(s.store)] ELSE s)
    ELSE LET asked == SetupKey(s.wizard, k)
         IN IF asked.out = Nothing THEN Stay([s EXCEPT !.wizard = asked.to])
            ELSE Done([s EXCEPT !.wizard = NoWizard],
                      IF asked.out = Quit THEN Nothing ELSE [asked.out EXCEPT !.do = "changeMode"])

SettingsKey(s, k) ==
    CASE k.key = "esc" /\ Wizarding(s)  -> Stay([s EXCEPT !.wizard = NoWizard, !.error = "no"])
      [] k.key = "esc" /\ ~Wizarding(s) -> Done(s, [do |-> "close"])
      [] k.key \in {"left", "right"} /\ ~Wizarding(s) ->
             Stay([s EXCEPT !.tab = Around(Tabs, @, 1), !.error = "no"])
      [] OTHER -> CASE s.tab \in Lists     -> ListKey(s, k)
                    [] s.tab = "password"  -> PasswordKey(s, k)
                    [] s.tab = "security"  -> SecurityKey(s, k)

\* What App does to the screen after a change of mode worked.
SetAuthMode(s, mode) == [s EXCEPT !.mode = mode, !.wizard = NoWizard]
=============================================================================
