------------------------------- MODULE Locks --------------------------------
(***************************************************************************)
(* The screens in front of the vault (src/tui/unlock.rs, totp_unlock.rs,   *)
(* totp_prompt.rs), the judgement of a code (src/totp.rs), and the command *)
(* line's way past the same screens without a terminal to draw them on     *)
(* (src/cli/unlock.rs, src/cli/mod.rs).                                    *)
(*                                                                         *)
(* As in Wizard a field's content is one key.  What the application does   *)
(* with an answer depends on the vault, the keyring and other copies; here *)
(* it is any of the screens its handlers may leave behind.                 *)
(***************************************************************************)
EXTENDS Integers, Sequences, FiniteSets, FiniteSetsExt

CONSTANTS
    Bytes(_),        \* the length of a password
    MinLen,          \* of a new password
    MaxTries,        \* MAX_TRIES
    Generate(_),     \* the code of a step; two steps may share one
    Skew,            \* SKEW
    Lower(_)         \* to_lowercase

Empty == ""
Nothing == [do |-> "nothing"]
Quit == [do |-> "quit"]
Stay(s) == [to |-> s, out |-> Nothing]
Done(s, out) == [to |-> s, out |-> out]
Fail(s, why) == Stay([s EXCEPT !.error = why])

---------------------------------------------------------------------------
\* UnlockState

NewUnlock(mode) ==
    [mode |-> mode, password |-> Empty, confirm |-> Empty, focus |-> "password", error |-> "no",
     retryable |-> TRUE, info |-> "no"]
IsNewPassword(s) == s.mode \in {"firstRun", "migrate"}

Submit(s) ==
    CASE ~IsNewPassword(s) /\ s.password = Empty  -> Fail(s, "empty")
      [] ~IsNewPassword(s) /\ s.password # Empty  ->
             Done([s EXCEPT !.password = Empty], [do |-> "try", password |-> s.password])
      [] IsNewPassword(s) /\ Bytes(s.password) < MinLen -> Fail(s, "tooShort")
      [] IsNewPassword(s) /\ Bytes(s.password) >= MinLen ->
             IF s.password # s.confirm THEN Fail([s EXCEPT !.confirm = Empty], "differ")
             ELSE Done([s EXCEPT !.password = Empty], [do |-> "set", password |-> s.password])

UnlockKey(state, k) ==
    LET s == [state EXCEPT !.error = "no", !.retryable = TRUE, !.info = "no"]
        other == IF s.focus = "password" THEN "confirm" ELSE "password"
    IN CASE k.key = "esc" -> Done(s, Quit)
         [] k.key \in {"tab", "down", "up"} /\ IsNewPassword(s) -> Stay([s EXCEPT !.focus = other])
         [] k.key = "text"  -> Stay(IF s.focus = "confirm" /\ IsNewPassword(s)
                                    THEN [s EXCEPT !.confirm = k.text]
                                    ELSE [s EXCEPT !.password = k.text])
         [] k.key = "enter" -> Submit(s)
         [] OTHER -> Stay(s)

---------------------------------------------------------------------------
\* TotpUnlockState and TotpPromptState; the prompt has no notice to clear.

Full(code) == code \notin {Empty, "part"}
NewCodeScreen == [code |-> Empty, error |-> "no", retryable |-> TRUE, info |-> "no"]
CodeKey(state, k) ==
    LET s == [state EXCEPT !.error = "no", !.retryable = TRUE, !.info = "no"]
    IN CASE k.key = "esc"  -> Done(s, Quit)
         [] k.key = "text" -> Stay([s EXCEPT !.code = k.text])
         [] k.key = "enter" /\ Full(s.code) ->
                Done([s EXCEPT !.code = Empty], [do |-> "code", code |-> s.code])
         [] OTHER -> Stay(s)

\* check_code: the newest step of the window that has this code.
Window(now) == (IF now < Skew THEN 0 ELSE now - Skew) .. now + Skew
CheckCode(decodes, code, now, last) ==
    LET steps == {t \in Window(now) : Generate(t) = code}
    IN IF ~decodes \/ steps = {} THEN [is |-> "invalid"]
       ELSE IF Max(steps) > last THEN [is |-> "accepted", step |-> Max(steps)]
       ELSE [is |-> "replayed"]
VerifyEnrolment(decodes, code, now) == CheckCode(decodes, code, now, 0).is = "accepted"

---------------------------------------------------------------------------
(***************************************************************************)
(* The application's screen, as far as the command line looks at it, and   *)
(* what an answer makes of it.                                             *)
(***************************************************************************)
At(screen) == [at |-> screen, error |-> FALSE, retryable |-> TRUE]
Told(app, retryable) == [app EXCEPT !.error = TRUE, !.retryable = retryable]
Escalated == Told(At("locked"), TRUE)

TryUnlock(app) ==
    {At("open"), At("code"), At("cannotOpen"), Told(app, TRUE), Told(app, FALSE)}
TryTotpDaily(app) ==
    {At("open"), At("cannotOpen"), Told(app, TRUE), Told(app, FALSE), Escalated}
VerifyTotpPrompt(app) == {At("open"), [app EXCEPT !.error = TRUE]}

Questions == {"locked", "daily", "code"}
AnswersTo(app) ==
    CASE app.at = "locked" -> TryUnlock(app)
      [] app.at = "daily"  -> TryTotpDaily(app)
      [] app.at = "code"   -> VerifyTotpPrompt(app)

\* One turn of cli::unlock::unlock.
NewRun(app) == [app |-> app, tries |-> 0, asked |-> <<>>, result |-> "asking"]
End(c, why) == [c EXCEPT !.result = why]

Judged(c, app) ==
    LET asked == [c EXCEPT !.app = app, !.asked = Append(@, c.app.at)]
        again == app.at = c.app.at /\ app.error
    IN IF ~again THEN asked
       ELSE IF ~app.retryable THEN End(asked, "refused")
       ELSE IF c.tries + 1 >= MaxTries THEN End([asked EXCEPT !.tries = @ + 1], "gaveUp")
       ELSE [asked EXCEPT !.tries = @ + 1]

UnlockTurn(c) ==
    CASE c.app.at = "open"          -> {End(c, "opened")}
      [] c.app.at \in Questions     -> {End(c, "cancelled")} \cup {Judged(c, a) : a \in AnswersTo(c.app)}
      [] c.app.at \in {"setup", "migrate", "unopenable", "cannotOpen"} -> {End(c, "refused")}

\* cli::resolve
Resolve(servers, name) ==
    LET matches == {i \in DOMAIN servers : Lower(servers[i]) = Lower(name)}
    IN IF Cardinality(matches) = 1 THEN CHOOSE i \in matches : TRUE ELSE 0
=============================================================================
