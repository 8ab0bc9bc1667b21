------------------------------- MODULE Forms --------------------------------
(***************************************************************************)
(* The forms of a server, a port forward and a script                      *)
(* (src/tui/server_form.rs, forward_form.rs, script_form.rs) and the two   *)
(* dialogs (confirm.rs, overwrite.rs): what a key makes of each, and what  *)
(* is handed to the application in the end.                                *)
(*                                                                         *)
(* Characters and Backspace leave the focused field with some text, so     *)
(* they are one key, "text".  Desk keeps what a form submits; there a form *)
(* is filled in in one step.                                               *)
(***************************************************************************)
EXTENDS Integers, Sequences, SequencesExt

CONSTANTS
    Trim(_),             \* a text without the blanks around it
    Number(_), Digits(_), \* a text as a number, 0 when it is none that is allowed; and back
    Parts(_), Join(_),   \* a text cut at its commas and trimmed; and back
    Fold(_),             \* a text in lower case
    Loopback             \* DEFAULT_BIND_ADDR

Empty == ""
Nothing == [do |-> "nothing"]
Cancel == [do |-> "cancel"]
Stay(s) == [to |-> s, out |-> Nothing]
Done(s, out) == [to |-> s, out |-> out]
Fail(s, why) == Stay([s EXCEPT !.error = why])
Blank(text) == Trim(text) = Empty

\* The element n places after x, around the end.  x is always there (FocusIsShown
\* in MCApp): what the forms do when it is not differs and never happens.
At(seq, x) == IF Contains(seq, x) THEN SelectInSeq(seq, LAMBDA y : y = x) ELSE 1
Around(seq, x, n) == seq[((At(seq, x) - 1 + n) % Len(seq)) + 1]

\* Keys that every form of fields takes alike.
FieldKey(s, k, Shown(_), Submit(_)) ==
    CASE k.key = "esc"       -> Done(s, Cancel)
      [] k.key = "tab"       -> Stay([s EXCEPT !.focus = Around(Shown(s), @, 1)])
      [] k.key = "backTab"   -> Stay([s EXCEPT !.focus = Around(Shown(s), @, -1)])
      [] k.key = "ctrlEnter" -> Submit(s)
      [] k.key = "enter" -> IF s.focus = Last(Shown(s)) THEN Submit(s)
                            ELSE Stay([s EXCEPT !.focus = Around(Shown(s), @, 1)])
      [] k.key = "text" /\ s.focus \in DOMAIN s.val -> Stay([s EXCEPT !.val[s.focus] = k.text])
      [] OTHER -> Stay(s)

---------------------------------------------------------------------------
\* ServerFormState.  jump is a place among the choices, or one past them.

AuthKinds == <<"password", "sshKey", "agent">>
ServerTexts == {"name", "host", "port", "username", "tags", "password", "keyPath", "passphrase"}
NoSecrets == [password |-> Empty, keyPath |-> Empty, passphrase |-> Empty]
WithSecrets(auth) == [f \in DOMAIN NoSecrets |-> IF f \in DOMAIN auth THEN auth[f] ELSE Empty]

ServerForm(val, secrets, kind, jump, choices) ==
    [form |-> "server", val |-> [f \in ServerTexts |-> IF f \in DOMAIN secrets THEN secrets[f] ELSE val[f]],
     kind |-> kind, jump |-> jump, choices |-> choices, focus |-> "name", error |-> "no"]
AddServer(choices) ==
    ServerForm([name |-> Empty, host |-> Empty, port |-> Digits(22), username |-> Empty, tags |-> Empty],
               NoSecrets, "password", Len(choices) + 1, choices)
EditServer(e, choices) ==
    ServerForm([name |-> e.name, host |-> e.host, port |-> Digits(e.port), username |-> e.username,
                tags |-> Join(e.tags)],
               WithSecrets(e.auth), e.auth.kind,
               IF Contains(choices, e.jump) THEN At(choices, e.jump) ELSE Len(choices) + 1, choices)

ServerFields(s) ==
    <<"name", "host", "port", "username", "tags", "auth">>
        \o (IF s.choices = <<>> THEN <<>> ELSE <<"jump">>)
        \o (CASE s.kind = "password" -> <<"password">>
              [] s.kind = "sshKey"   -> <<"keyPath", "passphrase">>
              [] s.kind = "agent"    -> <<>>)

\* Blanks are dropped, and of tags that differ in case only the first is kept.
ParseTags(text) ==
    LET parts == Parts(text)
        new(i) == parts[i] # Empty /\ \A j \in 1..(i - 1) : Fold(parts[j]) # Fold(parts[i])
    IN [i \in 1..Len(SelectSeq([j \in DOMAIN parts |-> j], new))
          |-> parts[SelectSeq([j \in DOMAIN parts |-> j], new)[i]]]

AuthOf(s) ==
    CASE s.kind = "password" -> [kind |-> "password", password |-> s.val.password]
      [] s.kind = "sshKey"   -> [kind |-> "sshKey", keyPath |-> s.val.keyPath,
                                 passphrase |-> s.val.passphrase]
      [] s.kind = "agent"    -> [kind |-> "agent"]

SubmitServer(s) ==
    IF Blank(s.val.name) THEN Fail(s, "name")
    ELSE IF Blank(s.val.host) THEN Fail(s, "host")
    ELSE IF Number(s.val.port) = 0 THEN Fail(s, "port")
    ELSE IF Blank(s.val.username) THEN Fail(s, "username")
    ELSE IF s.kind = "password" /\ s.val.password = Empty THEN Fail(s, "password")
    ELSE IF s.kind = "sshKey" /\ Blank(s.val.keyPath) THEN Fail(s, "keyPath")
    ELSE Done(s, [do |-> "submit", entry |->
             [name |-> Trim(s.val.name), host |-> Trim(s.val.host), port |-> Number(s.val.port),
              username |-> Trim(s.val.username), tags |-> ParseTags(s.val.tags), auth |-> AuthOf(s),
              jump |-> IF s.jump > Len(s.choices) THEN 0 ELSE s.choices[s.jump]]])

ServerKey(state, k) ==
    LET s == [state EXCEPT !.error = "no"]
        turn == IF k.key = "right" THEN 1 ELSE -1
        stops == Len(s.choices) + 1
    IN CASE k.key \in {"left", "right"} /\ s.focus = "auth" ->
                Stay([s EXCEPT !.kind = Around(AuthKinds, @, turn)])
         [] k.key \in {"left", "right"} /\ s.focus = "jump" ->
                Stay([s EXCEPT !.jump = ((@ - 1 + turn) % stops) + 1])
         [] OTHER -> FieldKey(s, k, ServerFields, SubmitServer)

---------------------------------------------------------------------------
\* ForwardFormState

ForwardKinds == <<"local", "remote", "dynamic">>
ForwardForm(id, kind, bindAddr, bindPort, destHost, destPort) ==
    [form |-> "forward", id |-> id, kind |-> kind, focus |-> "kind", error |-> "no",
     val |-> [bindAddr |-> bindAddr, bindPort |-> bindPort, destHost |-> destHost, destPort |-> destPort]]
AddForward == ForwardForm(0, "local", Loopback, Empty, Empty, Empty)
EditForward(r) ==
    IF r.kind = "dynamic" THEN ForwardForm(r.id, r.kind, r.bindAddr, Digits(r.bindPort), Empty, Empty)
    ELSE ForwardForm(r.id, r.kind, r.bindAddr, Digits(r.bindPort), r.destHost, Digits(r.destPort))

ForwardFields(s) ==
    <<"kind", "bindAddr", "bindPort">>
        \o (IF s.kind = "dynamic" THEN <<>> ELSE <<"destHost", "destPort">>)

\* No address is every interface to the system, so it becomes the loopback.
BindAddr(s) == IF Blank(s.val.bindAddr) THEN Loopback ELSE Trim(s.val.bindAddr)

SubmitForward(s) ==
    LET rule == [id |-> s.id, kind |-> s.kind, bindAddr |-> BindAddr(s), bindPort |-> Number(s.val.bindPort)]
    IN IF Number(s.val.bindPort) = 0 THEN Fail(s, "port")
       ELSE IF s.kind = "dynamic" THEN Done(s, [do |-> "submit", rule |-> rule])
       ELSE IF Blank(s.val.destHost) THEN Fail(s, "dest")
       ELSE IF Number(s.val.destPort) = 0 THEN Fail(s, "port")
       ELSE Done(s, [do |-> "submit", rule |->
                [id |-> s.id, kind |-> s.kind, bindAddr |-> rule.bindAddr, bindPort |-> rule.bindPort,
                 destHost |-> Trim(s.val.destHost), destPort |-> Number(s.val.destPort)]])

ForwardKey(state, k) ==
    LET s == [state EXCEPT !.error = "no"]
    IN IF k.key \in {"left", "right"} /\ s.focus = "kind"
       THEN Stay([s EXCEPT !.kind = Around(ForwardKinds, @, IF k.key = "right" THEN 1 ELSE -1)])
       ELSE FieldKey(s, k, ForwardFields, SubmitForward)

---------------------------------------------------------------------------
\* ScriptFormState, and the step that is edited on top of it.

Conditions == <<"always", "success", "failure", "contains">>
FirstCondition == [is |-> "always", needle |-> Empty]
NoEdit == [at |-> -1]

ScriptForm(name, auto, steps) ==
    [form |-> "script", name |-> name, auto |-> auto, steps |-> steps, focus |-> "name",
     selected |-> 1, edit |-> NoEdit, error |-> "no"]
AddScript == ScriptForm(Empty, FALSE, <<>>)
EditScript(script) == ScriptForm(script.name, script.auto, script.steps)

SubmitScript(s) ==
    IF Blank(s.name) THEN Fail(s, "name")
    ELSE IF s.steps = <<>> THEN Fail(s, "steps")
    ELSE Done(s, [do |-> "submit", script |->
                             [name |-> Trim(s.name), auto |-> s.auto, steps |-> s.steps]])

\* at is a step's place, or one past the last step for a new one.
BeginStepEdit(s, at) ==
    LET step == IF at <= Len(s.steps) THEN s.steps[at]
                ELSE [command |-> Empty, condition |-> FirstCondition, timeout |-> 0]
    IN [s EXCEPT !.edit = [at |-> at, command |-> step.command, kind |-> step.condition.is,
                           needle |-> step.condition.needle, focus |-> "command",
                           timeout |-> IF step.timeout = 0 THEN Empty ELSE Digits(step.timeout)]]

StepFields(e) ==
    <<"command">> \o (IF e.at = 1 THEN <<>> ELSE
                      <<"condition">> \o (IF e.kind = "contains" THEN <<"needle">> ELSE <<>>))
                  \o <<"timeout">>

\* The first step has no condition.  No time limit is the default one, here 0.
CommitStepEdit(s) ==
    LET e == s.edit
        kind == IF e.at = 1 THEN "always" ELSE e.kind
        step == [command |-> Trim(e.command),
                 condition |-> [is |-> kind, needle |-> IF kind = "contains" THEN Trim(e.needle) ELSE Empty],
                 timeout |-> IF Blank(e.timeout) THEN 0 ELSE Number(e.timeout)]
    IN IF Blank(e.command) THEN [s EXCEPT !.error = "command"]
       ELSE IF kind = "contains" /\ Blank(e.needle) THEN [s EXCEPT !.error = "needle"]
       ELSE IF ~Blank(e.timeout) /\ Number(e.timeout) = 0 THEN [s EXCEPT !.error = "timeout"]
       ELSE IF e.at <= Len(s.steps) THEN [s EXCEPT !.steps[e.at] = step, !.edit = NoEdit]
       ELSE [s EXCEPT !.steps = Append(@, step), !.selected = e.at, !.edit = NoEdit]

StepEditKey(state, k) ==
    LET s == [state EXCEPT !.error = "no"]
        e == s.edit
        moved(n) == [s EXCEPT !.edit.focus = Around(StepFields(e), @, n)]
    IN CASE k.key = "esc"       -> [s EXCEPT !.edit = NoEdit]
         [] k.key = "tab"       -> moved(1)
         [] k.key = "backTab"   -> moved(-1)
         [] k.key = "ctrlEnter" -> CommitStepEdit(s)
         [] k.key = "enter"     -> IF e.focus = Last(StepFields(e)) THEN CommitStepEdit(s) ELSE moved(1)
         [] k.key \in {"left", "right"} /\ e.focus = "condition" /\ e.at # 1 ->
                [s EXCEPT !.edit.kind = Around(Conditions, @, IF k.key = "right" THEN 1 ELSE -1)]
         [] k.key = "text" /\ e.focus # "condition" -> [s EXCEPT !.edit[e.focus] = k.text]
         [] OTHER -> s

Swapped(steps, i, j) == [steps EXCEPT ![i] = steps[j], ![j] = steps[i]]
StepsKey(s, k) ==
    LET here == s.selected
        last == Len(s.steps)
    IN CASE k.key = "ctrlUp" /\ here > 1 ->
                [s EXCEPT !.steps = Swapped(@, here, here - 1), !.selected = here - 1]
         [] k.key = "ctrlDown" /\ here < last ->
                [s EXCEPT !.steps = Swapped(@, here, here + 1), !.selected = here + 1]
         [] k.key = "up" /\ here > 1      -> [s EXCEPT !.selected = here - 1]
         [] k.key = "down" /\ here < last -> [s EXCEPT !.selected = here + 1]
         [] k.key = "a" -> BeginStepEdit(s, last + 1)
         [] k.key \in {"e", "enter"} /\ last > 0 -> BeginStepEdit(s, here)
         [] k.key = "d" /\ last > 0 ->
                [s EXCEPT !.steps = RemoveAt(@, here),
                          !.selected = IF here = last /\ here > 1 THEN here - 1 ELSE here]
         [] OTHER -> s

ScriptKey(state, k) ==
    LET s == [state EXCEPT !.error = "no"]
        order == <<"name", "auto", "steps", "save">>
    IN IF state.edit # NoEdit THEN Stay(StepEditKey(state, k))
       ELSE IF k.key = "esc" THEN Done(s, Cancel)
       ELSE IF k.key = "tab" THEN Stay([s EXCEPT !.focus = Around(order, @, 1)])
       ELSE IF k.key = "backTab" THEN Stay([s EXCEPT !.focus = Around(order, @, -1)])
       ELSE IF k.key = "ctrlEnter" \/ (k.key = "enter" /\ s.focus = "save") THEN SubmitScript(s)
       ELSE IF k.key = "text" /\ s.focus = "name" THEN Stay([s EXCEPT !.name = k.text])
       ELSE IF k.key \in {"left", "right", "enter"} /\ s.focus = "auto" THEN Stay([s EXCEPT !.auto = ~@])
       ELSE Stay(IF s.focus = "steps" THEN StepsKey(s, k) ELSE s)

---------------------------------------------------------------------------
\* ConfirmState and OverwriteState

ConfirmKey(k) ==
    CASE k.key \in {"y", "enter"} -> "yes" [] k.key \in {"n", "esc"} -> "no" [] OTHER -> "nothing"

OverwriteKey(s, k) ==
    CASE k.key \in {"o", "enter"}         -> Done(s, [do |-> "overwrite"])
      [] k.key = "s"                      -> Done(s, [do |-> "skip"])
      [] k.key \in {"esc", "q"}           -> Done(s, Cancel)
      [] k.key = "a" /\ s.remaining > 1   -> Stay([s EXCEPT !.all = ~@])
      [] OTHER -> Stay(s)
=============================================================================
