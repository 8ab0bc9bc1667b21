--------------------------------- MODULE App ---------------------------------
(***************************************************************************)
(* App::run: one key at a time, and while a flow waits for the far end     *)
(* nothing else of the app moves.                                          *)
(***************************************************************************)
EXTENDS Session

vars == <<desk, session>>

Init == DeskInit /\ SessionInit

\* A key that was typed ahead is read like any other; the timers read none.
\* The run screen's log goes with the screen.
HandleKey1 ==
    /\ pc = "idle"
    /\ \/ DeskKey /\ ReadKey
       \/ DeskTimer /\ UNCHANGED kb
    /\ log' = IF screen'.at = "run" THEN log ELSE <<>>
    /\ UNCHANGED <<pc, link, forwards, job, evq, pane, typed, sent, meter, tty, input>>

Next == HandleKey1 \/ SessionNext

Spec == Init /\ [][Next]_vars

---------------------------------------------------------------------------
Ids == 1..(nextId - 1)

\* The state of App and of the flow it waits in.
TypeOK ==
    /\ ConfigOK(mem, nextId) /\ ConfigOK(disk, nextId)
    /\ app \in {"open", "locked", "quit"} /\ status \in {"none", "done", "failed"}
    /\ menu.cur \in Nat /\ screen.cur \in Nat
    /\ screen.sid \in Ids \cup {0} /\ shown \in Ids \cup {0} /\ work \in 0..MaxWork
    /\ pc \in {"idle", "next", "dial", "auth", "bind", "script", "ready", "shell"}
    /\ link.kind \in {"none", "full", "pane", "fleet"} /\ listeners \subseteq Ids
    /\ \A c \in conns : c.state \in {"greeting", "opening", "dialling", "copying", "closed"}
    /\ pane.prefix \in {"idle", "armed", "esc"} /\ pane.alt \in BOOLEAN
    /\ kb \in Seq(Keys) /\ typed \in Seq(Keys) /\ sent \in Seq(Keys)
    /\ probe \in {"none", "asked", "ok", "failed"} /\ input \in 0..MaxInput

---------------------------------------------------------------------------
\* The vault and the screens

Running == app = "open" /\ app' = "open"
ServersIn(c) == IdsOf(c.servers)
Same(id) == LET old == Find(mem.servers, id)
                new == Find(mem'.servers, id)
            IN [new EXCEPT !.pin = old.pin, !.jump = old.jump] = old

\* A screen opened on a server changes that server and no other: the id it
\* was opened on is the one under the cursor (NextStep carries ids, never
\* rows).  Others may lose a jump to a deleted server; a session touches the
\* server it goes to and the pins of its hops.
OnlyShownIsTouched ==
    [][Running => \A id \in ServersIn(mem) \ {shown, link.sid} :
                  /\ id \in ServersIn(mem')
                  /\ Same(id)
                  /\ pc = "idle" => Find(mem'.servers, id).pin = Find(mem.servers, id).pin
                  /\ Find(mem'.servers, id).jump \in {Find(mem.servers, id).jump}
                        \cup (IF shown \in ServersIn(mem') THEN {} ELSE {0})]_vars

\* Whatever screen a server was left for, its row is under the cursor on the
\* way back, for as long as it exists (back_to_menu, #62).
BackOnSameServer ==
    [][Running /\ screen.at # "menu" /\ screen'.at = "menu" /\ shown \in ServersIn(mem') /\ screen.sid # 0
          => UnderCursor' = shown]_vars

\* No edit of the app leaves a jump that loops or names a server that is not
\* there: what Target::from_entry refuses is never made by the forms, however
\* many of them are submitted one after another.
JumpsSound ==
    \A id \in ServersIn(mem) : Walk(mem.servers, id).why \in {"ok", "too many"}

\* A change that did not reach the disk is on the screen as a failure: on the
\* status bar or on the form.  Sessions and the browser save for themselves
\* and say nothing.
UnsavedWasTold ==
    [][Running /\ mem' # mem /\ mem' # disk' /\ pc = "idle" /\ screen.at # "files"
          => status' = "failed" \/ screen'.err]_vars

\* What the app obeys at once, the auto-lock and the way to connect, is what
\* the next unlock will obey: a value that could not be saved is taken back,
\* also when other changes were kept unsaved before it.
PrefsMatchDisk == app = "open" => mem.lock = disk.lock /\ mem.mode = disk.mode

Rows == CASE screen.at = "menu"     -> RowCount
          [] screen.at = "scripts"  -> Len(Scripts)
          [] screen.at = "forwards" -> Len(Rules)
          [] screen.at = "targets"  -> Len(Servers)
          [] screen.at = "import"   -> Len(screen.rows)
          [] OTHER                  -> 0
Cursor == IF screen.at = "menu" THEN menu.cur ELSE screen.cur

\* The server, the script or the rule a screen was opened on is there for as
\* long as the screen is, and the cursor of a list is on a row of it.
ScreensStayValid ==
    app = "open" =>
        /\ screen.sid # 0 => screen.sid \in ServersIn(mem)
        /\ screen.at \in {"scriptform", "scriptconfirm"} /\ screen.item # 0
              => screen.item \in IdsOf(Scripts)
        /\ screen.at \in {"forwardform", "forwardconfirm"} /\ screen.item # 0
              => screen.item \in IdsOf(Rules)
        /\ ToSet(screen.choices) \subseteq ServersIn(mem)
        /\ Rows = 0 \/ Cursor < Rows

\* A host that is in the vault when the import screen is confirmed is not
\* imported once more, whatever boxes were ticked and however often a failed
\* import was confirmed again.
ImportAddsEachOnce ==
    [][screen.at = "import" /\ app' = "open" =>
          \A i \in (Len(mem.servers) + 1)..Len(mem'.servers) : \A j \in DOMAIN mem.servers :
             LET new == mem'.servers[i] old == mem.servers[j]
             IN <<new.host, new.port, new.user>> # <<old.host, old.port, old.user>>]_vars

---------------------------------------------------------------------------
\* Sessions

\* A session pins a key only where there was none, and the key is one its own
\* machine showed: through any chain of jumps no hop gets the key of another.
PinIsOwnKey ==
    [][Running => \A id \in ServersIn(mem) \cap ServersIn(mem') :
          LET old == Find(mem.servers, id) new == Find(mem'.servers, id)
          IN new.pin # old.pin => old.pin = NoPin /\ new.pin[1] = new.host]_vars

\* The screen tells the truth about the session: figures are shown as now only
\* while the pane is on the server they are of, and the terminal is handed over
\* from the first forward of a full-screen session to its end and never else,
\* whichever of its ends each flow takes.
ScreenMatchesSession ==
    /\ live # 0 => pc = "shell" /\ InPane /\ live = link.sid
    /\ tty = "primary" <=> ~InPane /\ ~InFleet /\ pc \in {"bind", "script", "ready", "shell"}

\* app.rs:2304: the pane drains the keys, "the keys typed during the session
\* would otherwise sit in the terminal buffer and replay against the server list
\* afterwards"; and app.rs:621 says the same of the connect.  No run checks it: it
\* is broken by every flow that ends before its next tick, as in the code.
KeysStayInFlow == pc = "idle" /\ app = "open" => kb = <<>>

Held == IF pane.prefix = "esc" THEN <<"esc">> ELSE <<>>
Count(keys, key) == Cardinality({i \in DOMAIN keys : keys[i] = key})
Within(part, whole) ==
    \E f \in [DOMAIN part -> DOMAIN whole] :
        \A i \in DOMAIN part : part[i] = whole[f[i]] /\ \A j \in 1..(i - 1) : f[j] < f[i]

\* What the shell was sent, with the Esc still held, is what was typed, in
\* order; a Ctrl+B costs at most itself and the next key, and no other key is
\* lost, whenever an Esc expires and the alternate screen comes and goes.
KeysInOrder ==
    LET out == sent \o Held
    IN pc = "shell" => Within(out, typed) /\ Len(out) + 2 * Count(typed, "ctrlb") >= Len(typed)

\* A step with a condition ran only because the one right before it ran: a
\* skip is passed on until a step that runs always, across timeouts and lost
\* channels.
StepsFollow ==
    \A i \in DOMAIN job.results : i > 1 /\ job.results[i].st \in {"ok", "bad"} =>
        \/ Steps[i] = "always"
        \/ job.results[i - 1].st # "skipped"

Ends == {"finished", "timed out", "error"}
StepsShown(lines) ==
    \A i \in DOMAIN lines : lines[i] = "started" =>
        \E j \in (i + 1)..Len(lines) :
            /\ lines[j] \in Ends \cup (IF j = Len(lines) THEN {"cancelled"} ELSE {})
            /\ \A k \in (i + 1)..(j - 1) : lines[k] = "output"

\* The log of a run that is over has the end of every step it has the start of,
\* in order, on every target: no event stays in the channel, also when a script
\* ends or is cancelled before the screen caught up.
RunLogComplete == pc = "idle" /\ screen.at = "run" => StepsShown(log)

\* A forwarded connection is of a listener of this session or a route of its
\* destination: a bastion cannot push one, nor a rule that is off.  A SOCKS
\* client told "succeeded" has its channel.
ConnsWereAsked ==
    \A c \in conns :
        /\ c.kind = "remote" => c.from = link.sid
        /\ c.rule \in IdsOf(EnabledRules(link.sid))
        /\ c.told = "succeeded" => c.state \in {"copying", "closed"}

DetachWaits ==
    /\ InPane /\ pc \in {"script", "shell"} /\ pane.prefix = "idle"
    /\ \E i \in DOMAIN kb \ {1} : /\ kb[i] = "d" /\ kb[i - 1] = "ctrlb"
                                /\ \A j \in 1..(i - 2) : kb[j] = "d"
\* Ctrl+B d typed into an idle pane is never read without the session ending
\* there and then, also beside a step that hangs and on the alternate screen.
DetachIsHeard == [][DetachWaits /\ kb' = <<>> => pc' = "idle"]_vars

\* What main_menu.rs and cycle_server_sort say of a reorder: the cursor stays
\* on the server it was on.
CursorStaysOnServer ==
    [][Running /\ screen.at = "menu" /\ screen'.at = "menu" /\ (menu' = menu \/ mem'.sort # mem.sort)
          => UnderCursor' = UnderCursor]_vars
=============================================================================
