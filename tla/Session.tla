------------------------------- MODULE Session -------------------------------
(***************************************************************************)
(* The flows App::run waits in: connect_flow, pane_connect_flow and        *)
(* run_script_flow of src/app.rs, over src/ssh: connect and its hops,      *)
(* forward, script_runner, sysinfo, pty_bridge.                            *)
(*                                                                         *)
(* The far end answers, refuses or stays silent; a step of it is an        *)
(* action of its own.  A chunk of output is only whether the next step's   *)
(* needle is in it.  What an accepted connection does after the session    *)
(* is not followed.                                                        *)
(***************************************************************************)
EXTENDS Desk, Pane

CONSTANTS
    SessionCost,   \* bound: the share of work a session takes
    MaxInput       \* bound: keys, readings and connections of a session

ASSUME SessionAssumption == SessionCost \in 1..MaxWork /\ MaxInput \in Nat

VARIABLES
    pc,          \* where the flow waits
    link,        \* the target, and the connection so far
    rules,       \* the forwards still to start
    listeners,   \* Forwards.tasks, by the id of their rule
    conns,       \* the forwarded connections
    job,         \* the script under way, and the targets still to come
    evq,         \* events sent and not yet applied
    log,         \* ScriptRunState.log, by the kind of its lines
    pane,        \* SessionPaneState
    kb,          \* the terminal's keys that nobody has read
    typed,       \* history: keys read for the shell
    sent,        \* what was written to the shell
    usage,       \* the pane's figures
    live,        \* App.live: the server whose figures are shown, or 0
    probe,       \* the snapshot: "none", "asked", "ok", "failed"
    tty,         \* the buffer on screen: "alternate" or "primary"
    input        \* bound

forwards == <<rules, listeners, conns>>
scripts == <<job, evq, log>>
keyboard == <<pane, kb, typed, sent>>
meter == <<usage, live, probe>>
session == <<pc, link, forwards, scripts, keyboard, meter, tty, input>>

NoLink == [kind |-> "none", sid |-> 0, hops |-> <<>>, left |-> <<>>, learnt |-> <<>>,
           key |-> NoPin, shell |-> "none"]
NoJob == [todo |-> <<>>, results |-> <<>>, running |-> FALSE, hit |-> FALSE, targets |-> <<>>,
          several |-> FALSE]

There == Find(Servers, link.sid)
InPane == link.kind = "pane"
InFleet == link.kind = "fleet"
Go(to) == pc' = to
Spend == input > 0 /\ input' = input - 1

\* Forwards, the handle, the pane and the job are dropped with the flow's frame;
\* the terminal, its unread keys and App.live are not in it.
Reset ==
    /\ pc' = "idle" /\ link' = NoLink /\ rules' = <<>> /\ listeners' = {} /\ conns' = {}
    /\ job' = NoJob /\ evq' = <<>>
    /\ pane' = FreshPane /\ typed' = <<>> /\ sent' = <<>>
    /\ usage' = NoUsage /\ probe' = "none" /\ input' = MaxInput

Over == Reset /\ log' = <<>>

\* The next key App::run reads: the oldest that waits, or one typed now.
ReadKey == kb' = IF kb = <<>> THEN kb ELSE Tail(kb)

---------------------------------------------------------------------------
\* Recording: record_session, which reports nothing.

Pinned(outcomes, server) ==
    LET at == {i \in DOMAIN link.hops : link.hops[i] = server.id}
        pin == IF at = {} THEN NoPin ELSE outcomes[CHOOSE i \in at : TRUE]
    IN IF server.id = link.sid THEN ApplyRecord(server, Last(outcomes), 1 + MaxWork - work)
       ELSE IF pin = NoPin THEN server ELSE ApplyJump(server, pin)

ObservedBack(learnt) == Reverse(learnt)                  \* mutant: paired from the wrong end
\* observe_handshake and observe_jumps: in the order the hops were opened.
Observed(learnt) == learnt

RecordSession(learnt) ==
    /\ mem' = WithServers([i \in DOMAIN Servers |-> Pinned(Observed(learnt), Servers[i])])
    /\ \E ok \in BOOLEAN : Save(mem', ok)

\* finish: the snapshot alone, when there is one; only disk can tell.
Finish(got) == IF got THEN \E ok \in BOOLEAN : Save(mem, ok) ELSE UNCHANGED disk

---------------------------------------------------------------------------
\* Connecting

Dialled(kind, id) ==
    LET walk == Walk(Servers, id)
    IN [NoLink EXCEPT !.kind = kind, !.sid = id, !.hops = walk.hops, !.left = Append(walk.hops, id)]

Fails == Report(FALSE) /\ UNCHANGED <<mem, disk, app, screen, shown, nextId, work>>
Goes(cost) ==
    /\ work >= cost /\ work' = work - cost
    /\ UNCHANGED <<mem, disk, app, screen, status, shown, nextId>>

\* Enter, or t; Enter also leaves the filter line.
Connect ==
    /\ pc = "idle" /\ At("menu") /\ IsSelected
    /\ menu' = [menu EXCEPT !.typing = FALSE]
    /\ \E mode \in {mem.mode, OtherMode(mem.mode)} :
          /\ menu.typing => mode = mem.mode
          /\ \/ /\ Walk(Servers, Selected).why # "ok" \/ mode = "pane"    \* or the frame is too small
                /\ Fails /\ UNCHANGED <<pc, link>>
             \/ /\ Walk(Servers, Selected).why = "ok"
                /\ Goes(SessionCost) /\ Go("dial") /\ link' = Dialled(mode, Selected)
    /\ ReadKey
    /\ UNCHANGED <<forwards, scripts, pane, typed, sent, meter, tty, input>>

Nothing == UNCHANGED <<forwards, scripts, keyboard, meter, tty, input>>

\* An error ends the flow; in a run it is logged and the next target follows.
Failed ==
    IF InFleet
      THEN /\ Go("next") /\ log' = Append(log, "connect error") /\ link' = [NoLink EXCEPT !.kind = "fleet"]
           /\ UNCHANGED <<desk, forwards, job, evq, keyboard, meter, tty, input>>
      ELSE Over /\ Fails /\ UNCHANGED <<menu, kb, live, tty>>

Accepts(pin, key) == pin \in {NoPin, key}

\* open_hop: the handshake, with check_server_key's answer.  Bound: a machine has
\* two keys; one without a pin is accepted with any, so it shows the first.
Dial ==
    /\ pc = "dial"
    /\ LET server == Find(Servers, Head(link.left))
       IN \/ \E gen \in IF server.pin = NoPin THEN {0} ELSE {0, 1} :
                LET key == <<server.host, gen>>
                IN IF Accepts(server.pin, key)
                     THEN /\ link' = [link EXCEPT !.key = IF server.pin = NoPin THEN key ELSE NoPin]
                          /\ Go("auth") /\ UNCHANGED desk /\ Nothing
                     ELSE Failed
          \/ Failed                                      \* refused, or CONNECT_TIMEOUT

EnabledRules(id) ==
    LET all == Find(Servers, id).forwards
    IN EntriesAt(all, {i \in DOMAIN all : all[i].enabled})
OnConnect(id) ==
    LET auto == SelectSeq(Find(Servers, id).scripts, LAMBDA s : s.auto)
    IN [i \in DOMAIN auto |-> auto[i].steps]

\* The whole chain is open: establish, or the fleet's connect.
Established(learnt) ==
    IF InFleet
      THEN Go("script") /\ UNCHANGED <<desk, rules, tty>>
      ELSE /\ RecordSession(learnt) /\ UNCHANGED <<app, screen, menu, status, shown, nextId, work>>
           /\ Go("bind") /\ rules' = EnabledRules(link.sid)
           /\ tty' = IF InPane THEN tty ELSE "primary"

\* authenticate: nothing bounds the time the server takes.
Authenticate ==
    /\ pc = "auth"
    /\ \/ LET learnt == Append(link.learnt, link.key)
              left == Tail(link.left)
          IN /\ link' = [link EXCEPT !.learnt = learnt, !.left = left, !.key = NoPin]
             /\ IF left = <<>> THEN Established(learnt) ELSE Go("dial") /\ UNCHANGED <<desk, rules, tty>>
             /\ UNCHANGED <<listeners, conns, scripts, keyboard, meter, input>>
       \/ Failed

CancelKey(keys) == "esc" \in ToSet(keys)

\* The tick of await_redrawing drains the keyboard; a fleet's connect has none.
ConnectTick ==
    /\ pc \in {"dial", "auth"} /\ ~InFleet /\ kb # <<>>
    /\ kb' = <<>>
    /\ IF CancelKey(kb)
         THEN Over /\ UNCHANGED <<live, tty>>
         ELSE UNCHANGED <<pc, link, forwards, scripts, pane, typed, sent, meter, tty, input>>
    /\ UNCHANGED desk

---------------------------------------------------------------------------
\* Forwards

StartForward ==
    /\ pc = "bind" /\ rules # <<>>
    /\ rules' = Tail(rules)
    /\ \/ Head(rules).kind # "remote" /\ listeners' = listeners \cup {Head(rules).id}
       \/ UNCHANGED listeners                            \* asked for, or it did not come up
    /\ UNCHANGED <<desk, pc, link, conns, scripts, keyboard, meter, tty, input>>

\* The pane opens its channel here: a refusal ends the app.
ForwardsStarted ==
    /\ pc = "bind" /\ rules = <<>>
    /\ \/ /\ Go("script") /\ job' = [NoJob EXCEPT !.todo = OnConnect(link.sid)]
          /\ UNCHANGED <<desk, link, forwards, evq, log, keyboard, meter, tty, input>>
       \/ InPane /\ Over /\ Forget("quit") /\ UNCHANGED <<kb, live, tty>>

Serving == pc \in {"bind", "script", "ready", "shell"} /\ ~InFleet
Conn(rule, state) == [rule |-> rule.id, kind |-> rule.kind, from |-> link.sid, told |-> "none", state |-> state]
Others == UNCHANGED <<desk, pc, link, rules, listeners, scripts, keyboard, meter, tty>>
Becomes(c, told, state) ==
    conns' = (conns \ {c}) \cup {[c EXCEPT !.told = told, !.state = state]}

AcceptForward ==
    /\ Serving /\ Spend
    /\ \E rule \in ToSet(There.forwards) :
          /\ rule.id \in listeners
          /\ conns' = conns \cup {Conn(rule, IF rule.kind = "socks" THEN "greeting" ELSE "opening")}
    /\ Others

\* socks::handshake; a refused request is answered, a broken one is not.
SocksHandshake ==
    /\ \E c \in conns :
          /\ c.state = "greeting"
          /\ \/ Becomes(c, "none", "opening")
             \/ Becomes(c, "refused", "closed")
             \/ Becomes(c, "none", "closed")
    /\ Others /\ UNCHANGED input

Opened(c) == Becomes(c, IF c.kind = "socks" THEN "succeeded" ELSE "none", "copying")

ChannelAnswer ==
    /\ \E c \in conns :
          /\ c.state = "opening"
          /\ \/ Opened(c)
             \/ Becomes(c, IF c.kind = "socks" THEN "unreachable" ELSE "none", "closed")
    /\ Others /\ UNCHANGED input

\* The routes went into the destination's handler; a hop has none.
AnyRoutes(from) == ToSet(EnabledRules(from))             \* mutant: a hop's own rules serve too
Routes(from) == IF from = link.sid THEN ToSet(EnabledRules(from)) ELSE {}

\* server_channel_open_forwarded_tcpip: no route, and it is rejected.
PushedChannel ==
    /\ Serving /\ Spend
    /\ \E from \in ToSet(link.hops) \cup {link.sid} :
          \E rule \in ToSet(Find(Servers, from).forwards) :
             /\ rule.kind = "remote"
             /\ conns' = IF rule \in Routes(from)
                         THEN conns \cup {[Conn(rule, "dialling") EXCEPT !.from = from]} ELSE conns
    /\ Others

DialLocal ==
    /\ \E c \in conns :
          /\ c.state = "dialling"
          /\ Becomes(c, "none", "copying") \/ Becomes(c, "none", "closed")
    /\ Others /\ UNCHANGED input

CloseConn ==
    /\ \E c \in conns : c.state \in {"copying", "closed"} /\ conns' = conns \ {c}
    /\ Others /\ UNCHANGED input

---------------------------------------------------------------------------
\* Scripts: run_script.  What a session prints of it is not kept.

Emit(events) == evq' = IF InFleet THEN evq \o events ELSE evq

NotFailed(cond, prev) == cond = "always" \/ prev.st # "bad"    \* mutant: a skip counts as success
ShouldRun(cond, prev) ==
    \/ cond = "always"
    \/ cond = "success" /\ prev.st = "ok"
    \/ cond = "failure" /\ prev.st = "bad"
    \/ cond = "contains" /\ prev.st \in {"ok", "bad"} /\ prev.hit

Steps == Head(job.todo)
MoreSteps == pc = "script" /\ job.todo # <<>> /\ ~job.running /\ Len(job.results) < Len(Steps)
ThisStep == Steps[Len(job.results) + 1]
\* The first step runs whatever its condition.
Runs == job.results # <<>> => ShouldRun(ThisStep, Last(job.results))

Result(st, hit) == [job EXCEPT !.results = Append(@, [st |-> st, hit |-> hit]), !.running = FALSE,
                               !.hit = FALSE]
InScript == UNCHANGED <<desk, pc, link, forwards, log, keyboard, meter, tty, input>>

SkipStep ==
    /\ MoreSteps /\ ~Runs
    /\ job' = Result("skipped", FALSE) /\ Emit(<<"skipped">>)
    /\ InScript

StartStep ==
    /\ MoreSteps /\ Runs
    /\ job' = [job EXCEPT !.running = TRUE] /\ Emit(<<"started">>)
    /\ InScript

StepOutput ==
    /\ job.running /\ ~job.hit
    /\ job' = [job EXCEPT !.hit = TRUE] /\ Emit(<<"output">>)
    /\ InScript

\* Closed, with or without a status; timed out, as status 124; or the channel failed.
EndStep ==
    /\ job.running
    /\ \/ \E st \in {"ok", "bad"} : job' = Result(st, job.hit) /\ Emit(<<"finished">>)
       \/ job' = Result("bad", job.hit) /\ Emit(<<"timed out">>)
       \/ job' = Result("skipped", FALSE) /\ Emit(<<"error">>)
    /\ InScript

ApplyEvents ==
    /\ pc = "script" /\ evq # <<>>
    /\ log' = log \o evq /\ evq' = <<>>
    /\ UNCHANGED <<desk, pc, link, forwards, job, keyboard, meter, tty, input>>

Dropped(events) == log                                   \* mutant: the flow leaves them
Drained(events) == log \o events

\* The run future is ready; what it left in the channel is applied.
ScriptEnds ==
    /\ pc = "script" /\ job.todo # <<>> /\ ~job.running /\ Len(job.results) = Len(Steps)
    /\ log' = Drained(evq) /\ evq' = <<>>
    /\ IF InFleet
         THEN Go("next") /\ link' = [NoLink EXCEPT !.kind = "fleet"]
              /\ job' = [job EXCEPT !.results = <<>>]
         ELSE UNCHANGED <<pc, link>> /\ job' = [job EXCEPT !.todo = Tail(@), !.results = <<>>]
    /\ UNCHANGED <<desk, forwards, keyboard, meter, tty, input>>

ScriptsDone ==
    /\ pc = "script" /\ job.todo = <<>>
    /\ Go("ready")
    /\ UNCHANGED <<desk, link, forwards, scripts, keyboard, meter, tty, input>>

\* request_shell: the held key and the armed prefix are still the pane's.
StartShell ==
    /\ pc = "ready"
    /\ Go("shell") /\ probe' = "asked"
    /\ link' = [link EXCEPT !.shell = "open"]
    /\ typed' = (CASE pane.prefix = "esc"   -> <<"esc">>
                   [] pane.prefix = "armed" -> <<"ctrlb">>
                   [] OTHER                 -> <<>>)
    /\ UNCHANGED <<desk, forwards, scripts, pane, kb, sent, usage, live, tty, input>>

ShellRefused == pc = "ready" /\ InPane /\ Over /\ Forget("quit") /\ UNCHANGED <<kb, live, tty>>

---------------------------------------------------------------------------
\* The shell

InShell(kind) == pc = "shell" /\ link.kind = kind

\* One key, or two before anything else happens.  Bound: where a key can do no
\* more than cancel one waits at a time, and "d" when it does not; pairs are for
\* the shell, and a full-screen session, which sends keys as they are, has "d" for
\* all.
Presses ==
    IF InPane THEN {<<key>> : key \in Keys}
                   \cup (IF pc \in {"ready", "shell"} THEN {<<one, two>> : one, two \in Keys} ELSE {})
    ELSE {<<"d">>} \cup (IF pc \in {"dial", "auth"} \/ InFleet THEN {<<"esc">>} ELSE {})

\* App::run is blocked in the flow: what is typed waits until the flow reads it.
TypeKeys ==
    /\ pc # "idle" /\ Spend
    /\ InPane \/ kb = <<>>
    /\ \E keys \in Presses : kb' = kb \o keys
    /\ UNCHANGED <<desk, pc, link, forwards, scripts, pane, typed, sent, meter, tty>>

\* A key that the screen App::run is back on does nothing with.
IgnoreKey ==
    /\ pc = "idle" /\ kb # <<>> /\ ReadKey
    /\ UNCHANGED <<desk, pc, link, forwards, scripts, pane, typed, sent, meter, tty, input>>

\* run_interactive: the bytes that are there go to the shell.
BridgeKeys ==
    /\ InShell("full") /\ link.shell = "open" /\ kb # <<>>
    /\ kb' = <<>>
    /\ UNCHANGED <<desk, pc, link, forwards, scripts, pane, typed, sent, meter, tty, input>>

EndSession(ok, got) ==
    /\ Over /\ Finish(got)
    /\ status' = IF ok THEN "none" ELSE "failed"
    /\ UNCHANGED <<mem, app, screen, menu, shown, nextId, work>>

ShellOnly(poll) == poll.detach /\ pc = "shell"           \* mutant: a script cannot be left
Detached(poll) == poll.detach

LiveStays == UNCHANGED live                              \* mutant: the figures stay
LiveGone  == live' = 0

\* The tick's arm: during the scripts only a detach counts; the shell gets one write.
Tick ==
    /\ InPane /\ pc \in {"script", "shell"}
    /\ kb # <<>> \/ pane.prefix = "esc"
    /\ \E old \in BOOLEAN :
          LET poll == PollKeys(pane, old, kb)
          IN \/ /\ Detached(poll)
                /\ IF pc = "shell" THEN EndSession(TRUE, probe = "ok") ELSE Over /\ UNCHANGED desk
                /\ LiveGone /\ UNCHANGED tty
             \/ /\ ~Detached(poll)
                /\ pane' = poll.pane
                /\ IF pc = "shell" THEN typed' = typed \o kb /\ sent' = sent \o poll.out
                   ELSE UNCHANGED <<typed, sent>>
                /\ UNCHANGED <<desk, pc, link, forwards, scripts, meter, tty, input>>
             \/ /\ pc = "shell" /\ ~poll.detach /\ poll.out # <<>>    \* the write failed
                /\ EndSession(FALSE, probe = "ok") /\ LiveGone /\ UNCHANGED tty
    /\ kb' = <<>>

\* Output that enters or leaves the alternate screen.
SwitchScreen ==
    /\ InShell("pane") /\ Spend
    /\ pane' = [pane EXCEPT !.alt = ~@]
    /\ UNCHANGED <<desk, pc, link, forwards, scripts, kb, typed, sent, meter, tty>>

Metered == UNCHANGED <<desk, pc, link, forwards, scripts, keyboard, tty>>
Readings(number) == [mem : {0, number}, disk : {0, number}]

\* sysinfo::fetch was asked first: its figures are reading 1.
ProbeAnswers ==
    /\ pc = "shell" /\ probe = "asked"
    /\ \/ /\ probe' = "ok"
          /\ IF InPane THEN /\ \E probed \in Readings(1) : usage' = SetTotals(usage, probed)
                            /\ live' = link.sid
             ELSE UNCHANGED <<usage, live>>
       \/ probe' = "failed" /\ UNCHANGED <<usage, live>>
    /\ Metered /\ UNCHANGED input

PollAnswers ==
    /\ InShell("pane") /\ Spend
    /\ \E fresh \in Readings(2 + MaxInput - input) : usage' = Merge(usage, fresh)
    /\ live' = link.sid
    /\ Metered /\ UNCHANGED probe

\* run_interactive returns; join! still waits for the probe.
ShellReturns ==
    /\ InShell("full") /\ link.shell = "open"
    /\ \E end \in {"closed", "failed"} : link' = [link EXCEPT !.shell = end]
    /\ UNCHANGED <<desk, pc, forwards, scripts, keyboard, meter, tty, input>>

ConnectEnds ==
    /\ InShell("full") /\ link.shell # "open" /\ probe # "asked"
    /\ EndSession(link.shell = "closed", probe = "ok")
    /\ tty' = "alternate" /\ UNCHANGED <<kb, live>>

\* ExitStatus, Eof, Close or the end of the channel: the loop breaks where it is.
RemoteEnds ==
    /\ InShell("pane")
    /\ EndSession(TRUE, probe = "ok")
    /\ LiveGone /\ UNCHANGED <<kb, tty>>

---------------------------------------------------------------------------
\* The fleet

Targets == IF screen.at = "targets" THEN screen.choices ELSE <<screen.sid>>
ScriptId == IF screen.at = "targets" THEN screen.item ELSE Scripts[screen.cur + 1].id

RunScript ==
    /\ pc = "idle" /\ app = "open"
    /\ \/ screen.at = "scripts" /\ screen.cur < Len(Scripts)
       \/ screen.at = "targets" /\ screen.choices # <<>>
    /\ Goes(SessionCost) /\ UNCHANGED menu
    /\ Go("next") /\ link' = [NoLink EXCEPT !.kind = "fleet"]
    /\ job' = [NoJob EXCEPT !.targets = Targets, !.several = Len(Targets) > 1,
                            !.todo = <<Find(Scripts, ScriptId).steps>>]
    /\ ReadKey
    /\ UNCHANGED <<forwards, evq, log, pane, typed, sent, meter, tty, input>>

NextTarget ==
    /\ pc = "next" /\ job.targets # <<>>
    /\ LET id == Head(job.targets)
           header == IF job.several THEN <<"server">> ELSE <<>>
       IN /\ job' = [job EXCEPT !.targets = Tail(@)]
          /\ IF Walk(Servers, id).why = "ok"
               THEN Go("dial") /\ link' = Dialled("fleet", id) /\ log' = log \o header
               ELSE UNCHANGED <<pc, link>> /\ log' = log \o Append(header, "connect error")
    /\ UNCHANGED <<desk, forwards, evq, keyboard, meter, tty, input>>

\* The run screen takes the log.
ShowRun(last) ==
    /\ Reset /\ log' = last
    /\ Show([Screen("run", screen.sid) EXCEPT !.item = ScriptId])
    /\ UNCHANGED <<mem, disk, app, status, nextId, work, live, tty>>

RunEnds == pc = "next" /\ job.targets = <<>> /\ ShowRun(log) /\ UNCHANGED kb

\* The tick beside a step, poll_run_keys: Esc and Ctrl+C stop the run.
RunTick ==
    /\ pc = "script" /\ InFleet /\ kb # <<>>
    /\ kb' = <<>>
    /\ IF CancelKey(kb)
         THEN ShowRun(Append(Drained(evq), "cancelled"))
         ELSE UNCHANGED <<desk, pc, link, forwards, scripts, pane, typed, sent, meter, tty, input>>

---------------------------------------------------------------------------
SessionInit ==
    /\ pc = "idle" /\ link = NoLink /\ rules = <<>> /\ listeners = {} /\ conns = {}
    /\ job = NoJob /\ evq = <<>> /\ log = <<>>
    /\ pane = FreshPane /\ kb = <<>> /\ typed = <<>> /\ sent = <<>>
    /\ usage = NoUsage /\ live = 0 /\ probe = "none" /\ tty = "alternate" /\ input = MaxInput

ConnectStep == Connect \/ Dial \/ Authenticate \/ ConnectTick
ForwardStep == StartForward \/ ForwardsStarted \/ AcceptForward \/ SocksHandshake
               \/ ChannelAnswer \/ PushedChannel \/ DialLocal \/ CloseConn
ScriptStep == SkipStep \/ StartStep \/ StepOutput \/ EndStep \/ ApplyEvents \/ ScriptEnds
              \/ ScriptsDone
ShellStep == StartShell \/ ShellRefused \/ TypeKeys \/ IgnoreKey \/ BridgeKeys \/ Tick \/ SwitchScreen \/ ProbeAnswers
             \/ PollAnswers \/ ShellReturns \/ ConnectEnds \/ RemoteEnds
FleetStep == RunScript \/ NextTarget \/ RunEnds \/ RunTick

SessionNext == ConnectStep \/ ForwardStep \/ ScriptStep \/ ShellStep \/ FleetStep
=============================================================================
