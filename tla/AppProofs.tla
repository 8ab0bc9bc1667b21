------------------------------ MODULE AppProofs ------------------------------
(***************************************************************************)
(* Promises of App for any vaults, drafts, filters, config files and       *)
(* bounds: what the app obeys is what is saved, the screen tells the truth *)
(* about the session, whichever of its steps ends it, what could not be    *)
(* saved is told, an edit changes the server it was opened for and no      *)
(* other, and the import adds no server twice.                             *)
(***************************************************************************)
EXTENDS App, FiniteSetTheorems, TLAPS

Modes == {"full", "pane"}
Sorts == {"name", "tag", "last"}
Shape(c) == /\ c = [servers |-> c.servers, sort |-> c.sort, mode |-> c.mode, lock |-> c.lock]
            /\ c.sort \in Sorts /\ c.mode \in Modes /\ c.lock \in {0, 1}

\* A preference is never changed in memory alone, and no other change, kept or
\* taken back, saved or not, touches one.
PrefsInv == Shape(mem) /\ Shape(disk) /\ PrefsMatchDisk

\* What a step can do to them.
Untouched == UNCHANGED <<mem, disk, app>>
Edit == /\ app' = app /\ disk' \in {mem', disk}
        /\ \E s : mem' = [mem EXCEPT !.servers = s]
Resort == /\ app' = app /\ disk' \in {mem', disk}
          /\ \E s \in Sorts : mem' = [mem EXCEPT !.sort = s]
Preference == /\ app' = app
              /\ \/ UNCHANGED <<mem, disk>>
                 \/ disk' = mem' /\ mem' = [mem EXCEPT !.lock = 1 - mem.lock]
                 \/ disk' = mem' /\ \E x \in Modes : mem' = [mem EXCEPT !.mode = x]
Forgotten == app' # "open" /\ mem' = NoConfig /\ disk' = disk
ReadBack == mem' = disk /\ disk' = disk
\* A session also saves again what is in memory.
Resaved == app' = app /\ mem' = mem /\ disk' = mem

LEMMA PrefsKept ==
    ASSUME PrefsInv, Untouched \/ Edit \/ Resort \/ Preference \/ Forgotten \/ ReadBack \/ Resaved
    PROVE  PrefsInv'
  <1> USE DEF PrefsInv, Shape, Modes, Sorts, PrefsMatchDisk
  <1>1. CASE Untouched
    BY <1>1 DEF Untouched
  <1>2. CASE Edit
    BY <1>2 DEF Edit
  <1>3. CASE Resort
    BY <1>3 DEF Resort
  <1>4. CASE Preference
    BY <1>4 DEF Preference
  <1>5. CASE Forgotten
    BY <1>5 DEF Forgotten, NoConfig
  <1>6. CASE ReadBack
    BY <1>6 DEF ReadBack
  <1>7. CASE Resaved
    BY <1>7 DEF Resaved
  <1> QED
    BY <1>1, <1>2, <1>3, <1>4, <1>5, <1>6, <1>7

-----------------------------------------------------------------------------
\* The screens.

LEMMA MenuKeyPrefs == MenuKey => Untouched \/ Resort \/ Forgotten
  <1>1. MoveSelection \/ StartTyping \/ TypeFilter \/ EscapeFilter => Untouched
    BY DEF MoveSelection, StartTyping, TypeFilter, EscapeFilter, InList, Quiet, Calm, Untouched
  <1>2. CycleServerSort => Resort
    BY DEF CycleServerSort, Keep, Save, Resort, NextSort, Sorts
  <1>3. GoAdd \/ GoEdit \/ GoDelete \/ GoScripts \/ GoForwards \/ GoSettings => Untouched
    BY DEF GoAdd, GoEdit, GoDelete, GoScripts, GoForwards, GoSettings, Open, Quiet, Calm, Untouched
  <1>4. GoFiles \/ GoSshImport => Untouched
    BY DEF GoFiles, GoSshImport, Open, Quiet, Calm, Untouched
  <1>5. Lock \/ Quit => Forgotten
    BY DEF Lock, Quit, Forget, Forgotten
  <1> QED
    BY <1>1, <1>2, <1>3, <1>4, <1>5 DEF MenuKey

LEMMA ServerKeyPrefs == ServerKey => Untouched \/ Edit
  <1>1. Back \/ CycleJumpHost \/ RefuseForm => Untouched
    BY DEF Back, CycleJumpHost, RefuseForm, Quiet, Calm, Untouched
  <1>2. FilesBack => Edit
    BY DEF FilesBack, Edited, WithServers, Keep, Save, Edit
  <1>3. SubmitForm => Edit
    BY DEF SubmitForm, WithServers, Keep, Save, Edit
  <1>4. ConfirmDelete => Edit
    BY DEF ConfirmDelete, WithServers, Keep, Save, Edit
  <1> QED
    BY <1>1, <1>2, <1>3, <1>4 DEF ServerKey

LEMMA ScriptKeyPrefs == ScriptKey => Untouched \/ Edit
  <1>1. MoveScript \/ GoScriptAdd \/ GoScriptEdit \/ GoScriptDelete \/ GoScriptTargets => Untouched
    BY DEF MoveScript, MoveRow, GoScriptAdd, GoScriptEdit, GoScriptDelete, GoScriptTargets, OnScript,
           Quiet, Calm, Untouched
  <1>2. BackToScripts \/ MoveTarget \/ ToggleTarget \/ ToggleAllTargets => Untouched
    BY DEF BackToScripts, MoveTarget, MoveRow, ToggleTarget, ToggleAllTargets, Quiet, Calm, Untouched
  <1>3. SubmitScriptForm => Edit
    BY DEF SubmitScriptForm, InScripts, Edited, WithServers, Keep, Save, Edit
  <1>4. ConfirmDeleteScript => Edit
    BY DEF ConfirmDeleteScript, InScripts, Edited, WithServers, Keep, Save, Edit
  <1> QED
    BY <1>1, <1>2, <1>3, <1>4 DEF ScriptKey

LEMMA RuleKeyPrefs == RuleKey => Untouched \/ Edit
  <1>1. MoveRule \/ GoForwardAdd \/ GoForwardEdit \/ GoForwardDelete \/ BackToForwards => Untouched
    BY DEF MoveRule, MoveRow, GoForwardAdd, GoForwardEdit, GoForwardDelete, OnRule, BackToForwards,
           Quiet, Calm, Untouched
  <1>2. ToggleForward => Edit
    BY DEF ToggleForward, MutateForwards, InRules, Edited, WithServers, Keep, Save, Edit
  <1>3. SubmitForwardForm => Edit
    BY DEF SubmitForwardForm, MutateForwards, InRules, Edited, WithServers, Keep, Save, Edit
  <1>4. ConfirmDeleteForward => Edit
    BY DEF ConfirmDeleteForward, MutateForwards, InRules, Edited, WithServers, Keep, Save, Edit
  <1> QED
    BY <1>1, <1>2, <1>3, <1>4 DEF RuleKey

LEMMA OtherKeyPrefs == OtherKey => Untouched \/ Edit \/ Preference
  <1>1. SaveSetting => Preference
    BY DEF SaveSetting, KeepIfSaved, Save, OtherMode, Modes, Preference
  <1>2. MoveImport \/ ToggleImport \/ ToggleAllImports => Untouched
    BY DEF MoveImport, MoveRow, ToggleImport, ToggleAllImports, Quiet, Calm, Untouched
  <1>3. ImportSshHosts => Untouched \/ Edit
    BY DEF ImportSshHosts, WithServers, KeepIfSaved, Save, Edit, Untouched
  <1> QED
    BY <1>1, <1>2, <1>3 DEF OtherKey

LEMMA DeskPrefs == ASSUME PrefsInv, DeskNext PROVE PrefsInv'
  <1>1. ExpireStatus => Untouched
    BY DEF ExpireStatus, Calm, Untouched
  <1>2. AutoLockIfIdle => Forgotten
    BY DEF AutoLockIfIdle, Forget, Forgotten
  <1>3. Unlock => ReadBack
    BY DEF Unlock, ReadBack
  <1> QED
    BY <1>1, <1>2, <1>3, MenuKeyPrefs, ServerKeyPrefs, ScriptKeyPrefs, RuleKeyPrefs, OtherKeyPrefs,
       PrefsKept DEF DeskNext, DeskKey, DeskTimer

LEMMA DeskTakes == HandleKey1 => pc = "idle" /\ pc' = pc /\ DeskNext
  BY DEF HandleKey1, DeskNext

-----------------------------------------------------------------------------
\* The sessions.

LEMMA ConnectPrefs == ConnectStep => Untouched \/ Edit
  <1>1. Connect => Untouched
    BY DEF Connect, Fails, Goes, Untouched
  <1>2. Failed => Untouched
    BY DEF Failed, Fails, Untouched, desk
  <1>3. Dial => Untouched
    BY <1>2 DEF Dial, Untouched, desk
  <1>4. ASSUME NEW learnt, Established(learnt) PROVE Untouched \/ Edit
    BY <1>4 DEF Established, RecordSession, WithServers, Save, Untouched, Edit, desk
  <1>5. Authenticate => Untouched \/ Edit
    BY <1>2, <1>4 DEF Authenticate, Untouched, desk
  <1>6. ConnectTick => Untouched
    BY DEF ConnectTick, Untouched, desk
  <1> QED
    BY <1>1, <1>3, <1>5, <1>6 DEF ConnectStep

LEMMA ForwardPrefs == ForwardStep => Untouched \/ Forgotten
  <1>1. StartForward => Untouched
    BY DEF StartForward, Untouched, desk
  <1>2. ForwardsStarted => Untouched \/ Forgotten
    BY DEF ForwardsStarted, Forget, Untouched, Forgotten, desk
  <1>3. AcceptForward \/ SocksHandshake \/ ChannelAnswer \/ PushedChannel \/ DialLocal \/ CloseConn => Untouched
    BY DEF AcceptForward, SocksHandshake, ChannelAnswer, PushedChannel, DialLocal, CloseConn, Others,
           Untouched, desk
  <1> QED
    BY <1>1, <1>2, <1>3 DEF ForwardStep

LEMMA ScriptPrefs == ScriptStep => Untouched
  BY DEF ScriptStep, SkipStep, StartStep, StepOutput, EndStep, ApplyEvents, ScriptEnds, ScriptsDone,
         InScript, Untouched, desk

LEMMA ShellPrefs == ShellStep => Untouched \/ Forgotten \/ Resaved
  <1>1. StartShell \/ TypeKeys \/ IgnoreKey \/ BridgeKeys \/ SwitchScreen \/ ProbeAnswers \/ PollAnswers
           \/ ShellReturns => Untouched
    BY DEF StartShell, TypeKeys, IgnoreKey, BridgeKeys, SwitchScreen, ProbeAnswers, PollAnswers, ShellReturns, Metered,
           Untouched, desk
  <1>2. ShellRefused => Forgotten
    BY DEF ShellRefused, Forget, Forgotten
  <1>3. ASSUME NEW ok, NEW got, EndSession(ok, got) PROVE Untouched \/ Resaved
    BY <1>3 DEF EndSession, Finish, Save, Untouched, Resaved
  <1>4. Tick \/ ConnectEnds \/ RemoteEnds => Untouched \/ Resaved
    BY <1>3 DEF Tick, ConnectEnds, RemoteEnds, Untouched, desk
  <1> QED
    BY <1>1, <1>2, <1>4 DEF ShellStep

LEMMA FleetPrefs == FleetStep => Untouched
  BY DEF FleetStep, RunScript, NextTarget, RunEnds, RunTick, ShowRun, Goes, Untouched, desk

LEMMA PrefsInitially == Init => PrefsInv
  BY DeskAssumption DEF Init, DeskInit, NoConfig, ConfigOK, PrefsInv, Shape, Modes, Sorts, PrefsMatchDisk

LEMMA PrefsStep == ASSUME PrefsInv, [Next]_vars PROVE PrefsInv'
  <1>1. CASE HandleKey1
    BY <1>1, DeskPrefs, DeskTakes
  <1>2. CASE SessionNext
    BY <1>2, ConnectPrefs, ForwardPrefs, ScriptPrefs, ShellPrefs, FleetPrefs, PrefsKept
       DEF SessionNext
  <1>3. CASE UNCHANGED vars
    BY <1>3, PrefsKept DEF vars, desk, Untouched
  <1> QED
    BY <1>1, <1>2, <1>3 DEF Next

\* PrefsMatchDisk: the auto-lock and the way to connect are those of the next
\* unlock, whatever else was kept without being saved (set_auto_lock,
\* set_connect_mode and every handler that saves).
THEOREM PrefsAgree == Spec => []PrefsMatchDisk
  <1>1. PrefsInv => PrefsMatchDisk
    BY DEF PrefsInv
  <1> QED
    BY PrefsInitially, PrefsStep, <1>1, PTL DEF Spec

-----------------------------------------------------------------------------
\* What a session leaves behind.

LinkShape(l) == l = [kind |-> l.kind, sid |-> l.sid, hops |-> l.hops, left |-> l.left,
                     learnt |-> l.learnt, key |-> l.key, shell |-> l.shell]

\* Beside the promise itself: which flow waits where.  A flow that is over has
\* no listener, and only a fleet is between two targets.
LeavesInv ==
    /\ LinkShape(link)
    /\ pc = "idle" => link.kind = "none" /\ listeners = {} /\ evq = <<>>
    /\ pc = "next" => link.kind = "fleet"
    /\ ScreenMatchesSession

\* What a step can do to it: nothing, an event for the log, an end, a further
\* step of the flow, or a target of the run.
Beside == UNCHANGED <<pc, link, listeners, tty, live>> /\ (evq' = evq \/ InFleet)
SessionOver == Reset /\ live' = 0 /\ tty' # "primary"
Onward == /\ pc' \notin {"idle", "next"} /\ LinkShape(link') /\ link'.kind = link.kind
          /\ live' # 0 => pc' = "shell" /\ InPane /\ live' = link'.sid
          /\ tty' = "primary" <=> ~InPane /\ ~InFleet /\ pc' \in {"bind", "script", "ready", "shell"}
Target == /\ pc' \in {"next", "dial"} /\ LinkShape(link') /\ link'.kind = "fleet"
          /\ live' = live /\ tty' = tty /\ (pc = "idle" \/ InFleet)
Begun == /\ pc = "idle" /\ pc' = "dial" /\ LinkShape(link') /\ live' = live /\ tty' = tty

LEMMA NewLink ==
    ASSUME NEW kind, NEW id
    PROVE  /\ LinkShape(Dialled(kind, id)) /\ Dialled(kind, id).kind = kind
           /\ LinkShape([NoLink EXCEPT !.kind = kind]) /\ [NoLink EXCEPT !.kind = kind].kind = kind
  <1>1. ASSUME NEW hops, NEW left, NEW l,
               l = [NoLink EXCEPT !.kind = kind, !.sid = id, !.hops = hops, !.left = left]
        PROVE  LinkShape(l) /\ l.kind = kind
    <2>1. l = [kind |-> kind, sid |-> id, hops |-> hops, left |-> left, learnt |-> <<>>,
               key |-> NoPin, shell |-> "none"]
      BY <1>1 DEF NoLink
    <2> QED
      BY <2>1 DEF LinkShape
  <1>2. LinkShape(Dialled(kind, id)) /\ Dialled(kind, id).kind = kind
    <2>1. \E hops, left :
             Dialled(kind, id) = [NoLink EXCEPT !.kind = kind, !.sid = id, !.hops = hops, !.left = left]
      BY DEF Dialled
    <2> QED
      BY <2>1, <1>1
  <1>3. LinkShape([NoLink EXCEPT !.kind = kind]) /\ [NoLink EXCEPT !.kind = kind].kind = kind
    BY DEF LinkShape, NoLink
  <1> QED
    BY <1>2, <1>3

LEMMA LeavesKept ==
    ASSUME LeavesInv, Beside \/ SessionOver \/ Onward \/ Target \/ Begun
    PROVE  LeavesInv'
  <1> USE DEF LeavesInv, ScreenMatchesSession, InPane, InFleet
  <1>1. CASE Beside
    BY <1>1 DEF Beside
  <1>2. CASE SessionOver
    BY <1>2 DEF SessionOver, Reset, LinkShape, NoLink
  <1>3. CASE Onward
    BY <1>3 DEF Onward
  <1>4. CASE Target
    BY <1>4 DEF Target
  <1>5. CASE Begun
    BY <1>5 DEF Begun
  <1> QED
    BY <1>1, <1>2, <1>3, <1>4, <1>5

LEMMA ConnectLeaves == ASSUME LeavesInv, ConnectStep PROVE LeavesInv'
  <1>1. ASSUME Connect PROVE Beside \/ Begun
    <2>1. /\ pc = "idle" /\ UNCHANGED <<listeners, evq, tty, live>>
          /\ \/ UNCHANGED <<pc, link>>
             \/ pc' = "dial" /\ \E mode : link' = Dialled(mode, Selected)
      BY <1>1 DEF Connect, Go, forwards, scripts, meter
    <2>2. ASSUME NEW mode, pc' = "dial", link' = Dialled(mode, Selected) PROVE Begun
      <3>1. LinkShape(Dialled(mode, Selected))
        BY NewLink
      <3> QED
        BY <2>1, <2>2, <3>1 DEF Begun
    <2> QED
      BY <2>1, <2>2 DEF Beside
  <1>2. ASSUME Failed, pc \in {"dial", "auth"} PROVE Target \/ SessionOver
    <2>1. CASE InFleet
      BY <1>2, <2>1, NewLink DEF Failed, Target, Go, meter
    <2>2. CASE ~InFleet
      BY <1>2, <2>2 DEF Failed, SessionOver, Over, LeavesInv, ScreenMatchesSession
    <2> QED
      BY <2>1, <2>2
  <1>3. ASSUME Dial, ~Failed PROVE Onward
    BY <1>3 DEF Dial, LeavesInv, ScreenMatchesSession, Onward, Go, Nothing, LinkShape, meter
  <1>4. ASSUME NEW learnt, Established(learnt)
        PROVE  \/ pc' = "script" /\ tty' = tty /\ InFleet
               \/ pc' = "bind" /\ tty' = (IF InPane THEN tty ELSE "primary") /\ ~InFleet
    BY <1>4 DEF Established, Go
  <1>5. ASSUME Authenticate, ~Failed PROVE Onward
    <2>1. /\ pc = "auth" /\ live' = live /\ LinkShape(link') /\ link'.kind = link.kind
          /\ (pc' = "dial" /\ tty' = tty) \/ \E learnt : Established(learnt)
      BY <1>5 DEF Authenticate, LeavesInv, Go, LinkShape, meter
    <2>2. live = 0 /\ tty # "primary"
      BY <2>1 DEF LeavesInv, ScreenMatchesSession
    <2>3. CASE pc' = "dial" /\ tty' = tty
      BY <2>1, <2>2, <2>3 DEF Onward
    <2>4. ASSUME NEW learnt, Established(learnt) PROVE Onward
      BY <1>4, <2>1, <2>2, <2>4 DEF Onward, InPane, InFleet
    <2> QED
      BY <2>1, <2>3, <2>4
  <1>6. ASSUME ConnectTick PROVE Beside \/ SessionOver
    BY <1>6 DEF ConnectTick, Over, Beside, SessionOver, LeavesInv, ScreenMatchesSession, forwards, scripts, meter
  <1>7. Dial \/ Authenticate => pc \in {"dial", "auth"}
    BY DEF Dial, Authenticate
  <1> QED
    BY <1>1, <1>2, <1>3, <1>5, <1>6, <1>7, LeavesKept DEF ConnectStep

LEMMA ForwardLeaves == ASSUME LeavesInv, ForwardStep PROVE LeavesInv'
  <1> USE DEF LeavesInv, ScreenMatchesSession
  <1>1. ASSUME StartForward PROVE Onward
    BY <1>1 DEF StartForward, Onward, meter
  <1>2. ASSUME ForwardsStarted PROVE Onward \/ SessionOver
    BY <1>2 DEF ForwardsStarted, Onward, SessionOver, Over, Go, meter
  <1>3. ASSUME AcceptForward \/ SocksHandshake \/ ChannelAnswer \/ PushedChannel \/ DialLocal \/ CloseConn
        PROVE  Beside
    BY <1>3 DEF AcceptForward, SocksHandshake, ChannelAnswer, PushedChannel, DialLocal, CloseConn,
                Others, Beside, scripts, meter
  <1> QED
    BY <1>1, <1>2, <1>3, LeavesKept DEF ForwardStep

LEMMA ScriptLeaves == ASSUME LeavesInv, ScriptStep PROVE LeavesInv'
  <1>1. ASSUME NEW events, Emit(events), InScript PROVE Beside
    BY <1>1 DEF Emit, InScript, Beside, forwards, meter
  <1>2. SkipStep \/ StartStep \/ StepOutput \/ EndStep => Beside
    BY <1>1 DEF SkipStep, StartStep, StepOutput, EndStep
  <1>3. ApplyEvents \/ ScriptsDone => Onward
    BY DEF ApplyEvents, ScriptsDone, LeavesInv, ScreenMatchesSession, Onward, Go, meter
  <1>4. ScriptEnds => Onward \/ Target
    BY NewLink DEF ScriptEnds, LeavesInv, ScreenMatchesSession, Onward, Target, Go, meter
  <1> QED
    BY <1>2, <1>3, <1>4, LeavesKept DEF ScriptStep

LEMMA ShellLeaves == ASSUME LeavesInv, ShellStep PROVE LeavesInv'
  <1>1. TypeKeys \/ IgnoreKey \/ BridgeKeys => Beside
    BY DEF TypeKeys, IgnoreKey, BridgeKeys, Beside, forwards, scripts, meter
  <1>2. StartShell \/ SwitchScreen => Onward
    BY DEF StartShell, SwitchScreen, InShell, LeavesInv, ScreenMatchesSession, Onward, Go, LinkShape, meter
  <1>3. ProbeAnswers \/ PollAnswers \/ ShellReturns => Onward
    BY DEF ProbeAnswers, PollAnswers, ShellReturns, InShell, InPane, InFleet, Metered, LeavesInv,
           ScreenMatchesSession, Onward, LinkShape, meter
  <1>4. ASSUME NEW ok, NEW got, EndSession(ok, got) PROVE Reset
    BY <1>4 DEF EndSession, Over
  <1>5. Tick => Onward \/ SessionOver
    BY <1>4 DEF Tick, LiveGone, Over, LeavesInv, ScreenMatchesSession, Onward, SessionOver, meter
  <1>6. ShellRefused \/ ConnectEnds \/ RemoteEnds => SessionOver
    BY <1>4 DEF ShellRefused, ConnectEnds, RemoteEnds, LiveGone, InShell, Over, LeavesInv,
                ScreenMatchesSession, InPane, SessionOver
  <1> QED
    BY <1>1, <1>2, <1>3, <1>5, <1>6, LeavesKept DEF ShellStep

LEMMA FleetLeaves == ASSUME LeavesInv, FleetStep PROVE LeavesInv'
  <1>1. RunScript => Target
    BY NewLink DEF RunScript, Target, Go, meter
  <1>2. NextTarget => Target
    <2> SUFFICES ASSUME NextTarget PROVE Target
      OBVIOUS
    <2>1. /\ pc = "next" /\ live' = live /\ tty' = tty
          /\ \/ pc' = "dial" /\ \E id : link' = Dialled("fleet", id)
             \/ pc' = pc /\ link' = link
      BY DEF NextTarget, Go, meter
    <2>2. CASE pc' = pc /\ link' = link
      BY <2>1, <2>2 DEF LeavesInv, Target, InFleet
    <2>3. ASSUME NEW id, pc' = "dial", link' = Dialled("fleet", id) PROVE Target
      <3>1. LinkShape(Dialled("fleet", id)) /\ Dialled("fleet", id).kind = "fleet"
        BY NewLink
      <3> QED
        BY <2>1, <2>3, <3>1 DEF LeavesInv, Target, InFleet
    <2> QED
      BY <2>1, <2>2, <2>3
  <1>3. ASSUME NEW last, ShowRun(last), InFleet PROVE SessionOver
    BY <1>3 DEF ShowRun, LeavesInv, ScreenMatchesSession, SessionOver, InPane, InFleet
  <1>4. RunEnds \/ RunTick => Beside \/ SessionOver
    BY <1>3 DEF RunEnds, RunTick, LeavesInv, InFleet, Beside, forwards, scripts, meter
  <1> QED
    BY <1>1, <1>2, <1>4, LeavesKept DEF FleetStep

LEMMA LeavesInitially == Init => LeavesInv
  BY DEF Init, SessionInit, LeavesInv, ScreenMatchesSession, LinkShape, NoLink

LEMMA LeavesStep == ASSUME LeavesInv, [Next]_vars PROVE LeavesInv'
  <1>1. CASE HandleKey1
    <2>1. Beside
      BY <1>1 DEF HandleKey1, Beside, forwards, meter
    <2> QED
      BY <2>1, LeavesKept
  <1>2. CASE SessionNext
    BY <1>2, ConnectLeaves, ForwardLeaves, ScriptLeaves, ShellLeaves, FleetLeaves DEF SessionNext
  <1>3. CASE UNCHANGED vars
    <2>1. Beside
      BY <1>3 DEF vars, session, forwards, scripts, meter, Beside
    <2> QED
      BY <2>1, LeavesKept
  <1> QED
    BY <1>1, <1>2, <1>3 DEF Next

\* ScreenMatchesSession: for every chain of jumps, script and order of answers,
\* through each end the flows have (Esc, a detach, a refusal, a failed write, the
\* far end going), figures are on the card only in the pane of their server, and
\* the primary buffer is up exactly from suspend to resume (connect_flow,
\* pane_connect_flow, run_script_flow).
THEOREM ScreenIsTrue == Spec => []ScreenMatchesSession
  <1>1. LeavesInv => ScreenMatchesSession
    BY DEF LeavesInv
  <1> QED
    BY LeavesInitially, LeavesStep, <1>1, PTL DEF Spec

-----------------------------------------------------------------------------
\* What was not saved is told.

\* A screen has all of its fields.
ScreenShape(s) == {"at", "sid", "item", "cur", "choices", "pick", "rows", "err"} \subseteq DOMAIN s

LEMMA NewScreen ==
    ASSUME NEW at, NEW sid PROVE ScreenShape(NoScreen) /\ ScreenShape(Screen(at, sid))
  BY DEF ScreenShape, NoScreen, Screen

Unhidden == mem' = mem \/ mem' = disk' \/ status' = "failed" \/ screen'.err
            \/ screen.at = "files" \/ app' # "open" \/ app # "open"

LEMMA MenuKeyScreen ==
    ASSUME ScreenShape(screen), MenuKey PROVE ScreenShape(screen') /\ Unhidden
  <1>1. ASSUME MoveSelection \/ StartTyping \/ TypeFilter \/ EscapeFilter
        PROVE  screen' = screen /\ mem' = mem
    BY <1>1 DEF MoveSelection, StartTyping, TypeFilter, EscapeFilter, InList, Quiet, Calm
  <1>2. ASSUME CycleServerSort PROVE screen' = screen /\ Unhidden
    <2>1. PICK ok, config :
              /\ mem' = config /\ disk' = IF ok THEN config ELSE disk
              /\ IF ok THEN UNCHANGED status ELSE status' = "failed"
      BY <1>2 DEF CycleServerSort, Keep, Save, Report
    <2>2. mem' = disk' \/ status' = "failed"
      BY <2>1
    <2> QED
      BY <1>2, <2>2 DEF CycleServerSort, Unhidden
  <1>4. ASSUME GoAdd \/ GoEdit \/ GoSshImport PROVE ScreenShape(screen') /\ mem' = mem
    <2>1. ASSUME GoAdd PROVE ScreenShape(screen') /\ mem' = mem
      BY <2>1, NewScreen DEF GoAdd, Leave, Quiet, Calm, ScreenShape
    <2>2. ASSUME GoEdit PROVE ScreenShape(screen') /\ mem' = mem
      <3>1. PICK x, y : Open([Screen("form", Selected) EXCEPT !.choices = x, !.pick = y])
        BY <2>2 DEF GoEdit
      <3> QED
        BY <3>1, NewScreen DEF Open, Leave, Quiet, Calm, ScreenShape
    <2>3. ASSUME GoSshImport PROVE ScreenShape(screen') /\ mem' = mem
      BY <2>3, NewScreen DEF GoSshImport, Leave, Quiet, Calm, ScreenShape
    <2> QED
      BY <1>4, <2>1, <2>2, <2>3
  <1>5. ASSUME GoDelete \/ GoScripts \/ GoForwards \/ GoSettings \/ GoFiles
        PROVE  (ScreenShape(screen') \/ screen' = screen) /\ mem' = mem
    BY <1>5, NewScreen DEF Open, GoDelete, GoScripts, GoForwards, GoSettings, GoFiles, Leave, Quiet,
                                Calm
  <1>6. ASSUME Lock \/ Quit PROVE ScreenShape(screen') /\ app' # "open"
    BY <1>6, NewScreen DEF Lock, Quit, Forget
  <1> QED
    BY <1>1, <1>2, <1>4, <1>5, <1>6 DEF MenuKey, Unhidden

LEMMA ServerKeyScreen ==
    ASSUME ScreenShape(screen), ServerKey PROVE ScreenShape(screen') /\ Unhidden
  <1>1. ASSUME Back \/ CycleJumpHost \/ RefuseForm PROVE ScreenShape(screen') /\ mem' = mem
    BY <1>1, NewScreen DEF Back, CycleJumpHost, RefuseForm, BackToMenu, Show, Quiet, Calm, ScreenShape
  <1>2. ASSUME FilesBack PROVE ScreenShape(screen') /\ screen.at = "files"
    BY <1>2, NewScreen DEF FilesBack, BackToMenu, At
  <1>3. ASSUME SubmitForm PROVE ScreenShape(screen') /\ (mem' = disk' \/ screen'.err)
    <2>1. PICK ok, servers, anchor :
             /\ Keep(WithServers(servers), ok)
             /\ IF ok THEN BackToMenu(servers, mem.sort, anchor) /\ Report(TRUE)
                ELSE Show([screen EXCEPT !.err = TRUE]) /\ UNCHANGED status
      BY <1>3, Zenon DEF SubmitForm
    <2>2. mem' = disk' \/ ~ok
      BY <2>1 DEF Keep, Save
    <2>3. IF ok THEN screen' = NoScreen ELSE screen' = [screen EXCEPT !.err = TRUE]
      BY <2>1 DEF BackToMenu, Show
    <2> QED
      BY <2>2, <2>3, NewScreen DEF ScreenShape
  <1>4. ASSUME ConfirmDelete PROVE ScreenShape(screen') /\ (mem' = disk' \/ status' = "failed")
    BY <1>4, NewScreen DEF ConfirmDelete, Keep, Save, BackToMenu, Report
  <1> QED
    BY <1>1, <1>2, <1>3, <1>4 DEF ServerKey, Unhidden

LEMMA ScriptKeyScreen ==
    ASSUME ScreenShape(screen), ScriptKey PROVE ScreenShape(screen') /\ Unhidden
  <1>1. ASSUME MoveScript \/ MoveTarget \/ ToggleTarget \/ ToggleAllTargets
        PROVE  ScreenShape(screen') /\ mem' = mem
    BY <1>1 DEF MoveScript, MoveTarget, MoveRow, ToggleTarget, ToggleAllTargets, Show, Quiet, Calm, ScreenShape
  <1>2. ASSUME GoScriptAdd \/ GoScriptEdit \/ GoScriptDelete \/ GoScriptTargets \/ BackToScripts
        PROVE  ScreenShape(screen') /\ mem' = mem
    BY <1>2, NewScreen DEF GoScriptAdd, GoScriptEdit, GoScriptDelete, GoScriptTargets, OnScript, BackToScripts,
           ScriptsList, Show, Quiet, Calm, ScreenShape
  <1>3. ASSUME SubmitScriptForm PROVE ScreenShape(screen') /\ (mem' = disk' \/ screen'.err)
    BY <1>3, NewScreen DEF SubmitScriptForm, Keep, Save, Show, ScriptsList, ScreenShape
  <1>4. ASSUME ConfirmDeleteScript PROVE ScreenShape(screen') /\ (mem' = disk' \/ status' = "failed")
    BY <1>4, NewScreen DEF ConfirmDeleteScript, Keep, Save, Show, ScriptsList, Report
  <1> QED
    BY <1>1, <1>2, <1>3, <1>4 DEF ScriptKey, Unhidden

LEMMA RuleKeyScreen ==
    ASSUME ScreenShape(screen), RuleKey PROVE ScreenShape(screen') /\ Unhidden
  <1>1. ASSUME MoveRule \/ GoForwardAdd \/ GoForwardEdit \/ GoForwardDelete \/ BackToForwards
        PROVE  ScreenShape(screen') /\ mem' = mem
    BY <1>1, NewScreen DEF MoveRule, MoveRow, GoForwardAdd, GoForwardEdit, GoForwardDelete, OnRule,
           BackToForwards, RulesList, Show, Quiet, Calm, ScreenShape
  <1>2. ASSUME ToggleForward PROVE screen' = screen /\ (mem' = disk' \/ status' = "failed")
    BY <1>2 DEF ToggleForward, MutateForwards, Keep, Save, Report, Show
  <1>3. ASSUME SubmitForwardForm \/ ConfirmDeleteForward
        PROVE  ScreenShape(screen') /\ (mem' = disk' \/ status' = "failed")
    BY <1>3, NewScreen DEF SubmitForwardForm, ConfirmDeleteForward, MutateForwards, Keep, Save, Report,
           Show, RulesList
  <1> QED
    BY <1>1, <1>2, <1>3 DEF RuleKey, Unhidden

LEMMA OtherKeyScreen ==
    ASSUME ScreenShape(screen), OtherKey PROVE ScreenShape(screen') /\ Unhidden
  <1>1. ASSUME SaveSetting PROVE ScreenShape(screen') /\ (mem' = mem \/ mem' = disk')
    BY <1>1 DEF SaveSetting, KeepIfSaved, Save, Show, ScreenShape
  <1>2. ASSUME MoveImport \/ ToggleImport \/ ToggleAllImports PROVE ScreenShape(screen') /\ mem' = mem
    BY <1>2 DEF MoveImport, MoveRow, ToggleImport, ToggleAllImports, Show, Quiet, Calm, ScreenShape
  <1>3. ASSUME ImportSshHosts PROVE ScreenShape(screen') /\ (mem' = mem \/ mem' = disk')
    BY <1>3, NewScreen DEF ImportSshHosts, KeepIfSaved, Save, BackToMenu, Show, ScreenShape
  <1> QED
    BY <1>1, <1>2, <1>3 DEF OtherKey, Unhidden

\* A session has no say in the screen, but for the run it ends with; nor does it
\* edit while the app is idle.
LEMMA ConnectScreen ==
    ASSUME ScreenShape(screen), ConnectStep
    PROVE  ScreenShape(screen') /\ (pc # "idle" \/ mem' = mem)
  <1>1. Connect => screen' = screen /\ mem' = mem
    BY DEF Connect, Fails, Goes
  <1>2. Failed => screen' = screen
    BY DEF Failed, Fails, desk
  <1>3. Dial => screen' = screen /\ pc # "idle"
    BY <1>2 DEF Dial, desk
  <1>4. Authenticate => screen' = screen /\ pc # "idle"
    BY <1>2 DEF Authenticate, Established, desk
  <1>5. ConnectTick => screen' = screen /\ pc # "idle"
    BY DEF ConnectTick, desk
  <1> QED
    BY <1>1, <1>3, <1>4, <1>5 DEF ConnectStep

LEMMA ForwardScreen ==
    ASSUME ScreenShape(screen), ForwardStep
    PROVE  ScreenShape(screen') /\ (pc # "idle" \/ mem' = mem)
  <1>1. StartForward => screen' = screen /\ mem' = mem
    BY DEF StartForward, desk
  <1>2. ForwardsStarted => (screen' = screen \/ screen' = NoScreen) /\ pc # "idle"
    BY DEF ForwardsStarted, Forget, desk
  <1>3. AcceptForward \/ SocksHandshake \/ ChannelAnswer \/ PushedChannel \/ DialLocal \/ CloseConn
           => screen' = screen /\ mem' = mem
    BY DEF AcceptForward, SocksHandshake, ChannelAnswer, PushedChannel, DialLocal, CloseConn, Others, desk
  <1> QED
    BY <1>1, <1>2, <1>3, NewScreen DEF ForwardStep

LEMMA ScriptScreen ==
    ASSUME ScreenShape(screen), ScriptStep PROVE ScreenShape(screen') /\ mem' = mem
  BY DEF ScriptStep, SkipStep, StartStep, StepOutput, EndStep, ApplyEvents, ScriptEnds, ScriptsDone,
         InScript, desk

LEMMA ShellScreen ==
    ASSUME ScreenShape(screen), ShellStep
    PROVE  ScreenShape(screen') /\ (pc # "idle" \/ mem' = mem)
  <1>1. StartShell \/ TypeKeys \/ IgnoreKey \/ BridgeKeys \/ SwitchScreen \/ ProbeAnswers \/ PollAnswers \/ ShellReturns
           => screen' = screen /\ mem' = mem
    BY DEF StartShell, TypeKeys, IgnoreKey, BridgeKeys, SwitchScreen, ProbeAnswers, PollAnswers, ShellReturns, Metered, desk
  <1>2. ShellRefused => screen' = NoScreen /\ pc # "idle"
    BY DEF ShellRefused, Forget
  <1>3. ASSUME NEW ok, NEW got, EndSession(ok, got) PROVE screen' = screen /\ mem' = mem
    BY <1>3 DEF EndSession
  <1>4. Tick \/ ConnectEnds \/ RemoteEnds => screen' = screen /\ mem' = mem
    BY <1>3 DEF Tick, ConnectEnds, RemoteEnds, desk
  <1> QED
    BY <1>1, <1>2, <1>4, NewScreen DEF ShellStep

LEMMA FleetScreen ==
    ASSUME ScreenShape(screen), FleetStep PROVE ScreenShape(screen') /\ mem' = mem
  <1>1. RunScript \/ NextTarget => screen' = screen /\ mem' = mem
    BY DEF RunScript, NextTarget, Goes, desk
  <1>2. RunEnds \/ RunTick => ScreenShape(screen') /\ mem' = mem
    <2>1. ASSUME NEW last, ShowRun(last) PROVE ScreenShape(screen') /\ mem' = mem
      BY <2>1, NewScreen DEF ShowRun, Show, ScreenShape
    <2> QED
      BY <2>1 DEF RunEnds, RunTick, desk
  <1> QED
    BY <1>1, <1>2 DEF FleetStep

LEMMA ScreenStep ==
    ASSUME ScreenShape(screen), [Next]_vars
    PROVE  ScreenShape(screen') /\ (pc # "idle" \/ Unhidden)
  <1>1. CASE HandleKey1
    <2>1. ExpireStatus => screen' = screen /\ Unhidden
      BY DEF ExpireStatus, Calm, Unhidden
    <2>2. AutoLockIfIdle => screen' = NoScreen /\ Unhidden
      BY DEF AutoLockIfIdle, Forget, Unhidden
    <2>3. Unlock => screen' = screen /\ Unhidden
      BY DEF Unlock, Unhidden
    <2> QED
      BY <1>1, <2>1, <2>2, <2>3, NewScreen, MenuKeyScreen, ServerKeyScreen, ScriptKeyScreen,
         RuleKeyScreen, OtherKeyScreen DEF HandleKey1, DeskNext, DeskKey, DeskTimer
  <1>2. CASE SessionNext
    BY <1>2, ConnectScreen, ForwardScreen, ScriptScreen, ShellScreen, FleetScreen DEF SessionNext, Unhidden
  <1>3. CASE UNCHANGED vars
    BY <1>3 DEF vars, desk, Unhidden
  <1> QED
    BY <1>1, <1>2, <1>3 DEF Next

\* UnsavedWasTold: whatever edit is kept in memory although its save failed, the
\* status bar or the form says so (every handler of app.rs that saves).
THEOREM FailureIsShown == Spec => UnsavedWasTold
  <1>1. Init => ScreenShape(screen)
    BY NewScreen DEF Init, DeskInit
  <1>2. ASSUME ScreenShape(screen), [Next]_vars
        PROVE  [Running /\ mem' # mem /\ mem' # disk' /\ pc = "idle" /\ screen.at # "files"
                  => status' = "failed" \/ screen'.err]_vars
    BY <1>2, ScreenStep DEF Unhidden, Running
  <1>3. ScreenShape(screen) /\ [Next]_vars => ScreenShape(screen)'
    BY ScreenStep
  <1> QED
    BY <1>1, <1>2, <1>3, PTL DEF Spec, UnsavedWasTold

-----------------------------------------------------------------------------
\* Lists: what building one from another keeps.

\* Nth picks the places of a set in their order, each of them once.
LEMMA PlacesRanked ==
    ASSUME NEW places, IsFiniteSet(places), places \subseteq Nat
    PROVE  \E f \in [1..Cardinality(places) -> places] :
              /\ \A i, j \in 1..Cardinality(places) : f[i] = f[j] => i = j
              /\ \A i \in places : \E k \in 1..Cardinality(places) : f[k] = i
              /\ \A k \in 1..Cardinality(places) : f[k] = Nth(places, k)
  <1> DEFINE n == Cardinality(places)
             below(i) == {j \in places : j < i}
             rank == [i \in places |-> Cardinality(below(i)) + 1]
             f == [k \in 1..n |-> Nth(places, k)]
  <1>1. n \in Nat
    BY FS_CardinalityType
  <1>2. ASSUME NEW i \in places
        PROVE  /\ IsFiniteSet(below(i)) /\ Cardinality(below(i)) \in Nat
               /\ Cardinality(below(i)) < n
    <2>1. below(i) \in SUBSET places
      OBVIOUS
    <2>2. /\ IsFiniteSet(below(i)) /\ Cardinality(below(i)) <= n
          /\ n = Cardinality(below(i)) => places = below(i)
      BY <2>1, FS_Subset
    <2>3. i \notin below(i)
      OBVIOUS
    <2>4. Cardinality(below(i)) \in Nat
      BY <2>2, FS_CardinalityType
    <2> QED
      BY <1>1, <2>2, <2>3, <2>4
  <1>3. ASSUME NEW i \in places, NEW j \in places, j < i
        PROVE  Cardinality(below(j)) < Cardinality(below(i))
    <2>1. i \in Nat /\ j \in Nat
      OBVIOUS
    <2>2. ASSUME NEW x \in below(j) PROVE x \in below(i)
      BY <1>3, <2>1
    <2>3. below(j) \in SUBSET below(i)
      BY <2>2
    <2>4. /\ Cardinality(below(j)) <= Cardinality(below(i))
          /\ Cardinality(below(i)) = Cardinality(below(j)) => below(i) = below(j)
      BY <1>2, <2>3, FS_Subset
    <2>5. j \in below(i) /\ j \notin below(j)
      BY <1>3
    <2> QED
      BY <1>2, <2>4, <2>5
  <1>4. rank \in [places -> 1..n]
    BY <1>1, <1>2
  <1>5. \A i, j \in places : rank[i] = rank[j] => i = j
    BY <1>2, <1>3
  <1>6. rank \in Injection(places, 1..n)
    BY <1>4, <1>5 DEF Injection, IsInjective
  <1>7. IsFiniteSet(1..n) /\ Cardinality(1..n) = n
    BY <1>1, FS_Interval
  <1>8. rank \in Surjection(places, 1..n)
    BY <1>6, <1>7, FS_Injection
  <1>9. ASSUME NEW k \in 1..n PROVE f[k] \in places /\ rank[f[k]] = k
    <2>1. PICK i \in places : rank[i] = k
      BY <1>8 DEF Surjection
    <2>2. Cardinality(below(i)) = k - 1
      BY <1>2, <2>1
    <2>3. Nth(places, k) \in places /\ Cardinality(below(Nth(places, k))) = k - 1
      BY <2>2 DEF Nth
    <2> QED
      BY <2>3
  <1>10. f \in [1..n -> places]
    BY <1>9
  <1>11. \A i, j \in 1..n : f[i] = f[j] => i = j
    BY <1>9
  <1>12. \A i \in places : f[rank[i]] = i
    BY <1>4, <1>5, <1>9
  <1>13. \A i \in places : \E k \in 1..n : f[k] = i
    BY <1>4, <1>12
  <1>14. \A k \in 1..n : f[k] = Nth(places, k)
    OBVIOUS
  <1> HIDE DEF f
  <1> QED
    BY <1>10, <1>11, <1>13, <1>14

LEMMA Lists ==
    ASSUME NEW list, IsList(list) PROVE Len(list) \in Nat /\ DOMAIN list = 1..Len(list)
  BY DEF IsList

LEMMA SeqIsList == ASSUME NEW S, NEW list \in Seq(S) PROVE IsList(list)
  <1>1. list \in [1..Len(list) -> S] /\ Len(list) \in Nat
    OBVIOUS
  <1>2. \A i \in 1..Len(list) : list[i] \in ToSet(list)
    BY <1>1 DEF ToSet
  <1>3. list \in [1..Len(list) -> ToSet(list)]
    BY <1>1, <1>2
  <1> QED
    BY <1>1, <1>3 DEF IsList

LEMMA AppendedList ==
    ASSUME NEW list, IsList(list), NEW x
    PROVE  /\ IsList(Append(list, x)) /\ Len(Append(list, x)) = Len(list) + 1
           /\ Append(list, x)[Len(list) + 1] = x
           /\ \A i \in DOMAIN list : Append(list, x)[i] = list[i]
  <1> DEFINE S == ToSet(list) \cup {x}
  <1>1. list \in Seq(S) /\ x \in S
    <2>1. list \in Seq(ToSet(list))
      BY DEF IsList
    <2> HIDE DEF S
    <2>2. ToSet(list) \subseteq S /\ x \in S
      BY DEF S
    <2> QED
      BY <2>1, <2>2
  <1> HIDE DEF S
  <1>2. IsList(Append(list, x))
    <2>1. Append(list, x) \in Seq(S)
      BY <1>1
    <2> QED
      BY <2>1, SeqIsList
  <1> QED
    BY <1>1, <1>2

LEMMA JoinedList ==
    ASSUME NEW list, IsList(list), NEW more, IsList(more)
    PROVE  /\ IsList(list \o more) /\ Len(list \o more) = Len(list) + Len(more)
           /\ \A i \in DOMAIN list : (list \o more)[i] = list[i]
           /\ \A i \in DOMAIN more : (list \o more)[Len(list) + i] = more[i]
  <1> DEFINE S == ToSet(list) \cup ToSet(more)
  <1>1. list \in Seq(S) /\ more \in Seq(S)
    <2>1. list \in Seq(ToSet(list)) /\ more \in Seq(ToSet(more))
      BY DEF IsList
    <2> HIDE DEF S
    <2>2. ToSet(list) \subseteq S /\ ToSet(more) \subseteq S
      BY DEF S
    <2> QED
      BY <2>1, <2>2
  <1> HIDE DEF S
  <1>2. IsList(list \o more)
    <2>1. list \o more \in Seq(S)
      BY <1>1
    <2> QED
      BY <2>1, SeqIsList, Zenon
  <1> QED
    BY <1>1, <1>2

LEMMA NoList == IsList(<<>>) /\ Len(<<>>) = 0 /\ DOMAIN <<>> = {}
  <1>1. <<>> \in Seq({}) /\ Len(<<>>) = 0
    OBVIOUS
  <1>2. IsList(<<>>)
    BY <1>1, SeqIsList, Zenon
  <1> QED
    BY <1>1, <1>2

LEMMA MappedList ==
    ASSUME NEW list, IsList(list), NEW image, image = [i \in DOMAIN list |-> image[i]]
    PROVE  IsList(image) /\ Len(image) = Len(list) /\ DOMAIN image = DOMAIN list
  <1> DEFINE S == {image[i] : i \in DOMAIN list}
  <1>1. Len(list) \in Nat /\ DOMAIN list = 1..Len(list)
    BY Lists
  <1>2. image \in [1..Len(list) -> S]
    BY <1>1
  <1>3. image \in Seq(S) /\ Len(image) = Len(list)
    BY <1>1, <1>2
  <1> QED
    BY <1>2, <1>3, <1>1, SeqIsList

\* What is left of a list is a list of its entries, each at one place.
LEMMA ChosenEntries ==
    ASSUME NEW list, IsList(list), NEW places, places \subseteq DOMAIN list
    PROVE  \E f : /\ IsList(EntriesAt(list, places))
                  /\ f \in [DOMAIN EntriesAt(list, places) -> places]
                  /\ \A k \in DOMAIN EntriesAt(list, places) : EntriesAt(list, places)[k] = list[f[k]]
                  /\ \A i, j \in DOMAIN EntriesAt(list, places) : f[i] = f[j] => i = j
                  /\ \A i \in places : \E k \in DOMAIN EntriesAt(list, places) : f[k] = i
  <1> DEFINE n == Cardinality(places)
             e == EntriesAt(list, places)
  <1>1. IsFiniteSet(1..Len(list)) /\ DOMAIN list = 1..Len(list) /\ Len(list) \in Nat
    BY Lists, FS_Interval
  <1>2. IsFiniteSet(places) /\ places \subseteq Nat
    BY <1>1, FS_Subset
  <1>3. n \in Nat
    BY <1>2, FS_CardinalityType
  <1>4. PICK f \in [1..n -> places] :
              /\ \A i, j \in 1..n : f[i] = f[j] => i = j
              /\ \A i \in places : \E k \in 1..n : f[k] = i
              /\ \A k \in 1..n : f[k] = Nth(places, k)
    BY <1>2, PlacesRanked
  <1>5. e = [k \in 1..n |-> list[f[k]]]
    BY <1>4 DEF EntriesAt
  <1>6. DOMAIN e = 1..n /\ \A k \in 1..n : e[k] = list[f[k]]
    BY <1>5
  <1>7. e \in Seq({list[i] : i \in places})
    BY <1>3, <1>5
  <1>8. IsList(e)
    BY <1>7, SeqIsList
  <1>9. /\ f \in [DOMAIN e -> places] /\ \A k \in DOMAIN e : e[k] = list[f[k]]
        /\ \A i, j \in DOMAIN e : f[i] = f[j] => i = j
        /\ \A i \in places : \E k \in DOMAIN e : f[k] = i
    BY <1>4, <1>6
  <1> QED
    BY <1>8, <1>9

-----------------------------------------------------------------------------
\* The servers of a vault, and what keeps a list of them one.

VaultInv == /\ nextId \in Nat \ {0}
            /\ IsVault(mem.servers, nextId) /\ IsVault(disk.servers, nextId)

\* What an edit makes of a list of servers: the same but for one of them, new ones
\* behind it, or one less, with the jumps to it cleared.
SameBut(old, new, sid) ==
    /\ IsList(new) /\ DOMAIN new = DOMAIN old
    /\ \A i \in DOMAIN old :
          \/ new[i] = old[i]
          \/ old[i].id = sid /\ new[i].id = sid /\ IsServer(new[i]) /\ new[i].pin = old[i].pin
Extended(old, new, first, next) ==
    /\ IsList(new) /\ Len(new) >= Len(old) /\ next >= first + (Len(new) - Len(old))
    /\ \A i \in DOMAIN old : new[i] = old[i]
    /\ \A i \in (Len(old) + 1)..Len(new) :
          IsServer(new[i]) /\ new[i].id = first + (i - Len(old) - 1)
Shorter(old, new, sid) ==
    \E f : /\ IsList(new) /\ f \in [DOMAIN new -> {i \in DOMAIN old : old[i].id # sid}]
           /\ \A i, j \in DOMAIN new : f[i] = f[j] => i = j
           /\ \A i \in DOMAIN old : old[i].id # sid => \E k \in DOMAIN new : f[k] = i
           /\ \A k \in DOMAIN new : \/ old[f[k]].jump # sid /\ new[k] = old[f[k]]
                                    \/ old[f[k]].jump = sid /\ new[k] = [old[f[k]] EXCEPT !.jump = 0]

LEMMA ServerFields ==
    ASSUME NEW s, IsServer(s)
    PROVE  /\ DOMAIN s = {"id", "name", "host", "port", "user", "tag", "jump", "pin", "last", "dirs",
                          "scripts", "forwards"}
           /\ s = [f \in DOMAIN s |-> s[f]]
  <1>1. s = [id |-> s.id, name |-> s.name, host |-> s.host, port |-> s.port, user |-> s.user,
            tag |-> s.tag, jump |-> s.jump, pin |-> s.pin, last |-> s.last, dirs |-> s.dirs,
            scripts |-> s.scripts, forwards |-> s.forwards]
    BY DEF IsServer
  <1> QED
    BY <1>1

LEMMA IsServerIf ==
    ASSUME NEW s, s = [f \in DOMAIN s |-> s[f]], IsList(s.scripts), IsList(s.forwards),
           DOMAIN s = {"id", "name", "host", "port", "user", "tag", "jump", "pin", "last", "dirs",
                       "scripts", "forwards"}
    PROVE  IsServer(s)
  <1>1. s = [id |-> s.id, name |-> s.name, host |-> s.host, port |-> s.port, user |-> s.user,
            tag |-> s.tag, jump |-> s.jump, pin |-> s.pin, last |-> s.last, dirs |-> s.dirs,
            scripts |-> s.scripts, forwards |-> s.forwards]
    OBVIOUS
  <1> QED
    BY <1>1 DEF IsServer

LEMMA FindIs ==
    ASSUME NEW list, NEW i \in DOMAIN list,
           \A k, j \in DOMAIN list : list[k].id = list[j].id => k = j
    PROVE  Find(list, list[i].id) = list[i]
  BY DEF Find, IndexOf

LEMMA FoundIn ==
    ASSUME NEW list, NEW next, IsVault(list, next), NEW id \in IdsOf(list)
    PROVE  \E i \in DOMAIN list : list[i].id = id /\ Find(list, id) = list[i]
  BY FindIs DEF IdsOf, IsVault

LEMMA SameButVault ==
    ASSUME NEW old, NEW new, NEW sid, NEW first, NEW next \in Nat, IsVault(old, first), first \in Nat,
           SameBut(old, new, sid), next >= first
    PROVE  IsVault(new, next)
  <1>1. ASSUME NEW i \in DOMAIN new
        PROVE  IsServer(new[i]) /\ new[i].id = old[i].id /\ old[i].id \in 1..(first - 1)
    BY <1>1 DEF IsVault, SameBut
  <1>2. \A i \in DOMAIN new : new[i].id \in 1..(next - 1)
    BY <1>1
  <1> QED
    BY <1>1, <1>2 DEF IsVault, SameBut

LEMMA LongerVault ==
    ASSUME NEW old, NEW new, NEW first \in Nat \ {0}, NEW next \in Nat, IsVault(old, first),
           Extended(old, new, first, next)
    PROVE  IsVault(new, next)
  <1>1. /\ Len(old) \in Nat /\ DOMAIN old = 1..Len(old)
        /\ Len(new) \in Nat /\ DOMAIN new = 1..Len(new)
    BY Lists DEF IsVault, Extended
  <1>2. ASSUME NEW i \in DOMAIN new
        PROVE  /\ IsServer(new[i]) /\ new[i].id \in 1..(next - 1)
               /\ \/ i \in DOMAIN old /\ new[i] = old[i] /\ old[i].id < first
                  \/ i \notin DOMAIN old /\ new[i].id = first + (i - Len(old) - 1) /\ new[i].id >= first
    <2>1. CASE i \in DOMAIN old
      BY <1>1, <2>1 DEF IsVault, Extended
    <2>2. CASE i \notin DOMAIN old
      BY <1>1, <2>2 DEF IsVault, Extended
    <2> QED
      BY <2>1, <2>2
  <1>3. ASSUME NEW i \in DOMAIN new, NEW j \in DOMAIN new, new[i].id = new[j].id PROVE i = j
    <2>1. new[i].id \in Nat /\ new[j].id \in Nat /\ i \in Nat /\ j \in Nat
      BY <1>1, <1>2
    <2>2. \A x, y \in DOMAIN old : old[x].id = old[y].id => x = y
      BY DEF IsVault
    <2> QED
      BY <1>1, <1>2, <1>3, <2>1, <2>2
  <1> QED
    BY <1>2, <1>3 DEF IsVault, Extended

LEMMA ShorterVault ==
    ASSUME NEW old, NEW new, NEW sid, NEW first \in Nat, IsVault(old, first), Shorter(old, new, sid)
    PROVE  IsVault(new, first)
  <1>1. PICK f : /\ IsList(new) /\ f \in [DOMAIN new -> {i \in DOMAIN old : old[i].id # sid}]
                 /\ \A i, j \in DOMAIN new : f[i] = f[j] => i = j
                 /\ \A k \in DOMAIN new : \/ new[k] = old[f[k]]
                                          \/ new[k] = [old[f[k]] EXCEPT !.jump = 0]
    BY DEF Shorter
  <1>2. ASSUME NEW k \in DOMAIN new
        PROVE  IsServer(new[k]) /\ new[k].id = old[f[k]].id /\ new[k].id \in 1..(first - 1)
    <2>1. f[k] \in DOMAIN old /\ IsServer(old[f[k]]) /\ old[f[k]].id \in 1..(first - 1)
      BY <1>1 DEF IsVault
    <2>2. CASE new[k] = [old[f[k]] EXCEPT !.jump = 0]
      <3>1. /\ DOMAIN new[k] = DOMAIN old[f[k]] /\ new[k].id = old[f[k]].id
            /\ new[k].forwards = old[f[k]].forwards /\ new[k].scripts = old[f[k]].scripts
            /\ new[k] = [x \in DOMAIN new[k] |-> new[k][x]]
        BY <2>1, <2>2, ServerFields
      <3> QED
        BY <2>1, <3>1, ServerFields, IsServerIf DEF IsServer
    <2> QED
      BY <1>1, <2>1, <2>2
  <1>3. ASSUME NEW i \in DOMAIN new, NEW j \in DOMAIN new, new[i].id = new[j].id PROVE i = j
    BY <1>1, <1>2, <1>3 DEF IsVault
  <1> QED
    BY <1>1, <1>2, <1>3 DEF IsVault

LEMMA UpdatedVault ==
    ASSUME NEW old, NEW first, IsVault(old, first), NEW sid, NEW g, NEW new,
           new = [i \in DOMAIN old |-> IF old[i].id = sid THEN g[i] ELSE old[i]],
           \A i \in DOMAIN old : old[i].id = sid => IsServer(g[i]) /\ g[i].id = sid /\ g[i].pin = old[i].pin
    PROVE  SameBut(old, new, sid)
  <1>1. DOMAIN new = DOMAIN old
    OBVIOUS
  <1>2. new = [i \in DOMAIN old |-> new[i]]
    OBVIOUS
  <1>3. IsList(new)
    BY <1>1, <1>2, MappedList DEF IsVault
  <1>4. ASSUME NEW i \in DOMAIN old
        PROVE  \/ new[i] = old[i]
               \/ old[i].id = sid /\ new[i].id = sid /\ IsServer(new[i]) /\ new[i].pin = old[i].pin
    OBVIOUS
  <1> QED
    BY <1>1, <1>3, <1>4 DEF SameBut

LEMMA SameVault ==
    ASSUME NEW old, NEW first, IsVault(old, first), NEW sid PROVE SameBut(old, old, sid)
  BY DEF IsVault, SameBut

\* One more at the end.
LEMMA AppendedVault ==
    ASSUME NEW old, NEW first \in Nat, IsVault(old, first), NEW s, IsServer(s), s.id = first
    PROVE  Extended(old, Append(old, s), first, first + 1)
  <1> DEFINE new == Append(old, s)
  <1>1. /\ IsList(new) /\ Len(new) = Len(old) + 1 /\ new[Len(old) + 1] = s
        /\ \A i \in DOMAIN old : new[i] = old[i]
    <2>1. IsList(old)
      BY DEF IsVault
    <2> QED
      BY <2>1, AppendedList
  <1>2. Len(old) \in Nat
    BY Lists DEF IsVault
  <1>3. ASSUME NEW i \in (Len(old) + 1)..Len(new)
        PROVE  IsServer(new[i]) /\ new[i].id = first + (i - Len(old) - 1)
    <2>1. i = Len(old) + 1
      BY <1>1, <1>2
    <2>2. first + (i - Len(old) - 1) = first
      BY <1>2, <2>1
    <2> QED
      BY <1>1, <2>1, <2>2
  <1> HIDE DEF new
  <1>4. Len(new) >= Len(old) /\ first + 1 >= first + (Len(new) - Len(old))
    BY <1>1, <1>2
  <1>5. Extended(old, new, first, first + 1)
    BY <1>1, <1>3, <1>4 DEF Extended
  <1> QED
    BY <1>5 DEF new

LEMMA JoinedVault ==
    ASSUME NEW old, NEW first \in Nat, IsVault(old, first), NEW more, IsList(more),
           \A i \in DOMAIN more : IsServer(more[i]) /\ more[i].id = first + i - 1
    PROVE  Extended(old, old \o more, first, first + Len(more))
  <1> DEFINE new == old \o more
  <1>1. /\ IsList(new) /\ Len(new) = Len(old) + Len(more)
        /\ \A i \in DOMAIN old : new[i] = old[i]
        /\ \A i \in DOMAIN more : new[Len(old) + i] = more[i]
    <2>1. IsList(old)
      BY DEF IsVault
    <2>2. IsList(more)
      OBVIOUS
    <2>3. \A m : IsList(m) =>
             /\ IsList(old \o m) /\ Len(old \o m) = Len(old) + Len(m)
             /\ \A i \in DOMAIN old : (old \o m)[i] = old[i]
             /\ \A i \in DOMAIN m : (old \o m)[Len(old) + i] = m[i]
      BY <2>1, JoinedList
    <2> QED
      BY <2>2, <2>3
  <1>2. Len(old) \in Nat /\ Len(more) \in Nat /\ DOMAIN more = 1..Len(more)
    BY Lists DEF IsVault
  <1>3. ASSUME NEW i \in (Len(old) + 1)..Len(new)
        PROVE  IsServer(new[i]) /\ new[i].id = first + (i - Len(old) - 1)
    <2>1. i - Len(old) \in DOMAIN more
      BY <1>1, <1>2
    <2>2. new[Len(old) + (i - Len(old))] = more[i - Len(old)]
      BY <1>1, <2>1
    <2>3. Len(old) + (i - Len(old)) = i /\ first + (i - Len(old)) - 1 = first + (i - Len(old) - 1)
      BY <1>2
    <2> QED
      BY <2>1, <2>2, <2>3
  <1> HIDE DEF new
  <1>4. Len(new) >= Len(old) /\ first + Len(more) >= first + (Len(new) - Len(old))
    BY <1>1, <1>2
  <1>5. Extended(old, new, first, first + Len(more))
    BY <1>1, <1>3, <1>4 DEF Extended
  <1> QED
    BY <1>5 DEF new

LEMMA DeletedVault ==
    ASSUME NEW old, NEW first, IsVault(old, first), NEW sid
    PROVE  Shorter(old, ClearJumps(Without(old, sid), sid), sid)
  <1> DEFINE places == {i \in DOMAIN old : old[i].id # sid}
             rest == EntriesAt(old, places)
             new == ClearJumps(rest, sid)
  <1>1. PICK f : /\ IsList(rest) /\ f \in [DOMAIN rest -> places]
                 /\ \A k \in DOMAIN rest : rest[k] = old[f[k]]
                 /\ \A i, j \in DOMAIN rest : f[i] = f[j] => i = j
                 /\ \A i \in places : \E k \in DOMAIN rest : f[k] = i
    <2>1. IsList(old) /\ places \subseteq DOMAIN old
      BY DEF IsVault
    <2> HIDE DEF places
    <2> QED
      BY <2>1, ChosenEntries
  <1> HIDE DEF rest
  <1>2. new = [i \in DOMAIN rest |-> IF rest[i].jump = sid THEN [rest[i] EXCEPT !.jump = 0] ELSE rest[i]]
    BY DEF ClearJumps
  <1>3. DOMAIN new = DOMAIN rest /\ new = [i \in DOMAIN rest |-> new[i]]
    BY <1>2
  <1>4. IsList(new)
    BY <1>1, <1>3, MappedList
  <1>5. \A k \in DOMAIN new : \/ old[f[k]].jump # sid /\ new[k] = old[f[k]]
                              \/ old[f[k]].jump = sid /\ new[k] = [old[f[k]] EXCEPT !.jump = 0]
    BY <1>1, <1>2
  <1> HIDE DEF new
  <1>6. Shorter(old, new, sid)
    BY <1>1, <1>3, <1>4, <1>5 DEF Shorter
  <1> QED
    BY <1>6 DEF new, rest, Without

DeskEdit ==
    /\ nextId' \in Nat /\ nextId' >= nextId
    /\ \/ /\ disk' \in {mem', disk} /\ app' = app
          /\ \/ SameBut(Servers, mem'.servers, screen.sid)
             \/ /\ Extended(Servers, mem'.servers, nextId, nextId')
                /\ screen.at = "import" => mem'.servers = Servers \o Imported
             \/ screen.at = "confirm" /\ Shorter(Servers, mem'.servers, screen.sid)
       \/ Forgotten \/ (ReadBack /\ app # "open")

LEMMA VaultKept ==
    ASSUME VaultInv, DeskEdit PROVE VaultInv'
  <1>1. nextId \in Nat \ {0} /\ nextId' \in Nat \ {0} /\ nextId' >= nextId
    BY DEF VaultInv, DeskEdit
  <1>2. IsVault(disk.servers, nextId')
    BY <1>1, SameVault, SameButVault DEF VaultInv
  <1>3. IsVault(NoConfig.servers, nextId')
    <2>1. NoConfig.servers = <<>>
      BY DEF NoConfig
    <2> QED
      BY <2>1, NoList DEF IsVault
  <1>4. CASE Forgotten \/ ReadBack
    BY <1>1, <1>2, <1>3, <1>4 DEF VaultInv, Forgotten, ReadBack
  <1>5. ASSUME disk' \in {mem', disk}, IsVault(mem'.servers, nextId') PROVE VaultInv'
    BY <1>1, <1>2, <1>5 DEF VaultInv
  <1>6. SameBut(Servers, mem'.servers, screen.sid) => IsVault(mem'.servers, nextId')
    BY <1>1, SameButVault DEF VaultInv, Servers
  <1>7. Extended(Servers, mem'.servers, nextId, nextId') => IsVault(mem'.servers, nextId')
    BY <1>1, LongerVault DEF VaultInv, Servers
  <1>8. Shorter(Servers, mem'.servers, screen.sid) => IsVault(mem'.servers, nextId')
    <2>1. ASSUME Shorter(Servers, mem'.servers, screen.sid) PROVE IsVault(mem'.servers, nextId)
      BY <1>1, <2>1, ShorterVault DEF VaultInv, Servers
    <2> QED
      BY <1>1, <2>1, SameVault, SameButVault
  <1> QED
    BY <1>4, <1>5, <1>6, <1>7, <1>8 DEF DeskEdit

-----------------------------------------------------------------------------
\* Which edit each key makes of the servers.

LEMMA KeptServers ==
    ASSUME Shape(mem), NEW servers, NEW ok, Keep(WithServers(servers), ok)
    PROVE  mem'.servers = servers /\ disk' \in {mem', disk}
  BY DEF Shape, Keep, Save, WithServers

\* A step that leaves the servers alone.
Unedited == mem'.servers = mem.servers /\ disk' \in {mem', disk} /\ app' = app /\ nextId' = nextId

LEMMA UneditedIs == ASSUME VaultInv, Unedited PROVE DeskEdit
  <1>1. SameBut(Servers, mem'.servers, screen.sid)
    BY SameVault DEF VaultInv, Unedited, Servers
  <1> QED
    BY <1>1 DEF DeskEdit, Unedited, VaultInv

LEMMA CalmIs == ASSUME VaultInv, Calm PROVE DeskEdit
  BY UneditedIs DEF Calm, Unedited

\* An edit of the server the screen was opened on.
LEMMA OneServer ==
    ASSUME VaultInv, Shape(mem), NEW g, NEW ok,
           Keep(WithServers([i \in DOMAIN Servers |->
                               IF Servers[i].id = screen.sid THEN g[i] ELSE Servers[i]]), ok),
           \A i \in DOMAIN Servers : Servers[i].id = screen.sid =>
               IsServer(g[i]) /\ g[i].id = screen.sid /\ g[i].pin = Servers[i].pin,
           app' = app, nextId' \in {nextId, nextId + 1}
    PROVE  DeskEdit
  <1> DEFINE new == [i \in DOMAIN Servers |-> IF Servers[i].id = screen.sid THEN g[i] ELSE Servers[i]]
  <1>1. mem'.servers = new /\ disk' \in {mem', disk}
    BY KeptServers
  <1>2. SameBut(Servers, new, screen.sid)
    BY UpdatedVault DEF VaultInv, Servers
  <1> HIDE DEF new
  <1> QED
    BY <1>1, <1>2 DEF DeskEdit, VaultInv

LEMMA MenuKeyEdits == ASSUME VaultInv, Shape(mem), MenuKey PROVE DeskEdit
  <1>1. ASSUME MoveSelection \/ StartTyping \/ TypeFilter \/ EscapeFilter PROVE Calm
    BY <1>1 DEF MoveSelection, StartTyping, TypeFilter, EscapeFilter, InList, Quiet
  <1>2. ASSUME CycleServerSort PROVE Unedited
    BY <1>2 DEF CycleServerSort, Keep, Save, Unedited, Shape
  <1>3. ASSUME GoAdd \/ GoEdit \/ GoDelete \/ GoScripts \/ GoForwards \/ GoSettings PROVE Calm
    BY <1>3 DEF GoAdd, GoEdit, GoDelete, GoScripts, GoForwards, GoSettings, Open, Quiet
  <1>4. ASSUME GoFiles \/ GoSshImport PROVE Calm
    BY <1>4 DEF GoFiles, GoSshImport, Open, Quiet
  <1>5. ASSUME Lock \/ Quit PROVE Forgotten /\ nextId' = nextId
    BY <1>5 DEF Lock, Quit, Forget, Forgotten
  <1> QED
    BY <1>1, <1>2, <1>3, <1>4, <1>5, UneditedIs, CalmIs DEF MenuKey, DeskEdit, VaultInv

LEMMA FilledFields ==
    ASSUME NEW s, NEW data, IsServer(s)
    PROVE  /\ IsServer(Filled(s, data)) /\ Filled(s, data).id = s.id
           /\ Filled(s, data).pin = s.pin
  <1>1. /\ {"name", "host", "port", "user", "tag", "jump", "id", "pin", "scripts", "forwards"} \subseteq DOMAIN s
        /\ s = [f \in DOMAIN s |-> s[f]] /\ IsList(s.scripts) /\ IsList(s.forwards)
    BY ServerFields DEF IsServer
  <1> DEFINE f == Filled(s, data)
  <1>2. /\ DOMAIN f = DOMAIN s /\ f.id = s.id /\ f.pin = s.pin
        /\ f.scripts = s.scripts /\ f.forwards = s.forwards
    BY <1>1 DEF Filled
  <1>3. f = [x \in DOMAIN f |-> f[x]]
    BY <1>1 DEF Filled
  <1> HIDE DEF f
  <1>4. IsServer(f)
    BY <1>1, <1>2, <1>3, ServerFields, IsServerIf
  <1> QED
    BY <1>2, <1>4 DEF f

LEMMA ServerKeyEdits == ASSUME VaultInv, Shape(mem), ServerKey PROVE DeskEdit
  <1>0. nextId \in Nat \ {0} /\ IsVault(Servers, nextId)
    BY DEF VaultInv, Servers
  <1>1. ASSUME Back \/ CycleJumpHost \/ RefuseForm PROVE Calm
    BY <1>1 DEF Back, CycleJumpHost, RefuseForm, Quiet
  <1>2. ASSUME FilesBack PROVE DeskEdit
    <2> DEFINE g == [i \in DOMAIN Servers |-> [Servers[i] EXCEPT !.dirs = TRUE]]
    <2>1. \E ok : Keep(WithServers([i \in DOMAIN Servers |->
                     IF Servers[i].id = screen.sid THEN [Servers[i] EXCEPT !.dirs = TRUE] ELSE Servers[i]]), ok)
      BY <1>2 DEF FilesBack, Edited, Update
    <2>2. \A i \in DOMAIN Servers : Servers[i].id = screen.sid =>
              IsServer(g[i]) /\ g[i].id = screen.sid /\ g[i].pin = Servers[i].pin
      <3> SUFFICES ASSUME NEW i \in DOMAIN Servers, Servers[i].id = screen.sid
                   PROVE  IsServer(g[i]) /\ g[i].id = screen.sid /\ g[i].pin = Servers[i].pin
        OBVIOUS
      <3>1. IsServer(Servers[i])
        BY <1>0 DEF IsVault
      <3> QED
        BY <3>1, ServerFields, IsServerIf DEF IsServer
    <2>3. [i \in DOMAIN Servers |->
              IF Servers[i].id = screen.sid THEN [Servers[i] EXCEPT !.dirs = TRUE] ELSE Servers[i]]
          = [i \in DOMAIN Servers |-> IF Servers[i].id = screen.sid THEN g[i] ELSE Servers[i]]
      OBVIOUS
    <2> HIDE DEF g
    <2>4. app' = app /\ nextId' = nextId
      BY <1>2 DEF FilesBack
    <2> QED
      BY <2>1, <2>2, <2>3, <2>4, OneServer
  <1>3. ASSUME SubmitForm PROVE DeskEdit
    <2>1. PICK data \in Drafts, ok \in BOOLEAN :
             Keep(WithServers(IF screen.sid = 0
                    THEN Append(Servers, Filled(NewServer(nextId, data.name, data.host, data.port,
                                                          data.user), data))
                    ELSE [i \in DOMAIN Servers |->
                            IF Servers[i].id = screen.sid THEN Filled(Servers[i], data) ELSE Servers[i]]), ok)
      BY <1>3 DEF SubmitForm, Update
    <2>2. app' = app /\ nextId' = (IF screen.sid = 0 THEN nextId + 1 ELSE nextId) /\ screen.at = "form"
      BY <1>3 DEF SubmitForm, At
    <2>3. ASSUME NEW s, IsServer(s)
          PROVE  IsServer(Filled(s, data)) /\ Filled(s, data).id = s.id /\ Filled(s, data).pin = s.pin
      BY <2>3, FilledFields
    <2>4. CASE screen.sid = 0
      <3> DEFINE s == NewServer(nextId, data.name, data.host, data.port, data.user)
      <3>1. IsServer(s) /\ s.id = nextId
        BY NoList DEF NewServer, IsServer
      <3> HIDE DEF s
      <3>2. IsServer(Filled(s, data)) /\ Filled(s, data).id = nextId
        BY <2>3, <3>1
      <3>3. mem'.servers = Append(Servers, Filled(s, data)) /\ disk' \in {mem', disk}
        BY <2>1, <2>4, KeptServers DEF s
      <3>4. Extended(Servers, mem'.servers, nextId, nextId')
        BY <1>0, <2>2, <2>4, <3>2, <3>3, AppendedVault
      <3> QED
        BY <1>0, <2>2, <2>4, <3>3, <3>4 DEF DeskEdit
    <2>5. CASE screen.sid # 0
      <3> DEFINE g == [i \in DOMAIN Servers |-> Filled(Servers[i], data)]
      <3>1. Keep(WithServers([i \in DOMAIN Servers |->
                      IF Servers[i].id = screen.sid THEN g[i] ELSE Servers[i]]), ok)
        <4>1. [i \in DOMAIN Servers |->
                  IF Servers[i].id = screen.sid THEN Filled(Servers[i], data) ELSE Servers[i]]
              = [i \in DOMAIN Servers |-> IF Servers[i].id = screen.sid THEN g[i] ELSE Servers[i]]
          OBVIOUS
        <4> HIDE DEF g
        <4> QED
          BY <2>1, <2>5, <4>1
      <3>2. \A i \in DOMAIN Servers : Servers[i].id = screen.sid =>
                IsServer(g[i]) /\ g[i].id = screen.sid /\ g[i].pin = Servers[i].pin
        BY <1>0, <2>3 DEF IsVault
      <3> HIDE DEF g
      <3> QED
        BY <2>2, <2>5, <3>1, <3>2, OneServer
    <2> QED
      BY <2>4, <2>5
  <1>4. ASSUME ConfirmDelete PROVE DeskEdit
    <2>1. PICK ok : Keep(WithServers(ClearJumps(Without(Servers, screen.sid), screen.sid)), ok)
      BY <1>4 DEF ConfirmDelete
    <2>2. /\ mem'.servers = ClearJumps(Without(Servers, screen.sid), screen.sid)
          /\ disk' \in {mem', disk}
      BY <2>1, KeptServers
    <2>3. Shorter(Servers, mem'.servers, screen.sid)
      BY <1>0, <2>2, DeletedVault
    <2> QED
      BY <1>0, <1>4, <2>2, <2>3 DEF ConfirmDelete, At, DeskEdit
  <1> QED
    BY <1>1, <1>2, <1>3, <1>4, CalmIs DEF ServerKey

LEMMA OneFieldIs ==
    ASSUME NEW s, IsServer(s), NEW v
    PROVE  /\ [s EXCEPT !.scripts = v].id = s.id /\ [s EXCEPT !.scripts = v].pin = s.pin
           /\ [s EXCEPT !.forwards = v].id = s.id /\ [s EXCEPT !.forwards = v].pin = s.pin
           /\ IsList(v) => IsServer([s EXCEPT !.scripts = v]) /\ IsServer([s EXCEPT !.forwards = v])
  <1>1. /\ {"scripts", "forwards", "id", "pin"} \subseteq DOMAIN s
        /\ s = [f \in DOMAIN s |-> s[f]] /\ IsList(s.scripts) /\ IsList(s.forwards)
    BY ServerFields DEF IsServer
  <1> DEFINE a == [s EXCEPT !.scripts = v]
             b == [s EXCEPT !.forwards = v]
  <1>2. DOMAIN a = DOMAIN s /\ a.id = s.id /\ a.pin = s.pin /\ a.scripts = v /\ a.forwards = s.forwards
    BY <1>1
  <1>3. DOMAIN b = DOMAIN s /\ b.id = s.id /\ b.pin = s.pin /\ b.scripts = s.scripts /\ b.forwards = v
    BY <1>1
  <1>4. a = [x \in DOMAIN a |-> a[x]] /\ b = [x \in DOMAIN b |-> b[x]]
    BY <1>1
  <1> HIDE DEF a, b
  <1>5. IsList(v) => IsServer(a)
    BY <1>1, <1>2, <1>4, ServerFields, IsServerIf
  <1>6. IsList(v) => IsServer(b)
    BY <1>1, <1>3, <1>4, ServerFields, IsServerIf
  <1> QED
    BY <1>2, <1>3, <1>5, <1>6 DEF a, b

\* Other scripts, or other forwards, for the server the screen was opened on.
LEMMA OneScripts ==
    ASSUME VaultInv, Shape(mem), NEW h, NEW ok, \A i \in DOMAIN Servers : IsList(h[i]),
           Keep(WithServers([i \in DOMAIN Servers |-> IF Servers[i].id = screen.sid
                             THEN [Servers[i] EXCEPT !.scripts = h[i]] ELSE Servers[i]]), ok),
           app' = app, nextId' \in {nextId, nextId + 1}
    PROVE  DeskEdit
  <1> DEFINE g == [i \in DOMAIN Servers |-> [Servers[i] EXCEPT !.scripts = h[i]]]
  <1>1. [i \in DOMAIN Servers |-> IF Servers[i].id = screen.sid
                             THEN [Servers[i] EXCEPT !.scripts = h[i]] ELSE Servers[i]]
        = [i \in DOMAIN Servers |-> IF Servers[i].id = screen.sid THEN g[i] ELSE Servers[i]]
    OBVIOUS
  <1>2. \A i \in DOMAIN Servers : Servers[i].id = screen.sid =>
            IsServer(g[i]) /\ g[i].id = screen.sid /\ g[i].pin = Servers[i].pin
    <2> SUFFICES ASSUME NEW i \in DOMAIN Servers, Servers[i].id = screen.sid
                 PROVE  IsServer(g[i]) /\ g[i].id = screen.sid /\ g[i].pin = Servers[i].pin
      OBVIOUS
    <2>1. IsServer(Servers[i]) /\ IsList(h[i])
      BY DEF VaultInv, IsVault, Servers
    <2>2. g[i] = [Servers[i] EXCEPT !.scripts = h[i]]
      OBVIOUS
    <2> QED
      BY <2>1, <2>2, OneFieldIs
  <1> HIDE DEF g
  <1> QED
    BY <1>1, <1>2, OneServer

LEMMA OneForwards ==
    ASSUME VaultInv, Shape(mem), NEW h, NEW ok, \A i \in DOMAIN Servers : IsList(h[i]),
           Keep(WithServers([i \in DOMAIN Servers |-> IF Servers[i].id = screen.sid
                             THEN [Servers[i] EXCEPT !.forwards = h[i]] ELSE Servers[i]]), ok),
           app' = app, nextId' \in {nextId, nextId + 1}
    PROVE  DeskEdit
  <1> DEFINE g == [i \in DOMAIN Servers |-> [Servers[i] EXCEPT !.forwards = h[i]]]
  <1>1. [i \in DOMAIN Servers |-> IF Servers[i].id = screen.sid
                             THEN [Servers[i] EXCEPT !.forwards = h[i]] ELSE Servers[i]]
        = [i \in DOMAIN Servers |-> IF Servers[i].id = screen.sid THEN g[i] ELSE Servers[i]]
    OBVIOUS
  <1>2. \A i \in DOMAIN Servers : Servers[i].id = screen.sid =>
            IsServer(g[i]) /\ g[i].id = screen.sid /\ g[i].pin = Servers[i].pin
    <2> SUFFICES ASSUME NEW i \in DOMAIN Servers, Servers[i].id = screen.sid
                 PROVE  IsServer(g[i]) /\ g[i].id = screen.sid /\ g[i].pin = Servers[i].pin
      OBVIOUS
    <2>1. IsServer(Servers[i]) /\ IsList(h[i])
      BY DEF VaultInv, IsVault, Servers
    <2>2. g[i] = [Servers[i] EXCEPT !.forwards = h[i]]
      OBVIOUS
    <2> QED
      BY <2>1, <2>2, OneFieldIs
  <1> HIDE DEF g
  <1> QED
    BY <1>1, <1>2, OneServer

\* What adding an entry and leaving one out make of a list is a list.
LEMMA RuleLists ==
    ASSUME NEW list, IsList(list), NEW x, NEW id
    PROVE  IsList(Append(list, x)) /\ IsList(Without(list, id))
  <1>1. IsList(Without(list, id))
    <2> DEFINE places == {i \in DOMAIN list : list[i].id # id}
    <2>1. places \subseteq DOMAIN list
      OBVIOUS
    <2> HIDE DEF places
    <2>2. IsList(EntriesAt(list, places))
      BY <2>1, ChosenEntries
    <2> QED
      BY <2>2 DEF Without, places
  <1>2. IsList(Append(list, x))
    BY AppendedList
  <1> QED
    BY <1>1, <1>2

LEMMA ServerRules ==
    ASSUME VaultInv
    PROVE  \A i \in DOMAIN Servers : IsList(Servers[i].scripts) /\ IsList(Servers[i].forwards)
  BY DEF VaultInv, IsVault, IsServer, Servers

LEMMA ScriptKeyEdits == ASSUME VaultInv, Shape(mem), ScriptKey PROVE DeskEdit
  <1>1. MoveScript \/ GoScriptAdd \/ GoScriptEdit \/ GoScriptDelete \/ GoScriptTargets => Calm
    BY DEF MoveScript, MoveRow, GoScriptAdd, GoScriptEdit, GoScriptDelete, GoScriptTargets, OnScript, Quiet
  <1>2. BackToScripts \/ MoveTarget \/ ToggleTarget \/ ToggleAllTargets => Calm
    BY DEF BackToScripts, MoveTarget, MoveRow, ToggleTarget, ToggleAllTargets, Quiet
  <1>3. ASSUME SubmitScriptForm PROVE DeskEdit
    <2>1. \E data, ok, h :
             /\ \A i \in DOMAIN Servers : IsList(h[i])
             /\ Keep(WithServers([i \in DOMAIN Servers |-> IF Servers[i].id = screen.sid
                               THEN [Servers[i] EXCEPT !.scripts = h[i]] ELSE Servers[i]]), ok)
      <3>1. PICK data, ok :
               Keep(WithServers([i \in DOMAIN Servers |-> IF Servers[i].id = screen.sid
                 THEN [Servers[i] EXCEPT !.scripts =
                         IF screen.item = 0 THEN Append(Servers[i].scripts, NewScript(nextId, data))
                         ELSE Update(Servers[i].scripts, screen.item, LAMBDA s : NewScript(s.id, data))]
                 ELSE Servers[i]]), ok)
        BY <1>3 DEF SubmitScriptForm, InScripts, Edited, Update
      <3> DEFINE h == [i \in DOMAIN Servers |->
                         IF screen.item = 0 THEN Append(Servers[i].scripts, NewScript(nextId, data))
                         ELSE Update(Servers[i].scripts, screen.item, LAMBDA s : NewScript(s.id, data))]
      <3>2. Keep(WithServers([i \in DOMAIN Servers |-> IF Servers[i].id = screen.sid
                               THEN [Servers[i] EXCEPT !.scripts = h[i]] ELSE Servers[i]]), ok)
        <4>1. [i \in DOMAIN Servers |-> IF Servers[i].id = screen.sid
                 THEN [Servers[i] EXCEPT !.scripts =
                         IF screen.item = 0 THEN Append(Servers[i].scripts, NewScript(nextId, data))
                         ELSE Update(Servers[i].scripts, screen.item, LAMBDA s : NewScript(s.id, data))]
                 ELSE Servers[i]]
              = [i \in DOMAIN Servers |-> IF Servers[i].id = screen.sid
                               THEN [Servers[i] EXCEPT !.scripts = h[i]] ELSE Servers[i]]
          BY DEF Update
        <4> HIDE DEF h
        <4> QED
          BY <3>1, <4>1
      <3>3. \A i \in DOMAIN Servers : IsList(h[i])
        <4> TAKE i \in DOMAIN Servers
        <4>1. PICK list : list = Servers[i].scripts
          OBVIOUS
        <4> DEFINE new == [k \in DOMAIN list |-> IF list[k].id = screen.item THEN NewScript(list[k].id, data)
                                                ELSE list[k]]
        <4>2. h[i] = IF screen.item = 0 THEN Append(list, NewScript(nextId, data)) ELSE new
          BY <4>1 DEF Update
        <4>3. DOMAIN new = DOMAIN list /\ new = [k \in DOMAIN list |-> new[k]]
          OBVIOUS
        <4> HIDE DEF h, new
        <4>4. IsList(list)
          BY <4>1, ServerRules
        <4>5. IsList(new)
          BY <4>3, <4>4, MappedList
        <4> QED
          BY <4>2, <4>4, <4>5, RuleLists
      <3> HIDE DEF h
      <3> QED
        BY <3>2, <3>3
    <2>2. app' = app /\ nextId' \in {nextId, nextId + 1}
      BY <1>3 DEF SubmitScriptForm
    <2> QED
      BY <2>1, <2>2, OneScripts
  <1>4. ASSUME ConfirmDeleteScript PROVE DeskEdit
    <2>1. \E ok, h :
             /\ \A i \in DOMAIN Servers : IsList(h[i])
             /\ Keep(WithServers([i \in DOMAIN Servers |-> IF Servers[i].id = screen.sid
                               THEN [Servers[i] EXCEPT !.scripts = h[i]] ELSE Servers[i]]), ok)
      <3>1. PICK ok :
               Keep(WithServers([i \in DOMAIN Servers |-> IF Servers[i].id = screen.sid
                 THEN [Servers[i] EXCEPT !.scripts = Without(Servers[i].scripts, screen.item)]
                 ELSE Servers[i]]), ok)
        BY <1>4 DEF ConfirmDeleteScript, InScripts, Edited, Update
      <3> DEFINE h == [i \in DOMAIN Servers |-> Without(Servers[i].scripts, screen.item)]
      <3>2. Keep(WithServers([i \in DOMAIN Servers |-> IF Servers[i].id = screen.sid
                               THEN [Servers[i] EXCEPT !.scripts = h[i]] ELSE Servers[i]]), ok)
        <4>1. [i \in DOMAIN Servers |-> IF Servers[i].id = screen.sid
                 THEN [Servers[i] EXCEPT !.scripts = Without(Servers[i].scripts, screen.item)]
                 ELSE Servers[i]]
              = [i \in DOMAIN Servers |-> IF Servers[i].id = screen.sid
                               THEN [Servers[i] EXCEPT !.scripts = h[i]] ELSE Servers[i]]
          OBVIOUS
        <4> HIDE DEF h
        <4> QED
          BY <3>1, <4>1
      <3>3. \A i \in DOMAIN Servers : IsList(h[i])
        <4> TAKE i \in DOMAIN Servers
        <4>1. h[i] = Without(Servers[i].scripts, screen.item)
          OBVIOUS
        <4> HIDE DEF h
        <4> QED
          BY <4>1, RuleLists, ServerRules
      <3> HIDE DEF h
      <3> QED
        BY <3>2, <3>3
    <2>2. app' = app /\ nextId' \in {nextId, nextId + 1}
      BY <1>4 DEF ConfirmDeleteScript
    <2> QED
      BY <2>1, <2>2, OneScripts
  <1> QED
    BY <1>1, <1>2, <1>3, <1>4, CalmIs DEF ScriptKey

LEMMA TogglesRule ==
    ASSUME VaultInv, Shape(mem), ToggleForward PROVE DeskEdit
  <1>1. PICK id, ok :
           Keep(WithServers([i \in DOMAIN Servers |-> IF Servers[i].id = screen.sid
             THEN [Servers[i] EXCEPT !.forwards =
                     [k \in DOMAIN Servers[i].forwards |->
                        IF Servers[i].forwards[k].id = id
                        THEN [Servers[i].forwards[k] EXCEPT !.enabled = ~Servers[i].forwards[k].enabled]
                        ELSE Servers[i].forwards[k]]]
             ELSE Servers[i]]), ok)
    BY DEF ToggleForward, MutateForwards, InRules, Edited, Update
  <1> DEFINE g == [i \in DOMAIN Servers |-> [k \in DOMAIN Servers[i].forwards |->
                     [Servers[i].forwards[k] EXCEPT !.enabled = ~Servers[i].forwards[k].enabled]]]
             h == [i \in DOMAIN Servers |-> [k \in DOMAIN Servers[i].forwards |->
                        IF Servers[i].forwards[k].id = id THEN g[i][k] ELSE Servers[i].forwards[k]]]
  <1>2. [i \in DOMAIN Servers |-> IF Servers[i].id = screen.sid
             THEN [Servers[i] EXCEPT !.forwards =
                     [k \in DOMAIN Servers[i].forwards |->
                        IF Servers[i].forwards[k].id = id
                        THEN [Servers[i].forwards[k] EXCEPT !.enabled = ~Servers[i].forwards[k].enabled]
                        ELSE Servers[i].forwards[k]]]
             ELSE Servers[i]]
        = [i \in DOMAIN Servers |-> IF Servers[i].id = screen.sid
                               THEN [Servers[i] EXCEPT !.forwards = h[i]] ELSE Servers[i]]
    OBVIOUS
  <1> HIDE DEF g
  <1>3. \A i \in DOMAIN Servers : IsList(h[i])
    <2> TAKE i \in DOMAIN Servers
    <2>1. h[i] = [k \in DOMAIN Servers[i].forwards |->
                        IF Servers[i].forwards[k].id = id THEN g[i][k] ELSE Servers[i].forwards[k]]
      OBVIOUS
    <2>2. PICK to, all : to = h[i] /\ all = Servers[i].forwards
      OBVIOUS
    <2> HIDE DEF h
    <2>3. IsList(all)
      BY <2>2, ServerRules
    <2>4. to = [k \in DOMAIN all |-> to[k]]
      BY <2>1, <2>2
    <2> QED
      BY <2>2, <2>3, <2>4, MappedList
  <1> HIDE DEF h
  <1>4. app' = app /\ nextId' = nextId
    BY DEF ToggleForward, MutateForwards
  <1> QED
    BY <1>1, <1>2, <1>3, <1>4, OneForwards

LEMMA SubmitsRule ==
    ASSUME VaultInv, Shape(mem), SubmitForwardForm PROVE DeskEdit
  <1>1. app' = app /\ nextId' \in {nextId, nextId + 1}
    BY DEF SubmitForwardForm, MutateForwards
  <1>2. CASE screen.item = 0
    <2>1. PICK kind, ok :
           Keep(WithServers([i \in DOMAIN Servers |-> IF Servers[i].id = screen.sid
             THEN [Servers[i] EXCEPT !.forwards = Append(Servers[i].forwards, NewRule(nextId, kind))]
             ELSE Servers[i]]), ok)
      BY <1>2 DEF SubmitForwardForm, MutateForwards, InRules, Edited, Update
    <2> DEFINE h == [i \in DOMAIN Servers |-> Append(Servers[i].forwards, NewRule(nextId, kind))]
    <2>2. [i \in DOMAIN Servers |-> IF Servers[i].id = screen.sid
             THEN [Servers[i] EXCEPT !.forwards = Append(Servers[i].forwards, NewRule(nextId, kind))]
             ELSE Servers[i]]
          = [i \in DOMAIN Servers |-> IF Servers[i].id = screen.sid
                               THEN [Servers[i] EXCEPT !.forwards = h[i]] ELSE Servers[i]]
      OBVIOUS
    <2>3. \A i \in DOMAIN Servers : IsList(h[i])
      <3> TAKE i \in DOMAIN Servers
      <3>1. h[i] = Append(Servers[i].forwards, NewRule(nextId, kind))
        OBVIOUS
      <3> HIDE DEF h
      <3> QED
        BY <3>1, RuleLists, ServerRules
    <2> HIDE DEF h
    <2> QED
      BY <1>1, <2>1, <2>2, <2>3, OneForwards
  <1>3. CASE screen.item # 0
    <2>1. PICK kind, ok :
           Keep(WithServers([i \in DOMAIN Servers |-> IF Servers[i].id = screen.sid
             THEN [Servers[i] EXCEPT !.forwards =
                     [k \in DOMAIN Servers[i].forwards |->
                        IF Servers[i].forwards[k].id = screen.item
                        THEN [Servers[i].forwards[k] EXCEPT !.kind = kind]
                        ELSE Servers[i].forwards[k]]]
             ELSE Servers[i]]), ok)
      BY <1>3 DEF SubmitForwardForm, MutateForwards, InRules, Edited, Update
    <2> DEFINE g == [i \in DOMAIN Servers |-> [k \in DOMAIN Servers[i].forwards |->
                       [Servers[i].forwards[k] EXCEPT !.kind = kind]]]
               h == [i \in DOMAIN Servers |-> [k \in DOMAIN Servers[i].forwards |->
                        IF Servers[i].forwards[k].id = screen.item THEN g[i][k] ELSE Servers[i].forwards[k]]]
    <2>2. [i \in DOMAIN Servers |-> IF Servers[i].id = screen.sid
             THEN [Servers[i] EXCEPT !.forwards =
                     [k \in DOMAIN Servers[i].forwards |->
                        IF Servers[i].forwards[k].id = screen.item
                        THEN [Servers[i].forwards[k] EXCEPT !.kind = kind]
                        ELSE Servers[i].forwards[k]]]
             ELSE Servers[i]]
          = [i \in DOMAIN Servers |-> IF Servers[i].id = screen.sid
                               THEN [Servers[i] EXCEPT !.forwards = h[i]] ELSE Servers[i]]
      OBVIOUS
    <2> HIDE DEF g
    <2>3. \A i \in DOMAIN Servers : IsList(h[i])
      <3> TAKE i \in DOMAIN Servers
      <3>1. h[i] = [k \in DOMAIN Servers[i].forwards |->
                      IF Servers[i].forwards[k].id = screen.item THEN g[i][k] ELSE Servers[i].forwards[k]]
        OBVIOUS
      <3>2. IsList(Servers[i].forwards)
        BY ServerRules
      <3> DEFINE list == Servers[i].forwards
                 gi == g[i]
      <3>3. h[i] = [k \in DOMAIN list |-> IF list[k].id = screen.item THEN gi[k] ELSE list[k]]
        BY <3>1
      <3>4. IsList(list)
        BY <3>2
      <3> HIDE DEF h, list, gi
      <3>5. h[i] = [k \in DOMAIN list |-> h[i][k]]
        BY <3>3
      <3> QED
        BY <3>4, <3>5, MappedList
    <2> HIDE DEF h
    <2> QED
      BY <1>1, <2>1, <2>2, <2>3, OneForwards
  <1> QED
    BY <1>2, <1>3

LEMMA DeletesRule ==
    ASSUME VaultInv, Shape(mem), ConfirmDeleteForward PROVE DeskEdit
  <1>1. PICK ok :
           Keep(WithServers([i \in DOMAIN Servers |-> IF Servers[i].id = screen.sid
             THEN [Servers[i] EXCEPT !.forwards = Without(Servers[i].forwards, screen.item)]
             ELSE Servers[i]]), ok)
    BY DEF ConfirmDeleteForward, MutateForwards, InRules, Edited, Update
  <1> DEFINE h == [i \in DOMAIN Servers |-> Without(Servers[i].forwards, screen.item)]
  <1>2. [i \in DOMAIN Servers |-> IF Servers[i].id = screen.sid
             THEN [Servers[i] EXCEPT !.forwards = Without(Servers[i].forwards, screen.item)]
             ELSE Servers[i]]
        = [i \in DOMAIN Servers |-> IF Servers[i].id = screen.sid
                               THEN [Servers[i] EXCEPT !.forwards = h[i]] ELSE Servers[i]]
    OBVIOUS
  <1>3. \A i \in DOMAIN Servers : IsList(h[i])
    <2> TAKE i \in DOMAIN Servers
    <2>1. h[i] = Without(Servers[i].forwards, screen.item)
      OBVIOUS
    <2> HIDE DEF h
    <2> QED
      BY <2>1, RuleLists, ServerRules
  <1> HIDE DEF h
  <1>4. app' = app /\ nextId' = nextId
    BY DEF ConfirmDeleteForward, MutateForwards
  <1> QED
    BY <1>1, <1>2, <1>3, <1>4, OneForwards

LEMMA RuleKeyEdits == ASSUME VaultInv, Shape(mem), RuleKey PROVE DeskEdit
  <1>1. MoveRule \/ GoForwardAdd \/ GoForwardEdit \/ GoForwardDelete \/ BackToForwards => Calm
    BY DEF MoveRule, MoveRow, GoForwardAdd, GoForwardEdit, GoForwardDelete, OnRule, BackToForwards, Quiet
  <1> QED
    BY <1>1, TogglesRule, SubmitsRule, DeletesRule, CalmIs DEF RuleKey

\* The rows of the import that are ticked are places of the list, once each.
LEMMA PickedRows ==
    ASSUME IsList(screen.rows)
    PROVE  /\ IsList(Picked)
           /\ \A i \in DOMAIN Picked : \E k \in DOMAIN screen.rows :
                 screen.rows[k].checked /\ Picked[i] = screen.rows[k]
  <1> DEFINE places == {k \in DOMAIN screen.rows : screen.rows[k].checked}
  <1>1. places \subseteq DOMAIN screen.rows
    OBVIOUS
  <1>2. \A k \in places : screen.rows[k].checked
    OBVIOUS
  <1>3. Picked = EntriesAt(screen.rows, places)
    BY DEF Picked
  <1> HIDE DEF places
  <1> DEFINE rows == screen.rows
             e == EntriesAt(rows, places)
  <1>4. IsList(rows) /\ places \subseteq DOMAIN rows
    BY <1>1
  <1> HIDE DEF rows
  <1>5. PICK f : /\ IsList(e) /\ f \in [DOMAIN e -> places]
                 /\ \A k \in DOMAIN e : e[k] = rows[f[k]]
    BY <1>4, ChosenEntries
  <1> HIDE DEF e
  <1>6. \A k \in DOMAIN e : f[k] \in places
    BY <1>5
  <1> QED
    BY <1>1, <1>2, <1>3, <1>5, <1>6 DEF e, rows

LEMMA ImportedServers ==
    ASSUME VaultInv, IsList(screen.rows)
    PROVE  /\ IsList(Imported) /\ Len(Imported) = Len(Picked) /\ Len(Picked) \in Nat
           /\ \A i \in DOMAIN Imported : IsServer(Imported[i]) /\ Imported[i].id = nextId + i - 1
  <1>1. IsList(Picked)
    BY PickedRows
  <1>2. Imported = [i \in DOMAIN Picked |-> Imported[i]]
    BY DEF Imported
  <1>3. IsList(Imported) /\ Len(Imported) = Len(Picked) /\ DOMAIN Imported = DOMAIN Picked
    BY <1>1, <1>2, MappedList
  <1>4. ASSUME NEW i \in DOMAIN Imported
        PROVE  IsServer(Imported[i]) /\ Imported[i].id = nextId + i - 1
    <2>1. PICK name, host, port, user : Imported[i] = NewServer(nextId + i - 1, name, host, port, user)
      BY <1>3 DEF Imported
    <2> QED
      BY <2>1, NoList DEF NewServer, IsServer
  <1> QED
    BY <1>1, <1>3, <1>4, Lists

\* ImportSshHosts and the settings.
LEMMA OtherKeyEdits ==
    ASSUME VaultInv, Shape(mem), screen.at = "import" => IsList(screen.rows), OtherKey
    PROVE  DeskEdit
  <1>1. MoveImport \/ ToggleImport \/ ToggleAllImports => Calm
    BY DEF MoveImport, MoveRow, ToggleImport, ToggleAllImports, Quiet
  <1>2. SaveSetting => Unedited
    BY DEF SaveSetting, KeepIfSaved, Save, Unedited, Shape
  <1>3. ASSUME ImportSshHosts PROVE DeskEdit
    <2>1. /\ screen.at = "import" /\ app' = app /\ nextId' = nextId + Len(Picked)
          /\ \/ mem' = WithServers(Servers \o Imported) /\ disk' = mem'
             \/ mem' = mem /\ disk' = disk
      BY <1>3 DEF ImportSshHosts, At, KeepIfSaved, Save
    <2>2. /\ IsList(Imported) /\ Len(Imported) = Len(Picked) /\ Len(Picked) \in Nat
          /\ \A i \in DOMAIN Imported : IsServer(Imported[i]) /\ Imported[i].id = nextId + i - 1
      BY <2>1, ImportedServers
    <2>3. nextId \in Nat /\ IsVault(Servers, nextId) /\ nextId' \in Nat /\ nextId' >= nextId
      BY <2>1, <2>2 DEF VaultInv, Servers
    <2>4. CASE mem' = mem /\ disk' = disk
      BY <2>1, <2>3, <2>4, SameVault DEF DeskEdit, Servers
    <2>5. CASE mem' = WithServers(Servers \o Imported) /\ disk' = mem'
      <3>1. mem'.servers = Servers \o Imported
        BY <2>5 DEF WithServers, Shape
      <3>2. Extended(Servers, Servers \o Imported, nextId, nextId')
        <4> DEFINE old == Servers
                   more == Imported
        <4>1. IsVault(old, nextId) /\ IsList(more) /\ nextId \in Nat
              /\ \A i \in DOMAIN more : IsServer(more[i]) /\ more[i].id = nextId + i - 1
          BY <2>2, <2>3
        <4>2. nextId' = nextId + Len(more)
          BY <2>1, <2>2
        <4> HIDE DEF old, more
        <4>3. Extended(old, old \o more, nextId, nextId + Len(more))
          BY <4>1, JoinedVault
        <4> QED
          BY <4>2, <4>3 DEF old, more
      <3> QED
        BY <2>1, <2>3, <2>5, <3>1, <3>2 DEF DeskEdit
    <2> QED
      BY <2>1, <2>4, <2>5
  <1> QED
    BY <1>1, <1>2, <1>3, CalmIs, UneditedIs DEF OtherKey

LEMMA DeskEdits ==
    ASSUME VaultInv, Shape(mem), screen.at = "import" => IsList(screen.rows), DeskNext
    PROVE  DeskEdit
  <1>1. ExpireStatus => Calm
    BY DEF ExpireStatus
  <1>2. AutoLockIfIdle => Forgotten /\ nextId' = nextId
    BY DEF AutoLockIfIdle, Forget, Forgotten
  <1>3. Unlock => ReadBack /\ app # "open" /\ nextId' = nextId
    BY DEF Unlock, ReadBack
  <1>4. nextId \in Nat
    BY DEF VaultInv
  <1>5. (Forgotten \/ (ReadBack /\ app # "open")) /\ nextId' = nextId => DeskEdit
    BY <1>4 DEF DeskEdit
  <1> QED
    BY <1>1, <1>2, <1>3, <1>5, CalmIs, MenuKeyEdits, ServerKeyEdits, ScriptKeyEdits, RuleKeyEdits,
       OtherKeyEdits DEF DeskNext, DeskKey, DeskTimer

-----------------------------------------------------------------------------
\* What a session writes of its own: the pins and the time of record_session.

OnlyPin(s, r) == /\ DOMAIN r = DOMAIN s /\ r = [x \in DOMAIN r |-> r[x]]
                 /\ \A x \in DOMAIN s \ {"pin", "last"} : r[x] = s[x]

LEMMA OnlyPinIs ==
    ASSUME NEW s, IsServer(s), NEW r, OnlyPin(s, r)
    PROVE  /\ IsServer(r) /\ r.id = s.id /\ r.host = s.host /\ r.jump = s.jump
           /\ r.name = s.name /\ r.tag = s.tag /\ r.dirs = s.dirs
           /\ r.scripts = s.scripts /\ r.forwards = s.forwards
  <1>1. /\ {"id", "name", "host", "tag", "jump", "dirs", "scripts", "forwards"} \subseteq DOMAIN s
        /\ IsList(s.scripts) /\ IsList(s.forwards)
    BY ServerFields DEF IsServer
  <1>2. r.id = s.id /\ r.host = s.host /\ r.jump = s.jump /\ r.scripts = s.scripts
        /\ r.forwards = s.forwards /\ r.name = s.name /\ r.tag = s.tag /\ r.dirs = s.dirs
    BY <1>1 DEF OnlyPin
  <1> QED
    BY <1>1, <1>2, ServerFields, IsServerIf DEF OnlyPin

LEMMA PinnedIs ==
    ASSUME NEW s, IsServer(s), NEW o
    PROVE  /\ IsServer(Pinned(o, s)) /\ Pinned(o, s).id = s.id /\ Pinned(o, s).host = s.host
           /\ Pinned(o, s).jump = s.jump /\ Pinned(o, s).forwards = s.forwards
           /\ Pinned(o, s).name = s.name /\ Pinned(o, s).tag = s.tag /\ Pinned(o, s).scripts = s.scripts
           /\ Pinned(o, s).dirs = s.dirs /\ Pinned(o, s).last \in {s.last, 1 + MaxWork - work}
           /\ s.id # link.sid => Pinned(o, s) = [s EXCEPT !.pin = Pinned(o, s).pin]
           /\ \/ Pinned(o, s).pin = s.pin
              \/ s.id = link.sid /\ Pinned(o, s).pin = Last(o) /\ Last(o) # NoPin
              \/ /\ s.id # link.sid
                 /\ \E k \in DOMAIN link.hops :
                       link.hops[k] = s.id /\ Pinned(o, s).pin = o[k] /\ o[k] # NoPin
  <1>1. /\ {"pin", "last", "id", "name", "host", "tag", "jump", "scripts", "forwards"} \subseteq DOMAIN s
        /\ s = [f \in DOMAIN s |-> s[f]] /\ IsList(s.forwards)
    BY ServerFields DEF IsServer
  <1>3. CASE s.id = link.sid
    <2>1. Pinned(o, s) = [s EXCEPT !.pin = IF Last(o) # NoPin THEN Last(o) ELSE s.pin,
                                   !.last = 1 + MaxWork - work]
      BY <1>3 DEF Pinned, ApplyRecord
    <2>2. PICK p, t, r : /\ p = (IF Last(o) # NoPin THEN Last(o) ELSE s.pin) /\ t = 1 + MaxWork - work
                         /\ r = Pinned(o, s) /\ r = [s EXCEPT !.pin = p, !.last = t]
      BY <2>1
    <2>3. OnlyPin(s, r) /\ r.pin = p /\ r.last = t
      BY <1>1, <2>2 DEF OnlyPin
    <2> QED
      BY <1>3, <2>2, <2>3, OnlyPinIs
  <1>4. CASE s.id # link.sid
    <2> DEFINE at == {i \in DOMAIN link.hops : link.hops[i] = s.id}
    <2>1. CASE at = {} \/ o[CHOOSE i \in at : TRUE] = NoPin
      <3>1. Pinned(o, s) = s
        BY <1>4, <2>1 DEF Pinned
      <3>2. OnlyPin(s, s) /\ s = [s EXCEPT !.pin = s.pin]
        BY <1>1 DEF OnlyPin
      <3> QED
        BY <1>4, <3>1, <3>2, OnlyPinIs
    <2>2. CASE at # {} /\ o[CHOOSE i \in at : TRUE] # NoPin
      <3>1. PICK k \in at : o[k] # NoPin /\ Pinned(o, s) = [s EXCEPT !.pin = o[k]]
        BY <1>4, <2>2 DEF Pinned, ApplyJump
      <3>2. k \in DOMAIN link.hops /\ link.hops[k] = s.id
        OBVIOUS
      <3> HIDE DEF at
      <3>3. PICK p, r : p = o[k] /\ r = Pinned(o, s) /\ r = [s EXCEPT !.pin = p]
        BY <3>1
      <3>4. OnlyPin(s, r) /\ r.pin = p /\ r = [s EXCEPT !.pin = r.pin] /\ r.last = s.last
        BY <1>1, <3>3 DEF OnlyPin
      <3> QED
        BY <1>4, <3>1, <3>2, <3>3, <3>4, OnlyPinIs
    <2> QED
      BY <2>1, <2>2
  <1> QED
    BY <1>3, <1>4

\* What a step of a session makes of the servers.
Recorded ==
    /\ pc = "auth" /\ ~InFleet /\ disk' \in {mem', disk} /\ app' = app /\ nextId' = nextId
    /\ Tail(link.left) = <<>>
    /\ LET learnt == Append(link.learnt, link.key)
       IN mem'.servers = [i \in DOMAIN Servers |-> Pinned(learnt, Servers[i])]
SessionEdit ==
    \/ Recorded
    \/ app' = app /\ mem' = mem /\ disk' \in {mem, disk} /\ nextId' = nextId
    \/ Forgotten /\ nextId' = nextId

LEMMA ConnectEdits == ASSUME Shape(mem), ConnectStep PROVE SessionEdit
  <1> DEFINE Still == app' = app /\ mem' = mem /\ disk' = disk /\ nextId' = nextId
  <1>1. Connect => Still
    BY DEF Connect, Fails, Goes
  <1>2. Failed => Still
    BY DEF Failed, Fails, desk
  <1>3. Dial => Still
    BY <1>2 DEF Dial, desk
  <1>4. ConnectTick => Still
    BY DEF ConnectTick, desk
  <1>5. ASSUME Authenticate PROVE Still \/ Recorded
    <2> DEFINE learnt == Append(link.learnt, link.key)
    <2>1. CASE Tail(link.left) = <<>> /\ Established(learnt)
      <3>1. InFleet => Still
        BY <2>1 DEF Established, desk
      <3>2. ~InFleet => Recorded
        BY <1>5, <2>1 DEF Authenticate, Established, RecordSession, WithServers, Observed, Save, Recorded, Shape
      <3> QED
        BY <3>1, <3>2
    <2>2. CASE ~(Tail(link.left) = <<>> /\ Established(learnt))
      BY <1>2, <1>5, <2>2 DEF Authenticate, desk
    <2> QED
      BY <2>1, <2>2
  <1> QED
    BY <1>1, <1>3, <1>4, <1>5 DEF ConnectStep, SessionEdit

LEMMA SessionEdits == ASSUME Shape(mem), SessionNext PROVE SessionEdit
  <1> DEFINE Still == app' = app /\ mem' = mem /\ disk' = disk /\ nextId' = nextId
  <1>1. ASSUME ForwardStep PROVE SessionEdit
    <2>1. StartForward => Still
      BY DEF StartForward, desk
    <2>2. ForwardsStarted => Still \/ (Forgotten /\ nextId' = nextId)
      BY DEF ForwardsStarted, Forget, Forgotten, desk
    <2>3. AcceptForward \/ SocksHandshake \/ ChannelAnswer \/ PushedChannel \/ DialLocal \/ CloseConn => Still
      BY DEF AcceptForward, SocksHandshake, ChannelAnswer, PushedChannel, DialLocal, CloseConn, Others, desk
    <2> QED
      BY <1>1, <2>1, <2>2, <2>3 DEF ForwardStep, SessionEdit
  <1>2. ScriptStep => Still
    BY DEF ScriptStep, SkipStep, StartStep, StepOutput, EndStep, ApplyEvents, ScriptEnds, ScriptsDone,
           InScript, desk
  <1>3. ASSUME ShellStep PROVE SessionEdit
    <2>1. StartShell \/ TypeKeys \/ IgnoreKey \/ BridgeKeys \/ SwitchScreen \/ ProbeAnswers \/ PollAnswers \/ ShellReturns => Still
      BY DEF StartShell, TypeKeys, IgnoreKey, BridgeKeys, SwitchScreen, ProbeAnswers, PollAnswers, ShellReturns, Metered, desk
    <2>2. ShellRefused => Forgotten /\ nextId' = nextId
      BY DEF ShellRefused, Forget, Forgotten
    <2>3. ASSUME NEW ok, NEW got, EndSession(ok, got)
          PROVE  app' = app /\ mem' = mem /\ disk' \in {mem, disk} /\ nextId' = nextId
      BY <2>3 DEF EndSession, Finish, Save
    <2>4. Tick \/ ConnectEnds \/ RemoteEnds
             => app' = app /\ mem' = mem /\ disk' \in {mem, disk} /\ nextId' = nextId
      BY <2>3 DEF Tick, ConnectEnds, RemoteEnds, desk
    <2> QED
      BY <1>3, <2>1, <2>2, <2>4 DEF ShellStep, SessionEdit
  <1>4. FleetStep => Still
    BY DEF FleetStep, RunScript, NextTarget, RunEnds, RunTick, ShowRun, Goes, desk
  <1> QED
    BY <1>1, <1>2, <1>3, <1>4, ConnectEdits DEF SessionNext, SessionEdit

LEMMA SessionVaultKept == ASSUME VaultInv, SessionEdit PROVE VaultInv'
  <1>1. /\ nextId' = nextId /\ IsVault(NoConfig.servers, nextId)
        /\ IsVault(mem.servers, nextId) /\ IsVault(disk.servers, nextId)
    BY NoList DEF VaultInv, SessionEdit, Recorded, IsVault, NoConfig
  <1>2. ASSUME Recorded PROVE IsVault(mem'.servers, nextId)
    <2>1. PICK o : mem'.servers = [i \in DOMAIN Servers |-> Pinned(o, Servers[i])]
      BY <1>2 DEF Recorded
    <2> DEFINE new == mem'.servers
    <2>2. new = [i \in DOMAIN Servers |-> new[i]]
      BY <2>1
    <2>3. \A i \in DOMAIN Servers : IsServer(new[i]) /\ new[i].id = Servers[i].id
      BY <1>1, <2>1, PinnedIs DEF IsVault, Servers
    <2>4. IsVault(Servers, nextId)
      BY <1>1 DEF Servers
    <2> HIDE DEF new
    <2>5. IsList(new) /\ DOMAIN new = DOMAIN Servers
      BY <2>2, <2>4, MappedList DEF IsVault
    <2>6. IsVault(new, nextId)
      BY <2>3, <2>4, <2>5 DEF IsVault
    <2> QED
      BY <2>6 DEF new
  <1>3. IsVault(mem'.servers, nextId') /\ IsVault(disk'.servers, nextId')
    <2>1. CASE Recorded
      BY <1>1, <1>2, <2>1 DEF Recorded
    <2>2. CASE ~Recorded
      BY <1>1, <2>2 DEF SessionEdit, Forgotten
    <2> QED
      BY <2>1, <2>2
  <1> QED
    BY <1>1, <1>3 DEF VaultInv

-----------------------------------------------------------------------------
\* The screens: the server one was opened on, and the rows of the import.

IsRow(row) ==
    /\ row = [host |-> row.host, present |-> row.present, checked |-> row.checked]
    /\ row.checked => ~row.present
    /\ row.present <=> \E j \in DOMAIN Servers : SameHost(Servers[j], row.host)
RowsInv == IsList(screen.rows) /\ \A k \in DOMAIN screen.rows : IsRow(screen.rows[k])

SessionScreens == {"menu", "scripts", "targets"}
OpenInv ==
    /\ ScreenShape(screen) /\ screen.sid \in {0, shown}
    /\ app # "open" => screen.at = "menu" /\ pc = "idle"
    /\ pc # "idle" => screen.at \in SessionScreens
    /\ screen.at = "import" => RowsInv

\* What a key makes of the screen.
Shown == screen'.sid \in {0, shown'} /\ (app' # "open" => screen'.at = "menu")
Turned == Shown /\ (screen'.at = "import" => RowsInv')

LEMMA ScreenFields ==
    ASSUME NEW at, NEW sid
    PROVE  /\ Screen(at, sid).at = at /\ Screen(at, sid).sid = sid
           /\ NoScreen.at = "menu" /\ NoScreen.sid = 0
  BY DEF Screen, NoScreen

\* A screen on a row is one opened on the server under the cursor.
LEMMA LeaveTurned ==
    ASSUME NEW s, s.sid \in {0, Selected}, s.at # "import", app' = "open", Leave(s)
    PROVE  Turned
  BY DEF Leave, Turned, Shown, Selected, UnderCursor

LEMMA StaysTurned ==
    ASSUME OpenInv, app' = app, mem' = mem, shown' = shown, screen' = screen
    PROVE  Turned
  BY DEF OpenInv, Turned, Shown, RowsInv, IsRow, Servers

LEMMA BackTurned ==
    ASSUME NEW servers, NEW sort, NEW anchor, BackToMenu(servers, sort, anchor) PROVE Turned
  BY ScreenFields DEF BackToMenu, Turned, Shown

LEMMA ImportOpened ==
    ASSUME NEW file \in ConfigFiles, Leave([Screen("import", 0) EXCEPT !.rows = ImportRows(file, Servers)]),
           mem' = mem, app' = "open"
    PROVE  Turned
  <1> DEFINE rows == ImportRows(file, Servers)
             s == [Screen("import", 0) EXCEPT !.rows = rows]
  <1>1. /\ rows = [i \in DOMAIN Parse(file) |-> rows[i]]
        /\ \A i \in DOMAIN rows : IsRow(rows[i])
    <2>1. rows = [i \in DOMAIN Parse(file) |-> rows[i]]
      BY DEF ImportRows
    <2>2. ASSUME NEW i \in DOMAIN rows PROVE IsRow(rows[i])
      <3> DEFINE host == Parse(file)[i]
                 present == \E j \in DOMAIN Servers : SameHost(Servers[j], host)
      <3>1. rows[i] = [host |-> host, present |-> present, checked |-> ~present]
        BY <2>2 DEF ImportRows
      <3>2. PICK row : row = rows[i]
        OBVIOUS
      <3>3. /\ row.host = host /\ row.present = present /\ row.checked = ~present
            /\ row = [host |-> row.host, present |-> row.present, checked |-> row.checked]
        BY <3>1, <3>2
      <3> HIDE DEF rows
      <3> QED
        BY <3>2, <3>3 DEF IsRow
    <2> QED
      BY <2>1, <2>2
  <1>2. PICK n \in Nat : DOMAIN Parse(file) = 1..n
    BY DeskAssumption
  <1> HIDE DEF rows
  <1>3. rows = [i \in 1..n |-> rows[i]]
    BY <1>1, <1>2
  <1>4. IsList(rows)
    <2> DEFINE S == {rows[i] : i \in 1..n}
    <2>1. rows \in Seq(S)
      BY <1>3
    <2> HIDE DEF S
    <2> QED
      BY <2>1, SeqIsList
  <1>5. s.rows = rows /\ s.sid = 0 /\ s.at = "import"
    BY DEF Screen, NoScreen
  <1>6. screen' = s /\ Servers' = Servers
    BY DEF Leave, rows, Servers
  <1> HIDE DEF s
  <1>7. RowsInv'
    BY <1>1, <1>4, <1>5, <1>6 DEF RowsInv, IsRow
  <1> QED
    BY <1>5, <1>6, <1>7 DEF Turned, Shown

LEMMA MenuKeyTurns == ASSUME OpenInv, MenuKey PROVE Turned
  <1>1. ASSUME MoveSelection \/ StartTyping \/ TypeFilter \/ EscapeFilter PROVE Turned
    <2>1. app' = app /\ mem' = mem /\ shown' = shown /\ screen' = screen
      BY <1>1 DEF MoveSelection, StartTyping, TypeFilter, EscapeFilter, InList, Quiet, Calm
    <2> QED
      BY <2>1, StaysTurned
  <1>2. ASSUME CycleServerSort PROVE Turned
    BY <1>2 DEF CycleServerSort, InMenu, At, Key, OpenInv, Turned, Shown
  <1>3. ASSUME GoAdd PROVE Turned
    <2>1. PICK x : Leave([Screen("form", 0) EXCEPT !.choices = x])
      BY <1>3 DEF GoAdd
    <2> DEFINE s == [Screen("form", 0) EXCEPT !.choices = x]
    <2>2. s.sid = 0 /\ s.at = "form"
      BY DEF Screen, NoScreen
    <2>3. app' = "open" /\ Leave(s)
      BY <1>3, <2>1 DEF GoAdd, InMenu, At, Key, Quiet, Calm
    <2> HIDE DEF s
    <2> QED
      BY <2>2, <2>3, LeaveTurned
  <1>4. ASSUME GoEdit PROVE Turned
    <2>1. PICK x, y : Open([Screen("form", Selected) EXCEPT !.choices = x, !.pick = y])
      BY <1>4 DEF GoEdit
    <2> DEFINE s == [Screen("form", Selected) EXCEPT !.choices = x, !.pick = y]
    <2>2. s.sid = Selected /\ s.at = "form"
      BY DEF Screen, NoScreen
    <2>3. app' = "open" /\ Leave(s)
      BY <2>1 DEF Open, InMenu, At, Key, Quiet, Calm
    <2> HIDE DEF s
    <2> QED
      BY <2>2, <2>3, LeaveTurned
  <1>5. ASSUME NEW at, Open(Screen(at, Selected)), at # "import" PROVE Turned
    BY <1>5, ScreenFields, LeaveTurned DEF Open, InMenu, At, Key, Quiet, Calm
  <1>6. ASSUME GoDelete \/ GoScripts \/ GoForwards PROVE Turned
    BY <1>5, <1>6 DEF GoDelete, GoScripts, GoForwards
  <1>7. ASSUME GoFiles PROVE Turned
    <2>1. \/ app' = app /\ mem' = mem /\ shown' = shown /\ screen' = screen
          \/ Open(Screen("files", Selected))
      BY <1>7 DEF GoFiles, Calm
    <2> QED
      BY <1>5, <2>1, StaysTurned
  <1>8. ASSUME GoSettings PROVE Turned
    BY <1>8, ScreenFields, LeaveTurned DEF GoSettings, InMenu, At, Key, Quiet, Calm
  <1>9. ASSUME GoSshImport PROVE Turned
    <2>1. mem' = mem /\ app' = "open"
      BY <1>9 DEF GoSshImport, InMenu, At, Key, Quiet, Calm
    <2>2. ASSUME Leave([Screen("import", 0) EXCEPT !.err = TRUE]) PROVE Turned
      <3> DEFINE s == [Screen("import", 0) EXCEPT !.err = TRUE]
      <3>1. s.rows = <<>> /\ s.sid = 0 /\ screen' = s
        BY <2>2 DEF Leave, Screen, NoScreen
      <3> HIDE DEF s
      <3>2. RowsInv'
        BY <3>1, NoList DEF RowsInv
      <3> QED
        BY <2>1, <3>1, <3>2 DEF Turned, Shown
    <2> QED
      BY <1>9, <2>1, <2>2, ImportOpened DEF GoSshImport
  <1>10. ASSUME Lock \/ Quit PROVE Turned
    BY <1>10, ScreenFields DEF Lock, Quit, Forget, Turned, Shown
  <1> QED
    BY <1>1, <1>2, <1>3, <1>4, <1>6, <1>7, <1>8, <1>9, <1>10 DEF MenuKey

LEMMA ServerKeyTurns == ASSUME OpenInv, ServerKey PROVE Turned
  <1>1. ASSUME Back \/ FilesBack \/ ConfirmDelete PROVE Turned
    BY <1>1, BackTurned DEF Back, FilesBack, ConfirmDelete
  <1>2. ASSUME CycleJumpHost PROVE Turned
    <2>1. PICK x : Show([screen EXCEPT !.pick = x, !.err = FALSE])
      BY <1>2 DEF CycleJumpHost
    <2>2. screen.at = "form" /\ app' = "open"
      BY <1>2 DEF CycleJumpHost, At, Key, Quiet, Calm
    <2> QED
      BY <2>1, <2>2 DEF OpenInv, ScreenShape, Show, Turned, Shown
  <1>3. ASSUME RefuseForm PROVE Turned
    BY <1>3 DEF RefuseForm, At, Key, Quiet, Calm, OpenInv, ScreenShape, Show, Turned, Shown
  <1>4. ASSUME SubmitForm PROVE Turned
    <2>1. PICK ok, servers, anchor :
             IF ok THEN BackToMenu(servers, mem.sort, anchor) ELSE Show([screen EXCEPT !.err = TRUE])
      BY <1>4, Zenon DEF SubmitForm
    <2>2. screen.at = "form" /\ app' = "open"
      BY <1>4 DEF SubmitForm, At, Key
    <2>3. ASSUME Show([screen EXCEPT !.err = TRUE]) PROVE Turned
      BY <2>2, <2>3 DEF OpenInv, ScreenShape, Show, Turned, Shown
    <2> QED
      BY <2>1, <2>3, BackTurned
  <1> QED
    BY <1>1, <1>2, <1>3, <1>4 DEF ServerKey

\* The screens of a server's scripts and forwards are opened on that server, and a
\* screen with a changed field is the same screen.
LEMMA SameServer ==
    ASSUME OpenInv, app' = "open", shown' = shown, screen'.sid = screen.sid, screen'.at # "import"
    PROVE  Turned
  BY DEF OpenInv, Turned, Shown

LEMMA OneField ==
    ASSUME NEW s, NEW r, NEW x, ScreenShape(s),
           \/ r = s \/ r = [s EXCEPT !.cur = x] \/ r = [s EXCEPT !.choices = x] \/ r = [s EXCEPT !.err = x]
    PROVE  r.sid = s.sid /\ r.at = s.at /\ r.rows = s.rows
  BY DEF ScreenShape

LEMMA ScriptKeyTurns == ASSUME OpenInv, ScriptKey PROVE Turned
  <1>1. ASSUME MoveScript \/ MoveTarget \/ ToggleTarget \/ ToggleAllTargets PROVE Turned
    <2>1. PICK x : screen' = [screen EXCEPT !.cur = x] \/ screen' = [screen EXCEPT !.choices = x]
      BY <1>1 DEF MoveScript, MoveTarget, MoveRow, ToggleTarget, ToggleAllTargets, Show
    <2>2. screen.at \in {"scripts", "targets"} /\ app' = "open" /\ shown' = shown
      BY <1>1 DEF MoveScript, MoveTarget, MoveRow, ToggleTarget, ToggleAllTargets, Show, At, Key, Quiet, Calm
    <2> QED
      BY <2>1, <2>2, SameServer, OneField DEF OpenInv
  <1>2. ASSUME GoScriptAdd \/ GoScriptEdit \/ GoScriptDelete \/ GoScriptTargets \/ BackToScripts
        PROVE  Turned
    <2> DEFINE SameOne == screen'.sid = screen.sid /\ screen'.at # "import"
    <2>1. SameOne
      <3>1. GoScriptAdd => SameOne
        BY ScreenFields DEF Screen, NoScreen, GoScriptAdd, Show
      <3>2. GoScriptEdit => SameOne
        BY ScreenFields DEF Screen, NoScreen, GoScriptEdit, OnScript, Show
      <3>3. GoScriptDelete => SameOne
        BY ScreenFields DEF Screen, NoScreen, GoScriptDelete, OnScript, Show
      <3>4. GoScriptTargets => SameOne
        BY ScreenFields DEF Screen, NoScreen, GoScriptTargets, Show
      <3>5. BackToScripts => SameOne
        BY ScreenFields DEF Screen, NoScreen, BackToScripts, ScriptsList, Show
      <3> QED
        BY <1>2, <3>1, <3>2, <3>3, <3>4, <3>5
    <2>2. app' = "open" /\ shown' = shown
      BY <1>2 DEF GoScriptAdd, GoScriptEdit, GoScriptDelete, GoScriptTargets, BackToScripts, OnScript,
                  Show, At, Key, Quiet, Calm
    <2> QED
      BY <2>1, <2>2, SameServer
  <1>3. ASSUME SubmitScriptForm PROVE Turned
    <2>1. screen' = Screen("scripts", screen.sid) \/ screen' = [screen EXCEPT !.err = TRUE]
      BY <1>3 DEF SubmitScriptForm, ScriptsList, Show
    <2>2. screen.at = "scriptform" /\ app' = "open" /\ shown' = shown
      BY <1>3 DEF SubmitScriptForm, Show, At, Key
    <2>3. CASE screen' = Screen("scripts", screen.sid)
      BY <2>2, <2>3, SameServer, ScreenFields
    <2>4. CASE screen' = [screen EXCEPT !.err = TRUE]
      BY <2>2, <2>4, SameServer, OneField DEF OpenInv
    <2> QED
      BY <2>1, <2>3, <2>4
  <1>4. ASSUME ConfirmDeleteScript PROVE Turned
    <2>1. screen' = Screen("scripts", screen.sid) /\ app' = "open" /\ shown' = shown
      BY <1>4 DEF ConfirmDeleteScript, ScriptsList, Show, At, Key
    <2> QED
      BY <2>1, SameServer, ScreenFields
  <1> QED
    BY <1>1, <1>2, <1>3, <1>4 DEF ScriptKey

LEMMA RuleKeyTurns == ASSUME OpenInv, RuleKey PROVE Turned
  <1>1. ASSUME MoveRule \/ ToggleForward PROVE Turned
    <2>1. PICK x : screen' = screen \/ screen' = [screen EXCEPT !.cur = x]
      BY <1>1 DEF MoveRule, MoveRow, ToggleForward, Show
    <2>2. screen.at = "forwards" /\ app' = "open" /\ shown' = shown
      BY <1>1 DEF MoveRule, MoveRow, ToggleForward, MutateForwards, Show, At, Key, Quiet, Calm
    <2> QED
      BY <2>1, <2>2, SameServer, OneField DEF OpenInv
  <1>2. ASSUME GoForwardAdd \/ GoForwardEdit \/ GoForwardDelete \/ BackToForwards \/ SubmitForwardForm
               \/ ConfirmDeleteForward
        PROVE  Turned
    <2> DEFINE SameOne == screen'.sid = screen.sid /\ screen'.at # "import"
    <2>1. SameOne
      <3>1. GoForwardAdd => SameOne
        BY ScreenFields DEF Screen, NoScreen, GoForwardAdd, Show
      <3>2. GoForwardEdit => SameOne
        BY ScreenFields DEF Screen, NoScreen, GoForwardEdit, OnRule, Show
      <3>3. GoForwardDelete => SameOne
        BY ScreenFields DEF Screen, NoScreen, GoForwardDelete, OnRule, Show
      <3>4. BackToForwards \/ SubmitForwardForm \/ ConfirmDeleteForward => SameOne
        BY ScreenFields DEF Screen, NoScreen, BackToForwards, SubmitForwardForm, ConfirmDeleteForward,
           RulesList, Show
      <3> QED
        BY <1>2, <3>1, <3>2, <3>3, <3>4
    <2>2. app' = "open" /\ shown' = shown
      BY <1>2 DEF GoForwardAdd, GoForwardEdit, GoForwardDelete, BackToForwards, SubmitForwardForm,
                  ConfirmDeleteForward, MutateForwards, OnRule, Show, At, Key, Quiet, Calm
    <2> QED
      BY <2>1, <2>2, SameServer
  <1> QED
    BY <1>1, <1>2 DEF RuleKey

\* The boxes of the import are ticked on rows that are not in the vault.
LEMMA SameRows ==
    ASSUME OpenInv, app' = "open", screen.at = "import", mem' = mem, shown' = shown, NEW rows,
           screen' = [screen EXCEPT !.rows = rows], IsList(rows), \A k \in DOMAIN rows : IsRow(rows[k])
    PROVE  Turned
  <1>1. screen'.rows = rows /\ screen'.sid = screen.sid /\ screen'.at = "import" /\ Servers' = Servers
    BY DEF OpenInv, ScreenShape, Servers
  <1>2. RowsInv'
    BY <1>1 DEF RowsInv, IsRow
  <1> QED
    BY <1>1, <1>2 DEF OpenInv, Turned, Shown

LEMMA OtherKeyTurns == ASSUME OpenInv, OtherKey PROVE Turned
  <1>0. screen.at = "import" => IsList(screen.rows) /\ \A k \in DOMAIN screen.rows : IsRow(screen.rows[k])
    BY DEF OpenInv, RowsInv
  <1>1. ASSUME SaveSetting PROVE Turned
    <2>1. PICK x : screen' = [screen EXCEPT !.err = x]
      BY <1>1 DEF SaveSetting, Show
    <2>2. screen.at = "settings" /\ app' = "open" /\ shown' = shown
      BY <1>1 DEF SaveSetting, Show, At, Key
    <2> QED
      BY <2>1, <2>2, SameServer, OneField DEF OpenInv
  <1>2. ASSUME screen.at = "import", app' = "open", mem' = mem, shown' = shown, NEW x,
               screen' = [screen EXCEPT !.cur = x] \/ screen' = [screen EXCEPT !.err = x]
        PROVE  Turned
    <2>1. screen'.rows = screen.rows /\ screen'.sid = screen.sid /\ screen'.at = "import" /\ Servers' = Servers
      BY <1>2 DEF OpenInv, ScreenShape, Servers
    <2>2. RowsInv'
      BY <1>0, <1>2, <2>1 DEF RowsInv, IsRow
    <2> QED
      BY <1>2, <2>1, <2>2 DEF OpenInv, Turned, Shown
  <1>3. ASSUME MoveImport PROVE Turned
    <2>1. PICK x : screen' = [screen EXCEPT !.cur = x]
      BY <1>3 DEF MoveImport, MoveRow, Show
    <2>2. screen.at = "import" /\ app' = "open" /\ mem' = mem /\ shown' = shown
      BY <1>3 DEF MoveImport, MoveRow, Show, At, Key, Quiet, Calm
    <2> QED
      BY <1>2, <2>1, <2>2
  <1>4. ASSUME ToggleImport PROVE Turned
    <2> DEFINE k == screen.cur + 1
               rows == [screen.rows EXCEPT ![k].checked = ~screen.rows[k].checked]
    <2>1. /\ screen' = [screen EXCEPT !.rows = rows] /\ ~screen.rows[k].present
          /\ screen.at = "import" /\ app' = "open" /\ mem' = mem /\ shown' = shown
      BY <1>4 DEF ToggleImport, Show, At, Key, Quiet, Calm
    <2>2. ASSUME NEW i \in DOMAIN rows PROVE IsRow(rows[i])
      <3>1. CASE i # k
        BY <1>0, <2>1, <3>1
      <3>2. CASE i = k
        <4>1. PICK row : row = screen.rows[k]
          OBVIOUS
        <4>2. /\ row = [host |-> row.host, present |-> row.present, checked |-> row.checked]
              /\ row.present <=> \E j \in DOMAIN Servers : SameHost(Servers[j], row.host)
              /\ ~row.present
          BY <1>0, <2>1, <3>2, <4>1 DEF IsRow
        <4>3. PICK new : new = rows[i] /\ new = [row EXCEPT !.checked = ~row.checked]
          BY <3>2, <4>1
        <4>4. /\ new.host = row.host /\ new.present = row.present
              /\ new = [host |-> new.host, present |-> new.present, checked |-> new.checked]
          BY <4>2, <4>3
        <4> HIDE DEF rows
        <4> QED
          BY <4>2, <4>3, <4>4 DEF IsRow
      <3> QED
        BY <3>1, <3>2
    <2>3. rows = [i \in DOMAIN screen.rows |-> rows[i]]
      OBVIOUS
    <2> HIDE DEF rows
    <2>4. IsList(rows)
      BY <1>0, <2>1, <2>3, MappedList
    <2> QED
      BY <2>1, <2>2, <2>4, SameRows
  <1>5. ASSUME ToggleAllImports PROVE Turned
    <2>1. PICK want : /\ screen' = [screen EXCEPT !.rows = CheckAll(screen.rows, want)]
                      /\ want \in BOOLEAN
      BY <1>5 DEF ToggleAllImports, Show
    <2> DEFINE rows == CheckAll(screen.rows, want)
    <2>2. screen.at = "import" /\ app' = "open" /\ mem' = mem /\ shown' = shown
      BY <1>5 DEF ToggleAllImports, Show, At, Key, Quiet, Calm
    <2>3. ASSUME NEW i \in DOMAIN rows PROVE IsRow(rows[i])
      <3>1. PICK row : row = screen.rows[i] /\ i \in DOMAIN screen.rows
        BY DEF CheckAll
      <3>2. /\ row = [host |-> row.host, present |-> row.present, checked |-> row.checked]
            /\ row.present <=> \E j \in DOMAIN Servers : SameHost(Servers[j], row.host)
        BY <1>0, <2>2, <3>1 DEF IsRow
      <3>3. PICK new : new = rows[i] /\ new = [row EXCEPT !.checked = want /\ ~row.present]
        BY <3>1 DEF CheckAll
      <3>4. /\ new.host = row.host /\ new.present = row.present
            /\ new = [host |-> new.host, present |-> new.present, checked |-> new.checked]
            /\ new.checked = (want /\ ~row.present)
        BY <3>2, <3>3
      <3> HIDE DEF rows
      <3> QED
        BY <3>2, <3>3, <3>4 DEF IsRow
    <2>4. rows = [i \in DOMAIN screen.rows |-> rows[i]]
      BY DEF CheckAll
    <2> HIDE DEF rows
    <2>5. IsList(rows)
      BY <1>0, <2>2, <2>4, MappedList
    <2> QED
      BY <2>1, <2>2, <2>3, <2>5, SameRows DEF rows
  <1>6. ASSUME ImportSshHosts PROVE Turned
    <2>1. PICK ok, servers :
             IF ok THEN BackToMenu(servers, mem.sort, 0)
             ELSE mem' = mem /\ Show([screen EXCEPT !.err = TRUE])
      BY <1>6, Zenon DEF ImportSshHosts, KeepIfSaved
    <2>2. screen.at = "import" /\ app' = "open"
      BY <1>6 DEF ImportSshHosts, At, Key
    <2> QED
      BY <1>2, <2>1, <2>2, BackTurned DEF Show
  <1> QED
    BY <1>1, <1>3, <1>4, <1>5, <1>6 DEF OtherKey

LEMMA DeskTurns == ASSUME OpenInv, DeskNext PROVE Turned
  <1>1. ASSUME ExpireStatus \/ Unlock PROVE Turned
    BY <1>1 DEF ExpireStatus, Unlock, Calm, OpenInv, Turned, Shown, RowsInv, IsRow, Servers
  <1>2. ASSUME AutoLockIfIdle PROVE Turned
    BY <1>2, ScreenFields DEF AutoLockIfIdle, Forget, Turned, Shown
  <1> QED
    BY <1>1, <1>2, MenuKeyTurns, ServerKeyTurns, ScriptKeyTurns, RuleKeyTurns, OtherKeyTurns DEF DeskNext, DeskKey, DeskTimer

\* What a session makes of the screen: nothing, the menu of an app that ends, or
\* the log of the run.
SessionScreen ==
    \/ UNCHANGED <<screen, shown, app>> /\ (pc' = pc \/ pc' = "idle" \/ pc # "idle")
    \/ UNCHANGED <<screen, shown, app>> /\ pc = "idle" /\ app = "open" /\ screen.at \in SessionScreens
    \/ screen' = NoScreen /\ shown' = 0 /\ pc' = "idle"
    \/ /\ \E x : screen' = [Screen("run", screen.sid) EXCEPT !.item = x]
       /\ UNCHANGED <<shown, app>> /\ pc' = "idle" /\ pc # "idle"

LEMMA SessionTurns == ASSUME SessionNext PROVE SessionScreen
  <1>1. ASSUME ConnectStep PROVE SessionScreen
    <2>1. Connect => SessionScreen
      BY DEF Connect, Fails, Goes, At, Key, SessionScreen, SessionScreens, session
    <2>2. Failed => UNCHANGED <<screen, shown, app>>
      BY DEF Failed, Fails, desk
    <2>3. Dial \/ Authenticate \/ ConnectTick => SessionScreen
      BY <2>2 DEF Dial, Authenticate, Established, ConnectTick, SessionScreen, desk
    <2> QED
      BY <1>1, <2>1, <2>3 DEF ConnectStep
  <1>2. ASSUME ForwardStep PROVE SessionScreen
    <2>1. StartForward => SessionScreen
      BY DEF StartForward, SessionScreen, desk
    <2>2. ForwardsStarted => SessionScreen
      BY DEF ForwardsStarted, Forget, Over, Reset, SessionScreen, desk
    <2>3. AcceptForward \/ SocksHandshake \/ ChannelAnswer \/ PushedChannel \/ DialLocal \/ CloseConn
             => SessionScreen
      BY DEF AcceptForward, SocksHandshake, ChannelAnswer, PushedChannel, DialLocal, CloseConn, Others,
             SessionScreen, desk
    <2> QED
      BY <1>2, <2>1, <2>2, <2>3 DEF ForwardStep
  <1>3. ScriptStep => SessionScreen
    BY DEF ScriptStep, SkipStep, StartStep, StepOutput, EndStep, ApplyEvents, ScriptEnds, ScriptsDone,
           InScript, SessionScreen, desk
  <1>4. ASSUME ShellStep PROVE SessionScreen
    <2>1. StartShell \/ TypeKeys \/ IgnoreKey \/ BridgeKeys \/ SwitchScreen \/ ProbeAnswers \/ PollAnswers \/ ShellReturns
             => SessionScreen
      BY DEF StartShell, TypeKeys, IgnoreKey, BridgeKeys, SwitchScreen, ProbeAnswers, PollAnswers, ShellReturns, Metered,
             SessionScreen, desk
    <2>2. ShellRefused => SessionScreen
      BY DEF ShellRefused, Forget, Over, Reset, SessionScreen
    <2>3. ASSUME NEW ok, NEW got, EndSession(ok, got) PROVE SessionScreen
      BY <2>3 DEF EndSession, Over, Reset, SessionScreen
    <2>4. Tick => SessionScreen
      BY <2>3 DEF Tick, Over, Reset, SessionScreen, desk
    <2>5. ConnectEnds \/ RemoteEnds => SessionScreen
      BY <2>3 DEF ConnectEnds, RemoteEnds
    <2> QED
      BY <1>4, <2>1, <2>2, <2>4, <2>5 DEF ShellStep
  <1>5. ASSUME FleetStep PROVE SessionScreen
    <2>1. RunScript => SessionScreen
      BY DEF RunScript, Goes, SessionScreen, SessionScreens
    <2>2. NextTarget => SessionScreen
      BY DEF NextTarget, SessionScreen, desk
    <2>3. ASSUME NEW last, ShowRun(last), pc # "idle" PROVE SessionScreen
      BY <2>3 DEF ShowRun, Show, Reset, SessionScreen
    <2>4. RunEnds \/ RunTick => SessionScreen
      BY <2>3 DEF RunEnds, RunTick, SessionScreen, desk
    <2> QED
      BY <1>5, <2>1, <2>2, <2>4 DEF FleetStep
  <1> QED
    BY <1>1, <1>2, <1>3, <1>4, <1>5 DEF SessionNext

-----------------------------------------------------------------------------
\* Vault, preferences and screens together.

AppInv == Shape(mem) /\ PrefsInv /\ VaultInv /\ OpenInv

LEMMA AppInitially == Init => AppInv
  <1> SUFFICES ASSUME Init PROVE AppInv
    OBVIOUS
  <1>1. FirstId \in Nat \ {0} /\ nextId = FirstId /\ mem = NoConfig
    BY DeskAssumption DEF Init, DeskInit
  <1>2. IsVault(disk.servers, FirstId)
    BY DeskAssumption DEF Init, DeskInit
  <1>3. IsVault(NoConfig.servers, FirstId)
    BY NoList DEF IsVault, NoConfig
  <1>4. VaultInv
    BY <1>1, <1>2, <1>3 DEF VaultInv
  <1>5. OpenInv
    BY NewScreen, ScreenFields DEF Init, DeskInit, SessionInit, OpenInv
  <1> QED
    BY <1>4, <1>5, PrefsInitially DEF AppInv, PrefsInv

LEMMA AppStep ==
    ASSUME AppInv, [Next]_vars
    PROVE  /\ AppInv'
           /\ \/ pc = "idle" /\ DeskEdit
              \/ SessionEdit /\ SessionNext
              \/ UNCHANGED vars
  <1>1. PrefsInv' /\ Shape(mem)' /\ ScreenShape(screen')
    BY PrefsStep, ScreenStep DEF AppInv, OpenInv, PrefsInv
  <1>2. CASE HandleKey1
    <2>1. pc = "idle" /\ pc' = pc /\ DeskNext
      BY <1>2, DeskTakes
    <2>2. DeskEdit
      BY <2>1, DeskEdits DEF AppInv, OpenInv, RowsInv
    <2>3. VaultInv'
      BY <2>2, VaultKept DEF AppInv
    <2>4. Turned
      BY <2>1, DeskTurns DEF AppInv
    <2>5. OpenInv'
      BY <1>1, <2>1, <2>4 DEF OpenInv, Turned, Shown
    <2> QED
      BY <1>1, <2>1, <2>2, <2>3, <2>5 DEF AppInv
  <1>3. CASE SessionNext
    <2>1. SessionEdit
      BY <1>3, SessionEdits DEF AppInv
    <2>2. VaultInv'
      BY <2>1, SessionVaultKept DEF AppInv
    <2>3. pc = "idle" => mem' = mem \/ app' # "open"
      BY <2>1 DEF SessionEdit, Recorded, Forgotten
    <2>4. SessionScreen
      BY <1>3, SessionTurns
    <2>5. OpenInv'
      <3>1. CASE screen' = screen /\ UNCHANGED <<shown, app>>
        <4>1. screen.at = "import" => mem' = mem /\ pc = "idle"
          BY <2>3, <3>1 DEF AppInv, OpenInv, SessionScreens
        <4>2. screen'.at = "import" => RowsInv'
          BY <3>1, <4>1 DEF AppInv, OpenInv, RowsInv, IsRow, Servers
        <4>3. /\ app' # "open" => screen'.at = "menu" /\ pc' = "idle"
              /\ pc' # "idle" => screen'.at \in SessionScreens
          BY <2>4, <3>1 DEF AppInv, OpenInv, SessionScreen
        <4>4. screen'.sid \in {0, shown'}
          BY <3>1 DEF AppInv, OpenInv
        <4> QED
          BY <1>1, <4>2, <4>3, <4>4 DEF OpenInv
      <3>2. CASE screen' = NoScreen /\ shown' = 0 /\ pc' = "idle"
        BY <1>1, <3>2, ScreenFields DEF OpenInv
      <3>3. ASSUME NEW x, screen' = [Screen("run", screen.sid) EXCEPT !.item = x],
                   UNCHANGED <<shown, app>>, pc' = "idle", pc # "idle"
            PROVE  OpenInv'
        <4>1. screen'.at = "run" /\ screen'.sid = screen.sid
          BY <3>3 DEF Screen, NoScreen
        <4> QED
          BY <1>1, <3>3, <4>1 DEF AppInv, OpenInv
      <3> QED
        BY <2>4, <3>1, <3>2, <3>3 DEF SessionScreen
    <2> QED
      BY <1>1, <1>3, <2>1, <2>2, <2>5 DEF AppInv
  <1>4. CASE UNCHANGED vars
    <2>1. UNCHANGED <<mem, disk, app, screen, shown, nextId, pc>>
      BY <1>4 DEF vars, desk, session
    <2>2. OpenInv'
      BY <2>1 DEF AppInv, OpenInv, RowsInv, IsRow, Servers
    <2> QED
      BY <1>1, <1>4, <2>1, <2>2 DEF AppInv, VaultInv
  <1> QED
    BY <1>2, <1>3, <1>4 DEF Next

-----------------------------------------------------------------------------
\* The other servers.

LEMMA FoundAt ==
    ASSUME NEW list, NEW next, IsVault(list, next), NEW i \in DOMAIN list
    PROVE  Find(list, list[i].id) = list[i] /\ list[i].id \in IdsOf(list)
  BY FindIs DEF IsVault, IdsOf

\* What another server may lose: a jump to the one that was deleted, and its pin
\* to a session that finds it has none.
Kept(id) ==
    /\ id \in ServersIn(mem')
    /\ Same(id)
    /\ pc = "idle" => Find(mem'.servers, id).pin = Find(mem.servers, id).pin
    /\ Find(mem'.servers, id).jump \in {Find(mem.servers, id).jump}
          \cup (IF shown \in ServersIn(mem') THEN {} ELSE {0})

LEMMA KeptIf ==
    ASSUME VaultInv, VaultInv', NEW i \in DOMAIN Servers, NEW k \in DOMAIN mem'.servers,
           NEW s, s = Servers[i], NEW r, r = mem'.servers[k],
           \/ r = s
           \/ r = [s EXCEPT !.jump = 0] /\ shown \notin ServersIn(mem')
           \/ r = [s EXCEPT !.pin = r.pin] /\ pc # "idle"
    PROVE  Kept(s.id)
  <1>1. IsServer(s)
    BY DEF VaultInv, IsVault, Servers
  <1>2. {"pin", "jump", "id"} \subseteq DOMAIN s /\ s = [f \in DOMAIN s |-> s[f]]
    BY <1>1, ServerFields
  <1>3. /\ r.id = s.id /\ [r EXCEPT !.pin = s.pin, !.jump = s.jump] = s
        /\ pc = "idle" => r.pin = s.pin
        /\ r.jump = s.jump \/ (r.jump = 0 /\ shown \notin ServersIn(mem'))
    <2>1. CASE r = s
      BY <1>2, <2>1
    <2>2. CASE r = [s EXCEPT !.jump = 0] /\ shown \notin ServersIn(mem')
      BY <1>2, <2>2
    <2>3. CASE r = [s EXCEPT !.pin = r.pin] /\ pc # "idle"
      <3>1. PICK p : r = [s EXCEPT !.pin = p]
        BY <2>3
      <3> QED
        BY <1>2, <2>3, <3>1
    <2> QED
      BY <2>1, <2>2, <2>3
  <1>4. Find(mem.servers, s.id) = s
    BY FoundAt DEF VaultInv, Servers
  <1>5. Find(mem'.servers, s.id) = r /\ s.id \in ServersIn(mem')
    <2>1. IsVault(mem'.servers, nextId')
      BY DEF VaultInv
    <2>2. Find(mem'.servers, r.id) = r /\ r.id \in IdsOf(mem'.servers)
      BY <2>1, FoundAt
    <2> QED
      BY <1>3, <2>2 DEF ServersIn
  <1> QED
    BY <1>3, <1>4, <1>5 DEF Kept, Same

LEMMA DeskKeepsOthers ==
    ASSUME AppInv, VaultInv', DeskEdit, Running, NEW id \in ServersIn(mem), id # shown
    PROVE  Kept(id)
  <1>1. PICK i \in DOMAIN Servers : Servers[i].id = id
    BY DEF ServersIn, IdsOf, Servers
  <1>2. id # screen.sid /\ screen.sid \in {0, shown}
    BY <1>1 DEF AppInv, OpenInv, VaultInv, IsVault, Servers
  <1>3. ASSUME NEW k \in DOMAIN mem'.servers, mem'.servers[k] = Servers[i] PROVE Kept(id)
    BY <1>1, <1>3, KeptIf DEF AppInv
  <1>4. CASE SameBut(Servers, mem'.servers, screen.sid)
    BY <1>1, <1>2, <1>3, <1>4 DEF SameBut
  <1>5. CASE Extended(Servers, mem'.servers, nextId, nextId')
    <2>1. i \in DOMAIN mem'.servers /\ mem'.servers[i] = Servers[i]
      <3>1. DOMAIN Servers = 1..Len(Servers) /\ Len(Servers) \in Nat
        BY Lists DEF AppInv, VaultInv, IsVault, Servers
      <3>2. DOMAIN mem'.servers = 1..Len(mem'.servers) /\ Len(mem'.servers) \in Nat
        BY <1>5, Lists DEF Extended
      <3> QED
        BY <1>5, <3>1, <3>2 DEF Extended
    <2> QED
      BY <1>3, <2>1
  <1>6. CASE Shorter(Servers, mem'.servers, screen.sid)
    <2>1. PICK f : /\ f \in [DOMAIN mem'.servers -> {x \in DOMAIN Servers : Servers[x].id # screen.sid}]
                   /\ \A x \in DOMAIN Servers :
                         Servers[x].id # screen.sid => \E k \in DOMAIN mem'.servers : f[k] = x
                   /\ \A k \in DOMAIN mem'.servers :
                         \/ mem'.servers[k] = Servers[f[k]]
                         \/ /\ Servers[f[k]].jump = screen.sid
                            /\ mem'.servers[k] = [Servers[f[k]] EXCEPT !.jump = 0]
      BY <1>6 DEF Shorter
    <2>2. PICK k \in DOMAIN mem'.servers : f[k] = i
      BY <1>1, <1>2, <2>1
    <2>3. CASE mem'.servers[k] = Servers[i]
      BY <1>3, <2>3
    <2>4. CASE Servers[i].jump = screen.sid /\ mem'.servers[k] = [Servers[i] EXCEPT !.jump = 0]
      <3>1. CASE screen.sid = 0
        <4>1. IsServer(Servers[i])
          BY DEF AppInv, VaultInv, IsVault, Servers
        <4>2. PICK s : s = Servers[i]
          OBVIOUS
        <4>3. "jump" \in DOMAIN s /\ s = [x \in DOMAIN s |-> s[x]] /\ s.jump = 0
          BY <2>4, <3>1, <4>1, <4>2, ServerFields
        <4>4. [s EXCEPT !.jump = 0] = s
          BY <4>3
        <4> QED
          BY <1>3, <2>4, <4>2, <4>4
      <3>2. CASE screen.sid = shown
        <4>1. ASSUME NEW x \in DOMAIN mem'.servers PROVE mem'.servers[x].id # shown
          <5>1. f[x] \in DOMAIN Servers /\ Servers[f[x]].id # shown
            BY <2>1, <3>2
          <5>2. PICK s : s = Servers[f[x]] /\ IsServer(s)
            BY <5>1 DEF AppInv, VaultInv, IsVault, Servers
          <5>3. [s EXCEPT !.jump = 0].id = s.id
            BY <5>2, ServerFields
          <5> QED
            BY <2>1, <5>1, <5>2, <5>3
        <4>2. shown \notin ServersIn(mem')
          BY <4>1 DEF ServersIn, IdsOf
        <4> QED
          BY <1>1, <2>4, <4>2, KeptIf DEF AppInv
      <3> QED
        BY <1>2, <3>1, <3>2
    <2> QED
      BY <2>1, <2>2, <2>3, <2>4
  <1> QED
    BY <1>4, <1>5, <1>6 DEF DeskEdit, Running, Forgotten

LEMMA SessionKeepsOthers ==
    ASSUME AppInv, VaultInv', SessionEdit, Running, NEW id \in ServersIn(mem), id # link.sid
    PROVE  Kept(id)
  <1>1. PICK i \in DOMAIN Servers : Servers[i].id = id /\ IsServer(Servers[i])
    BY DEF ServersIn, IdsOf, Servers, AppInv, VaultInv, IsVault
  <1>2. CASE mem' = mem
    BY <1>1, <1>2, KeptIf DEF AppInv, Servers
  <1>3. CASE Recorded
    <2>1. PICK o : mem'.servers = [x \in DOMAIN Servers |-> Pinned(o, Servers[x])]
      BY <1>3 DEF Recorded
    <2>2. i \in DOMAIN mem'.servers /\ mem'.servers[i] = Pinned(o, Servers[i])
      BY <2>1
    <2>3. Pinned(o, Servers[i]) = [Servers[i] EXCEPT !.pin = Pinned(o, Servers[i]).pin]
      BY <1>1, PinnedIs
    <2>4. pc # "idle"
      BY <1>3 DEF Recorded
    <2> QED
      BY <1>1, <2>2, <2>3, <2>4, KeptIf DEF AppInv
  <1> QED
    BY <1>2, <1>3 DEF SessionEdit, Running, Forgotten

LEMMA OthersAreKept ==
    ASSUME AppInv, [Next]_vars, Running, NEW id \in ServersIn(mem) \ {shown, link.sid}
    PROVE  Kept(id)
  <1>1. VaultInv' /\ ((pc = "idle" /\ DeskEdit) \/ SessionEdit \/ UNCHANGED vars)
    BY AppStep DEF AppInv
  <1>2. ASSUME UNCHANGED vars PROVE SessionEdit
    BY <1>2 DEF vars, desk, SessionEdit
  <1> QED
    BY <1>1, <1>2, DeskKeepsOthers, SessionKeepsOthers

\* OnlyShownIsTouched: whatever screen is left, submitted or confirmed, another
\* server than the one it was opened on keeps all it has, but for a jump to a
\* deleted one; a session pins its hops and no more (apply_local_step,
\* mutate_forwards, record_session).
THEOREM OthersAreLeftAlone == Spec => OnlyShownIsTouched
  <1>1. AppInv /\ [Next]_vars => AppInv'
    BY AppStep
  <1>2. ASSUME AppInv, [Next]_vars
        PROVE  [Running => \A id \in ServersIn(mem) \ {shown, link.sid} :
                  /\ id \in ServersIn(mem')
                  /\ Same(id)
                  /\ pc = "idle" => Find(mem'.servers, id).pin = Find(mem.servers, id).pin
                  /\ Find(mem'.servers, id).jump \in {Find(mem.servers, id).jump}
                        \cup (IF shown \in ServersIn(mem') THEN {} ELSE {0})]_vars
    BY <1>2, OthersAreKept DEF Kept
  <1> QED
    BY AppInitially, <1>1, <1>2, PTL DEF Spec, OnlyShownIsTouched

-----------------------------------------------------------------------------
\* What the import adds.

LEMMA ImportedIsNew ==
    ASSUME AppInv, screen.at = "import", NEW k \in DOMAIN Imported, NEW j \in DOMAIN Servers
    PROVE  <<Imported[k].host, Imported[k].port, Imported[k].user>>
              # <<Servers[j].host, Servers[j].port, Servers[j].user>>
  <1>1. k \in DOMAIN Picked /\ RowsInv
    BY DEF Imported, AppInv, OpenInv
  <1>2. PICK m \in DOMAIN screen.rows : screen.rows[m].checked /\ Picked[k] = screen.rows[m]
    BY <1>1, PickedRows DEF RowsInv
  <1>3. PICK row : row = screen.rows[m] /\ IsRow(row) /\ row.checked
    BY <1>1, <1>2 DEF RowsInv
  <1>4. ~SameHost(Servers[j], row.host)
    BY <1>3 DEF IsRow
  <1>5. /\ Imported[k].host = row.host.hostname /\ Imported[k].port = Or(row.host.port, DefaultPort)
        /\ Imported[k].user = Or(row.host.user, LocalUser)
    BY <1>1, <1>2, <1>3 DEF Imported, NewServer, Username
  <1> QED
    BY <1>4, <1>5 DEF SameHost, Or

LEMMA ImportAdds ==
    ASSUME AppInv, [Next]_vars, screen.at = "import", app' = "open",
           NEW i \in (Len(mem.servers) + 1)..Len(mem'.servers), NEW j \in DOMAIN mem.servers
    PROVE  <<mem'.servers[i].host, mem'.servers[i].port, mem'.servers[i].user>>
              # <<mem.servers[j].host, mem.servers[j].port, mem.servers[j].user>>
  <1>1. pc = "idle" /\ app = "open"
    BY DEF AppInv, OpenInv, SessionScreens
  <1>2. DOMAIN mem.servers = 1..Len(mem.servers) /\ Len(mem.servers) \in Nat
    BY Lists DEF AppInv, VaultInv, IsVault
  <1>3. mem' # mem
    BY <1>2
  <1>4. DeskEdit /\ ~Forgotten
    BY <1>1, <1>3, AppStep DEF SessionEdit, Recorded, Forgotten, vars, desk
  <1>5. ~SameBut(Servers, mem'.servers, screen.sid)
    <2> SUFFICES ASSUME SameBut(Servers, mem'.servers, screen.sid) PROVE FALSE
      OBVIOUS
    <2>1. DOMAIN mem'.servers = 1..Len(mem'.servers) /\ Len(mem'.servers) \in Nat
          /\ DOMAIN mem'.servers = DOMAIN mem.servers
      BY Lists DEF SameBut, Servers
    <2> QED
      BY <1>2, <2>1
  <1>6. mem'.servers = Servers \o Imported
    BY <1>1, <1>4, <1>5 DEF DeskEdit
  <1>7. /\ IsList(Servers) /\ IsList(Imported)
    BY ImportedServers DEF AppInv, VaultInv, OpenInv, RowsInv, IsVault, Servers
  <1>8. \E k \in DOMAIN Imported : mem'.servers[i] = Imported[k]
    <2>1. PICK old, more : /\ old = Servers /\ more = Imported /\ IsList(old) /\ IsList(more)
                           /\ mem'.servers = old \o more /\ old = mem.servers
      BY <1>6, <1>7 DEF Servers
    <2>2. /\ Len(old \o more) = Len(old) + Len(more)
          /\ \A x \in DOMAIN more : (old \o more)[Len(old) + x] = more[x]
      BY <2>1, JoinedList
    <2>3. Len(old) \in Nat /\ Len(more) \in Nat /\ DOMAIN more = 1..Len(more)
      BY <2>1, Lists
    <2>4. i - Len(old) \in DOMAIN more /\ Len(old) + (i - Len(old)) = i
      BY <2>1, <2>2, <2>3
    <2> QED
      BY <2>1, <2>2, <2>4
  <1> QED
    BY <1>8, ImportedIsNew DEF Servers

\* ImportAddsEachOnce: no server of the vault is imported again, whichever boxes
\* were ticked and however often an import failed first (import_ssh_hosts).
THEOREM ImportsAreNew == Spec => ImportAddsEachOnce
  <1>1. AppInv /\ [Next]_vars => AppInv'
    BY AppStep
  <1>2. ASSUME AppInv, [Next]_vars
        PROVE  [screen.at = "import" /\ app' = "open" =>
          \A i \in (Len(mem.servers) + 1)..Len(mem'.servers) : \A j \in DOMAIN mem.servers :
             LET new == mem'.servers[i] old == mem.servers[j]
             IN <<new.host, new.port, new.user>> # <<old.host, old.port, old.user>>]_vars
    BY <1>2, ImportAdds
  <1> QED
    BY AppInitially, <1>1, <1>2, PTL DEF Spec, ImportAddsEachOnce
=============================================================================
