-------------------------------- MODULE Desk --------------------------------
(***************************************************************************)
(* The unlocked app between two sessions: App::run, resolve_next_step and  *)
(* apply_local_step of src/app.rs with the list and form screens of        *)
(* src/tui.  One key is one action; every edit saves the whole config and  *)
(* the save may fail.                                                      *)
(*                                                                         *)
(* The vault's own files are Vault's; here disk is the config the next     *)
(* unlock reads.  shown is history: the server under the cursor when the   *)
(* menu was left, for as long as another screen is open.  The help         *)
(* overlay is left out: it takes the next key, whichever it is, and        *)
(* changes nothing else.                                                   *)
(***************************************************************************)
EXTENDS Integers, Roster

CONSTANTS
    Configs,         \* the vaults to start from
    Drafts,          \* what a server form can submit, but for the jump host
    ScriptDrafts,    \* what a script form can submit
    RuleKinds,       \* what a forward form can submit
    Filters,         \* what can be typed after "/"
    ConfigFiles,     \* the ~/.ssh/config texts, as lines
    FirstId,         \* the ids from here on are new
    MaxWork          \* bound: edits and sessions

ASSUME DeskAssumption ==
    /\ FirstId \in Nat \ {0} /\ MaxWork \in Nat /\ MaxJumps \in Nat /\ IsList(Alphabet)
    /\ \A c \in Configs :
          /\ c = [servers |-> c.servers, sort |-> c.sort, mode |-> c.mode, lock |-> c.lock]
          /\ ConfigOK(c, FirstId) /\ IsVault(c.servers, FirstId)
    /\ \A data \in Drafts :
          data.name \in Texts /\ data.host \in Texts /\ data.tag \in Texts \cup {None}
    /\ RuleKinds \subseteq ForwardKinds
    /\ \A file \in ConfigFiles :
          /\ \E n \in 0..Len(file) : DOMAIN Parse(file) = 1..n
          /\ \A i \in DOMAIN Parse(file) :
                Parse(file)[i].alias \in Texts /\ Parse(file)[i].hostname \in Texts

VARIABLES
    mem,       \* UnlockedState.config
    disk,      \* the config as last saved
    app,       \* "open", "locked" or "quit"
    screen,    \* Screen, with the state of the screen it is
    menu,      \* MainMenuState, while the menu is on screen
    status,    \* UnlockedState.status
    shown,     \* history: the server the screens were opened on
    nextId,    \* the next Uuid
    work       \* bound

desk == <<mem, disk, app, screen, menu, status, shown, nextId, work>>

NoConfig == [servers |-> <<>>, sort |-> "name", mode |-> "full", lock |-> 0]
NoScreen == [at |-> "menu", sid |-> 0, item |-> 0, cur |-> 0, choices |-> <<>>, pick |-> 0,
             rows |-> <<>>, err |-> FALSE]
Screen(at, sid) == [NoScreen EXCEPT !.at = at, !.sid = sid]

Servers == mem.servers
Here == Find(Servers, screen.sid)
WithServers(servers) == [mem EXCEPT !.servers = servers]
Edited(sid, Change(_)) == WithServers(Update(Servers, sid, Change))

---------------------------------------------------------------------------
\* Saving.  store.save writes the whole config or nothing.

\* Bound: work.  A jump is chosen and a box ticked only as long as there is some,
\* since what is chosen can be submitted no more without it.
Pay == work > 0 /\ work' = work - 1
Save(config, ok) == disk' = IF ok THEN config ELSE disk

\* The change stays in memory when it could not be saved.
Keep(config, ok) == Pay /\ mem' = config /\ Save(config, ok)

\* The change is taken back when it could not be saved.
KeepIfSaved(config, ok) == Pay /\ mem' = (IF ok THEN config ELSE mem) /\ Save(config, ok)

AlwaysDone(ok) == status' = "done"                       \* mutant: the error is dropped
Report(ok) == status' = IF ok THEN "done" ELSE "failed"

---------------------------------------------------------------------------
\* Keys and screens

Key == app = "open"
At(at) == Key /\ screen.at = at
InMenu == At("menu") /\ ~menu.typing

SelectedRaw == SelectedIndex(Servers, menu, mem.sort)    \* mutant: the row as an index
Selected == SelectedEntry(Servers, menu, mem.sort)
\* selected_entry is Some.
IsSelected == Selected \in IdsOf(Servers)
UnderCursor == SelectedEntry(Servers, menu, mem.sort)

Leave(to) == screen' = to /\ menu' = FreshMenu /\ shown' = UnderCursor
Show(to) == screen' = to /\ UNCHANGED <<menu, shown>>

FirstRow(servers, sort, anchor) ==                       \* mutant: a new list, as in #62
    screen' = NoScreen /\ menu' = FreshMenu /\ shown' = 0
BackToMenu(servers, sort, anchor) ==
    screen' = NoScreen /\ menu' = Anchored(servers, sort, anchor) /\ shown' = 0

Calm == UNCHANGED <<mem, disk, app, nextId, work>>
Quiet == Calm /\ UNCHANGED status

ExpireStatus ==
    /\ app = "open" /\ status # "none"
    /\ status' = "none"
    /\ Calm /\ UNCHANGED <<screen, menu, shown>>

---------------------------------------------------------------------------
\* The menu

InList(m) == menu' = m /\ Quiet /\ UNCHANGED <<screen, shown>>
RowCount == Len(Visible(Servers, menu.filter, mem.sort))

MoveSelection ==
    /\ At("menu")
    /\ \E up \in BOOLEAN : InList([menu EXCEPT !.cur = Moved(@, up, RowCount)])

StartTyping == InMenu /\ InList([menu EXCEPT !.typing = TRUE])

PushOnly(m, anchor) == m                                 \* mutant: the row is kept
Refiltered(m, anchor) == Reanchor(Servers, m, mem.sort, anchor)

TypeFilter ==
    /\ At("menu") /\ menu.typing
    /\ \E text \in Filters \cup {None} :
          InList(Refiltered([menu EXCEPT !.filter = text], Selected))

ClearFilter == Refiltered([menu EXCEPT !.filter = None, !.typing = FALSE], Selected)

EscapeFilter == At("menu") /\ (menu.typing \/ menu.filter # None) /\ InList(ClearFilter)

CycleServerSort ==
    /\ InMenu
    /\ LET to == NextSort(mem.sort)
       IN /\ menu' = Reanchor(Servers, menu, to, Selected)
          /\ \E ok \in BOOLEAN :
                /\ Keep([mem EXCEPT !.sort = to], ok)
                /\ IF ok THEN UNCHANGED status ELSE Report(FALSE)
    /\ UNCHANGED <<app, screen, shown, nextId>>

\* The server keys do nothing in an empty list.
Open(to) == InMenu /\ IsSelected /\ Leave(to) /\ Quiet

GoAdd ==
    /\ InMenu /\ Quiet
    /\ Leave([Screen("form", 0) EXCEPT !.choices = IdList(Servers)])

JumpToOthers == OthersOnly(Servers, Selected)            \* mutant: loops are offered
JumpChoices == JumpCandidates(Servers, Selected)

GoEdit ==
    LET at == {k \in DOMAIN JumpChoices : JumpChoices[k] = Find(Servers, Selected).jump}
    IN Open([Screen("form", Selected) EXCEPT
               !.choices = JumpChoices, !.pick = IF at = {} THEN 0 ELSE CHOOSE k \in at : TRUE])

GoDelete   == Open(Screen("confirm", Selected))
GoScripts  == Open(Screen("scripts", Selected))
GoForwards == Open(Screen("forwards", Selected))
GoSettings == InMenu /\ Leave(Screen("settings", 0)) /\ Quiet

\* open_files_flow: Files has the detail; a failed connect stays on the menu.
GoFiles ==
    \/ Open(Screen("files", Selected))
    \/ InMenu /\ IsSelected /\ Report(FALSE) /\ Calm /\ UNCHANGED <<screen, menu, shown>>

GoSshImport ==
    /\ InMenu /\ Quiet
    /\ \/ \E file \in ConfigFiles :
             Leave([Screen("import", 0) EXCEPT !.rows = ImportRows(file, Servers)])
       \/ Leave([Screen("import", 0) EXCEPT !.err = TRUE])

\* FormCancel, ConfirmNo, ScriptsBack, ForwardsBack, SettingsClose, SshImportCancel
Back ==
    /\ Key /\ screen.at \in {"form", "confirm", "scripts", "forwards", "settings", "import"}
    /\ BackToMenu(Servers, mem.sort, screen.sid)
    /\ Quiet

\* remember_browser_dirs saves the directories and reports nothing.
FilesBack ==
    /\ At("files")
    /\ \E ok \in BOOLEAN : Keep(Edited(screen.sid, LAMBDA s : [s EXCEPT !.dirs = TRUE]), ok)
    /\ BackToMenu(Servers, mem.sort, screen.sid)
    /\ UNCHANGED <<app, status, nextId>>

---------------------------------------------------------------------------
\* The server form and the delete question

CycleJumpHost ==
    /\ At("form") /\ screen.choices # <<>> /\ work > 0
    /\ LET len == Len(screen.choices)
       IN \E step \in {1, len} :
             Show([screen EXCEPT !.pick = (@ + step) % (len + 1), !.err = FALSE])
    /\ Quiet

RefuseForm == At("form") /\ Show([screen EXCEPT !.err = TRUE]) /\ Quiet

Jump == IF screen.pick = 0 THEN 0 ELSE screen.choices[screen.pick]

Filled(server, data) ==
    [server EXCEPT !.name = data.name, !.host = data.host, !.port = data.port,
                   !.user = data.user, !.tag = data.tag, !.jump = Jump]

SubmitForm ==
    /\ At("form")
    /\ \E data \in Drafts, ok \in BOOLEAN :
          LET adds == screen.sid = 0
              fresh == NewServer(nextId, data.name, data.host, data.port, data.user)
              servers == IF adds THEN Append(Servers, Filled(fresh, data))
                         ELSE Update(Servers, screen.sid, LAMBDA s : Filled(s, data))
          IN /\ Keep(WithServers(servers), ok)
             /\ nextId' = IF adds THEN nextId + 1 ELSE nextId
             /\ IF ok THEN BackToMenu(servers, mem.sort, IF adds THEN nextId ELSE screen.sid)
                           /\ Report(TRUE)
                ELSE Show([screen EXCEPT !.err = TRUE]) /\ UNCHANGED status
    /\ UNCHANGED app

ClearJumps(servers, id) ==
    [i \in DOMAIN servers |->
        IF servers[i].jump = id THEN [servers[i] EXCEPT !.jump = 0] ELSE servers[i]]

ConfirmDelete ==
    /\ At("confirm")
    /\ LET servers == ClearJumps(Without(Servers, screen.sid), screen.sid)
       IN \E ok \in BOOLEAN :
             /\ Keep(WithServers(servers), ok)
             /\ BackToMenu(servers, mem.sort, screen.sid)
             /\ Report(ok)
    /\ UNCHANGED <<app, nextId>>

---------------------------------------------------------------------------
\* Scripts

Scripts == Here.scripts
ScriptsList == Screen("scripts", screen.sid)
InScripts(change(_)) ==
    Edited(screen.sid, LAMBDA s : [s EXCEPT !.scripts = change(@)])

MoveRow(at, rows) ==
    /\ At(at)
    /\ \E up \in BOOLEAN : Show([screen EXCEPT !.cur = Moved(@, up, rows)])
    /\ Quiet

MoveScript == MoveRow("scripts", Len(Scripts))

OnScript(to) ==
    /\ At("scripts") /\ screen.cur < Len(Scripts)
    /\ Show([Screen(to, screen.sid) EXCEPT !.item = Scripts[screen.cur + 1].id])
    /\ Quiet

GoScriptAdd == At("scripts") /\ Show(Screen("scriptform", screen.sid)) /\ Quiet
GoScriptEdit == OnScript("scriptform")
GoScriptDelete == OnScript("scriptconfirm")

\* The script's own server starts checked.
GoScriptTargets ==
    /\ At("scripts") /\ screen.cur < Len(Scripts)
    /\ Show([Screen("targets", screen.sid) EXCEPT !.item = Scripts[screen.cur + 1].id,
                                                  !.choices = <<screen.sid>>])
    /\ Quiet

BackToScripts ==
    /\ Key /\ screen.at \in {"scriptform", "scriptconfirm", "targets", "run"}
    /\ Show(ScriptsList)
    /\ Quiet

SubmitScriptForm ==
    /\ At("scriptform")
    /\ \E data \in ScriptDrafts, ok \in BOOLEAN :
          LET adds == screen.item = 0
              change(list) == IF adds THEN Append(list, NewScript(nextId, data))
                              ELSE Update(list, screen.item, LAMBDA s : NewScript(s.id, data))
          IN /\ Keep(InScripts(change), ok)
             /\ nextId' = IF adds THEN nextId + 1 ELSE nextId
             /\ IF ok THEN Show(ScriptsList) /\ Report(TRUE)
                ELSE Show([screen EXCEPT !.err = TRUE]) /\ UNCHANGED status
    /\ UNCHANGED app

ConfirmDeleteScript ==
    /\ At("scriptconfirm")
    /\ \E ok \in BOOLEAN :
          /\ Keep(InScripts(LAMBDA list : Without(list, screen.item)), ok)
          /\ Report(ok)
    /\ Show(ScriptsList)
    /\ UNCHANGED <<app, nextId>>

MoveTarget == MoveRow("targets", Len(Servers))

\* The boxes: run_order does not look at the order they were ticked in.
RunOrder(checked) ==
    EntriesAt(IdList(Servers), {i \in DOMAIN Servers : Servers[i].id \in checked})

ToggleTarget ==
    /\ At("targets") /\ screen.cur < Len(Servers) /\ work > 0
    /\ LET id == Servers[screen.cur + 1].id
       IN Show([screen EXCEPT !.choices =
                  RunOrder(IF Contains(@, id) THEN ToSet(@) \ {id} ELSE ToSet(@) \cup {id})])
    /\ Quiet

ToggleAllTargets ==
    /\ At("targets") /\ work > 0
    /\ Show([screen EXCEPT !.choices =
               RunOrder(IF Len(@) = Len(Servers) THEN {} ELSE IdsOf(Servers))])
    /\ Quiet

---------------------------------------------------------------------------
\* Forwards

Rules == Here.forwards
RulesList == Screen("forwards", screen.sid)
InRules(sid, change(_)) == Edited(sid, LAMBDA s : [s EXCEPT !.forwards = change(@)])

MoveRule == MoveRow("forwards", Len(Rules))

OnRule(to) ==
    /\ At("forwards") /\ screen.cur < Len(Rules)
    /\ Show([Screen(to, screen.sid) EXCEPT !.item = Rules[screen.cur + 1].id])
    /\ Quiet

GoForwardAdd == At("forwards") /\ Show(Screen("forwardform", screen.sid)) /\ Quiet
GoForwardEdit == OnRule("forwardform")
GoForwardDelete == OnRule("forwardconfirm")

BackToForwards ==
    /\ Key /\ screen.at \in {"forwardform", "forwardconfirm"}
    /\ Show(RulesList)
    /\ Quiet

MutateForwards(change(_)) ==
    /\ \E ok \in BOOLEAN : Keep(InRules(screen.sid, change), ok) /\ Report(ok)
    /\ UNCHANGED app

ToggleForward ==
    /\ At("forwards") /\ screen.cur < Len(Rules)
    /\ LET id == Rules[screen.cur + 1].id
       IN MutateForwards(LAMBDA list :
            Update(list, id, LAMBDA r : [r EXCEPT !.enabled = ~@]))
    /\ Show(screen)
    /\ UNCHANGED nextId

SubmitForwardForm ==
    /\ At("forwardform")
    /\ LET adds == screen.item = 0
       IN /\ \E kind \in RuleKinds :
                MutateForwards(LAMBDA list :
                  IF adds THEN Append(list, NewRule(nextId, kind))
                  ELSE Update(list, screen.item, LAMBDA r : [r EXCEPT !.kind = kind]))
          /\ nextId' = IF adds THEN nextId + 1 ELSE nextId
    /\ Show(RulesList)

ConfirmDeleteForward ==
    /\ At("forwardconfirm")
    /\ MutateForwards(LAMBDA list : Without(list, screen.item))
    /\ Show(RulesList)
    /\ UNCHANGED nextId

---------------------------------------------------------------------------
\* Settings and the import

\* set_auto_lock and set_connect_mode take a value back that was not saved.
SaveSetting ==
    /\ At("settings")
    /\ \E ok \in BOOLEAN :
          /\ \/ KeepIfSaved([mem EXCEPT !.lock = 1 - @], ok)
             \/ KeepIfSaved([mem EXCEPT !.mode = OtherMode(@)], ok)
          /\ Show([screen EXCEPT !.err = ~ok])
    /\ UNCHANGED <<app, status, nextId>>

Picked == EntriesAt(screen.rows, {i \in DOMAIN screen.rows : screen.rows[i].checked})
CheckAll(rows, want) ==
    [i \in DOMAIN rows |-> [rows[i] EXCEPT !.checked = want /\ ~rows[i].present]]

MoveImport == MoveRow("import", Len(screen.rows))

ToggleImport ==
    /\ At("import") /\ screen.cur < Len(screen.rows) /\ work > 0
    /\ ~screen.rows[screen.cur + 1].present
    /\ Show([screen EXCEPT !.rows[screen.cur + 1].checked = ~@])
    /\ Quiet

ToggleAllImports ==
    /\ At("import") /\ work > 0
    /\ LET importable == SelectSeq(screen.rows, LAMBDA row : ~row.present)
       IN Show([screen EXCEPT !.rows = CheckAll(@, Len(Picked) # Len(importable))])
    /\ Quiet

Imported == [i \in DOMAIN Picked |->
    LET host == Picked[i].host
    IN NewServer(nextId + i - 1, host.alias, host.hostname, Or(host.port, DefaultPort), Username(host))]

ImportSshHosts ==
    /\ At("import") /\ Picked # <<>>
    /\ LET servers == Servers \o Imported
       IN \E ok \in BOOLEAN :
             /\ KeepIfSaved(WithServers(servers), ok)
             /\ IF ok THEN BackToMenu(servers, mem.sort, 0) /\ Report(TRUE)
                ELSE Show([screen EXCEPT !.err = TRUE]) /\ UNCHANGED status
    /\ nextId' = nextId + Len(Picked)
    /\ UNCHANGED app

---------------------------------------------------------------------------
\* Leaving and coming back

Forget(to) ==
    /\ app' = to /\ mem' = NoConfig /\ screen' = NoScreen /\ menu' = FreshMenu
    /\ status' = "none" /\ shown' = 0
    /\ UNCHANGED <<disk, nextId, work>>

Lock == InMenu /\ Forget("locked")
AutoLockIfIdle == app = "open" /\ mem.lock # 0 /\ Forget("locked")
Quit == InMenu /\ Forget("quit")

Unlock ==
    /\ app # "open"
    /\ app' = "open" /\ mem' = disk
    /\ UNCHANGED <<disk, screen, menu, status, shown, nextId, work>>

DeskInit ==
    /\ disk \in Configs /\ mem = NoConfig
    /\ app = "locked" /\ screen = NoScreen /\ menu = FreshMenu
    /\ status = "none" /\ shown = 0 /\ nextId = FirstId /\ work = MaxWork

MenuKey == MoveSelection \/ StartTyping \/ TypeFilter \/ EscapeFilter \/ CycleServerSort
           \/ GoAdd \/ GoEdit \/ GoDelete \/ GoScripts \/ GoForwards \/ GoSettings \/ GoFiles
           \/ GoSshImport \/ Lock \/ Quit
ServerKey == Back \/ FilesBack \/ CycleJumpHost \/ RefuseForm \/ SubmitForm \/ ConfirmDelete
ScriptKey == MoveScript \/ GoScriptAdd \/ GoScriptEdit \/ GoScriptDelete \/ GoScriptTargets
             \/ BackToScripts \/ SubmitScriptForm \/ ConfirmDeleteScript \/ MoveTarget
             \/ ToggleTarget \/ ToggleAllTargets
RuleKey == MoveRule \/ GoForwardAdd \/ GoForwardEdit \/ GoForwardDelete \/ BackToForwards
           \/ ToggleForward \/ SubmitForwardForm \/ ConfirmDeleteForward
OtherKey == SaveSetting \/ MoveImport \/ ToggleImport
            \/ ToggleAllImports \/ ImportSshHosts

DeskKey == MenuKey \/ ServerKey \/ ScriptKey \/ RuleKey \/ OtherKey \/ Unlock
DeskTimer == ExpireStatus \/ AutoLockIfIdle

DeskNext == DeskKey \/ DeskTimer
=============================================================================
