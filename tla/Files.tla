------------------------------- MODULE Files -------------------------------
(***************************************************************************)
(* The file browser and its transfers: open_files_flow, list_remote_flow,  *)
(* transfer_flow and run_transfer of src/app.rs, src/ssh/transfer.rs and   *)
(* src/tui/file_browser.rs, over one SftpClient session.                   *)
(*                                                                         *)
(* App::run is blocked inside a flow, so keys are read only when pc is     *)
(* "idle", except Esc, which a transfer polls for after every event.  pc   *)
(* names what the flow awaits or does next, job what it holds.  Server and *)
(* connection act on their own between any two of its steps.               *)
(***************************************************************************)
EXTENDS FileTree, SftpClient, FiniteSets

CONSTANTS
    Worlds,      \* the pairs of trees [local, remote] to start from
    Unset,
    MaxKeys,     \* bound: keys read in the browser
    MaxFaults    \* bound: time limits, refusals, losses and local errors

ASSUME BoundsAssumption == MaxKeys \in Nat /\ MaxFaults \in Nat /\ Unset \notin Contents

VARIABLES
    disk,      \* what is on each side
    panes,     \* PaneState of each side, with the directory it shows
    focus,     \* FileBrowserState.focus
    hidden,    \* FileBrowserState.show_hidden
    lastDir,   \* the directories saved in the vault for the next visit
    pc, job, lister,
    keys, faults

browser == <<panes, focus, hidden, lastDir>>
vars == <<client, disk, browser, pc, job, lister, keys, faults>>

Sides == {"local", "remote"}
Other(s) == IF s = "local" THEN "remote" ELSE "local"

ASSUME WorldsAssumption ==
    \A world \in Worlds, s \in Sides :
       /\ <<>> \notin DOMAIN world[s]
       /\ \A q \in DOMAIN world[s] : world[s][q] \in Contents \cup {"dir", "link"}

Paths == Seq(NameSet)
Ops == {"realpath", "opendir", "readdir", "stat", "mkdir", "create", "write", "open",
        "read", "close", "remove", "discard", "rename"}
\* What Requests and Replies of SftpClient are here.
FileRequests == [op : Ops, path : Paths, off : 0..Chunks, ver : Contents \cup {Unset}]
Kinds == Contents \cup {"dir", "link", "piece"}
FileReplies == [code : {"ok", "status", "none", "dir", "file", "eof"},
                entries : SUBSET [name : NameSet, kind : Kinds]]

---------------------------------------------------------------------------
\* Requests

Req(op, path) == [op |-> op, path |-> path, off |-> 0, ver |-> Unset]
Ask(op, path, next) == Issue(Req(op, path)) /\ pc' = next
AskWrite(path, off, next) == Issue([Req("write", path) EXCEPT !.off = off]) /\ pc' = next
AskRead(path, off, next) == Issue([Req("read", path) EXCEPT !.off = off]) /\ pc' = next
AskCreate(path, ver, next) == Issue([Req("create", path) EXCEPT !.ver = ver]) /\ pc' = next

Returned == call.st \in {"answered", "fatal"}
Got(codes) == call.st = "answered" /\ call.ans.code \in codes
AnyStatus == call.st = "answered"              \* mutant: a refusal passes for success
Ok == Got({"ok"})

\* drop_remote_if_fatal: a status keeps the session, anything else ends it.
Fatal == call.st = "fatal"

Pay(n) == faults >= n /\ faults' = faults - n
Maybe(fault) == Pay(IF fault THEN 1 ELSE 0)

---------------------------------------------------------------------------
\* The panes

EmptyPane == [cwd |-> <<>>, entries |-> <<>>, cur |-> 0, marked |-> {}, err |-> FALSE]

Listed(pane) == {pane.entries[i].name : i \in DOMAIN pane.entries}

Clamp(cur, rows) == IF rows = 0 THEN 0 ELSE IF cur >= rows THEN rows - 1 ELSE cur

RetainMarks(pane, rows) == pane.marked \cap {rows[i].name : i \in DOMAIN rows}

SetEntries(pane, entries) ==
    LET rows == Sorted(entries)
    IN [pane EXCEPT !.entries = rows, !.marked = RetainMarks(pane, rows),
                    !.cur = Clamp(pane.cur, Len(rows)), !.err = FALSE]

Enter(pane, cwd) == [EmptyPane EXCEPT !.cwd = cwd, !.err = pane.err]

\* A directory that cannot be read leaves no rows, and its marks.
ReloadLocal(pane, show, readable) ==
    IF readable /\ At(disk["local"].tree, pane.cwd) = "dir"
      THEN SetEntries(pane, Visible(Entries(disk["local"].tree, pane.cwd), show))
      ELSE [pane EXCEPT !.entries = <<>>, !.err = TRUE]

SetRemote(pane, cwd, entries) ==
    SetEntries(IF cwd = pane.cwd THEN pane ELSE Enter(pane, cwd), Visible(entries, hidden))

Row(pane) == pane.entries[pane.cur + 1]
HasRow(pane) == pane.cur < Len(pane.entries)

TransferSelection(pane) ==
    IF pane.marked # {} THEN Sorted({e \in Range(pane.entries) : e.name \in pane.marked})
    ELSE IF HasRow(pane) THEN <<Row(pane)>> ELSE <<>>

---------------------------------------------------------------------------
\* A listing: opendir, the batches of readdir up to EOF as one answer, close.

NoList == [path |-> <<>>, then |-> "none", result |-> "none", entries |-> {}]

ListDir(path, then) ==
    /\ Ask("opendir", path, "opendir")
    /\ lister' = [path |-> path, then |-> then, result |-> "none", entries |-> {}]

ResultOf == IF Ok THEN "ok" ELSE IF Fatal THEN "fatal" ELSE "status"

OpendirWaits ==                                \* mutant: an error does not end the listing
    /\ pc = "opendir" /\ Ok
    /\ Ask("readdir", lister.path, "readdir")
    /\ UNCHANGED <<disk, browser, job, lister, keys, faults>>

Opendir ==
    /\ pc = "opendir" /\ Returned
    /\ IF Ok THEN Ask("readdir", lister.path, "readdir") /\ UNCHANGED lister
       ELSE /\ pc' = "listed" /\ lister' = [lister EXCEPT !.result = ResultOf]
            /\ UNCHANGED client
    /\ UNCHANGED <<disk, browser, job, keys, faults>>

\* The handle is closed after an error too, and the close may fail unseen.
Readdir ==
    /\ pc = "readdir" /\ Returned
    /\ lister' = [lister EXCEPT !.result = ResultOf,
                                !.entries = IF Ok THEN call.ans.entries ELSE {}]
    /\ Ask("close", lister.path, "closedir")
    /\ UNCHANGED <<disk, browser, job, keys, faults>>

Closedir ==
    /\ pc = "closedir" /\ Returned
    /\ pc' = "listed"
    /\ UNCHANGED <<client, disk, browser, job, lister, keys, faults>>

ShowRemote ==
    panes' = [panes EXCEPT !["remote"] =
                IF lister.result = "ok" THEN SetRemote(@, lister.path, lister.entries)
                ELSE [@ EXCEPT !.err = TRUE]]

KeepDesynced == UNCHANGED client               \* mutant: the session is kept
DropIfFatal == IF lister.result = "fatal" THEN Drop ELSE UNCHANGED client

\* open_files_flow and list_remote_flow take the answer alike.
ListingShown ==
    /\ pc = "listed" /\ lister.then \in {"open", "browse"}
    /\ ShowRemote /\ DropIfFatal
    /\ pc' = "idle" /\ lister' = NoList
    /\ UNCHANGED <<disk, focus, hidden, lastDir, job, keys, faults>>

---------------------------------------------------------------------------
\* Opening and leaving the browser

EmptyJob == [side |-> "local", todo |-> <<>>, plan |-> <<>>, at |-> 0, off |-> 0,
             sticky |-> "none", agreed |-> {}, out |-> "none", before |-> <<>>,
             files |-> {}, failures |-> {}, cancelled |-> FALSE]

Busy == pc \notin {"menu", "idle", "ask"}

\* The connection and the sftp subsystem came up, or failed, or Esc was hit.
OpenFiles ==
    /\ pc = "menu"
    /\ Open /\ pc' = "login"
    /\ UNCHANGED <<disk, browser, job, lister, keys, faults>>

StartDir(s) == IF lastDir[s] = Unset THEN <<>> ELSE lastDir[s]

Login ==
    /\ pc = "login"
    /\ Ask("realpath", StartDir("remote"), "realpath")
    /\ UNCHANGED <<disk, browser, job, lister, keys, faults>>

\* The remembered directory is gone, or realpath failed: ask for ".".
FallBack ==
    /\ pc = "realpath" /\ Returned /\ ~Ok
    /\ Ask("realpath", <<>>, "fallback")
    /\ UNCHANGED <<disk, browser, job, lister, keys, faults>>

\* FileBrowserState::new, whatever the listing will say.
FirstListing ==
    /\ Returned
    /\ \/ pc = "realpath" /\ Ok
       \/ pc = "fallback"
    /\ LET cwd == IF pc = "realpath" THEN StartDir("remote") ELSE <<>>
           local == IF At(disk["local"].tree, StartDir("local")) = "dir" THEN StartDir("local") ELSE <<>>
       IN /\ panes' = [s \in Sides |-> IF s = "remote" THEN [EmptyPane EXCEPT !.cwd = cwd]
                         ELSE ReloadLocal([EmptyPane EXCEPT !.cwd = local], FALSE, TRUE)]
          /\ ListDir(cwd, "open")
    /\ focus' = "local" /\ hidden' = FALSE
    /\ UNCHANGED <<disk, lastDir, job, keys, faults>>

\* NextStep::FilesBack: remember_browser_dirs, drop_remote, back_to_menu.
Back ==
    /\ pc = "idle" /\ keys > 0
    /\ lastDir' = [s \in Sides |-> panes[s].cwd]
    /\ IF link = "closed" THEN UNCHANGED client ELSE Drop
    /\ pc' = "menu" /\ keys' = keys - 1
    /\ panes' = [s \in Sides |-> EmptyPane] /\ focus' = "local" /\ hidden' = FALSE
    /\ job' = EmptyJob
    /\ UNCHANGED <<disk, lister, faults>>

---------------------------------------------------------------------------
\* Keys

Key == pc = "idle" /\ keys > 0 /\ keys' = keys - 1
Pane == panes[focus]
InPane(pane) == panes' = [panes EXCEPT ![focus] = pane]

\* list_remote_flow: without a session there is nothing to list.
ListRemote(path) ==
    IF link = "closed" THEN pc' = "idle" /\ UNCHANGED <<client, lister>>
    ELSE ListDir(path, "browse")

SwitchPane ==
    /\ Key
    /\ focus' = Other(focus)
    /\ UNCHANGED <<client, disk, panes, hidden, lastDir, pc, job, lister, faults>>

MoveCursor ==
    /\ Key
    /\ \/ Pane.cur > 0 /\ InPane([Pane EXCEPT !.cur = @ - 1])
       \/ Pane.cur + 1 < Len(Pane.entries) /\ InPane([Pane EXCEPT !.cur = @ + 1])
    /\ UNCHANGED <<client, disk, focus, hidden, lastDir, pc, job, lister, faults>>

ToggleMark ==
    /\ Key /\ HasRow(Pane)
    /\ LET name == Row(Pane).name
       IN InPane([Pane EXCEPT !.marked = IF name \in @ THEN @ \ {name} ELSE @ \cup {name}])
    /\ UNCHANGED <<client, disk, focus, hidden, lastDir, pc, job, lister, faults>>

GoLocal(cwd) ==
    /\ \E readable \in BOOLEAN :
          /\ Maybe(~readable)
          /\ InPane(ReloadLocal(Enter(Pane, cwd), hidden, readable))
    /\ UNCHANGED <<client, pc, lister>>

Go(cwd) == IF focus = "local" THEN GoLocal(cwd)
           ELSE ListRemote(cwd) /\ UNCHANGED <<panes, faults>>

OpenSelected ==
    /\ Key /\ HasRow(Pane) /\ Row(Pane).kind = "dir"
    /\ Go(Append(Pane.cwd, Row(Pane).name))
    /\ UNCHANGED <<disk, focus, hidden, lastDir, job>>

GoUp ==
    /\ Key /\ Pane.cwd # <<>>
    /\ Go(Front(Pane.cwd))
    /\ UNCHANGED <<disk, focus, hidden, lastDir, job>>

\* "." and "r": the local side is read at once, the remote one by the flow.
Refresh ==
    /\ Key
    /\ \E show \in {hidden, ~hidden}, readable \in BOOLEAN :
          /\ Maybe(~readable)
          /\ hidden' = show
          /\ panes' = [panes EXCEPT !["local"] = ReloadLocal(@, show, readable)]
    /\ ListRemote(panes["remote"].cwd)
    /\ UNCHANGED <<disk, focus, lastDir, job>>

---------------------------------------------------------------------------
\* transfer_flow and plan

Source(e) == [src |-> Append(Pane.cwd, e.name), kind |-> IF e.kind = "dir" THEN "dir" ELSE "file",
              dst |-> Append(panes[Other(focus)].cwd, e.name), top |-> TRUE]

Transfer ==
    /\ Key /\ link # "closed" /\ TransferSelection(Pane) # <<>>
    /\ job' = [EmptyJob EXCEPT !.side = focus, !.before = disk[Other(focus)].tree,
                  !.todo = [i \in DOMAIN TransferSelection(Pane) |-> Source(TransferSelection(Pane)[i])]]
    /\ pc' = "visit"
    /\ UNCHANGED <<client, disk, browser, lister, faults>>

Upload == job.side = "local"
Dest == Other(job.side)
Todo == Head(job.todo)

Item(t, exists) == [src |-> t.src, dst |-> t.dst, dir |-> t.kind = "dir", exists |-> exists,
                    skip |-> t.kind = "link"]
Planned(exists) == [job EXCEPT !.todo = Tail(@), !.plan = Append(@, Item(Todo, exists))]

\* The children of a directory: files and links first, then its directories
\* from the queue, the last one first.
Children(entries) ==
    LET place(e) == IF e.kind = "dir" THEN Len(Names) + Len(Names) - Pos(e.name) ELSE Pos(e.name)
        rows == Ranked(entries, [e \in entries |-> place(e)])
    IN [i \in DOMAIN rows |->
          [src |-> Append(Todo.src, rows[i].name), dst |-> Append(Todo.dst, rows[i].name), top |-> FALSE,
           kind |-> IF rows[i].kind \in {"dir", "link"} THEN rows[i].kind ELSE "file"]]

Walked(entries) == [Planned(FALSE) EXCEPT !.todo = Children(entries) \o @]

Finish(result) == job' = result /\ pc' = "finish"
Cancel(result) == Finish([result EXCEPT !.cancelled = TRUE])

\* Every event asks for Esc.
OrCancel(result, next) == \/ job' = result /\ pc' = next
                          \/ Cancel(result)

\* walk_local; a directory that cannot be read keeps its own item.
VisitLocalDir ==
    /\ pc = "visit" /\ job.todo # <<>> /\ Todo.kind = "dir" /\ Upload
    /\ \E readable \in BOOLEAN :
          /\ Maybe(~readable)
          /\ job' = Walked(IF readable THEN Entries(disk["local"].tree, Todo.src) ELSE {})
    /\ UNCHANGED <<client, disk, browser, pc, lister, keys>>

\* walk_remote
VisitRemoteDir ==
    /\ \/ /\ pc = "visit" /\ job.todo # <<>> /\ Todo.kind = "dir" /\ ~Upload
          /\ ListDir(Todo.src, "walk")
          /\ UNCHANGED job
       \/ /\ pc = "listed" /\ lister.then = "walk"
          /\ job' = Walked(lister.entries)
          /\ pc' = "visit" /\ lister' = NoList
          /\ UNCHANGED client
    /\ UNCHANGED <<disk, browser, keys, faults>>

VisitLink ==
    /\ pc = "visit" /\ job.todo # <<>> /\ Todo.kind = "link"
    /\ job' = Planned(FALSE)
    /\ UNCHANGED <<client, disk, browser, pc, lister, keys, faults>>

PushFile(exists) == OrCancel(Planned(exists), "visit")
ThereLocally == At(disk["local"].tree, Todo.dst) \notin {"none", "link"}

\* push_file; the size of a selected remote file is asked for first.
VisitFile ==
    /\ pc = "visit" /\ job.todo # <<>> /\ Todo.kind = "file"
    /\ IF Upload THEN Ask("stat", Todo.dst, "exists") /\ UNCHANGED job
       ELSE IF Todo.top THEN Ask("stat", Todo.src, "size") /\ UNCHANGED job
       ELSE PushFile(ThereLocally) /\ UNCHANGED client
    /\ UNCHANGED <<disk, browser, lister, keys, faults>>

Sized ==
    /\ pc = "size" /\ Returned
    /\ PushFile(ThereLocally)
    /\ UNCHANGED <<client, disk, browser, lister, keys, faults>>

\* try_stat: an error counts as "nothing there".
ExistsAnswered ==
    /\ pc = "exists" /\ Returned
    /\ PushFile(Got({"dir", "file"}))
    /\ UNCHANGED <<client, disk, browser, lister, keys, faults>>

PlanDone ==
    /\ pc = "visit" /\ job.todo = <<>>
    /\ pc' = "ask" /\ job' = [job EXCEPT !.at = 1]
    /\ UNCHANGED <<client, disk, browser, lister, keys, faults>>

\* resolve_conflicts, one conflict after the other.
Conflict(i) == job.plan[i].exists /\ ~job.plan[i].dir /\ ~job.plan[i].skip
Later == {i \in DOMAIN job.plan : i >= job.at /\ Conflict(i)}

SkipForgotten(choice, all) ==                  \* mutant: an applied "skip" is not kept
    LET i == CHOOSE j \in Later : \A k \in Later : j <= k
    IN job' = [job EXCEPT !.at = i + 1, !.sticky = IF all THEN choice ELSE @,
                          !.agreed = IF choice = "skip" THEN @ ELSE @ \cup {job.plan[i].dst}]

Decided(choice, all) ==
    LET i == CHOOSE j \in Later : \A k \in Later : j <= k
        next == [job EXCEPT !.at = i + 1, !.sticky = IF all THEN choice ELSE @]
    IN job' = IF choice = "skip" THEN [next EXCEPT !.plan[i].skip = TRUE]
              ELSE [next EXCEPT !.agreed = @ \cup {job.plan[i].dst}]

Decide ==
    /\ pc = "ask" /\ Later # {}
    /\ \/ \E choice \in {"overwrite", "skip"}, all \in BOOLEAN :
             /\ job.sticky \in {"none", choice}
             /\ all => job.sticky = "none" /\ Cardinality(Later) > 1
             /\ Decided(choice, all)
             /\ UNCHANGED pc
       \/ job.sticky = "none" /\ Cancel(job)
    /\ UNCHANGED <<client, disk, browser, lister, keys, faults>>

AllDecided ==
    /\ pc = "ask" /\ Later = {}
    /\ pc' = "item" /\ job' = [job EXCEPT !.at = 1]
    /\ UNCHANGED <<client, disk, browser, lister, keys, faults>>

---------------------------------------------------------------------------
\* run, one item after the other

It == job.plan[job.at]
NextItem == [job EXCEPT !.at = @ + 1, !.off = 0]
Record(field) == [NextItem EXCEPT ![field] = @ \cup {job.at}]
ItemDone  == OrCancel(Record("files"), "item")
ItemFails == OrCancel(Record("failures"), "item")

Local == disk["local"]
OnLocal(effect) == disk' = [disk EXCEPT !["local"] = effect.disk]
Succeeds(effect) == effect.code = "ok"

ItemSkipped ==
    /\ pc = "item" /\ job.at <= Len(job.plan) /\ It.skip
    /\ OrCancel(NextItem, "item")
    /\ UNCHANGED <<client, disk, browser, lister, keys, faults>>

RunDone ==
    /\ pc = "item" /\ job.at > Len(job.plan)
    /\ Finish(job)
    /\ UNCHANGED <<client, disk, browser, lister, keys, faults>>

\* create_dir_all stops at a file that is in the way.
MakeDirs(d, path) ==
    LET prefixes == {SubSeq(path, 1, n) : n \in 1..Len(path)}
    IN IF \E q \in prefixes : At(d.tree, q) \notin {"none", "dir"} THEN Denied(d)
       ELSE Does(d, [d EXCEPT !.tree = [q \in DOMAIN @ \cup prefixes |->
                                          IF q \in prefixes THEN "dir" ELSE @[q]]])

\* ensure_dir; an existing directory raises no event.
EnsureDir ==
    /\ pc = "item" /\ job.at <= Len(job.plan) /\ It.dir /\ ~It.skip
    /\ IF Upload THEN Ask("stat", It.dst, "dirstat") /\ UNCHANGED <<job, disk, faults>>
       ELSE /\ UNCHANGED client
            /\ \/ /\ Succeeds(MakeDirs(Local, It.dst))
                  /\ OnLocal(MakeDirs(Local, It.dst))
                  /\ job' = NextItem /\ UNCHANGED <<pc, faults>>
               \/ /\ Maybe(Succeeds(MakeDirs(Local, It.dst)))
                  /\ At(Local.tree, It.dst) # "dir"
                  /\ ItemFails /\ UNCHANGED disk
    /\ UNCHANGED <<browser, lister, keys>>

DirStat ==
    /\ pc = "dirstat" /\ Returned
    /\ IF Got({"none"}) THEN Ask("mkdir", It.dst, "mkdir") /\ UNCHANGED job
       ELSE /\ IF Got({"dir"}) THEN job' = NextItem /\ pc' = "item" ELSE ItemFails
            /\ UNCHANGED client
    /\ UNCHANGED <<disk, browser, lister, keys, faults>>

Mkdir ==
    /\ pc = "mkdir" /\ Returned
    /\ IF Ok THEN job' = NextItem /\ pc' = "item" ELSE ItemFails
    /\ UNCHANGED <<client, disk, browser, lister, keys, faults>>

LeavePart(out, cost) ==                        \* mutant: nothing is cleaned up
    /\ IF out = "cancel" THEN Cancel(job) ELSE ItemFails
    /\ Pay(cost) /\ UNCHANGED <<client, disk>>

\* cleanup, whose errors are ignored; out is what copy_file then returns and
\* cost the faults it took to come here.
CleanUp(out, cost) ==
    IF Upload
      THEN /\ Ask("discard", It.dst, "cleanup")
           /\ job' = [job EXCEPT !.out = out]
           /\ Pay(cost) /\ UNCHANGED disk
      ELSE /\ \/ Pay(cost) /\ OnLocal(RemovePart(Local, It.dst))
              \/ Pay(cost + 1) /\ UNCHANGED disk
           /\ IF out = "cancel" THEN Cancel(job) ELSE ItemFails
           /\ UNCHANGED client

CleanedUp ==
    /\ pc = "cleanup" /\ Returned
    /\ IF job.out = "cancel" THEN Cancel(job) ELSE ItemFails
    /\ UNCHANGED <<client, disk, browser, lister, keys, faults>>

\* ItemStarted, then the source: a local file may no longer open.
StartFile ==
    /\ pc = "item" /\ job.at <= Len(job.plan) /\ ~It.dir /\ ~It.skip
    /\ \/ Cancel(job) /\ UNCHANGED <<client, disk, faults>>
       \/ /\ Upload /\ IsFile(Local.tree, It.src)
          /\ AskCreate(It.dst, Local.tree[It.src], "create") /\ UNCHANGED <<job, disk, faults>>
       \/ /\ Upload /\ ~IsFile(Local.tree, It.src)
          /\ CleanUp("err", 0)
       \/ /\ ~Upload
          /\ Ask("open", It.src, "open") /\ UNCHANGED <<job, disk, faults>>
    /\ UNCHANGED <<browser, lister, keys>>

\* The upload loop: one chunk read and written, or the end of the file.
Upload1 == IF job.off < Chunks THEN AskWrite(It.dst, job.off, "write") ELSE Ask("close", It.dst, "close")

\* Reading the local file may fail; the handle then stays open.
Created ==
    /\ pc = "create" /\ Returned
    /\ \/ Ok /\ Upload1 /\ UNCHANGED <<job, disk, faults>>
       \/ CleanUp("err", IF Ok THEN 1 ELSE 0)
    /\ UNCHANGED <<browser, lister, keys>>

Chunked == [job EXCEPT !.off = @ + 1]
Written ==
    /\ pc = "write" /\ Returned
    /\ \/ /\ Ok
          /\ job' = Chunked
          /\ \/ IF job.off + 1 < Chunks THEN AskWrite(It.dst, job.off + 1, "write")
                ELSE Ask("close", It.dst, "close")
             \/ Ask("close", It.dst, "closeCancelled")
          /\ UNCHANGED <<disk, faults>>
       \/ CleanUp("err", IF Ok THEN 1 ELSE 0)
    /\ UNCHANGED <<browser, lister, keys>>

Opened ==
    /\ pc = "open" /\ Returned
    /\ LET made == CreatePart(Local, It.dst, At(disk["remote"].tree, It.src))
       IN \/ /\ Ok /\ Succeeds(made) /\ OnLocal(made)
             /\ AskRead(It.src, 0, "read") /\ UNCHANGED <<job, faults>>
          \/ CleanUp("err", IF Ok /\ Succeeds(made) THEN 1 ELSE 0)
    /\ UNCHANGED <<browser, lister, keys>>

\* A chunk arrived, or the end of the file; writing it may fail.
ReadDone ==
    /\ pc = "read" /\ Returned
    /\ \/ /\ Ok
          /\ OnLocal(WritePart(Local, It.dst, job.off))
          /\ job' = Chunked
          /\ \/ AskRead(It.src, job.off + 1, "read")
             \/ Ask("close", It.src, "closeCancelled")
          /\ UNCHANGED faults
       \/ /\ Got({"eof"})
          /\ Ask("close", It.src, "close") /\ UNCHANGED <<job, disk, faults>>
       \/ ~Got({"eof"}) /\ CleanUp("err", IF Ok THEN 1 ELSE 0)
    /\ UNCHANGED <<browser, lister, keys>>

CancelClosed ==
    /\ pc = "closeCancelled" /\ Returned
    /\ CleanUp("cancel", 0)
    /\ UNCHANGED <<browser, lister, keys>>

\* std::fs::rename replaces a file or a link, not a directory.
RenameLocal(d, path) ==
    IF At(d.tree, path) = "dir" \/ ~PartAt(d, path) THEN Denied(d)
    ELSE Does(d, Moved(d, path))

\* The copy is whole and closed: the old file makes way for it.  An error of
\* the rename leaves the part.
Closed ==
    /\ pc = "close" /\ Returned
    /\ \/ ~Ok /\ CleanUp("err", 0)
       \/ /\ Ok /\ Upload
          /\ IF It.exists THEN Ask("remove", It.dst, "remove") ELSE Ask("rename", It.dst, "rename")
          /\ UNCHANGED <<job, disk, faults>>
       \/ /\ Ok /\ ~Upload
          /\ \/ /\ Succeeds(RenameLocal(Local, It.dst))
                /\ OnLocal(RenameLocal(Local, It.dst))
                /\ ItemDone /\ UNCHANGED faults
             \/ /\ Maybe(Succeeds(RenameLocal(Local, It.dst)))
                /\ ItemFails /\ UNCHANGED disk
          /\ UNCHANGED client
    /\ UNCHANGED <<browser, lister, keys>>

Removed ==
    /\ pc = "remove" /\ Returned
    /\ Ask("rename", It.dst, "rename")
    /\ UNCHANGED <<disk, browser, job, lister, keys, faults>>

RenameCleansUp ==                              \* mutant: a failed rename drops the copy
    /\ pc = "rename" /\ Returned
    /\ IF Ok THEN ItemDone /\ UNCHANGED <<client, disk, faults>> ELSE CleanUp("err", 0)
    /\ UNCHANGED <<browser, lister, keys>>

Renamed ==
    /\ pc = "rename" /\ Returned
    /\ IF Ok THEN ItemDone ELSE ItemFails
    /\ UNCHANGED <<client, disk, browser, lister, keys, faults>>

\* The end of transfer_flow: the local pane is read again, then the remote one.
\* Of the job only the summary outlives it.
Finished ==
    /\ pc = "finish"
    /\ \E readable \in BOOLEAN :
          /\ Maybe(~readable)
          /\ panes' = [panes EXCEPT !["local"] = ReloadLocal(@, hidden, readable)]
    /\ ListRemote(panes["remote"].cwd)
    /\ UNCHANGED <<disk, focus, hidden, lastDir, job, keys>>

---------------------------------------------------------------------------
\* The server and the connection

Oldest == CHOOSE e \in asked : \A f \in asked : e.no <= f.no
Refusal == [disk |-> disk["remote"], code |-> "status", entries |-> {}]

\* The server works in order and may refuse any request; realpath, close and
\* the data of an open file it does not refuse here.
ServerStep ==
    /\ asked # {}
    /\ \E refuse \in BOOLEAN :
          LET effect == IF refuse THEN Refusal ELSE Effect(disk["remote"], Oldest.req)
          IN /\ Maybe(refuse)
             /\ disk' = [disk EXCEPT !["remote"] = effect.disk]
             /\ Serve(Oldest, [code |-> effect.code, entries |-> effect.entries])
    /\ UNCHANGED <<browser, pc, job, lister, keys>>

Others == UNCHANGED <<disk, browser, pc, job, lister, keys>>

ReplyRead == (Receive \/ ReadTorn \/ ReadClosed) /\ UNCHANGED faults /\ Others
LimitHit == TimeOut /\ Pay(1) /\ Others
ConnectionLost == Lose /\ Pay(1) /\ Others
RequestLost == Abandon /\ UNCHANGED faults /\ Others

\* Nobody presses a key any more.
Rest == pc \in {"menu", "idle"} /\ keys = 0 /\ UNCHANGED vars

Init ==
    /\ nextId = 1 /\ sent = 0 /\ asked = {} /\ wire = <<>> /\ link = "closed"
    /\ call = [st |-> "none", id |-> 0, no |-> 0, req |-> Req("close", <<>>), got |-> 0,
               ans |-> [code |-> "ok", entries |-> {}]]
    /\ \E world \in Worlds :
          disk = [s \in Sides |-> [tree |-> world[s], part |-> <<>>]]
    /\ panes = [s \in Sides |-> EmptyPane]
    /\ focus = "local" /\ hidden = FALSE
    /\ lastDir = [s \in Sides |-> Unset]
    /\ pc = "menu" /\ job = EmptyJob /\ lister = NoList
    /\ keys = MaxKeys /\ faults = MaxFaults

KeyStep == SwitchPane \/ MoveCursor \/ ToggleMark \/ OpenSelected \/ GoUp \/ Refresh
           \/ Transfer \/ Back \/ Decide

FlowStep ==
    \/ Login \/ FallBack \/ FirstListing \/ Opendir \/ Readdir \/ Closedir \/ ListingShown
    \/ VisitLocalDir \/ VisitRemoteDir \/ VisitLink \/ VisitFile \/ Sized \/ ExistsAnswered
    \/ PlanDone \/ AllDecided
    \/ ItemSkipped \/ RunDone \/ EnsureDir \/ DirStat \/ Mkdir \/ CleanedUp
    \/ StartFile \/ Created \/ Written \/ Opened \/ ReadDone \/ CancelClosed
    \/ Closed \/ Removed \/ Renamed \/ Finished

EnvStep == ServerStep \/ ReplyRead \/ LimitHit \/ ConnectionLost \/ RequestLost

Next == OpenFiles \/ KeyStep \/ FlowStep \/ EnvStep \/ Rest

\* A flow goes on by itself; the server answers and a reply that came is read,
\* so that a call ends or runs into its time limit.
Fairness == WF_vars(FlowStep) /\ WF_vars(ServerStep) /\ WF_vars(ReplyRead)

Spec == Init /\ [][Next]_vars /\ Fairness

---------------------------------------------------------------------------
\* Properties

TypeOK ==
    /\ ClientTypeOK
    /\ \A s \in Sides :
          /\ \A q \in DOMAIN disk[s].part : disk[s].part[q].got \in 0..Chunks
          /\ panes[s].cur \in Nat /\ panes[s].marked \subseteq NameSet
    /\ focus \in Sides /\ hidden \in BOOLEAN
    /\ keys \in 0..MaxKeys /\ faults \in 0..MaxFaults

DestTree == disk[Dest].tree

\* A file the summary counts has the whole content of its source under its
\* own name, in both directions (run, copy_file, upload, download).
CountedIsWhole ==
    \A i \in job.files : /\ At(DestTree, job.plan[i].dst) = At(disk[job.side].tree, job.plan[i].src)
                         /\ At(DestTree, job.plan[i].dst) \in Contents

\* What was there before a transfer is only removed or replaced when the user
\* said so (push_file, resolve_conflicts, copy_file).  A link that leads nowhere
\* does not count: Path::exists follows it.
AskedBeforeReplacing ==
    \A q \in DOMAIN job.before :
       At(DestTree, q) = job.before[q] \/ job.before[q] = "link" \/ q \in job.agreed

\* Where a file was to be replaced there is always the old one, the new one or
\* a whole copy of the new one beside it (copy_file).
ReplacedNotLost ==
    \A q \in DOMAIN job.before :
       \/ job.before[q] \notin Contents
       \/ At(DestTree, q) \in Contents
       \/ Whole(disk[Dest], q)

\* A `.part` file outlives the transfer of its file only if something failed, or
\* a directory or a link that leads nowhere has the name, and the summary then
\* tells of that failure or of a cancel.
PartsAccounted ==
    pc = "finish" =>
       \A i \in DOMAIN job.plan :
          PartAt(disk[Dest], job.plan[i].dst) /\ ~job.plan[i].dir /\ ~job.plan[i].skip =>
             /\ faults < MaxFaults \/ At(DestTree, job.plan[i].dst) \in {"dir", "link"}
             /\ i \in job.failures \/ job.cancelled

\* An answer is only had from a stream in step, so a listing on one that was
\* cut inside a reply, or still carries replies of earlier requests, fails for
\* the stream, and the session goes with it (list_dir, drop_remote_if_fatal).
OutOfStep == link = "torn" \/ (link = "up" /\ (asked # {} \/ wire # <<>>))
DesyncEnds ==
    [][/\ (Opendir \/ Readdir) /\ OutOfStep => lister'.result = "fatal"
       /\ ListingShown /\ lister.result = "fatal" => link' = "closed"]_vars

\* Every flow returns to the key loop by itself (redraw_while, transfer_flow).
FlowReturns == Busy ~> ~Busy
=============================================================================
