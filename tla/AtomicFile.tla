----------------------------- MODULE AtomicFile -----------------------------
(***************************************************************************)
(* write_file_atomic of src/config/store.rs, called by ConfigStore::write  *)
(* under the flock: one system call at a time, over a directory whose      *)
(* entries and files reach the disk late.  A process may be killed between *)
(* two calls (what it did stays, its flock is freed) and the power may     *)
(* fail (what was not flushed is lost or torn).                            *)
(*                                                                         *)
(* A file is an inode: `config.enc` and `config.enc.tmp` are names for     *)
(* one, and a descriptor keeps its inode whatever happens to the name.     *)
(***************************************************************************)
EXTENDS FiniteSets

CONSTANTS
    Writers,    \* processes that have the vault open, or want to
    Nobody,
    Values,     \* whole contents a caller saves
    Torn,       \* anything else: empty, or a part of a content
    Inodes,     \* bound: inodes in use at one time
    NoInode

ASSUME FileAssumption ==
    /\ Torn \notin Values
    /\ NoInode \notin Inodes
    /\ Nobody \notin Writers

VARIABLES
    data,      \* what each inode holds
    flushed,   \* that content is on disk (File::sync_all)
    path,      \* the inode config.enc names
    tmp,       \* the inode config.enc.tmp names
    onDisk,    \* the inodes config.enc may name after a power failure
    lock,      \* who holds the flock
    pc,        \* the next system call of each writer
    fd,        \* the inode each writer has open
    saving,    \* the content it was called with
    before     \* what config.enc held when it was called

files   == <<data, flushed, path, tmp, onDisk>>
writers == <<pc, fd, saving, before>>
vars    == <<files, lock, writers>>

SharedAcquire(w) == lock' = w            \* mutant: a lock that does not exclude
Acquire(w) == lock \in {Nobody, w} /\ lock' = w

\* An inode nothing refers to.
Free(f) == f \notin {path, tmp} \cup onDisk \cup {fd[w] : w \in Writers}

Return(w) ==
    /\ pc'     = [pc EXCEPT ![w] = "idle"]
    /\ fd'     = [fd EXCEPT ![w] = NoInode]
    /\ UNCHANGED <<saving, before>>

\* The claim comes with opening the vault; a save is a call by the holder.
Call(w, v) ==
    /\ pc[w] = "idle"
    /\ Acquire(w)
    /\ pc'     = [pc EXCEPT ![w] = "create"]
    /\ saving' = [saving EXCEPT ![w] = v]
    /\ before' = [before EXCEPT ![w] = data[path]]
    /\ UNCHANGED <<files, fd>>

\* File::create opens and truncates: a stale tmp keeps its inode.  It may
\* fail, and so may set_file_permissions after it, which leaves the tmp.
Create(w) ==
    /\ pc[w] = "create"
    /\ \/ Return(w) /\ UNCHANGED files
       \/ \E f \in Inodes :
             /\ IF tmp = NoInode THEN Free(f) ELSE f = tmp
             /\ tmp' = f
             /\ data'    = [data EXCEPT ![f] = Torn]
             /\ flushed' = [flushed EXCEPT ![f] = FALSE]
             /\ UNCHANGED <<path, onDisk>>
             /\ \/ Return(w)
                \/ /\ pc' = [pc EXCEPT ![w] = "write"]
                   /\ fd' = [fd EXCEPT ![w] = f]
                   /\ UNCHANGED <<saving, before>>
    /\ UNCHANGED lock

\* The tmp is removed when a step after its creation fails; an error of the
\* removal itself is ignored.
RemoveTmp == tmp' \in {tmp, NoInode}

WriteAll(w) ==
    /\ pc[w] = "write"
    /\ \/ /\ data' = [data EXCEPT ![fd[w]] = saving[w]]
          /\ pc' = [pc EXCEPT ![w] = "sync"]
          /\ UNCHANGED <<tmp, fd, saving, before>>
       \/ RemoveTmp /\ Return(w) /\ UNCHANGED data
    /\ UNCHANGED <<flushed, path, onDisk, lock>>

SkipFlush(w) == UNCHANGED flushed        \* mutant: sync_all is left out
FlushFile(w) == flushed' = [flushed EXCEPT ![fd[w]] = TRUE]

SyncAll(w) ==
    /\ pc[w] = "sync"
    /\ \/ /\ FlushFile(w)
          /\ pc' = [pc EXCEPT ![w] = "rename"]
          /\ UNCHANGED <<tmp, fd, saving, before>>
       \/ RemoveTmp /\ Return(w) /\ UNCHANGED flushed
    /\ UNCHANGED <<data, path, onDisk, lock>>

\* rename moves whatever the tmp names now, and fails when it names nothing.
Rename(w) ==
    /\ pc[w] = "rename"
    /\ \/ /\ tmp # NoInode
          /\ path' = tmp /\ tmp' = NoInode
          /\ onDisk' = onDisk \cup {path'}
          /\ pc' = [pc EXCEPT ![w] = "syncDir"]
          /\ UNCHANGED <<fd, saving, before>>
       \/ RemoveTmp /\ Return(w) /\ UNCHANGED <<path, onDisk>>
    /\ UNCHANGED <<data, flushed, lock>>

\* Flushing the directory is best effort: the call succeeds either way.
SyncDir(w) ==
    /\ pc[w] = "syncDir"
    /\ onDisk' \in {onDisk, {path}}
    /\ Return(w)
    /\ UNCHANGED <<data, flushed, path, tmp, lock>>

\* The process ends, between two calls or in the middle of a save.
Exit(w) ==
    /\ lock = w
    /\ lock' = Nobody
    /\ Return(w)
    /\ UNCHANGED files

PowerFail ==
    /\ path' \in onDisk
    /\ onDisk' = {path'}
    /\ data' = [f \in Inodes |-> IF flushed[f] THEN data[f] ELSE Torn]
    /\ flushed' = [f \in Inodes |-> TRUE]
    /\ tmp' \in {NoInode, tmp} \cup (onDisk \ {path'})
    /\ lock' = Nobody
    /\ pc' = [w \in Writers |-> "idle"]
    /\ fd' = [w \in Writers |-> NoInode]
    /\ UNCHANGED <<saving, before>>

\* A vault is there and no tmp: the state every clean save leaves.
Init ==
    /\ path \in Inodes
    /\ \E v \in Values :
          /\ data = [f \in Inodes |-> IF f = path THEN v ELSE Torn]
          /\ saving = [w \in Writers |-> v]
          /\ before = [w \in Writers |-> v]
    /\ flushed = [f \in Inodes |-> TRUE]
    /\ tmp = NoInode
    /\ onDisk = {path}
    /\ lock = Nobody
    /\ pc = [w \in Writers |-> "idle"]
    /\ fd = [w \in Writers |-> NoInode]

Step(w) == \/ Create(w) \/ WriteAll(w) \/ SyncAll(w) \/ Rename(w) \/ SyncDir(w)
           \/ Exit(w) \/ \E v \in Values : Call(w, v)

Next == PowerFail \/ \E w \in Writers : Step(w)

Spec == Init /\ [][Next]_vars

-----------------------------------------------------------------------------
PCs == {"idle", "create", "write", "sync", "rename", "syncDir"}

(* Every variable stays in its domain. *)
TypeOK ==
    /\ data \in [Inodes -> Values \cup {Torn}]
    /\ flushed \in [Inodes -> BOOLEAN]
    /\ path \in Inodes
    /\ tmp \in Inodes \cup {NoInode}
    /\ onDisk \in SUBSET Inodes
    /\ lock \in Writers \cup {Nobody}
    /\ pc \in [Writers -> PCs]
    /\ fd \in [Writers -> Inodes \cup {NoInode}]
    /\ saving \in [Writers -> Values]
    /\ before \in [Writers -> Values \cup {Torn}]

(* Until its rename a save has changed nothing a reader sees: whatever goes *)
(* wrong before that, the file is the one the caller found.                 *)
OldUntilRenamed ==
    \A w \in Writers :
        pc[w] \in {"create", "write", "sync", "rename"} => data[path] = before[w]

(* And after it the caller's content is what a reader sees, so that "Ok"    *)
(* speaks of this save and not of another writer's bytes in a shared tmp.   *)
SavedOnceRenamed == \A w \in Writers : pc[w] = "syncDir" => data[path] = saving[w]

(* The file as a register.                                                  *)
FileView == INSTANCE Register
    WITH content <- data[path], survivors <- {data[f] : f \in onDisk}

(* Readers, which take no lock (peek_shape), and a machine that loses power  *)
(* only ever find whole contents: the one before or one after a save.        *)
RegisterImplemented == FileView!RegisterSpec
=============================================================================
