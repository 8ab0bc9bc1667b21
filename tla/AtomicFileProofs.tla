-------------------------- MODULE AtomicFileProofs --------------------------
(***************************************************************************)
(* write_file_atomic implements a register, for any number of processes,   *)
(* contents and inodes, any error, any kill and any power failure.         *)
(***************************************************************************)
EXTENDS AtomicFile, TLAPS

(* Why it does: whatever config.enc may name after a power failure is whole  *)
(* and flushed, the tmp is never one of those, and while a save runs the tmp *)
(* is its own, because only the holder of the flock saves.                   *)
DiskWhole ==
    /\ path \in onDisk
    /\ \A f \in onDisk : data[f] \in Values /\ flushed[f]
    /\ tmp \notin onDisk

TmpOwned ==
    \A w \in Writers :
        /\ pc[w] # "idle" => lock = w
        /\ pc[w] \in {"write", "sync", "rename"} => fd[w] = tmp /\ tmp \in Inodes
        /\ pc[w] \in {"sync", "rename"} => data[tmp] = saving[w]
        /\ pc[w] = "rename" => flushed[tmp]

Inv == TypeOK /\ DiskWhole /\ TmpOwned /\ OldUntilRenamed /\ SavedOnceRenamed

LEMMA InitInv == Init => Inv
  BY FileAssumption DEF Init, Inv, TypeOK, PCs, DiskWhole, TmpOwned, OldUntilRenamed,
     SavedOnceRenamed

(* A process that stops saving leaves the invariant of the others alone.     *)
LEMMA ReturnInv ==
    ASSUME Inv, NEW w \in Writers, Return(w), UNCHANGED <<data, flushed, path, onDisk, lock>>,
           pc[w] # "idle", tmp' \in {tmp, NoInode}
    PROVE  Inv'
<1>1. \A u \in Writers \ {w} : pc'[u] = pc[u] /\ pc[u] = "idle"
  BY DEF Inv, TypeOK, TmpOwned, Return
<1>2. pc'[w] = "idle"
  BY DEF Inv, TypeOK, Return
<1>3. TypeOK' /\ DiskWhole'
  BY FileAssumption DEF Inv, TypeOK, DiskWhole, Return, PCs
<1>4. TmpOwned' /\ OldUntilRenamed' /\ SavedOnceRenamed'
  BY <1>1, <1>2 DEF TmpOwned, OldUntilRenamed, SavedOnceRenamed
<1>5. QED
  BY <1>3, <1>4 DEF Inv

LEMMA StepInv ==
    ASSUME Inv, NEW w \in Writers, Step(w)
    PROVE  Inv'
<1>0. pc[w] # "idle" => lock = w /\ \A u \in Writers \ {w} : pc[u] = "idle"
  BY DEF Inv, TmpOwned
<1> USE DEF TypeOK, PCs
<1>1. ASSUME NEW v \in Values, Call(w, v) PROVE Inv'
  <2>1. lock' = w /\ \A u \in Writers : pc[u] = "idle" \/ u = w
    BY <1>1, FileAssumption DEF Call, Acquire, Inv, TmpOwned
  <2>2. TypeOK' /\ DiskWhole'
    BY <1>1, <2>1 DEF Call, Inv, DiskWhole, files
  <2>3. TmpOwned' /\ OldUntilRenamed' /\ SavedOnceRenamed'
    BY <1>1, <2>1 DEF Call, Inv, TmpOwned, OldUntilRenamed, SavedOnceRenamed, files
  <2>4. QED
    BY <2>2, <2>3 DEF Inv
<1>2. CASE Create(w)
  <2>1. CASE Return(w) /\ UNCHANGED files
    BY <1>2, <2>1, ReturnInv DEF Create, files
  <2>2. PICK f \in Inodes : \/ Return(w) /\ UNCHANGED files
                            \/ /\ tmp' = f /\ f \notin onDisk /\ f # path
                               /\ data'    = [data EXCEPT ![f] = Torn]
                               /\ flushed' = [flushed EXCEPT ![f] = FALSE]
                               /\ UNCHANGED <<path, onDisk>>
                               /\ \/ Return(w)
                                  \/ /\ pc' = [pc EXCEPT ![w] = "write"]
                                     /\ fd' = [fd EXCEPT ![w] = f]
                                     /\ UNCHANGED <<saving, before>>
    BY <1>2 DEF Create, Free, Inv, DiskWhole
  <2>3. CASE ~(Return(w) /\ UNCHANGED files)
    <3>1. TypeOK'
      <4>1. UNCHANGED <<lock, saving, before, path, onDisk>>
        BY <1>2, <2>2, <2>3 DEF Create, Return
      <4>2. /\ data' \in [Inodes -> Values \cup {Torn}]
            /\ flushed' \in [Inodes -> BOOLEAN]
            /\ tmp' \in Inodes
        BY <2>2, <2>3 DEF Inv
      <4>3. pc' \in [Writers -> PCs] /\ fd' \in [Writers -> Inodes \cup {NoInode}]
        BY <2>2, <2>3 DEF Inv, Return
      <4>4. QED
        BY <4>1, <4>2, <4>3 DEF Inv
    <3>4. DiskWhole'
      BY <2>2, <2>3 DEF Inv, DiskWhole
    <3>2. TmpOwned' /\ OldUntilRenamed' /\ SavedOnceRenamed'
      BY <1>0, <1>2, <2>2, <2>3
         DEF Create, Return, Inv, DiskWhole, TmpOwned, OldUntilRenamed, SavedOnceRenamed
    <3>3. QED
      BY <3>1, <3>2, <3>4 DEF Inv
  <2>4. QED
    BY <2>1, <2>3
<1>3. CASE WriteAll(w)
  <2>1. CASE Return(w)
    BY <1>3, <2>1, ReturnInv DEF WriteAll, RemoveTmp, Return, Inv
  <2>2. CASE ~Return(w)
    <3>1. TypeOK' /\ DiskWhole'
      BY <1>3, <2>2 DEF WriteAll, Inv, DiskWhole, TmpOwned
    <3>2. TmpOwned' /\ OldUntilRenamed' /\ SavedOnceRenamed'
      BY <1>0, <1>3, <2>2 DEF WriteAll, Inv, DiskWhole, TmpOwned, OldUntilRenamed, SavedOnceRenamed
    <3>3. QED
      BY <3>1, <3>2 DEF Inv
  <2>3. QED
    BY <2>1, <2>2
<1>4. CASE SyncAll(w)
  <2>1. CASE Return(w)
    BY <1>4, <2>1, ReturnInv DEF SyncAll, RemoveTmp, Return, Inv
  <2>2. CASE ~Return(w)
    <3>1. TypeOK' /\ DiskWhole'
      BY <1>4, <2>2 DEF SyncAll, FlushFile, Inv, DiskWhole, TmpOwned
    <3>2. TmpOwned' /\ OldUntilRenamed' /\ SavedOnceRenamed'
      BY <1>0, <1>4, <2>2
         DEF SyncAll, FlushFile, Inv, DiskWhole, TmpOwned, OldUntilRenamed, SavedOnceRenamed
    <3>3. QED
      BY <3>1, <3>2 DEF Inv
  <2>3. QED
    BY <2>1, <2>2
<1>5. CASE Rename(w)
  <2>1. CASE Return(w)
    BY <1>5, <2>1, ReturnInv DEF Rename, RemoveTmp, Return, Inv
  <2>2. CASE ~Return(w)
    <3>1. TypeOK' /\ DiskWhole'
      BY <1>5, <2>2, FileAssumption DEF Rename, Inv, DiskWhole, TmpOwned
    <3>2. TmpOwned' /\ OldUntilRenamed' /\ SavedOnceRenamed'
      BY <1>0, <1>5, <2>2 DEF Rename, Inv, TmpOwned, OldUntilRenamed, SavedOnceRenamed
    <3>3. QED
      BY <3>1, <3>2 DEF Inv
  <2>3. QED
    BY <2>1, <2>2
<1>6. CASE SyncDir(w)
  <2>1. TypeOK' /\ DiskWhole'
    BY <1>6 DEF SyncDir, Return, Inv, DiskWhole
  <2>2. TmpOwned' /\ OldUntilRenamed' /\ SavedOnceRenamed'
    BY <1>0, <1>6 DEF SyncDir, Return, Inv, TmpOwned, OldUntilRenamed, SavedOnceRenamed
  <2>3. QED
    BY <2>1, <2>2 DEF Inv
<1>7. CASE Exit(w)
  <2>1. \A u \in Writers : pc'[u] = "idle"
    BY <1>7 DEF Exit, Return, Inv, TmpOwned
  <2>2. TypeOK' /\ DiskWhole'
    BY <1>7 DEF Exit, Return, Inv, DiskWhole, files
  <2>3. QED
    BY <2>1, <2>2 DEF Inv, TmpOwned, OldUntilRenamed, SavedOnceRenamed
<1>8. QED
  BY <1>1, <1>2, <1>3, <1>4, <1>5, <1>6, <1>7 DEF Step

LEMMA PowerInv == Inv /\ PowerFail => Inv'
<1> SUFFICES ASSUME Inv, PowerFail PROVE Inv'
  OBVIOUS
<1>1. TypeOK'
  BY DEF PowerFail, Inv, TypeOK, PCs, DiskWhole
<1>2. DiskWhole'
  BY FileAssumption DEF PowerFail, Inv, TypeOK, DiskWhole
<1>3. TmpOwned' /\ OldUntilRenamed' /\ SavedOnceRenamed'
  BY DEF PowerFail, TmpOwned, OldUntilRenamed, SavedOnceRenamed
<1>4. QED
  BY <1>1, <1>2, <1>3 DEF Inv

LEMMA NextInv == Inv /\ [Next]_vars => Inv'
<1>1. Inv /\ UNCHANGED vars => Inv'
  BY DEF vars, files, writers, Inv, TypeOK, DiskWhole, TmpOwned, OldUntilRenamed, SavedOnceRenamed
<1>2. QED
  BY <1>1, StepInv, PowerInv DEF Next

LEMMA AlwaysInv == Spec => []Inv
  BY InitInv, NextInv, PTL DEF Spec

(* Whatever goes wrong before the rename, the file is what the caller found  *)
(* (write_file_atomic returns its error with the old file in place).         *)
THEOREM NothingBeforeRename == Spec => []OldUntilRenamed
<1>1. Inv => OldUntilRenamed
  BY DEF Inv
<1>2. QED
  BY <1>1, AlwaysInv, PTL

(* From the rename on the file is what the caller asked to save, although    *)
(* the next writer opens the same temporary name.                            *)
THEOREM SavedAfterRename == Spec => []SavedOnceRenamed
<1>1. Inv => SavedOnceRenamed
  BY DEF Inv
<1>2. QED
  BY <1>1, AlwaysInv, PTL

-----------------------------------------------------------------------------
(* The refinement: a rename is the register's Put, a flush of the directory  *)
(* its Flush, and every other system call is invisible.                      *)
Survivors == {data[f] : f \in onDisk}

LEMMA Invisible ==
    ASSUME Inv, NEW f \in Inodes, f \notin onDisk, NEW v, data' = [data EXCEPT ![f] = v],
           UNCHANGED <<path, onDisk>>
    PROVE  data'[path'] = data[path] /\ Survivors' = Survivors
  BY DEF Inv, TypeOK, DiskWhole, Survivors

LEMMA StepRefines ==
    ASSUME Inv, NEW w \in Writers, Step(w)
    PROVE  [FileView!RegisterNext]_<<data[path], Survivors>>
<1> DEFINE Stutter == data'[path'] = data[path] /\ Survivors' = Survivors
<1>1. CASE UNCHANGED <<data, path, onDisk>>
  <2>1. Stutter
    BY <1>1 DEF Survivors
  <2>2. QED
    BY <2>1
<1>2. CASE Create(w)
  <2>1. UNCHANGED <<path, onDisk>>
    BY <1>2 DEF Create, files
  <2>2. data' = data \/ \E f \in Inodes : f \notin onDisk /\ data' = [data EXCEPT ![f] = Torn]
    BY <1>2 DEF Create, files, Free, Inv, DiskWhole
  <2>3. Stutter
    BY <1>1, <2>1, <2>2, Invisible DEF Survivors
  <2>4. QED
    BY <2>3
<1>3. CASE WriteAll(w)
  <2>1. UNCHANGED <<path, onDisk>>
    BY <1>3 DEF WriteAll
  <2>2. data' = data \/ (/\ fd[w] \in Inodes /\ fd[w] \notin onDisk
                         /\ data' = [data EXCEPT ![fd[w]] = saving[w]])
    BY <1>3 DEF WriteAll, Inv, TmpOwned, DiskWhole
  <2>3. Stutter
    BY <2>1, <2>2, Invisible DEF Survivors
  <2>4. QED
    BY <2>3
<1>4. CASE Rename(w) /\ onDisk' = onDisk \cup {path'} /\ path' = tmp
  <2>1. data'[path'] = saving[w] /\ saving[w] \in Values /\ data' = data
    BY <1>4 DEF Rename, Inv, TmpOwned, TypeOK
  <2>2. Survivors' = Survivors \cup {saving[w]}
    BY <1>4, <2>1 DEF Survivors
  <2>3. \E v \in Values : data'[path'] = v /\ Survivors' = Survivors \cup {v}
    BY <2>1, <2>2
  <2>4. QED
    BY <2>3 DEF FileView!RegisterNext, FileView!Put, Survivors
<1>5. CASE SyncDir(w) /\ onDisk' = {path}
  <2>1. FileView!Flush
    BY <1>5 DEF SyncDir, FileView!Flush
  <2>2. QED
    BY <2>1 DEF FileView!RegisterNext
<1>6. QED
  BY <1>1, <1>2, <1>3, <1>4, <1>5 DEF Step, SyncAll, Rename, SyncDir, Exit, Call, files

LEMMA PowerRefines ==
    ASSUME Inv, PowerFail PROVE FileView!PowerLoss
<1>1. path' \in onDisk /\ onDisk' = {path'} /\ \A f \in onDisk : data'[f] = data[f]
  BY DEF PowerFail, Inv, TypeOK, DiskWhole
<1>2. QED
  BY <1>1 DEF FileView!PowerLoss

(* Readers without the lock, and a machine that loses power, only ever find  *)
(* whole contents: the one before or one after a save.                       *)
THEOREM Refinement == Spec => RegisterImplemented
<1>1. Init => FileView!RegisterInit
  BY DEF Init, FileView!RegisterInit
<1>2. Inv /\ [Next]_vars => [FileView!RegisterNext]_<<data[path], Survivors>>
  <2>1. UNCHANGED vars => UNCHANGED <<data[path], Survivors>>
    BY DEF vars, files, Survivors
  <2>2. QED
    BY <2>1, StepRefines, PowerRefines DEF Next, FileView!RegisterNext
<1>3. QED
  BY <1>1, <1>2, AlwaysInv, PTL DEF Spec, RegisterImplemented, FileView!RegisterSpec, Survivors
=============================================================================
