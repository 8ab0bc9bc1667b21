------------------------------- MODULE Vault -------------------------------
(***************************************************************************)
(* The life of one vault shared by several running copies of ssh-control:  *)
(* the file config.enc, the sibling flock, the operating system's keyring  *)
(* entry that holds the device key, the plain secret file of an old        *)
(* "TOTP only" vault, and the lock / setup / unlock / settings handlers of *)
(* src/app.rs that read and write them.                                    *)
(*                                                                         *)
(* A handler is synchronous inside one process, but its effects on the     *)
(* file and on the keyring are separate system calls: another process may  *)
(* act between two of them and a crash may fall there.  pc[i] names the    *)
(* next effect of the handler process i is running ("idle" = waiting for a *)
(* key), work[i] and held[i] what that handler holds in local variables.   *)
(*                                                                         *)
(* The master key never changes once a vault exists and every slot wraps   *)
(* it, so it is left out: a slot opens the vault iff it is the slot on     *)
(* disk.  Saving is atomic (AtomicFile) and every save rewrites the whole  *)
(* envelope from the image in memory.                                      *)
(***************************************************************************)
CONSTANTS
    Instances,     \* the running copies of the program
    Nobody,        \* no copy: the lock is free
    Passwords,     \* master passwords a user may choose
    LegacySecret,  \* what wraps the only slot of a "TOTP only" vault
    NoSecret,      \* the vault has no password slot
    Edits,         \* distinguishable configuration edits
    Keys,          \* bound: device keys that can be in use at one time
    NoKey,         \* no device slot
    NoVault, NoImage, NoEntry, Unreadable,
    Faults         \* which environment failures may happen

AllFaults == {"save", "entryRead", "entryWrite", "entryDelete", "entryLost",
              "discard", "crash"}

ASSUME ConstantsAssumption ==
    /\ Nobody \notin Instances
    /\ LegacySecret \notin Passwords /\ NoSecret \notin Passwords
    /\ LegacySecret # NoSecret
    /\ NoKey \notin Keys
    /\ Faults \subseteq AllFaults

Secrets == Passwords \cup {LegacySecret, NoSecret}

(* What one envelope carries: format version 1 or 2, a schema newer than   *)
(* this build, the secret behind the password slot, the key behind the     *)
(* device slot, whether the config enrols TOTP, and the edits it contains. *)
Images  == [v1 : BOOLEAN, newer : BOOLEAN, pw : Secrets, dev : Keys \cup {NoKey},
            totp : BOOLEAN, edits : SUBSET Edits]
Entries == [key : Keys, totp : BOOLEAN]

ASSUME SentinelsAssumption ==
    /\ NoVault \notin Images
    /\ NoImage \notin Images
    /\ NoEntry \notin Entries /\ Unreadable \notin Entries
    /\ NoEntry # Unreadable

VARIABLES
    vault,       \* config.enc
    entry,       \* the keyring entry of this vault
    secretFile,  \* totp-only.secret exists
    lock,        \* who holds the flock on config.enc.lock
    ui,          \* the screen of each copy
    mem,         \* the open vault of each copy (Unlocked / UnlockedState)
    pc,          \* the next effect of the running handler
    work,        \* the image that handler is building
    held,        \* the DeviceState that handler holds
    wizard       \* what the setup wizard of each copy can still submit

disk == <<vault, entry, secretFile>>
proc == <<ui, mem, pc, work, held>>
vars == <<disk, lock, proc, wizard>>

(* A completed wizard: the mode, and whether it carries a password.  Only  *)
(* mode None may go without one (the recovery offer).                      *)
Choices == [mode : {"None", "Password", "PasswordTotp", "TotpDaily"}, pw : {TRUE}]
              \cup {[mode |-> "None", pw |-> FALSE]}
WantsDevice(c) == c.mode \in {"None", "TotpDaily"}
WantsTotp(c)   == c.mode \in {"PasswordTotp", "TotpDaily"}

-----------------------------------------------------------------------------
(* The building blocks of a handler. *)

Screens == {"off", "starting", "setup", "locked", "migrate", "daily",
            "unopenable", "cannotOpen", "prompt", "menu"}
Open(i) == ui[i] \in {"prompt", "menu"}

\* Mutants: a lock that does not exclude, and one that waits instead of failing.
SharedClaim(i) == lock' = i
WaitingInUse(i) == FALSE

\* VaultLock::acquire: non-blocking, idempotent, kept until the process ends.
Claim(i) == lock \in {Nobody, i} /\ lock' = i
InUse(i) == lock \notin {Nobody, i} /\ UNCHANGED lock

\* DeviceStore::read and ::delete; a failing write leaves the entry alone.
EntryReads   == {entry} \cup IF "entryRead" \in Faults THEN {Unreadable} ELSE {}
WriteFails   == "entryWrite" \in Faults /\ UNCHANGED entry
SaveFails    == "save" \in Faults /\ UNCHANGED vault

KeepEntry   == UNCHANGED entry                     \* mutant: the delete is forgotten
DeleteEntry == \/ entry' = NoEntry
               \/ "entryDelete" \in Faults /\ UNCHANGED entry

\* discard_totp_only_secret ignores an error of remove_file.
KeepSecret    == UNCHANGED secretFile              \* mutant: the discard is forgotten
DiscardSecret == \/ secretFile' = FALSE
                 \/ "discard" \in Faults /\ UNCHANGED secretFile

\* DeviceState::new draws 32 random bytes: a key that is nowhere in the system.
KeysInUse ==
    LET images  == {vault} \cup {mem[j] : j \in Instances} \cup {work[j] : j \in Instances}
        entries == {entry} \cup {held[j] : j \in Instances}
    IN  {v.dev : v \in images \ {NoVault, NoImage}} \cup {e.key : e \in entries \ {NoEntry}}
NewKey(n) == n \in Keys \ KeysInUse

\* The handler goes on to the effect l, holding img and d.
Proceed(i, l, img, d) ==
    /\ pc'   = [pc   EXCEPT ![i] = l]
    /\ work' = [work EXCEPT ![i] = img]
    /\ held' = [held EXCEPT ![i] = d]
    /\ UNCHANGED <<ui, mem>>

\* The handler returns, leaving screen s and the open vault img.
Finish(i, s, img) ==
    /\ ui'   = [ui   EXCEPT ![i] = s]
    /\ mem'  = [mem  EXCEPT ![i] = img]
    /\ pc'   = [pc   EXCEPT ![i] = "idle"]
    /\ work' = [work EXCEPT ![i] = NoImage]
    /\ held' = [held EXCEPT ![i] = NoEntry]

Return(i) == Finish(i, ui[i], mem[i])

\* A settings handler whose save went through keeps what it saved.
ForgottenCommit(i, img) == Finish(i, "menu", mem[i])   \* mutant: u.slots keeps the old slots
Commit(i, img) == Finish(i, "menu", img)

\* App::unlocked_state: a vault that enrols TOTP is not usable before the prompt.
EnterUnlocked(i, img) == Finish(i, IF img.totp THEN "prompt" ELSE "menu", img)

AnySchema(img)    == FALSE                          \* mutant: the version check is forgotten
SchemaTooNew(img) == img.newer

PasswordOpens(s) == vault # NoVault /\ vault.pw = s
DeviceOpens(k)   == vault # NoVault /\ ~vault.v1 /\ vault.dev = k /\ k # NoKey

Idle(i, screens) == pc[i] = "idle" /\ ui[i] \in screens

-----------------------------------------------------------------------------
(* App::resolve_initial_state and device_backed_initial_state: run at      *)
(* start-up and again by every lock, from what is on disk at that moment.  *)

LockedOut(i) == IF work[i].pw # NoSecret THEN "locked" ELSE "unopenable"

Resolve(i) ==
    \/ secretFile /\ Finish(i, "migrate", NoImage) /\ UNCHANGED wizard
    \/ /\ ~secretFile /\ vault = NoVault
       /\ Finish(i, "setup", NoImage)
       /\ wizard' = [wizard EXCEPT ![i] = Choices]
    \/ /\ ~secretFile /\ vault # NoVault /\ vault.dev = NoKey
       /\ Finish(i, "locked", NoImage)
       /\ UNCHANGED wizard
    \/ /\ ~secretFile /\ vault # NoVault /\ vault.dev # NoKey
       /\ ui'   = [ui   EXCEPT ![i] = "starting"]
       /\ mem'  = [mem  EXCEPT ![i] = NoImage]
       /\ pc'   = [pc   EXCEPT ![i] = "resolveEntry"]
       /\ work' = [work EXCEPT ![i] = vault]
       /\ UNCHANGED <<held, wizard>>

Launch(i) == Idle(i, {"off"}) /\ Resolve(i) /\ UNCHANGED <<disk, lock>>

\* NextStep::Lock, auto_lock_if_idle and a cancelled TOTP prompt; the flock stays held.
Lock(i) == Idle(i, {"menu", "prompt"}) /\ Resolve(i) /\ UNCHANGED <<disk, lock>>

ResolveEntry(i) ==
    /\ pc[i] = "resolveEntry"
    /\ \E e \in EntryReads :
          \/ e \in {NoEntry, Unreadable} /\ Finish(i, LockedOut(i), NoImage)
          \/ e \in Entries /\ ~e.totp /\ Proceed(i, "resolveOpen", work[i], e)
          \/ e \in Entries /\ e.totp /\ Finish(i, "daily", NoImage)
          \/ \* must_escalate (TotpGate): too many failures or an old password check
             /\ e \in Entries /\ e.totp /\ work[i].pw # NoSecret
             /\ Finish(i, "locked", NoImage)
    /\ UNCHANGED <<disk, lock, wizard>>

\* load_with_device reads the file again, under the lock.
PeekedImage(i) == work[i]                          \* mutant: the bytes read before the claim
LoadedImage(i) == vault

ResolveOpen(i) ==
    /\ pc[i] = "resolveOpen"
    /\ \/ InUse(i) /\ Finish(i, "cannotOpen", NoImage)
       \/ /\ Claim(i)
          /\ \/ /\ DeviceOpens(held[i].key) /\ ~SchemaTooNew(vault)
                /\ EnterUnlocked(i, LoadedImage(i))
             \/ /\ DeviceOpens(held[i].key) /\ SchemaTooNew(vault)
                /\ Finish(i, "cannotOpen", NoImage)
             \/ ~DeviceOpens(held[i].key) /\ Finish(i, LockedOut(i), NoImage)
    /\ UNCHANGED <<disk, wizard>>

-----------------------------------------------------------------------------
(* App::try_unlock: ConfigStore::load, then reconcile_device_state, then   *)
(* enter_unlocked.  Claiming and reading are one step: only the holder of  *)
(* the lock writes the file.  While another copy holds it the screen only  *)
(* shows a message, so that outcome changes nothing and is left out.       *)

TryUnlock(i, p) ==
    /\ Idle(i, {"locked"})
    /\ Claim(i)
    /\ \/ ~PasswordOpens(p) /\ Return(i) /\ UNCHANGED vault
       \/ PasswordOpens(p) /\ SchemaTooNew(vault) /\ Finish(i, "cannotOpen", NoImage) /\ UNCHANGED vault
       \/ /\ PasswordOpens(p) /\ ~SchemaTooNew(vault)
          /\ vault.v1                              \* upgrade_v1 rewrites before it returns
          /\ \/ /\ vault' = [vault EXCEPT !.v1 = FALSE]
                /\ EnterUnlocked(i, vault')
             \/ SaveFails /\ Return(i)
       \/ /\ PasswordOpens(p) /\ ~SchemaTooNew(vault) /\ ~vault.v1
          /\ IF vault.dev = NoKey THEN EnterUnlocked(i, vault)
                              ELSE Proceed(i, "reconcile", vault, NoEntry)
          /\ UNCHANGED vault
    /\ UNCHANGED <<entry, secretFile, wizard>>

EnrolledUnread(e) == e # NoEntry                    \* mutant: a read error taken for an entry
Enrolled(e) == e \in Entries

\* reconcile_device_state reads the entry; a missing one is enrolled again under a new key.
Reconcile(i) ==
    /\ pc[i] = "reconcile"
    /\ \E e \in EntryReads :
          \/ /\ e = Unreadable
             /\ EnterUnlocked(i, work[i])
             /\ UNCHANGED entry
          \/ /\ Enrolled(e)
             /\ Proceed(i, "recordCheck", work[i], e)
             /\ UNCHANGED entry
          \/ /\ e = NoEntry
             /\ \E n \in Keys :
                   LET fresh == [key |-> n, totp |-> work[i].totp] IN
                   /\ NewKey(n)
                   /\ \/ entry' = fresh /\ Proceed(i, "reenrolSave", work[i], fresh)
                      \/ WriteFails /\ EnterUnlocked(i, work[i])
    /\ UNCHANGED <<vault, secretFile, lock, wizard>>

\* record_password_check written back; a failure is ignored.
RecordCheck(i) ==
    /\ pc[i] = "recordCheck"
    /\ entry' = held[i] \/ WriteFails
    /\ EnterUnlocked(i, work[i])
    /\ UNCHANGED <<vault, secretFile, lock, wizard>>

\* The slots on disk get the new device slot; those in memory keep the old one.
ReenrolSave(i) ==
    /\ pc[i] = "reenrolSave"
    /\ \/ vault' = [work[i] EXCEPT !.dev = held[i].key] /\ EnterUnlocked(i, work[i])
       \/ SaveFails /\ Proceed(i, "reenrolUndo", work[i], NoEntry)
    /\ UNCHANGED <<entry, secretFile, lock, wizard>>

ReenrolUndo(i) ==
    /\ pc[i] = "reenrolUndo"
    /\ DeleteEntry
    /\ EnterUnlocked(i, work[i])
    /\ UNCHANGED <<vault, secretFile, lock, wizard>>

PromptAccept(i) ==
    /\ Idle(i, {"prompt"})
    /\ Finish(i, "menu", mem[i])
    /\ UNCHANGED <<disk, lock, wizard>>

-----------------------------------------------------------------------------
(* App::try_totp_daily_unlock.  The device state is read, written back     *)
(* with its counters changed, and used.  The counters are in TotpGate; what *)
(* matters here is that the whole entry is written back, key included.     *)

SubmitCode(i) ==
    /\ Idle(i, {"daily"})
    /\ \E e \in EntryReads :
          \/ ~(e \in Entries /\ e.totp) /\ Finish(i, "locked", NoImage)
          \/ e \in Entries /\ e.totp /\ Proceed(i, "codeAccepted", NoImage, e)
          \/ e \in Entries /\ e.totp /\ Proceed(i, "codeRefused", NoImage, e)
    /\ UNCHANGED <<disk, lock, wizard>>

CodeAccepted(i) ==
    /\ pc[i] = "codeAccepted"
    /\ entry' = held[i] \/ WriteFails
    /\ Proceed(i, "codeOpen", NoImage, held[i])
    /\ UNCHANGED <<vault, secretFile, lock, wizard>>

\* Replayed, or the last allowed failure: the password screen; otherwise ask again.
CodeRefused(i) ==
    /\ pc[i] = "codeRefused"
    /\ entry' = held[i] \/ WriteFails
    /\ Finish(i, "locked", NoImage) \/ Finish(i, "daily", NoImage)
    /\ UNCHANGED <<vault, secretFile, lock, wizard>>

CodeOpen(i) ==
    /\ pc[i] = "codeOpen"
    /\ \/ InUse(i) /\ Finish(i, "daily", NoImage)
       \/ /\ Claim(i)
          /\ \/ /\ DeviceOpens(held[i].key) /\ ~SchemaTooNew(vault)
                /\ Finish(i, "menu", vault)
             \/ /\ DeviceOpens(held[i].key) /\ SchemaTooNew(vault)
                /\ Finish(i, "cannotOpen", NoImage)
             \/ ~DeviceOpens(held[i].key) /\ Finish(i, "daily", NoImage)
    /\ UNCHANGED <<disk, wizard>>

-----------------------------------------------------------------------------
(* App::create_vault: keyring entry first (only for the device modes),     *)
(* then init_slots, then for the TOTP modes a second save that adds TOTP.  *)
(* Every error deletes the entry again when the mode wanted one.           *)

\* What the wizard can submit once c was: it cannot go back a step, and a
\* TOTP enrolment loses its secret with the first submission.
WizardAfter(c) ==
    IF WantsTotp(c) THEN {}
    ELSE IF c.pw THEN {c} ELSE {d \in Choices : d.mode = c.mode}

NewVault(c, p, k) ==
    [v1 |-> FALSE, newer |-> FALSE, pw |-> IF c.pw THEN p ELSE NoSecret,
     dev |-> k, totp |-> WantsTotp(c), edits |-> {}]

CreateVault(i, c, p) ==
    /\ Idle(i, {"setup"})
    /\ c \in wizard[i]
    /\ wizard' = [wizard EXCEPT ![i] = WizardAfter(c)]
    /\ IF WantsDevice(c)
       THEN \E n \in Keys :
               LET fresh == [key |-> n, totp |-> WantsTotp(c)] IN
               /\ NewKey(n)
               /\ \/ entry' = fresh /\ Proceed(i, "createInit", NewVault(c, p, n), fresh)
                  \/ WriteFails /\ Proceed(i, "createUndo", NewVault(c, p, n), NoEntry)
       ELSE /\ Proceed(i, "createInit", NewVault(c, p, NoKey), NoEntry)
            /\ UNCHANGED entry
    /\ UNCHANGED <<vault, secretFile, lock>>

CreateFails(i) ==
    IF work[i].dev # NoKey THEN Proceed(i, "createUndo", work[i], NoEntry) ELSE Return(i)

\* init_slots claims the lock and writes; it does not look whether a vault is there by now.
CreateInit(i) ==
    /\ pc[i] = "createInit"
    /\ \/ InUse(i) /\ CreateFails(i) /\ UNCHANGED vault
       \/ /\ Claim(i)
          /\ \/ /\ vault' = [work[i] EXCEPT !.totp = FALSE]
                /\ IF work[i].totp THEN Proceed(i, "createTotp", work[i], held[i])
                                   ELSE Finish(i, "menu", work[i])
             \/ SaveFails /\ CreateFails(i)
    /\ UNCHANGED <<entry, secretFile, wizard>>

CreateTotp(i) ==
    /\ pc[i] = "createTotp"
    /\ \/ vault' = work[i] /\ Finish(i, "menu", work[i])
       \/ SaveFails /\ CreateFails(i)
    /\ UNCHANGED <<entry, secretFile, lock, wizard>>

CreateUndo(i) ==
    /\ pc[i] = "createUndo"
    /\ DeleteEntry
    /\ Return(i)
    /\ UNCHANGED <<vault, secretFile, lock, wizard>>

-----------------------------------------------------------------------------
(* App::migrate_totp_only: open the vault with the old secret, give it a   *)
(* password (and a device key where there is a keyring), save, discard the *)
(* secret file.  Any error deletes the keyring entry and stays.            *)

MigrateFails(i) == Proceed(i, "migrateUndo", NoImage, NoEntry)

MigrateLoad(i, p) ==
    LET image == [vault EXCEPT !.v1 = FALSE]
        target == [image EXCEPT !.pw = p, !.dev = NoKey, !.totp = TRUE]
    IN
    /\ Idle(i, {"migrate"})
    /\ \/ ~secretFile /\ MigrateFails(i) /\ UNCHANGED <<vault, lock>>
       \/ secretFile /\ InUse(i) /\ MigrateFails(i) /\ UNCHANGED vault
       \/ /\ secretFile /\ Claim(i)
          /\ \/ /\ ~PasswordOpens(LegacySecret) \/ SchemaTooNew(vault)
                /\ MigrateFails(i)
                /\ UNCHANGED vault
             \/ /\ PasswordOpens(LegacySecret) /\ ~SchemaTooNew(vault)
                /\ vault' = image
                /\ Proceed(i, "migrateEntry", target, NoEntry)
             \/ PasswordOpens(LegacySecret) /\ vault.v1 /\ SaveFails /\ MigrateFails(i)
    /\ UNCHANGED <<entry, secretFile, wizard>>

\* credential_store_available decides whether the vault gets a device slot.
MigrateEntry(i) ==
    /\ pc[i] = "migrateEntry"
    /\ \/ Proceed(i, "migrateSave", work[i], NoEntry) /\ UNCHANGED entry
       \/ \E n \in Keys :
             LET fresh == [key |-> n, totp |-> TRUE] IN
             /\ NewKey(n)
             /\ \/ entry' = fresh /\ Proceed(i, "migrateSave", [work[i] EXCEPT !.dev = n], fresh)
                \/ WriteFails /\ MigrateFails(i)
    /\ UNCHANGED <<vault, secretFile, lock, wizard>>

MigrateSave(i) ==
    /\ pc[i] = "migrateSave"
    /\ \/ vault' = work[i] /\ Proceed(i, "migrateDiscard", work[i], NoEntry)
       \/ SaveFails /\ MigrateFails(i)
    /\ UNCHANGED <<entry, secretFile, lock, wizard>>

MigrateDiscard(i) ==
    /\ pc[i] = "migrateDiscard"
    /\ DiscardSecret
    /\ Finish(i, "menu", work[i])
    /\ UNCHANGED <<vault, entry, lock, wizard>>

MigrateUndo(i) ==
    /\ pc[i] = "migrateUndo"
    /\ DeleteEntry
    /\ Return(i)
    /\ UNCHANGED <<vault, secretFile, lock, wizard>>

-----------------------------------------------------------------------------
(* The handlers of an open vault. *)

\* Any handler that changes the config and saves it.  import_ssh_hosts,
\* set_auto_lock and set_connect_mode undo the change in memory when the save
\* fails; submit_form and the others keep it.
Edit(i, e) ==
    LET changed == [mem[i] EXCEPT !.edits = @ \cup {e}] IN
    /\ Idle(i, {"menu"})
    /\ e \notin mem[i].edits
    /\ \/ vault' = changed /\ Commit(i, changed)
       \/ SaveFails /\ Return(i)
       \/ SaveFails /\ Commit(i, changed)
    /\ UNCHANGED <<entry, secretFile, lock, wizard>>

\* change_master_password: only for a vault that has a password slot.
ChangePassword(i, p) ==
    LET changed == [mem[i] EXCEPT !.pw = p] IN
    /\ Idle(i, {"menu"})
    /\ mem[i].pw # NoSecret
    /\ \/ vault' = changed /\ Commit(i, changed)
       \/ SaveFails /\ Return(i)
    /\ UNCHANGED <<entry, secretFile, lock, wizard>>

\* Mutant: the old password slot is dropped when no new password is given.
DroppedSlots(i, c, p, k) ==
    [mem[i] EXCEPT !.pw = IF c.pw THEN p ELSE NoSecret, !.dev = k, !.totp = WantsTotp(c)]

\* change_security_mode: without a new password the old slot is kept.
NewSlots(i, c, p, k) ==
    [mem[i] EXCEPT !.pw = IF c.pw THEN p ELSE @, !.dev = k, !.totp = WantsTotp(c)]

ChangeMode(i, c, p) ==
    /\ Idle(i, {"menu"})
    /\ IF WantsDevice(c)
       THEN \E n \in Keys :
               LET fresh == [key |-> n, totp |-> WantsTotp(c)] IN
               /\ NewKey(n)
               /\ \/ entry' = fresh /\ Proceed(i, "modeSave", NewSlots(i, c, p, n), fresh)
                  \/ WriteFails /\ Proceed(i, "modeUndo", NewSlots(i, c, p, n), NoEntry)
       ELSE /\ Proceed(i, "modeSave", NewSlots(i, c, p, NoKey), NoEntry)
            /\ UNCHANGED entry
    /\ UNCHANGED <<vault, secretFile, lock, wizard>>

ModeSave(i) ==
    /\ pc[i] = "modeSave"
    /\ \/ /\ vault' = work[i]
          /\ IF work[i].dev # NoKey THEN Commit(i, work[i])
                                    ELSE Proceed(i, "modeClean", work[i], NoEntry)
       \/ /\ SaveFails
          /\ IF work[i].dev # NoKey THEN Proceed(i, "modeUndo", work[i], NoEntry)
                                ELSE Return(i)
    /\ UNCHANGED <<entry, secretFile, lock, wizard>>

\* The new mode has no device slot: the entry goes, after the save.
ModeClean(i) ==
    /\ pc[i] = "modeClean"
    /\ DeleteEntry
    /\ Commit(i, work[i])
    /\ UNCHANGED <<vault, secretFile, lock, wizard>>

ModeUndo(i) ==
    /\ pc[i] = "modeUndo"
    /\ DeleteEntry
    /\ Return(i)
    /\ UNCHANGED <<vault, secretFile, lock, wizard>>

-----------------------------------------------------------------------------
(* The end of a process, and the environment. *)

Exit(i) ==
    /\ lock' = IF lock = i THEN Nobody ELSE lock
    /\ Finish(i, "off", NoImage)
    /\ wizard' = [wizard EXCEPT ![i] = {}]
    /\ UNCHANGED disk

Quit(i)  == Idle(i, Screens \ {"off", "starting", "prompt"}) /\ Exit(i)
Crash(i) == "crash" \in Faults /\ ui[i] # "off" /\ Exit(i)

\* The keyring is reset, or the vault is carried to another machine.
EntryLost ==
    /\ "entryLost" \in Faults
    /\ entry # NoEntry
    /\ entry' = NoEntry
    /\ UNCHANGED <<vault, secretFile, lock, proc, wizard>>

Init ==
    /\ lock = Nobody
    /\ ui     = [i \in Instances |-> "off"]
    /\ pc     = [i \in Instances |-> "idle"]
    /\ mem    = [i \in Instances |-> NoImage]
    /\ work   = [i \in Instances |-> NoImage]
    /\ held   = [i \in Instances |-> NoEntry]
    /\ wizard = [i \in Instances |-> {}]

\* A first launch: nothing on disk.
FreshInit ==
    Init /\ vault = NoVault /\ entry = NoEntry /\ secretFile = FALSE

\* A vault some earlier run left behind, in any of the shapes it can have.
ExistingInit ==
    /\ Init
    /\ vault \in Images
    /\ vault.pw = NoSecret => vault.dev # NoKey
    /\ vault.v1 => vault.dev = NoKey /\ ~vault.newer
    /\ vault.dev # NoKey /\ vault.totp => vault.pw # NoSecret
    /\ secretFile = (vault.pw = LegacySecret)
    /\ secretFile => vault.dev = NoKey
    /\ entry = IF vault.dev = NoKey THEN NoEntry
                                ELSE [key |-> vault.dev, totp |-> vault.totp]

\* What a process does on its own once a key started a handler.
Step(i) ==
    \/ ResolveEntry(i) \/ ResolveOpen(i)
    \/ Reconcile(i) \/ RecordCheck(i) \/ ReenrolSave(i) \/ ReenrolUndo(i)
    \/ CodeAccepted(i) \/ CodeRefused(i) \/ CodeOpen(i)
    \/ CreateInit(i) \/ CreateTotp(i) \/ CreateUndo(i)
    \/ MigrateEntry(i) \/ MigrateSave(i) \/ MigrateDiscard(i) \/ MigrateUndo(i)
    \/ ModeSave(i) \/ ModeClean(i) \/ ModeUndo(i)

\* What the user starts.
Key(i) ==
    \/ Launch(i) \/ Lock(i) \/ Quit(i) \/ PromptAccept(i) \/ SubmitCode(i)
    \/ \E p \in Passwords :
          \/ TryUnlock(i, p) \/ MigrateLoad(i, p) \/ ChangePassword(i, p)
          \/ \E c \in Choices : CreateVault(i, c, p) \/ ChangeMode(i, c, p)
    \/ \E e \in Edits : Edit(i, e)

Next == EntryLost \/ \E i \in Instances : Key(i) \/ Step(i) \/ Crash(i)

FreshSpec    == FreshInit /\ [][Next]_vars
ExistingSpec == ExistingInit /\ [][Next]_vars
Spec         == (FreshInit \/ ExistingInit) /\ [][Next]_vars
FairSpec     == ExistingSpec /\ \A i \in Instances : WF_vars(Step(i))

-----------------------------------------------------------------------------
AtRest == \A i \in Instances : pc[i] = "idle"

PCs == {"idle", "resolveEntry", "resolveOpen", "reconcile", "recordCheck",
        "reenrolSave", "reenrolUndo", "codeAccepted", "codeRefused", "codeOpen",
        "createInit", "createTotp", "createUndo", "migrateEntry", "migrateSave",
        "migrateDiscard", "migrateUndo", "modeSave", "modeClean", "modeUndo"}

(* Every variable stays in its domain. *)
TypeOK ==
    /\ vault \in Images \cup {NoVault}
    /\ entry \in Entries \cup {NoEntry}
    /\ secretFile \in BOOLEAN
    /\ lock \in Instances \cup {Nobody}
    /\ ui \in [Instances -> Screens]
    /\ pc \in [Instances -> PCs]
    /\ mem \in [Instances -> Images \cup {NoImage}]
    /\ work \in [Instances -> Images \cup {NoImage}]
    /\ held \in [Instances -> Entries \cup {NoEntry}]
    /\ wizard \in [Instances -> SUBSET Choices]

(* Whoever has the decrypted vault in memory holds the flock, so two copies *)
(* never have it open together (lock.rs: one instance holds an open vault). *)
OpenVaultHoldsLock == \A i \in Instances : Open(i) => lock = i

(* The slots a copy keeps in memory are the slots on disk: every later save *)
(* writes them back, so a difference silently reverts a password or a mode. *)
SlotsMatchDisk ==
    \A i \in Instances : Open(i) /\ pc[i] = "idle" =>
        /\ mem[i].pw = vault.pw
        /\ mem[i].dev = vault.dev
        /\ mem[i].totp = vault.totp

(* Between handlers the keyring entry is the other half of the device slot: *)
(* no entry for a vault without that slot, and the right key and the right  *)
(* answer to "is a code needed" for a vault with one.                       *)
EntryMatchesVault ==
    AtRest /\ vault # NoVault /\ entry # NoEntry =>
        entry.key = vault.dev /\ vault.dev # NoKey /\ entry.totp = vault.totp

(* Some way in always exists: a password, or a device slot whose key is in  *)
(* the keyring.                                                             *)
NeverStranded ==
    AtRest /\ vault # NoVault =>
        vault.pw # NoSecret \/ (entry # NoEntry /\ entry.key = vault.dev)

(* While the secret file of a "TOTP only" vault is there every launch goes  *)
(* to the migration screen, so that screen must be able to open the vault.  *)
MigrationCanFinish == AtRest /\ secretFile => PasswordOpens(LegacySecret)

(* No save ever drops an edit that an earlier save put on disk.             *)
NoLostEdit == [][vault # NoVault => vault.edits \subseteq vault'.edits]_vars

(* A vault that can be opened with a password never stops having one.       *)
PasswordSlotStays ==
    [][vault # NoVault /\ vault.pw # NoSecret => vault'.pw # NoSecret]_vars

(* A vault of a newer schema is never rewritten by this build, which would  *)
(* drop what it does not know.                                              *)
NewerVaultUntouched == [][vault # NoVault /\ vault.newer => vault' = vault]_vars

(* The vault as a ledger with one owner: what other code may rely on.       *)
LedgerView == INSTANCE Ledger
    WITH owner <- lock, durable <- IF vault = NoVault THEN {} ELSE vault.edits

(* Every step of every copy is a step of the ledger: taken by its owner,    *)
(* adding to what is on disk, and owned by one copy at a time.              *)
LedgerImplemented == LedgerView!LedgerSpec

(* A handler that started always returns to the event loop: nothing in it   *)
(* waits for another copy.                                                  *)
HandlersReturn == \A i \in Instances : pc[i] # "idle" ~> pc[i] = "idle"
=============================================================================
