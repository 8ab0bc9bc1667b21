---------------------------- MODULE VaultProofs ----------------------------
(***************************************************************************)
(* What Vault promises for any number of copies, passwords, edits and      *)
(* keys, and under every combination of failures.                          *)
(***************************************************************************)
EXTENDS Vault, TLAPS

(* Every image a handler builds out of another one is an image. *)
LEMMA ImageUpdates ==
    ASSUME NEW img \in Images
    PROVE  /\ [img EXCEPT !.v1 = FALSE] \in Images
           /\ \A k \in Keys \cup {NoKey} : [img EXCEPT !.dev = k] \in Images
           /\ \A b \in BOOLEAN : [img EXCEPT !.totp = b] \in Images
           /\ \A p \in Secrets : [img EXCEPT !.pw = p] \in Images
           /\ \A p \in Secrets, k \in Keys \cup {NoKey}, b \in BOOLEAN :
                 [img EXCEPT !.pw = p, !.dev = k, !.totp = b] \in Images
           /\ \A e \in Edits : [img EXCEPT !.edits = @ \cup {e}] \in Images
  BY DEF Images

LEMMA NewVaultType ==
    ASSUME NEW c \in Choices, NEW p \in Passwords, NEW k \in Keys \cup {NoKey}
    PROVE  NewVault(c, p, k) \in Images
  BY DEF NewVault, Images, Choices, WantsTotp, Secrets

LEMMA NewSlotsType ==
    ASSUME NEW i \in Instances, mem[i] \in Images,
           NEW c \in Choices, NEW p \in Passwords, NEW k \in Keys \cup {NoKey}
    PROVE  NewSlots(i, c, p, k) \in Images
<1> DEFINE s == IF c.pw THEN p ELSE mem[i].pw
<1>1. s \in Secrets
  BY DEF Images, Secrets
<1>2. WantsTotp(c) \in BOOLEAN
  BY DEF WantsTotp
<1>3. NewSlots(i, c, p, k) = [mem[i] EXCEPT !.pw = s, !.dev = k, !.totp = WantsTotp(c)]
  BY DEF NewSlots, Images
<1> HIDE DEF s
<1>4. QED
  BY <1>1, <1>2, <1>3 DEF Images

-----------------------------------------------------------------------------
(* Which handlers hold an open vault in their hands: from the claim to the *)
(* end, whichever screen is still shown.                                   *)
HolderPCs == {"reconcile", "recordCheck", "reenrolSave", "reenrolUndo", "createTotp",
              "migrateEntry", "migrateSave", "migrateDiscard",
              "modeSave", "modeClean", "modeUndo"}

(* The variables of the running copies; the rest of TypeOK is about the    *)
(* disk, the lock and the wizard.                                          *)
ProcOK ==
    /\ ui \in [Instances -> Screens]
    /\ pc \in [Instances -> PCs]
    /\ mem \in [Instances -> Images \cup {NoImage}]
    /\ work \in [Instances -> Images \cup {NoImage}]
    /\ held \in [Instances -> Entries \cup {NoEntry}]

(* What typing alone does not say: an open vault has an image, and so does  *)
(* every handler that is about to save one.                                 *)
WorkPCs == HolderPCs \cup {"resolveEntry", "resolveOpen", "createInit", "createUndo"}
HeldPCs == {"resolveOpen", "codeAccepted", "codeRefused", "codeOpen",
            "recordCheck", "reenrolSave"}

InHand(i) ==
    /\ Open(i) => mem[i] \in Images
    /\ pc[i] \in WorkPCs => work[i] \in Images
    /\ pc[i] \in HeldPCs => held[i] \in Entries

ImagesInHand == \A i \in Instances : InHand(i)

TypeInv == TypeOK /\ ImagesInHand


(* The helpers that move one copy on keep its variables in their domains    *)
(* and put an image where one will be needed.                               *)
LEMMA ProceedInv ==
    ASSUME ProcOK, ImagesInHand, NEW i \in Instances, NEW l \in PCs,
           NEW img \in Images \cup {NoImage}, NEW d \in Entries \cup {NoEntry},
           l \in WorkPCs => img \in Images,
           l \in HeldPCs => d \in Entries,
           Proceed(i, l, img, d)
    PROVE  ProcOK' /\ ImagesInHand'
  BY DEF ProcOK, Proceed, ImagesInHand, InHand, Open

LEMMA FinishInv ==
    ASSUME ProcOK, ImagesInHand, NEW i \in Instances, NEW s \in Screens,
           NEW img \in Images \cup {NoImage},
           s \in {"prompt", "menu"} => img \in Images,
           Finish(i, s, img)
    PROVE  ProcOK' /\ ImagesInHand'
  BY DEF ProcOK, Finish, ImagesInHand, InHand, Open, PCs, HolderPCs, WorkPCs, HeldPCs

LEMMA ReturnInv ==
    ASSUME ProcOK, ImagesInHand, NEW i \in Instances, Return(i)
    PROVE  ProcOK' /\ ImagesInHand'
  BY FinishInv DEF ProcOK, Return, ImagesInHand, InHand, Open

LEMMA CommitInv ==
    ASSUME ProcOK, ImagesInHand, NEW i \in Instances, NEW img \in Images, Commit(i, img)
    PROVE  ProcOK' /\ ImagesInHand'
  BY FinishInv DEF Commit, Screens

LEMMA EnterInv ==
    ASSUME ProcOK, ImagesInHand, NEW i \in Instances, NEW img \in Images, EnterUnlocked(i, img)
    PROVE  ProcOK' /\ ImagesInHand'
  BY FinishInv DEF EnterUnlocked, Screens

LEMMA InitType == (FreshInit \/ ExistingInit) => TypeInv
<1> USE DEF Init, TypeInv, TypeOK, ImagesInHand, InHand, Screens, PCs, Open, HolderPCs, WorkPCs, HeldPCs
<1>1. FreshInit => TypeInv
  <2> SUFFICES ASSUME FreshInit PROVE TypeInv
    OBVIOUS
  <2>1. vault = NoVault /\ entry = NoEntry /\ secretFile \in BOOLEAN
    BY DEF FreshInit
  <2>2. QED
    BY <2>1 DEF FreshInit
<1>2. ExistingInit => entry \in Entries \cup {NoEntry}
  <2> SUFFICES ASSUME ExistingInit, vault.dev # NoKey PROVE entry \in Entries
    BY DEF ExistingInit
  <2>1. vault.dev \in Keys /\ vault.totp \in BOOLEAN
    BY DEF ExistingInit, Images
  <2>2. QED
    BY <2>1 DEF ExistingInit, Entries
<1>3. ExistingInit => TypeInv
  BY <1>2 DEF ExistingInit
<1>4. QED
  BY <1>1, <1>3

-----------------------------------------------------------------------------
(* The step that keeps the type invariant, one lemma for each action.       *)
DiskOK ==
    /\ vault \in Images \cup {NoVault}
    /\ entry \in Entries \cup {NoEntry}
    /\ secretFile \in BOOLEAN
    /\ lock \in Instances \cup {Nobody}
    /\ wizard \in [Instances -> SUBSET Choices]

(* What the invariant says of the one copy that takes a step. *)
LEMMA Here ==
    ASSUME ProcOK, ImagesInHand, NEW i \in Instances
    PROVE  /\ ui[i] \in Screens
           /\ mem[i] \in Images \cup {NoImage}
           /\ work[i] \in Images \cup {NoImage}
           /\ held[i] \in Entries \cup {NoEntry}
           /\ ui[i] \in {"prompt", "menu"} => mem[i] \in Images
           /\ pc[i] \in WorkPCs => work[i] \in Images
           /\ pc[i] \in HeldPCs => held[i] \in Entries
  BY DEF ProcOK, ImagesInHand, InHand, Open

LEMMA Fields ==
    /\ \A img \in Images : /\ img.v1 \in BOOLEAN /\ img.newer \in BOOLEAN
                           /\ img.totp \in BOOLEAN /\ img.pw \in Secrets
                           /\ img.dev \in Keys \cup {NoKey} /\ img.edits \in SUBSET Edits
    /\ \A d \in Entries : d.key \in Keys /\ d.totp \in BOOLEAN
    /\ \A c \in Choices : WantsTotp(c) \in BOOLEAN
    /\ \A n \in Keys, b \in BOOLEAN : [key |-> n, totp |-> b] \in Entries
    /\ NoImage \notin Images /\ NoVault \notin Images
    /\ NoEntry \notin Entries /\ Unreadable \notin Entries
  BY SentinelsAssumption DEF Images, Entries, WantsTotp

LEMMA SecretsType == \A p \in Passwords : p \in Secrets
  BY DEF Secrets

(* What is on screen after an unlocked handler, and which labels need what. *)
LEMMA Labels ==
    /\ \A l \in WorkPCs \cup HeldPCs : l \in PCs
    /\ \A l \in HolderPCs : l \in WorkPCs
    /\ {"resolveEntry", "resolveOpen", "createInit", "createUndo"} \subseteq WorkPCs
    /\ {"reconcile", "migrateEntry", "migrateSave", "migrateDiscard", "modeSave",
        "modeClean", "modeUndo", "createTotp", "recordCheck", "reenrolSave",
        "reenrolUndo"} \subseteq HolderPCs
    /\ {"resolveOpen", "recordCheck", "reenrolSave", "codeAccepted", "codeRefused",
        "codeOpen"} \subseteq HeldPCs
    /\ {"reconcile", "migrateEntry", "migrateSave", "migrateDiscard", "createInit",
        "createUndo", "createTotp", "migrateUndo", "modeSave", "modeUndo",
        "modeClean"} \cap HeldPCs = {}
    /\ {"migrateUndo", "codeAccepted", "codeRefused", "codeOpen"} \cap WorkPCs = {}
    /\ "migrateUndo" \in PCs
  BY DEF PCs, WorkPCs, HeldPCs, HolderPCs

LEMMA ResolveType ==
    ASSUME DiskOK, ProcOK, ImagesInHand, NEW i \in Instances, Resolve(i),
           UNCHANGED <<disk, lock>>
    PROVE  DiskOK' /\ ProcOK' /\ ImagesInHand'
<1>1. DiskOK'
  BY DEF DiskOK, Resolve, disk
<1>2. CASE \E s \in {"migrate", "setup", "locked"} : Finish(i, s, NoImage)
  BY <1>1, <1>2, FinishInv DEF Screens
<1>3. CASE /\ vault # NoVault
           /\ ui'   = [ui   EXCEPT ![i] = "starting"]
           /\ mem'  = [mem  EXCEPT ![i] = NoImage]
           /\ pc'   = [pc   EXCEPT ![i] = "resolveEntry"]
           /\ work' = [work EXCEPT ![i] = vault]
           /\ UNCHANGED held
  <2>1. vault \in Images
    BY <1>3 DEF DiskOK
  <2>2. ProcOK'
    BY <1>3, <2>1 DEF ProcOK, PCs, Screens
  <2>3. ImagesInHand'
    BY <1>3, <2>1 DEF ProcOK, ImagesInHand, InHand, Open, HeldPCs
  <2>4. QED
    BY <1>1, <2>2, <2>3
<1>4. QED
  BY <1>2, <1>3 DEF Resolve

LEMMA LaunchType ==
    ASSUME DiskOK, ProcOK, ImagesInHand, NEW i \in Instances, Launch(i)
    PROVE  DiskOK' /\ ProcOK' /\ ImagesInHand'
  BY ResolveType DEF Launch

LEMMA LockType ==
    ASSUME DiskOK, ProcOK, ImagesInHand, NEW i \in Instances, Lock(i)
    PROVE  DiskOK' /\ ProcOK' /\ ImagesInHand'
  BY ResolveType DEF Lock

LEMMA ExitType ==
    ASSUME DiskOK, ProcOK, ImagesInHand, NEW i \in Instances, Exit(i)
    PROVE  DiskOK' /\ ProcOK' /\ ImagesInHand'
<1>1. DiskOK'
  BY DEF Exit, DiskOK, disk
<1>2. ProcOK' /\ ImagesInHand'
  BY FinishInv DEF Exit, Screens
<1>3. QED
  BY <1>1, <1>2

LEMMA PromptAcceptType ==
    ASSUME DiskOK, ProcOK, ImagesInHand, NEW i \in Instances, PromptAccept(i)
    PROVE  DiskOK' /\ ProcOK' /\ ImagesInHand'
<1>1. DiskOK'
  BY DEF PromptAccept, DiskOK, disk
<1>2. ProcOK' /\ ImagesInHand'
  BY Here, FinishInv DEF PromptAccept, Idle, Screens
<1>3. QED
  BY <1>1, <1>2

LEMMA SubmitCodeType ==
    ASSUME DiskOK, ProcOK, ImagesInHand, NEW i \in Instances, SubmitCode(i)
    PROVE  DiskOK' /\ ProcOK' /\ ImagesInHand'
<1>1. DiskOK'
  BY DEF SubmitCode, DiskOK, disk
<1>2. PICK d \in EntryReads :
          \/ Finish(i, "locked", NoImage)
          \/ d \in Entries /\ Proceed(i, "codeAccepted", NoImage, d)
          \/ d \in Entries /\ Proceed(i, "codeRefused", NoImage, d)
  BY DEF SubmitCode
<1>3. ProcOK' /\ ImagesInHand'
  BY <1>2, Labels, FinishInv, ProceedInv DEF Screens
<1>4. QED
  BY <1>1, <1>3

LEMMA TryUnlockType ==
    ASSUME DiskOK, ProcOK, ImagesInHand, NEW i \in Instances, NEW p \in Passwords, TryUnlock(i, p)
    PROVE  DiskOK' /\ ProcOK' /\ ImagesInHand'
<1>1. DiskOK'
  <2>1. CASE UNCHANGED vault
    BY <2>1 DEF TryUnlock, DiskOK, Claim
  <2>2. CASE vault \in Images /\ vault' = [vault EXCEPT !.v1 = FALSE]
    BY <2>2, ImageUpdates DEF TryUnlock, DiskOK, Claim
  <2>3. QED
    BY <2>1, <2>2 DEF TryUnlock, DiskOK, PasswordOpens, SaveFails
<1>2. \/ Return(i)
      \/ Finish(i, "cannotOpen", NoImage)
      \/ vault' \in Images /\ EnterUnlocked(i, vault')
      \/ vault \in Images /\ Proceed(i, "reconcile", vault, NoEntry)
  <2>1. PasswordOpens(p) => vault \in Images /\ [vault EXCEPT !.v1 = FALSE] \in Images
    BY ImageUpdates DEF PasswordOpens, DiskOK
  <2>2. CASE PasswordOpens(p) /\ vault.v1 /\ ~Return(i)
    BY <2>1, <2>2 DEF TryUnlock, SaveFails
  <2>3. CASE PasswordOpens(p) /\ ~vault.v1
    BY <2>1, <2>3 DEF TryUnlock
  <2>4. QED
    BY <2>2, <2>3 DEF TryUnlock
<1>3. ProcOK' /\ ImagesInHand'
  BY <1>2, Labels, ReturnInv, FinishInv, EnterInv, ProceedInv DEF Screens
<1>4. QED
  BY <1>1, <1>3

LEMMA MigrateLoadType ==
    ASSUME DiskOK, ProcOK, ImagesInHand, NEW i \in Instances, NEW p \in Passwords, MigrateLoad(i, p)
    PROVE  DiskOK' /\ ProcOK' /\ ImagesInHand'
<1>1. DiskOK'
  <2>1. CASE UNCHANGED vault
    BY <2>1 DEF MigrateLoad, DiskOK, Claim, InUse
  <2>2. CASE vault \in Images /\ vault' = [vault EXCEPT !.v1 = FALSE]
    BY <2>2, ImageUpdates DEF MigrateLoad, DiskOK, Claim, InUse
  <2>3. QED
    BY <2>1, <2>2 DEF MigrateLoad, DiskOK, PasswordOpens, SaveFails
<1>2. CASE MigrateFails(i)
  BY <1>1, <1>2, Labels, ProceedInv DEF MigrateFails
<1>3. CASE ~MigrateFails(i)
  <2> DEFINE image  == [vault EXCEPT !.v1 = FALSE]
             target == [image EXCEPT !.pw = p, !.dev = NoKey, !.totp = TRUE]
  <2>1. vault \in Images /\ Proceed(i, "migrateEntry", target, NoEntry)
    BY <1>3 DEF MigrateLoad, DiskOK, PasswordOpens
  <2>2. image \in Images
    BY <2>1, ImageUpdates
  <2>3. target \in Images
    BY <2>2, SecretsType, ImageUpdates
  <2> HIDE DEF image, target
  <2>4. QED
    BY <1>1, <2>1, <2>3, Labels, ProceedInv
<1>4. QED
  BY <1>2, <1>3

LEMMA ChangePasswordType ==
    ASSUME DiskOK, ProcOK, ImagesInHand, NEW i \in Instances, NEW p \in Passwords, ChangePassword(i, p)
    PROVE  DiskOK' /\ ProcOK' /\ ImagesInHand'
<1> DEFINE changed == [mem[i] EXCEPT !.pw = p]
<1>1. changed \in Images
  BY Here, SecretsType, ImageUpdates DEF ChangePassword, Idle
<1>2. \/ vault' = changed /\ Commit(i, changed)
      \/ UNCHANGED vault /\ Return(i)
  BY DEF ChangePassword, SaveFails
<1>3. DiskOK'
  BY <1>1, <1>2 DEF ChangePassword, DiskOK
<1> HIDE DEF changed
<1>4. QED
  BY <1>1, <1>2, <1>3, CommitInv, ReturnInv

LEMMA EditType ==
    ASSUME DiskOK, ProcOK, ImagesInHand, NEW i \in Instances, NEW e \in Edits, Edit(i, e)
    PROVE  DiskOK' /\ ProcOK' /\ ImagesInHand'
<1> DEFINE changed == [mem[i] EXCEPT !.edits = @ \cup {e}]
<1>1. changed \in Images
  BY Here, ImageUpdates DEF Edit, Idle
<1>2. /\ vault' = changed \/ UNCHANGED vault
      /\ Commit(i, changed) \/ Return(i)
  BY DEF Edit, SaveFails
<1>3. DiskOK'
  BY <1>1, <1>2 DEF Edit, DiskOK
<1> HIDE DEF changed
<1>4. QED
  BY <1>1, <1>2, <1>3, CommitInv, ReturnInv

LEMMA CreateVaultType ==
    ASSUME DiskOK, ProcOK, ImagesInHand, NEW i \in Instances, NEW p \in Passwords, NEW c \in Choices, CreateVault(i, c, p)
    PROVE  DiskOK' /\ ProcOK' /\ ImagesInHand'
<1>1. CASE WantsDevice(c)
  <2> DEFINE fresh(n) == [key |-> n, totp |-> WantsTotp(c)]
  <2>1. PICK n \in Keys :
            \/ entry' = fresh(n) /\ Proceed(i, "createInit", NewVault(c, p, n), fresh(n))
            \/ UNCHANGED entry /\ Proceed(i, "createUndo", NewVault(c, p, n), NoEntry)
    BY <1>1 DEF CreateVault, WriteFails
  <2>2. fresh(n) \in Entries
    BY Fields
  <2>3. NewVault(c, p, n) \in Images
    BY NewVaultType
  <2> HIDE DEF fresh
  <2>4. ProcOK' /\ ImagesInHand'
    BY <2>1, <2>2, <2>3, Labels, ProceedInv
  <2>5. /\ entry' \in Entries \cup {NoEntry}
        /\ wizard' \in [Instances -> SUBSET Choices]
    BY <2>1, <2>2 DEF DiskOK, CreateVault, WizardAfter
  <2>6. QED
    BY <2>4, <2>5 DEF DiskOK, CreateVault
<1>2. CASE ~WantsDevice(c)
  <2>1. Proceed(i, "createInit", NewVault(c, p, NoKey), NoEntry) /\ UNCHANGED entry
    BY <1>2 DEF CreateVault
  <2>2. NewVault(c, p, NoKey) \in Images
    BY NewVaultType
  <2>3. ProcOK' /\ ImagesInHand'
    BY <2>1, <2>2, Labels, ProceedInv
  <2>4. wizard' \in [Instances -> SUBSET Choices]
    BY DEF DiskOK, CreateVault, WizardAfter
  <2>5. QED
    BY <2>1, <2>3, <2>4 DEF DiskOK, CreateVault
<1>3. QED
  BY <1>1, <1>2

LEMMA ChangeModeType ==
    ASSUME DiskOK, ProcOK, ImagesInHand, NEW i \in Instances, NEW p \in Passwords, NEW c \in Choices, ChangeMode(i, c, p)
    PROVE  DiskOK' /\ ProcOK' /\ ImagesInHand'
<1>0. mem[i] \in Images
  BY Here DEF ChangeMode, Idle
<1>1. CASE WantsDevice(c)
  <2> DEFINE fresh(n) == [key |-> n, totp |-> WantsTotp(c)]
  <2>1. PICK n \in Keys :
            \/ entry' = fresh(n) /\ Proceed(i, "modeSave", NewSlots(i, c, p, n), fresh(n))
            \/ UNCHANGED entry /\ Proceed(i, "modeUndo", NewSlots(i, c, p, n), NoEntry)
    BY <1>1 DEF ChangeMode, WriteFails
  <2>2. fresh(n) \in Entries
    BY Fields
  <2>3. NewSlots(i, c, p, n) \in Images
    BY <1>0, NewSlotsType
  <2> HIDE DEF fresh
  <2>4. ProcOK' /\ ImagesInHand'
    BY <2>1, <2>2, <2>3, Labels, ProceedInv
  <2>5. QED
    BY <2>1, <2>2, <2>4 DEF DiskOK, ChangeMode
<1>2. CASE ~WantsDevice(c)
  <2>1. Proceed(i, "modeSave", NewSlots(i, c, p, NoKey), NoEntry) /\ UNCHANGED entry
    BY <1>2 DEF ChangeMode
  <2>2. NewSlots(i, c, p, NoKey) \in Images
    BY <1>0, NewSlotsType
  <2>3. ProcOK' /\ ImagesInHand'
    BY <2>1, <2>2, Labels, ProceedInv
  <2>4. QED
    BY <2>1, <2>3 DEF DiskOK, ChangeMode
<1>3. QED
  BY <1>1, <1>2

LEMMA ResolveEntryType ==
    ASSUME DiskOK, ProcOK, ImagesInHand, NEW i \in Instances, ResolveEntry(i)
    PROVE  DiskOK' /\ ProcOK' /\ ImagesInHand'
<1>1. DiskOK'
  BY DEF ResolveEntry, DiskOK, disk
<1>2. PICK d \in EntryReads :
          \/ Finish(i, LockedOut(i), NoImage)
          \/ \E s \in {"daily", "locked"} : Finish(i, s, NoImage)
          \/ d \in Entries /\ Proceed(i, "resolveOpen", work[i], d)
  BY DEF ResolveEntry
<1>3. work[i] \in Images
  BY Here, Labels DEF ResolveEntry
<1>4. LockedOut(i) \in {"locked", "unopenable"}
  BY DEF LockedOut
<1>5. ProcOK' /\ ImagesInHand'
  BY <1>2, <1>3, <1>4, Labels, FinishInv, ProceedInv DEF Screens
<1>6. QED
  BY <1>1, <1>5

LEMMA ResolveOpenType ==
    ASSUME DiskOK, ProcOK, ImagesInHand, NEW i \in Instances, ResolveOpen(i)
    PROVE  DiskOK' /\ ProcOK' /\ ImagesInHand'
<1>1. DiskOK'
  BY DEF ResolveOpen, DiskOK, disk, Claim, InUse
<1>2. \/ Finish(i, "cannotOpen", NoImage)
      \/ Finish(i, LockedOut(i), NoImage)
      \/ vault # NoVault /\ EnterUnlocked(i, vault)
  BY DEF ResolveOpen, DeviceOpens, LoadedImage
<1>3. LockedOut(i) \in {"locked", "unopenable"}
  BY DEF LockedOut
<1>4. ProcOK' /\ ImagesInHand'
  BY <1>2, <1>3, FinishInv, EnterInv DEF Screens, DiskOK
<1>5. QED
  BY <1>1, <1>4

LEMMA ReconcileType ==
    ASSUME DiskOK, ProcOK, ImagesInHand, NEW i \in Instances, Reconcile(i)
    PROVE  DiskOK' /\ ProcOK' /\ ImagesInHand'
<1>1. work[i] \in Images
  BY Here, Labels DEF Reconcile
<1>2. CASE UNCHANGED entry
  <2>1. DiskOK'
    BY <1>2 DEF Reconcile, DiskOK
  <2>2. CASE EnterUnlocked(i, work[i])
    BY <1>1, <2>1, <2>2, EnterInv
  <2>3. CASE \E d \in Entries : Proceed(i, "recordCheck", work[i], d)
    BY <1>1, <2>1, <2>3, Labels, ProceedInv
  <2>4. CASE \E n \in Keys :
                Proceed(i, "reenrolSave", work[i], [key |-> n, totp |-> work[i].totp])
    BY <1>1, <2>1, <2>4, Fields, Labels, ProceedInv
  <2>5. QED
    BY <2>2, <2>3, <2>4 DEF Reconcile, Enrolled
<1>3. CASE ~UNCHANGED entry
  <2> DEFINE fresh(n) == [key |-> n, totp |-> work[i].totp]
  <2>1. PICK n \in Keys : entry' = fresh(n) /\ Proceed(i, "reenrolSave", work[i], fresh(n))
    BY <1>3 DEF Reconcile, WriteFails
  <2>2. fresh(n) \in Entries
    BY <1>1, Fields
  <2> HIDE DEF fresh
  <2>3. QED
    BY <1>1, <2>1, <2>2, Labels, ProceedInv DEF Reconcile, DiskOK
<1>4. QED
  BY <1>2, <1>3

LEMMA RecordCheckType ==
    ASSUME DiskOK, ProcOK, ImagesInHand, NEW i \in Instances, RecordCheck(i)
    PROVE  DiskOK' /\ ProcOK' /\ ImagesInHand'
<1>1. work[i] \in Images /\ held[i] \in Entries
  BY Here, Labels DEF RecordCheck
<1>2. DiskOK'
  BY <1>1 DEF RecordCheck, DiskOK, WriteFails
<1>3. ProcOK' /\ ImagesInHand'
  BY <1>1, EnterInv DEF RecordCheck
<1>4. QED
  BY <1>2, <1>3

LEMMA ReenrolSaveType ==
    ASSUME DiskOK, ProcOK, ImagesInHand, NEW i \in Instances, ReenrolSave(i)
    PROVE  DiskOK' /\ ProcOK' /\ ImagesInHand'
<1>1. work[i] \in Images /\ held[i] \in Entries
  BY Here, Labels DEF ReenrolSave
<1>2. [work[i] EXCEPT !.dev = held[i].key] \in Images
  BY <1>1, Fields, ImageUpdates
<1>3. DiskOK'
  BY <1>2 DEF ReenrolSave, DiskOK, SaveFails
<1>4. EnterUnlocked(i, work[i]) \/ Proceed(i, "reenrolUndo", work[i], NoEntry)
  BY DEF ReenrolSave
<1>5. ProcOK' /\ ImagesInHand'
  BY <1>1, <1>4, Labels, EnterInv, ProceedInv DEF HeldPCs
<1>6. QED
  BY <1>3, <1>5

LEMMA ReenrolUndoType ==
    ASSUME DiskOK, ProcOK, ImagesInHand, NEW i \in Instances, ReenrolUndo(i)
    PROVE  DiskOK' /\ ProcOK' /\ ImagesInHand'
<1>1. DiskOK'
  BY DEF ReenrolUndo, DiskOK, DeleteEntry
<1>2. ProcOK' /\ ImagesInHand'
  BY Here, Labels, EnterInv DEF ReenrolUndo
<1>3. QED
  BY <1>1, <1>2

LEMMA CodeAcceptedType ==
    ASSUME DiskOK, ProcOK, ImagesInHand, NEW i \in Instances, CodeAccepted(i)
    PROVE  DiskOK' /\ ProcOK' /\ ImagesInHand'
<1>1. held[i] \in Entries
  BY Here, Labels DEF CodeAccepted
<1>2. DiskOK'
  BY <1>1 DEF CodeAccepted, DiskOK, WriteFails
<1>3. ProcOK' /\ ImagesInHand'
  BY <1>1, Labels, ProceedInv DEF CodeAccepted
<1>4. QED
  BY <1>2, <1>3

LEMMA CodeRefusedType ==
    ASSUME DiskOK, ProcOK, ImagesInHand, NEW i \in Instances, CodeRefused(i)
    PROVE  DiskOK' /\ ProcOK' /\ ImagesInHand'
<1>1. held[i] \in Entries
  BY Here, Labels DEF CodeRefused
<1>2. DiskOK'
  BY <1>1 DEF CodeRefused, DiskOK, WriteFails
<1>3. ProcOK' /\ ImagesInHand'
  BY FinishInv DEF CodeRefused, Screens
<1>4. QED
  BY <1>2, <1>3

LEMMA CodeOpenType ==
    ASSUME DiskOK, ProcOK, ImagesInHand, NEW i \in Instances, CodeOpen(i)
    PROVE  DiskOK' /\ ProcOK' /\ ImagesInHand'
<1>1. DiskOK'
  BY DEF CodeOpen, DiskOK, disk, Claim, InUse
<1>2. \/ \E s \in {"daily", "cannotOpen"} : Finish(i, s, NoImage)
      \/ vault # NoVault /\ Finish(i, "menu", vault)
  BY DEF CodeOpen, DeviceOpens
<1>3. ProcOK' /\ ImagesInHand'
  BY <1>2, FinishInv DEF Screens, DiskOK
<1>4. QED
  BY <1>1, <1>3

LEMMA CreateFailsInv ==
    ASSUME ProcOK, ImagesInHand, NEW i \in Instances, work[i] \in Images, CreateFails(i)
    PROVE  ProcOK' /\ ImagesInHand'
  BY Labels, ReturnInv, ProceedInv DEF CreateFails

LEMMA CreateInitType ==
    ASSUME DiskOK, ProcOK, ImagesInHand, NEW i \in Instances, CreateInit(i)
    PROVE  DiskOK' /\ ProcOK' /\ ImagesInHand'
<1>1. work[i] \in Images
  BY Here, Labels DEF CreateInit
<1>2. [work[i] EXCEPT !.totp = FALSE] \in Images
  BY <1>1, ImageUpdates
<1>3. DiskOK'
  BY <1>2 DEF CreateInit, DiskOK, Claim, InUse, SaveFails
<1>4. \/ CreateFails(i)
      \/ Proceed(i, "createTotp", work[i], held[i])
      \/ Finish(i, "menu", work[i])
  BY DEF CreateInit
<1>5. ProcOK' /\ ImagesInHand'
  BY <1>1, <1>4, Here, Labels, CreateFailsInv, FinishInv, ProceedInv DEF Screens
<1>6. QED
  BY <1>3, <1>5

LEMMA CreateTotpType ==
    ASSUME DiskOK, ProcOK, ImagesInHand, NEW i \in Instances, CreateTotp(i)
    PROVE  DiskOK' /\ ProcOK' /\ ImagesInHand'
<1>1. work[i] \in Images
  BY Here, Labels DEF CreateTotp
<1>2. DiskOK'
  BY <1>1 DEF CreateTotp, DiskOK, SaveFails
<1>3. ProcOK' /\ ImagesInHand'
  BY <1>1, CreateFailsInv, FinishInv DEF CreateTotp, Screens
<1>4. QED
  BY <1>2, <1>3

LEMMA CreateUndoType ==
    ASSUME DiskOK, ProcOK, ImagesInHand, NEW i \in Instances, CreateUndo(i)
    PROVE  DiskOK' /\ ProcOK' /\ ImagesInHand'
<1>1. DiskOK'
  BY DEF CreateUndo, DiskOK, DeleteEntry
<1>2. ProcOK' /\ ImagesInHand'
  BY ReturnInv DEF CreateUndo
<1>3. QED
  BY <1>1, <1>2

LEMMA MigrateFailsInv ==
    ASSUME ProcOK, ImagesInHand, NEW i \in Instances, MigrateFails(i)
    PROVE  ProcOK' /\ ImagesInHand'
  BY Labels, ProceedInv DEF MigrateFails

LEMMA MigrateEntryType ==
    ASSUME DiskOK, ProcOK, ImagesInHand, NEW i \in Instances, MigrateEntry(i)
    PROVE  DiskOK' /\ ProcOK' /\ ImagesInHand'
<1>1. work[i] \in Images
  BY Here, Labels DEF MigrateEntry
<1>2. CASE UNCHANGED entry
  <2>2. DiskOK'
    BY <1>2 DEF MigrateEntry, DiskOK
  <2>3. CASE Proceed(i, "migrateSave", work[i], NoEntry) \/ MigrateFails(i)
    BY <1>1, <2>2, <2>3, Labels, MigrateFailsInv, ProceedInv
  <2>4. CASE \E n \in Keys :
                Proceed(i, "migrateSave", [work[i] EXCEPT !.dev = n], [key |-> n, totp |-> TRUE])
    BY <1>1, <2>2, <2>4, Labels, Fields, ImageUpdates, ProceedInv
  <2>5. QED
    BY <2>3, <2>4 DEF MigrateEntry
<1>3. CASE ~UNCHANGED entry
  <2> DEFINE fresh(n) == [key |-> n, totp |-> TRUE]
  <2>1. PICK n \in Keys :
           entry' = fresh(n) /\ Proceed(i, "migrateSave", [work[i] EXCEPT !.dev = n], fresh(n))
    BY <1>3 DEF MigrateEntry, WriteFails
  <2>2. fresh(n) \in Entries /\ [work[i] EXCEPT !.dev = n] \in Images
    BY <1>1, Fields, ImageUpdates
  <2> HIDE DEF fresh
  <2>3. QED
    BY <2>1, <2>2, Labels, ProceedInv DEF MigrateEntry, DiskOK
<1>4. QED
  BY <1>2, <1>3

LEMMA MigrateSaveType ==
    ASSUME DiskOK, ProcOK, ImagesInHand, NEW i \in Instances, MigrateSave(i)
    PROVE  DiskOK' /\ ProcOK' /\ ImagesInHand'
<1>1. work[i] \in Images
  BY Here, Labels DEF MigrateSave
<1>2. DiskOK'
  BY <1>1 DEF MigrateSave, DiskOK, SaveFails
<1>3. ProcOK' /\ ImagesInHand'
  BY <1>1, Labels, MigrateFailsInv, ProceedInv DEF MigrateSave
<1>4. QED
  BY <1>2, <1>3

LEMMA MigrateDiscardType ==
    ASSUME DiskOK, ProcOK, ImagesInHand, NEW i \in Instances, MigrateDiscard(i)
    PROVE  DiskOK' /\ ProcOK' /\ ImagesInHand'
<1>1. DiskOK'
  BY DEF MigrateDiscard, DiskOK, DiscardSecret
<1>2. ProcOK' /\ ImagesInHand'
  BY Here, Labels, FinishInv DEF MigrateDiscard, Screens
<1>3. QED
  BY <1>1, <1>2

LEMMA MigrateUndoType ==
    ASSUME DiskOK, ProcOK, ImagesInHand, NEW i \in Instances, MigrateUndo(i)
    PROVE  DiskOK' /\ ProcOK' /\ ImagesInHand'
<1>1. DiskOK'
  BY DEF MigrateUndo, DiskOK, DeleteEntry
<1>2. ProcOK' /\ ImagesInHand'
  BY ReturnInv DEF MigrateUndo
<1>3. QED
  BY <1>1, <1>2

LEMMA ModeSaveType ==
    ASSUME DiskOK, ProcOK, ImagesInHand, NEW i \in Instances, ModeSave(i)
    PROVE  DiskOK' /\ ProcOK' /\ ImagesInHand'
<1>1. work[i] \in Images
  BY Here, Labels DEF ModeSave
<1>2. DiskOK'
  BY <1>1 DEF ModeSave, DiskOK, SaveFails
<1>3. \/ Commit(i, work[i]) \/ Return(i)
      \/ \E l \in {"modeClean", "modeUndo"} : Proceed(i, l, work[i], NoEntry)
  BY DEF ModeSave
<1>4. ProcOK' /\ ImagesInHand'
  BY <1>1, <1>3, Labels, CommitInv, ReturnInv, ProceedInv
<1>5. QED
  BY <1>2, <1>4

LEMMA ModeCleanType ==
    ASSUME DiskOK, ProcOK, ImagesInHand, NEW i \in Instances, ModeClean(i)
    PROVE  DiskOK' /\ ProcOK' /\ ImagesInHand'
<1>1. DiskOK'
  BY DEF ModeClean, DiskOK, DeleteEntry
<1>2. ProcOK' /\ ImagesInHand'
  BY Here, Labels, CommitInv DEF ModeClean
<1>3. QED
  BY <1>1, <1>2

LEMMA ModeUndoType ==
    ASSUME DiskOK, ProcOK, ImagesInHand, NEW i \in Instances, ModeUndo(i)
    PROVE  DiskOK' /\ ProcOK' /\ ImagesInHand'
<1>1. DiskOK'
  BY DEF ModeUndo, DiskOK, DeleteEntry
<1>2. ProcOK' /\ ImagesInHand'
  BY ReturnInv DEF ModeUndo
<1>3. QED
  BY <1>1, <1>2

(* One step of the system, whoever takes it. *)
LEMMA TypeStep == TypeInv /\ [Next]_vars => TypeInv'
<1>0. TypeInv <=> DiskOK /\ ProcOK /\ ImagesInHand
  BY DEF TypeInv, TypeOK, DiskOK, ProcOK
<1>1. TypeInv' <=> DiskOK' /\ ProcOK' /\ ImagesInHand'
  BY <1>0, PTL
<1> SUFFICES ASSUME DiskOK, ProcOK, ImagesInHand, [Next]_vars
             PROVE  DiskOK' /\ ProcOK' /\ ImagesInHand'
  BY <1>0, <1>1
<1>2. CASE UNCHANGED vars
  BY <1>2 DEF vars, disk, proc, DiskOK, ProcOK, ImagesInHand, InHand, Open
<1>3. CASE EntryLost
  <2>1. DiskOK'
    BY <1>3 DEF EntryLost, DiskOK
  <2>2. ProcOK' /\ ImagesInHand'
    BY <1>3 DEF EntryLost, proc, ProcOK, ImagesInHand, InHand, Open
  <2>3. QED
    BY <2>1, <2>2
<1>4. ASSUME NEW i \in Instances, Step(i) PROVE DiskOK' /\ ProcOK' /\ ImagesInHand'
  BY <1>4, ResolveEntryType, ResolveOpenType, ReconcileType, RecordCheckType,
     ReenrolSaveType, ReenrolUndoType, CodeAcceptedType, CodeRefusedType,
     CodeOpenType, CreateInitType, CreateTotpType, CreateUndoType,
     MigrateEntryType, MigrateSaveType, MigrateDiscardType, MigrateUndoType,
     ModeSaveType, ModeCleanType, ModeUndoType DEF Step
<1>5. ASSUME NEW i \in Instances, Key(i) PROVE DiskOK' /\ ProcOK' /\ ImagesInHand'
  BY <1>5, LaunchType, LockType, ExitType, PromptAcceptType, SubmitCodeType,
     TryUnlockType, MigrateLoadType, ChangePasswordType, CreateVaultType,
     ChangeModeType, EditType DEF Key, Quit
<1>6. ASSUME NEW i \in Instances, Crash(i) PROVE DiskOK' /\ ProcOK' /\ ImagesInHand'
  BY <1>6, ExitType DEF Crash
<1>7. QED
  BY <1>2, <1>3, <1>4, <1>5, <1>6 DEF Next

(* From a first launch or from any vault an earlier run left, every variable *)
(* stays in its domain, whatever fails and wherever a copy dies.            *)
THEOREM Typed == Spec => []TypeOK
<1>1. Spec => []TypeInv
  BY InitType, TypeStep, PTL DEF Spec
<1>2. TypeInv => TypeOK
  BY DEF TypeInv
<1>3. QED
  BY <1>1, <1>2, PTL

-----------------------------------------------------------------------------
(* Only the holder of the flock has the vault open.  Being open is not       *)
(* inductive by itself: a handler that will end with an open vault holds the *)
(* flock from its claim on, while an earlier screen is still shown.          *)
Holding(i) == Open(i) \/ pc[i] \in HolderPCs
LockInv == \A i \in Instances : Holding(i) => lock = i

LEMMA FinishLock ==
    ASSUME ProcOK, LockInv, NEW i \in Instances, NEW s, NEW img, Finish(i, s, img),
           s \in {"prompt", "menu"} => lock' = i,
           \A j \in Instances \ {i} : lock = j => lock' = j
    PROVE  LockInv'
  BY DEF ProcOK, LockInv, Holding, Finish, Open, HolderPCs

LEMMA ProceedLock ==
    ASSUME ProcOK, LockInv, NEW i \in Instances, NEW l, NEW img, NEW d, Proceed(i, l, img, d),
           Open(i) \/ l \in HolderPCs => lock' = i,
           \A j \in Instances \ {i} : lock = j => lock' = j
    PROVE  LockInv'
  BY DEF ProcOK, LockInv, Holding, Proceed, Open

LEMMA LockKey ==
    ASSUME ProcOK, LockInv, NEW i \in Instances, Key(i)
    PROVE  LockInv'
<1>1. Holding(i) => lock = i
  BY DEF LockInv
<1>2. CASE Launch(i) \/ Lock(i)
  <2>1. UNCHANGED lock /\ ui'[i] \notin {"prompt", "menu"} /\ pc'[i] \notin HolderPCs
           /\ \A j \in Instances \ {i} : ui'[j] = ui[j] /\ pc'[j] = pc[j]
    BY <1>2 DEF Launch, Lock, Resolve, Finish, ProcOK, HolderPCs
  <2>2. QED
    BY <2>1 DEF LockInv, Holding, Open
<1>3. CASE Quit(i)
  BY <1>3, FinishLock DEF Quit, Exit
<1>4. CASE PromptAccept(i)
  BY <1>1, <1>4, FinishLock DEF PromptAccept, Idle, Holding, Open
<1>5. CASE SubmitCode(i)
  BY <1>1, <1>5, FinishLock, ProceedLock DEF SubmitCode, Idle, Open, HolderPCs
<1>6. ASSUME NEW p \in Passwords, TryUnlock(i, p) PROVE LockInv'
  <2>1. lock' = i /\ (lock = Nobody \/ lock = i)
    BY <1>6 DEF TryUnlock, Claim
  <2>2. \A j \in Instances \ {i} : lock = j => lock' = j
    BY <2>1, ConstantsAssumption
  <2>3. (\E s, img : Finish(i, s, img)) \/ \E l, img, d : Proceed(i, l, img, d)
    BY <1>6 DEF TryUnlock, Return, EnterUnlocked
  <2>4. QED
    BY <2>1, <2>2, <2>3, FinishLock, ProceedLock
<1>7. ASSUME NEW p \in Passwords, MigrateLoad(i, p) PROVE LockInv'
  <2>1. MigrateFails(i) \/ lock' = i
    BY <1>7 DEF MigrateLoad, Claim
  <2>2. \A j \in Instances \ {i} : lock = j => lock' = j
    BY <1>7, ConstantsAssumption DEF MigrateLoad, Claim, InUse
  <2>3. ~Open(i) /\ \E l, img, d : Proceed(i, l, img, d)
    BY <1>7 DEF MigrateLoad, MigrateFails, Idle, Open
  <2>4. QED
    BY <2>1, <2>2, <2>3, ProceedLock DEF MigrateFails, HolderPCs
<1>8. ASSUME NEW p \in Passwords, ChangePassword(i, p) PROVE LockInv'
  BY <1>1, <1>8, FinishLock DEF ChangePassword, Idle, Open, Holding, Commit, Return
<1>9. ASSUME NEW p \in Passwords, NEW c \in Choices, CreateVault(i, c, p) PROVE LockInv'
  BY <1>9, ProceedLock DEF CreateVault, Idle, Open, HolderPCs
<1>10. ASSUME NEW p \in Passwords, NEW c \in Choices, ChangeMode(i, c, p) PROVE LockInv'
  BY <1>1, <1>10, ProceedLock DEF ChangeMode, Idle, Open, Holding
<1>11. ASSUME NEW e \in Edits, Edit(i, e) PROVE LockInv'
  BY <1>1, <1>11, FinishLock DEF Edit, Idle, Open, Holding, Commit, Return
<1>12. QED
  BY <1>2, <1>3, <1>4, <1>5, <1>6, <1>7, <1>8, <1>9, <1>10, <1>11 DEF Key

LEMMA LockStep ==
    ASSUME ProcOK, LockInv, NEW i \in Instances, Step(i)
    PROVE  LockInv'
<1>1. Holding(i) => lock = i
  BY DEF LockInv
<1>2. ASSUME lock' = lock,
             \/ \E s, img : Finish(i, s, img) /\ (s \in {"prompt", "menu"} => Holding(i))
             \/ \E l, img, d : Proceed(i, l, img, d) /\ (l \in HolderPCs => Holding(i))
      PROVE  LockInv'
  BY <1>1, <1>2, FinishLock, ProceedLock DEF Holding
<1>3. ASSUME lock' = i, lock \in {Nobody, i},
             (\E s, img : Finish(i, s, img)) \/ \E l, img, d : Proceed(i, l, img, d)
      PROVE  LockInv'
  BY <1>3, ConstantsAssumption, FinishLock, ProceedLock
<1>4. CASE ResolveEntry(i)
  BY <1>2, <1>4 DEF ResolveEntry, LockedOut, HolderPCs
<1>5. CASE ResolveOpen(i)
  BY <1>2, <1>3, <1>5 DEF ResolveOpen, Claim, InUse, EnterUnlocked
<1>6. CASE Reconcile(i) \/ RecordCheck(i) \/ ReenrolSave(i) \/ ReenrolUndo(i)
  <2>1. Holding(i) /\ lock' = lock
    BY <1>6 DEF Reconcile, RecordCheck, ReenrolSave, ReenrolUndo, Holding, HolderPCs
  <2>2. (\E s, img : Finish(i, s, img)) \/ \E l, img, d : Proceed(i, l, img, d)
    BY <1>6 DEF Reconcile, RecordCheck, ReenrolSave, ReenrolUndo, EnterUnlocked
  <2>3. QED
    BY <1>2, <2>1, <2>2
<1>7. CASE CodeAccepted(i) \/ CodeRefused(i)
  BY <1>2, <1>7 DEF CodeAccepted, CodeRefused, HolderPCs
<1>8. CASE CodeOpen(i)
  BY <1>2, <1>3, <1>8 DEF CodeOpen, Claim, InUse
<1>9. CASE CreateInit(i)
  <2>1. CASE InUse(i)
    <3>1. CreateFails(i) /\ lock' = lock
      BY <1>9, <2>1 DEF CreateInit, InUse, Claim
    <3>2. QED
      BY <1>1, <1>2, <3>1 DEF CreateFails, Return, HolderPCs, Holding, Open
  <2>2. CASE ~InUse(i)
    <3>1. lock' = i /\ lock \in {Nobody, i}
      BY <1>9, <2>2 DEF CreateInit, Claim
    <3>2. (\E s, img : Finish(i, s, img)) \/ \E l, img, d : Proceed(i, l, img, d)
      BY <1>9 DEF CreateInit, CreateFails, Return
    <3>3. QED
      BY <1>3, <3>1, <3>2
  <2>3. QED
    BY <2>1, <2>2
<1>10. CASE CreateTotp(i)
  <2>1. Holding(i) /\ lock' = lock
    BY <1>10 DEF CreateTotp, Holding, HolderPCs
  <2>2. (\E s, img : Finish(i, s, img)) \/ \E l, img, d : Proceed(i, l, img, d)
    BY <1>10 DEF CreateTotp, CreateFails, Return
  <2>3. QED
    BY <1>2, <2>1, <2>2
<1>11. CASE CreateUndo(i) \/ MigrateUndo(i)
  BY <1>2, <1>11 DEF CreateUndo, MigrateUndo, Return, Holding, Open
<1>12. CASE MigrateEntry(i) \/ MigrateSave(i) \/ MigrateDiscard(i)
  <2>1. Holding(i) /\ lock' = lock
    BY <1>12 DEF MigrateEntry, MigrateSave, MigrateDiscard, Holding, HolderPCs
  <2>2. (\E s, img : Finish(i, s, img)) \/ \E l, img, d : Proceed(i, l, img, d)
    BY <1>12 DEF MigrateEntry, MigrateSave, MigrateDiscard, MigrateFails
  <2>3. QED
    BY <1>2, <2>1, <2>2
<1>13. CASE ModeSave(i) \/ ModeClean(i) \/ ModeUndo(i)
  <2>1. Holding(i) /\ lock' = lock
    BY <1>13 DEF ModeSave, ModeClean, ModeUndo, Holding, HolderPCs
  <2>2. (\E s, img : Finish(i, s, img)) \/ \E l, img, d : Proceed(i, l, img, d)
    BY <1>13 DEF ModeSave, ModeClean, ModeUndo, Return, Commit
  <2>3. QED
    BY <1>2, <2>1, <2>2
<1>14. QED
  BY <1>4, <1>5, <1>6, <1>7, <1>8, <1>9, <1>10, <1>11, <1>12, <1>13 DEF Step

LEMMA LockNext == TypeInv /\ LockInv /\ [Next]_vars => LockInv'
<1> SUFFICES ASSUME TypeInv, LockInv, [Next]_vars PROVE LockInv'
  OBVIOUS
<1>1. ProcOK
  BY DEF TypeInv, TypeOK, ProcOK
<1>2. CASE UNCHANGED vars \/ EntryLost
  BY <1>2 DEF vars, proc, EntryLost, LockInv, Holding, Open
<1>3. ASSUME NEW i \in Instances, Crash(i) PROVE LockInv'
  BY <1>1, <1>3, FinishLock DEF Crash, Exit
<1>4. QED
  BY <1>1, <1>2, <1>3, LockKey, LockStep DEF Next

(* Two copies never have the decrypted vault in memory together, whatever    *)
(* fails and wherever one of them dies; first launch or existing vault.      *)
THEOREM Exclusive == Spec => []OpenVaultHoldsLock
<1>1. (FreshInit \/ ExistingInit) => LockInv
  BY DEF FreshInit, ExistingInit, Init, LockInv, Holding, Open, HolderPCs
<1>2. Spec => []LockInv
  BY <1>1, InitType, TypeStep, LockNext, PTL DEF Spec
<1>3. LockInv => OpenVaultHoldsLock
  BY DEF LockInv, Holding, OpenVaultHoldsLock
<1>4. QED
  BY <1>2, <1>3, PTL


-----------------------------------------------------------------------------
(* What a vault that exists is never robbed of.  Every save writes a whole   *)
(* envelope from memory, so the invariant is that whatever a copy may still  *)
(* save covers what is on disk.  It needs the flock (LockInv): only then is  *)
(* the disk what this copy read or wrote last.  While modeClean runs, the    *)
(* old image is still in mem but only work is ever used again.               *)
Covers(v, img) ==
    /\ img \in Images
    /\ v.edits \subseteq img.edits
    /\ v.pw # NoSecret => img.pw # NoSecret
    /\ ~v.newer /\ ~img.newer

CreatePCs == {"createInit", "createTotp", "createUndo"}
SavedPCs  == {"modeClean", "migrateDiscard"}

KeepInv ==
    /\ vault \in Images
    /\ \A i \in Instances :
          /\ ui[i] # "setup"
          /\ pc[i] \notin CreatePCs
          /\ Open(i) /\ pc[i] \notin SavedPCs => Covers(vault, mem[i])
          /\ pc[i] \in HolderPCs => Covers(vault, work[i])

(* One step, as the disk sees it: nothing is lost, and only the owner of the *)
(* flock adds to it.                                                         *)
Grows ==
    /\ vault.edits \subseteq vault'.edits
    /\ vault.pw # NoSecret => vault'.pw # NoSecret
    /\ vault.newer => vault' = vault
Owned ==
    /\ lock' = lock \/ lock = Nobody \/ lock' = Nobody
    /\ vault'.edits # vault.edits => lock' = lock /\ lock \in Instances

LEMMA FinishKeep ==
    ASSUME ProcOK, LockInv, KeepInv, NEW i \in Instances, NEW s, NEW img, Finish(i, s, img),
           s # "setup", s \in {"prompt", "menu"} => Covers(vault', img),
           vault' \in Images, vault' = vault \/ lock \in {Nobody, i}
    PROVE  KeepInv'
<1>1. ASSUME NEW j \in Instances, j # i
      PROVE  /\ ui'[j] # "setup"
             /\ pc'[j] \notin CreatePCs
             /\ ui'[j] \in {"prompt", "menu"} /\ pc'[j] \notin SavedPCs => Covers(vault', mem'[j])
             /\ pc'[j] \in HolderPCs => Covers(vault', work'[j])
  BY <1>1, ConstantsAssumption DEF ProcOK, LockInv, Holding, KeepInv, Finish, Open
<1>2. ui'[i] = s /\ pc'[i] = "idle" /\ mem'[i] = img
  BY DEF ProcOK, Finish
<1>3. QED
  BY <1>1, <1>2 DEF KeepInv, Open, HolderPCs, CreatePCs, SavedPCs

LEMMA ProceedKeep ==
    ASSUME ProcOK, LockInv, KeepInv, NEW i \in Instances, NEW l, NEW img, NEW d,
           Proceed(i, l, img, d), l \notin CreatePCs,
           Open(i) /\ l \notin SavedPCs => Covers(vault', mem[i]),
           l \in HolderPCs => Covers(vault', img),
           vault' \in Images, vault' = vault \/ lock \in {Nobody, i}
    PROVE  KeepInv'
<1>1. ASSUME NEW j \in Instances, j # i
      PROVE  /\ ui'[j] # "setup"
             /\ pc'[j] \notin CreatePCs
             /\ ui'[j] \in {"prompt", "menu"} /\ pc'[j] \notin SavedPCs => Covers(vault', mem'[j])
             /\ pc'[j] \in HolderPCs => Covers(vault', work'[j])
  BY <1>1, ConstantsAssumption DEF ProcOK, LockInv, Holding, KeepInv, Proceed, Open
<1>2. ui'[i] = ui[i] /\ pc'[i] = l /\ mem'[i] = mem[i] /\ work'[i] = img
  BY DEF ProcOK, Proceed
<1>3. QED
  BY <1>1, <1>2 DEF KeepInv, Open

(* What a copy that holds the vault saves, or hands on, covers the disk.     *)
LEMMA CoverUpdates ==
    ASSUME NEW v \in Images, NEW img, Covers(v, img)
    PROVE  /\ Covers(v, v) /\ Covers(img, img)
           /\ \A w : Covers(w, v) => Covers(w, img)
           /\ \A k \in Keys \cup {NoKey} : /\ Covers(v, [img EXCEPT !.dev = k])
                                           /\ Covers([img EXCEPT !.dev = k], img)
           /\ \A p \in Passwords : Covers(v, [img EXCEPT !.pw = p])
           /\ \A p \in Passwords, k \in Keys \cup {NoKey}, b \in BOOLEAN :
                 Covers(v, [img EXCEPT !.pw = p, !.dev = k, !.totp = b])
           /\ \A k \in Keys \cup {NoKey}, b \in BOOLEAN :
                 Covers(v, [img EXCEPT !.pw = @, !.dev = k, !.totp = b])
           /\ \A e \in Edits : Covers(v, [img EXCEPT !.edits = @ \cup {e}])
<1> USE DEF Covers
<1>1. Covers(v, v) /\ Covers(img, img)
  OBVIOUS
<1>2. \A w : Covers(w, v) => Covers(w, img)
  OBVIOUS
<1>3. ASSUME NEW k \in Keys \cup {NoKey}
      PROVE  Covers(v, [img EXCEPT !.dev = k]) /\ Covers([img EXCEPT !.dev = k], img)
  BY ImageUpdates DEF Images
<1>4. ASSUME NEW p \in Passwords
      PROVE  /\ Covers(v, [img EXCEPT !.pw = p])
             /\ \A k \in Keys \cup {NoKey}, b \in BOOLEAN :
                    Covers(v, [img EXCEPT !.pw = p, !.dev = k, !.totp = b])
  <2>1. p \in Secrets /\ p # NoSecret
    BY ConstantsAssumption DEF Secrets
  <2>2. QED
    BY <2>1, ImageUpdates DEF Images
<1>5. ASSUME NEW k \in Keys \cup {NoKey}, NEW b \in BOOLEAN
      PROVE  Covers(v, [img EXCEPT !.pw = @, !.dev = k, !.totp = b])
  BY DEF Images
<1>6. ASSUME NEW e \in Edits PROVE Covers(v, [img EXCEPT !.edits = @ \cup {e}])
  BY ImageUpdates DEF Images
<1>7. QED
  BY <1>1, <1>2, <1>3, <1>4, <1>5, <1>6

LEMMA SaveGrows ==
    ASSUME KeepInv, NEW img, Covers(vault, img), vault' = img, NEW i \in Instances,
           lock = i, lock' = i
    PROVE  vault' \in Images /\ Grows /\ Owned
  BY DEF KeepInv, Covers, Grows, Owned

LEMMA Quiet ==
    ASSUME KeepInv, vault' = vault, lock' = lock \/ lock = Nobody \/ lock' = Nobody
    PROVE  vault' \in Images /\ Grows /\ Owned
  BY DEF KeepInv, Grows, Owned

LEMMA KeepKey ==
    ASSUME DiskOK, ProcOK, LockInv, KeepInv, NEW i \in Instances, Key(i)
    PROVE  KeepInv' /\ Grows /\ Owned
<1>1. vault \in Images /\ vault # NoVault
  BY Fields DEF KeepInv
<1>2. Idle(i, {"menu"}) \/ Idle(i, {"prompt"}) \/ Idle(i, {"menu", "prompt"})
         => Covers(vault, mem[i]) /\ lock = i
  BY DEF Idle, Open, KeepInv, LockInv, Holding, SavedPCs
<1>3. CASE Launch(i) \/ Lock(i)
  <2>1. KeepInv'
    BY <1>1, <1>3 DEF Launch, Lock, Resolve, disk, Finish, ProcOK, KeepInv, Open, HolderPCs, CreatePCs, SavedPCs
  <2>2. QED
    BY <1>3, <2>1, Quiet DEF Launch, Lock, disk
<1>4. CASE Quit(i)
  BY <1>1, <1>4, FinishKeep, Quiet DEF Quit, Exit, disk
<1>5. CASE PromptAccept(i)
  BY <1>1, <1>2, <1>5, FinishKeep, Quiet DEF PromptAccept, disk
<1>6. CASE SubmitCode(i)
  BY <1>1, <1>6, FinishKeep, ProceedKeep, Quiet
     DEF SubmitCode, disk, Idle, Open, HolderPCs, CreatePCs, SavedPCs
<1>7. ASSUME NEW p \in Passwords, TryUnlock(i, p) PROVE KeepInv' /\ Grows /\ Owned
  <2>1. ~Idle(i, {"menu"}) /\ ~Open(i) /\ lock' = i /\ lock \in {Nobody, i}
    BY <1>7 DEF TryUnlock, Idle, Open, Claim
  <2>2. CASE vault' = vault
    <3>1. \/ Return(i)
          \/ Finish(i, "cannotOpen", NoImage)
          \/ ~vault.newer /\ EnterUnlocked(i, vault)
          \/ ~vault.newer /\ Proceed(i, "reconcile", vault, NoEntry)
      BY <1>7, <2>2 DEF TryUnlock, SchemaTooNew
    <3>2. ~vault.newer => Covers(vault, vault)
      BY <1>1 DEF Covers
    <3>3. KeepInv'
      BY <1>1, <2>1, <2>2, <3>1, <3>2, FinishKeep, ProceedKeep
         DEF Return, EnterUnlocked, KeepInv, Open, CreatePCs, SavedPCs
    <3>4. QED
      BY <2>1, <2>2, <3>3, Quiet
  <2>3. CASE vault' # vault
    <3>1. ~vault.newer /\ vault' = [vault EXCEPT !.v1 = FALSE] /\ EnterUnlocked(i, vault')
      BY <1>7, <2>3 DEF TryUnlock, SchemaTooNew, SaveFails
    <3>2. Covers(vault', vault') /\ vault' \in Images
      BY <1>1, <3>1, ImageUpdates DEF Covers, Images
    <3>3. KeepInv'
      BY <2>1, <3>1, <3>2, FinishKeep DEF EnterUnlocked
    <3>4. vault'.edits = vault.edits /\ vault'.pw = vault.pw
      BY <1>1, <3>1 DEF Images
    <3>5. QED
      BY <2>1, <3>1, <3>3, <3>4 DEF Grows, Owned
  <2>4. QED
    BY <2>2, <2>3
<1>8. ASSUME NEW p \in Passwords, MigrateLoad(i, p) PROVE KeepInv' /\ Grows /\ Owned
  <2> DEFINE image  == [vault EXCEPT !.v1 = FALSE]
             target == [image EXCEPT !.pw = p, !.dev = NoKey, !.totp = TRUE]
  <2>1. ~Open(i) /\ (lock' = lock \/ lock = Nobody)
    BY <1>8 DEF MigrateLoad, Idle, Open, Claim, InUse
  <2>2. CASE vault' = vault /\ MigrateFails(i)
    <3>1. KeepInv'
      BY <1>1, <2>1, <2>2, ProceedKeep DEF MigrateFails, HolderPCs, CreatePCs, SavedPCs
    <3>2. QED
      BY <2>1, <2>2, <3>1, Quiet
  <2>3. CASE ~(vault' = vault /\ MigrateFails(i))
    <3>1. /\ vault' = image /\ ~vault.newer /\ lock' = i /\ lock \in {Nobody, i}
          /\ Proceed(i, "migrateEntry", target, NoEntry)
      BY <1>8, <2>3 DEF MigrateLoad, InUse, Claim, SaveFails, SchemaTooNew
    <3>2. /\ image \in Images /\ image.edits = vault.edits /\ image.pw = vault.pw
          /\ Covers(image, image)
      BY <1>1, <3>1, ImageUpdates DEF Covers, Images
    <3>3. Covers(image, target)
      BY <3>2, CoverUpdates
    <3> HIDE DEF target
    <3>4. KeepInv'
      BY <2>1, <3>1, <3>2, <3>3, ProceedKeep DEF CreatePCs, SavedPCs
    <3>5. QED
      BY <3>1, <3>2, <3>4 DEF Grows, Owned
  <2>4. QED
    BY <2>2, <2>3
<1>9. ASSUME NEW p \in Passwords, ChangePassword(i, p) PROVE KeepInv' /\ Grows /\ Owned
  <2> DEFINE changed == [mem[i] EXCEPT !.pw = p]
  <2>1. Covers(vault, changed) /\ Covers(changed, changed) /\ Covers(vault, mem[i]) /\ lock = i
    BY <1>1, <1>2, <1>9, CoverUpdates DEF ChangePassword, Covers
  <2>2. /\ \/ vault' = changed /\ Finish(i, "menu", changed)
           \/ vault' = vault /\ Finish(i, ui[i], mem[i])
        /\ lock' = lock
    BY <1>9 DEF ChangePassword, Commit, Return, SaveFails
  <2> HIDE DEF changed
  <2>3. vault' \in Images /\ Grows /\ Owned
    BY <2>1, <2>2, SaveGrows, Quiet
  <2>4. KeepInv'
    BY <2>1, <2>2, <2>3, FinishKeep DEF KeepInv
  <2>5. QED
    BY <2>3, <2>4
<1>10. ASSUME NEW e \in Edits, Edit(i, e) PROVE KeepInv' /\ Grows /\ Owned
  <2> DEFINE changed == [mem[i] EXCEPT !.edits = @ \cup {e}]
  <2>1. Covers(vault, changed) /\ Covers(changed, changed) /\ Covers(vault, mem[i]) /\ lock = i
    BY <1>1, <1>2, <1>10, CoverUpdates DEF Edit, Covers
  <2>2. /\ \/ vault' = changed /\ Finish(i, "menu", changed)
           \/ vault' = vault /\ Finish(i, ui[i], mem[i])
           \/ vault' = vault /\ Finish(i, "menu", changed)
        /\ lock' = lock
    BY <1>10 DEF Edit, Commit, Return, SaveFails
  <2> HIDE DEF changed
  <2>3. vault' \in Images /\ Grows /\ Owned
    BY <2>1, <2>2, SaveGrows, Quiet
  <2>4. KeepInv'
    BY <2>1, <2>2, <2>3, FinishKeep DEF KeepInv
  <2>5. QED
    BY <2>3, <2>4
<1>11. ASSUME NEW p \in Passwords, NEW c \in Choices, CreateVault(i, c, p)
       PROVE  KeepInv' /\ Grows /\ Owned
  BY <1>11 DEF CreateVault, Idle, KeepInv
<1>12. ASSUME NEW p \in Passwords, NEW c \in Choices, ChangeMode(i, c, p)
       PROVE  KeepInv' /\ Grows /\ Owned
  <2>1. Covers(vault, mem[i]) /\ lock = i /\ lock' = lock /\ vault' = vault
    BY <1>2, <1>12 DEF ChangeMode
  <2>2. ASSUME NEW k \in Keys \cup {NoKey} PROVE Covers(vault, NewSlots(i, c, p, k))
    <3> DEFINE b == WantsTotp(c)
    <3>1. b \in BOOLEAN
      BY DEF WantsTotp
    <3>2. CASE c.pw
      <4>1. NewSlots(i, c, p, k) = [mem[i] EXCEPT !.pw = p, !.dev = k, !.totp = b]
        BY <2>1, <3>2 DEF NewSlots, Covers, Images
      <4> HIDE DEF b
      <4>2. Covers(vault, [mem[i] EXCEPT !.pw = p, !.dev = k, !.totp = b])
        BY <1>1, <2>1, <3>1, CoverUpdates
      <4>3. QED
        BY <4>1, <4>2
    <3>3. CASE ~c.pw
      <4>1. NewSlots(i, c, p, k) = [mem[i] EXCEPT !.pw = @, !.dev = k, !.totp = b]
        BY <2>1, <3>3 DEF NewSlots, Covers, Images
      <4> HIDE DEF b
      <4>2. Covers(vault, [mem[i] EXCEPT !.pw = @, !.dev = k, !.totp = b])
        BY <1>1, <2>1, <3>1, CoverUpdates
      <4>3. QED
        BY <4>1, <4>2
    <3>4. QED
      BY <3>2, <3>3
  <2>3. \E l \in {"modeSave", "modeUndo"}, k \in Keys \cup {NoKey} : \E d :
            Proceed(i, l, NewSlots(i, c, p, k), d)
    BY <1>12 DEF ChangeMode
  <2>4. KeepInv'
    BY <1>1, <2>1, <2>2, <2>3, ProceedKeep DEF CreatePCs, SavedPCs
  <2>5. QED
    BY <2>1, <2>4, Quiet
<1>13. QED
  BY <1>3, <1>4, <1>5, <1>6, <1>7, <1>8, <1>9, <1>10, <1>11, <1>12 DEF Key

LEMMA KeepStep ==
    ASSUME ProcOK, ImagesInHand, LockInv, KeepInv, NEW i \in Instances, Step(i)
    PROVE  KeepInv' /\ Grows /\ Owned
<1>1. vault \in Images /\ vault # NoVault
  BY Fields DEF KeepInv
<1>2. /\ pc[i] \in HolderPCs => Covers(vault, work[i]) /\ lock = i
      /\ Open(i) /\ pc[i] \notin SavedPCs => Covers(vault, mem[i])
      /\ ui[i] # "setup"
  BY DEF KeepInv, LockInv, Holding
<1>3. ASSUME vault' = vault, lock' = lock \/ lock = Nobody, pc[i] \notin SavedPCs,
             \/ \E s, img : /\ Finish(i, s, img) /\ s # "setup"
                            /\ s \in {"prompt", "menu"} => Covers(vault, img)
             \/ \E l, img, d : /\ Proceed(i, l, img, d) /\ l \notin CreatePCs
                               /\ l \in HolderPCs => Covers(vault, img)
      PROVE  KeepInv' /\ Grows /\ Owned
  <2>1. KeepInv'
    BY <1>1, <1>2, <1>3, FinishKeep, ProceedKeep
  <2>2. QED
    BY <1>3, <2>1, Quiet
<1>4. CASE ResolveEntry(i)
  BY <1>3, <1>4 DEF ResolveEntry, LockedOut, disk, HolderPCs, CreatePCs, SavedPCs
<1>5. CASE ResolveOpen(i)
  <2>1. ~vault.newer => Covers(vault, vault)
    BY <1>1 DEF Covers
  <2>2. /\ vault' = vault
        /\ lock' = lock \/ lock = Nobody
        /\ \/ Finish(i, "cannotOpen", NoImage)
           \/ Finish(i, LockedOut(i), NoImage)
           \/ ~vault.newer /\ EnterUnlocked(i, vault)
    BY <1>5 DEF ResolveOpen, disk, InUse, Claim, LoadedImage, SchemaTooNew
  <2>3. QED
    BY <1>3, <1>5, <2>1, <2>2 DEF ResolveOpen, EnterUnlocked, LockedOut, SavedPCs
<1>6. CASE Reconcile(i)
  <2>1. Covers(vault, work[i]) /\ vault' = vault /\ lock' = lock
    BY <1>2, <1>6 DEF Reconcile, HolderPCs
  <2>2. \/ EnterUnlocked(i, work[i])
        \/ \E l \in {"recordCheck", "reenrolSave"} : \E d : Proceed(i, l, work[i], d)
    BY <1>6 DEF Reconcile
  <2>3. QED
    BY <1>3, <1>6, <2>1, <2>2 DEF Reconcile, EnterUnlocked, CreatePCs, SavedPCs
<1>7. CASE RecordCheck(i) \/ ReenrolUndo(i)
  <2>1. Covers(vault, work[i]) /\ vault' = vault /\ lock' = lock /\ EnterUnlocked(i, work[i])
    BY <1>2, <1>7 DEF RecordCheck, ReenrolUndo, HolderPCs
  <2>2. QED
    BY <1>3, <1>7, <2>1 DEF RecordCheck, ReenrolUndo, EnterUnlocked, SavedPCs
<1>8. CASE ReenrolSave(i)
  <2> DEFINE saved == [work[i] EXCEPT !.dev = held[i].key]
  <2>1. Covers(vault, work[i]) /\ lock = i /\ lock' = lock
    BY <1>2, <1>8 DEF ReenrolSave, HolderPCs
  <2>2. CASE vault' = saved /\ EnterUnlocked(i, work[i])
    <3>1. held[i].key \in Keys
      BY <1>8, Here, Labels, Fields DEF ReenrolSave
    <3>2. Covers(vault, saved) /\ Covers(saved, work[i])
      BY <1>1, <2>1, <3>1, CoverUpdates
    <3> HIDE DEF saved
    <3>3. vault' \in Images /\ Grows /\ Owned
      BY <2>1, <2>2, <3>2, SaveGrows
    <3>4. KeepInv'
      BY <2>1, <2>2, <3>2, <3>3, FinishKeep DEF EnterUnlocked
    <3>5. QED
      BY <3>3, <3>4
  <2>3. CASE vault' = vault /\ Proceed(i, "reenrolUndo", work[i], NoEntry)
    BY <1>3, <1>8, <2>1, <2>3 DEF ReenrolSave, CreatePCs, SavedPCs
  <2>4. QED
    BY <1>8, <2>2, <2>3 DEF ReenrolSave, SaveFails
<1>9. CASE CodeAccepted(i) \/ CodeRefused(i)
  BY <1>3, <1>9 DEF CodeAccepted, CodeRefused, HolderPCs, CreatePCs, SavedPCs
<1>10. CASE CodeOpen(i)
  <2>1. ~vault.newer => Covers(vault, vault)
    BY <1>1 DEF Covers
  <2>2. /\ vault' = vault
        /\ lock' = lock \/ lock = Nobody
        /\ \/ \E s \in {"daily", "cannotOpen"} : Finish(i, s, NoImage)
           \/ ~vault.newer /\ Finish(i, "menu", vault)
    BY <1>10 DEF CodeOpen, disk, InUse, Claim, SchemaTooNew
  <2>3. QED
    BY <1>3, <1>10, <2>1, <2>2 DEF CodeOpen, SavedPCs
<1>11. CASE CreateInit(i) \/ CreateTotp(i) \/ CreateUndo(i)
  BY <1>11 DEF CreateInit, CreateTotp, CreateUndo, KeepInv, CreatePCs, SavedPCs
<1>12. CASE MigrateEntry(i)
  <2>1. Covers(vault, work[i]) /\ vault' = vault /\ lock' = lock
    BY <1>2, <1>12 DEF MigrateEntry, HolderPCs
  <2>2. \A k \in Keys : Covers(vault, [work[i] EXCEPT !.dev = k])
    BY <1>1, <2>1, CoverUpdates
  <2>3. \/ MigrateFails(i)
        \/ \E d : Proceed(i, "migrateSave", work[i], d)
        \/ \E k \in Keys : \E d : Proceed(i, "migrateSave", [work[i] EXCEPT !.dev = k], d)
    BY <1>12 DEF MigrateEntry
  <2>4. \/ \E img, d : Proceed(i, "migrateSave", img, d) /\ Covers(vault, img)
        \/ Proceed(i, "migrateUndo", NoImage, NoEntry)
    BY <2>1, <2>2, <2>3 DEF MigrateFails
  <2>5. QED
    BY <1>3, <1>12, <2>1, <2>4 DEF MigrateEntry, HolderPCs, CreatePCs, SavedPCs
<1>13. CASE MigrateSave(i)
  <2>1. Covers(vault, work[i]) /\ lock = i /\ lock' = lock
    BY <1>2, <1>13 DEF MigrateSave, HolderPCs
  <2>2. CASE vault' = work[i] /\ Proceed(i, "migrateDiscard", work[i], NoEntry)
    <3>1. vault' \in Images /\ Grows /\ Owned /\ Covers(vault', work[i])
      BY <1>1, <2>1, <2>2, SaveGrows, CoverUpdates
    <3>2. KeepInv'
      BY <2>1, <2>2, <3>1, ProceedKeep DEF CreatePCs, SavedPCs
    <3>3. QED
      BY <3>1, <3>2
  <2>3. CASE vault' = vault /\ MigrateFails(i)
    BY <1>3, <1>13, <2>1, <2>3 DEF MigrateSave, MigrateFails, HolderPCs, CreatePCs, SavedPCs
  <2>4. QED
    BY <1>13, <2>2, <2>3 DEF MigrateSave, SaveFails
<1>14. CASE MigrateDiscard(i)
  <2>1. Covers(vault, work[i]) /\ vault' = vault /\ lock' = lock /\ Finish(i, "menu", work[i])
    BY <1>2, <1>14 DEF MigrateDiscard, HolderPCs
  <2>2. KeepInv'
    BY <1>1, <2>1, FinishKeep
  <2>3. QED
    BY <2>1, <2>2, Quiet
<1>15. CASE MigrateUndo(i)
  BY <1>2, <1>3, <1>15 DEF MigrateUndo, Return, Open, SavedPCs
<1>16. CASE ModeSave(i)
  <2>1. Covers(vault, work[i]) /\ lock = i /\ lock' = lock
    BY <1>2, <1>16 DEF ModeSave, HolderPCs
  <2>2. CASE /\ vault' = work[i]
             /\ \/ Finish(i, "menu", work[i])
                \/ Proceed(i, "modeClean", work[i], NoEntry)
    <3>1. vault' \in Images /\ Grows /\ Owned /\ Covers(vault', work[i])
      BY <1>1, <2>1, <2>2, SaveGrows, CoverUpdates
    <3>2. KeepInv'
      BY <2>1, <2>2, <3>1, FinishKeep, ProceedKeep DEF CreatePCs, SavedPCs
    <3>3. QED
      BY <3>1, <3>2
  <2>3. CASE /\ vault' = vault
             /\ \/ Return(i)
                \/ Proceed(i, "modeUndo", work[i], NoEntry)
    BY <1>2, <1>3, <1>16, <2>1, <2>3 DEF ModeSave, Return, Open, CreatePCs, SavedPCs
  <2>4. QED
    BY <1>16, <2>2, <2>3 DEF ModeSave, SaveFails, Commit
<1>17. CASE ModeClean(i)
  <2>1. Covers(vault, work[i]) /\ vault' = vault /\ lock' = lock /\ Finish(i, "menu", work[i])
    BY <1>2, <1>17 DEF ModeClean, HolderPCs, Commit
  <2>2. KeepInv'
    BY <1>1, <2>1, FinishKeep
  <2>3. QED
    BY <2>1, <2>2, Quiet
<1>18. CASE ModeUndo(i)
  BY <1>2, <1>3, <1>18 DEF ModeUndo, Return, Open, SavedPCs
<1>19. QED
  BY <1>4, <1>5, <1>6, <1>7, <1>8, <1>9, <1>10, <1>11, <1>12, <1>13, <1>14, <1>15,
     <1>16, <1>17, <1>18 DEF Step

LEMMA KeepNext ==
    TypeInv /\ LockInv /\ KeepInv /\ [Next]_vars => KeepInv' /\ Grows /\ Owned
<1> SUFFICES ASSUME TypeInv, LockInv, KeepInv, [Next]_vars
             PROVE  KeepInv' /\ Grows /\ Owned
  OBVIOUS
<1>1. DiskOK /\ ProcOK /\ ImagesInHand
  BY DEF TypeInv, TypeOK, DiskOK, ProcOK
<1>2. CASE UNCHANGED vars \/ EntryLost
  <2>1. KeepInv'
    BY <1>2 DEF vars, disk, proc, EntryLost, KeepInv, Open
  <2>2. QED
    BY <1>2, <2>1, Quiet DEF vars, disk, EntryLost
<1>3. ASSUME NEW i \in Instances, Crash(i) PROVE KeepInv' /\ Grows /\ Owned
  BY <1>1, <1>3, FinishKeep, Quiet DEF Crash, Exit, disk, KeepInv
<1>4. QED
  BY <1>1, <1>2, <1>3, KeepKey, KeepStep DEF Next

LEMMA ExistingKeeps ==
    ExistingSpec => [](TypeInv /\ LockInv /\ KeepInv)
<1>1. ExistingInit => LockInv /\ KeepInv
  BY DEF ExistingInit, Init, LockInv, KeepInv, Holding, Open, HolderPCs, CreatePCs
<1>2. QED
  BY <1>1, InitType, TypeStep, LockNext, KeepNext, PTL DEF ExistingSpec

(* No save of a copy drops an edit that is on disk, its own or another's.    *)
THEOREM EditsStay == ExistingSpec => NoLostEdit
<1>1. TypeInv /\ LockInv /\ KeepInv /\ [Next]_vars
         => [vault # NoVault => vault.edits \subseteq vault'.edits]_vars
  BY KeepNext DEF Grows
<1>2. QED
  BY <1>1, ExistingKeeps, PTL DEF ExistingSpec, NoLostEdit

(* A vault that a password opens keeps a password slot.                      *)
THEOREM PasswordStays == ExistingSpec => PasswordSlotStays
<1>1. TypeInv /\ LockInv /\ KeepInv /\ [Next]_vars
         => [vault # NoVault /\ vault.pw # NoSecret => vault'.pw # NoSecret]_vars
  BY KeepNext DEF Grows
<1>2. QED
  BY <1>1, ExistingKeeps, PTL DEF ExistingSpec, PasswordSlotStays

(* A vault written by a newer version is not touched by this one.            *)
THEOREM NewerStays == ExistingSpec => NewerVaultUntouched
<1>1. TypeInv /\ LockInv /\ KeepInv /\ [Next]_vars
         => [vault # NoVault /\ vault.newer => vault' = vault]_vars
  BY KeepNext DEF Grows
<1>2. QED
  BY <1>1, ExistingKeeps, PTL DEF ExistingSpec, NewerVaultUntouched

(* The whole vault machinery implements the single-writer ledger.            *)
THEOREM Refinement == ExistingSpec => LedgerImplemented
<1> DEFINE durable == IF vault = NoVault THEN {} ELSE vault.edits
<1>1. ExistingInit => LedgerView!LedgerInit
  BY DEF ExistingInit, Init, Images, LedgerView!LedgerInit
<1>2. TypeInv /\ TypeInv' /\ LockInv /\ KeepInv /\ KeepInv' /\ [Next]_vars
         => [LedgerView!LedgerNext]_<<lock, durable>>
  <2> SUFFICES ASSUME TypeInv, TypeInv', KeepInv, KeepInv', Grows, Owned
               PROVE  [LedgerView!LedgerNext]_<<lock, durable>>
    BY KeepNext
  <2>1. durable = vault.edits /\ durable' = vault'.edits /\ vault'.edits \in SUBSET Edits
    BY Fields DEF KeepInv
  <2>2. lock \in Instances \cup {Nobody} /\ lock' \in Instances \cup {Nobody}
    BY DEF TypeInv, TypeOK
  <2>3. CASE vault'.edits # vault.edits
    <3>1. lock \in Instances /\ lock' = lock /\ durable' = durable \cup durable'
      BY <2>1, <2>3 DEF Owned, Grows
    <3>2. LedgerView!Commit(lock)
      BY <2>1, <3>1 DEF LedgerView!Commit
    <3>3. QED
      BY <3>1, <3>2 DEF LedgerView!LedgerNext
  <2>4. CASE vault'.edits = vault.edits
    BY <2>1, <2>2, <2>4 DEF Owned, LedgerView!LedgerNext, LedgerView!Acquire, LedgerView!Release
  <2>5. QED
    BY <2>3, <2>4
<1>3. QED
  BY <1>1, <1>2, ExistingKeeps, PTL DEF ExistingSpec, LedgerImplemented, LedgerView!LedgerSpec

-----------------------------------------------------------------------------
\* That a vault can still be opened: what the secret file of an old vault, the
\* keyring entry, the slots in memory and those on disk are to each other.  None
\* of this survives every failure, so each theorem names the failures it excludes;
\* the runs that expect a violation show that they have to be.

(* A handler moves the copy that runs it and no other.                       *)
OthersStay(i) ==
    \A j \in Instances \ {i} : /\ ui'[j] = ui[j] /\ pc'[j] = pc[j] /\ mem'[j] = mem[j]
                               /\ work'[j] = work[j] /\ held'[j] = held[j]

LEMMA FinishMoves ==
    ASSUME ProcOK, NEW i \in Instances, NEW s, NEW img, Finish(i, s, img)
    PROVE  ui'[i] = s /\ mem'[i] = img /\ pc'[i] = "idle" /\ OthersStay(i)
  BY DEF ProcOK, Finish, OthersStay

LEMMA ProceedMoves ==
    ASSUME ProcOK, NEW i \in Instances, NEW l, NEW img, NEW d, Proceed(i, l, img, d)
    PROVE  /\ ui'[i] = ui[i] /\ mem'[i] = mem[i]
           /\ pc'[i] = l /\ work'[i] = img /\ held'[i] = d /\ OthersStay(i)
  BY DEF ProcOK, Proceed, OthersStay

-----------------------------------------------------------------------------
(* The secret file of a "TOTP only" vault.  While it is there no copy gets   *)
(* past the migration screen, and between the save under a password and the  *)
(* removal of the file one copy is in migrateDiscard.                        *)
MigratePCs == {"idle", "migrateEntry", "migrateSave", "migrateDiscard", "migrateUndo"}

MigrateInv ==
    secretFile =>
        /\ vault \in Images
        /\ \A i \in Instances : ui[i] \in {"off", "migrate"} /\ pc[i] \in MigratePCs
        /\ vault.pw = LegacySecret \/ \E i \in Instances : pc[i] = "migrateDiscard"

(* What a step can do to it: move one copy that is not removing the file     *)
(* without changing what opens the vault, or save and go on to remove it.    *)
LEMMA MigrateKept ==
    ASSUME MigrateInv, secretFile, NEW i \in Instances, vault' \in Images,
           ui'[i] \in {"off", "migrate"}, pc'[i] \in MigratePCs, OthersStay(i),
           \/ pc'[i] = "migrateDiscard"
           \/ pc[i] # "migrateDiscard" /\ vault'.pw = vault.pw
    PROVE  MigrateInv'
<1>1. \A j \in Instances : ui'[j] \in {"off", "migrate"} /\ pc'[j] \in MigratePCs
  BY DEF OthersStay, MigrateInv
<1>2. vault'.pw = LegacySecret \/ \E j \in Instances : pc'[j] = "migrateDiscard"
  BY DEF OthersStay, MigrateInv
<1>3. QED
  BY <1>1, <1>2 DEF MigrateInv

LEMMA MigrateKey ==
    ASSUME ProcOK, LockInv, MigrateInv, NEW i \in Instances, Key(i), secretFile
    PROVE  MigrateInv'
<1>1. ui[i] \in {"off", "migrate"} /\ vault \in Images
  BY DEF MigrateInv
<1>2. CASE Launch(i) \/ Quit(i)
  <2>1. pc[i] = "idle" /\ UNCHANGED vault /\ \E s \in {"off", "migrate"} : Finish(i, s, NoImage)
    BY <1>2 DEF Launch, Resolve, Quit, Exit, Idle, disk
  <2>2. QED
    BY <1>1, <2>1, FinishMoves, MigrateKept DEF MigratePCs
<1>3. ASSUME NEW p \in Passwords, MigrateLoad(i, p) PROVE MigrateInv'
  <2>1. /\ pc[i] = "idle"
        /\ vault' \in {vault, [vault EXCEPT !.v1 = FALSE]}
        /\ \E l \in {"migrateUndo", "migrateEntry"} : \E img, d : Proceed(i, l, img, d)
    BY <1>3 DEF MigrateLoad, MigrateFails, Idle, SaveFails
  <2>2. vault' \in Images /\ vault'.pw = vault.pw
    <3>1. [vault EXCEPT !.v1 = FALSE] \in Images
      BY <1>1, ImageUpdates
    <3>2. [vault EXCEPT !.v1 = FALSE].pw = vault.pw
      BY <1>1 DEF Images
    <3>3. QED
      BY <1>1, <2>1, <3>1, <3>2
  <2>3. QED
    BY <1>1, <2>1, <2>2, ProceedMoves, MigrateKept DEF MigratePCs
<1>4. QED
  BY <1>1, <1>2, <1>3 DEF Key, Lock, PromptAccept, SubmitCode, TryUnlock, ChangePassword,
     CreateVault, ChangeMode, Edit, Idle

LEMMA MigrateStep ==
    ASSUME ProcOK, ImagesInHand, LockInv, MigrateInv, NEW i \in Instances, Step(i), secretFile,
           "discard" \notin Faults
    PROVE  MigrateInv'
<1>1. ui[i] \in {"off", "migrate"} /\ vault \in Images /\ pc[i] \in MigratePCs
  BY DEF MigrateInv
<1>2. CASE MigrateEntry(i)
  <2>1. /\ pc[i] = "migrateEntry" /\ UNCHANGED vault
        /\ \E l \in {"migrateUndo", "migrateSave"} : \E img, d : Proceed(i, l, img, d)
    BY <1>2 DEF MigrateEntry, MigrateFails
  <2>2. QED
    BY <1>1, <2>1, ProceedMoves, MigrateKept DEF MigratePCs
<1>3. CASE MigrateSave(i)
  <2>1. CASE vault' = work[i] /\ Proceed(i, "migrateDiscard", work[i], NoEntry)
    <3>1. vault' \in Images
      BY <1>3, <2>1, Here, Labels DEF MigrateSave
    <3>2. QED
      BY <1>1, <2>1, <3>1, ProceedMoves, MigrateKept DEF MigratePCs
  <2>2. CASE SaveFails /\ MigrateFails(i)
    BY <1>1, <1>3, <2>2, ProceedMoves, MigrateKept DEF MigrateSave, SaveFails, MigrateFails, MigratePCs
  <2>3. QED
    BY <1>3, <2>1, <2>2 DEF MigrateSave
<1>4. CASE MigrateDiscard(i)
  BY <1>4 DEF MigrateDiscard, DiscardSecret, MigrateInv
<1>5. CASE MigrateUndo(i)
  BY <1>1, <1>5, FinishMoves, MigrateKept DEF MigrateUndo, Return, MigratePCs
<1>6. QED
  BY <1>1, <1>2, <1>3, <1>4, <1>5
     DEF Step, MigratePCs, ResolveEntry, ResolveOpen, Reconcile, RecordCheck, ReenrolSave, ReenrolUndo,
         CodeAccepted, CodeRefused, CodeOpen, CreateInit, CreateTotp, CreateUndo, ModeSave, ModeClean,
         ModeUndo

(* Nothing brings the secret file back.                                      *)
LEMMA SecretGone == ~secretFile /\ [Next]_vars => ~secretFile'
<1> SUFFICES ASSUME ~secretFile, [Next]_vars PROVE ~secretFile'
  OBVIOUS
<1>1. CASE UNCHANGED vars \/ EntryLost
  BY <1>1 DEF vars, disk, EntryLost
<1>2. ASSUME NEW i \in Instances, Key(i) PROVE ~secretFile'
  BY <1>2 DEF Key, Launch, Lock, Quit, Exit, PromptAccept, SubmitCode, TryUnlock, MigrateLoad,
     ChangePassword, CreateVault, ChangeMode, Edit, disk
<1>3. ASSUME NEW i \in Instances, Step(i) PROVE ~secretFile'
  BY <1>3 DEF Step, ResolveEntry, ResolveOpen, Reconcile, RecordCheck, ReenrolSave, ReenrolUndo,
     CodeAccepted, CodeRefused, CodeOpen, CreateInit, CreateTotp, CreateUndo, MigrateEntry,
     MigrateSave, MigrateDiscard, MigrateUndo, ModeSave, ModeClean, ModeUndo, DiscardSecret, disk
<1>4. ASSUME NEW i \in Instances, Crash(i) PROVE ~secretFile'
  BY <1>4 DEF Crash, Exit, disk
<1>5. QED
  BY <1>1, <1>2, <1>3, <1>4 DEF Next

LEMMA MigrateNext ==
    ASSUME TypeInv, LockInv, MigrateInv, [Next]_vars, {"crash", "discard"} \cap Faults = {}
    PROVE  MigrateInv'
<1>1. ProcOK /\ ImagesInHand
  BY DEF TypeInv, TypeOK, ProcOK
<1>2. CASE ~secretFile
  BY <1>2, SecretGone DEF MigrateInv
<1>3. CASE secretFile /\ (UNCHANGED vars \/ EntryLost)
  BY <1>3 DEF vars, disk, proc, EntryLost, MigrateInv
<1>4. ASSUME NEW i \in Instances, Crash(i) PROVE FALSE
  BY <1>4 DEF Crash
<1>5. QED
  BY <1>1, <1>2, <1>3, <1>4, MigrateKey, MigrateStep DEF Next

(* MigrationCanFinish, for any number of copies and whatever saves and       *)
(* keyring calls fail: as long as no copy dies between the save and the      *)
(* removal of the file and that removal does not fail, the file that brings  *)
(* every launch to the migration screen is there only while it opens the     *)
(* vault (migrate_totp_only).                                                *)
THEOREM MigrationNeverStuck ==
    ASSUME {"crash", "discard"} \cap Faults = {}
    PROVE  Spec => []MigrationCanFinish
<1>1. (FreshInit \/ ExistingInit) => LockInv /\ MigrateInv
  BY DEF FreshInit, ExistingInit, Init, LockInv, Holding, Open, HolderPCs, MigrateInv, MigratePCs
<1>2. TypeInv /\ LockInv /\ MigrateInv /\ [Next]_vars => MigrateInv'
  BY MigrateNext
<1>3. MigrateInv => MigrationCanFinish
  BY Fields DEF MigrateInv, MigrationCanFinish, AtRest, PasswordOpens
<1>4. QED
  BY <1>1, <1>2, <1>3, InitType, TypeStep, LockNext, PTL DEF Spec

-----------------------------------------------------------------------------
(* A vault without a password, whose only way in is the keyring.  While it   *)
(* has none, no handler that would take or replace the entry runs but the    *)
(* settings', which saves the slot of the key it has just written; and a     *)
(* code is only written back while that handler is under way.                *)
Harmless(i) ==
    /\ ui[i] # "migrate"
    /\ pc[i] \in {"idle", "resolveEntry", "resolveOpen", "codeAccepted", "codeRefused",
                  "codeOpen", "modeSave"}
    /\ Open(i) => mem[i].dev = vault.dev
    /\ pc[i] \in {"codeAccepted", "codeRefused"} => held[i] = entry /\ entry.totp
    /\ pc[i] = "modeSave" => /\ work[i].dev # NoKey => entry.key = work[i].dev
                             /\ work[i].pw = NoSecret => work[i].dev # NoKey /\ ~entry.totp

ModeUnderWay == \E i \in Instances : pc[i] = "modeSave"

StrandInv ==
    vault.pw = NoSecret =>
        /\ vault.dev # NoKey
        /\ ~secretFile
        /\ entry # NoEntry
        /\ ModeUnderWay \/ (entry.key = vault.dev /\ ~entry.totp)
        /\ \A i \in Instances : Harmless(i)

(* A step that leaves the entry and the device slot alone.                   *)
LEMMA StrandKept ==
    ASSUME StrandInv, vault.pw = NoSecret, NEW i \in Instances, OthersStay(i),
           vault'.dev = vault.dev, entry' = entry, ~secretFile',
           pc[i] = "modeSave" => pc'[i] = "modeSave", Harmless(i)'
    PROVE  StrandInv'
<1>1. \A j \in Instances : Harmless(j)'
  BY DEF StrandInv, Harmless, OthersStay, Open
<1>2. ModeUnderWay' \/ (entry'.key = vault'.dev /\ ~entry'.totp)
  BY DEF StrandInv, ModeUnderWay, OthersStay
<1>3. QED
  BY <1>1, <1>2 DEF StrandInv

(* The failures that cost a vault without a password its entry.              *)
Lossless == {"save", "entryWrite", "entryLost", "crash"} \cap Faults = {}

(* Only one copy has the vault open, so one that has is the only one to save. *)
LEMMA OneHolder ==
    ASSUME LockInv, NEW i \in Instances, Holding(i), NEW j \in Instances \ {i}
    PROVE  ~Open(j) /\ pc[j] \notin HolderPCs
  BY DEF LockInv, Holding

LEMMA StrandKey ==
    ASSUME DiskOK, ProcOK, ImagesInHand, LockInv, KeepInv, StrandInv, Lossless,
           NEW i \in Instances, Key(i), vault.pw = NoSecret, vault'.pw = NoSecret
    PROVE  StrandInv'
<1>1. vault \in Images /\ vault # NoVault /\ ~secretFile /\ Harmless(i) /\ ui[i] # "setup"
  BY Fields DEF KeepInv, StrandInv
<1>2. ~SaveFails /\ ~WriteFails
  BY DEF Lossless, SaveFails, WriteFails
<1>3. CASE Launch(i) \/ Lock(i)
  <2>1. /\ UNCHANGED disk /\ pc[i] = "idle" /\ OthersStay(i)
        /\ ui'[i] \in {"locked", "starting"} /\ pc'[i] \in {"idle", "resolveEntry"}
    BY <1>1, <1>3, FinishMoves DEF Launch, Lock, Resolve, Idle, OthersStay, ProcOK, StrandInv
  <2>2. QED
    BY <1>1, <2>1, StrandKept DEF disk, Harmless, Open
<1>4. CASE Quit(i)
  BY <1>1, <1>4, FinishMoves, StrandKept DEF Quit, Exit, Idle, disk, Harmless, Open
<1>5. CASE PromptAccept(i)
  BY <1>1, <1>5, FinishMoves, StrandKept DEF PromptAccept, Idle, disk, Harmless, Open
<1>6. CASE SubmitCode(i)
  <2>1. \/ Finish(i, "locked", NoImage)
        \/ /\ entry \in Entries /\ entry.totp
           /\ \E l \in {"codeAccepted", "codeRefused"} : Proceed(i, l, NoImage, entry)
    BY <1>6, Fields DEF SubmitCode, EntryReads
  <2>2. QED
    BY <1>1, <1>6, <2>1, FinishMoves, ProceedMoves, StrandKept
       DEF SubmitCode, Idle, disk, Harmless, Open
<1>7. ASSUME NEW p \in Passwords, TryUnlock(i, p) PROVE StrandInv'
  <2>1. ~PasswordOpens(p)
    BY ConstantsAssumption DEF PasswordOpens
  <2>2. QED
    BY <1>1, <1>7, <2>1, FinishMoves, StrandKept DEF TryUnlock, Return, Idle, Harmless, Open
<1>8. ASSUME NEW e \in Edits, Edit(i, e) PROVE StrandInv'
  <2> DEFINE changed == [mem[i] EXCEPT !.edits = @ \cup {e}]
  <2>1. mem[i] \in Images /\ mem[i].dev = vault.dev
    BY <1>1, <1>8, Here DEF Edit, Idle, Harmless, Open
  <2>2. changed.dev = vault.dev
    BY <2>1 DEF Images
  <2>3. /\ vault' = changed /\ Finish(i, "menu", changed) /\ pc[i] = "idle"
        /\ UNCHANGED <<entry, secretFile>>
    BY <1>2, <1>8 DEF Edit, Idle, Commit
  <2> HIDE DEF changed
  <2>4. QED
    BY <1>1, <2>2, <2>3, FinishMoves, StrandKept DEF Harmless, Open
<1>9. ASSUME NEW p \in Passwords, ChangePassword(i, p) PROVE StrandInv'
  <2>1. mem[i] \in Images
    BY <1>9, Here DEF ChangePassword, Idle
  <2>2. vault'.pw = p
    BY <1>2, <1>9, <2>1 DEF ChangePassword, Images
  <2>3. QED
    BY <2>2, ConstantsAssumption
<1>10. ASSUME NEW p \in Passwords, NEW c \in Choices, ChangeMode(i, c, p) PROVE StrandInv'
  <2>1. /\ mem[i] \in Images /\ mem[i].dev = vault.dev /\ Holding(i)
        /\ ui[i] = "menu" /\ pc[i] = "idle"
    BY <1>1, <1>10, Here DEF ChangeMode, Idle, Harmless, Open, Holding
  <2>2. ASSUME NEW k \in Keys \cup {NoKey}
        PROVE  /\ NewSlots(i, c, p, k).dev = k
               /\ NewSlots(i, c, p, k).pw = NoSecret => c.mode = "None"
    <3>1. /\ NewSlots(i, c, p, k).dev = k
          /\ NewSlots(i, c, p, k).pw = (IF c.pw THEN p ELSE mem[i].pw)
      BY <2>1 DEF NewSlots, Images
    <3>2. p # NoSecret
      BY ConstantsAssumption
    <3>3. c.mode = "None" \/ c.pw = TRUE
      <4>1. CASE c = [mode |-> "None", pw |-> FALSE]
        BY <4>1
      <4>2. QED
        BY <4>1 DEF Choices
    <3>4. QED
      BY <3>1, <3>2, <3>3
  <2>3. \A j \in Instances \ {i} : ~Open(j) /\ pc[j] # "modeSave"
    BY <2>1, OneHolder DEF HolderPCs
  <2>4. ~entry.totp
    BY <2>1, <2>3 DEF StrandInv, ModeUnderWay
  <2>5. \A j \in Instances \ {i} : pc[j] \notin {"codeAccepted", "codeRefused"}
    BY <2>4 DEF StrandInv, Harmless
  <2>6. PICK k \in Keys \cup {NoKey}, d \in Entries \cup {NoEntry} :
          /\ Proceed(i, "modeSave", NewSlots(i, c, p, k), d)
          /\ IF k = NoKey THEN entry' = entry /\ ~WantsDevice(c)
                          ELSE entry' = d /\ d = [key |-> k, totp |-> WantsTotp(c)]
    BY <1>2, <1>10, ConstantsAssumption, Fields DEF ChangeMode
  <2>7. entry' # NoEntry /\ Harmless(i)'
    <3>1. /\ pc'[i] = "modeSave" /\ ui'[i] = "menu" /\ mem'[i] = mem[i]
          /\ work'[i] = NewSlots(i, c, p, k) /\ vault' = vault
      BY <1>10, <2>1, <2>6, ProceedMoves DEF ChangeMode
    <3>2. CASE k = NoKey
      <4>1. entry' = entry /\ c.mode # "None"
        BY <2>6, <3>2 DEF WantsDevice
      <4>2. work'[i].dev = NoKey /\ work'[i].pw # NoSecret
        BY <2>2, <3>1, <3>2, <4>1
      <4>3. QED
        BY <2>1, <3>1, <4>1, <4>2 DEF Harmless, Open, StrandInv
    <3>3. CASE k # NoKey
      <4>1. entry' = [key |-> k, totp |-> WantsTotp(c)]
        BY <2>6, <3>3
      <4>2. entry' # NoEntry
        <5> WantsTotp(c) \in BOOLEAN
          BY DEF WantsTotp
        <5> k \in Keys
          BY <3>3
        <5> QED
          BY <4>1, SentinelsAssumption DEF Entries
      <4>3. c.mode = "None" => ~WantsTotp(c)
        BY DEF WantsTotp
      <4>4. work'[i].dev = k /\ (work'[i].pw = NoSecret => c.mode = "None")
        BY <2>2, <3>1
      <4>5. QED
        BY <2>1, <3>1, <3>3, <4>1, <4>2, <4>3, <4>4 DEF Harmless, Open
    <3>4. QED
      BY <3>2, <3>3
  <2>8. \A j \in Instances \ {i} : Harmless(j)'
    BY <1>10, <2>3, <2>5, <2>6, ProceedMoves DEF StrandInv, Harmless, OthersStay, Open
  <2>9. ModeUnderWay'
    BY <2>6, ProceedMoves DEF ModeUnderWay
  <2>10. QED
    BY <1>10, <2>7, <2>8, <2>9 DEF StrandInv, ChangeMode
<1>11. QED
  BY <1>1, <1>3, <1>4, <1>5, <1>6, <1>7, <1>8, <1>9, <1>10
     DEF Key, MigrateLoad, CreateVault, Idle, Harmless

LEMMA StrandStep ==
    ASSUME DiskOK, ProcOK, ImagesInHand, LockInv, KeepInv, StrandInv, Lossless,
           NEW i \in Instances, Step(i), vault.pw = NoSecret, vault'.pw = NoSecret
    PROVE  StrandInv'
<1>1. vault \in Images /\ ~secretFile /\ Harmless(i)
  BY DEF KeepInv, StrandInv
<1>2. ~SaveFails /\ ~WriteFails
  BY DEF Lossless, SaveFails, WriteFails
<1>3. CASE ResolveEntry(i)
  BY <1>1, <1>3, FinishMoves, ProceedMoves, StrandKept
     DEF ResolveEntry, LockedOut, disk, Harmless, Open
<1>4. CASE ResolveOpen(i)
  <2>1. /\ UNCHANGED disk /\ pc[i] = "resolveOpen"
        /\ \/ \E s \in {"cannotOpen", "locked", "unopenable"} : Finish(i, s, NoImage)
           \/ \E s \in {"menu", "prompt"} : Finish(i, s, vault)
    BY <1>4 DEF ResolveOpen, EnterUnlocked, LoadedImage, LockedOut
  <2>2. QED
    BY <1>1, <2>1, FinishMoves, StrandKept DEF disk, Harmless, Open
<1>5. CASE CodeAccepted(i) \/ CodeRefused(i)
  <2>1. entry' = entry /\ pc[i] \in {"codeAccepted", "codeRefused"} /\ UNCHANGED <<vault, secretFile>>
    BY <1>1, <1>2, <1>5 DEF CodeAccepted, CodeRefused, Harmless
  <2>2. \/ \E s \in {"locked", "daily"} : Finish(i, s, NoImage)
        \/ Proceed(i, "codeOpen", NoImage, held[i])
    BY <1>5 DEF CodeAccepted, CodeRefused
  <2>3. QED
    BY <1>1, <2>1, <2>2, FinishMoves, ProceedMoves, StrandKept DEF Harmless, Open
<1>6. CASE CodeOpen(i)
  <2>1. /\ UNCHANGED disk /\ pc[i] = "codeOpen"
        /\ \/ \E s \in {"cannotOpen", "daily"} : Finish(i, s, NoImage)
           \/ Finish(i, "menu", vault)
    BY <1>6 DEF CodeOpen
  <2>2. QED
    BY <1>1, <2>1, FinishMoves, StrandKept DEF disk, Harmless, Open
<1>7. CASE ModeSave(i)
  <2>1. /\ vault' = work[i] /\ work[i].dev # NoKey /\ Finish(i, "menu", work[i])
        /\ UNCHANGED <<entry, secretFile>> /\ pc[i] = "modeSave"
        /\ entry.key = work[i].dev /\ ~entry.totp
    BY <1>1, <1>2, <1>7 DEF ModeSave, Commit, Harmless
  <2>2. \A j \in Instances \ {i} : ~Open(j) /\ pc[j] # "modeSave"
    BY <2>1, OneHolder DEF Holding, HolderPCs
  <2>3. \A j \in Instances \ {i} : Harmless(j)'
    BY <2>1, <2>2, FinishMoves DEF StrandInv, Harmless, OthersStay, Open
  <2>4. Harmless(i)'
    BY <2>1, FinishMoves DEF Harmless, Open
  <2>5. QED
    BY <1>1, <2>1, <2>3, <2>4 DEF StrandInv
<1>8. QED
  BY <1>1, <1>3, <1>4, <1>5, <1>6, <1>7
     DEF Step, Harmless, Reconcile, RecordCheck, ReenrolSave, ReenrolUndo, CreateInit, CreateTotp,
         CreateUndo, MigrateEntry, MigrateSave, MigrateDiscard, MigrateUndo, ModeClean, ModeUndo

LEMMA StrandNext ==
    ASSUME TypeInv, LockInv, KeepInv, StrandInv, [Next]_vars, Lossless
    PROVE  StrandInv'
<1>1. DiskOK /\ ProcOK /\ ImagesInHand
  BY DEF TypeInv, TypeOK, DiskOK, ProcOK
<1>2. vault'.pw = NoSecret => vault.pw = NoSecret
  BY KeepNext DEF Grows
<1>3. CASE vault'.pw # NoSecret
  BY <1>3 DEF StrandInv
<1>4. CASE UNCHANGED vars
  BY <1>4 DEF vars, disk, proc, StrandInv, Harmless, ModeUnderWay, Open
<1>5. ASSUME EntryLost \/ \E i \in Instances : Crash(i) PROVE FALSE
  BY <1>5 DEF EntryLost, Crash, Lossless
<1>6. QED
  BY <1>1, <1>2, <1>3, <1>4, <1>5, StrandKey, StrandStep DEF Next

(* NeverStranded, for any number of copies that share an existing vault: as  *)
(* long as saves and writes to the keyring succeed and nothing is killed, a  *)
(* vault without a password finds its key in the keyring between handlers,   *)
(* also when modes are changed, codes are checked and entries cannot be read *)
(* or deleted (change_security_mode, try_totp_daily_unlock).                 *)
THEOREM AWayIn ==
    ASSUME Lossless
    PROVE  ExistingSpec => []NeverStranded
<1>1. ExistingInit => StrandInv
  <2> SUFFICES ASSUME ExistingInit, vault.pw = NoSecret PROVE StrandInv
    BY DEF StrandInv
  <2>1. /\ vault \in Images /\ vault.dev # NoKey /\ ~vault.totp
        /\ entry = [key |-> vault.dev, totp |-> vault.totp]
        /\ ~secretFile
    BY ConstantsAssumption, Fields DEF ExistingInit
  <2>2. entry # NoEntry
    BY <2>1, Fields
  <2>3. \A i \in Instances : Harmless(i)
    BY DEF ExistingInit, Init, Harmless, Open
  <2>4. QED
    BY <2>1, <2>2, <2>3 DEF StrandInv
<1>2. TypeInv /\ LockInv /\ KeepInv /\ StrandInv /\ [Next]_vars => StrandInv'
  BY StrandNext
<1>3. StrandInv => NeverStranded
  BY DEF StrandInv, NeverStranded, AtRest, ModeUnderWay
<1>4. QED
  BY <1>1, <1>2, <1>3, ExistingKeeps, PTL DEF ExistingSpec

-----------------------------------------------------------------------------
(* The slots in memory and those on disk.  reconcile_device_state saves a    *)
(* device slot that the open session does not learn of, but only when the    *)
(* entry of a vault with a device slot is gone; so the two stay the same as  *)
(* long as nothing takes it: no save or keyring write fails (an undo deletes *)
(* the entry), the keyring is not reset, and no copy is on the setup or the  *)
(* migration screen, whose undo deletes it too.                              *)
SameSlots(a, b) == a.pw = b.pw /\ a.dev = b.dev /\ a.totp = b.totp

EvenPCs == {"idle", "resolveEntry", "resolveOpen", "reconcile", "recordCheck",
            "codeAccepted", "codeRefused", "codeOpen", "modeSave", "modeClean"}

Even(i) ==
    /\ ui[i] \notin {"setup", "migrate"}
    /\ pc[i] \in EvenPCs
    /\ pc[i] \in {"reconcile", "recordCheck"} => vault = work[i] /\ vault.dev # NoKey
    /\ pc[i] = "modeClean" => vault = work[i] /\ vault.dev = NoKey
    /\ pc[i] = "modeSave" /\ work[i].dev # NoKey => entry # NoEntry
    /\ Open(i) /\ pc[i] # "modeClean" => SameSlots(mem[i], vault)

EvenInv ==
    /\ vault \in Images
    /\ ~secretFile
    /\ vault.dev # NoKey => entry # NoEntry
    /\ \A i \in Instances : Even(i)

(* What a step of i may do to the disk without disturbing the other copies:  *)
(* leave the vault and keep an entry there, or change both while i has the   *)
(* only open vault.                                                          *)
Gentle(i) ==
    /\ vault' \in Images /\ ~secretFile'
    /\ vault'.dev # NoKey => entry' # NoEntry
    /\ \/ vault' = vault /\ (entry' = entry \/ entry' # NoEntry)
       \/ \A j \in Instances \ {i} : ~Open(j) /\ pc[j] \notin HolderPCs

LEMMA EvenKept ==
    ASSUME EvenInv, NEW i \in Instances, OthersStay(i), Gentle(i), Even(i)'
    PROVE  EvenInv'
<1>1. ASSUME NEW j \in Instances \ {i} PROVE Even(j)'
  <2>1. Even(j)
    BY DEF EvenInv
  <2>2. /\ ui'[j] = ui[j] /\ pc'[j] = pc[j] /\ mem'[j] = mem[j] /\ work'[j] = work[j]
    BY DEF OthersStay
  <2>3. CASE vault' = vault /\ (entry' = entry \/ entry' # NoEntry)
    BY <2>1, <2>2, <2>3 DEF Even, Open
  <2>4. CASE ~Open(j) /\ pc[j] \notin HolderPCs
    BY <2>1, <2>2, <2>4 DEF Even, Open, HolderPCs
  <2>5. QED
    BY <2>3, <2>4 DEF Gentle
<1>2. QED
  BY <1>1 DEF EvenInv, Gentle

LEMMA FinishEven ==
    ASSUME ProcOK, EvenInv, NEW i \in Instances, NEW s, NEW img, Finish(i, s, img),
           Gentle(i), s \notin {"setup", "migrate"},
           s \in {"prompt", "menu"} => SameSlots(img, vault')
    PROVE  EvenInv'
  BY FinishMoves, EvenKept DEF Even, EvenPCs, Open

LEMMA ProceedEven ==
    ASSUME ProcOK, EvenInv, NEW i \in Instances, NEW l \in EvenPCs, NEW img, NEW d,
           Proceed(i, l, img, d), Gentle(i),
           l \in {"reconcile", "recordCheck"} => vault' = img /\ vault'.dev # NoKey,
           l = "modeClean" => vault' = img /\ vault'.dev = NoKey,
           l = "modeSave" /\ img.dev # NoKey => entry' # NoEntry,
           Open(i) /\ l # "modeClean" => SameSlots(mem[i], vault')
    PROVE  EvenInv'
<1>1. /\ ui'[i] = ui[i] /\ mem'[i] = mem[i] /\ pc'[i] = l /\ work'[i] = img /\ OthersStay(i)
  BY ProceedMoves
<1>2. Even(i)'
  BY <1>1 DEF Even, EvenInv, Open
<1>3. QED
  BY <1>1, <1>2, EvenKept

(* The failures that take an entry, or leave one behind, the vault needs.    *)
EntrySafe == {"save", "entryWrite", "entryLost"} \cap Faults = {}

LEMMA OneClaim ==
    ASSUME LockInv, NEW i \in Instances, lock \in {Nobody, i}
    PROVE  \A j \in Instances \ {i} : ~Open(j) /\ pc[j] \notin HolderPCs
  BY ConstantsAssumption DEF LockInv, Holding

LEMMA EvenKey ==
    ASSUME DiskOK, ProcOK, ImagesInHand, LockInv, EvenInv, EntrySafe, NEW i \in Instances, Key(i)
    PROVE  EvenInv'
<1>1. vault \in Images /\ vault # NoVault /\ ~secretFile /\ Even(i)
  BY Fields DEF EvenInv
<1>2. ~SaveFails /\ ~WriteFails
  BY DEF EntrySafe, SaveFails, WriteFails
<1>3. UNCHANGED disk => Gentle(i)
  BY <1>1 DEF disk, Gentle, EvenInv
<1>4. CASE Launch(i) \/ Lock(i)
  <2>1. /\ UNCHANGED disk /\ OthersStay(i)
        /\ ui'[i] \in {"locked", "starting"} /\ pc'[i] \in {"idle", "resolveEntry"}
    BY <1>1, <1>4, FinishMoves DEF Launch, Lock, Resolve, OthersStay, ProcOK
  <2>2. Even(i)'
    BY <2>1 DEF Even, EvenPCs, Open
  <2>3. QED
    BY <1>3, <2>1, <2>2, EvenKept
<1>5. CASE Quit(i)
  BY <1>3, <1>5, FinishEven DEF Quit, Exit
<1>6. CASE PromptAccept(i)
  <2>1. SameSlots(mem[i], vault) /\ UNCHANGED disk
    BY <1>1, <1>6 DEF PromptAccept, Idle, Even, Open
  <2>2. QED
    BY <1>3, <1>6, <2>1, FinishEven DEF PromptAccept, disk
<1>7. CASE SubmitCode(i)
  <2>1. /\ UNCHANGED disk /\ ui[i] = "daily"
        /\ \/ Finish(i, "locked", NoImage)
           \/ \E l \in {"codeAccepted", "codeRefused"} : \E d : Proceed(i, l, NoImage, d)
    BY <1>7 DEF SubmitCode, Idle
  <2>2. QED
    BY <1>3, <2>1, FinishEven, ProceedEven DEF EvenPCs, Open
<1>8. ASSUME NEW p \in Passwords, TryUnlock(i, p) PROVE EvenInv'
  <2>1. /\ \A j \in Instances \ {i} : ~Open(j) /\ pc[j] \notin HolderPCs
        /\ UNCHANGED <<entry, secretFile>> /\ ui[i] = "locked"
    BY <1>8, OneClaim DEF TryUnlock, Claim, Idle
  <2>2. CASE UNCHANGED vault /\ \E s : Finish(i, s, mem[i]) /\ s \in {"locked", "cannotOpen"}
    BY <1>3, <2>1, <2>2, FinishEven DEF disk
  <2>3. CASE UNCHANGED vault /\ EnterUnlocked(i, vault)
    BY <1>3, <2>1, <2>3, FinishEven DEF disk, EnterUnlocked, SameSlots
  <2>4. CASE UNCHANGED vault /\ vault.dev # NoKey /\ Proceed(i, "reconcile", vault, NoEntry)
    BY <1>3, <2>1, <2>4, ProceedEven DEF disk, Open, EvenPCs
  <2>5. CASE vault' = [vault EXCEPT !.v1 = FALSE] /\ EnterUnlocked(i, vault')
    <3>1. vault' \in Images
      BY <1>1, <2>5, ImageUpdates
    <3>2. vault'.dev = vault.dev
      BY <1>1, <2>5 DEF Images
    <3>3. Gentle(i)
      BY <1>1, <2>1, <3>1, <3>2 DEF Gentle, EvenInv
    <3>4. \E s \in {"menu", "prompt"} : Finish(i, s, vault')
      BY <2>5 DEF EnterUnlocked
    <3>5. QED
      BY <3>3, <3>4, FinishEven DEF SameSlots
  <2>6. CASE UNCHANGED vault /\ Finish(i, "cannotOpen", NoImage)
    BY <1>3, <2>1, <2>6, FinishEven DEF disk
  <2>7. QED
    BY <1>2, <1>8, <2>1, <2>2, <2>3, <2>4, <2>5, <2>6 DEF TryUnlock, Return
<1>9. ASSUME Idle(i, {"menu"})
      PROVE  /\ mem[i] \in Images /\ SameSlots(mem[i], vault)
             /\ \A j \in Instances \ {i} : ~Open(j) /\ pc[j] \notin HolderPCs
  BY <1>1, <1>9, Here, OneHolder DEF Idle, Even, Open, Holding
<1>10. ASSUME NEW e \in Edits, Edit(i, e) PROVE EvenInv'
  <2> DEFINE changed == [mem[i] EXCEPT !.edits = @ \cup {e}]
  <2>1. changed \in Images /\ SameSlots(changed, mem[i]) /\ SameSlots(mem[i], vault)
    <3>1. mem[i] \in Images /\ SameSlots(mem[i], vault)
      BY <1>9, <1>10 DEF Edit
    <3>2. QED
      BY <3>1, ImageUpdates DEF Images, SameSlots
  <2>2. /\ vault' = changed /\ Finish(i, "menu", changed) /\ UNCHANGED <<entry, secretFile>>
    BY <1>2, <1>10 DEF Edit, Commit
  <2> HIDE DEF changed
  <2>3. Gentle(i)
    BY <1>1, <1>9, <1>10, <2>1, <2>2 DEF Gentle, EvenInv, SameSlots, Edit
  <2>4. QED
    BY <2>2, <2>3, FinishEven DEF SameSlots
<1>11. ASSUME NEW p \in Passwords, ChangePassword(i, p) PROVE EvenInv'
  <2> DEFINE changed == [mem[i] EXCEPT !.pw = p]
  <2>1. changed \in Images /\ changed.dev = vault.dev
    <3>1. mem[i] \in Images /\ SameSlots(mem[i], vault)
      BY <1>9, <1>11 DEF ChangePassword
    <3>2. QED
      BY <3>1, ImageUpdates, SecretsType DEF Images, SameSlots
  <2>2. /\ vault' = changed /\ Finish(i, "menu", changed) /\ UNCHANGED <<entry, secretFile>>
    BY <1>2, <1>11 DEF ChangePassword, Commit
  <2> HIDE DEF changed
  <2>3. Gentle(i)
    BY <1>1, <1>9, <1>11, <2>1, <2>2 DEF Gentle, EvenInv, ChangePassword
  <2>4. QED
    BY <2>2, <2>3, FinishEven DEF SameSlots
<1>12. ASSUME NEW p \in Passwords, NEW c \in Choices, ChangeMode(i, c, p) PROVE EvenInv'
  <2>1. /\ mem[i] \in Images /\ SameSlots(mem[i], vault)
        /\ UNCHANGED <<vault, secretFile>>
    BY <1>9, <1>12 DEF ChangeMode
  <2>2. PICK k \in Keys \cup {NoKey} :
          /\ \E d : Proceed(i, "modeSave", NewSlots(i, c, p, k), d)
          /\ IF k = NoKey THEN entry' = entry ELSE entry' = [key |-> k, totp |-> WantsTotp(c)]
    BY <1>2, <1>12, ConstantsAssumption DEF ChangeMode
  <2>3. k # NoKey => entry' # NoEntry
    BY <2>2, Fields
  <2>4. Gentle(i)
    BY <1>1, <2>1, <2>2, <2>3 DEF Gentle, EvenInv
  <2>5. NewSlots(i, c, p, k).dev = k
    BY <2>1 DEF NewSlots, Images
  <2>6. QED
    BY <2>1, <2>2, <2>3, <2>4, <2>5, ProceedEven DEF EvenPCs
<1>13. QED
  BY <1>1, <1>4, <1>5, <1>6, <1>7, <1>8, <1>10, <1>11, <1>12
     DEF Key, MigrateLoad, CreateVault, Idle, Even

LEMMA EvenStep ==
    ASSUME DiskOK, ProcOK, ImagesInHand, LockInv, EvenInv, EntrySafe, NEW i \in Instances, Step(i)
    PROVE  EvenInv'
<1>1. vault \in Images /\ vault # NoVault /\ ~secretFile /\ Even(i)
  BY Fields DEF EvenInv
<1>2. ~SaveFails /\ ~WriteFails
  BY DEF EntrySafe, SaveFails, WriteFails
<1>3. UNCHANGED disk => Gentle(i)
  BY <1>1 DEF disk, Gentle, EvenInv
<1>4. CASE ResolveEntry(i)
  <2>1. ~Open(i) \/ SameSlots(mem[i], vault)
    BY <1>1, <1>4 DEF ResolveEntry, Even
  <2>2. /\ UNCHANGED disk
        /\ \/ \E s \in {"locked", "unopenable", "daily"} : Finish(i, s, NoImage)
           \/ \E d : Proceed(i, "resolveOpen", work[i], d)
    BY <1>4 DEF ResolveEntry, LockedOut
  <2>3. QED
    BY <1>3, <2>1, <2>2, FinishEven, ProceedEven DEF EvenPCs, disk
<1>5. CASE ResolveOpen(i)
  <2>1. /\ UNCHANGED disk
        /\ \/ \E s \in {"cannotOpen", "locked", "unopenable"} : Finish(i, s, NoImage)
           \/ \E s \in {"menu", "prompt"} : Finish(i, s, vault)
    BY <1>5 DEF ResolveOpen, EnterUnlocked, LoadedImage, LockedOut
  <2>2. QED
    BY <1>3, <2>1, FinishEven DEF disk, SameSlots
<1>6. CASE Reconcile(i)
  <2>1. vault = work[i] /\ vault.dev # NoKey /\ entry # NoEntry
    BY <1>1, <1>6 DEF Reconcile, Even, EvenInv
  <2>2. ~Open(i) \/ SameSlots(mem[i], vault)
    BY <1>1, <1>6 DEF Reconcile, Even
  <2>3. /\ UNCHANGED disk
        /\ \/ EnterUnlocked(i, work[i])
           \/ \E d : Proceed(i, "recordCheck", work[i], d)
    BY <1>6, <2>1, SentinelsAssumption DEF Reconcile, EntryReads, disk
  <2>4. QED
    BY <1>3, <2>1, <2>2, <2>3, FinishEven, ProceedEven
       DEF disk, EnterUnlocked, SameSlots, EvenPCs
<1>7. CASE RecordCheck(i)
  <2>1. /\ vault = work[i] /\ UNCHANGED <<vault, secretFile>> /\ EnterUnlocked(i, work[i])
        /\ entry' = held[i] /\ held[i] \in Entries
    BY <1>1, <1>2, <1>7, Here, Labels DEF RecordCheck, Even
  <2>2. Gentle(i)
    BY <1>1, <2>1, Fields DEF Gentle
  <2>3. QED
    BY <2>1, <2>2, FinishEven DEF EnterUnlocked, SameSlots
<1>8. CASE CodeAccepted(i) \/ CodeRefused(i)
  <2>1. /\ entry' = held[i] /\ held[i] \in Entries /\ UNCHANGED <<vault, secretFile>>
        /\ ~Open(i) \/ SameSlots(mem[i], vault)
    BY <1>1, <1>2, <1>8, Here, Labels DEF CodeAccepted, CodeRefused, Even
  <2>2. \/ \E s \in {"locked", "daily"} : Finish(i, s, NoImage)
        \/ Proceed(i, "codeOpen", NoImage, held[i])
    BY <1>8 DEF CodeAccepted, CodeRefused
  <2>3. Gentle(i)
    BY <1>1, <2>1, Fields DEF Gentle
  <2>4. QED
    BY <2>1, <2>2, <2>3, FinishEven, ProceedEven DEF EvenPCs
<1>9. CASE CodeOpen(i)
  <2>1. /\ UNCHANGED disk
        /\ \/ \E s \in {"cannotOpen", "daily"} : Finish(i, s, NoImage)
           \/ Finish(i, "menu", vault)
    BY <1>9 DEF CodeOpen
  <2>2. QED
    BY <1>3, <2>1, FinishEven DEF disk, SameSlots
<1>10. pc[i] \in {"modeSave", "modeClean"} =>
          \A j \in Instances \ {i} : ~Open(j) /\ pc[j] \notin HolderPCs
  BY OneHolder DEF Holding, HolderPCs
<1>11. CASE ModeSave(i)
  <2>1. /\ vault' = work[i] /\ work[i] \in Images /\ UNCHANGED <<entry, secretFile>>
        /\ work[i].dev # NoKey => entry # NoEntry
        /\ IF work[i].dev # NoKey THEN Finish(i, "menu", work[i])
                                  ELSE Proceed(i, "modeClean", work[i], NoEntry)
    BY <1>1, <1>2, <1>11, Here, Labels DEF ModeSave, Commit, Even
  <2>2. Gentle(i)
    BY <1>1, <1>10, <1>11, <2>1 DEF Gentle, ModeSave
  <2>3. QED
    BY <2>1, <2>2, FinishEven, ProceedEven DEF SameSlots, EvenPCs
<1>12. CASE ModeClean(i)
  <2>1. /\ vault = work[i] /\ vault.dev = NoKey /\ UNCHANGED <<vault, secretFile>>
        /\ Finish(i, "menu", work[i])
    BY <1>1, <1>12 DEF ModeClean, Commit, Even
  <2>2. Gentle(i)
    BY <1>1, <1>10, <1>12, <2>1 DEF Gentle, ModeClean
  <2>3. QED
    BY <2>1, <2>2, FinishEven DEF SameSlots
<1>13. QED
  BY <1>1, <1>4, <1>5, <1>6, <1>7, <1>8, <1>9, <1>11, <1>12
     DEF Step, Even, EvenPCs, ReenrolSave, ReenrolUndo, CreateInit, CreateTotp, CreateUndo,
         MigrateEntry, MigrateSave, MigrateDiscard, MigrateUndo, ModeUndo

LEMMA EvenNext ==
    ASSUME TypeInv, LockInv, EvenInv, [Next]_vars, EntrySafe
    PROVE  EvenInv'
<1>1. DiskOK /\ ProcOK /\ ImagesInHand
  BY DEF TypeInv, TypeOK, DiskOK, ProcOK
<1>2. CASE UNCHANGED vars
  BY <1>2 DEF vars, disk, proc, EvenInv, Even, Open
<1>3. ASSUME EntryLost PROVE FALSE
  BY <1>3 DEF EntryLost, EntrySafe
<1>4. ASSUME NEW i \in Instances, Crash(i) PROVE EvenInv'
  <2>1. Gentle(i)
    BY <1>4 DEF Crash, Exit, disk, Gentle, EvenInv
  <2>2. QED
    BY <1>1, <1>4, <2>1, FinishEven DEF Crash, Exit
<1>5. QED
  BY <1>1, <1>2, <1>3, <1>4, EvenKey, EvenStep DEF Next

(* SlotsMatchDisk, for any number of copies that share an existing vault,    *)
(* copies that are killed included: without a failing save or keyring write, *)
(* and unless the entry is lost from outside, what an open vault would write *)
(* back with its next save are the slots on disk (change_security_mode,      *)
(* change_master_password, reconcile_device_state).  Not for a vault that is *)
(* still to be set up or migrated: the undo of a second copy's attempt takes *)
(* the first one's entry.                                                    *)
THEOREM SlotsStayEven ==
    ASSUME EntrySafe
    PROVE  ExistingSpec /\ ~secretFile => []SlotsMatchDisk
<1>1. ExistingInit /\ ~secretFile => EvenInv
  <2> SUFFICES ASSUME ExistingInit, ~secretFile PROVE EvenInv
    OBVIOUS
  <2>1. vault \in Images
    BY DEF ExistingInit
  <2>2. vault.dev # NoKey => entry # NoEntry
    BY <2>1, Fields DEF ExistingInit
  <2>3. \A i \in Instances : Even(i)
    BY DEF ExistingInit, Init, Even, EvenPCs, Open
  <2>4. QED
    BY <2>1, <2>2, <2>3 DEF EvenInv
<1>2. TypeInv /\ LockInv /\ EvenInv /\ [Next]_vars => EvenInv'
  BY EvenNext
<1>3. EvenInv => SlotsMatchDisk
  BY DEF EvenInv, Even, SameSlots, SlotsMatchDisk
<1>4. QED
  BY <1>1, <1>2, <1>3, ExistingKeeps, PTL DEF ExistingSpec

-----------------------------------------------------------------------------
(* The keyring entry as the other half of the device slot.  Two copies can   *)
(* part them (one writes back a code's counters over the entry of a vault    *)
(* the other has changed), so this is about a copy that runs alone: from the *)
(* first launch over set-up, migration and every change of mode, the handler *)
(* under way knows what the entry and the vault are to each other, and ends  *)
(* with the two in step.                                                     *)
Pairs(d, img) ==
    IF img.dev = NoKey THEN d = NoEntry
                       ELSE d # NoEntry /\ d.key = img.dev /\ d.totp = img.totp

(* After a failed removal of the secret file a later attempt to migrate ends *)
(* in an undo, which deletes the entry: the file then still says so.         *)
InStep(d, img, file) == Pairs(d, img) \/ (file /\ d = NoEntry)

OpeningPCs == {"resolveEntry", "resolveOpen", "reconcile", "recordCheck",
               "codeAccepted", "codeRefused", "codeOpen"}

CalmScreen(i) ==
    /\ secretFile => vault # NoVault /\ ui[i] \in {"off", "migrate", "menu"}
    /\ ~secretFile => ui[i] # "migrate"
    /\ vault = NoVault => ui[i] \in {"off", "setup"} /\ pc[i] \in {"idle", "createInit"}
    /\ vault # NoVault => pc[i] # "createInit" /\ (ui[i] = "setup" => pc[i] = "createTotp")
    /\ pc[i] \notin {"reenrolSave", "reenrolUndo", "createUndo", "modeUndo"}
    /\ pc[i] \in {"migrateEntry", "migrateSave", "migrateDiscard", "migrateUndo"} =>
          secretFile /\ ui[i] = "migrate"
    /\ pc[i] \in {"createInit", "createTotp"} => ui[i] = "setup"
    /\ pc[i] \in {"modeSave", "modeClean"} => ui[i] = "menu"
    /\ pc[i] \in OpeningPCs => ui[i] \in {"starting", "locked", "daily"}

CalmWork(i) ==
    /\ pc[i] \in {"migrateDiscard", "modeClean", "reconcile", "recordCheck"} => vault = work[i]
    /\ pc[i] \in {"createInit", "createTotp", "migrateEntry", "migrateSave", "migrateDiscard",
                  "modeSave"} => work[i].pw # LegacySecret
    /\ pc[i] \in {"createInit", "createTotp", "migrateSave", "migrateDiscard"} =>
          Pairs(entry, work[i])
    /\ pc[i] = "modeSave" /\ work[i].dev # NoKey => Pairs(entry, work[i])
    /\ pc[i] \in {"migrateEntry", "migrateSave"} => vault.dev = NoKey /\ work[i].totp
    /\ pc[i] = "migrateEntry" => work[i].dev = NoKey
    /\ pc[i] = "modeClean" => vault.dev = NoKey
    /\ pc[i] \in {"reconcile", "recordCheck"} => vault.dev # NoKey
    /\ pc[i] \in {"codeAccepted", "codeRefused", "recordCheck"} => held[i] = entry

CalmDisk(i) ==
    /\ vault = NoVault /\ pc[i] = "idle" => entry = NoEntry
    /\ vault # NoVault /\ vault.pw = LegacySecret =>
          vault.dev = NoKey /\ secretFile /\ ui[i] # "menu"
    /\ vault # NoVault /\ pc[i] \notin {"createTotp", "migrateSave", "modeSave", "modeClean"} =>
          InStep(entry, vault, secretFile)
    /\ Open(i) /\ pc[i] # "modeClean" => SameSlots(mem[i], vault)

Calm(i) == CalmScreen(i) /\ CalmWork(i) /\ CalmDisk(i)
CalmInv == \A i \in Instances : Calm(i)

(* The failures that part them even for one copy.                            *)
Steady == Faults \subseteq {"entryRead", "discard"}

(* A handler that ends: the screen it leaves fits what is on disk.           *)
EndsInStep(s, img) ==
    /\ secretFile' => vault' # NoVault /\ s \in {"off", "migrate", "menu"}
    /\ ~secretFile' => s # "migrate"
    /\ vault' = NoVault => s \in {"off", "setup"} /\ entry' = NoEntry
    /\ vault' # NoVault =>
          /\ s # "setup"
          /\ InStep(entry', vault', secretFile')
          /\ vault'.pw = LegacySecret => vault'.dev = NoKey /\ secretFile' /\ s # "menu"
    /\ s \in {"menu", "prompt"} => SameSlots(img, vault')

LEMMA FinishCalm ==
    ASSUME ProcOK, NEW i \in Instances, NEW s, NEW img, Finish(i, s, img), EndsInStep(s, img)
    PROVE  Calm(i)'
<1>1. ui'[i] = s /\ mem'[i] = img /\ pc'[i] = "idle"
  BY FinishMoves
<1>2. CalmScreen(i)' /\ CalmWork(i)'
  BY <1>1 DEF EndsInStep, CalmScreen, CalmWork, OpeningPCs
<1>3. CalmDisk(i)'
  BY <1>1 DEF EndsInStep, CalmDisk, Open
<1>4. QED
  BY <1>2, <1>3 DEF Calm

(* A handler that leaves the disk alone and is back on a screen outside the  *)
(* vault, or goes on without an image.                                       *)
LEMMA CalmEnd ==
    ASSUME ProcOK, NEW i \in Instances, Calm(i), vault # NoVault, ~secretFile, UNCHANGED disk,
           pc[i] \notin {"createTotp", "migrateSave", "modeSave", "modeClean"},
           NEW s \in {"locked", "daily", "unopenable", "cannotOpen"}, NEW img, Finish(i, s, img)
    PROVE  Calm(i)'
  BY FinishCalm DEF EndsInStep, disk, Calm, CalmDisk

LEMMA CalmOpened ==
    ASSUME ProcOK, NEW i \in Instances, Calm(i), vault # NoVault, ~secretFile, UNCHANGED disk,
           pc[i] \notin {"createTotp", "migrateSave", "modeSave", "modeClean"},
           NEW s \in {"menu", "prompt"}, Finish(i, s, vault)
    PROVE  Calm(i)'
  BY FinishCalm DEF EndsInStep, disk, Calm, CalmDisk, SameSlots

LEMMA CalmGoesOn ==
    ASSUME ProcOK, NEW i \in Instances, Calm(i), vault # NoVault, UNCHANGED disk, ~secretFile,
           pc[i] \notin {"createTotp", "migrateSave", "modeSave", "modeClean"},
           ui[i] \in {"starting", "locked", "daily"}, NEW img, NEW d,
           NEW l \in {"resolveOpen", "codeAccepted", "codeRefused", "codeOpen", "reconcile",
                      "recordCheck"},
           l \in {"reconcile", "recordCheck"} => vault = img /\ vault.dev # NoKey,
           l \in {"codeAccepted", "codeRefused", "recordCheck"} => d = entry,
           Proceed(i, l, img, d)
    PROVE  Calm(i)'
<1>1. ui'[i] = ui[i] /\ mem'[i] = mem[i] /\ pc'[i] = l /\ work'[i] = img /\ held'[i] = d
  BY ProceedMoves
<1>2. CalmScreen(i)'
  BY <1>1 DEF disk, Calm, CalmScreen, OpeningPCs
<1>3. CalmWork(i)'
  BY <1>1 DEF disk, CalmWork
<1>4. CalmDisk(i)'
  BY <1>1 DEF disk, Calm, CalmDisk, Open
<1>5. QED
  BY <1>2, <1>3, <1>4 DEF Calm

(* Launch and every lock: decided from what is on disk.                      *)
LEMMA CalmResolve ==
    ASSUME DiskOK, ProcOK, NEW i \in Instances, Calm(i), pc[i] = "idle", Resolve(i),
           UNCHANGED disk, vault = NoVault => entry = NoEntry,
           vault # NoVault /\ vault.pw = LegacySecret => secretFile
    PROVE  Calm(i)'
<1>1. CASE \E s \in {"migrate", "setup", "locked"} :
             /\ Finish(i, s, NoImage)
             /\ s = "migrate" <=> secretFile
             /\ s = "setup" <=> ~secretFile /\ vault = NoVault
  BY <1>1, FinishCalm DEF EndsInStep, disk, Calm, CalmScreen, CalmDisk
<1>2. CASE /\ ~secretFile /\ vault # NoVault
           /\ ui'   = [ui   EXCEPT ![i] = "starting"]
           /\ pc'   = [pc   EXCEPT ![i] = "resolveEntry"]
  <2>1. ui'[i] = "starting" /\ pc'[i] = "resolveEntry"
    BY <1>2 DEF ProcOK
  <2>2. QED
    BY <1>2, <2>1 DEF disk, OpeningPCs, Calm, CalmScreen, CalmWork, CalmDisk, Open
<1>3. QED
  BY <1>1, <1>2 DEF Resolve, Calm, CalmScreen, OpeningPCs

LEMMA CalmUnlock ==
    ASSUME DiskOK, ProcOK, ImagesInHand, Steady, NEW i \in Instances, Calm(i),
           NEW p \in Passwords, TryUnlock(i, p)
    PROVE  Calm(i)'
<1>1. /\ vault # NoVault /\ vault \in Images /\ ~secretFile /\ ~Open(i) /\ pc[i] = "idle"
      /\ ui[i] = "locked" /\ UNCHANGED <<entry, secretFile>>
  BY DEF DiskOK, TryUnlock, Idle, Calm, CalmScreen, Open
<1>2. ~SaveFails
  BY DEF Steady, SaveFails
<1>3. CASE UNCHANGED vault /\ \E s \in {"locked", "cannotOpen"} : \E img : Finish(i, s, img)
  BY <1>1, <1>3, CalmEnd DEF disk
<1>4. CASE UNCHANGED vault /\ EnterUnlocked(i, vault)
  BY <1>1, <1>4, CalmOpened DEF disk, EnterUnlocked
<1>5. CASE UNCHANGED vault /\ vault.dev # NoKey /\ Proceed(i, "reconcile", vault, NoEntry)
  BY <1>1, <1>5, CalmGoesOn DEF disk
<1>6. CASE vault' = [vault EXCEPT !.v1 = FALSE] /\ EnterUnlocked(i, vault')
  <2>1. vault' \in Images /\ vault' # NoVault
    BY <1>1, <1>6, ImageUpdates, Fields
  <2>2. SameSlots(vault', vault)
    BY <1>1, <1>6 DEF SameSlots, Images
  <2>3. \E s \in {"menu", "prompt"} : Finish(i, s, vault')
    BY <1>6 DEF EnterUnlocked
  <2>4. InStep(entry, vault', secretFile) /\ vault'.pw # LegacySecret
    BY <1>1, <2>2 DEF Calm, CalmDisk, SameSlots, InStep, Pairs
  <2>5. QED
    BY <1>1, <2>1, <2>3, <2>4, FinishCalm DEF EndsInStep, SameSlots
<1>7. QED
  BY <1>1, <1>2, <1>3, <1>4, <1>5, <1>6 DEF TryUnlock, Return

(* The handlers of the menu that save at once: the same device slot as       *)
(* before, and never the old secret.                                         *)
LEMMA CalmSave ==
    ASSUME DiskOK, ProcOK, NEW i \in Instances, Calm(i), Idle(i, {"menu"}),
           NEW img \in Images, vault' = img, Finish(i, "menu", img),
           UNCHANGED <<entry, secretFile>>,
           img.dev = mem[i].dev, img.totp = mem[i].totp, img.pw # LegacySecret
    PROVE  Calm(i)'
<1>1. vault # NoVault /\ SameSlots(mem[i], vault) /\ InStep(entry, vault, secretFile)
  BY DEF Idle, Calm, CalmScreen, CalmDisk, Open
<1>2. vault' # NoVault /\ InStep(entry, vault', secretFile)
  BY <1>1, Fields DEF SameSlots, InStep, Pairs
<1>3. secretFile \in BOOLEAN
  BY DEF DiskOK
<1>4. QED
  BY <1>2, <1>3, FinishCalm DEF EndsInStep, SameSlots

LEMMA CalmMenu ==
    ASSUME DiskOK, ProcOK, ImagesInHand, Steady, NEW i \in Instances, Calm(i),
           \/ \E e \in Edits : Edit(i, e)
           \/ \E p \in Passwords : ChangePassword(i, p)
    PROVE  Calm(i)'
<1>1. Idle(i, {"menu"}) /\ mem[i] \in Images /\ mem[i].pw # LegacySecret
  <2>1. Idle(i, {"menu"})
    BY DEF Edit, ChangePassword
  <2>2. mem[i] \in Images /\ SameSlots(mem[i], vault) /\ vault # NoVault /\ ui[i] = "menu"
    BY <2>1, Here DEF Idle, Calm, CalmScreen, CalmDisk, Open
  <2>3. QED
    BY <2>1, <2>2 DEF Calm, CalmDisk, SameSlots
<1>2. ~SaveFails
  BY DEF Steady, SaveFails
<1>3. ASSUME NEW e \in Edits, Edit(i, e) PROVE Calm(i)'
  <2> DEFINE changed == [mem[i] EXCEPT !.edits = @ \cup {e}]
  <2>1. changed \in Images
    BY <1>1, ImageUpdates
  <2>2. changed.dev = mem[i].dev /\ changed.totp = mem[i].totp /\ changed.pw = mem[i].pw
    BY <1>1 DEF Images
  <2>3. vault' = changed /\ Finish(i, "menu", changed) /\ UNCHANGED <<entry, secretFile>>
    BY <1>2, <1>3 DEF Edit, Commit
  <2> HIDE DEF changed
  <2>4. QED
    BY <1>1, <2>1, <2>2, <2>3, CalmSave
<1>4. ASSUME NEW p \in Passwords, ChangePassword(i, p) PROVE Calm(i)'
  <2> DEFINE changed == [mem[i] EXCEPT !.pw = p]
  <2>1. changed \in Images
    BY <1>1, ImageUpdates, SecretsType
  <2>2. changed.dev = mem[i].dev /\ changed.totp = mem[i].totp /\ changed.pw = p
    BY <1>1 DEF Images
  <2>3. vault' = changed /\ Finish(i, "menu", changed) /\ UNCHANGED <<entry, secretFile>>
    BY <1>2, <1>4 DEF ChangePassword, Commit
  <2> HIDE DEF changed
  <2>4. QED
    BY <1>1, <2>1, <2>2, <2>3, CalmSave, ConstantsAssumption
<1>5. QED
  BY <1>3, <1>4

LEMMA CalmMode ==
    ASSUME DiskOK, ProcOK, ImagesInHand, Steady, NEW i \in Instances, Calm(i),
           NEW p \in Passwords, NEW c \in Choices, ChangeMode(i, c, p)
    PROVE  Calm(i)'
<1>1. /\ ui[i] = "menu" /\ pc[i] = "idle" /\ mem[i] \in Images /\ vault # NoVault
      /\ SameSlots(mem[i], vault) /\ vault.pw # LegacySecret
      /\ UNCHANGED <<vault, secretFile>>
  BY Here DEF ChangeMode, Idle, Calm, CalmScreen, CalmDisk, Open
<1>2. ~WriteFails
  BY DEF Steady, WriteFails
<1>3. PICK k \in Keys \cup {NoKey} :
        /\ \E d : Proceed(i, "modeSave", NewSlots(i, c, p, k), d)
        /\ k # NoKey => entry' = [key |-> k, totp |-> WantsTotp(c)]
  BY <1>2, ConstantsAssumption DEF ChangeMode
<1>4. /\ ui'[i] = "menu" /\ mem'[i] = mem[i] /\ pc'[i] = "modeSave"
      /\ work'[i] = NewSlots(i, c, p, k)
  BY <1>1, <1>3, ProceedMoves
<1>5. /\ work'[i].dev = k /\ work'[i].totp = WantsTotp(c)
      /\ work'[i].pw = (IF c.pw THEN p ELSE mem[i].pw)
  BY <1>1, <1>4 DEF NewSlots, Images
<1>6. work'[i].pw # LegacySecret
  BY <1>1, <1>5, ConstantsAssumption DEF SameSlots
<1>7. k # NoKey => entry' # NoEntry /\ entry'.key = k /\ entry'.totp = WantsTotp(c)
  BY <1>3, Fields
<1>8. CalmScreen(i)'
  BY <1>1, <1>4 DEF Calm, CalmScreen, OpeningPCs
<1>9. CalmWork(i)'
  BY <1>4, <1>5, <1>6, <1>7 DEF CalmWork, Pairs
<1>10. CalmDisk(i)'
  BY <1>1, <1>4 DEF CalmDisk, Open, Calm
<1>11. QED
  BY <1>8, <1>9, <1>10 DEF Calm

LEMMA CalmCreate ==
    ASSUME DiskOK, ProcOK, Steady, NEW i \in Instances, Calm(i),
           NEW p \in Passwords, NEW c \in Choices, CreateVault(i, c, p)
    PROVE  Calm(i)'
<1>1. /\ ui[i] = "setup" /\ pc[i] = "idle" /\ vault = NoVault /\ entry = NoEntry /\ ~secretFile
      /\ UNCHANGED <<vault, secretFile>>
  BY DEF CreateVault, Idle, Calm, CalmScreen, CalmDisk
<1>2. ~WriteFails
  BY DEF Steady, WriteFails
<1>3. PICK k \in Keys \cup {NoKey} :
        /\ \E d : Proceed(i, "createInit", NewVault(c, p, k), d)
        /\ IF k = NoKey THEN entry' = entry ELSE entry' = [key |-> k, totp |-> WantsTotp(c)]
  BY <1>2, ConstantsAssumption DEF CreateVault
<1>4. ui'[i] = "setup" /\ pc'[i] = "createInit" /\ work'[i] = NewVault(c, p, k)
  BY <1>1, <1>3, ProceedMoves
<1>5. /\ work'[i].dev = k /\ work'[i].totp = WantsTotp(c)
      /\ work'[i].pw = (IF c.pw THEN p ELSE NoSecret)
  BY <1>4 DEF NewVault
<1>6. work'[i].pw # LegacySecret
  BY <1>5, ConstantsAssumption
<1>7. Pairs(entry', work'[i])
  <2>1. CASE k = NoKey
    BY <1>1, <1>3, <1>5, <2>1 DEF Pairs
  <2>2. CASE k # NoKey
    <3>1. entry' # NoEntry /\ entry'.key = k /\ entry'.totp = WantsTotp(c)
      BY <1>3, <2>2, Fields
    <3>2. QED
      BY <1>5, <2>2, <3>1 DEF Pairs
  <2>3. QED
    BY <2>1, <2>2
<1>8. CalmScreen(i)'
  BY <1>1, <1>4 DEF CalmScreen, OpeningPCs
<1>9. CalmWork(i)'
  BY <1>4, <1>6, <1>7 DEF CalmWork
<1>10. CalmDisk(i)'
  BY <1>1, <1>4 DEF CalmDisk, Open
<1>11. QED
  BY <1>8, <1>9, <1>10 DEF Calm

(* The migration, from the old secret to the removal of its file.            *)
LEMMA CalmMigrateLoad ==
    ASSUME DiskOK, ProcOK, Steady, NEW i \in Instances, Calm(i), lock \in {Nobody, i},
           NEW p \in Passwords, MigrateLoad(i, p)
    PROVE  Calm(i)'
<1> DEFINE image == [vault EXCEPT !.v1 = FALSE]
           target == [image EXCEPT !.pw = p, !.dev = NoKey, !.totp = TRUE]
<1>1. /\ ui[i] = "migrate" /\ pc[i] = "idle" /\ secretFile /\ vault # NoVault /\ vault \in Images
      /\ UNCHANGED <<entry, secretFile>>
  BY DEF DiskOK, MigrateLoad, Idle, Calm, CalmScreen, OpeningPCs
<1>2. ~SaveFails
  BY DEF Steady, SaveFails
<1>3. CASE UNCHANGED vault /\ MigrateFails(i)
  <2>1. ui'[i] = "migrate" /\ pc'[i] = "migrateUndo"
    BY <1>1, <1>3, ProceedMoves DEF MigrateFails
  <2>2. QED
    BY <1>1, <1>3, <2>1 DEF OpeningPCs, Calm, CalmScreen, CalmWork, CalmDisk, Open
<1>4. CASE vault' = image /\ vault.pw = LegacySecret /\ Proceed(i, "migrateEntry", target, NoEntry)
  <2>1. ui'[i] = "migrate" /\ pc'[i] = "migrateEntry" /\ work'[i] = target
    BY <1>1, <1>4, ProceedMoves
  <2>2. image \in Images /\ image # NoVault
    BY <1>1, ImageUpdates, Fields
  <2>3. image.pw = vault.pw /\ image.dev = vault.dev /\ image.totp = vault.totp
    BY <1>1 DEF Images
  <2>4. target.pw = p /\ target.dev = NoKey /\ target.totp = TRUE
    <3> HIDE DEF image
    <3>1. QED
      BY <2>2 DEF Images
  <2> HIDE DEF image, target
  <2>5. vault.dev = NoKey /\ InStep(entry, vault, secretFile)
    BY <1>1, <1>4 DEF Calm, CalmDisk
  <2>6. CalmScreen(i)'
    BY <1>1, <1>4, <2>1, <2>2 DEF CalmScreen, OpeningPCs
  <2>7. CalmWork(i)'
    BY <1>4, <2>1, <2>3, <2>4, <2>5, ConstantsAssumption DEF CalmWork
  <2>8. CalmDisk(i)'
    BY <1>1, <1>4, <2>1, <2>2, <2>3, <2>5 DEF CalmDisk, InStep, Pairs, Open
  <2>9. QED
    BY <2>6, <2>7, <2>8 DEF Calm
<1>5. QED
  BY <1>1, <1>2, <1>3, <1>4 DEF MigrateLoad, InUse, PasswordOpens

LEMMA CalmKey ==
    ASSUME DiskOK, ProcOK, ImagesInHand, Steady, NEW i \in Instances, Calm(i), Instances = {i},
           Key(i)
    PROVE  Calm(i)'
<1>1. lock \in {Nobody, i}
  BY DEF DiskOK
<1>2. CASE Launch(i) \/ Lock(i)
  BY <1>2, CalmResolve DEF Launch, Lock, Idle, Calm, CalmDisk
<1>3. CASE Quit(i)
  <2>1. EndsInStep("off", NoImage)
    BY <1>3 DEF Quit, Exit, Idle, EndsInStep, disk, Calm, CalmScreen, CalmDisk
  <2>2. QED
    BY <1>3, <2>1, FinishCalm DEF Quit, Exit
<1>4. CASE PromptAccept(i)
  <2>1. EndsInStep("menu", mem[i])
    BY <1>4 DEF PromptAccept, Idle, EndsInStep, disk, Calm, CalmScreen, CalmDisk, Open
  <2>2. QED
    BY <1>4, <2>1, FinishCalm DEF PromptAccept
<1>5. CASE SubmitCode(i)
  <2>1. /\ UNCHANGED disk /\ ui[i] = "daily" /\ pc[i] = "idle" /\ vault # NoVault /\ ~secretFile
        /\ \/ Finish(i, "locked", NoImage)
           \/ \E l \in {"codeAccepted", "codeRefused"} : Proceed(i, l, NoImage, entry)
    BY <1>5, SentinelsAssumption DEF SubmitCode, Idle, EntryReads, Calm, CalmScreen
  <2>2. QED
    BY <2>1, CalmEnd, CalmGoesOn
<1>6. QED
  BY <1>1, <1>2, <1>3, <1>4, <1>5, CalmUnlock, CalmMenu, CalmMode, CalmCreate, CalmMigrateLoad
     DEF Key

(* The steps of the handlers that open a vault: nothing on disk changes, the *)
(* counters of the entry apart.                                              *)
LEMMA CalmOpening ==
    ASSUME DiskOK, ProcOK, ImagesInHand, Steady, NEW i \in Instances, Calm(i), lock \in {Nobody, i},
           \/ ResolveEntry(i) \/ ResolveOpen(i) \/ Reconcile(i) \/ RecordCheck(i)
           \/ CodeAccepted(i) \/ CodeRefused(i) \/ CodeOpen(i)
    PROVE  Calm(i)'
<1>1. ~WriteFails
  BY DEF Steady, WriteFails
<1>2. pc[i] \in OpeningPCs =>
         /\ ui[i] \in {"starting", "locked", "daily"} /\ vault # NoVault /\ ~secretFile
         /\ InStep(entry, vault, secretFile)
  BY DEF Calm, CalmScreen, CalmDisk, OpeningPCs
<1>3. CASE ResolveEntry(i)
  <2>1. /\ UNCHANGED disk /\ pc[i] = "resolveEntry"
        /\ \/ \E s \in {"locked", "unopenable", "daily"} : Finish(i, s, NoImage)
           \/ \E d : Proceed(i, "resolveOpen", work[i], d)
    BY <1>3 DEF ResolveEntry, LockedOut
  <2>2. QED
    BY <1>2, <2>1, CalmEnd, CalmGoesOn DEF OpeningPCs
<1>4. CASE ResolveOpen(i)
  <2>1. /\ UNCHANGED disk /\ pc[i] = "resolveOpen"
        /\ \/ \E s \in {"cannotOpen", "locked", "unopenable"} : Finish(i, s, NoImage)
           \/ \E s \in {"menu", "prompt"} : Finish(i, s, vault)
    BY <1>4 DEF ResolveOpen, EnterUnlocked, LoadedImage, LockedOut
  <2>2. QED
    BY <1>2, <2>1, CalmEnd, CalmOpened DEF OpeningPCs
<1>5. CASE Reconcile(i)
  <2>1. pc[i] = "reconcile" /\ vault = work[i] /\ vault.dev # NoKey
    BY <1>5 DEF Reconcile, Calm, CalmWork
  <2>2. entry # NoEntry
    BY <1>2, <2>1 DEF OpeningPCs, InStep, Pairs
  <2>3. /\ UNCHANGED disk
        /\ \/ EnterUnlocked(i, vault)
           \/ Proceed(i, "recordCheck", vault, entry)
    BY <1>5, <2>1, <2>2, SentinelsAssumption DEF Reconcile, EntryReads, Enrolled, disk
  <2>4. QED
    BY <1>2, <2>1, <2>3, CalmOpened, CalmGoesOn DEF OpeningPCs, EnterUnlocked
<1>6. CASE RecordCheck(i)
  <2>1. /\ pc[i] = "recordCheck" /\ vault = work[i] /\ UNCHANGED disk
        /\ EnterUnlocked(i, vault)
    BY <1>1, <1>6 DEF RecordCheck, Calm, CalmWork, disk
  <2>2. QED
    BY <1>2, <2>1, CalmOpened DEF OpeningPCs, EnterUnlocked
<1>7. CASE CodeAccepted(i) \/ CodeRefused(i)
  <2>1. /\ pc[i] \in {"codeAccepted", "codeRefused"} /\ UNCHANGED disk
        /\ \/ \E s \in {"locked", "daily"} : Finish(i, s, NoImage)
           \/ Proceed(i, "codeOpen", NoImage, held[i])
    BY <1>1, <1>7 DEF CodeAccepted, CodeRefused, Calm, CalmWork, disk
  <2>2. QED
    BY <1>2, <2>1, CalmEnd, CalmGoesOn DEF OpeningPCs
<1>8. CASE CodeOpen(i)
  <2>1. /\ UNCHANGED disk /\ pc[i] = "codeOpen"
        /\ \/ \E s \in {"cannotOpen", "daily"} : Finish(i, s, NoImage)
           \/ Finish(i, "menu", vault)
    BY <1>8 DEF CodeOpen
  <2>2. QED
    BY <1>2, <2>1, CalmEnd, CalmOpened DEF OpeningPCs
<1>9. QED
  BY <1>3, <1>4, <1>5, <1>6, <1>7, <1>8

LEMMA CalmCreating ==
    ASSUME DiskOK, ProcOK, ImagesInHand, Steady, NEW i \in Instances, Calm(i), lock \in {Nobody, i},
           CreateInit(i) \/ CreateTotp(i) \/ CreateUndo(i)
    PROVE  Calm(i)'
<1>1. ~SaveFails
  BY DEF Steady, SaveFails
<1>2. ASSUME ui[i] = "setup", ~secretFile', vault' \in Images, UNCHANGED entry,
             Pairs(entry, work[i]), work[i].pw # LegacySecret,
             SameSlots(vault', work[i]), Finish(i, "menu", work[i])
      PROVE  Calm(i)'
  <2>1. EndsInStep("menu", work[i])
    BY <1>2, Fields DEF EndsInStep, InStep, Pairs, SameSlots
  <2>2. QED
    BY <1>2, <2>1, FinishCalm
<1>3. CASE CreateInit(i)
  <2>1. /\ pc[i] = "createInit" /\ vault = NoVault /\ ui[i] = "setup" /\ ~secretFile
        /\ Pairs(entry, work[i]) /\ work[i].pw # LegacySecret /\ work[i] \in Images
    BY <1>3, Here, Labels DEF CreateInit, Calm, CalmScreen, CalmWork
  <2>2. /\ vault' = [work[i] EXCEPT !.totp = FALSE] /\ UNCHANGED <<entry, secretFile>>
        /\ IF work[i].totp THEN Proceed(i, "createTotp", work[i], held[i])
                           ELSE Finish(i, "menu", work[i])
    BY <1>1, <1>3 DEF CreateInit, InUse
  <2>3. /\ vault' \in Images /\ vault' # NoVault
    BY <2>1, <2>2, ImageUpdates, Fields
  <2>4. vault'.pw = work[i].pw /\ vault'.dev = work[i].dev /\ vault'.totp = FALSE
    BY <2>1, <2>2 DEF Images
  <2>5. CASE work[i].totp
    <3>1. ui'[i] = ui[i] /\ pc'[i] = "createTotp" /\ work'[i] = work[i]
      BY <2>2, <2>5, ProceedMoves
    <3>2. QED
      BY <2>1, <2>2, <2>3, <2>4, <3>1
         DEF OpeningPCs, Calm, CalmScreen, CalmWork, CalmDisk, Open
  <2>6. CASE ~work[i].totp
    <3>1. SameSlots(vault', work[i])
      BY <2>1, <2>4, <2>6, Fields DEF SameSlots
    <3>2. QED
      BY <1>2, <2>1, <2>2, <2>3, <2>6, <3>1
  <2>7. QED
    BY <2>5, <2>6
<1>4. CASE CreateTotp(i)
  <2>1. /\ pc[i] = "createTotp" /\ work[i] \in Images /\ ui[i] = "setup" /\ ~secretFile
        /\ Pairs(entry, work[i]) /\ work[i].pw # LegacySecret
    BY <1>4, Here, Labels DEF CreateTotp, Calm, CalmScreen, CalmWork
  <2>2. vault' = work[i] /\ Finish(i, "menu", work[i]) /\ UNCHANGED <<entry, secretFile>>
    BY <1>1, <1>4 DEF CreateTotp
  <2>3. QED
    BY <1>2, <2>1, <2>2 DEF SameSlots
<1>5. QED
  BY <1>3, <1>4 DEF CreateUndo, Calm, CalmScreen

LEMMA CalmMigrating ==
    ASSUME DiskOK, ProcOK, ImagesInHand, Steady, NEW i \in Instances, Calm(i),
           MigrateEntry(i) \/ MigrateSave(i) \/ MigrateDiscard(i) \/ MigrateUndo(i)
    PROVE  Calm(i)'
<1>1. ~WriteFails /\ ~SaveFails /\ "entryDelete" \notin Faults
  BY DEF Steady, WriteFails, SaveFails
<1>2. pc[i] \in {"migrateEntry", "migrateSave", "migrateDiscard", "migrateUndo"}
  BY DEF MigrateEntry, MigrateSave, MigrateDiscard, MigrateUndo
<1>3. secretFile /\ ui[i] = "migrate" /\ vault # NoVault /\ vault \in Images
  BY <1>2 DEF DiskOK, Calm, CalmScreen
<1>4. pc[i] \in {"migrateEntry", "migrateSave", "migrateDiscard"} =>
         work[i] \in Images /\ work[i].pw # LegacySecret
  BY Here, Labels DEF Calm, CalmWork
<1>5. CASE MigrateEntry(i)
  <2>1. /\ pc[i] = "migrateEntry" /\ vault.dev = NoKey /\ work[i].dev = NoKey /\ work[i].totp
        /\ entry = NoEntry
    BY <1>3, <1>5 DEF MigrateEntry, Calm, CalmWork, CalmDisk, InStep, Pairs
  <2>2. PICK k \in Keys \cup {NoKey} :
          /\ \E d : Proceed(i, "migrateSave", IF k = NoKey THEN work[i] ELSE [work[i] EXCEPT !.dev = k], d)
          /\ IF k = NoKey THEN entry' = entry ELSE entry' = [key |-> k, totp |-> TRUE]
          /\ UNCHANGED <<vault, secretFile>>
    BY <1>1, <1>5, ConstantsAssumption DEF MigrateEntry
  <2>3. /\ ui'[i] = ui[i] /\ pc'[i] = "migrateSave"
        /\ work'[i] = IF k = NoKey THEN work[i] ELSE [work[i] EXCEPT !.dev = k]
    BY <2>2, ProceedMoves
  <2>4. work'[i].dev = k /\ work'[i].totp = TRUE /\ work'[i].pw = work[i].pw
    BY <1>4, <2>1, <2>3, Fields DEF Images
  <2>5. Pairs(entry', work'[i])
    <3>1. CASE k = NoKey
      BY <2>1, <2>2, <2>4, <3>1 DEF Pairs
    <3>2. CASE k # NoKey
      <4>1. entry' = [key |-> k, totp |-> TRUE] /\ k \in Keys
        BY <2>2, <3>2
      <4>2. entry' # NoEntry
        <5>1. [key |-> k, totp |-> TRUE] \in Entries
          BY <4>1 DEF Entries
        <5>2. QED
          BY <4>1, <5>1, SentinelsAssumption
      <4>3. QED
        BY <2>4, <3>2, <4>1, <4>2 DEF Pairs
    <3>3. QED
      BY <3>1, <3>2
  <2>6. CalmScreen(i)' /\ CalmDisk(i)'
    BY <1>3, <2>1, <2>2, <2>3 DEF Calm, CalmScreen, CalmDisk, Open, OpeningPCs
  <2>7. CalmWork(i)'
    BY <1>4, <2>1, <2>2, <2>3, <2>4, <2>5 DEF CalmWork
  <2>8. QED
    BY <2>6, <2>7 DEF Calm
<1>6. CASE MigrateSave(i)
  <2>1. pc[i] = "migrateSave" /\ Pairs(entry, work[i])
    BY <1>6 DEF MigrateSave, Calm, CalmWork
  <2>2. /\ vault' = work[i] /\ Proceed(i, "migrateDiscard", work[i], NoEntry)
        /\ UNCHANGED <<entry, secretFile>>
    BY <1>1, <1>6 DEF MigrateSave
  <2>3. ui'[i] = ui[i] /\ pc'[i] = "migrateDiscard" /\ work'[i] = work[i]
    BY <2>2, ProceedMoves
  <2>4. vault' # NoVault /\ vault'.pw # LegacySecret
    BY <1>4, <2>1, <2>2, Fields
  <2>5. CalmScreen(i)' /\ CalmDisk(i)'
    BY <1>3, <2>1, <2>2, <2>3, <2>4 DEF CalmScreen, CalmDisk, InStep, Open, OpeningPCs
  <2>6. CalmWork(i)'
    BY <1>4, <2>1, <2>2, <2>3 DEF CalmWork
  <2>7. QED
    BY <2>5, <2>6 DEF Calm
<1>7. CASE MigrateDiscard(i)
  <2>1. pc[i] = "migrateDiscard" /\ vault = work[i] /\ Pairs(entry, work[i])
    BY <1>7 DEF MigrateDiscard, Calm, CalmWork
  <2>2. Finish(i, "menu", work[i]) /\ UNCHANGED <<vault, entry>>
    BY <1>7 DEF MigrateDiscard
  <2>3. EndsInStep("menu", work[i])
    BY <1>3, <1>4, <2>1, <2>2 DEF EndsInStep, InStep, SameSlots
  <2>4. QED
    BY <2>2, <2>3, FinishCalm
<1>8. CASE MigrateUndo(i)
  <2>1. entry' = NoEntry /\ UNCHANGED <<vault, secretFile>> /\ Finish(i, "migrate", mem[i])
    BY <1>1, <1>3, <1>8 DEF MigrateUndo, DeleteEntry, Return
  <2>2. EndsInStep("migrate", mem[i])
    BY <1>3, <2>1 DEF EndsInStep, InStep, Calm, CalmDisk
  <2>3. QED
    BY <2>1, <2>2, FinishCalm
<1>9. QED
  BY <1>5, <1>6, <1>7, <1>8

LEMMA CalmChanging ==
    ASSUME DiskOK, ProcOK, ImagesInHand, Steady, NEW i \in Instances, Calm(i),
           ModeSave(i) \/ ModeClean(i) \/ ModeUndo(i)
    PROVE  Calm(i)'
<1>1. ~SaveFails /\ "entryDelete" \notin Faults
  BY DEF Steady, SaveFails
<1>2. pc[i] \in {"modeSave", "modeClean"}
  BY DEF ModeSave, ModeClean, ModeUndo, Calm, CalmScreen
<1>3. ui[i] = "menu" /\ vault # NoVault /\ work[i] \in Images
  BY <1>2, Here, Labels DEF Calm, CalmScreen
<1>4. CASE ModeSave(i)
  <2>1. /\ pc[i] = "modeSave" /\ work[i].pw # LegacySecret
        /\ work[i].dev # NoKey => Pairs(entry, work[i])
    BY <1>4 DEF ModeSave, Calm, CalmWork
  <2>2. /\ vault' = work[i] /\ UNCHANGED <<entry, secretFile>>
        /\ IF work[i].dev # NoKey THEN Finish(i, "menu", work[i])
                                  ELSE Proceed(i, "modeClean", work[i], NoEntry)
    BY <1>1, <1>4 DEF ModeSave, Commit
  <2>3. vault' # NoVault /\ vault'.pw # LegacySecret
    BY <1>3, <2>1, <2>2, Fields
  <2>4. CASE work[i].dev # NoKey
    <3>1. EndsInStep("menu", work[i])
      BY <2>1, <2>2, <2>3, <2>4 DEF EndsInStep, InStep, SameSlots
    <3>2. QED
      BY <2>2, <2>4, <3>1, FinishCalm
  <2>5. CASE work[i].dev = NoKey
    <3>1. ui'[i] = ui[i] /\ pc'[i] = "modeClean" /\ work'[i] = work[i]
      BY <2>2, <2>5, ProceedMoves
    <3>2. QED
      BY <1>3, <2>2, <2>3, <2>5, <3>1
         DEF Calm, CalmScreen, CalmWork, CalmDisk, Open, OpeningPCs
  <2>6. QED
    BY <2>4, <2>5
<1>5. CASE ModeClean(i)
  <2>1. vault = work[i] /\ vault.dev = NoKey
    BY <1>5 DEF ModeClean, Calm, CalmWork
  <2>2. entry' = NoEntry /\ UNCHANGED <<vault, secretFile>> /\ Finish(i, "menu", work[i])
    BY <1>1, <1>5 DEF ModeClean, DeleteEntry, Commit
  <2>3. EndsInStep("menu", work[i])
    BY <1>3, <2>1, <2>2 DEF EndsInStep, InStep, Pairs, SameSlots, Calm, CalmDisk
  <2>4. QED
    BY <2>2, <2>3, FinishCalm
<1>6. QED
  BY <1>2, <1>4, <1>5 DEF ModeUndo

LEMMA CalmNext ==
    ASSUME TypeInv, Steady, NEW self, Instances = {self}, CalmInv, [Next]_vars
    PROVE  CalmInv'
<1>1. DiskOK /\ ProcOK /\ ImagesInHand
  BY DEF TypeInv, TypeOK, DiskOK, ProcOK
<1>2. Calm(self) /\ (Calm(self)' => CalmInv')
  BY DEF CalmInv
<1>3. CASE UNCHANGED vars
  BY <1>3 DEF vars, disk, proc, CalmInv, Calm, CalmScreen, CalmWork, CalmDisk, Open
<1>4. ASSUME EntryLost \/ Crash(self) PROVE FALSE
  BY <1>4 DEF EntryLost, Crash, Steady
<1>5. lock \in {Nobody, self}
  BY <1>1 DEF DiskOK
<1>6. CASE Step(self)
  <2>1. ASSUME ReenrolSave(self) \/ ReenrolUndo(self) PROVE FALSE
    BY <1>2, <2>1 DEF ReenrolSave, ReenrolUndo, Calm, CalmScreen
  <2>2. QED
    BY <1>1, <1>2, <1>5, <1>6, <2>1, CalmOpening, CalmCreating, CalmMigrating, CalmChanging DEF Step
<1>7. QED
  BY <1>1, <1>2, <1>3, <1>4, <1>6, CalmKey DEF Next

LEMMA CalmInit ==
    FreshInit \/ ExistingInit => CalmInv
<1>1. FreshInit => CalmInv
  BY DEF FreshInit, Init, CalmInv, Calm, CalmScreen, CalmWork, CalmDisk, OpeningPCs, Open
<1>2. ASSUME ExistingInit PROVE CalmInv
  <2>1. vault \in Images /\ vault # NoVault
    BY <1>2, Fields DEF ExistingInit
  <2>2. Pairs(entry, vault)
    BY <1>2, <2>1, Fields, SentinelsAssumption DEF ExistingInit, Pairs, Entries
  <2>3. vault.pw = LegacySecret <=> secretFile
    BY <1>2 DEF ExistingInit
  <2>4. secretFile => vault.dev = NoKey
    BY <1>2 DEF ExistingInit
  <2>5. QED
    BY <1>2, <2>1, <2>2, <2>3, <2>4
       DEF ExistingInit, Init, CalmInv, Calm, CalmScreen, CalmWork, CalmDisk, InStep,
           OpeningPCs, Open
<1>3. QED
  BY <1>1, <1>2

(* EntryMatchesVault, for every choice of passwords, edits and keys and both *)
(* a first launch and a vault some earlier run left: a copy that runs alone, *)
(* whose writes succeed, leaves no handler (create_vault, try_unlock,        *)
(* migrate_totp_only, change_security_mode) with an entry the vault does not *)
(* know or a device slot the entry does not open.                            *)
THEOREM EntryStaysPaired ==
    ASSUME NEW self, Instances = {self}, Steady
    PROVE  Spec => []EntryMatchesVault
<1>1. TypeInv /\ CalmInv /\ [Next]_vars => CalmInv'
  BY CalmNext
<1>2. CalmInv => EntryMatchesVault
  BY DEF CalmInv, Calm, CalmDisk, InStep, Pairs, AtRest, EntryMatchesVault
<1>3. QED
  BY <1>1, <1>2, CalmInit, InitType, TypeStep, PTL DEF Spec

(* SlotsMatchDisk for the same copy, which also sets up and migrates.        *)
THEOREM SlotsStayEvenAlone ==
    ASSUME NEW self, Instances = {self}, Steady
    PROVE  Spec => []SlotsMatchDisk
<1>1. TypeInv /\ CalmInv /\ [Next]_vars => CalmInv'
  BY CalmNext
<1>2. CalmInv => SlotsMatchDisk
  BY DEF CalmInv, Calm, CalmDisk, SameSlots, SlotsMatchDisk
<1>3. QED
  BY <1>1, <1>2, CalmInit, InitType, TypeStep, PTL DEF Spec
=============================================================================
