--------------------------- MODULE TotpGateProofs ---------------------------
(***************************************************************************)
(* What TotpGate promises of its counters, for any number of copies, any   *)
(* limits and any bound of the clock, when writes of the entry succeed and *)
(* no two handlers change it at the same time.  Crashes, restarts, a lost  *)
(* entry and a clock that is set back are all allowed.                     *)
(***************************************************************************)
EXTENDS TotpGate, FiniteSetTheorems, TLAPS

States == [replay : Nat, failures : Nat, checked : Nat]
Places == {"idle", "spend", "open", "replayed", "refused", "record", "enrol"}

Orderly == IsFiniteSet(Instances) /\ "race" \notin Faults /\ "write" \notin Faults

Typed ==
    /\ now \in Nat /\ entry \in States \cup {NoEntry}
    /\ screen \in [Instances -> {"off", "daily", "locked", "open"}]
    /\ pc \in [Instances -> Places] /\ held \in [Instances -> States \cup {NoEntry}]
    /\ spent \in SUBSET Nat /\ answers \in Nat

\* One handler at a time is between its read of the entry and its write.
Alone == \A i, j \in Instances : pc[i] # "idle" /\ pc[j] # "idle" => i = j

\* The stored step is the newest code the entry accepted.
Newest(s) == s.replay \in spent \cup {0} /\ \A c \in spent : c <= s.replay

InEntry == entry # NoEntry => entry.failures = answers /\ Newest(entry)

\* What a handler holds fits the history it will have once it is written.
HeldBy(i) ==
    /\ pc[i] # "idle" => held[i] \in States
    /\ pc[i] = "spend" => /\ held[i].failures = 0 /\ screen[i] = "daily"
                          /\ \A c \in spent : c < held[i].replay
    /\ pc[i] = "open" => answers = 0
    /\ pc[i] \in {"replayed", "refused"} => /\ held[i].failures = answers + 1
                                            /\ Newest(held[i]) /\ screen[i] = "daily"
    /\ pc[i] = "record" => held[i].failures = 0 /\ Newest(held[i])
    /\ pc[i] = "enrol" => held[i].failures = 0 /\ held[i].replay = 0
InHand == \A i \in Instances : HeldBy(i)

\* From the limit on, every wrong answer takes a code screen away and none
\* comes back.
Daily == {i \in Instances : screen[i] = "daily"}
Counted == answers >= MaxFailures =>
               answers + Cardinality(Daily) <= MaxFailures + Cardinality(Instances) - 1

IInv == Typed /\ Alone /\ InEntry /\ InHand /\ Counted

-----------------------------------------------------------------------------
\* The records.

LEMMA RefuseTyped ==
    ASSUME NEW s \in States, NEW c
    PROVE  /\ Refuse(c, s) \in States /\ Refuse(c, s).failures = s.failures + 1
           /\ Refuse(c, s).replay = s.replay
  BY DEF Refuse, States

LEMMA AcceptTyped ==
    ASSUME NEW s \in States, NEW c \in Nat
    PROVE  Accept(c, s) \in States /\ Accept(c, s).failures = 0 /\ Accept(c, s).replay = c
  BY DEF Accept, States

LEMMA CheckTyped ==
    ASSUME NEW s \in States, NEW t \in Nat
    PROVE  LET r == [s EXCEPT !.checked = t, !.failures = 0]
           IN r \in States /\ r.failures = 0 /\ r.replay = s.replay
  BY DEF States

LEMMA NewTyped ==
    ASSUME now \in Nat
    PROVE  NewState \in States /\ NewState.failures = 0 /\ NewState.replay = 0
  BY DEF NewState, States

-----------------------------------------------------------------------------
\* Counting the code screens.

LEMMA DailyFinite ==
    ASSUME Orderly
    PROVE  /\ IsFiniteSet(Daily) /\ Cardinality(Daily) \in Nat
           /\ Cardinality(Instances) \in Nat /\ Cardinality(Daily) <= Cardinality(Instances)
  <1>1. Daily \subseteq Instances
    BY DEF Daily
  <1> QED
    BY <1>1, FS_Subset, FS_CardinalityType DEF Orderly

\* A step that gives no code screen more and does not count an answer.
LEMMA NoMoreScreens ==
    ASSUME Orderly, Typed, Counted, Daily' \subseteq Daily, answers' \in {answers, 0}
    PROVE  Counted'
  <1>1. IsFiniteSet(Daily') /\ Cardinality(Daily') \in Nat /\ Cardinality(Daily') <= Cardinality(Daily)
    BY DailyFinite, FS_Subset, FS_CardinalityType
  <1> QED
    BY <1>1, DailyFinite, GateAssumption DEF Counted, Typed

\* An answer is counted and its copy's code screen goes.
LEMMA OneScreenLess ==
    ASSUME Orderly, Typed, Counted, NEW i \in Daily, Daily' = Daily \ {i}, answers' = answers + 1
    PROVE  Counted'
  <1>1. Cardinality(Daily') = Cardinality(Daily) - 1
    BY DailyFinite, FS_RemoveElement
  <1> QED
    BY <1>1, DailyFinite, GateAssumption DEF Counted, Typed

-----------------------------------------------------------------------------
\* The steps.

LEMMA Initially == Orderly /\ Init => IInv
  <1> SUFFICES ASSUME Orderly, Init PROVE IInv
    OBVIOUS
  <1>1. now \in Nat
    BY GateAssumption DEF Init
  <1>2. Typed
    BY <1>1, NewTyped, GateAssumption DEF Init, Typed, Places
  <1>3. Alone /\ InHand
    BY DEF Init, Alone, InHand, HeldBy
  <1>4. InEntry
    BY <1>1, NewTyped DEF Init, InEntry, Newest
  <1>5. Counted
    BY GateAssumption DEF Init, Counted
  <1> QED
    BY <1>2, <1>3, <1>4, <1>5 DEF IInv

\* Launch and Lock: a code screen only when the limit is not reached.
LEMMA ResolveStep ==
    ASSUME Orderly, IInv, NEW i \in Instances, Launch(i) \/ Lock(i)
    PROVE  IInv'
  <1> USE DEF IInv, Typed, Finish, Proceed, Resolve, history
  <1>1. pc[i] = "idle" /\ Resolve(i) /\ UNCHANGED <<now, entry, lock, history>>
    BY DEF Launch, Lock, Idle
  <1>2. Typed'
    BY <1>1 DEF Places
  <1>3. Alone' /\ InEntry'
    BY <1>1 DEF Alone, InEntry, Newest
  <1>4. InHand'
    BY <1>1 DEF InHand, HeldBy, Newest
  <1>5. Counted'
    <2>1. CASE Daily' \subseteq Daily
      BY <1>1, <2>1, NoMoreScreens
    <2>2. CASE ~(Daily' \subseteq Daily)
      <3>1. entry # NoEntry /\ ~MustEscalate(entry)
        BY <1>1, <2>2 DEF Daily
      <3>2. answers < MaxFailures
        BY <3>1, GateAssumption DEF MustEscalate, InEntry, States
      <3> QED
        BY <1>1, <3>2, GateAssumption DEF Counted
    <2> QED
      BY <2>1, <2>2
  <1> QED
    BY <1>2, <1>3, <1>4, <1>5

\* A code is judged: nothing but the handler's own place and state changes.
LEMMA SubmitStep ==
    ASSUME Orderly, IInv, NEW i \in Instances, NEW c \in Codes, Submit(i, c)
    PROVE  IInv'
  <1> USE DEF IInv, Typed, Finish, Proceed, history
  <1>1. /\ pc[i] = "idle" /\ screen[i] = "daily" /\ \A j \in Instances : pc[j] = "idle"
        /\ UNCHANGED <<now, entry, lock, history>>
    BY DEF Submit, Idle, MayStart, Orderly
  <1>2. c \in Nat
    BY GateAssumption DEF Codes
  <1>3. CASE entry = NoEntry /\ Finish(i, "locked")
    <2>1. Typed' /\ Alone' /\ InEntry' /\ InHand'
      BY <1>1, <1>3 DEF Places, Alone, InEntry, InHand, HeldBy, Newest
    <2>2. Daily' \subseteq Daily
      BY <1>3 DEF Daily
    <2> QED
      BY <1>1, <2>1, <2>2, NoMoreScreens
  <1>4. CASE /\ entry # NoEntry /\ UNCHANGED screen
             /\ \/ Fresh(c, entry) /\ Proceed(i, "spend", Accept(c, entry))
                \/ Proceed(i, "replayed", Refuse(c, entry))
                \/ Proceed(i, "refused", Refuse(c, entry))
    <2>1. entry \in States /\ Newest(entry) /\ entry.failures = answers
      BY <1>4 DEF InEntry
    <2>2. PICK l \in {"spend", "replayed", "refused"}, s \in States :
             /\ Proceed(i, l, s)
             /\ l = "spend" => s = Accept(c, entry) /\ Fresh(c, entry)
             /\ l # "spend" => s = Refuse(c, entry)
      BY <1>2, <1>4, <2>1, AcceptTyped, RefuseTyped
    <2>3. /\ pc' = [pc EXCEPT ![i] = l] /\ held' = [held EXCEPT ![i] = s]
          /\ pc'[i] = l /\ held'[i] = s /\ \A j \in Instances \ {i} : pc'[j] = "idle"
      BY <1>1, <2>2
    <2>4. Typed'
      BY <1>1, <1>4, <2>3 DEF Places
    <2>5. Alone' /\ InEntry'
      BY <1>1, <2>3 DEF Alone, InEntry, Newest
    <2>6. HeldBy(i)'
      <3>1. CASE l = "spend"
        <4>1. s.failures = 0 /\ s.replay = c /\ c > entry.replay
          BY <1>2, <2>1, <2>2, <3>1, AcceptTyped DEF Fresh
        <4>2. \A d \in spent : d < c
          BY <1>2, <2>1, <4>1 DEF Newest, States
        <4> QED
          BY <1>1, <1>4, <2>3, <3>1, <4>1, <4>2 DEF HeldBy
      <3>2. CASE l \in {"replayed", "refused"}
        <4>1. s.failures = answers + 1 /\ Newest(s)
          BY <2>1, <2>2, <3>2, RefuseTyped DEF Newest
        <4> QED
          BY <1>1, <1>4, <2>3, <3>2, <4>1 DEF HeldBy, Newest
      <3> QED
        BY <3>1, <3>2
    <2>7. InHand'
      BY <2>3, <2>6 DEF InHand, HeldBy
    <2>8. Counted'
      BY <1>1, <1>4, NoMoreScreens DEF Daily
    <2> QED
      BY <2>4, <2>5, <2>7, <2>8
  <1> QED
    BY <1>3, <1>4 DEF Submit

\* The accepted code is written: it is the newest, and the answers start again.
LEMMA SpendStep ==
    ASSUME Orderly, IInv, NEW i \in Instances, Spend(i)
    PROVE  IInv' /\ held[i].replay \notin spent
  <1> USE DEF IInv, Typed, Proceed
  <1>1. /\ held[i] \in States /\ held[i].failures = 0 /\ \A c \in spent : c < held[i].replay
        /\ held[i].replay \in Nat
    BY DEF Spend, InHand, HeldBy, States
  <1>2. /\ entry' = held[i] /\ pc' = [pc EXCEPT ![i] = "open"] /\ held' = [held EXCEPT ![i] = held[i]]
        /\ spent' = spent \cup {held[i].replay} /\ answers' = 0 /\ UNCHANGED <<now, lock, screen>>
    BY DEF Spend, WriteBack, Orderly
  <1>3. Typed'
    BY <1>1, <1>2 DEF Places
  <1>4. Alone' /\ \A j \in Instances \ {i} : pc'[j] = "idle"
    BY <1>2 DEF Spend, Alone
  <1>5. InEntry'
    BY <1>1, <1>2 DEF InEntry, Newest
  <1>6. InHand'
    BY <1>1, <1>2, <1>4 DEF InHand, HeldBy
  <1>7. Counted'
    BY <1>2, NoMoreScreens DEF Daily
  <1>8. held[i].replay \notin spent
    BY <1>1
  <1> QED
    BY <1>3, <1>4, <1>5, <1>6, <1>7, <1>8

LEMMA OpenVaultStep ==
    ASSUME Orderly, IInv, NEW i \in Instances, OpenVault(i)
    PROVE  IInv'
  <1> USE DEF IInv, Typed, Finish, Proceed, history
  <1>1. answers = 0
    BY DEF OpenVault, InHand, HeldBy
  <1>2. /\ pc' = [pc EXCEPT ![i] = "idle"] /\ held' = [held EXCEPT ![i] = NoEntry]
        /\ screen' \in {[screen EXCEPT ![i] = "daily"], [screen EXCEPT ![i] = "open"]}
        /\ UNCHANGED <<now, entry, history>>
    BY DEF OpenVault
  <1>3. Typed'
    BY <1>2 DEF Places
  <1>4. Alone' /\ \A j \in Instances : pc'[j] = "idle"
    BY <1>2 DEF OpenVault, Alone
  <1>5. InEntry' /\ InHand'
    BY <1>2, <1>4 DEF InEntry, InHand, HeldBy, Newest
  <1>6. Counted'
    BY <1>1, <1>2, GateAssumption DEF Counted
  <1> QED
    BY <1>3, <1>4, <1>5, <1>6

\* A refused code is counted, and from the limit on costs the code screen.
LEMMA RefusedStep ==
    ASSUME Orderly, IInv, NEW i \in Instances, Replayed(i) \/ Refused(i)
    PROVE  IInv'
  <1> USE DEF IInv, Typed, Finish, Proceed
  <1>1. /\ held[i] \in States /\ held[i].failures = answers + 1 /\ Newest(held[i])
        /\ screen[i] = "daily" /\ pc[i] # "idle"
    BY DEF Replayed, Refused, InHand, HeldBy
  <1>2. /\ entry' = held[i] /\ pc' = [pc EXCEPT ![i] = "idle"] /\ held' = [held EXCEPT ![i] = NoEntry]
        /\ answers' = answers + 1 /\ UNCHANGED <<now, lock, spent>>
        /\ \/ screen' = [screen EXCEPT ![i] = "locked"]
           \/ held[i].failures < MaxFailures /\ screen' = [screen EXCEPT ![i] = "daily"]
    BY <1>1, GateAssumption DEF Replayed, Refused, WriteBack, Orderly, States
  <1>3. Typed'
    BY <1>1, <1>2 DEF Places
  <1>4. Alone' /\ \A j \in Instances : pc'[j] = "idle"
    BY <1>1, <1>2 DEF Alone
  <1>5. InEntry' /\ InHand'
    BY <1>1, <1>2, <1>4 DEF InEntry, InHand, HeldBy, Newest
  <1>6. Counted'
    <2>1. CASE answers' < MaxFailures
      BY <1>3, <2>1, GateAssumption DEF Counted
    <2>2. CASE answers' >= MaxFailures
      <3>1. screen' = [screen EXCEPT ![i] = "locked"]
        BY <1>1, <1>2, <2>2, GateAssumption
      <3>2. i \in Daily /\ Daily' = Daily \ {i}
        BY <1>1, <3>1 DEF Daily
      <3> QED
        BY <1>2, <3>2, OneScreenLess
    <2> QED
      BY <1>3, <2>1, <2>2, GateAssumption
  <1> QED
    BY <1>3, <1>4, <1>5, <1>6

LEMMA PasswordUnlockStep ==
    ASSUME Orderly, IInv, NEW i \in Instances, PasswordUnlock(i)
    PROVE  IInv'
  <1> USE DEF IInv, Typed, Proceed, history
  <1>1. (\A j \in Instances : pc[j] = "idle") /\ UNCHANGED <<now, entry, screen, history>>
    BY DEF PasswordUnlock, MayStart, Orderly
  <1>2. PICK l \in {"record", "enrol"}, s \in States :
           /\ pc' = [pc EXCEPT ![i] = l] /\ held' = [held EXCEPT ![i] = s]
           /\ s.failures = 0
           /\ l = "record" => Newest(s)
           /\ l = "enrol" => s.replay = 0
    <2>1. CASE entry # NoEntry /\ Proceed(i, "record", [entry EXCEPT !.checked = now, !.failures = 0])
      <3>1. entry \in States /\ Newest(entry)
        BY <2>1 DEF InEntry
      <3>2. Newest([entry EXCEPT !.checked = now, !.failures = 0])
        BY <3>1, CheckTyped DEF Newest
      <3> QED
        BY <2>1, <3>1, <3>2, CheckTyped
    <2>2. CASE Proceed(i, "enrol", NewState)
      BY <2>2, NewTyped
    <2> QED
      BY <2>1, <2>2 DEF PasswordUnlock
  <1>3. pc'[i] = l /\ held'[i] = s /\ \A j \in Instances \ {i} : pc'[j] = "idle"
    BY <1>1, <1>2
  <1>4. Typed'
    BY <1>1, <1>2 DEF Places
  <1>5. Alone' /\ InEntry'
    BY <1>1, <1>3 DEF Alone, InEntry, Newest
  <1>6. InHand'
    <2>1. Newest(s)' = Newest(s) /\ answers' = answers
      BY <1>1 DEF Newest
    <2>2. HeldBy(i)'
      BY <1>2, <1>3, <2>1 DEF HeldBy
    <2> QED
      BY <1>3, <2>2 DEF InHand, HeldBy
  <1>7. Counted'
    BY <1>1, NoMoreScreens DEF Daily
  <1> QED
    BY <1>4, <1>5, <1>6, <1>7

\* The password was right, for the entry that was there or a new one.
LEMMA CheckedStep ==
    ASSUME Orderly, IInv, NEW i \in Instances, RecordCheck(i) \/ Enrol(i)
    PROVE  IInv'
  <1> USE DEF IInv, Typed, Finish, Proceed
  <1>1. /\ held[i] \in States /\ held[i].failures = 0 /\ pc[i] # "idle"
        /\ \/ Newest(held[i]) /\ spent' = spent
           \/ held[i].replay = 0 /\ spent' = {}
    BY DEF RecordCheck, Enrol, InHand, HeldBy
  <1>2. /\ entry' = held[i] /\ pc' = [pc EXCEPT ![i] = "idle"] /\ held' = [held EXCEPT ![i] = NoEntry]
        /\ answers' = 0 /\ screen' = [screen EXCEPT ![i] = "open"] /\ UNCHANGED now
    BY DEF RecordCheck, Enrol, WriteBack, Orderly
  <1>3. Typed'
    BY <1>1, <1>2 DEF Places
  <1>4. Alone' /\ \A j \in Instances : pc'[j] = "idle"
    BY <1>1, <1>2 DEF Alone
  <1>5. InEntry' /\ InHand'
    BY <1>1, <1>2, <1>4 DEF InEntry, InHand, HeldBy, Newest
  <1>6. Counted'
    BY <1>2, NoMoreScreens DEF Daily
  <1> QED
    BY <1>3, <1>4, <1>5, <1>6

\* The process ends: what was not written is lost, and the entry fits as before.
LEMMA ExitStep ==
    ASSUME Orderly, IInv, NEW i \in Instances, Exit(i)
    PROVE  IInv'
  <1> USE DEF IInv, Typed, Finish, Proceed, history
  <1>1. /\ pc' = [pc EXCEPT ![i] = "idle"] /\ held' = [held EXCEPT ![i] = NoEntry]
        /\ screen' = [screen EXCEPT ![i] = "off"] /\ UNCHANGED <<now, entry, history>>
    BY DEF Exit
  <1>2. Typed'
    BY <1>1 DEF Places
  <1>3. Alone' /\ InEntry'
    BY <1>1 DEF Alone, InEntry, Newest
  <1>4. InHand'
    BY <1>1 DEF InHand, HeldBy, Newest
  <1>5. Counted'
    BY <1>1, NoMoreScreens DEF Daily
  <1> QED
    BY <1>2, <1>3, <1>4, <1>5

\* The clock, in both directions, and the loss of the entry.
LEMMA OutsideStep ==
    ASSUME Orderly, IInv, Tick \/ ClockBack \/ EntryLost \/ UNCHANGED vars
    PROVE  IInv'
  <1> USE DEF IInv, Typed, handler, history, vars
  <1>1. /\ UNCHANGED <<screen, pc, held, spent, answers>> /\ entry' \in {entry, NoEntry}
        /\ now' \in Nat
    BY GateAssumption DEF Tick, ClockBack, EntryLost
  <1>2. Typed'
    BY <1>1
  <1>3. Alone' /\ InEntry'
    BY <1>1 DEF Alone, InEntry, Newest
  <1>4. InHand'
    BY <1>1 DEF InHand, HeldBy, Newest
  <1>5. Counted'
    BY <1>1, NoMoreScreens DEF Daily
  <1> QED
    BY <1>2, <1>3, <1>4, <1>5

\* The step that spends a code is Spend.
LEMMA OnlySpendSpends ==
    ASSUME Orderly, IInv, [Next]_vars, NEW i \in Instances, pc[i] = "spend", pc'[i] = "open"
    PROVE  Spend(i)
  <1> USE DEF IInv, Typed, Finish, Proceed
  <1>1. ASSUME NEW j \in Instances, Launch(j) \/ Lock(j) \/ Quit(j) \/ Crash(j) \/ OpenVault(j)
                    \/ Replayed(j) \/ Refused(j) \/ RecordCheck(j) \/ Enrol(j)
        PROVE  FALSE
    <2>1. pc' = [pc EXCEPT ![j] = "idle"]
      BY <1>1 DEF Launch, Lock, Resolve, Quit, Crash, Exit, OpenVault, Replayed, Refused, RecordCheck, Enrol
    <2> QED
      BY <2>1
  <1>2. ASSUME NEW j \in Instances, PasswordUnlock(j)
        PROVE  FALSE
    BY <1>2 DEF PasswordUnlock, MayStart, Orderly
  <1>3. ASSUME NEW j \in Instances, NEW c \in Codes, Submit(j, c)
        PROVE  FALSE
    BY <1>3 DEF Submit, MayStart, Orderly
  <1>4. ASSUME NEW j \in Instances, Spend(j)
        PROVE  j = i
    BY <1>4 DEF Spend, Alone
  <1>5. ~(Tick \/ ClockBack \/ EntryLost \/ UNCHANGED vars)
    BY DEF Tick, ClockBack, EntryLost, vars, handler
  <1> QED
    BY <1>1, <1>2, <1>3, <1>4, <1>5 DEF Next

LEMMA Inductive == Orderly /\ IInv /\ [Next]_vars => IInv'
  <1> SUFFICES ASSUME Orderly, IInv, [Next]_vars PROVE IInv'
    OBVIOUS
  <1>1. CASE Tick \/ ClockBack \/ EntryLost \/ UNCHANGED vars
    BY <1>1, OutsideStep
  <1>2. ASSUME NEW i \in Instances, Launch(i) \/ Lock(i)
        PROVE  IInv'
    BY <1>2, ResolveStep
  <1>3. ASSUME NEW i \in Instances, Quit(i) \/ Crash(i)
        PROVE  IInv'
    BY <1>3, ExitStep DEF Quit, Crash
  <1>4. ASSUME NEW i \in Instances, Replayed(i) \/ Refused(i)
        PROVE  IInv'
    BY <1>4, RefusedStep
  <1>5. ASSUME NEW i \in Instances, RecordCheck(i) \/ Enrol(i)
        PROVE  IInv'
    BY <1>5, CheckedStep
  <1>6. ASSUME NEW i \in Instances, NEW c \in Codes, Submit(i, c)
        PROVE  IInv'
    BY <1>6, SubmitStep
  <1> QED
    BY <1>1, <1>2, <1>3, <1>4, <1>5, <1>6, SpendStep, OpenVaultStep, PasswordUnlockStep DEF Next

-----------------------------------------------------------------------------
\* GuessesBounded: however many copies there are, whatever the limit, and
\* through restarts, crashes and lost entries, a stranger gets the limit and
\* one more for each further code screen (try_totp_daily_unlock).
THEOREM Bounded == ASSUME Orderly PROVE Spec => []GuessesBounded
  <1>1. IInv => GuessesBounded
    BY DailyFinite, GateAssumption DEF IInv, Counted, Typed, GuessesBounded
  <1> QED
    BY Initially, Inductive, <1>1, PTL DEF Spec

\* NothingBurned: the stored step is that of a code that was accepted, so a
\* wrong or replayed answer never spends a code of the user.
THEOREM OnlySpentStored == ASSUME Orderly PROVE Spec => []NothingBurned
  <1>1. IInv => NothingBurned
    BY DEF IInv, InEntry, Newest, NothingBurned
  <1> QED
    BY Initially, Inductive, <1>1, PTL DEF Spec

\* CodeSpentOnce: no entry accepts a code twice, also with the clock set back
\* and after a crash between the write and the opening.  What the next entry does
\* after a loss is not promised (reconcile_device_state starts it from step 0).
THEOREM SpentOnce == ASSUME Orderly PROVE Spec => CodeSpentOnce
  <1>1. IInv /\ [Next]_vars =>
           [\A i \in Instances : pc[i] = "spend" /\ pc'[i] = "open" => held[i].replay \notin spent]_vars
    BY OnlySpendSpends, SpendStep
  <1> QED
    BY Initially, Inductive, <1>1, PTL DEF Spec, CodeSpentOnce
=============================================================================
