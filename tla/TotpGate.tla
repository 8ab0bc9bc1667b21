------------------------------ MODULE TotpGate ------------------------------
(***************************************************************************)
(* The one-time-code gate of security mode 4 (TotpDaily): the counters     *)
(* beside the device key in the keyring entry (DeviceState), the check of  *)
(* a code against them (totp::check_code), and the handlers that read the  *)
(* entry, change it in memory and write all of it back.                    *)
(*                                                                         *)
(* Vault models whether the key opens the vault; here it always does, and  *)
(* time and the counters matter.  Time is counted in TOTP steps of 30 s.   *)
(* The code of a step is the step's number: two steps never share one.     *)
(***************************************************************************)
EXTENDS Integers, FiniteSets

CONSTANTS
    Instances,    \* running copies of the program
    Nobody,       \* the flock is free
    NoEntry,      \* the keyring has no entry for this vault
    MaxFailures,  \* MAX_TOTP_FAILURES
    MaxAge,       \* PASSWORD_CHECK_DAYS, in steps
    Skew,         \* steps a code is accepted early or late
    Start,        \* the step at which the vault was enrolled
    LastStep,     \* bound: the clock stops here
    Faults

ASSUME GateAssumption ==
    /\ MaxFailures \in Nat \ {0} /\ MaxAge \in Nat \ {0} /\ Skew \in Nat
    /\ Start \in Nat /\ LastStep \in Nat /\ Skew < Start /\ Start <= LastStep
    /\ Nobody \notin Instances
    /\ Faults \subseteq {"write", "race", "crash", "entryLost", "clockBack"}

VARIABLES
    now,        \* the wall clock
    entry,      \* the DeviceState in the keyring
    lock,       \* who holds the flock on the vault
    screen,     \* off, daily, locked or open
    pc,         \* the next effect of the running handler
    held,       \* the DeviceState that handler holds
    spent,      \* history: codes accepted since the entry was made
    forgotten,  \* history: codes accepted before that, with an entry that was lost
    answers     \* history: codes refused since a password or a code was right

handler == <<pc, held>>
history == <<spent, forgotten, answers>>
vars == <<now, entry, lock, screen, handler, history>>

Codes   == 0 .. LastStep + Skew
\* DeviceState::new
NewState == [replay |-> 0, failures |-> 0, checked |-> now]

FailuresOffByOne(s) == s.failures > MaxFailures \/ now - s.checked > MaxAge    \* mutant
\* must_escalate; the subtraction saturates when the clock was set back.
MustEscalate(s) == s.failures >= MaxFailures \/ now - s.checked > MaxAge

\* check_code: valid within the skew, and fresh only above the last step.
Valid(c) == c \in now - Skew .. now + Skew
FreshAgain(c, s) == c >= s.replay                  \* mutant
Fresh(c, s)      == c > s.replay

SpendAlways(c, s) == [s EXCEPT !.failures = @ + 1, !.replay = c]   \* mutant
Refuse(c, s) == [s EXCEPT !.failures = @ + 1]
Accept(c, s) == [s EXCEPT !.replay = c, !.failures = 0]

-----------------------------------------------------------------------------
Idle(i, s) == pc[i] = "idle" /\ screen[i] = s

Proceed(i, l, s) ==
    /\ pc'   = [pc   EXCEPT ![i] = l]
    /\ held' = [held EXCEPT ![i] = s]

Finish(i, s) ==
    /\ screen' = [screen EXCEPT ![i] = s]
    /\ Proceed(i, "idle", NoEntry)

\* A handler that will write the entry back starts.  Without the fault "race"
\* no two copies are between a read and its write at the same time.
MayStart == "race" \in Faults \/ \A j \in Instances : pc[j] = "idle"

Claim(i) == lock \in {Nobody, i} /\ lock' = i
InUse(i) == lock \notin {Nobody, i} /\ UNCHANGED lock

\* Every handler ignores the error of a write.
WriteBack(i) == entry' = held[i] \/ ("write" \in Faults /\ UNCHANGED entry)

\* resolve_initial_state, device_backed_initial_state for a vault of mode 4.
Resolve(i) ==
    Finish(i, IF entry = NoEntry THEN "locked"
              ELSE IF MustEscalate(entry) THEN "locked" ELSE "daily")

Launch(i) ==
    /\ Idle(i, "off") /\ Resolve(i)
    /\ UNCHANGED <<now, entry, lock, history>>

Lock(i) ==
    /\ Idle(i, "open") /\ Resolve(i)
    /\ UNCHANGED <<now, entry, lock, history>>

\* try_totp_daily_unlock: reads the entry and judges the code.  The screen was
\* chosen from an earlier read; must_escalate is not asked again.
Submit(i, c) ==
    /\ Idle(i, "daily") /\ MayStart
    /\ \/ entry = NoEntry /\ Finish(i, "locked")
       \/ /\ entry # NoEntry
          /\ UNCHANGED screen
          /\ \/ Valid(c) /\ Fresh(c, entry) /\ Proceed(i, "spend", Accept(c, entry))
             \/ Valid(c) /\ ~Fresh(c, entry) /\ Proceed(i, "replayed", Refuse(c, entry))
             \/ ~Valid(c) /\ Proceed(i, "refused", Refuse(c, entry))
    /\ UNCHANGED <<now, entry, lock, history>>

\* The step is persisted before the vault is opened.
Spend(i) ==
    /\ pc[i] = "spend"
    /\ WriteBack(i)
    /\ Proceed(i, "open", held[i])
    /\ spent' = spent \cup {held[i].replay} /\ answers' = 0
    /\ UNCHANGED <<now, lock, screen, forgotten>>

\* load_with_device: the code is spent even when another copy has the vault.
OpenVault(i) ==
    /\ pc[i] = "open"
    /\ \/ InUse(i) /\ Finish(i, "daily")
       \/ Claim(i) /\ Finish(i, "open")
    /\ UNCHANGED <<now, entry, history>>

Replayed(i) ==
    /\ pc[i] = "replayed"
    /\ WriteBack(i)
    /\ Finish(i, "locked")
    /\ answers' = answers + 1
    /\ UNCHANGED <<now, lock, spent, forgotten>>

Refused(i) ==
    /\ pc[i] = "refused"
    /\ WriteBack(i)
    /\ Finish(i, IF held[i].failures >= MaxFailures THEN "locked" ELSE "daily")
    /\ answers' = answers + 1
    /\ UNCHANGED <<now, lock, spent, forgotten>>

-----------------------------------------------------------------------------
\* try_unlock with the right password, then reconcile_device_state: an entry
\* that is there is marked as checked, a missing one enrolled anew.
PasswordUnlock(i) ==
    /\ Idle(i, "locked") /\ MayStart
    /\ Claim(i)
    /\ \/ entry # NoEntry /\ Proceed(i, "record", [entry EXCEPT !.checked = now, !.failures = 0])
       \/ entry = NoEntry /\ Proceed(i, "enrol", NewState)
    /\ UNCHANGED <<now, entry, screen, history>>

RecordCheck(i) ==
    /\ pc[i] = "record"
    /\ WriteBack(i)
    /\ Finish(i, "open")
    /\ answers' = 0
    /\ UNCHANGED <<now, lock, spent, forgotten>>

\* The new entry has a new device key, but the TOTP secret the vault holds: the
\* codes are the same ones, and DeviceState::new starts from replay step 0.
Enrol(i) ==
    /\ pc[i] = "enrol"
    /\ WriteBack(i)
    /\ Finish(i, "open")
    /\ spent' = {} /\ forgotten' = forgotten \cup spent /\ answers' = 0
    /\ UNCHANGED <<now, lock>>

-----------------------------------------------------------------------------
Exit(i) ==
    /\ Finish(i, "off")
    /\ lock' = IF lock = i THEN Nobody ELSE lock
    /\ UNCHANGED <<now, entry, history>>

Quit(i)  == pc[i] = "idle" /\ screen[i] # "off" /\ Exit(i)
Crash(i) == "crash" \in Faults /\ pc[i] # "idle" /\ Exit(i)

Tick == now < LastStep /\ now' = now + 1 /\ UNCHANGED <<entry, lock, screen, handler, history>>

ClockBack ==
    /\ "clockBack" \in Faults
    /\ \E t \in Start .. now - 1 : now' = t
    /\ UNCHANGED <<entry, lock, screen, handler, history>>

EntryLost ==
    /\ "entryLost" \in Faults
    /\ entry # NoEntry
    /\ entry' = NoEntry
    /\ UNCHANGED <<now, lock, screen, handler, history>>

Init ==
    /\ now = Start
    /\ entry = NewState
    /\ lock = Nobody
    /\ screen = [i \in Instances |-> "off"]
    /\ pc     = [i \in Instances |-> "idle"]
    /\ held   = [i \in Instances |-> NoEntry]
    /\ spent = {} /\ forgotten = {} /\ answers = 0

Next ==
    \/ Tick \/ ClockBack \/ EntryLost
    \/ \E i \in Instances :
          \/ Launch(i) \/ Lock(i) \/ Quit(i) \/ Crash(i)
          \/ Spend(i) \/ OpenVault(i) \/ Replayed(i) \/ Refused(i)
          \/ PasswordUnlock(i) \/ RecordCheck(i) \/ Enrol(i)
          \/ \E c \in Codes : Submit(i, c)

Spec == Init /\ [][Next]_vars

-----------------------------------------------------------------------------
(* As long as the keyring keeps the entry a code is accepted at most once:  *)
(* not again after a lock, a restart, a crash before the vault was opened,  *)
(* or with the clock set back.                                              *)
CodeSpentOnce == [][\A i \in Instances :
                        pc[i] = "spend" /\ pc'[i] = "open"
                            => held[i].replay \notin spent]_vars

(* README.md:230: "A code is accepted once -- reusing one inside its        *)
(* ~90-second validity window is refused".  No run checks it: Enrol breaks  *)
(* it after EntryLost, as it does in the code.                              *)
AcceptedOnce == [][\A i \in Instances :
                       pc[i] = "spend" /\ pc'[i] = "open"
                           => held[i].replay \notin spent \cup forgotten]_vars

(* However often the copies are restarted, a stranger at the code prompt    *)
(* gets MaxFailures wrong answers before the password is needed, and one    *)
(* more for every other copy whose code screen was already up.              *)
GuessesBounded == answers <= MaxFailures + Cardinality(Instances) - 1

(* Only a code that was accepted is spent: a refused one never moves the    *)
(* stored step, so nobody can burn the code the user is about to type.      *)
NothingBurned == entry # NoEntry => entry.replay \in spent \cup {0}

(* The password is asked once every MaxAge: a code is never accepted when   *)
(* the password was last given longer ago than that.                        *)
RecentPassword == [][\A i \in Instances :
                        pc[i] = "idle" /\ pc'[i] = "spend"
                            => now - entry.checked <= MaxAge]_vars
=============================================================================
