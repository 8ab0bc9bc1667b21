------------------------------ MODULE RunProofs ------------------------------
(***************************************************************************)
(* Promises of the flows App waits in, for any scripts, servers and        *)
(* bounds: a script's step with a condition follows a step that ran, the   *)
(* log of a run that is over has the end of every step it has the start    *)
(* of, a session pins no key but a machine's own, nothing is forwarded     *)
(* that was not asked for, and what is typed reaches the shell in order.   *)
(***************************************************************************)
EXTENDS AppProofs, WellFoundedInduction, SequenceTheorems

Words == {"server", "connect error", "started", "output", "finished", "timed out", "error",
          "skipped", "cancelled"}

-----------------------------------------------------------------------------
\* Lines of a log.

\* Line i is the start of a step whose end follows, with only output between.
EndsAt(lines, i, j) ==
    /\ j \in (i + 1)..Len(lines) /\ lines[j] \in Ends
    /\ \A k \in (i + 1)..(j - 1) : lines[k] = "output"
Ended(lines, i) == \E j \in (i + 1)..Len(lines) : EndsAt(lines, i, j)
StillRuns(lines, i) == \A k \in (i + 1)..Len(lines) : lines[k] = "output"

Closed(lines) == \A i \in 1..Len(lines) : lines[i] = "started" => Ended(lines, i)
OneOpen(lines) ==
    \A i \in 1..Len(lines) : lines[i] = "started" => Ended(lines, i) \/ StillRuns(lines, i)

LEMMA Longer ==
    ASSUME NEW lines \in Seq(Words), NEW w \in Words
    PROVE  /\ Append(lines, w) \in Seq(Words) /\ Len(Append(lines, w)) = Len(lines) + 1
           /\ Append(lines, w)[Len(lines) + 1] = w
           /\ \A i \in 1..Len(lines) : Append(lines, w)[i] = lines[i]
  OBVIOUS

LEMMA Lines == ASSUME NEW lines \in Seq(Words) PROVE DOMAIN lines = 1..Len(lines)
  OBVIOUS

LEMMA EndedStays ==
    ASSUME NEW lines \in Seq(Words), NEW w \in Words, NEW i \in 1..Len(lines), Ended(lines, i)
    PROVE  Ended(Append(lines, w), i)
  <1> DEFINE more == Append(lines, w)
  <1>1. PICK j \in (i + 1)..Len(lines) : EndsAt(lines, i, j)
    BY DEF Ended
  <1>2. j \in (i + 1)..Len(more) /\ more[j] = lines[j]
    BY <1>1, Longer
  <1>3. \A k \in (i + 1)..(j - 1) : more[k] = lines[k]
    BY <1>1, Longer
  <1>4. EndsAt(more, i, j)
    BY <1>1, <1>2, <1>3 DEF EndsAt
  <1> QED
    BY <1>2, <1>4 DEF Ended

\* A line that starts no step leaves the steps before it as they are.
LEMMA ClosedMore ==
    ASSUME NEW lines \in Seq(Words), NEW w \in Words \ {"started"}, Closed(lines)
    PROVE  Closed(Append(lines, w))
  BY Longer, EndedStays DEF Closed

LEMMA Started ==
    ASSUME NEW lines \in Seq(Words), Closed(lines)
    PROVE  OneOpen(Append(lines, "started"))
  <1> DEFINE more == Append(lines, "started")
  <1>1. Len(more) = Len(lines) + 1 /\ \A i \in 1..Len(lines) : more[i] = lines[i]
    BY Longer DEF Words
  <1>2. ASSUME NEW i \in 1..Len(lines), more[i] = "started" PROVE Ended(more, i)
    <2>1. Ended(lines, i)
      BY <1>1, <1>2 DEF Closed
    <2> QED
      BY <2>1, EndedStays DEF Words
  <1>3. StillRuns(more, Len(lines) + 1)
    BY <1>1 DEF StillRuns
  <1> QED
    BY <1>1, <1>2, <1>3 DEF OneOpen

LEMMA OutputAdded ==
    ASSUME NEW lines \in Seq(Words), OneOpen(lines)
    PROVE  OneOpen(Append(lines, "output"))
  <1> DEFINE more == Append(lines, "output")
  <1>1. /\ Len(more) = Len(lines) + 1 /\ more[Len(lines) + 1] = "output"
        /\ \A i \in 1..Len(lines) : more[i] = lines[i]
    BY Longer DEF Words
  <1>2. ASSUME NEW i \in 1..Len(lines), StillRuns(lines, i) PROVE StillRuns(more, i)
    BY <1>1, <1>2 DEF StillRuns
  <1>3. ASSUME NEW i \in 1..Len(lines), Ended(lines, i) PROVE Ended(more, i)
    BY <1>3, EndedStays DEF Words
  <1> QED
    BY <1>1, <1>2, <1>3 DEF OneOpen

LEMMA EndAdded ==
    ASSUME NEW lines \in Seq(Words), OneOpen(lines), NEW w \in Ends
    PROVE  Closed(Append(lines, w))
  <1> DEFINE more == Append(lines, w)
             last == Len(lines) + 1
  <1>1. w \in Words
    BY DEF Ends, Words
  <1>2. /\ Len(more) = last /\ more[last] = w /\ \A i \in 1..Len(lines) : more[i] = lines[i]
    BY <1>1, Longer
  <1>3. ASSUME NEW i \in 1..Len(lines), StillRuns(lines, i) PROVE Ended(more, i)
    <2>1. last \in (i + 1)..Len(more)
      BY <1>2
    <2>2. EndsAt(more, i, last)
      BY <1>2, <1>3, <2>1 DEF EndsAt, StillRuns
    <2> QED
      BY <2>1, <2>2 DEF Ended
  <1>4. ASSUME NEW i \in 1..Len(lines), Ended(lines, i) PROVE Ended(more, i)
    BY <1>1, <1>4, EndedStays
  <1>5. more[last] # "started"
    BY <1>2 DEF Ends
  <1> QED
    BY <1>2, <1>3, <1>4, <1>5 DEF Closed, OneOpen

\* What is shown of a run that ended, and of one that was cancelled.
LEMMA ClosedIsShown ==
    ASSUME NEW lines \in Seq(Words), Closed(lines) PROVE StepsShown(lines)
  BY DEF Closed, Ended, EndsAt, StepsShown

LEMMA CancelledIsShown ==
    ASSUME NEW lines \in Seq(Words), Closed(lines) \/ OneOpen(lines)
    PROVE  StepsShown(Append(lines, "cancelled"))
  <1> DEFINE more == Append(lines, "cancelled")
             last == Len(lines) + 1
  <1>1. /\ Len(more) = last /\ more[last] = "cancelled"
        /\ \A i \in 1..Len(lines) : more[i] = lines[i]
    BY Longer DEF Words
  <1>5. DOMAIN more = 1..last
    <2>1. more \in Seq(Words)
      BY Longer DEF Words
    <2> HIDE DEF more
    <2> QED
      BY <1>1, <2>1, Lines
  <1>2. ASSUME NEW i \in 1..Len(lines), more[i] = "started"
        PROVE  Ended(more, i) \/ StillRuns(lines, i)
    <2>1. Ended(lines, i) \/ StillRuns(lines, i)
      BY <1>1, <1>2 DEF Closed, OneOpen
    <2> QED
      BY <2>1, EndedStays DEF Words
  <1>3. ASSUME NEW i \in 1..Len(lines), StillRuns(lines, i)
        PROVE  \E j \in (i + 1)..Len(more) :
                  /\ more[j] \in Ends \cup (IF j = Len(more) THEN {"cancelled"} ELSE {})
                  /\ \A k \in (i + 1)..(j - 1) : more[k] = "output"
    <2>1. last \in (i + 1)..Len(more) /\ \A k \in (i + 1)..(last - 1) : more[k] = "output"
      BY <1>1, <1>3 DEF StillRuns
    <2> QED
      BY <1>1, <2>1
  <1>4. ASSUME NEW i \in 1..Len(lines), Ended(more, i)
        PROVE  \E j \in (i + 1)..Len(more) :
                  /\ more[j] \in Ends \cup (IF j = Len(more) THEN {"cancelled"} ELSE {})
                  /\ \A k \in (i + 1)..(j - 1) : more[k] = "output"
    BY <1>4 DEF Ended, EndsAt
  <1> QED
    BY <1>1, <1>2, <1>3, <1>4, <1>5 DEF StepsShown

LEMMA NothingIsShown == Closed(<<>>) /\ StepsShown(<<>>)
  BY DEF Closed, StepsShown

-----------------------------------------------------------------------------
\* The steps of a script.

Outcomes == [st : {"ok", "bad", "skipped"}, hit : BOOLEAN]
JobShape(j) == j = [todo |-> j.todo, results |-> j.results, running |-> j.running, hit |-> j.hit,
                    targets |-> j.targets, several |-> j.several]

\* Only the script flow has a step under way, and that step may run.
StepsInv ==
    /\ JobShape(job) /\ job.results \in Seq(Outcomes)
    /\ job.hit \in BOOLEAN /\ job.running \in BOOLEAN
    /\ job.running => pc = "script" /\ job.todo # <<>> /\ Runs
    /\ StepsFollow

\* What a step of the app can do to it: nothing, another job, the start of a
\* step, its output, a result.
JobStays ==
    /\ JobShape(job') /\ job'.results = job.results /\ job'.todo = job.todo
    /\ job'.running = job.running /\ job'.hit = job.hit
    /\ (pc' = pc \/ ~job.running)
Fresh == JobShape(job') /\ job'.results = <<>> /\ job'.running = FALSE /\ job'.hit \in BOOLEAN

LEMMA SameSteps == ASSUME StepsInv, JobStays PROVE StepsInv'
  BY DEF StepsInv, JobStays, StepsFollow, Steps, Runs, ThisStep, ShouldRun

LEMMA FreshSteps == ASSUME Fresh PROVE StepsInv'
  <1>1. job'.results \in Seq(Outcomes) /\ DOMAIN job'.results = {}
    BY DEF Fresh
  <1>2. StepsFollow'
    BY <1>1 DEF StepsFollow
  <1> QED
    BY <1>1, <1>2 DEF StepsInv, Fresh

LEMMA NewResult ==
    ASSUME StepsInv, NEW st \in {"ok", "bad", "skipped"}, NEW hit \in BOOLEAN,
           job' = Result(st, hit), st \in {"ok", "bad"} => Runs
    PROVE  StepsInv'
  <1> DEFINE r == [st |-> st, hit |-> hit]
             n == Len(job.results)
  <1>1. /\ JobShape(job') /\ job'.results = Append(job.results, r) /\ job'.todo = job.todo
        /\ job'.running = FALSE /\ job'.hit = FALSE
    BY DEF Result, StepsInv, JobShape
  <1>2. r \in Outcomes /\ r.st = st
    BY DEF Outcomes
  <1>3. /\ job'.results \in Seq(Outcomes) /\ DOMAIN job'.results = 1..(n + 1)
        /\ job'.results[n + 1] = r /\ \A i \in 1..n : job'.results[i] = job.results[i]
        /\ DOMAIN job.results = 1..n /\ n \in Nat
    BY <1>1, <1>2 DEF StepsInv
  <1>4. Steps' = Steps
    BY <1>1 DEF Steps
  <1>5. ASSUME n + 1 > 1, st \in {"ok", "bad"}
        PROVE  Steps[n + 1] = "always" \/ job.results[n].st # "skipped"
    <2>1. job.results # <<>> /\ Last(job.results) = job.results[n]
      BY <1>3, <1>5 DEF Last
    <2> QED
      BY <1>5, <2>1 DEF Runs, ThisStep, ShouldRun
  <1>6. StepsFollow'
    <2> SUFFICES ASSUME NEW i \in DOMAIN job'.results, i > 1, job'.results[i].st \in {"ok", "bad"}
                 PROVE  Steps[i] = "always" \/ job'.results[i - 1].st # "skipped"
      BY <1>4 DEF StepsFollow
    <2>1. CASE i = n + 1
      BY <1>2, <1>3, <1>5, <2>1
    <2>2. CASE i \in 1..n
      <3>1. i - 1 \in 1..n /\ i \in DOMAIN job.results
        BY <1>3, <2>2
      <3>2. job'.results[i] = job.results[i] /\ job'.results[i - 1] = job.results[i - 1]
        BY <1>3, <2>2, <3>1
      <3> QED
        BY <3>1, <3>2 DEF StepsInv, StepsFollow
    <2> QED
      BY <1>3, <2>1, <2>2
  <1> QED
    BY <1>1, <1>3, <1>6 DEF StepsInv

LEMMA ScriptSteps == ASSUME StepsInv, ScriptStep PROVE StepsInv'
  <1>1. CASE SkipStep
    BY <1>1, NewResult DEF SkipStep
  <1>2. CASE StartStep
    <2>1. /\ JobShape(job') /\ job'.results = job.results /\ job'.todo = job.todo
          /\ job'.running = TRUE /\ job'.hit = job.hit /\ pc' = pc
      BY <1>2 DEF StartStep, StepsInv, JobShape, InScript
    <2> QED
      BY <1>2, <2>1 DEF StartStep, MoreSteps, StepsInv, StepsFollow, Steps, Runs, ThisStep, ShouldRun
  <1>3. CASE StepOutput
    <2>1. /\ JobShape(job') /\ job'.results = job.results /\ job'.todo = job.todo
          /\ job'.running = job.running /\ job'.hit = TRUE /\ pc' = pc
      BY <1>3 DEF StepOutput, StepsInv, JobShape, InScript
    <2> QED
      BY <1>3, <2>1 DEF StepsInv, StepsFollow, Steps, Runs, ThisStep, ShouldRun
  <1>4. CASE EndStep
    <2>1. job.running /\ job.hit \in BOOLEAN /\ Runs
      BY <1>4 DEF EndStep, StepsInv
    <2>2. \E st \in {"ok", "bad", "skipped"}, hit \in BOOLEAN : job' = Result(st, hit)
      BY <1>4, <2>1 DEF EndStep
    <2> QED
      BY <2>1, <2>2, NewResult
  <1>5. CASE ApplyEvents \/ ScriptsDone
    <2>1. JobStays
      BY <1>5 DEF ApplyEvents, ScriptsDone, StepsInv, JobStays, scripts
    <2> QED
      BY <2>1, SameSteps
  <1>6. CASE ScriptEnds
    <2>1. Fresh
      BY <1>6 DEF ScriptEnds, StepsInv, Fresh, JobShape
    <2> QED
      BY <2>1, FreshSteps
  <1> QED
    BY <1>1, <1>2, <1>3, <1>4, <1>5, <1>6 DEF ScriptStep

LEMMA ResetIsFresh == Reset => Fresh
  BY DEF Reset, NoJob, Fresh, JobShape

LEMMA OtherSteps ==
    ASSUME StepsInv, ConnectStep \/ ForwardStep \/ ShellStep \/ FleetStep \/ HandleKey1
    PROVE  JobStays \/ Fresh
  <1>1. Failed /\ pc \in {"dial", "auth"} => JobStays \/ Fresh
    BY ResetIsFresh DEF Failed, Over, StepsInv, JobStays
  <1>2. ConnectStep => JobStays \/ Fresh
    <2>1. Connect => JobStays
      BY DEF Connect, StepsInv, JobStays, scripts
    <2>2. Dial => JobStays \/ Fresh
      BY <1>1 DEF Dial, Nothing, StepsInv, JobStays, scripts
    <2>3. Authenticate => JobStays \/ Fresh
      BY <1>1 DEF Authenticate, StepsInv, JobStays, scripts
    <2>4. ConnectTick => JobStays \/ Fresh
      BY ResetIsFresh DEF ConnectTick, Over, StepsInv, JobStays, scripts
    <2> QED
      BY <2>1, <2>2, <2>3, <2>4 DEF ConnectStep
  <1>3. ForwardStep => JobStays \/ Fresh
    <2>1. StartForward => JobStays
      BY DEF StartForward, StepsInv, JobStays, scripts
    <2>2. ForwardsStarted => Fresh
      <3>1. ASSUME NEW todo, NEW j, j = [NoJob EXCEPT !.todo = todo]
            PROVE  JobShape(j) /\ j.results = <<>> /\ j.running = FALSE /\ j.hit = FALSE
        BY <3>1 DEF NoJob, JobShape
      <3> QED
        BY <3>1, ResetIsFresh DEF ForwardsStarted, Over, Fresh
    <2>3. AcceptForward \/ SocksHandshake \/ ChannelAnswer \/ PushedChannel \/ DialLocal \/ CloseConn
          => JobStays
      BY DEF AcceptForward, SocksHandshake, ChannelAnswer, PushedChannel, DialLocal, CloseConn,
             Others, StepsInv, JobStays, scripts
    <2> QED
      BY <2>1, <2>2, <2>3 DEF ForwardStep
  <1>4. ShellStep => JobStays \/ Fresh
    <2>1. StartShell \/ TypeKeys \/ IgnoreKey \/ BridgeKeys \/ SwitchScreen \/ ProbeAnswers \/ PollAnswers \/ ShellReturns => JobStays
      BY DEF StartShell, TypeKeys, IgnoreKey, BridgeKeys, SwitchScreen, ProbeAnswers, PollAnswers, ShellReturns, Metered,
             StepsInv, JobStays, scripts
    <2>2. \A ok, got : EndSession(ok, got) => Fresh
      BY ResetIsFresh DEF EndSession, Over
    <2>3. ShellRefused \/ ConnectEnds \/ RemoteEnds => Fresh
      BY <2>2, ResetIsFresh DEF ShellRefused, ConnectEnds, RemoteEnds, Over
    <2>4. Tick => JobStays \/ Fresh
      BY <2>2, ResetIsFresh DEF Tick, Over, StepsInv, JobStays, scripts
    <2> QED
      BY <2>1, <2>3, <2>4 DEF ShellStep
  <1>5. FleetStep => JobStays \/ Fresh
    <2>1. RunScript => Fresh
      BY DEF RunScript, NoJob, JobShape, Fresh
    <2>2. NextTarget => JobStays
      BY DEF NextTarget, StepsInv, JobShape, JobStays
    <2>3. RunEnds \/ RunTick => JobStays \/ Fresh
      BY ResetIsFresh DEF RunEnds, RunTick, ShowRun, StepsInv, JobStays, scripts
    <2> QED
      BY <2>1, <2>2, <2>3 DEF FleetStep
  <1>6. HandleKey1 => JobStays
    BY DEF HandleKey1, StepsInv, JobStays
  <1> QED
    BY <1>2, <1>3, <1>4, <1>5, <1>6

LEMMA StepsInitially == Init => StepsInv
  BY DEF Init, SessionInit, NoJob, StepsInv, JobShape, StepsFollow

LEMMA StepsStep == ASSUME StepsInv, [Next]_vars PROVE StepsInv'
  <1>1. CASE ScriptStep
    BY <1>1, ScriptSteps
  <1>2. CASE ConnectStep \/ ForwardStep \/ ShellStep \/ FleetStep \/ HandleKey1
    BY <1>2, OtherSteps, SameSteps, FreshSteps
  <1>3. CASE UNCHANGED vars
    <2>1. JobStays
      BY <1>3 DEF vars, session, scripts, StepsInv, JobStays
    <2> QED
      BY <2>1, SameSteps
  <1> QED
    BY <1>1, <1>2, <1>3 DEF Next, SessionNext

\* StepsFollow: for any scripts a condition is asked of the step right before,
\* and a step that was skipped passes none but "always" (run_script).
THEOREM StepsInOrder == Spec => []StepsFollow
  <1>1. StepsInv => StepsFollow
    BY DEF StepsInv
  <1> QED
    BY StepsInitially, StepsStep, <1>1, PTL DEF Spec

-----------------------------------------------------------------------------
\* The log.

\* What was logged, with what is still in the channel.
Told == log \o evq
ToldWell == IF job.running THEN OneOpen(Told) ELSE Closed(Told)

\* Only a run has a log that counts, and outside its script nothing of it is
\* in the channel; between runs the log is that of the run screen.
LogInv ==
    /\ log \in Seq(Words) /\ evq \in Seq(Words)
    /\ InFleet => /\ pc \in {"next", "dial", "auth", "script"} /\ job.todo # <<>>
                  /\ pc # "script" => evq = <<>>
                  /\ ToldWell
    /\ pc = "idle" => StepsShown(log) /\ (screen.at # "run" => log = <<>>)

RunInv == PrefsInv /\ LeavesInv /\ StepsInv /\ LogInv

LEMMA Joined ==
    ASSUME NEW a \in Seq(Words), NEW b \in Seq(Words), NEW w \in Words
    PROVE  /\ a \o b \in Seq(Words) /\ a \o <<>> = a /\ <<w>> \in Seq(Words)
           /\ a \o <<w>> = Append(a, w) /\ a \o (b \o <<w>>) = Append(a \o b, w)
  OBVIOUS

LEMMA OneLine ==
    ASSUME NEW v \in Words, NEW w \in Words
    PROVE  /\ <<v>> \in Seq(Words) /\ Append(<<>>, w) = <<w>>
           /\ Append(<<v>>, w) = <<v>> \o <<w>>
  OBVIOUS

LEMMA TwoLines ==
    ASSUME NEW a \in Seq(Words), NEW v \in Words, NEW w \in Words
    PROVE  a \o (<<v>> \o <<w>>) = Append(Append(a, v), w)
  OBVIOUS

\* What a step can do to the log: nothing, an end that drops it, lines that
\* start no step.
LogStays ==
    /\ log' = log /\ evq' = evq
    /\ job'.running = job.running /\ job'.todo = job.todo /\ link'.kind = link.kind
    /\ \/ pc' = pc /\ (screen' = screen \/ pc # "idle")
       \/ ~InFleet /\ pc' # "idle"
       \/ InFleet /\ evq = <<>> /\ pc' \in {"dial", "auth", "script"}
LogDropped == log' = <<>> /\ evq' = <<>> /\ link'.kind # "fleet"

LEMMA StaysWell == ASSUME LogInv, LogStays PROVE LogInv'
  <1>1. Told' = Told /\ (ToldWell => ToldWell')
    BY DEF LogStays, Told, ToldWell
  <1>2. InFleet' = InFleet
    BY DEF LogStays, InFleet
  <1>3. log' \in Seq(Words) /\ evq' \in Seq(Words)
    BY DEF LogInv, LogStays
  <1>4. InFleet' => /\ pc' \in {"next", "dial", "auth", "script"} /\ job'.todo # <<>>
                    /\ pc' # "script" => evq' = <<>>
                    /\ ToldWell'
    BY <1>1, <1>2 DEF LogInv, LogStays
  <1>5. pc' = "idle" => StepsShown(log') /\ (screen'.at # "run" => log' = <<>>)
    BY DEF LogInv, LogStays
  <1> QED
    BY <1>3, <1>4, <1>5 DEF LogInv

LEMMA DroppedWell == ASSUME LogDropped PROVE LogInv'
  BY NothingIsShown DEF LogDropped, LogInv, InFleet

LEMMA OverDrops == Over => LogDropped
  BY DEF Over, Reset, NoLink, LogDropped

\* A line that the run writes itself, between two scripts.
LEMMA OneLineMore ==
    ASSUME LogInv, StepsInv, InFleet, pc # "script", NEW w \in Words \ {"started"}
    PROVE  /\ log \in Seq(Words) /\ Append(log, w) \in Seq(Words) /\ evq = <<>>
           /\ Closed(log) /\ Closed(Append(log, w))
  <1>1. log \in Seq(Words) /\ evq = <<>> /\ job.running = FALSE /\ Told = log
    BY DEF LogInv, StepsInv, Told
  <1>2. Closed(log)
    BY <1>1 DEF LogInv, ToldWell
  <1>3. Append(log, w) \in Seq(Words)
    BY <1>1, Longer
  <1> QED
    BY <1>1, <1>2, <1>3, ClosedMore

\* A target that follows, or its connection, with the log closed.
LEMMA NextWell ==
    ASSUME log' \in Seq(Words), Closed(log'), evq' = <<>>, job'.running = FALSE, job'.todo # <<>>,
           pc' \in {"next", "dial"}
    PROVE  LogInv'
  <1>1. Told' = log' /\ evq' \in Seq(Words)
    BY DEF Told
  <1>2. ToldWell'
    BY <1>1 DEF ToldWell
  <1> QED
    BY <1>1, <1>2 DEF LogInv

LEMMA FailedWell == ASSUME RunInv, Failed, pc \in {"dial", "auth"} PROVE LogInv'
  <1>1. CASE InFleet
    <2>1. /\ log' = Append(log, "connect error") /\ pc' = "next" /\ job' = job /\ evq' = evq
      BY <1>1 DEF Failed, Go
    <2>2. "connect error" \in Words \ {"started"}
      BY DEF Words
    <2>3. /\ log' \in Seq(Words) /\ Closed(log') /\ evq' = <<>>
      BY <1>1, <2>1, <2>2, OneLineMore DEF RunInv
    <2>4. job'.running = FALSE /\ job'.todo # <<>>
      BY <1>1, <2>1 DEF RunInv, StepsInv, LogInv
    <2> QED
      BY <2>1, <2>3, <2>4, NextWell
  <1>2. CASE ~InFleet
    BY <1>2, OverDrops, DroppedWell DEF Failed
  <1> QED
    BY <1>1, <1>2

LEMMA ConnectWell == ASSUME RunInv, ConnectStep PROVE LogInv'
  <1>1. CASE Connect
    <2>1. ASSUME UNCHANGED <<pc, link, scripts>>, Fails PROVE LogStays
      BY <2>1 DEF LogStays, Fails, scripts
    <2>2. ASSUME NEW mode \in Modes, Go("dial"), link' = Dialled(mode, Selected), UNCHANGED scripts
          PROVE  LogInv'
      <3>1. link'.kind = mode
        BY <2>2, NewLink
      <3> QED
        BY <2>2, <3>1 DEF RunInv, LogInv, InFleet, Modes, Go, scripts
    <2>3. \A mode \in {mem.mode, OtherMode(mem.mode)} : mode \in Modes
      BY DEF RunInv, PrefsInv, Shape, OtherMode, Modes
    <2> QED
      BY <1>1, <2>1, <2>2, <2>3, StaysWell DEF Connect, RunInv
  <1>2. CASE Dial
    <2>1. ASSUME NEW key, link' = [link EXCEPT !.key = key], Go("auth"), Nothing PROVE LogStays
      <3>1. link'.kind = link.kind /\ log' = log /\ evq' = evq /\ job' = job /\ pc' = "auth"
        BY <2>1 DEF RunInv, LeavesInv, LinkShape, Go, Nothing, scripts
      <3> QED
        BY <1>2, <3>1 DEF Dial, LogStays, RunInv, LogInv
    <2> QED
      BY <1>2, <2>1, FailedWell, StaysWell DEF Dial, RunInv
  <1>3. CASE Authenticate
    <2> DEFINE learnt == Append(link.learnt, link.key)
               left == Tail(link.left)
    <2>1. \/ Failed
          \/ /\ link' = [link EXCEPT !.learnt = learnt, !.left = left, !.key = NoPin]
             /\ IF left = <<>> THEN Established(learnt) ELSE Go("dial")
             /\ UNCHANGED scripts
      BY <1>3, Zenon DEF Authenticate
    <2> HIDE DEF learnt, left
    <2>2. ASSUME ~Failed PROVE LogStays
      <3>1. link'.kind = link.kind /\ log' = log /\ evq' = evq /\ job' = job
        BY <2>1, <2>2 DEF RunInv, LeavesInv, LinkShape, scripts
      <3>2. pc' \in {"dial", "script", "bind"} /\ (InFleet => pc' # "bind")
        BY <2>1, <2>2 DEF Established, Go
      <3> QED
        BY <1>3, <3>1, <3>2 DEF Authenticate, LogStays, RunInv, LogInv
    <2> QED
      BY <1>3, <2>2, FailedWell, StaysWell DEF Authenticate, RunInv
  <1>4. CASE ConnectTick
    <2>1. ASSUME UNCHANGED <<desk, pc, link, scripts>> PROVE LogStays
      BY <2>1 DEF LogStays, scripts, desk
    <2> QED
      BY <1>4, <2>1, OverDrops, DroppedWell, StaysWell DEF ConnectTick, RunInv
  <1> QED
    BY <1>1, <1>2, <1>3, <1>4 DEF ConnectStep

LEMMA ForwardWell == ASSUME RunInv, ForwardStep PROVE LogInv'
  <1>1. CASE StartForward
    BY <1>1, StaysWell DEF StartForward, LogStays, RunInv, scripts, desk
  <1>2. CASE ForwardsStarted
    <2>1. ~InFleet
      BY <1>2 DEF ForwardsStarted, RunInv, LogInv
    <2>2. ASSUME pc' = "script", link' = link, log' = log, evq' = evq PROVE LogInv'
      BY <2>1, <2>2 DEF RunInv, LogInv, InFleet
    <2> QED
      BY <1>2, <2>2, OverDrops, DroppedWell DEF ForwardsStarted, Go
  <1>3. CASE AcceptForward \/ SocksHandshake \/ ChannelAnswer \/ PushedChannel \/ DialLocal \/ CloseConn
    <2>1. Others
      BY <1>3 DEF AcceptForward, SocksHandshake, ChannelAnswer, PushedChannel, DialLocal, CloseConn
    <2> QED
      BY <2>1, StaysWell DEF Others, LogStays, RunInv, scripts, desk
  <1> QED
    BY <1>1, <1>2, <1>3 DEF ForwardStep

-----------------------------------------------------------------------------
\* The events of a script.

LEMMA EventSent ==
    ASSUME RunInv, NEW w \in Words, Emit(<<w>>), InScript, job'.todo = job.todo,
           InFleet => /\ pc = "script"
                      /\ LET told == Append(Told, w)
                         IN IF job'.running THEN OneOpen(told) ELSE Closed(told)
    PROVE  LogInv'
  <1>1. log' = log /\ pc' = pc /\ link' = link /\ screen' = screen
    BY DEF InScript, desk
  <1>2. CASE ~InFleet
    BY <1>1, <1>2 DEF Emit, RunInv, LogInv, InFleet
  <1>3. CASE InFleet
    <2>1. evq' = evq \o <<w>> /\ evq' \in Seq(Words) /\ Told' = Append(Told, w)
      BY <1>1, <1>3, Joined DEF Emit, RunInv, LogInv, Told
    <2>2. ToldWell'
      BY <1>3, <2>1 DEF ToldWell
    <2> QED
      BY <1>1, <1>3, <2>1, <2>2 DEF RunInv, LogInv, InFleet
  <1> QED
    BY <1>2, <1>3

LEMMA ToldTyped == LogInv => Told \in Seq(Words)
  BY Joined DEF LogInv, Told, Words

LEMMA ScriptWell == ASSUME RunInv, ScriptStep PROVE LogInv'
  <1>1. /\ Told \in Seq(Words) /\ JobShape(job) /\ job.running \in BOOLEAN
        /\ job.running => pc = "script"
        /\ InFleet => ToldWell
    BY ToldTyped DEF RunInv, LogInv, StepsInv
  <1>2. ASSUME NEW st, NEW hit, job' = Result(st, hit) PROVE job'.todo = job.todo /\ job'.running = FALSE
    BY <1>1, <1>2 DEF Result, JobShape
  <1>3. CASE SkipStep
    <2>1. "skipped" \in Words \ {"started"}
      BY DEF Words
    <2>2. /\ pc = "script" /\ job.running = FALSE /\ job' = Result("skipped", FALSE)
          /\ Emit(<<"skipped">>) /\ InScript
      BY <1>1, <1>3 DEF SkipStep, MoreSteps
    <2>3. InFleet => Closed(Append(Told, "skipped"))
      BY <1>1, <2>1, <2>2, ClosedMore DEF ToldWell
    <2> QED
      BY <1>2, <2>1, <2>2, <2>3, EventSent
  <1>4. CASE StartStep
    <2>1. "started" \in Words
      BY DEF Words
    <2>2. /\ pc = "script" /\ job.running = FALSE /\ job'.todo = job.todo /\ job'.running = TRUE
          /\ Emit(<<"started">>) /\ InScript
      BY <1>1, <1>4 DEF StartStep, MoreSteps, JobShape
    <2>3. InFleet => OneOpen(Append(Told, "started"))
      BY <1>1, <2>2, Started DEF ToldWell
    <2> QED
      BY <2>1, <2>2, <2>3, EventSent
  <1>5. CASE StepOutput
    <2>1. "output" \in Words
      BY DEF Words
    <2>2. /\ job.running = TRUE /\ job'.todo = job.todo /\ job'.running = TRUE
          /\ Emit(<<"output">>) /\ InScript
      BY <1>1, <1>5 DEF StepOutput, JobShape
    <2>3. InFleet => OneOpen(Append(Told, "output"))
      BY <1>1, <2>2, OutputAdded DEF ToldWell
    <2> QED
      BY <1>1, <2>1, <2>2, <2>3, EventSent
  <1>6. CASE EndStep
    <2>1. job.running = TRUE /\ InScript
      BY <1>1, <1>6 DEF EndStep
    <2>2. PICK w \in Ends : Emit(<<w>>) /\ job'.todo = job.todo /\ job'.running = FALSE
      BY <1>2, <1>6 DEF EndStep, Ends
    <2>3. w \in Words
      BY DEF Ends, Words
    <2>4. InFleet => Closed(Append(Told, w))
      BY <1>1, <2>1, EndAdded DEF ToldWell
    <2> QED
      BY <1>1, <2>1, <2>2, <2>3, <2>4, EventSent
  <1>7. ASSUME log' = Told, evq' = <<>>, job'.running = job.running
        PROVE  log' \in Seq(Words) /\ evq' \in Seq(Words) /\ Told' = Told /\ (InFleet => ToldWell')
    <2>1. Told' = Told
      BY <1>1, <1>7, Joined DEF Told, Words
    <2> QED
      BY <1>1, <1>7, <2>1 DEF ToldWell
  <1>8. CASE ApplyEvents
    BY <1>7, <1>8 DEF ApplyEvents, Told, RunInv, LogInv, InFleet
  <1>9. CASE ScriptEnds
    <2>1. log' = Told /\ evq' = <<>> /\ job.running = FALSE /\ job.todo # <<>> /\ pc = "script"
      BY <1>1, <1>9 DEF ScriptEnds, Drained, Told
    <2>2. CASE InFleet
      <3>1. job'.todo = job.todo /\ job'.running = FALSE /\ pc' = "next"
        BY <1>1, <1>9, <2>1, <2>2 DEF ScriptEnds, JobShape, Go
      <3>2. Closed(Told)
        BY <1>1, <2>1, <2>2 DEF ToldWell
      <3> QED
        BY <1>1, <2>1, <3>1, <3>2, NextWell
    <2>3. CASE ~InFleet
      <3>1. pc' = pc /\ link' = link
        BY <1>9, <2>3 DEF ScriptEnds
      <3>2. evq' \in Seq(Words)
        BY <2>1
      <3> QED
        BY <1>1, <2>1, <2>3, <3>1, <3>2 DEF LogInv, InFleet
    <2> QED
      BY <2>2, <2>3
  <1>10. CASE ScriptsDone
    <2>1. ~InFleet /\ pc' = "ready"
      BY <1>10 DEF ScriptsDone, RunInv, LogInv, Go
    <2> QED
      BY <1>10, <2>1 DEF ScriptsDone, RunInv, LogInv, InFleet, scripts
  <1> QED
    BY <1>3, <1>4, <1>5, <1>6, <1>8, <1>9, <1>10 DEF ScriptStep

LEMMA ShellWell == ASSUME RunInv, ShellStep PROVE LogInv'
  <1>1. CASE StartShell
    <2>1. ~InFleet
      BY <1>1 DEF StartShell, RunInv, LogInv
    <2>2. link'.kind = link.kind /\ pc' = "shell" /\ log' = log /\ evq' = evq
      BY <1>1 DEF StartShell, RunInv, LeavesInv, LinkShape, Go, scripts
    <2> QED
      BY <2>1, <2>2 DEF RunInv, LogInv, InFleet
  <1>2. CASE TypeKeys \/ IgnoreKey \/ BridgeKeys \/ SwitchScreen \/ ProbeAnswers \/ PollAnswers
    BY <1>2, StaysWell DEF TypeKeys, IgnoreKey, BridgeKeys, SwitchScreen, ProbeAnswers, PollAnswers, Metered, LogStays,
       RunInv, scripts, desk
  <1>3. CASE ShellReturns
    <2>1. link'.kind = link.kind
      BY <1>3 DEF ShellReturns, RunInv, LeavesInv, LinkShape
    <2> QED
      BY <1>3, <2>1, StaysWell DEF ShellReturns, LogStays, RunInv, scripts, desk
  <1>4. ASSUME NEW ok, NEW got, EndSession(ok, got) PROVE LogInv'
    BY <1>4, OverDrops, DroppedWell DEF EndSession
  <1>5. CASE ShellRefused \/ ConnectEnds \/ RemoteEnds
    BY <1>4, <1>5, OverDrops, DroppedWell DEF ShellRefused, ConnectEnds, RemoteEnds
  <1>6. CASE Tick
    <2>1. ASSUME UNCHANGED <<desk, pc, link, scripts>> PROVE LogInv'
      BY <2>1, StaysWell DEF LogStays, RunInv, scripts, desk
    <2> QED
      BY <1>4, <1>6, <2>1, OverDrops, DroppedWell DEF Tick
  <1> QED
    BY <1>1, <1>2, <1>3, <1>5, <1>6 DEF ShellStep

LEMMA FleetWell == ASSUME RunInv, FleetStep PROVE LogInv'
  <1>1. CASE RunScript
    <2>1. screen.at # "run" /\ log = <<>> /\ evq = <<>> /\ log' = log /\ evq' = evq /\ pc' = "next"
      BY <1>1 DEF RunScript, RunInv, LogInv, LeavesInv, Go
    <2>2. job'.running = FALSE /\ job'.todo # <<>>
      BY <1>1 DEF RunScript, NoJob
    <2>3. log' \in Seq(Words) /\ Closed(log')
      BY <2>1, NothingIsShown
    <2> QED
      BY <2>1, <2>2, <2>3, NextWell
  <1>2. CASE NextTarget
    <2>1. InFleet /\ pc = "next" /\ evq' = evq /\ pc' \in {"next", "dial"}
      BY <1>2 DEF NextTarget, RunInv, LeavesInv, InFleet, Go
    <2>2. job'.running = FALSE /\ job'.todo # <<>>
      BY <1>2, <2>1 DEF NextTarget, RunInv, StepsInv, JobShape, LogInv
    <2>3. "server" \in Words \ {"started"} /\ "connect error" \in Words \ {"started"}
      BY DEF Words
    <2>4. /\ log \in Seq(Words) /\ Closed(log) /\ evq = <<>>
          /\ Append(log, "server") \in Seq(Words) /\ Closed(Append(log, "server"))
          /\ Append(log, "connect error") \in Seq(Words) /\ Closed(Append(log, "connect error"))
      BY <2>1, <2>3, OneLineMore DEF RunInv
    <2>5. LET both == Append(Append(log, "server"), "connect error")
          IN both \in Seq(Words) /\ Closed(both)
      BY <2>3, <2>4, ClosedMore, Longer
    <2>6. \/ log' = log \/ log' = Append(log, "server") \/ log' = Append(log, "connect error")
          \/ log' = Append(Append(log, "server"), "connect error")
      <3>1. \E header \in {<<"server">>, <<>>} :
               log' = log \o header \/ log' = log \o Append(header, "connect error")
        BY <1>2 DEF NextTarget
      <3>2. /\ log \o <<>> = log /\ log \o <<"server">> = Append(log, "server")
            /\ log \o Append(<<>>, "connect error") = Append(log, "connect error")
            /\ log \o Append(<<"server">>, "connect error") = Append(Append(log, "server"), "connect error")
        <4>1. "server" \in Words /\ "connect error" \in Words
          BY <2>3
        <4>2. /\ <<"server">> \in Seq(Words) /\ Append(<<>>, "connect error") = <<"connect error">>
              /\ Append(<<"server">>, "connect error") = <<"server">> \o <<"connect error">>
          BY <4>1, OneLine, Zenon
        <4>3. log \o <<>> = log /\ log \o <<"server">> = Append(log, "server")
          BY <2>4, <4>1, <4>2, Joined, Zenon
        <4>4. log \o <<"connect error">> = Append(log, "connect error")
          BY <2>4, <4>1, <4>2, Joined, Zenon
        <4>5. log \o (<<"server">> \o <<"connect error">>) = Append(Append(log, "server"), "connect error")
          BY <2>4, <4>1, TwoLines, Zenon
        <4> QED
          BY <4>2, <4>3, <4>4, <4>5, Zenon
      <3> QED
        BY <3>1, <3>2
    <2> QED
      BY <2>1, <2>2, <2>4, <2>5, <2>6, NextWell
  <1>3. CASE RunEnds
    <2>1. InFleet /\ pc = "next" /\ log' = log /\ evq' = <<>> /\ screen'.at = "run" /\ link'.kind = "none"
      BY <1>3 DEF RunEnds, ShowRun, Reset, NoLink, Show, Screen, NoScreen, RunInv, LeavesInv, InFleet
    <2>2. log \in Seq(Words) /\ Closed(log)
      <3>1. "server" \in Words \ {"started"}
        BY DEF Words
      <3> QED
        BY <2>1, <3>1, OneLineMore DEF RunInv
    <2>3. StepsShown(log')
      BY <2>1, <2>2, ClosedIsShown
    <2> QED
      BY <2>1, <2>2, <2>3 DEF LogInv, InFleet
  <1>4. CASE RunTick /\ ~CancelKey(kb)
    <2>1. LogStays
      BY <1>4 DEF RunTick, LogStays, scripts, desk
    <2> QED
      BY <2>1, StaysWell DEF RunInv
  <1>5. CASE RunTick /\ CancelKey(kb)
    <2>1. /\ InFleet /\ log' = Append(Told, "cancelled") /\ evq' = <<>> /\ screen'.at = "run"
          /\ link'.kind = "none"
      <3>1. InFleet /\ ShowRun(Append(Drained(evq), "cancelled"))
        BY <1>5 DEF RunTick
      <3>2. log' = Append(Told, "cancelled") /\ Reset
        BY <3>1 DEF ShowRun, Drained, Told
      <3>3. screen'.at = "run"
        BY <3>1 DEF ShowRun, Show, Screen, NoScreen
      <3> QED
        BY <3>1, <3>2, <3>3 DEF Reset, NoLink
    <2>2. Told \in Seq(Words) /\ (Closed(Told) \/ OneOpen(Told))
      BY <2>1, ToldTyped DEF RunInv, LogInv, ToldWell
    <2>3. log' \in Seq(Words) /\ StepsShown(log')
      BY <2>1, <2>2, Longer, CancelledIsShown DEF Words
    <2> QED
      BY <2>1, <2>3 DEF LogInv, InFleet
  <1> QED
    BY <1>1, <1>2, <1>3, <1>4, <1>5 DEF FleetStep

LEMMA DeskWell == ASSUME RunInv, HandleKey1 PROVE LogInv'
  <1>1. /\ pc = "idle" /\ pc' = pc /\ link' = link /\ evq' = evq /\ ~InFleet
        /\ log' = IF screen'.at = "run" THEN log ELSE <<>>
    BY DEF HandleKey1, RunInv, LeavesInv, InFleet
  <1>2. log' \in Seq(Words) /\ StepsShown(log') /\ (screen'.at # "run" => log' = <<>>)
    BY <1>1, NothingIsShown DEF RunInv, LogInv
  <1> QED
    BY <1>1, <1>2 DEF RunInv, LogInv, InFleet

LEMMA RunInitially == Init => RunInv
  <1>1. Init => LogInv
    BY NothingIsShown DEF Init, SessionInit, NoLink, LogInv, InFleet
  <1> QED
    BY <1>1, PrefsInitially, LeavesInitially, StepsInitially DEF RunInv

LEMMA RunStep == ASSUME RunInv, [Next]_vars PROVE RunInv'
  <1>1. PrefsInv' /\ LeavesInv' /\ StepsInv'
    BY PrefsStep, LeavesStep, StepsStep DEF RunInv
  <1>2. CASE UNCHANGED vars
    <2>1. LogStays
      BY <1>2 DEF vars, desk, session, scripts, LogStays
    <2> QED
      BY <1>1, <2>1, StaysWell DEF RunInv
  <1>3. CASE Next
    <2>1. LogInv'
      BY <1>3, DeskWell, ConnectWell, ForwardWell, ScriptWell, ShellWell, FleetWell
         DEF Next, SessionNext
    <2> QED
      BY <1>1, <2>1 DEF RunInv
  <1> QED
    BY <1>2, <1>3

\* RunLogComplete: however a run ends, by its last step, Esc or a server that
\* is not reached, the log has the end of every step it has the start of
\* (run_script_flow, apply_run_event).
THEOREM LogComplete == Spec => []RunLogComplete
  <1>1. RunInv => RunLogComplete
    BY DEF RunInv, LogInv, RunLogComplete
  <1> QED
    BY RunInitially, RunStep, <1>1, PTL DEF Spec

-----------------------------------------------------------------------------
\* The pins: which key was learnt from which machine.

LEMMA LeastNumber ==
    ASSUME NEW S, S \subseteq Nat, S # {}
    PROVE  \E n \in S : \A m \in S : n <= m
  <1> DEFINE Less == OpToRel(<, Nat)
  <1>1. IsWellFoundedOn(Less, Nat)
    BY NatLessThanWellFounded
  <1>2. \A m, n \in S : <<m, n>> \in Less <=> m < n
    BY DEF OpToRel
  <1> HIDE DEF Less
  <1>3. PICK n \in S : \A m \in S : <<m, n>> \notin Less
    BY <1>1, WFMin
  <1>4. \A m \in S : ~(m < n)
    BY <1>2, <1>3
  <1> QED
    BY <1>4

\* The walk along the jumps stops, at the latest behind the last one that is
\* allowed: the hops are a list, of servers of the vault.
LEMMA HopsAreList ==
    ASSUME NEW servers, NEW id
    PROVE  /\ IsList(Walk(servers, id).hops)
           /\ \A k \in DOMAIN Walk(servers, id).hops : Walk(servers, id).hops[k] \in IdsOf(servers)
  <1> DEFINE hop(n) == Hop(servers, id, n)
             looped(n) == \E k \in 0..(n - 1) : hop(k) = hop(n)
             Stops(n) == hop(n) = 0 \/ looped(n) \/ hop(n) \notin IdsOf(servers) \/ n = MaxJumps + 1
             Goes1(k) == hop(k) # 0 /\ ~looped(k) /\ hop(k) \in IdsOf(servers)
             stop == CHOOSE n \in 1..(MaxJumps + 1) :
                       /\ hop(n) = 0 \/ looped(n) \/ hop(n) \notin IdsOf(servers) \/ n = MaxJumps + 1
                       /\ \A k \in 1..(n - 1) : hop(k) # 0 /\ ~looped(k) /\ hop(k) \in IdsOf(servers)
             S == {n \in 1..(MaxJumps + 1) : Stops(n)}
  <1>1. MaxJumps \in Nat
    BY DeskAssumption
  <1>2. S \subseteq Nat /\ MaxJumps + 1 \in S
    BY <1>1
  <1>3. ASSUME NEW k \in 1..(MaxJumps + 1), k \notin S PROVE Goes1(k)
    BY <1>3
  <1>4. PICK n \in S : \A m \in S : n <= m
    <2> HIDE DEF S
    <2> QED
      BY <1>2, LeastNumber
  <1>5. \A k \in 1..(n - 1) : Goes1(k)
    <2> TAKE k \in 1..(n - 1)
    <2>1. k \in 1..(MaxJumps + 1) /\ ~(n <= k)
      BY <1>1, <1>2, <1>4
    <2> HIDE DEF Goes1
    <2> QED
      BY <1>3, <1>4, <2>1
  <1>6. n \in 1..(MaxJumps + 1) /\ Stops(n)
    BY <1>4
  <1>7. stop \in 1..(MaxJumps + 1) /\ \A k \in 1..(stop - 1) : hop(k) \in IdsOf(servers)
    <2> HIDE DEF hop, looped
    <2> QED
      BY <1>5, <1>6
  <1>8. Walk(servers, id).hops = [k \in 1..(stop - 1) |-> hop(stop - k)]
    BY DEF Walk
  <1> HIDE DEF stop, hop
  <1>9. PICK len \in Nat : len = stop - 1
    BY <1>1, <1>7
  <1> DEFINE hops == [k \in 1..len |-> hop(stop - k)]
             T == {hops[k] : k \in 1..len}
  <1>10. hops \in Seq(T)
    OBVIOUS
  <1>11. Walk(servers, id).hops = hops
    BY <1>8, <1>9
  <1>12. \A k \in 1..len : stop - k \in 1..(stop - 1)
    BY <1>1, <1>7, <1>9
  <1>13. \A k \in DOMAIN hops : hops[k] \in IdsOf(servers)
    BY <1>7, <1>12
  <1> HIDE DEF hops, T
  <1> QED
    BY <1>10, <1>11, <1>13, SeqIsList

LEMMA TailList ==
    ASSUME NEW list, IsList(list), list # <<>>
    PROVE  /\ IsList(Tail(list)) /\ Len(Tail(list)) = Len(list) - 1 /\ Len(list) \in Nat \ {0}
           /\ Head(list) = list[1] /\ 1 \in DOMAIN list
           /\ \A i \in DOMAIN Tail(list) : i + 1 \in DOMAIN list /\ Tail(list)[i] = list[i + 1]
           /\ Tail(list) = <<>> => Len(list) = 1
  <1> DEFINE S == ToSet(list)
  <1>1. list \in Seq(S) /\ Len(list) \in Nat
    BY DEF IsList
  <1> HIDE DEF S
  <1>2. Tail(list) \in Seq(S) /\ Len(Tail(list)) = Len(list) - 1 /\ Len(list) # 0 /\ Head(list) = list[1]
    BY <1>1
  <1>3. \A i \in 1..(Len(list) - 1) : Tail(list)[i] = list[i + 1]
    BY <1>1, <1>2
  <1>4. IsList(Tail(list))
    BY <1>2, SeqIsList
  <1>5. DOMAIN list = 1..Len(list) /\ DOMAIN Tail(list) = 1..(Len(list) - 1)
    BY <1>1, <1>2
  <1>6. Tail(list) = <<>> => Len(list) = 1
    <2> SUFFICES ASSUME Tail(list) = <<>> PROVE Len(list) = 1
      OBVIOUS
    <2>1. PICK t : t = Tail(list)
      OBVIOUS
    <2>2. t \in Seq(S) /\ Len(t) = Len(list) - 1 /\ t = <<>>
      BY <1>2, <2>1
    <2>3. Len(t) = 0
      BY <2>2
    <2> QED
      BY <1>1, <2>2, <2>3
  <1> QED
    BY <1>1, <1>2, <1>3, <1>4, <1>5, <1>6

\* The hops of a connection and its destination, in the order they are opened.
Chain == Append(link.hops, link.sid)
\* The key is one to pin, and the machine of that server showed it.
Pinnable(key, id) ==
    key # NoPin => Find(Servers, id).pin = NoPin /\ key[1] = Find(Servers, id).host

\* What was learnt so far is of the hops already open, one each.
Learning ==
    /\ IsList(link.hops) /\ IsList(link.left) /\ IsList(link.learnt)
    /\ link.left # <<>> /\ Len(link.learnt) + Len(link.left) = Len(Chain)
    /\ \A i \in DOMAIN link.left : link.left[i] = Chain[Len(link.learnt) + i]
    /\ \A i \in DOMAIN link.learnt : Pinnable(link.learnt[i], Chain[i])
    /\ pc = "auth" => Pinnable(link.key, Head(link.left))
PinsInv == pc \in {"dial", "auth"} => Learning

\* What a step does to the connection.
Dials == pc' = "dial" /\ mem' = mem /\ \E kind, id : link' = Dialled(kind, id)
Shakes ==
    /\ pc = "dial" /\ pc' = "auth" /\ mem' = mem
    /\ LET server == Find(Servers, Head(link.left))
       IN \E gen \in {0, 1} : link' = [link EXCEPT !.key = IF server.pin = NoPin THEN <<server.host, gen>> ELSE NoPin]
HopsOn ==
    /\ pc = "auth" /\ pc' = "dial" /\ mem' = mem /\ Tail(link.left) # <<>>
    /\ link' = [link EXCEPT !.learnt = Append(link.learnt, link.key), !.left = Tail(link.left), !.key = NoPin]
Connecting ==
    \/ Dials \/ Shakes \/ HopsOn \/ UNCHANGED <<mem, pc, link>> \/ pc' \notin {"dial", "auth"}

LEMMA LearningSame ==
    ASSUME UNCHANGED <<mem, pc, link>>, PinsInv PROVE PinsInv'
  BY DEF PinsInv, Learning, Chain, Pinnable, Servers

LEMMA DialsLearning == ASSUME Dials PROVE PinsInv'
  <1>1. PICK kind, id : link' = Dialled(kind, id) /\ pc' = "dial"
    BY DEF Dials
  <1>2. PICK hops : hops = Walk(Servers, id).hops /\ IsList(hops)
    BY HopsAreList
  <1>3. link' = [NoLink EXCEPT !.kind = kind, !.sid = id, !.hops = hops, !.left = Append(hops, id)]
    BY <1>1, <1>2 DEF Dialled
  <1>4. PICK l : l = link' /\ l.hops = hops /\ l.sid = id /\ l.left = Append(hops, id) /\ l.learnt = <<>>
    <2>1. PICK left, l : left = Append(hops, id) /\ l = link'
      OBVIOUS
    <2>2. l = [kind |-> kind, sid |-> id, hops |-> hops, left |-> left, learnt |-> <<>>,
               key |-> NoPin, shell |-> "none"]
      BY <1>3, <2>1 DEF NoLink
    <2> QED
      BY <2>1, <2>2
  <1>5. /\ IsList(l.left) /\ Len(l.left) = Len(hops) + 1 /\ Len(hops) \in Nat /\ l.left # <<>>
        /\ DOMAIN l.left = 1..(Len(hops) + 1)
    <2>1. IsList(Append(hops, id)) /\ Len(Append(hops, id)) = Len(hops) + 1
      BY <1>2, AppendedList
    <2>2. Len(Append(hops, id)) \in Nat /\ DOMAIN Append(hops, id) = 1..Len(Append(hops, id))
      BY <2>1, Lists
    <2>3. Len(hops) \in Nat
      BY <1>2, Lists
    <2>4. Append(hops, id) # <<>>
      BY <2>1, <2>3, NoList
    <2> QED
      BY <1>4, <2>1, <2>2, <2>3, <2>4
  <1>6. /\ Append(l.hops, l.sid) = l.left /\ IsList(l.hops) /\ IsList(l.learnt)
        /\ Len(l.learnt) = 0 /\ DOMAIN l.learnt = {}
    BY <1>2, <1>4, NoList
  <1>7. Len(l.learnt) + Len(l.left) = Len(l.left) /\ \A i \in DOMAIN l.left : Len(l.learnt) + i = i
    BY <1>5, <1>6
  <1> QED
    BY <1>1, <1>4, <1>5, <1>6, <1>7 DEF PinsInv, Learning, Chain

LEMMA ShakesLearning == ASSUME PinsInv, LinkShape(link), Shakes PROVE PinsInv'
  <1> DEFINE server == Find(Servers, Head(link.left))
  <1>1. PICK key, gen : /\ link' = [link EXCEPT !.key = key]
                        /\ key = IF server.pin = NoPin THEN <<server.host, gen>> ELSE NoPin
    BY DEF Shakes
  <1>2. /\ link'.hops = link.hops /\ link'.sid = link.sid /\ link'.left = link.left
        /\ link'.learnt = link.learnt /\ link'.key = key
    BY <1>1 DEF LinkShape
  <1>3. Learning /\ Servers' = Servers
    BY DEF Shakes, PinsInv, Servers
  <1>4. Pinnable(key, Head(link.left))
    BY <1>1 DEF Pinnable
  <1> QED
    BY <1>2, <1>3, <1>4 DEF PinsInv, Learning, Chain, Pinnable

\* One more is learnt: of the hop that was the next one.
LEMMA LearntMore ==
    ASSUME Learning, pc = "auth"
    PROVE  LET learnt == Append(link.learnt, link.key)
           IN /\ IsList(learnt) /\ IsList(Tail(link.left))
              /\ Len(learnt) = Len(link.learnt) + 1 /\ Len(learnt) \in Nat
              /\ Len(learnt) + Len(Tail(link.left)) = Len(Chain)
              /\ \A i \in DOMAIN Tail(link.left) : Tail(link.left)[i] = Chain[Len(learnt) + i]
              /\ \A i \in DOMAIN learnt : Pinnable(learnt[i], Chain[i])
              /\ learnt[Len(learnt)] = link.key
              /\ Tail(link.left) = <<>> => Len(learnt) = Len(Chain)
  <1>1. PICK old, key, left, chain, learnt :
           /\ old = link.learnt /\ key = link.key /\ left = link.left /\ chain = Chain
           /\ learnt = Append(old, key)
    BY Zenon
  <1>2. /\ IsList(old) /\ IsList(left) /\ left # <<>> /\ Len(old) + Len(left) = Len(chain)
        /\ \A i \in DOMAIN left : left[i] = chain[Len(old) + i]
        /\ \A i \in DOMAIN old : Pinnable(old[i], chain[i])
        /\ Pinnable(key, Head(left))
    BY <1>1 DEF Learning
  <1>3. /\ IsList(learnt) /\ Len(learnt) = Len(old) + 1 /\ learnt[Len(old) + 1] = key
        /\ \A i \in DOMAIN old : learnt[i] = old[i]
    BY <1>1, <1>2, AppendedList
  <1>4. /\ IsList(Tail(left)) /\ Len(Tail(left)) = Len(left) - 1 /\ Len(left) \in Nat \ {0}
        /\ Head(left) = left[1] /\ 1 \in DOMAIN left
        /\ \A i \in DOMAIN Tail(left) : i + 1 \in DOMAIN left /\ Tail(left)[i] = left[i + 1]
        /\ Tail(left) = <<>> => Len(left) = 1
    BY <1>2, TailList
  <1>5. Len(old) \in Nat /\ DOMAIN old = 1..Len(old) /\ DOMAIN learnt = 1..(Len(old) + 1)
    BY <1>2, <1>3, Lists
  <1>6. Len(learnt) \in Nat /\ Len(learnt) + Len(Tail(left)) = Len(chain)
        /\ (Tail(left) = <<>> => Len(learnt) = Len(chain))
    BY <1>2, <1>3, <1>4, <1>5
  <1>7. ASSUME NEW i \in DOMAIN Tail(left) PROVE Tail(left)[i] = chain[Len(learnt) + i]
    <2>1. DOMAIN Tail(left) = 1..(Len(left) - 1)
      BY <1>4, Lists
    <2>2. Len(old) + (i + 1) = Len(learnt) + i
      BY <1>3, <1>4, <1>5, <2>1
    <2> QED
      BY <1>2, <1>4, <2>2
  <1>8. ASSUME NEW i \in DOMAIN learnt PROVE Pinnable(learnt[i], chain[i])
    <2>1. CASE i \in DOMAIN old
      BY <1>2, <1>3, <2>1
    <2>2. CASE i = Len(old) + 1
      BY <1>2, <1>3, <1>4, <2>2
    <2> QED
      BY <1>5, <2>1, <2>2
  <1> QED
    BY <1>1, <1>3, <1>4, <1>6, <1>7, <1>8

LEMMA HopsOnLearning == ASSUME PinsInv, LinkShape(link), HopsOn PROVE PinsInv'
  <1>1. PICK learnt : learnt = Append(link.learnt, link.key)
    OBVIOUS
  <1>2. /\ link'.hops = link.hops /\ link'.sid = link.sid /\ link'.left = Tail(link.left)
        /\ link'.learnt = learnt
    BY <1>1 DEF LinkShape, HopsOn
  <1>3. Learning /\ Servers' = Servers /\ pc' = "dial" /\ Tail(link.left) # <<>>
    BY DEF HopsOn, PinsInv, Servers
  <1>4. /\ IsList(learnt) /\ IsList(Tail(link.left))
        /\ Len(learnt) + Len(Tail(link.left)) = Len(Chain)
        /\ \A i \in DOMAIN Tail(link.left) : Tail(link.left)[i] = Chain[Len(learnt) + i]
        /\ \A i \in DOMAIN learnt : Pinnable(learnt[i], Chain[i])
    BY <1>1, <1>3, LearntMore DEF HopsOn
  <1>5. Chain' = Chain /\ IsList(link.hops)
    BY <1>2, <1>3 DEF Chain, Learning
  <1> QED
    BY <1>2, <1>3, <1>4, <1>5 DEF PinsInv, Learning, Pinnable

LEMMA PinsKept == ASSUME PinsInv, LinkShape(link), Connecting PROVE PinsInv'
  <1>1. pc' \notin {"dial", "auth"} => PinsInv'
    BY DEF PinsInv
  <1> QED
    BY <1>1, LearningSame, DialsLearning, ShakesLearning, HopsOnLearning DEF Connecting

LEMMA ConnectGoesOn == ASSUME ConnectStep PROVE Connecting
  <1>1. Connect => Connecting
    BY DEF Connect, Fails, Goes, Go, Connecting, Dials
  <1>2. Failed => pc' \notin {"dial", "auth"}
    BY DEF Failed, Go, Over, Reset
  <1>3. Dial => Connecting
    <2> SUFFICES ASSUME Dial, ~Failed PROVE Shakes
      BY <1>2 DEF Connecting
    <2>1. PICK gen \in {0, 1} : \E key :
             /\ key = <<Find(Servers, Head(link.left)).host, gen>>
             /\ link' = [link EXCEPT !.key = IF Find(Servers, Head(link.left)).pin = NoPin THEN key ELSE NoPin]
             /\ Go("auth") /\ UNCHANGED desk
      BY DEF Dial
    <2> QED
      BY <2>1 DEF Dial, Shakes, Go, desk
  <1>4. Authenticate => Connecting
    <2> SUFFICES ASSUME Authenticate, ~Failed PROVE Connecting
      BY <1>2 DEF Connecting
    <2>1. CASE Tail(link.left) = <<>>
      BY <2>1 DEF Authenticate, Established, Go, Connecting
    <2>2. CASE Tail(link.left) # <<>>
      BY <2>2 DEF Authenticate, Go, Connecting, HopsOn, desk
    <2> QED
      BY <2>1, <2>2
  <1>5. ConnectTick => Connecting
    BY DEF ConnectTick, Over, Reset, Connecting, desk
  <1> QED
    BY <1>1, <1>3, <1>4, <1>5 DEF ConnectStep

LEMMA SessionGoesOn == ASSUME SessionNext PROVE Connecting
  <1>1. ASSUME ForwardStep PROVE Connecting
    <2>1. StartForward => Connecting
      BY DEF StartForward, Connecting, desk
    <2>2. ForwardsStarted => Connecting
      BY DEF ForwardsStarted, Over, Reset, Go, Connecting
    <2>3. AcceptForward \/ SocksHandshake \/ ChannelAnswer \/ PushedChannel \/ DialLocal \/ CloseConn
             => Connecting
      BY DEF AcceptForward, SocksHandshake, ChannelAnswer, PushedChannel, DialLocal, CloseConn, Others,
             Connecting, desk
    <2> QED
      BY <1>1, <2>1, <2>2, <2>3 DEF ForwardStep
  <1>2. ScriptStep => Connecting
    BY DEF ScriptStep, SkipStep, StartStep, StepOutput, EndStep, ApplyEvents, ScriptEnds, ScriptsDone,
           InScript, Go, Connecting, desk
  <1>3. ASSUME ShellStep PROVE Connecting
    <2>1. StartShell \/ TypeKeys \/ IgnoreKey \/ BridgeKeys \/ SwitchScreen \/ ProbeAnswers \/ PollAnswers \/ ShellReturns
             => Connecting
      BY DEF StartShell, TypeKeys, IgnoreKey, BridgeKeys, SwitchScreen, ProbeAnswers, PollAnswers, ShellReturns, InShell, Metered,
             Go, Connecting, desk
    <2>2. ShellRefused => Connecting
      BY DEF ShellRefused, Over, Reset, Connecting
    <2>3. ASSUME NEW ok, NEW got, EndSession(ok, got) PROVE Connecting
      BY <2>3 DEF EndSession, Over, Reset, Connecting
    <2>4. Tick => Connecting
      BY <2>3 DEF Tick, Over, Reset, Connecting, desk
    <2>5. ConnectEnds \/ RemoteEnds => Connecting
      BY <2>3 DEF ConnectEnds, RemoteEnds
    <2> QED
      BY <1>3, <2>1, <2>2, <2>4, <2>5 DEF ShellStep
  <1>4. ASSUME FleetStep PROVE Connecting
    <2>1. RunScript => Connecting
      BY DEF RunScript, Go, Connecting
    <2>2. NextTarget => Connecting
      BY DEF NextTarget, Go, Connecting, Dials, desk
    <2>3. RunEnds \/ RunTick => Connecting
      BY DEF RunEnds, RunTick, ShowRun, Reset, Connecting, desk
    <2> QED
      BY <1>4, <2>1, <2>2, <2>3 DEF FleetStep
  <1> QED
    BY <1>1, <1>2, <1>3, <1>4, ConnectGoesOn DEF SessionNext

LEMMA PinsStep == ASSUME PinsInv, LeavesInv, [Next]_vars PROVE PinsInv'
  <1>1. HandleKey1 => Connecting
    BY DEF HandleKey1, Connecting
  <1>2. UNCHANGED vars => Connecting
    BY DEF vars, desk, session, Connecting
  <1>3. LinkShape(link)
    BY DEF LeavesInv
  <1> QED
    BY <1>1, <1>2, <1>3, SessionGoesOn, PinsKept DEF Next

\* No edit gives a server a pin or takes it away.
LEMMA DeskPins ==
    ASSUME AppInv, VaultInv', DeskEdit, Running, NEW id \in ServersIn(mem) \cap ServersIn(mem')
    PROVE  Find(mem'.servers, id).pin = Find(mem.servers, id).pin
  <1>1. PICK k \in DOMAIN mem'.servers : mem'.servers[k].id = id
    BY DEF ServersIn, IdsOf
  <1>2. IsVault(mem'.servers, nextId') /\ IsVault(Servers, nextId) /\ nextId \in Nat
    BY DEF VaultInv, AppInv, Servers
  <1>3. \E i \in DOMAIN Servers : Servers[i].id = id /\ mem'.servers[k].pin = Servers[i].pin
    <2>1. CASE SameBut(Servers, mem'.servers, screen.sid)
      BY <1>1, <2>1 DEF SameBut
    <2>2. CASE Extended(Servers, mem'.servers, nextId, nextId')
      <3>1. DOMAIN Servers = 1..Len(Servers) /\ Len(Servers) \in Nat
        BY <1>2, Lists DEF IsVault
      <3>2. DOMAIN mem'.servers = 1..Len(mem'.servers) /\ Len(mem'.servers) \in Nat
        BY <1>2, Lists DEF IsVault
      <3>3. id \in 1..(nextId - 1)
        BY <1>2 DEF ServersIn, IdsOf, IsVault, Servers
      <3>4. CASE k \in DOMAIN Servers
        BY <1>1, <2>2, <3>4 DEF Extended
      <3>5. CASE k \notin DOMAIN Servers
        <4>1. k \in (Len(Servers) + 1)..Len(mem'.servers)
          BY <3>1, <3>2, <3>5
        <4>2. id = nextId + (k - Len(Servers) - 1)
          BY <1>1, <2>2, <4>1 DEF Extended
        <4> QED
          BY <1>2, <3>1, <3>2, <3>3, <4>1, <4>2
      <3> QED
        BY <3>4, <3>5
    <2>3. CASE Shorter(Servers, mem'.servers, screen.sid)
      <3>1. PICK i \in DOMAIN Servers : \/ mem'.servers[k] = Servers[i]
                                        \/ mem'.servers[k] = [Servers[i] EXCEPT !.jump = 0]
        BY <2>3 DEF Shorter
      <3>2. PICK s : s = Servers[i] /\ IsServer(s)
        BY <1>2 DEF IsVault
      <3>3. [s EXCEPT !.jump = 0].id = s.id /\ [s EXCEPT !.jump = 0].pin = s.pin
        BY <3>2, ServerFields
      <3> QED
        BY <1>1, <3>1, <3>2, <3>3
    <2> QED
      BY <2>1, <2>2, <2>3 DEF DeskEdit, Running, Forgotten
  <1>4. Find(mem'.servers, id) = mem'.servers[k]
    BY <1>1, <1>2, FoundAt
  <1> QED
    BY <1>2, <1>3, <1>4, FoundAt DEF Servers

LEMMA SessionPins ==
    ASSUME AppInv, VaultInv', PinsInv, SessionEdit, Running, NEW id \in ServersIn(mem) \cap ServersIn(mem')
    PROVE  LET old == Find(mem.servers, id) new == Find(mem'.servers, id)
           IN new.pin # old.pin => old.pin = NoPin /\ new.pin[1] = new.host
  <1>1. CASE mem' = mem
    BY <1>1
  <1>2. CASE Recorded
    <2>1. PICK o : /\ o = Append(link.learnt, link.key) /\ Tail(link.left) = <<>> /\ pc = "auth"
                   /\ mem'.servers = [x \in DOMAIN Servers |-> Pinned(o, Servers[x])]
      BY <1>2 DEF Recorded
    <2>2. PICK i \in DOMAIN Servers : Servers[i].id = id /\ IsServer(Servers[i])
      BY DEF ServersIn, IdsOf, Servers, AppInv, VaultInv, IsVault
    <2>3. PICK s, r : s = Servers[i] /\ r = mem'.servers[i] /\ r = Pinned(o, s) /\ i \in DOMAIN mem'.servers
      BY <2>1
    <2>4. Find(mem.servers, id) = s
      BY <2>2, <2>3, FoundAt DEF AppInv, VaultInv, Servers
    <2>5. /\ r.id = id /\ r.host = s.host
          /\ \/ r.pin = s.pin
             \/ s.id = link.sid /\ r.pin = Last(o) /\ Last(o) # NoPin
             \/ \E k \in DOMAIN link.hops : link.hops[k] = s.id /\ r.pin = o[k] /\ o[k] # NoPin
      BY <2>2, <2>3, PinnedIs
    <2>6. Find(mem'.servers, id) = r
      BY <2>3, <2>5, FoundAt DEF VaultInv
    <2>7. /\ IsList(o) /\ Len(o) \in Nat /\ Len(o) = Len(Chain) /\ IsList(link.hops)
          /\ \A k \in DOMAIN o : Pinnable(o[k], Chain[k])
      BY <2>1, LearntMore DEF PinsInv, Learning
    <2>8. /\ Len(Chain) = Len(link.hops) + 1 /\ Chain[Len(link.hops) + 1] = link.sid
          /\ \A k \in DOMAIN link.hops : Chain[k] = link.hops[k]
      BY <2>7, AppendedList DEF Chain
    <2>9. DOMAIN o = 1..Len(o) /\ DOMAIN link.hops = 1..Len(link.hops) /\ Len(link.hops) \in Nat
      BY <2>7, Lists
    <2>10. ASSUME NEW k \in DOMAIN o, Chain[k] = s.id, r.pin = o[k], o[k] # NoPin
           PROVE  s.pin = NoPin /\ r.pin[1] = r.host
      BY <2>2, <2>3, <2>4, <2>5, <2>7, <2>10 DEF Pinnable, Servers
    <2>11. CASE s.id = link.sid /\ r.pin = Last(o) /\ Last(o) # NoPin
      <3>1. Last(o) = o[Len(o)] /\ Len(o) \in DOMAIN o /\ Chain[Len(o)] = link.sid
        BY <2>7, <2>8, <2>9 DEF Last
      <3> QED
        BY <2>4, <2>6, <2>10, <2>11, <3>1
    <2>12. ASSUME NEW k \in DOMAIN link.hops, link.hops[k] = s.id, r.pin = o[k], o[k] # NoPin
           PROVE  s.pin = NoPin /\ r.pin[1] = r.host
      <3>1. k \in DOMAIN o
        BY <2>7, <2>8, <2>9, <2>12
      <3> QED
        BY <2>8, <2>10, <2>12, <3>1
    <2> QED
      BY <2>4, <2>5, <2>6, <2>11, <2>12
  <1> QED
    BY <1>1, <1>2 DEF SessionEdit, Running, Forgotten

LEMMA PinsAreOwn ==
    ASSUME AppInv, PinsInv, [Next]_vars, Running, NEW id \in ServersIn(mem) \cap ServersIn(mem')
    PROVE  LET old == Find(mem.servers, id) new == Find(mem'.servers, id)
           IN new.pin # old.pin => old.pin = NoPin /\ new.pin[1] = new.host
  <1>1. VaultInv' /\ ((pc = "idle" /\ DeskEdit) \/ SessionEdit \/ UNCHANGED vars)
    BY AppStep DEF AppInv
  <1>2. ASSUME UNCHANGED vars PROVE SessionEdit
    BY <1>2 DEF vars, desk, SessionEdit
  <1>3. CASE DeskEdit
    BY <1>1, <1>3, DeskPins
  <1>4. CASE SessionEdit
    BY <1>1, <1>4, SessionPins
  <1> QED
    BY <1>1, <1>2, <1>3, <1>4

\* PinIsOwnKey: a key is pinned only for a server that had none, and it is one that
\* server showed, through however many hops and however they failed before
\* (record_session, observe_jumps).
THEOREM PinsAreTheirOwn == Spec => PinIsOwnKey
  <1>1. Init => AppInv /\ PinsInv /\ LeavesInv
    <2>1. Init => PinsInv
      BY DEF Init, SessionInit, PinsInv
    <2> QED
      BY <2>1, AppInitially, LeavesInitially
  <1>2. AppInv /\ PinsInv /\ LeavesInv /\ [Next]_vars => AppInv' /\ PinsInv' /\ LeavesInv'
    BY AppStep, PinsStep, LeavesStep
  <1>3. ASSUME AppInv, PinsInv, [Next]_vars
        PROVE  [Running => \A id \in ServersIn(mem) \cap ServersIn(mem') :
          LET old == Find(mem.servers, id) new == Find(mem'.servers, id)
          IN new.pin # old.pin => old.pin = NoPin /\ new.pin[1] = new.host]_vars
    BY <1>3, PinsAreOwn
  <1> QED
    BY <1>1, <1>2, <1>3, PTL DEF Spec, PinIsOwnKey

-----------------------------------------------------------------------------
\* The forwards: what is served, and for whom.

On == IdsOf(EnabledRules(link.sid))

\* A forwarded connection, told apart from another by any of its fields.
ConnShape(c) == {"rule", "kind", "from", "told", "state"} \subseteq DOMAIN c
ConnOK(c) ==
    /\ ConnShape(c)
    /\ c.kind = "remote" => c.from = link.sid
    /\ c.rule \in On
    /\ c.told = "succeeded" => c.state \in {"copying", "closed"}

Served == {"bind", "script", "ready", "shell"}
\* No listener and no connection but of a session that is served, and its rules are
\* those that are on.
ConnsInv ==
    /\ pc \notin Served \/ InFleet => conns = {} /\ listeners = {}
    /\ pc \in {"dial", "auth"} /\ ~InFleet => link.sid \in IdsOf(Servers)
    /\ pc = "bind" => ~InFleet /\ IsList(rules) /\ \A i \in DOMAIN rules : rules[i].id \in On
    /\ listeners \subseteq On
    /\ \A c \in conns : ConnOK(c)

\* What a step does to the forwards.
SameSession == link'.sid = link.sid /\ link'.kind = link.kind /\ mem' = mem
Silent == UNCHANGED <<conns, listeners>>
\* Nothing to serve, before and after.
Quieted ==
    /\ conns' = {} /\ listeners' = {} /\ pc' \notin {"bind"}
    /\ pc' \in {"dial", "auth"} /\ link'.kind # "fleet" => link'.sid \in IdsOf(mem'.servers)
Serves ==
    /\ pc \in Served /\ pc' \in Served /\ (pc' = "bind" => pc = "bind") /\ SameSession
    /\ \/ conns' \subseteq conns
       \/ \E c : /\ conns' \subseteq conns \cup {c}
                 /\ ~InFleet /\ ConnOK(c)
    /\ \/ listeners' = listeners /\ rules' = rules
       \/ pc' # "bind" /\ listeners' = listeners
       \/ /\ pc = "bind" /\ rules # <<>> /\ rules' = Tail(rules)
          /\ listeners' \subseteq listeners \cup {Head(rules).id}
Starts ==
    /\ pc = "auth" /\ pc' = "bind" /\ ~InFleet /\ Silent
    /\ link'.sid = link.sid /\ link'.kind = link.kind
    /\ rules' = EnabledRules(link.sid) /\ Recorded

LEMMA EnabledAreList ==
    ASSUME VaultInv, NEW id \in IdsOf(Servers)
    PROVE  /\ IsList(EnabledRules(id))
           /\ \A i \in DOMAIN EnabledRules(id) : EnabledRules(id)[i].id \in IdsOf(EnabledRules(id))
  <1>1. PICK all : all = Find(Servers, id).forwards /\ IsList(all)
    <2>1. PICK i \in DOMAIN Servers : Find(Servers, id) = Servers[i]
      BY FoundIn DEF VaultInv, Servers
    <2> QED
      BY <2>1, ServerRules
  <1> DEFINE places == {i \in DOMAIN all : all[i].enabled}
  <1>2. places \subseteq DOMAIN all /\ EnabledRules(id) = EntriesAt(all, places)
    BY <1>1 DEF EnabledRules
  <1> HIDE DEF places
  <1>3. IsList(EntriesAt(all, places))
    BY <1>1, <1>2, ChosenEntries
  <1> QED
    BY <1>2, <1>3 DEF IdsOf

\* record_session leaves the forwards as they are.
LEMMA RulesStay ==
    ASSUME VaultInv, VaultInv', Recorded, NEW id \in IdsOf(Servers), link'.sid = id
    PROVE  On' = IdsOf(EnabledRules(id))
  <1>1. PICK i \in DOMAIN Servers : Servers[i].id = id /\ Find(Servers, id) = Servers[i] /\ IsServer(Servers[i])
    <2>1. IsVault(Servers, nextId)
      BY DEF VaultInv, Servers
    <2>2. PICK i \in DOMAIN Servers : Servers[i].id = id /\ Find(Servers, id) = Servers[i]
      BY <2>1, FoundIn
    <2> QED
      BY <2>1, <2>2 DEF IsVault
  <1>2. PICK o : mem'.servers = [x \in DOMAIN Servers |-> Pinned(o, Servers[x])]
    BY DEF Recorded
  <1>3. PICK r : r = mem'.servers[i] /\ r.id = id /\ r.forwards = Servers[i].forwards /\ i \in DOMAIN mem'.servers
    BY <1>1, <1>2, PinnedIs
  <1>4. Find(mem'.servers, id) = r
    BY <1>3, FoundAt DEF VaultInv
  <1>5. On' = IdsOf(EntriesAt(Find(mem'.servers, id).forwards,
                              {j \in DOMAIN Find(mem'.servers, id).forwards :
                                  Find(mem'.servers, id).forwards[j].enabled}))
    BY DEF On, EnabledRules, Servers
  <1> QED
    BY <1>1, <1>3, <1>4, <1>5 DEF EnabledRules

LEMMA StartsKept == ASSUME ConnsInv, VaultInv, VaultInv', Starts PROVE ConnsInv'
  <1>1. link.sid \in IdsOf(Servers) /\ conns = {} /\ listeners = {}
    BY DEF ConnsInv, Starts, Served
  <1>2. On' = IdsOf(EnabledRules(link.sid))
    BY <1>1, RulesStay DEF Starts
  <1>3. IsList(rules') /\ \A i \in DOMAIN rules' : rules'[i].id \in On'
    BY <1>1, <1>2, EnabledAreList DEF Starts
  <1> QED
    BY <1>1, <1>3 DEF ConnsInv, Starts, Silent, InFleet, Served

LEMMA QuietedKept == ASSUME ConnsInv, Quieted PROVE ConnsInv'
  BY DEF ConnsInv, Quieted, InFleet, Servers

LEMMA ServesKept == ASSUME ConnsInv, Serves PROVE ConnsInv'
  <1>1. On' = On /\ Servers' = Servers /\ InFleet' = InFleet
    BY DEF Serves, SameSession, On, EnabledRules, Servers, InFleet
  <1>2. \A c : ConnOK(c) => ConnOK(c)'
    BY <1>1 DEF ConnOK, Serves, SameSession
  <1>3. \A c \in conns' : ConnOK(c)'
    BY <1>2 DEF Serves, ConnsInv
  <1>4. InFleet => conns' = {} /\ listeners' = {}
    BY DEF Serves, ConnsInv
  <1>5. CASE listeners' = listeners /\ (rules' = rules \/ pc' # "bind")
    BY <1>1, <1>3, <1>4, <1>5 DEF ConnsInv, Serves, Served
  <1>6. CASE /\ pc = "bind" /\ rules # <<>> /\ rules' = Tail(rules)
             /\ listeners' \subseteq listeners \cup {Head(rules).id}
    <2>1. IsList(rules) /\ ~InFleet /\ \A i \in DOMAIN rules : rules[i].id \in On
      BY <1>6 DEF ConnsInv
    <2>2. /\ IsList(rules') /\ Head(rules) = rules[1] /\ 1 \in DOMAIN rules
          /\ \A i \in DOMAIN rules' : i + 1 \in DOMAIN rules /\ rules'[i] = rules[i + 1]
      BY <1>6, <2>1, TailList
    <2>3. listeners' \subseteq On /\ \A i \in DOMAIN rules' : rules'[i].id \in On
      BY <1>6, <2>1, <2>2 DEF ConnsInv
    <2> QED
      BY <1>1, <1>3, <2>1, <2>2, <2>3 DEF ConnsInv, Serves, Served
  <1> QED
    BY <1>5, <1>6 DEF Serves

Still == UNCHANGED <<conns, listeners, rules, pc, link, mem>>
ForwardsGo == Starts \/ Quieted \/ Serves \/ Still

LEMMA DialledIs ==
    ASSUME NEW kind, NEW id PROVE Dialled(kind, id).sid = id /\ Dialled(kind, id).kind = kind
  <1>1. PICK hops, left :
           Dialled(kind, id) = [NoLink EXCEPT !.kind = kind, !.sid = id, !.hops = hops, !.left = left]
    BY DEF Dialled
  <1> QED
    BY <1>1 DEF NoLink

LEMMA ConnectForwards ==
    ASSUME ConnsInv, LinkShape(link), Shape(mem), ConnectStep, pc = "idle" => link.kind = "none"
    PROVE  ForwardsGo
  <1>1. ASSUME Connect PROVE ForwardsGo
    <2>1. CASE UNCHANGED <<mem, pc, link, forwards>>
      BY <2>1 DEF Still, forwards, ForwardsGo
    <2>2. PICK mode : \/ UNCHANGED <<mem, pc, link, forwards>>
                      \/ pc' = "dial" /\ link' = Dialled(mode, Selected) /\ mem' = mem /\ UNCHANGED forwards
      BY <1>1 DEF Connect, Fails, Goes, Go
    <2>3. CASE pc' = "dial" /\ link' = Dialled(mode, Selected) /\ mem' = mem /\ UNCHANGED forwards
      <3>1. pc = "idle" /\ Selected \in IdsOf(Servers) /\ link'.sid = Selected
        BY <1>1, <2>3, DialledIs DEF Connect, IsSelected
      <3>2. conns = {} /\ listeners = {}
        BY <3>1 DEF ConnsInv, Served
      <3> QED
        BY <2>3, <3>1, <3>2 DEF Quieted, ForwardsGo, forwards, Servers
    <2> QED
      BY <2>1, <2>2, <2>3
  <1>2. ASSUME Failed, pc \in {"dial", "auth"} PROVE Quieted
    BY <1>2 DEF Failed, Go, Over, Reset, ConnsInv, Quieted, Served, forwards
  <1>3. ASSUME pc \in {"dial", "auth"}, pc' \in {"dial", "auth", "script"}, mem' = mem, link'.sid = link.sid,
               link'.kind = link.kind, Silent
        PROVE  Quieted
    BY <1>3 DEF ConnsInv, Quieted, Served, InFleet, Servers, Silent
  <1>4. ASSUME Dial, ~Failed PROVE Quieted
    BY <1>3, <1>4 DEF Dial, Go, Nothing, forwards, LinkShape, Silent, desk
  <1>5. ASSUME Authenticate, ~Failed PROVE Quieted \/ Starts
    <2>1. /\ link'.sid = link.sid /\ link'.kind = link.kind /\ pc = "auth" /\ Silent
          /\ \/ Tail(link.left) = <<>> /\ Established(Append(link.learnt, link.key))
             \/ pc' = "dial" /\ mem' = mem
      BY <1>5 DEF Authenticate, Go, LinkShape, Silent, desk
    <2>2. CASE pc' = "dial" /\ mem' = mem
      BY <1>3, <2>1, <2>2
    <2>3. CASE Tail(link.left) = <<>> /\ Established(Append(link.learnt, link.key))
      <3>1. CASE InFleet
        BY <1>3, <2>1, <2>3, <3>1 DEF Established, Go, desk
      <3>2. CASE ~InFleet
        BY <2>1, <2>3, <3>2 DEF Established, Go, RecordSession, WithServers, Observed, Save, Recorded, Shape,
                                Starts
      <3> QED
        BY <3>1, <3>2
    <2> QED
      BY <2>1, <2>2, <2>3
  <1>6. ConnectTick => Quieted \/ Still
    BY DEF ConnectTick, Over, Reset, Quieted, Still, desk, forwards
  <1> QED
    BY <1>1, <1>2, <1>4, <1>5, <1>6 DEF ConnectStep, Dial, Authenticate, ForwardsGo

\* A changed connection is of the same rule and came from the same machine.
LEMMA BecomesOK ==
    ASSUME ConnsInv, NEW c \in conns, NEW told, NEW state, Becomes(c, told, state),
           told = "succeeded" => state \in {"copying", "closed"}
    PROVE  ConnOK([c EXCEPT !.told = told, !.state = state]) /\ ~InFleet /\ pc \in Served
           /\ conns' \subseteq conns \cup {[c EXCEPT !.told = told, !.state = state]}
  <1>1. ConnOK(c)
    BY DEF ConnsInv
  <1>2. PICK d : d = [c EXCEPT !.told = told, !.state = state]
    OBVIOUS
  <1>3. /\ DOMAIN d = DOMAIN c /\ d.told = told /\ d.state = state /\ d.rule = c.rule
        /\ d.kind = c.kind /\ d.from = c.from
    BY <1>1, <1>2 DEF ConnOK, ConnShape
  <1>4. ConnOK(d)
    BY <1>1, <1>3 DEF ConnOK, ConnShape
  <1>5. ~InFleet /\ pc \in Served
    BY DEF ConnsInv
  <1> QED
    BY <1>2, <1>4, <1>5 DEF Becomes

LEMMA NewConnOK ==
    ASSUME NEW rule, NEW state, rule.id \in On, NEW from, from = link.sid
    PROVE  ConnOK(Conn(rule, state)) /\ ConnOK([Conn(rule, state) EXCEPT !.from = from])
  BY DEF Conn, ConnOK, ConnShape

LEMMA OthersServe ==
    ASSUME Others, pc \in Served, NEW c, ConnOK(c), ~InFleet, conns' \subseteq conns \cup {c}
    PROVE  Serves
  BY DEF Others, Serves, SameSession, desk

LEMMA EnabledIsOn ==
    ASSUME NEW rule \in ToSet(EnabledRules(link.sid)) PROVE rule.id \in On
  BY DEF On, IdsOf, ToSet

LEMMA ForwardForwards == ASSUME ConnsInv, ForwardStep PROVE ForwardsGo
  <1>1. ASSUME StartForward PROVE Serves
    <2>1. /\ pc = "bind" /\ pc' = "bind" /\ SameSession /\ conns' = conns /\ rules' = Tail(rules)
          /\ listeners' \subseteq listeners \cup {Head(rules).id} /\ rules # <<>>
      BY <1>1 DEF StartForward, SameSession, desk
    <2> QED
      BY <2>1 DEF Serves, Served
  <1>2. ASSUME ForwardsStarted PROVE Serves \/ Quieted
    <2>1. CASE Go("script") /\ UNCHANGED <<desk, link, forwards>>
      BY <1>2, <2>1 DEF ForwardsStarted, Go, Serves, SameSession, Served, desk, forwards
    <2>2. CASE Over
      BY <2>2 DEF Over, Reset, Quieted
    <2> QED
      BY <1>2, <2>1, <2>2 DEF ForwardsStarted
  <1>3. ASSUME AcceptForward PROVE Serves
    <2>1. PICK rule, state : rule.id \in listeners /\ conns' = conns \cup {Conn(rule, state)}
      BY <1>3 DEF AcceptForward
    <2>2. ConnOK(Conn(rule, state))
      BY <2>1, NewConnOK DEF ConnsInv
    <2> QED
      BY <1>3, <2>1, <2>2, OthersServe DEF AcceptForward, Serving, Served
  <1>4. ASSUME NEW c \in conns, NEW told, NEW state, Becomes(c, told, state), Others,
               told = "succeeded" => state \in {"copying", "closed"}
        PROVE  Serves
    <2>1. PICK d : d = [c EXCEPT !.told = told, !.state = state]
      OBVIOUS
    <2>2. ConnOK(d) /\ ~InFleet /\ pc \in Served /\ conns' \subseteq conns \cup {d}
      BY <1>4, <2>1, BecomesOK
    <2> QED
      BY <1>4, <2>2, OthersServe
  <1>5. ASSUME SocksHandshake PROVE Serves
    BY <1>4, <1>5 DEF SocksHandshake
  <1>6. ASSUME ChannelAnswer PROVE Serves
    <2>1. PICK c, told, state :
             c \in conns /\ Becomes(c, told, state) /\ (told = "succeeded" => state \in {"copying", "closed"})
      BY <1>6 DEF ChannelAnswer, Opened
    <2> QED
      BY <1>4, <1>6, <2>1 DEF ChannelAnswer
  <1>7. ASSUME PushedChannel PROVE Serves
    <2>1. PICK from, rule :
             conns' = IF rule \in Routes(from)
                      THEN conns \cup {[Conn(rule, "dialling") EXCEPT !.from = from]} ELSE conns
      BY <1>7 DEF PushedChannel
    <2>2. pc \in Served /\ ~InFleet /\ Others
      BY <1>7 DEF PushedChannel, Serving, Served
    <2>3. CASE rule \in Routes(from)
      <3>1. from = link.sid /\ rule.id \in On
        BY <2>3, EnabledIsOn DEF Routes
      <3>2. ConnOK([Conn(rule, "dialling") EXCEPT !.from = from])
        BY <3>1, NewConnOK
      <3> QED
        BY <2>1, <2>2, <2>3, <3>2, OthersServe
    <2>4. CASE rule \notin Routes(from)
      BY <2>1, <2>2, <2>4 DEF Others, Serves, SameSession, desk
    <2> QED
      BY <2>3, <2>4
  <1>8. ASSUME DialLocal PROVE Serves
    BY <1>4, <1>8 DEF DialLocal
  <1>9. ASSUME CloseConn PROVE Serves
    <2>1. PICK c \in conns : conns' = conns \ {c}
      BY <1>9 DEF CloseConn
    <2>2. pc \in Served /\ Others
      BY <1>9, <2>1 DEF CloseConn, ConnsInv
    <2> QED
      BY <2>1, <2>2 DEF Others, Serves, SameSession, desk
  <1> QED
    BY <1>1, <1>2, <1>3, <1>5, <1>6, <1>7, <1>8, <1>9 DEF ForwardStep, ForwardsGo

LEMMA StillKept == ASSUME ConnsInv, Still PROVE ConnsInv'
  <1>1. On' = On /\ Servers' = Servers /\ InFleet' = InFleet
    BY DEF Still, On, EnabledRules, Servers, InFleet
  <1>2. \A c : ConnOK(c) => ConnOK(c)'
    BY <1>1 DEF ConnOK, Still
  <1> QED
    BY <1>1, <1>2 DEF ConnsInv, Still, Served

LEMMA ResetQuiets == Reset => Quieted
  BY DEF Reset, Quieted

LEMMA ScriptForwards == ASSUME ConnsInv, ScriptStep PROVE ForwardsGo
  <1>1. SkipStep \/ StartStep \/ StepOutput \/ EndStep \/ ApplyEvents => Still
    BY DEF SkipStep, StartStep, StepOutput, EndStep, ApplyEvents, InScript, Still, desk, forwards
  <1>2. ASSUME ScriptEnds PROVE Still \/ Quieted
    <2>1. CASE InFleet
      BY <1>2, <2>1 DEF ScriptEnds, Go, ConnsInv, Quieted, forwards
    <2>2. CASE ~InFleet
      BY <1>2, <2>2 DEF ScriptEnds, Still, desk, forwards
    <2> QED
      BY <2>1, <2>2
  <1>3. ScriptsDone => Serves
    BY DEF ScriptsDone, Go, Serves, Served, SameSession, desk, forwards
  <1> QED
    BY <1>1, <1>2, <1>3 DEF ScriptStep, ForwardsGo

LEMMA ShellForwards == ASSUME LinkShape(link), ShellStep PROVE ForwardsGo
  <1>1. StartShell => Serves
    BY DEF StartShell, Go, Serves, Served, SameSession, desk, forwards, LinkShape
  <1>2. TypeKeys \/ IgnoreKey \/ BridgeKeys \/ SwitchScreen \/ ProbeAnswers \/ PollAnswers => Still
    BY DEF TypeKeys, IgnoreKey, BridgeKeys, SwitchScreen, ProbeAnswers, PollAnswers, InShell, Metered, Still, desk, forwards
  <1>3. ShellReturns => Serves
    BY DEF ShellReturns, InShell, Serves, Served, SameSession, desk, forwards, LinkShape
  <1>4. ASSUME NEW ok, NEW got, EndSession(ok, got) PROVE Quieted
    BY <1>4, ResetQuiets DEF EndSession, Over
  <1>5. ShellRefused \/ ConnectEnds \/ RemoteEnds => Quieted
    BY <1>4, ResetQuiets DEF ShellRefused, Over, ConnectEnds, RemoteEnds
  <1>6. Tick => Still \/ Quieted
    BY <1>4, ResetQuiets DEF Tick, Over, Still, desk, forwards
  <1> QED
    BY <1>1, <1>2, <1>3, <1>5, <1>6 DEF ShellStep, ForwardsGo

LEMMA FleetForwards == ASSUME ConnsInv, FleetStep PROVE ForwardsGo
  <1>1. ASSUME RunScript PROVE Quieted
    BY <1>1 DEF RunScript, Go, ConnsInv, Served, Quieted, forwards
  <1>2. ASSUME NextTarget PROVE Still \/ Quieted
    <2>1. CASE Walk(Servers, Head(job.targets)).why = "ok"
      <3>1. link'.kind = "fleet" /\ pc' = "dial"
        BY <1>2, <2>1, DialledIs DEF NextTarget, Go
      <3> QED
        BY <1>2, <3>1 DEF NextTarget, ConnsInv, Served, Quieted, forwards
    <2>2. CASE Walk(Servers, Head(job.targets)).why # "ok"
      BY <1>2, <2>2 DEF NextTarget, Still, desk, forwards
    <2> QED
      BY <2>1, <2>2
  <1>3. RunEnds \/ RunTick => Quieted \/ Still
    BY ResetQuiets DEF RunEnds, RunTick, ShowRun, Still, desk, forwards
  <1> QED
    BY <1>1, <1>2, <1>3 DEF FleetStep, ForwardsGo

LEMMA ConnsStep == ASSUME AppInv, LeavesInv, ConnsInv, [Next]_vars PROVE ConnsInv'
  <1>1. CASE HandleKey1
    BY <1>1 DEF HandleKey1, ConnsInv, Served, InFleet, forwards
  <1>2. CASE SessionNext
    <2>1. LinkShape(link) /\ Shape(mem) /\ (pc = "idle" => link.kind = "none")
      BY DEF LeavesInv, AppInv
    <2>2. ForwardsGo
      BY <1>2, <2>1, ConnectForwards, ForwardForwards, ScriptForwards, ShellForwards, FleetForwards
         DEF SessionNext
    <2>3. VaultInv /\ VaultInv'
      BY AppStep DEF AppInv
    <2> QED
      BY <2>2, <2>3, StillKept, StartsKept, QuietedKept, ServesKept DEF ForwardsGo
  <1>3. CASE UNCHANGED vars
    BY <1>3, StillKept DEF vars, desk, session, forwards, Still
  <1> QED
    BY <1>1, <1>2, <1>3 DEF Next

\* ConnsWereAsked: every forwarded connection is of a rule that is on for the server
\* the session goes to, a remote one came from that server and not from a hop, and a
\* SOCKS client told "succeeded" has its channel (ssh/forward.rs, ssh/socks.rs).
THEOREM ConnsAreAsked == Spec => []ConnsWereAsked
  <1>1. Init => AppInv /\ LeavesInv /\ ConnsInv
    <2>1. Init => ConnsInv
      BY DEF Init, SessionInit, ConnsInv, Served
    <2> QED
      BY <2>1, AppInitially, LeavesInitially
  <1>2. AppInv /\ LeavesInv /\ ConnsInv /\ [Next]_vars => AppInv' /\ LeavesInv' /\ ConnsInv'
    BY AppStep, LeavesStep, ConnsStep
  <1>3. ConnsInv => ConnsWereAsked
    BY DEF ConnsInv, ConnOK, ConnsWereAsked, On
  <1> QED
    BY <1>1, <1>2, <1>3, PTL DEF Spec

-----------------------------------------------------------------------------
\* What the pane makes of the keys of one tick.

\* The polls one after the other.
Polls(f, at, old, keys, m) ==
    f = [n \in 0..m |-> IF n = 0 THEN Expire(at, old) ELSE AndKey(f[n - 1], keys[n])]

LEMMA PollsOn ==
    ASSUME NEW at, NEW old, NEW keys, NEW m \in Nat, NEW f, Polls(f, at, old, keys, m)
    PROVE  \E g : Polls(g, at, old, keys, m + 1)
  <1> DEFINE g == [n \in 0..(m + 1) |-> IF n = m + 1 THEN AndKey(f[m], keys[n]) ELSE f[n]]
  <1>1. f = [n \in 0..m |-> IF n = 0 THEN Expire(at, old) ELSE AndKey(f[n - 1], keys[n])]
    BY DEF Polls
  <1>2. ASSUME NEW n \in 0..m PROVE f[n] = IF n = 0 THEN Expire(at, old) ELSE AndKey(f[n - 1], keys[n])
    BY <1>1, <1>2
  <1>3. ASSUME NEW n \in 0..(m + 1)
        PROVE  g[n] = IF n = 0 THEN Expire(at, old) ELSE AndKey(g[n - 1], keys[n])
    <2>1. CASE n = m + 1
      <3>1. n - 1 = m /\ n # 0 /\ n - 1 \in 0..(m + 1) /\ n - 1 # m + 1
        BY <2>1
      <3> QED
        BY <2>1, <3>1
    <2>2. CASE n = 0
      <3>1. n \in 0..m /\ n # m + 1
        BY <2>2
      <3> QED
        BY <1>2, <2>2, <3>1
    <2>3. CASE n # 0 /\ n # m + 1
      <3>1. n \in 0..m /\ n - 1 \in 0..m /\ n - 1 \in 0..(m + 1) /\ n - 1 # m + 1
        BY <2>3
      <3> QED
        BY <1>2, <2>3, <3>1
    <2> QED
      BY <2>1, <2>2, <2>3
  <1>4. g = [n \in 0..(m + 1) |-> g[n]]
    OBVIOUS
  <1> HIDE DEF g
  <1>5. g = [n \in 0..(m + 1) |-> IF n = 0 THEN Expire(at, old) ELSE AndKey(g[n - 1], keys[n])]
    BY <1>3, <1>4
  <1> QED
    BY <1>5 DEF Polls

LEMMA PollsExist ==
    ASSUME NEW at, NEW old, NEW keys, NEW m \in Nat PROVE \E f : Polls(f, at, old, keys, m)
  <1> DEFINE bad == {k \in Nat : ~\E f : Polls(f, at, old, keys, k)}
  <1> SUFFICES ASSUME bad # {} PROVE FALSE
    OBVIOUS
  <1>1. PICK k \in bad : \A j \in bad : k <= j
    BY LeastNumber
  <1>2. k \in Nat /\ ~\E f : Polls(f, at, old, keys, k)
    OBVIOUS
  <1>3. \E f : Polls(f, at, old, keys, 0)
    <2> DEFINE f == [n \in 0..0 |-> Expire(at, old)]
    <2>1. 0..0 = {0}
      OBVIOUS
    <2>2. f = [n \in 0..0 |-> IF n = 0 THEN Expire(at, old) ELSE AndKey(f[n - 1], keys[n])]
      BY <2>1
    <2> HIDE DEF f
    <2> QED
      BY <2>2 DEF Polls
  <1>4. k # 0
    BY <1>2, <1>3
  <1>5. k - 1 \in Nat /\ ~(k <= k - 1) /\ (k - 1) + 1 = k
    BY <1>2, <1>4
  <1>6. k - 1 \notin bad
    BY <1>1, <1>5
  <1>7. PICK f : Polls(f, at, old, keys, k - 1)
    BY <1>5, <1>6
  <1> HIDE DEF bad
  <1>8. \E g : Polls(g, at, old, keys, (k - 1) + 1)
    BY <1>5, <1>7, PollsOn
  <1> QED
    BY <1>2, <1>5, <1>8

LEMMA PollKeysIs ==
    ASSUME NEW at, NEW old, NEW keys, Len(keys) \in Nat
    PROVE  \E f : /\ f[0] = Expire(at, old) /\ f[Len(keys)] = PollKeys(at, old, keys)
                  /\ \A n \in 1..Len(keys) : f[n] = AndKey(f[n - 1], keys[n])
  <1> DEFINE m == Len(keys)
             f == CHOOSE g : Polls(g, at, old, keys, m)
  <1>1. Polls(f, at, old, keys, m)
    BY PollsExist
  <1>2. PollKeys(at, old, keys) = f[m]
    BY DEF PollKeys, Polls
  <1> HIDE DEF f
  <1>3. f = [n \in 0..m |-> IF n = 0 THEN Expire(at, old) ELSE AndKey(f[n - 1], keys[n])]
    BY <1>1 DEF Polls
  <1>4. 0 \in 0..m /\ \A n \in 1..m : n \in 0..m /\ n # 0
    OBVIOUS
  <1>5. f[0] = Expire(at, old) /\ \A n \in 1..m : f[n] = AndKey(f[n - 1], keys[n])
    BY <1>3, <1>4
  <1> QED
    BY <1>2, <1>5

LEMMA Counting ==
    ASSUME NEW m \in Nat, NEW S, 0 \in S, \A n \in 0..(m - 1) : n \in S => n + 1 \in S
    PROVE  \A n \in 0..m : n \in S
  <1> DEFINE bad == {n \in 0..m : n \notin S}
  <1> SUFFICES ASSUME bad # {} PROVE FALSE
    OBVIOUS
  <1>1. bad \subseteq Nat
    OBVIOUS
  <1>2. PICK k \in bad : \A j \in bad : k <= j
    BY <1>1, LeastNumber
  <1>3. k \in 0..m /\ k \notin S /\ k # 0
    OBVIOUS
  <1>4. k - 1 \in 0..(m - 1) /\ k - 1 \in 0..m /\ ~(k <= k - 1) /\ (k - 1) + 1 = k
    BY <1>3
  <1>5. k - 1 \in S
    BY <1>2, <1>4
  <1> QED
    BY <1>3, <1>4, <1>5

PrefixStates == {"idle", "armed", "esc"}
Panes == [prefix : PrefixStates, alt : BOOLEAN]
Polled == [pane : Panes, out : Seq(Keys), detach : BOOLEAN]
\* The Esc that is held, and whether a Ctrl+B waits for its command.
HeldOf(p) == IF p.prefix = "esc" THEN <<"esc">> ELSE <<>>
Armed(p) == IF p.prefix = "armed" THEN 1 ELSE 0
AllOf(o) == o.out \o HeldOf(o.pane)

LEMMA PaneIs ==
    ASSUME NEW p \in Panes, NEW prefix \in PrefixStates, NEW bytes \in Seq(Keys)
    PROVE  /\ [p EXCEPT !.prefix = prefix] = [prefix |-> prefix, alt |-> p.alt]
           /\ [p EXCEPT !.prefix = prefix] \in Panes
           /\ Sends(p, bytes) = [pane |-> [prefix |-> "idle", alt |-> p.alt], out |-> bytes, detach |-> FALSE]
           /\ Holds(p, prefix) = [pane |-> [prefix |-> prefix, alt |-> p.alt], out |-> <<>>, detach |-> FALSE]
           /\ Detaches(p) = [pane |-> [prefix |-> "idle", alt |-> p.alt], out |-> <<>>, detach |-> TRUE]
  <1>1. [p EXCEPT !.prefix = prefix] = [prefix |-> prefix, alt |-> p.alt]
    BY DEF Panes
  <1>2. [p EXCEPT !.prefix = "idle"] = [prefix |-> "idle", alt |-> p.alt]
    BY DEF Panes
  <1>3. Sends(p, bytes) = [pane |-> [prefix |-> "idle", alt |-> p.alt], out |-> bytes, detach |-> FALSE]
    BY <1>2 DEF Sends
  <1>4. Sends(p, <<>>) = [pane |-> [prefix |-> "idle", alt |-> p.alt], out |-> <<>>, detach |-> FALSE]
    BY <1>2 DEF Sends
  <1>5. PICK q : q = [prefix |-> "idle", alt |-> p.alt]
    OBVIOUS
  <1>6. Detaches(p) = [pane |-> q, out |-> <<>>, detach |-> TRUE]
    <2>1. PICK r : r = Sends(p, <<>>)
      OBVIOUS
    <2>2. r = [pane |-> q, out |-> <<>>, detach |-> FALSE]
      BY <1>4, <1>5, <2>1
    <2>3. PICK yes, no, none : yes = TRUE /\ no = FALSE /\ none = <<>>
      OBVIOUS
    <2>4. r = [pane |-> q, out |-> none, detach |-> no]
      BY <2>2, <2>3
    <2>5. [r EXCEPT !.detach = yes] = [pane |-> q, out |-> none, detach |-> yes]
      BY <2>4
    <2> QED
      BY <2>1, <2>3, <2>5 DEF Detaches
  <1> QED
    BY <1>1, <1>3, <1>5, <1>6 DEF Holds, Panes

\* What one key does: it detaches, or it is added to what is to be sent, unless
\* it is a Ctrl+B that arms the prefix or the command that follows one.
LEMMA KeyHandled ==
    ASSUME NEW p \in Panes, NEW key \in Keys
    PROVE  \E q \in Panes, bytes \in Seq(Keys), detach \in BOOLEAN :
              /\ HandleKey(p, key) = [pane |-> q, out |-> bytes, detach |-> detach]
              /\ ~detach =>
                    \/ q.prefix # "armed" /\ bytes \o HeldOf(q) = Append(HeldOf(p), key)
                    \/ /\ p.prefix # "armed" /\ q.prefix = "armed" /\ key = "ctrlb"
                       /\ bytes = <<>> /\ HeldOf(p) = <<>> /\ HeldOf(q) = <<>>
                    \/ /\ p.prefix = "armed" /\ q.prefix # "armed"
                       /\ bytes = <<>> /\ HeldOf(p) = <<>> /\ HeldOf(q) = <<>>
              /\ p.prefix = "idle" /\ key = "d" => q.prefix = "idle"
              /\ p.prefix = "idle" /\ key = "ctrlb" => q.prefix = "armed"
              /\ p.prefix = "armed" /\ key = "d" => detach
  <1> DEFINE idle == [prefix |-> "idle", alt |-> p.alt]
             armed == [prefix |-> "armed", alt |-> p.alt]
             esc == [prefix |-> "esc", alt |-> p.alt]
  <1>1. /\ idle \in Panes /\ idle.prefix = "idle" /\ armed \in Panes /\ armed.prefix = "armed"
        /\ esc \in Panes /\ esc.prefix = "esc" /\ p.prefix \in PrefixStates
    BY DEF Panes, PrefixStates
  <1>2. /\ <<>> \in Seq(Keys) /\ <<key>> \in Seq(Keys) /\ <<"esc", key>> \in Seq(Keys)
        /\ <<"ctrlb">> \in Seq(Keys) /\ <<"esc">> \in Seq(Keys)
        /\ <<key>> \o <<>> = Append(<<>>, key) /\ <<"esc", key>> \o <<>> = Append(<<"esc">>, key)
        /\ <<>> \o <<"esc">> = Append(<<>>, "esc") /\ <<"ctrlb">> \o <<>> = Append(<<>>, "ctrlb")
    BY DEF Keys
  <1>3. \A bytes \in Seq(Keys) : Sends(p, bytes) = [pane |-> idle, out |-> bytes, detach |-> FALSE]
    BY PaneIs DEF PrefixStates
  <1>4. /\ Detaches(p) = [pane |-> idle, out |-> <<>>, detach |-> TRUE]
        /\ Holds(p, "armed") = [pane |-> armed, out |-> <<>>, detach |-> FALSE]
        /\ Holds(p, "esc") = [pane |-> esc, out |-> <<>>, detach |-> FALSE]
    BY <1>2, PaneIs DEF PrefixStates
  <1>5. HeldOf(idle) = <<>> /\ HeldOf(armed) = <<>> /\ HeldOf(esc) = <<"esc">>
        /\ (p.prefix = "esc" => HeldOf(p) = <<"esc">>) /\ (p.prefix # "esc" => HeldOf(p) = <<>>)
    BY <1>1 DEF HeldOf
  <1> HIDE DEF idle, armed, esc
  <1>6. CASE p.prefix = "armed"
    <2>1. CASE key = "d"
      <3>1. HandleKey(p, key) = [pane |-> idle, out |-> <<>>, detach |-> TRUE]
        BY <1>4, <1>6, <2>1 DEF HandleKey, PrefixCommand
      <3> QED
        BY <1>1, <1>2, <1>6, <3>1
    <2>2. CASE key = "ctrlb"
      <3>1. HandleKey(p, key) = [pane |-> idle, out |-> <<"ctrlb">>, detach |-> FALSE]
        BY <1>2, <1>3, <1>6, <2>2 DEF HandleKey, PrefixCommand
      <3>2. <<"ctrlb">> \o HeldOf(idle) = Append(HeldOf(p), key)
        BY <1>2, <1>5, <1>6, <2>2
      <3> QED
        BY <1>1, <1>2, <1>6, <2>2, <3>1, <3>2
    <2>3. CASE key = "esc"
      <3>1. HandleKey(p, key) = [pane |-> idle, out |-> <<>>, detach |-> FALSE]
        BY <1>2, <1>3, <1>6, <2>3 DEF HandleKey, PrefixCommand
      <3> QED
        BY <1>1, <1>2, <1>5, <1>6, <2>3, <3>1
    <2> QED
      BY <2>1, <2>2, <2>3 DEF Keys
  <1>7. CASE p.prefix = "esc"
    <2>1. CASE key = "esc"
      <3>1. HandleKey(p, key) = [pane |-> idle, out |-> <<>>, detach |-> TRUE]
        BY <1>4, <1>7, <2>1 DEF HandleKey
      <3> QED
        BY <1>1, <1>2, <1>7, <3>1
    <2>2. CASE key # "esc"
      <3>1. HandleKey(p, key) = [pane |-> idle, out |-> <<"esc", key>>, detach |-> FALSE]
        BY <1>2, <1>3, <1>7, <2>2 DEF HandleKey, SentBehind
      <3>2. <<"esc", key>> \o HeldOf(idle) = Append(HeldOf(p), key)
        BY <1>2, <1>5, <1>7
      <3> QED
        BY <1>1, <1>2, <1>7, <3>1, <3>2
    <2> QED
      BY <2>1, <2>2
  <1>8. CASE p.prefix = "idle"
    <2>1. CASE key = "ctrlb"
      <3>1. HandleKey(p, key) = [pane |-> armed, out |-> <<>>, detach |-> FALSE]
        BY <1>4, <1>8, <2>1 DEF HandleKey, IdleKey
      <3> QED
        BY <1>1, <1>2, <1>5, <1>8, <2>1, <3>1
    <2>2. CASE key = "esc" /\ ~p.alt
      <3>1. HandleKey(p, key) = [pane |-> esc, out |-> <<>>, detach |-> FALSE]
        BY <1>4, <1>8, <2>2 DEF HandleKey, IdleKey
      <3>2. <<>> \o HeldOf(esc) = Append(HeldOf(p), key)
        BY <1>2, <1>5, <1>8, <2>2
      <3> QED
        BY <1>1, <1>2, <1>8, <2>2, <3>1, <3>2
    <2>3. CASE ~(key = "ctrlb") /\ ~(key = "esc" /\ ~p.alt)
      <3>1. HandleKey(p, key) = [pane |-> idle, out |-> <<key>>, detach |-> FALSE]
        BY <1>2, <1>3, <1>8, <2>3 DEF HandleKey, IdleKey
      <3>2. <<key>> \o HeldOf(idle) = Append(HeldOf(p), key)
        BY <1>2, <1>5, <1>8
      <3> QED
        BY <1>1, <1>2, <1>8, <2>3, <3>1, <3>2
    <2> QED
      BY <2>1, <2>2, <2>3
  <1> QED
    BY <1>1, <1>6, <1>7, <1>8 DEF PrefixStates

LEMMA Expired ==
    ASSUME NEW p \in Panes, NEW old \in BOOLEAN
    PROVE  /\ Expire(p, old) \in Polled /\ AllOf(Expire(p, old)) = HeldOf(p)
           /\ Expire(p, old).detach = FALSE
           /\ Armed(Expire(p, old).pane) = Armed(p)
           /\ p.prefix = "idle" => Expire(p, old).pane.prefix = "idle"
  <1>1. CASE p.prefix = "esc" /\ old
    <2>1. <<"esc">> \in Seq(Keys) /\ <<"esc">> \o <<>> = <<"esc">>
      BY DEF Keys
    <2>2. PICK q : q = [prefix |-> "idle", alt |-> p.alt]
      OBVIOUS
    <2>3. q \in Panes /\ q.prefix = "idle"
      BY <2>2 DEF Panes, PrefixStates
    <2>4. PICK o : o = Expire(p, old) /\ o = [pane |-> q, out |-> <<"esc">>, detach |-> FALSE]
      BY <1>1, <2>1, <2>2, PaneIs DEF Expire, PrefixStates
    <2>5. o.pane = q /\ o.out = <<"esc">> /\ o.detach = FALSE
      BY <2>4
    <2>6. o \in Polled
      BY <2>1, <2>3, <2>4 DEF Polled
    <2>7. AllOf(o) = <<"esc">> /\ HeldOf(p) = <<"esc">> /\ Armed(o.pane) = 0 /\ Armed(p) = 0
      BY <1>1, <2>1, <2>3, <2>5 DEF AllOf, HeldOf, Armed
    <2> QED
      BY <1>1, <2>3, <2>4, <2>5, <2>6, <2>7
  <1>2. CASE ~(p.prefix = "esc" /\ old)
    <2>1. PICK o : o = Expire(p, old) /\ o = [pane |-> p, out |-> <<>>, detach |-> FALSE]
      BY <1>2 DEF Expire
    <2>2. <<>> \in Seq(Keys) /\ <<>> \o <<"esc">> = <<"esc">> /\ <<>> \o <<>> = <<>>
      OBVIOUS
    <2> QED
      BY <2>1, <2>2 DEF AllOf, HeldOf, Armed, Polled
  <1> QED
    BY <1>1, <1>2

\* One key more.
LEMMA PolledMore ==
    ASSUME NEW o \in Polled, NEW key \in Keys
    PROVE  /\ AndKey(o, key) \in Polled
           /\ o.detach => AndKey(o, key).detach
           /\ ~AndKey(o, key).detach =>
                 \/ AndKey(o, key).pane.prefix # "armed" /\ AllOf(AndKey(o, key)) = Append(AllOf(o), key)
                 \/ /\ o.pane.prefix # "armed" /\ AndKey(o, key).pane.prefix = "armed" /\ key = "ctrlb"
                    /\ AllOf(AndKey(o, key)) = AllOf(o)
                 \/ /\ o.pane.prefix = "armed" /\ AndKey(o, key).pane.prefix # "armed"
                    /\ AllOf(AndKey(o, key)) = AllOf(o)
           /\ o.pane.prefix = "idle" /\ key = "d" => AndKey(o, key).pane.prefix = "idle"
           /\ o.pane.prefix = "idle" /\ key = "ctrlb" => AndKey(o, key).pane.prefix = "armed"
           /\ o.pane.prefix = "armed" /\ key = "d" => AndKey(o, key).detach
  <1>1. PICK p, out, past : p = o.pane /\ out = o.out /\ past = o.detach
    OBVIOUS
  <1>2. p \in Panes /\ out \in Seq(Keys) /\ past \in BOOLEAN
    BY <1>1 DEF Polled
  <1>3. PICK q \in Panes, bytes \in Seq(Keys), detach \in BOOLEAN :
           /\ HandleKey(p, key) = [pane |-> q, out |-> bytes, detach |-> detach]
           /\ ~detach =>
                 \/ q.prefix # "armed" /\ bytes \o HeldOf(q) = Append(HeldOf(p), key)
                 \/ /\ p.prefix # "armed" /\ q.prefix = "armed" /\ key = "ctrlb"
                    /\ bytes = <<>> /\ HeldOf(p) = <<>> /\ HeldOf(q) = <<>>
                 \/ /\ p.prefix = "armed" /\ q.prefix # "armed"
                    /\ bytes = <<>> /\ HeldOf(p) = <<>> /\ HeldOf(q) = <<>>
           /\ p.prefix = "idle" /\ key = "d" => q.prefix = "idle"
           /\ p.prefix = "idle" /\ key = "ctrlb" => q.prefix = "armed"
           /\ p.prefix = "armed" /\ key = "d" => detach
    BY <1>2, KeyHandled
  <1>4. PICK n, sum, gone : n = AndKey(o, key) /\ sum = out \o bytes /\ gone = (detach \/ past)
    OBVIOUS
  <1>5. n = [pane |-> q, out |-> sum, detach |-> gone]
    <2>1. PICK r : r = HandleKey(p, key) /\ r = [pane |-> q, out |-> bytes, detach |-> detach]
      BY <1>3
    <2>2. n = [r EXCEPT !.out = out \o @, !.detach = @ \/ past]
      BY <1>1, <1>4, <2>1 DEF AndKey
    <2>3. r.out = bytes /\ r.detach = detach
      BY <2>1
    <2>4. PICK any, how : any = gone /\ how = detach /\ r = [pane |-> q, out |-> bytes, detach |-> how]
      BY <2>1
    <2>5. n = [r EXCEPT !.out = sum, !.detach = any]
      BY <1>4, <2>2, <2>3, <2>4
    <2>6. n = [pane |-> q, out |-> sum, detach |-> any]
      BY <2>4, <2>5
    <2> QED
      BY <2>4, <2>6
  <1>6. n.pane = q /\ n.out = sum /\ n.detach = gone /\ sum \in Seq(Keys) /\ gone \in BOOLEAN
    BY <1>2, <1>3, <1>4, <1>5
  <1>7. n \in Polled
    BY <1>3, <1>5, <1>6 DEF Polled
  <1>8. HeldOf(q) \in Seq(Keys) /\ HeldOf(p) \in Seq(Keys)
    <2>1. <<"esc">> \in Seq(Keys) /\ <<>> \in Seq(Keys)
      BY DEF Keys
    <2> QED
      BY <2>1 DEF HeldOf
  <1>9. AllOf(n) = out \o (bytes \o HeldOf(q)) /\ AllOf(o) = out \o HeldOf(p)
    <2>1. PICK held : held = HeldOf(q) /\ held \in Seq(Keys)
      BY <1>8
    <2>2. (out \o bytes) \o held = out \o (bytes \o held)
      BY <1>2, <1>3, <2>1
    <2>3. AllOf(n) = sum \o held /\ AllOf(o) = out \o HeldOf(p)
      BY <1>1, <1>6, <2>1 DEF AllOf
    <2> QED
      BY <1>4, <2>1, <2>2, <2>3
  <1>10. out \o Append(HeldOf(p), key) = Append(out \o HeldOf(p), key)
    BY <1>2, <1>8
  <1>11. ~gone => \/ n.pane.prefix # "armed" /\ AllOf(n) = Append(AllOf(o), key)
                  \/ /\ o.pane.prefix # "armed" /\ n.pane.prefix = "armed" /\ key = "ctrlb"
                     /\ AllOf(n) = AllOf(o)
                  \/ /\ o.pane.prefix = "armed" /\ n.pane.prefix # "armed"
                     /\ AllOf(n) = AllOf(o)
    <2>1. <<>> \o <<>> = <<>> /\ out \o <<>> = out
      BY <1>2
    <2>2. bytes \o HeldOf(q) = Append(HeldOf(p), key) => AllOf(n) = Append(AllOf(o), key)
      BY <1>9, <1>10
    <2>3. bytes = <<>> /\ HeldOf(p) = <<>> /\ HeldOf(q) = <<>> => AllOf(n) = AllOf(o)
      BY <1>9, <2>1
    <2>4. ~gone => ~detach
      BY <1>4
    <2> QED
      BY <1>1, <1>3, <1>6, <2>2, <2>3, <2>4
  <1> QED
    BY <1>1, <1>3, <1>4, <1>6, <1>7, <1>11

-----------------------------------------------------------------------------
\* What is in order within what.

LEMMA OneMore ==
    ASSUME NEW t \in Seq(Keys), NEW k \in Keys
    PROVE  /\ Append(t, k) \in Seq(Keys) /\ Len(Append(t, k)) = Len(t) + 1 /\ Len(t) \in Nat
           /\ DOMAIN Append(t, k) = 1..(Len(t) + 1) /\ DOMAIN t = 1..Len(t)
           /\ Append(t, k)[Len(t) + 1] = k /\ \A i \in 1..Len(t) : Append(t, k)[i] = t[i]
  <1>1. Append(t, k) \in Seq(Keys) /\ Len(t) \in Nat /\ DOMAIN t = 1..Len(t)
    OBVIOUS
  <1>2. Len(Append(t, k)) = Len(t) + 1
    OBVIOUS
  <1>3. Append(t, k)[Len(t) + 1] = k
    BY AppendProperties
  <1>4. \A i \in 1..Len(t) : Append(t, k)[i] = t[i]
    BY AppendProperties
  <1>5. DOMAIN Append(t, k) = 1..(Len(t) + 1)
    BY <1>1, <1>2
  <1> QED
    BY <1>1, <1>2, <1>3, <1>4, <1>5, Zenon

LEMMA CountMore ==
    ASSUME NEW t \in Seq(Keys), NEW k \in Keys, NEW c
    PROVE  /\ Count(t, c) \in Nat /\ Count(Append(t, k), c) \in Nat
           /\ Count(Append(t, k), c) >= Count(t, c)
           /\ k = c => Count(Append(t, k), c) = Count(t, c) + 1
  <1> DEFINE A == {i \in DOMAIN t : t[i] = c}
             B == {i \in DOMAIN Append(t, k) : Append(t, k)[i] = c}
  <1>0. /\ DOMAIN Append(t, k) = 1..(Len(t) + 1) /\ DOMAIN t = 1..Len(t) /\ Len(t) \in Nat
        /\ Append(t, k)[Len(t) + 1] = k /\ \A i \in 1..Len(t) : Append(t, k)[i] = t[i]
    BY OneMore
  <1>1. IsFiniteSet(A)
    <2>1. A \in SUBSET (1..Len(t))
      BY <1>0
    <2>2. IsFiniteSet(1..Len(t))
      BY <1>0, FS_Interval
    <2> QED
      BY <2>1, <2>2, FS_Subset
  <1>2. Len(t) + 1 \notin A
    BY <1>0
  <1>3. B = IF k = c THEN A \cup {Len(t) + 1} ELSE A
    <2>1. ASSUME NEW i PROVE i \in B <=> i \in A \/ (k = c /\ i = Len(t) + 1)
      <3>1. CASE i \in 1..Len(t)
        BY <1>0, <3>1
      <3>2. CASE i = Len(t) + 1
        BY <1>0, <3>2
      <3>3. CASE i \notin 1..Len(t) /\ i # Len(t) + 1
        <4>1. i \notin 1..(Len(t) + 1)
          BY <1>0, <3>3
        <4> QED
          BY <1>0, <3>3, <4>1
      <3> QED
        BY <3>1, <3>2, <3>3
    <2> HIDE DEF A, B
    <2> QED
      BY <2>1
  <1>4. Count(t, c) = Cardinality(A) /\ Count(Append(t, k), c) = Cardinality(B)
    BY DEF Count
  <1> HIDE DEF A, B
  <1>5. Cardinality(A) \in Nat /\ Cardinality(A \cup {Len(t) + 1}) = Cardinality(A) + 1
    BY <1>1, <1>2, FS_CardinalityType, FS_AddElement
  <1> QED
    BY <1>3, <1>4, <1>5

LEMMA WithinMore ==
    ASSUME NEW o \in Seq(Keys), NEW t \in Seq(Keys), NEW k \in Keys, Within(o, t)
    PROVE  Within(o, Append(t, k)) /\ Within(Append(o, k), Append(t, k))
  <1>0. PICK n \in Nat, m \in Nat : n = Len(o) /\ m = Len(t)
    OBVIOUS
  <1>1. /\ DOMAIN t = 1..m /\ DOMAIN o = 1..n
        /\ DOMAIN Append(t, k) = 1..(m + 1) /\ DOMAIN Append(o, k) = 1..(n + 1)
        /\ Append(t, k)[m + 1] = k /\ \A i \in 1..m : Append(t, k)[i] = t[i]
        /\ Append(o, k)[n + 1] = k /\ \A i \in 1..n : Append(o, k)[i] = o[i]
    BY <1>0, OneMore
  <1>2. PICK u, p : u = Append(t, k) /\ p = Append(o, k)
    OBVIOUS
  <1>3. PICK f \in [1..n -> 1..m] :
           \A i \in 1..n : o[i] = t[f[i]] /\ \A j \in 1..(i - 1) : f[j] < f[i]
    BY <1>1 DEF Within
  <1>4. Within(o, u)
    <2>1. f \in [1..n -> 1..(m + 1)] /\ \A i \in 1..n : f[i] \in 1..m
      OBVIOUS
    <2>2. \A i \in 1..n : o[i] = u[f[i]]
      BY <1>1, <1>2, <1>3, <2>1
    <2> QED
      BY <1>1, <1>2, <1>3, <2>1, <2>2 DEF Within
  <1>5. Within(p, u)
    <2> DEFINE g == [i \in 1..(n + 1) |-> IF i = n + 1 THEN m + 1 ELSE f[i]]
    <2>1. g \in [1..(n + 1) -> 1..(m + 1)]
      OBVIOUS
    <2>2. g[n + 1] = m + 1 /\ \A i \in 1..n : g[i] = f[i] /\ g[i] \in 1..m
      OBVIOUS
    <2> HIDE DEF g
    <2>3. ASSUME NEW i \in 1..(n + 1)
          PROVE  p[i] = u[g[i]] /\ \A j \in 1..(i - 1) : g[j] < g[i]
      <3>1. CASE i = n + 1
        <4>1. p[i] = k /\ u[g[i]] = k
          BY <1>1, <1>2, <2>2, <3>1
        <4>2. \A j \in 1..(i - 1) : g[j] < g[i]
          BY <2>2, <3>1
        <4> QED
          BY <4>1, <4>2
      <3>2. CASE i # n + 1
        <4>1. i \in 1..n /\ g[i] = f[i] /\ f[i] \in 1..m
          BY <2>2, <3>2
        <4>2. p[i] = u[g[i]]
          BY <1>1, <1>2, <1>3, <4>1
        <4>3. ASSUME NEW j \in 1..(i - 1) PROVE g[j] < g[i]
          <5>1. j \in 1..n
            BY <4>1
          <5> QED
            BY <1>3, <2>2, <4>1, <5>1
        <4> QED
          BY <4>2, <4>3
      <3> QED
        BY <3>1, <3>2
    <2> QED
      BY <1>1, <1>2, <2>1, <2>3 DEF Within
  <1> QED
    BY <1>2, <1>4, <1>5

\* What was written is what was read, but for the commands.
Written(out, all, armed) ==
    Within(out, all) /\ Len(out) + 2 * Count(all, "ctrlb") >= Len(all) + armed

LEMMA WrittenMore ==
    ASSUME NEW out \in Seq(Keys), NEW all \in Seq(Keys), NEW key \in Keys, NEW p \in Panes, NEW q \in Panes,
           Written(out, all, Armed(p))
    PROVE  /\ q.prefix # "armed" => Written(Append(out, key), Append(all, key), Armed(q))
           /\ p.prefix # "armed" /\ q.prefix = "armed" /\ key = "ctrlb"
                => Written(out, Append(all, key), Armed(q))
           /\ p.prefix = "armed" /\ q.prefix # "armed" => Written(out, Append(all, key), Armed(q))
  <1>1. Within(out, Append(all, key)) /\ Within(Append(out, key), Append(all, key))
    BY WithinMore DEF Written
  <1>2. PICK a \in Nat, b \in Nat, x \in Nat, y \in Nat :
           /\ a = Len(out) /\ b = Len(all) /\ x = Count(all, "ctrlb") /\ y = Count(Append(all, key), "ctrlb")
           /\ Len(Append(out, key)) = a + 1 /\ Len(Append(all, key)) = b + 1
           /\ y >= x /\ (key = "ctrlb" => y = x + 1)
    BY CountMore
  <1>3. PICK v \in {0, 1}, w \in {0, 1} : v = Armed(p) /\ w = Armed(q)
    BY DEF Armed
  <1>10. PICK o, t : o = Append(out, key) /\ t = Append(all, key)
    OBVIOUS
  <1>4. a + 2 * x >= b + v
    BY <1>2, <1>3 DEF Written
  <1>5. /\ (p.prefix = "armed" => v = 1) /\ (p.prefix # "armed" => v = 0)
        /\ (q.prefix = "armed" => w = 1) /\ (q.prefix # "armed" => w = 0)
    BY <1>3 DEF Armed
  <1>6. ASSUME q.prefix # "armed" PROVE Written(o, t, w)
    <2>1. (a + 1) + 2 * y >= (b + 1) + w
      BY <1>2, <1>4, <1>5, <1>6
    <2> QED
      BY <1>1, <1>2, <1>10, <2>1 DEF Written
  <1>7. ASSUME p.prefix # "armed", q.prefix = "armed", key = "ctrlb" PROVE Written(out, t, w)
    <2>2. y = x + 1 /\ v = 0 /\ w = 1
      BY <1>2, <1>5, <1>7
    <2>1. a + 2 * y >= (b + 1) + w
      BY <1>4, <2>2
    <2> QED
      BY <1>1, <1>2, <1>10, <2>1 DEF Written
  <1>8. ASSUME p.prefix = "armed", q.prefix # "armed" PROVE Written(out, t, w)
    <2>1. a + 2 * y >= (b + 1) + w
      BY <1>2, <1>4, <1>5, <1>8
    <2> QED
      BY <1>1, <1>2, <1>10, <2>1 DEF Written
  <1> QED
    BY <1>3, <1>10, <1>6, <1>7, <1>8

-----------------------------------------------------------------------------
\* Keys read one after the other: the detach stays, and with what is held back
\* added, what is to be sent goes on from what was sent.
LEMMA PolledWell ==
    ASSUME NEW p \in Panes, NEW old \in BOOLEAN, NEW keys \in Seq(Keys), NEW had \in Seq(Keys),
           NEW gave \in Seq(Keys), Written(gave \o HeldOf(p), had, Armed(p))
    PROVE  LET o == PollKeys(p, old, keys)
           IN /\ o \in Polled
              /\ ~o.detach => Written((gave \o o.out) \o HeldOf(o.pane), had \o keys, Armed(o.pane))
  <1> DEFINE all == had \o keys
             b == Len(had)
             m == Len(keys)
             Reads(t, n) == Len(t) = b + n /\ \A i \in 1..(b + n) : t[i] = all[i]
  <1>1. PICK f : /\ f[0] = Expire(p, old) /\ f[m] = PollKeys(p, old, keys)
                 /\ \A n \in 1..m : f[n] = AndKey(f[n - 1], keys[n])
    BY PollKeysIs
  <1>2. /\ all \in Seq(Keys) /\ b \in Nat /\ m \in Nat /\ Len(all) = b + m
        /\ \A i \in 1..b : all[i] = had[i]
        /\ \A n \in 1..m : all[b + n] = keys[n] /\ keys[n] \in Keys
    OBVIOUS
  <1> HIDE DEF all, b, m
  <1> DEFINE Fine(n) == /\ f[n] \in Polled
                        /\ ~f[n].detach =>
                              \E t \in Seq(Keys) : /\ Reads(t, n)
                                                   /\ Written(gave \o AllOf(f[n]), t, Armed(f[n].pane))
             S == {n \in 0..m : Fine(n)}
  <1>3. Fine(0)
    <2>1. f[0] \in Polled /\ AllOf(f[0]) = HeldOf(p) /\ Armed(f[0].pane) = Armed(p)
      BY <1>1, Expired
    <2>2. Reads(had, 0)
      BY <1>2 DEF b
    <2> HIDE DEF Reads
    <2> QED
      BY <2>1, <2>2
  <1>4. ASSUME NEW n \in 0..(m - 1), Fine(n) PROVE Fine(n + 1)
    <2>1. n + 1 \in 1..m /\ (n + 1) - 1 = n /\ n \in Nat
      BY <1>2
    <2>2. PICK o, k, q : o \in Polled /\ k \in Keys /\ o = f[n] /\ k = keys[n + 1] /\ q = f[n + 1] /\ q = AndKey(o, k)
      BY <1>1, <1>2, <1>4, <2>1
    <2>3. /\ q \in Polled /\ (o.detach => q.detach)
          /\ ~q.detach =>
               \/ q.pane.prefix # "armed" /\ AllOf(q) = Append(AllOf(o), k)
               \/ /\ o.pane.prefix # "armed" /\ q.pane.prefix = "armed" /\ k = "ctrlb"
                  /\ AllOf(q) = AllOf(o)
               \/ /\ o.pane.prefix = "armed" /\ q.pane.prefix # "armed" /\ AllOf(q) = AllOf(o)
      BY <2>2, PolledMore
    <2>4. SUFFICES ASSUME ~q.detach
                   PROVE  \E t \in Seq(Keys) : Reads(t, n + 1) /\ Written(gave \o AllOf(q), t, Armed(q.pane))
      <3> HIDE DEF Reads
      <3> QED
        BY <2>2, <2>3
    <2>5. PICK t \in Seq(Keys) : Reads(t, n) /\ Written(gave \o AllOf(o), t, Armed(o.pane))
      <3> HIDE DEF Reads
      <3> QED
        BY <1>4, <2>2, <2>3, <2>4
    <2>6. Append(t, k) \in Seq(Keys) /\ Reads(Append(t, k), n + 1)
      <3>1. /\ Append(t, k) \in Seq(Keys) /\ Len(Append(t, k)) = Len(t) + 1 /\ Len(t) \in Nat
            /\ Append(t, k)[Len(t) + 1] = k /\ \A i \in 1..Len(t) : Append(t, k)[i] = t[i]
        BY <2>2, <2>5, OneMore
      <3>2. PICK u : u = Append(t, k)
        OBVIOUS
      <3>3. Len(t) = b + n /\ \A i \in 1..(b + n) : t[i] = all[i]
        BY <2>5
      <3>4. all[b + (n + 1)] = k /\ b + (n + 1) = (b + n) + 1
        <4>1. all[b + (n + 1)] = keys[n + 1]
          BY <1>2, <2>1
        <4>2. b + (n + 1) = (b + n) + 1
          BY <1>2, <2>1
        <4> QED
          BY <2>2, <4>1, <4>2
      <3>5. Len(u) = b + (n + 1)
        BY <1>2, <2>1, <3>1, <3>2, <3>3, <3>4
      <3>6. ASSUME NEW i \in 1..(b + (n + 1)) PROVE u[i] = all[i]
        <4>1. CASE i = b + (n + 1)
          BY <3>1, <3>2, <3>3, <3>4, <4>1
        <4>2. CASE i # b + (n + 1)
          <5>1. i \in 1..(b + n)
            BY <1>2, <2>1, <4>2
          <5> QED
            BY <3>1, <3>2, <3>3, <5>1
        <4> QED
          BY <4>1, <4>2
      <3> QED
        BY <3>1, <3>2, <3>5, <3>6
    <2> HIDE DEF Reads
    <2>7. PICK x, y : x = AllOf(o) /\ y = gave \o x
      OBVIOUS
    <2>8. x \in Seq(Keys) /\ y \in Seq(Keys) /\ o.pane \in Panes /\ q.pane \in Panes
      <3>1. <<"esc">> \in Seq(Keys) /\ <<>> \in Seq(Keys)
        BY DEF Keys
      <3>2. HeldOf(o.pane) \in Seq(Keys)
        BY <3>1 DEF HeldOf
      <3>3. o.out \in Seq(Keys)
        BY <2>2 DEF Polled
      <3> QED
        BY <2>2, <2>3, <2>7, <3>2, <3>3 DEF AllOf, Polled
    <2>9. gave \o Append(x, k) = Append(y, k)
      BY <2>7, <2>8
    <2>10. PICK u : u = Append(t, k)
      OBVIOUS
    <2>11. Written(y, t, Armed(o.pane))
      BY <2>5, <2>7
    <2>12. /\ q.pane.prefix # "armed" => Written(Append(y, k), Append(t, k), Armed(q.pane))
           /\ o.pane.prefix # "armed" /\ q.pane.prefix = "armed" /\ k = "ctrlb"
                => Written(y, Append(t, k), Armed(q.pane))
           /\ o.pane.prefix = "armed" /\ q.pane.prefix # "armed" => Written(y, Append(t, k), Armed(q.pane))
      BY <2>2, <2>5, <2>8, <2>11, WrittenMore
    <2>13. Written(gave \o AllOf(q), u, Armed(q.pane))
      BY <2>3, <2>4, <2>7, <2>9, <2>10, <2>12
    <2> QED
      BY <2>6, <2>10, <2>13
  <1>5. \A n \in 0..m : n \in S
    <2>1. 0 \in S
      BY <1>2, <1>3
    <2>2. \A n \in 0..(m - 1) : n \in S => n + 1 \in S
      <3>1. ASSUME NEW n \in 0..(m - 1), n \in S PROVE n + 1 \in S
        <4>1. n + 1 \in 0..m /\ Fine(n)
          BY <1>2, <3>1
        <4>2. Fine(n + 1)
          BY <1>4, <4>1
        <4> HIDE DEF Fine
        <4> QED
          BY <4>1, <4>2
      <3> QED
        BY <3>1
    <2> HIDE DEF S
    <2> QED
      BY <1>2, <2>1, <2>2, Counting
  <1>6. Fine(m)
    <2> HIDE DEF Fine
    <2> QED
      BY <1>2, <1>5
  <1>7. PICK o : o = PollKeys(p, old, keys) /\ o = f[m]
    BY <1>1
  <1>8. o \in Polled
    BY <1>6, <1>7
  <1>9. ASSUME ~o.detach PROVE Written((gave \o o.out) \o HeldOf(o.pane), all, Armed(o.pane))
    <2>1. PICK t \in Seq(Keys) : Reads(t, m) /\ Written(gave \o AllOf(o), t, Armed(o.pane))
      <3> HIDE DEF Reads
      <3> QED
        BY <1>6, <1>7, <1>9
    <2>2. t = all
      BY <1>2, <2>1, SeqEqual
    <2>3. gave \o AllOf(o) = (gave \o o.out) \o HeldOf(o.pane)
      <3>1. <<"esc">> \in Seq(Keys) /\ <<>> \in Seq(Keys)
        BY DEF Keys
      <3>2. PICK h, x : h = HeldOf(o.pane) /\ x = o.out
        OBVIOUS
      <3>3. h \in Seq(Keys) /\ x \in Seq(Keys)
        BY <1>8, <3>1, <3>2 DEF HeldOf, Polled
      <3>4. gave \o (x \o h) = (gave \o x) \o h
        BY <3>3
      <3> QED
        BY <3>2, <3>4 DEF AllOf
    <2> QED
      BY <2>1, <2>2, <2>3
  <1> QED
    BY <1>7, <1>8, <1>9 DEF all

\* The first Ctrl+B d of an idle pane is obeyed, whatever follows it.
LEMMA HeardWell ==
    ASSUME NEW p \in Panes, NEW old \in BOOLEAN, NEW keys \in Seq(Keys), NEW i \in 2..Len(keys),
           p.prefix = "idle", keys[i] = "d", keys[i - 1] = "ctrlb", \A j \in 1..(i - 2) : keys[j] = "d"
    PROVE  PollKeys(p, old, keys).detach
  <1> DEFINE m == Len(keys)
  <1>1. PICK f : /\ f[0] = Expire(p, old) /\ f[m] = PollKeys(p, old, keys)
                 /\ \A n \in 1..m : f[n] = AndKey(f[n - 1], keys[n])
    BY PollKeysIs
  <1>2. m \in Nat /\ i \in Nat /\ i >= 2 /\ i <= m /\ \A n \in 1..m : keys[n] \in Keys
    OBVIOUS
  <1> HIDE DEF m
  <1>3. ASSUME NEW n \in 0..(m - 1), f[n] \in Polled
        PROVE  LET o == f[n] q == f[n + 1] k == keys[n + 1]
               IN /\ q \in Polled /\ (o.detach => q.detach)
                  /\ o.pane.prefix = "idle" /\ k = "d" => q.pane.prefix = "idle"
                  /\ o.pane.prefix = "idle" /\ k = "ctrlb" => q.pane.prefix = "armed"
                  /\ o.pane.prefix = "armed" /\ k = "d" => q.detach
    <2>1. n + 1 \in 1..m /\ (n + 1) - 1 = n
      BY <1>2
    <2>2. f[n + 1] = AndKey(f[n], keys[n + 1]) /\ keys[n + 1] \in Keys
      BY <1>1, <1>2, <2>1
    <2>3. PICK o, q, k : o = f[n] /\ q = f[n + 1] /\ k = keys[n + 1]
      OBVIOUS
    <2>4. o \in Polled /\ k \in Keys /\ q = AndKey(o, k)
      BY <1>3, <2>2, <2>3
    <2>5. /\ q \in Polled /\ (o.detach => q.detach)
          /\ o.pane.prefix = "idle" /\ k = "d" => q.pane.prefix = "idle"
          /\ o.pane.prefix = "idle" /\ k = "ctrlb" => q.pane.prefix = "armed"
          /\ o.pane.prefix = "armed" /\ k = "d" => q.detach
      BY <2>4, PolledMore
    <2> QED
      BY <2>3, <2>5
  <1> DEFINE Fine(n) == /\ f[n] \in Polled
                        /\ n <= i - 2 => f[n].pane.prefix = "idle"
                        /\ n = i - 1 => f[n].pane.prefix = "armed"
                        /\ n >= i => f[n].detach
             S == {n \in 0..m : Fine(n)}
  <1>4. Fine(0)
    <2>1. f[0] \in Polled /\ f[0].pane.prefix = "idle"
      BY <1>1, Expired
    <2>2. 0 <= i - 2 /\ 0 # i - 1 /\ ~(0 >= i)
      BY <1>2
    <2> QED
      BY <2>1, <2>2
  <1>5. ASSUME NEW n \in 0..(m - 1), Fine(n) PROVE Fine(n + 1)
    <2>1. PICK o, q, k : o = f[n] /\ q = f[n + 1] /\ k = keys[n + 1]
      OBVIOUS
    <2>2. /\ q \in Polled /\ (o.detach => q.detach)
          /\ o.pane.prefix = "idle" /\ k = "d" => q.pane.prefix = "idle"
          /\ o.pane.prefix = "idle" /\ k = "ctrlb" => q.pane.prefix = "armed"
          /\ o.pane.prefix = "armed" /\ k = "d" => q.detach
      BY <1>3, <1>5, <2>1
    <2>3. n \in Nat /\ (n + 1 <= i - 2 => n + 1 \in 1..(i - 2) /\ n <= i - 2)
          /\ (n + 1 = i - 1 => n <= i - 2) /\ (n + 1 >= i => n = i - 1 \/ n >= i)
          /\ (n = i - 1 => n + 1 = i)
      BY <1>2
    <2>4. n + 1 <= i - 2 => q.pane.prefix = "idle"
      BY <1>5, <2>1, <2>2, <2>3
    <2>5. n + 1 = i - 1 => q.pane.prefix = "armed"
      BY <1>5, <2>1, <2>2, <2>3
    <2>6. n + 1 >= i => q.detach
      BY <1>5, <2>1, <2>2, <2>3
    <2> QED
      BY <2>1, <2>2, <2>4, <2>5, <2>6
  <1>6. \A n \in 0..m : n \in S
    <2>1. 0 \in S
      BY <1>2, <1>4
    <2>2. \A n \in 0..(m - 1) : n \in S => n + 1 \in S
      <3>1. ASSUME NEW n \in 0..(m - 1), n \in S PROVE n + 1 \in S
        <4>1. n + 1 \in 0..m /\ Fine(n)
          BY <1>2, <3>1
        <4>2. Fine(n + 1)
          BY <1>5, <4>1
        <4> HIDE DEF Fine
        <4> QED
          BY <4>1, <4>2
      <3> QED
        BY <3>1
    <2> HIDE DEF S
    <2> QED
      BY <1>2, <2>1, <2>2, Counting
  <1> QED
    BY <1>1, <1>2, <1>6

-----------------------------------------------------------------------------
\* With an Esc that is held, the shell has what was typed but for the commands;
\* before there is a shell nothing counts as typed or written.
KeyboardInv ==
    /\ pane \in Panes /\ kb \in Seq(Keys) /\ typed \in Seq(Keys) /\ sent \in Seq(Keys)
    /\ pc # "shell" => typed = <<>> /\ sent = <<>>
    /\ pc = "shell" => Written(sent \o HeldOf(pane), typed, Armed(pane))

Unread == UNCHANGED keyboard /\ (pc' = pc \/ (pc # "shell" /\ pc' # "shell"))
\* The flow ends, and what it did not read stays in the terminal.
Quits == /\ pc' = "idle" /\ pane' = FreshPane /\ kb' \in {kb, <<>>} /\ typed' = <<>> /\ sent' = <<>>
\* The keys that are no pane's: those of the screens, of a tick and of the bridge.
KeysTaken ==
    /\ UNCHANGED <<pane, typed, sent>> /\ (kb' \in {kb, <<>>} \/ (kb # <<>> /\ kb' = Tail(kb)))
    /\ pc' = pc \/ (pc = "idle" /\ pc' # "shell")
    /\ ~(InPane /\ pc \in {"script", "shell"})
KeysRead ==
    /\ InPane /\ pc \in {"script", "shell"} /\ pc' = pc
    /\ \E old \in BOOLEAN :
          LET poll == PollKeys(pane, old, kb)
          IN /\ ~poll.detach /\ pane' = poll.pane /\ kb' = <<>>
             /\ IF pc = "shell" THEN typed' = typed \o kb /\ sent' = sent \o poll.out
                ELSE UNCHANGED <<typed, sent>>

LEMMA ResetQuits == Reset /\ kb' \in {kb, <<>>} => Quits
  BY DEF Reset, Quits

LEMMA TickKeys == ASSUME Tick PROVE Quits \/ KeysRead
  <1>0. kb' = <<>> /\ InPane /\ pc \in {"script", "shell"}
    BY DEF Tick
  <1>1. \A ok, got : EndSession(ok, got) => Quits
    BY <1>0, ResetQuits DEF EndSession, Over
  <1>2. Over => Quits
    BY <1>0, ResetQuits DEF Over
  <1>3. PICK old \in BOOLEAN :
           LET poll == PollKeys(pane, old, kb)
           IN \/ /\ Detached(poll)
                 /\ IF pc = "shell" THEN EndSession(TRUE, probe = "ok") ELSE Over /\ UNCHANGED desk
                 /\ LiveGone /\ UNCHANGED tty
              \/ /\ ~Detached(poll)
                 /\ pane' = poll.pane
                 /\ IF pc = "shell" THEN typed' = typed \o kb /\ sent' = sent \o poll.out
                    ELSE UNCHANGED <<typed, sent>>
                 /\ UNCHANGED <<desk, pc, link, forwards, scripts, meter, tty, input>>
              \/ /\ pc = "shell" /\ ~poll.detach /\ poll.out # <<>>
                 /\ EndSession(FALSE, probe = "ok") /\ LiveGone /\ UNCHANGED tty
    BY DEF Tick
  <1>4. PICK poll : poll = PollKeys(pane, old, kb)
    OBVIOUS
  <1> QED
    BY <1>0, <1>1, <1>2, <1>3, <1>4 DEF Detached, KeysRead

LEMMA KeyboardSteps ==
    ASSUME LeavesInv, [Next]_vars
    PROVE  Unread \/ Quits \/ KeysTaken \/ StartShell \/ TypeKeys \/ KeysRead \/ SwitchScreen
  <1>1. Over /\ kb' \in {kb, <<>>} => Quits
    BY ResetQuits DEF Over
  <1>2. \A ok, got : EndSession(ok, got) /\ kb' \in {kb, <<>>} => Quits
    BY ResetQuits DEF EndSession, Over
  <1>3. Failed /\ pc \in {"dial", "auth"} => Unread \/ Quits
    BY <1>1 DEF Failed, Go, Unread, keyboard
  <1>4. CASE ConnectStep
    <2>1. CASE Connect
      BY <2>1 DEF Connect, Fails, Goes, Go, ReadKey, KeysTaken
    <2>2. CASE Dial
      BY <1>3, <2>2 DEF Dial, Nothing, Go, Unread
    <2>3. CASE Authenticate
      BY <1>3, <2>3 DEF Authenticate, Established, Go, Unread
    <2>4. CASE ConnectTick
      BY <1>1, <2>4 DEF ConnectTick, KeysTaken
    <2> QED
      BY <1>4, <2>1, <2>2, <2>3, <2>4 DEF ConnectStep
  <1>5. CASE ForwardStep
    <2>1. CASE StartForward
      BY <2>1 DEF StartForward, Unread
    <2>2. CASE ForwardsStarted
      BY <1>1, <2>2 DEF ForwardsStarted, Go, Unread, keyboard
    <2>3. CASE AcceptForward \/ SocksHandshake \/ ChannelAnswer \/ PushedChannel \/ DialLocal \/ CloseConn
      BY <2>3 DEF AcceptForward, SocksHandshake, ChannelAnswer, PushedChannel, DialLocal, CloseConn,
                  Others, Unread
    <2> QED
      BY <1>5, <2>1, <2>2, <2>3 DEF ForwardStep
  <1>6. CASE ScriptStep
    <2>1. CASE SkipStep \/ StartStep \/ StepOutput \/ EndStep
      BY <2>1 DEF SkipStep, StartStep, StepOutput, EndStep, InScript, Unread
    <2>2. CASE ApplyEvents
      BY <2>2 DEF ApplyEvents, Unread
    <2>3. CASE ScriptEnds
      BY <2>3 DEF ScriptEnds, Go, Unread
    <2>4. CASE ScriptsDone
      BY <2>4 DEF ScriptsDone, Go, Unread
    <2> QED
      BY <1>6, <2>1, <2>2, <2>3, <2>4 DEF ScriptStep
  <1>7. CASE ShellStep
    <2>1. CASE ProbeAnswers \/ PollAnswers
      BY <2>1 DEF ProbeAnswers, PollAnswers, Metered, Unread
    <2>2. CASE ShellReturns
      BY <2>2 DEF ShellReturns, Unread
    <2>3. CASE ShellRefused \/ ConnectEnds \/ RemoteEnds
      BY <1>1, <1>2, <2>3 DEF ShellRefused, ConnectEnds, RemoteEnds
    <2>4. CASE IgnoreKey \/ BridgeKeys
      BY <2>4 DEF IgnoreKey, BridgeKeys, ReadKey, InShell, InPane, KeysTaken
    <2> QED
      BY <1>7, <2>1, <2>2, <2>3, <2>4, TickKeys DEF ShellStep
  <1>8. CASE FleetStep
    <2>1. CASE RunScript
      BY <2>1 DEF RunScript, Go, ReadKey, KeysTaken
    <2>2. CASE NextTarget
      BY <2>2 DEF NextTarget, Go, Unread
    <2>3. CASE RunEnds \/ RunTick
      BY <2>3, ResetQuits DEF RunEnds, RunTick, ShowRun, InFleet, InPane, KeysTaken
    <2> QED
      BY <1>8, <2>1, <2>2, <2>3 DEF FleetStep
  <1>9. CASE HandleKey1
    BY <1>9 DEF HandleKey1, ReadKey, KeysTaken
  <1>10. CASE UNCHANGED vars
    BY <1>10 DEF vars, session, Unread
  <1> QED
    BY <1>4, <1>5, <1>6, <1>7, <1>8, <1>9, <1>10 DEF Next, SessionNext

LEMMA NoKeys ==
    /\ <<>> \in Seq(Keys) /\ FreshPane \in Panes
    /\ \A p \in Panes : HeldOf(p) \in Seq(Keys) /\ <<>> \o HeldOf(p) = HeldOf(p)
  <1>1. <<"esc">> \in Seq(Keys) /\ <<>> \in Seq(Keys)
    BY DEF Keys
  <1>2. \A h \in Seq(Keys) : <<>> \o h = h
    OBVIOUS
  <1> QED
    BY <1>1, <1>2 DEF HeldOf, FreshPane, Panes, PrefixStates

LEMMA Pressed == ASSUME NEW keys \in Presses PROVE keys \in Seq(Keys) /\ Len(keys) \in Nat \ {0}
  <1>1. "esc" \in Keys /\ "d" \in Keys
    BY DEF Keys
  <1>2. \A one, two \in Keys : /\ <<one>> \in Seq(Keys) /\ Len(<<one>>) = 1
                              /\ <<one, two>> \in Seq(Keys) /\ Len(<<one, two>>) = 2
    OBVIOUS
  <1>3. \/ \E one \in Keys : keys = <<one>>
        \/ \E one, two \in Keys : keys = <<one, two>>
    BY <1>1 DEF Presses
  <1>4. CASE \E one \in Keys : keys = <<one>>
    <2>1. PICK one \in Keys : keys = <<one>>
      BY <1>4
    <2>2. <<one>> \in Seq(Keys) /\ Len(<<one>>) = 1
      BY <1>2
    <2>3. keys \in Seq(Keys) /\ Len(keys) = 1
      BY <2>1, <2>2, Zenon
    <2> QED
      BY <2>3
  <1>5. CASE \E one, two \in Keys : keys = <<one, two>>
    <2>1. PICK one \in Keys, two \in Keys : keys = <<one, two>>
      BY <1>5
    <2>2. <<one, two>> \in Seq(Keys) /\ Len(<<one, two>>) = 2
      BY <1>2
    <2>3. keys \in Seq(Keys) /\ Len(keys) = 2
      BY <2>1, <2>2, Zenon
    <2> QED
      BY <2>3
  <1> QED
    BY <1>3, <1>4, <1>5

LEMMA WithinItself == ASSUME NEW keys \in Seq(Keys) PROVE Within(<<>>, keys) /\ Within(keys, keys)
  <1>1. DOMAIN keys = 1..Len(keys) /\ Len(keys) \in Nat
    OBVIOUS
  <1>2. Within(<<>>, keys)
    <2> DEFINE f == [i \in DOMAIN <<>> |-> 1]
    <2>1. DOMAIN <<>> = {}
      OBVIOUS
    <2>2. f \in [DOMAIN <<>> -> DOMAIN keys]
      BY <2>1
    <2> HIDE DEF f
    <2> QED
      BY <2>1, <2>2 DEF Within
  <1>3. Within(keys, keys)
    <2> DEFINE f == [i \in DOMAIN keys |-> i]
    <2>1. f \in [DOMAIN keys -> DOMAIN keys] /\ \A i \in DOMAIN keys : f[i] = i
      OBVIOUS
    <2> HIDE DEF f
    <2>2. ASSUME NEW i \in DOMAIN keys
          PROVE  keys[i] = keys[f[i]] /\ \A j \in 1..(i - 1) : f[j] < f[i]
      <3>1. \A j \in 1..(i - 1) : j \in DOMAIN keys /\ j < i
        BY <1>1
      <3> QED
        BY <2>1, <3>1
    <2> QED
      BY <2>1, <2>2 DEF Within
  <1> QED
    BY <1>2, <1>3

\* The shell starts with the key the pane still holds.
LEMMA ShellStarts ==
    ASSUME NEW p \in Panes
    PROVE  LET keys == CASE p.prefix = "esc" -> <<"esc">> [] p.prefix = "armed" -> <<"ctrlb">> [] OTHER -> <<>>
           IN keys \in Seq(Keys) /\ Written(HeldOf(p), keys, Armed(p))
  <1>0. /\ <<"esc">> \in Seq(Keys) /\ <<"ctrlb">> \in Seq(Keys) /\ <<>> \in Seq(Keys)
        /\ Len(<<"esc">>) = 1 /\ Len(<<"ctrlb">>) = 1 /\ Len(<<>>) = 0
        /\ <<>> \o <<>> = <<>>
    BY DEF Keys
  <1>1. Count(<<"esc">>, "ctrlb") >= 0 /\ Count(<<>>, "ctrlb") >= 0 /\ Count(<<"ctrlb">>, "ctrlb") >= 1
        /\ Count(<<"ctrlb">>, "ctrlb") \in Nat /\ Count(<<>>, "ctrlb") \in Nat /\ Count(<<"esc">>, "ctrlb") \in Nat
    <2>1. PICK t : t = <<>> /\ t \in Seq(Keys)
      BY <1>0
    <2>2. Append(t, "esc") = <<"esc">> /\ Append(t, "ctrlb") = <<"ctrlb">> /\ "esc" \in Keys /\ "ctrlb" \in Keys
      BY <2>1 DEF Keys
    <2>3. /\ Count(t, "ctrlb") \in Nat
          /\ Count(Append(t, "esc"), "ctrlb") \in Nat
          /\ Count(Append(t, "ctrlb"), "ctrlb") = Count(t, "ctrlb") + 1
      BY <2>1, <2>2, CountMore
    <2>4. PICK a, b, c : a = Count(t, "ctrlb") /\ b = Count(Append(t, "esc"), "ctrlb") /\ c = Count(Append(t, "ctrlb"), "ctrlb")
      OBVIOUS
    <2>5. a >= 0 /\ b >= 0 /\ c >= 1 /\ a \in Nat /\ b \in Nat /\ c \in Nat
      BY <2>3, <2>4
    <2> QED
      BY <2>1, <2>2, <2>4, <2>5
  <1>2. CASE p.prefix = "esc"
    <2>1. HeldOf(p) = <<"esc">> /\ Armed(p) = 0
      BY <1>2 DEF HeldOf, Armed
    <2>2. PICK c \in Nat : c = Count(<<"esc">>, "ctrlb")
      BY <1>1
    <2>4. PICK t, none : t = <<"esc">> /\ none = <<>> /\ t \in Seq(Keys) /\ none \in Seq(Keys)
      BY <1>0
    <2>5. Len(t) = 1 /\ Len(none) = 0 /\ c = Count(t, "ctrlb")
      BY <1>0, <2>2, <2>4
    <2>6. Within(t, t)
      BY <2>4, WithinItself
    <2>7. Len(t) + 2 * c >= Len(t) + 0
      BY <2>2, <2>5
    <2>8. Written(t, t, 0)
      BY <2>5, <2>6, <2>7 DEF Written
    <2>3. Written(<<"esc">>, <<"esc">>, 0)
      BY <2>4, <2>8
    <2> QED
      BY <1>0, <1>2, <2>1, <2>3
  <1>3. CASE p.prefix = "armed"
    <2>1. HeldOf(p) = <<>> /\ Armed(p) = 1
      BY <1>3 DEF HeldOf, Armed
    <2>2. PICK c \in Nat : c = Count(<<"ctrlb">>, "ctrlb") /\ c >= 1
      BY <1>1
    <2>4. PICK t, none : t = <<"ctrlb">> /\ none = <<>> /\ t \in Seq(Keys) /\ none \in Seq(Keys)
      BY <1>0
    <2>5. Len(t) = 1 /\ Len(none) = 0 /\ c = Count(t, "ctrlb")
      BY <1>0, <2>2, <2>4
    <2>6. Within(none, t)
      BY <2>4, WithinItself
    <2>7. Len(none) + 2 * c >= Len(t) + 1
      BY <2>2, <2>5
    <2>8. Written(none, t, 1)
      BY <2>5, <2>6, <2>7 DEF Written
    <2>3. Written(<<>>, <<"ctrlb">>, 1)
      BY <2>4, <2>8
    <2> QED
      BY <1>0, <1>3, <2>1, <2>3
  <1>4. CASE p.prefix # "esc" /\ p.prefix # "armed"
    <2>1. HeldOf(p) = <<>> /\ Armed(p) = 0
      BY <1>4 DEF HeldOf, Armed
    <2>2. PICK c \in Nat : c = Count(<<>>, "ctrlb")
      BY <1>1
    <2>4. PICK t, none : t = <<>> /\ none = <<>> /\ t \in Seq(Keys) /\ none \in Seq(Keys)
      BY <1>0
    <2>5. Len(t) = 0 /\ Len(none) = 0 /\ c = Count(t, "ctrlb")
      BY <1>0, <2>2, <2>4
    <2>6. Within(t, t)
      BY <2>4, WithinItself
    <2>7. Len(t) + 2 * c >= Len(t) + 0
      BY <2>2, <2>5
    <2>8. Written(t, t, 0)
      BY <2>5, <2>6, <2>7 DEF Written
    <2>3. Written(<<>>, <<>>, 0)
      BY <2>4, <2>8
    <2> QED
      BY <1>0, <1>4, <2>1, <2>3
  <1> QED
    BY <1>2, <1>3, <1>4

LEMMA KeyboardInitially == Init => KeyboardInv
  BY NoKeys DEF Init, SessionInit, KeyboardInv

LEMMA KeyboardKept == ASSUME KeyboardInv, LeavesInv, [Next]_vars PROVE KeyboardInv'
  <1>1. CASE Unread
    BY <1>1 DEF KeyboardInv, Unread, keyboard
  <1>2. CASE Quits
    BY <1>2, NoKeys DEF KeyboardInv, Quits
  <1>7. CASE KeysTaken
    <2>1. \A keys \in Seq(Keys) : keys # <<>> => Tail(keys) \in Seq(Keys)
      OBVIOUS
    <2>2. kb \in Seq(Keys) /\ <<>> \in Seq(Keys)
      BY NoKeys DEF KeyboardInv
    <2>3. kb' \in Seq(Keys)
      BY <1>7, <2>1, <2>2 DEF KeysTaken
    <2> QED
      BY <1>7, <2>3 DEF KeyboardInv, KeysTaken
  <1>3. CASE StartShell
    <2>1. /\ pc = "ready" /\ pc' = "shell" /\ pane' = pane /\ kb' = kb /\ sent' = sent
          /\ typed' = CASE pane.prefix = "esc"   -> <<"esc">>
                        [] pane.prefix = "armed" -> <<"ctrlb">>
                        [] OTHER                 -> <<>>
      BY <1>3 DEF StartShell, Go
    <2>2. sent = <<>> /\ pane \in Panes
      BY <2>1 DEF KeyboardInv
    <2>3. <<>> \o HeldOf(pane) = HeldOf(pane)
      BY <2>2, NoKeys
    <2>4. typed' \in Seq(Keys) /\ Written(HeldOf(pane), typed', Armed(pane))
      BY <2>1, <2>2, ShellStarts
    <2>5. sent \o HeldOf(pane) = HeldOf(pane)
      BY <2>2, <2>3
    <2>6. Written(sent' \o HeldOf(pane'), typed', Armed(pane'))
      BY <2>1, <2>4, <2>5
    <2> QED
      BY <2>1, <2>4, <2>6 DEF KeyboardInv
  <1>4. CASE TypeKeys
    <2>1. pc' = pc /\ pane' = pane /\ typed' = typed /\ sent' = sent
      BY <1>4 DEF TypeKeys
    <2>2. PICK keys \in Presses : kb' = kb \o keys
      BY <1>4 DEF TypeKeys
    <2>3. keys \in Seq(Keys)
      BY <2>2, Pressed
    <2>4. kb' \in Seq(Keys)
      BY <2>2, <2>3 DEF KeyboardInv
    <2> QED
      BY <2>1, <2>4 DEF KeyboardInv
  <1>5. CASE KeysRead
    <2>1. PICK old \in BOOLEAN :
             LET poll == PollKeys(pane, old, kb)
             IN /\ ~poll.detach /\ pane' = poll.pane /\ kb' = <<>>
                /\ IF pc = "shell" THEN typed' = typed \o kb /\ sent' = sent \o poll.out
                   ELSE UNCHANGED <<typed, sent>>
      BY <1>5 DEF KeysRead
    <2>2. PICK o : o = PollKeys(pane, old, kb)
      OBVIOUS
    <2>3. /\ pc' = pc /\ ~o.detach /\ pane' = o.pane /\ kb' = <<>>
          /\ pc = "shell" => typed' = typed \o kb /\ sent' = sent \o o.out
          /\ pc # "shell" => typed' = typed /\ sent' = sent
      BY <1>5, <2>1, <2>2 DEF KeysRead
    <2>4. pane \in Panes /\ kb \in Seq(Keys) /\ typed \in Seq(Keys) /\ sent \in Seq(Keys) /\ <<>> \in Seq(Keys)
      BY NoKeys DEF KeyboardInv
    <2>5. CASE pc = "shell"
      <3>1. Written(sent \o HeldOf(pane), typed, Armed(pane))
        BY <2>5 DEF KeyboardInv
      <3>2. /\ PollKeys(pane, old, kb) \in Polled
            /\ ~PollKeys(pane, old, kb).detach =>
                  Written((sent \o PollKeys(pane, old, kb).out) \o HeldOf(PollKeys(pane, old, kb).pane),
                          typed \o kb, Armed(PollKeys(pane, old, kb).pane))
        BY <2>1, <2>4, <3>1, PolledWell
      <3>3. o \in Polled /\ Written((sent \o o.out) \o HeldOf(o.pane), typed \o kb, Armed(o.pane))
        BY <2>2, <2>3, <3>2
      <3>4. Written(sent' \o HeldOf(pane'), typed', Armed(pane'))
        BY <2>3, <2>5, <3>3
      <3>5. o.pane \in Panes /\ o.out \in Seq(Keys)
        BY <3>3 DEF Polled
      <3>6. typed' \in Seq(Keys) /\ sent' \in Seq(Keys)
        <4>1. PICK out : out = o.out /\ out \in Seq(Keys)
          BY <3>5
        <4>2. typed \o kb \in Seq(Keys)
          BY <2>4
        <4>3. sent \o out \in Seq(Keys)
          BY <2>4, <4>1
        <4> QED
          BY <2>3, <2>5, <4>1, <4>2, <4>3
      <3> QED
        BY <2>3, <2>4, <2>5, <3>4, <3>5, <3>6 DEF KeyboardInv
    <2>6. CASE pc # "shell"
      <3>1. Written(<<>> \o HeldOf(pane), CASE pane.prefix = "esc" -> <<"esc">> [] pane.prefix = "armed" -> <<"ctrlb">> [] OTHER -> <<>>, Armed(pane))
        BY <2>4, NoKeys, ShellStarts
      <3>2. PICK keys \in Seq(Keys) : Written(<<>> \o HeldOf(pane), keys, Armed(pane))
        BY <2>4, <3>1, ShellStarts
      <3>3. /\ PollKeys(pane, old, kb) \in Polled
        BY <2>1, <2>4, <3>2, PolledWell
      <3>4. o.pane \in Panes
        BY <2>2, <3>3 DEF Polled
      <3> QED
        BY <2>3, <2>4, <2>6, <3>4 DEF KeyboardInv
    <2> QED
      BY <2>5, <2>6
  <1>6. CASE SwitchScreen
    <2>1. pc' = pc /\ kb' = kb /\ typed' = typed /\ sent' = sent /\ pane' = [pane EXCEPT !.alt = ~@]
      BY <1>6 DEF SwitchScreen
    <2>2. pane \in Panes
      BY DEF KeyboardInv
    <2>3. pane' \in Panes /\ pane'.prefix = pane.prefix
      BY <2>1, <2>2 DEF Panes
    <2>4. HeldOf(pane') = HeldOf(pane) /\ Armed(pane') = Armed(pane)
      BY <2>3 DEF HeldOf, Armed
    <2> QED
      BY <2>1, <2>3, <2>4 DEF KeyboardInv
  <1> QED
    BY <1>1, <1>2, <1>3, <1>4, <1>5, <1>6, <1>7, KeyboardSteps

LEMMA LeavesAndKeys == Spec => []LeavesInv /\ []KeyboardInv
  <1>1. Init => LeavesInv /\ KeyboardInv
    BY LeavesInitially, KeyboardInitially
  <1>2. LeavesInv /\ KeyboardInv /\ [Next]_vars => LeavesInv' /\ KeyboardInv'
    BY LeavesStep, KeyboardKept
  <1> QED
    BY <1>1, <1>2, PTL DEF Spec

\* KeysInOrder: however the keys fall to the polls, what the shell was sent, with an
\* Esc that is held back, is what was typed but for the commands of the pane, in the
\* order it was typed in (PaneInput::push, PaneInput::expire, pane_session_loop).
THEOREM KeysAreInOrder == Spec => []KeysInOrder
  <1>1. KeyboardInv => KeysInOrder
    <2> SUFFICES ASSUME KeyboardInv, pc = "shell" PROVE KeysInOrder
      BY DEF KeysInOrder
    <2>1. PICK out : out = sent \o HeldOf(pane)
      OBVIOUS
    <2>2. Written(out, typed, Armed(pane)) /\ typed \in Seq(Keys) /\ Armed(pane) \in {0, 1}
      BY <2>1 DEF KeyboardInv, Armed
    <2>3. out \in Seq(Keys)
      BY <2>1, NoKeys DEF KeyboardInv
    <2>4. PICK a \in Nat, b \in Nat, c \in Nat : a = Len(out) /\ b = Len(typed) /\ c = Count(typed, "ctrlb")
      <3>1. "d" \in Keys
        BY DEF Keys
      <3>2. Count(typed, "ctrlb") \in Nat
        BY <2>2, <3>1, CountMore
      <3> QED
        BY <2>2, <2>3, <3>2
    <2>5. PICK v \in {0, 1} : v = Armed(pane)
      BY <2>2
    <2>6. Within(out, typed) /\ a + 2 * c >= b + v
      BY <2>2, <2>4, <2>5 DEF Written
    <2>7. a + 2 * c >= b
      BY <2>4, <2>5, <2>6
    <2>8. sent \o Held = out
      BY <2>1 DEF Held, HeldOf
    <2> QED
      BY <2>4, <2>6, <2>7, <2>8 DEF KeysInOrder
  <1> QED
    BY <1>1, LeavesAndKeys, PTL

\* DetachIsHeard: a detach is obeyed by the poll that reads it, whatever else is
\* typed in the same poll and whatever is on the screen (pane_session_loop).
THEOREM DetachesAtOnce == Spec => DetachIsHeard
  <1>1. ASSUME LeavesInv, KeyboardInv, [Next]_vars, DetachWaits, kb' = <<>> PROVE pc' = "idle"
    <2>1. PICK i \in DOMAIN kb \ {1} : kb[i] = "d" /\ kb[i - 1] = "ctrlb" /\ \A j \in 1..(i - 2) : kb[j] = "d"
      BY <1>1 DEF DetachWaits
    <2>2. pane \in Panes /\ kb \in Seq(Keys) /\ pane.prefix = "idle"
      BY <1>1 DEF KeyboardInv, DetachWaits
    <2>3. i \in 2..Len(kb) /\ Len(kb) # 0 /\ kb # <<>>
      BY <2>1, <2>2
    <2>4. ASSUME NEW old \in BOOLEAN PROVE PollKeys(pane, old, kb).detach
      BY <2>1, <2>2, <2>3, <2>4, HeardWell
    <2>5. ~KeysRead
      BY <2>4 DEF KeysRead
    <2>6. ~Unread /\ ~StartShell /\ ~SwitchScreen /\ ~KeysTaken
      BY <1>1, <2>3 DEF Unread, keyboard, StartShell, SwitchScreen, KeysTaken, DetachWaits
    <2>7. ~TypeKeys
      <3> SUFFICES ASSUME TypeKeys PROVE FALSE
        OBVIOUS
      <3>1. PICK keys \in Presses : kb' = kb \o keys
        BY DEF TypeKeys
      <3>2. keys \in Seq(Keys) /\ Len(keys) \in Nat \ {0}
        BY <3>1, Pressed
      <3>3. Len(kb \o keys) = Len(kb) + Len(keys) /\ Len(kb) \in Nat
        BY <2>2, <3>2
      <3>4. Len(kb') # 0
        BY <3>1, <3>2, <3>3
      <3> QED
        BY <1>1, <3>4
    <2> QED
      BY <1>1, <2>5, <2>6, <2>7, KeyboardSteps DEF Quits
  <1>2. ASSUME LeavesInv, KeyboardInv, [Next]_vars PROVE [DetachWaits /\ kb' = <<>> => pc' = "idle"]_vars
    BY <1>1, <1>2
  <1> QED
    BY <1>2, LeavesAndKeys, PTL DEF Spec, DetachIsHeard
=============================================================================
