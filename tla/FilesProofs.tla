---------------------------- MODULE FilesProofs ----------------------------
(***************************************************************************)
(* First of the client: a reply is accepted by its id alone, ids start     *)
(* again after MaxId, and replies of requests that timed out stay on the   *)
(* way.  The proof keeps, for everything on the way, how far its id is     *)
(* behind the next one.  What is asked and answered plays no part, so the  *)
(* invariant is over any sets R of requests and A of answers.              *)
(*                                                                         *)
(* Then of the browser and its transfers over it: whichever flow sends the *)
(* next request, the replies on the way are in the order of the requests,  *)
(* and an answer is had only when nothing is on the way any more.  From    *)
(* this, what a transfer does to the files that were there before it.      *)
(***************************************************************************)
EXTENDS Files, SequenceTheorems, TLAPS, WellFoundedInduction

\* The id given n requests after `id`, for n < MaxId.
After(id, n) == IF id + n > MaxId THEN id + n - MaxId ELSE id + n

InStep(e, n, id) ==
    /\ e.no <= n /\ n < e.no + MaxId
    /\ id = After(e.id, n - e.no + 1)

OnTheWay ==
    link = "up" => /\ \A e \in asked : InStep(e, sent, nextId)
                   /\ \A i \in DOMAIN wire : InStep(wire[i], sent, nextId)

CallInStep ==
    call.st = "waiting" => /\ call.no = sent /\ call.id \in 1..MaxId
                           /\ nextId = After(call.id, 1)

CallOver(R, A) == [st : CallStates, id : 0..MaxId, no : Nat, req : R, ans : A, got : Nat]
ReplyOver(A) == [no : Nat, id : 1..MaxId, ans : A]

\* ClientTypeOK over R and A.
Typed(R, A) ==
    /\ nextId \in 1..MaxId /\ sent \in Nat
    /\ asked \subseteq [no : Nat, id : 1..MaxId, req : R]
    /\ wire \in Seq(ReplyOver(A))
    /\ link \in Links
    /\ call \in CallOver(R, A)

InvOver(R, A) == Typed(R, A) /\ OnTheWay /\ CallInStep /\ OwnReply
IInv == InvOver(Requests, Replies)

LEMMA TypedIsTypeOK == Typed(Requests, Replies) <=> ClientTypeOK
  BY DEF Typed, ClientTypeOK, CallOver, ReplyOver

LEMMA CallTyped ==
    ASSUME NEW R, NEW A, NEW c \in CallOver(R, A), NEW st \in CallStates, NEW id \in 0..MaxId,
           NEW no \in Nat, NEW got \in Nat
    PROVE  /\ [c EXCEPT !.st = st, !.id = id, !.no = no, !.got = got] \in CallOver(R, A)
           /\ [c EXCEPT !.st = st, !.id = id, !.no = no, !.got = got].st = st
  BY DEF CallOver

LEMMA CallIssued ==
    ASSUME NEW R, NEW A, NEW c \in CallOver(R, A), NEW id \in 0..MaxId, NEW no \in Nat,
           NEW req \in R
    PROVE  [c EXCEPT !.st = "waiting", !.id = id, !.no = no, !.req = req] \in CallOver(R, A)
  BY DEF CallOver, CallStates

\* Within one turn of the ids, the same id means the same request.
LEMMA SameId ==
    ASSUME NEW id \in 1..MaxId, NEW k \in Nat, k < MaxId, After(id, k + 1) = After(id, 1)
    PROVE  k = 0
  BY IdAssumption DEF After

LEMMA TailOfWire ==
    ASSUME NEW A, NEW s \in Seq(ReplyOver(A)), s # <<>>
    PROVE  /\ Tail(s) \in Seq(ReplyOver(A))
           /\ \A i \in DOMAIN Tail(s) : i + 1 \in DOMAIN s /\ Tail(s)[i] = s[i + 1]
           /\ Head(s) = s[1] /\ 1 \in DOMAIN s /\ s[1] \in ReplyOver(A)
  OBVIOUS

LEMMA AppendToWire ==
    ASSUME NEW A, NEW s \in Seq(ReplyOver(A)), NEW e \in ReplyOver(A)
    PROVE  /\ Append(s, e) \in Seq(ReplyOver(A))
           /\ \A i \in DOMAIN Append(s, e) :
                 \/ i \in DOMAIN s /\ Append(s, e)[i] = s[i]
                 \/ Append(s, e)[i] = e
  OBVIOUS

\* One more id is given out: what was in step stays so, one further behind.
LEMMA OneMore ==
    ASSUME NEW e, e.no \in Nat, e.id \in 1..MaxId, sent \in Nat, nextId \in 1..MaxId,
           InStep(e, sent, nextId), sent + 1 < e.no + MaxId
    PROVE  InStep(e, sent + 1, NextId)
  <1> DEFINE n == sent - e.no + 1
  <1>1. n \in Nat /\ n < MaxId /\ nextId = After(e.id, n) /\ MaxId \in Nat
    BY IdAssumption DEF InStep
  <1>2. NextId = After(e.id, n + 1)
    <2> HIDE DEF n
    <2> QED
      BY <1>1 DEF NextId, After
  <1>3. n + 1 = (sent + 1) - e.no + 1
    OBVIOUS
  <1> QED
    BY <1>1, <1>2, <1>3 DEF InStep

LEMMA InitiallyOver ==
    ASSUME NEW R, NEW A, nextId = 1, sent = 0, asked = {}, wire = <<>>, link = "closed",
           call \in CallOver(R, A), call.st = "none"
    PROVE  InvOver(R, A)
  <1>1. Typed(R, A)
    BY IdAssumption DEF Typed, ReplyOver, Links
  <1> QED
    BY <1>1 DEF InvOver, OnTheWay, CallInStep, OwnReply

LEMMA Initially == ClientInit => IInv
  <1> SUFFICES ASSUME ClientInit PROVE IInv
    OBVIOUS
  <1>1. call \in CallOver(Requests, Replies) /\ call.st = "none"
    BY IdAssumption DEF ClientInit, CallStates, CallOver
  <1> QED
    BY <1>1, InitiallyOver DEF ClientInit, IInv

\* Where the ids in use do not change, what is in step stays so.
LEMMA SameIds ==
    ASSUME NEW R, NEW A, InvOver(R, A), UNCHANGED <<nextId, sent>>, link' = "up" => link = "up",
           asked' \subseteq asked,
           link' = "up" => \A i \in DOMAIN wire' :
              (\E j \in DOMAIN wire : wire'[i] = wire[j]) \/ InStep(wire'[i], sent, nextId)
    PROVE  OnTheWay'
  BY DEF InvOver, OnTheWay

LEMMA OpenStep == ASSUME NEW R, NEW A, InvOver(R, A), Open PROVE InvOver(R, A)'
  <1>1. Typed(R, A)'
    <2>1. call' \in CallOver(R, A)
      <3>1. "none" \in CallStates /\ 0 \in 0..MaxId /\ call \in CallOver(R, A)
        BY IdAssumption DEF CallStates, InvOver, Typed, CallOver
      <3> QED
        BY <3>1, CallTyped DEF Open
    <2>2. nextId' \in 1..MaxId /\ sent' \in Nat /\ asked' = {} /\ wire' = <<>> /\ link' \in Links
      BY IdAssumption DEF Open, Links
    <2> QED
      BY <2>1, <2>2 DEF Typed, CallOver
  <1>2. OnTheWay' /\ CallInStep' /\ OwnReply'
    <2>1. call'.st = "none" /\ asked' = {} /\ wire' = <<>>
      BY DEF Open, InvOver, Typed, CallOver
    <2> QED
      BY <2>1 DEF OnTheWay, CallInStep, OwnReply
  <1> QED
    BY <1>1, <1>2 DEF InvOver

LEMMA IssueStep == ASSUME NEW R, NEW A, InvOver(R, A), NEW req \in R, Issue(req) PROVE InvOver(R, A)'
  <1>1. /\ sent \in Nat /\ sent' = sent + 1 /\ nextId \in 1..MaxId /\ nextId' = NextId
        /\ nextId' = After(nextId, 1) /\ nextId' \in 1..MaxId /\ MaxId \in Nat
    BY IdAssumption DEF InvOver, Typed, Issue, NextId, After
  <1>2. Typed(R, A)'
    <2>1. call' \in CallOver(R, A)
      <3>1. call \in CallOver(R, A) /\ nextId \in 0..MaxId /\ sent' \in Nat
        BY <1>1 DEF InvOver, Typed, CallOver
      <3> QED
        BY <3>1, CallIssued DEF Issue
    <2>2. asked' \subseteq [no : Nat, id : 1..MaxId, req : R]
      BY <1>1 DEF Issue, InvOver, Typed
    <2> QED
      BY <1>1, <2>1, <2>2 DEF Issue, InvOver, Typed, CallOver
  <1>3. CallInStep' /\ OwnReply'
    <2>1. call'.st = "waiting" /\ call'.no = sent' /\ call'.id = nextId
      BY DEF Issue, InvOver, Typed, CallOver
    <2> QED
      BY <2>1, <1>1 DEF CallInStep, OwnReply
  <1>4. OnTheWay'
    <2> SUFFICES ASSUME link' = "up"
                 PROVE  /\ \A f \in asked' : InStep(f, sent', nextId')
                        /\ \A i \in DOMAIN wire' : InStep(wire'[i], sent', nextId')
      BY DEF OnTheWay
    <2>1. /\ link = "up" /\ wire' = wire
          /\ asked' = asked \cup {[no |-> sent + 1, id |-> nextId, req |-> req]}
      BY <1>1 DEF Issue
    <2>2. ASSUME NEW f \in asked' PROVE InStep(f, sent', nextId')
      <3>1. CASE f \in asked
        <4>1. f.no \in Nat /\ f.id \in 1..MaxId
          BY <3>1 DEF InvOver, Typed
        <4>2. InStep(f, sent, nextId) /\ sent + 1 < f.no + MaxId
          BY <3>1, <2>1 DEF InvOver, OnTheWay, Issue, RoomForId
        <4> QED
          BY <4>1, <4>2, <1>1, OneMore
      <3>2. CASE f = [no |-> sent + 1, id |-> nextId, req |-> req]
        <4>1. f.no = sent' /\ f.id = nextId
          BY <3>2, <1>1
        <4>2. sent' - f.no + 1 = 1 /\ f.no <= sent' /\ sent' < f.no + MaxId
          BY <4>1, <1>1, IdAssumption
        <4> QED
          BY <4>1, <4>2, <1>1 DEF InStep
      <3> QED
        BY <3>1, <3>2, <2>1
    <2>3. ASSUME NEW i \in DOMAIN wire' PROVE InStep(wire'[i], sent', nextId')
      <3>1. wire[i] \in [no : Nat, id : 1..MaxId, ans : A]
        <4>1. wire \in Seq(ReplyOver(A)) /\ i \in DOMAIN wire
          BY <2>1 DEF InvOver, Typed, ReplyOver
        <4>2. wire[i] \in ReplyOver(A)
          BY <4>1
        <4> QED
          BY <4>2 DEF ReplyOver
      <3>2. wire[i] \in Range(wire) /\ InStep(wire[i], sent, nextId)
        BY <2>1 DEF Range, InvOver, OnTheWay
      <3>3. sent + 1 < wire[i].no + MaxId
        BY <3>2, <2>1 DEF Issue, RoomForId
      <3> QED
        BY <3>1, <3>2, <3>3, <1>1, <2>1, OneMore
    <2> QED
      BY <2>2, <2>3
  <1> QED
    BY <1>2, <1>3, <1>4 DEF InvOver

LEMMA ServeStep ==
    ASSUME NEW R, NEW A, InvOver(R, A), NEW e \in asked, NEW ans \in A, Serve(e, ans)
    PROVE  InvOver(R, A)'
  <1> DEFINE r == [no |-> e.no, id |-> e.id, ans |-> ans]
  <1>1. r \in ReplyOver(A) /\ wire \in Seq(ReplyOver(A)) /\ e.no \in Nat /\ e.id \in 1..MaxId
    BY DEF InvOver, Typed, ReplyOver
  <1>2. wire' \in Seq(ReplyOver(A)) /\ \A i \in DOMAIN wire' :
           (\E j \in DOMAIN wire : wire'[i] = wire[j]) \/ (link = "up" /\ wire'[i] = r)
    BY <1>1, AppendToWire DEF Serve
  <1>3. Typed(R, A)'
    BY <1>2 DEF InvOver, Typed, Serve, ReplyOver
  <1>4. link = "up" => InStep(r, sent, nextId)
    BY DEF InvOver, OnTheWay, InStep
  <1>5. OnTheWay'
    BY <1>2, <1>4, SameIds DEF Serve
  <1> QED
    BY <1>3, <1>5 DEF InvOver, Serve, CallInStep, OwnReply

LEMMA ReceiveStep == ASSUME NEW R, NEW A, InvOver(R, A), Receive PROVE InvOver(R, A)'
  <1> DEFINE e == Head(wire)
  <1>1. wire \in Seq(ReplyOver(A)) /\ wire # <<>> /\ link = "up" /\ call.st = "waiting"
    BY DEF InvOver, Typed, ReplyOver, Receive
  <1>2. /\ e \in ReplyOver(A) /\ 1 \in DOMAIN wire /\ e = wire[1] /\ wire' \in Seq(ReplyOver(A))
        /\ \A i \in DOMAIN wire' : \E j \in DOMAIN wire : wire'[i] = wire[j]
    BY <1>1, TailOfWire DEF Receive
  <1>3. InStep(e, sent, nextId)
    BY <1>1, <1>2 DEF InvOver, OnTheWay
  <1>4. e.id = call.id => e.no = call.no
    <2>1. e.no \in Nat /\ e.id \in 1..MaxId /\ sent \in Nat /\ call.no = sent
          /\ call.id \in 1..MaxId /\ nextId = After(call.id, 1)
      BY <1>1, <1>2 DEF InvOver, Typed, CallInStep, ReplyOver
    <2>2. nextId = After(e.id, sent - e.no + 1) /\ e.no <= sent /\ sent < e.no + MaxId
      BY <1>3 DEF InStep
    <2> HIDE DEF e
    <2> DEFINE k == sent - e.no
    <2>3. k \in Nat /\ k < MaxId
      BY <2>1, <2>2, IdAssumption
    <2>4. ASSUME e.id = call.id PROVE k = 0
      <3>1. After(e.id, k + 1) = After(e.id, 1)
        BY <2>1, <2>2, <2>4
      <3> QED
        BY <3>1, <2>1, <2>3, SameId
    <2> QED
      BY <2>1, <2>4
  <1>5. Typed(R, A)'
    <2>1. e.no \in Nat /\ e.ans \in A /\ call \in CallOver(R, A)
      BY <1>2 DEF ReplyOver, InvOver, Typed, CallOver
    <2>2. call' \in CallOver(R, A)
      <3> HIDE DEF e
      <3>1. call' = [call EXCEPT !.st = "answered", !.ans = e.ans, !.got = e.no]
            \/ call' = [call EXCEPT !.st = "fatal"]
        BY DEF Receive, Fail, e
      <3> QED
        BY <3>1, <2>1 DEF CallOver, CallStates
    <2> QED
      BY <1>2, <2>2 DEF InvOver, Typed, Receive, ReplyOver, CallOver
  <1>6. OnTheWay'
    BY <1>2, SameIds DEF Receive
  <1>7. call'.st # "waiting" /\ (call'.st = "answered" => call'.got = call'.no)
    BY <1>4, <1>1 DEF Receive, Matches, Fail, InvOver, Typed, CallOver
  <1> QED
    BY <1>5, <1>6, <1>7 DEF InvOver, CallInStep, OwnReply

\* A call that fails, a connection that is lost, a session that is dropped.
LEMMA FailingStep ==
    ASSUME NEW R, NEW A, InvOver(R, A), TimeOut \/ ReadTorn \/ ReadClosed PROVE InvOver(R, A)'
  <1>1. UNCHANGED <<nextId, sent, asked>> /\ call' = [call EXCEPT !.st = "fatal"]
        /\ wire' \in {wire, <<>>} /\ (link' = "up" => link = "up" /\ wire' = wire) /\ link' \in Links
    BY DEF TimeOut, ReadTorn, ReadClosed, Fail, InvOver, Typed, Links
  <1>2. Typed(R, A)'
    <2>1. call' \in CallOver(R, A)
      BY <1>1 DEF InvOver, Typed, CallOver, CallStates
    <2>2. wire' \in Seq(ReplyOver(A))
      <3>1. wire \in Seq(ReplyOver(A)) /\ <<>> \in Seq(ReplyOver(A))
        BY DEF InvOver, Typed, ReplyOver
      <3> QED
        BY <3>1, <1>1
    <2> QED
      BY <1>1, <2>1, <2>2 DEF InvOver, Typed, CallOver, ReplyOver
  <1>3. OnTheWay'
    BY <1>1, SameIds
  <1>4. call'.st = "fatal"
    BY <1>1 DEF InvOver, Typed, CallOver
  <1> QED
    BY <1>2, <1>3, <1>4 DEF InvOver, CallInStep, OwnReply

LEMMA EndingStep ==
    ASSUME NEW R, NEW A, InvOver(R, A), Lose \/ Drop \/ Abandon PROVE InvOver(R, A)'
  <1>1. UNCHANGED <<nextId, sent>> /\ link' # "up" /\ asked' \subseteq asked
        /\ wire' \in {wire, <<>>} /\ link' \in Links
    BY DEF Lose, Drop, Abandon, InvOver, Typed, Links
  <1>2. call' = call \/ (call' = [call EXCEPT !.st = "none", !.id = 0, !.no = 0, !.got = 0]
                         /\ call'.st = "none")
    BY DEF Lose, Drop, Abandon, InvOver, Typed, CallOver
  <1>3. Typed(R, A)'
    <2>1. "none" \in CallStates /\ 0 \in 0..MaxId /\ call \in CallOver(R, A)
      BY IdAssumption DEF CallStates, InvOver, Typed, CallOver
    <2>2. call' \in CallOver(R, A)
      <3>1. CASE call' = call
        BY <3>1, <2>1
      <3>2. CASE call' = [call EXCEPT !.st = "none", !.id = 0, !.no = 0, !.got = 0]
        BY <3>2, <2>1, CallTyped
      <3> QED
        BY <3>1, <3>2, <1>2
    <2>3. wire' \in Seq(ReplyOver(A))
      <3>1. wire \in Seq(ReplyOver(A)) /\ <<>> \in Seq(ReplyOver(A))
        BY DEF InvOver, Typed, ReplyOver
      <3> QED
        BY <3>1, <1>1
    <2> QED
      BY <1>1, <2>2, <2>3 DEF InvOver, Typed, CallOver, ReplyOver
  <1>4. CallInStep' /\ OwnReply'
    BY <1>1, <1>2 DEF InvOver, CallInStep, OwnReply
  <1> QED
    BY <1>1, <1>3, <1>4 DEF InvOver, OnTheWay

\* A step of the client with any request and any answer of R and A.
Moves(R, A) ==
    \/ Open \/ Receive \/ TimeOut \/ ReadTorn \/ Lose \/ ReadClosed \/ Drop \/ Abandon
    \/ \E req \in R : Issue(req)
    \/ \E e \in asked, ans \in A : Serve(e, ans)

LEMMA EveryMove ==
    ASSUME NEW R, NEW A, InvOver(R, A), Moves(R, A) \/ UNCHANGED client
    PROVE  InvOver(R, A)'
  <1>1. CASE UNCHANGED client
    BY <1>1 DEF client, InvOver, Typed, OnTheWay, InStep, CallInStep, OwnReply
  <1>2. CASE Moves(R, A)
    BY <1>2, OpenStep, IssueStep, ServeStep, ReceiveStep, FailingStep, EndingStep DEF Moves
  <1> QED
    BY <1>1, <1>2

\* The invariant does not mind more requests and answers than there are.
LEMMA Wider ==
    ASSUME NEW R, NEW A, NEW more, NEW others, InvOver(R, A)
    PROVE  InvOver(R \cup more, A \cup others)
  <1>1. wire \in Seq(ReplyOver(A \cup others))
    <2>1. wire \in Seq(ReplyOver(A)) /\ ReplyOver(A) \subseteq ReplyOver(A \cup others)
      BY DEF InvOver, Typed, ReplyOver
    <2> QED
      BY <2>1, SeqMonotonic
  <1>2. Typed(R \cup more, A \cup others)
    BY <1>1 DEF InvOver, Typed, CallOver
  <1> QED
    BY <1>2 DEF InvOver

LEMMA IInvHolds == ClientSpec => []IInv
  <1>1. IInv /\ [ClientNext]_client => IInv'
    BY EveryMove DEF IInv, ClientNext, Moves
  <1> QED
    BY Initially, <1>1, PTL DEF ClientSpec

\* OwnReply of Files: in SftpClient no late reply is ever taken for the answer
\* to a later request, however many requests timed out before it.
THEOREM AnswersAreOwn == ClientSpec => []OwnReply
  <1>1. IInv => OwnReply
    BY DEF IInv, InvOver
  <1> QED
    BY IInvHolds, <1>1, PTL

\* The types of the client's variables.
THEOREM ClientTyped == ClientSpec => []ClientTypeOK
  <1>1. IInv => ClientTypeOK
    BY TypedIsTypeOK DEF IInv, InvOver
  <1> QED
    BY IInvHolds, <1>1, PTL

---------------------------------------------------------------------------
\* The oldest request, which the server takes next.

LEMMA LeastNumber ==
    ASSUME NEW S, S \subseteq Nat, S # {}
    PROVE  \E n \in S : \A m \in S : n <= m
  <1> DEFINE Less == OpToRel(<, Nat)
  <1>1. IsWellFoundedOn(Less, Nat)
    BY NatLessThanWellFounded
  <1>2. \A m, n \in S : <<m, n>> \in Less <=> m < n
    BY DEF OpToRel
  <1> HIDE DEF Less
  <1>3. PICK n \in S : \A m \in S : <<m, n>> \notin Less
    BY <1>1, WFMin
  <1>4. \A m \in S : ~(m < n)
    BY <1>2, <1>3
  <1> QED
    BY <1>4

LEMMA OldestIsFirst ==
    ASSUME asked # {}, \A e \in asked : e.no \in Nat
    PROVE  Oldest \in asked /\ \A f \in asked : Oldest.no <= f.no
  <1> DEFINE nos == {e.no : e \in asked}
  <1>1. PICK n \in nos : \A m \in nos : n <= m
    <2>1. nos \subseteq Nat /\ nos # {}
      OBVIOUS
    <2> HIDE DEF nos
    <2> QED
      BY <2>1, LeastNumber
  <1>2. PICK e \in asked : \A f \in asked : e.no <= f.no
    BY <1>1
  <1> QED
    BY <1>2 DEF Oldest

---------------------------------------------------------------------------
\* What a step of Files does to the client.

Sends == \E req : Issue(req)
Answers == asked # {} /\ \E ans : Serve(Oldest, ans)
ClientStep ==
    \/ Sends \/ Answers
    \/ Open \/ Receive \/ TimeOut \/ ReadTorn \/ Lose \/ ReadClosed \/ Drop \/ Abandon
    \/ UNCHANGED client

LEMMA AskSends == ASSUME NEW op, NEW path, NEW next, Ask(op, path, next) PROVE Sends
  BY DEF Ask, Sends

LEMMA DataSends ==
    ASSUME NEW path, NEW off, NEW next,
           \/ AskWrite(path, off, next) \/ AskRead(path, off, next) \/ AskCreate(path, off, next)
    PROVE  Sends
  BY DEF AskWrite, AskRead, AskCreate, Sends

ListFields == {"path", "then", "result", "entries"}
Shaped == DOMAIN lister = ListFields

LEMMA ListSends ==
    ASSUME NEW path, NEW then
    PROVE  ListDir(path, then) => Sends /\ DOMAIN lister' = ListFields
  BY AskSends DEF ListDir, ListFields

LEMMA ListRemoteSends ==
    ASSUME NEW path, ListRemote(path)
    PROVE  (Sends \/ UNCHANGED client) /\ (UNCHANGED lister \/ DOMAIN lister' = ListFields)
  BY ListSends DEF ListRemote

LEMMA CleanUpSends ==
    ASSUME NEW out, NEW cost, CleanUp(out, cost) PROVE Sends \/ UNCHANGED client
  BY AskSends DEF CleanUp

Keeps == ClientStep /\ (Shaped => Shaped')

LEMMA KeySteps == ASSUME KeyStep PROVE Keeps
  <1>1. CASE SwitchPane \/ MoveCursor \/ ToggleMark \/ Transfer \/ Decide
    BY <1>1 DEF SwitchPane, MoveCursor, ToggleMark, Transfer, Decide, Keeps, ClientStep, Shaped
  <1>2. CASE OpenSelected \/ GoUp
    BY <1>2, ListRemoteSends DEF OpenSelected, GoUp, Go, GoLocal, Keeps, ClientStep, Shaped
  <1>3. CASE Refresh
    BY <1>3, ListRemoteSends DEF Refresh, Keeps, ClientStep, Shaped
  <1>4. CASE Back
    BY <1>4 DEF Back, Keeps, ClientStep, Shaped
  <1> QED
    BY <1>1, <1>2, <1>3, <1>4 DEF KeyStep

LEMMA ListingSteps ==
    ASSUME Login \/ FallBack \/ FirstListing \/ Opendir \/ Readdir \/ Closedir \/ ListingShown
    PROVE  Keeps
  <1>1. CASE Login \/ FallBack
    BY <1>1, AskSends DEF Login, FallBack, Keeps, ClientStep, Shaped
  <1>2. CASE FirstListing
    BY <1>2, ListSends DEF FirstListing, Keeps, ClientStep, Shaped
  <1>3. CASE Opendir
    BY <1>3, AskSends DEF Opendir, Keeps, ClientStep, Shaped
  <1>4. CASE Readdir
    BY <1>4, AskSends DEF Readdir, Keeps, ClientStep, Shaped
  <1>5. CASE Closedir
    BY <1>5 DEF Closedir, Keeps, ClientStep, Shaped
  <1>6. CASE ListingShown
    BY <1>6 DEF ListingShown, DropIfFatal, NoList, Keeps, ClientStep, Shaped, ListFields
  <1> QED
    BY <1>1, <1>2, <1>3, <1>4, <1>5, <1>6

LEMMA PlanningSteps ==
    ASSUME \/ VisitLocalDir \/ VisitRemoteDir \/ VisitLink \/ VisitFile \/ Sized
           \/ ExistsAnswered \/ PlanDone \/ AllDecided
    PROVE  Keeps
  <1>1. CASE VisitLocalDir \/ VisitLink \/ Sized \/ ExistsAnswered \/ PlanDone \/ AllDecided
    BY <1>1 DEF VisitLocalDir, VisitLink, Sized, ExistsAnswered, PlanDone, AllDecided,
                Keeps, ClientStep, Shaped
  <1>2. CASE VisitRemoteDir
    BY <1>2, ListSends DEF VisitRemoteDir, NoList, Keeps, ClientStep, Shaped, ListFields
  <1>3. CASE VisitFile
    BY <1>3, AskSends DEF VisitFile, Keeps, ClientStep, Shaped
  <1> QED
    BY <1>1, <1>2, <1>3

LEMMA CopySteps ==
    ASSUME \/ ItemSkipped \/ RunDone \/ EnsureDir \/ DirStat \/ Mkdir \/ CleanedUp
           \/ StartFile \/ Created \/ Written \/ Opened \/ ReadDone \/ CancelClosed
           \/ Closed \/ Removed \/ Renamed \/ Finished
    PROVE  Keeps
  <1>1. CASE ItemSkipped \/ RunDone \/ Mkdir \/ CleanedUp \/ Renamed
    BY <1>1 DEF ItemSkipped, RunDone, Mkdir, CleanedUp, Renamed, Keeps, ClientStep, Shaped
  <1>2. CASE EnsureDir \/ DirStat \/ Removed
    BY <1>2, AskSends DEF EnsureDir, DirStat, Removed, Keeps, ClientStep, Shaped
  <1>3. CASE StartFile \/ Created \/ Written
    BY <1>3, AskSends, DataSends, CleanUpSends
       DEF StartFile, Created, Written, Upload1, Keeps, ClientStep, Shaped
  <1>4. CASE Opened \/ ReadDone \/ CancelClosed \/ Closed
    BY <1>4, AskSends, DataSends, CleanUpSends
       DEF Opened, ReadDone, CancelClosed, Closed, Keeps, ClientStep, Shaped
  <1>5. CASE Finished
    BY <1>5, ListRemoteSends DEF Finished, Keeps, ClientStep, Shaped
  <1> QED
    BY <1>1, <1>2, <1>3, <1>4, <1>5

LEMMA EnvSteps == ASSUME EnvStep \/ OpenFiles \/ Rest \/ UNCHANGED vars PROVE Keeps
  <1>1. CASE ServerStep
    BY <1>1 DEF ServerStep, Keeps, ClientStep, Answers, Shaped
  <1>2. CASE ReplyRead \/ LimitHit \/ ConnectionLost \/ RequestLost
    BY <1>2 DEF ReplyRead, LimitHit, ConnectionLost, RequestLost, Others, Keeps, ClientStep, Shaped
  <1>3. CASE OpenFiles
    BY <1>3 DEF OpenFiles, Keeps, ClientStep, Shaped
  <1>4. CASE Rest \/ UNCHANGED vars
    BY <1>4 DEF Rest, vars, Keeps, ClientStep, Shaped
  <1> QED
    BY <1>1, <1>2, <1>3, <1>4 DEF EnvStep

LEMMA EveryStepKeeps == [Next]_vars => Keeps
  BY KeySteps, ListingSteps, PlanningSteps, CopySteps, EnvSteps DEF Next, FlowStep

---------------------------------------------------------------------------
\* The replies come in the order of the requests, and an answer is the last of
\* them: checked on MCFiles with two failures before it was proved.

InTurn ==
    /\ \A e \in asked : e.no <= sent
    /\ \A e, f \in asked : e.no = f.no => e = f
    /\ \A i \in DOMAIN wire : /\ wire[i].no <= sent
                              /\ \A j \in DOMAIN wire : i < j => wire[i].no < wire[j].no
                              /\ \A e \in asked : wire[i].no < e.no

AnsweredLast ==
    /\ call.st = "answered" => link # "torn" /\ (link = "up" => asked = {} /\ wire = <<>>)
    /\ link # "up" => wire = <<>>

Sound == \E R, A : InvOver(R, A)
StreamInv == Sound /\ InTurn /\ AnsweredLast /\ Shaped

LEMMA OldestIsAsked ==
    ASSUME NEW R, NEW A, InvOver(R, A), asked # {}
    PROVE  Oldest \in asked /\ \A f \in asked : Oldest.no <= f.no /\ f.no \in Nat
  <1>1. \A f \in asked : f.no \in Nat
    BY DEF InvOver, Typed
  <1> QED
    BY <1>1, OldestIsFirst

LEMMA SoundStep ==
    ASSUME NEW R, NEW A, InvOver(R, A), ClientStep
    PROVE  Sound'
  <1>1. CASE Sends
    <2>1. PICK req : Issue(req)
      BY <1>1 DEF Sends
    <2>2. InvOver(R \cup {req}, A \cup {})
      BY Wider
    <2>3. Moves(R \cup {req}, A \cup {})
      BY <2>1 DEF Moves
    <2>4. InvOver(R \cup {req}, A \cup {})'
      BY <2>2, <2>3, EveryMove
    <2> QED
      BY <2>4 DEF Sound
  <1>2. CASE Answers
    <2>e. PICK e \in asked : \E ans : Serve(e, ans)
      BY <1>2, OldestIsAsked DEF Answers
    <2>1. PICK ans : Serve(e, ans)
      BY <2>e
    <2>2. InvOver(R \cup {}, A \cup {ans})
      BY Wider
    <2>3. Moves(R \cup {}, A \cup {ans})
      BY <2>1 DEF Moves
    <2>4. InvOver(R \cup {}, A \cup {ans})'
      BY <2>2, <2>3, EveryMove
    <2> QED
      BY <2>4 DEF Sound
  <1>3. CASE ~Sends /\ ~Answers
    <2>1. Moves(R, A) \/ UNCHANGED client
      BY <1>3 DEF ClientStep, Moves
    <2>2. InvOver(R, A)'
      BY <2>1, EveryMove
    <2> QED
      BY <2>2 DEF Sound
  <1> QED
    BY <1>1, <1>2, <1>3

LEMMA SendKeepsTurn ==
    ASSUME NEW R, NEW A, InvOver(R, A), InTurn, AnsweredLast, Sends
    PROVE  InTurn' /\ AnsweredLast'
  <1>1. PICK req : Issue(req)
    BY DEF Sends
  <1>2. /\ sent \in Nat /\ sent' = sent + 1 /\ wire' = wire /\ link' = link
        /\ call'.st = "waiting"
        /\ asked' \subseteq asked \cup {[no |-> sent + 1, id |-> nextId, req |-> req]}
    BY <1>1 DEF Issue, InvOver, Typed, CallOver
  <1>3. \A e \in asked : e.no \in Nat
    BY DEF InvOver, Typed
  <1>4. \A i \in DOMAIN wire : wire[i].no \in Nat
    <2>1. wire \in Seq(ReplyOver(A))
      BY DEF InvOver, Typed
    <2>2. \A i \in DOMAIN wire : wire[i] \in ReplyOver(A)
      BY <2>1
    <2> QED
      BY <2>2 DEF ReplyOver
  <1>5. \A e \in asked' : e \in asked \/ (e.no = sent + 1 /\ e.id = nextId /\ e = [no |-> sent + 1, id |-> nextId, req |-> req])
    BY <1>2
  <1>6. InTurn'
    BY <1>2, <1>3, <1>4, <1>5 DEF InTurn
  <1> QED
    BY <1>2, <1>6 DEF AnsweredLast

LEMMA AnswerKeepsTurn ==
    ASSUME NEW R, NEW A, InvOver(R, A), InTurn, AnsweredLast, Answers
    PROVE  InTurn' /\ AnsweredLast'
  <1>1. /\ Oldest \in asked
        /\ \A f \in asked : Oldest.no <= f.no /\ f.no \in Nat
    BY OldestIsAsked DEF Answers
  <1>0. PICK e \in asked : /\ \E ans : Serve(e, ans)
                          /\ \A f \in asked : e.no <= f.no /\ f.no \in Nat
    BY <1>1 DEF Answers
  <1>2. PICK ans : /\ Serve(e, ans)
                   /\ \A f \in asked : e.no <= f.no /\ f.no \in Nat
    BY <1>0
  <1> DEFINE r == [no |-> e.no, id |-> e.id, ans |-> ans]
  <1>3. /\ asked' = asked \ {e} /\ UNCHANGED <<sent, link, call>>
        /\ wire' = IF link = "up" THEN Append(wire, r) ELSE wire
    BY <1>2 DEF Serve
  <1>4. CASE link # "up"
    <2>1. wire' = <<>>
      BY <1>3, <1>4 DEF AnsweredLast
    <2>2. InTurn'
      BY <1>3, <2>1 DEF InTurn
    <2> QED
      BY <1>3, <1>4, <2>1, <2>2 DEF AnsweredLast
  <1>5. CASE link = "up"
    <2>1. wire \in Seq(ReplyOver(A)) /\ sent \in Nat
      BY DEF InvOver, Typed
    <2>2. /\ DOMAIN wire = 1..Len(wire) /\ Len(wire) \in Nat
          /\ \A i \in DOMAIN wire : wire[i].no \in Nat
      <3>1. \A i \in DOMAIN wire : wire[i] \in ReplyOver(A)
        BY <2>1
      <3> QED
        BY <2>1, <3>1 DEF ReplyOver
    <2>3. /\ DOMAIN wire' = 1..(Len(wire) + 1)
          /\ \A i \in 1..Len(wire) : wire'[i] = wire[i]
          /\ wire'[Len(wire) + 1] = r /\ r.no = e.no
      BY <1>3, <1>5, <2>1, <2>2
    <2>4. \A f \in asked' : f \in asked /\ e.no < f.no
      BY <1>2, <1>3 DEF InTurn
    <2>5. \A i \in DOMAIN wire : wire[i].no < e.no /\ wire[i].no <= sent
      BY DEF InTurn
    <2> HIDE DEF r
    <2>6. InTurn'
      <3>1. ASSUME NEW i \in DOMAIN wire'
            PROVE  /\ wire'[i].no <= sent'
                   /\ \A j \in DOMAIN wire' : i < j => wire'[i].no < wire'[j].no
                   /\ \A f \in asked' : wire'[i].no < f.no
        <4>1. CASE i = Len(wire) + 1
          BY <4>1, <1>2, <1>3, <2>2, <2>3, <2>4 DEF InTurn
        <4>2. CASE i \in DOMAIN wire
          BY <4>2, <1>2, <1>3, <2>2, <2>3, <2>4, <2>5 DEF InTurn
        <4> QED
          BY <4>1, <4>2, <2>2, <2>3
      <3> QED
        BY <3>1, <1>3 DEF InTurn
    <2> QED
      BY <1>2, <1>3, <1>5, <2>6 DEF AnsweredLast
  <1> QED
    BY <1>4, <1>5

\* An accepted reply is the reply to the last request, so nothing follows it.
LEMMA ReceiveKeepsTurn ==
    ASSUME NEW R, NEW A, InvOver(R, A), InTurn, AnsweredLast, Receive
    PROVE  InTurn' /\ AnsweredLast'
  <1>1. /\ wire \in Seq(ReplyOver(A)) /\ wire # <<>> /\ link = "up" /\ call.st = "waiting"
        /\ call.no = sent /\ sent \in Nat
        /\ wire' = Tail(wire) /\ UNCHANGED <<nextId, sent, asked, link>>
    BY DEF InvOver, Typed, CallInStep, Receive
  <1>2. /\ 1 \in DOMAIN wire /\ Head(wire) = wire[1]
        /\ \A i \in DOMAIN wire' : /\ i + 1 \in DOMAIN wire /\ wire'[i] = wire[i + 1]
                                   /\ i \in Nat /\ 1 < i + 1
    BY <1>1
  <1>3. wire' = <<>> \/ 1 \in DOMAIN wire'
    BY <1>1
  <1>4. \A i \in DOMAIN wire : wire[i].no \in Nat
    <2>1. \A i \in DOMAIN wire : wire[i] \in ReplyOver(A)
      BY <1>1
    <2> QED
      BY <2>1 DEF ReplyOver
  <1>5. InTurn'
    BY <1>1, <1>2 DEF InTurn
  <1>6. call'.st = "answered" => asked' = {} /\ wire' = <<>>
    <2> SUFFICES ASSUME call'.st = "answered" PROVE asked' = {} /\ wire' = <<>>
      OBVIOUS
    <2>1. call' = [call EXCEPT !.st = "answered", !.ans = Head(wire).ans, !.got = Head(wire).no]
      BY DEF Receive, Fail, InvOver, Typed, CallOver
    <2>2. call'.got = wire[1].no /\ call'.no = sent
      BY <2>1, <1>1, <1>2 DEF InvOver, Typed, CallOver
    <2>3. call'.got = call'.no
      <3>1. InvOver(R, A)'
        BY ReceiveStep
      <3> QED
        BY <3>1 DEF InvOver, OwnReply
    <2>4. wire[1].no = sent
      BY <2>2, <2>3
    <2>5. asked = {}
      <3>1. \A e \in asked : e.no \in Nat
        BY DEF InvOver, Typed
      <3> QED
        BY <2>4, <1>1, <1>2, <3>1 DEF InTurn
    <2>6. 1 \notin DOMAIN wire'
      BY <2>4, <1>1, <1>2, <1>4 DEF InTurn
    <2> QED
      BY <2>5, <2>6, <1>1, <1>3
  <1> QED
    BY <1>1, <1>5, <1>6 DEF AnsweredLast

LEMMA OtherStepsKeepTurn ==
    ASSUME NEW R, NEW A, InvOver(R, A), InTurn, AnsweredLast,
           \/ Open \/ TimeOut \/ ReadTorn \/ Lose \/ ReadClosed \/ Drop \/ Abandon
           \/ UNCHANGED client
    PROVE  InTurn' /\ AnsweredLast'
  <1>1. CASE TimeOut \/ ReadTorn \/ ReadClosed
    <2>1. /\ UNCHANGED <<sent, asked>> /\ call'.st = "fatal"
          /\ wire' = wire \/ wire' = <<>>
          /\ link' # "up" => wire' = <<>>
      BY <1>1 DEF TimeOut, ReadTorn, ReadClosed, Fail, InvOver, Typed, CallOver, AnsweredLast
    <2> QED
      BY <2>1 DEF InTurn, AnsweredLast
  <1>2. CASE Open \/ Drop
    <2>1. /\ wire' = <<>> /\ call'.st = "none" /\ asked' = asked
          /\ sent' = sent \/ asked = {}
      BY <1>2 DEF Open, Drop, InvOver, Typed, CallOver
    <2> QED
      BY <2>1 DEF InTurn, AnsweredLast
  <1>3. CASE Lose \/ Abandon
    <2>1. /\ wire' = <<>> /\ UNCHANGED <<call, sent>> /\ asked' \subseteq asked
          /\ link' \notin {"up", "torn"}
      BY <1>3 DEF Lose, Abandon, AnsweredLast
    <2> QED
      BY <2>1 DEF InTurn, AnsweredLast
  <1>4. CASE UNCHANGED client
    BY <1>4 DEF client, InTurn, AnsweredLast
  <1> QED
    BY <1>1, <1>2, <1>3, <1>4

LEMMA StreamInitially == Init => StreamInv
  <1> SUFFICES ASSUME Init PROVE StreamInv
    OBVIOUS
  <1>1. PICK R, A : call \in CallOver(R, A)
    <2> DEFINE req == Req("close", <<>>)
               ans == [code |-> "ok", entries |-> {}]
    <2>1. call \in CallOver({req}, {ans})
      BY IdAssumption DEF Init, CallOver, CallStates
    <2> QED
      BY <2>1
  <1>2. InvOver(R, A)
    BY <1>1, InitiallyOver DEF Init
  <1>3. InTurn /\ AnsweredLast /\ Shaped
    BY DEF Init, InTurn, AnsweredLast, Shaped, ListFields, NoList
  <1> QED
    BY <1>2, <1>3 DEF StreamInv, Sound

LEMMA StreamStep == StreamInv /\ [Next]_vars => StreamInv'
  <1> SUFFICES ASSUME StreamInv, [Next]_vars PROVE StreamInv'
    OBVIOUS
  <1>1. ClientStep /\ Shaped'
    BY EveryStepKeeps DEF Keeps, StreamInv
  <1>2. PICK R, A : InvOver(R, A)
    BY DEF StreamInv, Sound
  <1>3. Sound'
    BY <1>1, <1>2, SoundStep
  <1>4. InTurn' /\ AnsweredLast'
    BY <1>1, <1>2, SendKeepsTurn, AnswerKeepsTurn, ReceiveKeepsTurn, OtherStepsKeepTurn
       DEF ClientStep, StreamInv
  <1> QED
    BY <1>1, <1>3, <1>4 DEF StreamInv

LEMMA StreamHolds == Spec => []StreamInv
  BY StreamInitially, StreamStep, PTL DEF Spec

\* OwnReply where the whole browser drives the client: the answer a flow goes
\* on with is the answer to the request it just made.
THEOREM FlowsGetTheirAnswer == Spec => []OwnReply
  <1>1. StreamInv => OwnReply
    BY DEF StreamInv, Sound, InvOver
  <1> QED
    BY <1>1, StreamHolds, PTL

\* DesyncEnds: a stream that still carries something of an earlier request, or
\* was cut, gives no listing, and a listing that failed for the stream ends the
\* session before the next key.
THEOREM OutOfStepEndsSession == Spec => DesyncEnds
  <1>1. StreamInv /\ [Next]_vars =>
           [/\ (Opendir \/ Readdir) /\ OutOfStep => lister'.result = "fatal"
            /\ ListingShown /\ lister.result = "fatal" => link' = "closed"]_vars
    <2> SUFFICES ASSUME StreamInv
                 PROVE  /\ (Opendir \/ Readdir) /\ OutOfStep => lister'.result = "fatal"
                        /\ ListingShown /\ lister.result = "fatal" => link' = "closed"
      OBVIOUS
    <2>1. ASSUME Opendir \/ Readdir, OutOfStep PROVE lister'.result = "fatal"
      <3>1. Returned /\ call.st # "answered"
        BY <2>1 DEF Opendir, Readdir, OutOfStep, StreamInv, AnsweredLast
      <3>2. call.st = "fatal" /\ ~Ok /\ ResultOf = "fatal"
        BY <3>1 DEF Returned, Ok, Got, ResultOf, Fatal
      <3>3. \/ lister' = [lister EXCEPT !.result = "fatal"]
            \/ lister' = [lister EXCEPT !.result = "fatal", !.entries = {}]
        BY <2>1, <3>2 DEF Opendir, Readdir
      <3> QED
        BY <3>3 DEF StreamInv, Shaped, ListFields
    <2>2. ASSUME ListingShown, lister.result = "fatal" PROVE link' = "closed"
      BY <2>2 DEF ListingShown, DropIfFatal, Drop
    <2> QED
      BY <2>1, <2>2
  <1> QED
    BY <1>1, StreamHolds, PTL DEF Spec, DesyncEnds

---------------------------------------------------------------------------
\* The job, and what becomes of it when an item ends.

JobFields == {"side", "todo", "plan", "at", "off", "sticky", "agreed", "out", "before",
              "files", "failures", "cancelled"}
JobShaped == DOMAIN job = JobFields

\* The job a step leaves behind is for the same task, with the same plan.
SamePlan == /\ DOMAIN job' = JobFields
            /\ job'.side = job.side /\ job'.before = job.before
            /\ job'.plan = job.plan /\ job'.agreed = job.agreed

\* Still at the same item; on to the next one or to the end, without or with
\* the item counted.
Stays  == SamePlan /\ job'.at = job.at /\ job'.files = job.files
Advances == /\ SamePlan /\ pc' \in {"item", "finish"} /\ job'.at \in {job.at, job.at + 1}
            /\ pc' = "item" => job'.at = job.at + 1 /\ job'.off = 0
Leaves == Advances /\ job'.files = job.files
Counts == Advances /\ job'.files = job.files \cup {job.at} /\ job'.at = job.at + 1

LEMMA JobEdits ==
    ASSUME JobShaped
    PROVE  /\ \A j \in {NextItem, Record("files"), Record("failures")} : j.at = job.at + 1 /\ j.off = 0
           /\ Chunked.at = job.at /\ Chunked.off = job.off + 1
           /\ Record("files").files = job.files \cup {job.at}
           /\ \A j \in {NextItem, Record("failures"), Chunked} : j.files = job.files
           /\ \A j \in {NextItem, Record("files"), Record("failures"), Chunked, job} :
                 /\ DOMAIN j = JobFields
                 /\ j.side = job.side /\ j.before = job.before
                 /\ j.plan = job.plan /\ j.agreed = job.agreed
  BY DEF JobShaped, JobFields, NextItem, Record, Chunked

LEMMA Ends ==
    ASSUME NEW j, DOMAIN j = JobFields, NEW next, OrCancel(j, next) \/ Cancel(j) \/ Finish(j)
    PROVE  /\ DOMAIN job' = JobFields
           /\ job'.side = j.side /\ job'.before = j.before
           /\ job'.plan = j.plan /\ job'.agreed = j.agreed
           /\ job'.at = j.at /\ job'.off = j.off /\ job'.files = j.files
           /\ pc' \in {next, "finish"}
           /\ Cancel(j) \/ Finish(j) => pc' = "finish"
  BY DEF OrCancel, Cancel, Finish, JobFields

LEMMA ItemEnds ==
    ASSUME JobShaped
    PROVE  /\ ItemDone => Counts
           /\ ItemFails => Leaves
           /\ OrCancel(NextItem, "item") => Leaves
           /\ Cancel(job) \/ Finish(job) => Leaves
  <1>1. ASSUME ItemDone PROVE Counts
    BY <1>1, JobEdits, Ends DEF ItemDone, SamePlan, Advances, Counts
  <1>2. ASSUME ItemFails PROVE Leaves
    BY <1>2, JobEdits, Ends DEF ItemFails, SamePlan, Advances, Leaves
  <1>3. ASSUME OrCancel(NextItem, "item") PROVE Leaves
    BY <1>3, JobEdits, Ends DEF SamePlan, Advances, Leaves
  <1>4. ASSUME Cancel(job) \/ Finish(job) PROVE Leaves
    BY <1>4, JobEdits, Ends DEF SamePlan, Advances, Leaves
  <1> QED
    BY <1>1, <1>2, <1>3, <1>4

---------------------------------------------------------------------------
\* Requests

CallShaped == {"st", "id", "no", "req", "ans", "got"} \subseteq DOMAIN call

LEMMA StreamShapesCall == StreamInv => CallShaped /\ sent \in Nat
  BY DEF StreamInv, Sound, InvOver, Typed, CallOver, CallShaped

\* What Issue does, as far as the flows are concerned.
Sent(req) ==
    /\ UNCHANGED <<wire, link>> /\ link # "closed"
    /\ sent' = sent + 1
    /\ call'.st = "waiting" /\ call'.req = req
    /\ \A e \in asked' : e \in asked \/ (e.no = sent + 1 /\ e.req = req)

LEMMA IssueFacts == ASSUME CallShaped, NEW req, Issue(req) PROVE Sent(req)
  <1>1. call'.st = "waiting" /\ call'.req = req
    BY DEF Issue, CallShaped
  <1>2. ASSUME NEW e \in asked' PROVE e \in asked \/ (e.no = sent + 1 /\ e.req = req)
    <2>1. e \in asked \/ e = [no |-> sent + 1, id |-> nextId, req |-> req]
      BY DEF Issue
    <2> QED
      BY <2>1
  <1> QED
    BY <1>1, <1>2 DEF Issue, Sent

LEMMA AskFacts ==
    ASSUME CallShaped, NEW op, NEW path, NEW next, Ask(op, path, next)
    PROVE  pc' = next /\ Sent(Req(op, path)) /\ Req(op, path).op = op /\ Req(op, path).path = path
  BY IssueFacts DEF Ask, Req

DataReq(op, path, off) == [Req(op, path) EXCEPT !.off = off]
CreateReq(path, ver) == [Req("create", path) EXCEPT !.ver = ver]

LEMMA DataFacts ==
    ASSUME CallShaped, NEW path, NEW off, NEW next
    PROVE  /\ AskWrite(path, off, next) => pc' = next /\ Sent(DataReq("write", path, off))
           /\ AskRead(path, off, next) => pc' = next /\ Sent(DataReq("read", path, off))
           /\ AskCreate(path, off, next) => pc' = next /\ Sent(CreateReq(path, off))
           /\ DataReq("write", path, off).op = "write" /\ DataReq("read", path, off).op = "read"
           /\ CreateReq(path, off).op = "create" /\ CreateReq(path, off).ver = off
  BY IssueFacts DEF AskWrite, AskRead, AskCreate, DataReq, CreateReq, Req

LEMMA ListFacts ==
    ASSUME CallShaped, NEW path, NEW then, ListDir(path, then)
    PROVE  /\ pc' = "opendir" /\ Sent(Req("opendir", path)) /\ Req("opendir", path).op = "opendir"
           /\ lister'.then = then
  BY AskFacts DEF ListDir

\* A request of one of the operations, or none.
Asks(ops) == \E req : req.op \in ops /\ Sent(req)
Calm == UNCHANGED client \/ Asks(Ops \ {"mkdir", "create", "write", "remove", "discard", "rename"})

LEMMA CalmAsk ==
    ASSUME CallShaped, NEW path, NEW next,
           \E op \in {"realpath", "opendir", "readdir", "stat", "open", "close"} : Ask(op, path, next)
    PROVE  Calm /\ pc' = next
  BY AskFacts DEF Calm, Asks, Ops

LEMMA CalmList ==
    ASSUME CallShaped, NEW path, NEW then, ListDir(path, then)
    PROVE  Calm /\ pc' = "opendir" /\ lister'.then = then
  BY ListFacts DEF Calm, Asks, Ops

LEMMA CalmRead ==
    ASSUME CallShaped, NEW path, NEW off, NEW next, AskRead(path, off, next)
    PROVE  Calm /\ pc' = next
  BY DataFacts DEF Calm, Asks, Ops

---------------------------------------------------------------------------
\* The table of steps: where each leads, what it asks for, whose files it
\* changes, and what becomes of the plan.

\* In the browser, and the listing after a transfer.
Browses ==
    /\ UNCHANGED <<disk, job>> /\ pc \in {"idle", "finish"}
    /\ \/ UNCHANGED <<client, lister>> /\ pc' = "idle" /\ (pc = "idle" \/ link = "closed")
       \/ Calm /\ pc' = "opendir" /\ lister'.then = "browse"

LEMMA BrowseTable ==
    ASSUME CallShaped,
           SwitchPane \/ MoveCursor \/ ToggleMark \/ OpenSelected \/ GoUp \/ Refresh \/ Finished
    PROVE  Browses
  <1>1. ASSUME NEW path, ListRemote(path)
        PROVE  \/ UNCHANGED <<client, lister>> /\ pc' = "idle" /\ link = "closed"
               \/ Calm /\ pc' = "opendir" /\ lister'.then = "browse"
    BY <1>1, CalmList DEF ListRemote
  <1>2. CASE SwitchPane \/ MoveCursor \/ ToggleMark
    BY <1>2 DEF SwitchPane, MoveCursor, ToggleMark, Key, Browses
  <1>3. CASE OpenSelected \/ GoUp
    BY <1>3, <1>1 DEF OpenSelected, GoUp, Go, GoLocal, Key, Browses
  <1>4. CASE Refresh \/ Finished
    BY <1>4, <1>1 DEF Refresh, Finished, Key, Browses
  <1> QED
    BY <1>2, <1>3, <1>4

\* Until the first listing.
LogsIn ==
    /\ UNCHANGED <<disk, job>> /\ pc \in {"login", "realpath", "fallback"}
    /\ Calm
    /\ \/ pc' \in {"realpath", "fallback"} /\ UNCHANGED lister
       \/ pc' = "opendir" /\ lister'.then = "open"

LEMMA LoginTable ==
    ASSUME CallShaped, Login \/ FallBack \/ FirstListing PROVE LogsIn
  <1>1. CASE Login \/ FallBack
    BY <1>1, CalmAsk DEF Login, FallBack, LogsIn
  <1>2. CASE FirstListing
    BY <1>2, CalmList DEF FirstListing, LogsIn
  <1> QED
    BY <1>1, <1>2

\* A listing, whoever wants it.
Lists ==
    /\ UNCHANGED <<disk, job>>
    /\ \/ /\ pc = "opendir" /\ Returned /\ lister'.then = lister.then
          /\ \/ pc' = "readdir" /\ Calm /\ call.st = "answered"
             \/ pc' = "listed" /\ UNCHANGED client /\ (call.st = "fatal" => lister'.result = "fatal")
       \/ pc = "readdir" /\ pc' = "closedir" /\ Calm /\ lister'.then = lister.then
       \/ pc = "closedir" /\ pc' = "listed" /\ UNCHANGED <<client, lister>>
       \/ /\ pc = "listed" /\ lister.then \in {"open", "browse"} /\ pc' = "idle"
          /\ lister' = NoList
          /\ IF lister.result = "fatal" THEN link' = "closed" /\ UNCHANGED asked /\ Drop
             ELSE UNCHANGED client

LEMMA ListTable ==
    ASSUME CallShaped, DOMAIN lister = ListFields,
           Opendir \/ Readdir \/ Closedir \/ ListingShown
    PROVE  Lists
  <1>1. CASE Opendir
    <2>1. CASE Ok
      BY <1>1, <2>1, CalmAsk DEF Opendir, Ok, Got, Lists
    <2>2. CASE ~Ok
      BY <1>1, <2>2 DEF Opendir, Lists, ListFields, ResultOf, Fatal
    <2> QED
      BY <2>1, <2>2
  <1>2. CASE Readdir
    BY <1>2, CalmAsk DEF Readdir, Lists, ListFields
  <1>3. CASE Closedir
    BY <1>3 DEF Closedir, Lists
  <1>4. CASE ListingShown
    BY <1>4 DEF ListingShown, DropIfFatal, Drop, Lists
  <1> QED
    BY <1>1, <1>2, <1>3, <1>4

\* The plan: what was appended, and what was there when it was.
Appends ==
    \E exists : /\ job'.plan = Append(job.plan, Item(Todo, exists))
                /\ \/ Todo.kind \in {"dir", "link"} \/ pc \in {"listed", "exists"}
                   \/ exists = ThereLocally

SameTask == /\ DOMAIN job' = JobFields
            /\ job'.side = job.side /\ job'.before = job.before /\ job'.agreed = job.agreed
            /\ job'.files = job.files /\ job'.off = job.off

Plans ==
    /\ UNCHANGED disk /\ Calm /\ SameTask
    /\ \/ /\ pc \in {"visit", "size", "exists"} \/ (pc = "listed" /\ lister.then = "walk")
          /\ pc' \in {"visit", "finish"} /\ Appends
       \/ /\ pc = "visit" /\ pc' = "opendir" /\ lister'.then = "walk"
          /\ ~Upload /\ Todo.kind = "dir" /\ UNCHANGED job
       \/ pc = "visit" /\ pc' \in {"exists", "size"} /\ UNCHANGED job /\ (pc' = "exists" => Upload)
       \/ pc = "visit" /\ pc' = "ask" /\ job'.plan = job.plan /\ job'.at = 1
       \/ /\ pc = "ask" /\ pc' = "item" /\ Later = {}
          /\ job'.plan = job.plan /\ job'.at = 1

LEMMA PlannedJob ==
    ASSUME JobShaped, NEW exists, NEW entries
    PROVE  \A j \in {Planned(exists), Walked(entries)} :
              /\ DOMAIN j = JobFields
              /\ j.side = job.side /\ j.before = job.before /\ j.agreed = job.agreed
              /\ j.files = job.files /\ j.off = job.off
              /\ j = Planned(exists) => j.plan = Append(job.plan, Item(Todo, exists))
              /\ j = Walked(entries) => j.plan = Append(job.plan, Item(Todo, FALSE))
  BY DEF JobShaped, JobFields, Planned, Walked

LEMMA PushTable ==
    ASSUME JobShaped, NEW exists, PushFile(exists)
    PROVE  /\ SameTask /\ pc' \in {"visit", "finish"}
           /\ job'.plan = Append(job.plan, Item(Todo, exists))
  BY PlannedJob, Ends DEF PushFile, SameTask

LEMMA PlanTable ==
    ASSUME CallShaped, JobShaped,
           \/ VisitLocalDir \/ VisitRemoteDir \/ VisitLink \/ VisitFile \/ Sized
           \/ ExistsAnswered \/ PlanDone \/ AllDecided
    PROVE  Plans
  <1>1. CASE VisitLocalDir
    <2>1. PICK entries : job' = Walked(entries)
      BY <1>1 DEF VisitLocalDir
    <2>2. SameTask /\ Appends
      BY <1>1, <2>1, PlannedJob DEF VisitLocalDir, SameTask, Appends
    <2> QED
      BY <1>1, <2>2 DEF VisitLocalDir, Plans, Calm
  <1>2. CASE VisitRemoteDir
    <2>1. CASE pc = "visit"
      BY <1>2, <2>1, CalmList DEF VisitRemoteDir, Plans, SameTask, JobShaped
    <2>2. CASE pc # "visit"
      <3>1. pc = "listed" /\ lister.then = "walk" /\ job' = Walked(lister.entries)
            /\ pc' = "visit" /\ UNCHANGED <<client, disk>>
        BY <1>2, <2>2 DEF VisitRemoteDir
      <3>2. SameTask /\ Appends
        BY <3>1, PlannedJob DEF SameTask, Appends
      <3> QED
        BY <3>1, <3>2 DEF Plans, Calm
    <2> QED
      BY <2>1, <2>2
  <1>3. CASE VisitLink
    <2>1. SameTask /\ Appends
      BY <1>3, PlannedJob DEF VisitLink, SameTask, Appends
    <2> QED
      BY <1>3, <2>1 DEF VisitLink, Plans, Calm
  <1>4. CASE VisitFile
    <2>1. CASE Upload \/ Todo.top
      BY <1>4, <2>1, CalmAsk DEF VisitFile, Plans, SameTask, JobShaped
    <2>2. CASE ~Upload /\ ~Todo.top
      <3>1. PushFile(ThereLocally) /\ UNCHANGED <<client, disk>> /\ pc = "visit"
        BY <1>4, <2>2 DEF VisitFile
      <3>2. SameTask /\ pc' \in {"visit", "finish"} /\ Appends
        BY <3>1, PushTable DEF Appends
      <3> QED
        BY <3>1, <3>2 DEF Plans, Calm
    <2> QED
      BY <2>1, <2>2
  <1>5. CASE Sized
    BY <1>5, PushTable DEF Sized, Plans, Appends, Calm
  <1>6. CASE ExistsAnswered
    BY <1>6, PushTable DEF ExistsAnswered, Plans, Appends, Calm
  <1>7. CASE PlanDone \/ AllDecided
    BY <1>7 DEF PlanDone, AllDecided, Plans, SameTask, Calm, JobShaped, JobFields
  <1> QED
    BY <1>1, <1>2, <1>3, <1>4, <1>5, <1>6, <1>7

\* An error or a cancel of one file.
Cleans ==
    \/ /\ Upload /\ pc' = "cleanup" /\ Stays /\ UNCHANGED disk
       /\ Sent(Req("discard", It.dst))
    \/ /\ ~Upload /\ Leaves /\ UNCHANGED client
       /\ UNCHANGED disk \/ OnLocal(RemovePart(Local, It.dst))

LEMMA CleanTable ==
    ASSUME CallShaped, JobShaped, NEW out, NEW cost, CleanUp(out, cost)
    PROVE  Cleans
  <1>1. CASE Upload
    BY <1>1, AskFacts DEF CleanUp, Cleans, Stays, SamePlan, JobShaped, JobFields
  <1>2. CASE ~Upload
    BY <1>2, ItemEnds DEF CleanUp, Cleans
  <1> QED
    BY <1>1, <1>2

\* Between two items.
AtItem == job.at <= Len(job.plan)
StartsFile ==
    /\ AtItem /\ ~It.dir /\ ~It.skip
    /\ \/ /\ Upload /\ pc' = "create" /\ IsFile(Local.tree, It.src)
          /\ Sent(CreateReq(It.dst, Local.tree[It.src])) /\ UNCHANGED <<job, disk>>
       \/ /\ ~Upload /\ pc' = "open" /\ Sent(Req("open", It.src)) /\ UNCHANGED <<job, disk>>
       \/ Upload /\ Cleans

Between ==
    /\ pc = "item"
    /\ \/ UNCHANGED <<client, disk>> /\ Leaves
       \/ /\ ~Upload /\ UNCHANGED client /\ Leaves
          /\ Succeeds(MakeDirs(Local, It.dst)) /\ OnLocal(MakeDirs(Local, It.dst))
       \/ Upload /\ pc' = "dirstat" /\ AtItem /\ It.dir /\ Calm /\ UNCHANGED <<job, disk>>
       \/ StartsFile

LEMMA BetweenTable ==
    ASSUME CallShaped, JobShaped, ItemSkipped \/ RunDone \/ EnsureDir \/ StartFile
    PROVE  Between
  <1>1. CASE ItemSkipped \/ RunDone
    BY <1>1, ItemEnds DEF ItemSkipped, RunDone, Between
  <1>2. CASE EnsureDir
    <2>1. CASE Upload
      BY <1>2, <2>1, CalmAsk DEF EnsureDir, Between, AtItem
    <2>2. CASE ~Upload
      <3>1. job' = NextItem /\ pc' = "item" => Leaves
        BY JobEdits DEF Leaves, Advances, SamePlan
      <3> QED
        BY <1>2, <2>2, <3>1, ItemEnds DEF EnsureDir, Between
    <2> QED
      BY <2>1, <2>2
  <1>3. CASE StartFile
    BY <1>3, AskFacts, DataFacts, CleanTable, ItemEnds DEF StartFile, Between, StartsFile, AtItem
  <1> QED
    BY <1>1, <1>2, <1>3

\* A directory of the server.
MakesDir ==
    \/ pc = "dirstat" /\ pc' = "mkdir" /\ UNCHANGED <<job, disk>> /\ Sent(Req("mkdir", It.dst))
    \/ pc \in {"dirstat", "mkdir", "cleanup"} /\ Leaves /\ UNCHANGED <<client, disk>>

LEMMA DirTable ==
    ASSUME CallShaped, JobShaped, DirStat \/ Mkdir \/ CleanedUp
    PROVE  MakesDir
  <1>1. job' = NextItem /\ pc' = "item" => Leaves
    BY JobEdits DEF Leaves, Advances, SamePlan
  <1> QED
    BY <1>1, AskFacts, ItemEnds DEF DirStat, Mkdir, CleanedUp, MakesDir

\* One file on its way to the server.
Uploads ==
    \/ /\ pc = "create" /\ Ok /\ UNCHANGED <<job, disk>>
       /\ \/ job.off < Chunks /\ pc' = "write" /\ Sent(DataReq("write", It.dst, job.off))
          \/ ~(job.off < Chunks) /\ pc' = "close" /\ Sent(Req("close", It.dst))
    \/ /\ pc = "write" /\ Ok /\ UNCHANGED disk /\ Stays /\ job'.off = job.off + 1
       /\ \/ /\ job.off + 1 < Chunks /\ pc' = "write"
             /\ Sent(DataReq("write", It.dst, job.off + 1))
          \/ ~(job.off + 1 < Chunks) /\ pc' = "close" /\ Sent(Req("close", It.dst))
          \/ pc' = "closeCancelled" /\ Sent(Req("close", It.dst))
    \/ pc \in {"create", "write"} /\ Cleans

LEMMA UploadTable ==
    ASSUME CallShaped, JobShaped, Created \/ Written
    PROVE  Uploads
  <1>1. CASE Created
    <2>1. CASE Ok /\ Upload1 /\ UNCHANGED <<job, disk>>
      BY <1>1, <2>1, AskFacts, DataFacts DEF Created, Upload1, Uploads
    <2>2. CASE ~(Ok /\ Upload1 /\ UNCHANGED <<job, disk>>)
      BY <1>1, <2>2, CleanTable DEF Created, Uploads
    <2> QED
      BY <2>1, <2>2
  <1>2. CASE Written
    <2>1. CASE Ok /\ job' = Chunked /\ UNCHANGED disk
      <3>1. Stays /\ job'.off = job.off + 1
        BY <2>1, JobEdits DEF Stays, SamePlan
      <3>2. \/ job.off + 1 < Chunks /\ AskWrite(It.dst, job.off + 1, "write")
            \/ ~(job.off + 1 < Chunks) /\ Ask("close", It.dst, "close")
            \/ Ask("close", It.dst, "closeCancelled")
            \/ \E out, cost : CleanUp(out, cost)
        BY <1>2 DEF Written
      <3>3. pc = "write"
        BY <1>2 DEF Written
      <3>4. ASSUME \E out, cost : CleanUp(out, cost) PROVE Uploads
        BY <3>3, <3>4, CleanTable DEF Uploads
      <3> QED
        BY <2>1, <3>1, <3>2, <3>3, <3>4, AskFacts, DataFacts DEF Uploads
    <2>2. CASE ~(Ok /\ job' = Chunked /\ UNCHANGED disk)
      BY <1>2, <2>2, CleanTable DEF Written, Uploads
    <2> QED
      BY <2>1, <2>2
  <1> QED
    BY <1>1, <1>2

\* One file on its way from the server.
Downloads ==
    \/ /\ pc = "open" /\ pc' = "read" /\ Ok /\ UNCHANGED job /\ Calm
       /\ Sent(DataReq("read", It.src, 0))
       /\ LET made == CreatePart(Local, It.dst, At(disk["remote"].tree, It.src))
          IN Succeeds(made) /\ OnLocal(made)
    \/ /\ pc = "read" /\ pc' \in {"read", "closeCancelled"} /\ Ok /\ Calm
       /\ Stays /\ job'.off = job.off + 1
       /\ pc' = "read" => Sent(DataReq("read", It.src, job.off + 1))
       /\ OnLocal(WritePart(Local, It.dst, job.off))
    \/ /\ pc = "read" /\ pc' = "close" /\ Got({"eof"}) /\ Calm /\ UNCHANGED <<job, disk>>
    \/ pc \in {"open", "read", "closeCancelled"} /\ Cleans

LEMMA DownloadTable ==
    ASSUME CallShaped, JobShaped, Opened \/ ReadDone \/ CancelClosed
    PROVE  Downloads
  <1>1. CASE Opened
    <2> DEFINE made == CreatePart(Local, It.dst, At(disk["remote"].tree, It.src))
    <2>1. pc = "open"
      BY <1>1 DEF Opened
    <2>2. \/ Ok /\ Succeeds(made) /\ OnLocal(made) /\ AskRead(It.src, 0, "read") /\ UNCHANGED job
          \/ \E out, cost : CleanUp(out, cost)
      BY <1>1 DEF Opened
    <2> HIDE DEF made
    <2>3. CASE Ok /\ Succeeds(made) /\ OnLocal(made) /\ AskRead(It.src, 0, "read") /\ UNCHANGED job
      BY <2>1, <2>3, CalmRead, DataFacts DEF Downloads, made
    <2>4. CASE \E out, cost : CleanUp(out, cost)
      BY <2>1, <2>4, CleanTable DEF Downloads
    <2> QED
      BY <2>2, <2>3, <2>4
  <1>2. CASE ReadDone
    <2>1. pc = "read"
      BY <1>2 DEF ReadDone
    <2>2. \/ /\ Ok /\ OnLocal(WritePart(Local, It.dst, job.off)) /\ job' = Chunked
             /\ \/ AskRead(It.src, job.off + 1, "read")
                \/ Ask("close", It.src, "closeCancelled")
          \/ Got({"eof"}) /\ Ask("close", It.src, "close") /\ UNCHANGED <<job, disk>>
          \/ \E out, cost : CleanUp(out, cost)
      BY <1>2 DEF ReadDone
    <2>3. ASSUME Ok, OnLocal(WritePart(Local, It.dst, job.off)), job' = Chunked,
                 AskRead(It.src, job.off + 1, "read") \/ Ask("close", It.src, "closeCancelled")
          PROVE  Downloads
      <3>1. Stays /\ job'.off = job.off + 1
        BY <2>3, JobEdits DEF Stays, SamePlan
      <3>2. /\ Calm /\ pc' \in {"read", "closeCancelled"}
            /\ pc' = "read" => Sent(DataReq("read", It.src, job.off + 1))
        BY <2>3, CalmRead, CalmAsk, DataFacts
      <3> QED
        BY <2>1, <2>3, <3>1, <3>2 DEF Downloads
    <2>4. ASSUME Got({"eof"}), Ask("close", It.src, "close"), UNCHANGED <<job, disk>>
          PROVE  Downloads
      BY <2>1, <2>4, CalmAsk DEF Downloads
    <2>5. ASSUME \E out, cost : CleanUp(out, cost) PROVE Downloads
      BY <2>1, <2>5, CleanTable DEF Downloads
    <2> QED
      BY <2>2, <2>3, <2>4, <2>5
  <1>3. CASE CancelClosed
    BY <1>3, CleanTable DEF CancelClosed, Downloads
  <1> QED
    BY <1>1, <1>2, <1>3

\* A whole copy takes the name.
Replaces ==
    \/ /\ pc = "close" /\ Ok /\ Upload /\ UNCHANGED <<job, disk>>
       /\ \/ It.exists /\ pc' = "remove" /\ Sent(Req("remove", It.dst))
          \/ pc' = "rename" /\ Sent(Req("rename", It.dst))
    \/ /\ pc = "close" /\ Ok /\ ~Upload /\ UNCHANGED client
       /\ \/ Counts /\ Succeeds(RenameLocal(Local, It.dst)) /\ OnLocal(RenameLocal(Local, It.dst))
          \/ Leaves /\ UNCHANGED disk
    \/ pc = "close" /\ ~Ok /\ Cleans
    \/ pc = "remove" /\ pc' = "rename" /\ Sent(Req("rename", It.dst)) /\ UNCHANGED <<job, disk>>
    \/ pc = "rename" /\ UNCHANGED <<client, disk>> /\ IF Ok THEN Counts ELSE Leaves

LEMMA ReplaceTable ==
    ASSUME CallShaped, JobShaped, Closed \/ Removed \/ Renamed
    PROVE  Replaces
  <1>1. CASE Closed
    <2>1. CASE ~Ok
      BY <1>1, <2>1, CleanTable DEF Closed, Replaces
    <2>2. CASE Ok /\ Upload
      BY <1>1, <2>2, AskFacts DEF Closed, Replaces
    <2>3. CASE Ok /\ ~Upload
      BY <1>1, <2>3, ItemEnds DEF Closed, Replaces
    <2> QED
      BY <2>1, <2>2, <2>3
  <1>2. CASE Removed
    BY <1>2, AskFacts DEF Removed, Replaces
  <1>3. CASE Renamed
    BY <1>3, ItemEnds DEF Renamed, Replaces
  <1> QED
    BY <1>1, <1>2, <1>3

\* The client, the server and the connection, while no flow goes on.
Waits ==
    /\ UNCHANGED <<pc, job, lister>>
    /\ asked' \subseteq asked /\ (link = "closed" => link' = "closed")
    /\ \/ ServerStep
       \/ UNCHANGED disk /\ (Receive \/ TimeOut \/ ReadTorn \/ ReadClosed \/ Lose \/ Abandon)
       \/ UNCHANGED <<client, disk>>

LEMMA WaitTable == ASSUME EnvStep \/ Rest \/ UNCHANGED vars PROVE Waits
  <1>1. CASE ServerStep
    BY <1>1 DEF ServerStep, Serve, Waits
  <1>2. CASE ReplyRead \/ LimitHit \/ ConnectionLost \/ RequestLost
    BY <1>2 DEF ReplyRead, LimitHit, ConnectionLost, RequestLost, Others, Receive, TimeOut, ReadTorn,
                ReadClosed, Lose, Abandon, Waits
  <1>3. CASE Rest \/ UNCHANGED vars
    BY <1>3 DEF Rest, vars, client, Waits
  <1> QED
    BY <1>1, <1>2, <1>3 DEF EnvStep

Steps ==
    \/ Browses \/ LogsIn \/ Lists \/ Plans \/ Between \/ MakesDir \/ Uploads \/ Downloads
    \/ Replaces \/ Waits \/ OpenFiles \/ Transfer \/ Back \/ Decide

LEMMA StepTable ==
    ASSUME CallShaped, JobShaped, DOMAIN lister = ListFields, [Next]_vars
    PROVE  Steps
  <1>1. CASE OpenFiles \/ Transfer \/ Back \/ Decide
    BY <1>1 DEF Steps
  <1>2. CASE SwitchPane \/ MoveCursor \/ ToggleMark \/ OpenSelected \/ GoUp \/ Refresh \/ Finished
    BY <1>2, BrowseTable DEF Steps
  <1>3. CASE Login \/ FallBack \/ FirstListing
    BY <1>3, LoginTable DEF Steps
  <1>4. CASE Opendir \/ Readdir \/ Closedir \/ ListingShown
    BY <1>4, ListTable DEF Steps
  <1>5. CASE \/ VisitLocalDir \/ VisitRemoteDir \/ VisitLink \/ VisitFile \/ Sized
             \/ ExistsAnswered \/ PlanDone \/ AllDecided
    BY <1>5, PlanTable DEF Steps
  <1>6. CASE ItemSkipped \/ RunDone \/ EnsureDir \/ StartFile
    BY <1>6, BetweenTable DEF Steps
  <1>7. CASE DirStat \/ Mkdir \/ CleanedUp
    BY <1>7, DirTable DEF Steps
  <1>8. CASE Created \/ Written
    BY <1>8, UploadTable DEF Steps
  <1>9. CASE Opened \/ ReadDone \/ CancelClosed
    BY <1>9, DownloadTable DEF Steps
  <1>10. CASE Closed \/ Removed \/ Renamed
    BY <1>10, ReplaceTable DEF Steps
  <1>11. CASE EnvStep \/ Rest \/ UNCHANGED vars
    BY <1>11, WaitTable DEF Steps
  <1> QED
    BY <1>1, <1>2, <1>3, <1>4, <1>5, <1>6, <1>7, <1>8, <1>9, <1>10, <1>11
    DEF Next, KeyStep, FlowStep

---------------------------------------------------------------------------
\* What the server, or the local file system, does to one side.

FileNodes == Contents \cup {"piece"}
Nodes == FileNodes \cup {"dir", "link"}
Mutating == {"mkdir", "create", "write", "remove", "discard", "rename"}

GoodTree(tree) == /\ \A q \in DOMAIN tree : tree[q] \in Nodes
                  /\ <<>> \in DOMAIN tree => tree[<<>>] = "dir"
GoodPart(part) == \A q \in DOMAIN part : DOMAIN part[q] = {"ver", "got"} /\ part[q].ver \in FileNodes
GoodSide(d) == DOMAIN d = {"tree", "part"} /\ GoodTree(d.tree) /\ GoodPart(d.part)

\* Nothing that was there changes, except at path.
GrowsBeside(old, new, path) ==
    \A q : At(new, q) = At(old, q) \/ At(old, q) = "none" \/ q = path
Grows(old, new) == \A q : At(new, q) = At(old, q) \/ At(old, q) = "none"

LEMMA NotNone == "none" \notin Nodes /\ "dir" \notin FileNodes
  BY ContentsAssumption DEF Nodes, FileNodes

LEMMA PutGood ==
    ASSUME NEW tree, GoodTree(tree), NEW path, NEW node, node \in Nodes,
           At(tree, path) # "dir" \/ node = "dir"
    PROVE  /\ GoodTree(Put(tree, path, node))
           /\ GrowsBeside(tree, Put(tree, path, node), path)
           /\ At(tree, path) \in {"none", node} => Grows(tree, Put(tree, path, node))
  <1> DEFINE new == Put(tree, path, node)
  <1>1. /\ DOMAIN new = DOMAIN tree \cup {path}
        /\ \A q \in DOMAIN new : new[q] = IF q = path THEN node ELSE tree[q]
    BY DEF Put
  <1>2. path = <<>> => node = "dir"
    BY DEF At
  <1> HIDE DEF new
  <1>3. GoodTree(new)
    BY <1>1, <1>2 DEF GoodTree
  <1>4. \A q : At(new, q) = At(tree, q) \/ q = path
    BY <1>1 DEF At
  <1>5. At(new, path) = node
    BY <1>1, <1>2 DEF At
  <1> QED
    BY <1>3, <1>4, <1>5 DEF new, GrowsBeside, Grows

LEMMA DelGood ==
    ASSUME NEW tree, GoodTree(tree), NEW path
    PROVE  GoodTree(Del(tree, path)) /\ GrowsBeside(tree, Del(tree, path), path)
  BY DEF GoodTree, Del, GrowsBeside, At

LEMMA MovedGood ==
    ASSUME NEW d, GoodSide(d), NEW path, PartAt(d, path), At(d.tree, path) # "dir"
    PROVE  /\ GoodSide(Moved(d, path))
           /\ GrowsBeside(d.tree, Moved(d, path).tree, path)
           /\ At(d.tree, path) = "none" => Grows(d.tree, Moved(d, path).tree)
  <1> DEFINE node == IF Whole(d, path) THEN d.part[path].ver ELSE "piece"
  <1>1. node \in Nodes
    BY DEF GoodSide, GoodPart, PartAt, Nodes, FileNodes
  <1>2. Moved(d, path) = [tree |-> Put(d.tree, path, node), part |-> Del(d.part, path)]
    BY DEF Moved
  <1>3. GoodPart(Del(d.part, path))
    BY DEF GoodSide, GoodPart, Del
  <1> HIDE DEF node
  <1> QED
    BY <1>1, <1>2, <1>3, PutGood DEF GoodSide

LEMMA MakeDirGood ==
    ASSUME NEW d, GoodSide(d), NEW path
    PROVE  GoodSide(MakeDir(d, path).disk) /\ Grows(d.tree, MakeDir(d, path).disk.tree)
  <1>1. CASE At(d.tree, path) # "none" \/ At(d.tree, Front(path)) # "dir"
    BY <1>1 DEF MakeDir, Denied, Grows
  <1>2. CASE ~(At(d.tree, path) # "none" \/ At(d.tree, Front(path)) # "dir")
    <2>1. MakeDir(d, path).disk = [d EXCEPT !.tree = Put(d.tree, path, "dir")]
      BY <1>2 DEF MakeDir, Does
    <2>2. GoodTree(Put(d.tree, path, "dir")) /\ Grows(d.tree, Put(d.tree, path, "dir"))
      BY <1>2, PutGood DEF GoodSide, Nodes
    <2> QED
      BY <2>1, <2>2 DEF GoodSide
  <1> QED
    BY <1>1, <1>2

LEMMA CreateGood ==
    ASSUME NEW d, GoodSide(d), NEW path, NEW ver, ver \in FileNodes
    PROVE  GoodSide(CreatePart(d, path, ver).disk) /\ CreatePart(d, path, ver).disk.tree = d.tree
  <1>1. CASE At(d.tree, Front(path)) # "dir"
    BY <1>1 DEF CreatePart, Denied
  <1>2. CASE At(d.tree, Front(path)) = "dir"
    <2>1. CreatePart(d, path, ver).disk = [d EXCEPT !.part = Put(d.part, path, [ver |-> ver, got |-> 0])]
      BY <1>2 DEF CreatePart, Does
    <2>2. GoodPart(Put(d.part, path, [ver |-> ver, got |-> 0]))
      BY DEF GoodSide, GoodPart, Put
    <2> QED
      BY <2>1, <2>2 DEF GoodSide
  <1> QED
    BY <1>1, <1>2

LEMMA WriteGood ==
    ASSUME NEW d, GoodSide(d), NEW path, NEW off
    PROVE  GoodSide(WritePart(d, path, off).disk) /\ WritePart(d, path, off).disk.tree = d.tree
  <1> DEFINE new == [d.part EXCEPT ![path].got = off + 1]
  <1>1. CASE PartAt(d, path) /\ d.part[path].got = off
    <2>1. WritePart(d, path, off).disk = [d EXCEPT !.part = new]
      BY <1>1 DEF WritePart, Does
    <2>2. GoodPart(new)
      BY <1>1 DEF GoodSide, GoodPart, PartAt
    <2> HIDE DEF new
    <2> QED
      BY <2>1, <2>2 DEF GoodSide
  <1>2. CASE ~(PartAt(d, path) /\ d.part[path].got = off)
    BY <1>2 DEF WritePart, Does
  <1> QED
    BY <1>1, <1>2

LEMMA RemoveGood ==
    ASSUME NEW d, GoodSide(d), NEW path
    PROVE  /\ GoodSide(RemoveFile(d, path).disk)
           /\ GrowsBeside(d.tree, RemoveFile(d, path).disk.tree, path)
           /\ GoodSide(RemovePart(d, path).disk) /\ RemovePart(d, path).disk.tree = d.tree
  <1>1. GoodTree(Del(d.tree, path)) /\ GrowsBeside(d.tree, Del(d.tree, path), path)
    BY DelGood DEF GoodSide
  <1>2. GoodPart(Del(d.part, path))
    BY DEF GoodSide, GoodPart, Del
  <1>3. \/ RemoveFile(d, path).disk = d
        \/ RemoveFile(d, path).disk = [d EXCEPT !.tree = Del(d.tree, path)]
    BY DEF RemoveFile, Denied, Does
  <1>4. \/ RemovePart(d, path).disk = d
        \/ RemovePart(d, path).disk = [d EXCEPT !.part = Del(d.part, path)]
    BY DEF RemovePart, Denied, Does
  <1> QED
    BY <1>1, <1>2, <1>3, <1>4 DEF GoodSide, GrowsBeside

LEMMA RenameGood ==
    ASSUME NEW d, GoodSide(d), NEW path
    PROVE  /\ GoodSide(RenamePart(d, path).disk) /\ Grows(d.tree, RenamePart(d, path).disk.tree)
           /\ GoodSide(RenameLocal(d, path).disk)
           /\ GrowsBeside(d.tree, RenameLocal(d, path).disk.tree, path)
  <1>1. \/ RenamePart(d, path).disk = d
        \/ /\ RenamePart(d, path).disk = Moved(d, path)
           /\ PartAt(d, path) /\ At(d.tree, path) = "none"
    BY DEF RenamePart, Denied, Does
  <1>2. \/ RenameLocal(d, path).disk = d
        \/ /\ RenameLocal(d, path).disk = Moved(d, path)
           /\ PartAt(d, path) /\ At(d.tree, path) # "dir"
    BY DEF RenameLocal, Denied, Does
  <1> QED
    BY <1>1, <1>2, MovedGood DEF GrowsBeside, Grows

LEMMA MakeDirsGood ==
    ASSUME NEW d, GoodSide(d), NEW path
    PROVE  GoodSide(MakeDirs(d, path).disk) /\ Grows(d.tree, MakeDirs(d, path).disk.tree)
  <1> DEFINE prefixes == {SubSeq(path, 1, n) : n \in 1..Len(path)}
             new == [q \in DOMAIN d.tree \cup prefixes |-> IF q \in prefixes THEN "dir" ELSE d.tree[q]]
  <1>1. CASE \E q \in prefixes : At(d.tree, q) \notin {"none", "dir"}
    BY <1>1 DEF MakeDirs, Denied, Grows
  <1>2. CASE \A q \in prefixes : At(d.tree, q) \in {"none", "dir"}
    <2>1. MakeDirs(d, path).disk = [d EXCEPT !.tree = new]
      BY <1>2 DEF MakeDirs, Does
    <2> HIDE DEF prefixes
    <2>2. GoodTree(new)
      BY DEF GoodSide, GoodTree, Nodes
    <2>3. Grows(d.tree, new)
      BY <1>2 DEF Grows, At
    <2> HIDE DEF new
    <2> QED
      BY <2>1, <2>2, <2>3 DEF GoodSide
  <1> QED
    BY <1>1, <1>2

FineReq(req) == req.op \in Ops /\ (req.op = "create" => req.ver \in FileNodes)

\* A server only removes what it was asked to remove.
LEMMA EffectGood ==
    ASSUME NEW d, GoodSide(d), NEW req, FineReq(req)
    PROVE  /\ GoodSide(Effect(d, req).disk)
           /\ req.op \notin Mutating => Effect(d, req).disk = d
           /\ Grows(d.tree, Effect(d, req).disk.tree)
              \/ (req.op = "remove" /\ GrowsBeside(d.tree, Effect(d, req).disk.tree, req.path))
           /\ Effect(d, req).code = "ok" /\ req.op = "open" => IsFile(d.tree, req.path)
  <1>1. CASE req.op \in {"realpath", "opendir"}
    BY <1>1 DEF Effect, Says, Denied, Grows
  <1>2. CASE req.op \in {"readdir", "stat", "close", "read"}
    BY <1>2 DEF Effect, Says, Denied, Grows
  <1>3. CASE req.op = "open"
    BY <1>3 DEF Effect, Says, Denied, Grows
  <1>4. CASE req.op = "mkdir"
    BY <1>4, MakeDirGood DEF Effect, Mutating
  <1>5. CASE req.op = "create"
    BY <1>5, CreateGood DEF Effect, Mutating, FineReq, Grows
  <1>6. CASE req.op = "write"
    BY <1>6, WriteGood DEF Effect, Mutating, Grows
  <1>7. CASE req.op \in {"remove", "discard"}
    BY <1>7, RemoveGood DEF Effect, Mutating, Grows
  <1>8. CASE req.op = "rename"
    BY <1>8, RenameGood DEF Effect, Mutating
  <1> QED
    BY <1>1, <1>2, <1>3, <1>4, <1>5, <1>6, <1>7, <1>8 DEF FineReq, Ops

---------------------------------------------------------------------------
\* The invariant of a transfer.  Its parts were checked on MCFiles with two
\* failures before they were proved.

ItemFields == {"src", "dst", "dir", "exists", "skip"}
PlanOver(S) == job.plan \in Seq(S) /\ \A item \in S : DOMAIN item = ItemFields
PlanShaped == \E S : PlanOver(S)

ListPcs == {"opendir", "readdir", "closedir", "listed"}
FilePcs == {"cleanup", "create", "write", "open", "read", "close", "closeCancelled",
            "remove", "rename"}
Copying == {"item", "dirstat", "mkdir"} \cup FilePcs

\* What the flow is at fits the job it holds.
Direction ==
    /\ pc \in {"exists", "dirstat", "mkdir", "cleanup", "create", "write", "remove", "rename"} => Upload
    /\ pc \in {"open", "read"} => ~Upload
    /\ pc \in ListPcs /\ lister.then = "walk" => ~Upload /\ Todo.kind = "dir"

AtFile ==
    /\ pc \in {"ask"} \cup Copying => job.at \in Nat \ {0}
    /\ pc \in FilePcs => job.at \in DOMAIN job.plan /\ ~It.dir /\ ~It.skip
    /\ pc = "remove" => It.exists
    /\ pc = "open" => call.req = Req("open", It.src)

\* No request that changes anything is on its way while nobody waits for it:
\* a listing or a walk gets its answers only after the requests before it, and
\* the browser has dropped a session that may still carry one.
Quiet == \A e \in asked : e.req.op \notin Mutating
QuietWhen ==
    \/ Quiet
    \/ pc \in {"menu", "idle"} /\ link = "closed"
    \/ pc \in Copying \cup {"finish"} /\ Upload
    \/ pc = "opendir" /\ lister.then = "browse"
    \/ pc = "listed" /\ lister.then = "browse" /\ lister.result = "fatal"

FineDisk == DOMAIN disk = Sides /\ \A s \in Sides : GoodSide(disk[s])
FineAsked == \A e \in asked : FineReq(e.req)

\* An answer says what the server found, until the flow has used it.
Told(req) == req.op = "open" => IsFile(disk["remote"].tree, req.path)
Tells ==
    /\ call.st = "waiting" =>
         /\ \A e \in asked : e.no = sent => e.req = call.req
         /\ \A i \in DOMAIN wire : wire[i].no = sent /\ wire[i].ans.code = "ok" => Told(call.req)
    /\ call.st = "answered" => asked = {} /\ (call.ans.code = "ok" => Told(call.req))

\* What there was when the transfer began is what the plan was made on.
Walking == pc \in {"visit", "size", "exists", "ask"} \/ (pc \in ListPcs /\ lister.then = "walk")
BeforeKnown == GoodTree(job.before) /\ (Walking => DestTree = job.before)

\* A file the plan takes for new was not there, or is one the user decides on.
Fresh(i) == ~job.plan[i].exists /\ ~job.plan[i].dir /\ ~job.plan[i].skip
Free(q) == q \in DOMAIN job.before => job.before[q] = "link"
NewHere == ~Upload => \A i \in DOMAIN job.plan : Fresh(i) => Free(job.plan[i].dst)

Agreed(n) == \A i \in DOMAIN job.plan : i < n /\ Conflict(i) => job.plan[i].dst \in job.agreed
AllAgreed == \A i \in DOMAIN job.plan : Conflict(i) => job.plan[i].dst \in job.agreed
AskedAbout == (pc = "ask" => Agreed(job.at)) /\ (pc \in Copying => AllAgreed)

RemovesAgreed ==
    Upload => \A e \in asked : e.req.op = "remove" /\ e.req.path \in DOMAIN job.before =>
                 e.req.path \in job.agreed

Moving == JobShaped /\ PlanShaped /\ Direction /\ AtFile
Serving == FineDisk /\ FineAsked /\ Tells /\ QuietWhen
Deciding == BeforeKnown /\ NewHere /\ AskedAbout /\ RemovesAgreed
FlowInv == StreamInv /\ Moving /\ Serving /\ Deciding /\ AskedBeforeReplacing

LEMMA FlowInitially == Init => FlowInv
  <1> SUFFICES ASSUME Init PROVE FlowInv
    OBVIOUS
  <1>1. Moving
    <2>1. job = EmptyJob /\ pc = "menu"
      BY DEF Init
    <2>2. JobShaped
      BY <2>1 DEF JobShaped, JobFields, EmptyJob
    <2>3. job.plan = <<>>
      BY <2>1 DEF EmptyJob
    <2>4. job.plan \in Seq({}) /\ PlanOver({})
      BY <2>3 DEF PlanOver
    <2> QED
      BY <2>1, <2>2, <2>4 DEF Moving, PlanShaped, Direction, AtFile, Copying, FilePcs, ListPcs
  <1>2. Serving
    <2>1. PICK world \in Worlds : disk = [s \in Sides |-> [tree |-> world[s], part |-> <<>>]]
      BY DEF Init
    <2>2. \A s \in Sides : GoodTree(world[s])
      BY WorldsAssumption DEF GoodTree, Nodes, FileNodes
    <2>3. FineDisk
      BY <2>1, <2>2 DEF FineDisk, GoodSide, GoodPart
    <2> QED
      BY <2>3 DEF Init, Serving, FineAsked, Tells, QuietWhen, Quiet
  <1>3. Deciding /\ AskedBeforeReplacing
    <2>1. job.before = <<>> /\ job.plan = <<>> /\ asked = {} /\ pc = "menu"
      BY DEF Init, EmptyJob
    <2> QED
      BY <2>1 DEF Deciding, BeforeKnown, GoodTree, Walking, NewHere, AskedAbout, RemovesAgreed,
                  Copying, FilePcs, ListPcs, AskedBeforeReplacing
  <1> QED
    BY <1>1, <1>2, <1>3, StreamInitially DEF FlowInv

---------------------------------------------------------------------------
\* A step of a flow, apart from what the server and the connection do.

LEMMA WaitCall ==
    ASSUME CallShaped, Waits
    PROVE  sent' = sent /\ call'.req = call.req
  <1>1. CASE ServerStep \/ UNCHANGED client
    BY <1>1 DEF ServerStep, Serve, client
  <1>2. CASE Receive \/ TimeOut \/ ReadTorn \/ ReadClosed \/ Lose \/ Abandon
    BY <1>2 DEF Receive, TimeOut, ReadTorn, ReadClosed, Lose, Abandon, Fail, CallShaped
  <1> QED
    BY <1>1, <1>2 DEF Waits

FlowMove ==
    /\ disk'["remote"] = disk["remote"]
    /\ \/ UNCHANGED client
       \/ \E req : Sent(req) /\ FineReq(req)
       \/ wire' = <<>> /\ call'.st = "none" /\ UNCHANGED asked

LEMMA CalmMove == ASSUME Calm PROVE UNCHANGED client \/ \E req : Sent(req) /\ FineReq(req)
  BY DEF Calm, Asks, FineReq

LEMMA LocalOnly ==
    ASSUME FineDisk, NEW effect, OnLocal(effect)
    PROVE  disk'["remote"] = disk["remote"] /\ disk'["local"] = effect.disk /\ DOMAIN disk' = Sides
  BY DEF FineDisk, OnLocal, Sides

LEMMA PlainReqs ==
    ASSUME NEW path, NEW ver, NEW off, ver \in FileNodes
    PROVE  /\ \A op \in Ops \ {"create"} : FineReq(Req(op, path))
           /\ FineReq(CreateReq(path, ver)) /\ FineReq(DataReq("write", path, off))
           /\ FineReq(DataReq("read", path, off))
  BY DEF FineReq, Req, CreateReq, DataReq, Ops

LEMMA CleansMove == ASSUME FineDisk, Cleans PROVE FlowMove
  <1>1. FineReq(Req("discard", It.dst))
    BY DEF FineReq, Req, Ops
  <1> QED
    BY <1>1, LocalOnly DEF Cleans, FlowMove

LEMMA FlowMoves ==
    ASSUME StreamInv, FineDisk, Steps, ~Waits
    PROVE  FlowMove
  <1>1. CASE Browses \/ LogsIn \/ Plans
    BY <1>1, CalmMove DEF Browses, LogsIn, Plans, FlowMove
  <1>2. CASE Lists
    <2>1. Drop => wire' = <<>> /\ call'.st = "none" /\ UNCHANGED asked
      BY StreamShapesCall DEF Drop, CallShaped
    <2> QED
      BY <1>2, <2>1, CalmMove DEF Lists, FlowMove
  <1>3. CASE Between
    <2>1. FineReq(Req("open", It.src))
      BY DEF FineReq, Req, Ops
    <2>2. IsFile(Local.tree, It.src) => FineReq(CreateReq(It.dst, Local.tree[It.src]))
      <3>1. IsFile(Local.tree, It.src) => Local.tree[It.src] \in FileNodes
        BY ContentsAssumption DEF IsFile, At, FileNodes
      <3> QED
        BY <3>1, PlainReqs
    <2> QED
      BY <1>3, <2>1, <2>2, LocalOnly, CleansMove, CalmMove DEF Between, StartsFile, FlowMove
  <1>4. CASE MakesDir
    <2>1. FineReq(Req("mkdir", It.dst))
      BY DEF FineReq, Req, Ops
    <2> QED
      BY <1>4, <2>1 DEF MakesDir, FlowMove
  <1>5. CASE Uploads
    <2>1. /\ FineReq(Req("close", It.dst))
          /\ \A off : FineReq(DataReq("write", It.dst, off))
      BY DEF FineReq, Req, DataReq, Ops
    <2> QED
      BY <1>5, <2>1, CleansMove DEF Uploads, FlowMove
  <1>6. CASE Downloads
    BY <1>6, CleansMove, CalmMove, LocalOnly DEF Downloads, FlowMove
  <1>7. CASE Replaces
    <2>1. FineReq(Req("remove", It.dst)) /\ FineReq(Req("rename", It.dst))
      BY DEF FineReq, Req, Ops
    <2> QED
      BY <1>7, <2>1, CleansMove, LocalOnly DEF Replaces, FlowMove
  <1>8. CASE OpenFiles
    BY <1>8, StreamShapesCall DEF OpenFiles, Open, FlowMove, CallShaped
  <1>9. CASE Transfer \/ Decide
    BY <1>9 DEF Transfer, Decide, FlowMove
  <1>10. CASE Back
    BY <1>10, StreamShapesCall DEF Back, Drop, FlowMove, CallShaped
  <1> QED
    BY <1>1, <1>2, <1>3, <1>4, <1>5, <1>6, <1>7, <1>8, <1>9, <1>10 DEF Steps

---------------------------------------------------------------------------
\* What the server and the connection do, and what an answer tells.

LEMMA MoveFacts ==
    ASSUME StreamInv, FineDisk, FineAsked, FlowMove
    PROVE  FineAsked'
  BY DEF FlowMove, FineAsked, Sent, client

\* The far end serves e, one of the requests it has: with what the operation does
\* to its tree, or with a refusal.
ServedWith(e, effect) ==
    /\ FineReq(e.req) /\ \A f \in asked : e.no <= f.no
    /\ \/ effect.disk = disk["remote"] /\ effect.code = "status" /\ effect.entries = {}
       \/ effect = Effect(disk["remote"], e.req)
    /\ Serve(e, [code |-> effect.code, entries |-> effect.entries])
    /\ disk'["remote"] = effect.disk /\ disk'["local"] = disk["local"]
    /\ DOMAIN disk' = Sides
    /\ UNCHANGED <<pc, job, lister>>

LEMMA ServerFacts ==
    ASSUME StreamInv, FineDisk, FineAsked, ServerStep
    PROVE  \E e \in asked : \E effect : ServedWith(e, effect)
  <1>1. PICK R, A : InvOver(R, A)
    BY DEF StreamInv, Sound
  <1>2. Oldest \in asked /\ \A f \in asked : Oldest.no <= f.no
    BY <1>1, OldestIsAsked DEF ServerStep
  <1>3. PICK effect :
           /\ effect = Refusal \/ effect = Effect(disk["remote"], Oldest.req)
           /\ Serve(Oldest, [code |-> effect.code, entries |-> effect.entries])
           /\ disk' = [disk EXCEPT !["remote"] = effect.disk]
           /\ UNCHANGED <<pc, job, lister>>
    BY DEF ServerStep
  <1>4. PICK e \in asked :
           /\ \A f \in asked : e.no <= f.no
           /\ effect = Refusal \/ effect = Effect(disk["remote"], e.req)
           /\ Serve(e, [code |-> effect.code, entries |-> effect.entries])
    BY <1>2, <1>3
  <1>5. effect = Refusal =>
          effect.disk = disk["remote"] /\ effect.code = "status" /\ effect.entries = {}
    BY DEF Refusal
  <1>6. /\ disk'["remote"] = effect.disk /\ disk'["local"] = disk["local"]
        /\ DOMAIN disk' = Sides
    BY <1>3 DEF FineDisk, Sides
  <1>7. FineReq(e.req)
    BY DEF FineAsked
  <1> QED
    BY <1>3, <1>4, <1>5, <1>6, <1>7 DEF ServedWith

LEMMA AnswerIsOwn ==
    ASSUME StreamInv, StreamInv', Receive, call'.st = "answered"
    PROVE  /\ call.st = "waiting" /\ 1 \in DOMAIN wire /\ wire[1].no = sent
           /\ asked' = {} /\ call'.ans = wire[1].ans
  <1>1. PICK R, A : InvOver(R, A)
    BY DEF StreamInv, Sound
  <1>2. call.st = "waiting" /\ wire # <<>> /\ link = "up" /\ UNCHANGED <<link, asked>>
    BY DEF Receive
  <1>3. wire \in Seq(ReplyOver(A)) /\ call.no = sent
    BY <1>1, <1>2 DEF InvOver, Typed, CallInStep
  <1>4. 1 \in DOMAIN wire /\ Head(wire) = wire[1]
    BY <1>2, <1>3
  <1>5. call' = [call EXCEPT !.st = "answered", !.ans = Head(wire).ans, !.got = Head(wire).no]
    BY <1>1 DEF Receive, Fail, InvOver, Typed, CallOver
  <1>6. call'.got = wire[1].no /\ call'.no = sent /\ call'.ans = wire[1].ans
    BY <1>1, <1>3, <1>4, <1>5 DEF InvOver, Typed, CallOver
  <1>7. call'.got = call'.no
    BY DEF StreamInv, Sound, InvOver, OwnReply
  <1>8. asked' = {}
    BY <1>2 DEF StreamInv, AnsweredLast
  <1> QED
    BY <1>2, <1>4, <1>6, <1>7, <1>8

LEMMA NumbersAreNumbers ==
    ASSUME StreamInv
    PROVE  /\ sent \in Nat /\ \A e \in asked : e.no \in Nat
           /\ DOMAIN wire = 1..Len(wire) /\ Len(wire) \in Nat
           /\ \A i \in DOMAIN wire : wire[i].no \in Nat
           /\ \A r : /\ DOMAIN Append(wire, r) = 1..(Len(wire) + 1)
                    /\ \A i \in DOMAIN wire : Append(wire, r)[i] = wire[i]
                    /\ Append(wire, r)[Len(wire) + 1] = r
  <1>1. PICK R, A : InvOver(R, A)
    BY DEF StreamInv, Sound
  <1>2. wire \in Seq(ReplyOver(A))
    BY <1>1 DEF InvOver, Typed
  <1>3. \A i \in DOMAIN wire : wire[i] \in ReplyOver(A)
    BY <1>2
  <1>4. \A i \in DOMAIN wire : wire[i].no \in Nat
    BY <1>3 DEF ReplyOver
  <1>5. sent \in Nat /\ \A e \in asked : e.no \in Nat
    BY <1>1 DEF InvOver, Typed
  <1>6. DOMAIN wire = 1..Len(wire) /\ Len(wire) \in Nat
    BY <1>2
  <1>7. ASSUME NEW r
        PROVE  /\ DOMAIN Append(wire, r) = 1..(Len(wire) + 1)
               /\ \A i \in DOMAIN wire : Append(wire, r)[i] = wire[i]
               /\ Append(wire, r)[Len(wire) + 1] = r
    <2>1. wire \in Seq(ReplyOver(A) \cup {r})
      BY <1>2
    <2> QED
      BY <2>1
  <1> QED
    BY <1>4, <1>5, <1>6, <1>7

\* Answers and the disk they tell of, when a flow moves: it changes no remote
\* file, and the request it sends is the last one.
LEMMA FlowTells ==
    ASSUME StreamInv, Tells, FlowMove
    PROVE  Tells'
  <1>1. \A req : Told(req) => Told(req)'
    BY DEF FlowMove, Told
  <1>2. CASE UNCHANGED client
    BY <1>1, <1>2 DEF Tells, client, Told, FlowMove
  <1>3. CASE \E req : Sent(req) /\ FineReq(req)
    <2>1. PICK req : Sent(req)
      BY <1>3
    <2>2. /\ \A e \in asked' : e.no = sent' => e.req = call'.req
          /\ \A i \in DOMAIN wire' : wire'[i].no # sent'
          /\ call'.st = "waiting"
      BY <2>1, NumbersAreNumbers DEF Sent, StreamInv, InTurn
    <2> QED
      BY <2>2 DEF Tells
  <1>4. CASE wire' = <<>> /\ call'.st = "none"
    BY <1>4 DEF Tells
  <1> QED
    BY <1>2, <1>3, <1>4 DEF FlowMove

LEMMA ServerTells ==
    ASSUME StreamInv, FineDisk, FineAsked, Tells, ServerStep
    PROVE  Tells'
  <1>0. PICK e \in asked : \E effect : ServedWith(e, effect)
    BY ServerFacts
  <1>1. PICK effect :
          /\ FineReq(e.req) /\ \A f \in asked : e.no <= f.no
          /\ \/ effect.disk = disk["remote"] /\ effect.code = "status" /\ effect.entries = {}
             \/ effect = Effect(disk["remote"], e.req)
          /\ Serve(e, [code |-> effect.code, entries |-> effect.entries])
          /\ disk'["remote"] = effect.disk /\ disk'["local"] = disk["local"]
          /\ DOMAIN disk' = Sides
    BY <1>0 DEF ServedWith
  <1> DEFINE r == [no |-> e.no, id |-> e.id, ans |-> [code |-> effect.code, entries |-> effect.entries]]
  <1>2. /\ asked' \subseteq asked /\ UNCHANGED <<sent, link, call>>
        /\ wire' = Append(wire, r) \/ wire' = wire
        /\ wire' = wire \/ link = "up"
    BY <1>1 DEF Serve
  <1>3. r.no = e.no /\ r.ans.code = effect.code
    OBVIOUS
  <1> HIDE DEF r
  <1>4. \A i \in DOMAIN wire : wire[i].no < sent
    BY NumbersAreNumbers DEF StreamInv, InTurn
  <1>5. call.st # "answered"
    BY DEF Tells
  <1>6. effect.code = "ok" => effect.disk = disk["remote"] \/ e.req.op # "open"
    BY <1>1, EffectGood DEF Mutating, FineDisk, Sides
  <1>7. effect.code = "ok" /\ e.req.op = "open" => IsFile(effect.disk.tree, e.req.path)
    BY <1>1, <1>6, EffectGood DEF FineDisk, Sides
  <1>8. ASSUME call.st = "waiting", NEW i \in DOMAIN wire', wire'[i].no = sent, wire'[i].ans.code = "ok"
        PROVE  Told(call.req)'
    <2>1. i = Len(wire) + 1 /\ wire'[i] = r
      BY <1>2, <1>4, <1>8, NumbersAreNumbers
    <2>2. e.req = call.req
      BY <1>3, <1>8, <2>1 DEF Tells
    <2> QED
      BY <1>1, <1>2, <1>3, <1>7, <1>8, <2>1, <2>2 DEF Told
  <1> QED
    BY <1>2, <1>5, <1>8 DEF Tells

LEMMA WaitTells ==
    ASSUME StreamInv, StreamInv', FineDisk, FineAsked, Tells, Waits
    PROVE  Tells'
  <1>1. CASE ServerStep
    BY <1>1, ServerTells
  <1>2. CASE UNCHANGED disk /\ Receive
    <2>1. CASE call'.st = "answered"
      <3>1. /\ call.st = "waiting" /\ 1 \in DOMAIN wire /\ wire[1].no = sent
            /\ asked' = {} /\ call'.ans = wire[1].ans
        BY <1>2, <2>1, AnswerIsOwn
      <3>2. call'.req = call.req
        BY WaitCall, StreamShapesCall
      <3> QED
        BY <1>2, <2>1, <3>1, <3>2 DEF Tells, Told
    <2>2. CASE call'.st # "answered"
      <3>1. call' = [call EXCEPT !.st = "fatal"]
        <4>1. call' = [call EXCEPT !.st = "answered", !.ans = Head(wire).ans, !.got = Head(wire).no]
                => call'.st = "answered"
          BY StreamShapesCall DEF CallShaped
        <4> QED
          BY <1>2, <2>2, <4>1 DEF Receive, Fail
      <3>2. call'.st = "fatal"
        BY <3>1, StreamShapesCall DEF CallShaped
      <3> QED
        BY <3>2 DEF Tells
    <2> QED
      BY <2>1, <2>2
  <1>3. CASE UNCHANGED disk /\ (TimeOut \/ ReadTorn \/ ReadClosed)
    <2>1. call'.st = "fatal"
      BY <1>3, StreamShapesCall DEF TimeOut, ReadTorn, ReadClosed, Fail, CallShaped
    <2> QED
      BY <2>1 DEF Tells
  <1>4. CASE UNCHANGED disk /\ (Lose \/ Abandon)
    <2>1. /\ UNCHANGED <<call, sent, disk>> /\ asked' \subseteq asked
          /\ wire' = <<>> \/ wire' = wire
      BY <1>4 DEF Lose, Abandon
    <2> QED
      BY <2>1 DEF Tells, Told
  <1>5. CASE UNCHANGED <<client, disk>>
    BY <1>5 DEF client, Tells, Told
  <1> QED
    BY <1>1, <1>2, <1>3, <1>4, <1>5 DEF Waits

---------------------------------------------------------------------------
\* The local side, when a flow moves: what it does with the item it is at.
LocalStep ==
    \/ UNCHANGED disk
    \/ /\ disk'["remote"] = disk["remote"] /\ DOMAIN disk' = Sides /\ GoodSide(disk'["local"])
       /\ ~Upload
       /\ \/ Grows(disk["local"].tree, disk'["local"].tree)
          \/ /\ pc = "close" /\ GrowsBeside(disk["local"].tree, disk'["local"].tree, It.dst)

LEMMA CleansLocal == ASSUME FineDisk, Cleans PROVE LocalStep
  <1>1. CASE OnLocal(RemovePart(Local, It.dst)) /\ ~Upload
    BY <1>1, LocalOnly, RemoveGood DEF LocalStep, FineDisk, Sides, Local, Grows
  <1> QED
    BY <1>1 DEF Cleans, LocalStep

LEMMA OpenTells ==
    ASSUME AtFile, Tells, pc = "open", Ok
    PROVE  At(disk["remote"].tree, It.src) \in FileNodes
  <1>1. call.req.op = "open" /\ call.req.path = It.src
    BY DEF AtFile, Req
  <1>2. IsFile(disk["remote"].tree, It.src)
    BY <1>1 DEF Tells, Told, Ok, Got
  <1> QED
    BY <1>2 DEF IsFile, FileNodes

LEMMA LocalSteps ==
    ASSUME FlowInv, Steps, ~Waits
    PROVE  LocalStep
  <1>0. FineDisk
    BY DEF FlowInv, Serving
  <1>1. CASE \/ Browses \/ LogsIn \/ Plans \/ Lists \/ MakesDir
             \/ OpenFiles \/ Transfer \/ Back \/ Decide
    BY <1>1 DEF Browses, LogsIn, Plans, Lists, MakesDir, OpenFiles, Transfer, Back, Decide, LocalStep
  <1>2. CASE Between
    <2>1. CASE ~Upload /\ OnLocal(MakeDirs(Local, It.dst))
      BY <1>0, <2>1, LocalOnly, MakeDirsGood DEF LocalStep, FineDisk, Sides, Local
    <2> QED
      BY <1>0, <1>2, <2>1, CleansLocal DEF Between, StartsFile, LocalStep
  <1>3. CASE Uploads
    BY <1>0, <1>3, CleansLocal DEF Uploads, LocalStep
  <1>4. CASE Downloads
    <2>1. CASE pc = "open" /\ ~Cleans
      <3> DEFINE ver == At(disk["remote"].tree, It.src)
      <3>1. Ok /\ OnLocal(CreatePart(Local, It.dst, ver)) /\ ~Upload
        BY <1>4, <2>1 DEF Downloads, FlowInv, Moving, Direction
      <3>2. ver \in FileNodes
        BY <2>1, <3>1, OpenTells DEF FlowInv, Moving, Serving
      <3> HIDE DEF ver
      <3> QED
        BY <1>0, <3>1, <3>2, LocalOnly, CreateGood DEF LocalStep, FineDisk, Sides, Local, Grows
    <2>2. CASE pc = "read" /\ OnLocal(WritePart(Local, It.dst, job.off))
      <3>1. ~Upload
        BY <2>2 DEF FlowInv, Moving, Direction
      <3> QED
        BY <1>0, <2>2, <3>1, LocalOnly, WriteGood DEF LocalStep, FineDisk, Sides, Local, Grows
    <2> QED
      BY <1>0, <1>4, <2>1, <2>2, CleansLocal DEF Downloads, LocalStep
  <1>5. CASE Replaces
    <2>1. CASE pc = "close" /\ ~Upload /\ OnLocal(RenameLocal(Local, It.dst))
      BY <1>0, <2>1, LocalOnly, RenameGood DEF LocalStep, FineDisk, Sides, Local
    <2> QED
      BY <1>0, <1>5, <2>1, CleansLocal DEF Replaces, LocalStep
  <1> QED
    BY <1>1, <1>2, <1>3, <1>4, <1>5 DEF Steps

LEMMA ServingStep ==
    ASSUME FlowInv, StreamInv', Steps
    PROVE  FineDisk' /\ FineAsked' /\ Tells'
  <1> USE DEF FlowInv, Serving
  <1>1. CASE Waits
    <2>1. Tells'
      BY <1>1, WaitTells
    <2>2. FineAsked'
      BY <1>1 DEF Waits, FineAsked
    <2>3. CASE ServerStep
      <3>0. PICK e \in asked : \E effect : ServedWith(e, effect)
        BY <2>3, ServerFacts
      <3>1. PICK effect :
              /\ FineReq(e.req) /\ \A f \in asked : e.no <= f.no
              /\ \/ effect.disk = disk["remote"] /\ effect.code = "status" /\ effect.entries = {}
                 \/ effect = Effect(disk["remote"], e.req)
              /\ Serve(e, [code |-> effect.code, entries |-> effect.entries])
              /\ disk'["remote"] = effect.disk /\ disk'["local"] = disk["local"]
              /\ DOMAIN disk' = Sides
        BY <3>0 DEF ServedWith
      <3>2. GoodSide(effect.disk)
        BY <3>1, EffectGood DEF FineDisk, Sides
      <3> QED
        BY <2>1, <2>2, <3>1, <3>2 DEF FineDisk, Sides
    <2>4. CASE UNCHANGED disk
      BY <2>1, <2>2, <2>4 DEF FineDisk
    <2> QED
      BY <1>1, <2>3, <2>4 DEF Waits
  <1>2. CASE ~Waits
    <2>1. FlowMove
      BY <1>2, FlowMoves
    <2>2. FineAsked' /\ Tells'
      BY <2>1, MoveFacts, FlowTells
    <2>3. FineDisk'
      BY <1>2, LocalSteps DEF LocalStep, FineDisk, Sides, Local
    <2> QED
      BY <2>2, <2>3
  <1> QED
    BY <1>1, <1>2

---------------------------------------------------------------------------
\* The job and where the flow is.

StillMoving == JobShaped' /\ Direction' /\ AtFile'

\* On to the next item, or to the end.
LEMMA AdvanceMoves ==
    ASSUME AtFile, pc \in Copying, Advances PROVE StillMoving
  BY DEF Advances, SamePlan, StillMoving, JobShaped, Direction, AtFile, FilePcs, ListPcs, Copying

\* Still at the same file.
LEMMA StayMoves ==
    ASSUME AtFile, pc \in FilePcs, Stays, pc' \in FilePcs \ {"open"},
           pc' \in {"cleanup", "create", "write", "remove", "rename"} => Upload,
           pc' = "read" => ~Upload,
           pc' = "remove" => It.exists
    PROVE  StillMoving
  <1>1. It' = It /\ (Upload' <=> Upload) /\ job'.plan = job.plan /\ job'.at = job.at
        /\ DOMAIN job' = JobFields
    BY DEF Stays, SamePlan, It, Upload
  <1> QED
    BY <1>1 DEF StillMoving, JobShaped, Direction, AtFile, FilePcs, ListPcs, Copying

LEMMA SameJobStays == ASSUME JobShaped, UNCHANGED job PROVE Stays
  BY DEF JobShaped, Stays, SamePlan

LEMMA CleansMoves ==
    ASSUME AtFile, pc \in FilePcs, Cleans PROVE StillMoving
  <1>1. CASE Upload
    BY <1>1, StayMoves DEF Cleans, FilePcs
  <1>2. CASE ~Upload
    BY <1>2, AdvanceMoves DEF Cleans, Leaves, Copying
  <1> QED
    BY <1>1, <1>2

\* A choice about the next conflict.
Decides ==
    /\ pc = "ask" /\ UNCHANGED <<client, disk, lister>>
    /\ job'.files = job.files /\ job'.off = job.off
    /\ \/ pc' = "finish" /\ SamePlan
       \/ /\ pc' = "ask"
          /\ \E i \in Later :
                /\ \A k \in Later : i <= k
                /\ i \in Nat \ {0} /\ job'.at = i + 1 /\ job'.at \in Nat \ {0}
                /\ DOMAIN job' = JobFields /\ job'.side = job.side /\ job'.before = job.before
                /\ \/ job'.plan = [job.plan EXCEPT ![i].skip = TRUE] /\ job'.agreed = job.agreed
                   \/ job'.plan = job.plan /\ job'.agreed = job.agreed \cup {job.plan[i].dst}

LEMMA DecideTable ==
    ASSUME JobShaped, PlanShaped, Decide PROVE Decides
  <1>1. DOMAIN job.plan \subseteq Nat \ {0}
    <2>1. PICK S : job.plan \in Seq(S)
      BY DEF PlanShaped, PlanOver
    <2> QED
      BY <2>1
  <1>2. CASE Cancel(job)
    <2>1. SamePlan /\ pc' = "finish" /\ job'.files = job.files /\ job'.off = job.off
      BY <1>2, ItemEnds DEF Leaves, Advances, Cancel, Finish, JobShaped, JobFields
    <2> QED
      BY <2>1 DEF Decide, Decides
  <1>3. CASE ~Cancel(job)
    <2>1. PICK choice \in {"overwrite", "skip"}, all \in BOOLEAN : Decided(choice, all) /\ UNCHANGED pc
      BY <1>3 DEF Decide
    <2> DEFINE i == CHOOSE j \in Later : \A k \in Later : j <= k
               next == [job EXCEPT !.at = i + 1, !.sticky = IF all THEN choice ELSE @]
    <2>2. Later # {} /\ Later \subseteq DOMAIN job.plan
      BY <1>3 DEF Decide, Later
    <2>3. i \in Later /\ \A k \in Later : i <= k
      <3>1. Later \subseteq Nat
        BY <1>1, <2>2
      <3> QED
        BY <2>2, <3>1, LeastNumber
    <2>4. job' = IF choice = "skip" THEN [next EXCEPT !.plan[i].skip = TRUE]
                 ELSE [next EXCEPT !.agreed = @ \cup {job.plan[i].dst}]
      BY <2>1 DEF Decided
    <2> HIDE DEF i
    <2>5. /\ DOMAIN next = JobFields /\ next.plan = job.plan /\ next.side = job.side
          /\ next.before = job.before /\ next.agreed = job.agreed /\ next.at = i + 1
          /\ next.files = job.files /\ next.off = job.off
      BY DEF JobShaped, JobFields
    <2> HIDE DEF next
    <2>6. /\ DOMAIN job' = JobFields /\ job'.side = job.side /\ job'.before = job.before
          /\ job'.at = i + 1 /\ job'.files = job.files /\ job'.off = job.off
          /\ \/ job'.plan = [job.plan EXCEPT ![i].skip = TRUE] /\ job'.agreed = job.agreed
             \/ job'.plan = job.plan /\ job'.agreed = job.agreed \cup {job.plan[i].dst}
      <3>1. CASE choice = "skip"
        <4>1. job' = [next EXCEPT !.plan = [next.plan EXCEPT ![i].skip = TRUE]]
          BY <2>4, <3>1
        <4> QED
          BY <2>5, <4>1 DEF JobFields
      <3>2. CASE choice # "skip"
        BY <2>4, <2>5, <3>2 DEF JobFields
      <3> QED
        BY <3>1, <3>2
    <2>7. i \in Nat \ {0} /\ i + 1 \in Nat \ {0}
      BY <1>1, <2>2, <2>3
    <2> QED
      BY <2>1, <2>3, <2>6, <2>7 DEF Decide, Decides
  <1> QED
    BY <1>2, <1>3

Starts ==
    /\ pc = "idle" /\ link # "closed" /\ pc' = "visit" /\ UNCHANGED <<client, disk, lister>>
    /\ DOMAIN job' = JobFields /\ job'.side = focus /\ job'.before = disk[Other(focus)].tree
    /\ job'.plan = <<>> /\ job'.agreed = {} /\ job'.files = {} /\ job'.off = 0

LEMMA TransferTable == ASSUME Transfer PROVE Starts
  <1>1. PICK todo : job' = [EmptyJob EXCEPT !.side = focus, !.before = disk[Other(focus)].tree, !.todo = todo]
    BY DEF Transfer
  <1>2. /\ DOMAIN job' = JobFields /\ job'.side = focus /\ job'.before = disk[Other(focus)].tree
        /\ job'.plan = <<>> /\ job'.agreed = {} /\ job'.files = {} /\ job'.off = 0
    BY <1>1 DEF EmptyJob, JobFields
  <1> QED
    BY <1>2 DEF Transfer, Key, Starts

\* Every other step leaves the task, the plan and the answers alone.
SameAnswers == job'.plan = job.plan /\ job'.agreed = job.agreed /\ job'.before = job.before
               /\ job'.side = job.side

LEMMA SamePlans ==
    ASSUME Steps, ~Plans, ~Decide, ~Transfer, ~Back PROVE SameAnswers
  BY DEF Steps, Browses, LogsIn, Lists, Between, StartsFile, MakesDir, Uploads, Downloads, Replaces,
         Waits, OpenFiles, Cleans, Stays, Leaves, Counts, Advances, SamePlan, SameAnswers

LEMMA MovingStep ==
    ASSUME FlowInv, Steps
    PROVE  StillMoving
  <1>0. JobShaped /\ Direction /\ AtFile /\ CallShaped
    BY StreamShapesCall DEF FlowInv, Moving
  <1>1. CASE Browses \/ LogsIn
    BY <1>0, <1>1 DEF Browses, LogsIn, StillMoving, JobShaped, Direction, AtFile, ListPcs, FilePcs, Copying
  <1>2. CASE Lists
    <2>1. (Upload' <=> Upload) /\ Todo' = Todo
      BY <1>2 DEF Lists, Upload, Todo
    <2> QED
      BY <1>0, <1>2, <2>1
         DEF Lists, NoList, StillMoving, JobShaped, Direction, AtFile, ListPcs, FilePcs, Copying
  <1>3. CASE Plans
    <2>1. (Upload' <=> Upload) /\ (UNCHANGED job => Todo' = Todo)
      BY <1>3 DEF Plans, SameTask, Upload, Todo
    <2>2. DOMAIN job' = JobFields
      BY <1>3 DEF Plans, SameTask
    <2> QED
      BY <1>3, <2>1, <2>2
         DEF Plans, StillMoving, JobShaped, Direction, AtFile, ListPcs, FilePcs, Copying
  <1>4. CASE Between
    <2>1. CASE Leaves
      BY <1>0, <1>4, <2>1, AdvanceMoves DEF Between, Leaves, Copying
    <2>2. CASE Upload /\ pc' = "dirstat" /\ UNCHANGED job
      BY <1>0, <1>4, <2>2
         DEF Between, Upload, StillMoving, JobShaped, Direction, AtFile, ListPcs, FilePcs, Copying
    <2>3. CASE StartsFile /\ ~Leaves
      <3>1. Stays /\ (Upload' <=> Upload) /\ It' = It /\ job'.at = job.at /\ job'.plan = job.plan
            /\ DOMAIN job' = JobFields
        BY <1>0, <2>3, SameJobStays DEF StartsFile, Cleans, Upload, It, Stays, SamePlan
      <3>2. job.at \in DOMAIN job.plan /\ ~It.dir /\ ~It.skip
        <4>1. PICK S : job.plan \in Seq(S)
          BY DEF FlowInv, Moving, PlanShaped, PlanOver
        <4>2. job.at \in Nat \ {0} /\ job.at <= Len(job.plan)
          BY <1>0, <1>4, <2>3 DEF Between, StartsFile, AtItem, AtFile, Copying
        <4> QED
          BY <4>1, <4>2, <2>3 DEF StartsFile
      <3>3. \/ Upload /\ pc' \in {"create", "cleanup"}
            \/ ~Upload /\ pc' = "open" /\ call'.req = Req("open", It.src)
        BY <2>3 DEF StartsFile, Cleans, Sent
      <3>4. Req("open", It.src)' = Req("open", It.src)
        BY <3>1 DEF Req
      <3>5. job.at \in Nat \ {0}
        BY <1>0, <1>4 DEF Between, AtFile, Copying
      <3> QED
        BY <3>1, <3>2, <3>3, <3>4, <3>5
           DEF StillMoving, JobShaped, Direction, AtFile, ListPcs, FilePcs, Copying
    <2> QED
      BY <1>4, <2>1, <2>2, <2>3 DEF Between
  <1>5. CASE MakesDir
    <2>1. CASE Leaves
      BY <1>0, <1>5, <2>1, AdvanceMoves DEF MakesDir, Leaves, Copying, FilePcs
    <2>2. CASE ~Leaves
      BY <1>0, <1>5, <2>2
         DEF MakesDir, Upload, StillMoving, JobShaped, Direction, AtFile, ListPcs, FilePcs, Copying
    <2> QED
      BY <2>1, <2>2
  <1>6. CASE Uploads
    <2>1. Upload /\ pc \in FilePcs
      BY <1>0, <1>6 DEF Uploads, Direction, FilePcs
    <2>2. CASE Cleans
      BY <1>0, <2>1, <2>2, CleansMoves
    <2>3. CASE ~Cleans
      <3>1. Stays /\ pc' \in {"write", "close", "closeCancelled"}
        BY <1>0, <1>6, <2>3, SameJobStays DEF Uploads
      <3> QED
        BY <1>0, <2>1, <3>1, StayMoves DEF FilePcs
    <2> QED
      BY <2>2, <2>3
  <1>7. CASE Downloads
    <2>1. pc \in FilePcs
      BY <1>7 DEF Downloads, FilePcs
    <2>2. CASE Cleans
      BY <1>0, <2>1, <2>2, CleansMoves
    <2>3. CASE ~Cleans
      <3>1. ~Upload /\ Stays /\ pc' \in {"read", "close", "closeCancelled"}
        BY <1>0, <1>7, <2>3, SameJobStays DEF Downloads, Direction
      <3> QED
        BY <1>0, <2>1, <3>1, StayMoves DEF FilePcs
    <2> QED
      BY <2>2, <2>3
  <1>8. CASE Replaces
    <2>1. pc \in FilePcs
      BY <1>8 DEF Replaces, FilePcs
    <2>2. CASE Cleans
      BY <1>0, <2>1, <2>2, CleansMoves
    <2>3. CASE Advances
      BY <1>0, <2>1, <2>3, AdvanceMoves DEF Copying
    <2>4. CASE ~Cleans /\ ~Advances
      <3>1. Upload /\ Stays /\ pc' \in {"remove", "rename"} /\ (pc' = "remove" => It.exists)
        BY <1>0, <1>8, <2>4, SameJobStays DEF Replaces, Direction, Counts, Leaves
      <3> QED
        BY <1>0, <2>1, <3>1, StayMoves DEF FilePcs
    <2> QED
      BY <2>2, <2>3, <2>4
  <1>9. CASE Waits
    <2>1. UNCHANGED <<pc, job, lister>> /\ call'.req = call.req
      BY <1>0, <1>9, WaitCall DEF Waits
    <2>2. (Upload' <=> Upload) /\ Todo' = Todo /\ It' = It
          /\ Req("open", It.src)' = Req("open", It.src)
      BY <2>1 DEF Upload, Todo, It, Req
    <2> QED
      BY <1>0, <2>1, <2>2 DEF StillMoving, JobShaped, Direction, AtFile
  <1>10. CASE OpenFiles
    BY <1>0, <1>10 DEF OpenFiles, StillMoving, JobShaped, Direction, AtFile, ListPcs, FilePcs, Copying
  <1>11. CASE Transfer \/ Back
    <2>1. pc' \in {"visit", "menu"} /\ DOMAIN job' = JobFields
      BY <1>11 DEF Transfer, Back, EmptyJob, JobFields
    <2> QED
      BY <2>1 DEF StillMoving, JobShaped, Direction, AtFile, ListPcs, FilePcs, Copying
  <1>12. CASE Decide
    <2>1. DOMAIN job' = JobFields /\ pc' \in {"ask", "finish"}
          /\ (pc' = "ask" => job'.at \in Nat \ {0})
      BY <1>0, <1>12, DecideTable DEF Decides, FlowInv, Moving, SamePlan
    <2> QED
      BY <2>1 DEF StillMoving, JobShaped, Direction, AtFile, ListPcs, FilePcs, Copying
  <1> QED
    BY <1>1, <1>2, <1>3, <1>4, <1>5, <1>6, <1>7, <1>8, <1>9, <1>10, <1>11, <1>12 DEF Steps

LEMMA PlanStep ==
    ASSUME FlowInv, Steps
    PROVE  PlanShaped'
  <1>1. PICK S : PlanOver(S)
    BY DEF FlowInv, Moving, PlanShaped
  <1>2. ASSUME job'.plan = job.plan PROVE PlanShaped'
    BY <1>1, <1>2 DEF PlanShaped, PlanOver
  <1>3. ASSUME NEW item, job'.plan = Append(job.plan, item), DOMAIN item = ItemFields
        PROVE  PlanShaped'
    <2>1. job'.plan \in Seq(S \cup {item})
      <3>1. job.plan \in Seq(S \cup {item})
        BY <1>1 DEF PlanOver
      <3> QED
        BY <3>1, <1>3
    <2>2. \A x \in S \cup {item} : DOMAIN x = ItemFields
      BY <1>1, <1>3 DEF PlanOver
    <2> QED
      BY <2>1, <2>2 DEF PlanShaped, PlanOver
  <1>4. CASE Plans
    <2>1. CASE Appends
      <3>1. PICK exists : job'.plan = Append(job.plan, Item(Todo, exists))
        BY <2>1 DEF Appends
      <3>2. DOMAIN Item(Todo, exists) = ItemFields
        BY DEF Item, ItemFields
      <3> QED
        BY <3>1, <3>2, <1>3
    <2> QED
      BY <1>2, <1>4, <2>1 DEF Plans
  <1>5. CASE Decide
    <2>1. Decides /\ JobShaped
      BY <1>5, DecideTable DEF FlowInv, Moving
    <2>2. ASSUME NEW i \in Later, job'.plan = [job.plan EXCEPT ![i].skip = TRUE]
          PROVE  PlanShaped'
      <3> DEFINE item == [job.plan[i] EXCEPT !.skip = TRUE]
      <3>1. i \in DOMAIN job.plan
        BY DEF Later
      <3>2. DOMAIN item = ItemFields
        BY <1>1, <3>1 DEF PlanOver, ItemFields
      <3>3. job'.plan = [job.plan EXCEPT ![i] = item]
        BY <2>2
      <3> HIDE DEF item
      <3>4. job'.plan \in Seq(S \cup {item})
        <4>1. job.plan \in Seq(S \cup {item})
          BY <1>1 DEF PlanOver
        <4> QED
          BY <4>1, <3>1, <3>3
      <3> QED
        BY <1>1, <3>2, <3>4 DEF PlanShaped, PlanOver
    <2> QED
      BY <1>2, <2>1, <2>2 DEF Decides, SamePlan
  <1>6. CASE Transfer \/ Back
    <2>1. job'.plan = <<>>
      BY <1>6, TransferTable DEF Starts, Back, EmptyJob
    <2>2. <<>> \in Seq({})
      OBVIOUS
    <2> QED
      BY <2>1, <2>2 DEF PlanShaped, PlanOver
  <1>7. CASE /\ ~Plans /\ ~Decide /\ ~Transfer /\ ~Back
    BY <1>2, <1>7, SamePlans DEF SameAnswers
  <1> QED
    BY <1>4, <1>5, <1>6, <1>7

---------------------------------------------------------------------------
\* Nothing that changes a file is on its way when the flow does not know of it.

LEMMA CalmKeepsQuiet == ASSUME Quiet, Calm PROVE Quiet'
  BY DEF Quiet, Calm, Asks, Sent, Mutating, Ops, client

LEMMA QuietStep ==
    ASSUME FlowInv, Steps
    PROVE  QuietWhen'
  <1>0. QuietWhen /\ Direction /\ Tells /\ CallShaped
    BY StreamShapesCall DEF FlowInv, Moving, Serving
  <1>1. call.st = "answered" => Quiet
    BY <1>0 DEF Tells, Quiet
  <1>2. UNCHANGED asked /\ Quiet => Quiet'
    BY DEF Quiet
  <1>3. CASE Browses
    BY <1>0, <1>3 DEF Browses, QuietWhen, Quiet, client, Copying, FilePcs, Upload
  <1>4. CASE LogsIn
    <2>1. Quiet
      BY <1>0, <1>4 DEF LogsIn, QuietWhen, Copying, FilePcs
    <2> QED
      BY <1>4, <2>1, CalmKeepsQuiet DEF LogsIn, QuietWhen
  <1>5. CASE Lists
    <2>1. CASE pc = "opendir"
      <3>1. CASE Quiet
        BY <1>2, <1>5, <2>1, <3>1, CalmKeepsQuiet DEF Lists, QuietWhen, client
      <3>2. CASE ~Quiet
        <4>1. lister.then = "browse" /\ call.st # "answered"
          BY <1>0, <1>1, <2>1, <3>2 DEF QuietWhen, Copying, FilePcs
        <4> QED
          BY <1>5, <2>1, <4>1 DEF Lists, QuietWhen, Returned
      <3> QED
        BY <3>1, <3>2
    <2>2. CASE pc # "opendir"
      BY <1>0, <1>2, <1>5, <2>2, CalmKeepsQuiet DEF Lists, QuietWhen, client, Copying, FilePcs
    <2> QED
      BY <2>1, <2>2
  <1>6. CASE Plans
    <2>1. Quiet
      BY <1>0, <1>6 DEF Plans, QuietWhen, Copying, FilePcs
    <2> QED
      BY <1>6, <2>1, CalmKeepsQuiet DEF Plans, QuietWhen
  <1>7. CASE Between \/ MakesDir \/ Uploads \/ Downloads \/ Replaces
    <2>1. pc \in Copying
      BY <1>7 DEF Between, MakesDir, Uploads, Downloads, Replaces, Copying, FilePcs
    <2>2. pc' \in Copying \cup {"finish"} /\ (Upload' <=> Upload)
      BY <1>7 DEF Between, StartsFile, MakesDir, Uploads, Downloads, Replaces, Cleans, Leaves, Counts,
                  Advances, Stays, SamePlan, Upload, Copying, FilePcs
    <2>3. CASE ~Upload
      <3>1. Quiet
        BY <1>0, <2>1, <2>3 DEF QuietWhen, Copying, FilePcs
      <3>2. UNCHANGED client \/ Calm
        <4>1. pc \notin {"dirstat", "mkdir", "cleanup", "create", "write", "remove", "rename"}
          BY <1>0, <2>3 DEF Direction
        <4>2. Sent(Req("open", It.src)) => Calm
          BY DEF Calm, Asks, Req, Ops
        <4> QED
          BY <1>7, <2>3, <4>1, <4>2
             DEF Between, StartsFile, MakesDir, Uploads, Downloads, Replaces, Cleans
      <3> QED
        BY <1>2, <3>1, <3>2, CalmKeepsQuiet DEF QuietWhen, client
    <2> QED
      BY <2>2, <2>3 DEF QuietWhen
  <1>8. CASE Waits
    <2>1. /\ asked' \subseteq asked /\ UNCHANGED <<pc, job, lister>>
          /\ (link = "closed" => link' = "closed") /\ (Upload' <=> Upload)
      BY <1>8 DEF Waits, Upload
    <2> QED
      BY <1>0, <2>1 DEF QuietWhen, Quiet
  <1>9. CASE OpenFiles
    BY <1>9 DEF OpenFiles, Open, QuietWhen, Quiet
  <1>10. CASE Transfer
    BY <1>0, <1>10, TransferTable DEF Starts, QuietWhen, Quiet, client, Copying, FilePcs
  <1>11. CASE Back
    BY <1>11 DEF Back, Drop, client, QuietWhen
  <1>12. CASE Decide
    <2>1. Quiet /\ UNCHANGED asked
      BY <1>0, <1>12 DEF Decide, QuietWhen, Copying, FilePcs, client
    <2> QED
      BY <1>2, <2>1 DEF QuietWhen
  <1> QED
    BY <1>3, <1>4, <1>5, <1>6, <1>7, <1>8, <1>9, <1>10, <1>11, <1>12 DEF Steps

---------------------------------------------------------------------------
\* What the plan was made on, what the user was asked, and what is removed.

LEMMA QuietServer ==
    ASSUME FlowInv, Waits, Quiet PROVE \A s \in Sides : disk'[s] = disk[s]
  <1>1. CASE ServerStep
    <2>0. PICK e \in asked : \E effect : ServedWith(e, effect)
      BY <1>1, ServerFacts DEF FlowInv, Serving
    <2>1. PICK effect :
            /\ FineReq(e.req) /\ \A f \in asked : e.no <= f.no
            /\ \/ effect.disk = disk["remote"] /\ effect.code = "status" /\ effect.entries = {}
               \/ effect = Effect(disk["remote"], e.req)
            /\ Serve(e, [code |-> effect.code, entries |-> effect.entries])
            /\ disk'["remote"] = effect.disk /\ disk'["local"] = disk["local"]
            /\ DOMAIN disk' = Sides
      BY <2>0 DEF ServedWith
    <2>2. effect.disk = disk["remote"]
      BY <2>1, EffectGood DEF Quiet, FlowInv, Serving, FineDisk, Sides
    <2> QED
      BY <2>1, <2>2 DEF Sides
  <1> QED
    BY <1>1 DEF Waits

LEMMA KnownStep ==
    ASSUME FlowInv, Steps
    PROVE  BeforeKnown'
  <1>0. BeforeKnown /\ FineDisk
    BY DEF FlowInv, Deciding, Serving
  <1>1. CASE Waits
    <2>1. Walking => Quiet
      BY DEF FlowInv, Serving, QuietWhen, Walking, Copying, FilePcs, ListPcs
    <2>2. Walking => \A s \in Sides : disk'[s] = disk[s]
      BY <1>1, <2>1, QuietServer
    <2> QED
      BY <1>0, <1>1, <2>2 DEF Waits, BeforeKnown, Walking, DestTree, Dest, Other, Sides
  <1>2. CASE Transfer
    <2>1. /\ pc' = "visit" /\ disk' = disk
          /\ job'.side = focus /\ job'.before = disk[Other(focus)].tree
      BY <1>2, TransferTable DEF Starts
    <2>2. Other(focus) \in Sides
      BY DEF Other, Sides
    <2> QED
      BY <1>0, <2>1, <2>2 DEF BeforeKnown, Walking, DestTree, Dest, FineDisk, GoodSide
  <1>3. CASE Back
    <2>1. job'.before = <<>> /\ pc' = "menu"
      BY <1>3 DEF Back, EmptyJob
    <2> QED
      BY <2>1 DEF BeforeKnown, GoodTree, Walking, ListPcs
  <1>4. CASE Browses \/ LogsIn \/ Between \/ MakesDir \/ Uploads \/ Downloads \/ Replaces \/ OpenFiles
    <2>1. ~Walking' /\ job'.before = job.before
      BY <1>4 DEF Browses, LogsIn, Between, StartsFile, MakesDir, Uploads, Downloads, Replaces, Cleans,
                  Leaves, Counts, Advances, Stays, SamePlan, OpenFiles, Walking, ListPcs
    <2> QED
      BY <1>0, <2>1 DEF BeforeKnown
  <1>5. CASE Lists \/ Plans \/ Decide
    <2>1. /\ UNCHANGED disk /\ job'.before = job.before /\ job'.side = job.side
          /\ Walking' => Walking
      <3>1. CASE Lists
        BY <3>1 DEF Lists, Walking, ListPcs
      <3>2. CASE Plans
        BY <3>2 DEF Plans, SameTask, Walking, ListPcs
      <3>3. CASE Decide
        BY <3>3, DecideTable DEF Decides, SamePlan, Walking, FlowInv, Moving
      <3> QED
        BY <1>5, <3>1, <3>2, <3>3
    <2> QED
      BY <1>0, <2>1 DEF BeforeKnown, DestTree, Dest
  <1> QED
    BY <1>1, <1>2, <1>3, <1>4, <1>5 DEF Steps

LEMMA NewStep ==
    ASSUME FlowInv, Steps
    PROVE  NewHere'
  <1>0. NewHere /\ BeforeKnown /\ Direction
    BY DEF FlowInv, Deciding, Moving
  <1>1. PICK S : PlanOver(S)
    BY DEF FlowInv, Moving, PlanShaped
  <1>2. CASE Plans /\ Appends
    <2>1. PICK exists : /\ job'.plan = Append(job.plan, Item(Todo, exists))
                        /\ \/ Todo.kind \in {"dir", "link"} \/ pc \in {"listed", "exists"}
                           \/ exists = ThereLocally
      BY <1>2 DEF Appends
    <2> DEFINE item == Item(Todo, exists)
    <2>2. item.dst = Todo.dst /\ (item.dir <=> Todo.kind = "dir") /\ (item.skip <=> Todo.kind = "link")
          /\ item.exists = exists
      BY DEF Item
    <2>3. ~Upload /\ ~item.exists /\ ~item.dir /\ ~item.skip => Free(item.dst)
      <3> SUFFICES ASSUME ~Upload, ~item.exists, ~item.dir, ~item.skip PROVE Free(item.dst)
        OBVIOUS
      <3>1. pc # "exists" /\ Walking
        BY <1>0, <1>2 DEF Direction, Plans, Walking, ListPcs
      <3>2. pc # "listed"
        <4>1. pc = "listed" => Todo.kind = "dir"
          BY <1>0, <1>2 DEF Direction, Plans, ListPcs
        <4> QED
          BY <4>1, <2>2
      <3>3. At(disk["local"].tree, Todo.dst) \in {"none", "link"}
        BY <2>1, <2>2, <3>1, <3>2 DEF ThereLocally
      <3>4. job.before = disk["local"].tree
        BY <1>0, <3>1 DEF BeforeKnown, DestTree, Dest, Other, Upload
      <3> QED
        BY <1>0, <2>2, <3>3, <3>4, NotNone DEF Free, At, BeforeKnown, GoodTree
    <2>4. /\ DOMAIN job'.plan = 1..(Len(job.plan) + 1) /\ DOMAIN job.plan = 1..Len(job.plan)
          /\ Len(job.plan) \in Nat
          /\ \A i \in DOMAIN job.plan : job'.plan[i] = job.plan[i]
          /\ job'.plan[Len(job.plan) + 1] = item
      <3>1. job.plan \in Seq(S \cup {item})
        BY <1>1 DEF PlanOver
      <3> HIDE DEF item
      <3>2. job'.plan = Append(job.plan, item)
        BY <2>1 DEF item
      <3> QED
        BY <3>1, <3>2
    <2>5. job'.before = job.before /\ (Upload' <=> Upload)
      BY <1>2 DEF Plans, SameTask, Upload
    <2> HIDE DEF item
    <2>6. ASSUME ~Upload', NEW i \in DOMAIN job'.plan, Fresh(i)'
          PROVE  Free(job.plan[i].dst)'
      <3>1. CASE i \in DOMAIN job.plan
        BY <1>0, <2>4, <2>5, <2>6, <3>1 DEF NewHere, Fresh, Free
      <3>2. CASE i = Len(job.plan) + 1
        BY <2>3, <2>4, <2>5, <2>6, <3>2 DEF Fresh, Free
      <3> QED
        BY <2>4, <3>1, <3>2
    <2> QED
      BY <2>6 DEF NewHere
  <1>3. CASE Decide
    <2>1. Decides
      BY <1>3, DecideTable DEF FlowInv, Moving
    <2>2. /\ job'.before = job.before /\ (Upload' <=> Upload)
      BY <2>1 DEF Decides, SamePlan, Upload
    <2>3. \/ job'.plan = job.plan
          \/ \E i \in Later : job'.plan = [job.plan EXCEPT ![i].skip = TRUE]
      BY <2>1 DEF Decides, SamePlan
    <2>4. ASSUME NEW i \in Later, job'.plan = [job.plan EXCEPT ![i].skip = TRUE]
          PROVE  /\ DOMAIN job'.plan = DOMAIN job.plan
                 /\ \A j \in DOMAIN job.plan :
                       Fresh(j)' => Fresh(j) /\ job'.plan[j].dst = job.plan[j].dst
      <3>1. \A j \in DOMAIN job.plan : DOMAIN job.plan[j] = ItemFields
        BY <1>1 DEF PlanOver
      <3>2. i \in DOMAIN job.plan
        BY DEF Later
      <3> QED
        BY <2>4, <3>1, <3>2 DEF Fresh, ItemFields
    <2> QED
      BY <1>0, <2>2, <2>3, <2>4 DEF NewHere, Fresh, Free
  <1>4. CASE Transfer \/ Back
    <2>1. job'.plan = <<>>
      BY <1>4, TransferTable DEF Starts, Back, EmptyJob
    <2> QED
      BY <2>1 DEF NewHere
  <1>5. CASE job'.plan = job.plan /\ job'.before = job.before /\ job'.side = job.side
    BY <1>0, <1>5 DEF NewHere, Fresh, Free, Upload
  <1> QED
    BY <1>2, <1>3, <1>4, <1>5, SamePlans DEF SameAnswers, Plans, SameTask

LEMMA AgreedStep ==
    ASSUME FlowInv, Steps
    PROVE  AskedAbout'
  <1>0. AskedAbout /\ AtFile
    BY DEF FlowInv, Deciding, Moving
  <1>1. PICK S : PlanOver(S)
    BY DEF FlowInv, Moving, PlanShaped
  <1>2. DOMAIN job.plan \subseteq Nat \ {0}
    BY <1>1 DEF PlanOver
  <1> USE DEF FilePcs, Copying
  <1>3. CASE Plans
    <2>1. CASE pc' = "ask"
      <3>1. job'.plan = job.plan /\ job'.at = 1
        BY <1>3, <2>1 DEF Plans
      <3> QED
        BY <1>2, <2>1, <3>1 DEF AskedAbout, Agreed
    <2>2. CASE pc' = "item"
      <3>1. pc = "ask" /\ Later = {} /\ job'.plan = job.plan /\ job'.agreed = job.agreed
        BY <1>3, <2>2 DEF Plans, SameTask
      <3>2. AllAgreed
        BY <1>0, <1>2, <3>1 DEF AskedAbout, AtFile, Agreed, AllAgreed, Later
      <3> QED
        BY <2>2, <3>1, <3>2 DEF AskedAbout, AllAgreed, Conflict
    <2> QED
      BY <1>3, <2>1, <2>2 DEF Plans, AskedAbout
  <1>4. CASE Decide
    <2>1. Decides
      BY <1>4, DecideTable DEF FlowInv, Moving
    <2>2. CASE pc' = "finish"
      BY <2>2 DEF AskedAbout
    <2>3. CASE pc' # "finish"
      <3>1. PICK i \in Later :
                /\ \A k \in Later : i <= k
                /\ i \in Nat \ {0} /\ job'.at = i + 1 /\ pc' = "ask" /\ pc = "ask"
                /\ \/ job'.plan = [job.plan EXCEPT ![i].skip = TRUE] /\ job'.agreed = job.agreed
                   \/ job'.plan = job.plan /\ job'.agreed = job.agreed \cup {job.plan[i].dst}
        BY <2>1, <2>3 DEF Decides
      <3>2. i \in DOMAIN job.plan /\ \A j \in DOMAIN job.plan : DOMAIN job.plan[j] = ItemFields
        BY <1>1 DEF Later, PlanOver
      <3>3. /\ DOMAIN job'.plan = DOMAIN job.plan
            /\ \A j \in DOMAIN job.plan : /\ job'.plan[j].dst = job.plan[j].dst
                                          /\ Conflict(j)' => Conflict(j)
        BY <3>1, <3>2 DEF Conflict, ItemFields
      <3>4. Conflict(i)' => job'.plan[i].dst \in job'.agreed
        BY <3>1, <3>2, <3>3 DEF Conflict, ItemFields
      <3>5. ASSUME NEW j \in DOMAIN job.plan, j < i, Conflict(j)
            PROVE  job.plan[j].dst \in job.agreed
        <4>1. j < job.at
          BY <1>0, <1>2, <3>1, <3>5 DEF Later, AtFile
        <4> QED
          BY <1>0, <3>1, <3>5, <4>1 DEF AskedAbout, Agreed
      <3>6. job.agreed \subseteq job'.agreed
        BY <3>1
      <3>7. ASSUME NEW j \in DOMAIN job'.plan, j < i + 1, Conflict(j)'
            PROVE  job'.plan[j].dst \in job'.agreed
        BY <1>2, <3>1, <3>3, <3>4, <3>5, <3>6, <3>7
      <3> QED
        BY <3>1, <3>7 DEF AskedAbout, Agreed
    <2> QED
      BY <2>2, <2>3
  <1>5. CASE Transfer \/ Back
    BY <1>5, TransferTable DEF Starts, Back, AskedAbout
  <1>6. CASE ~Plans /\ ~Decide /\ ~Transfer /\ ~Back
    <2>1. SameAnswers
      BY <1>6, SamePlans
    <2>2. pc' \in Copying => pc \in Copying
      BY <1>6 DEF Steps, Browses, LogsIn, Lists, Between, StartsFile, MakesDir, Uploads, Downloads,
                  Replaces, Waits, OpenFiles, Cleans
    <2>3. pc' # "ask" \/ (pc = "ask" /\ UNCHANGED job)
      BY <1>6 DEF Steps, Browses, LogsIn, Lists, Between, StartsFile, MakesDir, Uploads, Downloads,
                  Replaces, Waits, OpenFiles, Cleans, Leaves, Counts, Advances
    <2> QED
      BY <1>0, <2>1, <2>2, <2>3 DEF AskedAbout, Agreed, AllAgreed, Conflict, SameAnswers
  <1> QED
    BY <1>3, <1>4, <1>5, <1>6

LEMMA ItemAgreed ==
    ASSUME FlowInv, pc \in FilePcs, It.exists
    PROVE  It.dst \in job.agreed
  BY DEF FlowInv, Moving, AtFile, Deciding, AskedAbout, AllAgreed, Conflict, It, Copying

LEMMA RemovesStep ==
    ASSUME FlowInv, Steps
    PROVE  RemovesAgreed'
  <1>0. RemovesAgreed /\ CallShaped
    BY StreamShapesCall DEF FlowInv, Deciding
  <1>1. ASSUME asked' \subseteq asked \/ Calm, job'.agreed = job.agreed, job'.before = job.before,
               job'.side = job.side
        PROVE  RemovesAgreed'
    <2>1. \A e \in asked' : e \in asked \/ e.req.op # "remove"
      BY <1>1 DEF Calm, Asks, Sent, Ops, client
    <2> QED
      BY <1>0, <1>1, <2>1 DEF RemovesAgreed, Upload
  <1>2. CASE Plans
    BY <1>1, <1>2 DEF Plans, SameTask
  <1>3. CASE Decide
    <2>1. Decides
      BY <1>3, DecideTable DEF FlowInv, Moving
    <2>2. /\ asked' = asked /\ job'.before = job.before /\ job'.side = job.side
          /\ job.agreed \subseteq job'.agreed
      BY <2>1 DEF Decides, SamePlan, client
    <2> QED
      BY <1>0, <2>2 DEF RemovesAgreed, Upload
  <1>4. CASE Transfer
    <2>1. Starts
      BY <1>4, TransferTable
    <2>2. Quiet /\ asked' = asked
      BY <2>1 DEF Starts, FlowInv, Serving, QuietWhen, Copying, FilePcs, client
    <2> QED
      BY <2>2 DEF RemovesAgreed, Quiet, Mutating
  <1>5. CASE Back
    <2>1. job'.before = <<>>
      BY <1>5 DEF Back, EmptyJob
    <2> QED
      BY <2>1 DEF RemovesAgreed
  <1>6. CASE Replaces /\ pc' = "remove"
    <2>1. It.exists /\ Sent(Req("remove", It.dst)) /\ UNCHANGED job /\ pc \in FilePcs
      BY <1>6 DEF Replaces, Cleans, Leaves, Counts, Advances, FilePcs
    <2>2. It.dst \in job.agreed
      BY <2>1, ItemAgreed
    <2>3. \A e \in asked' : e \in asked \/ e.req = Req("remove", It.dst)
      BY <2>1 DEF Sent
    <2>4. Req("remove", It.dst).path = It.dst
      BY DEF Req
    <2> QED
      BY <1>0, <2>1, <2>2, <2>3, <2>4 DEF RemovesAgreed, Upload
  <1>7. CASE /\ ~Plans /\ ~Decide /\ ~Transfer /\ ~Back
             /\ ~(Replaces /\ pc' = "remove")
    <2>1. SameAnswers
      BY <1>7, SamePlans
    <2>2. \A e \in asked' : e \in asked \/ e.req.op # "remove"
      <3>1. \A path, ver, off : /\ Req("discard", path).op = "discard" /\ Req("open", path).op = "open"
                              /\ Req("mkdir", path).op = "mkdir" /\ Req("close", path).op = "close"
                              /\ Req("rename", path).op = "rename"
                              /\ CreateReq(path, ver).op = "create"
                              /\ DataReq("write", path, off).op = "write"
        BY DEF Req, CreateReq, DataReq
      <3>2. Calm => \A e \in asked' : e \in asked \/ e.req.op # "remove"
        BY DEF Calm, Asks, Sent, Ops, client
      <3>3. CASE Browses \/ LogsIn \/ Lists
        BY <3>2, <3>3 DEF Browses, LogsIn, Lists, client
      <3>4. CASE Between \/ MakesDir \/ Uploads
        BY <3>1, <3>2, <3>4 DEF Between, StartsFile, MakesDir, Uploads, Cleans, Sent, client
      <3>5. CASE Downloads \/ Replaces
        BY <1>7, <3>1, <3>2, <3>5 DEF Downloads, Replaces, Cleans, Sent, client
      <3>6. CASE Waits \/ OpenFiles
        BY <3>6 DEF Waits, OpenFiles, Open
      <3> QED
        BY <1>7, <3>3, <3>4, <3>5, <3>6 DEF Steps
    <2> QED
      BY <1>0, <2>1, <2>2 DEF RemovesAgreed, SameAnswers, Upload
  <1> QED
    BY <1>2, <1>3, <1>4, <1>5, <1>6, <1>7

LEMMA ReplacingStep ==
    ASSUME FlowInv, Steps
    PROVE  AskedBeforeReplacing'
  <1>0. /\ AskedBeforeReplacing /\ FineDisk /\ BeforeKnown
        /\ \A q \in DOMAIN job.before : job.before[q] # "none"
    BY NotNone DEF FlowInv, Serving, Deciding, BeforeKnown, GoodTree
  <1>1. ASSUME job'.before = job.before, job'.side = job.side, job.agreed \subseteq job'.agreed,
               \A q \in DOMAIN job.before :
                  \/ At(disk'[Dest].tree, q) = At(DestTree, q) \/ At(DestTree, q) = "none"
                  \/ q \in job.agreed \/ job.before[q] = "link"
        PROVE  AskedBeforeReplacing'
    BY <1>0, <1>1 DEF AskedBeforeReplacing, DestTree, Dest
  <1>2. CASE Transfer
    <2>1. /\ job'.before = disk[Other(focus)].tree /\ job'.side = focus /\ disk' = disk
      BY <1>2, TransferTable DEF Starts
    <2>2. Other(focus) \in Sides
      BY DEF Other, Sides
    <2> QED
      BY <1>0, <2>1, <2>2 DEF AskedBeforeReplacing, DestTree, Dest, At, FineDisk, GoodSide, GoodTree
  <1>3. CASE Back
    <2>1. job'.before = <<>>
      BY <1>3 DEF Back, EmptyJob
    <2> QED
      BY <2>1 DEF AskedBeforeReplacing
  <1>4. CASE Plans \/ Decide
    <2>1. UNCHANGED disk /\ job'.before = job.before /\ job'.side = job.side /\ job.agreed \subseteq job'.agreed
      <3>1. Decide => Decides
        BY DecideTable DEF FlowInv, Moving
      <3> QED
        BY <1>4, <3>1 DEF Plans, SameTask, Decides, SamePlan
    <2> QED
      BY <1>1, <2>1 DEF DestTree
  <1>5. CASE Waits
    <2>1. UNCHANGED job
      BY <1>5 DEF Waits
    <2>2. CASE ServerStep
      <3>0. PICK e \in asked : \E effect : ServedWith(e, effect)
        BY <2>2, ServerFacts DEF FlowInv, Serving
      <3>1. PICK effect :
              /\ FineReq(e.req) /\ \A f \in asked : e.no <= f.no
              /\ \/ effect.disk = disk["remote"] /\ effect.code = "status" /\ effect.entries = {}
                 \/ effect = Effect(disk["remote"], e.req)
              /\ Serve(e, [code |-> effect.code, entries |-> effect.entries])
              /\ disk'["remote"] = effect.disk /\ disk'["local"] = disk["local"]
              /\ DOMAIN disk' = Sides
        BY <3>0 DEF ServedWith
      <3>2. \/ Grows(disk["remote"].tree, effect.disk.tree)
            \/ e.req.op = "remove" /\ GrowsBeside(disk["remote"].tree, effect.disk.tree, e.req.path)
        <4>1. GoodSide(disk["remote"])
          BY <1>0 DEF FineDisk, Sides
        <4>2. CASE effect.disk = disk["remote"]
          BY <4>2 DEF Grows
        <4>3. CASE effect = Effect(disk["remote"], e.req)
          BY <3>1, <4>1, <4>3, EffectGood
        <4> QED
          BY <3>1, <4>2, <4>3
      <3>3. CASE Upload
        <4>1. Dest = "remote"
          BY <3>3 DEF Dest, Other, Upload
        <4>2. e.req.op = "remove" /\ e.req.path \in DOMAIN job.before => e.req.path \in job.agreed
          BY <3>3 DEF FlowInv, Deciding, RemovesAgreed
        <4> QED
          BY <1>1, <2>1, <3>1, <3>2, <4>1, <4>2 DEF Grows, GrowsBeside, DestTree
      <3>4. CASE ~Upload
        <4>1. Dest = "local"
          BY <3>4 DEF Dest, Other, Upload
        <4> QED
          BY <1>1, <2>1, <3>1, <4>1 DEF DestTree
      <3> QED
        BY <3>3, <3>4
    <2>3. CASE UNCHANGED disk
      BY <1>1, <2>1, <2>3 DEF DestTree
    <2> QED
      BY <1>5, <2>2, <2>3 DEF Waits
  <1>6. CASE ~Waits /\ ~Plans /\ ~Decide /\ ~Transfer /\ ~Back
    <2>1. SameAnswers
      BY <1>6, SamePlans
    <2>2. LocalStep
      BY <1>6, LocalSteps
    <2>3. CASE UNCHANGED disk
      BY <1>1, <2>1, <2>3 DEF DestTree, SameAnswers
    <2>4. CASE ~UNCHANGED disk
      <3>1. Dest = "local" /\ ~Upload
        BY <2>2, <2>4 DEF LocalStep, Dest, Other, Upload
      <3>2. \/ Grows(disk["local"].tree, disk'["local"].tree)
            \/ pc = "close" /\ GrowsBeside(disk["local"].tree, disk'["local"].tree, It.dst)
        BY <2>2, <2>4 DEF LocalStep
      <3>3. pc = "close" => It.dst \in job.agreed \/ Free(It.dst)
        <4>1. pc = "close" => It.exists \/ (job.at \in DOMAIN job.plan /\ Fresh(job.at))
          BY DEF FlowInv, Moving, AtFile, Fresh, It, FilePcs
        <4> QED
          BY <3>1, <4>1, ItemAgreed DEF FlowInv, Deciding, NewHere, It, FilePcs
      <3> QED
        BY <1>1, <2>1, <3>1, <3>2, <3>3 DEF Grows, GrowsBeside, DestTree, Free, SameAnswers
    <2> QED
      BY <2>3, <2>4
  <1> QED
    BY <1>2, <1>3, <1>4, <1>5, <1>6

LEMMA FlowStays == FlowInv /\ [Next]_vars => FlowInv'
  <1> SUFFICES ASSUME FlowInv, [Next]_vars PROVE FlowInv'
    OBVIOUS
  <1>1. StreamInv'
    BY StreamStep DEF FlowInv
  <1>2. Steps
    BY StepTable, StreamShapesCall DEF FlowInv, Moving, StreamInv, Shaped
  <1>3. Moving'
    BY <1>2, MovingStep, PlanStep DEF StillMoving, Moving
  <1>4. Serving'
    BY <1>1, <1>2, ServingStep, QuietStep DEF Serving
  <1>5. Deciding'
    BY <1>2, KnownStep, NewStep, AgreedStep, RemovesStep DEF Deciding
  <1>6. AskedBeforeReplacing'
    BY <1>2, ReplacingStep
  <1> QED
    BY <1>1, <1>3, <1>4, <1>5, <1>6 DEF FlowInv

LEMMA FlowHolds == Spec => []FlowInv
  BY FlowInitially, FlowStays, PTL DEF Spec

\* AskedBeforeReplacing: what was there before a transfer is only removed or
\* replaced when the user said so.  The plan is made on the destination as it
\* was (nothing that changes it is on its way), each file it finds there is
\* asked about before the first item, only such a file is removed or renamed
\* over, and the server removes nothing else, however late a request is served.
THEOREM ReplacingIsAgreed == Spec => []AskedBeforeReplacing
  <1>1. FlowInv => AskedBeforeReplacing
    BY DEF FlowInv
  <1> QED
    BY <1>1, FlowHolds, PTL
=============================================================================
