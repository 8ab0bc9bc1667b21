----------------------------- MODULE SftpClient -----------------------------
(***************************************************************************)
(* The request / reply discipline of SftpClient (src/ssh/sftp/client.rs).  *)
(* One request is in flight at a time and a reply is matched by its id     *)
(* only.  A request may run into its time limit while its reply is still   *)
(* to come; the stream then stays in use until the caller drops the        *)
(* session, and every reply after it is one request late.                  *)
(*                                                                         *)
(* Requests are numbered by the ghost counter `sent`, so that a reply can  *)
(* be told from the reply to another request that bore the same id.        *)
(***************************************************************************)
EXTENDS Naturals, Sequences, Functions

CONSTANTS
    MaxId,       \* ids run from 1 to MaxId and start again (2^32 - 1 in the code)
    Requests,
    Replies

ASSUME IdAssumption == MaxId \in Nat \ {0}

VARIABLES
    nextId,   \* SftpClient.next_id
    sent,     \* ghost: requests begun since the session was opened
    asked,    \* requests the server has not answered: a set of [no, id, req]
    wire,     \* replies not read yet, in their order: [no, id, ans]
    link,     \* "up", "torn" (cut inside a reply), "down", "closed" (no session)
    call      \* what the flow awaits or got: [st, id, no, req, ans, got]

client == <<nextId, sent, asked, wire, link, call>>

Links == {"up", "torn", "down", "closed"}

\* No call yet, awaiting the reply, answered, or failed with an error of the
\* protocol or of the connection.
CallStates == {"none", "waiting", "answered", "fatal"}

ClientTypeOK ==
    /\ nextId \in 1..MaxId /\ sent \in Nat
    /\ asked \subseteq [no : Nat, id : 1..MaxId, req : Requests]
    /\ wire \in Seq([no : Nat, id : 1..MaxId, ans : Replies])
    /\ link \in Links
    /\ call \in [st : CallStates, id : 0..MaxId, no : Nat, req : Requests,
                 ans : Replies, got : Nat]

ClientInit ==
    /\ nextId = 1 /\ sent = 0
    /\ asked = {} /\ wire = <<>>
    /\ link = "closed"
    /\ call \in [st : {"none"}, id : {0}, no : {0}, req : Requests, ans : Replies,
                 got : {0}]

\* A new channel; init exchanges the versions before the first request.  What
\* the session before it still had on the way is over by then.
Open ==
    /\ link = "closed" /\ asked = {}
    /\ nextId' = 1 /\ sent' = 0 /\ wire' = <<>>
    /\ link' = "up"
    /\ call' = [call EXCEPT !.st = "none", !.id = 0, !.no = 0, !.got = 0]
    /\ UNCHANGED asked

NoWrap == nextId + 1                     \* mutant: ids do not start again
NextId == IF nextId = MaxId THEN 1 ELSE nextId + 1

\* Nothing on the way is older than a full turn of the ids.
RoomForId == link = "up" => \A e \in asked \cup Range(wire) : sent + 1 < e.no + MaxId

\* The packet is written; on a dead connection the call only fails later.
Issue(req) ==
    /\ link # "closed" /\ call.st # "waiting"
    /\ RoomForId
    /\ nextId' = NextId
    /\ sent' = sent + 1
    /\ call' = [call EXCEPT !.st = "waiting", !.id = nextId, !.no = sent', !.req = req]
    /\ asked' = IF link = "down" THEN asked
                ELSE asked \cup {[no |-> sent', id |-> nextId, req |-> req]}
    /\ UNCHANGED <<wire, link>>

\* The server carries out a request, late ones included, in any order.
Serve(e, ans) ==
    /\ e \in asked
    /\ asked' = asked \ {e}
    /\ wire' = IF link = "up" THEN Append(wire, [no |-> e.no, id |-> e.id, ans |-> ans])
               ELSE wire
    /\ UNCHANGED <<nextId, sent, link, call>>

Fail == call' = [call EXCEPT !.st = "fatal"]

AnyId(e) == TRUE                         \* mutant: the id of a reply is not compared
Matches(e) == e.id = call.id

\* The next reply is read whole.  One with another id is a hard error.
Receive ==
    /\ call.st = "waiting" /\ link = "up" /\ wire # <<>>
    /\ wire' = Tail(wire)
    /\ IF Matches(Head(wire))
         THEN call' = [call EXCEPT !.st = "answered", !.ans = Head(wire).ans,
                                   !.got = Head(wire).no]
         ELSE Fail
    /\ UNCHANGED <<nextId, sent, asked, link>>

\* The time limit: the reply may still come, or was cut in the middle, and
\* then what follows no longer starts with a length.
TimeOut ==
    /\ call.st = "waiting" /\ link = "up"
    /\ Fail
    /\ \/ UNCHANGED <<wire, link>>
       \/ wire # <<>> /\ wire' = <<>> /\ link' = "torn"
    /\ UNCHANGED <<nextId, sent, asked>>

\* Four bytes from inside a reply are no possible length.
ReadTorn ==
    /\ call.st = "waiting" /\ link = "torn"
    /\ Fail
    /\ UNCHANGED <<nextId, sent, asked, wire, link>>

\* The connection is lost: the server may have read the request or not.
Lose ==
    /\ link \in {"up", "torn"}
    /\ link' = "down" /\ wire' = <<>>
    /\ UNCHANGED <<nextId, sent, asked, call>>

ReadClosed ==
    /\ call.st = "waiting" /\ link = "down"
    /\ Fail
    /\ UNCHANGED <<nextId, sent, asked, wire, link>>

\* The caller drops the session between two calls.
Drop ==
    /\ link # "closed" /\ call.st # "waiting"
    /\ link' = "closed" /\ wire' = <<>>
    /\ call' = [call EXCEPT !.st = "none", !.id = 0, !.no = 0, !.got = 0]
    /\ UNCHANGED <<nextId, sent, asked>>

\* A request of a dropped session is never read by the server.
Abandon ==
    /\ link \in {"down", "closed"} /\ asked # {}
    /\ asked' = {}
    /\ UNCHANGED <<nextId, sent, wire, link, call>>

ClientNext ==
    \/ Open \/ Receive \/ TimeOut \/ ReadTorn \/ Lose \/ ReadClosed \/ Drop \/ Abandon
    \/ \E req \in Requests : Issue(req)
    \/ \E e \in asked, ans \in Replies : Serve(e, ans)

ClientSpec == ClientInit /\ [][ClientNext]_client

\* A call that is answered got the reply to its own request, whatever came
\* late, early or after the ids started again: SftpClient::request compares
\* nothing but the id.
OwnReply == call.st = "answered" => call.got = call.no
=============================================================================
