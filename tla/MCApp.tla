-------------------------------- MODULE MCApp --------------------------------
EXTENDS App, MCScreens

Names == <<"a", "b", "c", "h1", "h2", "h3">>

Server(id, name, jump) == [NewServer(id, name, "h" \o ToString(id), "22", "me") EXCEPT !.jump = jump]
Rule(id, kind, on) == [NewRule(id, kind) EXCEPT !.enabled = on]
Auto(id, steps) == NewScript(id, [auto |-> TRUE, steps |-> steps])

\* "b" jumps through "a", which was connected to before and has a key on record.
Through == [Server(1, "b", 2) EXCEPT !.last = 1, !.scripts = <<Auto(8, <<"failure", "success">>)>>,
                                    !.forwards = <<Rule(6, "socks", TRUE), Rule(7, "remote", TRUE)>>]
Bastion == [Server(2, "a", 0) EXCEPT !.tag = "c", !.pin = <<"h2", 0>>,
                                    !.forwards = <<Rule(5, "remote", TRUE)>>]
Chain == [NoConfig EXCEPT !.servers = <<Through, Bastion>>, !.sort = "last"]

MCConfigs == {NoConfig, Chain}
MCDrafts == {[name |-> "c", host |-> "h1", port |-> "22", user |-> "me", tag |-> None]}
MCScripts == {[auto |-> FALSE, steps |-> <<"always">>]}
MCKinds == {"socks"}
MCFilters == {"h1"}
Host(alias) == [kw |-> "host", val |-> alias]
MCFiles == {<<Host("h1"), Host("h3"), [kw |-> "port", val |-> "23"]>>}

---------------------------------------------------------------------------
(***************************************************************************)
(* ssh_config.rs read line by line gives what the file says read as a      *)
(* whole: every text of up to four of these lines.                         *)
(***************************************************************************)
Line(kw, val) == [kw |-> kw, val |-> val]
Lines == {Host("h1"), Host("*"), Host("glob"), Line("match", "all"), Line("hostname", "h2"),
          Line("user", "u1"), Line("port", "23"), Line("port", "bad"), Line("identityfile", "k1")}

ASSUME EveryTextIsRead == \A n \in 0..4 : \A file \in [1..n -> Lines] : ParsesTo(file)

(***************************************************************************)
(* jump_candidates offers exactly the servers that close no loop: every    *)
(* vault of three servers without a loop, dangling jumps included.         *)
(***************************************************************************)
Vaults == {[i \in 1..3 |-> Server(i, "a", jumps[i])] : jumps \in [1..3 -> {0, 1, 2, 3, 9}]}
Looped(servers) == \E id \in IdsOf(servers) : Reaches(servers, id, id)

ASSUME CandidatesCloseNoLoop ==
    \A servers \in {v \in Vaults : ~Looped(v)} : \A subject, other \in 1..3 :
        Contains(JumpCandidates(servers, subject), other) <=>
            ~Looped(Update(servers, subject, LAMBDA s : [s EXCEPT !.jump = other]))

(***************************************************************************)
(* What JumpsAreSound asks of the vaults to start from holds of these: a   *)
(* jump names a server that is there, and the way along the jumps ends.    *)
(***************************************************************************)
ASSUME StartingJumpsEnd ==
    \A c \in MCConfigs : \A id \in IdsOf(c.servers) :
        /\ Hop(c.servers, id, 1) \in {0} \cup IdsOf(c.servers)
        /\ \E n \in 0..Len(c.servers) : Hop(c.servers, id, n) = 0

(***************************************************************************)
(* The figures on the title never step back to an older reading: three     *)
(* polls with the probe, which is the oldest, answering between any two.   *)
(***************************************************************************)
Answers(n) == [mem : {0, n}, disk : {0, n}]
Answered(before, n, late, probed, polls) ==
    LET polled == IF n = 0 THEN before ELSE Merge(before, polls[n])
    IN IF n = late THEN SetTotals(polled, probed) ELSE polled
Newest(late, probed, polls) ==
    LET fig[n \in 0..3] == Answered(IF n = 0 THEN NoUsage ELSE fig[n - 1], n, late, probed, polls)
    IN \A n \in 1..3 : fig[n].mem >= fig[n - 1].mem /\ fig[n].disk >= fig[n - 1].disk

ASSUME FiguresGoForward ==
    \A late \in 0..3 : \A probed \in Answers(1) :
        \A polls \in {<<a, b, c>> : a \in Answers(2), b \in Answers(3), c \in Answers(4)} :
            Newest(late, probed, polls)
=============================================================================
