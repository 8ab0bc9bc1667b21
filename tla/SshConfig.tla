----------------------------- MODULE SshConfig -----------------------------
(***************************************************************************)
(* src/ssh_config.rs: what parse reads out of a ~/.ssh/config.             *)
(*                                                                         *)
(* A line is split_line's answer [kw, val]: the keyword folded to lower    *)
(* case and its value, or kw "blank" where there is none.  The value of a  *)
(* host line is a name, "*", "glob" (a narrower pattern) or "many"; a port *)
(* that is no number is "bad".                                             *)
(***************************************************************************)
EXTENDS Naturals, Sequences, SequencesExt

None == "none"
DefaultPort == "22"
LocalUser == "me"

NoDefaults == [user |-> None, port |-> None, key |-> None]
NewHost(alias) ==
    [alias |-> alias, hostname |-> alias, user |-> None, port |-> None, key |-> None]
Outside(kind) == [kind |-> kind, host |-> NewHost(None)]

Parsed(port) == IF port = "bad" THEN None ELSE port
Or(value, other) == IF value # None THEN value ELSE other

OpenHost(val) ==
    CASE val = "*"               -> Outside("wildcard")
      [] val \in {"glob", "many"} -> Outside("skipped")
      [] OTHER                   -> [kind |-> "host", host |-> NewHost(val)]

CloseBlock(acc) ==
    IF acc.block.kind = "host" THEN Append(acc.hosts, acc.block.host) ELSE acc.hosts

SetDefault(defaults, line) ==
    CASE line.kw = "user"         -> [defaults EXCEPT !.user = line.val]
      [] line.kw = "port"         -> [defaults EXCEPT !.port = Parsed(line.val)]
      [] line.kw = "identityfile" -> [defaults EXCEPT !.key = line.val]
      [] OTHER                    -> defaults

SetField(host, line) ==
    CASE line.kw = "hostname"     -> [host EXCEPT !.hostname = line.val]
      [] line.kw = "user"         -> [host EXCEPT !.user = line.val]
      [] line.kw = "port"         -> [host EXCEPT !.port = Or(Parsed(line.val), @)]
      [] line.kw = "identityfile" -> [host EXCEPT !.key = Or(@, line.val)]
      [] OTHER                    -> host

ReadLine(acc, line) ==
    IF line.kw \in {"host", "match"}
      THEN [acc EXCEPT !.hosts = CloseBlock(acc),
                       !.block = IF line.kw = "match" THEN Outside("skipped") ELSE OpenHost(line.val)]
      ELSE CASE acc.block.kind = "host" -> [acc EXCEPT !.block.host = SetField(@, line)]
             [] acc.block.kind \in {"preamble", "wildcard"} ->
                    [acc EXCEPT !.defaults = SetDefault(@, line)]
             [] OTHER -> acc

Resolve(host, defaults) ==
    [host EXCEPT !.user = Or(@, defaults.user), !.port = Or(@, defaults.port),
                 !.key = Or(@, defaults.key)]

Parse(file) ==
    LET acc == FoldLeft(ReadLine,
                        [defaults |-> NoDefaults, hosts |-> <<>>, block |-> Outside("preamble")],
                        file)
        hosts == CloseBlock(acc)
    IN [i \in DOMAIN hosts |-> Resolve(hosts[i], acc.defaults)]

\* SshConfigHost::username
Username(host) == Or(host.user, LocalUser)

---------------------------------------------------------------------------
(***************************************************************************)
(* The same reading without a cursor: a host line that names one host      *)
(* stands for the lines up to the next host or match line; its last        *)
(* hostname, user and readable port and its first identity file count, and *)
(* where it has none, the last such line before any block or under "*".    *)
(***************************************************************************)
Heads(file) == {i \in DOMAIN file : file[i].kw \in {"host", "match"}}
HeadOf(file, i) ==
    LET above == {h \in Heads(file) : h < i}
    IN IF above = {} THEN 0 ELSE CHOOSE h \in above : \A g \in above : g <= h
IsDefault(file, h) == h = 0 \/ (file[h].kw = "host" /\ file[h].val = "*")
Names1(file, h) == h # 0 /\ file[h].kw = "host" /\ file[h].val \notin {"*", "glob", "many"}

LinesOf(file, kw, h) == {i \in DOMAIN file : file[i].kw = kw /\ HeadOf(file, i) = h}
GlobalLines(file, kw) == {i \in DOMAIN file : file[i].kw = kw /\ i \notin Heads(file)
                                              /\ IsDefault(file, HeadOf(file, i))}
LastOf(file, at) == IF at = {} THEN None ELSE file[CHOOSE i \in at : \A j \in at : j <= i].val
FirstOf(file, at) == IF at = {} THEN None ELSE file[CHOOSE i \in at : \A j \in at : i <= j].val

ReadHost(file, h) ==
    LET own(kw) == LinesOf(file, kw, h)
        global(kw) == LastOf(file, GlobalLines(file, kw))
        ports == {i \in own("port") : file[i].val # "bad"}
    IN [alias    |-> file[h].val,
        hostname |-> Or(LastOf(file, own("hostname")), file[h].val),
        user     |-> Or(LastOf(file, own("user")), global("user")),
        port     |-> Or(LastOf(file, ports), Parsed(global("port"))),
        key      |-> Or(FirstOf(file, own("identityfile")), global("identityfile"))]

HostsOf(file) ==
    LET heads == SetToSortSeq({h \in Heads(file) : Names1(file, h)}, <)
    IN [i \in DOMAIN heads |-> ReadHost(file, heads[i])]

ParsesTo(file) == Parse(file) = HostsOf(file)
=============================================================================
