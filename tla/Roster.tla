------------------------------- MODULE Roster -------------------------------
(***************************************************************************)
(* The decrypted config and what the handlers of src/app.rs and the        *)
(* screens of src/tui compute from it: src/config/model.rs, the rows of    *)
(* main_menu.rs, the jump candidates of server_form.rs, the chain of       *)
(* Target::from_entry in src/ssh/session.rs.                               *)
(*                                                                         *)
(* A server is a record; 0 stands for an absent id or time, None for an    *)
(* absent text.  Texts are compared by their place in Alphabet.            *)
(***************************************************************************)
EXTENDS Naturals, Sequences, FiniteSets, SequencesExt, SshConfig

CONSTANTS
    Alphabet,    \* the texts of names and tags, in their order
    MaxJumps     \* ssh::MAX_JUMPS

Rank(text) == IF text = None THEN 0 ELSE CHOOSE i \in DOMAIN Alphabet : Alphabet[i] = text

\* A host key is <<host, generation>>: a host may come back with another key.
NoPin == <<>>

\* ServerEntry::new
NewServer(id, name, host, port, user) ==
    [id |-> id, name |-> name, host |-> host, port |-> port, user |-> user, tag |-> None,
     jump |-> 0, pin |-> NoPin, last |-> 0, dirs |-> FALSE, scripts |-> <<>>, forwards |-> <<>>]

\* ServerEntry: all of its fields, and a Vec of forwards.
IsList(list) == list \in Seq(ToSet(list))
IsServer(s) ==
    /\ s = [id |-> s.id, name |-> s.name, host |-> s.host, port |-> s.port, user |-> s.user,
            tag |-> s.tag, jump |-> s.jump, pin |-> s.pin, last |-> s.last, dirs |-> s.dirs,
            scripts |-> s.scripts, forwards |-> s.forwards]
    /\ IsList(s.scripts) /\ IsList(s.forwards)

\* VaultConfig.servers: every entry with an id of its own, of those given so far.
IsVault(servers, next) ==
    /\ IsList(servers)
    /\ \A i \in DOMAIN servers : IsServer(servers[i]) /\ servers[i].id \in 1..(next - 1)
    /\ \A i, j \in DOMAIN servers : servers[i].id = servers[j].id => i = j

\* What the fields hold, of the ids given so far.
Texts == ToSet(Alphabet)
ForwardKinds == {"local", "remote", "socks"}
ServerOK(s, next) ==
    /\ s.id \in 1..(next - 1) /\ s.jump \in 0..(next - 1) /\ s.last \in Nat /\ s.dirs \in BOOLEAN
    /\ s.name \in Texts /\ s.host \in Texts /\ s.tag \in Texts \cup {None}
    /\ s.pin \in {NoPin} \cup {<<host, gen>> : host \in Texts, gen \in {0, 1}}
    /\ \A i \in DOMAIN s.forwards :
          s.forwards[i] \in [id : 1..(next - 1), kind : ForwardKinds, enabled : BOOLEAN]
ConfigOK(c, next) ==
    /\ \A i \in DOMAIN c.servers : ServerOK(c.servers[i], next)
    /\ c.sort \in {"name", "tag", "last"} /\ c.mode \in {"full", "pane"} /\ c.lock \in {0, 1}

NewRule(id, kind) == [id |-> id, kind |-> kind, enabled |-> TRUE]
NewScript(id, data) == [id |-> id, auto |-> data.auto, steps |-> data.steps]

---------------------------------------------------------------------------
\* Vectors of entries with an id: servers, scripts and forwards alike.

IdsOf(list) == {list[i].id : i \in DOMAIN list}
IdList(list) == [i \in DOMAIN list |-> list[i].id]
IndexOf(list, id) == CHOOSE i \in DOMAIN list : list[i].id = id
Find(list, id) == list[IndexOf(list, id)]

\* The n-th of some numbers, and the entries at such places of a list, in their order.
Nth(places, n) == CHOOSE i \in places : Cardinality({j \in places : j < i}) = n - 1
EntriesAt(list, places) == [n \in 1..Cardinality(places) |-> list[Nth(places, n)]]

Without(list, id) == EntriesAt(list, {i \in DOMAIN list : list[i].id # id})
Update(list, id, Change(_)) ==
    [i \in DOMAIN list |-> IF list[i].id = id THEN Change(list[i]) ELSE list[i]]

\* A plausible slip: nothing stops the cursor above the first row.
Unstopped(cur, up, rows) == IF up THEN cur - 1 ELSE IF cur + 1 < rows THEN cur + 1 ELSE cur

\* A second press goes past neither end.
Moved(cur, up, rows) ==
    IF up THEN IF cur = 0 THEN 0 ELSE cur - 1 ELSE IF cur + 1 < rows THEN cur + 1 ELSE cur

---------------------------------------------------------------------------
\* The rows of the menu

NextSort(sort) == CASE sort = "name" -> "tag" [] sort = "tag" -> "last" [] OTHER -> "name"
OtherMode(mode) == IF mode = "full" THEN "pane" ELSE "full"

\* What is typed is a name, a tag or a host, or nothing yet.
Matches(server, filter) == filter \in {None, server.name, server.tag, server.host}

\* The keys of sort_indices: absent last, newest first, names break ties.
SortKey(server, sort) ==
    CASE sort = "name" -> <<0, 0, Rank(server.name)>>
      [] sort = "tag"  -> <<IF server.tag = None THEN 1 ELSE 0, Rank(server.tag), Rank(server.name)>>
      [] sort = "last" -> <<IF server.last = 0 THEN 1 ELSE 0, 100 - server.last, Rank(server.name)>>

Precedes(a, b) ==
    \E k \in DOMAIN a : a[k] < b[k] /\ \A j \in 1..(k - 1) : a[j] = b[j]

\* sort_by_key keeps the order of equal keys.
Above(servers, sort, i, j) ==
    Precedes(Append(SortKey(servers[i], sort), i), Append(SortKey(servers[j], sort), j))

\* visible_indices: the n-th row is the one with n - 1 above it.
Visible(servers, filter, sort) ==
    LET rows == {i \in DOMAIN servers : Matches(servers[i], filter)}
    IN [n \in 1..Cardinality(rows) |->
          CHOOSE i \in rows : Cardinality({j \in rows : Above(servers, sort, j, i)}) = n - 1]

\* selected_entry, as an id; 0 when there is no such row.
SelectedEntry(servers, menu, sort) ==
    LET rows == Visible(servers, menu.filter, sort)
    IN IF menu.cur < Len(rows) THEN servers[rows[menu.cur + 1]].id ELSE 0

\* A plausible slip: the cursor taken for an index of the vault.
SelectedIndex(servers, menu, sort) ==
    IF menu.cur < Len(servers) THEN servers[menu.cur + 1].id ELSE 0

Reanchor(servers, menu, sort, anchor) ==
    LET rows == Visible(servers, menu.filter, sort)
        at == {k \in DOMAIN rows : servers[rows[k]].id = anchor}
    IN [menu EXCEPT !.cur = IF at = {} THEN 0 ELSE (CHOOSE k \in at : TRUE) - 1]

FreshMenu == [cur |-> 0, filter |-> None, typing |-> FALSE]
Anchored(servers, sort, anchor) == Reanchor(servers, FreshMenu, sort, anchor)

---------------------------------------------------------------------------
\* Jump hosts

\* The server after n steps along the jumps, 0 past the end of the chain.
Hop(servers, id, n) ==
    LET hop[k \in Nat] ==
          IF k = 0 THEN id
          ELSE LET at == hop[k - 1]
               IN IF at \in IdsOf(servers) THEN Find(servers, at).jump ELSE 0
    IN hop[n]

\* reaches: bounded by the number of servers, for a vault that holds a loop.
Reaches(servers, from, target) ==
    \E n \in 1..Len(servers) :
        Hop(servers, from, n) = target /\ \A k \in 0..(n - 1) : Hop(servers, from, k) \in IdsOf(servers)

JumpCandidates(servers, subject) ==
    EntriesAt(IdList(servers), {i \in DOMAIN servers : /\ servers[i].id # subject
                                                      /\ ~Reaches(servers, servers[i].id, subject)})

\* A plausible slip: only the server itself is left out.
OthersOnly(servers, subject) == IdList(Without(servers, subject))

\* Target::from_entry: the checks in the order of its loop, hops outermost first.
Walk(servers, id) ==
    LET hop(n) == Hop(servers, id, n)
        looped(n) == \E k \in 0..(n - 1) : hop(k) = hop(n)
        stop == CHOOSE n \in 1..(MaxJumps + 1) :
                  /\ hop(n) = 0 \/ looped(n) \/ hop(n) \notin IdsOf(servers) \/ n = MaxJumps + 1
                  /\ \A k \in 1..(n - 1) : hop(k) # 0 /\ ~looped(k) /\ hop(k) \in IdsOf(servers)
    IN [why |-> IF hop(stop) = 0 THEN "ok"
                ELSE IF looped(stop) THEN "loops"
                ELSE IF hop(stop) \notin IdsOf(servers) THEN "missing"
                ELSE "too many",
        hops |-> [k \in 1..(stop - 1) |-> hop(stop - k)]]

\* JumpRecord::apply_to and SessionRecord::apply_to
ApplyJump(server, pin) == [server EXCEPT !.pin = pin]
ApplyRecord(server, pin, now) ==
    [server EXCEPT !.pin = IF pin # NoPin THEN pin ELSE @, !.last = now]

---------------------------------------------------------------------------
\* Import

\* A plausible slip: the alias is taken for the machine.
SameName(server, host) == server.name = host.alias

\* same_host: the alias does not count, nor the user where the file names none.
SameHost(server, host) ==
    /\ server.host = host.hostname /\ server.port = Or(host.port, DefaultPort)
    /\ host.user # None => server.user = host.user

ImportRows(file, servers) ==
    [i \in DOMAIN Parse(file) |->
        LET host == Parse(file)[i]
            present == \E j \in DOMAIN servers : SameHost(servers[j], host)
        IN [host |-> host, present |-> present, checked |-> ~present]]
=============================================================================
