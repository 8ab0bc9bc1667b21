---------------------------- MODULE ScreenProofs ----------------------------
(***************************************************************************)
(* Promises of App's screens and of what they edit, for any vaults,        *)
(* drafts, filters, config files and bounds: a screen shows what is there, *)
(* its cursor is on a row, its server is under the cursor on the way back, *)
(* every jump comes to an end, and every value is of its kind.             *)
(***************************************************************************)
EXTENDS RunProofs

\* The screens of one server.
OfServer == {"confirm", "scripts", "scriptform", "scriptconfirm", "targets", "run", "forwards",
             "forwardform", "forwardconfirm", "files"}

RowsOf(servers, filter) == {i \in DOMAIN servers : Matches(servers[i], filter)}

MenuShape(m) == m = [cur |-> m.cur, filter |-> m.filter, typing |-> m.typing]

\* The cursor is on a row, or at the top of an empty list.
OnRow(cur, rows) == cur \in Nat /\ (cur = 0 \/ cur < rows)
MenuOK(m, servers) == MenuShape(m) /\ OnRow(m.cur, Cardinality(RowsOf(servers, m.filter)))

ScreenOK(s, servers) ==
    /\ s.cur \in Nat /\ s.sid \in {0} \cup IdsOf(servers)
    /\ IsList(s.choices) /\ (s.at = "form" => s.pick \in 0..Len(s.choices))
    /\ \A k \in DOMAIN s.choices : s.choices[k] \in IdsOf(servers)
    /\ s.at \in OfServer => s.sid # 0
    /\ s.at \in {"scriptform", "scriptconfirm"} => s.item \in {0} \cup IdsOf(Find(servers, s.sid).scripts)
    /\ s.at \in {"forwardform", "forwardconfirm"} =>
          s.item \in {0} \cup IdsOf(Find(servers, s.sid).forwards)
    /\ s.at = "scripts" => OnRow(s.cur, Len(Find(servers, s.sid).scripts))
    /\ s.at = "forwards" => OnRow(s.cur, Len(Find(servers, s.sid).forwards))
    /\ s.at = "targets" => OnRow(s.cur, Len(servers))
    /\ s.at = "import" => IsList(s.rows) /\ OnRow(s.cur, Len(s.rows))

ScreensInv ==
    /\ MenuOK(menu, Servers) /\ ScreenOK(screen, Servers)
    /\ screen.at # "menu" => menu = FreshMenu
    /\ app # "open" => screen = NoScreen /\ menu = FreshMenu

LEMMA Table ==
    ASSUME NEW c \in Nat, NEW f, f = [n \in 1..c |-> f[n]]
    PROVE  IsList(f) /\ Len(f) = c /\ DOMAIN f = 1..c
  <1> DEFINE S == {f[n] : n \in 1..c}
  <1>1. f \in [1..c -> S]
    OBVIOUS
  <1>2. f \in Seq(S) /\ Len(f) = c /\ DOMAIN f = 1..c
    BY <1>1
  <1> QED
    BY <1>2, SeqIsList

LEMMA FewRows ==
    ASSUME NEW servers, IsList(servers), NEW filter
    PROVE  /\ IsFiniteSet(RowsOf(servers, filter)) /\ Cardinality(RowsOf(servers, filter)) \in Nat
           /\ RowsOf(servers, filter) \subseteq Nat
  <1>1. IsFiniteSet(1..Len(servers)) /\ DOMAIN servers = 1..Len(servers) /\ Len(servers) \in Nat
    BY Lists, FS_Interval
  <1>2. RowsOf(servers, filter) \subseteq 1..Len(servers)
    BY <1>1 DEF RowsOf
  <1>3. IsFiniteSet(RowsOf(servers, filter)) /\ RowsOf(servers, filter) \subseteq Nat
    BY <1>1, <1>2, FS_Subset
  <1> QED
    BY <1>3, FS_CardinalityType

LEMMA VisibleRows ==
    ASSUME NEW servers, IsList(servers), NEW filter, NEW sort
    PROVE  /\ IsList(Visible(servers, filter, sort))
           /\ Len(Visible(servers, filter, sort)) = Cardinality(RowsOf(servers, filter))
           /\ DOMAIN Visible(servers, filter, sort) = 1..Cardinality(RowsOf(servers, filter))
  <1> DEFINE c == Cardinality(RowsOf(servers, filter))
             f == Visible(servers, filter, sort)
  <1>1. c \in Nat
    BY FewRows
  <1>2. f = [n \in 1..c |-> f[n]]
    BY DEF Visible, RowsOf
  <1> HIDE DEF c, f
  <1>3. IsList(f) /\ Len(f) = c /\ DOMAIN f = 1..c
    BY <1>1, <1>2, Table
  <1> QED
    BY <1>3 DEF c, f

LEMMA ReanchorOK ==
    ASSUME NEW servers, IsList(servers), NEW m, MenuShape(m), NEW sort, NEW anchor
    PROVE  /\ MenuOK(Reanchor(servers, m, sort, anchor), servers)
           /\ Reanchor(servers, m, sort, anchor).filter = m.filter
  <1> DEFINE rows == Visible(servers, m.filter, sort)
             at == {k \in DOMAIN rows : servers[rows[k]].id = anchor}
             cur == IF at = {} THEN 0 ELSE (CHOOSE k \in at : TRUE) - 1
             c == Cardinality(RowsOf(servers, m.filter))
             r == [m EXCEPT !.cur = cur]
  <1>1. c \in Nat /\ DOMAIN rows = 1..c
    BY FewRows, VisibleRows
  <1>2. at \subseteq 1..c
    BY <1>1
  <1>3. Reanchor(servers, m, sort, anchor) = r
    BY DEF Reanchor
  <1> HIDE DEF rows, at, c
  <1>4. OnRow(cur, c)
    <2>1. CASE at = {}
      BY <2>1 DEF OnRow
    <2>2. CASE at # {}
      <3>1. (CHOOSE k \in at : TRUE) \in 1..c
        BY <1>2, <2>2
      <3> QED
        BY <1>1, <2>2, <3>1 DEF OnRow
    <2> QED
      BY <2>1, <2>2
  <1> HIDE DEF cur
  <1>5. r.cur = cur /\ r.filter = m.filter /\ MenuShape(r)
    BY DEF MenuShape
  <1> QED
    BY <1>3, <1>4, <1>5 DEF MenuOK, c

LEMMA FreshOK ==
    ASSUME NEW servers
    PROVE  MenuOK(FreshMenu, servers) /\ ScreenOK(NoScreen, servers) /\ MenuShape(FreshMenu)
  BY NoList DEF MenuOK, MenuShape, OnRow, FreshMenu, ScreenOK, NoScreen, OfServer

LEMMA AnchoredOK ==
    ASSUME NEW servers, IsList(servers), NEW sort, NEW anchor
    PROVE  MenuOK(Anchored(servers, sort, anchor), servers)
  BY ReanchorOK, FreshOK DEF Anchored

LEMMA MovedOK ==
    ASSUME NEW rows \in Nat, NEW cur, OnRow(cur, rows), NEW up \in BOOLEAN
    PROVE  OnRow(Moved(cur, up, rows), rows)
  BY DEF OnRow, Moved

Fields == {"at", "sid", "item", "cur", "choices", "pick", "rows", "err"}

LEMMA ScreenIs ==
    ASSUME NEW at, NEW sid
    PROVE  /\ DOMAIN Screen(at, sid) = Fields
           /\ Screen(at, sid).at = at /\ Screen(at, sid).sid = sid /\ Screen(at, sid).item = 0
           /\ Screen(at, sid).cur = 0 /\ Screen(at, sid).choices = <<>> /\ Screen(at, sid).pick = 0
           /\ Screen(at, sid).rows = <<>>
  BY DEF Screen, NoScreen, Fields

\* One field of the menu changes.
LEMMA MenuFields ==
    ASSUME NEW m, MenuShape(m), NEW x, NEW y
    PROVE  /\ MenuShape([m EXCEPT !.cur = x]) /\ [m EXCEPT !.cur = x].cur = x
           /\ [m EXCEPT !.cur = x].filter = m.filter
           /\ MenuShape([m EXCEPT !.typing = x]) /\ [m EXCEPT !.typing = x].cur = m.cur
           /\ [m EXCEPT !.typing = x].filter = m.filter
           /\ MenuShape([m EXCEPT !.filter = x])
           /\ MenuShape([m EXCEPT !.filter = x, !.typing = y])
  <1>1. DOMAIN m = {"cur", "filter", "typing"} /\ m = [f \in DOMAIN m |-> m[f]]
    BY DEF MenuShape
  <1>2. ASSUME NEW r, DOMAIN r = {"cur", "filter", "typing"}, r = [f \in DOMAIN r |-> r[f]]
        PROVE  MenuShape(r)
    BY <1>2 DEF MenuShape
  <1> DEFINE a == [m EXCEPT !.cur = x]
             b == [m EXCEPT !.typing = x]
             c == [m EXCEPT !.filter = x]
             d == [m EXCEPT !.filter = x, !.typing = y]
  <1>3. /\ a.cur = x /\ a.filter = m.filter /\ DOMAIN a = DOMAIN m /\ a = [f \in DOMAIN a |-> a[f]]
        /\ b.cur = m.cur /\ b.filter = m.filter /\ DOMAIN b = DOMAIN m /\ b = [f \in DOMAIN b |-> b[f]]
    BY <1>1
  <1>4. /\ DOMAIN c = DOMAIN m /\ c = [f \in DOMAIN c |-> c[f]]
        /\ DOMAIN d = DOMAIN m /\ d = [f \in DOMAIN d |-> d[f]]
    BY <1>1
  <1> HIDE DEF a, b, c, d
  <1>5. MenuShape(a) /\ MenuShape(b) /\ MenuShape(c) /\ MenuShape(d)
    BY <1>1, <1>2, <1>3, <1>4
  <1> QED
    BY <1>3, <1>5 DEF a, b, c, d

LEMMA NewScreenOK ==
    ASSUME NEW at, NEW sid, NEW servers, sid \in {0} \cup IdsOf(servers), at \in OfServer => sid # 0
    PROVE  ScreenOK(Screen(at, sid), servers)
  <1>1. OnRow(0, 0) /\ \A n : OnRow(0, n)
    BY DEF OnRow
  <1> QED
    BY <1>1, ScreenIs, NoList DEF ScreenOK

LEMMA MenuStays ==
    ASSUME ScreensInv, mem' = mem, app' = app, screen' = screen, menu' = menu
    PROVE  ScreensInv'
  BY DEF ScreensInv, Servers, MenuOK, ScreenOK, RowsOf, OfServer

LEMMA MenuMoves ==
    ASSUME ScreensInv, mem'.servers = Servers, app = "open", app' = app, screen' = screen, screen.at = "menu",
           MenuOK(menu', Servers)
    PROVE  ScreensInv'
  BY DEF ScreensInv, Servers

LEMMA LeaveOK ==
    ASSUME app = "open", mem' = mem, app' = app, NEW s, Leave(s), ScreenOK(s, Servers)
    PROVE  ScreensInv'
  BY FreshOK DEF ScreensInv, Servers, Leave

LEMMA ShowOK ==
    ASSUME ScreensInv, app = "open", mem'.servers = Servers, app' = app, NEW s, Show(s), ScreenOK(s, Servers),
           s.at = "menu" <=> screen.at = "menu"
    PROVE  ScreensInv'
  BY DEF ScreensInv, Servers, Show

LEMMA ForgetOK == ASSUME NEW to, Forget(to) PROVE ScreensInv'
  BY FreshOK DEF ScreensInv, Servers, Forget, NoScreen

LEMMA BackOK ==
    ASSUME NEW servers, NEW sort, NEW anchor, BackToMenu(servers, sort, anchor), IsList(servers),
           app = "open", app' = app, \A f : RowsOf(mem'.servers, f) = RowsOf(servers, f)
    PROVE  ScreensInv'
  <1>1. /\ screen' = NoScreen /\ MenuOK(menu', servers)
    BY AnchoredOK DEF BackToMenu
  <1>2. MenuOK(menu', mem'.servers)
    BY <1>1 DEF MenuOK
  <1> QED
    BY <1>1, <1>2, FreshOK DEF ScreensInv, Servers, NoScreen

LEMMA IdsAreList ==
    ASSUME NEW servers, IsList(servers)
    PROVE  /\ IsList(IdList(servers)) /\ DOMAIN IdList(servers) = DOMAIN servers
           /\ \A k \in DOMAIN servers : IdList(servers)[k] = servers[k].id /\ servers[k].id \in IdsOf(servers)
           /\ \A k \in DOMAIN IdList(servers) : IdList(servers)[k] \in IdsOf(servers)
  <1> DEFINE ids == IdList(servers)
  <1>1. ids = [k \in DOMAIN servers |-> ids[k]] /\ \A k \in DOMAIN servers : ids[k] = servers[k].id
    BY DEF IdList
  <1> HIDE DEF ids
  <1>2. IsList(ids) /\ DOMAIN ids = DOMAIN servers
    BY <1>1, MappedList
  <1> QED
    BY <1>1, <1>2 DEF IdsOf, ids

LEMMA CandidatesAreServers ==
    ASSUME NEW servers, IsList(servers), NEW subject
    PROVE  /\ IsList(JumpCandidates(servers, subject))
           /\ \A k \in DOMAIN JumpCandidates(servers, subject) :
                 /\ JumpCandidates(servers, subject)[k] \in IdsOf(servers)
                 /\ JumpCandidates(servers, subject)[k] # subject
                 /\ ~Reaches(servers, JumpCandidates(servers, subject)[k], subject)
  <1> DEFINE ids == IdList(servers)
             places == {i \in DOMAIN servers : /\ servers[i].id # subject
                                               /\ ~Reaches(servers, servers[i].id, subject)}
  <1>1. IsList(ids) /\ DOMAIN ids = DOMAIN servers /\ \A k \in DOMAIN ids : ids[k] \in IdsOf(servers)
    BY IdsAreList
  <1>2. places \subseteq DOMAIN ids /\ JumpCandidates(servers, subject) = EntriesAt(ids, places)
    BY <1>1 DEF JumpCandidates
  <1>6. \A i \in places : ids[i] # subject /\ ~Reaches(servers, ids[i], subject)
    BY DEF IdList
  <1> HIDE DEF ids, places
  <1> DEFINE e == EntriesAt(ids, places)
  <1>3. PICK f : /\ IsList(e) /\ f \in [DOMAIN e -> places]
                 /\ \A k \in DOMAIN e : e[k] = ids[f[k]]
    BY <1>1, <1>2, ChosenEntries
  <1> HIDE DEF e
  <1>4. \A k \in DOMAIN e : f[k] \in DOMAIN ids
    BY <1>2, <1>3
  <1>5. \A k \in DOMAIN e : /\ e[k] \in IdsOf(servers)
                            /\ e[k] # subject /\ ~Reaches(servers, e[k], subject)
    BY <1>1, <1>3, <1>4, <1>6
  <1> QED
    BY <1>2, <1>3, <1>5 DEF e

LEMMA ImportIsList ==
    ASSUME NEW file \in ConfigFiles, NEW servers PROVE IsList(ImportRows(file, servers))
  <1> DEFINE rows == ImportRows(file, servers)
  <1>1. PICK n \in Nat : DOMAIN Parse(file) = 1..n
    BY DeskAssumption
  <1>2. rows = [i \in 1..n |-> rows[i]]
    BY <1>1 DEF ImportRows
  <1> HIDE DEF rows
  <1> QED
    BY <1>2, Table DEF rows

LEMMA MenuKeyScreens == ASSUME AppInv, ScreensInv, MenuKey PROVE ScreensInv'
  <1>0. IsList(Servers) /\ MenuOK(menu, Servers) /\ MenuShape(menu)
    BY DEF AppInv, VaultInv, IsVault, Servers, ScreensInv, MenuOK
  <1>1. ASSUME NEW m, InList(m), At("menu"), MenuOK(m, Servers) PROVE ScreensInv'
    BY <1>1, MenuMoves DEF InList, Quiet, Calm, At, Key, Servers
  <1>2. ASSUME MoveSelection PROVE ScreensInv'
    <2>1. PICK up \in BOOLEAN : InList([menu EXCEPT !.cur = Moved(menu.cur, up, RowCount)])
      BY <1>2 DEF MoveSelection
    <2> DEFINE m == [menu EXCEPT !.cur = Moved(menu.cur, up, RowCount)]
    <2>2. RowCount = Cardinality(RowsOf(Servers, menu.filter)) /\ RowCount \in Nat
      BY <1>0, VisibleRows, FewRows DEF RowCount
    <2>3. OnRow(Moved(menu.cur, up, RowCount), RowCount)
      BY <1>0, <2>2, MovedOK DEF MenuOK
    <2>4. m.cur = Moved(menu.cur, up, RowCount) /\ m.filter = menu.filter /\ MenuShape(m)
      BY <1>0, MenuFields
    <2>5. MenuOK(m, Servers)
      BY <2>2, <2>3, <2>4 DEF MenuOK
    <2> QED
      BY <1>1, <1>2, <2>1, <2>5 DEF MoveSelection
  <1>3. ASSUME StartTyping PROVE ScreensInv'
    <2> DEFINE m == [menu EXCEPT !.typing = TRUE]
    <2>1. m.cur = menu.cur /\ m.filter = menu.filter /\ MenuShape(m)
      BY <1>0, MenuFields
    <2>2. MenuOK(m, Servers)
      BY <1>0, <2>1 DEF MenuOK
    <2> QED
      BY <1>1, <1>3, <2>2 DEF StartTyping, InMenu
  <1>4. ASSUME TypeFilter PROVE ScreensInv'
    <2>1. PICK text \in Filters \cup {None} : InList(Refiltered([menu EXCEPT !.filter = text], Selected))
      BY <1>4 DEF TypeFilter
    <2>2. MenuShape([menu EXCEPT !.filter = text])
      BY <1>0, MenuFields
    <2>3. MenuOK(Refiltered([menu EXCEPT !.filter = text], Selected), Servers)
      BY <1>0, <2>2, ReanchorOK DEF Refiltered
    <2> QED
      BY <1>1, <1>4, <2>1, <2>3 DEF TypeFilter
  <1>5. ASSUME EscapeFilter PROVE ScreensInv'
    <2>1. MenuShape([menu EXCEPT !.filter = None, !.typing = FALSE])
      BY <1>0, MenuFields
    <2>2. MenuOK(ClearFilter, Servers)
      BY <1>0, <2>1, ReanchorOK DEF ClearFilter, Refiltered
    <2> QED
      BY <1>1, <1>5, <2>2 DEF EscapeFilter
  <1>6. ASSUME CycleServerSort PROVE ScreensInv'
    <2>1. /\ menu' = Reanchor(Servers, menu, NextSort(mem.sort), Selected)
          /\ \E ok : mem' = [mem EXCEPT !.sort = NextSort(mem.sort)]
          /\ screen.at = "menu" /\ screen' = screen /\ app = "open" /\ app' = app
      BY <1>6 DEF CycleServerSort, Keep, InMenu, At, Key
    <2>2. mem'.servers = Servers
      BY <2>1 DEF AppInv, Shape, Servers
    <2>3. MenuOK(menu', Servers)
      BY <1>0, <2>1, ReanchorOK
    <2> QED
      BY <2>1, <2>2, <2>3, MenuMoves
  <1>7. ASSUME NEW s, Open(s), ScreenOK(s, Servers) PROVE ScreensInv'
    BY <1>7, LeaveOK DEF Open, InMenu, At, Key, Quiet, Calm
  <1>8. ASSUME GoDelete \/ GoScripts \/ GoForwards PROVE ScreensInv'
    <2>1. PICK at : Open(Screen(at, Selected))
      BY <1>8 DEF GoDelete, GoScripts, GoForwards
    <2>2. Selected \in IdsOf(Servers) /\ Selected # 0
      BY <1>0, <2>1, FoundIn DEF Open, IsSelected, AppInv, VaultInv, IsVault, Servers, IdsOf
    <2> QED
      BY <1>7, <2>1, <2>2, NewScreenOK
  <1>9. ASSUME GoFiles PROVE ScreensInv'
    <2>1. CASE Open(Screen("files", Selected))
      <3>2. Selected \in IdsOf(Servers) /\ Selected # 0
        BY <1>0, <2>1, FoundIn DEF Open, IsSelected, AppInv, VaultInv, IsVault, Servers, IdsOf
      <3> QED
        BY <1>7, <2>1, <3>2, NewScreenOK
    <2>2. CASE Calm /\ UNCHANGED <<screen, menu, shown>>
      BY <2>2, MenuStays DEF Calm
    <2> QED
      BY <1>9, <2>1, <2>2 DEF GoFiles
  <1>10. ASSUME GoSettings PROVE ScreensInv'
    <2>1. ScreenOK(Screen("settings", 0), Servers)
      BY NewScreenOK DEF OfServer
    <2> QED
      BY <1>10, <2>1, LeaveOK DEF GoSettings, InMenu, At, Key, Quiet, Calm
  <1>11. ASSUME Lock \/ Quit PROVE ScreensInv'
    BY <1>11, ForgetOK DEF Lock, Quit
  <1>12. ASSUME GoAdd PROVE ScreensInv'
    <2> DEFINE ids == IdList(Servers)
               s == [Screen("form", 0) EXCEPT !.choices = ids]
    <2>1. IsList(ids) /\ \A k \in DOMAIN ids : ids[k] \in IdsOf(Servers)
      BY <1>0, IdsAreList
    <2> HIDE DEF ids
    <2>2. s.at = "form" /\ s.sid = 0 /\ s.cur = 0 /\ s.choices = ids /\ s.pick = 0
      BY ScreenIs DEF Fields
    <2>3. Len(ids) \in Nat
      BY <2>1, Lists
    <2>4. ScreenOK(s, Servers)
      BY <2>1, <2>2, <2>3 DEF ScreenOK, OfServer
    <2> QED
      BY <1>12, <2>4, LeaveOK DEF GoAdd, InMenu, At, Key, Quiet, Calm, ids
  <1>13. ASSUME GoEdit PROVE ScreensInv'
    <2> DEFINE ids == JumpChoices
               at == {k \in DOMAIN ids : ids[k] = Find(Servers, Selected).jump}
               pick == IF at = {} THEN 0 ELSE CHOOSE k \in at : TRUE
               s == [Screen("form", Selected) EXCEPT !.choices = ids, !.pick = pick]
    <2>1. IsList(ids) /\ \A k \in DOMAIN ids : ids[k] \in IdsOf(Servers)
      BY <1>0, CandidatesAreServers DEF JumpChoices
    <2>2. Len(ids) \in Nat /\ DOMAIN ids = 1..Len(ids)
      BY <2>1, Lists
    <2>0. Open(s)
      BY <1>13 DEF GoEdit
    <2> HIDE DEF ids
    <2>3. pick \in 0..Len(ids)
      BY <2>2
    <2> HIDE DEF pick
    <2>4. s.at = "form" /\ s.sid = Selected /\ s.cur = 0 /\ s.choices = ids /\ s.pick = pick
      BY ScreenIs DEF Fields
    <2> HIDE DEF s
    <2>5. Selected \in IdsOf(Servers)
      BY <2>0 DEF Open, IsSelected
    <2>6. ScreenOK(s, Servers)
      BY <2>1, <2>3, <2>4, <2>5 DEF ScreenOK, OfServer
    <2> QED
      BY <1>7, <2>0, <2>6
  <1>14. ASSUME GoSshImport PROVE ScreensInv'
    <2>1. CASE \E file \in ConfigFiles : Leave([Screen("import", 0) EXCEPT !.rows = ImportRows(file, Servers)])
      <3>1. PICK file \in ConfigFiles : Leave([Screen("import", 0) EXCEPT !.rows = ImportRows(file, Servers)])
        BY <2>1
      <3> DEFINE rows == ImportRows(file, Servers)
                 s == [Screen("import", 0) EXCEPT !.rows = rows]
      <3>2. IsList(rows)
        BY ImportIsList
      <3> HIDE DEF rows
      <3>3. s.at = "import" /\ s.sid = 0 /\ s.cur = 0 /\ s.choices = <<>> /\ s.pick = 0 /\ s.rows = rows
        BY ScreenIs DEF Fields
      <3> HIDE DEF s
      <3>4. ScreenOK(s, Servers)
        BY <3>2, <3>3, NoList DEF ScreenOK, OfServer, OnRow
      <3> QED
        BY <1>14, <3>1, <3>4, LeaveOK DEF GoSshImport, InMenu, At, Key, Quiet, Calm, s, rows
    <2>2. CASE Leave([Screen("import", 0) EXCEPT !.err = TRUE])
      <3> DEFINE s == [Screen("import", 0) EXCEPT !.err = TRUE]
      <3>3. s.at = "import" /\ s.sid = 0 /\ s.cur = 0 /\ s.choices = <<>> /\ s.pick = 0 /\ s.rows = <<>>
        BY ScreenIs DEF Fields
      <3> HIDE DEF s
      <3>4. ScreenOK(s, Servers)
        BY <3>3, NoList DEF ScreenOK, OfServer, OnRow
      <3> QED
        BY <1>14, <2>2, <3>4, LeaveOK DEF GoSshImport, InMenu, At, Key, Quiet, Calm, s
    <2> QED
      BY <1>14, <2>1, <2>2 DEF GoSshImport
  <1> QED
    BY <1>2, <1>3, <1>4, <1>5, <1>6, <1>8, <1>9, <1>10, <1>11, <1>12, <1>13, <1>14 DEF MenuKey

LEMMA ShowsOK ==
    ASSUME ScreensInv, app = "open", app' = app, NEW s, Show(s), s.at # "menu", screen.at # "menu",
           ScreenOK(s, mem'.servers)
    PROVE  ScreensInv'
  BY FreshOK DEF ScreensInv, Servers, Show

\* What the rows are chosen by has not changed.
LEMMA SameRowsIf ==
    ASSUME NEW old, NEW new, DOMAIN new = DOMAIN old,
           \A i \in DOMAIN old : /\ new[i].name = old[i].name /\ new[i].tag = old[i].tag
                                 /\ new[i].host = old[i].host
    PROVE  \A f : RowsOf(new, f) = RowsOf(old, f)
  BY DEF RowsOf, Matches

\* The servers keep their ids and their places.
LEMMA SameIds ==
    ASSUME NEW old, NEW first, IsVault(old, first), NEW new, new = [i \in DOMAIN old |-> new[i]],
           \A i \in DOMAIN old : new[i].id = old[i].id, NEW sid \in IdsOf(old)
    PROVE  \E i \in DOMAIN old : /\ old[i].id = sid /\ Find(old, sid) = old[i]
                                /\ Find(new, sid) = new[i]
  <1>1. DOMAIN new = DOMAIN old
    OBVIOUS
  <1>4. PICK i \in DOMAIN old : old[i].id = sid /\ Find(old, sid) = old[i]
    BY FoundIn
  <1>5. \A k, j \in DOMAIN new : new[k].id = new[j].id => k = j
    BY <1>1 DEF IsVault
  <1>6. Find(new, new[i].id) = new[i]
    BY <1>1, <1>5, FindIs
  <1> QED
    BY <1>4, <1>6

\* No server goes but the one that is deleted.
LEMMA IdsStay ==
    ASSUME VaultInv, DeskEdit, app = "open", app' = "open", screen.at # "confirm"
    PROVE  IdsOf(Servers) \subseteq IdsOf(mem'.servers)
  <1>1. SameBut(Servers, mem'.servers, screen.sid) \/ Extended(Servers, mem'.servers, nextId, nextId')
    BY DEF DeskEdit, Forgotten
  <1>2. CASE SameBut(Servers, mem'.servers, screen.sid)
    BY <1>2 DEF SameBut, IdsOf
  <1>3. CASE Extended(Servers, mem'.servers, nextId, nextId')
    <2>1. IsList(Servers) /\ IsList(mem'.servers)
      BY <1>3 DEF VaultInv, IsVault, Servers, Extended
    <2>2. DOMAIN Servers \subseteq DOMAIN mem'.servers
      BY <1>3, <2>1, Lists DEF Extended
    <2> QED
      BY <1>3, <2>2 DEF Extended, IdsOf
  <1> QED
    BY <1>1, <1>2, <1>3

LEMMA ServerKeyScreens ==
    ASSUME AppInv, ScreensInv, ServerKey, DeskEdit, VaultInv' PROVE ScreensInv'
  <1>0. /\ IsList(Servers) /\ IsList(mem'.servers) /\ Shape(mem) /\ IsVault(Servers, nextId)
        /\ ScreenShape(screen) /\ ScreenOK(screen, Servers)
    BY DEF AppInv, VaultInv, IsVault, Servers, OpenInv, ScreensInv
  <1>1. ASSUME Back PROVE ScreensInv'
    BY <1>0, <1>1, BackOK DEF Back, Key, Quiet, Calm, Servers
  <1>2. ASSUME FilesBack PROVE ScreensInv'
    <2>1. PICK ok : Keep(WithServers([i \in DOMAIN Servers |-> IF Servers[i].id = screen.sid
                          THEN [Servers[i] EXCEPT !.dirs = TRUE] ELSE Servers[i]]), ok)
      BY <1>2 DEF FilesBack, Edited, Update
    <2> DEFINE new == [i \in DOMAIN Servers |-> IF Servers[i].id = screen.sid
                          THEN [Servers[i] EXCEPT !.dirs = TRUE] ELSE Servers[i]]
    <2>2. mem'.servers = new
      BY <1>0, <2>1, KeptServers
    <2>3. \A f : RowsOf(new, f) = RowsOf(Servers, f)
      <3>1. ASSUME NEW i \in DOMAIN Servers
            PROVE  /\ new[i].name = Servers[i].name /\ new[i].tag = Servers[i].tag
                   /\ new[i].host = Servers[i].host
        <4>1. {"name", "tag", "host"} \subseteq DOMAIN Servers[i]
          BY <1>0, ServerFields DEF IsVault
        <4> QED
          BY <4>1
      <3>2. DOMAIN new = DOMAIN Servers
        OBVIOUS
      <3> HIDE DEF new
      <3> QED
        BY <3>1, <3>2, SameRowsIf
    <2> HIDE DEF new
    <2> QED
      BY <1>0, <1>2, <2>2, <2>3, BackOK DEF FilesBack, At, Key
  <1>3. ASSUME CycleJumpHost PROVE ScreensInv'
    <2> DEFINE len == Len(screen.choices)
    <2>1. PICK step \in {1, len} : Show([screen EXCEPT !.pick = (screen.pick + step) % (len + 1), !.err = FALSE])
      BY <1>3 DEF CycleJumpHost
    <2> DEFINE pick == (screen.pick + step) % (len + 1)
               s == [screen EXCEPT !.pick = pick, !.err = FALSE]
    <2>2. len \in Nat /\ screen.pick \in 0..len
      BY <1>0, <1>3, Lists DEF ScreenOK, CycleJumpHost, At
    <2>3. pick \in 0..len
      <3> HIDE DEF len
      <3> QED
        BY <2>2
    <2> HIDE DEF pick
    <2>4. /\ s.at = screen.at /\ s.sid = screen.sid /\ s.cur = screen.cur /\ s.choices = screen.choices
          /\ s.pick = pick
      BY <1>0 DEF ScreenShape
    <2> HIDE DEF s
    <2>5. ScreenOK(s, Servers)
      BY <1>0, <1>3, <2>3, <2>4 DEF ScreenOK, CycleJumpHost, At, OfServer
    <2> QED
      BY <1>3, <2>1, <2>4, <2>5, ShowOK DEF CycleJumpHost, At, Key, Quiet, Calm, Servers, s, pick
  <1>4. ASSUME screen.at = "form", NEW servers, IdsOf(Servers) \subseteq IdsOf(servers)
        PROVE  LET s == [screen EXCEPT !.err = TRUE] IN ScreenOK(s, servers) /\ s.at = "form"
    <2> DEFINE s == [screen EXCEPT !.err = TRUE]
    <2>1. /\ s.at = screen.at /\ s.sid = screen.sid /\ s.cur = screen.cur /\ s.choices = screen.choices
          /\ s.pick = screen.pick
      BY <1>0 DEF ScreenShape
    <2> HIDE DEF s
    <2>2. ScreenOK(s, servers)
      BY <1>0, <1>4, <2>1 DEF ScreenOK, OfServer
    <2> QED
      BY <1>4, <2>1, <2>2 DEF s
  <1>5. ASSUME RefuseForm PROVE ScreensInv'
    <2>1. screen.at = "form" /\ app = "open" /\ app' = app /\ mem'.servers = Servers
          /\ Show([screen EXCEPT !.err = TRUE])
      BY <1>5 DEF RefuseForm, At, Key, Quiet, Calm, Servers
    <2>2. LET s == [screen EXCEPT !.err = TRUE] IN ScreenOK(s, Servers) /\ s.at = "form"
      BY <1>4, <2>1
    <2> QED
      BY <2>1, <2>2, ShowOK
  <1>6. ASSUME SubmitForm PROVE ScreensInv'
    <2>1. screen.at = "form" /\ app = "open" /\ app' = app
      BY <1>6 DEF SubmitForm, At, Key
    <2>2. PICK servers, ok, anchor :
             /\ Keep(WithServers(servers), ok)
             /\ BackToMenu(servers, mem.sort, anchor) \/ Show([screen EXCEPT !.err = TRUE])
      BY <1>6 DEF SubmitForm
    <2>3. mem'.servers = servers
      BY <1>0, <2>2, KeptServers
    <2>4. IdsOf(Servers) \subseteq IdsOf(mem'.servers)
      BY <2>1, IdsStay DEF AppInv
    <2>5. LET s == [screen EXCEPT !.err = TRUE] IN ScreenOK(s, mem'.servers) /\ s.at = "form"
      BY <1>4, <2>1, <2>4
    <2>6. CASE BackToMenu(servers, mem.sort, anchor)
      BY <1>0, <2>1, <2>3, <2>6, BackOK
    <2>7. CASE Show([screen EXCEPT !.err = TRUE])
      BY <2>1, <2>5, <2>7, ShowsOK
    <2> QED
      BY <2>2, <2>6, <2>7
  <1>7. ASSUME ConfirmDelete PROVE ScreensInv'
    <2>1. PICK servers, ok : Keep(WithServers(servers), ok) /\ BackToMenu(servers, mem.sort, screen.sid)
      BY <1>7 DEF ConfirmDelete
    <2>2. mem'.servers = servers
      BY <1>0, <2>1, KeptServers
    <2> QED
      BY <1>0, <1>7, <2>1, <2>2, BackOK DEF ConfirmDelete, At, Key
  <1> QED
    BY <1>1, <1>2, <1>3, <1>5, <1>6, <1>7 DEF ServerKey

\* The server that a screen is opened on.
LEMMA HereIs ==
    ASSUME VaultInv, ScreensInv, screen.at \in OfServer
    PROVE  /\ screen.sid \in IdsOf(Servers) /\ screen.sid # 0
           /\ IsList(Scripts) /\ IsList(Rules) /\ Len(Scripts) \in Nat /\ Len(Rules) \in Nat
           /\ DOMAIN Scripts = 1..Len(Scripts) /\ DOMAIN Rules = 1..Len(Rules)
  <1>1. screen.sid \in IdsOf(Servers) /\ screen.sid # 0 /\ IsVault(Servers, nextId)
    BY DEF ScreensInv, ScreenOK, VaultInv, Servers
  <1>2. PICK i \in DOMAIN Servers : Find(Servers, screen.sid) = Servers[i]
    BY <1>1, FoundIn
  <1>3. IsList(Scripts) /\ IsList(Rules)
    BY <1>1, <1>2 DEF IsVault, IsServer, Scripts, Rules, Here
  <1> QED
    BY <1>1, <1>3, Lists

\* The cursor of a list of as many rows as the screen has.
LEMMA CursorOK ==
    ASSUME ScreensInv, ScreenShape(screen), NEW rows \in Nat, OnRow(screen.cur, rows), NEW up \in BOOLEAN,
           \/ screen.at = "scripts" /\ rows = Len(Scripts)
           \/ screen.at = "forwards" /\ rows = Len(Rules)
           \/ screen.at = "targets" /\ rows = Len(Servers)
           \/ screen.at = "import" /\ rows = Len(screen.rows)
    PROVE  LET s == [screen EXCEPT !.cur = Moved(screen.cur, up, rows)]
           IN ScreenOK(s, Servers) /\ s.at = screen.at
  <1> DEFINE cur == Moved(screen.cur, up, rows)
             s == [screen EXCEPT !.cur = cur]
  <1>1. OnRow(cur, rows)
    BY MovedOK
  <1> HIDE DEF cur
  <1>2. /\ s.at = screen.at /\ s.sid = screen.sid /\ s.cur = cur /\ s.choices = screen.choices
        /\ s.pick = screen.pick /\ s.rows = screen.rows /\ s.item = screen.item
    BY DEF ScreenShape
  <1> HIDE DEF s
  <1>3. ScreenOK(s, Servers)
    BY <1>1, <1>2 DEF ScreensInv, ScreenOK, OfServer, Scripts, Rules, Here, OnRow
  <1> QED
    BY <1>2, <1>3 DEF s, cur

\* A screen on an entry of the list that was shown.
LEMMA ItemOK ==
    ASSUME NEW servers, NEW s, s.sid \in IdsOf(servers), s.sid # 0, s.cur = 0, IsList(s.choices),
           s.at \in {"scriptform", "scriptconfirm", "forwardform", "forwardconfirm", "targets", "run"},
           s.at \in {"scriptform", "scriptconfirm"} => s.item \in IdsOf(Find(servers, s.sid).scripts),
           s.at \in {"forwardform", "forwardconfirm"} => s.item \in IdsOf(Find(servers, s.sid).forwards),
           \A k \in DOMAIN s.choices : s.choices[k] \in IdsOf(servers)
    PROVE  ScreenOK(s, servers)
  <1>1. \A n : OnRow(0, n)
    BY DEF OnRow
  <1> QED
    BY <1>1 DEF ScreenOK

LEMMA RunOrderOK ==
    ASSUME IsList(Servers), NEW checked
    PROVE  /\ IsList(RunOrder(checked))
           /\ \A k \in DOMAIN RunOrder(checked) : RunOrder(checked)[k] \in IdsOf(Servers)
  <1> DEFINE ids == IdList(Servers)
             places == {i \in DOMAIN Servers : Servers[i].id \in checked}
  <1>1. IsList(ids) /\ DOMAIN ids = DOMAIN Servers /\ \A k \in DOMAIN ids : ids[k] \in IdsOf(Servers)
    BY IdsAreList
  <1>2. places \subseteq DOMAIN ids /\ RunOrder(checked) = EntriesAt(ids, places)
    BY <1>1 DEF RunOrder
  <1> HIDE DEF ids, places
  <1> DEFINE e == EntriesAt(ids, places)
  <1>3. PICK f : /\ IsList(e) /\ f \in [DOMAIN e -> places]
                 /\ \A k \in DOMAIN e : e[k] = ids[f[k]]
    BY <1>1, <1>2, ChosenEntries
  <1> HIDE DEF e
  <1>4. \A k \in DOMAIN e : f[k] \in DOMAIN ids
    BY <1>2, <1>3
  <1>5. \A k \in DOMAIN e : e[k] \in IdsOf(Servers)
    BY <1>1, <1>3, <1>4
  <1> QED
    BY <1>2, <1>3, <1>5 DEF e

LEMMA ChoicesOK ==
    ASSUME ScreensInv, ScreenShape(screen), screen.at = "targets", IsList(Servers), NEW checked
    PROVE  LET s == [screen EXCEPT !.choices = RunOrder(checked)]
           IN ScreenOK(s, Servers) /\ s.at = "targets"
  <1> DEFINE list == RunOrder(checked)
             s == [screen EXCEPT !.choices = list]
  <1>1. IsList(list) /\ \A k \in DOMAIN list : list[k] \in IdsOf(Servers)
    BY RunOrderOK
  <1> HIDE DEF list
  <1>2. /\ s.at = screen.at /\ s.sid = screen.sid /\ s.cur = screen.cur /\ s.choices = list
        /\ s.pick = screen.pick
    BY DEF ScreenShape
  <1> HIDE DEF s
  <1>4. ScreenOK(s, Servers)
    BY <1>1, <1>2 DEF ScreensInv, ScreenOK
  <1> QED
    BY <1>2, <1>4 DEF s, list

\* The list of a server gets another entry, or loses one.
LEMMA GrownIds ==
    ASSUME NEW list, IsList(list), NEW x PROVE IdsOf(list) \subseteq IdsOf(Append(list, x))
  <1> DEFINE new == Append(list, x)
  <1>1. IsList(new) /\ Len(new) = Len(list) + 1 /\ \A i \in DOMAIN list : new[i] = list[i]
    BY AppendedList
  <1> HIDE DEF new
  <1>2. DOMAIN list \subseteq DOMAIN new
    BY <1>1, Lists
  <1>3. IdsOf(list) \subseteq IdsOf(new)
    BY <1>1, <1>2 DEF IdsOf
  <1> QED
    BY <1>3 DEF new

LEMMA ReplacedIds ==
    ASSUME NEW list, IsList(list), NEW new, new = [k \in DOMAIN list |-> new[k]],
           \A k \in DOMAIN list : new[k].id = list[k].id
    PROVE  IdsOf(new) = IdsOf(list) /\ Len(new) = Len(list) /\ IsList(new)
  <1>1. IsList(new) /\ Len(new) = Len(list) /\ DOMAIN new = DOMAIN list
    BY MappedList
  <1> QED
    BY <1>1 DEF IdsOf

LEMMA ScriptKeyScreens ==
    ASSUME AppInv, ScreensInv, ScriptKey, DeskEdit PROVE ScreensInv'
  <1>0. /\ IsList(Servers) /\ Len(Servers) \in Nat /\ Shape(mem) /\ IsVault(Servers, nextId)
        /\ ScreenShape(screen) /\ ScreenOK(screen, Servers) /\ VaultInv
    BY Lists DEF AppInv, VaultInv, IsVault, Servers, OpenInv, ScreensInv
  <1>1. ASSUME MoveScript PROVE ScreensInv'
    <2>1. PICK up \in BOOLEAN : Show([screen EXCEPT !.cur = Moved(screen.cur, up, Len(Scripts))])
      BY <1>1 DEF MoveScript, MoveRow
    <2>2. screen.at = "scripts" /\ app = "open" /\ app' = app /\ mem'.servers = Servers
      BY <1>1 DEF MoveScript, MoveRow, At, Key, Quiet, Calm, Servers
    <2>3. Len(Scripts) \in Nat /\ OnRow(screen.cur, Len(Scripts))
      BY <1>0, <2>2, HereIs DEF ScreenOK, OfServer, Scripts, Here
    <2> QED
      BY <1>0, <2>1, <2>2, <2>3, CursorOK, ShowOK
  <1>2. ASSUME MoveTarget PROVE ScreensInv'
    <2>1. PICK up \in BOOLEAN : Show([screen EXCEPT !.cur = Moved(screen.cur, up, Len(Servers))])
      BY <1>2 DEF MoveTarget, MoveRow
    <2>2. screen.at = "targets" /\ app = "open" /\ app' = app /\ mem'.servers = Servers
      BY <1>2 DEF MoveTarget, MoveRow, At, Key, Quiet, Calm, Servers
    <2>3. OnRow(screen.cur, Len(Servers))
      BY <1>0, <2>2 DEF ScreenOK
    <2> QED
      BY <1>0, <2>1, <2>2, <2>3, CursorOK, ShowOK
  <1>3. ASSUME NEW at, at \in OfServer, screen.at \in OfServer, app = "open", app' = app,
               Show(Screen(at, screen.sid)), screen.sid \in IdsOf(mem'.servers)
        PROVE  ScreensInv'
    <2>1. screen.sid # 0
      BY <1>0, <1>3, HereIs
    <2>2. ScreenOK(Screen(at, screen.sid), mem'.servers) /\ Screen(at, screen.sid).at # "menu"
      BY <1>3, <2>1, NewScreenOK, ScreenIs DEF OfServer
    <2> QED
      BY <1>3, <2>2, ShowsOK DEF OfServer
  <1>4. ASSUME GoScriptAdd PROVE ScreensInv'
    <2>1. screen.at = "scripts" /\ app = "open" /\ app' = app /\ mem'.servers = Servers
          /\ Show(Screen("scriptform", screen.sid))
      BY <1>4 DEF GoScriptAdd, At, Key, Quiet, Calm, Servers
    <2>2. screen.sid \in IdsOf(Servers)
      BY <1>0, <2>1, HereIs DEF OfServer
    <2> QED
      BY <1>3, <2>1, <2>2 DEF OfServer
  <1>5. ASSUME BackToScripts PROVE ScreensInv'
    <2>1. screen.at \in OfServer /\ app = "open" /\ app' = app /\ mem'.servers = Servers
          /\ Show(Screen("scripts", screen.sid))
      BY <1>5 DEF BackToScripts, Key, Quiet, Calm, Servers, ScriptsList, OfServer
    <2>2. screen.sid \in IdsOf(Servers)
      BY <1>0, <2>1, HereIs
    <2> QED
      BY <1>3, <2>1, <2>2 DEF OfServer
  <1>6. ASSUME GoScriptEdit \/ GoScriptDelete \/ GoScriptTargets PROVE ScreensInv'
    <2>1. screen.at = "scripts" /\ app = "open" /\ app' = app /\ mem'.servers = Servers
          /\ screen.cur < Len(Scripts)
      BY <1>6 DEF GoScriptEdit, GoScriptDelete, GoScriptTargets, OnScript, At, Key, Quiet, Calm, Servers
    <2> DEFINE item == Scripts[screen.cur + 1].id
    <2>2. screen.sid \in IdsOf(Servers) /\ screen.sid # 0 /\ item \in IdsOf(Scripts)
      <3>1. /\ screen.sid \in IdsOf(Servers) /\ screen.sid # 0
            /\ Len(Scripts) \in Nat /\ DOMAIN Scripts = 1..Len(Scripts)
        BY <1>0, <2>1, HereIs DEF OfServer
      <3>2. screen.cur \in Nat
        BY <1>0 DEF ScreenOK
      <3>3. screen.cur + 1 \in DOMAIN Scripts
        BY <2>1, <3>1, <3>2
      <3> QED
        BY <3>1, <3>3 DEF IdsOf
    <2> HIDE DEF item
    <2>3. item \in IdsOf(Find(Servers, screen.sid).scripts)
      BY <2>2 DEF Scripts, Here
    <2> DEFINE one == <<screen.sid>>
    <2>4. IsList(one) /\ \A k \in DOMAIN one : one[k] \in IdsOf(Servers)
      <3>1. one \in Seq({screen.sid})
        OBVIOUS
      <3>2. \A k \in DOMAIN one : one[k] = screen.sid
        OBVIOUS
      <3> HIDE DEF one
      <3> QED
        BY <2>2, <3>1, <3>2, SeqIsList
    <2> HIDE DEF one
    <2>5. ASSUME NEW at \in {"scriptform", "scriptconfirm", "targets"}, NEW s, Show(s), s.at = at,
                 ScreenOK(s, Servers)
          PROVE  ScreensInv'
      BY <2>1, <2>5, ShowsOK
    <2>8. ASSUME NEW at \in {"scriptform", "scriptconfirm"}, OnScript(at) PROVE ScreensInv'
      <3> DEFINE s == [Screen(at, screen.sid) EXCEPT !.item = item]
      <3>1. /\ s.at = at /\ s.sid = screen.sid /\ s.cur = 0 /\ s.choices = <<>> /\ s.item = item
        BY ScreenIs DEF Fields
      <3> HIDE DEF s
      <3>2. ScreenOK(s, Servers)
        BY <2>2, <2>3, <2>8, <3>1, ItemOK, NoList
      <3> QED
        BY <2>5, <2>8, <3>1, <3>2 DEF OnScript, item, s
    <2>9. ASSUME GoScriptTargets PROVE ScreensInv'
      <3> DEFINE s == [Screen("targets", screen.sid) EXCEPT !.item = item, !.choices = one]
      <3>1. s.at = "targets" /\ s.sid = screen.sid /\ s.cur = 0 /\ s.choices = one
        BY ScreenIs DEF Fields
      <3> HIDE DEF s
      <3>2. ScreenOK(s, Servers)
        BY <2>2, <2>4, <3>1, ItemOK
      <3> QED
        BY <2>5, <2>9, <3>1, <3>2 DEF GoScriptTargets, item, one, s
    <2> QED
      BY <1>6, <2>8, <2>9 DEF GoScriptEdit, GoScriptDelete
  <1>7. ASSUME ToggleTarget \/ ToggleAllTargets PROVE ScreensInv'
    <2>1. PICK checked : Show([screen EXCEPT !.choices = RunOrder(checked)])
      BY <1>7 DEF ToggleTarget, ToggleAllTargets
    <2>2. screen.at = "targets" /\ app = "open" /\ app' = app /\ mem'.servers = Servers
      BY <1>7 DEF ToggleTarget, ToggleAllTargets, At, Key, Quiet, Calm, Servers
    <2> QED
      BY <1>0, <2>1, <2>2, ChoicesOK, ShowsOK
  <1>8. ASSUME ConfirmDeleteScript PROVE ScreensInv'
    <2>1. screen.at = "scriptconfirm" /\ app = "open" /\ app' = app /\ Show(Screen("scripts", screen.sid))
      BY <1>8 DEF ConfirmDeleteScript, At, Key, ScriptsList
    <2>2. screen.sid \in IdsOf(mem'.servers)
      BY <1>0, <2>1, HereIs, IdsStay DEF OfServer
    <2> QED
      BY <1>3, <2>1, <2>2 DEF OfServer
  <1>9. ASSUME SubmitScriptForm PROVE ScreensInv'
    <2>1. screen.at = "scriptform" /\ app = "open" /\ app' = app
      BY <1>9 DEF SubmitScriptForm, At, Key
    <2>2. screen.sid \in IdsOf(Servers) /\ screen.sid # 0 /\ screen.sid \in IdsOf(mem'.servers)
      BY <1>0, <2>1, HereIs, IdsStay DEF OfServer
    <2>3. CASE Show(ScriptsList)
      BY <1>3, <2>1, <2>2, <2>3 DEF OfServer, ScriptsList
    <2>4. CASE Show([screen EXCEPT !.err = TRUE])
      <3>1. PICK data, ok :
               Keep(WithServers([i \in DOMAIN Servers |-> IF Servers[i].id = screen.sid
                 THEN [Servers[i] EXCEPT !.scripts =
                         IF screen.item = 0 THEN Append(Servers[i].scripts, NewScript(nextId, data))
                         ELSE Update(Servers[i].scripts, screen.item, LAMBDA s : NewScript(s.id, data))]
                 ELSE Servers[i]]), ok)
        BY <1>9 DEF SubmitScriptForm, InScripts, Edited, Update
      <3> DEFINE h(list) == IF screen.item = 0 THEN Append(list, NewScript(nextId, data))
                            ELSE Update(list, screen.item, LAMBDA s : NewScript(s.id, data))
                 g == [i \in DOMAIN Servers |-> [Servers[i] EXCEPT !.scripts = h(Servers[i].scripts)]]
                 new == [i \in DOMAIN Servers |-> IF Servers[i].id = screen.sid THEN g[i] ELSE Servers[i]]
      <3>2. mem'.servers = new
        <4>1. [i \in DOMAIN Servers |-> IF Servers[i].id = screen.sid
                 THEN [Servers[i] EXCEPT !.scripts =
                         IF screen.item = 0 THEN Append(Servers[i].scripts, NewScript(nextId, data))
                         ELSE Update(Servers[i].scripts, screen.item, LAMBDA s : NewScript(s.id, data))]
                 ELSE Servers[i]] = new
          OBVIOUS
        <4> HIDE DEF new
        <4> QED
          BY <1>0, <3>1, <4>1, KeptServers
      <3>3. ASSUME NEW i \in DOMAIN Servers
            PROVE  /\ g[i].id = Servers[i].id /\ g[i].scripts = h(Servers[i].scripts)
                   /\ IsList(Servers[i].scripts)
        <4>1. {"id", "scripts"} \subseteq DOMAIN Servers[i]
          BY <1>0, ServerFields DEF IsVault
        <4>2. IsList(Servers[i].scripts)
          BY <1>0, ServerRules
        <4> QED
          BY <4>1, <4>2
      <3>4. ASSUME NEW list, IsList(list) PROVE IdsOf(list) \subseteq IdsOf(h(list))
        <4> DEFINE n == Update(list, screen.item, LAMBDA s : NewScript(s.id, data))
        <4>1. n = [k \in DOMAIN list |-> n[k]] /\ \A k \in DOMAIN list : n[k].id = list[k].id
          BY DEF Update, NewScript
        <4>2. h(list) \in {n, Append(list, NewScript(nextId, data))}
          OBVIOUS
        <4> HIDE DEF n, h
        <4>3. IdsOf(n) = IdsOf(list)
          BY <3>4, <4>1, ReplacedIds
        <4>4. \A x : IdsOf(list) \subseteq IdsOf(Append(list, x))
          BY <3>4, GrownIds
        <4> QED
          BY <4>2, <4>3, <4>4
      <3>5. PICK i \in DOMAIN Servers : /\ Servers[i].id = screen.sid /\ Find(Servers, screen.sid) = Servers[i]
                                        /\ Find(new, screen.sid) = new[i] /\ new[i] = g[i]
        <4>1. new = [i \in DOMAIN Servers |-> new[i]] /\ \A i \in DOMAIN Servers : new[i].id = Servers[i].id
          BY <3>3
        <4>2. \A i \in DOMAIN Servers : Servers[i].id = screen.sid => new[i] = g[i]
          OBVIOUS
        <4> HIDE DEF new, g
        <4>3. PICK all : all = Servers
          OBVIOUS
        <4>4. \E i \in DOMAIN all : /\ all[i].id = screen.sid /\ Find(all, screen.sid) = all[i]
                                   /\ Find(new, screen.sid) = new[i]
          BY <1>0, <2>2, <4>1, <4>3, SameIds
        <4> QED
          BY <4>2, <4>3, <4>4
      <3> HIDE DEF h, g, new
      <3>6. IdsOf(Find(Servers, screen.sid).scripts) \subseteq IdsOf(Find(new, screen.sid).scripts)
        BY <3>3, <3>4, <3>5
      <3> DEFINE s == [screen EXCEPT !.err = TRUE]
      <3>7. /\ s.at = screen.at /\ s.sid = screen.sid /\ s.cur = screen.cur /\ s.choices = screen.choices
            /\ s.item = screen.item
        BY <1>0 DEF ScreenShape
      <3>8. IdsOf(Servers) \subseteq IdsOf(mem'.servers)
        BY <1>0, <2>1, IdsStay
      <3> HIDE DEF s
      <3>9. ScreenOK(s, mem'.servers)
        BY <1>0, <2>1, <2>2, <3>2, <3>6, <3>7, <3>8 DEF ScreenOK, OfServer
      <3> QED
        BY <2>1, <2>4, <3>7, <3>9, ShowsOK DEF s
    <2> QED
      BY <1>9, <2>3, <2>4 DEF SubmitScriptForm
  <1> QED
    BY <1>1, <1>2, <1>4, <1>5, <1>6, <1>7, <1>8, <1>9 DEF ScriptKey

LEMMA RuleKeyScreens ==
    ASSUME AppInv, ScreensInv, RuleKey, DeskEdit PROVE ScreensInv'
  <1>0. /\ IsList(Servers) /\ Shape(mem) /\ IsVault(Servers, nextId)
        /\ ScreenShape(screen) /\ ScreenOK(screen, Servers) /\ VaultInv
    BY DEF AppInv, VaultInv, IsVault, Servers, OpenInv, ScreensInv
  <1>1. ASSUME MoveRule PROVE ScreensInv'
    <2>1. PICK up \in BOOLEAN : Show([screen EXCEPT !.cur = Moved(screen.cur, up, Len(Rules))])
      BY <1>1 DEF MoveRule, MoveRow
    <2>2. screen.at = "forwards" /\ app = "open" /\ app' = app /\ mem'.servers = Servers
      BY <1>1 DEF MoveRule, MoveRow, At, Key, Quiet, Calm, Servers
    <2>3. Len(Rules) \in Nat /\ OnRow(screen.cur, Len(Rules))
      BY <1>0, <2>2, HereIs DEF ScreenOK, OfServer, Rules, Here
    <2> QED
      BY <1>0, <2>1, <2>2, <2>3, CursorOK, ShowOK
  <1>2. ASSUME NEW at, at \in OfServer, screen.at \in OfServer, app = "open", app' = app,
               Show(Screen(at, screen.sid))
        PROVE  ScreensInv'
    <2>1. (screen.sid # 0 /\ screen.sid \in IdsOf(mem'.servers)) \/ screen.at = "confirm"
      BY <1>0, <1>2, HereIs, IdsStay
    <2>2. CASE screen.sid # 0 /\ screen.sid \in IdsOf(mem'.servers)
      <3>1. ScreenOK(Screen(at, screen.sid), mem'.servers) /\ Screen(at, screen.sid).at # "menu"
        BY <1>2, <2>2, NewScreenOK, ScreenIs DEF OfServer
      <3> QED
        BY <1>2, <3>1, ShowsOK DEF OfServer
    <2>3. CASE screen.at = "confirm"
      BY <2>3 DEF RuleKey, MoveRule, MoveRow, GoForwardAdd, GoForwardEdit, GoForwardDelete, OnRule,
                  BackToForwards, ToggleForward, SubmitForwardForm, ConfirmDeleteForward, At
    <2> QED
      BY <2>1, <2>2, <2>3
  <1>3. ASSUME GoForwardAdd PROVE ScreensInv'
    BY <1>2, <1>3 DEF GoForwardAdd, At, Key, Quiet, Calm, OfServer
  <1>4. ASSUME BackToForwards PROVE ScreensInv'
    BY <1>2, <1>4 DEF BackToForwards, Key, Quiet, Calm, OfServer, RulesList
  <1>5. ASSUME SubmitForwardForm PROVE ScreensInv'
    BY <1>2, <1>5 DEF SubmitForwardForm, MutateForwards, At, Key, OfServer, RulesList
  <1>6. ASSUME ConfirmDeleteForward PROVE ScreensInv'
    BY <1>2, <1>6 DEF ConfirmDeleteForward, MutateForwards, At, Key, OfServer, RulesList
  <1>7. ASSUME NEW at \in {"forwardform", "forwardconfirm"}, OnRule(at) PROVE ScreensInv'
    <2>1. screen.at = "forwards" /\ app = "open" /\ app' = app /\ mem'.servers = Servers
          /\ screen.cur < Len(Rules)
      BY <1>7 DEF OnRule, At, Key, Quiet, Calm, Servers
    <2> DEFINE item == Rules[screen.cur + 1].id
               s == [Screen(at, screen.sid) EXCEPT !.item = item]
    <2>2. screen.sid \in IdsOf(Servers) /\ screen.sid # 0 /\ item \in IdsOf(Find(Servers, screen.sid).forwards)
      <3>1. /\ screen.sid \in IdsOf(Servers) /\ screen.sid # 0
            /\ Len(Rules) \in Nat /\ DOMAIN Rules = 1..Len(Rules)
        BY <1>0, <2>1, HereIs DEF OfServer
      <3>2. screen.cur \in Nat
        BY <1>0 DEF ScreenOK
      <3>3. screen.cur + 1 \in DOMAIN Rules
        BY <2>1, <3>1, <3>2
      <3> QED
        BY <3>1, <3>3 DEF IdsOf, Rules, Here
    <2> HIDE DEF item
    <2>3. s.at = at /\ s.sid = screen.sid /\ s.cur = 0 /\ s.choices = <<>> /\ s.item = item
      BY ScreenIs DEF Fields
    <2> HIDE DEF s
    <2>4. ScreenOK(s, Servers)
      BY <1>7, <2>2, <2>3, ItemOK, NoList
    <2> QED
      BY <1>7, <2>1, <2>3, <2>4, ShowsOK DEF OnRule, item, s
  <1>8. ASSUME ToggleForward PROVE ScreensInv'
    <2>1. PICK id, ok :
           Keep(WithServers([i \in DOMAIN Servers |-> IF Servers[i].id = screen.sid
             THEN [Servers[i] EXCEPT !.forwards =
                     [k \in DOMAIN Servers[i].forwards |->
                        IF Servers[i].forwards[k].id = id
                        THEN [Servers[i].forwards[k] EXCEPT !.enabled = ~Servers[i].forwards[k].enabled]
                        ELSE Servers[i].forwards[k]]]
             ELSE Servers[i]]), ok)
      BY <1>8 DEF ToggleForward, MutateForwards, InRules, Edited, Update
    <2> DEFINE h(list) == [k \in DOMAIN list |->
                        IF list[k].id = id THEN [list[k] EXCEPT !.enabled = ~list[k].enabled] ELSE list[k]]
               new == [i \in DOMAIN Servers |-> IF Servers[i].id = screen.sid
                         THEN [Servers[i] EXCEPT !.forwards = h(Servers[i].forwards)] ELSE Servers[i]]
    <2>2. mem'.servers = new
      <3>1. Keep(WithServers(new), ok)
        BY <2>1
      <3> HIDE DEF new
      <3> QED
        BY <1>0, <3>1, KeptServers
    <2>3. screen.at = "forwards" /\ app = "open" /\ app' = app /\ Show(screen)
          /\ screen.sid \in IdsOf(Servers)
      BY <1>0, <1>8, HereIs DEF ToggleForward, MutateForwards, At, Key, OfServer
    <2>4. screen.sid \in IdsOf(mem'.servers) /\ IdsOf(Servers) \subseteq IdsOf(mem'.servers)
      BY <1>0, <2>3, IdsStay
    <2>5. PICK i \in DOMAIN Servers : /\ Servers[i].id = screen.sid /\ Find(Servers, screen.sid) = Servers[i]
                                      /\ Find(new, screen.sid) = new[i]
                                      /\ new[i].forwards = h(Servers[i].forwards)
      <3>0. ASSUME NEW i \in DOMAIN Servers
            PROVE  /\ new[i].id = Servers[i].id
                   /\ Servers[i].id = screen.sid => new[i].forwards = h(Servers[i].forwards)
        <4>1. {"id", "forwards"} \subseteq DOMAIN Servers[i]
          BY <1>0, ServerFields DEF IsVault
        <4> HIDE DEF h
        <4> QED
          BY <4>1
      <3>1. new = [i \in DOMAIN Servers |-> new[i]]
        OBVIOUS
      <3> HIDE DEF new, h
      <3>2. PICK all : all = Servers
        OBVIOUS
      <3>3. \E i \in DOMAIN all : /\ all[i].id = screen.sid /\ Find(all, screen.sid) = all[i]
                                 /\ Find(new, screen.sid) = new[i]
        BY <1>0, <2>3, <3>0, <3>1, <3>2, SameIds
      <3> QED
        BY <3>0, <3>2, <3>3
    <2>6. Len(h(Servers[i].forwards)) = Len(Servers[i].forwards)
      <3>1. PICK list : list = Servers[i].forwards
        OBVIOUS
      <3>2. IsList(list)
        BY <1>0, <3>1, ServerRules
      <3> DEFINE n == h(list)
      <3>3. n = [k \in DOMAIN list |-> n[k]]
        OBVIOUS
      <3> HIDE DEF n
      <3>4. Len(n) = Len(list)
        BY <3>2, <3>3, MappedList
      <3> QED
        BY <3>1, <3>4 DEF n
    <2> HIDE DEF new, h
    <2>7. Len(Find(mem'.servers, screen.sid).forwards) = Len(Find(Servers, screen.sid).forwards)
      BY <2>2, <2>5, <2>6
    <2>8. ScreenOK(screen, mem'.servers)
      BY <1>0, <2>3, <2>4, <2>7 DEF ScreenOK, OfServer
    <2> QED
      BY <2>3, <2>8, ShowsOK
  <1> QED
    BY <1>1, <1>3, <1>4, <1>5, <1>6, <1>7, <1>8 DEF RuleKey, GoForwardEdit, GoForwardDelete

\* Other boxes are ticked in the rows of the import.
LEMMA TickedOK ==
    ASSUME ScreensInv, ScreenShape(screen), screen.at = "import", NEW rows,
           rows = [k \in DOMAIN screen.rows |-> rows[k]]
    PROVE  LET s == [screen EXCEPT !.rows = rows] IN ScreenOK(s, Servers) /\ s.at = "import"
  <1> DEFINE s == [screen EXCEPT !.rows = rows]
  <1>1. IsList(screen.rows) /\ OnRow(screen.cur, Len(screen.rows))
    BY DEF ScreensInv, ScreenOK
  <1>2. IsList(rows) /\ Len(rows) = Len(screen.rows)
    BY <1>1, MappedList
  <1>3. /\ s.at = screen.at /\ s.sid = screen.sid /\ s.cur = screen.cur /\ s.choices = screen.choices
        /\ s.rows = rows
    BY DEF ScreenShape
  <1> HIDE DEF s
  <1>4. ScreenOK(s, Servers)
    BY <1>1, <1>2, <1>3 DEF ScreensInv, ScreenOK, OfServer
  <1> QED
    BY <1>3, <1>4 DEF s

LEMMA ErrorOK ==
    ASSUME ScreensInv, ScreenShape(screen), screen.at \in {"import", "settings"}, NEW err
    PROVE  LET s == [screen EXCEPT !.err = err] IN ScreenOK(s, Servers) /\ s.at = screen.at
  <1> DEFINE s == [screen EXCEPT !.err = err]
  <1>3. /\ s.at = screen.at /\ s.sid = screen.sid /\ s.cur = screen.cur /\ s.choices = screen.choices
        /\ s.rows = screen.rows
    BY DEF ScreenShape
  <1> HIDE DEF s
  <1>4. ScreenOK(s, Servers)
    BY <1>3 DEF ScreensInv, ScreenOK, OfServer
  <1> QED
    BY <1>3, <1>4 DEF s

LEMMA OtherKeyScreens ==
    ASSUME AppInv, ScreensInv, OtherKey, VaultInv' PROVE ScreensInv'
  <1>0. /\ Shape(mem) /\ ScreenShape(screen) /\ ScreenOK(screen, Servers) /\ IsList(mem'.servers)
    BY DEF AppInv, VaultInv, IsVault, OpenInv, ScreensInv
  <1>1. ASSUME SaveSetting PROVE ScreensInv'
    <2>1. PICK ok \in BOOLEAN : Show([screen EXCEPT !.err = ~ok])
      BY <1>1 DEF SaveSetting
    <2>2. screen.at = "settings" /\ app = "open" /\ app' = app /\ mem'.servers = Servers
      BY <1>0, <1>1 DEF SaveSetting, KeepIfSaved, At, Key, Servers, Shape
    <2> QED
      BY <1>0, <2>1, <2>2, ErrorOK, ShowsOK
  <1>2. ASSUME MoveImport PROVE ScreensInv'
    <2>1. PICK up \in BOOLEAN : Show([screen EXCEPT !.cur = Moved(screen.cur, up, Len(screen.rows))])
      BY <1>2 DEF MoveImport, MoveRow
    <2>2. screen.at = "import" /\ app = "open" /\ app' = app /\ mem'.servers = Servers
      BY <1>2 DEF MoveImport, MoveRow, At, Key, Quiet, Calm, Servers
    <2>3. Len(screen.rows) \in Nat /\ OnRow(screen.cur, Len(screen.rows))
      BY <1>0, <2>2, Lists DEF ScreenOK
    <2> QED
      BY <1>0, <2>1, <2>2, <2>3, CursorOK, ShowsOK
  <1>3. ASSUME NEW rows, rows = [k \in DOMAIN screen.rows |-> rows[k]], Show([screen EXCEPT !.rows = rows]),
               At("import"), Quiet
        PROVE  ScreensInv'
    <2>1. screen.at = "import" /\ app = "open" /\ app' = app /\ mem'.servers = Servers
      BY <1>3 DEF At, Key, Quiet, Calm, Servers
    <2>2. LET s == [screen EXCEPT !.rows = rows] IN ScreenOK(s, Servers) /\ s.at = "import"
      BY <1>0, <1>3, <2>1, TickedOK
    <2> QED
      BY <1>3, <2>1, <2>2, ShowsOK
  <1>4. ASSUME ToggleImport PROVE ScreensInv'
    <2> DEFINE k == screen.cur + 1
               rows == [screen.rows EXCEPT ![k].checked = ~screen.rows[k].checked]
    <2>1. Show([screen EXCEPT !.rows = rows]) /\ At("import") /\ Quiet
      BY <1>0, <1>4 DEF ToggleImport, ScreenShape
    <2>2. rows = [i \in DOMAIN screen.rows |-> rows[i]]
      OBVIOUS
    <2> HIDE DEF rows
    <2> QED
      BY <1>3, <2>1, <2>2
  <1>5. ASSUME ToggleAllImports PROVE ScreensInv'
    <2>1. PICK want : Show([screen EXCEPT !.rows = CheckAll(screen.rows, want)])
      BY <1>5 DEF ToggleAllImports
    <2> DEFINE rows == CheckAll(screen.rows, want)
    <2>2. rows = [i \in DOMAIN screen.rows |-> rows[i]]
      BY DEF CheckAll
    <2> HIDE DEF rows
    <2> QED
      BY <1>3, <1>5, <2>1, <2>2 DEF ToggleAllImports, rows
  <1>6. ASSUME ImportSshHosts PROVE ScreensInv'
    <2>1. screen.at = "import" /\ app = "open" /\ app' = app
      BY <1>6 DEF ImportSshHosts, At, Key
    <2>2. \/ mem'.servers = Servers \o Imported /\ BackToMenu(Servers \o Imported, mem.sort, 0)
          \/ mem'.servers = Servers /\ Show([screen EXCEPT !.err = TRUE])
      BY <1>0, <1>6 DEF ImportSshHosts, KeepIfSaved, WithServers, Shape, Servers
    <2>3. CASE mem'.servers = Servers \o Imported /\ BackToMenu(Servers \o Imported, mem.sort, 0)
      <3>1. PICK servers : servers = Servers \o Imported
        OBVIOUS
      <3>2. IsList(servers) /\ mem'.servers = servers /\ BackToMenu(servers, mem.sort, 0)
        BY <1>0, <2>3, <3>1
      <3> QED
        BY <2>1, <3>2, BackOK
    <2>4. CASE mem'.servers = Servers /\ Show([screen EXCEPT !.err = TRUE])
      BY <1>0, <2>1, <2>4, ErrorOK, ShowsOK
    <2> QED
      BY <2>2, <2>3, <2>4
  <1> QED
    BY <1>1, <1>2, <1>4, <1>5, <1>6 DEF OtherKey

LEMMA DeskScreens ==
    ASSUME AppInv, ScreensInv, DeskNext, DeskEdit, VaultInv' PROVE ScreensInv'
  <1>1. ASSUME ExpireStatus PROVE ScreensInv'
    BY <1>1, MenuStays DEF ExpireStatus, Calm
  <1>2. ASSUME AutoLockIfIdle PROVE ScreensInv'
    BY <1>2, ForgetOK DEF AutoLockIfIdle
  <1>3. ASSUME Unlock PROVE ScreensInv'
    BY <1>3, FreshOK DEF Unlock, ScreensInv, Servers, NoScreen
  <1> QED
    BY <1>1, <1>2, <1>3, MenuKeyScreens, ServerKeyScreens, ScriptKeyScreens, RuleKeyScreens,
       OtherKeyScreens DEF DeskNext, DeskKey, DeskTimer

\* What a session does to the screen and the menu.
SessionView ==
    \/ UNCHANGED <<screen, menu, app>>
    \/ /\ UNCHANGED <<screen, app>> /\ menu' = [menu EXCEPT !.typing = FALSE]
       /\ screen.at = "menu" /\ app = "open" /\ pc = "idle"
    \/ screen' = NoScreen /\ menu' = FreshMenu /\ app' # "open"
    \/ /\ InFleet /\ pc # "idle" /\ UNCHANGED <<menu, app>> /\ mem' = mem
       /\ \E x : screen' = [Screen("run", screen.sid) EXCEPT !.item = x]

LEMMA SessionViews == ASSUME LeavesInv, SessionNext PROVE SessionView
  <1>1. ASSUME ConnectStep PROVE SessionView
    <2>1. Connect => SessionView
      BY DEF Connect, Fails, Goes, At, Key, SessionView
    <2>2. Failed => UNCHANGED <<screen, menu, app>>
      BY DEF Failed, Fails, desk
    <2> QED
      BY <1>1, <2>1, <2>2 DEF ConnectStep, Dial, Authenticate, Established, ConnectTick, SessionView, desk
  <1>2. ASSUME ForwardStep PROVE SessionView
    BY <1>2 DEF ForwardStep, StartForward, ForwardsStarted, AcceptForward, SocksHandshake, ChannelAnswer,
                PushedChannel, DialLocal, CloseConn, Others, SessionView, desk, Forget
  <1>3. ASSUME ScriptStep PROVE SessionView
    BY <1>3 DEF ScriptStep, SkipStep, StartStep, StepOutput, EndStep, ApplyEvents, ScriptEnds, ScriptsDone,
                InScript, SessionView, desk
  <1>4. ASSUME ShellStep PROVE SessionView
    BY <1>4 DEF ShellStep, StartShell, ShellRefused, TypeKeys, IgnoreKey, BridgeKeys, Tick, SwitchScreen, ProbeAnswers, PollAnswers,
                ShellReturns, ConnectEnds, RemoteEnds, EndSession, Metered, SessionView, desk, Forget
  <1>5. ASSUME FleetStep PROVE SessionView
    <2>1. RunScript \/ NextTarget => SessionView
      BY DEF RunScript, NextTarget, Goes, SessionView, desk
    <2>2. (RunEnds \/ RunTick) => pc # "idle" /\ InFleet
      BY DEF RunEnds, RunTick, LeavesInv, InFleet
    <2>3. RunEnds \/ RunTick => SessionView
      BY <2>2 DEF RunEnds, RunTick, ShowRun, Show, SessionView, desk
    <2> QED
      BY <1>5, <2>1, <2>3 DEF FleetStep
  <1> QED
    BY <1>1, <1>2, <1>3, <1>4, <1>5 DEF SessionNext

\* A run is of a script that was chosen on a screen of its server.
FleetInv == pc # "idle" /\ link.kind = "fleet" => screen.at \in {"scripts", "targets"}

FleetGoes ==
    \/ pc' = "idle" \/ link'.kind # "fleet"
    \/ screen' = screen /\ pc # "idle" /\ InFleet
    \/ screen' = screen /\ screen.at \in {"scripts", "targets"}

LEMMA FleetOn == ASSUME LeavesInv, Shape(mem), SessionNext PROVE FleetGoes
  <1>0. LinkShape(link) /\ NoLink.kind = "none"
    BY DEF LeavesInv, NoLink
  <1>1. ASSUME NEW x, NEW y, NEW z
        PROVE  /\ [link EXCEPT !.key = x].kind = link.kind /\ [link EXCEPT !.shell = x].kind = link.kind
               /\ [link EXCEPT !.learnt = x, !.left = y, !.key = z].kind = link.kind
    BY <1>0 DEF LinkShape
  <1>2. ASSUME UNCHANGED <<pc, link, screen>> PROVE FleetGoes
    BY <1>2 DEF FleetGoes, InFleet
  <1>3. ASSUME screen' = screen, link'.kind = link.kind, pc # "idle" PROVE FleetGoes
    BY <1>3 DEF FleetGoes, InFleet
  <1>4. Over => pc' = "idle"
    BY DEF Over, Reset
  <1>5. ASSUME ConnectStep PROVE FleetGoes
    <2>1. ASSUME Connect PROVE FleetGoes
      <3>1. CASE UNCHANGED <<pc, link>>
        BY <1>2, <2>1, <3>1 DEF Fails, Goes, Connect
      <3>2. CASE ~UNCHANGED <<pc, link>>
        <4>1. PICK mode \in {mem.mode, OtherMode(mem.mode)} : link' = Dialled(mode, Selected)
          BY <2>1, <3>2 DEF Connect
        <4>2. link'.kind = mode /\ mode # "fleet"
          BY <4>1, NewLink DEF Shape, Modes, OtherMode
        <4> QED
          BY <4>2 DEF FleetGoes
      <3> QED
        BY <3>1, <3>2
    <2>2. ASSUME Failed, pc # "idle" PROVE FleetGoes
      BY <1>4, <2>2 DEF Failed, FleetGoes, InFleet, desk
    <2>3. ASSUME Dial PROVE FleetGoes
      BY <1>1, <1>3, <2>2, <2>3 DEF Dial, desk
    <2>4. ASSUME Authenticate PROVE FleetGoes
      <3>1. CASE Failed
        BY <2>2, <2>4, <3>1 DEF Authenticate
      <3>2. CASE ~Failed
        <4>1. PICK learnt, left : link' = [link EXCEPT !.learnt = learnt, !.left = left, !.key = NoPin]
          BY <2>4, <3>2 DEF Authenticate
        <4>3. link'.kind = link.kind /\ pc # "idle"
          BY <1>1, <2>4, <4>1 DEF Authenticate
        <4>2. screen' = screen
          BY <2>4, <3>2 DEF Authenticate, Established, desk
        <4> QED
          BY <1>3, <4>2, <4>3
      <3> QED
        BY <3>1, <3>2
    <2>5. ConnectTick => pc' = "idle" \/ UNCHANGED <<pc, link, screen>>
      BY <1>4 DEF ConnectTick, desk
    <2> QED
      BY <1>2, <1>4, <1>5, <2>1, <2>3, <2>4, <2>5 DEF ConnectStep, FleetGoes
  <1>6. ASSUME ForwardStep PROVE FleetGoes
    <2>1. ForwardsStarted => FleetGoes
      BY <1>3, <1>4 DEF ForwardsStarted, FleetGoes, desk
    <2>2. StartForward => UNCHANGED <<pc, link, screen>>
      BY DEF StartForward, desk
    <2>3. AcceptForward \/ SocksHandshake \/ ChannelAnswer \/ PushedChannel \/ DialLocal \/ CloseConn
            => UNCHANGED <<pc, link, screen>>
      BY DEF AcceptForward, SocksHandshake, ChannelAnswer, PushedChannel, DialLocal, CloseConn, Others, desk
    <2> QED
      BY <1>2, <1>6, <2>1, <2>2, <2>3 DEF ForwardStep
  <1>7. ASSUME ScriptStep PROVE FleetGoes
    <2>1. ScriptEnds => FleetGoes
      BY <1>3 DEF ScriptEnds, FleetGoes, InFleet, desk
    <2>2. ScriptsDone => FleetGoes
      BY <1>3 DEF ScriptsDone, desk
    <2>3. SkipStep \/ StartStep \/ StepOutput \/ EndStep \/ ApplyEvents => UNCHANGED <<pc, link, screen>>
      BY DEF SkipStep, StartStep, StepOutput, EndStep, ApplyEvents, InScript, desk
    <2> QED
      BY <1>2, <1>7, <2>1, <2>2, <2>3 DEF ScriptStep
  <1>8. ASSUME ShellStep PROVE FleetGoes
    <2>1. StartShell \/ ShellReturns => screen' = screen /\ link'.kind = link.kind /\ pc # "idle"
      BY <1>1 DEF StartShell, ShellReturns, InShell, desk
    <2>2. EndSession(TRUE, probe = "ok") \/ EndSession(FALSE, probe = "ok") => pc' = "idle"
      BY <1>4 DEF EndSession
    <2>3. Tick => pc' = "idle" \/ UNCHANGED <<pc, link, screen>>
      BY <1>4, <2>2 DEF Tick, desk
    <2>4. ConnectEnds \/ RemoteEnds \/ ShellRefused => pc' = "idle"
      BY <1>4 DEF ConnectEnds, RemoteEnds, ShellRefused, EndSession
    <2>5. TypeKeys \/ IgnoreKey \/ BridgeKeys \/ SwitchScreen \/ ProbeAnswers \/ PollAnswers => UNCHANGED <<pc, link, screen>>
      BY DEF TypeKeys, IgnoreKey, BridgeKeys, SwitchScreen, ProbeAnswers, PollAnswers, Metered, desk
    <2>6. pc' = "idle" => FleetGoes
      BY DEF FleetGoes
    <2> QED
      BY <1>2, <1>3, <1>8, <2>1, <2>3, <2>4, <2>5, <2>6 DEF ShellStep
  <1>9. ASSUME FleetStep PROVE FleetGoes
    <2>1. RunScript => FleetGoes
      BY DEF RunScript, Goes, FleetGoes
    <2>2. NextTarget => screen' = screen /\ pc # "idle" /\ InFleet
      BY DEF NextTarget, LeavesInv, InFleet, desk
    <2>3. RunEnds \/ RunTick => pc' = "idle" \/ UNCHANGED <<pc, link, screen>>
      BY DEF RunEnds, RunTick, ShowRun, Reset, desk
    <2> QED
      BY <1>2, <1>9, <2>1, <2>2, <2>3 DEF FleetStep, FleetGoes
  <1> QED
    BY <1>5, <1>6, <1>7, <1>8, <1>9 DEF SessionNext

LEMMA FleetKept == ASSUME LeavesInv, Shape(mem), FleetInv, [Next]_vars PROVE FleetInv'
  <1>1. HandleKey1 => FleetInv'
    BY DEF HandleKey1, FleetInv
  <1>2. UNCHANGED vars => FleetInv'
    BY DEF vars, desk, session, FleetInv
  <1>3. SessionNext => FleetInv'
    BY FleetOn DEF FleetGoes, FleetInv, InFleet
  <1> QED
    BY <1>1, <1>2, <1>3 DEF Next

\* A session records pins and times: the rows and the screens stay.
LEMMA RecordedRows ==
    ASSUME AppInv, ScreensInv, Recorded, screen' = screen, menu' = menu, app' = app
    PROVE  ScreensInv'
  <1>1. IsVault(Servers, nextId) /\ IsList(Servers)
    BY DEF AppInv, VaultInv, IsVault, Servers
  <1>2. PICK o : mem'.servers = [i \in DOMAIN Servers |-> Pinned(o, Servers[i])]
    BY DEF Recorded
  <1>3. PICK new : new = mem'.servers
    OBVIOUS
  <1>4. DOMAIN new = DOMAIN Servers /\ new = [i \in DOMAIN Servers |-> new[i]]
        /\ \A i \in DOMAIN Servers : new[i] = Pinned(o, Servers[i])
    BY <1>2, <1>3
  <1>5. ASSUME NEW i \in DOMAIN Servers
        PROVE  /\ new[i].id = Servers[i].id /\ new[i].name = Servers[i].name /\ new[i].tag = Servers[i].tag
               /\ new[i].host = Servers[i].host /\ new[i].scripts = Servers[i].scripts
               /\ new[i].forwards = Servers[i].forwards
    BY <1>1, <1>4, PinnedIs DEF IsVault
  <1>6. \A f : RowsOf(new, f) = RowsOf(Servers, f)
    BY <1>4, <1>5, SameRowsIf
  <1>7. IdsOf(new) = IdsOf(Servers) /\ Len(new) = Len(Servers)
    BY <1>1, <1>4, <1>5, MappedList DEF IdsOf
  <1>8. ASSUME NEW sid \in IdsOf(Servers)
        PROVE  /\ Find(new, sid).scripts = Find(Servers, sid).scripts
               /\ Find(new, sid).forwards = Find(Servers, sid).forwards
    <2>1. PICK i \in DOMAIN Servers : Find(Servers, sid) = Servers[i] /\ Find(new, sid) = new[i]
      BY <1>1, <1>4, <1>5, SameIds
    <2> QED
      BY <1>5, <2>1
  <1>9. ScreenOK(screen, new)
    <2>1. ScreenOK(screen, Servers)
      BY DEF ScreensInv
    <2>2. screen.at \in OfServer => screen.sid \in IdsOf(Servers)
      BY <2>1 DEF ScreenOK
    <2>3. {"scriptform", "scriptconfirm", "forwardform", "forwardconfirm", "scripts", "forwards"}
            \subseteq OfServer
      BY DEF OfServer
    <2> QED
      BY <1>7, <1>8, <2>1, <2>2, <2>3 DEF ScreenOK
  <1>10. MenuOK(menu, new)
    BY <1>6 DEF ScreensInv, MenuOK
  <1> QED
    BY <1>3, <1>9, <1>10 DEF ScreensInv, Servers

LEMMA SessionKeepsScreens ==
    ASSUME AppInv, ScreensInv, FleetInv, LeavesInv, SessionNext, SessionEdit PROVE ScreensInv'
  <1>1. ASSUME screen' = NoScreen, menu' = FreshMenu PROVE ScreensInv'
    BY <1>1, FreshOK DEF ScreensInv, Servers, NoScreen
  <1>2. CASE Recorded
    <2>1. UNCHANGED <<screen, menu, app>> \/ (screen' = NoScreen /\ menu' = FreshMenu)
      BY <1>2, SessionViews DEF Recorded, SessionView
    <2> QED
      BY <1>1, <1>2, <2>1, RecordedRows DEF Recorded
  <1>3. CASE mem' = mem /\ app' = app
    <2>1. CASE UNCHANGED <<screen, menu, app>>
      BY <1>3, <2>1, MenuStays
    <2>2. CASE UNCHANGED <<screen, app>> /\ menu' = [menu EXCEPT !.typing = FALSE] /\ screen.at = "menu"
               /\ app = "open"
      <3>1. MenuShape(menu) /\ MenuOK(menu, Servers)
        BY DEF ScreensInv, MenuOK
      <3>2. MenuOK(menu', Servers)
        BY <2>2, <3>1, MenuFields DEF MenuOK
      <3> QED
        BY <1>3, <2>2, <3>2, MenuMoves DEF Servers
    <2>3. ASSUME InFleet, pc # "idle", menu' = menu, NEW x, screen' = [Screen("run", screen.sid) EXCEPT !.item = x]
          PROVE  ScreensInv'
      <3>1. screen.at \in {"scripts", "targets"}
        BY <2>3 DEF FleetInv, InFleet
      <3>2. screen.sid # 0 /\ screen.sid \in IdsOf(Servers)
        BY <3>1 DEF ScreensInv, ScreenOK, OfServer
      <3>3. PICK s : s = screen'
        OBVIOUS
      <3>4. s.at = "run" /\ s.sid = screen.sid /\ s.cur = 0 /\ s.choices = <<>> /\ s.pick = 0
        BY <2>3, <3>3, ScreenIs DEF Fields
      <3>5. ScreenOK(s, Servers)
        BY <3>2, <3>4, NoList DEF ScreenOK, OnRow
      <3>6. menu = FreshMenu /\ app = "open"
        BY <3>1 DEF ScreensInv, NoScreen
      <3> QED
        BY <1>3, <2>3, <3>3, <3>5, <3>6, FreshOK DEF ScreensInv, Servers
    <2> QED
      BY <1>1, <2>1, <2>2, <2>3, SessionViews DEF SessionView
  <1>4. CASE Forgotten
    <2>1. app' # "open"
      BY <1>4 DEF Forgotten
    <2>2. UNCHANGED <<screen, menu, app>> \/ (screen' = NoScreen /\ menu' = FreshMenu)
      BY <2>1, SessionViews DEF SessionView, AppInv, OpenInv
    <2>3. CASE UNCHANGED <<screen, menu, app>>
      BY <1>1, <2>1, <2>3 DEF ScreensInv
    <2> QED
      BY <1>1, <2>2, <2>3
  <1> QED
    BY <1>2, <1>3, <1>4 DEF SessionEdit

LEMMA ScreensInitially == Init => ScreensInv /\ FleetInv
  BY FreshOK DEF Init, DeskInit, SessionInit, NoConfig, NoScreen, ScreensInv, FleetInv, Servers

LEMMA ScreensStep ==
    ASSUME AppInv, LeavesInv, ScreensInv, FleetInv, [Next]_vars
    PROVE  ScreensInv' /\ FleetInv'
  <1>1. FleetInv'
    BY FleetKept DEF AppInv
  <1>2. AppInv'
    BY AppStep
  <1>3. CASE HandleKey1
    <2>1. DeskNext
      BY <1>3, DeskTakes
    <2>2. DeskEdit
      BY <2>1, DeskEdits DEF AppInv, OpenInv, RowsInv
    <2> QED
      BY <1>1, <1>2, <2>1, <2>2, DeskScreens DEF AppInv
  <1>4. CASE SessionNext
    <2>1. SessionEdit
      BY <1>4, SessionEdits DEF AppInv
    <2> QED
      BY <1>1, <1>4, <2>1, SessionKeepsScreens
  <1>5. CASE UNCHANGED vars
    BY <1>1, <1>5, MenuStays DEF vars, desk
  <1> QED
    BY <1>3, <1>4, <1>5 DEF Next

LEMMA ScreensAreValid == ASSUME AppInv, ScreensInv PROVE ScreensStayValid
  <1>1. SUFFICES ASSUME app = "open"
        PROVE  /\ screen.sid # 0 => screen.sid \in ServersIn(mem)
               /\ screen.at \in {"scriptform", "scriptconfirm"} /\ screen.item # 0
                     => screen.item \in IdsOf(Scripts)
               /\ screen.at \in {"forwardform", "forwardconfirm"} /\ screen.item # 0
                     => screen.item \in IdsOf(Rules)
               /\ ToSet(screen.choices) \subseteq ServersIn(mem)
               /\ Rows = 0 \/ Cursor < Rows
    BY DEF ScreensStayValid
  <1>2. ScreenOK(screen, Servers) /\ MenuOK(menu, Servers) /\ IsList(Servers)
    BY DEF ScreensInv, AppInv, VaultInv, IsVault, Servers
  <1>3. screen.sid # 0 => screen.sid \in ServersIn(mem)
    BY <1>2 DEF ScreenOK, ServersIn, Servers
  <1>4. ToSet(screen.choices) \subseteq ServersIn(mem)
    BY <1>2 DEF ScreenOK, ToSet, ServersIn, Servers
  <1>5. RowCount = Cardinality(RowsOf(Servers, menu.filter)) /\ RowCount \in Nat
    BY <1>2, FewRows, VisibleRows DEF RowCount
  <1>6. Rows = 0 \/ Cursor < Rows
    <2>1. CASE screen.at = "menu"
      BY <1>2, <1>5, <2>1 DEF Rows, Cursor, MenuOK, OnRow
    <2>2. ASSUME NEW n, n \in Nat, OnRow(screen.cur, n) PROVE n = 0 \/ screen.cur < n
      BY <2>2 DEF OnRow
    <2>3. CASE screen.at = "scripts" \/ screen.at = "forwards"
      <3>1. Len(Scripts) \in Nat /\ Len(Rules) \in Nat
        BY <2>3, HereIs DEF OfServer, AppInv
      <3>2. /\ screen.at = "scripts" => OnRow(screen.cur, Len(Scripts))
            /\ screen.at = "forwards" => OnRow(screen.cur, Len(Rules))
        BY <1>2 DEF ScreenOK, Scripts, Rules, Here
      <3> QED
        BY <2>2, <2>3, <3>1, <3>2 DEF Rows, Cursor
    <2>4. CASE screen.at = "targets" \/ screen.at = "import"
      <3>1. /\ screen.at = "targets" => OnRow(screen.cur, Len(Servers)) /\ Len(Servers) \in Nat
            /\ screen.at = "import" => OnRow(screen.cur, Len(screen.rows)) /\ Len(screen.rows) \in Nat
        BY <1>2, Lists DEF ScreenOK
      <3> QED
        BY <2>2, <2>4, <3>1 DEF Rows, Cursor
    <2>5. CASE screen.at \notin {"menu", "scripts", "forwards", "targets", "import"}
      BY <2>5 DEF Rows
    <2> QED
      BY <2>1, <2>3, <2>4, <2>5
  <1>7. /\ screen.at \in {"scriptform", "scriptconfirm"} /\ screen.item # 0 => screen.item \in IdsOf(Scripts)
        /\ screen.at \in {"forwardform", "forwardconfirm"} /\ screen.item # 0 => screen.item \in IdsOf(Rules)
    BY <1>2 DEF ScreenOK, Scripts, Rules, Here
  <1> QED
    BY <1>3, <1>4, <1>6, <1>7

\* ScreensStayValid: whatever is renamed, deleted, filtered, imported or taken back
\* while a screen is open, what it was opened on is there and the cursor of a list
\* is on a row of it (apply_local_step, resolve_next_step, MainMenuState::reanchor).
THEOREM ScreensAreSound == Spec => []ScreensStayValid
  <1>1. Init => AppInv /\ LeavesInv /\ ScreensInv /\ FleetInv
    BY AppInitially, LeavesInitially, ScreensInitially
  <1>2. AppInv /\ LeavesInv /\ ScreensInv /\ FleetInv /\ [Next]_vars
          => (AppInv /\ LeavesInv /\ ScreensInv /\ FleetInv)'
    BY AppStep, LeavesStep, ScreensStep
  <1>3. AppInv /\ ScreensInv => ScreensStayValid
    BY ScreensAreValid
  <1> QED
    BY <1>1, <1>2, <1>3, PTL DEF Spec

-----------------------------------------------------------------------------
\* What the fields of the servers hold.

RulesOK(list, next) ==
    \A i \in DOMAIN list : list[i] \in [id : 1..(next - 1), kind : ForwardKinds, enabled : BOOLEAN]
ServersOK(servers, next) == \A i \in DOMAIN servers : ServerOK(servers[i], next)

LEMMA RulesAre == ASSUME NEW s, NEW next, ServerOK(s, next) PROVE RulesOK(s.forwards, next)
  BY DEF ServerOK, RulesOK

LEMMA LaterRules ==
    ASSUME NEW list, NEW n \in Nat, NEW m \in Nat, m >= n, RulesOK(list, n) PROVE RulesOK(list, m)
  <1>1. 1..(n - 1) \subseteq 1..(m - 1)
    OBVIOUS
  <1> QED
    BY <1>1 DEF RulesOK

LEMMA LaterOK ==
    ASSUME NEW s, NEW n \in Nat, NEW m \in Nat, m >= n, ServerOK(s, n) PROVE ServerOK(s, m)
  <1>1. 1..(n - 1) \subseteq 1..(m - 1) /\ 0..(n - 1) \subseteq 0..(m - 1)
    OBVIOUS
  <1>2. RulesOK(s.forwards, m)
    BY RulesAre, LaterRules
  <1> QED
    BY <1>1, <1>2 DEF ServerOK, RulesOK

\* A server with the same fields, but for those that are fine again.
LEMMA StillOK ==
    ASSUME NEW s, NEW n, ServerOK(s, n), NEW r, r.id = s.id, r.last = s.last, r.pin = s.pin,
           r.dirs \in BOOLEAN, r.name \in Texts, r.host \in Texts, r.tag \in Texts \cup {None},
           r.jump \in 0..(n - 1), RulesOK(r.forwards, n)
    PROVE  ServerOK(r, n)
  BY DEF ServerOK, RulesOK

LEMMA OneFieldOK ==
    ASSUME NEW s, IsServer(s), NEW n \in Nat \ {0}, ServerOK(s, n), NEW v
    PROVE  /\ ServerOK([s EXCEPT !.dirs = TRUE], n) /\ ServerOK([s EXCEPT !.scripts = v], n)
           /\ ServerOK([s EXCEPT !.jump = 0], n)
           /\ RulesOK(v, n) => ServerOK([s EXCEPT !.forwards = v], n)
  <1>1. DOMAIN s = {"id", "name", "host", "port", "user", "tag", "jump", "pin", "last", "dirs",
                    "scripts", "forwards"}
    BY ServerFields
  <1>2. /\ s.dirs \in BOOLEAN /\ s.name \in Texts /\ s.host \in Texts /\ s.tag \in Texts \cup {None}
        /\ s.jump \in 0..(n - 1) /\ 0 \in 0..(n - 1)
    BY DEF ServerOK
  <1>9. RulesOK(s.forwards, n)
    BY RulesAre
  <1>3. ASSUME NEW r, DOMAIN r = DOMAIN s, r.id = s.id, r.last = s.last, r.pin = s.pin, r.name = s.name,
               r.host = s.host, r.tag = s.tag, r.dirs \in BOOLEAN, r.jump \in 0..(n - 1),
               RulesOK(r.forwards, n)
        PROVE  ServerOK(r, n)
    BY <1>2, <1>3, <1>9, StillOK
  <1> DEFINE a == [s EXCEPT !.dirs = TRUE]
             b == [s EXCEPT !.scripts = v]
             c == [s EXCEPT !.jump = 0]
             d == [s EXCEPT !.forwards = v]
  <1>4. /\ DOMAIN a = DOMAIN s /\ a.id = s.id /\ a.last = s.last /\ a.pin = s.pin /\ a.name = s.name
        /\ a.host = s.host /\ a.tag = s.tag /\ a.dirs = TRUE /\ a.jump = s.jump /\ a.forwards = s.forwards
    BY <1>1
  <1>5. /\ DOMAIN b = DOMAIN s /\ b.id = s.id /\ b.last = s.last /\ b.pin = s.pin /\ b.name = s.name
        /\ b.host = s.host /\ b.tag = s.tag /\ b.dirs = s.dirs /\ b.jump = s.jump /\ b.forwards = s.forwards
    BY <1>1
  <1>6. /\ DOMAIN c = DOMAIN s /\ c.id = s.id /\ c.last = s.last /\ c.pin = s.pin /\ c.name = s.name
        /\ c.host = s.host /\ c.tag = s.tag /\ c.dirs = s.dirs /\ c.jump = 0 /\ c.forwards = s.forwards
    BY <1>1
  <1>7. /\ DOMAIN d = DOMAIN s /\ d.id = s.id /\ d.last = s.last /\ d.pin = s.pin /\ d.name = s.name
        /\ d.host = s.host /\ d.tag = s.tag /\ d.dirs = s.dirs /\ d.jump = s.jump /\ d.forwards = v
    BY <1>1
  <1> HIDE DEF a, b, c, d
  <1>8. ServerOK(a, n) /\ ServerOK(b, n) /\ ServerOK(c, n) /\ (RulesOK(v, n) => ServerOK(d, n))
    BY <1>2, <1>3, <1>4, <1>5, <1>6, <1>7, <1>9
  <1> QED
    BY <1>8 DEF a, b, c, d

\* The jump that a form submits is one of its choices.
LEMMA JumpIs ==
    ASSUME NEW n \in Nat \ {0}, IsVault(Servers, n), ScreenOK(screen, Servers), screen.at = "form"
    PROVE  Jump \in 0..(n - 1) /\ (Jump # 0 => Jump \in IdsOf(Servers))
  <1>1. screen.pick \in 0..Len(screen.choices) /\ DOMAIN screen.choices = 1..Len(screen.choices)
        /\ Len(screen.choices) \in Nat
    BY Lists DEF ScreenOK
  <1>2. screen.pick # 0 => Jump \in IdsOf(Servers)
    BY <1>1 DEF ScreenOK, Jump
  <1>3. IdsOf(Servers) \subseteq 0..(n - 1)
    BY DEF IdsOf, IsVault
  <1> QED
    BY <1>2, <1>3 DEF Jump

LEMMA FilledOK ==
    ASSUME NEW s, IsServer(s), NEW n \in Nat \ {0}, ServerOK(s, n), NEW data \in Drafts,
           Jump \in 0..(n - 1)
    PROVE  ServerOK(Filled(s, data), n)
  <1>1. DOMAIN s = {"id", "name", "host", "port", "user", "tag", "jump", "pin", "last", "dirs",
                    "scripts", "forwards"}
    BY ServerFields
  <1> DEFINE f == Filled(s, data)
  <1>2. /\ f.id = s.id /\ f.last = s.last /\ f.pin = s.pin /\ f.name = data.name /\ f.host = data.host
        /\ f.tag = data.tag /\ f.dirs = s.dirs /\ f.jump = Jump /\ f.forwards = s.forwards
    BY <1>1 DEF Filled
  <1> HIDE DEF f
  <1>3. data.name \in Texts /\ data.host \in Texts /\ data.tag \in Texts \cup {None}
    BY DeskAssumption
  <1>4. s.dirs \in BOOLEAN
    BY DEF ServerOK
  <1>6. RulesOK(s.forwards, n)
    BY RulesAre
  <1>5. ServerOK(f, n)
    BY <1>2, <1>3, <1>4, <1>6, StillOK
  <1> QED
    BY <1>5 DEF f

LEMMA NewServerOK ==
    ASSUME NEW n \in Nat, NEW id \in 1..(n - 1), NEW name \in Texts, NEW host \in Texts, NEW port, NEW user
    PROVE  ServerOK(NewServer(id, name, host, port, user), n)
  <1> DEFINE s == NewServer(id, name, host, port, user)
  <1>1. /\ s.id = id /\ s.jump = 0 /\ s.last = 0 /\ s.dirs = FALSE /\ s.name = name /\ s.host = host
        /\ s.tag = None /\ s.pin = NoPin /\ s.forwards = <<>>
    BY DEF NewServer
  <1> HIDE DEF s
  <1>2. s.jump \in 0..(n - 1) /\ s.last \in Nat
    BY <1>1
  <1>6. s.dirs \in BOOLEAN
    BY <1>1, Zenon
  <1>3. DOMAIN s.forwards = {}
    BY <1>1, NoList
  <1>4. s.pin \in {NoPin} \cup {<<h, gen>> : h \in Texts, gen \in {0, 1}}
    BY <1>1
  <1>5. ServerOK(s, n)
    BY <1>1, <1>2, <1>3, <1>4, <1>6 DEF ServerOK
  <1> QED
    BY <1>5 DEF s

HostsOK(rows) == \A k \in DOMAIN rows : rows[k].host.alias \in Texts /\ rows[k].host.hostname \in Texts
ConfigInv ==
    /\ ServersOK(mem.servers, nextId) /\ ServersOK(disk.servers, nextId)
    /\ screen.at = "import" => HostsOK(screen.rows)

LEMMA LaterServers ==
    ASSUME NEW servers, NEW n \in Nat, NEW m \in Nat, m >= n, ServersOK(servers, n) PROVE ServersOK(servers, m)
  BY LaterOK DEF ServersOK

\* The server that a screen was opened on is changed, the others stay.
LEMMA OneServerOK ==
    ASSUME NEW n \in Nat, NEW m \in Nat, m >= n, NEW servers, ServersOK(servers, n), NEW new,
           DOMAIN new = DOMAIN servers,
           \A i \in DOMAIN servers : new[i] = servers[i] \/ ServerOK(new[i], m)
    PROVE  ServersOK(new, m)
  BY LaterOK DEF ServersOK

LEMMA FilesBackOK ==
    ASSUME VaultInv, Shape(mem), ConfigInv, FilesBack PROVE ServersOK(mem'.servers, nextId')
  <1>0. /\ nextId \in Nat \ {0} /\ nextId' = nextId /\ ServersOK(Servers, nextId)
        /\ \A i \in DOMAIN Servers : IsServer(Servers[i])
    BY DEF VaultInv, IsVault, Servers, ConfigInv, FilesBack
  <1>1. PICK ok : Keep(WithServers([i \in DOMAIN Servers |-> IF Servers[i].id = screen.sid
                    THEN [Servers[i] EXCEPT !.dirs = TRUE] ELSE Servers[i]]), ok)
    BY DEF FilesBack, Edited, Update
  <1>2. PICK new : new = [i \in DOMAIN Servers |-> IF Servers[i].id = screen.sid
                    THEN [Servers[i] EXCEPT !.dirs = TRUE] ELSE Servers[i]]
    OBVIOUS
  <1>3. mem'.servers = new
    BY <1>1, <1>2, KeptServers
  <1>4. ASSUME NEW i \in DOMAIN Servers PROVE new[i] = Servers[i] \/ ServerOK(new[i], nextId)
    <2>1. ServerOK([Servers[i] EXCEPT !.dirs = TRUE], nextId)
      BY <1>0, OneFieldOK DEF ServersOK
    <2> QED
      BY <1>2, <2>1
  <1>5. DOMAIN new = DOMAIN Servers
    BY <1>2
  <1>6. ServersOK(new, nextId)
    BY <1>0, <1>4, <1>5, OneServerOK
  <1> QED
    BY <1>0, <1>3, <1>6

LEMMA SubmitFormOK ==
    ASSUME VaultInv, Shape(mem), ConfigInv, ScreenOK(screen, Servers), SubmitForm
    PROVE  ServersOK(mem'.servers, nextId')
  <1>0. /\ nextId \in Nat \ {0} /\ ServersOK(Servers, nextId) /\ IsVault(Servers, nextId)
        /\ \A i \in DOMAIN Servers : IsServer(Servers[i])
    BY DEF VaultInv, IsVault, Servers, ConfigInv
  <1>1. nextId' = (IF screen.sid = 0 THEN nextId + 1 ELSE nextId) /\ screen.at = "form"
    BY DEF SubmitForm, At
  <1>2. Jump \in 0..(nextId - 1) /\ Jump \in 0..nextId
    BY <1>0, <1>1, JumpIs
  <1>3. PICK data \in Drafts, ok \in BOOLEAN :
             Keep(WithServers(IF screen.sid = 0
                    THEN Append(Servers, Filled(NewServer(nextId, data.name, data.host, data.port,
                                                          data.user), data))
                    ELSE [i \in DOMAIN Servers |->
                            IF Servers[i].id = screen.sid THEN Filled(Servers[i], data) ELSE Servers[i]]), ok)
    BY DEF SubmitForm, Update
  <1>4. CASE screen.sid = 0
    <2> DEFINE s == NewServer(nextId, data.name, data.host, data.port, data.user)
    <2>1. data.name \in Texts /\ data.host \in Texts /\ nextId + 1 \in Nat \ {0}
          /\ nextId \in 1..((nextId + 1) - 1) /\ Jump \in 0..((nextId + 1) - 1)
      BY <1>0, <1>2, DeskAssumption
    <2>2. IsServer(s) /\ ServerOK(s, nextId + 1)
      <3>1. ServerOK(s, nextId + 1)
        BY <1>0, <2>1, NewServerOK
      <3>2. IsServer(s)
        BY NoList DEF NewServer, IsServer
      <3> QED
        BY <3>1, <3>2
    <2>3. mem'.servers = Append(Servers, Filled(s, data))
      BY <1>3, <1>4, KeptServers
    <2> HIDE DEF s
    <2>4. ServerOK(Filled(s, data), nextId + 1)
      BY <2>1, <2>2, FilledOK
    <2> DEFINE list == Servers
               one == Filled(s, data)
               new == Append(list, one)
    <2>5. IsList(list) /\ ServersOK(list, nextId) /\ ServerOK(one, nextId + 1)
      BY <1>0, <2>4 DEF IsVault
    <2>6. mem'.servers = new
      BY <2>3
    <2> HIDE DEF list, one
    <2>7. /\ IsList(new) /\ Len(new) = Len(list) + 1 /\ new[Len(list) + 1] = one
          /\ \A i \in DOMAIN list : new[i] = list[i]
      BY <2>5, AppendedList
    <2>8. DOMAIN new = 1..(Len(list) + 1) /\ DOMAIN list = 1..Len(list) /\ Len(list) \in Nat
      BY <2>5, <2>7, Lists
    <2> HIDE DEF new
    <2>9. ServersOK(list, nextId + 1)
      BY <1>0, <2>5, LaterServers
    <2>10. ASSUME NEW i \in DOMAIN new PROVE ServerOK(new[i], nextId + 1)
      <3>1. i \in DOMAIN list \/ i = Len(list) + 1
        BY <2>8
      <3> QED
        BY <2>5, <2>7, <2>9, <3>1 DEF ServersOK
    <2> QED
      BY <1>1, <1>4, <2>6, <2>10 DEF ServersOK
  <1>5. CASE screen.sid # 0
    <2>1. PICK new : new = [i \in DOMAIN Servers |->
                            IF Servers[i].id = screen.sid THEN Filled(Servers[i], data) ELSE Servers[i]]
      OBVIOUS
    <2>2. mem'.servers = new
      BY <1>3, <1>5, <2>1, KeptServers
    <2>3. ASSUME NEW i \in DOMAIN Servers PROVE new[i] = Servers[i] \/ ServerOK(new[i], nextId)
      <3>1. ServerOK(Filled(Servers[i], data), nextId)
        BY <1>0, <1>2, FilledOK DEF ServersOK
      <3> QED
        BY <2>1, <3>1
    <2>4. DOMAIN new = DOMAIN Servers
      BY <2>1
    <2>5. ServersOK(new, nextId)
      BY <1>0, <2>3, <2>4, OneServerOK
    <2> QED
      BY <1>1, <1>5, <2>2, <2>5
  <1> QED
    BY <1>4, <1>5

LEMMA ConfirmDeleteOK ==
    ASSUME VaultInv, Shape(mem), ConfigInv, ConfirmDelete PROVE ServersOK(mem'.servers, nextId')
  <1>0. /\ nextId \in Nat \ {0} /\ nextId' = nextId /\ ServersOK(Servers, nextId) /\ IsVault(Servers, nextId)
        /\ \A i \in DOMAIN Servers : IsServer(Servers[i])
    BY DEF VaultInv, IsVault, Servers, ConfigInv, ConfirmDelete
  <1>1. PICK ok : Keep(WithServers(ClearJumps(Without(Servers, screen.sid), screen.sid)), ok)
    BY DEF ConfirmDelete
  <1>2. mem'.servers = ClearJumps(Without(Servers, screen.sid), screen.sid)
    BY <1>1, KeptServers
  <1>3. Shorter(Servers, mem'.servers, screen.sid)
    BY <1>0, <1>2, DeletedVault
  <1>4. PICK f : /\ f \in [DOMAIN mem'.servers -> {i \in DOMAIN Servers : Servers[i].id # screen.sid}]
                 /\ \A k \in DOMAIN mem'.servers :
                       \/ mem'.servers[k] = Servers[f[k]]
                       \/ mem'.servers[k] = [Servers[f[k]] EXCEPT !.jump = 0]
    BY <1>3 DEF Shorter
  <1>5. ASSUME NEW k \in DOMAIN mem'.servers PROVE ServerOK(mem'.servers[k], nextId)
    <2>1. f[k] \in DOMAIN Servers
      BY <1>4
    <2>2. ServerOK(Servers[f[k]], nextId) /\ ServerOK([Servers[f[k]] EXCEPT !.jump = 0], nextId)
      BY <1>0, <2>1, OneFieldOK DEF ServersOK
    <2> QED
      BY <1>4, <2>2
  <1> QED
    BY <1>0, <1>5 DEF ServersOK

LEMMA ScriptEditOK ==
    ASSUME VaultInv, Shape(mem), ConfigInv, SubmitScriptForm \/ ConfirmDeleteScript
    PROVE  ServersOK(mem'.servers, nextId')
  <1>5. nextId \in Nat \ {0} /\ nextId' \in {nextId, nextId + 1}
    BY DEF VaultInv, SubmitScriptForm, ConfirmDeleteScript
  <1>0. /\ nextId \in Nat \ {0} /\ nextId' \in Nat /\ nextId' >= nextId /\ ServersOK(Servers, nextId)
        /\ \A i \in DOMAIN Servers : IsServer(Servers[i])
    BY <1>5 DEF VaultInv, IsVault, Servers, ConfigInv
  <1>1. \E new : /\ mem'.servers = new /\ DOMAIN new = DOMAIN Servers
                 /\ \A i \in DOMAIN Servers : \/ new[i] = Servers[i]
                                              \/ \E v : new[i] = [Servers[i] EXCEPT !.scripts = v]
    <2>1. CASE SubmitScriptForm
      <3>1. PICK data, ok :
               Keep(WithServers([i \in DOMAIN Servers |-> IF Servers[i].id = screen.sid
                 THEN [Servers[i] EXCEPT !.scripts =
                         IF screen.item = 0 THEN Append(Servers[i].scripts, NewScript(nextId, data))
                         ELSE Update(Servers[i].scripts, screen.item, LAMBDA s : NewScript(s.id, data))]
                 ELSE Servers[i]]), ok)
        BY <2>1 DEF SubmitScriptForm, InScripts, Edited, Update
      <3>2. PICK new : new = [i \in DOMAIN Servers |-> IF Servers[i].id = screen.sid
                 THEN [Servers[i] EXCEPT !.scripts =
                         IF screen.item = 0 THEN Append(Servers[i].scripts, NewScript(nextId, data))
                         ELSE Update(Servers[i].scripts, screen.item, LAMBDA s : NewScript(s.id, data))]
                 ELSE Servers[i]]
        OBVIOUS
      <3>3. mem'.servers = new
        BY <3>1, <3>2, KeptServers
      <3> QED
        BY <3>2, <3>3
    <2>2. CASE ConfirmDeleteScript
      <3>1. PICK ok :
               Keep(WithServers([i \in DOMAIN Servers |-> IF Servers[i].id = screen.sid
                 THEN [Servers[i] EXCEPT !.scripts = Without(Servers[i].scripts, screen.item)]
                 ELSE Servers[i]]), ok)
        BY <2>2 DEF ConfirmDeleteScript, InScripts, Edited, Update
      <3>2. PICK new : new = [i \in DOMAIN Servers |-> IF Servers[i].id = screen.sid
                 THEN [Servers[i] EXCEPT !.scripts = Without(Servers[i].scripts, screen.item)]
                 ELSE Servers[i]]
        OBVIOUS
      <3>3. mem'.servers = new
        BY <3>1, <3>2, KeptServers
      <3> QED
        BY <3>2, <3>3
    <2> QED
      BY <2>1, <2>2
  <1>2. PICK new : /\ mem'.servers = new /\ DOMAIN new = DOMAIN Servers
                 /\ \A i \in DOMAIN Servers : \/ new[i] = Servers[i]
                                              \/ \E v : new[i] = [Servers[i] EXCEPT !.scripts = v]
    BY <1>1
  <1>3. ASSUME NEW i \in DOMAIN Servers PROVE new[i] = Servers[i] \/ ServerOK(new[i], nextId')
    <2>1. ASSUME NEW v PROVE ServerOK([Servers[i] EXCEPT !.scripts = v], nextId')
      <3>1. ServerOK([Servers[i] EXCEPT !.scripts = v], nextId)
        BY <1>0, OneFieldOK DEF ServersOK
      <3>2. PICK s : s = [Servers[i] EXCEPT !.scripts = v]
        OBVIOUS
      <3> QED
        BY <1>0, <3>1, <3>2, LaterOK
    <2> QED
      BY <1>2, <2>1
  <1>4. ServersOK(new, nextId')
    BY <1>0, <1>2, <1>3, OneServerOK
  <1> QED
    BY <1>2, <1>4

\* What a key makes of the rules of a server.
LEMMA RuleEditOK ==
    ASSUME VaultInv, Shape(mem), ConfigInv, nextId' \in {nextId, nextId + 1}, NEW ok, NEW h,
           Keep(WithServers([i \in DOMAIN Servers |-> IF Servers[i].id = screen.sid
                             THEN [Servers[i] EXCEPT !.forwards = h[i]] ELSE Servers[i]]), ok),
           \A i \in DOMAIN Servers : RulesOK(h[i], nextId')
    PROVE  ServersOK(mem'.servers, nextId')
  <1>0. /\ nextId \in Nat \ {0} /\ nextId' \in Nat \ {0} /\ nextId' >= nextId /\ ServersOK(Servers, nextId)
        /\ \A i \in DOMAIN Servers : IsServer(Servers[i])
    BY DEF VaultInv, IsVault, Servers, ConfigInv
  <1>1. PICK new : new = [i \in DOMAIN Servers |-> IF Servers[i].id = screen.sid
                             THEN [Servers[i] EXCEPT !.forwards = h[i]] ELSE Servers[i]]
    OBVIOUS
  <1>2. mem'.servers = new
    BY <1>1, KeptServers
  <1>3. DOMAIN new = DOMAIN Servers
    BY <1>1
  <1>4. ASSUME NEW i \in DOMAIN Servers PROVE new[i] = Servers[i] \/ ServerOK(new[i], nextId')
    <2>1. ServerOK(Servers[i], nextId')
      BY <1>0, LaterOK DEF ServersOK
    <2>2. ServerOK([Servers[i] EXCEPT !.forwards = h[i]], nextId')
      BY <1>0, <2>1, OneFieldOK
    <2> QED
      BY <1>1, <2>2
  <1>5. ServersOK(new, nextId')
    BY <1>0, <1>3, <1>4, OneServerOK
  <1> QED
    BY <1>2, <1>5

LEMMA ToggleForwardOK ==
    ASSUME VaultInv, Shape(mem), ConfigInv, ToggleForward PROVE ServersOK(mem'.servers, nextId')
  <1>1. PICK id, ok :
           Keep(WithServers([i \in DOMAIN Servers |-> IF Servers[i].id = screen.sid
             THEN [Servers[i] EXCEPT !.forwards =
                     [k \in DOMAIN Servers[i].forwards |->
                        IF Servers[i].forwards[k].id = id
                        THEN [Servers[i].forwards[k] EXCEPT !.enabled = ~Servers[i].forwards[k].enabled]
                        ELSE Servers[i].forwards[k]]]
             ELSE Servers[i]]), ok)
    BY DEF ToggleForward, MutateForwards, InRules, Edited, Update
  <1> DEFINE h == [i \in DOMAIN Servers |-> [k \in DOMAIN Servers[i].forwards |->
                        IF Servers[i].forwards[k].id = id
                        THEN [Servers[i].forwards[k] EXCEPT !.enabled = ~Servers[i].forwards[k].enabled]
                        ELSE Servers[i].forwards[k]]]
  <1>2. [i \in DOMAIN Servers |-> IF Servers[i].id = screen.sid
             THEN [Servers[i] EXCEPT !.forwards =
                     [k \in DOMAIN Servers[i].forwards |->
                        IF Servers[i].forwards[k].id = id
                        THEN [Servers[i].forwards[k] EXCEPT !.enabled = ~Servers[i].forwards[k].enabled]
                        ELSE Servers[i].forwards[k]]]
             ELSE Servers[i]]
        = [i \in DOMAIN Servers |-> IF Servers[i].id = screen.sid
                               THEN [Servers[i] EXCEPT !.forwards = h[i]] ELSE Servers[i]]
    OBVIOUS
  <1>3. \A i \in DOMAIN Servers : RulesOK(h[i], nextId)
    <2> TAKE i \in DOMAIN Servers
    <2>1. PICK all : all = Servers[i].forwards
      OBVIOUS
    <2>2. h[i] = [k \in DOMAIN all |-> IF all[k].id = id THEN [all[k] EXCEPT !.enabled = ~all[k].enabled]
                                       ELSE all[k]]
      BY <2>1
    <2>3. ServerOK(Servers[i], nextId)
      BY DEF ConfigInv, ServersOK, Servers
    <2>4. RulesOK(all, nextId)
      BY <2>1, <2>3, RulesAre
    <2>5. PICK to : to = h[i]
      OBVIOUS
    <2> HIDE DEF h
    <2>6. ASSUME NEW k \in DOMAIN all
          PROVE  to[k] \in [id : 1..(nextId - 1), kind : ForwardKinds, enabled : BOOLEAN]
      <3>1. all[k] \in [id : 1..(nextId - 1), kind : ForwardKinds, enabled : BOOLEAN]
        BY <2>4 DEF RulesOK
      <3>2. to[k] = all[k] \/ to[k] = [all[k] EXCEPT !.enabled = ~all[k].enabled]
        BY <2>2, <2>5
      <3>3. [all[k] EXCEPT !.enabled = ~all[k].enabled]
               \in [id : 1..(nextId - 1), kind : ForwardKinds, enabled : BOOLEAN]
        BY <3>1
      <3> QED
        BY <3>1, <3>2, <3>3
    <2>7. DOMAIN to = DOMAIN all
      BY <2>2, <2>5
    <2> QED
      BY <2>5, <2>6, <2>7 DEF RulesOK
  <1> HIDE DEF h
  <1>4. nextId' = nextId
    BY DEF ToggleForward, MutateForwards
  <1> QED
    BY <1>1, <1>2, <1>3, <1>4, RuleEditOK

LEMMA SubmitForwardOK ==
    ASSUME VaultInv, Shape(mem), ConfigInv, SubmitForwardForm PROVE ServersOK(mem'.servers, nextId')
  <1>0. nextId \in Nat \ {0} /\ ServersOK(Servers, nextId)
        /\ nextId' = (IF screen.item = 0 THEN nextId + 1 ELSE nextId)
    BY DEF VaultInv, Servers, ConfigInv, SubmitForwardForm
  <1>1. CASE screen.item = 0
    <2>1. PICK kind \in RuleKinds, ok \in BOOLEAN :
           Keep(WithServers([i \in DOMAIN Servers |-> IF Servers[i].id = screen.sid
             THEN [Servers[i] EXCEPT !.forwards = Append(Servers[i].forwards, NewRule(nextId, kind))]
             ELSE Servers[i]]), ok)
      BY <1>1 DEF SubmitForwardForm, MutateForwards, InRules, Edited, Update
    <2> DEFINE h == [i \in DOMAIN Servers |-> Append(Servers[i].forwards, NewRule(nextId, kind))]
    <2>2. [i \in DOMAIN Servers |-> IF Servers[i].id = screen.sid
             THEN [Servers[i] EXCEPT !.forwards = Append(Servers[i].forwards, NewRule(nextId, kind))]
             ELSE Servers[i]]
          = [i \in DOMAIN Servers |-> IF Servers[i].id = screen.sid
                               THEN [Servers[i] EXCEPT !.forwards = h[i]] ELSE Servers[i]]
      OBVIOUS
    <2>3. \A i \in DOMAIN Servers : RulesOK(h[i], nextId + 1)
      <3> TAKE i \in DOMAIN Servers
      <3>1. PICK all, r, to : all = Servers[i].forwards /\ r = NewRule(nextId, kind) /\ to = Append(all, r)
        OBVIOUS
      <3>2. h[i] = to
        BY <3>1
      <3> HIDE DEF h
      <3>3. IsList(all)
        BY <3>1, ServerRules
      <3>4. ServerOK(Servers[i], nextId)
        BY <1>0 DEF ServersOK
      <3>5. RulesOK(all, nextId + 1)
        BY <1>0, <3>1, <3>4, RulesAre, LaterRules
      <3>6. r \in [id : 1..((nextId + 1) - 1), kind : ForwardKinds, enabled : BOOLEAN]
        BY <1>0, <3>1, DeskAssumption DEF NewRule
      <3>7. /\ IsList(to) /\ Len(to) = Len(all) + 1 /\ to[Len(all) + 1] = r
            /\ \A k \in DOMAIN all : to[k] = all[k]
        BY <3>1, <3>3, AppendedList
      <3>8. DOMAIN to = 1..(Len(all) + 1) /\ DOMAIN all = 1..Len(all) /\ Len(all) \in Nat
        BY <3>3, <3>7, Lists
      <3>9. ASSUME NEW k \in DOMAIN to
            PROVE  to[k] \in [id : 1..((nextId + 1) - 1), kind : ForwardKinds, enabled : BOOLEAN]
        <4>1. k \in DOMAIN all \/ k = Len(all) + 1
          BY <3>8
        <4> QED
          BY <3>5, <3>6, <3>7, <4>1 DEF RulesOK
      <3> QED
        BY <3>2, <3>9 DEF RulesOK
    <2> HIDE DEF h
    <2>4. nextId' = nextId + 1
      BY <1>0, <1>1
    <2> QED
      BY <2>1, <2>2, <2>3, <2>4, RuleEditOK
  <1>2. CASE screen.item # 0
    <2>1. PICK kind \in RuleKinds, ok \in BOOLEAN :
           Keep(WithServers([i \in DOMAIN Servers |-> IF Servers[i].id = screen.sid
             THEN [Servers[i] EXCEPT !.forwards =
                     [k \in DOMAIN Servers[i].forwards |->
                        IF Servers[i].forwards[k].id = screen.item
                        THEN [Servers[i].forwards[k] EXCEPT !.kind = kind]
                        ELSE Servers[i].forwards[k]]]
             ELSE Servers[i]]), ok)
      BY <1>2 DEF SubmitForwardForm, MutateForwards, InRules, Edited, Update
    <2> DEFINE h == [i \in DOMAIN Servers |-> [k \in DOMAIN Servers[i].forwards |->
                        IF Servers[i].forwards[k].id = screen.item
                        THEN [Servers[i].forwards[k] EXCEPT !.kind = kind]
                        ELSE Servers[i].forwards[k]]]
    <2>2. [i \in DOMAIN Servers |-> IF Servers[i].id = screen.sid
             THEN [Servers[i] EXCEPT !.forwards =
                     [k \in DOMAIN Servers[i].forwards |->
                        IF Servers[i].forwards[k].id = screen.item
                        THEN [Servers[i].forwards[k] EXCEPT !.kind = kind]
                        ELSE Servers[i].forwards[k]]]
             ELSE Servers[i]]
          = [i \in DOMAIN Servers |-> IF Servers[i].id = screen.sid
                               THEN [Servers[i] EXCEPT !.forwards = h[i]] ELSE Servers[i]]
      OBVIOUS
    <2>3. \A i \in DOMAIN Servers : RulesOK(h[i], nextId)
      <3> TAKE i \in DOMAIN Servers
      <3>1. PICK all : all = Servers[i].forwards
        OBVIOUS
      <3>2. h[i] = [k \in DOMAIN all |-> IF all[k].id = screen.item THEN [all[k] EXCEPT !.kind = kind]
                                         ELSE all[k]]
        BY <3>1
      <3>3. ServerOK(Servers[i], nextId)
        BY <1>0 DEF ServersOK
      <3>4. RulesOK(all, nextId)
        BY <3>1, <3>3, RulesAre
      <3>5. PICK to : to = h[i]
        OBVIOUS
      <3> HIDE DEF h
      <3>6. ASSUME NEW k \in DOMAIN all
            PROVE  to[k] \in [id : 1..(nextId - 1), kind : ForwardKinds, enabled : BOOLEAN]
        <4>1. all[k] \in [id : 1..(nextId - 1), kind : ForwardKinds, enabled : BOOLEAN]
          BY <3>4 DEF RulesOK
        <4>2. to[k] = all[k] \/ to[k] = [all[k] EXCEPT !.kind = kind]
          BY <3>2, <3>5
        <4>3. kind \in ForwardKinds
          BY DeskAssumption
        <4>4. [all[k] EXCEPT !.kind = kind] \in [id : 1..(nextId - 1), kind : ForwardKinds, enabled : BOOLEAN]
          BY <4>1, <4>3
        <4> QED
          BY <4>1, <4>2, <4>4
      <3>7. DOMAIN to = DOMAIN all
        BY <3>2, <3>5
      <3> QED
        BY <3>5, <3>6, <3>7 DEF RulesOK
    <2> HIDE DEF h
    <2>4. nextId' = nextId
      BY <1>0, <1>2
    <2> QED
      BY <2>1, <2>2, <2>3, <2>4, RuleEditOK
  <1> QED
    BY <1>1, <1>2

LEMMA DeleteForwardOK ==
    ASSUME VaultInv, Shape(mem), ConfigInv, ConfirmDeleteForward PROVE ServersOK(mem'.servers, nextId')
  <1>0. nextId' = nextId /\ ServersOK(Servers, nextId)
    BY DEF ConfirmDeleteForward, ConfigInv, Servers
  <1>1. PICK ok :
           Keep(WithServers([i \in DOMAIN Servers |-> IF Servers[i].id = screen.sid
             THEN [Servers[i] EXCEPT !.forwards = Without(Servers[i].forwards, screen.item)]
             ELSE Servers[i]]), ok)
    BY DEF ConfirmDeleteForward, MutateForwards, InRules, Edited, Update
  <1> DEFINE h == [i \in DOMAIN Servers |-> Without(Servers[i].forwards, screen.item)]
  <1>2. [i \in DOMAIN Servers |-> IF Servers[i].id = screen.sid
             THEN [Servers[i] EXCEPT !.forwards = Without(Servers[i].forwards, screen.item)]
             ELSE Servers[i]]
        = [i \in DOMAIN Servers |-> IF Servers[i].id = screen.sid
                               THEN [Servers[i] EXCEPT !.forwards = h[i]] ELSE Servers[i]]
    OBVIOUS
  <1>3. \A i \in DOMAIN Servers : RulesOK(h[i], nextId)
    <2> TAKE i \in DOMAIN Servers
    <2>1. h[i] = Without(Servers[i].forwards, screen.item)
      OBVIOUS
    <2> HIDE DEF h
    <2>2. PICK all, places : /\ all = Servers[i].forwards
                             /\ places = {k \in DOMAIN all : all[k].id # screen.item}
      OBVIOUS
    <2>3. h[i] = EntriesAt(all, places) /\ places \subseteq DOMAIN all
      BY <2>1, <2>2 DEF Without
    <2>4. IsList(all)
      BY <2>2, ServerRules
    <2>5. PICK f : /\ f \in [DOMAIN EntriesAt(all, places) -> places]
                   /\ \A k \in DOMAIN EntriesAt(all, places) : EntriesAt(all, places)[k] = all[f[k]]
      BY <2>3, <2>4, ChosenEntries
    <2>6. ServerOK(Servers[i], nextId)
      BY <1>0 DEF ServersOK
    <2>7. RulesOK(all, nextId)
      BY <2>2, <2>6, RulesAre
    <2>8. \A k \in DOMAIN EntriesAt(all, places) : f[k] \in DOMAIN all
      BY <2>3, <2>5
    <2> QED
      BY <2>3, <2>5, <2>7, <2>8 DEF RulesOK
  <1> HIDE DEF h
  <1> QED
    BY <1>0, <1>1, <1>2, <1>3, RuleEditOK

\* The hosts of the import are those of the file, whatever is ticked.
LEMMA ImportedHostsOK ==
    ASSUME NEW file \in ConfigFiles, NEW servers PROVE HostsOK(ImportRows(file, servers))
  <1> DEFINE rows == ImportRows(file, servers)
  <1>1. DOMAIN rows = DOMAIN Parse(file) /\ \A k \in DOMAIN rows : rows[k].host = Parse(file)[k]
    BY DEF ImportRows
  <1> HIDE DEF rows
  <1> QED
    BY <1>1, DeskAssumption DEF HostsOK, rows

LEMMA MenuKeyHosts ==
    ASSUME ScreenShape(screen), MenuKey, screen.at = "import" => HostsOK(screen.rows), screen'.at = "import"
    PROVE  HostsOK(screen'.rows)
  <1>1. ASSUME MoveSelection \/ StartTyping \/ TypeFilter \/ EscapeFilter \/ CycleServerSort
        PROVE  HostsOK(screen'.rows)
    BY <1>1 DEF MoveSelection, StartTyping, TypeFilter, EscapeFilter, InList, CycleServerSort
  <1>2. ASSUME GoAdd \/ GoEdit PROVE FALSE
    <2>1. ASSUME GoAdd PROVE FALSE
      <3>1. PICK x : screen' = [Screen("form", 0) EXCEPT !.choices = x]
        BY <2>1 DEF GoAdd, Leave
      <3> QED
        BY <3>1 DEF Screen, NoScreen
    <2>2. ASSUME GoEdit PROVE FALSE
      <3>1. PICK x, y : Open([Screen("form", Selected) EXCEPT !.choices = x, !.pick = y])
        BY <2>2 DEF GoEdit
      <3>2. screen' = [Screen("form", Selected) EXCEPT !.choices = x, !.pick = y]
        BY <3>1 DEF Open, Leave
      <3> QED
        BY <3>2 DEF Screen, NoScreen
    <2> QED
      BY <1>2, <2>1, <2>2
  <1>3. ASSUME NEW at, NEW id, at # "import", screen' = Screen(at, id) PROVE FALSE
    BY <1>3, ScreenFields
  <1>4. GoDelete \/ GoScripts \/ GoForwards \/ GoSettings => FALSE
    BY <1>3 DEF GoDelete, GoScripts, GoForwards, GoSettings, Open, Leave
  <1>5. GoFiles => HostsOK(screen'.rows)
    BY <1>3 DEF GoFiles, Open, Leave
  <1>6. ASSUME GoSshImport PROVE HostsOK(screen'.rows)
    <2>1. ASSUME NEW file \in ConfigFiles, Leave([Screen("import", 0) EXCEPT !.rows = ImportRows(file, Servers)])
          PROVE  HostsOK(screen'.rows)
      <3>1. PICK rows : rows = ImportRows(file, Servers)
        OBVIOUS
      <3>2. screen'.rows = rows
        BY <2>1, <3>1 DEF Leave, Screen, NoScreen
      <3> QED
        BY <3>1, <3>2, ImportedHostsOK
    <2>2. ASSUME Leave([Screen("import", 0) EXCEPT !.err = TRUE]) PROVE HostsOK(screen'.rows)
      <3>1. screen'.rows = <<>>
        BY <2>2 DEF Leave, Screen, NoScreen
      <3> QED
        BY <3>1, NoList DEF HostsOK
    <2> QED
      BY <1>6, <2>1, <2>2 DEF GoSshImport
  <1>7. Lock \/ Quit => FALSE
    BY ScreenFields DEF Lock, Quit, Forget
  <1> QED
    BY <1>1, <1>2, <1>4, <1>5, <1>6, <1>7 DEF MenuKey

LEMMA OtherKeyHosts ==
    ASSUME OpenInv, OtherKey, screen.at = "import" => HostsOK(screen.rows), screen'.at = "import"
    PROVE  HostsOK(screen'.rows)
  <1>0. ScreenShape(screen) /\ (screen.at = "import" => \A k \in DOMAIN screen.rows : IsRow(screen.rows[k]))
    BY DEF OpenInv, RowsInv
  <1>9. ASSUME NEW row, IsRow(row), NEW b PROVE [row EXCEPT !.checked = b].host = row.host
    <2>1. DOMAIN row = {"host", "present", "checked"}
      BY <1>9 DEF IsRow
    <2> QED
      BY <2>1
  <1>1. ASSUME SaveSetting PROVE FALSE
    <2>1. PICK x : screen' = [screen EXCEPT !.err = x] /\ screen.at = "settings"
      BY <1>1 DEF SaveSetting, Show, At
    <2> QED
      BY <1>0, <2>1 DEF ScreenShape
  <1>2. ASSUME MoveImport PROVE HostsOK(screen'.rows)
    <2>1. PICK x : screen' = [screen EXCEPT !.cur = x] /\ screen.at = "import"
      BY <1>2 DEF MoveImport, MoveRow, Show, At
    <2> QED
      BY <1>0, <2>1 DEF ScreenShape
  <1>3. ASSUME ToggleImport PROVE HostsOK(screen'.rows)
    <2> DEFINE k == screen.cur + 1
               rows == [screen.rows EXCEPT ![k].checked = ~screen.rows[k].checked]
    <2>1. screen' = [screen EXCEPT !.rows = rows] /\ screen.at = "import"
      BY <1>3 DEF ToggleImport, Show, At
    <2>2. ASSUME NEW i \in DOMAIN rows PROVE rows[i].host = screen.rows[i].host /\ i \in DOMAIN screen.rows
      <3>1. CASE i # k
        BY <3>1
      <3>2. CASE i = k
        <4>1. rows[i] = [screen.rows[k] EXCEPT !.checked = ~screen.rows[k].checked] /\ k \in DOMAIN screen.rows
          BY <3>2
        <4> QED
          BY <1>0, <1>9, <2>1, <3>2, <4>1
      <3> QED
        BY <3>1, <3>2
    <2> HIDE DEF rows
    <2>3. screen'.rows = rows
      BY <1>0, <2>1 DEF ScreenShape
    <2>4. HostsOK(rows)
      BY <2>1, <2>2 DEF HostsOK
    <2> QED
      BY <2>3, <2>4
  <1>4. ASSUME ToggleAllImports PROVE HostsOK(screen'.rows)
    <2>1. PICK want : screen' = [screen EXCEPT !.rows = CheckAll(screen.rows, want)] /\ screen.at = "import"
      BY <1>4 DEF ToggleAllImports, Show, At
    <2> DEFINE rows == CheckAll(screen.rows, want)
    <2>2. ASSUME NEW i \in DOMAIN rows PROVE rows[i].host = screen.rows[i].host /\ i \in DOMAIN screen.rows
      <3>1. /\ rows[i] = [screen.rows[i] EXCEPT !.checked = want /\ ~screen.rows[i].present]
            /\ i \in DOMAIN screen.rows
        BY DEF CheckAll
      <3> QED
        BY <1>0, <1>9, <2>1, <3>1
    <2>3. screen'.rows = rows
      BY <1>0, <2>1 DEF ScreenShape
    <2> HIDE DEF rows
    <2>4. HostsOK(rows)
      BY <2>1, <2>2 DEF HostsOK
    <2> QED
      BY <2>3, <2>4
  <1>5. ASSUME ImportSshHosts PROVE HostsOK(screen'.rows)
    <2>1. PICK ok, servers :
             IF ok THEN BackToMenu(servers, mem.sort, 0) ELSE Show([screen EXCEPT !.err = TRUE])
      BY <1>5, Zenon DEF ImportSshHosts
    <2>2. screen.at = "import" /\ screen' = [screen EXCEPT !.err = TRUE]
      BY <1>5, <2>1, ScreenFields DEF ImportSshHosts, At, BackToMenu, Show
    <2> QED
      BY <1>0, <2>2 DEF ScreenShape
  <1> QED
    BY <1>1, <1>2, <1>3, <1>4, <1>5 DEF OtherKey

LEMMA ImportOK ==
    ASSUME VaultInv, OpenInv, Shape(mem), ConfigInv, ImportSshHosts PROVE ServersOK(mem'.servers, nextId')
  <1>1. /\ screen.at = "import" /\ nextId' = nextId + Len(Picked)
        /\ mem' = WithServers(Servers \o Imported) \/ mem' = mem
    BY DEF ImportSshHosts, At, KeepIfSaved
  <1>2. /\ IsList(Picked) /\ IsList(Imported) /\ Len(Imported) = Len(Picked) /\ Len(Picked) \in Nat
        /\ \A i \in DOMAIN Picked : \E k \in DOMAIN screen.rows : Picked[i] = screen.rows[k]
    BY <1>1, PickedRows, ImportedServers DEF OpenInv, RowsInv
  <1>3. /\ nextId \in Nat \ {0} /\ nextId' \in Nat /\ nextId' >= nextId /\ IsList(Servers)
        /\ ServersOK(Servers, nextId)
    BY <1>1, <1>2 DEF VaultInv, IsVault, Servers, ConfigInv
  <1>4. ServersOK(Servers, nextId')
    BY <1>3, LaterServers
  <1>5. ASSUME NEW i \in DOMAIN Imported PROVE ServerOK(Imported[i], nextId')
    <2>1. i \in 1..Len(Picked) /\ i \in DOMAIN Picked
      BY <1>2, Lists
    <2>2. PICK k \in DOMAIN screen.rows : Picked[i] = screen.rows[k]
      BY <1>2, <2>1
    <2>3. Picked[i].host.alias \in Texts /\ Picked[i].host.hostname \in Texts
      BY <1>1, <2>2 DEF ConfigInv, HostsOK
    <2>4. PICK port, user : Imported[i] = NewServer(nextId + i - 1, Picked[i].host.alias,
                                                    Picked[i].host.hostname, port, user)
      BY <2>1 DEF Imported
    <2>5. nextId + i - 1 \in 1..(nextId' - 1)
      BY <1>1, <1>2, <1>3, <2>1
    <2> QED
      BY <1>3, <2>3, <2>4, <2>5, NewServerOK
  <1>6. ServersOK(Servers \o Imported, nextId')
    <2> DEFINE old == Servers
               more == Imported
               new == old \o more
    <2>1. /\ IsList(old) /\ IsList(more) /\ ServersOK(old, nextId')
          /\ \A i \in DOMAIN more : ServerOK(more[i], nextId')
      BY <1>2, <1>3, <1>4, <1>5
    <2> HIDE DEF old, more
    <2>2. ASSUME NEW i \in DOMAIN new PROVE ServerOK(new[i], nextId')
      <3>1. /\ DOMAIN new = 1..(Len(old) + Len(more)) /\ Len(old) \in Nat /\ Len(more) \in Nat
            /\ DOMAIN old = 1..Len(old) /\ DOMAIN more = 1..Len(more)
            /\ \A j \in DOMAIN old : new[j] = old[j]
            /\ \A j \in DOMAIN more : new[Len(old) + j] = more[j]
        <4>1. IsList(new) /\ Len(new) = Len(old) + Len(more)
          BY <2>1, JoinedList
        <4> QED
          BY <2>1, <4>1, Lists, JoinedList
      <3>2. CASE i \in DOMAIN old
        BY <2>1, <3>1, <3>2 DEF ServersOK
      <3>3. CASE i \notin DOMAIN old
        <4>1. i - Len(old) \in DOMAIN more /\ i = Len(old) + (i - Len(old))
          BY <2>2, <3>1, <3>3
        <4> QED
          BY <2>1, <3>1, <4>1
      <3> QED
        BY <3>2, <3>3
    <2> QED
      BY <2>2 DEF ServersOK, old, more
  <1>7. ASSUME mem' = WithServers(Servers \o Imported) PROVE mem'.servers = Servers \o Imported
    BY <1>7 DEF WithServers, Shape
  <1> QED
    BY <1>1, <1>4, <1>6, <1>7 DEF Servers

\* The keys that leave the servers alone.
LEMMA OtherEdits ==
    ASSUME VaultInv, Shape(mem), DeskNext,
           ~FilesBack, ~SubmitForm, ~ConfirmDelete, ~SubmitScriptForm, ~ConfirmDeleteScript,
           ~ToggleForward, ~SubmitForwardForm, ~ConfirmDeleteForward, ~ImportSshHosts
    PROVE  mem'.servers \in {mem.servers, disk.servers, <<>>} /\ disk'.servers \in {mem'.servers, disk.servers}
  <1> DEFINE Goal == /\ mem'.servers \in {mem.servers, disk.servers, <<>>}
                     /\ disk'.servers \in {mem'.servers, disk.servers}
  <1>1. MenuKey => Goal
    BY MenuKeyPrefs DEF Untouched, Resort, Forgotten, NoConfig, Shape
  <1>2. ServerKey => Goal
    BY DEF ServerKey, Back, CycleJumpHost, RefuseForm, Quiet, Calm
  <1>3. ScriptKey => Goal
    BY DEF ScriptKey, MoveScript, MoveRow, GoScriptAdd, GoScriptEdit, GoScriptDelete, GoScriptTargets,
           OnScript, BackToScripts, MoveTarget, ToggleTarget, ToggleAllTargets, Quiet, Calm
  <1>4. RuleKey => Goal
    BY DEF RuleKey, MoveRule, MoveRow, GoForwardAdd, GoForwardEdit, GoForwardDelete, OnRule,
           BackToForwards, Quiet, Calm
  <1>5. OtherKey => Goal
    BY DEF OtherKey, SaveSetting, KeepIfSaved, Save, MoveImport, MoveRow, ToggleImport, ToggleAllImports,
           Quiet, Calm, Shape
  <1>6. ExpireStatus \/ AutoLockIfIdle \/ Unlock => Goal
    BY DEF ExpireStatus, Calm, AutoLockIfIdle, Forget, Unlock, NoConfig
  <1> QED
    BY <1>1, <1>2, <1>3, <1>4, <1>5, <1>6 DEF DeskNext, DeskKey, DeskTimer

LEMMA ServerKeyNoImport == ASSUME ScreenShape(screen), ServerKey PROVE screen'.at # "import"
  <1>1. Back \/ FilesBack \/ ConfirmDelete => screen'.at # "import"
    BY ScreenFields DEF Back, FilesBack, ConfirmDelete, BackToMenu
  <1>2. ASSUME CycleJumpHost PROVE screen'.at # "import"
    <2>1. PICK x : screen' = [screen EXCEPT !.pick = x, !.err = FALSE] /\ screen.at = "form"
      BY <1>2 DEF CycleJumpHost, Show, At
    <2> QED
      BY <2>1 DEF ScreenShape
  <1>3. RefuseForm => screen'.at # "import"
    BY DEF RefuseForm, Show, At, ScreenShape
  <1>4. ASSUME SubmitForm PROVE screen'.at # "import"
    <2>1. PICK ok, servers, anchor :
             IF ok THEN BackToMenu(servers, mem.sort, anchor) ELSE Show([screen EXCEPT !.err = TRUE])
      BY <1>4, Zenon DEF SubmitForm
    <2>2. screen.at = "form"
      BY <1>4 DEF SubmitForm, At
    <2> QED
      BY <2>1, <2>2, ScreenFields DEF BackToMenu, Show, ScreenShape
  <1> QED
    BY <1>1, <1>2, <1>3, <1>4 DEF ServerKey

AtScripts == {"scripts", "scriptform", "scriptconfirm", "targets"}
AtForwards == {"forwards", "forwardform", "forwardconfirm"}

LEMMA ScriptKeyAt == ASSUME ScreenShape(screen), ScriptKey PROVE screen'.at \in AtScripts
  <1>1. ASSUME MoveScript \/ MoveTarget \/ ToggleTarget \/ ToggleAllTargets PROVE screen'.at \in AtScripts
    <2>1. PICK x : screen' = [screen EXCEPT !.cur = x] \/ screen' = [screen EXCEPT !.choices = x]
      BY <1>1 DEF MoveScript, MoveTarget, MoveRow, ToggleTarget, ToggleAllTargets, Show
    <2>2. screen.at \in {"scripts", "targets"}
      BY <1>1 DEF MoveScript, MoveTarget, MoveRow, ToggleTarget, ToggleAllTargets, At
    <2> QED
      BY <2>1, <2>2 DEF ScreenShape, AtScripts
  <1>2. GoScriptAdd \/ BackToScripts \/ ConfirmDeleteScript => screen'.at \in AtScripts
    BY DEF GoScriptAdd, BackToScripts, ConfirmDeleteScript, ScriptsList, Show, Screen, NoScreen, AtScripts
  <1>3. GoScriptEdit \/ GoScriptDelete => screen'.at \in AtScripts
    BY DEF AtScripts, Screen, NoScreen, GoScriptEdit, GoScriptDelete, OnScript, Show
  <1>4. GoScriptTargets => screen'.at \in AtScripts
    BY DEF AtScripts, Screen, NoScreen, GoScriptTargets, Show
  <1>5. ASSUME SubmitScriptForm PROVE screen'.at \in AtScripts
    <2>1. screen.at = "scriptform" /\ (screen' = Screen("scripts", screen.sid) \/ screen' = [screen EXCEPT !.err = TRUE])
      BY <1>5 DEF SubmitScriptForm, ScriptsList, Show, At
    <2> QED
      BY <2>1, ScreenFields DEF ScreenShape, AtScripts
  <1> QED
    BY <1>1, <1>2, <1>3, <1>4, <1>5 DEF ScriptKey

LEMMA RuleKeyAt == ASSUME ScreenShape(screen), RuleKey PROVE screen'.at \in AtForwards
  <1>1. ASSUME MoveRule \/ ToggleForward PROVE screen'.at \in AtForwards
    <2>1. PICK x : screen' = screen \/ screen' = [screen EXCEPT !.cur = x]
      BY <1>1 DEF MoveRule, MoveRow, ToggleForward, Show
    <2>2. screen.at = "forwards"
      BY <1>1 DEF MoveRule, MoveRow, ToggleForward, At
    <2> QED
      BY <2>1, <2>2 DEF ScreenShape, AtForwards
  <1>2. GoForwardAdd \/ BackToForwards \/ SubmitForwardForm \/ ConfirmDeleteForward => screen'.at \in AtForwards
    BY DEF GoForwardAdd, BackToForwards, SubmitForwardForm, ConfirmDeleteForward, RulesList, Show,
           Screen, NoScreen, AtForwards
  <1>3. GoForwardEdit \/ GoForwardDelete => screen'.at \in AtForwards
    BY DEF AtForwards, Screen, NoScreen, GoForwardEdit, GoForwardDelete, OnRule, Show
  <1> QED
    BY <1>1, <1>2, <1>3 DEF RuleKey

LEMMA DeskConfig ==
    ASSUME AppInv, ScreensInv, ConfigInv, DeskNext PROVE ConfigInv'
  <1>0. /\ VaultInv /\ OpenInv /\ Shape(mem) /\ ScreenOK(screen, Servers) /\ ScreenShape(screen)
        /\ nextId \in Nat /\ ServersOK(mem.servers, nextId) /\ ServersOK(disk.servers, nextId)
        /\ screen.at = "import" => HostsOK(screen.rows)
    BY DEF AppInv, VaultInv, OpenInv, ScreensInv, ConfigInv
  <1>1. DeskEdit
    BY <1>0, DeskEdits DEF OpenInv, RowsInv
  <1>2. /\ nextId' \in Nat /\ nextId' >= nextId /\ ServersOK(mem.servers, nextId')
        /\ ServersOK(disk.servers, nextId') /\ ServersOK(<<>>, nextId')
    <2>1. nextId' \in Nat /\ nextId' >= nextId
      BY <1>1 DEF DeskEdit
    <2> QED
      BY <1>0, <2>1, LaterServers, NoList DEF ServersOK
  <1>3. disk'.servers \in {mem'.servers, disk.servers}
    BY <1>1 DEF DeskEdit, Forgotten, ReadBack
  <1>4. ServersOK(mem'.servers, nextId')
    <2>1. CASE FilesBack \/ SubmitForm \/ ConfirmDelete \/ SubmitScriptForm \/ ConfirmDeleteScript
      BY <1>0, <2>1, FilesBackOK, SubmitFormOK, ConfirmDeleteOK, ScriptEditOK
    <2>2. CASE ToggleForward \/ SubmitForwardForm \/ ConfirmDeleteForward \/ ImportSshHosts
      BY <1>0, <2>2, ToggleForwardOK, SubmitForwardOK, DeleteForwardOK, ImportOK
    <2>3. CASE ~(FilesBack \/ SubmitForm \/ ConfirmDelete \/ SubmitScriptForm \/ ConfirmDeleteScript
                 \/ ToggleForward \/ SubmitForwardForm \/ ConfirmDeleteForward \/ ImportSshHosts)
      <3>1. mem'.servers \in {mem.servers, disk.servers, <<>>}
        BY <1>0, <2>3, OtherEdits
      <3> QED
        BY <1>2, <3>1
    <2> QED
      BY <2>1, <2>2, <2>3
  <1>5. ASSUME screen'.at = "import" PROVE HostsOK(screen'.rows)
    <2>1. MenuKey \/ OtherKey => HostsOK(screen'.rows)
      BY <1>0, <1>5, MenuKeyHosts, OtherKeyHosts
    <2>2. ~ServerKey /\ ~ScriptKey /\ ~RuleKey
      BY <1>0, <1>5, ServerKeyNoImport, ScriptKeyAt, RuleKeyAt DEF AtScripts, AtForwards
    <2>3. ExpireStatus \/ Unlock => HostsOK(screen'.rows)
      BY <1>0, <1>5 DEF ExpireStatus, Unlock
    <2>4. ~AutoLockIfIdle
      BY <1>5, ScreenFields DEF AutoLockIfIdle, Forget
    <2> QED
      BY <2>1, <2>2, <2>3, <2>4 DEF DeskNext, DeskKey, DeskTimer
  <1> QED
    BY <1>2, <1>3, <1>4, <1>5 DEF ConfigInv

-----------------------------------------------------------------------------
\* The targets of a run, and the server a session is with.
TargetsInv ==
    pc # "idle" /\ link.kind = "fleet" =>
        IsList(job.targets) /\ \A i \in DOMAIN job.targets : job.targets[i] \in IdsOf(Servers)
SidInv == pc \notin {"idle", "next"} => link.sid \in IdsOf(Servers)

TargetsGo ==
    \/ pc' = "idle" \/ link'.kind # "fleet"
    \/ /\ pc # "idle" /\ InFleet /\ mem' = mem
       /\ job'.targets = job.targets \/ (job.targets # <<>> /\ job'.targets = Tail(job.targets))
    \/ RunScript

SidGoes ==
    \/ pc' \in {"idle", "next"}
    \/ mem' = mem /\ link'.sid \in IdsOf(Servers)
    \/ pc \notin {"idle", "next"} /\ link'.sid = link.sid

LEMMA SameKind ==
    ASSUME LinkShape(link), NEW x, NEW y, NEW z
    PROVE  /\ [link EXCEPT !.key = x].kind = link.kind /\ [link EXCEPT !.key = x].sid = link.sid
           /\ [link EXCEPT !.shell = x].kind = link.kind /\ [link EXCEPT !.shell = x].sid = link.sid
           /\ [link EXCEPT !.learnt = x, !.left = y, !.key = z].kind = link.kind
           /\ [link EXCEPT !.learnt = x, !.left = y, !.key = z].sid = link.sid
  BY DEF LinkShape

LEMMA ConnectLinks ==
    ASSUME LeavesInv, Shape(mem), ConnectStep PROVE TargetsGo /\ SidGoes
  <1>0. LinkShape(link) /\ NoLink.kind = "none"
    BY DEF LeavesInv, NoLink
  <1>1. Over => pc' = "idle"
    BY DEF Over, Reset
  <1>2. ASSUME pc' = "idle" PROVE TargetsGo /\ SidGoes
    BY <1>2 DEF TargetsGo, SidGoes
  <1>3. ASSUME Connect PROVE TargetsGo /\ SidGoes
    <2>1. CASE UNCHANGED <<pc, link>>
      BY <1>2, <1>3, <2>1 DEF Connect
    <2>2. CASE ~UNCHANGED <<pc, link>>
      <3>1. PICK mode \in {mem.mode, OtherMode(mem.mode)} : link' = Dialled(mode, Selected)
        BY <1>3, <2>2 DEF Connect
      <3>2. link'.kind = mode /\ mode # "fleet" /\ link'.sid = Selected
        BY <3>1, DialledIs DEF Shape, Modes, OtherMode
      <3>3. mem' = mem /\ Selected \in IdsOf(Servers)
        BY <1>3 DEF Connect, Fails, Goes, IsSelected
      <3> QED
        BY <3>2, <3>3 DEF TargetsGo, SidGoes
    <2> QED
      BY <2>1, <2>2
  <1>4. ASSUME Failed, pc \in {"dial", "auth"} PROVE TargetsGo /\ SidGoes
    <2>1. CASE InFleet
      BY <1>4, <2>1 DEF Failed, TargetsGo, SidGoes, Go, desk
    <2>2. CASE ~InFleet
      BY <1>1, <1>2, <1>4, <2>2 DEF Failed
    <2> QED
      BY <2>1, <2>2
  <1>5. ASSUME Dial, ~Failed PROVE TargetsGo /\ SidGoes
    <2>1. PICK x : link' = [link EXCEPT !.key = x] /\ mem' = mem /\ job' = job /\ pc = "dial"
      BY <1>5 DEF Dial, Nothing, scripts, desk
    <2>2. link'.kind = link.kind /\ link'.sid = link.sid
      BY <1>0, <2>1, SameKind
    <2> QED
      BY <2>1, <2>2 DEF TargetsGo, SidGoes, InFleet
  <1>6. ASSUME Authenticate, ~Failed PROVE TargetsGo /\ SidGoes
    <2>1. PICK learnt, left :
             /\ link' = [link EXCEPT !.learnt = learnt, !.left = left, !.key = NoPin]
             /\ \/ Established(learnt)
                \/ mem' = mem
             /\ job' = job /\ pc = "auth"
      BY <1>6 DEF Authenticate, scripts, desk
    <2>2. link'.kind = link.kind /\ link'.sid = link.sid
      BY <1>0, <2>1, SameKind
    <2>3. InFleet => mem' = mem
      BY <2>1 DEF Established, desk
    <2> QED
      BY <2>1, <2>2, <2>3 DEF TargetsGo, SidGoes, InFleet
  <1>7. ASSUME ConnectTick PROVE TargetsGo /\ SidGoes
    <2>1. CASE Over
      BY <1>1, <1>2, <2>1
    <2>2. CASE ~Over
      <3>1. UNCHANGED <<mem, link, job>> /\ pc \in {"dial", "auth"} /\ ~InFleet
        BY <1>7, <2>2 DEF ConnectTick, scripts, desk
      <3> QED
        BY <3>1 DEF TargetsGo, SidGoes, InFleet
    <2> QED
      BY <2>1, <2>2
  <1> QED
    BY <1>3, <1>4, <1>5, <1>6, <1>7 DEF ConnectStep, Dial, Authenticate

LEMMA OtherLinks ==
    ASSUME LeavesInv, StepsInv, ConnsInv, ForwardStep \/ ScriptStep \/ ShellStep PROVE TargetsGo /\ SidGoes
  <1>0. LinkShape(link) /\ NoLink.kind = "none" /\ JobShape(job)
    BY DEF LeavesInv, NoLink, StepsInv
  <1>1. Over => pc' = "idle"
    BY DEF Over, Reset
  <1>2. ASSUME pc' = "idle" PROVE TargetsGo /\ SidGoes
    BY <1>2 DEF TargetsGo, SidGoes
  <1>3. ASSUME mem' = mem, job'.targets = job.targets \/ ~InFleet, link'.kind = link.kind, link'.sid = link.sid,
               pc' = pc \/ pc \notin {"idle", "next"}
        PROVE  TargetsGo /\ SidGoes
    BY <1>3 DEF TargetsGo, SidGoes, InFleet
  <1>4. ASSUME ForwardStep PROVE TargetsGo /\ SidGoes
    <2>1. StartForward => TargetsGo /\ SidGoes
      BY <1>3 DEF StartForward, scripts, desk
    <2>2. ASSUME ForwardsStarted PROVE TargetsGo /\ SidGoes
      <3>1. CASE Over
        BY <1>1, <1>2, <3>1
      <3>2. CASE ~Over
        <4>1. mem' = mem /\ link' = link /\ pc = "bind"
              /\ ~InFleet
          BY <2>2, <3>2 DEF ForwardsStarted, ConnsInv, desk
        <4> QED
          BY <1>3, <4>1
      <3> QED
        BY <3>1, <3>2
    <2>3. AcceptForward \/ SocksHandshake \/ ChannelAnswer \/ PushedChannel \/ DialLocal \/ CloseConn
            => TargetsGo /\ SidGoes
      BY <1>3 DEF AcceptForward, SocksHandshake, ChannelAnswer, PushedChannel, DialLocal, CloseConn, Others,
                  scripts, desk
    <2> QED
      BY <1>4, <2>1, <2>2, <2>3 DEF ForwardStep
  <1>5. ASSUME ScriptStep PROVE TargetsGo /\ SidGoes
    <2>1. ASSUME NEW st, NEW hit PROVE Result(st, hit).targets = job.targets
      BY <1>0 DEF Result, JobShape
    <2>3. ASSUME NEW x, NEW y
          PROVE  /\ [job EXCEPT !.results = x].targets = job.targets
                 /\ [job EXCEPT !.todo = y, !.results = x].targets = job.targets
      BY <1>0 DEF JobShape
    <2>7. SkipStep \/ StartStep \/ StepOutput \/ EndStep => job'.targets = job.targets
      <3>1. EndStep => \E st, hit : job' = Result(st, hit)
        BY DEF EndStep
      <3>2. SkipStep => job' = Result("skipped", FALSE)
        BY DEF SkipStep
      <3>3. EndStep \/ SkipStep => job'.targets = job.targets
        <4> SUFFICES ASSUME NEW st, NEW hit, job' = Result(st, hit) PROVE job'.targets = job.targets
          BY <3>1, <3>2
        <4> QED
          BY <2>1
      <3>4. StartStep => job'.targets = job.targets
        BY <1>0 DEF JobShape, StartStep
      <3>5. StepOutput => job'.targets = job.targets
        BY <1>0 DEF JobShape, StepOutput
      <3> QED
        BY <3>3, <3>4, <3>5
    <2>8. SkipStep \/ StartStep \/ StepOutput \/ EndStep => UNCHANGED <<mem, pc, link>>
      BY DEF SkipStep, StartStep, StepOutput, EndStep, InScript, desk
    <2>4. SkipStep \/ StartStep \/ StepOutput \/ EndStep => TargetsGo /\ SidGoes
      BY <1>3, <2>7, <2>8
    <2>5. ApplyEvents \/ ScriptsDone => TargetsGo /\ SidGoes
      BY <1>3 DEF ApplyEvents, ScriptsDone, scripts, desk
    <2>6. ASSUME ScriptEnds PROVE TargetsGo /\ SidGoes
      <3>1. mem' = mem /\ job'.targets = job.targets /\ pc = "script"
        BY <2>3, <2>6 DEF ScriptEnds, desk
      <3>2. CASE InFleet
        BY <2>6, <3>1, <3>2 DEF ScriptEnds, TargetsGo, SidGoes, Go
      <3>3. CASE ~InFleet
        BY <1>3, <2>6, <3>1, <3>3 DEF ScriptEnds
      <3> QED
        BY <3>2, <3>3
    <2> QED
      BY <1>5, <2>4, <2>5, <2>6 DEF ScriptStep
  <1>6. ASSUME ShellStep PROVE TargetsGo /\ SidGoes
    <2>1. ASSUME StartShell \/ ShellReturns PROVE TargetsGo /\ SidGoes
      <3>1. PICK x : link' = [link EXCEPT !.shell = x]
        BY <2>1 DEF StartShell, ShellReturns
      <3>2. link'.kind = link.kind /\ link'.sid = link.sid
        BY <1>0, <3>1, SameKind
      <3>3. mem' = mem /\ job' = job /\ pc \notin {"idle", "next"}
        BY <2>1 DEF StartShell, ShellReturns, InShell, scripts, desk
      <3> QED
        BY <1>3, <3>2, <3>3
    <2>2. EndSession(TRUE, probe = "ok") \/ EndSession(FALSE, probe = "ok")
            \/ EndSession(link.shell = "closed", probe = "ok") => pc' = "idle"
      BY <1>1 DEF EndSession
    <2>3. ASSUME Tick PROVE TargetsGo /\ SidGoes
      <3>1. pc' = "idle" \/ UNCHANGED <<mem, pc, link, job>>
        BY <1>1, <2>2, <2>3 DEF Tick, scripts, desk
      <3> QED
        BY <1>2, <1>3, <3>1
    <2>4. ConnectEnds \/ RemoteEnds \/ ShellRefused => pc' = "idle"
      BY <1>1, <2>2 DEF ConnectEnds, RemoteEnds, ShellRefused
    <2>5. TypeKeys \/ IgnoreKey \/ BridgeKeys \/ SwitchScreen \/ ProbeAnswers \/ PollAnswers => TargetsGo /\ SidGoes
      BY <1>3 DEF TypeKeys, IgnoreKey, BridgeKeys, SwitchScreen, ProbeAnswers, PollAnswers, Metered, scripts, desk
    <2> QED
      BY <1>2, <1>6, <2>1, <2>3, <2>4, <2>5 DEF ShellStep
  <1> QED
    BY <1>4, <1>5, <1>6

LEMMA FleetLinks ==
    ASSUME LeavesInv, StepsInv, TargetsInv, FleetStep PROVE TargetsGo /\ SidGoes
  <1>0. JobShape(job)
    BY DEF StepsInv
  <1>1. RunScript => TargetsGo /\ SidGoes
    BY DEF TargetsGo, SidGoes, RunScript, Go
  <1>2. ASSUME NextTarget PROVE TargetsGo /\ SidGoes
    <2>1. /\ InFleet /\ pc = "next" /\ mem' = mem /\ job.targets # <<>> /\ job'.targets = Tail(job.targets)
          /\ \/ link' = Dialled("fleet", Head(job.targets))
             \/ pc' = pc
      BY <1>0, <1>2 DEF NextTarget, LeavesInv, InFleet, JobShape, desk
    <2>2. IsList(job.targets) /\ Head(job.targets) \in IdsOf(Servers)
      BY <2>1, TailList DEF TargetsInv, InFleet
    <2> QED
      BY <2>1, <2>2, DialledIs DEF TargetsGo, SidGoes
  <1>3. ASSUME RunEnds \/ RunTick PROVE TargetsGo /\ SidGoes
    <2>1. CASE pc' = "idle"
      BY <2>1 DEF TargetsGo, SidGoes
    <2>2. CASE pc' # "idle"
      <3>1. UNCHANGED <<mem, link, job>> /\ pc = "script" /\ InFleet
        BY <1>3, <2>2 DEF RunEnds, RunTick, ShowRun, Reset, scripts, desk
      <3> QED
        BY <3>1 DEF TargetsGo, SidGoes
    <2> QED
      BY <2>1, <2>2
  <1> QED
    BY <1>1, <1>2, <1>3 DEF FleetStep

\* The boxes of the target screen, or the server the scripts are of.
LEMMA TargetsAreServers ==
    ASSUME ScreensInv, RunScript
    PROVE  IsList(Targets) /\ \A i \in DOMAIN Targets : Targets[i] \in IdsOf(Servers)
  <1>1. ScreenOK(screen, Servers) /\ screen.at \in {"scripts", "targets"}
    BY DEF ScreensInv, RunScript
  <1>2. screen.sid \in IdsOf(Servers) /\ IsList(<<screen.sid>>)
    <2>1. <<screen.sid>> \in Seq({screen.sid})
      OBVIOUS
    <2> QED
      BY <1>1, <2>1, SeqIsList DEF ScreenOK, OfServer
  <1>3. DOMAIN <<screen.sid>> = {1} /\ <<screen.sid>>[1] = screen.sid
    OBVIOUS
  <1> QED
    BY <1>1, <1>2, <1>3 DEF Targets, ScreenOK

LEMMA LinksStep ==
    ASSUME AppInv, LeavesInv, StepsInv, ConnsInv, ScreensInv, TargetsInv, SidInv, [Next]_vars
    PROVE  TargetsInv' /\ SidInv'
  <1>1. CASE HandleKey1
    BY <1>1 DEF HandleKey1, LeavesInv, TargetsInv, SidInv
  <1>2. CASE UNCHANGED vars
    BY <1>2 DEF vars, desk, session, scripts, TargetsInv, SidInv, Servers
  <1>3. CASE SessionNext
    <2>1. TargetsGo /\ SidGoes
      BY <1>3, ConnectLinks, OtherLinks, FleetLinks DEF SessionNext, AppInv
    <2>2. TargetsInv'
      <3>1. CASE RunScript
        <4>1. job'.targets = Targets /\ mem' = mem
          <5>1. PICK t, m, d : job' = [NoJob EXCEPT !.targets = t, !.several = m, !.todo = d] /\ t = Targets
            BY <3>1 DEF RunScript
          <5> QED
            BY <3>1, <5>1 DEF NoJob, RunScript, Goes
        <4> QED
          BY <3>1, <4>1, TargetsAreServers DEF TargetsInv, Servers
      <3>2. CASE ~RunScript
        <4>1. ASSUME pc # "idle", InFleet, mem' = mem,
                     job'.targets = job.targets \/ (job.targets # <<>> /\ job'.targets = Tail(job.targets))
              PROVE  TargetsInv'
          <5>1. IsList(job.targets) /\ \A i \in DOMAIN job.targets : job.targets[i] \in IdsOf(Servers)
            BY <4>1 DEF TargetsInv, InFleet
          <5>2. CASE job'.targets = job.targets
            BY <4>1, <5>1, <5>2 DEF TargetsInv, Servers
          <5>3. CASE job.targets # <<>> /\ job'.targets = Tail(job.targets)
            BY <4>1, <5>1, <5>3, TailList DEF TargetsInv, Servers
          <5> QED
            BY <4>1, <5>2, <5>3
        <4> QED
          BY <2>1, <3>2, <4>1 DEF TargetsGo, TargetsInv
      <3> QED
        BY <3>1, <3>2
    <2>3. SidInv'
      <3>1. SessionEdit /\ AppInv'
        BY <1>3, SessionEdits, AppStep DEF AppInv
      <3>2. CASE mem' = mem
        BY <2>1, <3>2 DEF SidGoes, SidInv, Servers
      <3>3. CASE Recorded
        <4>1. pc \notin {"idle", "next"}
          BY <3>3 DEF Recorded
        <4>2. PICK o : mem'.servers = [i \in DOMAIN Servers |-> Pinned(o, Servers[i])]
          BY <3>3 DEF Recorded
        <4>3. \A i \in DOMAIN Servers : Pinned(o, Servers[i]).id = Servers[i].id
          BY PinnedIs DEF AppInv, VaultInv, IsVault, Servers
        <4>4. IdsOf(mem'.servers) = IdsOf(Servers)
          BY <4>2, <4>3 DEF IdsOf
        <4> QED
          BY <2>1, <4>1, <4>4 DEF SidGoes, SidInv, Servers
      <3>4. CASE Forgotten
        BY <3>1, <3>4 DEF Forgotten, AppInv, OpenInv, SidInv
      <3> QED
        BY <3>1, <3>2, <3>3, <3>4 DEF SessionEdit
    <2> QED
      BY <2>2, <2>3
  <1> QED
    BY <1>1, <1>2, <1>3 DEF Next

-----------------------------------------------------------------------------
\* The keys a session pins are of hosts of the vault.

Pins == {NoPin} \cup {<<host, gen>> : host \in Texts, gen \in {0, 1}}
KeysInv ==
    pc \in {"dial", "auth"} =>
        /\ \A i \in DOMAIN link.left : link.left[i] \in IdsOf(Servers)
        /\ \A i \in DOMAIN link.learnt : link.learnt[i] \in Pins
        /\ link.key \in Pins

LEMMA DialsKeys == ASSUME Dials, link'.sid \in IdsOf(Servers) PROVE KeysInv'
  <1>1. PICK kind, id : link' = Dialled(kind, id) /\ mem' = mem
    BY DEF Dials
  <1>2. PICK hops : hops = Walk(Servers, id).hops /\ IsList(hops)
                    /\ \A k \in DOMAIN hops : hops[k] \in IdsOf(Servers)
    BY HopsAreList
  <1>3. PICK left : left = Append(hops, id)
    OBVIOUS
  <1>4. PICK l : l = link' /\ l.sid = id /\ l.left = left /\ l.learnt = <<>> /\ l.key = NoPin
    <2>1. PICK l : l = link'
      OBVIOUS
    <2>2. l = [kind |-> kind, sid |-> id, hops |-> hops, left |-> left, learnt |-> <<>>,
               key |-> NoPin, shell |-> "none"]
      BY <1>1, <1>2, <1>3, <2>1 DEF Dialled, NoLink
    <2> QED
      BY <2>1, <2>2
  <1>5. id \in IdsOf(Servers)
    BY <1>4
  <1>6. ASSUME NEW i \in DOMAIN left PROVE left[i] \in IdsOf(Servers)
    <2>1. /\ DOMAIN left = 1..(Len(hops) + 1) /\ left[Len(hops) + 1] = id /\ Len(hops) \in Nat
          /\ DOMAIN hops = 1..Len(hops) /\ \A j \in DOMAIN hops : left[j] = hops[j]
      <3>1. IsList(left) /\ Len(left) = Len(hops) + 1
        BY <1>2, <1>3, AppendedList
      <3> QED
        BY <1>2, <1>3, <3>1, AppendedList, Lists
    <2> QED
      BY <1>2, <1>5, <1>6, <2>1
  <1> QED
    BY <1>1, <1>4, <1>6, NoList DEF KeysInv, Servers, Pins

LEMMA ShakesKeys ==
    ASSUME PinsInv, KeysInv, LinkShape(link), ConfigInv, VaultInv, Shakes PROVE KeysInv'
  <1> DEFINE server == Find(Servers, Head(link.left))
  <1>1. PICK key : \E gen \in {0, 1} :
           /\ link' = [link EXCEPT !.key = key]
           /\ key = IF server.pin = NoPin THEN <<server.host, gen>> ELSE NoPin
    BY DEF Shakes
  <1>2. link'.left = link.left /\ link'.learnt = link.learnt /\ link'.key = key
    BY <1>1 DEF LinkShape
  <1>3. server.host \in Texts
    <2>1. IsList(link.left) /\ link.left # <<>>
      BY DEF Shakes, PinsInv, Learning
    <2>2. Head(link.left) \in IdsOf(Servers)
      BY <2>1, TailList DEF Shakes, KeysInv
    <2>3. PICK i \in DOMAIN Servers : server = Servers[i]
      BY <2>2, FoundIn DEF VaultInv, Servers
    <2> QED
      BY <2>3 DEF ConfigInv, ServersOK, ServerOK, Servers
  <1> HIDE DEF server
  <1>4. key \in Pins
    BY <1>1, <1>3 DEF Pins
  <1> QED
    BY <1>2, <1>4 DEF KeysInv, Shakes, Servers

LEMMA LearntPins ==
    ASSUME PinsInv, KeysInv, pc = "auth", NEW i \in DOMAIN Append(link.learnt, link.key)
    PROVE  Append(link.learnt, link.key)[i] \in Pins
  <1>1. PICK old, key : old = link.learnt /\ key = link.key
    OBVIOUS
  <1>2. IsList(old) /\ key \in Pins /\ \A j \in DOMAIN old : old[j] \in Pins
    BY <1>1 DEF PinsInv, Learning, KeysInv
  <1>3. /\ IsList(Append(old, key)) /\ Len(Append(old, key)) = Len(old) + 1
        /\ Append(old, key)[Len(old) + 1] = key
        /\ \A j \in DOMAIN old : Append(old, key)[j] = old[j]
    BY <1>2, AppendedList
  <1>4. DOMAIN Append(old, key) = 1..(Len(old) + 1) /\ Len(old) \in Nat /\ DOMAIN old = 1..Len(old)
    BY <1>2, <1>3, Lists
  <1> QED
    BY <1>1, <1>2, <1>3, <1>4

LEMMA HopsOnKeys == ASSUME PinsInv, KeysInv, LinkShape(link), HopsOn PROVE KeysInv'
  <1>1. PICK learnt : learnt = Append(link.learnt, link.key)
    OBVIOUS
  <1>2. /\ link'.left = Tail(link.left) /\ link'.learnt = learnt /\ link'.key = NoPin
    BY <1>1 DEF LinkShape, HopsOn
  <1>3. IsList(link.left) /\ link.left # <<>> /\ pc = "auth" /\ mem' = mem
        /\ \A i \in DOMAIN link.left : link.left[i] \in IdsOf(Servers)
    BY DEF HopsOn, PinsInv, Learning, KeysInv
  <1>4. \A i \in DOMAIN Tail(link.left) : Tail(link.left)[i] \in IdsOf(Servers)
    BY <1>3, TailList
  <1>5. \A i \in DOMAIN learnt : learnt[i] \in Pins
    BY <1>1, <1>3, LearntPins
  <1> QED
    BY <1>2, <1>3, <1>4, <1>5 DEF KeysInv, Servers, Pins

\* The list of a session's keys is not empty, and every one is one of the pins.
LEMMA RecordedPins ==
    ASSUME PinsInv, KeysInv, LinkShape(link), pc = "auth", Tail(link.left) = <<>>, NEW s, IsServer(s), s.pin \in Pins
    PROVE  Pinned(Append(link.learnt, link.key), s).pin \in Pins
  <1>1. PICK o : o = Append(link.learnt, link.key)
    OBVIOUS
  <1>2. \A i \in DOMAIN o : o[i] \in Pins
    BY <1>1, LearntPins
  <1>3. Learning
    BY DEF PinsInv
  <1>4. IsList(o) /\ Len(o) = Len(Chain) /\ Len(o) = Len(link.learnt) + 1
    BY <1>1, <1>3, LearntMore
  <1>5. Len(Chain) = Len(link.hops) + 1 /\ Len(link.hops) \in Nat /\ DOMAIN link.hops = 1..Len(link.hops)
    <2>1. PICK hops, sid : hops = link.hops /\ sid = link.sid
      OBVIOUS
    <2>2. IsList(hops)
      BY <1>3, <2>1 DEF Learning
    <2>3. Len(Append(hops, sid)) = Len(hops) + 1
      BY <2>2, AppendedList
    <2> QED
      BY <2>1, <2>2, <2>3, Lists DEF Chain
  <1>6. DOMAIN o = 1..(Len(link.hops) + 1)
    BY <1>4, <1>5, Lists
  <1>7. Last(o) \in Pins
    BY <1>2, <1>4, <1>5, <1>6 DEF Last
  <1>8. \A k \in DOMAIN link.hops : o[k] \in Pins
    BY <1>2, <1>5, <1>6
  <1>9. \/ Pinned(o, s).pin = s.pin \/ Pinned(o, s).pin = Last(o)
        \/ \E k \in DOMAIN link.hops : Pinned(o, s).pin = o[k]
    BY PinnedIs
  <1>10. Pinned(o, s).pin \in Pins
    BY <1>7, <1>8, <1>9
  <1> QED
    BY <1>1, <1>10

-----------------------------------------------------------------------------
\* Counting what is below each member of a finite set puts them in a row.
LEMMA Ranked ==
    ASSUME NEW S, IsFiniteSet(S), NEW R,
           \A i \in S : <<i, i>> \notin R,
           \A i, j, k \in S : <<i, j>> \in R /\ <<j, k>> \in R => <<i, k>> \in R,
           \A i, j \in S : i = j \/ <<i, j>> \in R \/ <<j, i>> \in R
    PROVE  /\ \A n \in 1..Cardinality(S) : \E i \in S : Cardinality({j \in S : <<j, i>> \in R}) = n - 1
           /\ \A i, k \in S : Cardinality({j \in S : <<j, i>> \in R}) = Cardinality({j \in S : <<j, k>> \in R})
                                 => i = k
           /\ \A i \in S : Cardinality({j \in S : <<j, i>> \in R}) \in 0..(Cardinality(S) - 1)
  <1> DEFINE n == Cardinality(S)
             below(i) == {j \in S : <<j, i>> \in R}
             rank == [i \in S |-> Cardinality(below(i)) + 1]
  <1>1. n \in Nat
    BY FS_CardinalityType
  <1>2. ASSUME NEW i \in S
        PROVE  /\ IsFiniteSet(below(i)) /\ Cardinality(below(i)) \in Nat /\ Cardinality(below(i)) < n
    <2>1. below(i) \in SUBSET S
      OBVIOUS
    <2>2. /\ IsFiniteSet(below(i)) /\ Cardinality(below(i)) <= n
          /\ n = Cardinality(below(i)) => S = below(i)
      BY <2>1, FS_Subset
    <2>3. i \notin below(i)
      OBVIOUS
    <2>4. Cardinality(below(i)) \in Nat
      BY <2>2, FS_CardinalityType
    <2> QED
      BY <1>1, <2>2, <2>3, <2>4
  <1>3. ASSUME NEW i \in S, NEW j \in S, <<j, i>> \in R
        PROVE  Cardinality(below(j)) < Cardinality(below(i))
    <2>1. ASSUME NEW x \in below(j) PROVE x \in below(i)
      <3>1. x \in S /\ <<x, j>> \in R
        OBVIOUS
      <3>2. <<x, i>> \in R
        BY <1>3, <3>1
      <3> QED
        BY <3>1, <3>2
    <2>2. below(j) \in SUBSET below(i)
      BY <2>1
    <2>3. j \in below(i)
      BY <1>3
    <2>4. j \notin below(j)
      OBVIOUS
    <2> HIDE DEF below
    <2>5. /\ Cardinality(below(j)) <= Cardinality(below(i))
          /\ Cardinality(below(i)) = Cardinality(below(j)) => below(i) = below(j)
      BY <1>2, <2>2, FS_Subset
    <2> QED
      BY <1>2, <2>3, <2>4, <2>5
  <1>4. rank \in [S -> 1..n]
    <2> SUFFICES ASSUME NEW i \in S PROVE Cardinality(below(i)) + 1 \in 1..n
      OBVIOUS
    <2> HIDE DEF below, n
    <2> QED
      BY <1>1, <1>2
  <1>5. \A i, j \in S : Cardinality(below(i)) = Cardinality(below(j)) => i = j
    <2> SUFFICES ASSUME NEW i \in S, NEW j \in S, Cardinality(below(i)) = Cardinality(below(j))
                 PROVE  i = j
      OBVIOUS
    <2>1. i = j \/ <<i, j>> \in R \/ <<j, i>> \in R
      OBVIOUS
    <2> HIDE DEF below
    <2> QED
      BY <1>2, <1>3, <2>1
  <1>51. \A i \in S : rank[i] = Cardinality(below(i)) + 1
    OBVIOUS
  <1> HIDE DEF below, rank, n
  <1>6. rank \in Injection(S, 1..n)
    BY <1>2, <1>4, <1>5, <1>51 DEF Injection, IsInjective
  <1>7. IsFiniteSet(1..n) /\ Cardinality(1..n) = n
    BY <1>1, FS_Interval
  <1>8. rank \in Surjection(S, 1..n)
    BY <1>6, <1>7, FS_Injection DEF n
  <1>9. ASSUME NEW k \in 1..n PROVE \E i \in S : Cardinality(below(i)) = k - 1
    <2>1. PICK i \in S : rank[i] = k
      BY <1>8 DEF Surjection
    <2> QED
      BY <1>1, <1>2, <1>51, <2>1
  <1>10. \A i \in S : Cardinality(below(i)) \in 0..(n - 1)
    BY <1>1, <1>2
  <1> QED
    BY <1>5, <1>9, <1>10 DEF n, below

\* Sorting compares place by place.
LEMMA Lexical ==
    ASSUME NEW a, NEW b, DOMAIN a = 1..4, \A k \in 1..4 : a[k] \in Int /\ b[k] \in Int
    PROVE  Precedes(a, b)
             <=> \/ a[1] < b[1]
                 \/ a[1] = b[1] /\ (a[2] < b[2] \/ (a[2] = b[2] /\
                                      (a[3] < b[3] \/ (a[3] = b[3] /\ a[4] < b[4]))))
  <1>2. 1..4 = {1, 2, 3, 4} /\ 1..(1 - 1) = {} /\ 1..(2 - 1) = {1} /\ 1..(3 - 1) = {1, 2}
        /\ 1..(4 - 1) = {1, 2, 3}
    OBVIOUS
  <1>3. Precedes(a, b) <=>
           \/ a[1] < b[1] /\ \A j \in 1..(1 - 1) : a[j] = b[j]
           \/ a[2] < b[2] /\ \A j \in 1..(2 - 1) : a[j] = b[j]
           \/ a[3] < b[3] /\ \A j \in 1..(3 - 1) : a[j] = b[j]
           \/ a[4] < b[4] /\ \A j \in 1..(4 - 1) : a[j] = b[j]
    BY <1>2 DEF Precedes
  <1>4. Precedes(a, b) <=>
           \/ a[1] < b[1]
           \/ a[2] < b[2] /\ a[1] = b[1]
           \/ a[3] < b[3] /\ a[1] = b[1] /\ a[2] = b[2]
           \/ a[4] < b[4] /\ a[1] = b[1] /\ a[2] = b[2] /\ a[3] = b[3]
    BY <1>2, <1>3
  <1> QED
    BY <1>4

LEMMA RankIs == ASSUME NEW text, text \in Texts \cup {None} PROVE Rank(text) \in Int
  <1>1. Rank(None) = 0
    BY DEF Rank
  <1>2. ASSUME text # None PROVE Rank(text) \in Int
    <2>1. PICK i \in DOMAIN Alphabet : Alphabet[i] = text
      BY <1>2 DEF Texts, ToSet
    <2>2. Rank(text) \in DOMAIN Alphabet
      BY <1>2, <2>1 DEF Rank
    <2>3. DOMAIN Alphabet \subseteq Int
      BY DeskAssumption, Lists
    <2> QED
      BY <2>2, <2>3
  <1> QED
    BY <1>1, <1>2

LEMMA Appended ==
    ASSUME NEW t \in Seq(Int), NEW x \in Int
    PROVE  /\ Append(t, x) \in Seq(Int) /\ Len(Append(t, x)) = Len(t) + 1
           /\ Append(t, x)[Len(t) + 1] = x /\ \A k \in 1..Len(t) : Append(t, x)[k] = t[k]
  <1>1. Append(t, x) \in Seq(Int)
    BY AppendProperties
  <1>2. Len(Append(t, x)) = Len(t) + 1
    BY AppendProperties
  <1>3. Append(t, x)[Len(t) + 1] = x
    BY AppendProperties
  <1>4. \A k \in 1..Len(t) : Append(t, x)[k] = t[k]
    BY AppendProperties
  <1> QED
    BY <1>1, <1>2, <1>3, <1>4, Zenon

LEMMA AppendedToThree ==
    ASSUME NEW t \in Seq(Int), Len(t) = 3, NEW x \in Int
    PROVE  /\ Append(t, x) \in Seq(Int) /\ Len(Append(t, x)) = 4 /\ Append(t, x)[4] = x
           /\ \A k \in 1..3 : Append(t, x)[k] = t[k]
  <1>5. Len(t) + 1 = 4
    OBVIOUS
  <1> QED
    <2>1. PICK n : n = Len(t)
      OBVIOUS
    <2>2. /\ Append(t, x) \in Seq(Int) /\ Len(Append(t, x)) = n + 1
          /\ Append(t, x)[n + 1] = x /\ \A k \in 1..n : Append(t, x)[k] = t[k]
      BY <2>1, Appended, Zenon
    <2> QED
      BY <1>5, <2>1, <2>2

LEMMA SortKeyIs ==
    ASSUME NEW s, NEW n, ServerOK(s, n), NEW sort \in Sorts, NEW i \in Nat
    PROVE  \E a, b, c \in Int : Append(SortKey(s, sort), i) = <<a, b, c, i>>
  <1>1. s.name \in Texts /\ s.tag \in Texts \cup {None} /\ s.last \in Nat
    BY DEF ServerOK
  <1>2. Rank(s.name) \in Int /\ Rank(s.tag) \in Int /\ 100 - s.last \in Int
    BY <1>1, RankIs
  <1>3. \E a, b, c \in Int : SortKey(s, sort) = <<a, b, c>>
    <2>1. CASE sort = "name"
      BY <1>2, <2>1 DEF SortKey
    <2>2. CASE sort = "tag"
      <3>1. SortKey(s, sort) = <<IF s.tag = None THEN 1 ELSE 0, Rank(s.tag), Rank(s.name)>>
        BY <2>2 DEF SortKey
      <3> QED
        BY <1>2, <3>1
    <2>3. CASE sort = "last"
      <3>1. SortKey(s, sort) = <<IF s.last = 0 THEN 1 ELSE 0, 100 - s.last, Rank(s.name)>>
        BY <2>3 DEF SortKey
      <3> QED
        BY <1>2, <3>1
    <2> QED
      BY <2>1, <2>2, <2>3 DEF Sorts
  <1>4. PICK a \in Int, b \in Int, c \in Int : SortKey(s, sort) = <<a, b, c>>
    BY <1>3
  <1>5. Append(<<a, b, c>>, i) = <<a, b, c, i>>
    <2> DEFINE t == <<a, b, c>>
               u == <<a, b, c, i>>
    <2>1. /\ t \in Seq(Int) /\ Len(t) = 3 /\ t[1] = a /\ t[2] = b /\ t[3] = c
          /\ DOMAIN u = 1..4 /\ u[1] = a /\ u[2] = b /\ u[3] = c /\ u[4] = i
          /\ u = [k \in DOMAIN u |-> u[k]]
      OBVIOUS
    <2> HIDE DEF t, u
    <2>2. /\ Append(t, i) \in Seq(Int) /\ Len(Append(t, i)) = 4 /\ Append(t, i)[4] = i
          /\ \A k \in 1..3 : Append(t, i)[k] = t[k]
      BY <2>1, AppendedToThree
    <2>21. \A v \in Seq(Int) : DOMAIN v = 1..Len(v) /\ v = [k \in 1..Len(v) |-> v[k]]
      OBVIOUS
    <2>22. DOMAIN Append(t, i) = 1..4 /\ Append(t, i) = [k \in 1..4 |-> Append(t, i)[k]]
      BY <2>2, <2>21
    <2>23. u = [k \in 1..4 |-> u[k]]
      BY <2>1
    <2>24. 1 \in 1..3 /\ 2 \in 1..3 /\ 3 \in 1..3 /\ 1..4 = {1, 2, 3, 4}
      OBVIOUS
    <2>3. \A k \in 1..4 : Append(t, i)[k] = u[k]
      BY <2>1, <2>2, <2>24
    <2>4. Append(t, i) = u
      BY <2>22, <2>23, <2>3
    <2> QED
      BY <2>4 DEF t, u
  <1> QED
    BY <1>4, <1>5

\* Sorting puts the entries in one order.
LEMMA AboveOrders ==
    ASSUME NEW servers, NEW n, IsList(servers), \A i \in DOMAIN servers : ServerOK(servers[i], n),
           NEW sort \in Sorts
    PROVE  /\ \A i \in DOMAIN servers : ~Above(servers, sort, i, i)
           /\ \A i, j, k \in DOMAIN servers :
                 Above(servers, sort, i, j) /\ Above(servers, sort, j, k) => Above(servers, sort, i, k)
           /\ \A i, j \in DOMAIN servers : i = j \/ Above(servers, sort, i, j) \/ Above(servers, sort, j, i)
  <1> DEFINE D == DOMAIN servers
             K(i) == Append(SortKey(servers[i], sort), i)
  <1>1. D \subseteq Nat
    BY Lists
  <1>2. ASSUME NEW i \in D
        PROVE  /\ DOMAIN K(i) = 1..4 /\ \A k \in 1..4 : K(i)[k] \in Int
               /\ K(i)[4] = i
    <2>1. ServerOK(servers[i], n) /\ i \in Nat
      BY <1>1
    <2>2. PICK a \in Int, b \in Int, c \in Int : K(i) = <<a, b, c, i>>
      BY <2>1, SortKeyIs
    <2>3. PICK t : t = <<a, b, c, i>>
      OBVIOUS
    <2>4. DOMAIN t = 1..4 /\ t[1] = a /\ t[2] = b /\ t[3] = c /\ t[4] = i
      BY <2>3
    <2>5. 1..4 = {1, 2, 3, 4}
      OBVIOUS
    <2>6. \A k \in 1..4 : t[k] \in Int
      BY <2>1, <2>2, <2>4, <2>5
    <2>7. t = K(i)
      BY <2>2, <2>3
    <2> HIDE DEF K
    <2> QED
      BY <2>4, <2>6, <2>7
  <1> HIDE DEF K
  <1>3. ASSUME NEW i \in D, NEW j \in D
        PROVE  Above(servers, sort, i, j) <=>
                 \/ K(i)[1] < K(j)[1]
                 \/ /\ K(i)[1] = K(j)[1]
                    /\ \/ K(i)[2] < K(j)[2]
                       \/ /\ K(i)[2] = K(j)[2]
                          /\ \/ K(i)[3] < K(j)[3]
                             \/ K(i)[3] = K(j)[3] /\ i < j
    <2>1. DOMAIN K(i) = 1..4 /\ \A k \in 1..4 : K(i)[k] \in Int /\ K(j)[k] \in Int
      BY <1>2
    <2>2. Above(servers, sort, i, j) <=> Precedes(K(i), K(j))
      BY DEF Above, K
    <2>3. K(i)[4] = i /\ K(j)[4] = j
      BY <1>2
    <2> QED
      BY <2>1, <2>2, <2>3, Lexical
  <1>4. \A i \in D : K(i)[1] \in Int /\ K(i)[2] \in Int /\ K(i)[3] \in Int /\ i \in Int
    <2>1. 1 \in 1..4 /\ 2 \in 1..4 /\ 3 \in 1..4
      OBVIOUS
    <2> QED
      BY <1>1, <1>2, <2>1
  <1>5. \A i \in D : ~Above(servers, sort, i, i)
    BY <1>3, <1>4
  <1>6. ASSUME NEW i \in D, NEW j \in D, NEW k \in D,
               Above(servers, sort, i, j), Above(servers, sort, j, k)
        PROVE  Above(servers, sort, i, k)
    <2>1. /\ K(i)[1] \in Int /\ K(i)[2] \in Int /\ K(i)[3] \in Int /\ i \in Int
          /\ K(j)[1] \in Int /\ K(j)[2] \in Int /\ K(j)[3] \in Int /\ j \in Int
          /\ K(k)[1] \in Int /\ K(k)[2] \in Int /\ K(k)[3] \in Int /\ k \in Int
      BY <1>4
    <2> QED
      BY <1>3, <1>6, <2>1
  <1>7. ASSUME NEW i \in D, NEW j \in D
        PROVE  i = j \/ Above(servers, sort, i, j) \/ Above(servers, sort, j, i)
    <2>1. /\ K(i)[1] \in Int /\ K(i)[2] \in Int /\ K(i)[3] \in Int /\ i \in Int
          /\ K(j)[1] \in Int /\ K(j)[2] \in Int /\ K(j)[3] \in Int /\ j \in Int
      BY <1>4
    <2> QED
      BY <1>3, <2>1
  <1> QED
    BY <1>5, <1>6, <1>7

\* How many rows are above one.
AboveIt(servers, sort, filter, i) ==
    Cardinality({j \in RowsOf(servers, filter) : Above(servers, sort, j, i)})

\* The n-th row is the one with n - 1 entries above it, and no other is.
LEMMA RowsRanked ==
    ASSUME NEW servers, NEW n, IsList(servers), ServersOK(servers, n),
           NEW sort \in Sorts, NEW filter
    PROVE  /\ IsFiniteSet(RowsOf(servers, filter)) /\ Cardinality(RowsOf(servers, filter)) \in Nat
           /\ \A i, k \in RowsOf(servers, filter) :
                 AboveIt(servers, sort, filter, i) = AboveIt(servers, sort, filter, k) => i = k
           /\ \A i \in RowsOf(servers, filter) :
                 AboveIt(servers, sort, filter, i) \in 0..(Cardinality(RowsOf(servers, filter)) - 1)
           /\ DOMAIN Visible(servers, filter, sort) = 1..Cardinality(RowsOf(servers, filter))
           /\ Visible(servers, filter, sort)
                 = [k \in 1..Cardinality(RowsOf(servers, filter)) |-> Visible(servers, filter, sort)[k]]
           /\ \A k \in 1..Cardinality(RowsOf(servers, filter)) :
                 /\ Visible(servers, filter, sort)[k] \in RowsOf(servers, filter)
                 /\ AboveIt(servers, sort, filter, Visible(servers, filter, sort)[k]) = k - 1
  <1> DEFINE S == RowsOf(servers, filter)
             R == {p \in S \X S : Above(servers, sort, p[1], p[2])}
             above(i) == AboveIt(servers, sort, filter, i)
             row(k) == CHOOSE i \in S : above(i) = k - 1
  <1>1. DOMAIN servers \in SUBSET Nat /\ IsFiniteSet(DOMAIN servers)
    <2>1. PICK m \in Nat : DOMAIN servers = 1..m
      BY Lists
    <2>2. IsFiniteSet(1..m) /\ 1..m \in SUBSET Nat
      BY FS_Interval
    <2> QED
      BY <2>1, <2>2
  <1>5. S \subseteq DOMAIN servers
    BY DEF RowsOf
  <1>2. IsFiniteSet(S) /\ Cardinality(S) \in Nat
    <2>1. S \in SUBSET DOMAIN servers
      BY <1>5
    <2> QED
      BY <1>1, <2>1, FS_Subset, FS_CardinalityType
  <1>13. Visible(servers, filter, sort) = [k \in 1..Cardinality(S) |-> row(k)]
    BY DEF Visible, RowsOf, AboveIt
  <1>10. \A i : above(i) = Cardinality({j \in S : Above(servers, sort, j, i)})
    BY DEF AboveIt
  <1> HIDE DEF S, above
  <1>4. \A i, j \in S : <<i, j>> \in R <=> Above(servers, sort, i, j)
    OBVIOUS
  <1> HIDE DEF R
  <1>6. \A i \in S : <<i, i>> \notin R
    BY <1>4, <1>5, AboveOrders DEF ServersOK
  <1>7. \A i, j, k \in S : <<i, j>> \in R /\ <<j, k>> \in R => <<i, k>> \in R
    <2> SUFFICES ASSUME NEW i \in S, NEW j \in S, NEW k \in S,
                        Above(servers, sort, i, j), Above(servers, sort, j, k)
                 PROVE  Above(servers, sort, i, k)
      BY <1>4
    <2>1. i \in DOMAIN servers /\ j \in DOMAIN servers /\ k \in DOMAIN servers
      BY <1>5
    <2> QED
      BY <2>1, AboveOrders DEF ServersOK
  <1>8. \A i, j \in S : i = j \/ <<i, j>> \in R \/ <<j, i>> \in R
    BY <1>4, <1>5, AboveOrders DEF ServersOK
  <1>9. /\ \A k \in 1..Cardinality(S) : \E i \in S : Cardinality({j \in S : <<j, i>> \in R}) = k - 1
        /\ \A i, k \in S : Cardinality({j \in S : <<j, i>> \in R}) = Cardinality({j \in S : <<j, k>> \in R})
              => i = k
        /\ \A i \in S : Cardinality({j \in S : <<j, i>> \in R}) \in 0..(Cardinality(S) - 1)
    BY <1>2, <1>6, <1>7, <1>8, Ranked
  <1>16. \A i \in S : Cardinality({j \in S : <<j, i>> \in R}) = above(i)
    <2> SUFFICES ASSUME NEW i \in S PROVE Cardinality({j \in S : <<j, i>> \in R}) = above(i)
      OBVIOUS
    <2>1. {j \in S : <<j, i>> \in R} = {j \in S : Above(servers, sort, j, i)}
      BY <1>4
    <2> QED
      BY <1>10, <2>1
  <1>11. /\ \A k \in 1..Cardinality(S) : \E i \in S : above(i) = k - 1
         /\ \A i, k \in S : above(i) = above(k) => i = k
         /\ \A i \in S : above(i) \in 0..(Cardinality(S) - 1)
    BY <1>9, <1>16
  <1>12. \A k \in 1..Cardinality(S) : row(k) \in S /\ above(row(k)) = k - 1
    BY <1>11
  <1> HIDE DEF row
  <1>14. DOMAIN Visible(servers, filter, sort) = 1..Cardinality(S)
         /\ \A k \in 1..Cardinality(S) : Visible(servers, filter, sort)[k] = row(k)
    BY <1>13
  <1>15. Visible(servers, filter, sort) = [k \in 1..Cardinality(S) |-> Visible(servers, filter, sort)[k]]
    BY <1>13, <1>14
  <1> QED
    BY <1>2, <1>11, <1>12, <1>14, <1>15 DEF S, above

\* The menu shows entries that match,
LEMMA RowsAreEntries ==
    ASSUME NEW servers, NEW n, IsList(servers), ServersOK(servers, n), NEW sort \in Sorts, NEW filter
    PROVE  /\ Visible(servers, filter, sort) \in Seq(Nat)
           /\ \A k \in DOMAIN Visible(servers, filter, sort) :
                 /\ Visible(servers, filter, sort)[k] \in DOMAIN servers
                 /\ Matches(servers[Visible(servers, filter, sort)[k]], filter)
  <1> DEFINE S == RowsOf(servers, filter)
             row(k) == Visible(servers, filter, sort)[k]
  <1>1. DOMAIN servers \subseteq Nat
    BY Lists
  <1>2. \A i \in S : i \in DOMAIN servers /\ Matches(servers[i], filter)
    BY DEF RowsOf
  <1>3. /\ Cardinality(S) \in Nat
        /\ DOMAIN Visible(servers, filter, sort) = 1..Cardinality(S)
        /\ Visible(servers, filter, sort) = [k \in 1..Cardinality(S) |-> row(k)]
        /\ \A k \in 1..Cardinality(S) : row(k) \in S
    BY RowsRanked
  <1> HIDE DEF S, row
  <1>4. Visible(servers, filter, sort) \in Seq(Nat)
    <2>1. PICK m \in Nat : m = Cardinality(S)
      BY <1>3
    <2>2. \A k \in 1..m : row(k) \in Nat
      BY <1>1, <1>2, <1>3, <2>1
    <2>3. [k \in 1..m |-> row(k)] \in Seq(Nat)
      BY <2>2
    <2> QED
      BY <1>3, <2>1, <2>3
  <1>5. \A k \in DOMAIN Visible(servers, filter, sort) : Visible(servers, filter, sort)[k] \in S
    BY <1>3 DEF row
  <1> QED
    BY <1>2, <1>4, <1>5

\* and every one of them.
LEMMA EntriesAreRows ==
    ASSUME NEW servers, NEW n, IsList(servers), ServersOK(servers, n), NEW sort \in Sorts, NEW filter,
           NEW i \in DOMAIN servers, Matches(servers[i], filter)
    PROVE  \E k \in DOMAIN Visible(servers, filter, sort) : Visible(servers, filter, sort)[k] = i
  <1> DEFINE S == RowsOf(servers, filter)
             above(j) == AboveIt(servers, sort, filter, j)
             row(k) == Visible(servers, filter, sort)[k]
  <1>1. i \in S
    BY DEF RowsOf
  <1>2. /\ Cardinality(S) \in Nat
        /\ \A j, k \in S : above(j) = above(k) => j = k
        /\ \A j \in S : above(j) \in 0..(Cardinality(S) - 1)
        /\ DOMAIN Visible(servers, filter, sort) = 1..Cardinality(S)
        /\ \A k \in 1..Cardinality(S) : row(k) \in S /\ above(row(k)) = k - 1
    BY RowsRanked
  <1> HIDE DEF S, above
  <1>3. PICK c : c = above(i)
    OBVIOUS
  <1>4. c \in 0..(Cardinality(S) - 1)
    BY <1>1, <1>2, <1>3
  <1>5. c + 1 \in 1..Cardinality(S) /\ (c + 1) - 1 = c
    BY <1>2, <1>4
  <1>6. row(c + 1) \in S /\ above(row(c + 1)) = c
    BY <1>2, <1>5
  <1>7. row(c + 1) = i
    BY <1>1, <1>2, <1>3, <1>6
  <1> QED
    BY <1>2, <1>5, <1>7

\* The rows are the same when what they are chosen and sorted by is.
LEMMA SameVisible ==
    ASSUME NEW n, NEW old, IsList(old), ServersOK(old, n),
           NEW m, NEW new, IsList(new), ServersOK(new, m),
           DOMAIN new = DOMAIN old,
           \A i \in DOMAIN old : /\ new[i].name = old[i].name /\ new[i].tag = old[i].tag
                                 /\ new[i].host = old[i].host /\ new[i].last = old[i].last,
           NEW sort \in Sorts, NEW filter
    PROVE  Visible(new, filter, sort) = Visible(old, filter, sort)
  <1>0. /\ Visible(new, filter, sort)
              = [k \in 1..Cardinality(RowsOf(new, filter)) |-> Visible(new, filter, sort)[k]]
        /\ \A k \in 1..Cardinality(RowsOf(new, filter)) :
              /\ Visible(new, filter, sort)[k] \in RowsOf(new, filter)
              /\ AboveIt(new, sort, filter, Visible(new, filter, sort)[k]) = k - 1
    BY RowsRanked
  <1> DEFINE S == RowsOf(old, filter)
             a == Visible(old, filter, sort)
             b == Visible(new, filter, sort)
             size == Cardinality(S)
  <1>1. S = RowsOf(new, filter)
    BY DEF Matches, RowsOf
  <1>2. ASSUME NEW i \in S, NEW j \in S PROVE Above(new, sort, j, i) <=> Above(old, sort, j, i)
    <2>0. i \in DOMAIN old /\ j \in DOMAIN old
      BY DEF RowsOf
    <2>1. SortKey(new[i], sort) = SortKey(old[i], sort) /\ SortKey(new[j], sort) = SortKey(old[j], sort)
      BY <2>0 DEF SortKey, Sorts
    <2> QED
      BY <2>1 DEF Above
  <1>3. \A i \in S : AboveIt(new, sort, filter, i) = AboveIt(old, sort, filter, i)
    <2> SUFFICES ASSUME NEW i \in S PROVE AboveIt(new, sort, filter, i) = AboveIt(old, sort, filter, i)
      OBVIOUS
    <2>1. {j \in S : Above(new, sort, j, i)} = {j \in S : Above(old, sort, j, i)}
      BY <1>2
    <2> QED
      BY <1>1, <2>1 DEF AboveIt
  <1>4. /\ \A i, k \in S : AboveIt(old, sort, filter, i) = AboveIt(old, sort, filter, k) => i = k
        /\ a = [k \in 1..size |-> a[k]]
        /\ \A k \in 1..size : a[k] \in S /\ AboveIt(old, sort, filter, a[k]) = k - 1
    BY RowsRanked
  <1>5. /\ b = [k \in 1..size |-> b[k]]
        /\ \A k \in 1..size : b[k] \in S /\ AboveIt(new, sort, filter, b[k]) = k - 1
    BY <1>0, <1>1
  <1> HIDE DEF S, a, b, size
  <1>6. \A k \in 1..size : a[k] = b[k]
    BY <1>3, <1>4, <1>5
  <1>7. a = b
    BY <1>4, <1>5, <1>6
  <1> QED
    BY <1>7 DEF a, b

\* A server is the one under the cursor where the menu is anchored at it.
LEMMA AnchoredAt ==
    ASSUME NEW servers, NEW n, IsList(servers), ServersOK(servers, n),
           NEW sort \in Sorts, NEW anchor \in IdsOf(servers)
    PROVE  SelectedEntry(servers, Anchored(servers, sort, anchor), sort) = anchor
  <1>1. PICK i \in DOMAIN servers : servers[i].id = anchor
    BY DEF IdsOf
  <1>2. Matches(servers[i], None)
    BY DEF Matches
  <1>8. Visible(servers, None, sort) \in Seq(Nat)
    BY RowsAreEntries
  <1>9. \E k \in DOMAIN Visible(servers, None, sort) : Visible(servers, None, sort)[k] = i
    BY <1>2, EntriesAreRows
  <1> DEFINE rows == Visible(servers, None, sort)
             at == {k \in DOMAIN rows : servers[rows[k]].id = anchor}
  <1>3. rows \in Seq(Nat) /\ \E k \in DOMAIN rows : rows[k] = i
    BY <1>8, <1>9
  <1>4. at # {}
    BY <1>1, <1>3
  <1> DEFINE c == CHOOSE k \in at : TRUE
  <1>5. c \in DOMAIN rows /\ servers[rows[c]].id = anchor
    BY <1>4
  <1>6. Anchored(servers, sort, anchor) = [FreshMenu EXCEPT !.cur = c - 1]
    BY <1>4 DEF Anchored, Reanchor, FreshMenu
  <1> HIDE DEF c, rows, at
  <1>7. PICK menu_ : menu_ = Anchored(servers, sort, anchor)
    OBVIOUS
  <1>13. menu_.cur = c - 1 /\ menu_.filter = None
    BY <1>6, <1>7 DEF FreshMenu
  <1>12. Len(rows) \in Nat /\ DOMAIN rows = 1..Len(rows)
    BY <1>3
  <1>10. c - 1 < Len(rows) /\ (c - 1) + 1 = c
    BY <1>5, <1>12
  <1>11. SelectedEntry(servers, menu_, sort) = servers[rows[c]].id
    BY <1>13, <1>10 DEF SelectedEntry, rows
  <1> QED
    BY <1>5, <1>7, <1>11

-----------------------------------------------------------------------------
LEMMA KeysStep ==
    ASSUME AppInv, LeavesInv, PinsInv, KeysInv, ConfigInv, SidInv', [Next]_vars PROVE KeysInv'
  <1>1. CASE HandleKey1
    BY <1>1 DEF HandleKey1, KeysInv
  <1>2. CASE UNCHANGED vars
    BY <1>2 DEF vars, desk, session, KeysInv, Servers
  <1>3. CASE SessionNext
    <2>0. LinkShape(link) /\ VaultInv
      BY DEF LeavesInv, AppInv
    <2>1. ASSUME Dials PROVE KeysInv'
      <3>1. link'.sid \in IdsOf(Servers)
        BY <2>1 DEF Dials, SidInv, Servers
      <3> QED
        BY <2>1, <3>1, DialsKeys
    <2>2. UNCHANGED <<mem, pc, link>> => KeysInv'
      BY DEF KeysInv, Servers
    <2>3. pc' \notin {"dial", "auth"} => KeysInv'
      BY DEF KeysInv
    <2>4. Connecting
      BY <1>3, SessionGoesOn
    <2>5. Shakes \/ HopsOn => KeysInv'
      BY <2>0, ShakesKeys, HopsOnKeys
    <2> QED
      BY <2>1, <2>2, <2>3, <2>4, <2>5 DEF Connecting
  <1> QED
    BY <1>1, <1>2, <1>3 DEF Next

\* What is left of the work that is done for.
WorkInv == work \in 0..MaxWork

LEMMA WorkIs == MaxWork \in Nat /\ SessionCost \in 1..MaxWork
  BY DeskAssumption, SessionAssumption

Works == work' = work \/ (work > 0 /\ work' = work - 1) \/ (work >= SessionCost /\ work' = work - SessionCost)

LEMMA WorkKept == ASSUME WorkInv, Works PROVE WorkInv'
  BY WorkIs DEF WorkInv, Works

LEMMA DeskWorks == ASSUME DeskNext PROVE Works
  <1>1. ASSUME MenuKey PROVE Works
    <2>1. CycleServerSort => Works
      BY DEF CycleServerSort, Keep, Pay, Works
    <2>2. MenuKey /\ ~CycleServerSort => work' = work
      BY DEF MenuKey, MoveSelection, StartTyping, TypeFilter, EscapeFilter, InList, GoAdd, GoEdit, GoDelete,
             GoScripts, GoForwards, GoSettings, GoFiles, Open, GoSshImport, Lock, Quit, Forget, Quiet, Calm
    <2> QED
      BY <1>1, <2>1, <2>2 DEF Works
  <1>2. ServerKey => Works
    BY DEF ServerKey, Back, FilesBack, CycleJumpHost, RefuseForm, SubmitForm, ConfirmDelete, Quiet, Calm, Keep, Pay,
           Works
  <1>3. ScriptKey => Works
    BY DEF ScriptKey, MoveScript, GoScriptAdd, GoScriptEdit, GoScriptDelete, GoScriptTargets, BackToScripts,
           SubmitScriptForm, ConfirmDeleteScript, MoveTarget, ToggleTarget, ToggleAllTargets, OnScript, MoveRow,
           Quiet, Calm, Keep, Pay, Works
  <1>4. RuleKey => Works
    BY DEF RuleKey, MoveRule, GoForwardAdd, GoForwardEdit, GoForwardDelete, BackToForwards, ToggleForward,
           SubmitForwardForm, ConfirmDeleteForward, OnRule, MoveRow, MutateForwards, Quiet, Calm, Keep, Pay, Works
  <1>5. OtherKey => Works
    BY DEF OtherKey, SaveSetting, MoveImport, ToggleImport, ToggleAllImports, ImportSshHosts, MoveRow, KeepIfSaved,
           Quiet, Calm, Pay, Works
  <1>6. ExpireStatus \/ AutoLockIfIdle \/ Unlock => Works
    BY DEF ExpireStatus, AutoLockIfIdle, Unlock, Forget, Calm, Works
  <1> QED
    BY <1>1, <1>2, <1>3, <1>4, <1>5, <1>6 DEF DeskNext, DeskKey, DeskTimer

LEMMA SessionWorks == ASSUME SessionNext PROVE Works
  <1>1. ASSUME ConnectStep PROVE Works
    BY <1>1 DEF ConnectStep, Connect, Dial, Authenticate, ConnectTick, Failed, Fails, Goes, Established, Works, desk
  <1>2. ASSUME ForwardStep PROVE Works
    BY <1>2 DEF ForwardStep, StartForward, ForwardsStarted, AcceptForward, SocksHandshake, ChannelAnswer,
                PushedChannel, DialLocal, CloseConn, Others, Works, desk, Forget
  <1>3. ASSUME ScriptStep PROVE Works
    BY <1>3 DEF ScriptStep, SkipStep, StartStep, StepOutput, EndStep, ApplyEvents, ScriptEnds, ScriptsDone,
                InScript, Works, desk
  <1>4. ASSUME ShellStep PROVE Works
    BY <1>4 DEF ShellStep, StartShell, ShellRefused, TypeKeys, IgnoreKey, BridgeKeys, Tick, SwitchScreen, ProbeAnswers, PollAnswers,
                ShellReturns, ConnectEnds, RemoteEnds, EndSession, Metered, Works, desk, Forget
  <1>5. ASSUME FleetStep PROVE Works
    BY <1>5 DEF FleetStep, RunScript, NextTarget, RunEnds, RunTick, ShowRun, Goes, Works, desk
  <1> QED
    BY <1>1, <1>2, <1>3, <1>4, <1>5 DEF SessionNext

LEMMA WorkStep == ASSUME WorkInv, [Next]_vars PROVE WorkInv'
  <1>1. HandleKey1 \/ SessionNext => Works
    BY DeskWorks, SessionWorks, DeskTakes
  <1>2. UNCHANGED vars => Works
    BY DEF vars, desk, Works
  <1> QED
    BY <1>1, <1>2, WorkKept DEF Next

\* What a session records keeps the fields of the servers.
LEMMA RecordedOK ==
    ASSUME AppInv, LeavesInv, PinsInv, KeysInv, ConfigInv, WorkInv, Recorded
    PROVE  ServersOK(mem'.servers, nextId)
  <1>1. PICK o : /\ o = Append(link.learnt, link.key)
                 /\ mem'.servers = [i \in DOMAIN Servers |-> Pinned(o, Servers[i])]
    BY DEF Recorded
  <1>2. IsVault(Servers, nextId) /\ ServersOK(Servers, nextId) /\ LinkShape(link)
        /\ pc = "auth" /\ Tail(link.left) = <<>>
    BY DEF AppInv, VaultInv, ConfigInv, Servers, LeavesInv, Recorded
  <1>3. ASSUME NEW i \in DOMAIN Servers PROVE ServerOK(Pinned(o, Servers[i]), nextId)
    <2>1. PICK s : s = Servers[i] /\ IsServer(s) /\ ServerOK(s, nextId)
      BY <1>2 DEF IsVault, ServersOK
    <2>2. s.pin \in Pins
      BY <2>1 DEF ServerOK, Pins
    <2>3. Pinned(o, s).pin \in Pins
      BY <1>1, <1>2, <2>1, <2>2, RecordedPins
    <2>4. PICK r : r = Pinned(o, s)
      OBVIOUS
    <2>5. /\ r.id = s.id /\ r.host = s.host /\ r.jump = s.jump /\ r.forwards = s.forwards
          /\ r.name = s.name /\ r.tag = s.tag /\ r.dirs = s.dirs
          /\ r.last \in {s.last, 1 + MaxWork - work} /\ r.pin \in Pins
      BY <2>1, <2>3, <2>4, PinnedIs
    <2>6. 1 + MaxWork - work \in Nat
      BY WorkIs DEF WorkInv
    <2>7. ServerOK(r, nextId)
      BY <2>1, <2>5, <2>6 DEF ServerOK, Pins
    <2> QED
      BY <2>1, <2>4, <2>7
  <1> QED
    BY <1>1, <1>3 DEF ServersOK

LEMMA SessionConfig ==
    ASSUME AppInv, LeavesInv, PinsInv, KeysInv, ConfigInv, WorkInv, SessionNext PROVE ConfigInv'
  <1>0. /\ ServersOK(mem.servers, nextId) /\ ServersOK(disk.servers, nextId)
        /\ screen.at = "import" => HostsOK(screen.rows)
    BY DEF ConfigInv
  <1>1. SessionEdit
    BY SessionEdits DEF AppInv
  <1>2. nextId' = nextId
    BY <1>1 DEF SessionEdit, Recorded
  <1>3. ServersOK(mem'.servers, nextId) /\ ServersOK(disk'.servers, nextId)
    <2>1. CASE Recorded
      BY <1>0, <2>1, RecordedOK DEF Recorded
    <2>2. CASE app' = app /\ mem' = mem /\ disk' \in {mem, disk}
      BY <1>0, <2>2
    <2>3. CASE Forgotten
      BY <1>0, <2>3, NoList DEF Forgotten, NoConfig, ServersOK
    <2> QED
      BY <1>1, <2>1, <2>2, <2>3 DEF SessionEdit
  <1>4. screen'.at = "import" => HostsOK(screen'.rows)
    <2>1. screen' = screen => (screen'.at = "import" => HostsOK(screen'.rows))
      BY <1>0
    <2>2. screen' = NoScreen => screen'.at # "import"
      BY DEF NoScreen
    <2>3. (\E x : screen' = [Screen("run", screen.sid) EXCEPT !.item = x]) => screen'.at # "import"
      BY DEF Screen, NoScreen
    <2> QED
      BY <2>1, <2>2, <2>3, SessionViews DEF SessionView
  <1> QED
    BY <1>2, <1>3, <1>4 DEF ConfigInv

LEMMA ConfigStep ==
    ASSUME AppInv, LeavesInv, ScreensInv, PinsInv, KeysInv, ConfigInv, WorkInv, [Next]_vars PROVE ConfigInv'
  <1>1. HandleKey1 => ConfigInv'
    BY DeskConfig, DeskTakes
  <1>2. UNCHANGED vars => ConfigInv'
    BY DEF vars, desk, ConfigInv
  <1> QED
    BY <1>1, <1>2, SessionConfig DEF Next

-----------------------------------------------------------------------------
Flows == {"idle", "next", "dial", "auth", "bind", "script", "ready", "shell"}
Kinds == {"none", "full", "pane", "fleet"}
Probes == {"none", "asked", "ok", "failed"}
ConnStates == {"greeting", "opening", "dialling", "copying", "closed"}

\* What the values that other invariants do not speak of can be.
DeskTyped == app \in {"open", "locked", "quit"} /\ status \in {"none", "done", "failed"}
             /\ shown \in 0..(nextId - 1)
FlowTyped ==
    /\ pc \in Flows /\ link.kind \in Kinds /\ probe \in Probes /\ input \in 0..MaxInput
    /\ \A c \in conns : c.state \in ConnStates

Status == status' \in {status, "none", "done", "failed"}
ShownIs == shown' \in {shown, 0, UnderCursor}

LEMMA Turns ==
    /\ \A to : Leave(to) => ShownIs
    /\ \A to : Show(to) => ShownIs
    /\ \A servers, sort, anchor : BackToMenu(servers, sort, anchor) => ShownIs
    /\ \A to : Forget(to) => ShownIs /\ Status
    /\ \A ok : Report(ok) => Status
    /\ \A to : Open(to) => ShownIs /\ Status
    /\ \A m : InList(m) => ShownIs /\ Status
    /\ (Quiet => Status)
  BY DEF Leave, Show, BackToMenu, Forget, Report, Open, InList, Quiet, ShownIs, Status

LEMMA DeskShows == ASSUME DeskNext PROVE ShownIs /\ Status
  <1>1. ASSUME MenuKey PROVE ShownIs /\ Status
    <2>1. MoveSelection \/ StartTyping \/ TypeFilter \/ EscapeFilter => ShownIs /\ Status
      BY Turns DEF MoveSelection, StartTyping, TypeFilter, EscapeFilter
    <2>2. CycleServerSort => ShownIs /\ Status
      BY Turns DEF CycleServerSort, ShownIs, Status
    <2>3. GoAdd \/ GoSettings \/ GoSshImport => ShownIs /\ Status
      BY Turns DEF GoAdd, GoSettings, GoSshImport
    <2>4. GoEdit \/ GoDelete \/ GoScripts \/ GoForwards => ShownIs /\ Status
      BY Turns DEF GoEdit, GoDelete, GoScripts, GoForwards
    <2>5. GoFiles => ShownIs /\ Status
      BY Turns DEF GoFiles, ShownIs
    <2>6. Lock \/ Quit => ShownIs /\ Status
      BY Turns DEF Lock, Quit
    <2> QED
      BY <1>1, <2>1, <2>2, <2>3, <2>4, <2>5, <2>6 DEF MenuKey
  <1>2. ASSUME ServerKey PROVE ShownIs /\ Status
    <2>1. Back \/ CycleJumpHost \/ RefuseForm => ShownIs /\ Status
      BY Turns DEF Back, CycleJumpHost, RefuseForm
    <2>2. FilesBack => ShownIs /\ Status
      BY Turns DEF FilesBack, Status
    <2>3. ASSUME SubmitForm PROVE ShownIs /\ Status
      <3>1. PICK ok, servers, anchor, to : IF ok THEN BackToMenu(servers, mem.sort, anchor) /\ Report(TRUE)
                                           ELSE Show(to) /\ UNCHANGED status
        BY <2>3 DEF SubmitForm
      <3> QED
        BY <3>1, Turns DEF Status
    <2>4. ConfirmDelete => ShownIs /\ Status
      BY Turns DEF ConfirmDelete
    <2> QED
      BY <1>2, <2>1, <2>2, <2>3, <2>4 DEF ServerKey
  <1>3. \A at, rows : MoveRow(at, rows) => ShownIs /\ Status
    BY Turns DEF MoveRow
  <1>4. ASSUME ScriptKey PROVE ShownIs /\ Status
    <2>1. MoveScript \/ MoveTarget => ShownIs /\ Status
      BY <1>3 DEF MoveScript, MoveTarget
    <2>2. GoScriptAdd \/ GoScriptEdit \/ GoScriptDelete \/ GoScriptTargets \/ BackToScripts => ShownIs /\ Status
      BY Turns DEF GoScriptAdd, GoScriptEdit, GoScriptDelete, OnScript, GoScriptTargets, BackToScripts
    <2>3. ASSUME SubmitScriptForm PROVE ShownIs /\ Status
      <3>1. PICK ok, to : IF ok THEN Show(ScriptsList) /\ Report(TRUE) ELSE Show(to) /\ UNCHANGED status
        BY <2>3 DEF SubmitScriptForm
      <3> QED
        BY <3>1, Turns DEF Status
    <2>4. ConfirmDeleteScript => ShownIs /\ Status
      BY Turns DEF ConfirmDeleteScript
    <2>5. ToggleTarget \/ ToggleAllTargets => ShownIs /\ Status
      BY Turns DEF ToggleTarget, ToggleAllTargets
    <2> QED
      BY <1>4, <2>1, <2>2, <2>3, <2>4, <2>5 DEF ScriptKey
  <1>5. ASSUME RuleKey PROVE ShownIs /\ Status
    <2>1. MoveRule => ShownIs /\ Status
      BY <1>3 DEF MoveRule
    <2>2. GoForwardAdd \/ GoForwardEdit \/ GoForwardDelete \/ BackToForwards => ShownIs /\ Status
      BY Turns DEF GoForwardAdd, GoForwardEdit, GoForwardDelete, OnRule, BackToForwards
    <2>3. ASSUME ToggleForward \/ SubmitForwardForm \/ ConfirmDeleteForward PROVE ShownIs /\ Status
      <3>1. PICK to : Show(to)
        BY <2>3 DEF ToggleForward, SubmitForwardForm, ConfirmDeleteForward
      <3>2. \E ok : Report(ok)
        BY <2>3 DEF ToggleForward, SubmitForwardForm, ConfirmDeleteForward, MutateForwards
      <3> QED
        BY <3>1, <3>2, Turns
    <2> QED
      BY <1>5, <2>1, <2>2, <2>3 DEF RuleKey
  <1>6. ASSUME OtherKey PROVE ShownIs /\ Status
    <2>1. SaveSetting => ShownIs /\ Status
      BY Turns DEF SaveSetting, Status
    <2>2. MoveImport => ShownIs /\ Status
      BY <1>3 DEF MoveImport
    <2>3. ToggleImport \/ ToggleAllImports => ShownIs /\ Status
      BY Turns DEF ToggleImport, ToggleAllImports
    <2>4. ASSUME ImportSshHosts PROVE ShownIs /\ Status
      <3>1. PICK ok, servers, to : IF ok THEN BackToMenu(servers, mem.sort, 0) /\ Report(TRUE)
                                   ELSE Show(to) /\ UNCHANGED status
        BY <2>4 DEF ImportSshHosts
      <3> QED
        BY <3>1, Turns DEF Status
    <2> QED
      BY <1>6, <2>1, <2>2, <2>3, <2>4 DEF OtherKey
  <1>7. ExpireStatus \/ AutoLockIfIdle \/ Unlock => ShownIs /\ Status
    BY Turns DEF ExpireStatus, AutoLockIfIdle, Unlock, ShownIs, Status
  <1> QED
    BY <1>1, <1>2, <1>4, <1>5, <1>6, <1>7 DEF DeskNext, DeskKey, DeskTimer

\* The server under the cursor is in the vault.
LEMMA UnderIs ==
    ASSUME AppInv, ConfigInv, ScreensInv PROVE UnderCursor \in {0} \cup IdsOf(Servers)
  <1>1. /\ IsList(Servers) /\ \A i \in DOMAIN Servers : ServerOK(Servers[i], nextId)
        /\ mem.sort \in Sorts /\ menu.cur \in Nat
    BY DEF AppInv, VaultInv, IsVault, ConfigInv, ServersOK, Servers, Shape, ScreensInv, MenuOK, OnRow
  <1>2. PICK rows : rows = Visible(Servers, menu.filter, mem.sort)
    OBVIOUS
  <1>3. rows \in Seq(Nat) /\ \A k \in DOMAIN rows : rows[k] \in DOMAIN Servers
    BY <1>1, <1>2, RowsAreEntries DEF ServersOK
  <1>4. ASSUME menu.cur < Len(rows) PROVE Servers[rows[menu.cur + 1]].id \in IdsOf(Servers)
    <2>1. Len(rows) \in Nat /\ DOMAIN rows = 1..Len(rows)
      BY <1>3
    <2>2. menu.cur + 1 \in DOMAIN rows
      BY <1>1, <1>4, <2>1
    <2> QED
      BY <1>3, <2>2 DEF IdsOf
  <1> QED
    BY <1>2, <1>4 DEF UnderCursor, SelectedEntry

LEMMA SessionSays == ASSUME SessionNext PROVE Status /\ app' \in {app, "quit"}
  <1>1. /\ \A ok : Report(ok) => Status
        /\ \A ok, got : EndSession(ok, got) => Status /\ app' = app
        /\ Fails => Status /\ app' = app
        /\ Forget("quit") => Status /\ app' = "quit"
        /\ UNCHANGED desk => Status /\ app' = app
    BY DEF EndSession, Fails, Report, Forget, Status, desk
  <1>2. ConnectStep => Status /\ app' \in {app, "quit"}
    BY <1>1 DEF ConnectStep, Connect, Goes, Dial, Authenticate, Established, ConnectTick, Failed, Status
  <1>3. ForwardStep => Status /\ app' \in {app, "quit"}
    BY <1>1 DEF ForwardStep, StartForward, ForwardsStarted, AcceptForward, SocksHandshake,
                ChannelAnswer, PushedChannel, DialLocal, CloseConn, Others
  <1>4. ScriptStep => Status /\ app' \in {app, "quit"}
    BY <1>1 DEF ScriptStep, SkipStep, StartStep, StepOutput, EndStep, ApplyEvents, ScriptEnds,
                ScriptsDone, InScript
  <1>5. ASSUME ShellStep PROVE Status /\ app' \in {app, "quit"}
    <2>1. StartShell \/ TypeKeys \/ IgnoreKey \/ BridgeKeys \/ SwitchScreen \/ ProbeAnswers \/ PollAnswers \/ ShellReturns
             => Status /\ app' \in {app, "quit"}
      BY <1>1 DEF StartShell, TypeKeys, IgnoreKey, BridgeKeys, SwitchScreen, ProbeAnswers, PollAnswers, ShellReturns, Metered
    <2>2. ShellRefused \/ ConnectEnds \/ RemoteEnds => Status /\ app' \in {app, "quit"}
      BY <1>1 DEF ShellRefused, ConnectEnds, RemoteEnds
    <2>3. Tick => Status /\ app' \in {app, "quit"}
      BY <1>1 DEF Tick
    <2> QED
      BY <1>5, <2>1, <2>2, <2>3 DEF ShellStep
  <1>6. FleetStep => Status /\ app' \in {app, "quit"}
    BY <1>1 DEF FleetStep, RunScript, NextTarget, RunEnds, RunTick, ShowRun, Goes, Status
  <1> QED
    BY <1>2, <1>3, <1>4, <1>5, <1>6 DEF SessionNext

LEMMA DeskApps == ASSUME DeskNext, app' # app PROVE AutoLockIfIdle \/ Lock \/ Quit \/ Unlock
  <1>1. \A to : Open(to) => app' = app
    BY DEF Open, Quiet, Calm
  <1>2. Quiet => app' = app
    BY DEF Quiet, Calm
  <1>3. \A m : InList(m) => app' = app
    BY <1>2 DEF InList
  <1>4. MenuKey => Lock \/ Quit
    BY <1>1, <1>2, <1>3 DEF MenuKey, MoveSelection, StartTyping, TypeFilter, EscapeFilter, CycleServerSort,
           GoAdd, GoEdit, GoDelete, GoScripts, GoForwards, GoSettings, GoFiles, GoSshImport, Calm
  <1>5. ~ServerKey
    BY <1>2 DEF ServerKey, Back, FilesBack, CycleJumpHost, RefuseForm, SubmitForm, ConfirmDelete
  <1>6. \A at, rows : MoveRow(at, rows) => app' = app
    BY <1>2 DEF MoveRow
  <1>7. ~ScriptKey
    BY <1>2, <1>6 DEF ScriptKey, MoveScript, GoScriptAdd, GoScriptEdit, GoScriptDelete, GoScriptTargets, OnScript,
           BackToScripts, SubmitScriptForm, ConfirmDeleteScript, MoveTarget, ToggleTarget, ToggleAllTargets
  <1>8. ~RuleKey
    BY <1>2, <1>6 DEF RuleKey, MoveRule, GoForwardAdd, GoForwardEdit, GoForwardDelete, OnRule, BackToForwards,
           ToggleForward, SubmitForwardForm, ConfirmDeleteForward, MutateForwards
  <1>9. ~OtherKey
    BY <1>2, <1>6 DEF OtherKey, SaveSetting, MoveImport, ToggleImport, ToggleAllImports, ImportSshHosts
  <1>10. ~ExpireStatus
    BY DEF ExpireStatus, Calm
  <1> QED
    BY <1>4, <1>5, <1>7, <1>8, <1>9, <1>10 DEF DeskNext, DeskKey, DeskTimer

LEMMA DeskTypedKept ==
    ASSUME AppInv, ConfigInv, ScreensInv, DeskTyped, [Next]_vars PROVE DeskTyped'
  <1>0. /\ nextId \in Nat \ {0} /\ shown \in 0..(nextId - 1) /\ status \in {"none", "done", "failed"}
        /\ app \in {"open", "locked", "quit"}
    BY DEF AppInv, VaultInv, DeskTyped
  <1>1. UnderCursor \in 0..(nextId - 1)
    <2>1. IdsOf(Servers) \subseteq 1..(nextId - 1)
      BY DEF AppInv, VaultInv, IsVault, IdsOf, Servers
    <2> QED
      BY <1>0, <2>1, UnderIs
  <1>2. CASE HandleKey1
    <2>1. DeskNext
      BY <1>2, DeskTakes
    <2>2. nextId' \in Nat /\ nextId' >= nextId /\ app' \in {app, "open", "locked", "quit"}
      <3>1. DeskEdit
        BY <2>1, DeskEdits DEF AppInv, OpenInv, RowsInv
      <3>2. app' \in {app, "open", "locked", "quit"}
        <4>2. app' # app => AutoLockIfIdle \/ Lock \/ Quit \/ Unlock
          BY <2>1, DeskApps
        <4> QED
          BY <4>2 DEF AutoLockIfIdle, Lock, Quit, Unlock, Forget
      <3> QED
        BY <3>1, <3>2 DEF DeskEdit
    <2>3. ShownIs /\ Status
      BY <2>1, DeskShows
    <2>4. shown' \in 0..(nextId - 1)
      BY <1>0, <1>1, <2>3 DEF ShownIs
    <2>5. shown' \in 0..(nextId' - 1)
      <3>1. PICK n \in Nat, m \in Nat : n = nextId /\ m = nextId' /\ m >= n
        BY <1>0, <2>2
      <3>2. PICK x : x = shown'
        OBVIOUS
      <3>3. x \in 0..(n - 1)
        BY <2>4, <3>1, <3>2
      <3>4. x \in 0..(m - 1)
        <4>1. x \in Int /\ 0 <= x /\ x <= n - 1
          BY <3>1, <3>3
        <4>2. n \in Nat /\ m \in Nat /\ n <= m
          BY <3>1
        <4> QED
          BY <4>1, <4>2
      <3> QED
        BY <3>1, <3>2, <3>4
    <2> QED
      BY <1>0, <2>2, <2>3, <2>5 DEF DeskTyped, Status
  <1>3. CASE SessionNext
    <2>1. nextId' = nextId /\ shown' \in {shown, 0}
      <3>1. SessionEdit /\ SessionScreen
        BY <1>3, SessionEdits, SessionTurns DEF AppInv
      <3> QED
        BY <3>1 DEF SessionEdit, Recorded, SessionScreen
    <2>2. Status /\ app' \in {app, "quit"}
      BY <1>3, SessionSays
    <2> QED
      BY <1>0, <2>1, <2>2 DEF DeskTyped, Status
  <1>4. CASE UNCHANGED vars
    BY <1>0, <1>4 DEF vars, desk, DeskTyped
  <1> QED
    BY <1>2, <1>3, <1>4 DEF Next

\* What a step of a flow leaves of the values it works with.
FlowGoes ==
    /\ pc' \in Flows /\ probe' \in Probes /\ input' \in 0..MaxInput
    /\ link'.kind \in Kinds
    /\ \A c \in conns' : c.state \in ConnStates
Settled == UNCHANGED <<pc, link, conns, probe, input>>

LEMMA Cleared == ASSUME Reset PROVE FlowGoes
  BY SessionAssumption DEF Reset, NoLink, FlowGoes, Flows, Kinds, Probes, ConnStates

LEMMA Overs ==
    /\ Over => FlowGoes
    /\ \A ok, got : EndSession(ok, got) => FlowGoes
    /\ \A lines : ShowRun(lines) => FlowGoes
  BY Cleared DEF Over, EndSession, ShowRun

LEMMA Settles == ASSUME FlowTyped, Settled PROVE FlowGoes
  BY DEF FlowTyped, Settled, FlowGoes

LEMMA Onwards ==
    ASSUME FlowTyped, UNCHANGED <<conns, probe, input>>, pc' \in Flows, link'.kind \in Kinds PROVE FlowGoes
  BY DEF FlowTyped, FlowGoes

LEMMA Spends ==
    ASSUME FlowTyped, Spend, UNCHANGED <<pc, link, conns, probe>> PROVE FlowGoes
  <1>1. input \in 0..MaxInput /\ MaxInput \in Nat
    BY SessionAssumption DEF FlowTyped
  <1>2. input' \in 0..MaxInput
    BY <1>1 DEF Spend
  <1> QED
    BY <1>2 DEF FlowTyped, FlowGoes

LEMMA KindsOf == ASSUME LinkShape(link), FlowTyped, NEW x, NEW y, NEW z
    PROVE  /\ [link EXCEPT !.key = x].kind \in Kinds /\ [link EXCEPT !.shell = x].kind \in Kinds
           /\ [link EXCEPT !.learnt = x, !.left = y, !.key = z].kind \in Kinds
           /\ [NoLink EXCEPT !.kind = "fleet"].kind \in Kinds
  <1>1. link.kind \in Kinds /\ [NoLink EXCEPT !.kind = "fleet"].kind = "fleet"
    BY DEF FlowTyped, NoLink
  <1> QED
    BY <1>1, SameKind DEF Kinds

LEMMA FailedTyped == ASSUME FlowTyped, LinkShape(link), Failed PROVE FlowGoes
  <1>1. CASE InFleet
    <2>1. /\ UNCHANGED <<conns, probe, input>> /\ pc' = "next"
          /\ link' = [NoLink EXCEPT !.kind = "fleet"]
      BY <1>1 DEF Failed, Go, forwards, meter
    <2>2. link'.kind \in Kinds
      BY <2>1, KindsOf
    <2> QED
      BY <2>1, <2>2, Onwards DEF Flows
  <1>2. CASE ~InFleet
    BY <1>2, Overs DEF Failed
  <1> QED
    BY <1>1, <1>2

LEMMA ConnectTyped == ASSUME FlowTyped, LinkShape(link), Shape(mem), ConnectStep PROVE FlowGoes
  <1>1. CASE Connect
    <2>1. CASE UNCHANGED <<pc, link>>
      BY <1>1, <2>1, Settles DEF Connect, forwards, meter, Settled
    <2>2. CASE ~UNCHANGED <<pc, link>>
      <3>1. PICK mode \in {mem.mode, OtherMode(mem.mode)} : link' = Dialled(mode, Selected)
        BY <1>1, <2>2 DEF Connect
      <3>2. link'.kind = mode /\ mode \in Kinds
        BY <3>1, DialledIs DEF Shape, Modes, OtherMode, Kinds
      <3>3. UNCHANGED <<conns, probe, input>> /\ pc' = "dial"
        BY <1>1, <2>2 DEF Connect, Go, forwards, meter
      <3> QED
        BY <3>2, <3>3, Onwards DEF Flows
    <2> QED
      BY <2>1, <2>2
  <1>2. CASE Dial
    <2>1. CASE Failed
      BY <2>1, FailedTyped
    <2>2. CASE ~Failed
      <3>1. PICK x : link' = [link EXCEPT !.key = x] /\ pc' = "auth" /\ Nothing
        BY <1>2, <2>2 DEF Dial, Go
      <3>2. link'.kind \in Kinds
        BY <3>1, KindsOf
      <3>3. UNCHANGED <<conns, probe, input>>
        BY <3>1 DEF Nothing, forwards, meter
      <3> QED
        BY <3>1, <3>2, <3>3, Onwards DEF Flows
    <2> QED
      BY <2>1, <2>2
  <1>3. CASE Authenticate
    <2>1. CASE Failed
      BY <2>1, FailedTyped
    <2>2. CASE ~Failed
      <3>1. PICK x, y : /\ link' = [link EXCEPT !.learnt = x, !.left = y, !.key = NoPin]
                        /\ Established(x) \/ pc' = "dial"
                        /\ UNCHANGED <<conns, probe, input>>
        BY <1>3, <2>2 DEF Authenticate, Go, meter
      <3>2. link'.kind \in Kinds
        BY <3>1, KindsOf
      <3>3. pc' \in Flows
        BY <3>1 DEF Established, Go, Flows
      <3> QED
        BY <3>1, <3>2, <3>3, Onwards
    <2> QED
      BY <2>1, <2>2
  <1>4. CASE ConnectTick
    <2>1. CASE Over
      BY <2>1, Overs
    <2>2. CASE ~Over
      BY <1>4, <2>2, Settles DEF ConnectTick, forwards, meter, Settled
    <2> QED
      BY <2>1, <2>2
  <1> QED
    BY <1>1, <1>2, <1>3, <1>4 DEF ConnectStep

LEMMA BecomesTyped ==
    ASSUME FlowTyped, ConnsInv, NEW c \in conns, NEW told, NEW state \in ConnStates, Becomes(c, told, state)
    PROVE  \A d \in conns' : d.state \in ConnStates
  <1>1. [c EXCEPT !.told = told, !.state = state].state = state
    BY DEF ConnsInv, ConnOK, ConnShape
  <1> QED
    BY <1>1 DEF Becomes, FlowTyped

LEMMA OthersTyped ==
    ASSUME FlowTyped, Others, input' \in 0..MaxInput, \A d \in conns' : d.state \in ConnStates PROVE FlowGoes
  BY DEF Others, FlowTyped, FlowGoes, meter

LEMMA ForwardTyped == ASSUME FlowTyped, ConnsInv, LinkShape(link), ForwardStep PROVE FlowGoes
  <1>0. input \in 0..MaxInput /\ MaxInput \in Nat /\ (Spend => input' \in 0..MaxInput)
    BY SessionAssumption DEF FlowTyped, Spend
  <1>00. {"greeting", "opening", "dialling", "copying", "closed"} = ConnStates
    BY DEF ConnStates
  <1>1. CASE StartForward
    BY <1>1, Settles DEF StartForward, meter, Settled
  <1>2. CASE ForwardsStarted
    <2>1. CASE Over
      BY <2>1, Overs
    <2>2. CASE ~Over
      BY <1>2, <2>2, Onwards DEF ForwardsStarted, Go, Flows, FlowTyped, forwards, meter
    <2> QED
      BY <2>1, <2>2
  <1>3. CASE AcceptForward
    <2>1. PICK rule, state : state \in ConnStates /\ conns' = conns \cup {Conn(rule, state)}
      BY <1>00, <1>3 DEF AcceptForward
    <2>2. \A d \in conns' : d.state \in ConnStates
      BY <2>1 DEF Conn, FlowTyped
    <2> QED
      BY <1>0, <1>3, <2>2, OthersTyped DEF AcceptForward
  <1>4. CASE SocksHandshake \/ ChannelAnswer \/ DialLocal
    <2>1. PICK c, told, state : c \in conns /\ state \in ConnStates /\ Becomes(c, told, state)
      BY <1>00, <1>4 DEF SocksHandshake, ChannelAnswer, Opened, DialLocal
    <2>2. \A d \in conns' : d.state \in ConnStates
      BY <2>1, BecomesTyped
    <2> QED
      BY <1>0, <1>4, <2>2, OthersTyped DEF SocksHandshake, ChannelAnswer, DialLocal
  <1>5. CASE PushedChannel
    <2>1. PICK rule, from : conns' \subseteq conns \cup {[Conn(rule, "dialling") EXCEPT !.from = from]}
      BY <1>5 DEF PushedChannel
    <2>2. [Conn(rule, "dialling") EXCEPT !.from = from].state = "dialling"
      BY DEF Conn
    <2>3. \A d \in conns' : d.state \in ConnStates
      BY <2>1, <2>2 DEF FlowTyped, ConnStates
    <2> QED
      BY <1>0, <1>5, <2>3, OthersTyped DEF PushedChannel
  <1>6. CASE CloseConn
    <2>1. conns' \subseteq conns
      BY <1>6 DEF CloseConn
    <2> QED
      BY <1>0, <1>6, <2>1, OthersTyped DEF CloseConn, FlowTyped
  <1> QED
    BY <1>1, <1>2, <1>3, <1>4, <1>5, <1>6 DEF ForwardStep

LEMMA ScriptTyped == ASSUME FlowTyped, LinkShape(link), ScriptStep PROVE FlowGoes
  <1>1. CASE SkipStep \/ StartStep \/ StepOutput \/ EndStep
    BY <1>1, Settles DEF SkipStep, StartStep, StepOutput, EndStep, InScript, forwards, meter, Settled
  <1>2. CASE ApplyEvents
    BY <1>2, Settles DEF ApplyEvents, forwards, meter, Settled
  <1>3. CASE ScriptEnds
    <2>1. pc' \in Flows /\ link'.kind \in Kinds
      <3>1. CASE InFleet
        BY <1>3, <3>1, KindsOf DEF ScriptEnds, Go, Flows
      <3>2. CASE ~InFleet
        BY <1>3, <3>2 DEF ScriptEnds, FlowTyped
      <3> QED
        BY <3>1, <3>2
    <2> QED
      BY <1>3, <2>1, Onwards DEF ScriptEnds, forwards, meter
  <1>4. CASE ScriptsDone
    BY <1>4, Onwards DEF ScriptsDone, Go, Flows, FlowTyped, forwards, meter
  <1> QED
    BY <1>1, <1>2, <1>3, <1>4 DEF ScriptStep

LEMMA ShellTyped == ASSUME FlowTyped, LinkShape(link), ShellStep PROVE FlowGoes
  <1>1. CASE StartShell
    <2>1. link'.kind \in Kinds
      BY <1>1, KindsOf DEF StartShell
    <2> QED
      BY <1>1, <2>1 DEF StartShell, Go, Flows, Probes, FlowTyped, FlowGoes, forwards
  <1>2. CASE TypeKeys \/ SwitchScreen
    BY <1>2, Spends DEF TypeKeys, SwitchScreen, forwards, meter
  <1>8. CASE IgnoreKey \/ BridgeKeys
    BY <1>8, Settles DEF IgnoreKey, BridgeKeys, forwards, meter, Settled
  <1>3. CASE ProbeAnswers
    BY <1>3 DEF ProbeAnswers, Metered, Probes, FlowTyped, FlowGoes, forwards
  <1>4. CASE PollAnswers
    BY <1>4, Spends DEF PollAnswers, Metered, forwards
  <1>5. CASE ShellReturns
    <2>1. link'.kind \in Kinds
      BY <1>5, KindsOf DEF ShellReturns
    <2> QED
      BY <1>5, <2>1, Onwards DEF ShellReturns, FlowTyped, forwards, meter
  <1>6. CASE ShellRefused \/ ConnectEnds \/ RemoteEnds
    BY <1>6, Overs DEF ShellRefused, ConnectEnds, RemoteEnds
  <1>7. CASE Tick
    <2>1. CASE Over \/ \E ok, got : EndSession(ok, got)
      BY <2>1, Overs
    <2>2. CASE ~(Over \/ \E ok, got : EndSession(ok, got))
      BY <1>7, <2>2, Settles DEF Tick, forwards, meter, Settled
    <2> QED
      BY <2>1, <2>2
  <1> QED
    BY <1>1, <1>2, <1>3, <1>4, <1>5, <1>6, <1>7, <1>8 DEF ShellStep

LEMMA FleetTyped == ASSUME FlowTyped, LinkShape(link), FleetStep PROVE FlowGoes
  <1>1. CASE RunScript
    <2>1. link'.kind \in Kinds
      BY <1>1, KindsOf DEF RunScript
    <2> QED
      BY <1>1, <2>1, Onwards DEF RunScript, Go, Flows, forwards, meter
  <1>2. CASE NextTarget
    <2>1. \A id : Dialled("fleet", id).kind \in Kinds
      BY NewLink DEF Kinds
    <2>2. pc' \in Flows /\ link'.kind \in Kinds
      <3>1. (pc' = "dial" /\ \E id : link' = Dialled("fleet", id)) \/ UNCHANGED <<pc, link>>
        BY <1>2 DEF NextTarget, Go
      <3> QED
        BY <2>1, <3>1 DEF Flows, FlowTyped
    <2> QED
      BY <1>2, <2>2, Onwards DEF NextTarget, forwards, meter
  <1>3. CASE RunEnds \/ RunTick
    <2>1. CASE \E lines : ShowRun(lines)
      BY <2>1, Overs
    <2>2. CASE ~\E lines : ShowRun(lines)
      BY <1>3, <2>2, Settles DEF RunEnds, RunTick, forwards, meter, Settled
    <2> QED
      BY <2>1, <2>2
  <1> QED
    BY <1>1, <1>2, <1>3 DEF FleetStep

LEMMA FlowTypedKept ==
    ASSUME FlowTyped, ConnsInv, LeavesInv, AppInv, [Next]_vars PROVE FlowTyped'
  <1>0. LinkShape(link) /\ Shape(mem)
    BY DEF LeavesInv, AppInv
  <1>1. FlowGoes => FlowTyped'
    BY DEF FlowGoes, FlowTyped
  <1>2. HandleKey1 => FlowGoes
    BY Settles DEF HandleKey1, forwards, meter, Settled
  <1>3. UNCHANGED vars => FlowGoes
    BY Settles DEF vars, session, forwards, meter, Settled
  <1> QED
    BY <1>0, <1>1, <1>2, <1>3, ConnectTyped, ForwardTyped, ScriptTyped, ShellTyped, FleetTyped
       DEF Next, SessionNext

-----------------------------------------------------------------------------
\* The inductive invariant of App: the vault and what is saved of it, what a flow
\* leaves, the screens, the fleet and the steps of a script, the pins and what is
\* forwarded, where a session goes, the keys it learns, and the kinds of values.
AppWhole ==
    /\ AppInv /\ LeavesInv /\ ScreensInv /\ FleetInv /\ StepsInv /\ PinsInv /\ ConnsInv
    /\ TargetsInv /\ SidInv /\ KeysInv /\ ConfigInv /\ WorkInv /\ KeyboardInv /\ DeskTyped /\ FlowTyped

LEMMA WholeInitially == Init => AppWhole
  <1> SUFFICES ASSUME Init PROVE AppWhole
    OBVIOUS
  <1>1. PinsInv /\ TargetsInv /\ SidInv /\ KeysInv /\ ConnsInv
    BY DEF Init, SessionInit, PinsInv, TargetsInv, SidInv, KeysInv, ConnsInv, Served
  <1>2. ConfigInv /\ WorkInv
    <2>1. /\ disk \in Configs /\ mem = NoConfig /\ nextId = FirstId /\ work = MaxWork /\ screen = NoScreen
      BY DEF Init, DeskInit
    <2>2. ServersOK(disk.servers, FirstId)
      BY <2>1, DeskAssumption DEF ConfigOK, ServersOK
    <2>3. ServersOK(NoConfig.servers, FirstId) /\ screen.at # "import"
      BY <2>1, NoList DEF NoConfig, ServersOK, NoScreen
    <2> QED
      BY <2>1, <2>2, <2>3, WorkIs DEF ConfigInv, WorkInv
  <1>3. DeskTyped
    <2>1. FirstId \in Nat \ {0}
      BY DeskAssumption
    <2>2. 0 \in 0..(FirstId - 1)
      BY <2>1
    <2> QED
      BY <2>2 DEF Init, DeskInit, DeskTyped
  <1>4. FlowTyped
    BY SessionAssumption DEF Init, SessionInit, NoLink, FlowTyped, Flows, Kinds, Probes
  <1> QED
    BY <1>1, <1>2, <1>3, <1>4, AppInitially, LeavesInitially, ScreensInitially, StepsInitially,
       KeyboardInitially DEF AppWhole

LEMMA WholeStep == ASSUME AppWhole, [Next]_vars PROVE AppWhole'
  <1>1. /\ AppInv /\ LeavesInv /\ ScreensInv /\ FleetInv /\ StepsInv /\ PinsInv /\ ConnsInv
        /\ TargetsInv /\ SidInv /\ KeysInv /\ ConfigInv /\ WorkInv /\ KeyboardInv /\ DeskTyped /\ FlowTyped
    BY DEF AppWhole
  <1>2. AppInv'
    BY <1>1, AppStep
  <1>3. LeavesInv'
    BY <1>1, LeavesStep
  <1>4. ScreensInv' /\ FleetInv'
    BY <1>1, ScreensStep
  <1>5. StepsInv'
    BY <1>1, StepsStep
  <1>6. PinsInv'
    BY <1>1, PinsStep
  <1>7. ConnsInv'
    BY <1>1, ConnsStep
  <1>8. TargetsInv' /\ SidInv'
    BY <1>1, LinksStep
  <1>9. KeysInv'
    BY <1>1, <1>8, KeysStep
  <1>10. ConfigInv'
    BY <1>1, ConfigStep
  <1>11. WorkInv'
    BY <1>1, WorkStep
  <1>12. KeyboardInv'
    BY <1>1, KeyboardKept
  <1>13. DeskTyped'
    BY <1>1, DeskTypedKept
  <1>14. FlowTyped'
    BY <1>1, FlowTypedKept
  <1> QED
    BY <1>2, <1>3, <1>4, <1>5, <1>6, <1>7, <1>8, <1>9, <1>10, <1>11, <1>12, <1>13, <1>14 DEF AppWhole

LEMMA AppIsWhole == Spec => []AppWhole
  BY WholeInitially, WholeStep, PTL DEF Spec

LEMMA ListenersTyped ==
    ASSUME AppInv, ConnsInv, SidInv, ConfigInv PROVE listeners \subseteq Ids
  <1> SUFFICES ASSUME NEW x \in listeners PROVE x \in Ids
    OBVIOUS
  <1>1. pc \in Served /\ x \in On
    BY DEF ConnsInv
  <1>2. link.sid \in IdsOf(Servers)
    BY <1>1 DEF SidInv, Served
  <1>3. PICK i \in DOMAIN Servers : Find(Servers, link.sid) = Servers[i]
    BY <1>2, FoundIn DEF AppInv, VaultInv, Servers
  <1>4. PICK all : all = Find(Servers, link.sid).forwards
    OBVIOUS
  <1>5. IsList(all)
    BY <1>3, <1>4, ServerRules DEF AppInv
  <1>6. \A k \in DOMAIN all : all[k].id \in Ids
    <2>1. ServerOK(Servers[i], nextId)
      BY <1>3 DEF ConfigInv, ServersOK, Servers
    <2> QED
      BY <1>3, <1>4, <2>1 DEF ServerOK, Ids
  <1>7. PICK on : on = EnabledRules(link.sid) /\ \E k \in DOMAIN on : x = on[k].id
    BY <1>1 DEF On, IdsOf
  <1>8. \A k \in DOMAIN on : \E j \in DOMAIN all : on[k] = all[j]
    <2> DEFINE places == {k \in DOMAIN all : all[k].enabled}
    <2>1. on = EntriesAt(all, places)
      BY <1>4, <1>7 DEF EnabledRules
    <2>2. places \subseteq DOMAIN all
      OBVIOUS
    <2> HIDE DEF places
    <2> QED
      BY <1>5, <2>1, <2>2, ChosenEntries
  <1> QED
    BY <1>6, <1>7, <1>8

\* App's TypeOK: every server has the fields and the kinds of values the config says,
\* its ids are ones that were given, and every flow is where one can wait.
THEOREM AppTyped == Spec => []TypeOK
  <1>1. AppWhole => TypeOK
    <2> SUFFICES ASSUME AppWhole PROVE TypeOK
      OBVIOUS
    <2>1. ConfigOK(mem, nextId) /\ ConfigOK(disk, nextId)
      BY DEF AppWhole, ConfigInv, ServersOK, AppInv, PrefsInv, Shape, Sorts, Modes, ConfigOK
    <2>2. menu.cur \in Nat /\ screen.cur \in Nat /\ work \in 0..MaxWork
      BY DEF AppWhole, ScreensInv, MenuOK, OnRow, ScreenOK, WorkInv
    <2>3. screen.sid \in Ids \cup {0} /\ shown \in Ids \cup {0}
      <3>1. 0..(nextId - 1) = (1..(nextId - 1)) \cup {0}
        BY DEF AppWhole, AppInv, VaultInv
      <3> QED
        BY <3>1 DEF AppWhole, AppInv, OpenInv, DeskTyped, Ids
    <2>4. listeners \subseteq Ids
      BY ListenersTyped DEF AppWhole
    <2>5. /\ app \in {"open", "locked", "quit"} /\ status \in {"none", "done", "failed"}
          /\ pc \in {"idle", "next", "dial", "auth", "bind", "script", "ready", "shell"}
          /\ link.kind \in {"none", "full", "pane", "fleet"}
          /\ \A c \in conns : c.state \in {"greeting", "opening", "dialling", "copying", "closed"}
          /\ probe \in {"none", "asked", "ok", "failed"} /\ input \in 0..MaxInput
      BY DEF AppWhole, DeskTyped, FlowTyped, Flows, Kinds, Probes, ConnStates
    <2>6. /\ pane.prefix \in {"idle", "armed", "esc"} /\ pane.alt \in BOOLEAN
          /\ kb \in Seq(Keys) /\ typed \in Seq(Keys) /\ sent \in Seq(Keys)
      BY DEF AppWhole, KeyboardInv, Panes, PrefixStates
    <2> QED
      BY <2>1, <2>2, <2>3, <2>4, <2>5, <2>6 DEF TypeOK
  <1> QED
    BY <1>1, AppIsWhole, PTL

-----------------------------------------------------------------------------
\* The import belongs to no server.
ImportInv == screen.at = "import" => screen.sid = 0

LEMMA MenuKeyOwner ==
    ASSUME ScreenShape(screen), MenuKey PROVE screen'.at = "import" => screen'.sid = 0
  <1>1. ASSUME MoveSelection \/ StartTyping \/ TypeFilter \/ EscapeFilter \/ CycleServerSort
        PROVE  screen' = screen /\ screen.at = "menu"
    BY <1>1 DEF MoveSelection, StartTyping, TypeFilter, EscapeFilter, CycleServerSort, InList, InMenu, At
  <1>2. ASSUME GoAdd PROVE screen'.at # "import"
    BY <1>2 DEF GoAdd, Leave, Screen, NoScreen
  <1>3. ASSUME GoEdit PROVE screen'.at # "import"
    <2>1. PICK x, y : Open([Screen("form", Selected) EXCEPT !.choices = x, !.pick = y])
      BY <1>3 DEF GoEdit
    <2> QED
      BY <2>1 DEF Open, Leave, Screen, NoScreen
  <1>4. ASSUME GoDelete \/ GoScripts \/ GoForwards \/ GoSettings PROVE screen'.at # "import"
    BY <1>4, ScreenFields DEF GoDelete, GoScripts, GoForwards, GoSettings, Open, Leave
  <1>5. ASSUME GoFiles PROVE screen'.at # "import"
    <2>1. Open(Screen("files", Selected)) => screen'.at = "files"
      BY ScreenFields DEF Open, Leave
    <2>2. ~Open(Screen("files", Selected)) => screen' = screen /\ screen.at = "menu"
      BY <1>5 DEF GoFiles, InMenu, At
    <2> QED
      BY <2>1, <2>2
  <1>6. ASSUME GoSshImport PROVE screen'.sid = 0
    BY <1>6 DEF GoSshImport, Leave, Screen, NoScreen
  <1>7. ASSUME Lock \/ Quit PROVE screen'.sid = 0
    BY <1>7, ScreenFields DEF Lock, Quit, Forget
  <1> QED
    BY <1>1, <1>2, <1>3, <1>4, <1>5, <1>6, <1>7 DEF MenuKey

LEMMA OtherKeyOwner ==
    ASSUME ScreenShape(screen), OtherKey
    PROVE  /\ screen'.sid \in {screen.sid, 0}
           /\ screen'.at \in {screen.at, "menu"} /\ screen.at \in {"settings", "import"}
           /\ screen.at = "settings" => screen'.at = "settings"
  <1>1. ASSUME MoveImport \/ ToggleImport \/ ToggleAllImports \/ SaveSetting
        PROVE  /\ screen'.sid = screen.sid /\ screen'.at = screen.at
               /\ screen.at \in {"settings", "import"}
    <2>1. PICK x : \/ screen' = [screen EXCEPT !.cur = x] \/ screen' = [screen EXCEPT !.rows = x]
                   \/ screen' = [screen EXCEPT !.err = x]
                   \/ screen' = [screen EXCEPT !.rows[screen.cur + 1].checked = ~@]
      BY <1>1 DEF MoveImport, MoveRow, ToggleImport, ToggleAllImports, SaveSetting, Show
    <2>2. screen.at \in {"settings", "import"}
      BY <1>1 DEF MoveImport, MoveRow, ToggleImport, ToggleAllImports, SaveSetting, At
    <2> QED
      BY <2>1, <2>2 DEF ScreenShape
  <1>2. ASSUME ImportSshHosts
        PROVE  /\ screen'.sid \in {screen.sid, 0} /\ screen.at = "import"
               /\ screen'.at \in {screen.at, "menu"}
    <2>1. PICK ok, servers :
             IF ok THEN BackToMenu(servers, mem.sort, 0) ELSE Show([screen EXCEPT !.err = TRUE])
      BY <1>2, Zenon DEF ImportSshHosts
    <2>2. screen.at = "import"
      BY <1>2 DEF ImportSshHosts, At
    <2> QED
      BY <2>1, <2>2, ScreenFields DEF BackToMenu, Show, ScreenShape
  <1> QED
    BY <1>1, <1>2 DEF OtherKey

LEMMA ImportKept ==
    ASSUME OpenInv, LeavesInv, ImportInv, [Next]_vars PROVE ImportInv'
  <1>0. ScreenShape(screen)
    BY DEF OpenInv
  <1>1. ASSUME DeskNext PROVE ImportInv'
    <2>1. ExpireStatus \/ Unlock => ImportInv'
      BY DEF ExpireStatus, Unlock, ImportInv
    <2>2. AutoLockIfIdle => ImportInv'
      BY ScreenFields DEF AutoLockIfIdle, Forget, ImportInv
    <2>3. MenuKey \/ OtherKey => ImportInv'
      BY <1>0, MenuKeyOwner, OtherKeyOwner DEF ImportInv
    <2>4. ServerKey \/ ScriptKey \/ RuleKey => ImportInv'
      BY <1>0, ServerKeyNoImport, ScriptKeyAt, RuleKeyAt DEF ImportInv, AtScripts, AtForwards
    <2> QED
      BY <1>1, <2>1, <2>2, <2>3, <2>4 DEF DeskNext, DeskKey, DeskTimer
  <1>2. ASSUME SessionNext PROVE ImportInv'
    <2>1. SessionView
      BY <1>2, SessionViews
    <2>2. screen' = screen \/ screen'.at # "import"
      BY <2>1, ScreenFields DEF SessionView, Screen, NoScreen
    <2> QED
      BY <2>2 DEF ImportInv
  <1>3. ASSUME UNCHANGED vars PROVE ImportInv'
    BY <1>3 DEF vars, desk, ImportInv
  <1> QED
    BY <1>1, <1>2, <1>3, DeskTakes DEF Next

-----------------------------------------------------------------------------
\* The menu after a key: one anchored at the server the screen was of, or the
\* screen is none of a server.
Returns ==
    \/ menu' = Anchored(mem'.servers, mem'.sort, screen.sid)
    \/ FilesBack /\ menu' = Anchored(Servers, mem.sort, screen.sid)

LEMMA ServerKeyReturns ==
    ASSUME Shape(mem), ScreenShape(screen), ServerKey, screen'.at = "menu", screen.sid # 0
    PROVE  Returns
  <1>1. Back => Returns
    BY DEF Back, BackToMenu, Quiet, Calm, Servers, Returns
  <1>2. FilesBack => Returns
    BY DEF FilesBack, BackToMenu, Returns
  <1>3. ~CycleJumpHost
    <2>1. ASSUME CycleJumpHost PROVE FALSE
      <3>1. PICK x : screen' = [screen EXCEPT !.pick = x, !.err = FALSE] /\ screen.at = "form"
        BY <2>1 DEF CycleJumpHost, Show, At
      <3> QED
        BY <3>1 DEF ScreenShape
    <2> QED
      BY <2>1
  <1>4. ~RefuseForm
    BY DEF RefuseForm, Show, At, ScreenShape
  <1>5. ASSUME SubmitForm PROVE Returns
    <2>1. PICK data \in Drafts, ok \in BOOLEAN :
             LET servers == Update(Servers, screen.sid, LAMBDA s : Filled(s, data))
             IN /\ Keep(WithServers(servers), ok)
                /\ IF ok THEN BackToMenu(servers, mem.sort, screen.sid)
                   ELSE Show([screen EXCEPT !.err = TRUE])
      BY <1>5 DEF SubmitForm
    <2>2. PICK servers : /\ Keep(WithServers(servers), ok)
                         /\ IF ok THEN BackToMenu(servers, mem.sort, screen.sid)
                            ELSE Show([screen EXCEPT !.err = TRUE])
      BY <2>1
    <2>3. screen.at = "form"
      BY <1>5 DEF SubmitForm, At
    <2>4. ok
      BY <2>2, <2>3 DEF Show, ScreenShape
    <2>5. mem'.servers = servers /\ mem'.sort = mem.sort
      BY <2>2 DEF Keep, WithServers, Shape
    <2> QED
      BY <2>2, <2>4, <2>5 DEF BackToMenu, Returns
  <1>6. ASSUME ConfirmDelete PROVE Returns
    <2>1. PICK servers, ok : Keep(WithServers(servers), ok) /\ BackToMenu(servers, mem.sort, screen.sid)
      BY <1>6 DEF ConfirmDelete
    <2>2. mem'.servers = servers /\ mem'.sort = mem.sort
      BY <2>1 DEF Keep, WithServers, Shape
    <2> QED
      BY <2>1, <2>2 DEF BackToMenu, Returns
  <1> QED
    BY <1>1, <1>2, <1>3, <1>4, <1>5, <1>6 DEF ServerKey

\* Leaving the browser changes nothing the rows are chosen or sorted by.
LEMMA DirsKeepRows ==
    ASSUME AppInv, ConfigInv, ConfigInv', VaultInv', FilesBack
    PROVE  /\ mem'.sort = mem.sort /\ IdsOf(mem'.servers) = IdsOf(Servers)
           /\ Anchored(mem'.servers, mem.sort, screen.sid) = Anchored(Servers, mem.sort, screen.sid)
  <1>0. /\ IsList(Servers) /\ ServersOK(Servers, nextId) /\ mem.sort \in Sorts /\ Shape(mem)
        /\ IsList(mem'.servers) /\ ServersOK(mem'.servers, nextId')
        /\ \A i \in DOMAIN Servers : IsServer(Servers[i])
    <2>1. IsList(Servers) /\ mem.sort \in Sorts /\ Shape(mem) /\ \A i \in DOMAIN Servers : IsServer(Servers[i])
      BY DEF AppInv, VaultInv, IsVault, Servers, Shape
    <2>2. ServersOK(Servers, nextId) /\ ServersOK(mem'.servers, nextId')
      BY DEF ConfigInv, Servers
    <2>3. IsList(mem'.servers)
      BY DEF VaultInv, IsVault
    <2> QED
      BY <2>1, <2>2, <2>3
  <1>1. PICK ok : Keep(WithServers([i \in DOMAIN Servers |-> IF Servers[i].id = screen.sid
                    THEN [Servers[i] EXCEPT !.dirs = TRUE] ELSE Servers[i]]), ok)
    BY DEF FilesBack, Edited, Update
  <1>2. PICK new : new = [i \in DOMAIN Servers |-> IF Servers[i].id = screen.sid
                    THEN [Servers[i] EXCEPT !.dirs = TRUE] ELSE Servers[i]]
    OBVIOUS
  <1>3. mem'.servers = new /\ mem'.sort = mem.sort
    BY <1>0, <1>1, <1>2 DEF Shape, Keep, WithServers
  <1>4. DOMAIN new = DOMAIN Servers
    BY <1>2
  <1>5. \A i \in DOMAIN Servers :
           /\ new[i].name = Servers[i].name /\ new[i].tag = Servers[i].tag
           /\ new[i].host = Servers[i].host /\ new[i].last = Servers[i].last
           /\ new[i].id = Servers[i].id
    <2> SUFFICES ASSUME NEW i \in DOMAIN Servers
                 PROVE  /\ new[i].name = Servers[i].name /\ new[i].tag = Servers[i].tag
                        /\ new[i].host = Servers[i].host /\ new[i].last = Servers[i].last
                        /\ new[i].id = Servers[i].id
      OBVIOUS
    <2>1. new[i] = Servers[i] \/ new[i] = [Servers[i] EXCEPT !.dirs = TRUE]
      BY <1>2
    <2>2. IsServer(Servers[i])
      BY <1>0
    <2> QED
      BY <2>1, <2>2 DEF IsServer
  <1>6. PICK old : old = Servers
    OBVIOUS
  <1>7. PICK next, next_ : next = nextId /\ next_ = nextId'
    OBVIOUS
  <1>8. IsList(new) /\ ServersOK(new, next_) /\ IsList(old) /\ ServersOK(old, next)
    BY <1>0, <1>3, <1>6, <1>7
  <1>9. Visible(new, None, mem.sort) = Visible(old, None, mem.sort)
    BY <1>0, <1>4, <1>5, <1>6, <1>8, SameVisible
  <1>10. IdsOf(new) = IdsOf(old)
    BY <1>4, <1>5, <1>6 DEF IdsOf
  <1>11. Visible(old, None, mem.sort) \in Seq(Nat)
         /\ \A k \in DOMAIN Visible(old, None, mem.sort) : Visible(old, None, mem.sort)[k] \in DOMAIN old
    BY <1>0, <1>8, RowsAreEntries
  <1>12. Anchored(new, mem.sort, screen.sid) = Anchored(old, mem.sort, screen.sid)
    <2> DEFINE rows == Visible(old, None, mem.sort)
    <2>1. {k \in DOMAIN rows : new[rows[k]].id = screen.sid} = {k \in DOMAIN rows : old[rows[k]].id = screen.sid}
      BY <1>5, <1>6, <1>11
    <2> QED
      BY <1>9, <2>1 DEF Anchored, Reanchor, FreshMenu
  <1> QED
    BY <1>3, <1>6, <1>10, <1>12

LEMMA AppAndImport == Spec => []AppWhole /\ []ImportInv
  <1>1. Init => ImportInv
    BY DEF Init, DeskInit, NoScreen, ImportInv
  <1>2. ASSUME AppWhole, ImportInv, [Next]_vars PROVE ImportInv'
    BY <1>2, ImportKept DEF AppWhole, AppInv
  <1> QED
    BY <1>1, <1>2, AppIsWhole, PTL DEF Spec

\* App's BackOnSameServer: whatever screen a server was left for, and whatever
\* was edited there, its row is under the cursor on the way back.
THEOREM BackWhereItWas == Spec => BackOnSameServer
  <1>1. ASSUME AppWhole, AppWhole', ImportInv, [Next]_vars, Running, screen.at # "menu",
               screen'.at = "menu", shown \in ServersIn(mem'), screen.sid # 0
        PROVE  UnderCursor' = shown
    <2>1. /\ AppInv /\ OpenInv /\ ScreenShape(screen) /\ Shape(mem) /\ LeavesInv /\ ConfigInv
          /\ mem.sort \in Sorts
      BY <1>1 DEF AppWhole, AppInv, OpenInv, Shape
    <2>2. /\ IsList(mem'.servers) /\ ServersOK(mem'.servers, nextId') /\ mem'.sort \in Sorts
          /\ ConfigInv' /\ VaultInv'
      BY <1>1 DEF AppWhole, AppInv, VaultInv, IsVault, ConfigInv, Shape
    <2>3. screen.sid = shown
      BY <1>1, <2>1 DEF OpenInv
    <2>4. ~SessionNext
      <3>1. ASSUME SessionNext PROVE FALSE
        <4>1. SessionView
          BY <2>1, <3>1, SessionViews
        <4> QED
          BY <1>1, <4>1, ScreenFields DEF SessionView, Running, Screen, NoScreen
      <3> QED
        BY <3>1
    <2>5. DeskNext
      BY <1>1, <2>4, DeskTakes DEF Next, vars, desk
    <2>6. ServerKey
      <3>1. ~MenuKey
        BY <1>1 DEF MenuKey, MoveSelection, StartTyping, TypeFilter, EscapeFilter, CycleServerSort, GoAdd,
                    GoEdit, GoDelete, GoScripts, GoForwards, GoSettings, GoFiles, GoSshImport, Lock, Quit,
                    Open, InMenu, At
      <3>2. ~ScriptKey /\ ~RuleKey
        BY <1>1, <2>1, ScriptKeyAt, RuleKeyAt DEF AtScripts, AtForwards
      <3>3. ~OtherKey
        <4>1. ASSUME OtherKey PROVE screen.at = "import"
          BY <1>1, <2>1, <4>1, OtherKeyOwner
        <4> QED
          BY <1>1, <4>1 DEF ImportInv
      <3>4. ~ExpireStatus /\ ~Unlock /\ ~AutoLockIfIdle
        BY <1>1 DEF ExpireStatus, Unlock, AutoLockIfIdle, Forget, Running
      <3> QED
        BY <2>5, <3>1, <3>2, <3>3, <3>4 DEF DeskNext, DeskKey, DeskTimer
    <2>7. Returns
      BY <1>1, <2>1, <2>6, ServerKeyReturns
    <2>8. menu' = Anchored(mem'.servers, mem'.sort, screen.sid)
      <3>1. CASE FilesBack
        <4>1. /\ mem'.sort = mem.sort
              /\ Anchored(mem'.servers, mem.sort, screen.sid) = Anchored(Servers, mem.sort, screen.sid)
          BY <2>1, <2>2, <3>1, DirsKeepRows
        <4> QED
          BY <2>7, <4>1 DEF Returns
      <3>2. CASE ~FilesBack
        BY <2>7, <3>2 DEF Returns
      <3> QED
        BY <3>1, <3>2
    <2>9. PICK servers, sort, next, list, sid :
             servers = mem'.servers /\ sort = mem'.sort /\ next = nextId' /\ list = menu' /\ sid = shown
      OBVIOUS
    <2>10. SelectedEntry(servers, Anchored(servers, sort, sid), sort) = sid
      <3>1. IsList(servers) /\ ServersOK(servers, next) /\ sort \in Sorts /\ sid \in IdsOf(servers)
        BY <1>1, <2>2, <2>9 DEF ServersIn
      <3> QED
        BY <3>1, AnchoredAt
    <2>11. SelectedEntry(servers, list, sort) = sid
      BY <2>3, <2>8, <2>9, <2>10
    <2> QED
      BY <2>9, <2>11 DEF UnderCursor, Servers
  <1>2. ASSUME AppWhole, AppWhole', ImportInv, [Next]_vars
        PROVE  [Running /\ screen.at # "menu" /\ screen'.at = "menu" /\ shown \in ServersIn(mem')
                  /\ screen.sid # 0 => UnderCursor' = shown]_vars
    BY <1>1, <1>2
  <1> QED
    BY <1>2, AppAndImport, PTL DEF Spec, BackOnSameServer

-----------------------------------------------------------------------------
\* The next machine on the way to one.
After(servers, at) == IF at \in IdsOf(servers) THEN Find(servers, at).jump ELSE 0

\* The way to a machine, as far as the m-th hop.
Hops(f, servers, id, m) == f = [k \in 0..m |-> IF k = 0 THEN id ELSE After(servers, f[k - 1])]
Way(f, servers, id) == f = [k \in Nat |-> IF k = 0 THEN id ELSE After(servers, f[k - 1])]

LEMMA HopsOne ==
    ASSUME NEW servers, NEW id, NEW m \in Nat, NEW f, Hops(f, servers, id, m)
    PROVE  \E g : Hops(g, servers, id, m + 1)
  <1> DEFINE g == [k \in 0..(m + 1) |-> IF k = m + 1 THEN After(servers, f[m]) ELSE f[k]]
  <1>1. f = [k \in 0..m |-> IF k = 0 THEN id ELSE After(servers, f[k - 1])]
    BY DEF Hops
  <1>2. ASSUME NEW k \in 0..m PROVE f[k] = IF k = 0 THEN id ELSE After(servers, f[k - 1])
    BY <1>1, <1>2
  <1>3. ASSUME NEW k \in 0..(m + 1)
        PROVE  g[k] = IF k = 0 THEN id ELSE After(servers, g[k - 1])
    <2>1. CASE k = m + 1
      <3>1. k - 1 = m /\ k # 0 /\ k - 1 \in 0..(m + 1) /\ k - 1 # m + 1
        BY <2>1
      <3> QED
        BY <2>1, <3>1
    <2>2. CASE k = 0
      <3>1. k \in 0..m /\ k # m + 1
        BY <2>2
      <3> QED
        BY <1>2, <2>2, <3>1
    <2>3. CASE k # 0 /\ k # m + 1
      <3>1. k \in 0..m /\ k - 1 \in 0..m /\ k - 1 \in 0..(m + 1) /\ k - 1 # m + 1
        BY <2>3
      <3> QED
        BY <1>2, <2>3, <3>1
    <2> QED
      BY <2>1, <2>2, <2>3
  <1>4. g = [k \in 0..(m + 1) |-> g[k]]
    OBVIOUS
  <1> HIDE DEF g
  <1>5. g = [k \in 0..(m + 1) |-> IF k = 0 THEN id ELSE After(servers, g[k - 1])]
    BY <1>3, <1>4
  <1> QED
    BY <1>5 DEF Hops

LEMMA HopsThere ==
    ASSUME NEW servers, NEW id, NEW m \in Nat PROVE \E f : Hops(f, servers, id, m)
  <1> DEFINE bad == {k \in Nat : ~\E f : Hops(f, servers, id, k)}
  <1> SUFFICES ASSUME bad # {} PROVE FALSE
    OBVIOUS
  <1>1. PICK k \in bad : \A j \in bad : k <= j
    BY LeastNumber
  <1>2. k \in Nat /\ ~\E f : Hops(f, servers, id, k)
    OBVIOUS
  <1>3. \E f : Hops(f, servers, id, 0)
    <2> DEFINE f == [n \in 0..0 |-> id]
    <2>1. 0..0 = {0}
      OBVIOUS
    <2>2. f = [n \in 0..0 |-> IF n = 0 THEN id ELSE After(servers, f[n - 1])]
      BY <2>1
    <2> HIDE DEF f
    <2> QED
      BY <2>2 DEF Hops
  <1>4. k # 0
    BY <1>2, <1>3
  <1>5. k - 1 \in Nat /\ ~(k <= k - 1) /\ (k - 1) + 1 = k
    BY <1>2, <1>4
  <1>6. k - 1 \notin bad
    BY <1>1, <1>5
  <1>7. PICK f : Hops(f, servers, id, k - 1)
    BY <1>5, <1>6
  <1> HIDE DEF bad
  <1>8. \E g : Hops(g, servers, id, (k - 1) + 1)
    BY <1>5, <1>7, HopsOne
  <1> QED
    BY <1>2, <1>5, <1>8

LEMMA HopsAgree ==
    ASSUME NEW servers, NEW id, NEW m \in Nat, NEW n \in Nat, NEW f, NEW g,
           Hops(f, servers, id, m), Hops(g, servers, id, n), NEW k \in Nat, k <= m, k <= n
    PROVE  f[k] = g[k]
  <1> DEFINE bad == {j \in Nat : j <= m /\ j <= n /\ f[j] # g[j]}
  <1> SUFFICES ASSUME bad # {} PROVE FALSE
    OBVIOUS
  <1>1. PICK j \in bad : \A i \in bad : j <= i
    BY LeastNumber
  <1>2. j \in Nat /\ j \in 0..m /\ j \in 0..n /\ f[j] # g[j]
    OBVIOUS
  <1>3. f[j] = (IF j = 0 THEN id ELSE After(servers, f[j - 1]))
    BY <1>2 DEF Hops
  <1>4. g[j] = (IF j = 0 THEN id ELSE After(servers, g[j - 1]))
    BY <1>2 DEF Hops
  <1>5. j # 0
    BY <1>2, <1>3, <1>4
  <1>6. j - 1 \in Nat /\ j - 1 <= m /\ j - 1 <= n /\ ~(j <= j - 1)
    BY <1>2, <1>5
  <1>7. f[j - 1] = g[j - 1]
    BY <1>1, <1>6
  <1> QED
    BY <1>2, <1>3, <1>4, <1>5, <1>7

LEMMA WayThere == ASSUME NEW servers, NEW id PROVE \E f : Way(f, servers, id)
  <1> DEFINE part(n) == CHOOSE f : Hops(f, servers, id, n)
             f == [n \in Nat |-> part(n)[n]]
  <1>1. ASSUME NEW n \in Nat PROVE Hops(part(n), servers, id, n)
    BY HopsThere
  <1> HIDE DEF part
  <1>2. ASSUME NEW n \in Nat PROVE f[n] = IF n = 0 THEN id ELSE After(servers, f[n - 1])
    <2>1. Hops(part(n), servers, id, n)
      BY <1>1
    <2>2. n \in 0..n /\ f[n] = part(n)[n]
      OBVIOUS
    <2>3. part(n)[n] = IF n = 0 THEN id ELSE After(servers, part(n)[n - 1])
      BY <2>1, <2>2 DEF Hops
    <2>4. ASSUME n # 0 PROVE part(n)[n - 1] = f[n - 1]
      <3>1. n - 1 \in Nat /\ n - 1 <= n /\ n - 1 <= n - 1
        BY <2>4
      <3>2. Hops(part(n - 1), servers, id, n - 1)
        BY <1>1, <3>1
      <3>3. part(n)[n - 1] = part(n - 1)[n - 1]
        BY <2>1, <3>1, <3>2, HopsAgree
      <3> QED
        BY <3>1, <3>3
    <2> HIDE DEF f
    <2> QED
      BY <2>2, <2>3, <2>4
  <1>3. f = [n \in Nat |-> f[n]]
    OBVIOUS
  <1> HIDE DEF f
  <1>4. f = [n \in Nat |-> IF n = 0 THEN id ELSE After(servers, f[n - 1])]
    BY <1>2, <1>3
  <1> QED
    BY <1>4 DEF Way

LEMMA HopIs ==
    ASSUME NEW servers, NEW id
    PROVE  /\ Hop(servers, id, 0) = id
           /\ \A n \in Nat : Hop(servers, id, n + 1) = After(servers, Hop(servers, id, n))
  <1> DEFINE f == CHOOSE g : Way(g, servers, id)
  <1>1. Way(f, servers, id)
    BY WayThere
  <1>2. ASSUME NEW n PROVE Hop(servers, id, n) = f[n]
    BY DEF Hop, Way, After
  <1> HIDE DEF f
  <1>3. f = [n \in Nat |-> IF n = 0 THEN id ELSE After(servers, f[n - 1])]
    BY <1>1 DEF Way
  <1>4. f[0] = id
    BY <1>3
  <1>5. ASSUME NEW n \in Nat PROVE f[n + 1] = After(servers, f[n])
    <2>1. n + 1 \in Nat /\ n + 1 # 0 /\ (n + 1) - 1 = n
      OBVIOUS
    <2> QED
      BY <1>3, <2>1
  <1> QED
    BY <1>2, <1>4, <1>5

LEMMA HopNext ==
    ASSUME NEW servers, NEW id, NEW n \in Nat, n # 0
    PROVE  Hop(servers, id, n) = After(servers, Hop(servers, id, n - 1))
  <1>1. n - 1 \in Nat /\ (n - 1) + 1 = n
    OBVIOUS
  <1>2. Hop(servers, id, (n - 1) + 1) = After(servers, Hop(servers, id, n - 1))
    BY <1>1, HopIs
  <1> QED
    BY <1>1, <1>2

LEMMA HopsJoin ==
    ASSUME NEW servers, NEW id, NEW m \in Nat, NEW n \in Nat
    PROVE  Hop(servers, id, m + n) = Hop(servers, Hop(servers, id, m), n)
  <1> DEFINE at == Hop(servers, id, m)
             bad == {k \in Nat : Hop(servers, id, m + k) # Hop(servers, at, k)}
  <1> SUFFICES ASSUME bad # {} PROVE FALSE
    OBVIOUS
  <1>1. PICK k \in bad : \A j \in bad : k <= j
    BY LeastNumber
  <1>2. k \in Nat /\ Hop(servers, id, m + k) # Hop(servers, at, k)
    OBVIOUS
  <1>3. Hop(servers, at, 0) = Hop(servers, id, m + 0)
    BY HopIs
  <1>4. k # 0
    BY <1>2, <1>3
  <1>5. k - 1 \in Nat /\ ~(k <= k - 1) /\ (k - 1) + 1 = k
        /\ m + (k - 1) \in Nat /\ (m + (k - 1)) + 1 = m + k
    BY <1>2, <1>4
  <1>6. Hop(servers, id, m + (k - 1)) = Hop(servers, at, k - 1)
    BY <1>1, <1>5
  <1> HIDE DEF bad, at
  <1>7. Hop(servers, id, (m + (k - 1)) + 1) = After(servers, Hop(servers, id, m + (k - 1)))
    BY <1>5, HopIs
  <1>8. Hop(servers, at, (k - 1) + 1) = After(servers, Hop(servers, at, k - 1))
    BY <1>5, HopIs
  <1> QED
    BY <1>2, <1>5, <1>6, <1>7, <1>8

LEMMA HopFirst ==
    ASSUME NEW servers, NEW id, NEW n \in Nat
    PROVE  Hop(servers, id, 1 + n) = Hop(servers, After(servers, id), n)
  <1>1. PICK z \in Nat : z = 0
    OBVIOUS
  <1>2. Hop(servers, id, z + 1) = After(servers, Hop(servers, id, z))
    BY HopIs
  <1>3. Hop(servers, id, 1) = After(servers, id)
    BY <1>1, <1>2, HopIs
  <1> QED
    BY <1>3, HopsJoin

-----------------------------------------------------------------------------
\* The way to a machine ends at one that is reached directly.
Ending(servers, id) == \E n \in Nat : Hop(servers, id, n) = 0

LEMMA EndsAtNone == ASSUME NEW servers PROVE Ending(servers, 0)
  BY HopIs DEF Ending

LEMMA EndsBefore ==
    ASSUME NEW servers, NEW id, Ending(servers, After(servers, id)) PROVE Ending(servers, id)
  <1>1. PICK n \in Nat : Hop(servers, After(servers, id), n) = 0
    BY DEF Ending
  <1>2. Hop(servers, id, 1 + n) = 0 /\ 1 + n \in Nat
    BY <1>1, HopFirst
  <1> QED
    BY <1>2 DEF Ending

\* A way that ends still does when each jump is what it was or starts one that ends.
LEMMA EndsStill ==
    ASSUME NEW old, NEW new,
           \A at : After(new, at) = After(old, at) \/ Ending(new, After(new, at)),
           NEW id, Ending(old, id)
    PROVE  Ending(new, id)
  <1> DEFINE bad == {n \in Nat : \E at : Hop(old, at, n) = 0 /\ ~Ending(new, at)}
  <1>1. PICK m \in Nat : Hop(old, id, m) = 0
    BY DEF Ending
  <1> SUFFICES ASSUME bad # {} PROVE FALSE
    BY <1>1
  <1>2. PICK n \in bad : \A j \in bad : n <= j
    BY LeastNumber
  <1>3. n \in Nat
    OBVIOUS
  <1>4. PICK at : Hop(old, at, n) = 0 /\ ~Ending(new, at)
    OBVIOUS
  <1>5. n # 0
    <2>1. ASSUME n = 0 PROVE at = 0
      BY <1>4, <2>1, HopIs
    <2> QED
      BY <1>4, <2>1, EndsAtNone
  <1>6. n - 1 \in Nat /\ ~(n <= n - 1) /\ 1 + (n - 1) = n
    BY <1>3, <1>5
  <1>7. n - 1 \notin bad
    BY <1>2, <1>6
  <1>8. Hop(old, After(old, at), n - 1) = 0
    BY <1>4, <1>6, HopFirst
  <1>9. Ending(new, After(old, at))
    BY <1>6, <1>7, <1>8
  <1>10. Ending(new, After(new, at))
    BY <1>9
  <1> QED
    BY <1>4, <1>10, EndsBefore

\* A way is the same when the jumps along it are.
LEMMA WayIsSame ==
    ASSUME NEW old, NEW new, NEW id, NEW n \in Nat,
           \A k \in Nat : After(new, Hop(old, id, k)) = After(old, Hop(old, id, k))
    PROVE  Hop(new, id, n) = Hop(old, id, n)
  <1> DEFINE bad == {k \in Nat : Hop(new, id, k) # Hop(old, id, k)}
  <1> SUFFICES ASSUME bad # {} PROVE FALSE
    OBVIOUS
  <1>1. PICK k \in bad : \A j \in bad : k <= j
    BY LeastNumber
  <1>2. k \in Nat /\ Hop(new, id, k) # Hop(old, id, k)
    OBVIOUS
  <1>3. k # 0
    BY <1>2, HopIs
  <1>4. k - 1 \in Nat /\ ~(k <= k - 1) /\ (k - 1) + 1 = k
    BY <1>2, <1>3
  <1>5. Hop(new, id, k - 1) = Hop(old, id, k - 1)
    BY <1>1, <1>4
  <1> HIDE DEF bad
  <1>6. Hop(new, id, k) = After(new, Hop(new, id, k - 1))
    BY <1>2, <1>3, HopNext
  <1>7. Hop(old, id, k) = After(old, Hop(old, id, k - 1))
    BY <1>2, <1>3, HopNext
  <1> QED
    BY <1>2, <1>4, <1>5, <1>6, <1>7

LEMMA NoneStays ==
    ASSUME NEW servers, 0 \notin IdsOf(servers), NEW n \in Nat PROVE Hop(servers, 0, n) = 0
  <1>1. After(servers, 0) = 0
    BY DEF After
  <1> DEFINE bad == {m \in Nat : Hop(servers, 0, m) # 0}
  <1> SUFFICES ASSUME bad # {} PROVE FALSE
    OBVIOUS
  <1>2. PICK m \in bad : \A i \in bad : m <= i
    BY LeastNumber
  <1>3. m \in Nat /\ Hop(servers, 0, m) # 0
    OBVIOUS
  <1>4. m # 0
    BY <1>3, HopIs
  <1>5. m - 1 \in Nat /\ ~(m <= m - 1)
    BY <1>3, <1>4
  <1>6. Hop(servers, 0, m - 1) = 0
    BY <1>2, <1>5
  <1> HIDE DEF bad
  <1>7. Hop(servers, 0, m) = After(servers, Hop(servers, 0, m - 1))
    BY <1>3, <1>4, HopNext
  <1> QED
    BY <1>1, <1>3, <1>6, <1>7

\* A way that ends passes no machine twice.
LEMMA HopsApart ==
    ASSUME NEW servers, 0 \notin IdsOf(servers), NEW id, Ending(servers, id),
           NEW j \in Nat, NEW k \in Nat, j < k, Hop(servers, id, j) = Hop(servers, id, k)
    PROVE  Hop(servers, id, k) = 0
  <1> DEFINE over == {n \in Nat : Hop(servers, id, n) = 0}
  <1>3. over \subseteq Nat /\ over # {}
    BY DEF Ending
  <1>4. PICK n \in over : \A m \in over : n <= m
    BY <1>3, LeastNumber
  <1>5. n \in Nat /\ Hop(servers, id, n) = 0
    OBVIOUS
  <1>6. CASE n <= k
    <2>1. k - n \in Nat /\ n + (k - n) = k
      BY <1>5, <1>6
    <2>2. Hop(servers, id, n + (k - n)) = Hop(servers, 0, k - n)
      BY <1>5, <2>1, HopsJoin
    <2> QED
      BY <2>1, <2>2, NoneStays
  <1>7. CASE ~(n <= k)
    <2>1. n - k \in Nat /\ j + (n - k) \in Nat /\ k + (n - k) = n /\ ~(n <= j + (n - k))
      BY <1>5, <1>7
    <2>2. Hop(servers, id, j + (n - k)) = Hop(servers, id, k + (n - k))
      <3>1. Hop(servers, id, j + (n - k)) = Hop(servers, Hop(servers, id, j), n - k)
        BY <2>1, HopsJoin
      <3>2. Hop(servers, id, k + (n - k)) = Hop(servers, Hop(servers, id, k), n - k)
        BY <2>1, HopsJoin
      <3> QED
        BY <3>1, <3>2
    <2>3. j + (n - k) \in over
      BY <1>5, <2>1, <2>2
    <2> QED
      BY <1>4, <2>1, <2>3
  <1> QED
    BY <1>6, <1>7

\* Every jump names a server that is there, and the way along them ends.
JumpsEnd(servers) ==
    \A id \in IdsOf(servers) : After(servers, id) \in {0} \cup IdsOf(servers) /\ Ending(servers, id)

LEMMA HopsInside ==
    ASSUME NEW servers, 0 \notin IdsOf(servers), JumpsEnd(servers), NEW id \in IdsOf(servers), NEW n \in Nat
    PROVE  Hop(servers, id, n) \in {0} \cup IdsOf(servers)
  <1> DEFINE bad == {m \in Nat : Hop(servers, id, m) \notin {0} \cup IdsOf(servers)}
  <1> SUFFICES ASSUME bad # {} PROVE FALSE
    OBVIOUS
  <1>1. PICK m \in bad : \A i \in bad : m <= i
    BY LeastNumber
  <1>2. m \in Nat /\ Hop(servers, id, m) \notin {0} \cup IdsOf(servers)
    OBVIOUS
  <1>3. m # 0
    BY <1>2, HopIs
  <1>4. m - 1 \in Nat /\ ~(m <= m - 1)
    BY <1>2, <1>3
  <1>5. Hop(servers, id, m - 1) \in {0} \cup IdsOf(servers)
    BY <1>1, <1>4
  <1> HIDE DEF bad
  <1>6. Hop(servers, id, m) = After(servers, Hop(servers, id, m - 1))
    BY <1>2, <1>3, HopNext
  <1> QED
    BY <1>2, <1>5, <1>6 DEF JumpsEnd, After

LEMMA VaultIds ==
    ASSUME NEW servers, NEW next, IsVault(servers, next)
    PROVE  /\ 0 \notin IdsOf(servers)
           /\ \A i \in DOMAIN servers : /\ servers[i].id \in IdsOf(servers)
                                        /\ After(servers, servers[i].id) = servers[i].jump
           /\ \A at : at \notin IdsOf(servers) => After(servers, at) = 0
  <1>1. ASSUME NEW i \in DOMAIN servers PROVE After(servers, servers[i].id) = servers[i].jump
    <2>1. Find(servers, servers[i].id) = servers[i]
      BY FindIs DEF IsVault
    <2>2. servers[i].id \in IdsOf(servers)
      BY DEF IdsOf
    <2> QED
      BY <2>1, <2>2 DEF After
  <1>2. \A at : at \notin IdsOf(servers) => After(servers, at) = 0
    BY DEF After
  <1>3. 0 \notin IdsOf(servers) /\ \A i \in DOMAIN servers : servers[i].id \in IdsOf(servers)
    BY DEF IdsOf, IsVault
  <1> QED
    BY <1>1, <1>2, <1>3

\* reaches looks far enough: a machine it does not find is not on the way.
LEMMA NeverReached ==
    ASSUME NEW servers, NEW next, IsVault(servers, next), JumpsEnd(servers), NEW id \in IdsOf(servers),
           NEW target \in IdsOf(servers), id # target, ~Reaches(servers, id, target), NEW m \in Nat
    PROVE  Hop(servers, id, m) # target
  <1>0. 0 \notin IdsOf(servers) /\ Ending(servers, id)
    BY VaultIds DEF JumpsEnd
  <1> DEFINE bad == {n \in Nat : Hop(servers, id, n) = target}
  <1> SUFFICES ASSUME bad # {} PROVE FALSE
    OBVIOUS
  <1>1. PICK n \in bad : \A i \in bad : n <= i
    BY LeastNumber
  <1>2. n \in Nat /\ Hop(servers, id, n) = target
    OBVIOUS
  <1>3. n # 0
    BY <1>2, HopIs
  <1> HIDE DEF bad
  <1>4. ASSUME NEW k \in 0..(n - 1) PROVE Hop(servers, id, k) \in IdsOf(servers)
    <2>1. k \in Nat /\ n - k \in Nat /\ k + (n - k) = n
      BY <1>2, <1>3
    <2>2. Hop(servers, id, k) \in {0} \cup IdsOf(servers)
      BY <1>0, <2>1, HopsInside
    <2>3. Hop(servers, id, n) = Hop(servers, Hop(servers, id, k), n - k)
      <3>1. Hop(servers, id, k + (n - k)) = Hop(servers, Hop(servers, id, k), n - k)
        BY <2>1, HopsJoin
      <3> QED
        BY <2>1, <3>1
    <2>4. Hop(servers, 0, n - k) = 0
      BY <1>0, <2>1, NoneStays
    <2> QED
      BY <1>0, <1>2, <2>2, <2>3, <2>4
  <1>5. ~(n <= Len(servers))
    <2>1. ASSUME n <= Len(servers) PROVE FALSE
      <3>1. Len(servers) \in Nat
        BY Lists DEF IsVault
      <3>2. n \in 1..Len(servers)
        BY <1>2, <1>3, <2>1, <3>1
      <3> QED
        BY <1>2, <1>4, <3>2 DEF Reaches
    <2> QED
      BY <2>1
  <1>6. Len(servers) \in Nat /\ DOMAIN servers = 1..Len(servers)
    BY Lists DEF IsVault
  <1> DEFINE S == 0..(n - 1)
             T == 1..Len(servers)
             f == [k \in S |-> IndexOf(servers, Hop(servers, id, k))]
  <1>7. \A k \in S : f[k] \in T /\ servers[f[k]].id = Hop(servers, id, k)
    <2> SUFFICES ASSUME NEW k \in S PROVE f[k] \in T /\ servers[f[k]].id = Hop(servers, id, k)
      OBVIOUS
    <2>1. \E i \in DOMAIN servers : servers[i].id = Hop(servers, id, k)
      BY <1>4 DEF IdsOf
    <2> QED
      BY <1>6, <2>1 DEF IndexOf
  <1>8. f \in [S -> T]
    BY <1>7
  <1>9. IsFiniteSet(S) /\ Cardinality(S) = n
    <2>1. 0 \in Int /\ n - 1 \in Int
      BY <1>2
    <2>2. IsFiniteSet(0..(n - 1)) /\ Cardinality(0..(n - 1)) = IF 0 > n - 1 THEN 0 ELSE (n - 1) - 0 + 1
      BY <2>1, FS_Interval
    <2> QED
      BY <1>2, <1>3, <2>2
  <1>10. IsFiniteSet(T) /\ Cardinality(T) = Len(servers)
    <2>1. 1 \in Int /\ Len(servers) \in Int
      BY <1>6
    <2>2. IsFiniteSet(1..Len(servers))
          /\ Cardinality(1..Len(servers)) = IF 1 > Len(servers) THEN 0 ELSE Len(servers) - 1 + 1
      BY <2>1, FS_Interval
    <2> QED
      BY <1>6, <2>2
  <1>11. Cardinality(T) < Cardinality(S)
    BY <1>2, <1>5, <1>6, <1>9, <1>10
  <1>12. \A k \in S : k \in Nat /\ Hop(servers, id, k) # 0
    BY <1>0, <1>2, <1>4
  <1> HIDE DEF S, T, f
  <1>13. PICK x, y \in S : x # y /\ f[x] = f[y]
    BY <1>8, <1>9, <1>10, <1>11, FS_PigeonHole
  <1>14. Hop(servers, id, x) = Hop(servers, id, y)
    BY <1>7, <1>13
  <1>15. x \in Nat /\ y \in Nat /\ (x < y \/ y < x)
    BY <1>12, <1>13
  <1>16. Hop(servers, id, x) = 0 \/ Hop(servers, id, y) = 0
    BY <1>0, <1>14, <1>15, HopsApart
  <1> QED
    BY <1>12, <1>13, <1>16

\* Target::from_entry refuses no server of such a vault, unless for its many hops.
LEMMA WalkEnds ==
    ASSUME NEW servers, NEW next, IsVault(servers, next), JumpsEnd(servers), NEW id \in IdsOf(servers)
    PROVE  Walk(servers, id).why \in {"ok", "too many"}
  <1> DEFINE hop(n) == Hop(servers, id, n)
             looped(n) == \E k \in 0..(n - 1) : hop(k) = hop(n)
             over(n) == hop(n) = 0 \/ looped(n) \/ hop(n) \notin IdsOf(servers) \/ n = MaxJumps + 1
             stop == CHOOSE n \in 1..(MaxJumps + 1) :
                       /\ over(n)
                       /\ \A k \in 1..(n - 1) : hop(k) # 0 /\ ~looped(k) /\ hop(k) \in IdsOf(servers)
  <1>0. 0 \notin IdsOf(servers) /\ Ending(servers, id) /\ MaxJumps \in Nat
    BY VaultIds, DeskAssumption DEF JumpsEnd
  <1>1. Walk(servers, id).why = IF hop(stop) = 0 THEN "ok"
                                ELSE IF looped(stop) THEN "loops"
                                ELSE IF hop(stop) \notin IdsOf(servers) THEN "missing"
                                ELSE "too many"
    BY DEF Walk
  <1>2. \E n \in 1..(MaxJumps + 1) :
           /\ over(n)
           /\ \A k \in 1..(n - 1) : hop(k) # 0 /\ ~looped(k) /\ hop(k) \in IdsOf(servers)
    <2> DEFINE all == {n \in 1..(MaxJumps + 1) : over(n)}
    <2>1. MaxJumps + 1 \in 1..(MaxJumps + 1)
      BY <1>0
    <2>2. all # {} /\ all \subseteq Nat
      BY <2>1
    <2>3. PICK n \in all : \A k \in all : n <= k
      BY <2>2, LeastNumber
    <2>4. n \in 1..(MaxJumps + 1) /\ over(n)
      OBVIOUS
    <2>5. ASSUME NEW k \in 1..(n - 1) PROVE ~over(k)
      <3>1. k \in 1..(MaxJumps + 1) /\ ~(n <= k)
        BY <1>0, <2>4
      <3>2. k \notin all
        BY <2>3, <3>1
      <3> QED
        BY <3>1, <3>2
    <2>6. \A k \in 1..(n - 1) : hop(k) # 0 /\ ~looped(k) /\ hop(k) \in IdsOf(servers)
      BY <2>5
    <2> QED
      BY <2>4, <2>6
  <1>3. stop \in 1..(MaxJumps + 1)
    BY <1>2
  <1> HIDE DEF stop
  <1>4. stop \in Nat
    BY <1>0, <1>3
  <1>5. hop(stop) \in {0} \cup IdsOf(servers)
    BY <1>0, <1>4, HopsInside
  <1>6. ASSUME looped(stop) PROVE hop(stop) = 0
    <2>1. PICK k \in 0..(stop - 1) : hop(k) = hop(stop)
      BY <1>6
    <2>2. k \in Nat /\ k < stop
      BY <1>4
    <2> QED
      BY <1>0, <1>4, <2>1, <2>2, HopsApart
  <1> HIDE DEF hop, looped
  <1> QED
    BY <1>0, <1>1, <1>5, <1>6

-----------------------------------------------------------------------------
\* An edit that leaves the jumps as they are.
Aside(old, new) ==
    /\ DOMAIN new = DOMAIN old
    /\ \A i \in DOMAIN old : new[i].id = old[i].id /\ new[i].jump = old[i].jump

LEMMA AsideEdit ==
    ASSUME VaultInv, Shape(mem), NEW new, NEW ok, Keep(WithServers(new), ok),
           DOMAIN new = DOMAIN Servers,
           \A i \in DOMAIN Servers : \/ new[i] = Servers[i]
                                     \/ \E v : new[i] = [Servers[i] EXCEPT !.dirs = v]
                                     \/ \E v : new[i] = [Servers[i] EXCEPT !.scripts = v]
                                     \/ \E v : new[i] = [Servers[i] EXCEPT !.forwards = v]
    PROVE  Aside(Servers, mem'.servers)
  <1>1. mem'.servers = new
    BY KeptServers
  <1>2. ASSUME NEW i \in DOMAIN Servers PROVE new[i].id = Servers[i].id /\ new[i].jump = Servers[i].jump
    <2>1. IsServer(Servers[i])
      BY DEF VaultInv, IsVault, Servers
    <2>2. PICK s, r : s = Servers[i] /\ r = new[i]
      OBVIOUS
    <2>3. PICK v : r = s \/ r = [s EXCEPT !.dirs = v] \/ r = [s EXCEPT !.scripts = v]
                   \/ r = [s EXCEPT !.forwards = v]
      BY <2>2
    <2>4. r.id = s.id /\ r.jump = s.jump
      BY <2>1, <2>2, <2>3 DEF IsServer
    <2> QED
      BY <2>2, <2>4
  <1> QED
    BY <1>1, <1>2 DEF Aside

LEMMA AsideKeys ==
    ASSUME VaultInv, Shape(mem),
           FilesBack \/ SubmitScriptForm \/ ConfirmDeleteScript \/ ToggleForward \/ SubmitForwardForm
           \/ ConfirmDeleteForward
    PROVE  Aside(Servers, mem'.servers)
  <1>1. CASE FilesBack
    <2>1. PICK ok : Keep(WithServers([i \in DOMAIN Servers |-> IF Servers[i].id = screen.sid
                      THEN [Servers[i] EXCEPT !.dirs = TRUE] ELSE Servers[i]]), ok)
      BY <1>1 DEF FilesBack, Edited, Update
    <2>2. PICK new : new = [i \in DOMAIN Servers |-> IF Servers[i].id = screen.sid
                      THEN [Servers[i] EXCEPT !.dirs = TRUE] ELSE Servers[i]]
      OBVIOUS
    <2>3. Keep(WithServers(new), ok) /\ DOMAIN new = DOMAIN Servers
      BY <2>1, <2>2
    <2>4. \A i \in DOMAIN Servers : new[i] = Servers[i] \/ \E v : new[i] = [Servers[i] EXCEPT !.dirs = v]
      BY <2>2
    <2> QED
      BY <2>3, <2>4, AsideEdit
  <1>2. ASSUME NEW h, NEW ok,
               Keep(WithServers([i \in DOMAIN Servers |-> IF Servers[i].id = screen.sid
                      THEN [Servers[i] EXCEPT !.scripts = h[i]] ELSE Servers[i]]), ok)
        PROVE  Aside(Servers, mem'.servers)
    <2>2. PICK new : new = [i \in DOMAIN Servers |-> IF Servers[i].id = screen.sid
                      THEN [Servers[i] EXCEPT !.scripts = h[i]] ELSE Servers[i]]
      OBVIOUS
    <2>3. Keep(WithServers(new), ok) /\ DOMAIN new = DOMAIN Servers
      BY <1>2, <2>2
    <2>4. \A i \in DOMAIN Servers : new[i] = Servers[i] \/ \E v : new[i] = [Servers[i] EXCEPT !.scripts = v]
      BY <2>2
    <2> QED
      BY <2>3, <2>4, AsideEdit
  <1>3. ASSUME NEW h, NEW ok,
               Keep(WithServers([i \in DOMAIN Servers |-> IF Servers[i].id = screen.sid
                      THEN [Servers[i] EXCEPT !.forwards = h[i]] ELSE Servers[i]]), ok)
        PROVE  Aside(Servers, mem'.servers)
    <2>2. PICK new : new = [i \in DOMAIN Servers |-> IF Servers[i].id = screen.sid
                      THEN [Servers[i] EXCEPT !.forwards = h[i]] ELSE Servers[i]]
      OBVIOUS
    <2>3. Keep(WithServers(new), ok) /\ DOMAIN new = DOMAIN Servers
      BY <1>3, <2>2
    <2>4. \A i \in DOMAIN Servers : new[i] = Servers[i] \/ \E v : new[i] = [Servers[i] EXCEPT !.forwards = v]
      BY <2>2
    <2> QED
      BY <2>3, <2>4, AsideEdit
  <1>4. CASE SubmitScriptForm
    <2>1. PICK data, ok :
             Keep(WithServers([i \in DOMAIN Servers |-> IF Servers[i].id = screen.sid
               THEN [Servers[i] EXCEPT !.scripts =
                       IF screen.item = 0 THEN Append(Servers[i].scripts, NewScript(nextId, data))
                       ELSE Update(Servers[i].scripts, screen.item, LAMBDA s : NewScript(s.id, data))]
               ELSE Servers[i]]), ok)
      BY <1>4 DEF SubmitScriptForm, InScripts, Edited, Update
    <2>2. PICK h : h = [i \in DOMAIN Servers |->
                       IF screen.item = 0 THEN Append(Servers[i].scripts, NewScript(nextId, data))
                       ELSE Update(Servers[i].scripts, screen.item, LAMBDA s : NewScript(s.id, data))]
      OBVIOUS
    <2>3. [i \in DOMAIN Servers |-> IF Servers[i].id = screen.sid
               THEN [Servers[i] EXCEPT !.scripts =
                       IF screen.item = 0 THEN Append(Servers[i].scripts, NewScript(nextId, data))
                       ELSE Update(Servers[i].scripts, screen.item, LAMBDA s : NewScript(s.id, data))]
               ELSE Servers[i]]
          = [i \in DOMAIN Servers |-> IF Servers[i].id = screen.sid
                      THEN [Servers[i] EXCEPT !.scripts = h[i]] ELSE Servers[i]]
      BY <2>2
    <2> QED
      BY <1>2, <2>1, <2>3
  <1>5. CASE ConfirmDeleteScript
    <2>1. PICK ok :
             Keep(WithServers([i \in DOMAIN Servers |-> IF Servers[i].id = screen.sid
               THEN [Servers[i] EXCEPT !.scripts = Without(Servers[i].scripts, screen.item)]
               ELSE Servers[i]]), ok)
      BY <1>5 DEF ConfirmDeleteScript, InScripts, Edited, Update
    <2>2. PICK h : h = [i \in DOMAIN Servers |-> Without(Servers[i].scripts, screen.item)]
      OBVIOUS
    <2>3. [i \in DOMAIN Servers |-> IF Servers[i].id = screen.sid
               THEN [Servers[i] EXCEPT !.scripts = Without(Servers[i].scripts, screen.item)]
               ELSE Servers[i]]
          = [i \in DOMAIN Servers |-> IF Servers[i].id = screen.sid
                      THEN [Servers[i] EXCEPT !.scripts = h[i]] ELSE Servers[i]]
      BY <2>2
    <2> QED
      BY <1>2, <2>1, <2>3
  <1>6. CASE ToggleForward
    <2>1. PICK id, ok :
           Keep(WithServers([i \in DOMAIN Servers |-> IF Servers[i].id = screen.sid
             THEN [Servers[i] EXCEPT !.forwards =
                     Update(Servers[i].forwards, id, LAMBDA r : [r EXCEPT !.enabled = ~r.enabled])]
             ELSE Servers[i]]), ok)
      BY <1>6 DEF ToggleForward, MutateForwards, InRules, Edited, Update
    <2>2. PICK h : h = [i \in DOMAIN Servers |->
                     Update(Servers[i].forwards, id, LAMBDA r : [r EXCEPT !.enabled = ~r.enabled])]
      OBVIOUS
    <2>3. [i \in DOMAIN Servers |-> IF Servers[i].id = screen.sid
             THEN [Servers[i] EXCEPT !.forwards =
                     Update(Servers[i].forwards, id, LAMBDA r : [r EXCEPT !.enabled = ~r.enabled])]
             ELSE Servers[i]]
          = [i \in DOMAIN Servers |-> IF Servers[i].id = screen.sid
                      THEN [Servers[i] EXCEPT !.forwards = h[i]] ELSE Servers[i]]
      BY <2>2
    <2> QED
      BY <1>3, <2>1, <2>3
  <1>7. CASE SubmitForwardForm
    <2>1. PICK kind, ok :
           Keep(WithServers([i \in DOMAIN Servers |-> IF Servers[i].id = screen.sid
             THEN [Servers[i] EXCEPT !.forwards =
                     IF screen.item = 0 THEN Append(Servers[i].forwards, NewRule(nextId, kind))
                     ELSE Update(Servers[i].forwards, screen.item, LAMBDA r : [r EXCEPT !.kind = kind])]
             ELSE Servers[i]]), ok)
      BY <1>7 DEF SubmitForwardForm, MutateForwards, InRules, Edited, Update
    <2>2. PICK h : h = [i \in DOMAIN Servers |->
                     IF screen.item = 0 THEN Append(Servers[i].forwards, NewRule(nextId, kind))
                     ELSE Update(Servers[i].forwards, screen.item, LAMBDA r : [r EXCEPT !.kind = kind])]
      OBVIOUS
    <2>3. [i \in DOMAIN Servers |-> IF Servers[i].id = screen.sid
             THEN [Servers[i] EXCEPT !.forwards =
                     IF screen.item = 0 THEN Append(Servers[i].forwards, NewRule(nextId, kind))
                     ELSE Update(Servers[i].forwards, screen.item, LAMBDA r : [r EXCEPT !.kind = kind])]
             ELSE Servers[i]]
          = [i \in DOMAIN Servers |-> IF Servers[i].id = screen.sid
                      THEN [Servers[i] EXCEPT !.forwards = h[i]] ELSE Servers[i]]
      BY <2>2
    <2> QED
      BY <1>3, <2>1, <2>3
  <1>8. CASE ConfirmDeleteForward
    <2>1. PICK ok :
           Keep(WithServers([i \in DOMAIN Servers |-> IF Servers[i].id = screen.sid
             THEN [Servers[i] EXCEPT !.forwards = Without(Servers[i].forwards, screen.item)]
             ELSE Servers[i]]), ok)
      BY <1>8 DEF ConfirmDeleteForward, MutateForwards, InRules, Edited, Update
    <2>2. PICK h : h = [i \in DOMAIN Servers |-> Without(Servers[i].forwards, screen.item)]
      OBVIOUS
    <2>3. [i \in DOMAIN Servers |-> IF Servers[i].id = screen.sid
             THEN [Servers[i] EXCEPT !.forwards = Without(Servers[i].forwards, screen.item)]
             ELSE Servers[i]]
          = [i \in DOMAIN Servers |-> IF Servers[i].id = screen.sid
                      THEN [Servers[i] EXCEPT !.forwards = h[i]] ELSE Servers[i]]
      BY <2>2
    <2> QED
      BY <1>3, <2>1, <2>3
  <1> QED
    BY <1>1, <1>4, <1>5, <1>6, <1>7, <1>8

-----------------------------------------------------------------------------
\* What an edit makes of the ways.

LEMMA EndsBeside ==
    ASSUME NEW old, NEW new, NEW id, Ending(old, id),
           \A k \in Nat : After(new, Hop(old, id, k)) = After(old, Hop(old, id, k))
    PROVE  Ending(new, id)
  <1>1. PICK n \in Nat : Hop(old, id, n) = 0
    BY DEF Ending
  <1>2. Hop(new, id, n) = Hop(old, id, n)
    BY WayIsSame
  <1> QED
    BY <1>1, <1>2 DEF Ending

LEMMA NoServersEnd == JumpsEnd(<<>>)
  BY NoList DEF JumpsEnd, IdsOf

LEMMA AsideAfter ==
    ASSUME NEW old, NEW new, NEW n, NEW m, IsVault(old, n), IsVault(new, m), Aside(old, new)
    PROVE  IdsOf(new) = IdsOf(old) /\ \A at : After(new, at) = After(old, at)
  <1>1. IdsOf(new) = IdsOf(old)
    BY DEF Aside, IdsOf
  <1>2. ASSUME NEW at PROVE After(new, at) = After(old, at)
    <2>1. CASE at \notin IdsOf(old)
      BY <1>1, <2>1 DEF After
    <2>2. CASE at \in IdsOf(old)
      <3>1. PICK i \in DOMAIN old : at = old[i].id
        BY <2>2 DEF IdsOf
      <3>2. i \in DOMAIN new /\ new[i].id = at /\ new[i].jump = old[i].jump
        BY <3>1 DEF Aside
      <3>3. After(old, at) = old[i].jump
        BY <3>1, VaultIds
      <3>4. After(new, at) = new[i].jump
        BY <3>2, VaultIds
      <3> QED
        BY <3>2, <3>3, <3>4
    <2> QED
      BY <2>1, <2>2
  <1> QED
    BY <1>1, <1>2

LEMMA AsideEnds ==
    ASSUME NEW old, NEW new, NEW n, NEW m, IsVault(old, n), IsVault(new, m), Aside(old, new), JumpsEnd(old)
    PROVE  JumpsEnd(new)
  <1>1. IdsOf(new) = IdsOf(old) /\ \A at : After(new, at) = After(old, at)
    BY AsideAfter
  <1>2. ASSUME NEW id \in IdsOf(new) PROVE Ending(new, id)
    <2>1. Ending(old, id)
      BY <1>1 DEF JumpsEnd
    <2>2. \A k \in Nat : After(new, Hop(old, id, k)) = After(old, Hop(old, id, k))
      BY <1>1
    <2> QED
      BY <2>1, <2>2, EndsBeside
  <1> QED
    BY <1>1, <1>2 DEF JumpsEnd

\* New servers whose jumps name old ones.
LEMMA MoreEnd ==
    ASSUME NEW old, NEW new, NEW n, NEW m, IsVault(old, n), IsVault(new, m), JumpsEnd(old),
           Len(new) >= Len(old), \A i \in DOMAIN old : new[i] = old[i],
           \A i \in DOMAIN new : i > Len(old) => new[i].jump \in {0} \cup IdsOf(old)
    PROVE  JumpsEnd(new)
  <1>0. /\ 0 \notin IdsOf(old) /\ 0 \notin IdsOf(new) /\ DOMAIN old \subseteq DOMAIN new
        /\ \A i \in DOMAIN new : i \in DOMAIN old \/ i > Len(old)
    <2>1. 0 \notin IdsOf(old) /\ 0 \notin IdsOf(new)
      BY VaultIds
    <2>2. /\ Len(old) \in Nat /\ Len(new) \in Nat
          /\ DOMAIN old = 1..Len(old) /\ DOMAIN new = 1..Len(new)
      BY Lists DEF IsVault
    <2> QED
      BY <2>1, <2>2
  <1>1. ASSUME NEW at \in {0} \cup IdsOf(old) PROVE After(new, at) = After(old, at)
    <2>1. CASE at = 0
      BY <1>0, <2>1 DEF After
    <2>2. CASE at \in IdsOf(old)
      <3>1. PICK i \in DOMAIN old : at = old[i].id
        BY <2>2 DEF IdsOf
      <3>2. i \in DOMAIN new /\ new[i] = old[i]
        BY <1>0, <3>1
      <3>3. After(old, at) = old[i].jump
        BY <3>1, VaultIds
      <3>4. After(new, at) = new[i].jump
        BY <3>1, <3>2, VaultIds
      <3> QED
        BY <3>2, <3>3, <3>4
    <2> QED
      BY <2>1, <2>2
  <1>2. ASSUME NEW at \in {0} \cup IdsOf(old) PROVE Ending(new, at)
    <2>1. CASE at = 0
      BY <2>1, EndsAtNone
    <2>2. CASE at \in IdsOf(old)
      <3>1. Ending(old, at)
        BY <2>2 DEF JumpsEnd
      <3>2. \A k \in Nat : After(new, Hop(old, at, k)) = After(old, Hop(old, at, k))
        BY <1>0, <1>1, <2>2, HopsInside
      <3> QED
        BY <3>1, <3>2, EndsBeside
    <2> QED
      BY <2>1, <2>2
  <1>3. ASSUME NEW i \in DOMAIN new
        PROVE  After(new, new[i].id) \in {0} \cup IdsOf(old)
    <2>1. CASE i \in DOMAIN old
      <3>1. old[i].id \in IdsOf(old) /\ new[i] = old[i]
        BY <2>1 DEF IdsOf
      <3> QED
        BY <1>1, <3>1 DEF JumpsEnd
    <2>2. CASE i > Len(old)
      BY <2>2, VaultIds
    <2> QED
      BY <1>0, <2>1, <2>2
  <1>4. IdsOf(old) \subseteq IdsOf(new)
    BY <1>0 DEF IdsOf
  <1>5. ASSUME NEW at \in IdsOf(new)
        PROVE  After(new, at) \in {0} \cup IdsOf(new) /\ Ending(new, at)
    <2>1. After(new, at) \in {0} \cup IdsOf(old)
      BY <1>3 DEF IdsOf
    <2>2. Ending(new, After(new, at))
      BY <1>2, <2>1
    <2> QED
      BY <1>4, <2>1, <2>2, EndsBefore
  <1> QED
    BY <1>5 DEF JumpsEnd

\* One server jumps elsewhere.
Rejumped(old, new, sid, c) ==
    /\ DOMAIN new = DOMAIN old
    /\ \A i \in DOMAIN old : /\ new[i].id = old[i].id
                              /\ new[i].jump = IF old[i].id = sid THEN c ELSE old[i].jump

\* It may, to where the way does not lead back to it.
LEMMA OneJumps ==
    ASSUME NEW old, NEW new, NEW n, NEW m, IsVault(old, n), IsVault(new, m), JumpsEnd(old),
           NEW sid, NEW c \in {0} \cup IdsOf(old), Rejumped(old, new, sid, c),
           \A k \in Nat : Hop(old, c, k) # sid
    PROVE  JumpsEnd(new) /\ \A at : at # sid => After(new, at) = After(old, at)
  <1>0. 0 \notin IdsOf(old) /\ 0 \notin IdsOf(new) /\ IdsOf(new) = IdsOf(old)
    <2>1. 0 \notin IdsOf(old) /\ 0 \notin IdsOf(new)
      BY VaultIds
    <2> QED
      BY <2>1 DEF IdsOf, Rejumped
  <1>1. ASSUME NEW at \in IdsOf(old) PROVE After(new, at) = IF at = sid THEN c ELSE After(old, at)
    <2>1. PICK i \in DOMAIN old : at = old[i].id
      BY DEF IdsOf
    <2>2. After(old, at) = old[i].jump
      BY <2>1, VaultIds
    <2>3. i \in DOMAIN new /\ new[i].id = at /\ new[i].jump = IF at = sid THEN c ELSE old[i].jump
      BY <2>1 DEF Rejumped
    <2>4. After(new, at) = new[i].jump
      BY <2>3, VaultIds
    <2> QED
      BY <2>2, <2>3, <2>4
  <1>2. \A at : at # sid => After(new, at) = After(old, at)
    BY <1>0, <1>1 DEF After
  <1>3. Ending(new, c)
    <2>1. CASE c = 0
      BY <2>1, EndsAtNone
    <2>2. CASE c \in IdsOf(old)
      <3>1. Ending(old, c)
        BY <2>2 DEF JumpsEnd
      <3>2. \A k \in Nat : After(new, Hop(old, c, k)) = After(old, Hop(old, c, k))
        BY <1>2
      <3> QED
        BY <3>1, <3>2, EndsBeside
    <2> QED
      BY <2>1, <2>2
  <1>4. \A at : After(new, at) = After(old, at) \/ Ending(new, After(new, at))
    <2>1. ASSUME NEW at PROVE After(new, at) = After(old, at) \/ Ending(new, After(new, at))
      <3>1. CASE at # sid
        BY <1>2, <3>1
      <3>2. CASE at = sid /\ at \in IdsOf(old)
        BY <1>1, <1>3, <3>2
      <3>3. CASE at \notin IdsOf(old)
        BY <1>0, <3>3 DEF After
      <3> QED
        BY <3>1, <3>2, <3>3
    <2> QED
      BY <2>1
  <1>5. ASSUME NEW at \in IdsOf(new)
        PROVE  After(new, at) \in {0} \cup IdsOf(new) /\ Ending(new, at)
    <2>1. Ending(old, at) /\ After(old, at) \in {0} \cup IdsOf(old)
      BY <1>0 DEF JumpsEnd
    <2>2. Ending(new, at)
      BY <1>4, <2>1, EndsStill
    <2> QED
      BY <1>0, <1>1, <2>1, <2>2
  <1> QED
    BY <1>2, <1>5 DEF JumpsEnd

\* One server less, with the jumps to it cleared.
LEMMA LessEnd ==
    ASSUME NEW old, NEW new, NEW n, NEW m, IsVault(old, n), IsVault(new, m), JumpsEnd(old), NEW sid,
           Shorter(old, new, sid)
    PROVE  JumpsEnd(new)
  <1>1. PICK f : /\ f \in [DOMAIN new -> {i \in DOMAIN old : old[i].id # sid}]
                 /\ \A i \in DOMAIN old : old[i].id # sid => \E k \in DOMAIN new : f[k] = i
                 /\ \A k \in DOMAIN new :
                       \/ old[f[k]].jump # sid /\ new[k] = old[f[k]]
                       \/ old[f[k]].jump = sid /\ new[k] = [old[f[k]] EXCEPT !.jump = 0]
    BY DEF Shorter
  <1>2. ASSUME NEW k \in DOMAIN new
        PROVE  /\ f[k] \in DOMAIN old /\ old[f[k]].id # sid /\ new[k].id = old[f[k]].id
               /\ new[k].jump = IF old[f[k]].jump = sid THEN 0 ELSE old[f[k]].jump
    <2>1. f[k] \in DOMAIN old /\ old[f[k]].id # sid
      BY <1>1
    <2>2. PICK s : s = old[f[k]] /\ IsServer(s)
      BY <2>1 DEF IsVault
    <2>3. (s.jump # sid /\ new[k] = s) \/ (s.jump = sid /\ new[k] = [s EXCEPT !.jump = 0])
      BY <1>1, <2>2
    <2> QED
      BY <2>1, <2>2, <2>3 DEF IsServer
  <1>3. IdsOf(new) = IdsOf(old) \ {sid}
    <2>1. ASSUME NEW id \in IdsOf(new) PROVE id \in IdsOf(old) \ {sid}
      BY <1>2 DEF IdsOf
    <2>2. ASSUME NEW id \in IdsOf(old) \ {sid} PROVE id \in IdsOf(new)
      <3>1. PICK i \in DOMAIN old : id = old[i].id
        BY DEF IdsOf
      <3>2. PICK k \in DOMAIN new : f[k] = i
        BY <1>1, <3>1
      <3>3. new[k].id = id
        BY <1>2, <3>1, <3>2
      <3> QED
        BY <3>3 DEF IdsOf
    <2> QED
      BY <2>1, <2>2
  <1>4. ASSUME NEW at \in IdsOf(new)
        PROVE  After(new, at) = IF After(old, at) = sid THEN 0 ELSE After(old, at)
    <2>1. PICK k \in DOMAIN new : at = new[k].id
      BY DEF IdsOf
    <2>2. After(new, at) = new[k].jump
      BY <2>1, VaultIds
    <2>3. f[k] \in DOMAIN old /\ old[f[k]].id = at
      BY <1>2, <2>1
    <2>4. After(old, at) = old[f[k]].jump
      BY <2>3, VaultIds
    <2> QED
      BY <1>2, <2>2, <2>4
  <1>5. \A at : After(new, at) = After(old, at) \/ Ending(new, After(new, at))
    <2>1. ASSUME NEW at PROVE After(new, at) = After(old, at) \/ Ending(new, After(new, at))
      <3>1. CASE at \in IdsOf(new)
        BY <1>4, <3>1, EndsAtNone
      <3>2. CASE at \notin IdsOf(new)
        <4>1. After(new, at) = 0
          BY <3>2 DEF After
        <4> QED
          BY <4>1, EndsAtNone
      <3> QED
        BY <3>1, <3>2
    <2> QED
      BY <2>1
  <1>6. ASSUME NEW at \in IdsOf(new)
        PROVE  After(new, at) \in {0} \cup IdsOf(new) /\ Ending(new, at)
    <2>1. Ending(old, at) /\ After(old, at) \in {0} \cup IdsOf(old)
      BY <1>3 DEF JumpsEnd
    <2>2. Ending(new, at)
      BY <1>5, <2>1, EndsStill
    <2> QED
      BY <1>3, <1>4, <2>1, <2>2
  <1> QED
    BY <1>6 DEF JumpsEnd

\* None of the servers a form offers to jump to leads back to the one it is of.
Avoids(servers, choices, sid) ==
    \A k \in DOMAIN choices : \A n \in Nat : Hop(servers, choices[k], n) # sid

LEMMA StillAvoids ==
    ASSUME NEW old, NEW new, NEW choices, NEW sid, Avoids(old, choices, sid),
           \A at : at # sid => After(new, at) = After(old, at)
    PROVE  Avoids(new, choices, sid)
  <1> SUFFICES ASSUME NEW k \in DOMAIN choices, NEW n \in Nat PROVE Hop(new, choices[k], n) # sid
    BY DEF Avoids
  <1>1. PICK c : c = choices[k]
    OBVIOUS
  <1>2. \A j \in Nat : Hop(old, c, j) # sid
    BY <1>1 DEF Avoids
  <1>3. \A j \in Nat : After(new, Hop(old, c, j)) = After(old, Hop(old, c, j))
    BY <1>2
  <1>4. Hop(new, c, n) = Hop(old, c, n)
    BY <1>3, WayIsSame
  <1> QED
    BY <1>1, <1>2, <1>4

-----------------------------------------------------------------------------
\* The jumps of the vault, saved or not, name servers of it and come to an end,
\* and the open form offers none that leads back.
JumpsInv ==
    /\ JumpsEnd(mem.servers) /\ JumpsEnd(disk.servers)
    /\ screen.at = "form" /\ screen.sid # 0 => Avoids(mem.servers, screen.choices, screen.sid)

\* A form on the screen was just opened, or is the one before.
FormIs ==
    \/ GoAdd \/ GoEdit
    \/ /\ screen.at = "form" /\ screen'.sid = screen.sid /\ screen'.choices = screen.choices
       /\ mem' = mem \/ SubmitForm

LEMMA MenuKeyForm == ASSUME MenuKey, screen'.at = "form" PROVE FormIs
  <1>1. ~(MoveSelection \/ StartTyping \/ TypeFilter \/ EscapeFilter \/ CycleServerSort)
    BY DEF MoveSelection, StartTyping, TypeFilter, EscapeFilter, CycleServerSort, InList, InMenu, At
  <1>2. ~(GoDelete \/ GoScripts \/ GoForwards \/ GoSettings)
    BY ScreenFields DEF GoDelete, GoScripts, GoForwards, GoSettings, Open, Leave
  <1>3. ~GoFiles
    <2>1. ~Open(Screen("files", Selected))
      BY ScreenFields DEF Open, Leave
    <2> QED
      BY <2>1 DEF GoFiles, InMenu, At
  <1>4. ~GoSshImport
    BY DEF GoSshImport, Leave, Screen, NoScreen
  <1>5. ~(Lock \/ Quit)
    BY ScreenFields DEF Lock, Quit, Forget
  <1> QED
    BY <1>1, <1>2, <1>3, <1>4, <1>5 DEF MenuKey, FormIs

LEMMA ServerKeyForm == ASSUME ScreenShape(screen), ServerKey, screen'.at = "form" PROVE FormIs
  <1>1. ~(Back \/ FilesBack \/ ConfirmDelete)
    BY ScreenFields DEF Back, FilesBack, ConfirmDelete, BackToMenu
  <1>2. CycleJumpHost => FormIs
    <2>1. ASSUME CycleJumpHost PROVE FormIs
      <3>1. PICK x : screen' = [screen EXCEPT !.pick = x, !.err = FALSE] /\ screen.at = "form" /\ mem' = mem
        BY <2>1 DEF CycleJumpHost, Show, At, Quiet, Calm
      <3> QED
        BY <3>1 DEF ScreenShape, FormIs
    <2> QED
      BY <2>1
  <1>3. RefuseForm => FormIs
    BY DEF RefuseForm, Show, At, ScreenShape, Quiet, Calm, FormIs
  <1>4. ASSUME SubmitForm PROVE FormIs
    <2>1. PICK ok, servers, anchor :
             IF ok THEN BackToMenu(servers, mem.sort, anchor) ELSE Show([screen EXCEPT !.err = TRUE])
      BY <1>4, Zenon DEF SubmitForm
    <2>2. screen.at = "form"
      BY <1>4 DEF SubmitForm, At
    <2>3. screen' = [screen EXCEPT !.err = TRUE]
      BY <2>1, ScreenFields DEF BackToMenu, Show
    <2> QED
      BY <1>4, <2>2, <2>3 DEF ScreenShape, FormIs
  <1> QED
    BY <1>1, <1>2, <1>3, <1>4 DEF ServerKey

LEMMA FormFrom ==
    ASSUME AppInv, OpenInv', LeavesInv, [Next]_vars, screen'.at = "form" PROVE FormIs
  <1>0. OpenInv /\ ScreenShape(screen) /\ Shape(mem) /\ app' = "open"
    BY DEF AppInv, OpenInv
  <1>1. ASSUME DeskNext PROVE FormIs
    <2>1. ~ScriptKey /\ ~RuleKey
      BY <1>0, ScriptKeyAt, RuleKeyAt DEF AtScripts, AtForwards
    <2>2. ~OtherKey
      BY <1>0, OtherKeyOwner
    <2>3. ExpireStatus => FormIs
      BY DEF ExpireStatus, Calm, FormIs
    <2>4. ~AutoLockIfIdle
      BY ScreenFields DEF AutoLockIfIdle, Forget
    <2>5. ~Unlock
      BY <1>0 DEF Unlock, OpenInv
    <2> QED
      BY <1>0, <1>1, <2>1, <2>2, <2>3, <2>4, <2>5, MenuKeyForm, ServerKeyForm DEF DeskNext, DeskKey, DeskTimer
  <1>2. ASSUME SessionNext PROVE FormIs
    <2>1. SessionView /\ SessionEdit
      BY <1>0, <1>2, SessionViews, SessionEdits
    <2>2. screen' = screen
      BY <2>1, ScreenFields DEF SessionView, Screen, NoScreen
    <2>3. ~Recorded
      BY <1>0, <2>2 DEF Recorded, OpenInv, SessionScreens
    <2>4. mem' = mem
      BY <1>0, <2>1, <2>3 DEF SessionEdit, Forgotten
    <2> QED
      BY <2>2, <2>4 DEF FormIs
  <1>3. UNCHANGED vars => FormIs
    BY DEF vars, desk, FormIs
  <1> QED
    BY <1>1, <1>2, <1>3, DeskTakes DEF Next

\* What the form offers when it is opened.
LEMMA OpenedAvoids ==
    ASSUME VaultInv, JumpsInv, GoEdit PROVE Avoids(mem.servers, screen'.choices, screen'.sid)
  <1>1. PICK y : Open([Screen("form", Selected) EXCEPT !.choices = JumpChoices, !.pick = y])
    BY DEF GoEdit
  <1>2. screen'.choices = JumpCandidates(Servers, Selected) /\ screen'.sid = Selected
        /\ Selected \in IdsOf(Servers)
    BY <1>1 DEF Open, Leave, Screen, NoScreen, IsSelected, JumpChoices
  <1>3. PICK servers, sid : servers = Servers /\ sid = Selected
    OBVIOUS
  <1>4. IsVault(servers, nextId) /\ IsList(servers) /\ JumpsEnd(servers) /\ sid \in IdsOf(servers)
    BY <1>2, <1>3 DEF VaultInv, IsVault, JumpsInv, Servers
  <1>5. PICK list : list = JumpCandidates(servers, sid)
    OBVIOUS
  <1>6. \A k \in DOMAIN list : /\ list[k] \in IdsOf(servers) /\ list[k] # sid
                               /\ ~Reaches(servers, list[k], sid)
    BY <1>4, <1>5, CandidatesAreServers
  <1>7. ASSUME NEW k \in DOMAIN list, NEW n \in Nat PROVE Hop(servers, list[k], n) # sid
    <2>1. PICK c : c = list[k]
      OBVIOUS
    <2>2. c \in IdsOf(servers) /\ c # sid /\ ~Reaches(servers, c, sid)
      BY <1>6, <2>1
    <2> QED
      BY <1>4, <2>1, <2>2, NeverReached
  <1>8. Avoids(servers, list, sid)
    BY <1>7 DEF Avoids
  <1> QED
    BY <1>2, <1>3, <1>5, <1>8 DEF Servers

LEMMA SubmitFormJumps ==
    ASSUME AppInv, VaultInv', ScreenOK(screen, Servers), JumpsInv, SubmitForm
    PROVE  /\ JumpsEnd(mem'.servers)
           /\ screen.sid # 0 => Avoids(mem'.servers, screen.choices, screen.sid)
  <1>0. /\ IsVault(Servers, nextId) /\ nextId \in Nat \ {0} /\ Shape(mem) /\ JumpsEnd(Servers)
        /\ screen.at = "form" /\ \A i \in DOMAIN Servers : IsServer(Servers[i])
        /\ screen.sid \in {0} \cup IdsOf(Servers)
        /\ screen.sid # 0 => Avoids(Servers, screen.choices, screen.sid)
    BY DEF AppInv, VaultInv, IsVault, Servers, SubmitForm, At, JumpsInv, ScreenOK
  <1>1. PICK old, new, next, next_ :
           old = Servers /\ new = mem'.servers /\ next = nextId /\ next_ = nextId'
    OBVIOUS
  <1>2. IsVault(old, next) /\ IsVault(new, next_) /\ JumpsEnd(old)
    BY <1>0, <1>1 DEF VaultInv
  <1>3. PICK c : c = Jump
    OBVIOUS
  <1>4. c \in {0} \cup IdsOf(old)
    BY <1>0, <1>1, <1>3, JumpIs
  <1>5. PICK data \in Drafts, ok \in BOOLEAN :
             Keep(WithServers(IF screen.sid = 0
                    THEN Append(Servers, Filled(NewServer(nextId, data.name, data.host, data.port,
                                                          data.user), data))
                    ELSE [i \in DOMAIN Servers |->
                            IF Servers[i].id = screen.sid THEN Filled(Servers[i], data) ELSE Servers[i]]), ok)
    BY DEF SubmitForm, Update
  <1>6. CASE screen.sid = 0
    <2>1. PICK one : one = Filled(NewServer(nextId, data.name, data.host, data.port, data.user), data)
      OBVIOUS
    <2>2. one.jump = c
      BY <1>3, <2>1 DEF Filled, NewServer
    <2>3. new = Append(old, one)
      BY <1>0, <1>1, <1>5, <1>6, <2>1, KeptServers
    <2>4. IsList(old)
      BY <1>2 DEF IsVault
    <2>5. /\ IsList(new) /\ Len(new) = Len(old) + 1 /\ new[Len(old) + 1] = one
          /\ \A i \in DOMAIN old : new[i] = old[i]
      BY <2>3, <2>4, AppendedList
    <2>6. Len(old) \in Nat /\ DOMAIN new = 1..(Len(old) + 1)
      BY <2>4, <2>5, Lists
    <2>7. \A i \in DOMAIN new : i > Len(old) => new[i].jump \in {0} \cup IdsOf(old)
      <3>1. ASSUME NEW i \in DOMAIN new, i > Len(old) PROVE i = Len(old) + 1
        BY <2>6, <3>1
      <3> QED
        BY <1>4, <2>2, <2>5, <3>1
    <2>8. Len(new) >= Len(old)
      BY <2>5, <2>6
    <2>9. JumpsEnd(new)
      BY <1>2, <2>5, <2>7, <2>8, MoreEnd
    <2> QED
      BY <1>1, <1>6, <2>9
  <1>7. CASE screen.sid # 0
    <2>1. PICK sid : sid = screen.sid
      OBVIOUS
    <2>2. mem'.servers = [i \in DOMAIN Servers |->
                            IF Servers[i].id = screen.sid THEN Filled(Servers[i], data) ELSE Servers[i]]
      BY <1>0, <1>5, <1>7, KeptServers
    <2>3. new = [i \in DOMAIN old |-> IF old[i].id = sid THEN Filled(old[i], data) ELSE old[i]]
      BY <1>1, <2>1, <2>2
    <2>4. ASSUME NEW i \in DOMAIN old
          PROVE  /\ new[i].id = old[i].id
                 /\ new[i].jump = IF old[i].id = sid THEN c ELSE old[i].jump
      <3>1. PICK s : s = old[i] /\ IsServer(s)
        BY <1>0, <1>1
      <3>2. Filled(s, data).id = s.id /\ Filled(s, data).jump = c
        BY <1>3, <3>1 DEF Filled, IsServer
      <3> QED
        BY <2>3, <3>1, <3>2
    <2>5. Rejumped(old, new, sid, c)
      BY <2>3, <2>4 DEF Rejumped
    <2>6. \A k \in Nat : Hop(old, c, k) # sid
      <3>1. CASE c = 0
        <4>1. 0 \notin IdsOf(old)
          BY <1>2, VaultIds
        <4> QED
          BY <1>7, <2>1, <3>1, <4>1, NoneStays
      <3>2. CASE c # 0
        <4>1. screen.pick \in DOMAIN screen.choices /\ c = screen.choices[screen.pick]
          <5>1. screen.pick \in 0..Len(screen.choices) /\ screen.pick # 0
            BY <1>0, <1>3, <3>2 DEF ScreenOK, Jump
          <5>2. Len(screen.choices) \in Nat /\ DOMAIN screen.choices = 1..Len(screen.choices)
            BY Lists DEF ScreenOK
          <5> QED
            BY <1>3, <5>1, <5>2 DEF Jump
        <4> QED
          BY <1>0, <1>1, <1>7, <2>1, <4>1 DEF Avoids
      <3> QED
        BY <3>1, <3>2
    <2>7. JumpsEnd(new) /\ \A at : at # sid => After(new, at) = After(old, at)
      BY <1>2, <1>4, <2>5, <2>6, OneJumps
    <2>8. Avoids(old, screen.choices, sid)
      BY <1>0, <1>1, <1>7, <2>1
    <2>9. Avoids(new, screen.choices, sid)
      BY <2>7, <2>8, StillAvoids
    <2> QED
      BY <1>1, <2>1, <2>7, <2>9
  <1> QED
    BY <1>6, <1>7

LEMMA DeleteJumps ==
    ASSUME AppInv, VaultInv', JumpsInv, ConfirmDelete PROVE JumpsEnd(mem'.servers)
  <1>1. PICK ok : Keep(WithServers(ClearJumps(Without(Servers, screen.sid), screen.sid)), ok)
    BY DEF ConfirmDelete
  <1>2. mem'.servers = ClearJumps(Without(Servers, screen.sid), screen.sid)
    BY <1>1, KeptServers DEF AppInv
  <1>3. PICK old, new, next, next_ :
           old = Servers /\ new = mem'.servers /\ next = nextId /\ next_ = nextId'
    OBVIOUS
  <1>4. IsVault(old, next) /\ IsVault(new, next_) /\ JumpsEnd(old)
    BY <1>3 DEF AppInv, VaultInv, JumpsInv, Servers
  <1>5. Shorter(old, new, screen.sid)
    BY <1>2, <1>3, <1>4, DeletedVault
  <1> QED
    BY <1>3, <1>4, <1>5, LessEnd

LEMMA ImportJumps ==
    ASSUME AppInv, VaultInv', JumpsInv, ImportSshHosts PROVE JumpsEnd(mem'.servers)
  <1>1. /\ screen.at = "import" /\ (mem' = WithServers(Servers \o Imported) \/ mem' = mem)
        /\ Shape(mem) /\ VaultInv
    BY DEF ImportSshHosts, At, KeepIfSaved, AppInv
  <1>2. CASE mem' = mem
    BY <1>2 DEF JumpsInv
  <1>3. CASE mem' = WithServers(Servers \o Imported)
    <2>1. PICK old, new, more, next, next_ :
             old = Servers /\ new = mem'.servers /\ more = Imported /\ next = nextId /\ next_ = nextId'
      OBVIOUS
    <2>2. IsVault(old, next) /\ IsVault(new, next_) /\ JumpsEnd(old) /\ IsList(old)
      BY <2>1 DEF AppInv, VaultInv, IsVault, JumpsInv, Servers
    <2>3. new = old \o more
      BY <1>1, <1>3, <2>1 DEF WithServers, Shape
    <2>4. IsList(more) /\ \A i \in DOMAIN more : more[i].jump = 0
      <3>1. IsList(Imported) /\ IsList(Picked)
        BY <1>1, ImportedServers, PickedRows DEF AppInv, OpenInv, RowsInv
      <3>2. ASSUME NEW i \in DOMAIN Imported PROVE Imported[i].jump = 0
        <4>1. PICK id, name, host, port, user : Imported[i] = NewServer(id, name, host, port, user)
          BY DEF Imported
        <4> QED
          BY <4>1 DEF NewServer
      <3> QED
        BY <2>1, <3>1, <3>2
    <2>5. /\ IsList(new) /\ Len(new) = Len(old) + Len(more) /\ \A i \in DOMAIN old : new[i] = old[i]
          /\ \A i \in DOMAIN more : new[Len(old) + i] = more[i]
      BY <2>2, <2>3, <2>4, JoinedList
    <2>6. /\ Len(old) \in Nat /\ Len(more) \in Nat /\ DOMAIN more = 1..Len(more)
          /\ DOMAIN new = 1..(Len(old) + Len(more)) /\ Len(new) >= Len(old)
      <3>1. Len(old) \in Nat /\ Len(more) \in Nat /\ DOMAIN more = 1..Len(more) /\ DOMAIN new = 1..Len(new)
        BY <2>2, <2>4, <2>5, Lists
      <3> QED
        BY <2>5, <3>1
    <2>7. \A i \in DOMAIN new : i > Len(old) => new[i].jump \in {0} \cup IdsOf(old)
      <3>1. ASSUME NEW i \in DOMAIN new, i > Len(old) PROVE new[i].jump = 0
        <4>1. i - Len(old) \in DOMAIN more /\ i = Len(old) + (i - Len(old))
          BY <2>6, <3>1
        <4> QED
          BY <2>4, <2>5, <4>1
      <3> QED
        BY <3>1
    <2>8. JumpsEnd(new)
      BY <2>2, <2>5, <2>6, <2>7, MoreEnd
    <2> QED
      BY <2>1, <2>8
  <1> QED
    BY <1>1, <1>2, <1>3

\* What a key of App makes of the jumps.
LEMMA DeskJumps ==
    ASSUME AppInv, VaultInv', ScreenOK(screen, Servers), JumpsInv, DeskNext
    PROVE  JumpsEnd(mem'.servers) /\ JumpsEnd(disk'.servers)
  <1>0. VaultInv /\ Shape(mem) /\ JumpsEnd(mem.servers) /\ JumpsEnd(disk.servers)
    BY DEF AppInv, JumpsInv
  <1>1. JumpsEnd(mem'.servers)
    <2>1. CASE FilesBack \/ SubmitScriptForm \/ ConfirmDeleteScript \/ ToggleForward \/ SubmitForwardForm
               \/ ConfirmDeleteForward
      <3>1. Aside(Servers, mem'.servers)
        BY <1>0, <2>1, AsideKeys
      <3>2. PICK old, new, next, next_ :
               old = Servers /\ new = mem'.servers /\ next = nextId /\ next_ = nextId'
        OBVIOUS
      <3>3. IsVault(old, next) /\ IsVault(new, next_) /\ JumpsEnd(old) /\ Aside(old, new)
        BY <1>0, <3>1, <3>2 DEF VaultInv, Servers
      <3> QED
        BY <3>2, <3>3, AsideEnds
    <2>2. CASE SubmitForm \/ ConfirmDelete \/ ImportSshHosts
      BY <2>2, SubmitFormJumps, DeleteJumps, ImportJumps
    <2>3. CASE ~(FilesBack \/ SubmitScriptForm \/ ConfirmDeleteScript \/ ToggleForward \/ SubmitForwardForm
                 \/ ConfirmDeleteForward \/ SubmitForm \/ ConfirmDelete \/ ImportSshHosts)
      <3>1. mem'.servers \in {mem.servers, disk.servers, <<>>}
        BY <1>0, <2>3, OtherEdits
      <3> QED
        BY <1>0, <3>1, NoServersEnd
    <2> QED
      BY <2>1, <2>2, <2>3
  <1>2. disk'.servers \in {mem'.servers, disk.servers}
    <2>1. DeskEdit
      BY <1>0, DeskEdits DEF AppInv, OpenInv, RowsInv
    <2> QED
      BY <2>1 DEF DeskEdit, Forgotten, ReadBack
  <1> QED
    BY <1>0, <1>1, <1>2

LEMMA SessionJumps ==
    ASSUME AppInv, VaultInv', JumpsInv, SessionNext
    PROVE  JumpsEnd(mem'.servers) /\ JumpsEnd(disk'.servers)
  <1>0. VaultInv /\ Shape(mem) /\ JumpsEnd(mem.servers) /\ JumpsEnd(disk.servers)
    BY DEF AppInv, JumpsInv
  <1>1. CASE Recorded
    <2>1. PICK o : mem'.servers = [i \in DOMAIN Servers |-> Pinned(o, Servers[i])]
      BY <1>1 DEF Recorded
    <2>2. ASSUME NEW i \in DOMAIN Servers
          PROVE  mem'.servers[i].id = Servers[i].id /\ mem'.servers[i].jump = Servers[i].jump
      <3>1. IsServer(Servers[i])
        BY <1>0 DEF VaultInv, IsVault, Servers
      <3>2. Pinned(o, Servers[i]).id = Servers[i].id /\ Pinned(o, Servers[i]).jump = Servers[i].jump
        BY <3>1, PinnedIs
      <3> QED
        BY <2>1, <3>2
    <2>3. Aside(Servers, mem'.servers)
      BY <2>1, <2>2 DEF Aside
    <2>4. PICK old, new, next, next_ :
             old = Servers /\ new = mem'.servers /\ next = nextId /\ next_ = nextId'
      OBVIOUS
    <2>5. IsVault(old, next) /\ IsVault(new, next_) /\ JumpsEnd(old) /\ Aside(old, new)
      BY <1>0, <2>3, <2>4 DEF VaultInv, Servers
    <2>6. JumpsEnd(mem'.servers)
      BY <2>4, <2>5, AsideEnds
    <2> QED
      BY <1>0, <1>1, <2>6 DEF Recorded
  <1>2. CASE mem' = mem /\ disk' \in {mem, disk}
    BY <1>0, <1>2
  <1>3. CASE Forgotten
    BY <1>0, <1>3, NoServersEnd DEF Forgotten, NoConfig
  <1> QED
    BY <1>0, <1>1, <1>2, <1>3, SessionEdits DEF SessionEdit

LEMMA JumpsKept == ASSUME AppWhole, AppWhole', JumpsInv, [Next]_vars PROVE JumpsInv'
  <1>0. AppInv /\ VaultInv' /\ OpenInv' /\ LeavesInv /\ ScreenOK(screen, Servers)
    BY DEF AppWhole, AppInv, ScreensInv
  <1>1. JumpsEnd(mem'.servers) /\ JumpsEnd(disk'.servers)
    <2>1. UNCHANGED vars => JumpsEnd(mem'.servers) /\ JumpsEnd(disk'.servers)
      BY DEF vars, desk, JumpsInv
    <2>2. DeskNext => JumpsEnd(mem'.servers) /\ JumpsEnd(disk'.servers)
      BY <1>0, DeskJumps
    <2>3. SessionNext => JumpsEnd(mem'.servers) /\ JumpsEnd(disk'.servers)
      BY <1>0, SessionJumps
    <2> QED
      BY <2>1, <2>2, <2>3, DeskTakes DEF Next
  <1>2. ASSUME screen'.at = "form", screen'.sid # 0
        PROVE  Avoids(mem'.servers, screen'.choices, screen'.sid)
    <2>1. FormIs
      BY <1>0, <1>2, FormFrom
    <2>2. ~GoAdd
      BY <1>2 DEF GoAdd, Leave, Screen, NoScreen
    <2>3. CASE GoEdit
      <3>1. mem' = mem
        BY <2>3 DEF GoEdit, Open, Quiet, Calm
      <3> QED
        BY <1>0, <2>3, <3>1, OpenedAvoids DEF AppInv
    <2>4. CASE SubmitForm /\ screen'.sid = screen.sid /\ screen'.choices = screen.choices
      BY <1>0, <1>2, <2>4, SubmitFormJumps
    <2>5. CASE /\ mem' = mem /\ screen.at = "form"
               /\ screen'.sid = screen.sid /\ screen'.choices = screen.choices
      BY <1>2, <2>5 DEF JumpsInv
    <2> QED
      BY <2>1, <2>2, <2>3, <2>4, <2>5 DEF FormIs
  <1> QED
    BY <1>1, <1>2 DEF JumpsInv

\* App's JumpsSound: from vaults whose jumps come to an end, however many forms
\* are submitted one after another, the way to every server can be walked.
THEOREM JumpsAreSound ==
    ASSUME \A c \in Configs : JumpsEnd(c.servers) PROVE Spec => []JumpsSound
  <1>1. Init => JumpsInv
    BY NoServersEnd DEF Init, DeskInit, NoConfig, NoScreen, JumpsInv
  <1>2. JumpsInv /\ AppWhole => JumpsSound
    <2> SUFFICES ASSUME JumpsInv, AppWhole, NEW id \in ServersIn(mem)
                 PROVE  Walk(mem.servers, id).why \in {"ok", "too many"}
      BY DEF JumpsSound
    <2>1. IsVault(mem.servers, nextId) /\ JumpsEnd(mem.servers) /\ id \in IdsOf(mem.servers)
      BY DEF AppWhole, AppInv, VaultInv, JumpsInv, ServersIn
    <2> QED
      BY <2>1, WalkEnds
  <1> QED
    BY <1>1, <1>2, JumpsKept, AppIsWhole, PTL DEF Spec
=============================================================================
