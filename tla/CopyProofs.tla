----------------------------- MODULE CopyProofs -----------------------------
(***************************************************************************)
(* What a transfer leaves on the two sides.                                *)
(***************************************************************************)
EXTENDS FilesProofs, FiniteSetTheorems

\* Ranked lists every member of a set once, if no two have the same key.
LEMMA RankedLists ==
    ASSUME NEW S, IsFiniteSet(S), NEW key \in [S -> Nat],
           \A e, f \in S : key[e] = key[f] => e = f
    PROVE  /\ Cardinality(S) \in Nat
           /\ Ranked(S, key) \in [1..Cardinality(S) -> S]
           /\ \A i, j \in 1..Cardinality(S) : Ranked(S, key)[i] = Ranked(S, key)[j] => i = j
           /\ \A e \in S : \E k \in 1..Cardinality(S) : Ranked(S, key)[k] = e
  <1> DEFINE n == Cardinality(S)
             below(e) == {f \in S : key[f] < key[e]}
             rank == [e \in S |-> Cardinality(below(e)) + 1]
             rows == Ranked(S, key)
  <1>1. n \in Nat
    BY FS_CardinalityType
  <1>2. ASSUME NEW e \in S
        PROVE  /\ IsFiniteSet(below(e)) /\ Cardinality(below(e)) \in Nat
               /\ Cardinality(below(e)) < n
    <2>1. below(e) \in SUBSET S
      OBVIOUS
    <2>2. /\ IsFiniteSet(below(e)) /\ Cardinality(below(e)) <= n
          /\ n = Cardinality(below(e)) => S = below(e)
      BY <2>1, FS_Subset
    <2>3. e \notin below(e)
      OBVIOUS
    <2>4. Cardinality(below(e)) \in Nat
      BY <2>2, FS_CardinalityType
    <2> QED
      BY <1>1, <2>2, <2>3, <2>4
  <1>3. ASSUME NEW e \in S, NEW f \in S, key[f] < key[e]
        PROVE  Cardinality(below(f)) < Cardinality(below(e))
    <2>1. key[e] \in Nat /\ key[f] \in Nat
      OBVIOUS
    <2>2. ASSUME NEW x \in below(f) PROVE x \in below(e)
      <3>1. x \in S /\ key[x] \in Nat /\ key[x] < key[f]
        OBVIOUS
      <3> QED
        BY <1>3, <2>1, <3>1
    <2>3. below(f) \in SUBSET below(e)
      BY <2>2
    <2>4. /\ Cardinality(below(f)) <= Cardinality(below(e))
          /\ Cardinality(below(e)) = Cardinality(below(f)) => below(e) = below(f)
      BY <1>2, <2>3, FS_Subset
    <2>5. f \in below(e) /\ f \notin below(f)
      BY <1>3, <2>1
    <2>6. Cardinality(below(f)) \in Nat /\ Cardinality(below(e)) \in Nat
      BY <1>2
    <2> HIDE DEF below
    <2> QED
      BY <2>4, <2>5, <2>6
  <1>4. \A e \in S : Cardinality(below(e)) \in Nat /\ Cardinality(below(e)) < n
    BY <1>2
  <1>5. \A e, f \in S : key[f] < key[e] => Cardinality(below(f)) < Cardinality(below(e))
    BY <1>3
  <1>6. rows = [k \in 1..n |-> CHOOSE e \in S : Cardinality(below(e)) = k - 1]
    BY DEF Ranked
  <1>7. DOMAIN rank = S /\ \A e \in S : rank[e] = Cardinality(below(e)) + 1
    OBVIOUS
  <1>8. rank = [e \in S |-> rank[e]]
    BY <1>7
  <1> HIDE DEF below, rank, rows, n
  <1>9. \A e \in S : rank[e] \in 1..n
    BY <1>1, <1>4, <1>7
  <1>10. rank \in [S -> 1..n]
    BY <1>8, <1>9
  <1>11. ASSUME NEW e \in S, NEW f \in S, rank[e] = rank[f]
         PROVE  e = f
    <2>1. key[e] \in Nat /\ key[f] \in Nat
      OBVIOUS
    <2>2. Cardinality(below(e)) = Cardinality(below(f))
      BY <1>4, <1>7, <1>11
    <2>3. ~(key[e] < key[f]) /\ ~(key[f] < key[e])
      BY <1>4, <1>5, <2>2
    <2> QED
      BY <2>1, <2>3
  <1>12. rank \in Injection(S, 1..n)
    BY <1>10, <1>11 DEF Injection, IsInjective
  <1>13. IsFiniteSet(1..n) /\ Cardinality(1..n) = n
    BY <1>1, FS_Interval
  <1>14. rank \in Surjection(S, 1..n)
    BY <1>12, <1>13, FS_Injection DEF n
  <1>15. ASSUME NEW k \in 1..n PROVE rows[k] \in S /\ rank[rows[k]] = k
    <2>1. PICK e \in S : rank[e] = k
      BY <1>14 DEF Surjection
    <2>2. Cardinality(below(e)) = k - 1
      BY <1>4, <1>7, <2>1
    <2>3. rows[k] = CHOOSE x \in S : Cardinality(below(x)) = k - 1
      BY <1>6
    <2>4. rows[k] \in S /\ Cardinality(below(rows[k])) = k - 1
      BY <2>2, <2>3
    <2> QED
      BY <1>1, <1>7, <2>4
  <1>16. rows \in [1..n -> S]
    BY <1>6, <1>15
  <1>17. \A i, j \in 1..n : rows[i] = rows[j] => i = j
    BY <1>15
  <1>18. ASSUME NEW e \in S PROVE \E k \in 1..n : rows[k] = e
    <2>1. rank[e] \in 1..n /\ rows[rank[e]] \in S /\ rank[rows[rank[e]]] = rank[e]
      BY <1>9, <1>15
    <2> QED
      BY <1>11, <2>1
  <1> QED
    BY <1>1, <1>16, <1>17, <1>18 DEF rows, n

---------------------------------------------------------------------------
\* Names and rows

LEMMA Positions ==
    /\ Len(Names) \in Nat
    /\ \A name \in NameSet : Pos(name) \in 1..Len(Names) /\ Names[Pos(name)] = name
  <1>1. Len(Names) \in Nat /\ DOMAIN Names = 1..Len(Names)
    BY NamesAssumption
  <1>2. ASSUME NEW name \in NameSet PROVE Pos(name) \in DOMAIN Names /\ Names[Pos(name)] = name
    <2>1. \E i \in DOMAIN Names : Names[i] = name
      BY DEF NameSet, Range
    <2> QED
      BY <2>1 DEF Pos
  <1> QED
    BY <1>1, <1>2

LEMMA NamesFinite == IsFiniteSet(NameSet)
  <1>1. DOMAIN Names = 1..Len(Names) /\ Len(Names) \in Nat
    BY NamesAssumption
  <1>2. Names \in [1..Len(Names) -> NameSet]
    BY <1>1, NamesAssumption
  <1>3. Names \in Surjection(1..Len(Names), NameSet)
    BY <1>1, <1>2 DEF Surjection, NameSet, Range
  <1>4. IsFiniteSet(1..Len(Names))
    BY <1>1, FS_Interval
  <1> QED
    BY <1>3, <1>4, FS_Surjection

EntrySet == [name : NameSet, kind : Kinds]
OnceNamed(S) == S \subseteq EntrySet /\ \A e, f \in S : e.name = f.name => e = f
RowsOnce(rows) == /\ rows \in Seq(EntrySet)
                  /\ \A i, j \in DOMAIN rows : rows[i].name = rows[j].name => i = j

LEMMA OnceFinite == ASSUME NEW S, OnceNamed(S) PROVE IsFiniteSet(S)
  <1> DEFINE name == [e \in S |-> e.name]
  <1>1. name \in [S -> NameSet]
    BY DEF OnceNamed, EntrySet
  <1>2. name \in Injection(S, NameSet)
    BY <1>1 DEF OnceNamed, Injection, IsInjective
  <1> QED
    BY <1>2, NamesFinite, FS_Injection

\* Rows by keys that tell names apart: every member once.
LEMMA RowsByKey ==
    ASSUME NEW S, OnceNamed(S), NEW key, key \in [S -> Nat],
           \A e, f \in S : key[e] = key[f] => e.name = f.name
    PROVE  /\ RowsOnce(Ranked(S, key)) /\ Ranked(S, key) \in Seq(S)
           /\ \A e \in S : \E k \in DOMAIN Ranked(S, key) : Ranked(S, key)[k] = e
  <1> DEFINE rows == Ranked(S, key)
  <1>1. IsFiniteSet(S) /\ \A e, f \in S : key[e] = key[f] => e = f
    BY OnceFinite DEF OnceNamed
  <1>2. /\ Cardinality(S) \in Nat
        /\ rows \in [1..Cardinality(S) -> S]
        /\ \A i, j \in 1..Cardinality(S) : rows[i] = rows[j] => i = j
        /\ \A e \in S : \E k \in 1..Cardinality(S) : rows[k] = e
    BY <1>1, RankedLists
  <1> HIDE DEF rows
  <1>3. rows \in Seq(S) /\ DOMAIN rows = 1..Cardinality(S)
    BY <1>2
  <1>4. rows \in Seq(EntrySet)
    BY <1>2 DEF OnceNamed
  <1>5. \A i, j \in DOMAIN rows : rows[i].name = rows[j].name => i = j
    BY <1>2, <1>3 DEF OnceNamed
  <1> QED
    BY <1>2, <1>3, <1>4, <1>5 DEF rows, RowsOnce

LEMMA SortedRows ==
    ASSUME NEW S, OnceNamed(S)
    PROVE  /\ RowsOnce(Sorted(S)) /\ Sorted(S) \in Seq(S)
           /\ \A e \in S : \E k \in DOMAIN Sorted(S) : Sorted(S)[k] = e
  <1> DEFINE key == [e \in S |-> Pos(e.name) + IF e.kind = "dir" THEN 0 ELSE Len(Names)]
  <1>1. \A e \in S : e.name \in NameSet /\ Pos(e.name) \in 1..Len(Names)
                     /\ Names[Pos(e.name)] = e.name
    BY Positions DEF OnceNamed, EntrySet
  <1>2. \A e \in S : key[e] \in Nat
    BY <1>1, Positions
  <1>3. ASSUME NEW e \in S, NEW f \in S, key[e] = key[f] PROVE e.name = f.name
    <2>1. Pos(e.name) = Pos(f.name)
      BY <1>1, <1>3, Positions
    <2> QED
      BY <1>1, <2>1
  <1>4. key \in [S -> Nat]
    BY <1>2
  <1> HIDE DEF key
  <1>5. /\ RowsOnce(Ranked(S, key)) /\ Ranked(S, key) \in Seq(S)
        /\ \A e \in S : \E k \in DOMAIN Ranked(S, key) : Ranked(S, key)[k] = e
    BY <1>3, <1>4, RowsByKey
  <1> QED
    BY <1>5 DEF Sorted, key

LEMMA OncePart == ASSUME NEW S, OnceNamed(S), NEW T, T \subseteq S PROVE OnceNamed(T)
  BY DEF OnceNamed

LEMMA EntriesOnce ==
    ASSUME NEW tree, GoodTree(tree), NEW dir PROVE OnceNamed(Entries(tree, dir))
  <1>1. ASSUME NEW n \in NameSet, Append(dir, n) \in DOMAIN tree
        PROVE  Entry(tree, dir, n) \in EntrySet /\ Entry(tree, dir, n).name = n
    BY <1>1 DEF Entry, EntrySet, At, GoodTree, Nodes, FileNodes, Kinds
  <1> QED
    BY <1>1 DEF Entries, OnceNamed

---------------------------------------------------------------------------
\* Paths

\* p is q or a directory above it.
Above(p, q) == Len(p) <= Len(q) /\ \A k \in 1..Len(p) : p[k] = q[k]

LEMMA LongerPath ==
    ASSUME NEW p \in Paths, NEW n \in NameSet
    PROVE  /\ Append(p, n) \in Paths /\ Len(Append(p, n)) = Len(p) + 1 /\ Len(p) \in Nat
           /\ \A k \in 1..Len(p) : Append(p, n)[k] = p[k]
           /\ Append(p, n)[Len(p) + 1] = n
  BY DEF Paths

LEMMA SamePath ==
    ASSUME NEW p \in Paths, NEW q \in Paths, Len(p) = Len(q), Above(p, q) PROVE p = q
  BY DEF Above, Paths

LEMMA AboveItself == ASSUME NEW p \in Paths PROVE Above(p, p)
  BY DEF Above, Paths

LEMMA BelowChild ==
    ASSUME NEW p \in Paths, NEW q \in Paths, NEW n \in NameSet
    PROVE  /\ Above(Append(p, n), q) => Above(p, q)
           /\ Above(q, Append(p, n)) => Above(q, p) \/ q = Append(p, n)
           /\ ~Above(Append(p, n), p)
  <1>1. /\ Append(p, n) \in Paths /\ Len(Append(p, n)) = Len(p) + 1 /\ Len(p) \in Nat
        /\ \A k \in 1..Len(p) : Append(p, n)[k] = p[k]
        /\ Len(q) \in Nat
    BY LongerPath DEF Paths
  <1>2. Above(Append(p, n), q) => Above(p, q)
    BY <1>1 DEF Above
  <1>3. Above(q, Append(p, n)) /\ Len(q) <= Len(p) => Above(q, p)
    BY <1>1 DEF Above
  <1>4. ASSUME Above(q, Append(p, n)), ~(Len(q) <= Len(p)) PROVE q = Append(p, n)
    <2>1. Len(q) = Len(Append(p, n))
      BY <1>1, <1>4 DEF Above
    <2> QED
      BY <1>1, <1>4, <2>1, SamePath
  <1>5. ~Above(Append(p, n), p)
    BY <1>1 DEF Above
  <1> QED
    BY <1>2, <1>3, <1>4, <1>5

LEMMA Siblings ==
    ASSUME NEW p \in Paths, NEW m \in NameSet, NEW n \in NameSet, Above(Append(p, m), Append(p, n))
    PROVE  m = n
  <1>1. /\ Len(Append(p, m)) = Len(p) + 1 /\ Len(p) \in Nat
        /\ Append(p, m)[Len(p) + 1] = m /\ Append(p, n)[Len(p) + 1] = n
    BY LongerPath
  <1>2. Len(p) + 1 \in 1..Len(Append(p, m))
    BY <1>1
  <1> QED
    BY <1>1, <1>2 DEF Above

---------------------------------------------------------------------------
\* The rows of an answer, a listing and a pane name every entry once.

Replied(r) == OnceNamed(r.entries)
AnswersNamed == Replied(call.ans) /\ \A i \in DOMAIN wire : Replied(wire[i].ans)

ListerFits == lister.path \in Paths /\ OnceNamed(lister.entries)

PaneSet == [cwd : Paths, entries : Seq(EntrySet), cur : Nat, marked : SUBSET NameSet, err : BOOLEAN]
FitPane(pane) == pane \in PaneSet /\ RowsOnce(pane.entries)
BrowserFits ==
    /\ DOMAIN panes = Sides /\ \A s \in Sides : FitPane(panes[s])
    /\ focus \in Sides /\ hidden \in BOOLEAN
    /\ lastDir \in [Sides -> Paths \cup {Unset}]

LEMMA NoRows == RowsOnce(<<>>)
  <1>1. <<>> \in Seq(EntrySet) /\ DOMAIN <<>> = {}
    OBVIOUS
  <1> QED
    BY <1>1 DEF RowsOnce

LEMMA EmptyFits == ASSUME NEW cwd \in Paths, NEW err \in BOOLEAN
                   PROVE  /\ FitPane([EmptyPane EXCEPT !.cwd = cwd, !.err = err])
                          /\ FitPane([EmptyPane EXCEPT !.cwd = cwd])
  <1> DEFINE pane == [EmptyPane EXCEPT !.cwd = cwd, !.err = err]
             other == [EmptyPane EXCEPT !.cwd = cwd]
  <1>1. <<>> \in Seq(EntrySet)
    OBVIOUS
  <1>2. pane \in PaneSet /\ other \in PaneSet
    BY <1>1 DEF EmptyPane, PaneSet
  <1>3. pane.entries = <<>> /\ other.entries = <<>>
    BY DEF EmptyPane
  <1> QED
    BY <1>2, <1>3, NoRows DEF FitPane

LEMMA RootIsPath == <<>> \in Paths /\ FitPane(EmptyPane)
  <1>1. <<>> \in Paths
    BY DEF Paths
  <1> QED
    BY <1>1 DEF FitPane, PaneSet, RowsOnce, EmptyPane

LEMMA SetEntriesFits ==
    ASSUME NEW pane, FitPane(pane), NEW S, OnceNamed(S)
    PROVE  FitPane(SetEntries(pane, S)) /\ SetEntries(pane, S).cwd = pane.cwd
  <1> DEFINE rows == Sorted(S)
             new == SetEntries(pane, S)
  <1>1. RowsOnce(rows)
    BY SortedRows
  <1>2. Clamp(pane.cur, Len(rows)) \in Nat
    BY <1>1 DEF Clamp, RowsOnce, FitPane, PaneSet
  <1>3. RetainMarks(pane, rows) \subseteq NameSet
    BY DEF RetainMarks, FitPane, PaneSet
  <1>4. new = [pane EXCEPT !.entries = rows, !.marked = RetainMarks(pane, rows),
                    !.cur = Clamp(pane.cur, Len(rows)), !.err = FALSE]
    BY DEF SetEntries
  <1> HIDE DEF rows, new
  <1> QED
    BY <1>1, <1>2, <1>3, <1>4 DEF FitPane, PaneSet, RowsOnce, new

LEMMA ReloadFits ==
    ASSUME NEW pane, FitPane(pane), GoodTree(disk["local"].tree), NEW show, NEW readable
    PROVE  FitPane(ReloadLocal(pane, show, readable))
  <1> DEFINE S == Visible(Entries(disk["local"].tree, pane.cwd), show)
  <1>1. OnceNamed(S)
    BY EntriesOnce, OncePart DEF Visible
  <1>2. FitPane(SetEntries(pane, S))
    BY <1>1, SetEntriesFits
  <1>3. FitPane([pane EXCEPT !.entries = <<>>, !.err = TRUE])
    <2>1. <<>> \in Seq(EntrySet)
      OBVIOUS
    <2>2. [pane EXCEPT !.entries = <<>>, !.err = TRUE] \in PaneSet
      BY <2>1 DEF FitPane, PaneSet
    <2>3. [pane EXCEPT !.entries = <<>>, !.err = TRUE].entries = <<>>
      BY DEF FitPane, PaneSet
    <2> QED
      BY <2>2, <2>3, NoRows DEF FitPane
  <1> HIDE DEF S
  <1>4. ReloadLocal(pane, show, readable) \in {SetEntries(pane, S), [pane EXCEPT !.entries = <<>>, !.err = TRUE]}
    BY DEF ReloadLocal, S
  <1> QED
    BY <1>2, <1>3, <1>4

LEMMA EnterFits ==
    ASSUME NEW pane, FitPane(pane), NEW cwd \in Paths
    PROVE  FitPane(Enter(pane, cwd))
  BY EmptyFits DEF Enter, FitPane, PaneSet

LEMMA SetRemoteFits ==
    ASSUME NEW pane, FitPane(pane), NEW cwd \in Paths, NEW S, OnceNamed(S)
    PROVE  FitPane(SetRemote(pane, cwd, S))
  <1>1. OnceNamed(Visible(S, hidden))
    BY OncePart DEF Visible
  <1>2. FitPane(IF cwd = pane.cwd THEN pane ELSE Enter(pane, cwd))
    BY EnterFits
  <1> QED
    BY <1>1, <1>2, SetEntriesFits DEF SetRemote

LEMMA RowFits ==
    ASSUME NEW pane, FitPane(pane), HasRow(pane)
    PROVE  Row(pane) \in EntrySet
  BY DEF FitPane, PaneSet, RowsOnce, HasRow, Row

LEMMA InPaneFits ==
    ASSUME BrowserFits, NEW pane, FitPane(pane), InPane(pane)
    PROVE  /\ FitPane(Pane)
           /\ DOMAIN panes' = Sides /\ \A s \in Sides : FitPane(panes'[s])
  BY DEF BrowserFits, InPane, Pane

LEMMA SameBrowser == ASSUME BrowserFits, UNCHANGED browser PROVE BrowserFits'
  BY DEF BrowserFits, browser

LEMMA GoesSomewhere ==
    ASSUME BrowserFits, OpenSelected \/ GoUp PROVE \E cwd \in Paths : Go(cwd)
  <1>0. FitPane(Pane)
    BY DEF BrowserFits, Pane
  <1>1. CASE OpenSelected
    <2>1. Row(Pane).name \in NameSet /\ Pane.cwd \in Paths
      BY <1>0, <1>1, RowFits DEF OpenSelected, EntrySet, FitPane, PaneSet
    <2> QED
      BY <1>1, <2>1, LongerPath DEF OpenSelected
  <1>2. CASE GoUp
    <2>1. Pane.cwd \in Paths /\ Pane.cwd # <<>>
      BY <1>0, <1>2 DEF GoUp, FitPane, PaneSet
    <2>2. Front(Pane.cwd) \in Paths
      BY <2>1 DEF Front, Paths
    <2> QED
      BY <1>2, <2>2 DEF GoUp
  <1> QED
    BY <1>1, <1>2

LEMMA KeyFits ==
    ASSUME FlowInv, BrowserFits,
           SwitchPane \/ MoveCursor \/ ToggleMark \/ OpenSelected \/ GoUp
    PROVE  BrowserFits'
  <1>0. GoodTree(disk["local"].tree) /\ FitPane(Pane) /\ focus \in Sides
    BY DEF FlowInv, Serving, FineDisk, GoodSide, Sides, BrowserFits, Pane
  <1>1. CASE SwitchPane
    BY <1>1 DEF SwitchPane, BrowserFits, Other, Sides
  <1>2. CASE MoveCursor \/ ToggleMark
    <2>1. PICK pane : InPane(pane) /\ FitPane(pane)
      <3>1. CASE MoveCursor
        <4>1. \/ Pane.cur > 0 /\ InPane([Pane EXCEPT !.cur = @ - 1])
              \/ InPane([Pane EXCEPT !.cur = @ + 1])
          BY <3>1 DEF MoveCursor
        <4>2. /\ Pane.cur > 0 => FitPane([Pane EXCEPT !.cur = @ - 1])
              /\ FitPane([Pane EXCEPT !.cur = @ + 1])
          BY <1>0 DEF FitPane, PaneSet
        <4> QED
          BY <4>1, <4>2
      <3>2. CASE ToggleMark
        <4>1. PICK marked \in SUBSET NameSet : InPane([Pane EXCEPT !.marked = marked])
          <5>1. Row(Pane).name \in NameSet /\ Pane.marked \subseteq NameSet
            BY <1>0, <3>2, RowFits DEF ToggleMark, EntrySet, FitPane, PaneSet
          <5> DEFINE name == Row(Pane).name
                     marked == IF name \in Pane.marked THEN Pane.marked \ {name} ELSE Pane.marked \cup {name}
          <5>2. InPane([Pane EXCEPT !.marked = marked])
            BY <3>2 DEF ToggleMark
          <5>3. marked \in SUBSET NameSet
            BY <5>1
          <5> HIDE DEF marked
          <5> QED
            BY <5>2, <5>3
        <4>2. FitPane([Pane EXCEPT !.marked = marked])
          BY <1>0 DEF FitPane, PaneSet
        <4> QED
          BY <4>1, <4>2
      <3> QED
        BY <1>2, <3>1, <3>2
    <2>2. DOMAIN panes' = Sides /\ \A s \in Sides : FitPane(panes'[s])
      BY <2>1, InPaneFits
    <2> QED
      BY <1>2, <2>2 DEF MoveCursor, ToggleMark, BrowserFits
  <1>3. CASE OpenSelected \/ GoUp
    <2>1. PICK cwd \in Paths : Go(cwd)
      BY <1>3, GoesSomewhere
    <2>2. UNCHANGED <<focus, hidden, lastDir>>
      BY <1>3 DEF OpenSelected, GoUp
    <2>3. DOMAIN panes' = Sides /\ \A s \in Sides : FitPane(panes'[s])
      <3>1. CASE focus = "local"
        <4>1. PICK readable : InPane(ReloadLocal(Enter(Pane, cwd), hidden, readable))
          BY <2>1, <3>1 DEF Go, GoLocal
        <4> QED
          BY <1>0, <4>1, EnterFits, ReloadFits, InPaneFits
      <3>2. CASE focus # "local"
        BY <2>1, <3>2 DEF Go, BrowserFits
      <3> QED
        BY <3>1, <3>2
    <2> QED
      BY <2>2, <2>3 DEF BrowserFits
  <1> QED
    BY <1>1, <1>2, <1>3

LEMMA BrowserStep ==
    ASSUME FlowInv, ListerFits, BrowserFits, [Next]_vars
    PROVE  BrowserFits'
  <1>0. /\ GoodTree(disk["local"].tree) /\ <<>> \in Paths
        /\ DOMAIN panes = Sides /\ \A s \in Sides : FitPane(panes[s])
    BY RootIsPath DEF FlowInv, Serving, FineDisk, GoodSide, Sides, BrowserFits
  <1>1. CASE SwitchPane \/ MoveCursor \/ ToggleMark \/ OpenSelected \/ GoUp
    BY <1>1, KeyFits
  <1>2. CASE Refresh \/ Finished
    <2>1. PICK show, readable :
             panes' = [panes EXCEPT !["local"] = ReloadLocal(@, show, readable)]
      BY <1>2 DEF Refresh, Finished
    <2>2. FitPane(ReloadLocal(panes["local"], show, readable))
      BY <1>0, ReloadFits DEF Sides
    <2>3. hidden' \in BOOLEAN /\ UNCHANGED <<focus, lastDir>>
      BY <1>2 DEF Refresh, Finished, BrowserFits
    <2> QED
      BY <1>0, <2>1, <2>2, <2>3 DEF BrowserFits
  <1>3. CASE ListingShown
    <2>1. FitPane(SetRemote(panes["remote"], lister.path, lister.entries))
      BY <1>0, SetRemoteFits DEF ListerFits, Sides
    <2>2. FitPane([panes["remote"] EXCEPT !.err = TRUE])
      BY <1>0 DEF FitPane, PaneSet, Sides
    <2>3. PICK pane : panes' = [panes EXCEPT !["remote"] = pane] /\ FitPane(pane)
      BY <1>3, <2>1, <2>2 DEF ListingShown, ShowRemote
    <2> QED
      BY <1>0, <1>3, <2>3 DEF ListingShown, BrowserFits
  <1>4. CASE FirstListing
    <2>1. ASSUME NEW s \in Sides PROVE StartDir(s) \in Paths
      BY <1>0, <2>1 DEF StartDir, BrowserFits
    <2>2. PICK cwd \in Paths, local \in Paths :
             panes' = [s \in Sides |-> IF s = "remote" THEN [EmptyPane EXCEPT !.cwd = cwd]
                         ELSE ReloadLocal([EmptyPane EXCEPT !.cwd = local], FALSE, TRUE)]
      BY <1>0, <1>4, <2>1 DEF FirstListing, Sides
    <2>3. \A p \in Paths : FitPane([EmptyPane EXCEPT !.cwd = p])
      BY EmptyFits
    <2>4. DOMAIN panes' = Sides /\ \A s \in Sides : FitPane(panes'[s])
      BY <1>0, <2>2, <2>3, ReloadFits
    <2> QED
      BY <1>4, <2>4 DEF FirstListing, BrowserFits, Sides
  <1>5. CASE Back
    <2>1. lastDir' \in [Sides -> Paths \cup {Unset}]
      BY <1>0, <1>5 DEF Back, FitPane, PaneSet
    <2> QED
      BY <1>5, <2>1, RootIsPath DEF Back, BrowserFits, Sides
  <1>6. CASE Login \/ FallBack \/ Opendir \/ Readdir \/ Closedir
    BY <1>6, SameBrowser DEF Login, FallBack, Opendir, Readdir, Closedir
  <1>7. CASE \/ VisitLocalDir \/ VisitRemoteDir \/ VisitLink \/ VisitFile \/ Sized
             \/ ExistsAnswered \/ PlanDone \/ AllDecided \/ Decide \/ Transfer
    BY <1>7, SameBrowser
       DEF VisitLocalDir, VisitRemoteDir, VisitLink, VisitFile, Sized, ExistsAnswered, PlanDone,
           AllDecided, Decide, Transfer
  <1>8. CASE \/ ItemSkipped \/ RunDone \/ EnsureDir \/ DirStat \/ Mkdir \/ CleanedUp
             \/ StartFile \/ Created \/ Written \/ Opened \/ ReadDone \/ CancelClosed
             \/ Closed \/ Removed \/ Renamed
    BY <1>8, SameBrowser
       DEF ItemSkipped, RunDone, EnsureDir, DirStat, Mkdir, CleanedUp, StartFile, Created,
           Written, Opened, ReadDone, CancelClosed, Closed, Removed, Renamed
  <1>9. CASE EnvStep \/ OpenFiles \/ Rest \/ UNCHANGED vars
    BY <1>9, SameBrowser
       DEF EnvStep, ServerStep, ReplyRead, LimitHit, ConnectionLost, RequestLost, Others, OpenFiles,
           Rest, vars
  <1> QED
    BY <1>1, <1>2, <1>3, <1>4, <1>5, <1>6, <1>7, <1>8, <1>9 DEF Next, KeyStep, FlowStep

---------------------------------------------------------------------------
\* What the client got

LEMMA EffectSays ==
    ASSUME NEW d, NEW req, FineReq(req)
    PROVE  /\ Effect(d, req).entries \in {{}, Entries(d.tree, req.path)}
           /\ Effect(d, req).code \in {"ok", "status", "none", "dir", "file", "eof"}
  <1>1. CASE req.op \in {"realpath", "opendir", "readdir", "stat", "mkdir", "create", "write"}
    BY <1>1 DEF Effect, Says, Denied, Does, MakeDir, CreatePart, WritePart
  <1>2. CASE req.op \in {"open", "read", "close", "remove", "discard", "rename"}
    BY <1>2 DEF Effect, Says, Denied, Does, RemoveFile, RemovePart, RenamePart
  <1> QED
    BY <1>1, <1>2 DEF FineReq, Ops

LEMMA AnswersInitially == Init => AnswersNamed
  BY DEF Init, AnswersNamed, Replied, OnceNamed

LEMMA AnswersStep ==
    ASSUME FlowInv, AnswersNamed, [Next]_vars
    PROVE  AnswersNamed'
  <1>0. StreamInv /\ FineDisk /\ FineAsked /\ CallShaped
    BY StreamShapesCall DEF FlowInv, Serving
  <1>1. Steps
    BY <1>0, StepTable DEF FlowInv, Moving, StreamInv, Shaped
  <1>2. ClientStep
    BY EveryStepKeeps DEF Keeps
  <1>3. wire # <<>> => Head(wire) = wire[1] /\ 1 \in DOMAIN wire
    BY <1>0, NumbersAreNumbers DEF StreamInv, Sound, InvOver, Typed
  <1>4. Replied(call'.ans)
    <2>1. CASE Receive
      <3>1. wire # <<>>
        BY <2>1 DEF Receive
      <3>2. call'.ans \in {call.ans, Head(wire).ans}
        BY <1>0, <2>1 DEF Receive, Fail, CallShaped
      <3> QED
        BY <1>3, <3>1, <3>2 DEF AnswersNamed
    <2>2. CASE ~Receive
      <3>1. call'.ans = call.ans
        BY <1>0, <1>2, <2>2
           DEF ClientStep, Sends, Issue, Answers, Serve, Open, TimeOut, Fail, ReadTorn, Lose, ReadClosed,
               Drop, Abandon, client, CallShaped
      <3> QED
        BY <3>1 DEF AnswersNamed
    <2> QED
      BY <2>1, <2>2
  <1>5. \A i \in DOMAIN wire' : Replied(wire'[i].ans)
    <2>1. CASE ~Waits
      <3>1. wire' = wire \/ wire' = <<>>
        BY <1>0, <1>1, <2>1, FlowMoves DEF FlowMove, Sent, client
      <3> QED
        BY <3>1 DEF AnswersNamed
    <2>2. CASE ServerStep
      <3>1. PICK e \in asked : \E effect : ServedWith(e, effect)
        BY <1>0, <2>2, ServerFacts
      <3>2. PICK effect : ServedWith(e, effect)
        BY <3>1
      <3> DEFINE reply == [no |-> e.no, id |-> e.id, ans |-> [code |-> effect.code, entries |-> effect.entries]]
      <3>3. wire' = wire \/ wire' = Append(wire, reply)
        BY <3>2 DEF ServedWith, Serve
      <3>4. OnceNamed({}) /\ OnceNamed(Entries(disk["remote"].tree, e.req.path))
        BY <1>0, EntriesOnce DEF OnceNamed, FineDisk, GoodSide, Sides
      <3>5. effect.entries = {} \/ effect.entries = Entries(disk["remote"].tree, e.req.path)
        BY <3>2, EffectSays DEF ServedWith
      <3> HIDE DEF reply
      <3>6. Replied(reply.ans)
        BY <3>4, <3>5 DEF reply, Replied
      <3> QED
        BY <1>0, <3>3, <3>6, NumbersAreNumbers DEF AnswersNamed
    <2>3. CASE Waits /\ ~ServerStep
      <3>1. wire' \in {wire, <<>>} \/ (wire' = Tail(wire) /\ wire # <<>>)
        BY <2>3 DEF Waits, Receive, TimeOut, ReadTorn, ReadClosed, Lose, Abandon, client
      <3>2. CASE wire' = Tail(wire) /\ wire # <<>>
        <4>1. PICK R, A : InvOver(R, A)
          BY <1>0 DEF StreamInv, Sound
        <4>2. wire \in Seq(ReplyOver(A))
          BY <4>1 DEF InvOver, Typed
        <4>3. \A i \in DOMAIN Tail(wire) : i + 1 \in DOMAIN wire /\ Tail(wire)[i] = wire[i + 1]
          BY <3>2, <4>2
        <4> QED
          BY <3>2, <4>3 DEF AnswersNamed
      <3> QED
        BY <3>1, <3>2 DEF AnswersNamed
    <2> QED
      BY <2>1, <2>2, <2>3
  <1> QED
    BY <1>4, <1>5 DEF AnswersNamed
---------------------------------------------------------------------------
\* What is still to be planned, and what is planned: no destination twice, and a
\* directory before what is in it.

Tasks == [src : Paths, kind : {"dir", "link", "file"}, dst : Paths, top : BOOLEAN]
Items == [src : Paths, dst : Paths, dir : BOOLEAN, exists : BOOLEAN, skip : BOOLEAN]

InOrder(plan) == \A i, j \in DOMAIN plan : Above(plan[j].dst, plan[i].dst) => j <= i
Spread(todo) == \A i, j \in DOMAIN todo : Above(todo[i].dst, todo[j].dst) => i = j
Untouched(todo, plan) ==
    \A i \in DOMAIN plan, j \in DOMAIN todo : ~Above(todo[j].dst, plan[i].dst)

Visiting == pc \in {"visit", "size", "exists"} \/ (pc \in ListPcs /\ lister.then = "walk")
TodoFits ==
    Visiting => /\ job.todo \in Seq(Tasks) /\ (pc # "visit" => job.todo # <<>>)
                /\ Spread(job.todo) /\ Untouched(job.todo, job.plan)
PlanFits == job.plan \in Seq(Items) /\ InOrder(job.plan)

LEMMA HavePaths ==
    /\ \A t \in Tasks : t.src \in Paths /\ t.dst \in Paths
    /\ \A item \in Items : item.src \in Paths /\ item.dst \in Paths
  BY DEF Tasks, Items

LEMMA ItemFits ==
    ASSUME NEW t \in Tasks, NEW exists \in BOOLEAN
    PROVE  Item(t, exists) \in Items /\ Item(t, exists).dst = t.dst
  BY DEF Item, Items, Tasks

LEMMA HeadAndTail ==
    ASSUME NEW todo \in Seq(Tasks), todo # <<>>
    PROVE  /\ Head(todo) \in Tasks /\ Head(todo) = todo[1] /\ 1 \in DOMAIN todo
           /\ Tail(todo) \in Seq(Tasks)
           /\ \A j \in DOMAIN Tail(todo) : j + 1 \in DOMAIN todo /\ Tail(todo)[j] = todo[j + 1] /\ j \in Nat \ {0}
           /\ \A j \in DOMAIN todo : j \in Nat \ {0}
  OBVIOUS

\* The next one is planned.
LEMMA Pushed ==
    ASSUME NEW todo \in Seq(Tasks), todo # <<>>, NEW plan \in Seq(Items),
           NEW item \in Items, item.dst = Head(todo).dst,
           InOrder(plan), Spread(todo), Untouched(todo, plan)
    PROVE  /\ Append(plan, item) \in Seq(Items) /\ InOrder(Append(plan, item))
           /\ Tail(todo) \in Seq(Tasks) /\ Spread(Tail(todo))
           /\ Untouched(Tail(todo), Append(plan, item))
  <1> DEFINE new == Append(plan, item)
             n == Len(plan) + 1
  <1>1. /\ new \in Seq(Items) /\ DOMAIN new = DOMAIN plan \cup {n} /\ n \in Nat
        /\ new[n] = item
        /\ \A i \in DOMAIN plan : new[i] = plan[i] /\ i \in Nat /\ i <= n
    OBVIOUS
  <1>2. /\ Head(todo) = todo[1] /\ 1 \in DOMAIN todo /\ Tail(todo) \in Seq(Tasks)
        /\ \A j \in DOMAIN Tail(todo) : /\ j + 1 \in DOMAIN todo /\ Tail(todo)[j] = todo[j + 1]
                                        /\ j \in Nat \ {0}
    BY HeadAndTail
  <1> HIDE DEF new, n
  <1>3. InOrder(new)
    <2>1. ASSUME NEW i \in DOMAIN new, NEW j \in DOMAIN new, Above(new[j].dst, new[i].dst)
          PROVE  j <= i
      <3>1. CASE j = n /\ i # n
        BY <1>1, <1>2, <2>1, <3>1 DEF Untouched
      <3>2. CASE j # n \/ i = n
        BY <1>1, <2>1, <3>2 DEF InOrder
      <3> QED
        BY <3>1, <3>2
    <2> QED
      BY <2>1 DEF InOrder
  <1>4. Spread(Tail(todo))
    BY <1>2 DEF Spread
  <1>5. Untouched(Tail(todo), new)
    <2>1. ASSUME NEW i \in DOMAIN new, NEW j \in DOMAIN Tail(todo),
                 Above(Tail(todo)[j].dst, new[i].dst)
          PROVE  FALSE
      <3>1. CASE i = n
        <4>1. Above(todo[j + 1].dst, todo[1].dst) /\ j + 1 # 1
          BY <1>1, <1>2, <2>1, <3>1
        <4> QED
          BY <1>2, <4>1 DEF Spread
      <3>2. CASE i # n
        BY <1>1, <1>2, <2>1, <3>2 DEF Untouched
      <3> QED
        BY <3>1, <3>2
    <2> QED
      BY <2>1 DEF Untouched
  <1> QED
    BY <1>1, <1>2, <1>3, <1>4, <1>5 DEF new

\* What is in the directory that was planned takes its place.
LEMMA Expanded ==
    ASSUME NEW todo \in Seq(Tasks), todo # <<>>, NEW plan \in Seq(Items),
           NEW item \in Items, item.dst = Head(todo).dst,
           InOrder(plan), Spread(todo), Untouched(todo, plan),
           NEW rows \in Seq(Tasks),
           \A i \in DOMAIN rows : \E n \in NameSet : rows[i].dst = Append(Head(todo).dst, n),
           \A i, j \in DOMAIN rows : rows[i].dst = rows[j].dst => i = j
    PROVE  /\ rows \o Tail(todo) \in Seq(Tasks) /\ Spread(rows \o Tail(todo))
           /\ Untouched(rows \o Tail(todo), Append(plan, item))
  <1> DEFINE top == Head(todo).dst
             rest == Tail(todo)
             new == rows \o rest
             grown == Append(plan, item)
             m == Len(rows)
  <1>1. /\ grown \in Seq(Items) /\ rest \in Seq(Tasks) /\ Spread(rest) /\ Untouched(rest, grown)
    BY Pushed
  <1>2. /\ new \in Seq(Tasks) /\ m \in Nat /\ DOMAIN rows = 1..m
        /\ \A i \in DOMAIN new : i \in Nat \ {0}
        /\ \A i \in DOMAIN new : i <= m => i \in DOMAIN rows /\ new[i] = rows[i]
        /\ \A i \in DOMAIN new : ~(i <= m) => i - m \in DOMAIN rest /\ new[i] = rest[i - m]
    BY <1>1
  <1>3. /\ Head(todo) \in Tasks /\ Head(todo) = todo[1] /\ 1 \in DOMAIN todo
        /\ \A j \in DOMAIN rest : j + 1 \in DOMAIN todo /\ rest[j] = todo[j + 1] /\ j \in Nat \ {0}
    BY HeadAndTail
  <1>4. top \in Paths /\ \A j \in DOMAIN rest : rest[j].dst \in Paths
    <2>1. \A j \in DOMAIN rest : rest[j] \in Tasks
      BY <1>1
    <2> QED
      BY <1>3, <2>1, HavePaths
  <1>5. \A j \in DOMAIN rest : ~Above(top, rest[j].dst) /\ ~Above(rest[j].dst, top)
    <2>1. ASSUME NEW j \in DOMAIN rest PROVE ~Above(top, rest[j].dst) /\ ~Above(rest[j].dst, top)
      <3>1. j + 1 \in DOMAIN todo /\ rest[j] = todo[j + 1] /\ j + 1 # 1
        BY <1>3
      <3> QED
        BY <1>3, <3>1 DEF Spread
    <2> QED
      BY <2>1
  <1>6. \A i \in DOMAIN grown : grown[i].dst \in Paths /\ (Above(top, grown[i].dst) => grown[i].dst = top)
    <2>1. ASSUME NEW i \in DOMAIN grown PROVE grown[i].dst \in Paths /\ (Above(top, grown[i].dst) => grown[i].dst = top)
      <3>1. grown[i] \in Items /\ grown[i].dst \in Paths
        <4>1. grown[i] \in Items
          BY <1>1
        <4> QED
          BY <4>1, HavePaths
      <3>2. (i \in DOMAIN plan /\ grown[i] = plan[i]) \/ grown[i] = item
        OBVIOUS
      <3>3. ASSUME i \in DOMAIN plan, grown[i] = plan[i] PROVE ~Above(top, grown[i].dst)
        BY <1>3, <3>3 DEF Untouched
      <3> HIDE DEF grown
      <3> QED
        BY <3>1, <3>2, <3>3
    <2> QED
      BY <2>1
  <1> HIDE DEF top, rest, new, grown, m
  <1>8. ASSUME NEW i \in DOMAIN rows
        PROVE  /\ \A j \in DOMAIN rest : ~Above(rows[i].dst, rest[j].dst) /\ ~Above(rest[j].dst, rows[i].dst)
               /\ \A j \in DOMAIN rows : Above(rows[i].dst, rows[j].dst) => i = j
               /\ \A j \in DOMAIN grown : ~Above(rows[i].dst, grown[j].dst)
    <2>1. PICK n \in NameSet : rows[i].dst = Append(top, n)
      BY DEF top
    <2>2. ASSUME NEW j \in DOMAIN rest
          PROVE  ~Above(rows[i].dst, rest[j].dst) /\ ~Above(rest[j].dst, rows[i].dst)
      <3>1. rest[j].dst = Append(top, n) => Above(Append(top, n), rest[j].dst)
        BY <1>4, AboveItself
      <3> QED
        BY <1>4, <1>5, <2>1, <3>1, BelowChild
    <2>3. ASSUME NEW j \in DOMAIN rows, Above(rows[i].dst, rows[j].dst) PROVE i = j
      <3>1. PICK k \in NameSet : rows[j].dst = Append(top, k)
        BY DEF top
      <3>2. n = k
        BY <1>4, <2>1, <2>3, <3>1, Siblings
      <3> QED
        BY <2>1, <3>1, <3>2
    <2>4. ASSUME NEW j \in DOMAIN grown PROVE ~Above(rows[i].dst, grown[j].dst)
      BY <1>4, <1>6, <2>1, BelowChild
    <2> QED
      BY <2>2, <2>3, <2>4
  <1>9. Spread(new)
    <2>1. ASSUME NEW i \in DOMAIN new, NEW j \in DOMAIN new, Above(new[i].dst, new[j].dst) PROVE i = j
      <3>1. CASE i <= m /\ j <= m
        BY <1>2, <1>8, <2>1, <3>1
      <3>2. CASE i <= m /\ ~(j <= m)
        BY <1>2, <1>8, <2>1, <3>2
      <3>3. CASE ~(i <= m) /\ j <= m
        BY <1>2, <1>8, <2>1, <3>3
      <3>4. CASE ~(i <= m) /\ ~(j <= m)
        <4>1. i - m = j - m
          BY <1>1, <1>2, <2>1, <3>4 DEF Spread
        <4> QED
          BY <1>2, <4>1
      <3> QED
        BY <3>1, <3>2, <3>3, <3>4
    <2> QED
      BY <2>1 DEF Spread
  <1>10. Untouched(new, grown)
    <2>1. ASSUME NEW i \in DOMAIN grown, NEW j \in DOMAIN new PROVE ~Above(new[j].dst, grown[i].dst)
      <3>1. CASE j <= m
        BY <1>2, <1>8, <3>1
      <3>2. CASE ~(j <= m)
        BY <1>1, <1>2, <3>2 DEF Untouched
      <3> QED
        BY <3>1, <3>2
    <2> QED
      BY <2>1 DEF Untouched
  <1> QED
    BY <1>2, <1>9, <1>10 DEF new, rest, grown

LEMMA ChildTasks ==
    ASSUME NEW S, OnceNamed(S), Todo \in Tasks
    PROVE  /\ Children(S) \in Seq(Tasks)
           /\ \A i \in DOMAIN Children(S) : \E n \in NameSet : Children(S)[i].dst = Append(Todo.dst, n)
           /\ \A i, j \in DOMAIN Children(S) : Children(S)[i].dst = Children(S)[j].dst => i = j
  <1> DEFINE key == [e \in S |-> IF e.kind = "dir" THEN Len(Names) + Len(Names) - Pos(e.name) ELSE Pos(e.name)]
             rows == Ranked(S, key)
             task(e) == [src |-> Append(Todo.src, e.name), dst |-> Append(Todo.dst, e.name), top |-> FALSE,
                         kind |-> IF e.kind \in {"dir", "link"} THEN e.kind ELSE "file"]
  <1>1. \A e \in S : /\ e.name \in NameSet /\ Pos(e.name) \in 1..Len(Names)
                     /\ Names[Pos(e.name)] = e.name
    BY Positions DEF OnceNamed, EntrySet
  <1>2. key \in [S -> Nat]
    BY <1>1, Positions
  <1>3. ASSUME NEW e \in S, NEW f \in S, key[e] = key[f] PROVE e.name = f.name
    <2>1. Pos(e.name) = Pos(f.name)
      BY <1>1, <1>3, Positions
    <2> QED
      BY <1>1, <2>1
  <1> HIDE DEF key
  <1>4. RowsOnce(rows) /\ rows \in Seq(S)
    BY <1>2, <1>3, RowsByKey
  <1> HIDE DEF rows
  <1>5. Children(S) = [i \in DOMAIN rows |-> task(rows[i])]
    BY DEF Children, rows, key
  <1>6. Todo.src \in Paths /\ Todo.dst \in Paths
    BY HavePaths
  <1>7. ASSUME NEW e \in S
        PROVE  task(e) \in Tasks /\ task(e).dst = Append(Todo.dst, e.name) /\ e.name \in NameSet
    BY <1>1, <1>6, LongerPath DEF Tasks
  <1> HIDE DEF task
  <1>8. DOMAIN rows = 1..Len(rows) /\ Len(rows) \in Nat /\ \A i \in DOMAIN rows : rows[i] \in S
    BY <1>4
  <1>9. Children(S) \in Seq(Tasks) /\ DOMAIN Children(S) = DOMAIN rows
    <2>1. Children(S) \in [1..Len(rows) -> Tasks]
      BY <1>5, <1>7, <1>8
    <2> QED
      BY <1>8, <2>1
  <1>10. \A i \in DOMAIN rows : /\ Children(S)[i].dst = Append(Todo.dst, rows[i].name)
                                /\ rows[i].name \in NameSet
    BY <1>5, <1>7, <1>8
  <1>11. ASSUME NEW i \in DOMAIN rows, NEW j \in DOMAIN rows,
                Children(S)[i].dst = Children(S)[j].dst
         PROVE  i = j
    <2>1. rows[i].name = rows[j].name
      <3>1. \A n \in NameSet : Append(Todo.dst, n)[Len(Todo.dst) + 1] = n
        BY <1>6, LongerPath
      <3>2. Append(Todo.dst, rows[i].name) = Append(Todo.dst, rows[j].name)
        BY <1>10, <1>11
      <3> QED
        BY <1>10, <3>1, <3>2
    <2> QED
      BY <1>4, <2>1 DEF RowsOnce
  <1> QED
    BY <1>9, <1>10, <1>11

\* A step of the plan takes the next thing to do, and puts what is in it.
Takes ==
    /\ job.todo # <<>>
    /\ \E exists \in BOOLEAN : job'.plan = Append(job.plan, Item(Todo, exists))
    /\ \/ job'.todo = Tail(job.todo)
       \/ Todo.kind = "dir" /\ \E S : OnceNamed(S) /\ job'.todo = Children(S) \o Tail(job.todo)

LEMMA TakesOne ==
    ASSUME JobShaped, job.todo # <<>>, NEW exists \in BOOLEAN, NEW S, OnceNamed(S)
    PROVE  /\ job' = Planned(exists) => Takes
           /\ job' = Walked(S) /\ Todo.kind = "dir" => Takes
           /\ PushFile(exists) => Takes
  <1>1. /\ Planned(exists).plan = Append(job.plan, Item(Todo, exists))
        /\ Planned(exists).todo = Tail(job.todo)
        /\ Walked(S).plan = Append(job.plan, Item(Todo, FALSE))
        /\ Walked(S).todo = Children(S) \o Tail(job.todo)
    BY DEF Planned, Walked, JobShaped, JobFields
  <1>2. PushFile(exists) => job'.plan = Planned(exists).plan /\ job'.todo = Planned(exists).todo
    BY DEF PushFile, OrCancel, Cancel, Finish, Planned, JobShaped, JobFields
  <1> QED
    BY <1>1, <1>2 DEF Takes

LEMMA VisitTable ==
    ASSUME FlowInv, ListerFits, AnswersNamed, TodoFits,
           VisitLocalDir \/ VisitRemoteDir \/ VisitLink \/ VisitFile \/ Sized \/ ExistsAnswered
    PROVE  Takes \/ UNCHANGED job
  <1>0. /\ JobShaped /\ GoodTree(disk["local"].tree)
        /\ pc \in {"size", "exists"} \/ (pc = "listed" /\ lister.then = "walk") => job.todo # <<>>
        /\ pc = "listed" /\ lister.then = "walk" => Todo.kind = "dir"
        /\ OnceNamed({})
    BY DEF FlowInv, Moving, Serving, FineDisk, GoodSide, Sides, TodoFits, Visiting, ListPcs, Direction, OnceNamed
  <1>1. CASE VisitLocalDir
    <2>1. PICK S : job' = Walked(S) /\ OnceNamed(S)
      BY <1>0, <1>1, EntriesOnce DEF VisitLocalDir
    <2> QED
      BY <1>0, <1>1, <2>1, TakesOne DEF VisitLocalDir
  <1>2. CASE VisitRemoteDir
    BY <1>0, <1>2, TakesOne DEF VisitRemoteDir, ListerFits
  <1>3. CASE VisitLink
    BY <1>0, <1>3, TakesOne DEF VisitLink
  <1>4. CASE VisitFile
    <2>1. ThereLocally \in BOOLEAN
      BY DEF ThereLocally
    <2> QED
      BY <1>0, <1>4, <2>1, TakesOne DEF VisitFile
  <1>5. CASE Sized \/ ExistsAnswered
    <2>1. ThereLocally \in BOOLEAN /\ Got({"dir", "file"}) \in BOOLEAN
      BY DEF ThereLocally, Got
    <2> QED
      BY <1>0, <1>5, <2>1, TakesOne DEF Sized, ExistsAnswered
  <1> QED
    BY <1>1, <1>2, <1>3, <1>4, <1>5

LEMMA TakesWell ==
    ASSUME Takes, PlanFits, job.todo \in Seq(Tasks), Spread(job.todo), Untouched(job.todo, job.plan)
    PROVE  /\ PlanFits' /\ job'.todo \in Seq(Tasks)
           /\ Spread(job'.todo) /\ Untouched(job'.todo, job'.plan)
  <1>1. job.todo # <<>> /\ Todo \in Tasks /\ Todo = Head(job.todo)
    BY HeadAndTail DEF Takes, Todo
  <1>2. PICK exists \in BOOLEAN : job'.plan = Append(job.plan, Item(Todo, exists))
    BY DEF Takes
  <1> DEFINE item == Item(Todo, exists)
  <1>3. item \in Items /\ item.dst = Head(job.todo).dst
    BY <1>1, ItemFits
  <1> HIDE DEF item
  <1>4. /\ Append(job.plan, item) \in Seq(Items) /\ InOrder(Append(job.plan, item))
        /\ Tail(job.todo) \in Seq(Tasks) /\ Spread(Tail(job.todo))
        /\ Untouched(Tail(job.todo), Append(job.plan, item))
    BY <1>1, <1>3, Pushed DEF PlanFits
  <1>5. PlanFits'
    BY <1>2, <1>4 DEF item, PlanFits
  <1>6. CASE job'.todo = Tail(job.todo)
    BY <1>2, <1>4, <1>5, <1>6 DEF item
  <1>7. CASE \E S : OnceNamed(S) /\ job'.todo = Children(S) \o Tail(job.todo)
    <2>1. PICK S : OnceNamed(S) /\ job'.todo = Children(S) \o Tail(job.todo)
      BY <1>7
    <2>2. /\ Children(S) \o Tail(job.todo) \in Seq(Tasks) /\ Spread(Children(S) \o Tail(job.todo))
          /\ Untouched(Children(S) \o Tail(job.todo), Append(job.plan, item))
      BY <1>1, <1>3, <2>1, ChildTasks, Expanded DEF PlanFits
    <2> QED
      BY <1>2, <1>5, <2>1, <2>2 DEF item
  <1> QED
    BY <1>6, <1>7 DEF Takes

\* A transfer starts with what is selected.
LEMMA SelectedRows ==
    ASSUME NEW pane, FitPane(pane)
    PROVE  RowsOnce(TransferSelection(pane))
  <1>1. CASE pane.marked # {}
    <2>1. OnceNamed({e \in Range(pane.entries) : e.name \in pane.marked})
      BY DEF FitPane, RowsOnce, OnceNamed, Range
    <2> QED
      BY <1>1, <2>1, SortedRows DEF TransferSelection
  <1>2. CASE pane.marked = {} /\ HasRow(pane)
    <2>1. Row(pane) \in EntrySet
      BY <1>2, RowFits
    <2>2. RowsOnce(<<Row(pane)>>)
      BY <2>1 DEF RowsOnce
    <2> QED
      BY <1>2, <2>2 DEF TransferSelection
  <1>3. CASE pane.marked = {} /\ ~HasRow(pane)
    BY <1>3, NoRows DEF TransferSelection
  <1> QED
    BY <1>1, <1>2, <1>3

LEMMA StartsWell ==
    ASSUME BrowserFits, Transfer
    PROVE  TodoFits' /\ PlanFits'
  <1> DEFINE rows == TransferSelection(Pane)
             todo == [i \in DOMAIN rows |-> Source(rows[i])]
             cwd == panes[Other(focus)].cwd
  <1>1. pc' = "visit" /\ job'.todo = todo /\ job'.plan = <<>>
    BY DEF Transfer, EmptyJob
  <1>2. RowsOnce(rows)
    BY SelectedRows DEF BrowserFits, Pane
  <1>3. Pane.cwd \in Paths /\ cwd \in Paths
    BY DEF BrowserFits, FitPane, PaneSet, Pane, Other, Sides
  <1> HIDE DEF rows, cwd
  <1>4. ASSUME NEW e \in EntrySet
        PROVE  e.name \in NameSet /\ Source(e) \in Tasks /\ Source(e).dst = Append(cwd, e.name)
    BY <1>3, LongerPath DEF EntrySet, Source, Tasks, cwd
  <1>5. DOMAIN rows = 1..Len(rows) /\ Len(rows) \in Nat /\ \A i \in DOMAIN rows : rows[i] \in EntrySet
    BY <1>2 DEF RowsOnce
  <1>6. todo \in Seq(Tasks)
    <2>1. todo \in [1..Len(rows) -> Tasks]
      BY <1>4, <1>5
    <2> QED
      BY <1>5, <2>1
  <1>7. Spread(todo)
    <2>1. ASSUME NEW i \in DOMAIN todo, NEW j \in DOMAIN todo, Above(todo[i].dst, todo[j].dst) PROVE i = j
      <3>1. rows[i].name = rows[j].name
        BY <1>3, <1>4, <1>5, <2>1, Siblings
      <3> QED
        BY <1>2, <3>1 DEF RowsOnce
    <2> QED
      BY <2>1 DEF Spread
  <1> HIDE DEF todo
  <1>8. <<>> \in Seq(Items) /\ DOMAIN <<>> = {}
    OBVIOUS
  <1>9. InOrder(<<>>) /\ Untouched(todo, <<>>)
    BY <1>8 DEF InOrder, Untouched
  <1> QED
    BY <1>1, <1>6, <1>7, <1>8, <1>9 DEF TodoFits, PlanFits

---------------------------------------------------------------------------
\* The names of the browser and of a plan, in every state.

Apart == AnswersNamed /\ ListerFits /\ BrowserFits /\ TodoFits /\ PlanFits

LEMMA ListsPath ==
    ASSUME NEW path \in Paths, NEW then
    PROVE  /\ ListDir(path, then) => ListerFits'
           /\ ListRemote(path) => ListerFits' \/ UNCHANGED lister
  BY DEF ListDir, ListRemote, ListerFits, OnceNamed

LEMMA ListerStep ==
    ASSUME FlowInv, Apart, [Next]_vars
    PROVE  ListerFits'
  <1>0. ListerFits /\ BrowserFits /\ DOMAIN lister = ListFields
    BY DEF Apart, FlowInv, StreamInv, Shaped
  <1>1. UNCHANGED lister => ListerFits'
    BY <1>0 DEF ListerFits
  <1>2. CASE OpenSelected \/ GoUp
    <2>1. PICK cwd \in Paths : Go(cwd)
      BY <1>0, <1>2, GoesSomewhere
    <2> QED
      BY <1>1, <2>1, ListsPath DEF Go, GoLocal
  <1>3. CASE Refresh \/ Finished
    <2>1. panes["remote"].cwd \in Paths
      BY <1>0 DEF BrowserFits, FitPane, PaneSet, Sides
    <2> QED
      BY <1>1, <1>3, <2>1, ListsPath DEF Refresh, Finished
  <1>4. CASE FirstListing
    <2>1. StartDir("remote") \in Paths /\ <<>> \in Paths
      BY <1>0, RootIsPath DEF StartDir, BrowserFits, Sides
    <2> QED
      BY <1>4, <2>1, ListsPath DEF FirstListing
  <1>5. CASE Opendir \/ Readdir \/ Closedir
    <2>1. OnceNamed(call.ans.entries) /\ OnceNamed({})
      BY DEF Apart, AnswersNamed, Replied, OnceNamed
    <2> QED
      BY <1>0, <1>1, <1>5, <2>1 DEF Opendir, Readdir, Closedir, ListerFits, ListFields
  <1>6. CASE ListingShown \/ VisitRemoteDir
    <2>1. NoList.path \in Paths /\ OnceNamed(NoList.entries)
      BY RootIsPath DEF NoList, OnceNamed
    <2>2. VisitRemoteDir /\ pc = "visit" => Todo.src \in Paths
      BY HeadAndTail, HavePaths DEF VisitRemoteDir, Apart, TodoFits, Visiting, Todo
    <2> QED
      BY <1>6, <2>1, <2>2, ListsPath DEF ListingShown, VisitRemoteDir, ListerFits
  <1>7. CASE \/ SwitchPane \/ MoveCursor \/ ToggleMark \/ Transfer \/ Back \/ Decide
             \/ Login \/ FallBack
             \/ VisitLocalDir \/ VisitLink \/ VisitFile \/ Sized
             \/ ExistsAnswered \/ PlanDone \/ AllDecided
    BY <1>1, <1>7
       DEF SwitchPane, MoveCursor, ToggleMark, Transfer, Back, Decide, Login, FallBack,
           VisitLocalDir, VisitLink, VisitFile, Sized, ExistsAnswered, PlanDone, AllDecided
  <1>8. CASE \/ ItemSkipped \/ RunDone \/ EnsureDir \/ DirStat \/ Mkdir \/ CleanedUp
             \/ StartFile \/ Created \/ Written \/ Opened \/ ReadDone \/ CancelClosed
             \/ Closed \/ Removed \/ Renamed
    BY <1>1, <1>8
       DEF ItemSkipped, RunDone, EnsureDir, DirStat, Mkdir, CleanedUp, StartFile, Created,
           Written, Opened, ReadDone, CancelClosed, Closed, Removed, Renamed
  <1>9. CASE EnvStep \/ OpenFiles \/ Rest \/ UNCHANGED vars
    BY <1>1, <1>9
       DEF EnvStep, ServerStep, ReplyRead, LimitHit, ConnectionLost, RequestLost, Others, OpenFiles,
           Rest, vars
  <1> QED
    BY <1>2, <1>3, <1>4, <1>5, <1>6, <1>7, <1>8, <1>9 DEF Next, KeyStep, FlowStep

\* Every step that is not one of the plan's.
PlanAction ==
    \/ VisitLocalDir \/ VisitRemoteDir \/ VisitLink \/ VisitFile \/ Sized
    \/ ExistsAnswered \/ PlanDone \/ AllDecided
OtherSteps ==
    \/ Browses \/ LogsIn \/ Lists \/ Between \/ MakesDir \/ Uploads \/ Downloads
    \/ Replaces \/ Waits \/ OpenFiles \/ Transfer \/ Back \/ Decide

LEMMA OtherTable ==
    ASSUME FlowInv, [Next]_vars, ~PlanAction PROVE OtherSteps
  <1>0. CallShaped /\ JobShaped /\ DOMAIN lister = ListFields
    BY StreamShapesCall DEF FlowInv, StreamInv, Shaped, Moving
  <1>1. CASE OpenFiles \/ Transfer \/ Back \/ Decide
    BY <1>1 DEF OtherSteps
  <1>2. CASE SwitchPane \/ MoveCursor \/ ToggleMark \/ OpenSelected \/ GoUp \/ Refresh \/ Finished
    BY <1>0, <1>2, BrowseTable DEF OtherSteps
  <1>3. CASE Login \/ FallBack \/ FirstListing
    BY <1>0, <1>3, LoginTable DEF OtherSteps
  <1>4. CASE Opendir \/ Readdir \/ Closedir \/ ListingShown
    BY <1>0, <1>4, ListTable DEF OtherSteps
  <1>5. CASE ItemSkipped \/ RunDone \/ EnsureDir \/ StartFile
    BY <1>0, <1>5, BetweenTable DEF OtherSteps
  <1>6. CASE DirStat \/ Mkdir \/ CleanedUp
    BY <1>0, <1>6, DirTable DEF OtherSteps
  <1>7. CASE Created \/ Written
    BY <1>0, <1>7, UploadTable DEF OtherSteps
  <1>8. CASE Opened \/ ReadDone \/ CancelClosed
    BY <1>0, <1>8, DownloadTable DEF OtherSteps
  <1>9. CASE Closed \/ Removed \/ Renamed
    BY <1>0, <1>9, ReplaceTable DEF OtherSteps
  <1>10. CASE EnvStep \/ Rest \/ UNCHANGED vars
    BY <1>10, WaitTable DEF OtherSteps
  <1> QED
    BY <1>1, <1>2, <1>3, <1>4, <1>5, <1>6, <1>7, <1>8, <1>9, <1>10
    DEF Next, KeyStep, FlowStep, PlanAction

\* Most of them keep the plan, and none but these leads into another walk.
LEMMA OthersKeepPlan ==
    ASSUME OtherSteps, ~Transfer, ~Back, ~Decide
    PROVE  /\ job'.plan = job.plan
           /\ Visiting' => Visiting /\ UNCHANGED job /\ (pc' # "visit" => pc # "visit")
  <1>1. CASE Browses \/ LogsIn \/ Lists \/ OpenFiles \/ Waits
    BY <1>1 DEF Browses, LogsIn, Lists, NoList, OpenFiles, Waits, Visiting, ListPcs
  <1>2. CASE Between \/ MakesDir \/ Replaces
    BY <1>2 DEF Between, StartsFile, Cleans, MakesDir, Replaces, Leaves, Counts, Advances, Stays, SamePlan,
                Visiting, ListPcs
  <1>3. CASE Uploads \/ Downloads
    BY <1>3 DEF Uploads, Downloads, Cleans, Leaves, Advances, Stays, SamePlan, Visiting, ListPcs
  <1> QED
    BY <1>1, <1>2, <1>3 DEF OtherSteps

LEMMA RowsAreSeq == ASSUME NEW S, NEW n \in Nat, NEW rows \in [1..n -> S] PROVE rows \in Seq(S)
  OBVIOUS

LEMMA SkipKeepsOrder ==
    ASSUME PlanFits, NEW i, job'.plan = [job.plan EXCEPT ![i].skip = TRUE]
    PROVE  PlanFits'
  <1>1. job'.plan \in Seq(Items)
    <2>1. DOMAIN job.plan = 1..Len(job.plan) /\ Len(job.plan) \in Nat
      BY DEF PlanFits
    <2>2. ASSUME NEW k \in DOMAIN job.plan PROVE job'.plan[k] \in Items
      <3>1. job.plan[k] \in Items
        BY DEF PlanFits
      <3>2. job'.plan[k] = IF k = i THEN [job.plan[k] EXCEPT !.skip = TRUE] ELSE job.plan[k]
        OBVIOUS
      <3> QED
        BY <3>1, <3>2 DEF Items
    <2>3. job'.plan = [k \in 1..Len(job.plan) |-> job'.plan[k]]
      BY <2>1
    <2>4. job'.plan \in [1..Len(job.plan) -> Items]
      BY <2>1, <2>2, <2>3
    <2> QED
      BY <2>1, <2>4, RowsAreSeq
  <1>2. DOMAIN job'.plan = DOMAIN job.plan /\ \A k \in DOMAIN job.plan : job'.plan[k].dst = job.plan[k].dst
    <2>1. ASSUME NEW k \in DOMAIN job.plan PROVE job.plan[k] \in Items
      BY DEF PlanFits
    <2> QED
      BY <2>1 DEF Items
  <1> QED
    BY <1>1, <1>2 DEF PlanFits, InOrder

LEMMA PlanningStep ==
    ASSUME FlowInv, Apart, [Next]_vars
    PROVE  TodoFits' /\ PlanFits'
  <1>0. TodoFits /\ PlanFits /\ BrowserFits /\ ListerFits /\ AnswersNamed /\ CallShaped /\ JobShaped
    BY StreamShapesCall DEF Apart, FlowInv, Moving
  <1>1. UNCHANGED job => PlanFits'
    BY <1>0 DEF PlanFits
  <1>2. CASE PlanDone \/ AllDecided
    <2>1. job'.plan = job.plan /\ pc' \in {"ask", "item"}
      BY <1>0, <1>2 DEF PlanDone, AllDecided, JobShaped, JobFields
    <2> QED
      BY <1>0, <2>1 DEF TodoFits, PlanFits, Visiting, ListPcs
  <1>3. CASE PlanAction /\ ~(PlanDone \/ AllDecided)
    <2>1. Takes \/ UNCHANGED job
      BY <1>0, <1>3, VisitTable DEF PlanAction
    <2>2. Visiting /\ (UNCHANGED job => job.todo # <<>>)
      <3>1. CASE VisitLocalDir \/ VisitLink \/ VisitFile
        BY <3>1 DEF VisitLocalDir, VisitLink, VisitFile, Visiting
      <3>2. CASE VisitRemoteDir
        BY <1>0, <3>2 DEF VisitRemoteDir, Visiting, ListPcs, TodoFits
      <3>3. CASE Sized \/ ExistsAnswered
        BY <1>0, <3>3 DEF Sized, ExistsAnswered, Visiting, TodoFits
      <3> QED
        BY <1>3, <3>1, <3>2, <3>3 DEF PlanAction
    <2>3. CASE Takes
      <3>1. /\ PlanFits' /\ job'.todo \in Seq(Tasks)
            /\ Spread(job'.todo) /\ Untouched(job'.todo, job'.plan)
        BY <1>0, <2>2, <2>3, TakesWell DEF TodoFits
      <3>2. pc' \in {"visit", "finish"} \/ job'.plan = job.plan
        BY <1>0, <1>3, PlanTable DEF PlanAction, Plans
      <3>3. job'.plan # job.plan
        <4>1. PICK item : job'.plan = Append(job.plan, item)
          BY <2>3 DEF Takes
        <4>2. job.plan \in Seq(Items)
          BY <1>0 DEF PlanFits
        <4>3. Len(Append(job.plan, item)) = Len(job.plan) + 1 /\ Len(job.plan) \in Nat
          BY <4>2
        <4> QED
          BY <4>1, <4>3
      <3> QED
        BY <3>1, <3>2, <3>3 DEF TodoFits, Visiting, ListPcs
    <2>4. CASE UNCHANGED job
      BY <1>0, <1>1, <2>2, <2>4 DEF TodoFits
    <2> QED
      BY <2>1, <2>3, <2>4
  <1>4. CASE ~PlanAction
    <2>1. OtherSteps
      BY <1>4, OtherTable
    <2>2. CASE Transfer
      BY <1>0, <2>2, StartsWell
    <2>3. CASE Back
      <3>1. job'.plan = <<>> /\ pc' = "menu"
        BY <2>3 DEF Back, EmptyJob
      <3>2. <<>> \in Seq(Items) /\ InOrder(<<>>)
        BY DEF InOrder
      <3> QED
        BY <3>1, <3>2 DEF PlanFits, TodoFits, Visiting, ListPcs
    <2>4. CASE Decide
      <3>1. Decides
        BY <2>4, DecideTable DEF FlowInv, Moving
      <3>2. ~Visiting'
        BY <3>1 DEF Decides, Visiting, ListPcs
      <3>3. PlanFits'
        BY <1>0, <3>1, SkipKeepsOrder DEF Decides, SamePlan, PlanFits
      <3> QED
        BY <3>2, <3>3 DEF TodoFits
    <2>5. CASE ~Transfer /\ ~Back /\ ~Decide
      <3>1. job'.plan = job.plan /\ (Visiting' => Visiting /\ UNCHANGED job /\ (pc' # "visit" => pc # "visit"))
        BY <2>1, <2>5, OthersKeepPlan
      <3> QED
        BY <1>0, <3>1 DEF TodoFits, PlanFits
    <2> QED
      BY <2>2, <2>3, <2>4, <2>5
  <1> QED
    BY <1>2, <1>3, <1>4

LEMMA ApartInitially == Init => Apart
  <1> SUFFICES ASSUME Init PROVE Apart
    OBVIOUS
  <1>1. AnswersNamed
    BY AnswersInitially
  <1>2. ListerFits
    BY RootIsPath DEF Init, ListerFits, NoList, OnceNamed
  <1>3. BrowserFits
    BY RootIsPath DEF Init, BrowserFits, Sides
  <1>4. TodoFits
    BY DEF Init, TodoFits, Visiting, ListPcs
  <1>5. PlanFits
    <2>1. <<>> \in Seq(Items) /\ InOrder(<<>>)
      BY DEF InOrder
    <2> QED
      BY <2>1 DEF Init, EmptyJob, PlanFits
  <1> QED
    BY <1>1, <1>2, <1>3, <1>4, <1>5 DEF Apart

LEMMA ApartStep == FlowInv /\ Apart /\ [Next]_vars => Apart'
  <1> SUFFICES ASSUME FlowInv, Apart, [Next]_vars PROVE Apart'
    OBVIOUS
  <1>1. AnswersNamed'
    BY AnswersStep DEF Apart
  <1>2. BrowserFits'
    BY BrowserStep DEF Apart
  <1> QED
    BY <1>1, <1>2, ListerStep, PlanningStep DEF Apart

LEMMA ApartHolds == Spec => []Apart
  BY FlowHolds, ApartInitially, ApartStep, PTL DEF Spec

---------------------------------------------------------------------------
\* What an operation does to one name and to the copy being made for it.

SamePart(d, new, q) == /\ PartAt(new, q) <=> PartAt(d, q)
                       /\ PartAt(d, q) => new.part[q] = d.part[q]
SameParts(d, new) == \A q : SamePart(d, new, q)
SameElsewhere(d, new, path) == \A q : q # path => SamePart(d, new, q) /\ At(new.tree, q) = At(d.tree, q)

LEMMA PutAt ==
    ASSUME NEW f, NEW path, NEW node
    PROVE  /\ DOMAIN Put(f, path, node) = DOMAIN f \cup {path}
           /\ Put(f, path, node)[path] = node
           /\ \A q \in DOMAIN f : q # path => Put(f, path, node)[q] = f[q]
           /\ DOMAIN Del(f, path) = DOMAIN f \ {path}
           /\ \A q \in DOMAIN f : q # path => Del(f, path)[q] = f[q]
  BY DEF Put, Del

LEMMA PutTree ==
    ASSUME NEW tree, NEW path, NEW node, path # <<>>
    PROVE  /\ At(Put(tree, path, node), path) = node
           /\ At(Del(tree, path), path) = "none"
           /\ \A q : q # path => /\ At(Put(tree, path, node), q) = At(tree, q)
                                 /\ At(Del(tree, path), q) = At(tree, q)
  <1> DEFINE put == Put(tree, path, node)
             del == Del(tree, path)
  <1>1. /\ DOMAIN put = DOMAIN tree \cup {path} /\ put[path] = node
        /\ \A q \in DOMAIN tree : q # path => put[q] = tree[q]
        /\ DOMAIN del = DOMAIN tree \ {path}
        /\ \A q \in DOMAIN tree : q # path => del[q] = tree[q]
    BY DEF Put, Del
  <1> HIDE DEF put, del
  <1>2. At(put, path) = node /\ At(del, path) = "none"
    BY <1>1 DEF At
  <1>3. ASSUME NEW q, q # path PROVE At(put, q) = At(tree, q) /\ At(del, q) = At(tree, q)
    BY <1>1, <1>3 DEF At
  <1> QED
    BY <1>2, <1>3 DEF put, del

LEMMA CreateAt ==
    ASSUME NEW d, GoodSide(d), NEW path, NEW ver
    PROVE  LET made == CreatePart(d, path, ver)
           IN /\ made.disk.tree = d.tree /\ SameElsewhere(d, made.disk, path)
              /\ \/ made.code = "status" /\ made.disk = d
                 \/ /\ made.code = "ok" /\ PartAt(made.disk, path)
                    /\ made.disk.part[path].ver = ver /\ made.disk.part[path].got = 0
  <1> DEFINE none == [ver |-> ver, got |-> 0]
             part == Put(d.part, path, none)
             made == CreatePart(d, path, ver)
  <1>1. CASE At(d.tree, Front(path)) # "dir"
    BY <1>1 DEF CreatePart, Denied, SameElsewhere, SamePart
  <1>2. CASE At(d.tree, Front(path)) = "dir"
    <2>1. made.code = "ok" /\ made.disk = [d EXCEPT !.part = part]
      BY <1>2 DEF CreatePart, Does
    <2>2. made.disk.tree = d.tree /\ made.disk.part = part
      BY <2>1 DEF GoodSide
    <2>3. none.ver = ver /\ none.got = 0
      OBVIOUS
    <2> HIDE DEF none
    <2>5. /\ part[path] = none /\ DOMAIN part = DOMAIN d.part \cup {path}
          /\ \A q \in DOMAIN d.part : q # path => part[q] = d.part[q]
      BY DEF Put, Del
    <2> HIDE DEF part, made
    <2>4. SameElsewhere(d, made.disk, path)
      BY <2>2, <2>5 DEF SameElsewhere, SamePart, PartAt
    <2> QED
      BY <2>1, <2>2, <2>3, <2>4, <2>5 DEF made, PartAt
  <1> QED
    BY <1>1, <1>2

LEMMA WriteAt ==
    ASSUME NEW d, GoodSide(d), NEW path, NEW off
    PROVE  LET new == WritePart(d, path, off).disk
           IN /\ WritePart(d, path, off).code = "ok" /\ DOMAIN new.part = DOMAIN d.part
              /\ new.tree = d.tree /\ SameElsewhere(d, new, path)
              /\ PartAt(new, path) <=> PartAt(d, path)
              /\ PartAt(d, path) => /\ new.part[path].ver = d.part[path].ver
                                    /\ new.part[path].got = IF d.part[path].got = off THEN off + 1
                                                            ELSE d.part[path].got
  <1> DEFINE new == WritePart(d, path, off).disk
  <1>0. WritePart(d, path, off).code = "ok"
    BY DEF WritePart, Does
  <1>1. CASE PartAt(d, path) /\ d.part[path].got = off
    <2>1. new = [d EXCEPT !.part[path].got = off + 1]
      BY <1>1 DEF WritePart, Does
    <2>2. DOMAIN d.part[path] = {"ver", "got"} /\ path \in DOMAIN d.part /\ DOMAIN d = {"tree", "part"}
      BY <1>1 DEF GoodSide, GoodPart, PartAt
    <2>3. new.tree = d.tree /\ new.part = [d.part EXCEPT ![path].got = off + 1]
      BY <2>1, <2>2
    <2>4. /\ DOMAIN new.part = DOMAIN d.part /\ \A q \in DOMAIN d.part : q # path => new.part[q] = d.part[q]
          /\ new.part[path].ver = d.part[path].ver /\ new.part[path].got = off + 1
      BY <2>2, <2>3
    <2> HIDE DEF new
    <2> QED
      BY <1>0, <1>1, <2>3, <2>4 DEF new, SameElsewhere, SamePart, PartAt
  <1>2. CASE ~(PartAt(d, path) /\ d.part[path].got = off)
    <2>1. new = d
      BY <1>2 DEF WritePart, Does
    <2> HIDE DEF new
    <2> QED
      BY <1>0, <1>2, <2>1 DEF new, SameElsewhere, SamePart
  <1> QED
    BY <1>1, <1>2

LEMMA DeleteAt ==
    ASSUME NEW d, GoodSide(d), NEW path
    PROVE  /\ RemoveFile(d, path).disk.part = d.part
           /\ SameElsewhere(d, RemoveFile(d, path).disk, path)
  <1> DEFINE tree == Del(d.tree, path)
  <1>1. CASE At(d.tree, path) \in {"none", "dir"}
    BY <1>1 DEF RemoveFile, Denied, SameElsewhere, SamePart
  <1>2. CASE At(d.tree, path) \notin {"none", "dir"}
    <2>1. path # <<>>
      BY <1>2 DEF At
    <2>2. \A q : q # path => At(tree, q) = At(d.tree, q)
      BY <2>1 DEF At, Del
    <2>3. RemoveFile(d, path).disk = [d EXCEPT !.tree = tree]
      BY <1>2 DEF RemoveFile, Does
    <2> HIDE DEF tree
    <2>4. RemoveFile(d, path).disk.part = d.part /\ RemoveFile(d, path).disk.tree = tree
      BY <2>3 DEF GoodSide
    <2> QED
      BY <2>2, <2>4 DEF SameElsewhere, SamePart, PartAt
  <1> QED
    BY <1>1, <1>2

LEMMA DiscardAt ==
    ASSUME NEW d, GoodSide(d), NEW path
    PROVE  LET new == RemovePart(d, path).disk
           IN new.tree = d.tree /\ SameElsewhere(d, new, path) /\ ~PartAt(new, path)
              /\ \A q : PartAt(new, q) => SamePart(d, new, q)
  <1> DEFINE new == RemovePart(d, path).disk
  <1>1. CASE ~PartAt(d, path)
    BY <1>1 DEF RemovePart, Denied, SameElsewhere, SamePart
  <1>2. CASE PartAt(d, path)
    <2>1. new = [d EXCEPT !.part = Del(d.part, path)]
      BY <1>2 DEF RemovePart, Does
    <2>2. new.tree = d.tree /\ new.part = Del(d.part, path)
      BY <2>1 DEF GoodSide
    <2>3. /\ DOMAIN new.part = DOMAIN d.part \ {path}
          /\ \A q \in DOMAIN d.part : q # path => new.part[q] = d.part[q]
      BY <2>2 DEF Del
    <2> HIDE DEF new
    <2> QED
      BY <2>2, <2>3 DEF new, SameElsewhere, SamePart, PartAt
  <1> QED
    BY <1>1, <1>2

Took(d, new, path) ==
    /\ PartAt(d, path) /\ ~PartAt(new, path) /\ SameElsewhere(d, new, path)
    /\ At(new.tree, path) = IF Whole(d, path) THEN d.part[path].ver ELSE "piece"

LEMMA TakesName ==
    ASSUME NEW d, NEW path, PartAt(d, path), path # <<>> PROVE Took(d, Moved(d, path), path)
  <1> DEFINE node == IF Whole(d, path) THEN d.part[path].ver ELSE "piece"
  <1>1. Moved(d, path).tree = Put(d.tree, path, node) /\ Moved(d, path).part = Del(d.part, path)
    BY DEF Moved
  <1>2. At(Moved(d, path).tree, path) = node /\ \A q : q # path => At(Moved(d, path).tree, q) = At(d.tree, q)
    BY <1>1, PutTree
  <1>3. /\ DOMAIN Moved(d, path).part = DOMAIN d.part \ {path}
        /\ \A q \in DOMAIN d.part : q # path => Moved(d, path).part[q] = d.part[q]
    BY <1>1 DEF Del
  <1> QED
    BY <1>2, <1>3 DEF Took, SameElsewhere, SamePart, PartAt

LEMMA RenameAt ==
    ASSUME NEW d, NEW path
    PROVE  /\ \/ RenamePart(d, path).code = "status" /\ RenamePart(d, path).disk = d
              \/ /\ RenamePart(d, path).code = "ok" /\ At(d.tree, path) = "none"
                 /\ Took(d, RenamePart(d, path).disk, path)
           /\ \/ RenameLocal(d, path).code = "status" /\ RenameLocal(d, path).disk = d
              \/ RenameLocal(d, path).code = "ok" /\ Took(d, RenameLocal(d, path).disk, path)
  <1>1. At(d.tree, path) # "dir" => path # <<>>
    BY DEF At
  <1>2. At(d.tree, path) = "none" => path # <<>>
    BY DEF At
  <1> QED
    BY <1>1, <1>2, TakesName DEF RenamePart, RenameLocal, Denied, Does

LEMMA DirsAt ==
    ASSUME NEW d, GoodSide(d), NEW path
    PROVE  SameParts(d, MakeDir(d, path).disk) /\ SameParts(d, MakeDirs(d, path).disk)
  <1>1. \A tree : [d EXCEPT !.tree = tree].part = d.part
    BY DEF GoodSide
  <1> QED
    BY <1>1 DEF MakeDir, MakeDirs, Denied, Does, SameParts, SamePart, PartAt

---------------------------------------------------------------------------
\* The answer the flow has, or will have: the reply to its last request, still
\* on its way or read.

Said(code) ==
    \/ call.st = "answered" /\ call.ans.code = code
    \/ call.st = "waiting" /\ \E i \in DOMAIN wire : wire[i].no = sent /\ wire[i].ans.code = code

LEMMA SaidIsLast ==
    ASSUME StreamInv, Tells, NEW code, Said(code)
    PROVE  asked = {}
  <1>1. CASE call.st = "answered"
    BY <1>1 DEF Tells
  <1>2. CASE call.st = "waiting"
    <2>1. PICK i \in DOMAIN wire : wire[i].no = sent
      BY <1>2 DEF Said
    <2>2. \A e \in asked : wire[i].no < e.no /\ e.no <= sent /\ e.no \in Nat
      BY NumbersAreNumbers DEF StreamInv, InTurn
    <2> QED
      BY <2>1, <2>2, NumbersAreNumbers
  <1> QED
    BY <1>1, <1>2 DEF Said

LEMMA OkIsSaid ==
    /\ Ok => Said("ok") /\ call.st = "answered"
    /\ Got({"eof"}) => Said("eof") /\ call.st = "answered"
  BY DEF Ok, Got, Said

LEMMA SentSaysNothing ==
    ASSUME StreamInv, NEW req, Sent(req)
    PROVE  \A code : ~Said(code)'
  <1>1. /\ call'.st = "waiting" /\ sent' = sent + 1 /\ wire' = wire
        /\ \A i \in DOMAIN wire : wire[i].no <= sent /\ wire[i].no \in Nat
    BY NumbersAreNumbers DEF Sent, StreamInv, InTurn
  <1> QED
    BY <1>1, NumbersAreNumbers DEF Said

\* The server says it by serving the request itself.
LEMMA ServedSaid ==
    ASSUME StreamInv, NEW e \in asked, NEW effect, ServedWith(e, effect), Tells,
           NEW code, Said(code)'
    PROVE  e.no = sent /\ e.req = call.req /\ effect.code = code /\ call.st = "waiting"
  <1> DEFINE r == [no |-> e.no, id |-> e.id, ans |-> [code |-> effect.code, entries |-> effect.entries]]
  <1>1. /\ UNCHANGED <<sent, link, call>>
        /\ wire' = Append(wire, r) \/ wire' = wire
    BY DEF ServedWith, Serve
  <1>2. r.no = e.no /\ r.ans.code = effect.code
    OBVIOUS
  <1> HIDE DEF r
  <1>3. \A i \in DOMAIN wire : wire[i].no < sent
    BY NumbersAreNumbers DEF StreamInv, InTurn
  <1>4. call.st = "waiting"
    BY <1>1 DEF Tells, Said
  <1>5. PICK i \in DOMAIN wire' : wire'[i].no = sent /\ wire'[i].ans.code = code
    BY <1>1, <1>4 DEF Said
  <1>6. i = Len(wire) + 1 /\ wire'[i] = r
    BY <1>1, <1>3, <1>5, NumbersAreNumbers
  <1> QED
    BY <1>2, <1>4, <1>5, <1>6 DEF Tells

\* No other step of the server or of the connection says anything new.
LEMMA WaitSaid ==
    ASSUME StreamInv, StreamInv', Waits, ~ServerStep, NEW code, Said(code)'
    PROVE  Said(code)
  <1>1. CASE Receive
    <2>1. CASE call'.st = "answered"
      <3>1. call.st = "waiting" /\ 1 \in DOMAIN wire /\ wire[1].no = sent /\ call'.ans = wire[1].ans
        BY <1>1, <2>1, AnswerIsOwn
      <3> QED
        BY <2>1, <3>1 DEF Said
    <2>2. CASE call'.st # "answered"
      <3>1. call' = [call EXCEPT !.st = "answered", !.ans = Head(wire).ans, !.got = Head(wire).no]
              => call'.st = "answered"
        BY StreamShapesCall DEF CallShaped
      <3>2. call' = [call EXCEPT !.st = "fatal"]
        BY <1>1, <2>2, <3>1 DEF Receive, Fail
      <3>3. call'.st = "fatal"
        BY <3>2, StreamShapesCall DEF CallShaped
      <3> QED
        BY <3>3 DEF Said
    <2> QED
      BY <2>1, <2>2
  <1>2. CASE TimeOut \/ ReadTorn \/ ReadClosed
    <2>1. call'.st = "fatal"
      BY <1>2, StreamShapesCall DEF TimeOut, ReadTorn, ReadClosed, Fail, CallShaped
    <2> QED
      BY <2>1 DEF Said
  <1>3. CASE Lose \/ Abandon
    <2>1. UNCHANGED <<call, sent>> /\ (wire' = <<>> \/ wire' = wire)
      BY <1>3 DEF Lose, Abandon
    <2> QED
      BY <2>1 DEF Said
  <1>4. CASE UNCHANGED client
    BY <1>4 DEF client, Said
  <1> QED
    BY <1>1, <1>2, <1>3, <1>4 DEF Waits


---------------------------------------------------------------------------
\* What the far end's operation does to the two halves of its disk.

NoNewFile(old, new) == \A q : At(new, q) \in {At(old, q), "dir", "none"}
Serves(d, new, req, code) ==
    /\ \A q : q # req.path => SamePart(d, new, q)
    /\ req.op \notin {"create", "write", "discard", "rename"} => new.part = d.part
    /\ req.op = "create" => \/ code = "status" /\ new = d
                            \/ /\ code = "ok" /\ PartAt(new, req.path)
                               /\ new.part[req.path].ver = req.ver /\ new.part[req.path].got = 0
    /\ req.op = "write" =>
         \/ code = "status" /\ new = d
         \/ /\ code = "ok" /\ DOMAIN new.part = DOMAIN d.part
            /\ PartAt(d, req.path) =>
                 /\ new.part[req.path].ver = d.part[req.path].ver
                 /\ new.part[req.path].got = IF d.part[req.path].got = req.off THEN req.off + 1
                                             ELSE d.part[req.path].got
    /\ req.op = "discard" => \A q : PartAt(new, q) => SamePart(d, new, q)
    /\ req.op = "rename" => \/ code = "status" /\ new = d
                            \/ code = "ok" /\ Took(d, new, req.path)
    /\ \/ Grows(d.tree, new.tree)
       \/ req.op = "remove" /\ GrowsBeside(d.tree, new.tree, req.path)
    /\ req.op # "rename" => NoNewFile(d.tree, new.tree)

LEMMA RefusedServes ==
    ASSUME NEW d, NEW req PROVE Serves(d, d, req, "status")
  BY DEF Serves, SamePart, Grows, NoNewFile

LEMMA TreeOfDir ==
    ASSUME NEW d, GoodSide(d), NEW path
    PROVE  /\ MakeDir(d, path).disk.part = d.part
           /\ NoNewFile(d.tree, MakeDir(d, path).disk.tree)
           /\ NoNewFile(d.tree, RemoveFile(d, path).disk.tree)
  <1>1. \A tree : [d EXCEPT !.tree = tree].part = d.part /\ [d EXCEPT !.tree = tree].tree = tree
    BY DEF GoodSide
  <1>2. \A q, node : At(Put(d.tree, path, node), q) \in {At(d.tree, q), node}
    BY DEF At, Put
  <1>3. \A q : At(Del(d.tree, path), q) \in {At(d.tree, q), "none"}
    BY DEF At, Del
  <1>4. NoNewFile(d.tree, d.tree)
    BY DEF NoNewFile
  <1>5. NoNewFile(d.tree, Put(d.tree, path, "dir")) /\ NoNewFile(d.tree, Del(d.tree, path))
    BY <1>2, <1>3 DEF NoNewFile
  <1> QED
    BY <1>1, <1>4, <1>5 DEF MakeDir, RemoveFile, Denied, Does

LEMMA EffectServes ==
    ASSUME NEW d, GoodSide(d), NEW req, FineReq(req)
    PROVE  Serves(d, Effect(d, req).disk, req, Effect(d, req).code)
  <1> DEFINE new == Effect(d, req).disk
             code == Effect(d, req).code
  <1>0. \/ Grows(d.tree, new.tree)
        \/ req.op = "remove" /\ GrowsBeside(d.tree, new.tree, req.path)
    <2>1. /\ Grows(d.tree, Effect(d, req).disk.tree)
             \/ (req.op = "remove" /\ GrowsBeside(d.tree, Effect(d, req).disk.tree, req.path))
      BY EffectGood
    <2> QED
      BY <2>1
  <1>1. CASE req.op \in {"realpath", "opendir", "readdir", "stat", "open", "read", "close"}
    <2>1. new = d
      BY <1>1, EffectGood DEF Mutating
    <2> HIDE DEF new, code
    <2> QED
      BY <1>0, <1>1, <2>1 DEF Serves, SamePart, NoNewFile, new, code
  <1>2. CASE req.op = "mkdir"
    <2>1. new.part = d.part /\ NoNewFile(d.tree, new.tree)
      <3>1. new = MakeDir(d, req.path).disk
        BY <1>2 DEF Effect
      <3> QED
        BY <3>1, TreeOfDir
    <2> HIDE DEF new, code
    <2> QED
      BY <1>0, <1>2, <2>1 DEF Serves, SamePart, PartAt, new, code
  <1>3. CASE req.op = "create"
    <2>1. new = CreatePart(d, req.path, req.ver).disk /\ code = CreatePart(d, req.path, req.ver).code
      BY <1>3 DEF Effect
    <2>2. /\ SameElsewhere(d, new, req.path) /\ new.tree = d.tree
          /\ \/ code = "status" /\ new = d
             \/ /\ code = "ok" /\ PartAt(new, req.path)
                /\ new.part[req.path].ver = req.ver /\ new.part[req.path].got = 0
      BY <2>1, CreateAt
    <2> HIDE DEF new, code
    <2> QED
      BY <1>0, <1>3, <2>2 DEF Serves, SameElsewhere, NoNewFile, new, code
  <1>4. CASE req.op = "write"
    <2>1. new = WritePart(d, req.path, req.off).disk /\ code = WritePart(d, req.path, req.off).code
      BY <1>4 DEF Effect
    <2>2. /\ SameElsewhere(d, new, req.path) /\ new.tree = d.tree /\ code = "ok" /\ DOMAIN new.part = DOMAIN d.part
          /\ PartAt(d, req.path) =>
               /\ new.part[req.path].ver = d.part[req.path].ver
               /\ new.part[req.path].got = IF d.part[req.path].got = req.off THEN req.off + 1
                                           ELSE d.part[req.path].got
      BY <2>1, WriteAt
    <2> HIDE DEF new, code
    <2> QED
      BY <1>0, <1>4, <2>2 DEF Serves, SameElsewhere, NoNewFile, new, code
  <1>5. CASE req.op = "remove"
    <2>1. new = RemoveFile(d, req.path).disk
      BY <1>5 DEF Effect
    <2>2. new.part = d.part /\ NoNewFile(d.tree, new.tree)
      BY <2>1, DeleteAt, TreeOfDir
    <2> HIDE DEF new, code
    <2> QED
      BY <1>0, <1>5, <2>2 DEF Serves, SamePart, PartAt, new, code
  <1>6. CASE req.op = "discard"
    <2>1. new = RemovePart(d, req.path).disk
      BY <1>6 DEF Effect
    <2>2. /\ new.tree = d.tree /\ SameElsewhere(d, new, req.path)
          /\ \A q : PartAt(new, q) => SamePart(d, new, q)
      BY <2>1, DiscardAt
    <2> HIDE DEF new, code
    <2> QED
      BY <1>0, <1>6, <2>2 DEF Serves, SameElsewhere, NoNewFile, new, code
  <1>7. CASE req.op = "rename"
    <2>1. new = RenamePart(d, req.path).disk /\ code = RenamePart(d, req.path).code
      BY <1>7 DEF Effect
    <2> HIDE DEF new, code
    <2> QED
      BY <1>0, <1>7, <2>1, RenameAt DEF Serves, Took, SameElsewhere, SamePart, new, code
  <1> HIDE DEF new, code
  <1> QED
    BY <1>1, <1>2, <1>3, <1>4, <1>5, <1>6, <1>7 DEF FineReq, Ops, new, code

\* The server's step, as seen from the file it is about.
LEMMA ServesOne ==
    ASSUME FlowInv, NEW e \in asked, NEW effect, ServedWith(e, effect)
    PROVE  /\ Serves(disk["remote"], disk'["remote"], e.req, effect.code)
           /\ disk'["local"] = disk["local"] /\ DOMAIN disk' = Sides
           /\ UNCHANGED <<pc, job, lister, sent, call>>
           /\ asked' = asked \ {e} /\ \A f \in asked' : e.no < f.no /\ f.no \in Nat /\ e.no \in Nat
           /\ effect.code = "ok" => effect = Effect(disk["remote"], e.req)
  <1>1. GoodSide(disk["remote"]) /\ FineReq(e.req)
    BY DEF FlowInv, Serving, FineDisk, Sides, ServedWith
  <1>2. Serves(disk["remote"], effect.disk, e.req, effect.code)
    BY <1>1, RefusedServes, EffectServes DEF ServedWith
  <1>3. asked' = asked \ {e} /\ UNCHANGED <<sent, call>>
    BY DEF ServedWith, Serve
  <1>4. \A f \in asked' : e.no < f.no /\ f.no \in Nat /\ e.no \in Nat
    BY <1>3, NumbersAreNumbers DEF ServedWith, FlowInv, StreamInv, InTurn
  <1> QED
    BY <1>2, <1>3, <1>4 DEF ServedWith


---------------------------------------------------------------------------
\* The copy of one file, step by step.  These parts were checked on MCFiles with
\* two failures before they were proved.

\* No file is renamed before it is whole.
NoPiece ==
    /\ \A s \in Sides :
          /\ \A q \in DOMAIN disk[s].tree : disk[s].tree[q] # "piece"
          /\ \A q \in DOMAIN disk[s].part : disk[s].part[q].ver \in Contents /\ disk[s].part[q].got \in 0..Chunks
    /\ \A e \in asked : e.req.op = "create" => e.req.ver \in Contents

\* The copy of the file the flow is at has n of its chunks.
Src == At(disk[job.side].tree, It.src)
Holding(n) == /\ PartAt(disk[Dest], It.dst)
              /\ disk[Dest].part[It.dst].ver = Src /\ disk[Dest].part[It.dst].got = n

OffIsZero == pc \in {"item", "create", "open", "dirstat", "mkdir"} \/ Walking => job.off = 0

\* To the server: what the request under way finds there, and what its answer
\* will say.
UpStages == Upload =>
    /\ pc = "create" => call.req = CreateReq(It.dst, Src) /\ (Said("ok") => Holding(0))
    /\ pc = "write" => /\ job.off \in Nat /\ job.off < Chunks
                       /\ \A e \in asked : e.no = sent /\ e.req = DataReq("write", It.dst, job.off)
                       /\ asked # {} => Holding(job.off)
                       /\ Said("ok") => Holding(job.off + 1)
    /\ pc = "close" => Holding(Chunks) /\ \A e \in asked : e.no = sent /\ e.req = Req("close", It.dst)
    /\ pc = "remove" => Holding(Chunks) /\ \A e \in asked : e.no = sent /\ e.req = Req("remove", It.dst)
    /\ pc = "rename" => /\ \A e \in asked : e.req \in {Req("remove", It.dst), Req("rename", It.dst)}
                        /\ PartAt(disk[Dest], It.dst) => Holding(Chunks)
                        /\ call.req = Req("rename", It.dst)
                        /\ Said("ok") => /\ At(DestTree, It.dst) = Src /\ Src \in Contents
                                         /\ ~PartAt(disk[Dest], It.dst)

\* From the server: the local side only changes when the flow does it.
Kept(q) == q \in DOMAIN job.before /\ job.before[q] \in Contents => At(DestTree, q) \in Contents
DownStages == ~Upload =>
    /\ Quiet /\ \A q : Kept(q)
    /\ pc = "read" => /\ Holding(job.off) /\ job.off \in 0..Chunks
                      /\ call.req = DataReq("read", It.src, job.off)
                      /\ Said("ok") => job.off < Chunks
                      /\ Said("eof") => job.off = Chunks
    /\ pc = "close" => Holding(Chunks)

\* Requests the server has not served yet, late ones of earlier items among
\* them: what is to be removed or renamed is done with, and what is still to be
\* copied is as it was.
Pend(ops, q) == \E e \in asked : e.req.op \in ops /\ e.req.path = q
Ahead(q) == /\ pc \in Copying
            /\ \E i \in DOMAIN job.plan : /\ i >= job.at /\ job.plan[i].dst = q
                                          /\ ~(i = job.at /\ pc \in {"remove", "rename"})
Settled(e) ==
    /\ e.req.op \in {"remove", "rename"} =>
         /\ ~Ahead(e.req.path) /\ ~Pend({"create", "discard"}, e.req.path)
         /\ PartAt(disk[Dest], e.req.path) => Whole(disk[Dest], e.req.path)
    /\ e.req.op = "remove" =>
         /\ Whole(disk[Dest], e.req.path)
         /\ \A f \in asked : f.req.op = "rename" /\ f.req.path = e.req.path => e.no < f.no
    /\ e.req.op \in {"create", "discard"} => Kept(e.req.path)
    /\ e.req.op = "write" => e.req.off < Chunks
NotLost(q) == (Ahead(q) => Kept(q)) /\ (Kept(q) \/ Whole(disk[Dest], q))
Pending == Upload => (\A e \in asked : Settled(e)) /\ \A q : NotLost(q)

\* A file that was counted is done with.
Done(i) ==
    /\ i \in DOMAIN job.plan /\ ~job.plan[i].dir /\ ~job.plan[i].skip
    /\ pc \in Copying => i < job.at
    /\ At(DestTree, job.plan[i].dst) = At(disk[job.side].tree, job.plan[i].src)
    /\ At(DestTree, job.plan[i].dst) \in Contents
    /\ ~Pend({"remove", "create"}, job.plan[i].dst) /\ ~PartAt(disk[Dest], job.plan[i].dst)
CountedDone == (Walking => job.files = {}) /\ \A i \in job.files : Done(i)

CopyInv == /\ job.side \in Sides /\ NoPiece /\ OffIsZero
           /\ UpStages /\ DownStages /\ Pending /\ CountedDone

LEMMA OneDestination ==
    ASSUME PlanFits, NEW i \in DOMAIN job.plan, NEW j \in DOMAIN job.plan,
           job.plan[i].dst = job.plan[j].dst
    PROVE  i = j
  <1>1. DOMAIN job.plan \subseteq Nat /\ job.plan[i] \in Items /\ job.plan[j] \in Items
    BY DEF PlanFits
  <1>2. job.plan[i].dst \in Paths
    BY <1>1, HavePaths
  <1>3. Above(job.plan[i].dst, job.plan[j].dst) /\ Above(job.plan[j].dst, job.plan[i].dst)
    BY <1>2, AboveItself
  <1>4. i <= j /\ j <= i
    BY <1>3 DEF PlanFits, InOrder
  <1> QED
    BY <1>1, <1>4

LEMMA Places ==
    ASSUME PlanFits PROVE DOMAIN job.plan \subseteq Nat \ {0} /\ DOMAIN job.plan = 1..Len(job.plan)
  BY DEF PlanFits

\* Where the flow and its item are next.
LEMMA NextPlace ==
    ASSUME FlowInv, Steps, ~Plans, ~Decide, ~Transfer, ~Back, pc' \in Copying
    PROVE  /\ pc \in Copying /\ job'.at \in {job.at, job.at + 1} /\ job.at \in Nat \ {0}
           /\ pc \in {"remove", "rename"} => job'.at = job.at + 1 \/ pc' \in {"remove", "rename"}
           /\ job'.at = job.at + 1 => pc' = "item"
  <1>1. pc \in Copying /\ job'.at \in {job.at, job.at + 1}
    BY DEF Steps, Browses, LogsIn, Lists, Between, StartsFile, MakesDir, Uploads, Downloads,
           Replaces, Waits, OpenFiles, Cleans, Leaves, Counts, Advances, Stays, Copying, FilePcs
  <1>2. job.at \in Nat \ {0}
    BY <1>1 DEF FlowInv, Moving, AtFile
  <1>3. CASE Browses \/ LogsIn \/ Lists \/ OpenFiles
    BY <1>1, <1>3 DEF Browses, LogsIn, Lists, OpenFiles, Copying, FilePcs
  <1>4. CASE Between \/ MakesDir \/ Uploads \/ Downloads
    BY <1>1, <1>2, <1>4 DEF Between, StartsFile, MakesDir, Uploads, Downloads, Cleans, Leaves, Advances, Stays,
                            Copying, FilePcs
  <1>5. CASE Replaces
    BY <1>1, <1>2, <1>5 DEF Replaces, Cleans, Leaves, Counts, Advances, Stays, Copying, FilePcs
  <1>6. CASE Waits
    BY <1>1, <1>2, <1>6 DEF Waits
  <1> QED
    BY <1>3, <1>4, <1>5, <1>6 DEF Steps

LEMMA AheadShrinks ==
    ASSUME FlowInv, PlanFits, Steps, ~Plans, ~Decide, ~Transfer, ~Back, NEW q, Ahead(q)'
    PROVE  Ahead(q)
  <1>1. pc' \in Copying /\ job'.plan = job.plan
    BY SamePlans DEF Ahead, SameAnswers
  <1>2. PICK i \in DOMAIN job.plan : /\ i >= job'.at /\ job.plan[i].dst = q
                                     /\ ~(i = job'.at /\ pc' \in {"remove", "rename"})
    BY <1>1 DEF Ahead
  <1>3. i \in Nat
    BY Places
  <1> QED
    BY <1>1, <1>2, <1>3, NextPlace DEF Ahead

LEMMA AtItself ==
    ASSUME pc \in Copying \ {"remove", "rename"}, job.at \in DOMAIN job.plan, PlanFits
    PROVE  Ahead(It.dst)
  <1>1. job.at >= job.at
    BY Places
  <1> QED
    BY <1>1 DEF Ahead, It

LEMMA ItemInPlan ==
    ASSUME FlowInv, PlanFits, pc \in FilePcs \/ (pc = "item" /\ AtItem)
    PROVE  job.at \in DOMAIN job.plan
  <1>1. CASE pc \in FilePcs
    BY <1>1 DEF FlowInv, Moving, AtFile
  <1>2. CASE pc = "item" /\ AtItem
    <2>1. job.at \in Nat \ {0}
      BY <1>2 DEF FlowInv, Moving, AtFile, Copying
    <2> QED
      BY <1>2, <2>1, Places DEF AtItem, PlanFits
  <1> QED
    BY <1>1, <1>2


---------------------------------------------------------------------------
\* What a flow sends on the way to the server.

NewRequest(e) ==
    LET req == e.req IN
    /\ e.no = sent + 1
    /\ \/ req.op \notin {"create", "write", "discard", "remove", "rename"}
       \/ req.op \in {"create", "discard"} /\ req.path = It.dst /\ Ahead(It.dst)
          /\ (req.op = "create" => req.ver \in Contents)
       \/ req.op = "write" /\ req.off < Chunks
       \/ req.op = "remove" /\ req.path = It.dst /\ pc' = "remove" /\ asked = {}
          /\ pc \in FilePcs /\ Holding(Chunks)
       \/ req.op = "rename" /\ req.path = It.dst /\ pc' = "rename" /\ pc \in FilePcs /\ Holding(Chunks)
          /\ \A f \in asked : f.req = Req("remove", It.dst)

LEMMA ReqParts ==
    ASSUME NEW path, NEW ver, NEW off, NEW op
    PROVE  /\ Req(op, path).op = op /\ Req(op, path).path = path
           /\ CreateReq(path, ver).op = "create" /\ CreateReq(path, ver).path = path
           /\ CreateReq(path, ver).ver = ver
           /\ DataReq("write", path, off).op = "write" /\ DataReq("write", path, off).path = path
           /\ DataReq("write", path, off).off = off
           /\ DataReq("read", path, off).op = "read" /\ DataReq("read", path, off).path = path
           /\ DataReq("read", path, off).off = off
  BY DEF Req, CreateReq, DataReq

LEMMA CalmSends ==
    ASSUME Calm, NEW e \in asked', e \notin asked
    PROVE  e.no = sent + 1 /\ e.req.op \notin Mutating
  BY DEF Calm, Asks, Sent, Mutating, client

LEMMA LocalFile ==
    ASSUME NoPiece, IsFile(Local.tree, It.src)
    PROVE  Local.tree[It.src] \in Contents /\ At(Local.tree, It.src) = Local.tree[It.src]
  <1>1. At(Local.tree, It.src) \in Contents \cup {"piece"}
    BY DEF IsFile
  <1>2. It.src # <<>> /\ It.src \in DOMAIN Local.tree
    BY <1>1, ContentsAssumption DEF At
  <1>3. At(Local.tree, It.src) = Local.tree[It.src]
    BY <1>2 DEF At
  <1> QED
    BY <1>1, <1>2, <1>3 DEF NoPiece, Local, Sides

LEMMA CleansSend ==
    ASSUME FlowInv, PlanFits, Cleans, pc \in FilePcs \ {"remove", "rename"} \/ (pc = "item" /\ AtItem),
           NEW e \in asked', e \notin asked
    PROVE  NewRequest(e)
  <1>1. Sent(Req("discard", It.dst))
    BY DEF Cleans, client
  <1>2. e.no = sent + 1 /\ e.req = Req("discard", It.dst)
    BY <1>1 DEF Sent
  <1>3. pc \in Copying \ {"remove", "rename"} /\ job.at \in DOMAIN job.plan
    BY ItemInPlan DEF Copying
  <1>4. Ahead(It.dst)
    BY <1>3, AtItself
  <1> QED
    BY <1>2, <1>4, ReqParts DEF NewRequest

LEMMA UploadSends ==
    ASSUME FlowInv, Apart, CopyInv, Upload, Steps, ~Waits, ~Transfer, ~Back, NEW e \in asked', e \notin asked
    PROVE  NewRequest(e)
  <1>0. PlanFits /\ Tells /\ StreamInv
    BY DEF Apart, FlowInv, Serving
  <1>1. Calm => NewRequest(e)
    BY CalmSends DEF NewRequest, Mutating
  <1>2. CASE Browses \/ LogsIn \/ Lists \/ Plans
    <2>1. Lists => Calm \/ asked' = asked
      BY DEF Lists, client
    <2> QED
      BY <1>1, <1>2, <2>1 DEF Browses, LogsIn, Plans, client
  <1>3. CASE OpenFiles \/ Decide
    BY <1>3 DEF OpenFiles, Open, Decide, client
  <1>4. CASE Between
    <2>1. CASE StartsFile
      <3>1. pc = "item" /\ AtItem
        BY <1>4, <2>1 DEF Between, StartsFile
      <3>2. CASE Cleans
        BY <1>0, <3>1, <3>2, CleansSend
      <3>3. CASE Sent(CreateReq(It.dst, Local.tree[It.src])) /\ IsFile(Local.tree, It.src)
        <4>1. e.no = sent + 1 /\ e.req = CreateReq(It.dst, Local.tree[It.src])
          BY <3>3 DEF Sent
        <4>2. Ahead(It.dst)
          BY <1>0, <3>1, ItemInPlan, AtItself DEF Copying
        <4> QED
          BY <3>3, <4>1, <4>2, ReqParts, LocalFile DEF NewRequest, CopyInv
      <3> QED
        BY <2>1, <3>2, <3>3 DEF StartsFile
    <2>2. CASE ~StartsFile
      BY <1>1, <1>4, <2>2 DEF Between, client
    <2> QED
      BY <2>1, <2>2
  <1>5. CASE MakesDir
    <2>1. Sent(Req("mkdir", It.dst))
      BY <1>5 DEF MakesDir, client
    <2> QED
      BY <2>1, ReqParts DEF NewRequest, Sent
  <1>6. CASE Uploads
    <2>1. CASE Cleans
      BY <1>0, <1>6, <2>1, CleansSend DEF Uploads, FilePcs
    <2>2. CASE Sent(Req("close", It.dst))
      BY <2>2, ReqParts DEF NewRequest, Sent
    <2>3. CASE ~Cleans /\ ~Sent(Req("close", It.dst))
      <3>1. PICK off : off < Chunks /\ Sent(DataReq("write", It.dst, off))
        BY <1>6, <2>3 DEF Uploads
      <3> QED
        BY <3>1, ReqParts DEF NewRequest, Sent
    <2> QED
      BY <2>1, <2>2, <2>3
  <1>7. CASE Downloads
    <2>1. CASE Cleans
      BY <1>0, <1>7, <2>1, CleansSend DEF Downloads, FilePcs
    <2> QED
      BY <1>1, <1>7, <2>1 DEF Downloads
  <1>8. CASE Replaces
    <2>1. pc \in FilePcs
      BY <1>8 DEF Replaces, FilePcs
    <2>2. CASE Cleans /\ pc = "close"
      BY <1>0, <2>2, CleansSend DEF FilePcs
    <2>3. CASE pc = "close" /\ Ok /\ pc' \in {"remove", "rename"} /\ \E op \in {"remove", "rename"} : op = pc' /\ Sent(Req(op, It.dst))
      <3>1. asked = {} /\ Holding(Chunks)
        BY <1>0, <2>3, OkIsSaid, SaidIsLast DEF CopyInv, UpStages
      <3>2. e.no = sent + 1 /\ e.req = Req(pc', It.dst)
        BY <2>3 DEF Sent
      <3> QED
        BY <2>1, <2>3, <3>1, <3>2, ReqParts DEF NewRequest
    <2>4. CASE pc = "remove" /\ pc' = "rename" /\ Sent(Req("rename", It.dst))
      <3>1. Holding(Chunks) /\ \A f \in asked : f.req = Req("remove", It.dst)
        BY <2>4 DEF CopyInv, UpStages
      <3>2. e.no = sent + 1 /\ e.req = Req("rename", It.dst)
        BY <2>4 DEF Sent
      <3> QED
        BY <2>1, <2>4, <3>1, <3>2, ReqParts DEF NewRequest
    <2> QED
      BY <1>8, <2>2, <2>3, <2>4 DEF Replaces, client
  <1> QED
    BY <1>2, <1>3, <1>4, <1>5, <1>6, <1>7, <1>8 DEF Steps


---------------------------------------------------------------------------
\* Pending, when a flow moves towards the server.

LEMMA SameTasks ==
    ASSUME FlowInv, Steps, ~Transfer, ~Back
    PROVE  job'.before = job.before /\ job'.side = job.side /\ (Upload' <=> Upload) /\ Dest' = Dest
  <1>1. CASE Plans
    BY <1>1 DEF Plans, SameTask, Upload, Dest
  <1>2. CASE Decide
    <2>1. Decides
      BY <1>2, DecideTable DEF FlowInv, Moving
    <2> QED
      BY <2>1 DEF Decides, SamePlan, Upload, Dest
  <1>3. CASE ~Plans /\ ~Decide
    BY <1>3, SamePlans DEF SameAnswers, Upload, Dest
  <1> QED
    BY <1>1, <1>2, <1>3

LEMMA KeptAtFirst ==
    ASSUME GoodTree(job.before), DestTree = job.before PROVE \A q : Kept(q)
  <1>1. "dir" \notin Contents
    BY ContentsAssumption
  <1> QED
    BY <1>1 DEF Kept, At, GoodTree

LEMMA StillAhead ==
    ASSUME FlowInv, PlanFits, Steps, ~Transfer, ~Back, NEW q, Ahead(q)'
    PROVE  Ahead(q) \/ (Quiet' /\ UNCHANGED disk /\ \A r : Kept(r))
  <1>1. CASE Plans
    <2>1. pc = "ask" /\ pc' = "item"
      BY <1>1 DEF Plans, Ahead, Copying, FilePcs
    <2>2. Quiet /\ \A r : Kept(r)
      BY <2>1, KeptAtFirst
         DEF FlowInv, Serving, QuietWhen, Deciding, BeforeKnown, Walking, Copying, FilePcs
    <2>3. Quiet' /\ UNCHANGED disk
      BY <1>1, <2>2, CalmKeepsQuiet DEF Plans
    <2> QED
      BY <2>2, <2>3
  <1>2. CASE Decide
    <2>1. Decides
      BY <1>2, DecideTable DEF FlowInv, Moving
    <2> QED
      BY <2>1 DEF Decides, Ahead, Copying, FilePcs
  <1>3. CASE ~Plans /\ ~Decide
    BY <1>3, AheadShrinks
  <1> QED
    BY <1>1, <1>2, <1>3

LEMMA SameKept ==
    ASSUME job'.before = job.before, Dest' = Dest, disk'[Dest] = disk[Dest], NEW q
    PROVE  Kept(q)' <=> Kept(q)
  BY DEF Kept, DestTree

LEMMA HoldingIsWhole ==
    ASSUME Holding(Chunks) PROVE Whole(disk[Dest], It.dst)
  BY DEF Holding, Whole

LEMMA UploadKeepsDisk ==
    ASSUME FlowInv, Upload, Steps, ~Waits PROVE UNCHANGED disk
  BY LocalSteps DEF LocalStep

\* After the item it is about, nothing to be copied is at its name.
LEMMA BehindIt ==
    ASSUME PlanFits, job.at \in DOMAIN job.plan, pc' \in {"remove", "rename"},
           job'.plan = job.plan, job'.at = job.at
    PROVE  ~Ahead(It.dst)'
  <1>1. \A i \in DOMAIN job.plan : job.plan[i].dst = It.dst => i = job.at
    BY OneDestination DEF It
  <1> QED
    BY <1>1 DEF Ahead, It

LEMMA SendsWithinItem ==
    ASSUME FlowInv, Steps, ~Waits, ~Transfer, ~Back, pc' \in {"remove", "rename"}
    PROVE  job'.plan = job.plan /\ job'.at = job.at /\ pc \in FilePcs
  <1>1. Replaces \/ Decide
    BY DEF Steps, Browses, LogsIn, Lists, Plans, Between, StartsFile, MakesDir, Uploads, Downloads, Cleans,
           Leaves, Advances, Stays, OpenFiles
  <1>2. CASE Decide
    <2>1. Decides
      BY <1>2, DecideTable DEF FlowInv, Moving
    <2> QED
      BY <2>1 DEF Decides
  <1>3. CASE Replaces
    BY <1>3 DEF Replaces, Cleans, Leaves, Counts, Advances, FilePcs
  <1> QED
    BY <1>1, <1>2, <1>3

LEMMA PendingSent ==
    ASSUME FlowInv, StreamInv', Apart, CopyInv, Upload, Steps, ~Waits, ~Transfer, ~Back
    PROVE  Pending'
  <1>0. PlanFits /\ Pending /\ StreamInv
    BY DEF Apart, CopyInv, FlowInv
  <1>1. UNCHANGED disk /\ job'.before = job.before /\ Dest' = Dest
    BY UploadKeepsDisk, SameTasks
  <1>2. \A q : Kept(q)' <=> Kept(q)
    BY <1>1, SameKept
  <1>3. \A q : Ahead(q)' => Ahead(q) \/ (Quiet' /\ \A r : Kept(r))
    BY <1>0, StillAhead
  <1>4. \A e \in asked' : e \in asked \/ NewRequest(e)
    BY UploadSends
  <1>5. \A e \in asked : e.no \in Nat /\ e.no <= sent /\ e.no # sent + 1
    BY <1>0, NumbersAreNumbers DEF StreamInv, InTurn
  <1>6. \A q : Whole(disk'[Dest'], q) <=> Whole(disk[Dest], q)
    BY <1>1
  <1>7. \A q : PartAt(disk'[Dest'], q) <=> PartAt(disk[Dest], q)
    BY <1>1
  <1>8. \A q : NotLost(q)'
    BY <1>0, <1>2, <1>3, <1>6 DEF NotLost, Pending
  <1>9. ASSUME NEW e \in asked', e \in asked PROVE Settled(e)'
    <2>0. Settled(e)
      BY <1>0, <1>9 DEF Pending
    <2>1. CASE e.req.op \notin Mutating
      BY <2>1 DEF Settled, Mutating
    <2>2. CASE e.req.op \in Mutating
      <3>1. ~Quiet'
        BY <1>9, <2>2 DEF Quiet
      <3>2. e.req.op \in {"remove", "rename"} => ~Ahead(e.req.path)'
        BY <1>3, <2>0, <3>1 DEF Settled
      <3>3. e.req.op \in {"remove", "rename"} => ~Pend({"create", "discard"}, e.req.path)'
        BY <1>4, <2>0 DEF Settled, Pend, NewRequest
      <3>4. ASSUME e.req.op = "remove", NEW f \in asked', f.req.op = "rename", f.req.path = e.req.path
            PROVE  e.no < f.no
        <4>1. CASE f \in asked
          BY <2>0, <3>4, <4>1 DEF Settled
        <4>2. CASE NewRequest(f)
          BY <1>0, <1>5, <1>9, <4>2, NumbersAreNumbers DEF NewRequest
        <4> QED
          BY <1>4, <4>1, <4>2
      <3> QED
        BY <1>2, <1>6, <1>7, <2>0, <3>2, <3>3, <3>4 DEF Settled
    <2> QED
      BY <2>1, <2>2
  <1>10. ASSUME NEW e \in asked', NewRequest(e) PROVE Settled(e)'
    <2>1. CASE e.req.op \in {"create", "discard"}
      <3>1. Kept(e.req.path)
        BY <1>0, <1>10, <2>1 DEF NewRequest, Pending, NotLost
      <3> QED
        BY <1>2, <2>1, <3>1 DEF Settled
    <2>2. CASE e.req.op = "write"
      BY <1>10, <2>2 DEF NewRequest, Settled
    <2>3. CASE e.req.op \in {"remove", "rename"}
      <3>1. /\ e.req.path = It.dst /\ pc' \in {"remove", "rename"} /\ pc \in FilePcs /\ Holding(Chunks)
            /\ \A f \in asked : f.req = Req("remove", It.dst) /\ e.req.op = "rename"
        BY <1>10, <2>3 DEF NewRequest
      <3>2. job'.plan = job.plan /\ job'.at = job.at /\ job.at \in DOMAIN job.plan
        BY <1>0, <3>1, SendsWithinItem, ItemInPlan
      <3>3. ~Ahead(It.dst)'
        BY <1>0, <3>1, <3>2, BehindIt
      <3>4. \A f \in asked' : f.req.op \in {"remove", "rename"} /\ (e.req.op = "remove" => f.req.op = "remove")
        <4>1. \A f \in asked' : f \in asked \/ f.req = e.req
          <5>1. ASSUME NEW f \in asked', f \notin asked PROVE f.req = e.req
            <6>1. NewRequest(f) /\ f.no = sent + 1 /\ e.no = sent + 1
              BY <1>4, <1>10, <5>1 DEF NewRequest
            <6> QED
              BY <6>1 DEF StreamInv, InTurn
          <5> QED
            BY <5>1
        <4> QED
          BY <2>3, <3>1, <4>1, ReqParts
      <3>5. Whole(disk[Dest], It.dst)
        BY <3>1, HoldingIsWhole
      <3>6. ~Pend({"create", "discard"}, e.req.path)'
        BY <3>4 DEF Pend
      <3>7. ~Ahead(e.req.path)' /\ Whole(disk'[Dest'], e.req.path)
        <4>1. It'.dst = It.dst
          BY <3>2 DEF It
        <4> QED
          BY <1>6, <3>1, <3>3, <3>5, <4>1
      <3> QED
        BY <2>3, <3>4, <3>6, <3>7 DEF Settled
    <2> QED
      BY <2>1, <2>2, <2>3 DEF Settled
  <1> QED
    BY <1>4, <1>8, <1>9, <1>10 DEF Pending


---------------------------------------------------------------------------
\* UpStages, when a flow moves towards the server.

LEMMA SameItem ==
    ASSUME job'.plan = job.plan, job'.at = job.at, job'.side = job.side, UNCHANGED disk
    PROVE  It' = It /\ Src' = Src /\ Dest' = Dest /\ \A n : Holding(n)' <=> Holding(n)
  <1>1. It' = It /\ Dest' = Dest
    BY DEF It, Dest
  <1>2. Src' = Src
    BY <1>1 DEF Src
  <1> QED
    BY <1>1, <1>2 DEF Holding

LEMMA StaysAtItem ==
    ASSUME JobShaped, Stays \/ UNCHANGED job
    PROVE  job'.plan = job.plan /\ job'.at = job.at /\ job'.side = job.side
  BY DEF Stays, SamePlan

\* With nothing asked, the new request is the only one.
LEMMA OnlyRequest ==
    ASSUME StreamInv, asked = {}, NEW req, Sent(req)
    PROVE  /\ \A e \in asked' : e.no = sent' /\ e.req = req
           /\ call'.req = req /\ \A code : ~Said(code)'
  BY SentSaysNothing DEF Sent

LEMMA StagesSent ==
    ASSUME FlowInv, Apart, CopyInv, Upload, Steps, ~Waits, ~Transfer, ~Back
    PROVE  UpStages'
  <1>0. PlanFits /\ StreamInv /\ Tells /\ JobShaped /\ UpStages
    BY DEF Apart, CopyInv, FlowInv, Serving, Moving
  <1>1. UNCHANGED disk /\ job'.side = job.side
    BY UploadKeepsDisk, SameTasks
  <1>2. Ok => asked = {} /\ Said("ok")
    BY <1>0, OkIsSaid, SaidIsLast
  <1>3. CASE pc' \notin {"create", "write", "close", "remove", "rename"}
    BY <1>3 DEF UpStages
  <1>4. CASE pc' \in {"create", "write", "close", "remove", "rename"}
    <2>1. CASE Between
      <3>1. /\ pc' = "create" /\ IsFile(Local.tree, It.src)
            /\ Sent(CreateReq(It.dst, Local.tree[It.src])) /\ UNCHANGED job
        BY <1>4, <2>1 DEF Between, StartsFile, Cleans, Leaves, Advances
      <3>2. It' = It /\ Src' = Src
        BY <1>1, <3>1, SameItem
      <3>3. Src = Local.tree[It.src]
        BY <3>1, LocalFile DEF CopyInv, Src, Upload, Local
      <3>4. call'.req = CreateReq(It.dst, Src) /\ ~Said("ok")'
        BY <1>0, <3>1, <3>3, SentSaysNothing DEF Sent
      <3> QED
        BY <3>1, <3>2, <3>4 DEF UpStages
    <2>2. CASE Uploads /\ pc = "create"
      <3>0. Ok /\ UNCHANGED job /\ ~Cleans
        BY <1>4, <2>2 DEF Uploads, Cleans, Leaves, Advances
      <3>1. job.off = 0 /\ Holding(0) /\ asked = {}
        BY <1>0, <1>2, <2>2, <3>0 DEF CopyInv, OffIsZero, UpStages
      <3>2. It' = It /\ Src' = Src /\ \A n : Holding(n)' <=> Holding(n)
        BY <1>1, <3>0, SameItem
      <3>3. CASE pc' = "write"
        <4>1. job.off < Chunks /\ Sent(DataReq("write", It.dst, job.off))
          BY <2>2, <3>0, <3>3 DEF Uploads
        <4>2. /\ \A e \in asked' : e.no = sent' /\ e.req = DataReq("write", It.dst, job.off)
              /\ ~Said("ok")'
          BY <1>0, <3>1, <4>1, OnlyRequest
        <4>3. job'.off = job.off /\ job.off \in Nat
          BY <3>0, <3>1
        <4> QED
          BY <3>1, <3>2, <3>3, <4>1, <4>2, <4>3 DEF UpStages
      <3>4. CASE pc' = "close"
        <4>1. ~(job.off < Chunks) /\ Sent(Req("close", It.dst))
          BY <2>2, <3>0, <3>4 DEF Uploads
        <4>2. Chunks = 0
          BY <3>1, <4>1, ChunksAssumption
        <4>3. \A e \in asked' : e.no = sent' /\ e.req = Req("close", It.dst)
          BY <1>0, <3>1, <4>1, OnlyRequest
        <4> QED
          BY <3>1, <3>2, <3>4, <4>2, <4>3 DEF UpStages
      <3> QED
        BY <2>2, <3>0, <3>3, <3>4 DEF Uploads
    <2>3. CASE Uploads /\ pc = "write"
      <3>0. Ok /\ Stays /\ job'.off = job.off + 1 /\ ~Cleans
        BY <1>4, <2>3 DEF Uploads, Cleans, Leaves, Advances
      <3>1. job.off \in Nat /\ job.off < Chunks /\ Holding(job.off + 1) /\ asked = {}
        BY <1>0, <1>2, <2>3, <3>0 DEF UpStages
      <3>2. It' = It /\ Src' = Src /\ \A n : Holding(n)' <=> Holding(n)
        BY <1>0, <1>1, <3>0, StaysAtItem, SameItem
      <3>3. CASE pc' = "write"
        <4>1. job.off + 1 < Chunks /\ Sent(DataReq("write", It.dst, job.off + 1))
          BY <2>3, <3>0, <3>3 DEF Uploads
        <4>2. /\ \A e \in asked' : e.no = sent' /\ e.req = DataReq("write", It.dst, job.off + 1)
              /\ ~Said("ok")'
          BY <1>0, <3>1, <4>1, OnlyRequest
        <4>3. job'.off \in Nat
          BY <3>0, <3>1
        <4> QED
          BY <3>0, <3>1, <3>2, <3>3, <4>1, <4>2, <4>3 DEF UpStages
      <3>4. CASE pc' = "close"
        <4>1. ~(job.off + 1 < Chunks) /\ Sent(Req("close", It.dst))
          BY <2>3, <3>0, <3>4 DEF Uploads
        <4>2. job.off + 1 = Chunks
          BY <3>1, <4>1, ChunksAssumption
        <4>3. \A e \in asked' : e.no = sent' /\ e.req = Req("close", It.dst)
          BY <1>0, <3>1, <4>1, OnlyRequest
        <4> QED
          BY <3>1, <3>2, <3>4, <4>2, <4>3 DEF UpStages
      <3> QED
        BY <1>4, <2>3, <3>0, <3>3, <3>4 DEF Uploads
    <2>4. CASE Replaces /\ pc = "close"
      <3>0. /\ Ok /\ UNCHANGED job
            /\ \/ pc' = "remove" /\ Sent(Req("remove", It.dst))
               \/ pc' = "rename" /\ Sent(Req("rename", It.dst))
        <4>1. ~Cleans
          BY <1>4 DEF Cleans
        <4> QED
          BY <2>4, <4>1 DEF Replaces
      <3>1. Holding(Chunks) /\ asked = {}
        BY <1>0, <1>2, <2>4, <3>0 DEF UpStages
      <3>2. It' = It /\ Src' = Src /\ \A n : Holding(n)' <=> Holding(n)
        BY <1>1, <3>0, SameItem
      <3>3. CASE pc' = "remove"
        <4>1. \A e \in asked' : e.no = sent' /\ e.req = Req("remove", It.dst)
          BY <1>0, <3>0, <3>1, <3>3, OnlyRequest
        <4> QED
          BY <3>1, <3>2, <3>3, <4>1 DEF UpStages
      <3>4. CASE pc' = "rename"
        <4>1. /\ \A e \in asked' : e.no = sent' /\ e.req = Req("rename", It.dst)
              /\ call'.req = Req("rename", It.dst) /\ ~Said("ok")'
          BY <1>0, <3>0, <3>1, <3>4, OnlyRequest
        <4> QED
          BY <3>1, <3>2, <3>4, <4>1 DEF UpStages
      <3> QED
        BY <3>0, <3>3, <3>4
    <2>5. CASE Replaces /\ pc = "remove"
      <3>0. UNCHANGED job /\ pc' = "rename" /\ Sent(Req("rename", It.dst))
        BY <2>5 DEF Replaces
      <3>1. Holding(Chunks) /\ \A e \in asked : e.req = Req("remove", It.dst)
        BY <1>0, <2>5 DEF UpStages
      <3>2. It' = It /\ Src' = Src /\ \A n : Holding(n)' <=> Holding(n)
        BY <1>1, <3>0, SameItem
      <3>3. /\ \A e \in asked' : e \in asked \/ e.req = Req("rename", It.dst)
            /\ call'.req = Req("rename", It.dst) /\ ~Said("ok")'
        BY <1>0, <3>0, SentSaysNothing DEF Sent
      <3> QED
        BY <3>0, <3>1, <3>2, <3>3 DEF UpStages
    <2>6. CASE \/ Browses \/ LogsIn \/ Lists \/ Plans \/ MakesDir \/ OpenFiles \/ Decide
               \/ Downloads \/ (Uploads /\ pc \notin {"create", "write"})
               \/ (Replaces /\ pc \notin {"close", "remove"})
      <3>1. Decide => Decides
        BY DecideTable DEF FlowInv, Moving
      <3>2. pc \notin {"open", "read"}
        BY DEF FlowInv, Moving, Direction
      <3> QED
        BY <1>4, <2>6, <3>1, <3>2 DEF Browses, LogsIn, Lists, Plans, MakesDir, OpenFiles, Decides, Downloads, Uploads,
                           Replaces, Cleans, Leaves, Counts, Advances
    <2> QED
      BY <2>1, <2>2, <2>3, <2>4, <2>5, <2>6 DEF Steps
  <1> QED
    BY <1>3, <1>4

LEMMA OffStep ==
    ASSUME FlowInv, OffIsZero, Steps
    PROVE  OffIsZero'
  <1>1. CASE Browses \/ LogsIn \/ OpenFiles \/ Waits \/ MakesDir \/ Uploads \/ Downloads \/ Replaces
    <2>1. pc' = "opendir" => lister'.then # "walk" \/ pc = pc'
      BY <1>1 DEF Browses, LogsIn, OpenFiles, Waits, MakesDir, Uploads, Downloads, Replaces, Cleans,
                  Leaves, Counts, Advances
    <2> QED
      BY <1>1, <2>1 DEF Browses, LogsIn, OpenFiles, Waits, MakesDir, Uploads, Downloads, Replaces, Cleans,
                  Leaves, Counts, Advances, Stays, OffIsZero, Walking, ListPcs
  <1>2. CASE Lists
    BY <1>2 DEF Lists, OffIsZero, Walking, ListPcs
  <1>3. CASE Plans
    BY <1>3 DEF Plans, SameTask, OffIsZero, Walking, ListPcs
  <1>4. CASE Between
    BY <1>4 DEF Between, StartsFile, Cleans, Leaves, Advances, Stays, OffIsZero, Walking, ListPcs
  <1>5. CASE Decide
    <2>1. Decides
      BY <1>5, DecideTable DEF FlowInv, Moving
    <2> QED
      BY <2>1 DEF Decides, OffIsZero, Walking, ListPcs
  <1>6. CASE Transfer
    BY <1>6, TransferTable DEF Starts, OffIsZero
  <1>7. CASE Back
    BY <1>7 DEF Back, OffIsZero, Walking, ListPcs
  <1> QED
    BY <1>1, <1>2, <1>3, <1>4, <1>5, <1>6, <1>7 DEF Steps


---------------------------------------------------------------------------
\* Files the summary counts.

LEMMA FirstFiles ==
    ASSUME FlowInv, Walking => job.files = {}, Steps
    PROVE  Walking' => job'.files = {}
  <1>1. CASE Browses \/ LogsIn \/ OpenFiles \/ Waits \/ MakesDir \/ Uploads \/ Downloads \/ Replaces \/ Between
    <2>1. pc' = "opendir" => lister'.then # "walk" \/ pc = pc'
      BY <1>1 DEF Browses, LogsIn, OpenFiles, Waits, MakesDir, Uploads, Downloads, Replaces, Cleans,
                  Leaves, Counts, Advances, Between, StartsFile
    <2> QED
      BY <1>1, <2>1 DEF Browses, LogsIn, OpenFiles, Waits, MakesDir, Uploads, Downloads, Replaces, Cleans,
                  Leaves, Counts, Advances, Stays, Between, StartsFile, Walking, ListPcs
  <1>2. CASE Lists
    BY <1>2 DEF Lists, Walking, ListPcs
  <1>3. CASE Plans
    BY <1>3 DEF Plans, SameTask, Walking, ListPcs
  <1>4. CASE Decide
    <2>1. Decides
      BY <1>4, DecideTable DEF FlowInv, Moving
    <2> QED
      BY <2>1 DEF Decides, Walking, ListPcs
  <1>5. CASE Transfer
    BY <1>5, TransferTable DEF Starts
  <1>6. CASE Back
    BY <1>6 DEF Back, Walking, ListPcs
  <1> QED
    BY <1>1, <1>2, <1>3, <1>4, <1>5, <1>6 DEF Steps

LEMMA FilesGrow ==
    ASSUME Steps, ~Plans, ~Decide, ~Transfer, ~Back
    PROVE  \/ job'.files = job.files
           \/ /\ Counts /\ Ok /\ ~Waits
              /\ \/ pc = "rename" /\ UNCHANGED <<client, disk>>
                 \/ /\ pc = "close" /\ ~Upload /\ UNCHANGED client
                    /\ Succeeds(RenameLocal(Local, It.dst)) /\ OnLocal(RenameLocal(Local, It.dst))
  <1>1. CASE Replaces
    <2>1. Waits => job' = job
      BY DEF Waits
    <2> QED
      BY <1>1, <2>1 DEF Replaces, Cleans, Leaves, Stays
  <1>2. CASE ~Replaces
    BY <1>2 DEF Steps, Browses, LogsIn, Lists, Between, StartsFile, MakesDir, Uploads, Downloads,
                Waits, OpenFiles, Cleans, Leaves, Stays
  <1> QED
    BY <1>1, <1>2

\* What counts stays behind the flow.
LEMMA StillBehind ==
    ASSUME FlowInv, PlanFits, Steps, ~Plans, ~Decide, ~Transfer, ~Back, NEW i \in job.files, Done(i)
    PROVE  /\ i \in DOMAIN job'.plan /\ job'.plan[i] = job.plan[i]
           /\ ~job'.plan[i].dir /\ ~job'.plan[i].skip
           /\ pc' \in Copying => i < job'.at
  <1>1. job'.plan = job.plan
    BY SamePlans DEF SameAnswers
  <1>2. i \in DOMAIN job.plan /\ i \in Nat
    BY Places DEF Done
  <1> QED
    BY <1>1, <1>2, NextPlace DEF Done

LEMMA CountedSent ==
    ASSUME FlowInv, Apart, CopyInv, Upload, Steps, ~Waits, ~Transfer, ~Back
    PROVE  CountedDone'
  <1>0. PlanFits /\ CountedDone /\ Tells /\ StreamInv /\ UpStages
    BY DEF Apart, CopyInv, FlowInv, Serving
  <1>1. UNCHANGED disk /\ job'.side = job.side /\ Dest' = Dest
    BY UploadKeepsDisk, SameTasks
  <1>2. Walking' => job'.files = {}
    BY <1>0, FirstFiles DEF CountedDone
  <1>3. CASE Plans \/ Decide
    <2>1. Walking /\ job'.files = job.files
      <3>1. Decide => Decides
        BY DecideTable DEF FlowInv, Moving
      <3> QED
        BY <1>3, <3>1 DEF Plans, SameTask, Decides, Walking, ListPcs
    <2> QED
      BY <1>0, <1>2, <2>1 DEF CountedDone
  <1>4. CASE ~Plans /\ ~Decide
    <2>1. \A e \in asked' : e \in asked \/ NewRequest(e)
      BY UploadSends
    <2>2. ASSUME NEW i \in job.files PROVE Done(i)'
      <3>1. Done(i)
        BY <1>0, <2>2 DEF CountedDone
      <3>2. /\ i \in DOMAIN job'.plan /\ job'.plan[i] = job.plan[i]
            /\ ~job'.plan[i].dir /\ ~job'.plan[i].skip
            /\ pc' \in Copying => i < job'.at
        BY <1>0, <1>4, <2>2, <3>1, StillBehind
      <3>3. ASSUME NEW e \in asked', e.req.op \in {"remove", "create"}, e.req.path = job.plan[i].dst PROVE FALSE
        <4>1. CASE e \in asked
          BY <3>1, <3>3, <4>1 DEF Done, Pend
        <4>2. CASE NewRequest(e)
          <5>1. e.req.path = It.dst /\ pc \in Copying /\ (pc \in FilePcs \/ Ahead(It.dst))
            BY <3>3, <4>2 DEF NewRequest, Ahead, Copying
          <5>2. i < job.at /\ i \in DOMAIN job.plan /\ i \in Nat
            BY <1>0, <3>1, <5>1, Places DEF Done
          <5>3. CASE pc \in FilePcs
            <6>1. job.at \in DOMAIN job.plan
              BY <1>0, <5>3, ItemInPlan
            <6>2. job.plan[i].dst = job.plan[job.at].dst
              BY <3>3, <5>1 DEF It
            <6>3. i = job.at
              BY <1>0, <5>2, <6>1, <6>2, OneDestination
            <6> QED
              BY <5>2, <6>3
          <5>4. CASE Ahead(It.dst)
            <6>1. PICK j \in DOMAIN job.plan : j >= job.at /\ job.plan[j].dst = It.dst
              BY <5>4 DEF Ahead
            <6>2. i = j
              BY <1>0, <3>3, <5>1, <5>2, <6>1, OneDestination
            <6>3. job.at \in Nat
              BY <5>1 DEF FlowInv, Moving, AtFile
            <6> QED
              BY <5>2, <6>1, <6>2, <6>3
          <5> QED
            BY <5>1, <5>3, <5>4
        <4> QED
          BY <2>1, <4>1, <4>2
      <3>4. ~Pend({"remove", "create"}, job.plan[i].dst)'
        BY <3>2, <3>3 DEF Pend
      <3> QED
        BY <1>1, <3>1, <3>2, <3>4 DEF Done, DestTree
    <2>3. CASE job'.files = job.files
      BY <1>2, <2>2, <2>3 DEF CountedDone
    <2>4. CASE job'.files # job.files
      <3>1. Counts /\ Ok /\ pc = "rename" /\ UNCHANGED client
        BY <1>4, <2>4, FilesGrow
      <3>2. asked = {} /\ At(DestTree, It.dst) = Src /\ Src \in Contents /\ ~PartAt(disk[Dest], It.dst)
        BY <1>0, <3>1, OkIsSaid, SaidIsLast DEF UpStages
      <3>3. /\ job'.plan = job.plan /\ job'.files = job.files \cup {job.at} /\ job'.at = job.at + 1
            /\ job.at \in DOMAIN job.plan /\ ~It.dir /\ ~It.skip /\ asked' = {}
        BY <3>1, <3>2 DEF Counts, Advances, SamePlan, FlowInv, Moving, AtFile, FilePcs, client
      <3>n. PICK n : n = job.at
        OBVIOUS
      <3>4. n \in Nat /\ n < n + 1
        BY <1>0, <3>3, <3>n, Places
      <3>5. Done(n)'
        BY <1>1, <3>2, <3>3, <3>4, <3>n DEF Done, It, Src, DestTree, Pend
      <3> QED
        BY <1>2, <2>2, <3>3, <3>n, <3>5 DEF CountedDone
    <2> QED
      BY <2>3, <2>4
  <1> QED
    BY <1>3, <1>4


LEMMA UploadSent ==
    ASSUME FlowInv, StreamInv', Apart, CopyInv, Upload, Steps, ~Waits, ~Transfer, ~Back
    PROVE  CopyInv'
  <1>1. NoPiece'
    BY UploadSends, UploadKeepsDisk DEF NoPiece, NewRequest, CopyInv
  <1>2. OffIsZero' /\ UpStages' /\ Pending' /\ CountedDone'
    BY OffStep, StagesSent, PendingSent, CountedSent DEF CopyInv
  <1>3. DownStages' /\ job'.side \in Sides
    BY SameTasks DEF DownStages, CopyInv
  <1> QED
    BY <1>1, <1>2, <1>3 DEF CopyInv

---------------------------------------------------------------------------
\* The same, when the server serves a request on the way to it.

ServesUpload(e, code) ==
    /\ Upload /\ e \in asked
    /\ Serves(disk["remote"], disk'["remote"], e.req, code)
    /\ disk'["local"] = disk["local"] /\ DOMAIN disk' = Sides
    /\ UNCHANGED <<pc, job, lister, sent, call>>
    /\ asked' = asked \ {e} /\ \A f \in asked' : e.no < f.no /\ f.no \in Nat /\ e.no \in Nat
    /\ \A say : Said(say)' => e.no = sent /\ e.req = call.req /\ code = say /\ call.st = "waiting"

LEMMA SameJob ==
    ASSUME UNCHANGED <<pc, job>>
    PROVE  /\ (Upload' <=> Upload) /\ Dest' = Dest /\ It' = It
           /\ \A q : Ahead(q)' <=> Ahead(q)
  BY DEF Upload, Dest, It, Ahead

\* The copy at q is the same, or the one request at q changed it.
LEMMA PartServed ==
    ASSUME NEW d, NEW new, NEW req, NEW code, Serves(d, new, req, code), NEW q
    PROVE  /\ q # req.path \/ req.op \notin {"create", "write", "discard", "rename"} => SamePart(d, new, q)
           /\ req.op \in {"discard", "rename"} /\ PartAt(new, q) => SamePart(d, new, q)
           /\ PartAt(new, q) /\ ~PartAt(d, q) => req.op = "create" /\ req.path = q
           /\ req.op = "write" /\ req.off < Chunks /\ Whole(d, q) =>
                 Whole(new, q) /\ new.part[q].ver = d.part[q].ver
  <1>1. CASE q # req.path
    BY <1>1 DEF Serves, SamePart, Whole
  <1>2. CASE req.op \notin {"create", "write", "discard", "rename"}
    BY <1>2 DEF Serves, SamePart, PartAt
  <1>3. CASE q = req.path /\ req.op = "create"
    BY <1>3
  <1>4. CASE q = req.path /\ req.op = "write"
    BY <1>4, ChunksAssumption DEF Serves, SamePart, PartAt, Whole
  <1>5. CASE q = req.path /\ req.op = "discard"
    BY <1>5 DEF Serves, SamePart
  <1>6. CASE q = req.path /\ req.op = "rename"
    BY <1>6 DEF Serves, SamePart, Took
  <1> QED
    BY <1>1, <1>2, <1>3, <1>4, <1>5, <1>6

\* A file stays a file, unless it is removed.
LEMMA FileServed ==
    ASSUME NEW d, NEW new, NEW req, NEW code, Serves(d, new, req, code), NEW q,
           At(d.tree, q) \in Contents, ~(req.op = "remove" /\ req.path = q)
    PROVE  At(new.tree, q) = At(d.tree, q)
  <1>1. At(d.tree, q) # "none"
    BY ContentsAssumption
  <1> QED
    BY <1>1 DEF Serves, Grows, GrowsBeside

LEMMA PendingServed ==
    ASSUME FlowInv, CopyInv, NEW e, NEW code, ServesUpload(e, code)
    PROVE  Pending'
  <1> DEFINE d == disk["remote"]
             new == disk'["remote"]
             p == e.req.path
  <1>0. /\ e \in asked /\ Serves(d, new, e.req, code) /\ asked' = asked \ {e}
        /\ Dest = "remote" /\ disk[Dest] = d /\ disk'[Dest'] = new /\ DestTree = d.tree /\ DestTree' = new.tree
        /\ \A q : Ahead(q)' <=> Ahead(q)
        /\ job'.before = job.before
    BY SameJob DEF ServesUpload, Dest, Other, Upload, DestTree
  <1>1. /\ \A f \in asked : Settled(f)
        /\ \A q : NotLost(q)
    BY DEF CopyInv, Pending, ServesUpload
  <1>2. Settled(e)
    BY <1>0, <1>1
  <1>3. \A q : Kept(q) => Kept(q)' \/ (e.req.op = "remove" /\ p = q)
    BY <1>0, FileServed DEF Kept
  <1>4. \A q : Whole(d, q) /\ ~(p = q /\ e.req.op \in {"create", "discard", "rename"}) => Whole(new, q)
    <2>1. ASSUME NEW q, Whole(d, q), ~(p = q /\ e.req.op \in {"create", "discard", "rename"}) PROVE Whole(new, q)
      <3>1. CASE p = q /\ e.req.op = "write"
        BY <1>0, <1>2, <2>1, <3>1, PartServed DEF Settled
      <3>2. CASE ~(p = q /\ e.req.op = "write")
        <4>1. SamePart(d, new, q)
          BY <1>0, <2>1, <3>2, PartServed
        <4> QED
          BY <2>1, <4>1 DEF SamePart, Whole
      <3> QED
        BY <3>1, <3>2
    <2> QED
      BY <2>1
  <1>5. ASSUME NEW q PROVE NotLost(q)'
    <2>1. NotLost(q)
      BY <1>1
    <2>2. Ahead(q)' => Kept(q)'
      BY <1>0, <1>2, <1>3, <2>1 DEF NotLost, Settled
    <2>3. CASE Kept(q)
      <3>1. CASE e.req.op = "remove" /\ p = q
        <4>1. Whole(d, q)
          BY <1>0, <1>2, <3>1 DEF Settled
        <4>2. Whole(new, q)
          BY <1>4, <3>1, <4>1
        <4> QED
          BY <1>0, <2>2, <4>2 DEF NotLost
      <3>2. CASE ~(e.req.op = "remove" /\ p = q)
        BY <1>3, <2>2, <2>3, <3>2 DEF NotLost
      <3> QED
        BY <3>1, <3>2
    <2>4. CASE ~Kept(q)
      <3>1. Whole(d, q)
        BY <1>0, <2>1, <2>4 DEF NotLost
      <3>2. CASE p = q /\ e.req.op = "rename"
        <4>1. CASE new = d
          BY <1>0, <2>2, <3>1, <4>1 DEF NotLost
        <4>2. CASE Took(d, new, q)
          <5>1. At(new.tree, q) = d.part[q].ver /\ d.part[q].ver \in Contents
            BY <3>1, <4>2 DEF Took, CopyInv, NoPiece, Sides, Whole, PartAt
          <5> QED
            BY <1>0, <2>2, <5>1 DEF NotLost, Kept
        <4> QED
          BY <1>0, <3>2, <4>1, <4>2 DEF Serves
      <3>3. CASE ~(p = q /\ e.req.op = "rename")
        <4>1. ~(p = q /\ e.req.op \in {"create", "discard"})
          BY <1>2, <2>4 DEF Settled
        <4>2. Whole(new, q)
          BY <1>4, <3>1, <3>3, <4>1
        <4> QED
          BY <1>0, <2>2, <4>2 DEF NotLost
      <3> QED
        BY <3>2, <3>3
    <2> QED
      BY <2>3, <2>4
  <1>6. ASSUME NEW f \in asked' PROVE Settled(f)'
    <2> DEFINE q == f.req.path
    <2>0. Settled(f) /\ e.no < f.no /\ f \in asked /\ f.no \in Nat /\ e.no \in Nat
      BY <1>0, <1>1 DEF ServesUpload
    <2>1. \A ops : Pend(ops, q)' => Pend(ops, q)
      BY <1>0 DEF Pend
    <2>2. f.req.op \in {"remove", "rename"} => ~(p = q /\ e.req.op \in {"create", "discard"})
      BY <1>0, <2>0 DEF Settled, Pend
    <2>3. f.req.op = "remove" => ~(p = q /\ e.req.op = "rename")
      BY <1>0, <2>0 DEF Settled
    <2>4. ASSUME f.req.op \in {"remove", "rename"}, PartAt(new, q) PROVE Whole(new, q)
      <3>1. PartAt(d, q)
        BY <1>0, <2>2, <2>4, PartServed
      <3>2. Whole(d, q)
        BY <1>0, <2>0, <2>4, <3>1 DEF Settled
      <3>3. CASE p = q /\ e.req.op = "rename"
        <4>1. SamePart(d, new, q)
          BY <1>0, <2>4, <3>3, PartServed
        <4> QED
          BY <3>2, <4>1 DEF SamePart, Whole
      <3>4. CASE ~(p = q /\ e.req.op = "rename")
        BY <1>4, <2>2, <2>4, <3>2, <3>4
      <3> QED
        BY <3>3, <3>4
    <2>5. f.req.op = "remove" => Whole(new, q)
      BY <1>0, <1>4, <2>0, <2>2, <2>3 DEF Settled
    <2>6. f.req.op \in {"create", "discard"} => Kept(q)'
      <3>1. ASSUME f.req.op \in {"create", "discard"} PROVE Kept(q)'
        <4>1. Kept(q) /\ Pend({"create", "discard"}, q)
          BY <2>0, <3>1 DEF Settled, Pend
        <4>2. ~(e.req.op = "remove" /\ p = q)
          BY <1>2, <4>1 DEF Settled
        <4> QED
          BY <1>3, <4>1, <4>2
      <3> QED
        BY <3>1
    <2> HIDE DEF new, d, p
    <2> QED
      BY <1>0, <2>0, <2>1, <2>4, <2>5, <2>6 DEF Settled
  <1> HIDE DEF new, d, p
  <1>7. Upload' => Upload
    BY SameJob DEF ServesUpload
  <1> QED
    BY <1>5, <1>6 DEF Pending


LEMMA StagesServed ==
    ASSUME FlowInv, CopyInv, NEW e, NEW code, ServesUpload(e, code)
    PROVE  UpStages'
  <1> DEFINE d == disk["remote"]
             new == disk'["remote"]
  <1>0. /\ e \in asked /\ Serves(d, new, e.req, code) /\ asked' = asked \ {e}
        /\ Dest = "remote" /\ disk[Dest] = d /\ disk'[Dest'] = new /\ DestTree' = new.tree
        /\ It' = It /\ Src' = Src /\ UNCHANGED <<pc, job, sent, call>> /\ Upload
    BY SameJob DEF ServesUpload, Dest, Other, Upload, DestTree, Src
  <1>1. UpStages
    BY DEF CopyInv
  <1>2. \A f, g \in asked : f.no = g.no => f = g
    BY DEF FlowInv, StreamInv, InTurn
  <1>3. SamePart(d, new, It.dst) => \A n : Holding(n) => Holding(n)'
    BY <1>0 DEF SamePart, Holding
  <1>4. \A say : Said(say)' => e.no = sent /\ e.req = call.req /\ code = say
    BY DEF ServesUpload
  <1>5. CASE pc = "create"
    <2>1. call.req = CreateReq(It.dst, Src)
      BY <1>0, <1>1, <1>5 DEF UpStages
    <2>2. Said("ok")' => Holding(0)'
      BY <1>0, <1>4, <2>1, ReqParts DEF Serves, Holding
    <2> QED
      BY <1>0, <1>5, <2>1, <2>2 DEF UpStages
  <1>6. CASE pc = "write"
    <2>1. /\ job.off \in Nat /\ job.off < Chunks /\ e.no = sent /\ e.req = DataReq("write", It.dst, job.off)
          /\ Holding(job.off) /\ \A f \in asked : f.no = sent
      BY <1>0, <1>1, <1>6 DEF UpStages
    <2>2. asked' = {}
      BY <1>0, <1>2, <2>1
    <2>3. ASSUME Said("ok")' PROVE Holding(job.off + 1)'
      <3>1. code = "ok" /\ e.req.op = "write" /\ e.req.path = It.dst /\ e.req.off = job.off
        BY <1>4, <2>1, <2>3, ReqParts
      <3>2. DOMAIN new.part = DOMAIN d.part /\ PartAt(d, It.dst) /\ d.part[It.dst].got = job.off
            /\ d.part[It.dst].ver = Src
        BY <1>0, <2>1, <3>1 DEF Serves, Holding
      <3>3. new.part[It.dst].ver = d.part[It.dst].ver /\ new.part[It.dst].got = job.off + 1
        BY <1>0, <3>1, <3>2 DEF Serves
      <3> QED
        BY <1>0, <3>2, <3>3 DEF Holding, PartAt
    <2> QED
      BY <1>0, <1>6, <2>1, <2>2, <2>3 DEF UpStages
  <1>7. CASE pc \in {"close", "remove"}
    <2>1. /\ Holding(Chunks) /\ e.req = Req(pc, It.dst)
          /\ \A f \in asked : f.no = sent /\ f.req = Req(pc, It.dst)
      BY <1>0, <1>1, <1>7 DEF UpStages
    <2>2. Holding(Chunks)'
      BY <1>0, <1>3, <1>7, <2>1, ReqParts, PartServed
    <2> QED
      BY <1>0, <1>7, <2>1, <2>2 DEF UpStages
  <1>8. CASE pc = "rename"
    <2>1. /\ \A f \in asked : f.req \in {Req("remove", It.dst), Req("rename", It.dst)}
          /\ PartAt(d, It.dst) => Holding(Chunks)
          /\ call.req = Req("rename", It.dst)
      BY <1>0, <1>1, <1>8 DEF UpStages
    <2>2. e.req.op \in {"remove", "rename"} /\ e.req.path = It.dst
      BY <1>0, <2>1, ReqParts
    <2>3. PartAt(new, It.dst) => Holding(Chunks)'
      <3>1. ASSUME PartAt(new, It.dst) PROVE Holding(Chunks)'
        <4>1. SamePart(d, new, It.dst) /\ PartAt(d, It.dst)
          BY <1>0, <2>2, <3>1, PartServed DEF SamePart
        <4> QED
          BY <1>3, <2>1, <4>1
      <3> QED
        BY <3>1
    <2>4. ASSUME Said("ok")' PROVE At(new.tree, It.dst) = Src /\ Src \in Contents /\ ~PartAt(new, It.dst)
      <3>1. e.req = Req("rename", It.dst) /\ code = "ok"
        BY <1>4, <2>1, <2>4
      <3>2. Took(d, new, It.dst)
        BY <1>0, <3>1, ReqParts DEF Serves
      <3>3. Holding(Chunks)
        BY <2>1, <3>2 DEF Took
      <3>4. d.part[It.dst].ver = Src /\ Whole(d, It.dst) /\ Src \in Contents
        BY <1>0, <3>3, HoldingIsWhole DEF Holding, PartAt, CopyInv, NoPiece, Sides
      <3> QED
        BY <3>2, <3>4 DEF Took
    <2> QED
      BY <1>0, <1>8, <2>1, <2>3, <2>4 DEF UpStages
  <1> HIDE DEF new, d
  <1> QED
    BY <1>0, <1>5, <1>6, <1>7, <1>8 DEF UpStages

LEMMA PieceServed ==
    ASSUME FlowInv, CopyInv, NEW e, NEW code, ServesUpload(e, code), GoodSide(disk'["remote"])
    PROVE  NoPiece'
  <1> DEFINE d == disk["remote"]
             new == disk'["remote"]
  <1>0. /\ e \in asked /\ Serves(d, new, e.req, code) /\ asked' = asked \ {e} /\ Settled(e)
        /\ disk[Dest] = d /\ disk'["local"] = disk["local"] /\ GoodSide(d) /\ GoodSide(new)
    BY DEF ServesUpload, Dest, Other, Upload, CopyInv, Pending, FlowInv, Serving, FineDisk, Sides
  <1>1. NoPiece
    BY DEF CopyInv
  <1>2. ASSUME NEW q \in DOMAIN new.part
        PROVE  new.part[q].ver \in Contents /\ new.part[q].got \in 0..Chunks
    <2>1. CASE SamePart(d, new, q)
      BY <1>1, <1>2, <2>1 DEF SamePart, PartAt, NoPiece, Sides
    <2>2. CASE e.req.op = "create" /\ e.req.path = q
      <3>1. e.req.ver \in Contents
        BY <1>0, <1>1, <2>2 DEF NoPiece
      <3>2. CASE new = d
        BY <1>1, <1>2, <3>2 DEF NoPiece, Sides
      <3>3. CASE new # d
        <4>1. new.part[q].ver = e.req.ver /\ new.part[q].got = 0
          BY <1>0, <2>2, <3>3 DEF Serves
        <4>2. 0 \in 0..Chunks
          BY ChunksAssumption
        <4> QED
          BY <3>1, <4>1, <4>2
      <3> QED
        BY <3>2, <3>3
    <2>3. CASE e.req.op = "write" /\ e.req.path = q
      <3>1. CASE new = d
        BY <1>1, <1>2, <3>1 DEF NoPiece, Sides
      <3>2. CASE new # d
        <4>1. q \in DOMAIN d.part /\ new.part[q].ver = d.part[q].ver
              /\ new.part[q].got = IF d.part[q].got = e.req.off THEN e.req.off + 1 ELSE d.part[q].got
          BY <1>0, <1>2, <2>3, <3>2 DEF Serves, PartAt
        <4>2. d.part[q].got \in 0..Chunks /\ d.part[q].ver \in Contents
          BY <1>1, <4>1 DEF NoPiece, Sides
        <4>3. e.req.off < Chunks
          BY <1>0, <2>3 DEF Settled
        <4> QED
          BY <4>1, <4>2, <4>3, ChunksAssumption
      <3> QED
        BY <3>1, <3>2
    <2> QED
      BY <1>0, <1>2, <2>1, <2>2, <2>3, PartServed DEF PartAt
  <1>3. ASSUME NEW q \in DOMAIN new.tree PROVE new.tree[q] # "piece"
    <2>0. \A r \in DOMAIN d.tree : d.tree[r] # "piece"
      BY <1>1 DEF NoPiece, Sides
    <2>1. At(d.tree, q) # "piece"
      BY <2>0 DEF At
    <2>2. CASE q = <<>>
      BY <1>0, <1>3, <2>2 DEF GoodSide, GoodTree
    <2>3. CASE q # <<>>
      <3>1. At(new.tree, q) = new.tree[q]
        BY <1>3, <2>3 DEF At
      <3>2. CASE e.req.op = "rename"
        <4>1. CASE new = d
          BY <1>3, <2>0, <4>1
        <4>2. CASE Took(d, new, e.req.path)
          <5>1. d.part[e.req.path].ver \in Contents /\ Whole(d, e.req.path)
            BY <1>0, <1>1, <3>2, <4>2 DEF Took, Settled, NoPiece, Sides, PartAt
          <5>2. At(new.tree, q) \in {At(d.tree, q), d.part[e.req.path].ver}
            BY <4>2, <5>1 DEF Took, SameElsewhere
          <5> QED
            BY <2>1, <3>1, <5>1, <5>2, ContentsAssumption
        <4> QED
          BY <1>0, <3>2, <4>1, <4>2 DEF Serves
      <3>3. CASE e.req.op # "rename"
        <4>1. At(new.tree, q) \in {At(d.tree, q), "dir", "none"}
          BY <1>0, <3>3 DEF Serves, NoNewFile
        <4> QED
          BY <2>1, <3>1, <4>1
      <3> QED
        BY <3>2, <3>3
    <2> QED
      BY <2>2, <2>3
  <1> HIDE DEF new, d
  <1> QED
    BY <1>0, <1>1, <1>2, <1>3 DEF NoPiece, Sides, new, d

LEMMA CountedServed ==
    ASSUME FlowInv, CopyInv, NEW e, NEW code, ServesUpload(e, code)
    PROVE  CountedDone'
  <1> DEFINE d == disk["remote"]
             new == disk'["remote"]
  <1>0. /\ e \in asked /\ Serves(d, new, e.req, code) /\ asked' = asked \ {e}
        /\ disk[Dest] = d /\ disk'[Dest'] = new /\ DestTree = d.tree /\ DestTree' = new.tree
        /\ disk'[job'.side] = disk[job.side]
        /\ UNCHANGED <<pc, job, lister>>
    BY DEF ServesUpload, Dest, Other, Upload, DestTree
  <1>1. CountedDone
    BY DEF CopyInv
  <1>2. ASSUME NEW i \in job.files PROVE Done(i)'
    <2> DEFINE q == job.plan[i].dst
    <2>1. Done(i)
      BY <1>1
         DEF CountedDone
    <2>2. ~(e.req.op \in {"remove", "create"} /\ e.req.path = q)
      BY <1>0, <2>1 DEF Done, Pend
    <2>3. At(new.tree, q) = At(d.tree, q)
      BY <1>0, <2>1, <2>2, FileServed DEF Done
    <2>4. ~PartAt(new, q)
      BY <1>0, <2>1, <2>2, PartServed DEF Done
    <2>5. \A ops : Pend(ops, q)' => Pend(ops, q)
      BY <1>0 DEF Pend
    <2> HIDE DEF new, d
    <2> QED
      BY <1>0, <2>1, <2>3, <2>4, <2>5 DEF Done
  <1>3. Walking' => Walking
    BY <1>0 DEF Walking
  <1> QED
    BY <1>0, <1>1, <1>2, <1>3 DEF CountedDone


\* A step of the server or of the connection that changes no file.
LEMMA QuietWait ==
    ASSUME CopyInv, UNCHANGED <<pc, job, lister>>, \A s \in Sides : disk'[s] = disk[s],
           asked' \subseteq asked, sent' = sent, call'.req = call.req,
           Upload => \A code : Said(code)' => Said(code),
           ~Upload /\ pc = "read" => /\ Said("ok")' => job.off < Chunks
                                     /\ Said("eof")' => job.off = Chunks
    PROVE  CopyInv'
  <1>0. /\ (Upload' <=> Upload) /\ Dest' = Dest /\ It' = It /\ \A q : Ahead(q)' <=> Ahead(q)
    BY SameJob
  <1>1. /\ job'.side \in Sides /\ Dest \in Sides /\ disk'[Dest] = disk[Dest]
        /\ disk'[job.side] = disk[job.side]
    BY DEF Sides, Dest, Other, CopyInv
  <1>2. /\ Src' = Src /\ DestTree' = DestTree
        /\ \A n : Holding(n)' <=> Holding(n)
        /\ \A q : Kept(q)' <=> Kept(q)
        /\ \A q : Whole(disk'[Dest'], q) <=> Whole(disk[Dest], q)
        /\ \A q : PartAt(disk'[Dest'], q) <=> PartAt(disk[Dest], q)
    <2>1. Src' = Src /\ DestTree' = DestTree
      BY <1>0, <1>1 DEF Src, DestTree
    <2> QED
      BY <1>0, <1>1, <2>1 DEF Holding, Kept
  <1>3. NoPiece'
    BY DEF CopyInv, NoPiece
  <1>4. OffIsZero'
    BY DEF CopyInv, OffIsZero, Walking
  <1>5. UpStages'
    BY <1>0, <1>2 DEF CopyInv, UpStages
  <1>6. DownStages'
    <2>1. Quiet => Quiet'
      BY DEF Quiet
    <2> QED
      BY <1>0, <1>2, <2>1 DEF CopyInv, DownStages
  <1>7. Pending'
    <2>1. \A ops, q : Pend(ops, q)' => Pend(ops, q)
      BY DEF Pend
    <2>2. \A e \in asked' : Settled(e) => Settled(e)'
      BY <1>0, <1>2, <2>1 DEF Settled
    <2>3. \A q : NotLost(q) => NotLost(q)'
      BY <1>0, <1>2 DEF NotLost
    <2> QED
      BY <1>0, <2>2, <2>3 DEF CopyInv, Pending
  <1>8. CountedDone'
    <2>1. \A ops, q : Pend(ops, q)' => Pend(ops, q)
      BY DEF Pend
    <2>2. \A i : Done(i) => Done(i)'
      BY <1>0, <1>1, <1>2, <2>1 DEF Done
    <2>3. Walking' => Walking
      BY DEF Walking
    <2> QED
      BY <2>2, <2>3 DEF CopyInv, CountedDone
  <1> QED
    BY <1>1, <1>3, <1>4, <1>5, <1>6, <1>7, <1>8 DEF CopyInv

LEMMA ReadSays ==
    ASSUME NEW d, NEW req, req.op = "read"
    PROVE  /\ Effect(d, req).code = "ok" => req.off < Chunks
           /\ Effect(d, req).code = "eof" => ~(req.off < Chunks)
  BY DEF Effect, Says

LEMMA CopyWaits ==
    ASSUME FlowInv, StreamInv', CopyInv, Waits
    PROVE  CopyInv'
  <1>0. StreamInv /\ Tells /\ FineDisk /\ FineAsked /\ sent' = sent /\ call'.req = call.req
    BY WaitCall, StreamShapesCall DEF FlowInv, Serving
  <1>1. CASE ServerStep
    <2>1. PICK e \in asked : \E effect : ServedWith(e, effect)
      BY <1>0, <1>1, ServerFacts
    <2>2. PICK effect : ServedWith(e, effect)
      BY <2>1
    <2>3. \A say : Said(say)' => e.no = sent /\ e.req = call.req /\ effect.code = say /\ call.st = "waiting"
      BY <1>0, <2>2, ServedSaid
    <2>4. CASE Upload
      <3>1. PICK code : ServesUpload(e, code)
        <4>1. ServesUpload(e, effect.code)
          BY <2>2, <2>3, <2>4, ServesOne DEF ServesUpload
        <4> QED
          BY <4>1
      <3>2. GoodSide(disk'["remote"])
        <4>1. GoodSide(disk["remote"])
          BY <1>0 DEF FineDisk, Sides
        <4> QED
          BY <2>2, <4>1, EffectGood DEF ServedWith
      <3>3. OffIsZero' /\ DownStages' /\ job'.side \in Sides
        BY <2>4, <3>1, SameJob DEF ServesUpload, DownStages, CopyInv, OffIsZero, Walking
      <3> QED
        BY <3>1, <3>2, <3>3, PendingServed, StagesServed, PieceServed, CountedServed DEF CopyInv
    <2>5. CASE ~Upload
      <3>1. \A s \in Sides : disk'[s] = disk[s]
        BY <2>5, QuietServer DEF CopyInv, DownStages
      <3>2. ASSUME pc = "read", Said("ok")' \/ Said("eof")'
            PROVE  (Said("ok")' => job.off < Chunks) /\ (Said("eof")' => job.off = Chunks)
        <4>1. e.req = DataReq("read", It.src, job.off) /\ job.off \in 0..Chunks
          BY <2>3, <2>5, <3>2 DEF CopyInv, DownStages
        <4>2. e.req.op = "read" /\ e.req.off = job.off
          BY <4>1, ReqParts
        <4>3. effect.code \in {"ok", "eof"} => effect = Effect(disk["remote"], e.req)
          BY <2>2 DEF ServedWith
        <4> QED
          BY <2>3, <4>1, <4>2, <4>3, ReadSays, ChunksAssumption
      <3>3. UNCHANGED <<pc, job, lister>> /\ asked' \subseteq asked
        BY DEF Waits
      <3> QED
        BY <1>0, <2>5, <3>1, <3>2, <3>3, QuietWait
    <2> QED
      BY <2>4, <2>5
  <1>2. CASE ~ServerStep
    <2>1. UNCHANGED <<pc, job, lister, disk>> /\ asked' \subseteq asked
      BY <1>2 DEF Waits
    <2>2. \A code : Said(code)' => Said(code)
      BY <1>0, <1>2, WaitSaid
    <2>3. ~Upload /\ pc = "read" => /\ Said("ok")' => job.off < Chunks
                                    /\ Said("eof")' => job.off = Chunks
      BY <2>2 DEF CopyInv, DownStages
    <2> QED
      BY <1>0, <2>1, <2>2, <2>3, QuietWait
  <1> QED
    BY <1>1, <1>2


---------------------------------------------------------------------------
\* On the way from the server: a flow changes the local side itself.

LEMMA DownCalm ==
    ASSUME FlowInv, ~Upload, Steps, ~Waits, ~Transfer, ~Back
    PROVE  Calm \/ UNCHANGED asked
  <1>0. Direction /\ CallShaped
    BY StreamShapesCall DEF FlowInv, Moving
  <1>1. CASE Browses \/ LogsIn \/ Plans
    BY <1>1 DEF Browses, LogsIn, Plans, client
  <1>2. CASE Lists
    BY <1>2 DEF Lists, client
  <1>3. CASE OpenFiles \/ Decide
    BY <1>3 DEF OpenFiles, Open, Decide, client
  <1>4. CASE Between \/ MakesDir \/ Uploads \/ Downloads \/ Replaces
    <2>1. pc \notin {"dirstat", "mkdir", "cleanup", "create", "write", "remove", "rename"}
      BY <1>0 DEF Direction
    <2>2. Sent(Req("open", It.src)) => Calm
      BY DEF Calm, Asks, Req, Ops
    <2> QED
      BY <1>4, <2>1, <2>2 DEF Between, StartsFile, MakesDir, Uploads, Downloads, Replaces, Cleans, client
  <1> QED
    BY <1>1, <1>2, <1>3, <1>4 DEF Steps

LEMMA DownQuiet ==
    ASSUME FlowInv, Quiet, ~Upload, Steps, ~Waits, ~Transfer, ~Back
    PROVE  Quiet'
  BY DownCalm, CalmKeepsQuiet DEF Quiet

LEMMA DirsTree ==
    ASSUME NEW d, GoodSide(d), NEW path
    PROVE  NoNewFile(d.tree, MakeDirs(d, path).disk.tree)
  <1> DEFINE prefixes == {SubSeq(path, 1, n) : n \in 1..Len(path)}
             tree == [q \in DOMAIN d.tree \cup prefixes |-> IF q \in prefixes THEN "dir" ELSE d.tree[q]]
  <1>1. NoNewFile(d.tree, d.tree)
    BY DEF NoNewFile
  <1>2. MakeDirs(d, path).disk = d \/ MakeDirs(d, path).disk = [d EXCEPT !.tree = tree]
    BY DEF MakeDirs, Denied, Does
  <1>3. \A q : At(tree, q) \in {At(d.tree, q), "dir", "none"}
    <2>1. \A q \in DOMAIN tree : tree[q] = "dir" \/ (q \in DOMAIN d.tree /\ tree[q] = d.tree[q])
      OBVIOUS
    <2>2. DOMAIN tree = DOMAIN d.tree \cup prefixes
      OBVIOUS
    <2> HIDE DEF tree
    <2> QED
      BY <2>1, <2>2 DEF At
  <1> HIDE DEF tree
  <1>4. [d EXCEPT !.tree = tree].tree = tree
    BY DEF GoodSide
  <1> QED
    BY <1>1, <1>2, <1>3, <1>4 DEF NoNewFile

\* What it does there: a directory, the part of its file, or the file.
NewPart(d, new) ==
    PartAt(new, It.dst) => \/ SamePart(d, new, It.dst)
                           \/ /\ pc = "open" /\ new.part[It.dst].ver = Src /\ Src \in Contents
                              /\ new.part[It.dst].got = 0
                           \/ /\ pc = "read" /\ PartAt(d, It.dst) /\ job.off < Chunks
                              /\ new.part[It.dst].ver = d.part[It.dst].ver
                              /\ new.part[It.dst].got = job.off + 1
ChangesLocal(d, new) ==
    /\ \A q : q # It.dst => SamePart(d, new, q)
    /\ NewPart(d, new)
    /\ \/ Grows(d.tree, new.tree) /\ NoNewFile(d.tree, new.tree)
       \/ pc = "close" /\ Took(d, new, It.dst) /\ Whole(d, It.dst)

LEMMA SameLocal == ASSUME NEW d PROVE ChangesLocal(d, d)
  BY DEF ChangesLocal, SamePart, NewPart, Grows, NoNewFile

LEMMA DownOpens ==
    ASSUME FlowInv, CopyInv, pc = "open", Ok, ~Upload,
           OnLocal(CreatePart(Local, It.dst, At(disk["remote"].tree, It.src))),
           Succeeds(CreatePart(Local, It.dst, At(disk["remote"].tree, It.src)))
    PROVE  /\ ChangesLocal(disk["local"], disk'["local"])
           /\ PartAt(disk'["local"], It.dst) /\ disk'["local"].part[It.dst].ver = Src
           /\ disk'["local"].part[It.dst].got = 0
  <1> DEFINE ver == At(disk["remote"].tree, It.src)
             made == CreatePart(Local, It.dst, ver)
  <1>1. GoodSide(Local)
    BY DEF FlowInv, Serving, FineDisk, Sides, Local
  <1>2. ver = Src
    BY DEF Src, Upload, CopyInv, Sides
  <1>3. ver \in Contents
    <2>1. ver \in FileNodes
      BY OpenTells DEF FlowInv, Moving, Serving
    <2>2. ver # "piece"
      BY DEF CopyInv, NoPiece, Sides, At
    <2> QED
      BY <2>1, <2>2 DEF FileNodes
  <1>4. /\ made.disk.tree = Local.tree /\ SameElsewhere(Local, made.disk, It.dst)
        /\ made.code = "ok" => /\ PartAt(made.disk, It.dst)
                               /\ made.disk.part[It.dst].ver = ver /\ made.disk.part[It.dst].got = 0
    BY <1>1, CreateAt
  <1>5. made.code = "ok" /\ disk'["local"] = made.disk
    BY LocalOnly DEF Succeeds, FlowInv, Serving
  <1> HIDE DEF ver, made
  <1> QED
    BY <1>2, <1>3, <1>4, <1>5
       DEF ChangesLocal, NewPart, SameElsewhere, Grows, NoNewFile, Local

LEMMA DownReads ==
    ASSUME FlowInv, CopyInv, pc = "read", Ok, ~Upload, OnLocal(WritePart(Local, It.dst, job.off))
    PROVE  /\ ChangesLocal(disk["local"], disk'["local"])
           /\ job.off < Chunks /\ job.off \in Nat
           /\ PartAt(disk'["local"], It.dst) /\ disk'["local"].part[It.dst].ver = Src
           /\ disk'["local"].part[It.dst].got = job.off + 1
  <1> DEFINE new == WritePart(Local, It.dst, job.off).disk
  <1>1. GoodSide(Local) /\ disk'["local"] = new
    BY LocalOnly DEF FlowInv, Serving, FineDisk, Sides, Local
  <1>2. /\ Dest = "local" /\ Holding(job.off) /\ job.off < Chunks /\ job.off \in Nat
    BY OkIsSaid, ChunksAssumption DEF CopyInv, DownStages, Dest, Other, Upload
  <1>3. PartAt(Local, It.dst) /\ Local.part[It.dst].got = job.off /\ Local.part[It.dst].ver = Src
    BY <1>2 DEF Holding, Local
  <1>4. /\ new.tree = Local.tree /\ SameElsewhere(Local, new, It.dst) /\ PartAt(new, It.dst)
        /\ new.part[It.dst].ver = Local.part[It.dst].ver /\ new.part[It.dst].got = job.off + 1
    BY <1>1, <1>3, WriteAt
  <1> HIDE DEF new
  <1> QED
    BY <1>1, <1>2, <1>3, <1>4 DEF ChangesLocal, NewPart, SameElsewhere, Grows, NoNewFile, Local

LEMMA DownRenames ==
    ASSUME FlowInv, CopyInv, pc = "close", ~Upload, OnLocal(RenameLocal(Local, It.dst)),
           Succeeds(RenameLocal(Local, It.dst))
    PROVE  /\ ChangesLocal(disk["local"], disk'["local"])
           /\ Took(disk["local"], disk'["local"], It.dst)
           /\ At(disk'["local"].tree, It.dst) = Src /\ Src \in Contents
  <1> DEFINE new == RenameLocal(Local, It.dst).disk
  <1>1. disk'["local"] = new
    BY LocalOnly DEF FlowInv, Serving
  <1>2. Took(Local, new, It.dst)
    BY RenameAt DEF Succeeds
  <1>3. Dest = "local" /\ Holding(Chunks)
    BY DEF CopyInv, DownStages, Dest, Other, Upload
  <1>4. Whole(Local, It.dst) /\ Local.part[It.dst].ver = Src /\ Src \in Contents
    BY <1>3, HoldingIsWhole DEF Holding, Local, CopyInv, NoPiece, Sides, PartAt
  <1> HIDE DEF new
  <1> QED
    BY <1>1, <1>2, <1>4 DEF ChangesLocal, NewPart, Took, SameElsewhere, Local

LEMMA DownCleans ==
    ASSUME FlowInv, OnLocal(RemovePart(Local, It.dst))
    PROVE  ChangesLocal(disk["local"], disk'["local"])
  <1> DEFINE new == RemovePart(Local, It.dst).disk
  <1>1. GoodSide(Local) /\ disk'["local"] = new
    BY LocalOnly DEF FlowInv, Serving, FineDisk, Sides, Local
  <1>2. new.tree = Local.tree /\ SameElsewhere(Local, new, It.dst) /\ ~PartAt(new, It.dst)
    BY <1>1, DiscardAt
  <1> HIDE DEF new
  <1> QED
    BY <1>1, <1>2 DEF ChangesLocal, NewPart, SameElsewhere, Grows, NoNewFile, Local

LEMMA DownMakesDirs ==
    ASSUME FlowInv, OnLocal(MakeDirs(Local, It.dst))
    PROVE  ChangesLocal(disk["local"], disk'["local"])
  <1> DEFINE new == MakeDirs(Local, It.dst).disk
  <1>1. GoodSide(Local) /\ disk'["local"] = new
    BY LocalOnly DEF FlowInv, Serving, FineDisk, Sides, Local
  <1>2. SameParts(Local, new) /\ NoNewFile(Local.tree, new.tree) /\ Grows(Local.tree, new.tree)
    BY <1>1, DirsAt, DirsTree, MakeDirsGood
  <1> HIDE DEF new
  <1> QED
    BY <1>1, <1>2 DEF ChangesLocal, NewPart, SameParts, Local

LEMMA DownLocal ==
    ASSUME FlowInv, CopyInv, ~Upload, Steps, ~Waits, ~Transfer, ~Back
    PROVE  /\ disk'["remote"] = disk["remote"]
           /\ ChangesLocal(disk["local"], disk'["local"])
  <1>0. disk'["remote"] = disk["remote"]
    BY LocalSteps DEF LocalStep
  <1>1. UNCHANGED disk => ChangesLocal(disk["local"], disk'["local"])
    BY SameLocal
  <1>2. Cleans => ChangesLocal(disk["local"], disk'["local"])
    BY <1>1, DownCleans DEF Cleans
  <1>3. CASE \/ Browses \/ LogsIn \/ Plans \/ Lists \/ MakesDir \/ OpenFiles \/ Decide
    BY <1>0, <1>1, <1>3 DEF Browses, LogsIn, Plans, Lists, MakesDir, OpenFiles, Decide
  <1>4. CASE Between
    BY <1>0, <1>1, <1>2, <1>4, DownMakesDirs DEF Between, StartsFile
  <1>5. CASE Uploads
    BY <1>0, <1>1, <1>2, <1>5 DEF Uploads
  <1>6. CASE Downloads
    BY <1>0, <1>1, <1>2, <1>6, DownOpens, DownReads DEF Downloads
  <1>7. CASE Replaces
    BY <1>0, <1>1, <1>2, <1>7, DownRenames DEF Replaces
  <1> QED
    BY <1>3, <1>4, <1>5, <1>6, <1>7 DEF Steps


LEMMA DownPiece ==
    ASSUME FlowInv, FineDisk', CopyInv, ~Upload, Steps, ~Waits, ~Transfer, ~Back
    PROVE  NoPiece'
  <1> DEFINE d == disk["local"]
             new == disk'["local"]
  <1>1. /\ disk'["remote"] = disk["remote"] /\ ChangesLocal(d, new)
        /\ GoodSide(d) /\ GoodSide(new) /\ NoPiece
    BY DownLocal DEF CopyInv, FlowInv, Serving, FineDisk, Sides
  <1>2. /\ \A q \in DOMAIN d.tree : d.tree[q] # "piece"
        /\ \A q \in DOMAIN d.part : d.part[q].ver \in Contents /\ d.part[q].got \in 0..Chunks
    BY <1>1 DEF NoPiece, Sides
  <1>3. \A e \in asked' : e.req.op = "create" => e \in asked
    BY DownCalm DEF Calm, Asks, Sent, client
  <1> HIDE DEF d, new
  <1>4. ASSUME NEW q \in DOMAIN new.part
        PROVE  new.part[q].ver \in Contents /\ new.part[q].got \in 0..Chunks
    <2>1. CASE SamePart(d, new, q)
      BY <1>2, <1>4, <2>1 DEF SamePart, PartAt
    <2>2. CASE ~SamePart(d, new, q)
      <3>1. q = It.dst /\ NewPart(d, new) /\ PartAt(new, It.dst)
        BY <1>1, <1>4, <2>2 DEF ChangesLocal, PartAt
      <3>2. CASE pc = "open"
        BY <2>2, <3>1, <3>2, ChunksAssumption DEF NewPart
      <3>3. CASE pc = "read"
        <4>1. q \in DOMAIN d.part /\ job.off < Chunks /\ job.off \in 0..Chunks
          BY <2>2, <3>1, <3>3 DEF NewPart, PartAt, CopyInv, DownStages
        <4>2. job.off + 1 \in 0..Chunks
          BY <4>1, ChunksAssumption
        <4> QED
          BY <1>2, <2>2, <3>1, <3>3, <4>1, <4>2 DEF NewPart
      <3> QED
        BY <2>2, <3>1, <3>2, <3>3 DEF NewPart
    <2> QED
      BY <2>1, <2>2
  <1>5. ASSUME NEW q \in DOMAIN new.tree PROVE new.tree[q] # "piece"
    <2>1. At(d.tree, q) # "piece"
      BY <1>2 DEF At
    <2>2. q # <<>> \/ new.tree[q] = "dir"
      BY <1>1, <1>5 DEF GoodSide, GoodTree
    <2>3. q # <<>> => At(new.tree, q) = new.tree[q]
      BY <1>5 DEF At
    <2>4. CASE NoNewFile(d.tree, new.tree)
      <3>1. At(new.tree, q) \in {At(d.tree, q), "dir", "none"}
        BY <2>4 DEF NoNewFile
      <3> QED
        BY <2>1, <2>2, <2>3, <3>1
    <2>5. CASE Took(d, new, It.dst) /\ Whole(d, It.dst)
      <3>1. d.part[It.dst].ver \in Contents
        BY <1>2, <2>5 DEF Took, PartAt
      <3>2. At(new.tree, q) \in {At(d.tree, q), d.part[It.dst].ver}
        BY <2>5 DEF Took, SameElsewhere
      <3> QED
        BY <2>1, <2>2, <2>3, <3>1, <3>2, ContentsAssumption
    <2> QED
      BY <1>1, <2>4, <2>5 DEF ChangesLocal
  <1> QED
    BY <1>1, <1>3, <1>4, <1>5 DEF NoPiece, Sides, d, new

\* Nothing that was there is lost on the way from the server.
LEMMA DownKeeps ==
    ASSUME FlowInv, CopyInv, ~Upload, Steps, ~Waits, ~Transfer, ~Back, NEW q
    PROVE  Kept(q)'
  <1> DEFINE d == disk["local"]
             new == disk'["local"]
  <1>1. /\ ChangesLocal(d, new) /\ DestTree = d.tree /\ DestTree' = new.tree /\ job'.before = job.before
        /\ Kept(q)
    BY DownLocal, SameTasks DEF DestTree, Dest, Other, Upload, CopyInv, DownStages
  <1>2. \A r \in DOMAIN d.part : d.part[r].ver \in Contents
    BY DEF CopyInv, NoPiece, Sides
  <1> HIDE DEF d, new
  <1>3. At(d.tree, q) \in Contents => At(new.tree, q) \in Contents
    <2>1. "none" \notin Contents
      BY ContentsAssumption
    <2>2. CASE Grows(d.tree, new.tree)
      BY <2>1, <2>2 DEF Grows
    <2>3. CASE Took(d, new, It.dst) /\ Whole(d, It.dst)
      BY <1>2, <2>3 DEF Took, SameElsewhere, PartAt
    <2> QED
      BY <1>1, <2>2, <2>3 DEF ChangesLocal
  <1> QED
    BY <1>1, <1>3 DEF Kept

LEMMA DownStagesStep ==
    ASSUME FlowInv, CopyInv, ~Upload, Steps, ~Waits, ~Transfer, ~Back
    PROVE  DownStages'
  <1>0. /\ Quiet' /\ \A q : Kept(q)'
    BY DownQuiet, DownKeeps DEF CopyInv, DownStages
  <1>1. /\ disk'["remote"] = disk["remote"] /\ job'.side = job.side /\ Dest' = Dest /\ Dest = "local"
        /\ job.side = "remote" /\ StreamInv /\ JobShaped
    BY DownLocal, SameTasks DEF Dest, Other, Upload, CopyInv, Sides, FlowInv, Moving
  <1>2. CASE pc' \notin {"read", "close"}
    BY <1>0, <1>2 DEF DownStages
  <1>3. CASE pc' \in {"read", "close"}
    <2>1. Downloads /\ pc \in {"open", "read"} /\ ~Cleans
      <3>1. ~Cleans
        BY <1>3 DEF Cleans, Leaves, Advances
      <3>2. pc \notin {"create", "write"}
        BY DEF FlowInv, Moving, Direction
      <3>3. Decide => Decides
        BY DecideTable DEF FlowInv, Moving
      <3> QED
        BY <1>3, <3>1, <3>2, <3>3 DEF Steps, Browses, LogsIn, Lists, Plans, Between, StartsFile, MakesDir, Uploads,
              Replaces, Counts, Leaves, Advances, OpenFiles, Decides, Downloads
    <2>2. job'.plan = job.plan /\ job'.at = job.at
      BY <1>1, <2>1, StaysAtItem DEF Downloads
    <2>3. It' = It /\ Src' = Src
      <3>1. It' = It
        BY <2>2 DEF It
      <3> QED
        BY <1>1, <3>1 DEF Src
    <2>4. CASE pc = "open"
      <3>1. /\ pc' = "read" /\ Ok /\ UNCHANGED job /\ Sent(DataReq("read", It.src, 0))
            /\ OnLocal(CreatePart(Local, It.dst, At(disk["remote"].tree, It.src)))
            /\ Succeeds(CreatePart(Local, It.dst, At(disk["remote"].tree, It.src)))
        BY <2>1, <2>4 DEF Downloads
      <3>2. job.off = 0 /\ 0 \in 0..Chunks
        BY <2>4, ChunksAssumption DEF CopyInv, OffIsZero
      <3>3. Holding(0)'
        BY <1>1, <2>3, <2>4, <3>1, DownOpens DEF Holding
      <3>4. call'.req = DataReq("read", It.src, 0) /\ \A code : ~Said(code)'
        BY <1>1, <3>1, SentSaysNothing DEF Sent
      <3>5. job'.off = 0
        BY <3>1, <3>2
      <3> QED
        BY <1>0, <2>3, <3>1, <3>2, <3>3, <3>4, <3>5 DEF DownStages
    <2>5. CASE pc = "read" /\ pc' = "read"
      <3>1. /\ Ok /\ job'.off = job.off + 1 /\ Sent(DataReq("read", It.src, job.off + 1))
            /\ OnLocal(WritePart(Local, It.dst, job.off))
        BY <2>1, <2>5 DEF Downloads
      <3>2. /\ job.off < Chunks /\ job.off \in Nat
            /\ PartAt(disk'["local"], It.dst) /\ disk'["local"].part[It.dst].ver = Src
            /\ disk'["local"].part[It.dst].got = job.off + 1
        BY <2>5, <3>1, DownReads
      <3>3. PICK n : n = job.off + 1
        OBVIOUS
      <3>4. Holding(n)' /\ n \in 0..Chunks
        BY <1>1, <2>3, <3>2, <3>3, ChunksAssumption DEF Holding
      <3>5. call'.req = DataReq("read", It.src, n) /\ \A code : ~Said(code)'
        BY <1>1, <3>1, <3>3, SentSaysNothing DEF Sent
      <3> QED
        BY <1>0, <2>3, <2>5, <3>1, <3>3, <3>4, <3>5 DEF DownStages
    <2>6. CASE pc = "read" /\ pc' = "close"
      <3>1. Got({"eof"}) /\ UNCHANGED <<job, disk>>
        BY <2>1, <2>6 DEF Downloads
      <3>2. job.off = Chunks /\ Holding(job.off)
        BY <2>6, <3>1, OkIsSaid DEF CopyInv, DownStages
      <3>3. Holding(Chunks)'
        BY <1>1, <2>3, <3>1, <3>2 DEF Holding
      <3> QED
        BY <1>0, <2>6, <3>3 DEF DownStages
    <2> QED
      BY <1>3, <2>1, <2>4, <2>5, <2>6 DEF Downloads
  <1> QED
    BY <1>2, <1>3

\* What was counted lies behind the file the flow is at.
LEMMA BehindFile ==
    ASSUME FlowInv, PlanFits, pc \in FilePcs, NEW i, Done(i)
    PROVE  job.plan[i].dst # It.dst
  <1>1. i \in DOMAIN job.plan /\ i < job.at /\ job.at \in DOMAIN job.plan
    BY ItemInPlan DEF Done, Copying
  <1>2. i \in Nat /\ job.at \in Nat /\ i # job.at
    BY <1>1, Places
  <1> QED
    BY <1>1, <1>2, OneDestination DEF It

LEMMA DownDone ==
    ASSUME FlowInv, Apart, CopyInv, ~Upload, Steps, ~Waits, ~Transfer, ~Back, ~Plans, ~Decide,
           NEW i \in job.files
    PROVE  Done(i)'
  <1> DEFINE d == disk["local"]
             new == disk'["local"]
             q == job.plan[i].dst
  <1>0. PlanFits /\ Done(i)
    BY DEF Apart, CopyInv, CountedDone
  <1>1. /\ ChangesLocal(d, new) /\ DestTree = d.tree /\ DestTree' = new.tree /\ disk[Dest] = d /\ disk'[Dest'] = new
        /\ disk'[job'.side] = disk[job.side]
    BY DownLocal, SameTasks DEF DestTree, Dest, Other, Upload, CopyInv, Sides
  <1>2. Quiet'
    BY DownQuiet DEF CopyInv, DownStages
  <1>3. /\ i \in DOMAIN job'.plan /\ job'.plan[i] = job.plan[i]
        /\ ~job'.plan[i].dir /\ ~job'.plan[i].skip
        /\ pc' \in Copying => i < job'.at
    BY <1>0, StillBehind
  <1>4. pc \in FilePcs => q # It.dst
    BY <1>0, BehindFile
  <1>5. At(d.tree, q) \in Contents /\ ~PartAt(d, q) /\ At(d.tree, q) = At(disk[job.side].tree, job.plan[i].src)
    BY <1>0, <1>1 DEF Done
  <1> HIDE DEF d, new, q
  <1>6. At(new.tree, q) = At(d.tree, q)
    <2>1. CASE Grows(d.tree, new.tree)
      BY <1>5, <2>1, ContentsAssumption DEF Grows
    <2>2. CASE pc = "close" /\ Took(d, new, It.dst)
      BY <1>4, <2>2 DEF Took, SameElsewhere, FilePcs
    <2> QED
      BY <1>1, <2>1, <2>2 DEF ChangesLocal
  <1>7. ~PartAt(new, q)
    <2>1. SamePart(d, new, q) => ~PartAt(new, q)
      BY <1>5 DEF SamePart
    <2>2. CASE q # It.dst
      BY <1>1, <2>1, <2>2 DEF ChangesLocal
    <2>3. CASE q = It.dst
      <3>1. pc \notin {"open", "read"}
        BY <1>4, <2>3 DEF FilePcs
      <3> QED
        BY <1>1, <2>1, <2>3, <3>1 DEF ChangesLocal, NewPart
    <2> QED
      BY <2>2, <2>3
  <1>8. ~Pend({"remove", "create"}, q)'
    BY <1>2 DEF Pend, Quiet, Mutating
  <1>9. job'.plan[i].dst = q
    BY <1>3 DEF q
  <1>10. ~Pend({"remove", "create"}, job.plan[i].dst)'
    BY <1>8, <1>2 DEF Pend, Quiet, Mutating
  <1> QED
    BY <1>1, <1>3, <1>5, <1>6, <1>7, <1>9, <1>10 DEF Done

LEMMA DownCounted ==
    ASSUME FlowInv, Apart, CopyInv, ~Upload, Steps, ~Waits, ~Transfer, ~Back
    PROVE  CountedDone'
  <1>0. PlanFits /\ CountedDone
    BY DEF Apart, CopyInv
  <1>2. Walking' => job'.files = {}
    BY <1>0, FirstFiles DEF CountedDone
  <1>3. CASE Plans \/ Decide
    <2>1. Walking /\ job'.files = job.files
      <3>1. Decide => Decides
        BY DecideTable DEF FlowInv, Moving
      <3> QED
        BY <1>3, <3>1 DEF Plans, SameTask, Decides, Walking, ListPcs
    <2> QED
      BY <1>0, <1>2, <2>1 DEF CountedDone
  <1>4. CASE ~Plans /\ ~Decide
    <2>2. \A i \in job.files : Done(i)'
      <3>1. ASSUME NEW i \in job.files PROVE Done(i)'
        BY <1>4, <3>1, DownDone
      <3> QED
        BY <3>1
    <2>3. CASE job'.files = job.files
      BY <1>2, <2>2, <2>3 DEF CountedDone
    <2>4. CASE job'.files # job.files
      <3>1. /\ Counts /\ pc = "close"
            /\ Succeeds(RenameLocal(Local, It.dst)) /\ OnLocal(RenameLocal(Local, It.dst))
        BY <1>4, <2>4, FilesGrow DEF FlowInv, Moving, Direction
      <3>2. /\ Took(disk["local"], disk'["local"], It.dst)
            /\ At(disk'["local"].tree, It.dst) = Src /\ Src \in Contents
        BY <3>1, DownRenames
      <3>3. /\ job'.plan = job.plan /\ job'.files = job.files \cup {job.at} /\ job'.at = job.at + 1
            /\ job.at \in DOMAIN job.plan /\ ~It.dir /\ ~It.skip
        BY <3>1 DEF Counts, Advances, SamePlan, FlowInv, Moving, AtFile, FilePcs
      <3>4. /\ Dest' = "local" /\ disk'[job'.side] = disk["remote"] /\ job.side = "remote"
        BY DownLocal, SameTasks DEF Dest, Other, Upload, CopyInv, Sides
      <3>5. Quiet'
        BY DownQuiet DEF CopyInv, DownStages
      <3>n. PICK n : n = job.at
        OBVIOUS
      <3>6. n \in Nat /\ n < n + 1
        BY <1>0, <3>3, <3>n, Places
      <3>7. ~Pend({"remove", "create"}, It.dst)'
        BY <3>5 DEF Pend, Quiet, Mutating
      <3>8. /\ It.dst = job.plan[n].dst /\ job'.plan[n] = job.plan[n] /\ Src = At(disk["remote"].tree, job.plan[n].src)
            /\ ~job.plan[n].dir /\ ~job.plan[n].skip /\ n \in DOMAIN job.plan
        BY <3>3, <3>4, <3>n DEF It, Src
      <3>9. ~Pend({"remove", "create"}, job.plan[n].dst)'
        BY <3>5 DEF Pend, Quiet, Mutating
      <3>10. Done(n)'
        BY <3>2, <3>3, <3>4, <3>6, <3>8, <3>9, <3>n DEF Done, DestTree, Took
      <3> QED
        BY <1>2, <2>2, <3>3, <3>n, <3>10 DEF CountedDone
    <2> QED
      BY <2>3, <2>4
  <1> QED
    BY <1>3, <1>4

LEMMA CopyFetched ==
    ASSUME FlowInv, FineDisk', Apart, CopyInv, ~Upload, Steps, ~Waits, ~Transfer, ~Back
    PROVE  CopyInv'
  <1>1. NoPiece' /\ DownStages' /\ CountedDone' /\ OffIsZero'
    BY DownPiece, DownStagesStep, DownCounted, OffStep DEF CopyInv
  <1>2. UpStages' /\ Pending' /\ job'.side \in Sides
    BY SameTasks DEF UpStages, Pending, CopyInv
  <1> QED
    BY <1>1, <1>2 DEF CopyInv

---------------------------------------------------------------------------
\* A transfer begins, or the browser is left.

LEMMA CopyStarts ==
    ASSUME FlowInv, FineDisk', Apart, CopyInv, Transfer PROVE CopyInv'
  <1>1. Starts
    BY TransferTable
  <1>2. job'.side \in Sides
    BY <1>1 DEF Starts, Apart, BrowserFits
  <1>3. /\ UNCHANGED disk /\ asked' = asked /\ pc' = "visit" /\ Quiet /\ Quiet'
    <2>1. pc = "idle" /\ link # "closed" /\ UNCHANGED <<client, disk>> /\ pc' = "visit"
      BY <1>1 DEF Starts
    <2>2. asked' = asked
      BY <2>1 DEF client
    <2>3. Quiet
      BY <2>1 DEF FlowInv, Serving, QuietWhen, Copying, FilePcs
    <2> QED
      BY <2>1, <2>2, <2>3 DEF Quiet
  <1>4. Dest' = Other(focus) /\ DestTree' = job'.before /\ GoodTree(job'.before)
    <2>1. Dest' = Other(focus) /\ DestTree' = disk[Other(focus)].tree /\ job'.before = disk[Other(focus)].tree
      BY <1>1, <1>3 DEF Starts, Dest, DestTree
    <2>2. Other(focus) \in Sides
      BY DEF Other, Sides
    <2> QED
      BY <2>1, <2>2 DEF FlowInv, Serving, FineDisk, GoodSide
  <1>5. \A q : Kept(q)'
    <2>1. \A r \in DOMAIN job'.before : job'.before[r] \in Contents => At(job'.before, r) \in Contents
      BY <1>4, ContentsAssumption DEF At, GoodTree
    <2> QED
      BY <1>4, <2>1 DEF Kept
  <1>6. NoPiece' /\ OffIsZero'
    BY <1>1, <1>3 DEF Starts, CopyInv, NoPiece, OffIsZero
  <1>7. UpStages' /\ DownStages'
    BY <1>3, <1>5 DEF UpStages, DownStages
  <1>8. Pending'
    <2>1. \A e \in asked' : Settled(e)'
      BY <1>3 DEF Settled, Quiet, Mutating
    <2> QED
      BY <1>5, <2>1 DEF Pending, NotLost
  <1>9. CountedDone'
    BY <1>1 DEF Starts, CountedDone
  <1> QED
    BY <1>2, <1>6, <1>7, <1>8, <1>9 DEF CopyInv

LEMMA CopyLeft ==
    ASSUME FlowInv, Apart, CopyInv, Back PROVE CopyInv'
  <1>1. /\ pc = "idle" /\ pc' = "menu" /\ UNCHANGED <<disk, lister>> /\ job' = EmptyJob /\ asked' = asked
    BY DEF Back, Drop, client
  <1>2. /\ job'.side = "local" /\ job'.before = <<>> /\ job'.files = {} /\ job'.off = 0
    BY <1>1 DEF EmptyJob
  <1>3. Upload' /\ Dest' = "remote"
    BY <1>2 DEF Upload, Dest, Other
  <1>4. \A q : Kept(q)'
    BY <1>2 DEF Kept
  <1>5. \A q : ~Ahead(q)'
    BY <1>1 DEF Ahead, Copying, FilePcs
  <1>6. NoPiece' /\ OffIsZero' /\ UpStages' /\ DownStages' /\ CountedDone'
    BY <1>1, <1>2, <1>3 DEF CopyInv, NoPiece, OffIsZero, UpStages, DownStages, CountedDone
  <1>7. Pending'
    <2>1. CASE Upload
      <3>1. \A q : (Whole(disk'[Dest'], q) <=> Whole(disk[Dest], q)) /\ (PartAt(disk'[Dest'], q) <=> PartAt(disk[Dest], q))
        BY <1>1, <1>3, <2>1 DEF Dest, Other, Upload
      <3>2. \A ops, q : Pend(ops, q)' <=> Pend(ops, q)
        BY <1>1 DEF Pend
      <3>3. \A e \in asked' : Settled(e)'
        BY <1>1, <1>4, <1>5, <2>1, <3>1, <3>2 DEF CopyInv, Pending, Settled
      <3> QED
        BY <1>4, <3>3 DEF Pending, NotLost
    <2>2. CASE ~Upload
      <3>1. \A e \in asked' : Settled(e)'
        BY <1>1, <2>2 DEF CopyInv, DownStages, Quiet, Mutating, Settled
      <3> QED
        BY <1>4, <3>1 DEF Pending, NotLost
    <2> QED
      BY <2>1, <2>2
  <1> QED
    BY <1>2, <1>6, <1>7 DEF CopyInv, Sides

LEMMA CopyInitially == Init => CopyInv
  <1> SUFFICES ASSUME Init PROVE CopyInv
    OBVIOUS
  <1>1. /\ pc = "menu" /\ asked = {} /\ job = EmptyJob
        /\ \E world \in Worlds : disk = [s \in Sides |-> [tree |-> world[s], part |-> <<>>]]
    BY DEF Init
  <1>2. /\ job.side = "local" /\ job.before = <<>> /\ job.files = {} /\ job.off = 0
    BY <1>1 DEF EmptyJob
  <1>3. NoPiece
    <2>1. PICK world \in Worlds : disk = [s \in Sides |-> [tree |-> world[s], part |-> <<>>]]
      BY <1>1
    <2>2. ASSUME NEW s \in Sides PROVE disk[s].part = <<>> /\ \A q \in DOMAIN disk[s].tree : disk[s].tree[q] # "piece"
      <3>1. disk[s].tree = world[s] /\ disk[s].part = <<>>
        BY <2>1
      <3> QED
        BY <3>1, WorldsAssumption, ContentsAssumption
    <2> QED
      BY <1>1, <2>2 DEF NoPiece
  <1>4. \A q : Kept(q) /\ ~Ahead(q)
    BY <1>1, <1>2 DEF Kept, Ahead, Copying, FilePcs
  <1> QED
    BY <1>1, <1>2, <1>3, <1>4
    DEF CopyInv, Sides, OffIsZero, UpStages, DownStages, Upload, Pending, NotLost, CountedDone

LEMMA CopyStep == FlowInv /\ Apart /\ CopyInv /\ [Next]_vars => CopyInv'
  <1> SUFFICES ASSUME FlowInv, Apart, CopyInv, [Next]_vars PROVE CopyInv'
    OBVIOUS
  <1>1. StreamInv' /\ FineDisk' /\ Steps
    <2>1. FlowInv'
      BY FlowStays
    <2>2. DOMAIN lister = ListFields /\ CallShaped /\ JobShaped
      BY StreamShapesCall DEF FlowInv, StreamInv, Shaped, Moving
    <2> QED
      BY <2>1, <2>2, StepTable DEF FlowInv, Serving
  <1>2. CASE Waits
    BY <1>1, <1>2, CopyWaits
  <1>3. CASE Transfer
    BY <1>1, <1>3, CopyStarts
  <1>4. CASE Back
    BY <1>4, CopyLeft
  <1>5. CASE ~Waits /\ ~Transfer /\ ~Back
    BY <1>1, <1>5, UploadSent, CopyFetched
  <1> QED
    BY <1>2, <1>3, <1>4, <1>5

LEMMA CopyHolds == Spec => []CopyInv
  <1> QED
    BY CopyInitially, CopyStep, FlowHolds, ApartHolds, PTL DEF Spec

\* Where a file was to be replaced there is at any moment the old one, the new
\* one or a whole copy of the new one beside it, whatever is refused, lost or
\* late on the way (copy_file).
THEOREM NothingReplacedIsLost == Spec => []ReplacedNotLost
  <1>1. CopyInv => ReplacedNotLost
    BY DEF CopyInv, Pending, NotLost, DownStages, Kept, ReplacedNotLost
  <1> QED
    BY <1>1, CopyHolds, PTL

\* A file the summary counts is whole under its own name, and stays so (run,
\* copy_file, upload, download).
THEOREM CountedFilesAreWhole == Spec => []CountedIsWhole
  <1>1. CopyInv => CountedIsWhole
    BY DEF CopyInv, CountedDone, Done, CountedIsWhole
  <1> QED
    BY <1>1, CopyHolds, PTL

---------------------------------------------------------------------------
\* What the flows ask and what they are told is of the kinds FileRequests and
\* FileReplies list.

AtDir == pc \in {"dirstat", "mkdir"} => job.at \in DOMAIN job.plan /\ It.dir

LEMMA DirStep ==
    ASSUME FlowInv, PlanFits, AtDir, Steps PROVE AtDir'
  <1>1. CASE pc' \in {"dirstat", "mkdir"}
    <2>1. /\ UNCHANGED job
          /\ pc \in {"dirstat", "mkdir"} \/ (pc = "item" /\ AtItem /\ It.dir)
      <3>1. ~Transfer /\ ~Decide /\ ~Back
        BY <1>1, DecideTable DEF Transfer, Decides, Back, FlowInv, Moving
      <3> QED
        BY <1>1, <3>1 DEF Steps, Browses, LogsIn, Lists, Plans, Between, StartsFile, MakesDir, Uploads, Downloads,
              Replaces, Waits, OpenFiles, Cleans, Counts, Leaves, Advances
    <2>2. job.at \in DOMAIN job.plan /\ It.dir
      BY <2>1, ItemInPlan DEF AtDir
    <2> QED
      BY <2>1, <2>2 DEF AtDir, It
  <1> QED
    BY <1>1 DEF AtDir

Asking == \E req \in FileRequests : Issue(req)
Speaks == Asking \/ UNCHANGED client

LEMMA PlainTyped ==
    ASSUME NEW op \in Ops, NEW path \in Paths, NEW off \in 0..Chunks, NEW ver \in Contents
    PROVE  /\ Req(op, path) \in FileRequests
           /\ [Req(op, path) EXCEPT !.off = off] \in FileRequests
           /\ [Req(op, path) EXCEPT !.ver = ver] \in FileRequests
  <1>1. 0 \in 0..Chunks
    BY ChunksAssumption
  <1> QED
    BY <1>1 DEF Req, FileRequests

LEMMA AskTyped ==
    ASSUME NEW path \in Paths, NEW op \in Ops, NEW next, Ask(op, path, next) PROVE Asking
  <1>1. Req(op, path) \in FileRequests
    BY ChunksAssumption DEF Req, FileRequests
  <1> QED
    BY <1>1 DEF Ask, Asking

LEMMA DataTyped ==
    ASSUME NEW path \in Paths, NEW off \in 0..Chunks, NEW ver \in Contents, NEW next
    PROVE  AskWrite(path, off, next) \/ AskRead(path, off, next) \/ AskCreate(path, ver, next) => Asking
  <1>1. {"write", "read", "create"} \subseteq Ops
    BY DEF Ops
  <1> QED
    BY <1>1, PlainTyped DEF AskWrite, AskRead, AskCreate, Asking

LEMMA ListTyped ==
    ASSUME NEW path \in Paths, NEW then
    PROVE  (ListDir(path, then) => Asking) /\ (ListRemote(path) => Speaks)
  BY AskTyped DEF ListDir, ListRemote, Ops, Speaks

LEMMA CleanUpTyped ==
    ASSUME It.dst \in Paths, NEW out, NEW cost, CleanUp(out, cost) PROVE Speaks
  BY AskTyped DEF CleanUp, Ops, Speaks

LEMMA KeysAsk ==
    ASSUME BrowserFits, KeyStep, ~Back PROVE Speaks
  <1>1. CASE SwitchPane \/ MoveCursor \/ ToggleMark \/ Transfer \/ Decide
    BY <1>1 DEF SwitchPane, MoveCursor, ToggleMark, Transfer, Decide, Speaks
  <1>2. CASE OpenSelected \/ GoUp
    <2>1. PICK cwd \in Paths : Go(cwd)
      BY <1>2, GoesSomewhere
    <2> QED
      BY <2>1, ListTyped DEF Go, GoLocal, Speaks
  <1>3. CASE Refresh
    <2>1. panes["remote"].cwd \in Paths
      BY DEF BrowserFits, FitPane, PaneSet, Sides
    <2> QED
      BY <1>3, <2>1, ListTyped DEF Refresh
  <1> QED
    BY <1>1, <1>2, <1>3 DEF KeyStep

LEMMA ListingsAsk ==
    ASSUME BrowserFits, ListerFits, ~Drop,
           Login \/ FallBack \/ FirstListing \/ Opendir \/ Readdir \/ Closedir \/ ListingShown
    PROVE  Speaks
  <1>1. StartDir("remote") \in Paths /\ <<>> \in Paths
    BY RootIsPath DEF StartDir, BrowserFits, Sides
  <1>2. lister.path \in Paths
    BY DEF ListerFits
  <1>3. {"realpath", "readdir", "close"} \subseteq Ops
    BY DEF Ops
  <1>4. CASE Login \/ FallBack \/ FirstListing
    BY <1>1, <1>3, <1>4, AskTyped, ListTyped DEF Login, FallBack, FirstListing, Speaks
  <1>5. CASE Opendir \/ Readdir \/ Closedir \/ ListingShown
    BY <1>2, <1>3, <1>5, AskTyped DEF Opendir, Readdir, Closedir, ListingShown, DropIfFatal, Speaks
  <1> QED
    BY <1>4, <1>5

LEMMA PlansAsk ==
    ASSUME TodoFits, \/ VisitLocalDir \/ VisitRemoteDir \/ VisitLink \/ VisitFile \/ Sized
                     \/ ExistsAnswered \/ PlanDone \/ AllDecided
    PROVE  Speaks
  <1>1. pc = "visit" /\ job.todo # <<>> => Todo.src \in Paths /\ Todo.dst \in Paths
    BY HeadAndTail, HavePaths DEF TodoFits, Visiting, Todo
  <1>2. CASE VisitRemoteDir
    BY <1>1, <1>2, ListTyped DEF VisitRemoteDir, Speaks
  <1>3. CASE VisitFile
    <2>1. "stat" \in Ops
      BY DEF Ops
    <2> QED
      BY <1>1, <1>3, <2>1, AskTyped DEF VisitFile, Speaks
  <1>4. CASE \/ VisitLocalDir \/ VisitLink \/ Sized \/ ExistsAnswered \/ PlanDone \/ AllDecided
    BY <1>4 DEF VisitLocalDir, VisitLink, Sized, ExistsAnswered, PlanDone, AllDecided, Speaks
  <1> QED
    BY <1>2, <1>3, <1>4

LEMMA CopiesAsk ==
    ASSUME FlowInv, Apart, CopyInv, AtDir,
           \/ ItemSkipped \/ RunDone \/ EnsureDir \/ DirStat \/ Mkdir \/ CleanedUp
           \/ StartFile \/ Created \/ Written \/ Opened \/ ReadDone \/ CancelClosed
           \/ Closed \/ Removed \/ Renamed \/ Finished
    PROVE  Speaks
  <1>0. PlanFits /\ BrowserFits
    BY DEF Apart
  <1>1. {"stat", "mkdir", "open", "close", "remove", "rename"} \subseteq Ops
    BY DEF Ops
  <1>2. job.at \in DOMAIN job.plan => It.src \in Paths /\ It.dst \in Paths
    <2>1. ASSUME job.at \in DOMAIN job.plan PROVE It \in Items
      BY <1>0, <2>1 DEF PlanFits, It
    <2> QED
      BY <2>1, HavePaths
  <1>3. CASE ItemSkipped \/ RunDone \/ Mkdir \/ CleanedUp \/ Renamed
    BY <1>3 DEF ItemSkipped, RunDone, Mkdir, CleanedUp, Renamed, Speaks
  <1>4. CASE Finished
    <2>1. panes["remote"].cwd \in Paths
      BY <1>0 DEF BrowserFits, FitPane, PaneSet, Sides
    <2> QED
      BY <1>4, <2>1, ListTyped DEF Finished
  <1>5. CASE EnsureDir \/ DirStat
    <2>1. job.at \in DOMAIN job.plan
      BY <1>0, <1>5, ItemInPlan DEF EnsureDir, DirStat, AtItem, AtDir
    <2> QED
      BY <1>1, <1>2, <1>5, <2>1, AskTyped DEF EnsureDir, DirStat, Speaks
  <1>6. CASE StartFile
    <2>1. It.src \in Paths /\ It.dst \in Paths
      BY <1>0, <1>2, <1>6, ItemInPlan DEF StartFile, AtItem
    <2>2. IsFile(Local.tree, It.src) => Local.tree[It.src] \in Contents
      BY LocalFile DEF CopyInv
    <2>3. 0 \in 0..Chunks
      BY ChunksAssumption
    <2> QED
      BY <1>1, <1>6, <2>1, <2>2, <2>3, AskTyped, DataTyped, CleanUpTyped DEF StartFile, Speaks
  <1>7. CASE \/ Created \/ Written \/ Opened \/ ReadDone \/ CancelClosed \/ Closed \/ Removed
    <2>1. It.src \in Paths /\ It.dst \in Paths
      BY <1>0, <1>2, <1>7, ItemInPlan
         DEF FilePcs, Created, Written, Opened, ReadDone, CancelClosed, Closed, Removed
    <2>2. \A off \in 0..Chunks : \A next : AskWrite(It.dst, off, next) \/ AskRead(It.src, off, next) => Asking
      <3>1. ASSUME NEW off \in 0..Chunks, NEW next PROVE AskWrite(It.dst, off, next) \/ AskRead(It.src, off, next) => Asking
        <4>1. {"write", "read"} \subseteq Ops
          BY DEF Ops
        <4>2. [Req("write", It.dst) EXCEPT !.off = off] \in FileRequests
              /\ [Req("read", It.src) EXCEPT !.off = off] \in FileRequests
          BY <2>1, <4>1, ChunksAssumption DEF Req, FileRequests
        <4> QED
          BY <4>2 DEF AskWrite, AskRead, Asking
      <3> QED
        BY <3>1
    <2>3. CASE Created
      <3>1. job.off < Chunks => job.off \in 0..Chunks
        BY <2>3, ChunksAssumption DEF Created, CopyInv, OffIsZero
      <3> QED
        BY <1>1, <2>1, <2>2, <2>3, <3>1, AskTyped, CleanUpTyped DEF Created, Upload1, Speaks
    <2>4. CASE Written
      <3>1. job.off + 1 < Chunks => job.off + 1 \in 0..Chunks
        BY <2>4, ChunksAssumption DEF Written, CopyInv, UpStages, FlowInv, Moving, Direction
      <3> QED
        BY <1>1, <2>1, <2>2, <2>4, <3>1, AskTyped, CleanUpTyped DEF Written, Speaks
    <2>5. CASE Opened
      <3>1. 0 \in 0..Chunks
        BY ChunksAssumption
      <3> QED
        BY <1>1, <2>1, <2>2, <2>5, <3>1, AskTyped, CleanUpTyped DEF Opened, Speaks
    <2>6. CASE ReadDone
      <3>1. Ok => job.off + 1 \in 0..Chunks
        BY <2>6, OkIsSaid, ChunksAssumption DEF ReadDone, CopyInv, DownStages, FlowInv, Moving, Direction
      <3> QED
        BY <1>1, <2>1, <2>2, <2>6, <3>1, AskTyped, CleanUpTyped DEF ReadDone, Speaks
    <2>7. CASE CancelClosed \/ Closed \/ Removed
      BY <1>1, <2>1, <2>7, AskTyped, CleanUpTyped DEF CancelClosed, Closed, Removed, Speaks
    <2> QED
      BY <1>7, <2>3, <2>4, <2>5, <2>6, <2>7
  <1> QED
    BY <1>3, <1>4, <1>5, <1>6, <1>7

\* The server's answers
Telling == \E e \in asked : \E ans \in FileReplies : Serve(e, ans)

LEMMA ServerTellsTyped ==
    ASSUME FlowInv, ServerStep PROVE Telling
  <1>0. StreamInv /\ FineDisk /\ FineAsked
    BY DEF FlowInv, Serving
  <1>1. PICK e \in asked : \E effect : ServedWith(e, effect)
    BY <1>0, ServerFacts
  <1>2. PICK effect : ServedWith(e, effect)
    BY <1>1
  <1>3. {} \subseteq EntrySet /\ Entries(disk["remote"].tree, e.req.path) \subseteq EntrySet
    BY <1>0, EntriesOnce DEF OnceNamed, FineDisk, GoodSide, Sides
  <1>4. effect.entries \subseteq EntrySet /\ effect.code \in {"ok", "status", "none", "dir", "file", "eof"}
    BY <1>2, <1>3, EffectSays DEF ServedWith
  <1>5. [code |-> effect.code, entries |-> effect.entries] \in FileReplies
    BY <1>4 DEF FileReplies, EntrySet
  <1> QED
    BY <1>2, <1>5 DEF ServedWith, Telling

LEMMA FilesMove ==
    ASSUME FlowInv, Apart, CopyInv, AtDir, [Next]_vars
    PROVE  Moves(FileRequests, FileReplies) \/ UNCHANGED client
  <1>0. BrowserFits /\ ListerFits /\ TodoFits
    BY DEF Apart
  <1>1. Speaks => Moves(FileRequests, FileReplies) \/ UNCHANGED client
    BY DEF Speaks, Asking, Moves
  <1>2. CASE KeyStep
    BY <1>0, <1>1, <1>2, KeysAsk DEF Back, Moves
  <1>3. CASE Login \/ FallBack \/ FirstListing \/ Opendir \/ Readdir \/ Closedir \/ ListingShown
    BY <1>0, <1>1, <1>3, ListingsAsk DEF Moves
  <1>4. CASE \/ VisitLocalDir \/ VisitRemoteDir \/ VisitLink \/ VisitFile \/ Sized
             \/ ExistsAnswered \/ PlanDone \/ AllDecided
    BY <1>0, <1>1, <1>4, PlansAsk
  <1>5. CASE \/ ItemSkipped \/ RunDone \/ EnsureDir \/ DirStat \/ Mkdir \/ CleanedUp
             \/ StartFile \/ Created \/ Written \/ Opened \/ ReadDone \/ CancelClosed
             \/ Closed \/ Removed \/ Renamed \/ Finished
    BY <1>1, <1>5, CopiesAsk
  <1>6. CASE ServerStep
    BY <1>6, ServerTellsTyped DEF Telling, Moves
  <1>7. CASE OpenFiles \/ ReplyRead \/ LimitHit \/ ConnectionLost \/ RequestLost \/ Rest \/ UNCHANGED vars
    BY <1>7 DEF OpenFiles, ReplyRead, LimitHit, ConnectionLost, RequestLost, Rest, vars, Moves
  <1> QED
    BY <1>2, <1>3, <1>4, <1>5, <1>6, <1>7 DEF Next, FlowStep, EnvStep

\* The bounds of the model.
InBounds == keys \in 0..MaxKeys /\ faults \in 0..MaxFaults
Spends == /\ keys' = keys \/ (keys > 0 /\ keys' = keys - 1)
          /\ faults' = faults \/ \E n \in Nat : Pay(n)

LEMMA MaybeSpends == ASSUME NEW fault, Maybe(fault) PROVE \E n \in Nat : Pay(n)
  BY DEF Maybe

LEMMA CleanUpSpends == ASSUME NEW out, NEW cost \in Nat, CleanUp(out, cost) PROVE \E n \in Nat : Pay(n)
  <1>1. cost + 1 \in Nat
    OBVIOUS
  <1> QED
    BY <1>1 DEF CleanUp

LEMMA EveryStepSpends == ASSUME [Next]_vars PROVE Spends
  <1>1. CASE KeyStep
    <2>1. faults' = faults \/ \E fault : Maybe(fault)
      BY <1>1 DEF KeyStep, SwitchPane, MoveCursor, ToggleMark, OpenSelected, GoUp, Refresh, Transfer, Back, Decide,
                  Go, GoLocal
    <2>2. keys' = keys \/ (keys > 0 /\ keys' = keys - 1)
      BY <1>1 DEF KeyStep, SwitchPane, MoveCursor, ToggleMark, OpenSelected, GoUp, Refresh, Transfer, Back, Decide, Key
    <2> QED
      BY <2>1, <2>2, MaybeSpends DEF Spends
  <1>2. CASE Login \/ FallBack \/ FirstListing \/ Opendir \/ Readdir \/ Closedir \/ ListingShown
    BY <1>2 DEF Login, FallBack, FirstListing, Opendir, Readdir, Closedir, ListingShown, Spends
  <1>3. CASE \/ VisitLocalDir \/ VisitRemoteDir \/ VisitLink \/ VisitFile \/ Sized
             \/ ExistsAnswered \/ PlanDone \/ AllDecided
    BY <1>3, MaybeSpends
       DEF VisitLocalDir, VisitRemoteDir, VisitLink, VisitFile, Sized, ExistsAnswered, PlanDone, AllDecided, Spends
  <1>4. CASE \/ ItemSkipped \/ RunDone \/ EnsureDir \/ DirStat \/ Mkdir \/ CleanedUp
             \/ Removed \/ Renamed \/ Finished
    BY <1>4, MaybeSpends
       DEF ItemSkipped, RunDone, EnsureDir, DirStat, Mkdir, CleanedUp, Removed, Renamed, Finished, Spends
  <1>5. CASE StartFile \/ Created \/ Written \/ Opened \/ ReadDone \/ CancelClosed \/ Closed
    <2>0. keys' = keys
      BY <1>5 DEF StartFile, Created, Written, Opened, ReadDone, CancelClosed, Closed
    <2>1. 0 \in Nat /\ 1 \in Nat
      OBVIOUS
    <2>2. faults' = faults \/ (\E fault : Maybe(fault)) \/ \E out : CleanUp(out, 0) \/ CleanUp(out, 1)
      BY <1>5 DEF StartFile, Created, Written, Opened, ReadDone, CancelClosed, Closed
    <2> QED
      BY <2>0, <2>1, <2>2, MaybeSpends, CleanUpSpends DEF Spends
  <1>6. CASE OpenFiles \/ EnvStep \/ Rest \/ UNCHANGED vars
    <2>1. 1 \in Nat
      OBVIOUS
    <2> QED
      BY <1>6, <2>1, MaybeSpends
         DEF OpenFiles, EnvStep, ServerStep, ReplyRead, LimitHit, ConnectionLost, RequestLost, Others, Rest, vars, Spends
  <1> QED
    BY <1>1, <1>2, <1>3, <1>4, <1>5, <1>6 DEF Next, FlowStep

LEMMA BoundsStep == ASSUME InBounds, [Next]_vars PROVE InBounds' /\ faults' <= faults
  <1>1. Spends
    BY EveryStepSpends
  <1>2. keys' \in 0..MaxKeys
    BY <1>1, BoundsAssumption DEF Spends, InBounds
  <1>3. faults' \in 0..MaxFaults /\ faults' <= faults
    BY <1>1, BoundsAssumption DEF Spends, InBounds, Pay
  <1> QED
    BY <1>2, <1>3 DEF InBounds

TypeInv == AtDir /\ InvOver(FileRequests, FileReplies) /\ InBounds

LEMMA TypesInitially == Init => TypeInv
  <1> SUFFICES ASSUME Init PROVE TypeInv
    OBVIOUS
  <1>1. AtDir /\ InBounds
    BY BoundsAssumption DEF Init, AtDir, InBounds
  <1>2. call \in CallOver(FileRequests, FileReplies)
    <2>1. Req("close", <<>>) \in FileRequests
      BY RootIsPath, ChunksAssumption DEF Req, FileRequests, Ops
    <2>2. [code |-> "ok", entries |-> {}] \in FileReplies
      BY DEF FileReplies
    <2>3. 0 \in 0..MaxId /\ "none" \in CallStates
      BY IdAssumption DEF CallStates
    <2> QED
      BY <2>1, <2>2, <2>3 DEF Init, CallOver
  <1>3. InvOver(FileRequests, FileReplies)
    BY <1>2, InitiallyOver DEF Init
  <1> QED
    BY <1>1, <1>3 DEF TypeInv

LEMMA TypesStep == FlowInv /\ Apart /\ CopyInv /\ TypeInv /\ [Next]_vars => TypeInv'
  <1> SUFFICES ASSUME FlowInv, Apart, CopyInv, TypeInv, [Next]_vars PROVE TypeInv'
    OBVIOUS
  <1>1. Steps
    BY StreamShapesCall, StepTable DEF FlowInv, StreamInv, Shaped, Moving
  <1>2. AtDir'
    BY <1>1, DirStep DEF TypeInv, Apart
  <1>3. InBounds'
    BY BoundsStep DEF TypeInv
  <1>4. InvOver(FileRequests, FileReplies)'
    BY FilesMove, EveryMove DEF TypeInv
  <1> QED
    BY <1>2, <1>3, <1>4 DEF TypeInv

LEMMA TypesHold == Spec => []TypeInv
  BY TypesInitially, TypesStep, FlowHolds, ApartHolds, CopyHolds, PTL DEF Spec

\* Requests and answers are of the kinds the client was made for, a copy never
\* has more chunks than its file, and a pane shows and marks names there are.
THEOREM FilesTyped ==
    ASSUME Requests = FileRequests, Replies = FileReplies
    PROVE  Spec => []TypeOK
  <1>1. ASSUME InvOver(FileRequests, FileReplies) PROVE ClientTypeOK
    BY <1>1, TypedIsTypeOK DEF InvOver
  <1>2. TypeInv /\ CopyInv /\ Apart => TypeOK
    <2> SUFFICES ASSUME TypeInv, CopyInv, Apart PROVE TypeOK
      OBVIOUS
    <2>1. \A s \in Sides : \A q \in DOMAIN disk[s].part : disk[s].part[q].got \in 0..Chunks
      BY DEF CopyInv, NoPiece
    <2>2. \A s \in Sides : panes[s].cur \in Nat /\ panes[s].marked \subseteq NameSet
      BY DEF Apart, BrowserFits, FitPane, PaneSet
    <2> QED
      BY <1>1, <2>1, <2>2 DEF TypeInv, InBounds, Apart, BrowserFits, TypeOK
  <1> QED
    BY <1>2, TypesHold, CopyHolds, ApartHolds, PTL


---------------------------------------------------------------------------
\* Every item behind the flow is in the summary, or there was nothing to copy.
\* Checked on MCFiles before it was proved, as was what follows.

Accounted(i) == i \in job.files \cup job.failures \/ job.plan[i].dir \/ job.plan[i].skip
Tally ==
    /\ pc \in Copying => \A i \in DOMAIN job.plan : i < job.at => Accounted(i)
    /\ pc = "finish" /\ ~job.cancelled => \A i \in DOMAIN job.plan : Accounted(i)

\* The summary only grows.
Sums == /\ job'.plan = job.plan
        /\ job.files \subseteq job'.files /\ job.failures \subseteq job'.failures

\* What a step of the copying does to the summary.
Summed ==
    \/ pc' = "finish" /\ job'.cancelled
    \/ Sums /\ pc' = "finish" /\ pc = "item" /\ job.at > Len(job.plan)
    \/ Sums /\ pc' \in Copying /\ job'.at = job.at
    \/ /\ Sums /\ pc' = "item" /\ job'.at = job.at + 1
       /\ job.at \in job'.files \cup job'.failures \/ It.dir \/ It.skip

LEMMA CancelSums == ASSUME NEW j, DOMAIN j = JobFields, Cancel(j) PROVE Summed
  BY DEF Cancel, Finish, Summed, JobFields

LEMMA RecordFacts ==
    ASSUME JobShaped, NEW field \in {"files", "failures"}
    PROVE  /\ DOMAIN Record(field) = JobFields /\ Record(field).plan = job.plan
           /\ Record(field).at = job.at + 1
           /\ job.files \subseteq Record(field).files /\ job.failures \subseteq Record(field).failures
           /\ job.at \in Record(field).files \cup Record(field).failures
  <1>1. CASE field = "files"
    BY <1>1 DEF Record, NextItem, JobShaped, JobFields
  <1>2. CASE field = "failures"
    BY <1>2 DEF Record, NextItem, JobShaped, JobFields
  <1> QED
    BY <1>1, <1>2

LEMMA EndSums ==
    ASSUME JobShaped
    PROVE  /\ ItemDone \/ ItemFails => Summed
           /\ Cancel(job) => Summed
           /\ It.dir \/ It.skip => /\ OrCancel(NextItem, "item") => Summed
                                   /\ job' = NextItem /\ pc' = "item" => Summed
  <1>1. ASSUME NEW field \in {"files", "failures"}, OrCancel(Record(field), "item") PROVE Summed
    BY <1>1, RecordFacts, CancelSums DEF OrCancel, Summed, Sums
  <1>2. DOMAIN NextItem = JobFields /\ NextItem.plan = job.plan /\ NextItem.at = job.at + 1
        /\ NextItem.files = job.files /\ NextItem.failures = job.failures
    BY DEF NextItem, JobShaped, JobFields
  <1>3. ASSUME It.dir \/ It.skip, job' = NextItem, pc' = "item" PROVE Summed
    BY <1>2, <1>3 DEF Summed, Sums
  <1>4. ASSUME It.dir \/ It.skip, OrCancel(NextItem, "item") PROVE Summed
    BY <1>2, <1>3, <1>4, CancelSums DEF OrCancel
  <1> QED
    BY <1>1, <1>3, <1>4, CancelSums DEF ItemDone, ItemFails, JobShaped

LEMMA CleanUpSums ==
    ASSUME JobShaped, NEW out, NEW cost, CleanUp(out, cost) PROVE Summed
  <1>1. Upload /\ job' = [job EXCEPT !.out = out] /\ pc' = "cleanup" => Summed
    BY DEF Summed, Sums, JobShaped, JobFields, Copying, FilePcs
  <1> QED
    BY <1>1, EndSums DEF CleanUp, Ask

LEMMA CopySums ==
    ASSUME JobShaped, AtDir,
           \/ ItemSkipped \/ RunDone \/ EnsureDir \/ DirStat \/ Mkdir \/ CleanedUp
           \/ StartFile \/ Created \/ Written \/ Opened \/ ReadDone \/ CancelClosed
           \/ Closed \/ Removed \/ Renamed
    PROVE  Summed
  <1>0. \A next \in Copying : UNCHANGED job /\ pc' = next => Summed
    BY DEF Summed, Sums
  <1>1. CASE ItemSkipped
    BY <1>1, EndSums DEF ItemSkipped
  <1>2. CASE RunDone
    BY <1>2 DEF RunDone, Finish, Summed, Sums
  <1>3. CASE EnsureDir \/ DirStat \/ Mkdir
    <2>1. It.dir
      BY <1>3 DEF EnsureDir, DirStat, Mkdir, AtDir
    <2>2. "item" \in Copying /\ "dirstat" \in Copying /\ "mkdir" \in Copying
      BY DEF Copying
    <2> QED
      BY <1>0, <1>3, <2>1, <2>2, EndSums DEF EnsureDir, DirStat, Mkdir, Ask
  <1>4. CASE CleanedUp \/ Removed \/ Renamed
    <2>1. "rename" \in Copying
      BY DEF Copying, FilePcs
    <2> QED
      BY <1>0, <1>4, <2>1, EndSums DEF CleanedUp, Removed, Renamed, Ask
  <1>5. CASE StartFile \/ Created \/ Opened \/ CancelClosed \/ Closed
    <2>1. {"create", "open", "read", "write", "close", "remove", "rename"} \subseteq Copying
      BY DEF Copying, FilePcs
    <2> QED
      BY <1>0, <1>5, <2>1, EndSums, CleanUpSums
         DEF StartFile, Created, Opened, CancelClosed, Closed, Upload1, Ask, AskCreate, AskWrite, AskRead
  <1>6. CASE Written \/ ReadDone
    <2>1. {"read", "write", "close", "closeCancelled"} \subseteq Copying
      BY DEF Copying, FilePcs
    <2>2. \A next \in Copying : job' = Chunked /\ pc' = next => Summed
      <3>1. Chunked.plan = job.plan /\ Chunked.at = job.at /\ Chunked.files = job.files /\ Chunked.failures = job.failures
        BY DEF Chunked, JobShaped, JobFields
      <3> QED
        BY <3>1 DEF Summed, Sums
    <2> QED
      BY <1>0, <1>6, <2>1, <2>2, CleanUpSums DEF Written, ReadDone, Ask, AskWrite, AskRead
  <1> QED
    BY <1>1, <1>2, <1>3, <1>4, <1>5, <1>6

\* Before the first item there is nothing to account for.
LEMMA PlanSums ==
    ASSUME JobShaped,
           \/ VisitLocalDir \/ VisitRemoteDir \/ VisitLink \/ VisitFile \/ Sized
           \/ ExistsAnswered \/ PlanDone \/ AllDecided
    PROVE  /\ pc' = "finish" => job'.cancelled
           /\ pc' \in Copying => job'.at = 1 /\ job'.plan = job.plan
  <1>1. ASSUME NEW exists, PushFile(exists)
        PROVE  pc' \in {"visit", "finish"} /\ (pc' = "finish" => job'.cancelled)
    <2>1. DOMAIN Planned(exists) = JobFields
      BY PlannedJob
    <2> QED
      BY <1>1, <2>1 DEF PushFile, OrCancel, Cancel, Finish, JobFields
  <1>2. CASE VisitFile \/ Sized \/ ExistsAnswered
    BY <1>1, <1>2 DEF VisitFile, Sized, ExistsAnswered, Ask, Copying, FilePcs
  <1>3. CASE VisitLocalDir \/ VisitRemoteDir \/ VisitLink \/ PlanDone \/ AllDecided
    BY <1>3 DEF VisitLocalDir, VisitRemoteDir, VisitLink, PlanDone, AllDecided, ListDir, Ask, Copying, FilePcs,
                JobShaped, JobFields
  <1> QED
    BY <1>2, <1>3

LEMMA DecideSums ==
    ASSUME JobShaped, Decide PROVE pc' \notin Copying /\ (pc' = "finish" => job'.cancelled)
  BY DEF Decide, Cancel, Finish, Copying, FilePcs, JobShaped, JobFields

LEMMA SummedTally ==
    ASSUME FlowInv, PlanFits, Tally, Summed, pc \in Copying PROVE Tally'
  <1>1. Sums => \A i \in DOMAIN job.plan : Accounted(i) => Accounted(i)'
    BY DEF Sums, Accounted
  <1>2. DOMAIN job.plan \subseteq Nat /\ (pc \in Copying => job.at \in Nat) /\ DOMAIN job.plan = 1..Len(job.plan)
    BY Places DEF FlowInv, Moving, AtFile
  <1>3. CASE pc' = "finish" /\ job'.cancelled
    BY <1>3 DEF Tally, Copying, FilePcs
  <1>4. CASE Sums /\ pc' = "finish" /\ pc = "item" /\ job.at > Len(job.plan)
    <2>1. \A i \in DOMAIN job.plan : i < job.at
      BY <1>2, <1>4 DEF Copying
    <2>2. \A i \in DOMAIN job.plan : Accounted(i)'
      BY <1>1, <1>4, <2>1 DEF Tally, Copying
    <2> QED
      BY <1>4, <2>2 DEF Tally, Sums, Copying, FilePcs
  <1>5. CASE Sums /\ pc' \in Copying /\ job'.at = job.at
    BY <1>1, <1>5 DEF Tally, Sums, Copying, FilePcs
  <1>6. CASE /\ Sums /\ pc' = "item" /\ job'.at = job.at + 1
             /\ job.at \in job'.files \cup job'.failures \/ It.dir \/ It.skip
    <2>1. ASSUME NEW i \in DOMAIN job.plan, i < job'.at PROVE Accounted(i)'
      <3>1. CASE i = job.at
        BY <1>6, <3>1 DEF Sums, Accounted, It
      <3>2. CASE i < job.at
        BY <1>1, <1>6, <3>2 DEF Tally
      <3> QED
        BY <1>2, <1>6, <2>1, <3>1, <3>2
    <2> QED
      BY <1>6, <2>1 DEF Tally, Sums
  <1> QED
    BY <1>3, <1>4, <1>5, <1>6 DEF Summed

LEMMA TallyInitially == Init => Tally
  BY DEF Init, Tally, Copying, FilePcs

LEMMA TallyStep == FlowInv /\ PlanFits /\ AtDir /\ Tally /\ [Next]_vars => Tally'
  <1> SUFFICES ASSUME FlowInv, PlanFits, AtDir, Tally, [Next]_vars PROVE Tally'
    OBVIOUS
  <1>0. JobShaped
    BY DEF FlowInv, Moving
  <1>1. CASE \/ ItemSkipped \/ RunDone \/ EnsureDir \/ DirStat \/ Mkdir \/ CleanedUp
             \/ StartFile \/ Created \/ Written \/ Opened \/ ReadDone \/ CancelClosed
             \/ Closed \/ Removed \/ Renamed
    <2>1. pc \in Copying
      BY <1>1 DEF ItemSkipped, RunDone, EnsureDir, DirStat, Mkdir, CleanedUp, StartFile, Created, Written, Opened,
                  ReadDone, CancelClosed, Closed, Removed, Renamed, Copying, FilePcs
    <2> QED
      BY <1>0, <1>1, <2>1, CopySums, SummedTally
  <1>2. CASE \/ VisitLocalDir \/ VisitRemoteDir \/ VisitLink \/ VisitFile \/ Sized
             \/ ExistsAnswered \/ PlanDone \/ AllDecided
    <2>1. /\ pc' = "finish" => job'.cancelled
          /\ pc' \in Copying => job'.at = 1 /\ job'.plan = job.plan
      BY <1>0, <1>2, PlanSums
    <2>3. \A i \in DOMAIN job.plan : ~(i < 1)
      BY Places
    <2> QED
      BY <2>1, <2>3 DEF Tally
  <1>3. CASE Decide
    BY <1>0, <1>3, DecideSums DEF Tally
  <1>4. CASE Transfer \/ Back
    BY <1>4 DEF Transfer, Back, Tally, Copying, FilePcs
  <1>5. CASE \/ SwitchPane \/ MoveCursor \/ ToggleMark \/ OpenSelected \/ GoUp \/ Refresh \/ Finished
             \/ Login \/ FallBack \/ FirstListing \/ Opendir \/ Readdir \/ Closedir \/ ListingShown \/ OpenFiles
    <2>1. pc' \notin Copying \cup {"finish"}
      BY <1>5 DEF SwitchPane, MoveCursor, ToggleMark, Key, OpenSelected, GoUp, Go, GoLocal, Refresh, Finished, ListRemote,
                  ListDir, Ask, Login, FallBack, FirstListing, Opendir, Readdir, Closedir, ListingShown, OpenFiles,
                  Copying, FilePcs
    <2> QED
      BY <2>1 DEF Tally
  <1>6. CASE EnvStep \/ Rest \/ UNCHANGED vars
    <2>1. UNCHANGED <<pc, job>>
      BY <1>6, WaitTable DEF Waits
    <2> QED
      BY <2>1 DEF Tally, Accounted
  <1> QED
    BY <1>1, <1>2, <1>3, <1>4, <1>5, <1>6 DEF Next, KeyStep, FlowStep

LEMMA TallyHolds == Spec => []Tally
  <1>1. FlowInv /\ Apart /\ TypeInv /\ Tally /\ [Next]_vars => Tally'
    BY TallyStep DEF Apart, TypeInv
  <1> QED
    BY <1>1, TallyInitially, FlowHolds, ApartHolds, TypesHold, PTL DEF Spec


---------------------------------------------------------------------------
\* As long as nothing failed, every request is answered before the next one is
\* sent, and a copy is at no name but that of the file under way.

RestPcs == {"menu", "login", "idle", "listed", "visit", "ask", "item", "finish"}
Resting == pc \in RestPcs => call.st # "waiting"

Prompt ==
    /\ link \in {"up", "closed"} /\ call.st # "fatal"
    /\ IF call.st = "waiting"
         THEN /\ link = "up" /\ \A e \in asked : e.no = sent
              /\ \A i \in DOMAIN wire : wire[i].no = sent
         ELSE asked = {} /\ wire = <<>>

\* A request that changes something is about the item the flow is at.
Owned ==
    \A e \in asked : e.req.op \in Mutating =>
       /\ Upload /\ e.req.path = It.dst
       /\ IF e.req.op = "mkdir" THEN pc = "mkdir" ELSE pc \in FilePcs

\* The last request was served.
Heard == call.st = "answered" \/ wire # <<>>

Blocked(s, q) == At(disk[s].tree, q) \in {"dir", "link"}
Placed ==
    \A s \in Sides : \A q \in DOMAIN disk[s].part :
       Blocked(s, q) \/ (s = Dest /\ pc \in FilePcs /\ q = It.dst)

\* What the server said was not there when it was asked still is not when the
\* copy takes its name.
Untried(i) == Walking \/ (pc \in Copying /\ (i > job.at \/ (i = job.at /\ pc # "rename")))
FreshFree ==
    Upload => \A i \in DOMAIN job.plan :
                 Fresh(i) /\ Untried(i) => At(DestTree, job.plan[i].dst) \notin Contents
\* Only an upload asks the server whether a file is there.
StatTold ==
    /\ pc = "size" => ~Upload
    /\ pc = "exists" => /\ call.req = Req("stat", Todo.dst)
                        /\ Heard /\ At(DestTree, Todo.dst) \in Contents => Said("file")
Freed ==
    /\ pc = "cleanup" => /\ call.req = Req("discard", It.dst)
                         /\ Heard => ~PartAt(disk[Dest], It.dst)
    /\ pc = "remove" => /\ call.req = Req("remove", It.dst)
                        /\ Heard => At(DestTree, It.dst) \notin Contents
    /\ pc = "rename" => IF Heard THEN PartAt(disk[Dest], It.dst) => Blocked(Dest, It.dst)
                        ELSE At(DestTree, It.dst) \notin Contents

Smooth == Prompt /\ Owned /\ Placed /\ FreshFree /\ StatTold /\ Freed
SmoothInv == Resting /\ (faults = MaxFaults => Smooth)

Acts == KeyStep \/ FlowStep \/ OpenFiles

LEMMA ActsReady == ASSUME Acts, Resting PROVE call.st # "waiting"
  <1>1. CASE KeyStep
    BY <1>1 DEF KeyStep, SwitchPane, MoveCursor, ToggleMark, OpenSelected, GoUp, Refresh, Transfer, Back, Decide, Key,
                Resting, RestPcs
  <1>2. CASE OpenFiles \/ Login \/ FallBack \/ FirstListing \/ Opendir \/ Readdir \/ Closedir \/ ListingShown
    BY <1>2 DEF OpenFiles, Login, FallBack, FirstListing, Opendir, Readdir, Closedir, ListingShown, Returned, Resting, RestPcs
  <1>3. CASE \/ VisitLocalDir \/ VisitRemoteDir \/ VisitLink \/ VisitFile \/ Sized
             \/ ExistsAnswered \/ PlanDone \/ AllDecided
    BY <1>3 DEF VisitLocalDir, VisitRemoteDir, VisitLink, VisitFile, Sized, ExistsAnswered, PlanDone, AllDecided,
                Returned, Resting, RestPcs
  <1>4. CASE \/ ItemSkipped \/ RunDone \/ EnsureDir \/ DirStat \/ Mkdir \/ CleanedUp
             \/ StartFile \/ Created \/ Written \/ Opened \/ ReadDone \/ CancelClosed
             \/ Closed \/ Removed \/ Renamed \/ Finished
    BY <1>4 DEF ItemSkipped, RunDone, EnsureDir, DirStat, Mkdir, CleanedUp, StartFile, Created, Written, Opened, ReadDone,
                CancelClosed, Closed, Removed, Renamed, Finished, Returned, Resting, RestPcs
  <1> QED
    BY <1>1, <1>2, <1>3, <1>4 DEF Acts, FlowStep

\* A step that sends nothing keeps the call; one that sends waits for it.
LEMMA ActsRest == ASSUME CallShaped, Acts, Resting PROVE Resting'
  <1>0. call.st # "waiting"
    BY ActsReady
  <1>1. UNCHANGED client => Resting'
    BY <1>0 DEF client, Resting
  <1>2. \A op, path, next : Ask(op, path, next) => pc' = next
    BY DEF Ask
  <1>3. \A path, then : ListDir(path, then) => Resting'
    BY DEF ListDir, Ask, Resting, RestPcs
  <1>4. \A path : ListRemote(path) => Resting'
    BY <1>1, <1>3 DEF ListRemote
  <1>5. CASE KeyStep /\ ~Back
    BY <1>1, <1>4, <1>5 DEF KeyStep, SwitchPane, MoveCursor, ToggleMark, OpenSelected, GoUp, Go, GoLocal, Refresh,
                            Transfer, Decide
  <1>6. DropIfFatal \/ OpenFiles \/ Back => call'.st # "waiting"
    <2>1. Drop \/ Open => call'.st # "waiting"
      BY <1>0 DEF Drop, Open, CallShaped
    <2> QED
      BY <2>1, <1>0 DEF DropIfFatal, OpenFiles, Back, client
  <1>7. CASE Back \/ OpenFiles \/ ListingShown
    BY <1>6, <1>7 DEF ListingShown, Resting
  <1>8. CASE Login \/ FallBack \/ FirstListing \/ Opendir \/ Readdir \/ Closedir
    BY <1>1, <1>3, <1>8 DEF Login, FallBack, FirstListing, Opendir, Readdir, Closedir, Ask, Resting, RestPcs
  <1>9. CASE \/ VisitLocalDir \/ VisitRemoteDir \/ VisitLink \/ VisitFile \/ Sized
             \/ ExistsAnswered \/ PlanDone \/ AllDecided
    BY <1>1, <1>3, <1>9 DEF VisitLocalDir, VisitRemoteDir, VisitLink, VisitFile, Sized, ExistsAnswered, PlanDone, AllDecided,
                            Ask, Resting, RestPcs
  <1>10. \A out, cost : CleanUp(out, cost) => Resting'
    BY <1>1 DEF CleanUp, Ask, Resting, RestPcs
  <1>11. CASE \/ ItemSkipped \/ RunDone \/ EnsureDir \/ DirStat \/ Mkdir \/ CleanedUp
              \/ CancelClosed \/ Removed \/ Renamed \/ Finished
    BY <1>1, <1>4, <1>10, <1>11
       DEF ItemSkipped, RunDone, EnsureDir, DirStat, Mkdir, CleanedUp, CancelClosed, Removed, Renamed, Finished,
           Ask, Resting, RestPcs
  <1>12. CASE StartFile \/ Created \/ Written \/ Opened \/ ReadDone \/ Closed
    BY <1>1, <1>10, <1>12
       DEF StartFile, Created, Written, Opened, ReadDone, Closed, Upload1, Ask, AskCreate, AskWrite, AskRead,
           Resting, RestPcs
  <1> QED
    BY <1>5, <1>7, <1>8, <1>9, <1>11, <1>12 DEF Acts, KeyStep, FlowStep

LEMMA RestingStep == ASSUME CallShaped, Resting, [Next]_vars PROVE Resting'
  <1>1. CASE EnvStep \/ Rest \/ UNCHANGED vars
    <2>1. pc' = pc /\ (call'.st = "waiting" => call.st = "waiting")
      BY <1>1 DEF CallShaped, EnvStep, ServerStep, Serve, ReplyRead, Receive, ReadTorn, ReadClosed, LimitHit, TimeOut,
                  Fail, ConnectionLost, Lose, RequestLost, Abandon, Others, Rest, vars, client
    <2> QED
      BY <2>1 DEF Resting
  <1>2. CASE Acts
    BY <1>2, ActsRest
  <1> QED
    BY <1>1, <1>2 DEF Next, Acts

LEMMA ActsSpeak ==
    ASSUME FlowInv, Apart, CopyInv, AtDir, Acts PROVE Speaks \/ Drop \/ Open
  <1>1. CASE KeyStep
    BY <1>1, KeysAsk DEF Apart, KeyStep, Back, Speaks
  <1>2. CASE Login \/ FallBack \/ FirstListing \/ Opendir \/ Readdir \/ Closedir \/ ListingShown
    BY <1>2, ListingsAsk DEF Apart
  <1>3. CASE \/ VisitLocalDir \/ VisitRemoteDir \/ VisitLink \/ VisitFile \/ Sized
             \/ ExistsAnswered \/ PlanDone \/ AllDecided
    BY <1>3, PlansAsk DEF Apart
  <1>4. CASE \/ ItemSkipped \/ RunDone \/ EnsureDir \/ DirStat \/ Mkdir \/ CleanedUp
             \/ StartFile \/ Created \/ Written \/ Opened \/ ReadDone \/ CancelClosed
             \/ Closed \/ Removed \/ Renamed \/ Finished
    BY <1>4, CopiesAsk
  <1> QED
    BY <1>1, <1>2, <1>3, <1>4 DEF Acts, FlowStep, OpenFiles

LEMMA PromptActs ==
    ASSUME FlowInv, Apart, CopyInv, AtDir, Resting, Prompt, Acts PROVE Prompt'
  <1>0. call.st # "waiting" /\ asked = {} /\ wire = <<>> /\ link \in {"up", "closed"} /\ call.st # "fatal"
    BY ActsReady DEF Prompt
  <1>c. CallShaped
    BY StreamShapesCall DEF FlowInv
  <1>1. CASE Asking
    <2> PICK req \in FileRequests : Issue(req)
      BY <1>1 DEF Asking
    <2>1. /\ link = "up" /\ link' = "up" /\ wire' = <<>> /\ call'.st = "waiting"
          /\ asked' = {[no |-> sent', id |-> nextId, req |-> req]}
      BY <1>0, <1>c DEF Issue, CallShaped
    <2> QED
      BY <2>1 DEF Prompt
  <1>2. CASE Drop \/ Open
    BY <1>0, <1>c, <1>2 DEF Drop, Open, CallShaped, Prompt
  <1>3. CASE UNCHANGED client
    BY <1>0, <1>3 DEF client, Prompt
  <1> QED
    BY <1>1, <1>2, <1>3, ActsSpeak DEF Speaks

LEMMA SameReply ==
    ASSUME NEW a \in 1..MaxId, NEW b \in 1..MaxId, After(a, 1) = After(b, 1) PROVE a = b
  BY IdAssumption DEF After

LEMMA PromptReads ==
    ASSUME StreamInv', TypeInv, Prompt, Receive PROVE Prompt' /\ call'.st = "answered"
  <1>1. /\ call.st = "waiting" /\ link = "up" /\ wire # <<>> /\ wire' = Tail(wire) /\ UNCHANGED link
        /\ \A i \in DOMAIN wire : wire[i].no = sent
    BY DEF Receive, Prompt
  <1>2. wire \in Seq(ReplyOver(FileReplies)) /\ call \in CallOver(FileRequests, FileReplies) /\ sent \in Nat
        /\ OnTheWay /\ CallInStep
    BY DEF TypeInv, InvOver, Typed
  <1>3. Head(wire) = wire[1] /\ 1 \in DOMAIN wire /\ wire[1] \in ReplyOver(FileReplies)
    BY <1>1, <1>2, TailOfWire
  <1>4. wire[1].id \in 1..MaxId /\ wire[1].no = sent
    BY <1>1, <1>3 DEF ReplyOver
  <1>5. nextId = After(wire[1].id, 1) /\ nextId = After(call.id, 1) /\ call.id \in 1..MaxId
    <2>1. InStep(wire[1], sent, nextId)
      BY <1>1, <1>2, <1>3 DEF OnTheWay
    <2>2. sent - sent + 1 = 1
      BY <1>2
    <2> QED
      BY <1>1, <1>2, <1>4, <2>1, <2>2 DEF InStep, CallInStep
  <1>6. Matches(Head(wire))
    BY <1>3, <1>4, <1>5, SameReply DEF Matches
  <1>7. call'.st = "answered"
    BY <1>2, <1>6 DEF Receive, CallOver
  <1> QED
    BY <1>1, <1>7 DEF Prompt, StreamInv, AnsweredLast

\* The server serves the request the flow waits for, and does not refuse it.
Answered(e, effect) ==
    /\ effect = Effect(disk["remote"], e.req)
    /\ e.no = sent /\ e.req = call.req /\ FineReq(e.req)
    /\ call.st = "waiting" /\ wire = <<>>
    /\ Serves(disk["remote"], disk'["remote"], e.req, effect.code)
    /\ disk'["remote"] = effect.disk /\ disk'["local"] = disk["local"] /\ DOMAIN disk' = Sides
    /\ UNCHANGED <<pc, job, lister, sent, call, link>>
    /\ asked' \subseteq asked
    /\ wire' = <<[no |-> sent, id |-> e.id, ans |-> [code |-> effect.code, entries |-> effect.entries]]>>

LEMMA FaultlessServer ==
    ASSUME FlowInv, TypeInv, Prompt, ServerStep, faults' = faults
    PROVE  \E e \in asked : \E effect : Answered(e, effect)
  <1>1. Oldest \in asked /\ \A f \in asked : Oldest.no <= f.no
    <2>1. \A e \in asked : e.no \in Nat
      BY NumbersAreNumbers DEF FlowInv
    <2> QED
      BY <2>1, OldestIsFirst DEF ServerStep
  <1>2. PICK refuse \in BOOLEAN :
          LET effect == IF refuse THEN Refusal ELSE Effect(disk["remote"], Oldest.req)
          IN /\ Maybe(refuse)
             /\ disk' = [disk EXCEPT !["remote"] = effect.disk]
             /\ Serve(Oldest, [code |-> effect.code, entries |-> effect.entries])
    BY DEF ServerStep
  <1>3. ~refuse
    <2>1. faults \in Nat
      BY BoundsAssumption DEF TypeInv, InBounds
    <2> QED
      BY <1>2, <2>1 DEF Maybe, Pay
  <1> DEFINE effect == Effect(disk["remote"], Oldest.req)
             r == [no |-> Oldest.no, id |-> Oldest.id, ans |-> [code |-> effect.code, entries |-> effect.entries]]
  <1>4. /\ disk' = [disk EXCEPT !["remote"] = effect.disk]
        /\ Serve(Oldest, [code |-> effect.code, entries |-> effect.entries])
    BY <1>2, <1>3
  <1>5. call.st = "waiting" /\ link = "up" /\ Oldest.no = sent /\ \A i \in DOMAIN wire : wire[i].no = sent
    BY <1>1 DEF Prompt
  <1>6. Oldest.req = call.req /\ FineReq(Oldest.req)
    BY <1>1, <1>5 DEF FlowInv, Serving, Tells, FineAsked
  <1>7. wire = <<>>
    <2>1. sent \in Nat /\ DOMAIN wire = 1..Len(wire) /\ Len(wire) \in Nat
      BY NumbersAreNumbers DEF FlowInv
    <2>2. \A i \in DOMAIN wire : wire[i].no < Oldest.no
      BY <1>1 DEF FlowInv, StreamInv, InTurn
    <2>3. \A i \in DOMAIN wire : FALSE
      BY <1>5, <2>1, <2>2
    <2>4. wire \in Seq(ReplyOver(FileReplies))
      BY DEF TypeInv, InvOver, Typed
    <2>5. Len(wire) = 0
      <3>1. 1 \notin 1..Len(wire)
        BY <2>1, <2>3
      <3> QED
        BY <2>1, <3>1
    <2> QED
      BY <2>4, <2>5, EmptySeq
  <1>8. wire' = Append(<<>>, r) /\ UNCHANGED <<sent, call, link>> /\ asked' \subseteq asked
    BY <1>4, <1>5, <1>7 DEF Serve
  <1>9. UNCHANGED <<pc, job, lister>>
    BY DEF ServerStep
  <1>10. DOMAIN disk = Sides /\ GoodSide(disk["remote"])
    BY DEF FlowInv, Serving, FineDisk, Sides
  <1>11. disk'["remote"] = effect.disk /\ disk'["local"] = disk["local"] /\ DOMAIN disk' = Sides
    BY <1>4, <1>10 DEF Sides
  <1>12. Serves(disk["remote"], effect.disk, Oldest.req, effect.code)
    BY <1>6, <1>10, EffectServes
  <1>13. wire' = <<r>>
    BY <1>8
  <1> QED
    BY <1>1, <1>5, <1>6, <1>7, <1>8, <1>9, <1>11, <1>12, <1>13 DEF Answered

LEMMA PromptWaits ==
    ASSUME FlowInv, StreamInv', TypeInv, Prompt, Waits, EnvStep \/ Rest \/ UNCHANGED vars, faults' = faults
    PROVE  Prompt'
  <1>0. faults \in Nat
    BY BoundsAssumption DEF TypeInv, InBounds
  <1>1. CASE ServerStep
    <2> PICK e \in asked : \E effect : Answered(e, effect)
      BY <1>1, FaultlessServer
    <2>1. \A i \in DOMAIN wire' : wire'[i].no = sent
      BY DEF Answered
    <2> QED
      BY <2>1 DEF Answered, Prompt
  <1>2. CASE Receive
    BY <1>2, PromptReads
  <1>3. CASE LimitHit \/ ConnectionLost
    BY <1>0, <1>3 DEF LimitHit, ConnectionLost, Pay
  <1>4. CASE ReadTorn \/ ReadClosed \/ Abandon
    BY <1>4 DEF ReadTorn, ReadClosed, Abandon, Prompt
  <1>5. CASE UNCHANGED client
    BY <1>5 DEF client, Prompt
  <1> QED
    BY <1>1, <1>2, <1>3, <1>4, <1>5 DEF EnvStep, ReplyRead, RequestLost, Rest, vars

LEMMA OwnedWaits == ASSUME Owned, Waits PROVE Owned'
  <1>1. asked' \subseteq asked /\ UNCHANGED <<pc, job>>
    BY DEF Waits
  <1>2. (Upload' <=> Upload) /\ It' = It
    BY <1>1, SameJob
  <1> QED
    BY <1>1, <1>2 DEF Owned

\* The table of steps again: what is sent from where.
LEMMA OwnedSent ==
    ASSUME FlowInv, Steps, ~Waits, asked = {}, NEW e \in asked', e.req.op \in Mutating
    PROVE  /\ Upload' /\ e.req.path = It'.dst
           /\ IF e.req.op = "mkdir" THEN pc' = "mkdir" ELSE pc' \in FilePcs
  <1>0. JobShaped
    BY DEF FlowInv, Moving
  <1>1. ~Calm /\ ~(UNCHANGED client)
    <2>1. e \notin asked
      OBVIOUS
    <2> QED
      BY <2>1, CalmSends DEF client
  <1>2. ASSUME NEW req, Sent(req) PROVE e.req = req
    BY <1>2 DEF Sent
  <1>3. ASSUME Stays \/ UNCHANGED job, Upload PROVE Upload' /\ It' = It
    BY <1>0, <1>3, StaysAtItem DEF Upload, It
  <1>4. CASE Cleans
    <2>1. Upload /\ pc' = "cleanup" /\ Stays /\ e.req = Req("discard", It.dst)
      BY <1>1, <1>2, <1>4 DEF Cleans
    <2> QED
      BY <1>3, <2>1, ReqParts DEF FilePcs
  <1>5. CASE Between
    <2>1. CASE StartsFile /\ ~Cleans
      <3>1. \/ Upload /\ pc' = "create" /\ UNCHANGED job /\ e.req = CreateReq(It.dst, Local.tree[It.src])
            \/ e.req = Req("open", It.src)
        BY <1>2, <2>1 DEF StartsFile
      <3> QED
        BY <1>3, <3>1, ReqParts DEF FilePcs, Mutating
    <2> QED
      BY <1>1, <1>4, <1>5, <2>1 DEF Between
  <1>6. CASE MakesDir
    <2>1. pc' = "mkdir" /\ UNCHANGED job /\ e.req = Req("mkdir", It.dst) /\ pc = "dirstat"
      BY <1>1, <1>2, <1>6 DEF MakesDir
    <2>2. Upload
      BY <2>1 DEF FlowInv, Moving, Direction
    <2> QED
      BY <1>3, <2>1, <2>2, ReqParts
  <1>7. CASE Uploads /\ ~Cleans
    <2>1. /\ pc \in {"create", "write"} /\ pc' \in FilePcs /\ (Stays \/ UNCHANGED job)
          /\ \/ \E off : e.req = DataReq("write", It.dst, off)
             \/ e.req = Req("close", It.dst)
      BY <1>2, <1>7 DEF Uploads, FilePcs
    <2>2. Upload
      BY <2>1 DEF FlowInv, Moving, Direction
    <2> QED
      BY <1>3, <2>1, <2>2, ReqParts DEF Mutating
  <1>8. CASE Replaces /\ ~Cleans
    <2>1. /\ Upload /\ pc' \in FilePcs /\ UNCHANGED job
          /\ e.req \in {Req("remove", It.dst), Req("rename", It.dst)}
      BY <1>1, <1>2, <1>8 DEF Replaces, FilePcs, FlowInv, Moving, Direction
    <2> QED
      BY <1>3, <2>1, ReqParts
  <1>9. CASE Browses \/ LogsIn \/ Lists \/ Plans \/ Downloads \/ OpenFiles \/ Transfer \/ Back \/ Decide
    BY <1>1, <1>4, <1>9 DEF Browses, LogsIn, Lists, Plans, Downloads, OpenFiles, Open, Transfer, Back, Drop, Decide, client
  <1> QED
    BY <1>4, <1>5, <1>6, <1>7, <1>8, <1>9 DEF Steps

---------------------------------------------------------------------------
\* Smooth, when the server serves the request.

LEMMA ServedPlaces ==
    ASSUME FlowInv, CopyInv, Owned, Placed, NEW e \in asked, NEW effect, Answered(e, effect)
    PROVE  Placed'
  <1> DEFINE d == disk["remote"]
             new == disk'["remote"]
  <1>1. UNCHANGED <<pc, job>> /\ disk'["local"] = disk["local"] /\ Serves(d, new, e.req, effect.code)
        /\ FineReq(e.req) /\ new = effect.disk /\ effect = Effect(d, e.req)
    BY DEF Answered
  <1>2. It' = It /\ Dest' = Dest /\ job.side \in Sides
    BY <1>1, SameJob DEF CopyInv
  <1>3. GoodSide(d)
    BY DEF FlowInv, Serving, FineDisk, Sides
  <1>4. CASE e.req.op \notin Mutating
    <2>1. new = d
      BY <1>1, <1>3, <1>4, EffectGood
    <2> QED
      BY <1>1, <1>2, <2>1 DEF Placed, Blocked, Sides
  <1>5. CASE e.req.op \in Mutating
    <2>1. /\ Upload /\ e.req.path = It.dst /\ Dest = "remote"
          /\ IF e.req.op = "mkdir" THEN pc = "mkdir" ELSE pc \in FilePcs
      BY <1>5 DEF Owned, Upload, Dest, Other
    <2>2. ASSUME NEW q \in DOMAIN new.part
          PROVE  At(new.tree, q) \in {"dir", "link"} \/ (pc \in FilePcs /\ q = It.dst)
      <3>1. CASE q = It.dst /\ e.req.op # "mkdir"
        BY <2>1, <3>1
      <3>2. CASE q # It.dst \/ e.req.op = "mkdir"
        <4>1. q \in DOMAIN d.part
          BY <1>1, <2>1, <2>2, <3>2 DEF Serves, SamePart, PartAt
        <4>2. At(d.tree, q) \in {"dir", "link"}
          BY <2>1, <3>2, <4>1 DEF Placed, Blocked, Sides, FilePcs
        <4>3. At(new.tree, q) = At(d.tree, q)
          BY <1>1, <2>1, <3>2, <4>2 DEF Serves, Grows, GrowsBeside
        <4> QED
          BY <4>2, <4>3
      <3> QED
        BY <3>1, <3>2
    <2> QED
      BY <1>1, <1>2, <2>1, <2>2 DEF Placed, Blocked, Sides
  <1> QED
    BY <1>4, <1>5

LEMMA ServedFrees ==
    ASSUME FlowInv, Apart, CopyInv, Owned, FreshFree, NEW e \in asked, NEW effect, Answered(e, effect)
    PROVE  FreshFree'
  <1> DEFINE d == disk["remote"]
             new == disk'["remote"]
  <1>1. UNCHANGED <<pc, job, lister>> /\ Serves(d, new, e.req, effect.code) /\ FineReq(e.req) /\ new = effect.disk
        /\ effect = Effect(d, e.req)
    BY DEF Answered
  <1>2. It' = It /\ Dest' = Dest /\ (Upload' <=> Upload)
    BY <1>1, SameJob
  <1> SUFFICES ASSUME Upload, NEW i \in DOMAIN job.plan, Fresh(i), Untried(i)
               PROVE  At(new.tree, job.plan[i].dst) \notin Contents
    <2>1. \A i : (Fresh(i)' <=> Fresh(i)) /\ (Untried(i)' <=> Untried(i))
      BY <1>1 DEF Fresh, Untried, Walking
    <2> QED
      BY <1>1, <1>2, <2>1 DEF FreshFree, Upload, Dest, Other, DestTree
  <1>3. DestTree = d.tree /\ At(d.tree, job.plan[i].dst) \notin Contents
    BY DEF FreshFree, Upload, Dest, Other, DestTree
  <1>4. CASE e.req.op # "rename"
    BY <1>1, <1>3, <1>4, ContentsAssumption DEF Serves, NoNewFile
  <1>5. CASE e.req.op = "rename"
    <2>1. e.req.path = It.dst /\ pc \in FilePcs
      BY <1>5 DEF Owned, Mutating
    <2>2. CASE job.plan[i].dst # It.dst
      <3>1. At(new.tree, job.plan[i].dst) = At(d.tree, job.plan[i].dst)
        BY <1>1, <1>5, <2>1, <2>2 DEF Serves, Took, SameElsewhere
      <3> QED
        BY <1>3, <3>1
    <2>3. CASE job.plan[i].dst = It.dst
      <3>1. ~Ahead(It.dst)
        BY <1>5, <2>1 DEF CopyInv, Pending, Settled
      <3>2. i > job.at \/ (i = job.at /\ pc # "rename")
        BY <2>1 DEF Untried, Walking, FilePcs, ListPcs
      <3>3. job.at \in Nat /\ i \in Nat
        BY <2>1, Places DEF FlowInv, Moving, AtFile, Apart, Copying
      <3>4. pc \in Copying /\ i >= job.at /\ job.plan[i].dst = It.dst
        BY <2>1, <2>3, <3>2, <3>3 DEF Copying
      <3>5. i = job.at /\ pc = "remove"
        BY <3>1, <3>2, <3>3, <3>4 DEF Ahead
      <3>6. e.req = Req("remove", It.dst)
        BY <3>5 DEF CopyInv, UpStages
      <3> QED
        BY <1>5, <3>6, ReqParts
    <2> QED
      BY <2>2, <2>3
  <1> QED
    BY <1>4, <1>5

LEMMA ServedTells ==
    ASSUME FlowInv, StatTold, NEW e \in asked, NEW effect, Answered(e, effect)
    PROVE  StatTold'
  <1>1. UNCHANGED <<pc, job, sent, call>> /\ (Upload' <=> Upload) /\ Dest' = Dest
    BY SameJob DEF Answered
  <1>2. Todo' = Todo
    BY <1>1 DEF Todo
  <1> SUFFICES ASSUME pc = "exists"
               PROVE  /\ call'.req = Req("stat", Todo.dst)
                      /\ At(DestTree', Todo.dst) \in Contents => Said("file")'
    BY <1>1, <1>2 DEF StatTold
  <1>3. Upload /\ e.req = Req("stat", Todo.dst) /\ effect = Effect(disk["remote"], e.req)
    BY DEF FlowInv, Moving, Direction, StatTold, Answered
  <1>4. e.req.op = "stat" /\ e.req.path = Todo.dst
    BY <1>3, ReqParts
  <1>5. effect = Says(disk["remote"], CASE At(disk["remote"].tree, Todo.dst) \in {"none", "link"} -> "none"
                                         [] At(disk["remote"].tree, Todo.dst) = "dir" -> "dir"
                                         [] OTHER -> "file")
    BY <1>3, <1>4 DEF Effect
  <1>6. disk'["remote"] = disk["remote"]
    BY <1>5 DEF Answered, Says
  <1>7. DestTree' = DestTree /\ DestTree = disk["remote"].tree
    BY <1>1, <1>3, <1>6 DEF Upload, Dest, Other, DestTree
  <1>8. ASSUME At(DestTree, Todo.dst) \in Contents PROVE Said("file")'
    <2>1. effect.code = "file"
      BY <1>5, <1>7, <1>8, ContentsAssumption DEF Says
    <2>2. /\ wire' = <<[no |-> sent, id |-> e.id, ans |-> [code |-> "file", entries |-> effect.entries]]>>
          /\ call'.st = "waiting" /\ sent' = sent
      BY <2>1 DEF Answered
    <2>3. 1 \in DOMAIN wire' /\ wire'[1].no = sent' /\ wire'[1].ans.code = "file"
      BY <2>2
    <2> QED
      BY <2>2, <2>3 DEF Said
  <1> QED
    BY <1>1, <1>7, <1>8 DEF StatTold

LEMMA ServedStages ==
    ASSUME FlowInv, CopyInv, Freed, NEW e \in asked, NEW effect, Answered(e, effect)
    PROVE  Freed'
  <1> DEFINE d == disk["remote"]
             new == disk'["remote"]
  <1>1. UNCHANGED <<pc, job, call>> /\ (Upload' <=> Upload) /\ Dest' = Dest /\ It' = It
    BY SameJob DEF Answered
  <1>2. Heard' /\ ~Heard
    BY DEF Answered, Heard
  <1>3. GoodSide(d) /\ new = effect.disk /\ effect = Effect(d, e.req) /\ e.req = call.req
    BY DEF FlowInv, Serving, FineDisk, Sides, Answered
  <1>4. pc \in {"cleanup", "remove", "rename"} => Dest = "remote"
    BY DEF FlowInv, Moving, Direction, Upload, Dest, Other
  <1>5. CASE pc = "cleanup"
    <2>1. e.req.op = "discard" /\ e.req.path = It.dst
      BY <1>3, <1>5, ReqParts DEF Freed
    <2>2. new = RemovePart(d, It.dst).disk
      BY <1>3, <2>1 DEF Effect
    <2>3. ~PartAt(new, It.dst)
      BY <1>3, <2>2, DiscardAt
    <2> QED
      BY <1>1, <1>4, <1>5, <2>3 DEF Freed
  <1>6. CASE pc = "remove"
    <2>1. e.req.op = "remove" /\ e.req.path = It.dst
      BY <1>3, <1>6, ReqParts DEF Freed
    <2>2. new = RemoveFile(d, It.dst).disk
      BY <1>3, <2>1 DEF Effect
    <2>3. At(new.tree, It.dst) \notin Contents
      <3>1. CASE At(d.tree, It.dst) \in {"none", "dir"}
        BY <2>2, <3>1, ContentsAssumption DEF RemoveFile, Denied
      <3>2. CASE At(d.tree, It.dst) \notin {"none", "dir"}
        <4>1. It.dst # <<>> /\ new.tree = Del(d.tree, It.dst)
          BY <1>3, <2>2, <3>2 DEF RemoveFile, Does, At, GoodSide
        <4> QED
          BY <4>1, ContentsAssumption DEF At, Del
      <3> QED
        BY <3>1, <3>2
    <2> QED
      BY <1>1, <1>4, <1>6, <2>3 DEF Freed, DestTree
  <1>7. CASE pc = "rename"
    <2>1. e.req.op = "rename" /\ e.req.path = It.dst
      BY <1>3, <1>4, <1>7, ReqParts DEF CopyInv, UpStages, FlowInv, Moving, Direction
    <2>2. new = RenamePart(d, It.dst).disk
      BY <1>3, <2>1 DEF Effect
    <2>3. At(d.tree, It.dst) \notin Contents
      BY <1>2, <1>4, <1>7 DEF Freed, DestTree
    <2>4. ASSUME PartAt(new, It.dst) PROVE At(new.tree, It.dst) \in {"dir", "link"}
      <3>1. RenamePart(d, It.dst).code = "status" /\ new = d
        BY <2>2, <2>4, RenameAt DEF Took
      <3>2. At(d.tree, It.dst) # "none"
        BY <2>4, <3>1 DEF RenamePart, Does
      <3>3. \A q \in DOMAIN d.tree : d.tree[q] \in Contents \cup {"dir", "link"}
        BY <1>3 DEF CopyInv, NoPiece, Sides, GoodSide, GoodTree, Nodes, FileNodes
      <3> QED
        BY <2>3, <3>1, <3>2, <3>3 DEF At
    <2> QED
      BY <1>1, <1>2, <1>4, <1>7, <2>4 DEF Freed, Blocked
  <1> QED
    BY <1>1, <1>5, <1>6, <1>7 DEF Freed

\* Smooth, when no file changes and nothing new is said.
LEMMA SmoothKept ==
    ASSUME Owned, Placed, FreshFree, StatTold, Freed, UNCHANGED <<disk, pc, job, lister>>,
           asked' \subseteq asked, call'.req = call.req, Heard' <=> Heard, Said("file") => Said("file")'
    PROVE  Owned' /\ Placed' /\ FreshFree' /\ StatTold' /\ Freed'
  <1>1. (Upload' <=> Upload) /\ It' = It /\ Dest' = Dest /\ DestTree' = DestTree /\ Todo' = Todo
    BY SameJob DEF DestTree, Todo
  <1>2. \A i : (Fresh(i)' <=> Fresh(i)) /\ (Untried(i)' <=> Untried(i))
    BY DEF Fresh, Untried, Walking
  <1>3. \A s, q : Blocked(s, q)' <=> Blocked(s, q)
    BY DEF Blocked
  <1>4. Owned' /\ Placed' /\ FreshFree'
    BY <1>1, <1>2, <1>3 DEF Owned, Placed, FreshFree
  <1>5. StatTold' /\ Freed'
    BY <1>1, <1>3 DEF StatTold, Freed
  <1> QED
    BY <1>4, <1>5

LEMMA SmoothWaits ==
    ASSUME FlowInv, StreamInv', Apart, CopyInv, TypeInv, Smooth,
           EnvStep \/ Rest \/ UNCHANGED vars, faults' = faults
    PROVE  Smooth'
  <1>1. Waits
    BY WaitTable
  <1>2. Prompt'
    BY <1>1, PromptWaits DEF Smooth
  <1>3. CASE ServerStep
    <2> PICK e \in asked : \E effect : Answered(e, effect)
      BY <1>3, FaultlessServer DEF Smooth
    <2> PICK effect : Answered(e, effect)
      OBVIOUS
    <2>1. Owned'
      BY <1>1, OwnedWaits DEF Smooth
    <2>2. Placed'
      BY ServedPlaces DEF Smooth
    <2>3. FreshFree'
      BY ServedFrees DEF Smooth
    <2>4. StatTold' /\ Freed'
      BY ServedTells, ServedStages DEF Smooth
    <2> QED
      BY <1>2, <2>1, <2>2, <2>3, <2>4 DEF Smooth
  <1>4. CASE ~ServerStep
    <2>1. Receive \/ UNCHANGED client
      <3>0. faults \in Nat
        BY BoundsAssumption DEF TypeInv, InBounds
      <3>1. ~LimitHit /\ ~ConnectionLost
        BY <3>0 DEF LimitHit, ConnectionLost, Pay
      <3>2. ~ReadTorn /\ ~ReadClosed /\ ~Abandon
        BY DEF ReadTorn, ReadClosed, Abandon, Smooth, Prompt
      <3> QED
        BY <1>4, <3>1, <3>2 DEF EnvStep, ReplyRead, RequestLost, Rest, vars
    <2>2. UNCHANGED <<disk, pc, job, lister>> /\ asked' \subseteq asked
      BY <1>1, <1>4 DEF Waits
    <2>3. CallShaped
      BY StreamShapesCall DEF FlowInv
    <2>4. call'.req = call.req
      BY <1>1, <2>3, WaitCall
    <2>5. CASE Receive
      <3>1. call'.st = "answered"
        BY <2>5, PromptReads DEF Smooth
      <3>2. Heard /\ Heard'
        BY <2>5, <3>1 DEF Receive, Heard
      <3>3. Said("file") => Said("file")'
        <4>1. call.st = "waiting" /\ 1 \in DOMAIN wire /\ wire[1].no = sent /\ call'.ans = wire[1].ans
          BY <2>5, <3>1, AnswerIsOwn DEF FlowInv
        <4>2. ASSUME NEW i \in DOMAIN wire, wire[i].no = sent PROVE i = 1
          <5>1. DOMAIN wire = 1..Len(wire) /\ Len(wire) \in Nat /\ sent \in Nat
            BY NumbersAreNumbers DEF FlowInv
          <5>2. 1 < i => wire[1].no < wire[i].no
            BY <4>1 DEF FlowInv, StreamInv, InTurn
          <5> QED
            BY <4>1, <4>2, <5>1, <5>2
        <4> QED
          BY <3>1, <4>1, <4>2 DEF Said
      <3> QED
        BY <1>2, <2>2, <2>4, <3>2, <3>3, SmoothKept DEF Smooth
    <2>6. CASE UNCHANGED client
      <3>1. (Heard' <=> Heard) /\ (Said("file") => Said("file")')
        BY <2>6 DEF client, Heard, Said
      <3> QED
        BY <1>2, <2>2, <2>4, <3>1, SmoothKept DEF Smooth
    <2> QED
      BY <2>1, <2>5, <2>6
  <1> QED
    BY <1>3, <1>4

---------------------------------------------------------------------------
\* Smooth, when a flow moves.

\* What happens to the connection while nothing is asked.
LEMMA IdleWaits ==
    ASSUME FlowInv, Smooth, call.st # "waiting", Waits
    PROVE  Owned' /\ Placed' /\ FreshFree' /\ StatTold' /\ Freed'
  <1>1. asked = {} /\ wire = <<>> /\ CallShaped
    BY StreamShapesCall DEF Smooth, Prompt, FlowInv
  <1>2. UNCHANGED <<disk, pc, job, lister>> /\ call' = call /\ asked' = {} /\ wire' = <<>>
    BY <1>1 DEF Waits, ServerStep, Receive, TimeOut, ReadTorn, ReadClosed, Lose, Abandon, client
  <1>3. (Heard' <=> Heard) /\ (Said("file") => Said("file")')
    BY <1>1, <1>2 DEF Heard, Said
  <1> QED
    BY <1>1, <1>2, <1>3, SmoothKept DEF Smooth

\* An answer is there when a flow that waited for one goes on.
LEMMA SmoothReturns ==
    ASSUME Prompt, Returned PROVE call.st = "answered" /\ Heard
  BY DEF Prompt, Returned, Heard

\* A request that is only now sent is not heard of.
LEMMA SentUnheard ==
    ASSUME Prompt, call.st # "waiting", NEW req, Sent(req) PROVE ~Heard' /\ call'.req = req
  BY DEF Prompt, Sent, Heard

\* Only a transfer from here asks whether a file is there.
LEMMA AsksThere ==
    ASSUME Acts, pc' \in {"exists", "size"}
    PROVE  /\ VisitFile
           /\ pc' = "exists" => Upload /\ Ask("stat", Todo.dst, "exists") /\ UNCHANGED job
           /\ pc' = "size" => ~Upload /\ UNCHANGED job
  <1>0. \A j, next : OrCancel(j, next) \/ Cancel(j) \/ Finish(j) => pc' \in {next, "finish"}
    BY DEF OrCancel, Cancel, Finish
  <1>i. ItemDone \/ ItemFails => pc' \in {"item", "finish"}
    BY <1>0 DEF ItemDone, ItemFails
  <1>c. \A out, cost : CleanUp(out, cost) => pc' \in {"cleanup", "item", "finish"}
    BY <1>0, <1>i DEF CleanUp, Ask
  <1>l. \A path, then : ListDir(path, then) => pc' = "opendir"
    BY DEF ListDir, Ask
  <1>1. ~KeyStep /\ ~OpenFiles
    BY <1>0, <1>l DEF KeyStep, SwitchPane, MoveCursor, ToggleMark, OpenSelected, GoUp, Go, GoLocal, Refresh, ListRemote,
                      Transfer, Back, Decide, Key, OpenFiles
  <1>2. ~(Login \/ FallBack \/ FirstListing \/ Opendir \/ Readdir \/ Closedir \/ ListingShown \/ Finished)
    BY <1>l DEF Login, FallBack, FirstListing, Opendir, Readdir, Closedir, ListingShown, Finished, ListRemote, Ask
  <1>3. ~(VisitLocalDir \/ VisitRemoteDir \/ VisitLink \/ Sized \/ ExistsAnswered \/ PlanDone \/ AllDecided)
    <2>1. ~VisitLocalDir /\ ~VisitLink /\ ~PlanDone /\ ~AllDecided
      BY DEF VisitLocalDir, VisitLink, PlanDone, AllDecided
    <2>2. ~VisitRemoteDir
      BY <1>l DEF VisitRemoteDir
    <2>3. ~Sized /\ ~ExistsAnswered
      BY <1>0 DEF Sized, ExistsAnswered, PushFile
    <2> QED
      BY <2>1, <2>2, <2>3
  <1>4. ~(ItemSkipped \/ RunDone \/ EnsureDir \/ DirStat \/ Mkdir \/ CleanedUp \/ CancelClosed \/ Removed \/ Renamed)
    BY <1>0, <1>i, <1>c DEF ItemSkipped, RunDone, EnsureDir, DirStat, Mkdir, CleanedUp, CancelClosed, Removed, Renamed, Ask
  <1>5. ~(StartFile \/ Created \/ Written \/ Opened \/ ReadDone \/ Closed)
    BY <1>0, <1>i, <1>c DEF StartFile, Created, Written, Opened, ReadDone, Closed, Upload1, Ask, AskCreate, AskWrite, AskRead
  <1>6. VisitFile
    BY <1>1, <1>2, <1>3, <1>4, <1>5 DEF Acts, FlowStep
  <1> QED
    BY <1>0, <1>6 DEF VisitFile, PushFile, Ask

LEMMA TellsSent ==
    ASSUME FlowInv, Prompt, Resting, Acts PROVE StatTold'
  <1>0. call.st # "waiting" /\ CallShaped
    BY ActsReady, StreamShapesCall DEF FlowInv
  <1>1. CASE pc' = "exists"
    <2>1. Sent(Req("stat", Todo.dst)) /\ UNCHANGED job
      BY <1>0, <1>1, AsksThere, AskFacts
    <2>2. ~Heard' /\ call'.req = Req("stat", Todo.dst) /\ Todo' = Todo
      BY <1>0, <2>1, SentUnheard DEF Todo
    <2> QED
      BY <1>1, <2>2 DEF StatTold, Req
  <1>2. CASE pc' = "size"
    BY <1>2, AsksThere DEF StatTold, Upload
  <1> QED
    BY <1>1, <1>2 DEF StatTold

LEMMA OwnedActs ==
    ASSUME FlowInv, Prompt, Resting, Acts, Steps, ~Waits PROVE Owned'
  <1>1. asked = {}
    BY ActsReady DEF Prompt
  <1> QED
    BY <1>1, OwnedSent DEF Owned

\* A copy takes its name only where nothing is in the way.
LEMMA FreedActs ==
    ASSUME FlowInv, Apart, CopyInv, TypeInv, Smooth, Resting, Acts, Steps, ~Waits PROVE Freed'
  <1>0. call.st # "waiting" /\ CallShaped /\ JobShaped
    BY ActsReady, StreamShapesCall DEF FlowInv, Moving
  <1>h. ASSUME NEW req, Sent(req) PROVE ~Heard' /\ call'.req = req
    BY <1>0, <1>h, SentUnheard DEF Smooth
  <1>1. CASE Cleans /\ pc' \in {"cleanup", "remove", "rename"}
    <2>1. pc' = "cleanup" /\ Stays /\ Sent(Req("discard", It.dst))
      BY <1>1 DEF Cleans, Leaves, Advances
    <2>2. It' = It
      BY <1>0, <2>1, StaysAtItem DEF It
    <2>3. Req("discard", It.dst)' = Req("discard", It.dst)
      BY <2>2 DEF Req
    <2> QED
      BY <1>h, <2>1, <2>3 DEF Freed
  <1>2. CASE pc' \in {"remove", "rename"}
    <2>1. /\ UNCHANGED <<job, disk>>
          /\ \/ pc' = "remove" /\ Sent(Req("remove", It.dst))
             \/ pc' = "rename" /\ Sent(Req("rename", It.dst)) /\ pc \in {"close", "remove"}
      BY <1>2 DEF Steps, Browses, LogsIn, Lists, Plans, Between, StartsFile, MakesDir, Uploads, Downloads,
                  Replaces, OpenFiles, Transfer, Back, Decide, Cleans, Cancel, Finish, Leaves, Counts, Advances
    <2>2. It' = It /\ Dest' = Dest /\ DestTree' = DestTree
      BY <2>1 DEF It, Dest, DestTree
    <2>3. \A op : Req(op, It.dst)' = Req(op, It.dst)
      BY <2>2 DEF Req
    <2>4. ASSUME pc' = "rename", pc \in {"close", "remove"} PROVE At(DestTree, It.dst) \notin Contents
      <3>1. CASE pc = "remove"
        <4>1. Returned
          BY <2>4, <3>1 DEF Acts, KeyStep, FlowStep, OpenFiles, SwitchPane, MoveCursor, ToggleMark, OpenSelected, GoUp, Refresh, Transfer,
            Back, Decide, Key, Login, FallBack, FirstListing, Opendir, Readdir, Closedir, ListingShown,
            VisitLocalDir, VisitRemoteDir, VisitLink, VisitFile, Sized, ExistsAnswered, PlanDone, AllDecided,
            ItemSkipped, RunDone, EnsureDir, DirStat, Mkdir, CleanedUp, StartFile, Created, Written, Opened,
            ReadDone, CancelClosed, Closed, Removed, Renamed, Finished
        <4> QED
          BY <3>1, <4>1, SmoothReturns DEF Smooth, Freed
      <3>2. CASE pc = "close"
        <4>1. Closed
          BY <2>4, <3>2 DEF Acts, KeyStep, FlowStep, OpenFiles, SwitchPane, MoveCursor, ToggleMark, OpenSelected, GoUp, Refresh, Transfer,
            Back, Decide, Key, Login, FallBack, FirstListing, Opendir, Readdir, Closedir, ListingShown,
            VisitLocalDir, VisitRemoteDir, VisitLink, VisitFile, Sized, ExistsAnswered, PlanDone, AllDecided,
            ItemSkipped, RunDone, EnsureDir, DirStat, Mkdir, CleanedUp, StartFile, Created, Written, Opened,
            ReadDone, CancelClosed, Removed, Renamed, Finished
        <4>2. Upload /\ ~It.exists
          BY <2>4, <4>1 DEF Closed, CleanUp, Ask, ItemDone, ItemFails, OrCancel, Cancel, Finish
        <4>3. job.at \in DOMAIN job.plan /\ Fresh(job.at) /\ Untried(job.at) /\ It = job.plan[job.at]
          BY <3>2, <4>2 DEF FlowInv, Moving, AtFile, FilePcs, Fresh, Untried, Copying, It
        <4> QED
          BY <4>2, <4>3 DEF Smooth, FreshFree
      <3> QED
        BY <2>4, <3>1, <3>2
    <2> QED
      BY <1>h, <2>1, <2>2, <2>3, <2>4 DEF Freed
  <1>3. pc' = "cleanup" => Cleans
    BY DEF Steps, Browses, LogsIn, Lists, Plans, Between, StartsFile, MakesDir, Uploads, Downloads,
           Replaces, OpenFiles, Transfer, Back, Decide, Cancel, Finish, Leaves, Counts, Advances
  <1> QED
    BY <1>1, <1>2, <1>3 DEF Freed

LEMMA RenameEnds == ASSUME Steps, ~Waits, pc = "rename" PROVE Counts \/ Leaves
  BY DEF Steps, Browses, LogsIn, Lists, Plans, Between, MakesDir, Uploads, Downloads, Replaces, Cleans,
         OpenFiles, Transfer, Key, Back, Decide

LEMMA WalksOn ==
    ASSUME FlowInv, Steps, ~Plans, ~Decide, ~Transfer, ~Back, Walking' PROVE Walking
  BY DEF Steps, Browses, LogsIn, Lists, Between, StartsFile, MakesDir, Uploads, Downloads, Replaces, Waits, Cleans,
         Leaves, Counts, Advances, OpenFiles, Walking, ListPcs, NoList

LEMMA UntriedBefore ==
    ASSUME FlowInv, Apart, Steps, ~Waits, ~Transfer, ~Back, ~Plans, ~Decide, NEW i \in DOMAIN job.plan, Untried(i)'
    PROVE  Untried(i)
  <1>1. CASE Walking'
    BY <1>1, WalksOn DEF Untried
  <1>2. CASE pc' \in Copying /\ (i > job'.at \/ (i = job'.at /\ pc' # "rename"))
    <2>1. /\ pc \in Copying /\ job'.at \in {job.at, job.at + 1} /\ job.at \in Nat \ {0} /\ i \in Nat
          /\ job'.at = job.at + 1 => pc' = "item"
      BY <1>2, NextPlace, Places DEF Apart
    <2>2. CASE i > job.at
      BY <2>1, <2>2 DEF Untried
    <2>3. CASE i = job.at
      <3>1. pc # "rename"
        <4> SUFFICES ASSUME pc = "rename" PROVE FALSE
          OBVIOUS
        <4>1. Counts \/ Leaves
          BY RenameEnds
        <4>2. pc' = "item"
          BY <1>2, <4>1 DEF Counts, Leaves, Advances, Copying, FilePcs
        <4>3. job'.at = job.at + 1
          BY <4>1, <4>2 DEF Counts, Leaves, Advances
        <4> QED
          BY <1>2, <2>1, <2>3, <4>3
      <3> QED
        BY <2>1, <2>3, <3>1 DEF Untried
    <2> QED
      BY <1>2, <2>1, <2>2, <2>3
  <1> QED
    BY <1>1, <1>2 DEF Untried

\* A file the plan takes for new was not there when the server was asked.
LEMMA FreshPlans ==
    ASSUME FlowInv, Apart, Smooth, Resting, Acts, Plans, Upload
    PROVE  FreshFree'
  <1>0. JobShaped /\ DestTree' = DestTree /\ (Upload' <=> Upload)
    BY DEF FlowInv, Moving, Plans, SameTask, DestTree, Dest, Upload
  <1>1. ASSUME job'.plan = job.plan, Walking PROVE FreshFree'
    <2>1. \A i \in DOMAIN job.plan : (Fresh(i)' <=> Fresh(i)) /\ Untried(i)
      BY <1>1 DEF Fresh, Untried
    <2> QED
      BY <1>0, <1>1, <2>1 DEF FreshFree, Smooth
  <1>2. CASE UNCHANGED job \/ job'.plan = job.plan
    <2>1. Walking \/ ~Plans
      BY DEF Plans, Walking, ListPcs
    <2> QED
      BY <1>1, <1>2, <2>1
  <1>3. CASE Appends /\ job'.plan # job.plan
    <2>1. PICK exists : job'.plan = Append(job.plan, Item(Todo, exists))
      BY <1>3 DEF Appends
    <2>2. Walking
      BY DEF Plans, Walking, ListPcs
    <2>3. job.plan \in Seq(Items)
      BY DEF Apart, PlanFits
    <2> DEFINE item == Item(Todo, exists)
    <2> PICK n : n = Len(job.plan) + 1
      OBVIOUS
    <2>a. \A x : Append(job.plan, x)[n] = x
      BY <2>3
    <2>4. /\ DOMAIN job'.plan = DOMAIN job.plan \cup {n} /\ job'.plan[n] = item
          /\ \A i \in DOMAIN job.plan : job'.plan[i] = job.plan[i]
      BY <2>1, <2>3
    <2>5. ASSUME Todo.kind \notin {"dir", "link"}, ~exists PROVE At(DestTree, Todo.dst) \notin Contents
      <3>1. Sized \/ ExistsAnswered \/ VisitFile
        <4>1. job' # job
          BY <1>3
        <4>2. ~(VisitLocalDir \/ VisitRemoteDir \/ VisitLink \/ PlanDone \/ AllDecided \/ Decide \/ Transfer \/ Back)
          BY <1>3, <2>5, <1>0 DEF VisitLocalDir, VisitRemoteDir, VisitLink, PlanDone, AllDecided, Transfer, Back, Decide, Plans,
                           ListDir, Key, JobShaped, JobFields, FlowInv, Moving, Direction, ListPcs
        <4>3. ~(\/ Login \/ FallBack \/ FirstListing \/ Opendir \/ Readdir \/ Closedir \/ ListingShown \/ OpenFiles
                \/ SwitchPane \/ MoveCursor \/ ToggleMark \/ OpenSelected \/ GoUp \/ Refresh \/ Finished)
          BY <4>1 DEF Login, FallBack, FirstListing, Opendir, Readdir, Closedir, ListingShown, OpenFiles,
                      SwitchPane, MoveCursor, ToggleMark, OpenSelected, GoUp, Refresh, Finished
        <4>4. pc \in {"visit", "listed", "size", "exists"}
          BY <1>3, <4>1 DEF Plans
        <4>5. ~(\/ ItemSkipped \/ RunDone \/ EnsureDir \/ DirStat \/ Mkdir \/ CleanedUp
                \/ StartFile \/ Created \/ Written \/ Opened \/ ReadDone \/ CancelClosed
                \/ Closed \/ Removed \/ Renamed)
          BY <4>4 DEF ItemSkipped, RunDone, EnsureDir, DirStat, Mkdir, CleanedUp, StartFile, Created, Written, Opened,
                      ReadDone, CancelClosed, Closed, Removed, Renamed
        <4> QED
          BY <4>2, <4>3, <4>5 DEF Acts, KeyStep, FlowStep
      <3>2. ~Sized /\ ~VisitFile
        BY <1>3 DEF Sized, VisitFile, Smooth, StatTold
      <3>3. pc = "exists" /\ Returned /\ PushFile(Got({"dir", "file"}))
        BY <3>1, <3>2 DEF ExistsAnswered
      <3>4. job'.plan = Append(job.plan, Item(Todo, Got({"dir", "file"})))
        BY <1>0, <3>3, PushTable
      <3>5. exists = Got({"dir", "file"})
        <4>1. Item(Todo, Got({"dir", "file"})) = item
          <5>1. job'.plan[n] = Item(Todo, Got({"dir", "file"}))
            BY <2>a, <3>4
          <5> QED
            BY <2>4, <5>1
        <4> QED
          BY <4>1 DEF Item
      <3>6. call.st = "answered" /\ Heard
        BY <3>3, SmoothReturns DEF Smooth
      <3>7. ~Said("file")
        BY <2>5, <3>5, <3>6 DEF Got, Said
      <3> QED
        BY <3>3, <3>6, <3>7 DEF Smooth, StatTold
    <2>6. \A i \in DOMAIN job.plan : (Fresh(i)' <=> Fresh(i)) /\ Untried(i)
      BY <2>2, <2>4 DEF Fresh, Untried
    <2>7. Fresh(n)' => At(DestTree, Todo.dst) \notin Contents /\ job'.plan[n].dst = Todo.dst
      <3>1. /\ item.exists = exists /\ item.dst = Todo.dst
            /\ item.dir = (Todo.kind = "dir") /\ item.skip = (Todo.kind = "link")
        BY DEF Item
      <3>2. Fresh(n)' => ~item.exists /\ ~item.dir /\ ~item.skip
        BY <2>4 DEF Fresh
      <3>3. ~item.exists => ~exists
        BY <3>1, Zenon
      <3>4. ~item.dir /\ ~item.skip => Todo.kind \notin {"dir", "link"}
        BY <3>1
      <3> QED
        BY <2>4, <2>5, <3>1, <3>2, <3>3, <3>4
    <2> QED
      BY <1>0, <2>4, <2>6, <2>7 DEF FreshFree, Smooth
  <1> QED
    BY <1>2, <1>3 DEF Plans

LEMMA FreshActs ==
    ASSUME FlowInv, Apart, CopyInv, Smooth, Resting, Acts, Steps, ~Waits PROVE FreshFree'
  <1>1. CASE Transfer
    <2>1. job'.plan = <<>>
      BY <1>1, TransferTable DEF Starts
    <2> QED
      BY <2>1 DEF FreshFree
  <1>2. CASE Back
    BY <1>2 DEF Back, FreshFree, Untried, Walking, Copying, FilePcs, ListPcs
  <1>3. CASE ~Transfer /\ ~Back /\ Upload
    <2>1. UNCHANGED disk /\ job'.side = job.side /\ (Upload' <=> Upload)
      BY <1>3, UploadKeepsDisk, SameTasks
    <2>2. DestTree' = DestTree
      BY <2>1 DEF DestTree, Dest
    <2>3. CASE Plans
      BY <1>3, <2>3, FreshPlans
    <2>4. CASE Decide
      <3>1. pc = "ask" /\ DOMAIN job'.plan = DOMAIN job.plan
            /\ \A i \in DOMAIN job.plan : (Fresh(i)' => Fresh(i)) /\ job'.plan[i].dst = job.plan[i].dst
        <4>1. Decides
          BY <2>4, DecideTable DEF FlowInv, Moving
        <4>2. CASE job'.plan = job.plan
          BY <4>1, <4>2 DEF Decides, Fresh
        <4>3. CASE \E i \in Later : job'.plan = [job.plan EXCEPT ![i].skip = TRUE]
          <5> PICK i \in Later : job'.plan = [job.plan EXCEPT ![i].skip = TRUE]
            BY <4>3
          <5>1. \A item \in Items : DOMAIN item = ItemFields
            BY DEF Items, ItemFields
          <5>2. \A j \in DOMAIN job.plan : DOMAIN job.plan[j] = ItemFields
            BY <5>1 DEF Apart, PlanFits
          <5>3. DOMAIN job'.plan = DOMAIN job.plan /\ \A j \in DOMAIN job.plan : j # i => job'.plan[j] = job.plan[j]
            OBVIOUS
          <5>4. i \in DOMAIN job.plan => job'.plan[i] = [job.plan[i] EXCEPT !.skip = TRUE]
            OBVIOUS
          <5>5. i \in DOMAIN job.plan => job'.plan[i].dst = job.plan[i].dst /\ job'.plan[i].skip
            BY <5>2, <5>4 DEF ItemFields
          <5> QED
            BY <4>1, <5>3, <5>5 DEF Decides, Fresh
        <4> QED
          BY <4>1, <4>2, <4>3 DEF Decides, SamePlan
      <3>2. \A i : Untried(i)
        BY <3>1 DEF Untried, Walking
      <3> QED
        BY <1>3, <2>2, <3>1, <3>2 DEF FreshFree, Smooth
    <2>5. CASE ~Plans /\ ~Decide
      <3>1. job'.plan = job.plan
        BY <1>3, <2>5, SamePlans DEF SameAnswers
      <3>2. \A i \in DOMAIN job.plan : (Fresh(i)' <=> Fresh(i)) /\ (Untried(i)' => Untried(i))
        BY <1>3, <2>5, <3>1, UntriedBefore DEF Fresh
      <3> QED
        BY <1>3, <2>2, <3>1, <3>2 DEF FreshFree, Smooth
    <2> QED
      BY <2>3, <2>4, <2>5
  <1>4. CASE ~Transfer /\ ~Back /\ ~Upload
    <2>1. ~Upload'
      BY <1>4, SameTasks
    <2> QED
      BY <2>1 DEF FreshFree
  <1> QED
    BY <1>1, <1>2, <1>3, <1>4

---------------------------------------------------------------------------
\* Where a download leaves its file without a fault, its copy is gone, took
\* the name, or a directory has the name.

LEMMA NoFault == ASSUME faults \in Nat, faults' = faults, NEW n \in Nat, Pay(n) PROVE n = 0
  BY DEF Pay

LEMMA CleanUpDown ==
    ASSUME faults \in Nat, faults' = faults, ~Upload, NEW out, NEW cost \in Nat, CleanUp(out, cost)
    PROVE  OnLocal(RemovePart(Local, It.dst))
  <1>1. ~Pay(cost + 1)
    BY DEF Pay
  <1> QED
    BY <1>1 DEF CleanUp

DownFiles == Opened \/ ReadDone \/ CancelClosed \/ Closed

LEMMA DownFileActs ==
    ASSUME FlowInv, Acts, pc \in FilePcs, ~Upload PROVE DownFiles
  <1>1. pc \in {"open", "read", "close", "closeCancelled"}
    BY DEF FlowInv, Moving, Direction, FilePcs
  <1> QED
    BY <1>1 DEF Acts, KeyStep, FlowStep, OpenFiles, SwitchPane, MoveCursor, ToggleMark, OpenSelected, GoUp, Refresh, Transfer,
            Back, Decide, Key, Login, FallBack, FirstListing, Opendir, Readdir, Closedir, ListingShown,
            VisitLocalDir, VisitRemoteDir, VisitLink, VisitFile, Sized, ExistsAnswered, PlanDone, AllDecided,
            ItemSkipped, RunDone, EnsureDir, DirStat, Mkdir, CleanedUp, StartFile, Created, Written,
            Removed, Renamed, Finished, DownFiles

LEMMA FaultlessExit ==
    ASSUME FlowInv, DownFiles, faults \in Nat, faults' = faults, ~Upload, pc' \notin FilePcs
    PROVE  \/ OnLocal(RemovePart(Local, It.dst))
           \/ pc = "close" /\ Succeeds(RenameLocal(Local, It.dst)) /\ OnLocal(RenameLocal(Local, It.dst))
           \/ pc = "close" /\ ~Succeeds(RenameLocal(Local, It.dst)) /\ UNCHANGED disk
  <1>0. {"read", "close", "closeCancelled"} \subseteq FilePcs
    BY DEF FilePcs
  <1>1. \A out : \A cost \in {0, 1} : CleanUp(out, cost) => OnLocal(RemovePart(Local, It.dst))
    BY CleanUpDown
  <1>2. CASE Opened
    BY <1>0, <1>1, <1>2 DEF Opened, AskRead
  <1>3. CASE ReadDone
    BY <1>0, <1>1, <1>3 DEF ReadDone, AskRead, Ask
  <1>4. CASE CancelClosed
    BY <1>1, <1>4 DEF CancelClosed
  <1>5. CASE Closed
    <2>1. \/ CleanUp("err", 0)
          \/ Succeeds(RenameLocal(Local, It.dst)) /\ OnLocal(RenameLocal(Local, It.dst))
          \/ Maybe(Succeeds(RenameLocal(Local, It.dst))) /\ UNCHANGED disk
      BY <1>5 DEF Closed
    <2>2. pc = "close"
      BY <1>5 DEF Closed
    <2>3. ~Pay(1)
      BY DEF Pay
    <2> QED
      BY <1>1, <2>1, <2>2, <2>3 DEF Maybe
  <1> QED
    BY <1>2, <1>3, <1>4, <1>5 DEF DownFiles

\* The file a flow stays at is the same file.
LEMMA SameFile ==
    ASSUME FlowInv, Steps, ~Waits, pc' \in FilePcs
    PROVE  It' = It /\ (Upload' <=> Upload) /\ Dest' = Dest
  <1>0. JobShaped
    BY DEF FlowInv, Moving
  <1>1. UNCHANGED job \/ Stays
    BY DEF Steps, Browses, LogsIn, Lists, Plans, Between, StartsFile, MakesDir, Uploads, Downloads, Replaces, Cleans,
           Leaves, Counts, Advances, OpenFiles, Transfer, Back, Decide, Cancel, Finish, FilePcs
  <1> QED
    BY <1>0, <1>1, StaysAtItem DEF It, Upload, Dest

LEMMA UploadPlaces ==
    ASSUME FlowInv, CopyInv, Smooth, Resting, Acts, Upload, Steps, ~Waits, ~Transfer, ~Back
    PROVE  Placed'
  <1>1. UNCHANGED disk /\ Dest' = Dest
    BY UploadKeepsDisk, SameTasks
  <1>2. \A s, q : Blocked(s, q)' <=> Blocked(s, q)
    BY <1>1 DEF Blocked
  <1> SUFFICES ASSUME pc \in FilePcs, PartAt(disk[Dest], It.dst)
               PROVE  Blocked(Dest, It.dst) \/ (pc' \in FilePcs /\ It' = It)
    <2>1. \A s \in Sides : \A q \in DOMAIN disk[s].part : Blocked(s, q) \/ (s = Dest /\ pc \in FilePcs /\ q = It.dst)
      BY DEF Smooth, Placed
    <2> QED
      BY <1>1, <1>2, <2>1 DEF Placed, PartAt
  <1>3. CASE pc' \in FilePcs
    BY <1>3, SameFile
  <1>4. CASE pc' \notin FilePcs
    <2>1. pc \in {"cleanup", "rename"}
      BY <1>4 DEF Steps, Browses, LogsIn, Lists, Plans, Between, MakesDir, Uploads, Downloads, Replaces, Cleans,
                  OpenFiles, Transfer, Back, Decide, FilePcs, ListPcs, FlowInv, Moving, Direction
    <2>2. CleanedUp \/ Renamed
      BY <2>1 DEF Acts, KeyStep, FlowStep, OpenFiles, SwitchPane, MoveCursor, ToggleMark, OpenSelected, GoUp, Refresh, Transfer,
            Back, Decide, Key, Login, FallBack, FirstListing, Opendir, Readdir, Closedir, ListingShown,
            VisitLocalDir, VisitRemoteDir, VisitLink, VisitFile, Sized, ExistsAnswered, PlanDone, AllDecided,
            ItemSkipped, RunDone, EnsureDir, DirStat, Mkdir, StartFile, Created, Written, Opened,
            ReadDone, CancelClosed, Closed, Removed, Finished
    <2>3. Heard
      BY <2>2, SmoothReturns DEF Smooth, CleanedUp, Renamed
    <2> QED
      BY <2>1, <2>3 DEF Smooth, Freed
  <1> QED
    BY <1>3, <1>4

LEMMA DownPlaces ==
    ASSUME FlowInv, CopyInv, TypeInv, Smooth, Acts, ~Upload, Steps, ~Waits, ~Transfer, ~Back, faults' = faults
    PROVE  Placed'
  <1> DEFINE d == disk["local"]
             new == disk'["local"]
  <1>1. disk'["remote"] = disk["remote"] /\ ChangesLocal(d, new)
    BY DownLocal
  <1>2. Dest = "local" /\ Dest' = "local" /\ faults \in Nat
    BY SameTasks, BoundsAssumption DEF Dest, Other, Upload, CopyInv, Sides, TypeInv, InBounds
  <1>3. ASSUME NEW q \in DOMAIN new.part, q # It.dst PROVE At(new.tree, q) \in {"dir", "link"}
    <2>1. q \in DOMAIN d.part
      BY <1>1, <1>3 DEF ChangesLocal, SamePart, PartAt
    <2>2. At(d.tree, q) \in {"dir", "link"}
      BY <1>3, <2>1 DEF Smooth, Placed, Blocked, Sides
    <2>3. At(new.tree, q) = At(d.tree, q)
      BY <1>1, <1>3, <2>2 DEF ChangesLocal, Grows, Took, SameElsewhere
    <2> QED
      BY <2>2, <2>3
  <1>4. ASSUME PartAt(new, It.dst)
        PROVE  At(new.tree, It.dst) \in {"dir", "link"} \/ (pc' \in FilePcs /\ It' = It)
    <2>1. CASE pc' \in FilePcs
      BY <2>1, SameFile
    <2>2. CASE pc' \notin FilePcs /\ pc \notin FilePcs
      <3>1. PartAt(d, It.dst) /\ Grows(d.tree, new.tree)
        BY <1>1, <1>4, <2>2 DEF ChangesLocal, NewPart, SamePart, FilePcs
      <3>2. At(d.tree, It.dst) \in {"dir", "link"}
        BY <2>2, <3>1 DEF Smooth, Placed, Blocked, Sides, PartAt
      <3> QED
        BY <3>1, <3>2 DEF Grows
    <2>3. CASE pc' \notin FilePcs /\ pc \in FilePcs
      <3>1. GoodSide(d) /\ DOMAIN disk = Sides
        BY DEF FlowInv, Serving, FineDisk, Sides
      <3>2. \/ OnLocal(RemovePart(Local, It.dst))
            \/ pc = "close" /\ Succeeds(RenameLocal(Local, It.dst)) /\ OnLocal(RenameLocal(Local, It.dst))
            \/ pc = "close" /\ ~Succeeds(RenameLocal(Local, It.dst)) /\ UNCHANGED disk
        BY <1>2, <2>3, DownFileActs, FaultlessExit
      <3>3. ~OnLocal(RemovePart(Local, It.dst))
        BY <1>4, <3>1, DiscardAt, LocalOnly DEF FlowInv, Serving, Local
      <3>4. ~(OnLocal(RenameLocal(Local, It.dst)) /\ Succeeds(RenameLocal(Local, It.dst)))
        BY <1>4, RenameAt, LocalOnly DEF FlowInv, Serving, Local, Took, Succeeds
      <3>5. pc = "close" /\ ~Succeeds(RenameLocal(Local, It.dst)) /\ UNCHANGED disk
        BY <3>2, <3>3, <3>4
      <3>6. PartAt(Local, It.dst)
        BY <1>2, <3>5 DEF CopyInv, DownStages, Holding, Local
      <3>7. At(Local.tree, It.dst) = "dir"
        BY <3>5, <3>6 DEF RenameLocal, Does, Succeeds
      <3> QED
        BY <3>5, <3>7 DEF Local
    <2> QED
      BY <2>1, <2>2, <2>3
  <1> SUFFICES ASSUME NEW s \in Sides, NEW q \in DOMAIN disk'[s].part
               PROVE  Blocked(s, q)' \/ (s = Dest' /\ pc' \in FilePcs /\ q = It'.dst)
    BY DEF Placed
  <1>5. CASE s = "remote"
    <2>1. At(disk["remote"].tree, q) \in {"dir", "link"}
      BY <1>1, <1>2, <1>5 DEF Smooth, Placed, Blocked, Sides
    <2> QED
      BY <1>1, <1>5, <2>1 DEF Blocked
  <1>6. CASE s = "local"
    BY <1>2, <1>3, <1>4, <1>6 DEF Blocked, PartAt
  <1> QED
    BY <1>5, <1>6 DEF Sides

LEMMA PlacedActs ==
    ASSUME FlowInv, CopyInv, TypeInv, Smooth, Resting, Acts, Steps, ~Waits, faults' = faults PROVE Placed'
  <1>1. CASE Transfer \/ Back
    <2>1. UNCHANGED disk /\ pc \notin FilePcs
      BY <1>1 DEF Transfer, Back, Key, FilePcs
    <2> QED
      BY <2>1 DEF Smooth, Placed, Blocked
  <1> QED
    BY <1>1, UploadPlaces, DownPlaces

---------------------------------------------------------------------------
\* Smooth, in every state.

LEMMA SmoothInitially == Init => SmoothInv
  <1> SUFFICES ASSUME Init PROVE SmoothInv
    OBVIOUS
  <1>1. Resting /\ Prompt /\ Owned /\ StatTold /\ Freed
    BY DEF Init, Resting, Prompt, Owned, StatTold, Freed
  <1>2. PICK world \in Worlds : disk = [s \in Sides |-> [tree |-> world[s], part |-> <<>>]]
    BY DEF Init
  <1>3. Placed
    BY <1>2 DEF Placed
  <1>4. FreshFree
    BY DEF Init, FreshFree, EmptyJob
  <1> QED
    BY <1>1, <1>3, <1>4 DEF SmoothInv, Smooth

LEMMA SmoothStep ==
    FlowInv /\ StreamInv' /\ Apart /\ CopyInv /\ TypeInv /\ SmoothInv /\ [Next]_vars => SmoothInv'
  <1> SUFFICES ASSUME FlowInv, StreamInv', Apart, CopyInv, TypeInv, SmoothInv, [Next]_vars PROVE SmoothInv'
    OBVIOUS
  <1>1. CallShaped /\ Steps
    BY StreamShapesCall, StepTable DEF FlowInv, StreamInv, Shaped, Moving
  <1>2. Resting'
    BY <1>1, RestingStep DEF SmoothInv
  <1>3. ASSUME faults' = MaxFaults PROVE faults' = faults /\ Smooth
    BY <1>3, BoundsStep, BoundsAssumption DEF TypeInv, InBounds, SmoothInv
  <1>4. ASSUME faults' = MaxFaults, EnvStep \/ Rest \/ UNCHANGED vars PROVE Smooth'
    BY <1>3, <1>4, SmoothWaits
  <1>5. ASSUME faults' = MaxFaults, Acts PROVE Smooth'
    <2>1. faults' = faults /\ Smooth /\ Resting /\ AtDir
      BY <1>3, <1>5 DEF SmoothInv, TypeInv
    <2>2. Prompt'
      BY <1>5, <2>1, PromptActs DEF Smooth
    <2>3. CASE Waits
      BY <1>5, <2>1, <2>2, <2>3, ActsReady, IdleWaits DEF Smooth
    <2>4. CASE ~Waits
      <3>1. Owned' /\ StatTold'
        BY <1>1, <1>5, <2>1, <2>4, OwnedActs, TellsSent DEF Smooth
      <3>2. FreshFree' /\ Freed'
        BY <1>1, <1>5, <2>1, <2>4, FreshActs, FreedActs
      <3>3. Placed'
        BY <1>1, <1>5, <2>1, <2>4, PlacedActs
      <3> QED
        BY <2>2, <3>1, <3>2, <3>3 DEF Smooth
    <2> QED
      BY <2>3, <2>4
  <1> QED
    BY <1>2, <1>4, <1>5 DEF Next, Acts, SmoothInv

LEMMA SmoothHolds == Spec => []SmoothInv
  <1>1. FlowInv => StreamInv
    BY DEF FlowInv
  <1> QED
    BY <1>1, SmoothInitially, SmoothStep, FlowHolds, ApartHolds, CopyHolds, TypesHold, PTL DEF Spec

\* A `.part` file outlives the transfer of its file only if something failed or
\* a directory or a dangling link has the name, and the summary then tells of
\* it (copy_file, cleanup, run).
THEOREM PartsAreAccounted == Spec => []PartsAccounted
  <1>1. FlowInv /\ CopyInv /\ TypeInv /\ Tally /\ SmoothInv => PartsAccounted
    <2> SUFFICES ASSUME CopyInv, TypeInv, Tally, SmoothInv, pc = "finish", NEW i \in DOMAIN job.plan,
                        PartAt(disk[Dest], job.plan[i].dst), ~job.plan[i].dir, ~job.plan[i].skip
                 PROVE  /\ faults < MaxFaults \/ At(DestTree, job.plan[i].dst) \in {"dir", "link"}
                        /\ i \in job.failures \/ job.cancelled
      BY DEF PartsAccounted
    <2>2. faults \in Nat /\ faults <= MaxFaults /\ MaxFaults \in Nat
      BY BoundsAssumption DEF TypeInv, InBounds
    <2>3. i \notin job.files
      BY DEF CopyInv, CountedDone, Done
    <2>4. i \in job.failures \/ job.cancelled
      BY <2>3 DEF Tally, Accounted
    <2>6. faults = MaxFaults => At(DestTree, job.plan[i].dst) \in {"dir", "link"}
      <3>1. faults = MaxFaults => Placed /\ Dest \in Sides /\ pc \notin FilePcs
        BY DEF SmoothInv, Smooth, Dest, Other, Sides, FilePcs
      <3> QED
        BY <3>1 DEF Placed, PartAt, Blocked, DestTree
    <2> QED
      BY <2>2, <2>4, <2>6
  <1> QED
    BY <1>1, FlowHolds, CopyHolds, TypesHold, TallyHolds, SmoothHolds, PTL

=============================================================================
