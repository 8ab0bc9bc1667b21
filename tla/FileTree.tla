------------------------------ MODULE FileTree ------------------------------
(***************************************************************************)
(* A directory tree as the two ends of a transfer see it, and what a file  *)
(* server does with one SFTP request (modelled from the calls of           *)
(* src/ssh/sftp/client.rs and the comments of src/ssh/transfer.rs on v3).  *)
(*                                                                         *)
(* A path is the sequence of its names.  A tree maps the paths that exist  *)
(* to "dir", "link" or the content of a file ("piece" when it is not       *)
(* whole); links lead nowhere.  Files being written under their `.part` name are kept apart,   *)
(* by the path they are meant for.                                         *)
(***************************************************************************)
EXTENDS Naturals, Sequences, SequencesExt, FiniteSets

CONSTANTS
    Names,      \* in the order listings are sorted
    Hidden,     \* the names that start with a dot
    Contents,   \* what a file may hold
    Chunks      \* reads or writes one file takes

NameSet == Range(Names)

ASSUME NamesAssumption == /\ Names \in Seq(NameSet)
                          /\ \A i, j \in DOMAIN Names : Names[i] = Names[j] => i = j
ASSUME ContentsAssumption == Contents \cap {"none", "dir", "link", "piece"} = {}
ASSUME ChunksAssumption == Chunks \in Nat

At(tree, path) == IF path = <<>> THEN "dir"
                  ELSE IF path \in DOMAIN tree THEN tree[path] ELSE "none"
IsFile(tree, path) == At(tree, path) \in Contents \cup {"piece"}
Put(tree, path, node) == [q \in DOMAIN tree \cup {path} |-> IF q = path THEN node ELSE tree[q]]
Del(tree, path) == [q \in DOMAIN tree \ {path} |-> tree[q]]

Entry(tree, dir, name) == [name |-> name, kind |-> At(tree, Append(dir, name))]
Entries(tree, dir) == {Entry(tree, dir, n) : n \in {m \in NameSet : Append(dir, m) \in DOMAIN tree}}

\* The members of S by their keys: in row i the one with i - 1 before it.
Ranked(S, key) ==
    [i \in 1..Cardinality(S) |->
        CHOOSE e \in S : Cardinality({f \in S : key[f] < key[e]}) = i - 1]

Pos(name) == CHOOSE i \in DOMAIN Names : Names[i] = name

\* Directories first, then by name.
Sorted(entries) ==
    Ranked(entries, [e \in entries |-> Pos(e.name) + IF e.kind = "dir" THEN 0 ELSE Len(Names)])

Visible(entries, showHidden) == {e \in entries : showHidden \/ e.name \notin Hidden}

---------------------------------------------------------------------------
\* One side: a tree and its unfinished copies [ver, got].
Denied(disk) == [disk |-> disk, code |-> "status", entries |-> {}]
Does(disk, new) == [disk |-> new, code |-> "ok", entries |-> {}]
Says(disk, code) == [disk |-> disk, code |-> code, entries |-> {}]

PartAt(disk, path) == path \in DOMAIN disk.part
Whole(disk, path) == PartAt(disk, path) /\ disk.part[path].got = Chunks

\* What a part becomes under its own name.
Moved(disk, path) ==
    [tree |-> Put(disk.tree, path, IF Whole(disk, path) THEN disk.part[path].ver ELSE "piece"),
     part |-> Del(disk.part, path)]

\* RENAME of v3 refuses an existing target.
RenamePart(disk, path) ==
    IF ~PartAt(disk, path) \/ At(disk.tree, path) # "none" THEN Denied(disk)
    ELSE Does(disk, Moved(disk, path))

RemoveFile(disk, path) ==
    IF At(disk.tree, path) \in {"none", "dir"} THEN Denied(disk)
    ELSE Does(disk, [disk EXCEPT !.tree = Del(@, path)])

RemovePart(disk, path) ==
    IF PartAt(disk, path) THEN Does(disk, [disk EXCEPT !.part = Del(@, path)]) ELSE Denied(disk)

CreatePart(disk, path, ver) ==
    IF At(disk.tree, Front(path)) # "dir" THEN Denied(disk)
    ELSE Does(disk, [disk EXCEPT !.part = Put(@, path, [ver |-> ver, got |-> 0])])

\* A write to a file that lost its name changes nothing anyone can see.
WritePart(disk, path, off) ==
    Does(disk, IF PartAt(disk, path) /\ disk.part[path].got = off
                 THEN [disk EXCEPT !.part[path].got = off + 1] ELSE disk)

MakeDir(disk, path) ==
    IF At(disk.tree, path) # "none" \/ At(disk.tree, Front(path)) # "dir" THEN Denied(disk)
    ELSE Does(disk, [disk EXCEPT !.tree = Put(@, path, "dir")])

\* [disk, code, entries] after the server carried out a request.
Effect(disk, req) ==
    CASE req.op = "realpath" -> IF At(disk.tree, req.path) = "dir" THEN Says(disk, "ok") ELSE Denied(disk)
      [] req.op = "opendir"  -> IF At(disk.tree, req.path) = "dir" THEN Says(disk, "ok") ELSE Denied(disk)
      [] req.op = "readdir"  -> [Says(disk, "ok") EXCEPT !.entries = Entries(disk.tree, req.path)]
      [] req.op = "stat"     -> Says(disk, CASE At(disk.tree, req.path) \in {"none", "link"} -> "none"
                                             [] At(disk.tree, req.path) = "dir" -> "dir"
                                             [] OTHER -> "file")
      [] req.op = "mkdir"    -> MakeDir(disk, req.path)
      [] req.op = "create"   -> CreatePart(disk, req.path, req.ver)
      [] req.op = "write"    -> WritePart(disk, req.path, req.off)
      [] req.op = "open"     -> IF IsFile(disk.tree, req.path) THEN Says(disk, "ok") ELSE Denied(disk)
      [] req.op = "read"     -> Says(disk, IF req.off < Chunks THEN "ok" ELSE "eof")
      [] req.op = "close"    -> Says(disk, "ok")
      [] req.op = "remove"   -> RemoveFile(disk, req.path)
      [] req.op = "discard"  -> RemovePart(disk, req.path)
      [] req.op = "rename"   -> RenamePart(disk, req.path)
=============================================================================
