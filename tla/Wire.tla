-------------------------------- MODULE Wire --------------------------------
(***************************************************************************)
(* The bytes of the SFTP session: src/ssh/sftp/wire.rs, the packets that   *)
(* src/ssh/sftp/client.rs writes and what it takes for an answer, and the  *)
(* start of the subsystem (src/ssh/sftp/mod.rs), as pure operators.        *)
(*                                                                         *)
(* A number that is only carried stays the bytes it is.  A text is its     *)
(* bytes too: the lossy conversion to UTF-8 is left out.                   *)
(***************************************************************************)
EXTENDS Integers, Sequences, SequencesExt

CONSTANTS MaxPacket, MaxBatches, Chunk

Fxp == [init |-> 1, open |-> 3, close |-> 4, read |-> 5, write |-> 6, lstat |-> 7, opendir |-> 11,
        readdir |-> 12, remove |-> 13, mkdir |-> 14, realpath |-> 16, stat |-> 17, rename |-> 18,
        version |-> 2, status |-> 101, handle |-> 102, data |-> 103, name |-> 104, attrs |-> 105]
Fx == [ok |-> 0, eof |-> 1, noSuchFile |-> 2]
ReadOnly == 1
CreateOrTruncate == 26
OurVersion == 3

---------------------------------------------------------------------------
\* Writing: Encoder

U32(n) == [i \in 1..4 |-> (n \div 256^(4 - i)) % 256]
Text(bytes) == U32(Len(bytes)) \o bytes
Request(op, id) == <<Fxp[op]>> \o U32(id)
Finish(body) == U32(Len(body)) \o body
NoAttrs == U32(0)

InitPacket == Finish(<<Fxp.init>> \o U32(OurVersion))

\* What each call of the client sends, with the arguments it has.
Arguments(op, a) ==
    CASE op \in {"realpath", "stat", "lstat", "opendir", "remove"} -> Text(a.path)
      [] op = "mkdir"                -> Text(a.path) \o NoAttrs
      [] op = "rename"               -> Text(a.path) \o Text(a.to)
      [] op = "open"                 -> Text(a.path) \o U32(a.pflags) \o NoAttrs
      [] op \in {"readdir", "close"} -> Text(a.handle)
      [] op = "read"                 -> Text(a.handle) \o a.offset \o U32(Chunk)
      [] op = "write"                -> Text(a.handle) \o a.offset \o Text(a.data)
Packet(op, id, a) == Finish(Request(op, id) \o Arguments(op, a))

---------------------------------------------------------------------------
(***************************************************************************)
(* Reading: Cursor.  What is read says whether it was there, where it ends *)
(* and its value; a read behind a short one is short.                      *)
(***************************************************************************)
Short == [ok |-> FALSE, end |-> 0, val |-> <<>>]
Read(end, val) == [ok |-> TRUE, end |-> end, val |-> val]

Take(buf, at, n) == IF at + n <= Len(buf) THEN Read(at + n, SubSeq(buf, at + 1, at + n)) ELSE Short
After(read, Next(_)) == IF read.ok THEN Next(read.end) ELSE Short

\* No packet is long enough for a number with a first byte, whatever it is.
Num(u32) == IF u32[1] > 0 THEN 256^3 ELSE 65536 * u32[2] + 256 * u32[3] + u32[4]

TextAt(buf, at) ==
    LET len == Take(buf, at, 4) IN IF len.ok THEN Take(buf, len.end, Num(len.val)) ELSE Short

\* count items, none of which is shorter than least.
Many(buf, at, count, least, Item(_)) ==
    LET Step(read, i) ==
            IF ~read.ok THEN Short
            ELSE LET item == Item(read.end)
                 IN IF item.ok THEN Read(item.end, Append(read.val, item.val)) ELSE Short
    IN IF count * least > Len(buf) - at THEN Short
       ELSE FoldLeft(Step, Read(at, <<>>), [i \in 1..count |-> i])

Counted(buf, at, least, Item(_)) ==
    LET count == Take(buf, at, 4)
    IN IF count.ok THEN Many(buf, count.end, Num(count.val), least, Item) ELSE Short

\* The blocks that the flags announce follow one another, the extensions last.
Bit(byte, bit) == (byte \div bit) % 2 = 1
Extensions(buf, at) ==
    Counted(buf, at, 8, LAMBDA p : After(TextAt(buf, p), LAMBDA q : TextAt(buf, q)))

AttrsAfter(buf, at, flags) ==
    LET Block(p, bit, n) == Take(buf, p, IF Bit(flags[4], bit) THEN n ELSE 0)
        size  == Block(at, 1, 8)
        owner == After(size, LAMBDA p : Block(p, 2, 8))
        mode  == After(owner, LAMBDA p : Block(p, 4, 4))
        times == After(mode, LAMBDA p : Block(p, 8, 8))
        last  == After(times, LAMBDA p : IF flags[1] >= 128 THEN Extensions(buf, p) ELSE times)
    IN IF last.ok
       THEN Read(last.end, [size |-> size.val, permissions |-> mode.val,
                            mtime |-> IF times.val = <<>> THEN <<>> ELSE SubSeq(times.val, 5, 8)])
       ELSE Short
AttrsAt(buf, at) ==
    LET flags == Take(buf, at, 4) IN IF flags.ok THEN AttrsAfter(buf, flags.end, flags.val) ELSE Short

EntryAt(buf, at) ==
    LET filename == TextAt(buf, at)
        longname == After(filename, LAMBDA p : TextAt(buf, p))
        attrs == After(longname, LAMBDA p : AttrsAt(buf, p))
    IN IF attrs.ok
       THEN Read(attrs.end, [filename |-> filename.val, longname |-> longname.val, attrs |-> attrs.val])
       ELSE Short

StatusAt(buf, at) ==
    LET code == Take(buf, at, 4)
        message == After(code, LAMBDA p : IF p < Len(buf) THEN TextAt(buf, p) ELSE code)
    IN IF message.ok
       THEN Read(message.end, [code |-> Num(code.val), message |-> IF code.end < Len(buf) THEN message.val ELSE <<>>])
       ELSE Short

ValueAt(kind, buf, at) ==
    CASE kind = Fxp.status                -> StatusAt(buf, at)
      [] kind \in {Fxp.handle, Fxp.data} -> TextAt(buf, at)
      [] kind = Fxp.name                  -> Counted(buf, at, 12, LAMBDA p : EntryAt(buf, p))
      [] kind = Fxp.attrs                 -> AttrsAt(buf, at)
      [] OTHER                            -> Short

\* Reply::decode; a version bears no id.
Malformed == [ok |-> FALSE]
Decode(body) ==
    LET kind == body[1]
        first == Take(body, 1, 4)
        value == IF kind = Fxp.version THEN first ELSE After(first, LAMBDA p : ValueAt(kind, body, p))
    IN IF body # <<>> /\ value.ok
       THEN [ok |-> TRUE, kind |-> kind, id |-> IF kind = Fxp.version THEN <<>> ELSE first.val, val |-> value.val]
       ELSE Malformed

\* read_reply: the stream is what arrives until it is closed.
ReadReply(stream) ==
    LET len == Take(stream, 0, 4)
        body == Take(stream, 4, Num(len.val))
    IN IF ~len.ok THEN [why |-> "closed"]
       ELSE IF Num(len.val) \notin 1..MaxPacket THEN [why |-> "impossible"]
       ELSE IF ~body.ok THEN [why |-> "closed"]
       ELSE [why |-> "read", reply |-> Decode(body.val), rest |-> SubSeq(stream, body.end + 1, Len(stream))]

---------------------------------------------------------------------------
\* What a call makes of a reply.

\* init
SpeaksIt(reply) == reply.ok /\ reply.kind = Fxp.version /\ Num(reply.val) >= OurVersion

Answer(val) == [st |-> "answer", val |-> val]
Refusal(code) == [st |-> "status", val |-> code]
Done == [st |-> "ok"]
AtEnd == [st |-> "end"]
Absent == [st |-> "absent"]
Unexpected == [st |-> "fatal"]

Wanted(op) ==
    CASE op \in {"realpath", "readdir"}   -> Fxp.name
      [] op \in {"stat", "lstat"}         -> Fxp.attrs
      [] op \in {"open", "opendir"}       -> Fxp.handle
      [] op = "read"                       -> Fxp.data
      [] OTHER                             -> Fxp.status

\* An end of file is where the content of a file or a directory ends.
Result(op, reply) ==
    IF reply.kind = Fxp.status
    THEN IF Wanted(op) = Fxp.status /\ reply.val.code = Fx.ok THEN Done
         ELSE IF op \in {"read", "readdir"} /\ reply.val.code = Fx.eof THEN AtEnd
         ELSE Refusal(reply.val.code)
    ELSE IF reply.kind # Wanted(op) \/ (op = "realpath" /\ reply.val = <<>>) THEN Unexpected
    ELSE Answer(IF op = "realpath" THEN reply.val[1].filename ELSE reply.val)

\* try_stat: a missing file is an answer.
TryStat(reply) ==
    LET result == Result("stat", reply)
    IN IF result.st = "status" /\ result.val = Fx.noSuchFile THEN Absent ELSE result

\* NameEntry::kind: the type bits of the mode, else the first letter of the line.
Type(entry) ==
    LET mode == entry.attrs.permissions
        bits == IF mode = <<>> THEN -1 ELSE mode[3] \div 16
        letter == IF mode = <<>> /\ entry.longname # <<>> THEN entry.longname[1] ELSE -1
    IN CASE bits = 4 \/ letter = 100 -> "dir"
         [] bits = 10 \/ letter = 108 -> "symlink"
         [] bits = 8 \/ letter = 45 -> "file"
         [] OTHER -> "other"

\* read_all_names: every reply up to the first that is not one of names.
IsDots(entry) == entry.filename \in {<<46>>, <<46, 46>>}
Row(entry) == [name |-> entry.filename, kind |-> Type(entry), size |-> entry.attrs.size, mtime |-> entry.attrs.mtime]
Rows(entries) ==
    LET shown == SelectSeq(entries, LAMBDA e : ~IsDots(e)) IN [i \in DOMAIN shown |-> Row(shown[i])]
IsNames(reply) == reply.kind = Fxp.name
ListDir(replies) ==
    LET last == SelectInSeq(replies, LAMBDA r : ~IsNames(r))
        batches == SubSeq(replies, 1, last - 1)
    IN IF last = 0 \/ last > MaxBatches THEN Unexpected
       ELSE IF Result("readdir", replies[last]).st # "end" THEN Result("readdir", replies[last])
       ELSE Answer(FlattenSeq([i \in DOMAIN batches |-> Rows(batches[i].val)]))

\* open_session: only the answer to the subsystem request counts.
OpenSession(msgs) ==
    LET at == SelectInSeq(msgs, LAMBDA m : m \in {"success", "failure"})
    IN IF at = 0 THEN "closed" ELSE msgs[at]
=============================================================================
