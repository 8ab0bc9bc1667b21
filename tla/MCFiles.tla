------------------------------- MODULE MCFiles -------------------------------
(* A small instance of Files for TLC: directories with two files and a link, *)
(* and files and directories that stand in each other's way.                 *)
EXTENDS Files

MCNames == <<"d", "h", "l", "x">>

Tree(nodes) == [q \in {n[1] : n \in nodes} |-> (CHOOSE n \in nodes : n[1] = q)[2]]

None    == Tree({})
File(v) == Tree({<< <<"d">>, v>>})
Dir(v)  == Tree({<< <<"d">>, "dir">>, << <<"d", "x">>, v>>})
Two(v)  == Tree({<< <<"d">>, "dir">>, << <<"d", "h">>, v>>, << <<"d", "x">>, v>>})
Full(v) == Tree({<< <<"d">>, "dir">>, << <<"d", "h">>, v>>, << <<"d", "l">>, "link">>,
                 << <<"d", "x">>, v>>})

MCWorlds == {[local |-> w[1], remote |-> w[2]] :
               w \in {<<Dir("L"), None>>, <<Full("L"), Two("R")>>, <<File("L"), File("R")>>,
                      <<File("L"), Dir("R")>>, <<File("link"), File("R")>>,
                      <<File("L"), File("link")>>}}

---------------------------------------------------------------------------
(***************************************************************************)
(* The packets, with small limits.                                         *)
(***************************************************************************)
W == INSTANCE Wire WITH MaxPacket <- 90, MaxBatches <- 2, Chunk <- 32

Eight == <<0, 0, 0, 0, 0, 0, 1, 2>>
Args == [path |-> <<47, 97>>, to |-> <<98>>, pflags |-> W!CreateOrTruncate, handle |-> <<7, 7>>,
         offset |-> Eight, data |-> <<1, 2, 3>>]
Calls == {"realpath", "stat", "lstat", "opendir", "remove", "mkdir", "rename", "open", "readdir",
        "close", "read", "write"}

\* A request is one frame, and its first text is the path or the handle.
ASSUME RequestsAreFrames == \A op \in Calls :
    LET packet == W!Packet(op, 300, Args)
        body == W!Take(packet, 4, Len(packet) - 4).val
        text == W!TextAt(body, 5)
    IN /\ W!Num(W!Take(packet, 0, 4).val) = Len(body)
       /\ body[1] = W!Fxp[op] /\ W!Take(body, 1, 4).val = W!U32(300)
       /\ text.val = IF op \in {"readdir", "close", "read", "write"} THEN Args.handle ELSE Args.path
       /\ op \in {"read", "write"} => W!Take(body, text.end, 8).val = Eight
       /\ op = "write" => W!TextAt(body, text.end + 8) = W!Read(Len(body), Args.data)
       /\ op = "rename" => W!TextAt(body, text.end) = W!Read(Len(body), Args.to)

\* Attributes as a server writes them, every mixture of blocks.
Blocks == SUBSET {1, 2, 4, 8, 128}
Mode == <<0, 0, 65, 164>>                                                 \* a directory
Sum2(blocks) == (IF 1 \in blocks THEN 1 ELSE 0) + (IF 2 \in blocks THEN 2 ELSE 0)
                   + (IF 4 \in blocks THEN 4 ELSE 0) + (IF 8 \in blocks THEN 8 ELSE 0)
Having(blocks, b, bytes) == IF b \in blocks THEN bytes ELSE <<>>
AttrBytes(blocks) ==
    <<IF 128 \in blocks THEN 128 ELSE 0, 0, 0, Sum2(blocks)>> \o Having(blocks, 1, Eight)
        \o Having(blocks, 2, <<0, 0, 0, 1, 0, 0, 0, 2>>) \o Having(blocks, 4, Mode)
        \o Having(blocks, 8, <<0, 0, 0, 3, 0, 0, 0, 4>>)
        \o Having(blocks, 128, W!U32(2) \o W!Text(<<9>>) \o W!Text(<<>>) \o W!Text(<<8>>) \o W!Text(<<5, 5>>))
AttrsOf(blocks) == [size |-> Having(blocks, 1, Eight), permissions |-> Having(blocks, 4, Mode),
                    mtime |-> Having(blocks, 8, <<0, 0, 0, 4>>)]
EntryBytes(e) == W!Text(e.filename) \o W!Text(e.longname) \o e.attrs
Lines == {<<>>, <<100, 114>>}
Named(name, line, blocks) == [filename |-> name, longname |-> line, attrs |-> blocks]
Body(kind, rest) == <<kind>> \o W!U32(300) \o rest
NameBody(entries) == Body(W!Fxp.name, W!U32(Len(entries)) \o FlattenSeq([i \in DOMAIN entries |->
                        EntryBytes([entries[i] EXCEPT !.attrs = AttrBytes(@)])]))
Decoded(entries) == [i \in DOMAIN entries |-> [entries[i] EXCEPT !.attrs = AttrsOf(@)]]
Listings == {<<Named(<<46>>, <<>>, one), Named(<<97, 98>>, line, two)>> : one, two \in Blocks, line \in Lines}

\* The second name is read where the first ends, whatever blocks and
\* extensions the first one has; "." is no row; a row's kind comes from the
\* mode, else from the line.
ASSUME NamesAreRead == \A entries \in Listings :
    LET reply == W!Decode(NameBody(entries))
    IN /\ reply.ok /\ reply.id = W!U32(300) /\ reply.val = Decoded(entries)
       /\ W!Rows(reply.val)[1].kind =
             IF 4 \in entries[2].attrs \/ entries[2].longname # <<>> THEN "dir" ELSE "other"

Long == <<Named(<<97>>, <<45>>, {1, 4, 8, 128}), Named(<<98>>, <<>>, {2})>>
StatusBody(code, message) == Body(W!Fxp.status, W!U32(code) \o message)
Bodies == {NameBody(Long), Body(W!Fxp.handle, W!Text(<<7, 7>>)), Body(W!Fxp.attrs, AttrBytes({1, 2, 4, 8, 128})),
           StatusBody(4, W!Text(<<110>>) \o W!Text(<<>>)), StatusBody(4, W!Text(<<110>>))}

\* A reply cut anywhere is an error; only a status may lose its whole message.
ASSUME CutIsMalformed == \A body \in Bodies : \A n \in 0..(Len(body) - 1) :
    W!Decode(SubSeq(body, 1, n)).ok => body[1] = W!Fxp.status /\ n \in {9} \cup 14..Len(body)

\* No byte that is changed makes the decoder read past the end of the packet.
ASSUME NeverPastTheEnd == \A body \in Bodies : \A i \in 2..Len(body) : \A byte \in {0, 1, 127, 255} :
    W!ValueAt(body[1], [body EXCEPT ![i] = byte], 5).end <= Len(body)

\* Replies that follow one another are read one by one; a length of zero or
\* beyond the limit is refused before it is waited for.
ASSUME RepliesInTurn == \A one, two \in Bodies :
    LET first == W!ReadReply(W!Finish(one) \o W!Finish(two))
    IN /\ first.why = "read" /\ first.reply = W!Decode(one)
       /\ W!ReadReply(first.rest).reply = W!Decode(two)
       /\ \A n \in 0..(Len(one) + 3) : W!ReadReply(SubSeq(W!Finish(one), 1, n)).why = "closed"
ASSUME LimitComesFirst == \A len \in {0, 91, 256^3} : W!ReadReply(W!U32(len) \o <<1>>).why = "impossible"

\* A listing is the rows of all batches up to the end of file, in order;
\* anything else ends it with an error, also when the server never ends it.
Batch(name) == W!Decode(NameBody(<<Named(name, <<45>>, {})>>))
End(code) == W!Decode(StatusBody(code, <<>>))
RowOf(name) == [name |-> name, kind |-> "file", size |-> <<>>, mtime |-> <<>>]
ASSUME ListingEnds ==
    /\ W!ListDir(<<Batch(<<97>>), End(1)>>) = W!Answer(<<RowOf(<<97>>)>>)
    /\ W!ListDir(<<End(1)>>) = W!Answer(<<>>)
    /\ W!ListDir(<<Batch(<<97>>), End(4)>>) = W!Refusal(4)
    /\ W!ListDir(<<Batch(<<97>>), Batch(<<98>>), End(1)>>) = W!Unexpected
    /\ W!ListDir(<<Batch(<<97>>), W!Decode(Body(W!Fxp.handle, W!Text(<<7>>))), End(1)>>) = W!Unexpected

\* A missing file is an answer to try_stat only, an end of file to reads only.
ASSUME StatusesAreTold ==
    /\ W!TryStat(End(2)) = W!Absent /\ W!TryStat(End(3)) = W!Refusal(3)
    /\ \A op \in Calls : \A code \in 0..3 : W!Result(op, End(code)).st =
          CASE code = 0 /\ op \in {"remove", "mkdir", "rename", "close", "write"} -> "ok"
            [] code = 1 /\ op \in {"read", "readdir"} -> "end"
            [] OTHER -> "status"
    /\ \A msgs \in UNION {[1..n -> {"other", "success", "failure"}] : n \in 0..2} :
          W!OpenSession(msgs) = "success" =>
             \E i \in DOMAIN msgs : msgs[i] = "success" /\ \A j \in 1..(i - 1) : msgs[j] = "other"
=============================================================================
