---------------------------- MODULE MCAtomicFile ----------------------------
(* Small instances of AtomicFile for TLC.  Writers, contents and inodes are  *)
(* only ever compared for equality.                                          *)
(* What the file holds is checked here too, by ASSUMEs over Envelope.        *)
EXTENDS AtomicFile, TLC, Integers, Sequences, SequencesExt

Symmetry == Permutations(Writers) \cup Permutations(Values) \cup Permutations(Inodes)

---------------------------------------------------------------------------
E == INSTANCE Envelope WITH SaltLen <- 2, NonceLen <- 1, WrappedLen <- 1

Argon == [id |-> E!Argon2id, m |-> 65536, t |-> 3, p |-> 1]
Slot(kind, kdf) == [kind |-> kind, kdf |-> kdf, salt |-> <<7, 8>>, nonce |-> <<9>>, wrapped |-> <<5>>]
SomeSlots == {Slot(E!Password, Argon), Slot(E!Device, E!NoCosts), Slot(3, E!NoCosts)}
SlotLists == UNION {[1..n -> SomeSlots] : n \in 1..E!MaxSlots}
Texts == {<<>>, <<4, 6>>}

\* What was saved is what is loaded.
ASSUME RoundTrip == \A slots \in SlotLists : \A text \in Texts :
    E!Decode(E!Encode(slots, <<3>>, text)) =
        [version |-> E!FormatV2, slots |-> slots, nonce |-> <<3>>, ciphertext |-> text, err |-> "none"]

OldFile == [kdf |-> Argon, salt |-> <<7, 8>>]
OldBytes == E!Sealed(E!HeaderV1(OldFile), <<3>>, <<4, 6>>)
\* A file of the first format is read for the migration, and by nothing else.
ASSUME OldFormatIsRead ==
    /\ E!Decode(OldBytes) = E!Corrupt
    /\ E!DecodeAny(OldBytes).err = "none" /\ E!HeaderV1(E!DecodeAny(OldBytes)) = E!HeaderV1(OldFile)

NewBytes == {E!Encode(slots, <<3>>, <<4, 6>>) : slots \in UNION {[1..n -> SomeSlots] : n \in 1..2}}
\* A file cut short or with anything after its end is refused.  One length is
\* not: the code reads the slot count of a file that ends before it.
ASSUME WholeOrRefused == \A bytes \in NewBytes \cup {OldBytes} :
    /\ \A n \in 0..(Len(bytes) - 1) :
          E!DecodeAny(SubSeq(bytes, 1, n)) = IF n = 9 /\ bytes[9] = E!FormatV2 THEN E!Panic ELSE E!Corrupt
    /\ E!DecodeAny(Append(bytes, 0)) = E!Corrupt

\* The associated data of the body is rebuilt from the slots read, and is byte
\* for byte the header in the file: no change of a header goes unseen.
Turned(bytes, i, by) == [bytes EXCEPT ![i] = (@ + by) % 256]
Authentic(bytes) ==
    LET read == E!DecodeAny(bytes)
    IN read.err = "none" =>
          E!Header(read.slots) = SubSeq(bytes, 1, E!PrefixLen + Len(read.slots) * E!SlotLen)
ASSUME HeaderIsWhatWasRead == \A bytes \in NewBytes : \A i \in DOMAIN bytes \ {9} : \A by \in {1, 2, 120} :
    Authentic(Turned(bytes, i, by))

\* A wrapped key opens under its own secret only, and not once its descriptor
\* or nonce was edited.
Secrets == {"s1", "s2"}
Wrapped(secret) == {E!WrapPassword(secret, Argon, <<7, 8>>, <<9>>, "mk"), E!WrapDevice(secret, <<7, 8>>, <<9>>, "mk")}
Unwrap(slot, secret) ==
    IF slot.kind = E!Password THEN E!UnwrapPassword(slot, secret) ELSE E!UnwrapDevice(slot, secret)
Edited(slot) == {[slot EXCEPT !.kdf.m = 8], [slot EXCEPT !.kdf.id = 3 - @], [slot EXCEPT !.salt = <<7, 7>>],
                 [slot EXCEPT !.nonce = <<8>>], [slot EXCEPT !.kind = 3 - @]}
ASSUME OnlyItsSecretOpens == \A one, other \in Secrets : \A slot \in Wrapped(one) :
    /\ Unwrap(slot, other) = IF other = one THEN E!Opened("mk") ELSE E!WrongOrCorrupt
    /\ \A edited \in Edited(slot) : Unwrap(edited, one).err # "none"

\* Any number of replacements leaves one slot of each kind used, the last one
\* given, the kinds in order and the others as they were.
New(kind) == [Slot(kind, Argon) EXCEPT !.wrapped = <<6>>]
ASSUME ReplaceKeepsOnePerKind == \A slots \in SlotLists : \A one, other \in 1..2 :
    LET after == E!Replace(E!Replace(slots, one, New(one)), other, New(other))
    IN /\ E!OfKind(after, one) = <<New(one)>> /\ E!FindSlot(after, other) = New(other)
       /\ E!OfKind(after, 3) = E!OfKind(slots, 3)
       /\ \A i, j \in DOMAIN after : i < j => after[i].kind <= after[j].kind

\* A config is opened as the current schema, or not at all when it is newer;
\* one without a version is the oldest.
ASSUME SchemaForwardOnly ==
    /\ \A found \in 0..4 : E!ConfigFromSlice(TRUE, found).err =
          CASE found > 2 -> "schema too new" [] found = 0 -> "corrupt" [] OTHER -> "none"
    /\ \A found \in 0..4 : E!ConfigFromSlice(FALSE, found) = E!ConfigFromSlice(TRUE, 1)
=============================================================================
