------------------------------ MODULE Envelope ------------------------------
(***************************************************************************)
(* The bytes of the vault file (src/config/format.rs), its key slots       *)
(* (src/config/keyslot.rs) and the schema version of the config inside     *)
(* (src/config/migrate.rs), as pure operators.                             *)
(*                                                                         *)
(* A byte is a number.  The lengths of the random fields are constants, so *)
(* that an instance can use short ones.  Encryption is symbolic: a sealed  *)
(* key opens under the key, the nonce and the associated data it was       *)
(* sealed with, and under no other.                                        *)
(***************************************************************************)
EXTENDS Integers, Sequences, SequencesExt

CONSTANTS SaltLen, NonceLen, WrappedLen

Magic == <<83, 83, 72, 67, 84, 82, 76, 49>>          \* SSHCTRL1
FormatV1 == 1
FormatV2 == 2
Argon2id == 1
Hkdf == 2
Password == 1
Device == 2
MaxSlots == 4

DescLen == 14 + SaltLen
SlotLen == DescLen + NonceLen + WrappedLen
PrefixLen == 10
HeaderLenV1 == 22 + SaltLen

---------------------------------------------------------------------------
\* Writing.  A u32 is four bytes, the lowest first.

U32(n) == [i \in 1..4 |-> (n \div 256^(i - 1)) % 256]

Costs(kdf) == U32(kdf.m) \o U32(kdf.t) \o U32(kdf.p)
SlotDesc(slot) == <<slot.kind, slot.kdf.id>> \o Costs(slot.kdf) \o slot.salt
SlotBytes(slot) == SlotDesc(slot) \o slot.nonce \o slot.wrapped
Header(slots) ==
    Magic \o <<FormatV2, Len(slots) % 256>> \o FlattenSeq([i \in DOMAIN slots |-> SlotBytes(slots[i])])
HeaderV1(envelope) == Magic \o <<FormatV1, Argon2id>> \o Costs(envelope.kdf) \o envelope.salt

Sealed(header, nonce, ciphertext) == header \o nonce \o U32(Len(ciphertext)) \o ciphertext
Encode(slots, nonce, ciphertext) == Sealed(Header(slots), nonce, ciphertext)

---------------------------------------------------------------------------
\* Reading.  "at" counts the bytes before a field.

Corrupt == [err |-> "corrupt"]
NotOurs == [err |-> "not our file"]
Unsupported == [err |-> "unsupported version"]
Panic == [err |-> "panic"]

Field(bytes, at, length) == SubSeq(bytes, at + 1, at + length)
U32At(bytes, at) ==
    bytes[at + 1] + 256 * (bytes[at + 2] + 256 * (bytes[at + 3] + 256 * bytes[at + 4]))

KdfAt(bytes, id, at) ==
    [id |-> id, m |-> U32At(bytes, at), t |-> U32At(bytes, at + 4), p |-> U32At(bytes, at + 8)]
KdfAllowed(kdf) ==
    \/ kdf.id = Hkdf
    \/ kdf.id = Argon2id /\ kdf.m \in 8..1048576 /\ kdf.t \in 1..64 /\ kdf.p \in 1..64

SlotAt(bytes, at) ==
    [kind    |-> bytes[at + 1],
     kdf     |-> KdfAt(bytes, bytes[at + 2], at + 2),
     salt    |-> Field(bytes, at + 14, SaltLen),
     nonce   |-> Field(bytes, at + DescLen, NonceLen),
     wrapped |-> Field(bytes, at + DescLen + NonceLen, WrappedLen)]

\* What follows a header of this length; its u32 must be the length of the rest.
BodyFits(bytes, header) == Len(bytes) >= header + NonceLen + 4
BodyWhole(bytes, header) == Len(bytes) = header + NonceLen + 4 + U32At(bytes, header + NonceLen)
Nonce(bytes, header) == Field(bytes, header, NonceLen)
Ciphertext(bytes, header) == SubSeq(bytes, header + NonceLen + 5, Len(bytes))

DecodeV1(bytes) ==
    LET header == HeaderLenV1
        kdf == KdfAt(bytes, bytes[10], 10)
    IN IF /\ BodyFits(bytes, header)
          /\ bytes[10] = Argon2id /\ KdfAllowed(kdf)
          /\ BodyWhole(bytes, header)
       THEN [version |-> FormatV1, kdf |-> kdf, salt |-> Field(bytes, 22, SaltLen),
             nonce |-> Nonce(bytes, header), ciphertext |-> Ciphertext(bytes, header), err |-> "none"]
       ELSE Corrupt

DecodeV2(bytes) ==
    LET header == PrefixLen + bytes[10] * SlotLen
        slots == [i \in 1..bytes[10] |-> SlotAt(bytes, PrefixLen + (i - 1) * SlotLen)]
    IN IF Len(bytes) < PrefixLen THEN Panic
       ELSE IF /\ bytes[10] \in 1..MaxSlots
               /\ BodyFits(bytes, header)
               /\ \A i \in DOMAIN slots : KdfAllowed(slots[i].kdf)
               /\ BodyWhole(bytes, header)
       THEN [version |-> FormatV2, slots |-> slots,
             nonce |-> Nonce(bytes, header), ciphertext |-> Ciphertext(bytes, header), err |-> "none"]
       ELSE Corrupt

DecodeAny(bytes) ==
    IF Len(bytes) < 9 THEN Corrupt
    ELSE IF ~IsPrefix(Magic, bytes) THEN NotOurs
    ELSE IF bytes[9] = FormatV1 THEN DecodeV1(bytes)
    ELSE IF bytes[9] = FormatV2 THEN DecodeV2(bytes)
    ELSE Unsupported

Decode(bytes) ==
    LET any == DecodeAny(bytes) IN IF any.err = "none" /\ any.version = FormatV1 THEN Corrupt ELSE any

---------------------------------------------------------------------------
\* Key slots

Wrap(slot, kek, key) ==
    [slot EXCEPT !.wrapped = [kek |-> kek, nonce |-> slot.nonce, aad |-> SlotDesc(slot), plain |-> key]]
WrapUnder(kind, kdf, salt, nonce, kek, key) ==
    Wrap([kind |-> kind, kdf |-> kdf, salt |-> salt, nonce |-> nonce, wrapped |-> <<>>], kek, key)

Kek(secret, kdf, salt) == <<secret, kdf, salt>>
NoCosts == [id |-> Hkdf, m |-> 0, t |-> 0, p |-> 0]
WrapPassword(password, kdf, salt, nonce, key) ==
    WrapUnder(Password, kdf, salt, nonce, Kek(password, kdf, salt), key)
WrapDevice(device, salt, nonce, key) ==
    WrapUnder(Device, NoCosts, salt, nonce, Kek(device, Hkdf, salt), key)

Opened(key) == [err |-> "none", key |-> key]
WrongOrCorrupt == [err |-> "wrong password or corrupt"]
UnwrapUnder(slot, kek) ==
    IF slot.wrapped = Wrap(slot, kek, slot.wrapped.plain).wrapped
    THEN Opened(slot.wrapped.plain) ELSE WrongOrCorrupt
UnwrapPassword(slot, password) ==
    IF slot.kdf.id # Argon2id THEN Corrupt ELSE UnwrapUnder(slot, Kek(password, slot.kdf, slot.salt))
UnwrapDevice(slot, device) ==
    IF slot.kdf.id # Hkdf THEN Corrupt ELSE UnwrapUnder(slot, Kek(device, Hkdf, slot.salt))

OfKind(slots, kind) == SelectSeq(slots, LAMBDA s : s.kind = kind)
HasSlot(slots, kind) == OfKind(slots, kind) # <<>>
FindSlot(slots, kind) == OfKind(slots, kind)[1]

Inserted(sorted, slot) ==
    SelectSeq(sorted, LAMBDA s : s.kind <= slot.kind) \o <<slot>>
        \o SelectSeq(sorted, LAMBDA s : s.kind > slot.kind)
ByKind(slots) == FoldLeft(Inserted, <<>>, slots)
Replace(slots, kind, slot) == ByKind(Append(SelectSeq(slots, LAMBDA s : s.kind # kind), slot))

---------------------------------------------------------------------------
\* The schema of the config

CurrentSchema == 2
Steps == {1}

\* A body without the field is of version 1.
AssumedVersion(present, found) == IF present THEN found ELSE 1

\* Each step makes version + 1 of a version; a missing one is an error.
MigrateForward(from) ==
    IF \A version \in from..(CurrentSchema - 1) : version \in Steps
    THEN [err |-> "none", schema |-> CurrentSchema] ELSE Corrupt

ConfigFromSlice(present, found) ==
    LET version == AssumedVersion(present, found)
    IN IF version > CurrentSchema THEN [err |-> "schema too new"] ELSE MigrateForward(version)
=============================================================================
