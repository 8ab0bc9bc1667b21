------------------------------- MODULE Ledger -------------------------------
(***************************************************************************)
(* What the file, the flock and the save-the-whole-envelope rule promise   *)
(* together, without any of their machinery: a ledger of edits that at     *)
(* most one copy of the program owns at a time, that only its owner writes *)
(* to, and from which nothing written is ever dropped.  Vault implements   *)
(* it for a vault that exists (Vault!LedgerImplemented).                   *)
(***************************************************************************)
CONSTANTS Instances, Nobody, Edits

VARIABLES
    owner,      \* the copy that owns the ledger
    durable     \* the edits that are on disk

LedgerInit == owner = Nobody /\ durable \in SUBSET Edits

Acquire(i) == owner = Nobody /\ owner' = i /\ UNCHANGED durable

Commit(i) ==
    /\ owner = i
    /\ \E more \in SUBSET Edits : durable' = durable \cup more
    /\ UNCHANGED owner

Release(i) == owner = i /\ owner' = Nobody /\ UNCHANGED durable

LedgerNext == \E i \in Instances : Acquire(i) \/ Commit(i) \/ Release(i)

LedgerSpec == LedgerInit /\ [][LedgerNext]_<<owner, durable>>
=============================================================================
