------------------------------ MODULE Register ------------------------------
(***************************************************************************)
(* What a caller of write_file_atomic may rely on: the file is a register. *)
(* It always holds one whole content; a save replaces it in one step; and  *)
(* a power failure goes back at most to a content the register held since  *)
(* the last flush of the directory, never to a mixture.                    *)
(***************************************************************************)
CONSTANTS Values

VARIABLES
    content,    \* what a reader of the file sees
    survivors   \* the contents a power failure may leave

Put(v) == content' = v /\ survivors' = survivors \cup {v}

Flush == survivors' = {content} /\ UNCHANGED content

PowerLoss == content' \in survivors /\ survivors' = {content'}

RegisterInit == content \in Values /\ survivors = {content}

RegisterNext == Flush \/ PowerLoss \/ \E v \in Values : Put(v)

RegisterSpec == RegisterInit /\ [][RegisterNext]_<<content, survivors>>
=============================================================================
