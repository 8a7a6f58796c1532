----------------------------- MODULE FileDelivery -----------------------------
(***************************************************************************)
(* What a download promises, whatever carries it: the units of the file    *)
(* reach the disk one behind another from the offset that was asked for,   *)
(* and the file is handed to the user when all of them are there.  Only a  *)
(* source that cannot be read leaves a shorter one.  Where the transfer    *)
(* is, what is buffered and who waits for whom is left to the modules that *)
(* implement this one.                                                     *)
(***************************************************************************)
EXTENDS Integers, Sequences

CONSTANT Size           \* units in the file

VARIABLES
    from,               \* the offset of the transfer
    written,            \* the units on the disk, in order
    saved,              \* the file was handed to the user
    failed              \* the source could not be opened or read

vars == <<from, written, saved, failed>>

Init ==
    /\ from \in 0..Size
    /\ written = <<>>
    /\ saved = FALSE
    /\ failed = FALSE

\* The transfer begins, or begins again, while nothing has been written.
Begin ==
    /\ written = <<>> /\ ~saved
    /\ from' \in 0..Size
    /\ UNCHANGED <<written, saved, failed>>

\* The next unit of the file is written.
Write ==
    /\ ~saved
    /\ from + Len(written) < Size
    /\ written' = Append(written, from + Len(written))
    /\ UNCHANGED <<from, saved, failed>>

SourceFails ==
    /\ failed' = TRUE
    /\ UNCHANGED <<from, written, saved>>

\* The file is handed over, whole if it could be read.
Save ==
    /\ failed \/ from + Len(written) = Size
    /\ saved' = TRUE
    /\ UNCHANGED <<from, written, failed>>

Next == Begin \/ Write \/ SourceFails \/ Save

Spec == Init /\ [][Next]_vars

=============================================================================
