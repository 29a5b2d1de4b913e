------------------------------- MODULE MCIde -------------------------------
(***************************************************************************)
(* Registers of three values: a 28-bit address ends before sector 54, an   *)
(* unsigned int before 81, a drive that knows no LBA before sector 36.     *)
(***************************************************************************)
EXTENDS Ide

ThreeDrives == {[lba28 |-> TRUE,  size |-> 7],
                [lba28 |-> TRUE,  size |-> 56],
                [lba28 |-> FALSE, size |-> 36]}

Edges == {1, 6, 34, 53, 54, 80}
=============================================================================
