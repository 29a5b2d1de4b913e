------------------------------ MODULE MCTarfs ------------------------------
(***************************************************************************)
(* Blocks of four bytes, sizes of three binary digits, and every archive   *)
(* of up to four files: one more than there are headers.                   *)
(***************************************************************************)
EXTENDS Tarfs

Small == UNION {[1 .. n -> 0 .. 7] : n \in 0 .. 3} \union [1 .. 4 -> {0, 1, 4, 7}]
=============================================================================
