------------------------------- MODULE MCVmm -------------------------------
(***************************************************************************)
(* The heap begins two pages before the end of a table; five frames are    *)
(* free, for three of its pages and their two tables, and the memset of    *)
(* vmm_map hits some of them.                                              *)
(***************************************************************************)
EXTENDS Vmm

\* What heap users write is zero, or looks like an entry.
Words == {Zero, Entry(0)}
=============================================================================
