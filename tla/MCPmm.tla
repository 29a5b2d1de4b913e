------------------------------- MODULE MCPmm -------------------------------
(***************************************************************************)
(* Memory maps for Pmm.  With MemUpper = 3 and four-byte pages init_pmm    *)
(* starts at frame 1 and the stack's page table is frame 5.                *)
(***************************************************************************)
EXTENDS PmmImage

\* Available memory around the early frames, as a PC reports it.
PlainMap == <<[base |-> 0, len |-> 7, available |-> TRUE],
              [base |-> 7, len |-> 5, available |-> TRUE]>>

\* The early frames lie in a range the firmware reserved.
HoleMap == <<[base |-> 0, len |-> 3, available |-> TRUE],
             [base |-> 3, len |-> 3, available |-> FALSE],
             [base |-> 6, len |-> 3, available |-> TRUE],
             [base |-> 9, len |-> 3, available |-> TRUE]>>
=============================================================================
