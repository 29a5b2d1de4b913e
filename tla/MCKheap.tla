------------------------------ MODULE MCKheap ------------------------------
EXTENDS Kheap
=============================================================================
