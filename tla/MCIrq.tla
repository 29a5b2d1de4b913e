------------------------------- MODULE MCIrq -------------------------------
EXTENDS Irq
=============================================================================
