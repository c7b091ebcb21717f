---------------------------- MODULE MCInterrupts ----------------------------
EXTENDS Interrupts
============================================================================
