---------------------------- MODULE MCCheckpoints ----------------------------
EXTENDS Checkpoints
CONSTANTS i1, i2, i3
=============================================================================
