-------------------------- MODULE MCKernelRuntime --------------------------
EXTENDS KernelRuntime, TLC
CONSTANTS a, b, d, s, v, e
=============================================================================
