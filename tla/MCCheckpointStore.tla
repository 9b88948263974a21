-------------------------- MODULE MCCheckpointStore --------------------------
EXTENDS CheckpointStore, TLC
CONSTANTS k1, k2, i1, i2, i3, u, v, w
\* Kernels, IDs and sound values are interchangeable.
Alike == Permutations({i1, i2}) \cup Permutations({k1, k2})
AlikeIds == Permutations({i1, i2, i3})
=============================================================================
