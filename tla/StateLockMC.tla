---- MODULE StateLockMC ----
EXTENDS StateLock, TLC
CONSTANTS p1, p2, p3
Perms == Permutations(Publishers)
====
