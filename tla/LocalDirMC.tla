---- MODULE LocalDirMC ----
EXTENDS LocalDir
====
