---- MODULE HookMC ----
EXTENDS Hook
====
