---- MODULE PullMC ----
EXTENDS Pull
====
