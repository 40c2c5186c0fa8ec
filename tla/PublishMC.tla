---- MODULE PublishMC ----
EXTENDS Publish
====
