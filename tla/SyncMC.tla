--------------------------------- MODULE SyncMC ---------------------------------
EXTENDS Sync

MCFirstWork == [f \in Files |-> 1]
================================================================================
