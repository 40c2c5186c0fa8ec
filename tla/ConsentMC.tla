------------------------------ MODULE ConsentMC ------------------------------
EXTENDS Consent

Says(share, store) == [ez |-> TRUE, share |-> share, store |-> store]

(* Policies with and without a store, a config that only names a store, and  *)
(* a policy that forbids.                                                    *)
SmallConfigs ==
    {Says("always", "a"), Says("always", "b"), Says("ask", NoStore), Says("never", NoStore),
     Says("unset", "b")}

SmallTrees == {<<NoEz, Says("always", "a")>>, <<Says("always", "a"), Says("always", "a")>>}
=============================================================================
