---- MODULE DistillMC ----
EXTENDS Distill

Edit(f) == [tool |-> "Edit", file |-> f, text |-> TRUE]
Delete(f) == [Edit(f) EXCEPT !.text = FALSE]
MCTurns == {<<Edit("f")>>, <<Edit("g")>>, <<Delete("f")>>, <<Edit("f"), Edit("g")>>,
            <<Call("Read")>>}
====
