------------------------- MODULE MCPublishExecution -------------------------
(* The small instances on which TLC checks PublishExecution. *)
EXTENDS PublishExecution, TLC

\* The platform binary, the official CLI and the product.
CONSTANTS bin, cli, app

MCPosition == (bin :> 1) @@ (cli :> 2) @@ (app :> 3)

\* With and without the platform binary: the ids of the others shift.
MCBuilds == {{cli, app}, {bin, cli, app}}

\* Flags that have no effect on each other are not combined.
MCOptions ==
    {o \in Flags : /\ ~o.execute => ~o.dry /\ ~o.yes /\ ~o.rollback
                   /\ o.dry => ~o.yes /\ ~o.rollback
                   /\ ~o.yes => ~o.rollback}
=============================================================================
