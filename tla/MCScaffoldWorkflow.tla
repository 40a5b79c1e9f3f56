------------------------- MODULE MCScaffoldWorkflow -------------------------
(* Workflows of TLC's instance: steps that repeat, run and are only planned. *)
EXTENDS ScaffoldWorkflow

Step(kind) == [kind |-> kind, execute |-> TRUE, skipIfExists |-> TRUE,
               rollback |-> "inherit"]
Planned(kind) == [Step(kind) EXCEPT !.execute = FALSE]
Forced(kind)  == [Step(kind) EXCEPT !.skipIfExists = FALSE, !.rollback = "unsupported"]
Silent(kind)  == [Step(kind) EXCEPT !.rollback = "none"]

MCOrder == <<"a.ts", "package.json", "z.ts">>

MCWorkflows ==
    {<<Step("calc"), Step("merge"), Step("write"), Step("install"), Step("gitInit"),
       Step("firstCommit")>>,
     <<Step("write"), Step("install"), Step("write"), Step("install"), Step("calc")>>,
     <<Step("install"), Step("write"), Forced("gitInit"), Silent("firstCommit")>>,
     <<Planned("install"), Planned("gitInit"), Planned("firstCommit"), Step("write"),
       Step("firstCommit"), Forced("install"), Step("gitInit")>>}
=============================================================================
