------------------------------ MODULE TaskPool ------------------------------
(***************************************************************************)
(* What a run of tasks promises, whatever schedules it: a registered task  *)
(* is started at most once and ends in one final state, at most Limit      *)
(* tasks run at a time, each result is reported once, and the run returns  *)
(* only when every task it started has been reported.                      *)
(***************************************************************************)
EXTENDS Naturals, FiniteSets

CONSTANTS Tasks, InitialTasks, Limit

VARIABLES state, reported, returned

vars == <<state, reported, returned>>

Terminal == {"Completed", "Failed", "Cancelled"}

Running == {t \in Tasks : state[t] = "Running"}

Init ==
    /\ state = [t \in Tasks |->
                   IF t \in InitialTasks THEN "Pending" ELSE "Unregistered"]
    /\ reported = {}
    /\ returned = FALSE

Register(t) ==
    /\ state[t] = "Unregistered"
    /\ state' = [state EXCEPT ![t] = "Pending"]
    /\ UNCHANGED <<reported, returned>>

Start(t) ==
    /\ ~returned
    /\ state[t] = "Pending"
    /\ Cardinality(Running) < Limit
    /\ state' = [state EXCEPT ![t] = "Running"]
    /\ UNCHANGED <<reported, returned>>

Finish(t, s) ==
    /\ ~returned
    /\ state[t] = "Running"
    /\ state' = [state EXCEPT ![t] = s]
    /\ UNCHANGED <<reported, returned>>

Report(t) ==
    /\ ~returned
    /\ state[t] \in Terminal
    /\ t \notin reported
    /\ reported' = reported \cup {t}
    /\ UNCHANGED <<state, returned>>

Return ==
    /\ ~returned
    /\ \A t \in Tasks : state[t] \in {"Running"} \cup Terminal => t \in reported
    /\ returned' = TRUE
    /\ UNCHANGED <<state, reported>>

Next ==
    \/ \E t \in Tasks : \/ Register(t)
                        \/ Start(t)
                        \/ \E s \in Terminal : Finish(t, s)
                        \/ Report(t)
    \/ Return

Spec == Init /\ [][Next]_vars
=============================================================================
