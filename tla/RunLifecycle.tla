---------------------------- MODULE RunLifecycle ----------------------------
(***************************************************************************)
(* What the control plane promises to a client that watches a run: the     *)
(* status diagram of docs/API.md and the order in which the three traces   *)
(* of a finished run appear - the answer before the status "succeeded",    *)
(* and a terminal status before any terminal event.                        *)
(***************************************************************************)
CONSTANT Runs

VARIABLES
    status,     \* the status of each run
    answered,   \* the runs that have an assistant message
    reported    \* the runs whose log holds a terminal event

vars == <<status, answered, reported>>

Active == {"queued", "running", "waiting_for_approval"}
Final == {"succeeded", "failed", "canceled"}

Init ==
    /\ status = [r \in Runs |-> "absent"]
    /\ answered = {}
    /\ reported = {}

Queue(r) ==
    /\ status[r] = "absent"
    /\ status' = [status EXCEPT ![r] = "queued"]
    /\ UNCHANGED <<answered, reported>>

\* An active run starts, waits for approval, or goes on.
Move(r) ==
    /\ status[r] \in Active
    /\ \E s \in {"running", "waiting_for_approval"} : status' = [status EXCEPT ![r] = s]
    /\ UNCHANGED <<answered, reported>>

Answer(r) ==
    /\ status[r] # "absent"
    /\ answered' = answered \cup {r}
    /\ UNCHANGED <<status, reported>>

\* A run finishes once; it succeeds only with an answer.
Finish(r) ==
    /\ status[r] \in Active
    /\ \E s \in Final :
         /\ s = "succeeded" => r \in answered
         /\ status' = [status EXCEPT ![r] = s]
    /\ UNCHANGED <<answered, reported>>

Report(r) ==
    /\ status[r] \in Final
    /\ reported' = reported \cup {r}
    /\ UNCHANGED <<status, answered>>

Next == \E r \in Runs : Queue(r) \/ Move(r) \/ Answer(r) \/ Finish(r) \/ Report(r)

Spec == Init /\ [][Next]_vars
=============================================================================
