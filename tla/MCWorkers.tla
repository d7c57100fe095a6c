----------------------------- MODULE MCWorkers ------------------------------
(* The two kinds of background work of a process that are not lanes of the  *)
(* generation worker: delivery to a webhook and embedded runs.  They share  *)
(* no state, so one run checks each by itself: `part` says which one moves. *)
EXTENDS WebhookDelivery, EmbeddedRuns, TLC

CONSTANTS
    MaxUpsets   \* bound: redrives, host changes and faults of one behaviour together

VARIABLE part

WorkersInit == Init /\ EmbeddedInit /\ part \in {"webhook", "embedded"}

Upsets(b) == b.redrives + b.changes + b.faults

WorkersNext ==
    /\ UNCHANGED part
    /\ \/ /\ part = "webhook" /\ Next
          /\ Upsets(budget') <= MaxUpsets
          /\ UNCHANGED embeddedVars
       \/ part = "embedded" /\ EmbeddedNext /\ UNCHANGED vars

workerVars == <<part, vars, embeddedVars>>

WorkersSpec == WorkersInit /\ [][WorkersNext]_workerVars

WorkerSymmetry == Permutations(Lane) \cup Permutations(Call)

=============================================================================
