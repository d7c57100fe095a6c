------------------------ MODULE GenerationContract -------------------------
(***************************************************************************)
(* What a generation promises its host ("Status model" and "Queue          *)
(* follow-up prompts" of docs/api/generations.md), without attempts,       *)
(* leases, workers, tasks or steering:                                     *)
(*   - a result is committed once, under a version number no result had;   *)
(*   - a succeeded generation never changes again;                         *)
(*   - a follow-up runs only after its predecessor has succeeded;          *)
(*   - results, failures and questions come out of running work only, and  *)
(*     everything else a host does is to put it back in the queue or to    *)
(*     cancel it.                                                          *)
(***************************************************************************)
EXTENDS Integers

CONSTANTS
    Generation, NoGeneration,
    Number        \* version numbers, all above 0

VARIABLES
    after,      \* the predecessor of a follow-up
    operation,  \* "change" or "inspect"
    status,
    result      \* number of the version committed, 0 for none

vars == <<after, operation, status, result>>

MayRun(g) == after[g] # NoGeneration => status[after[g]] = "succeeded"

Become(g, s) == status' = [status EXCEPT ![g] = s]

Accept(g, op, p) ==
    /\ status[g] = "absent"
    /\ p # NoGeneration => status[p] # "absent" /\ operation[p] = "change"
    /\ after' = [after EXCEPT ![g] = p]
    /\ operation' = [operation EXCEPT ![g] = op]
    /\ Become(g, "queued")
    /\ UNCHANGED result

Start(g) ==
    /\ status[g] = "queued"
    /\ MayRun(g)
    /\ Become(g, "running")
    /\ UNCHANGED <<after, operation, result>>

Requeue(g) ==
    /\ status[g] \in {"running", "waiting", "failed", "cancelled"}
    /\ Become(g, "queued")
    /\ UNCHANGED <<after, operation, result>>

Cancel(g) ==
    /\ status[g] \in {"queued", "running", "waiting"}
    /\ Become(g, "cancelled")
    /\ UNCHANGED <<after, operation, result>>

Stop(g) ==
    /\ status[g] = "running"
    /\ \E s \in {"waiting", "failed"} : Become(g, s)
    /\ UNCHANGED <<after, operation, result>>

Finish(g) ==
    /\ status[g] = "running"
    /\ MayRun(g)
    /\ result[g] = 0
    /\ Become(g, "succeeded")
    /\ \/ /\ operation[g] = "change"
          /\ \E v \in Number :
               /\ \A h \in Generation : result[h] < v
               /\ result' = [result EXCEPT ![g] = v]
       \/ operation[g] = "inspect" /\ UNCHANGED result
    /\ UNCHANGED <<after, operation>>

Init ==
    /\ after = [g \in Generation |-> NoGeneration]
    /\ operation = [g \in Generation |-> "change"]
    /\ status = [g \in Generation |-> "absent"]
    /\ result = [g \in Generation |-> 0]

Next ==
    \E g \in Generation :
        \/ \E op \in {"change", "inspect"}, p \in Generation \cup {NoGeneration} : Accept(g, op, p)
        \/ Start(g) \/ Requeue(g) \/ Cancel(g) \/ Stop(g) \/ Finish(g)

Spec == Init /\ [][Next]_vars
=============================================================================
