---------------------------- MODULE AtomicStore ----------------------------
(* One repository in memory: every call that changes it is one step, and a  *)
(* call that fails changes nothing.                                          *)
CONSTANTS
    Value,     \* what a repository can hold
    First,     \* what an empty one holds
    Mutation   \* pairs of what a method finds and what it leaves

VARIABLE value

Init == value = First

Next == value' \in Value /\ <<value, value'>> \in Mutation

Spec == Init /\ [][Next]_value
=============================================================================
