----------------------- MODULE MCGenerationLifecycle -----------------------
(* Two instances of GenerationLifecycle in one run; `part` says which one    *)
(* moves.  `attempts` is one generation with every fault, call and lane;     *)
(* `followups` is two generations, one of which may follow the other, with   *)
(* one lane that nothing befalls.                                            *)
EXTENDS GenerationLifecycle, TLC

CONSTANTS g1, g2, w1, w2, s1

VARIABLE part

\* bounds of each part, beside the constants
InPart ==
    IF part = "attempts"
      THEN /\ \E g \in Generation : status[g] = "absent"
           /\ \A v \in 2..Len(versions) : versions[v].generation # NoGeneration
      ELSE /\ run[w2] = Idle /\ faults = 0
           /\ \A g \in Generation :
                count[g] <= 2 /\ \A s \in Steer : steering[g][s].status = "none"

PartsInit == Init /\ part \in {"attempts", "followups"}
PartsNext == Next /\ UNCHANGED part /\ InPart'
PartsSpec == PartsInit /\ [][PartsNext]_<<vars, part>>

\* A lane of `followups` is never w2, and so no two of its states are images of each other
\* under an exchange of the lanes.
LifecycleSymmetry == Permutations(Generation) \cup Permutations(Lane)
=============================================================================
