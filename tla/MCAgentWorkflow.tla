-------------------------- MODULE MCAgentWorkflow --------------------------
(***************************************************************************)
(* AgentWorkflow on every definition of three steps in which each step is  *)
(* an agent or a gate, belongs to the parallel group or to none, and has   *)
(* at most one reference to an earlier step, in its condition or only in   *)
(* its prompt, and on some in which a condition names a later step or its  *)
(* own; one step may be retried once.                                      *)
(***************************************************************************)
EXTENDS AgentWorkflow

\* References: 0 or an earlier step.
Earlier == {r \in [Step -> 0..(N - 1)] : \A i \in Step : r[i] < i}

MCFlow(gate, auto, invalid, group, ref, tests, advisory) ==
    [gate |-> gate, auto |-> auto, invalid |-> invalid, group |-> group,
     refs |-> [i \in Step |-> {ref[i]} \ {0}],
     cond |-> [i \in Step |-> IF i \in tests THEN ref[i] ELSE 0],
     retries |-> [i \in Step |-> IF i = 1 THEN 1 ELSE 0],
     advisory |-> advisory]

MCFlows ==
    {MCFlow(gate, {}, {}, group, ref, Step, FALSE) :
        gate \in {{}, {2}, {3}, {1, 2}}, group \in [Step -> GroupName \cup {None}],
        ref \in Earlier}
    \cup {MCFlow({2}, {}, {}, group, <<0, 1, 1>>, {3}, FALSE) :
             group \in [Step -> GroupName \cup {None}]}
    \cup {MCFlow({}, {}, {}, group, ref, Step, FALSE) :
             group \in [Step -> GroupName \cup {None}], ref \in {<<2, 0, 0>>, <<0, 2, 2>>}}
    \cup {MCFlow({2}, {2}, {3}, [i \in Step |-> None], <<0, 0, 0>>, {}, FALSE),
          MCFlow({2}, {}, {}, [i \in Step |-> None], <<0, 0, 2>>, {3}, TRUE)}
=============================================================================
