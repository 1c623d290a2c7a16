--------------------------- MODULE MCServicesLive ---------------------------
(***************************************************************************)
(* What must happen in the end in the services: the timeout monitor of the *)
(* CLI sessions and the alert webhook, one of them in a behaviour (as in   *)
(* MCServices), each under its own fairness.                               *)
(***************************************************************************)
EXTENDS CliSessions, AlertTrigger

VARIABLE part

liveVars == <<part, cliVars, alertVars>>

Firing(f) == [fp |-> f, resolved |-> FALSE]
MCPayload == {<<Firing("a")>>, <<Firing("b")>>}

LiveInit == part \in {"cli", "alert"} /\ CliInit /\ AlertInit

LiveNext ==
    /\ \/ part = "cli" /\ CliNext /\ UNCHANGED alertVars
       \/ part = "alert" /\ AlertNext /\ UNCHANGED cliVars
    /\ UNCHANGED part

\* The event loop runs the monitor. A gateway call that never answers is
\* LoopHang, which is not among these steps: the monitor may hang for ever.
CliFairness == WF_cliVars(part = "cli" /\ LoopStep)

\* Requests are served, time passes, and Alertmanager repeats an alert that
\* still fires (its repeat_interval), whatever else it sends.
AlertFairness ==
    /\ \A h \in Hook : WF_alertVars(part = "alert" /\ HookStep(h))
    /\ WF_alertVars(part = "alert" /\ Tick)
    /\ \A f \in Named : SF_alertVars(part = "alert" /\ Repeats(f))

LiveSpec == LiveInit /\ [][LiveNext]_liveVars /\ CliFairness /\ AlertFairness
=============================================================================
