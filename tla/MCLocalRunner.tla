--------------------------- MODULE MCLocalRunner ---------------------------
(***************************************************************************)
(* LocalRunner on a three step definition: an agent step, an approval gate *)
(* whose output_key differs from its name, and an agent step whose         *)
(* condition asks for the approval.                                        *)
(***************************************************************************)
EXTENDS LocalRunner, TLC

MCLabel == {"diagnose", "gate", "decision", "fix"}
MCName == <<"diagnose", "gate", "fix">>
MCKey == <<"diagnose", "decision", "fix">>
MCCond == <<None, None, "decision">>

ApproverSymmetry == Permutations(Approver)
=============================================================================
