-------------------------- MODULE MCApprovals ---------------------------------
(***************************************************************************)
(* Who is let in, model-checked in one run: projects that wait for an      *)
(* approval, agents that ask for a key, the keys themselves and the marks  *)
(* of their use.  They share no variable, so a behaviour exercises one of  *)
(* them and leaves the others in their initial states.                     *)
(***************************************************************************)
EXTENDS ProjectApproval, KeyRequests, SetupKeys, KeyTouch

VARIABLE approvalsPart  \* the component this behaviour exercises

ApprovalsParts == {"approval", "requests", "keys", "touches"}

approvalsVars == <<approvalsPart, vars, krVars, skVars, ktVars>>

ApprovalsInit ==
  /\ approvalsPart \in ApprovalsParts
  /\ Init /\ KrInit /\ SkInit /\ KtInit
  /\ approvalsPart # "approval" => \A r, s \in Records : slugOf[r] = slugOf[s]

ApprovalsNext ==
  \/ /\ approvalsPart = "approval" /\ Next
     /\ UNCHANGED <<approvalsPart, krVars, skVars, ktVars>>
  \/ /\ approvalsPart = "requests" /\ KrNext
     /\ UNCHANGED <<approvalsPart, vars, skVars, ktVars>>
  \/ /\ approvalsPart = "keys" /\ SkNext
     /\ UNCHANGED <<approvalsPart, vars, krVars, ktVars>>
  \/ /\ approvalsPart = "touches" /\ KtNext
     /\ UNCHANGED <<approvalsPart, vars, krVars, skVars>>

ApprovalsSpec == ApprovalsInit /\ [][ApprovalsNext]_approvalsVars
=============================================================================
