-------------------------- MODULE MCIntake ----------------------------------
(***************************************************************************)
(* The way in, model-checked in one run: the ingest endpoints, the Redis   *)
(* queue, the bytes of a spool file, sampling and facets.  They share no   *)
(* variable, so a behaviour exercises one of them and leaves the others in *)
(* their initial states.                                                   *)
(***************************************************************************)
EXTENDS WriteQueue, IngestRequest, SpoolFile, EventSampling, Facets

VARIABLE intakePart  \* the component this behaviour exercises

IntakeParts == {"queue", "endpoints", "spoolfile", "sampling", "facets"}

intakeVars == <<intakePart, vars, ihVars, sfVars, esVars, faVars>>

IntakeInit ==
  /\ intakePart \in IntakeParts
  /\ Init /\ IhInit /\ SfInit /\ EsInit /\ FaInit
  /\ intakePart # "endpoints" => ihKey = "full"

IntakeNext ==
  \/ /\ intakePart = "queue" /\ Next
     /\ UNCHANGED <<intakePart, ihVars, sfVars, esVars, faVars>>
  \/ /\ intakePart = "endpoints" /\ IhNext
     /\ UNCHANGED <<intakePart, vars, sfVars, esVars, faVars>>
  \/ /\ intakePart = "spoolfile" /\ SfNext
     /\ UNCHANGED <<intakePart, vars, ihVars, esVars, faVars>>
  \/ /\ intakePart = "sampling" /\ EsNext
     /\ UNCHANGED <<intakePart, vars, ihVars, sfVars, faVars>>
  \/ /\ intakePart = "facets" /\ FaNext
     /\ UNCHANGED <<intakePart, vars, ihVars, sfVars, esVars>>

IntakeSpec == IntakeInit /\ [][IntakeNext]_intakeVars

\* The fairness of WriteQueue's FairSpec.
IntakeFairSpec ==
  /\ IntakeSpec
  /\ WF_vars(intakePart = "queue" /\ (Recovery \/ Take \/ Batch \/ Process \/ Finish))
  /\ WF_vars(intakePart = "queue" /\ RunEnds)
  /\ WF_vars(intakePart = "queue" /\ pc = "stopped" /\ StartWriter)
=============================================================================
