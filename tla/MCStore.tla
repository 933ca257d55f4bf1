-------------------------- MODULE MCStore -----------------------------------
(***************************************************************************)
(* The stored data and its readers, model-checked in one run: retention    *)
(* and checkpoints, releases, listings, counts, feeds, live logs and the   *)
(* project directory.  They share no variable, so a behaviour exercises one*)
(* of them and leaves the others in their initial states.                  *)
(***************************************************************************)
EXTENDS Retention, Checkpoint, Releases, IssueListing, IssueCounts,
          EventFeed, LogStream, ProjectDirectory

\* Every slug gives the same prefix, so that prefixes have to be told apart.
SamePrefix == [s \in PdSlugs |-> "a"]
FirstProject == <<"a">>

VARIABLE storePart  \* the component this behaviour exercises

StoreParts == {"retention", "checkpoint", "releases", "listing", "counts",
          "feed", "logs", "projects"}

storeVars == <<storePart, rtVars, ckVars, reVars, liVars, icVars, efVars, lsVars,
          pdVars>>

StoreInit ==
  /\ storePart \in StoreParts
  /\ RtInit /\ CkInit /\ ReInit /\ LiInit /\ IcInit /\ EfInit /\ LsInit
  /\ PdInit

StoreNext ==
  \/ /\ storePart = "retention" /\ RtNext
     /\ UNCHANGED <<storePart, ckVars, reVars, liVars, icVars, efVars, lsVars,
          pdVars>>
  \/ /\ storePart = "checkpoint" /\ CkNext
     /\ UNCHANGED <<storePart, rtVars, reVars, liVars, icVars, efVars, lsVars,
          pdVars>>
  \/ /\ storePart = "releases" /\ ReNext
     /\ UNCHANGED <<storePart, rtVars, ckVars, liVars, icVars, efVars, lsVars,
          pdVars>>
  \/ /\ storePart = "listing" /\ LiNext
     /\ UNCHANGED <<storePart, rtVars, ckVars, reVars, icVars, efVars, lsVars,
          pdVars>>
  \/ /\ storePart = "counts" /\ IcNext
     /\ UNCHANGED <<storePart, rtVars, ckVars, reVars, liVars, efVars, lsVars,
          pdVars>>
  \/ /\ storePart = "feed" /\ EfNext
     /\ UNCHANGED <<storePart, rtVars, ckVars, reVars, liVars, icVars, lsVars,
          pdVars>>
  \/ /\ storePart = "logs" /\ LsNext
     /\ UNCHANGED <<storePart, rtVars, ckVars, reVars, liVars, icVars, efVars,
          pdVars>>
  \/ /\ storePart = "projects" /\ PdNext
     /\ UNCHANGED <<storePart, rtVars, ckVars, reVars, liVars, icVars, efVars,
          lsVars>>

StoreSpec == StoreInit /\ [][StoreNext]_storeVars
=============================================================================
