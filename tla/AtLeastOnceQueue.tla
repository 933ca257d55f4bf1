-------------------------- MODULE AtLeastOnceQueue --------------------------
(***************************************************************************)
(* What the ingest spool promises its callers, with no file, cursor or     *)
(* crash in sight: records are numbered in the order they were written,    *)
(* and each is completed (stored, or given up on after the retry budget)   *)
(* in that order.  A record completed again after a restart is a           *)
(* stuttering step, which is what "at least once" means here.              *)
(***************************************************************************)
EXTENDS Naturals

VARIABLES submitted,  \* how many records were ever written
          done        \* the numbers of the records completed so far

qvars == <<submitted, done>>

QInit == submitted = 0 /\ done = {}

Submit == /\ submitted' \in Nat /\ submitted' > submitted
          /\ UNCHANGED done

\* Only the oldest outstanding record can be completed.
Complete == /\ \E r \in 1..submitted : /\ r \notin done
                                       /\ \A j \in 1..(r - 1) : j \in done
                                       /\ done' = done \cup {r}
            /\ UNCHANGED submitted

QNext == Submit \/ Complete

QSpec == QInit /\ [][QNext]_qvars
=============================================================================
