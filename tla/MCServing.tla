------------------------------ MODULE MCServing ------------------------------
(***************************************************************************)
(* A release, searches and the dataset together.  Searches and the dataset *)
(* share only the table and the API process, which neither of them         *)
(* changes: in one behaviour there is one or the other beside a release.   *)
(***************************************************************************)
EXTENDS StopSearch, Dataset

VARIABLE scene

allVars == <<releaseVars, searchVars, datasetVars, scene>>

MCInit ==
    /\ ReleaseInit /\ SearchInit /\ DatasetInit
    /\ scene \in {"search", "dataset"}

SearchScene == scene = "search" /\ SearchNext /\ UNCHANGED <<datasetVars, scene>>
DatasetScene == scene = "dataset" /\ DatasetNext /\ UNCHANGED <<searchVars, scene>>

MCSpec == MCInit /\ [][SearchScene \/ DatasetScene]_allVars
=============================================================================
