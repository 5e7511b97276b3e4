------------------------------- MODULE MCAuth -------------------------------
(* Instances of ContinuousAuth for TLC.                                    *)
EXTENDS ContinuousAuth

CONSTANTS a1, a2

OneBundle == [a \in Apps |-> a1]

VARIABLE scene      \* what happens beside a request: "files", "processes" or other "requests"

MCInit == Init /\ scene \in {"files", "processes", "requests"}

MCNext ==
    /\ UNCHANGED scene
    /\ \/ Handling \/ User \/ Client \/ OnBundleInfoChanged \/ Crash \/ HandlePersistenceData
       \/ scene = "files" /\ (OnBackup \/ OnRestore)
       \/ scene = "processes" /\ (AppDies \/ AppStarts)
    /\ scene # "requests" => \A a \in Apps : proc'[a].n <= 1

MCSpec == MCInit /\ [][MCNext]_<<vars, scene>> /\ Fairness
=============================================================================
