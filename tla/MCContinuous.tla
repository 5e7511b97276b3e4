---------------------------- MODULE MCContinuous ----------------------------
(***************************************************************************)
(* Instances of ContinuousTask for TLC: one or two applications, each with *)
(* an ability.                                                             *)
(***************************************************************************)
EXTENDS ContinuousTask

CONSTANTS
    u1, u2, a1, a2,
    Scenes      \* which kinds of event happen together in a behaviour

VARIABLE scene

\* A request object for modes M with sub modes N.
ByObject(u, a, M, N, combined) ==
    [uid |-> u, ability |-> a, newApi |-> TRUE, byReq |-> TRUE, inner |-> FALSE,
     needNotif |-> FALSE, component |-> FALSE, modes |-> M, subModes |-> N, combined |-> combined]

\* A call of startBackgroundRunning.
ByContext(u, a, M) ==
    [ByObject(u, a, M, {}, FALSE) EXCEPT !.byReq = FALSE]

\* A system ability, or a component of the application, for an application.
ByInner(u, a, mode, needNotif, component) ==
    [ByContext(u, a, {mode}) EXCEPT !.inner = TRUE, !.needNotif = needNotif, !.component = component]

AllDeclared == [u \in Uids |-> Modes \ {"DEFAULT"}]
NoTraits == [u \in Uids |-> {}]

\* Playback that is merged, a transfer with another mode, navigation and calls.
ObjectRequests ==
    {ByObject(u1, a1, {"AUDIO_PLAYBACK"}, {"NORMAL"}, TRUE),
     ByObject(u1, a1, {"DATA_TRANSFER", "LOCATION"}, {"NORMAL"}, FALSE),
     ByContext(u1, a1, {"LOCATION"}),
     ByContext(u1, a1, {"VOIP"}),
     ByInner(u1, a1, "VOIP", TRUE, FALSE)}

\* What is asked for in each scene.
Asked(r) ==
    IF "removing" \in scene \/ {"crashing", "dying"} \subseteq scene
    THEN r.modes \in {{"AUDIO_PLAYBACK"}, {"LOCATION"}}
    ELSE IF "filling" \in scene THEN r.modes = {"AUDIO_PLAYBACK"}
    ELSE IF "sounding" \in scene THEN r.modes = {"AUDIO_PLAYBACK"}
    ELSE IF scene \cap {"showing", "moving", "clearing"} # {} THEN ~r.byReq
    ELSE r.byReq

MCInit == Init /\ scene \in Scenes

MCNext ==
    /\ UNCHANGED scene
    /\ \/ Start \/ InitNecessaryState \/ Requesting
       \/ ("crashing" \in scene => "scheduling" \in scene) /\ Subscribing
       \/ "crashing" \in scene /\ Crash
       \/ "scheduling" \in scene /\ Scheduling
       \/ "sounding" \in scene /\ Sounding
       \/ "showing" \in scene /\ Showing
       \/ "removing" \in scene /\ Removing
       \/ "dying" \in scene /\ Dying
       \/ "moving" \in scene /\ Moving
       \/ "clearing" \in scene /\ Clearing
    /\ "filling" \notin scene => mgr'.tidx < MaxId
    /\ \A k \in DOMAIN mgr'.tasks : Asked(mgr'.tasks[k])
    /\ "sounding" \in scene \/ ("crashing" \in scene /\ "dying" \notin scene) =>
           Cardinality(DOMAIN mgr'.tasks) <= 1

MCSpec == MCInit /\ [][MCNext]_<<vars, scene>>

RestartFaults == {{}, {"register"}, {"query", "label"}, {"main", "sub"}}

OneFault == {{}, {"main", "sub"}, {"silent"}}
=============================================================================
