-------------------------------- MODULE MCFlows --------------------------------
(****************************************************************************)
(* The two flows that must come to an end, for TLC: a participant on the    *)
(* way to the donation, and the classification syncs.  They share no        *)
(* variable: a behaviour is one of the two, the scene.                      *)
(****************************************************************************)
EXTENDS Participation, ClassificationSync, TLC

VARIABLE scene

sceneVars == <<scene, participationVars, syncVars>>

SceneInit ==
    /\ scene \in {"portal", "sync"}
    /\ ParticipationInit /\ SyncInit

InPortal(A) == scene = "portal" /\ A /\ UNCHANGED <<scene, syncVars>>
InSync(A) == scene = "sync" /\ A /\ UNCHANGED <<scene, participationVars>>

SceneNext == InPortal(ParticipationNext) \/ InSync(SyncNext)

\* The fairness of the two modules, each in its scene.
SceneFairness ==
    /\ \A t \in Tabs : WF_sceneVars(InPortal(Forward(t)))
    /\ WF_sceneVars(InPortal(\E c \in calls : Serve(c)))
    /\ \A r \in RequestIds : WF_sceneVars(InPortal(Collected(r)))
    /\ \A w \in Runners :
           WF_sceneVars(InSync(WorkOn(w))) /\ WF_sceneVars(InSync(LockLapses(w)))

SceneSpec == SceneInit /\ [][SceneNext]_sceneVars /\ SceneFairness

\* The variables of both scenes hold values of their types.
EveryTypeOK == PortalTypeOK /\ SyncTypeOK

\* In its scene, the participant donates in the end.
ParticipantDonates == scene = "portal" => DonationReached

-----------------------------------------------------------------------------
\* A back-fill of two days whose first takes several runs, and a sync of the
\* first day by itself.
BackfillAndDay == {"backfill", "day"}
FirstDay == [j \in BackfillAndDay |-> 1]
LastDay == "backfill" :> 2 @@ "day" :> 1
Caps == "backfill" :> 2 @@ "day" :> 1
VideosPerDay == <<3, 0>>
=============================================================================
