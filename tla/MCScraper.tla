------------------------------- MODULE MCScraper -------------------------------
(****************************************************************************)
(* The scraper's progress, for TLC: the task with its lock and cool-down,   *)
(* and the queue it and external scrapers work off.  What a batch does to   *)
(* the queue and how the task is scheduled are two models that share no     *)
(* variable: a behaviour is one of them, the scene.                         *)
(****************************************************************************)
EXTENDS ScrapeQueue, ScrapeTask, TLC

VARIABLE scene

sceneVars == <<scene, taskVars, vars>>

SceneInit == scene \in {"task", "queue"} /\ TaskInit /\ Init

InTask(A) == scene = "task" /\ A /\ UNCHANGED <<scene, vars>>
InQueue(A) == scene = "queue" /\ A /\ UNCHANGED <<scene, taskVars>>

SceneNext == InTask(TaskNext) \/ InQueue(Next)

\* The fairness of the two modules.  A behaviour stays in its scene: what one
\* line asks of an action of the task or one of the queue, it asks of the one
\* that belongs to the scene.
SceneFairness ==
    /\ WF_sceneVars(InTask(ClockTicks) \/ InQueue(Tick))
    /\ WF_sceneVars(InTask(Beat) \/ InQueue(StopStarting))
    /\ WF_sceneVars(InTask(\E w \in Workers : Begin(w, "scheduled"))
                      \/ InQueue(CloseRun))
    /\ \A w \in Workers : WF_sceneVars(InTask(WorkerStep(w) \/ Kill(w)))
    /\ SF_sceneVars(InTask(\E w \in Workers : TryLock(w)))
    /\ \A t \in Targets :
           /\ SF_sceneVars(InQueue(\E S \in SUBSET Targets : t \in S /\ StartRun(S)))
           /\ SF_sceneVars(InQueue(\E o \in {"success", "unavailable", "failed"} :
                                       PageServed(t, o)))

SceneSpec == SceneInit /\ [][SceneNext]_sceneVars /\ SceneFairness
=============================================================================
