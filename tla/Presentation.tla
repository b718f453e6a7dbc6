---------------------------- MODULE Presentation ----------------------------
(***************************************************************************)
(* The terminal interface and its engine: the App and its EngineClient     *)
(* (ui/tui/app.tsx, presentation/client.ts) in one process, the worker and *)
(* its PresentationEngine (presentation/worker.ts, engine.ts) in another.  *)
(*                                                                         *)
(* The interface sends intents; the engine performs them one at a time,    *)
(* each with an await in it, while a goal, a manual verification, the      *)
(* preparation of an image, a trial or a login go on beside them.  The     *)
(* engine sends snapshots; the user acts on the last one that arrived.     *)
(***************************************************************************)
EXTENDS Integers, Sequences

CONSTANTS
    Folders, Home,      \* working folders, the one the engine starts in
    Nothing,            \* no active work, no dialog, no intent
    MaxIntents, MaxChanges,     \* bounds: intents of the user, store changes
    UiInstances,        \* the kinds of intents of each instance explored
    UiWindows           \* what the user may do in between: {"folder", "late"}

ASSUME UiAssumption == Home \in Folders /\ MaxIntents \in Nat /\ MaxChanges \in Nat

VARIABLES
    queue,      \* intents dispatched and not performed, the first in progress
    awaiting,   \* the first intent is past its checks, inside its await
    engine,     \* the fields of PresentationEngine
    goalOf,      \* per folder: state of its goal, pause requested, version
    policy,     \* folders with consent for Contributor, plans approved
    channel,    \* snapshots sent and not received
    ui,         \* the view, the open confirmation, what was consented to
    script      \* kinds of intents left to this user, number of intents

uiVars == <<queue, awaiting, engine, goalOf, policy, channel, ui, script>>

(* Variant: a change of folder does not wait for the work in progress.     *)
Starting == {"goal", "resume", "reverify", "prepare", "login", "trial"}

NeedsIdle == {"goal", "resume", "workspace", "reverify", "prepare", "login", "trial"}
Awaits == {"goal", "workspace", "pause", "contributor", "trial", "diff"}
Kinds == NeedsIdle \cup Awaits \cup {"answer", "cancel", "approve"}

Work == [kind : {"goal", "verification", "preparation"}, folder : Folders]
Phases == {"open", "studios", "draining", "asking", "waiting", "closed", "dead"}

Facts(e, gs) ==
    [folder |-> e.workspace, busy |-> e.active # Nothing,
     goal |-> gs[e.workspace].state, version |-> gs[e.workspace].version]

UiInit ==
    /\ queue = <<>> /\ awaiting = FALSE /\ channel = <<>> /\ policy = {}
    /\ engine = [workspace |-> Home, active |-> Nothing, aborted |-> FALSE,
                 studio |-> FALSE, auth |-> "none", authAborted |-> FALSE,
                 timer |-> FALSE, last |-> Nothing, phase |-> "open", drain |-> 0]
    /\ goalOf \in [Folders -> [state : {"none", "PAUSED"}, request : {FALSE}, version : {0}]]
    /\ goalOf[Home].state = "PAUSED"
    /\ ui = [view |-> Facts(engine, goalOf), connected |-> TRUE, dialog |-> Nothing,
             consented |-> {}, quitting |-> FALSE]
    /\ script \in [kinds : UiInstances, left : {MaxIntents}]

-----------------------------------------------------------------------------
(* The engine.                                                             *)

Alive == engine.phase \notin {"closed", "dead"}

(* Variant: trials are not looked for.                                     *)
NoWork(e) == e.active = Nothing /\ e.auth = "none"

Idling(e) == ~e.studio /\ e.active = Nothing /\ e.auth = "none"

First == queue[1]

(* publish: a snapshot is sent if it differs from the last one sent.       *)
Publish(e, gs) ==
    LET s == Facts(e, gs) IN
    IF e.phase \in {"closed", "dead"} \/ s = e.last
    THEN engine' = e /\ UNCHANGED channel
    ELSE engine' = [e EXCEPT !.last = s] /\ channel' = Append(channel, s)

(* The intent is answered, and dispose waits for one less.                 *)
Finished(e) == [e EXCEPT !.drain = IF @ > 0 THEN @ - 1 ELSE 0]

Answered ==
    /\ queue' = Tail(queue)
    /\ awaiting' = FALSE

(* goal(id): the goal must be of the folder the engine is in.              *)
InScope(a) == a.folder = engine.workspace /\ goalOf[a.folder].state # "none"

(* Variant: the version of the plan is not compared.                       *)
RefusesScope(a) ==
    \/ a.kind \in NeedsIdle /\ ~Idling(engine)
    \/ a.kind \in {"resume", "pause", "reverify", "prepare", "diff", "approve"} /\ ~InScope(a)
    \/ a.kind = "reverify" /\ goalOf[a.folder].state # "PAUSED"
    \/ a.kind = "answer" /\ engine.auth # "prompt"

(* What perform refuses before its first await: a plan is approved in the  *)
(* version that was shown.                                                 *)
Refuses(a) ==
    \/ a.kind \in NeedsIdle /\ ~Idling(engine)
    \/ a.kind \in {"resume", "pause", "reverify", "prepare", "diff", "approve"} /\ ~InScope(a)
    \/ a.kind = "approve" /\ goalOf[a.folder].version # a.version
    \/ a.kind = "reverify" /\ goalOf[a.folder].state # "PAUSED"
    \/ a.kind = "answer" /\ engine.auth # "prompt"

Refuse ==
    /\ Alive /\ queue # <<>> /\ ~awaiting /\ Refuses(First)
    /\ Answered
    /\ Publish(Finished(engine), goalOf)
    /\ UNCHANGED <<goalOf, policy, ui, script>>

(* The first part of an intent with an await: checks, and for a pause the  *)
(* abort of manual work.                                                   *)
Enter ==
    /\ Alive /\ queue # <<>> /\ ~awaiting
    /\ First.kind \in Awaits /\ ~Refuses(First)
    /\ awaiting' = TRUE
    /\ engine' = [engine EXCEPT !.aborted = @ \/
           (First.kind = "pause" /\ engine.active # Nothing /\ engine.active.kind # "goal")]
    /\ UNCHANGED <<queue, goalOf, policy, channel, ui, script>>

(* start: a goal runs in this process until it pauses or ends; the         *)
(* orchestrator acknowledges an earlier request first.                     *)
GoalRuns(gs, f) == [gs EXCEPT ![f].state = "RUNNING", ![f].request = FALSE]

Active(e, kind, f) == [e EXCEPT !.active = [kind |-> kind, folder |-> f], !.aborted = FALSE]

(* Intents performed in one go.                                            *)
Perform ==
    /\ Alive /\ queue # <<>> /\ ~awaiting
    /\ First.kind \notin Awaits /\ ~Refuses(First)
    /\ Answered
    /\ goalOf' = IF First.kind = "resume" /\ goalOf[First.folder].state = "PAUSED"
                THEN GoalRuns(goalOf, First.folder) ELSE goalOf
    /\ LET e == Finished(engine) IN
       Publish(CASE First.kind = "resume" -> Active(e, "goal", First.folder)
                 [] First.kind = "reverify" -> Active(e, "verification", First.folder)
                 [] First.kind = "prepare" -> Active(e, "preparation", First.folder)
                 [] First.kind = "login" -> [e EXCEPT !.auth = "starting", !.authAborted = FALSE]
                 [] First.kind = "answer" -> [e EXCEPT !.auth = "saving"]
                 [] First.kind = "cancel" -> [e EXCEPT !.authAborted = e.auth # "none"]
                 [] First.kind = "approve" -> e,
               goalOf')
    /\ policy' = IF First.kind = "approve"
                 THEN policy \cup {<<First.folder, goalOf[First.folder].version>>} ELSE policy
    /\ UNCHANGED <<ui, script>>

(* controlGoal: while somebody holds the folder's lock a request is left,  *)
(* otherwise the goal is paused here.                                      *)
Controlled(gs, f) ==
    IF gs[f].state \in {"none", "DONE"} THEN gs
    ELSE IF engine.active # Nothing
         THEN [gs EXCEPT ![f].request = TRUE]
         ELSE [gs EXCEPT ![f].state = "PAUSED"]

(* The rest of an intent after its await, in the folder the engine is in   *)
(* now.  A goal checks again that nothing else started.                    *)
FinishIntent ==
    /\ Alive /\ awaiting
    /\ Answered
    /\ goalOf' = CASE First.kind = "pause" -> Controlled(goalOf, First.folder)
                  [] First.kind = "goal" /\ Idling(engine) -> GoalRuns(goalOf, engine.workspace)
                  [] OTHER -> goalOf
    /\ policy' = IF First.kind = "contributor" THEN policy \cup {<<engine.workspace>>} ELSE policy
    /\ LET e == Finished(engine) IN
       Publish(CASE First.kind = "goal" /\ Idling(e) -> Active(e, "goal", e.workspace)
                 [] First.kind = "trial" -> [e EXCEPT !.studio = TRUE]
                 [] First.kind = "workspace" -> [e EXCEPT !.workspace = First.folder]
                 [] OTHER -> e,
               goalOf')
    /\ UNCHANGED <<ui, script>>

(* The await of a folder change or a goal may fail: nothing happened.      *)
FinishFailed ==
    /\ Alive /\ awaiting /\ First.kind \in {"goal", "workspace", "diff"}
    /\ Answered
    /\ Publish(Finished(engine), goalOf)
    /\ UNCHANGED <<goalOf, policy, ui, script>>

(* Variant: no timer is armed.                                             *)
StoreChangeUnseen ==
    /\ Alive /\ engine.active # Nothing
    /\ goalOf[engine.active.folder].version < MaxChanges
    /\ goalOf' = [goalOf EXCEPT ![engine.active.folder].version = @ + 1]
    /\ UNCHANGED <<queue, awaiting, engine, policy, channel, ui, script>>

(* The active work changes the store: its notification arms a timer unless *)
(* one is armed, and the timer publishes.                                  *)
StoreChange ==
    /\ Alive /\ engine.active # Nothing
    /\ goalOf[engine.active.folder].version < MaxChanges
    /\ goalOf' = [goalOf EXCEPT ![engine.active.folder].version = @ + 1]
    /\ engine' = [engine EXCEPT !.timer = TRUE]
    /\ UNCHANGED <<queue, awaiting, policy, channel, ui, script>>

Wake ==
    /\ Alive /\ engine.timer
    /\ Publish([engine EXCEPT !.timer = FALSE], goalOf)
    /\ UNCHANGED <<queue, awaiting, goalOf, policy, ui, script>>

(* The active work ends: a goal on request or by itself, manual work by    *)
(* itself or aborted.                                                      *)
ActiveEnds ==
    /\ Alive /\ engine.active # Nothing
    /\ LET f == engine.active.folder IN
       goalOf' \in
           IF engine.active.kind # "goal" \/ goalOf[f].state # "RUNNING" THEN {goalOf}
           ELSE {[goalOf EXCEPT ![f].state = s, ![f].request = FALSE] :
                    s \in IF goalOf[f].request THEN {"PAUSED"} ELSE {"PAUSED", "DONE"}}
    /\ Publish([engine EXCEPT !.active = Nothing, !.aborted = FALSE], goalOf')
    /\ UNCHANGED <<queue, awaiting, policy, ui, script>>

StudioEnds ==
    /\ Alive /\ engine.studio
    /\ Publish([engine EXCEPT !.studio = FALSE], goalOf)
    /\ UNCHANGED <<queue, awaiting, goalOf, policy, ui, script>>

(* authenticate: the provider asks, the user answers or cancels.  A prompt *)
(* waits without limit; an abort rejects it.                               *)
AuthPrompts ==
    /\ Alive /\ engine.auth = "starting" /\ ~engine.authAborted
    /\ engine' = [engine EXCEPT !.auth = "prompt"]
    /\ UNCHANGED <<queue, awaiting, goalOf, policy, channel, ui, script>>

AuthEnds ==
    /\ Alive
    /\ \/ engine.auth \in {"starting", "saving"}
       \/ engine.auth = "prompt" /\ engine.authAborted
    /\ Publish([engine EXCEPT !.auth = "none", !.authAborted = FALSE], goalOf)
    /\ UNCHANGED <<queue, awaiting, goalOf, policy, ui, script>>

-----------------------------------------------------------------------------
(* dispose, in the order of its awaits: the trials, the intents that were  *)
(* queued, the active work.                                                *)

Shutdown ==
    /\ engine.phase = "open"
    /\ "late" \in UiWindows \/ \A i \in DOMAIN queue : queue[i].kind # "trial"
    /\ engine' = [engine EXCEPT !.phase = "studios"]
    /\ ui' = [ui EXCEPT !.quitting = TRUE]
    /\ UNCHANGED <<queue, awaiting, goalOf, policy, channel, script>>

StudiosClosed ==
    /\ engine.phase = "studios" /\ ~engine.studio
    /\ engine' = [engine EXCEPT !.phase = "draining", !.drain = Len(queue)]
    /\ UNCHANGED <<queue, awaiting, goalOf, policy, channel, ui, script>>

(* Variant: work is aborted and not waited for.                            *)
DrainedAtOnce ==
    /\ engine.phase = "draining" /\ engine.drain = 0
    /\ engine' = [engine EXCEPT !.aborted = engine.active # Nothing, !.phase = "closed"]
    /\ UNCHANGED <<queue, awaiting, goalOf, policy, channel, ui, script>>

(* Variant: nothing is aborted, only waited for.                           *)
DrainedOnly ==
    /\ engine.phase = "draining" /\ engine.drain = 0
    /\ engine' = [engine EXCEPT !.phase = IF engine.active = Nothing THEN "closed" ELSE "asking"]
    /\ UNCHANGED <<queue, awaiting, goalOf, policy, channel, ui, script>>

(* The queue is drained: abort the login and manual work, pause a goal, or *)
(* close at once.                                                          *)
Drained ==
    /\ engine.phase = "draining" /\ engine.drain = 0
    /\ engine' = [engine EXCEPT
           !.authAborted = engine.auth # "none",
           !.aborted = engine.active # Nothing /\ engine.active.kind # "goal",
           !.phase = IF engine.active = Nothing THEN "closed" ELSE "asking"]
    /\ UNCHANGED <<queue, awaiting, goalOf, policy, channel, ui, script>>

AskPause ==
    /\ engine.phase = "asking"
    /\ goalOf' = Controlled(goalOf, engine.workspace)
    /\ engine' = [engine EXCEPT !.phase = "waiting"]
    /\ UNCHANGED <<queue, awaiting, policy, channel, ui, script>>

Dispose ==
    /\ engine.phase = "waiting" /\ engine.active = Nothing
    /\ engine' = [engine EXCEPT !.phase = "closed"]
    /\ UNCHANGED <<queue, awaiting, goalOf, policy, channel, ui, script>>

EngineCrash ==
    /\ Alive /\ "crash" \in script.kinds
    /\ engine' = [engine EXCEPT !.phase = "dead", !.active = Nothing, !.studio = FALSE]
    /\ ui' = [ui EXCEPT !.connected = FALSE]
    /\ UNCHANGED <<queue, awaiting, goalOf, policy, channel, script>>

-----------------------------------------------------------------------------
(* The interface.                                                          *)

Receive ==
    /\ channel # <<>>
    /\ ui' = [ui EXCEPT !.view = Head(channel)]
    /\ channel' = Tail(channel)
    /\ UNCHANGED <<queue, awaiting, engine, goalOf, policy, script>>

(* A folder change was asked for and the snapshot that shows it has not    *)
(* arrived.                                                                *)
FolderInFlight ==
    \/ \E i \in DOMAIN queue : queue[i].kind = "workspace"
    \/ ui.view.folder # engine.workspace

MayType ==
    /\ ui.connected /\ script.left > 0
    /\ ~ui.quitting \/ "late" \in UiWindows
    /\ engine.phase \notin {"closed", "dead"}

(* Variant: the last intent goes first.                                    *)
DispatchedFirst(a) ==
    /\ queue' = IF Len(queue) > 1 THEN <<queue[1], a>> \o Tail(queue) ELSE Append(queue, a)
    /\ script' = [script EXCEPT !.left = @ - 1]

Dispatched(a) ==
    /\ queue' = Append(queue, a)
    /\ script' = [script EXCEPT !.left = @ - 1]

(* Intents the interface sends at once, about the goal and folder shown.   *)
Send(kind) ==
    /\ MayType /\ kind \in script.kinds \ {"contributor", "workspace"} /\ kind \in Kinds
    /\ ui.dialog = Nothing
    /\ Dispatched([kind |-> kind, folder |-> ui.view.folder, version |-> ui.view.version])
    /\ ui' = [ui EXCEPT !.consented = IF kind = "approve"
                  THEN @ \cup {<<ui.view.folder, ui.view.version>>} ELSE @]
    /\ UNCHANGED <<awaiting, engine, goalOf, policy, channel>>

ChooseFolder(f) ==
    /\ MayType /\ "workspace" \in script.kinds /\ ui.dialog = Nothing
    /\ f # ui.view.folder
    /\ Dispatched([kind |-> "workspace", folder |-> f, version |-> 0])
    /\ UNCHANGED <<awaiting, engine, goalOf, policy, channel, ui>>

(* requestContributor shows the folder; the phrase confirms that text.     *)
OpenDialog ==
    /\ MayType /\ "contributor" \in script.kinds /\ ui.dialog = Nothing
    /\ "folder" \in UiWindows \/ ~FolderInFlight
    /\ ui' = [ui EXCEPT !.dialog = ui.view.folder]
    /\ UNCHANGED <<queue, awaiting, engine, goalOf, policy, channel, script>>

Confirm ==
    /\ MayType /\ ui.dialog # Nothing
    /\ Dispatched([kind |-> "contributor", folder |-> ui.dialog, version |-> 0])
    /\ ui' = [ui EXCEPT !.consented = @ \cup {<<ui.dialog>>}, !.dialog = Nothing]
    /\ UNCHANGED <<awaiting, engine, goalOf, policy, channel>>

CancelDialog ==
    /\ ui.dialog # Nothing
    /\ ui' = [ui EXCEPT !.dialog = Nothing]
    /\ UNCHANGED <<queue, awaiting, engine, goalOf, policy, channel, script>>

EngineStep ==
    \/ Refuse \/ Enter \/ Perform \/ FinishIntent \/ FinishFailed
    \/ Wake \/ StudiosClosed \/ Drained \/ AskPause \/ Dispose

UiNext ==
    \/ EngineStep \/ StoreChange \/ ActiveEnds \/ StudioEnds \/ AuthPrompts \/ AuthEnds
    \/ Shutdown \/ EngineCrash
    \/ Receive \/ OpenDialog \/ Confirm \/ CancelDialog
    \/ \E k \in Kinds : Send(k)
    \/ \E f \in Folders : ChooseFolder(f)

(* Work was asked to stop: a request to pause, or the abort of its signal. *)
Asked ==
    /\ engine.active # Nothing
    /\ LET g == goalOf[engine.active.folder] IN
       IF engine.active.kind = "goal" THEN g.request \/ g.state # "RUNNING" ELSE engine.aborted

(* The engine performs what it has, work that was asked to stop stops, a   *)
(* trial ends in its time, messages arrive.  The user and a login that     *)
(* waits for them owe nothing.                                             *)
UiFairness ==
    /\ WF_uiVars(EngineStep) /\ WF_uiVars(Receive)
    /\ WF_uiVars(Asked /\ ActiveEnds) /\ WF_uiVars(StudioEnds)

UiSpec == UiInit /\ [][UiNext]_uiVars /\ UiFairness

-----------------------------------------------------------------------------
(* Types of the engine's fields, the queue and what is shown.              *)
UiTypeOK ==
    /\ Len(queue) <= MaxIntents
    /\ \A i \in DOMAIN queue : queue[i].kind \in Kinds /\ queue[i].folder \in Folders
    /\ engine.active \in Work \cup {Nothing} /\ engine.phase \in Phases
    /\ engine.auth \in {"none", "starting", "prompt", "saving"}
    /\ policy \subseteq Seq(Folders \cup 0..MaxChanges)
    /\ ui.view.folder \in Folders /\ ui.dialog \in Folders \cup {Nothing}
    /\ awaiting => queue # <<>>

(* One thing at a time: a goal, manual work, a trial and a login exclude   *)
(* each other although each was admitted by an intent that awaited after   *)
(* its check (idle, and the queue of dispatch).                            *)
OneActivity ==
    /\ engine.active # Nothing => ~engine.studio /\ engine.auth = "none"
    /\ engine.studio => engine.auth = "none"

(* The work in progress belongs to the folder the engine is in, so that    *)
(* pause, and the pause of dispose, find its goal (context, GOAL_SCOPE).   *)
ActiveInFolder == engine.active # Nothing => engine.active.folder = engine.workspace

(* Consent is recorded for folders the user confirmed on screen, and plans *)
(* are approved in the version the user saw, although intents wait in a    *)
(* queue and the plan and the folder change (requestContributor shows the  *)
(* folder and its intent does not carry it; approve carries a hash).       *)
ConsentAsShown == policy \subseteq ui.consented

(* A closed engine leaves nothing running: no goal, no manual work, no     *)
(* trial (dispose).                                                        *)
ClosedMeansStopped ==
    engine.phase = "closed" => engine.active = Nothing /\ ~engine.studio

(* At most one activity, in the folder of the engine, and none once it is  *)
(* closed.                                                                 *)
EngineInv == OneActivity /\ ActiveInFolder /\ ClosedMeansStopped

(* While the engine lives, the interface catches up with it: what is shown *)
(* is in the end what is the case (wake, publish and its comparison).      *)
ViewConverges ==
    <>[](engine.phase = "open" /\ engine.auth = "none") => <>[](ui.view = Facts(engine, goalOf))

(* A shutdown ends although a goal, manual work, a trial, a login or       *)
(* intents were in progress (dispose).                                     *)
ShutdownEnds == engine.phase # "open" ~> ~Alive
=============================================================================
