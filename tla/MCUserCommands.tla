--------------------------- MODULE MCUserCommands ---------------------------
(***************************************************************************)
(* Two separate instances in one run: processes that issue commands on the *)
(* goals of one checkout, and a user at the terminal interface.            *)
(***************************************************************************)
EXTENDS GoalCommands, Presentation

VARIABLE which      \* the instance this behaviour is about

MCUiInstances ==
    {{"goal", "pause", "trial", "resume"}, {"workspace", "contributor", "goal"},
     {"reverify", "pause", "workspace", "diff"}, {"login", "answer", "cancel", "prepare", "crash"},
     {"approve", "resume", "workspace"}}

MCInit ==
    /\ which \in {"commands", "interface"}
    /\ Init /\ UiInit
    /\ which = "commands" =>
           script.kinds = {"goal", "pause", "trial", "resume"} /\ \A f \in Folders : goalOf[f].state = "PAUSED"

MCNext ==
    /\ UNCHANGED which
    /\ \/ which = "commands" /\ Next /\ UNCHANGED uiVars
       \/ which = "interface" /\ UiNext /\ UNCHANGED vars

MCSpec == MCInit /\ [][MCNext]_<<which, vars, uiVars>>

(* No fair step is enabled in an instance that is not under way.           *)
MCFairSpec == MCSpec /\ CommandFairness /\ UiFairness

(* The commands alone.                                                     *)
MCCommandsSpec == which = "commands" /\ MCSpec

(* The variables of both instances keep their types.                       *)
UserCommandsTypeOK == TypeOK /\ UiTypeOK

(* A stop asked for frees the workspace, and a shutdown ends (the timer of *)
(* run, dispose).                                                          *)
StopsEnd == StopReleasesLock /\ ShutdownEnds
=============================================================================
