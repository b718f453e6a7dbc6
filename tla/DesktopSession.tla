--------------------------- MODULE DesktopSession ---------------------------
(***************************************************************************)
(* Control of one Windows window by an agent (integrations/desktop/        *)
(* session.ts, integrations/native-process.ts).  The user grants a window  *)
(* that was shown; before every native command the session looks for the   *)
(* stop file, the expiry and the identity of the window.  A watcher, a     *)
(* process of its own, aborts the session when the control is withdrawn.   *)
(*                                                                         *)
(* A native command is a child process: aborted or late it is sent         *)
(* SIGTERM, SIGKILL after a second, and after five the call gives up       *)
(* without knowing whether the child is gone.                              *)
(***************************************************************************)
EXTENDS Integers, Sequences, FiniteSets

CONSTANTS
    Windows,        \* windows that may come to have the granted handle
    NoWindow,         \* null
    MaxDesktopCalls,       \* bound: calls of the agent
    MaxDesktopActions   \* the limit of the grant

VARIABLES
    window,     \* the window behind the handle
    grant,      \* the window shown, granted; expiry and stop file
    desktop,    \* the session: steps to do, flags, actions
    watcher,    \* its watcher
    native,     \* the child it waits for: command and state
    strays,     \* children nobody waits for any more
    late        \* actions begun after the control was withdrawn

desktopVars == <<window, grant, desktop, watcher, native, strays, late>>

ASSUME DesktopAssumption ==
    NoWindow \notin Windows /\ MaxDesktopCalls \in Nat /\ MaxDesktopActions \in Nat

NoChild == [command |-> "none", state |-> "none"]
Commands == {"version", "inspect", "password", "act"}
DesktopSteps == Commands \cup {"file", "window", "watch", "limit", "observed"}

DesktopInit ==
    /\ window \in Windows
    /\ grant = [shown |-> NoWindow, of |-> NoWindow, expired |-> FALSE, stop |-> FALSE]
    /\ desktop = [todo |-> <<>>, started |-> FALSE, aborted |-> FALSE, stopped |-> FALSE,
                  actions |-> 0, snapshot |-> FALSE, calls |-> 0, unconfirmed |-> 0]
    /\ watcher = "off" /\ native = NoChild /\ strays = 0 /\ late = 0

(* The control is withdrawn: stopped, expired, or the window is another.   *)
Withdrawn == grant.stop \/ grant.expired \/ window # grant.of

-----------------------------------------------------------------------------
(* The user: list, bind what was shown, revoke.                            *)

ListWindows ==
    /\ grant.of = NoWindow
    /\ grant' = [grant EXCEPT !.shown = window]
    /\ UNCHANGED <<window, desktop, watcher, native, strays, late>>

Bind ==
    /\ grant.of = NoWindow /\ grant.shown = window
    /\ grant' = [grant EXCEPT !.of = window]
    /\ UNCHANGED <<window, desktop, watcher, native, strays, late>>

Revoke ==
    /\ grant.of # NoWindow /\ ~grant.stop
    /\ grant' = [grant EXCEPT !.stop = TRUE]
    /\ UNCHANGED <<window, desktop, watcher, native, strays, late>>

GrantExpires ==
    /\ grant.of # NoWindow /\ ~grant.expired
    /\ grant' = [grant EXCEPT !.expired = TRUE]
    /\ UNCHANGED <<window, desktop, watcher, native, strays, late>>

WindowReplaced ==
    /\ window = grant.shown
    /\ \E w \in Windows \ {window} : window' = w
    /\ UNCHANGED <<grant, desktop, watcher, native, strays, late>>

-----------------------------------------------------------------------------
(* The session.  A call is a sequence of steps, each awaited: check() is a *)
(* look at the file system and a question to the guard.                    *)

CheckSteps == <<"file", "window">>
Winapp(command) == CheckSteps \o <<command>>

StartSteps == CheckSteps \o <<"version", "watch">>
ObserveSteps == CheckSteps \o Winapp("inspect") \o <<"observed">>
ActSteps == CheckSteps \o <<"limit">> \o Winapp("inspect") \o <<"password">>
            \o Winapp("act") \o Winapp("inspect") \o <<"observed">>

Failed == desktop' = [desktop EXCEPT !.todo = <<>>]
Passed == desktop' = [desktop EXCEPT !.todo = Tail(@)]

CallDesktop ==
    /\ grant.of # NoWindow /\ desktop.todo = <<>> /\ ~desktop.stopped /\ desktop.calls < MaxDesktopCalls
    /\ \E steps \in {ObserveSteps, ActSteps} :
           desktop' = [desktop EXCEPT !.calls = @ + 1,
               !.todo = (IF desktop.started THEN <<>> ELSE StartSteps) \o steps]
    /\ UNCHANGED <<window, grant, watcher, native, strays, late>>

(* Variant: the stop file is not looked at.                                *)
CheckFileByTime ==
    /\ desktop.todo # <<>> /\ Head(desktop.todo) = "file"
    /\ IF desktop.aborted \/ grant.expired THEN Failed ELSE Passed
    /\ UNCHANGED <<window, grant, watcher, native, strays, late>>

CheckFile ==
    /\ desktop.todo # <<>> /\ Head(desktop.todo) = "file"
    /\ IF desktop.aborted \/ grant.expired \/ grant.stop THEN Failed ELSE Passed
    /\ UNCHANGED <<window, grant, watcher, native, strays, late>>

CheckWindow ==
    /\ desktop.todo # <<>> /\ Head(desktop.todo) = "window"
    /\ IF desktop.aborted \/ window # grant.of THEN Failed ELSE Passed
    /\ UNCHANGED <<window, grant, watcher, native, strays, late>>

(* The limit counts before the snapshot is found stale.                    *)
CheckLimit ==
    /\ desktop.todo # <<>> /\ Head(desktop.todo) = "limit"
    /\ IF desktop.actions >= MaxDesktopActions \/ ~desktop.snapshot
       THEN desktop' = [desktop EXCEPT !.todo = <<>>,
                !.actions = IF @ < MaxDesktopActions THEN @ + 1 ELSE @]
       ELSE desktop' = [desktop EXCEPT !.todo = Tail(@), !.actions = @ + 1]
    /\ UNCHANGED <<window, grant, watcher, native, strays, late>>

Observed ==
    /\ desktop.todo # <<>> /\ Head(desktop.todo) = "observed"
    /\ desktop' = [desktop EXCEPT !.todo = Tail(@), !.snapshot = TRUE]
    /\ UNCHANGED <<window, grant, watcher, native, strays, late>>

(* Ninety seconds after an observation it is stale.                        *)
SnapshotAges ==
    /\ desktop.snapshot
    /\ desktop' = [desktop EXCEPT !.snapshot = FALSE]
    /\ UNCHANGED <<window, grant, watcher, native, strays, late>>

-----------------------------------------------------------------------------
(* The watcher, during start and after.                                    *)

StartWatcher ==
    /\ desktop.todo # <<>> /\ Head(desktop.todo) = "watch" /\ watcher = "off"
    /\ watcher' = "starting"
    /\ UNCHANGED <<window, grant, desktop, native, strays, late>>

WatcherReady ==
    /\ watcher = "starting"
    /\ watcher' = "ready"
    /\ desktop' = [desktop EXCEPT !.todo = IF @ = <<>> THEN @ ELSE Tail(@), !.started = TRUE]
    /\ UNCHANGED <<window, grant, native, strays, late>>

(* The desktop is another agent's, the hot key is taken, five seconds      *)
(* pass, or it dies: whatever the reason the session is over.              *)
WatcherEnds ==
    /\ watcher \in {"starting", "ready"}
    /\ watcher' = "gone"
    /\ desktop' = [desktop EXCEPT !.aborted = TRUE,
           !.todo = IF watcher = "starting" THEN <<>> ELSE @]
    /\ UNCHANGED <<window, grant, native, strays, late>>

-----------------------------------------------------------------------------
(* nativeProcess.                                                          *)

Spawn ==
    /\ desktop.todo # <<>> /\ Head(desktop.todo) \in Commands /\ native = NoChild
    /\ IF desktop.aborted
       THEN Failed /\ UNCHANGED <<native, late>>
       ELSE /\ native' = [command |-> Head(desktop.todo), state |-> "running"]
            /\ late' = late + (IF Head(desktop.todo) = "act" /\ Withdrawn THEN 1 ELSE 0)
            /\ UNCHANGED desktop
    /\ UNCHANGED <<window, grant, watcher, strays>>

(* stop: the signal, the thirty seconds or the output limit.               *)
StopChild ==
    /\ native.state = "running"
    /\ native' = [native EXCEPT !.state = "stopping"]
    /\ UNCHANGED <<window, grant, desktop, watcher, strays, late>>

(* The child closes: its result, or the failure that stopped it.           *)
ChildCloses ==
    /\ native # NoChild
    /\ native' = NoChild
    /\ \/ native.state = "running" /\ Passed
       \/ Failed
    /\ UNCHANGED <<window, grant, watcher, strays, late>>

(* Variant: the call waits until the child is gone.                        *)
StopOnly ==
    /\ native.state = "stopping"
    /\ native' = [native EXCEPT !.state = "killed"]
    /\ UNCHANGED <<window, grant, desktop, watcher, strays, late>>

(* Variant: the call does not say that the end was not confirmed.          *)
RejectAtOnce ==
    /\ native.state = "stopping"
    /\ native' = NoChild /\ strays' = strays + 1
    /\ desktop' = [desktop EXCEPT !.todo = <<>>]
    /\ UNCHANGED <<window, grant, watcher, late>>

(* Five seconds after stop: rejected although the child may be alive.      *)
StopUnconfirmed ==
    /\ native.state = "stopping"
    /\ native' = NoChild /\ strays' = strays + 1
    /\ desktop' = [desktop EXCEPT !.todo = <<>>, !.unconfirmed = @ + 1]
    /\ UNCHANGED <<window, grant, watcher, late>>

StrayEnds ==
    /\ strays > 0 /\ strays' = strays - 1
    /\ UNCHANGED <<window, grant, desktop, watcher, native, late>>

(* close(), at the end of the agent's session.                             *)
CloseDesktop ==
    /\ grant.of # NoWindow /\ ~desktop.stopped
    /\ desktop' = [desktop EXCEPT !.stopped = TRUE, !.aborted = TRUE,
           !.todo = IF watcher = "starting" THEN <<>> ELSE @]
    /\ watcher' = IF watcher = "off" THEN watcher ELSE "gone"
    /\ UNCHANGED <<window, grant, native, strays, late>>

DesktopStep ==
    \/ CheckFile \/ CheckWindow \/ CheckLimit \/ Observed \/ StartWatcher \/ Spawn
    \/ StopUnconfirmed

DesktopNext ==
    \/ DesktopStep
    \/ ListWindows \/ Bind \/ Revoke \/ GrantExpires \/ WindowReplaced
    \/ CallDesktop \/ SnapshotAges \/ WatcherReady \/ WatcherEnds
    \/ StopChild \/ ChildCloses \/ StrayEnds \/ CloseDesktop

(* The steps of the session, and its timers: thirty seconds for a child,   *)
(* five for one that was stopped and for the watcher.  A child and the     *)
(* watcher themselves may hang.                                            *)
DesktopFairness ==
    /\ WF_desktopVars(DesktopStep)
    /\ WF_desktopVars(StopChild)
    /\ WF_desktopVars(watcher = "starting" /\ WatcherEnds)

DesktopSpec == DesktopInit /\ [][DesktopNext]_desktopVars /\ DesktopFairness

-----------------------------------------------------------------------------
Desktops ==
    [todo : Seq(DesktopSteps), started : BOOLEAN, aborted : BOOLEAN, stopped : BOOLEAN,
     actions : 0..MaxDesktopActions, snapshot : BOOLEAN,
     calls : 0..MaxDesktopCalls, unconfirmed : Nat]

DesktopTypeOK ==
    /\ window \in Windows
    /\ grant \in [shown : Windows \cup {NoWindow}, of : Windows \cup {NoWindow},
                  expired : BOOLEAN, stop : BOOLEAN]
    /\ desktop \in Desktops
    /\ watcher \in {"off", "starting", "ready", "gone"}
    /\ native \in [command : Commands \cup {"none"}, state : {"none", "running", "stopping"}]
    /\ strays \in Nat /\ late \in Nat

(* Once the control is withdrawn, by the stop file, the expiry or another  *)
(* window under the same handle, at most the action whose checks had       *)
(* passed begins (DesktopSession.check before every command).              *)
AtMostOneLateAction == late <= 1

(* A child process is awaited, or the call that left it said that its end  *)
(* was not confirmed (nativeProcess).                                      *)
ChildrenAccounted == strays <= desktop.unconfirmed

(* Control of a window is withdrawn in time, and its processes are known.  *)
ControlInv == AtMostOneLateAction /\ ChildrenAccounted

(* Every call ends, although a child or the watcher hangs.                 *)
DesktopCallEnds == desktop.todo # <<>> ~> desktop.todo = <<>>

-----------------------------------------------------------------------------
(* The inductive invariant behind ControlInv.                              *)

(* Both checks come right before every action.                             *)
Guarded(steps) ==
    \A i \in 1..Len(steps) :
        steps[i] = "act" => i >= 3 /\ steps[i - 1] = "window" /\ steps[i - 2] = "file"

(* The same of what is left of a call.                                     *)
GuardedRest(steps) ==
    \A i \in 1..Len(steps) :
        steps[i] = "act" =>
            /\ i >= 2 => steps[i - 1] = "window"
            /\ i >= 3 => steps[i - 2] = "file"

(* Somebody is at the first step: a child, or the watcher that starts.     *)
AtFirstStep ==
    /\ native # NoChild =>
           /\ native.command \in Commands /\ native.state # "none"
           /\ desktop.todo # <<>> /\ Head(desktop.todo) = native.command
    /\ watcher = "starting" => desktop.todo # <<>> /\ Head(desktop.todo) = "watch"

(* Calls are of a granted window, which was the one shown.                 *)
OfGrant ==
    /\ desktop.todo # <<>> => grant.of # NoWindow
    /\ grant.of # NoWindow => grant.of = grant.shown

(* After a late action the checks no longer pass up to another.            *)
NoneAfterLate ==
    /\ late \in {0, 1}
    /\ late = 1 =>
           /\ grant.of # NoWindow /\ Withdrawn
           /\ desktop.todo # <<>> /\ Head(desktop.todo) = "act" => native # NoChild
           /\ Len(desktop.todo) >= 2 /\ desktop.todo[2] = "act" => window # grant.of

DesktopIInv ==
    /\ DesktopTypeOK /\ GuardedRest(desktop.todo)
    /\ AtFirstStep /\ OfGrant /\ NoneAfterLate /\ ChildrenAccounted
=============================================================================
