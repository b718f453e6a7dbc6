--------------------------- MODULE BrowserSandbox ---------------------------
(***************************************************************************)
(* The Docker resources of an agent's browser (integrations/browser/       *)
(* sandbox.ts): a network, the application and the browser.  Each is       *)
(* recorded in the shared registry before it is created, and its record is *)
(* deleted once the daemon says it is gone.  The record is what a later    *)
(* process has to find what a dead one left.                               *)
(*                                                                         *)
(* Opening and closing are tool calls of a session, one at a time; the end *)
(* of the session closes the browser beside them (agent-session.ts).  The  *)
(* daemon may be down, and processes crash.                                *)
(***************************************************************************)
EXTENDS Integers, Sequences, SequencesExt

CONSTANTS
    Browsers, BrowserProcess(_),    \* browsers of sessions, their processes
    Rescuers,           \* processes that run recover-browser
    MaxOpens,           \* bound of the opens of a browser
    BrowserBudgets,     \* opens of each browser, outages, crashes of an instance
    BrowserWindows      \* what may go wrong besides: {"late", "slow", "same"}

ASSUME BrowserAssumption ==
    /\ MaxOpens \in Nat
    /\ BrowserBudgets \subseteq [opens : [Browsers -> 0..MaxOpens], outages : Nat, crashes : Nat]

VARIABLES
    records,    \* resources in the registry
    docker,     \* up, what exists, what was requested, outages to come
    browsers,   \* per browser: the call in progress, what it owns
    rescues,    \* per rescuer: the resources it has still to look at
    processes   \* those alive, crashes to come

browserVars == <<records, docker, browsers, rescues, processes>>

Kinds == {"network", "app", "browser"}
Resource(b, kind) == [of |-> b, kind |-> kind, open |-> browsers[b].opens]
Resources == [of : Browsers, kind : Kinds, open : 1..MaxOpens]

(* pc: of the tool call in progress.  loop: who runs the loop of close(),  *)
(* over todo.  closing: the flag of the same name.                         *)
NewBrowser(left) ==
    [pc |-> "idle", opens |-> 0, left |-> left, next |-> "network", owned |-> <<>>, closing |-> FALSE,
     loop |-> "none", todo |-> <<>>, session |-> "open",
     failed |-> FALSE, reported |-> FALSE]

BrowserInit ==
    /\ records = {} /\ rescues = [p \in Rescuers |-> {}]
    /\ \E budget \in BrowserBudgets :
           /\ docker = [up |-> TRUE, exists |-> {}, requested |-> {}, outages |-> budget.outages]
           /\ browsers = [b \in Browsers |-> NewBrowser(budget.opens[b])]
           /\ processes = [alive |-> {BrowserProcess(b) : b \in Browsers} \cup Rescuers,
                           crashes |-> budget.crashes]

Here(b) == BrowserProcess(b) \in processes.alive

Set(b, s) == browsers' = [browsers EXCEPT ![b] = s]

-----------------------------------------------------------------------------
(* close(): refused while the flag is set, otherwise over what is owned,   *)
(* the last first.                                                         *)

Looping(s, who) == [s EXCEPT !.closing = TRUE, !.loop = who, !.todo = Reverse(s.owned)]

(* What follows the loop: the rest of open, its error, or the answer.      *)
After(s, failed) ==
    LET done == [s EXCEPT !.loop = "none", !.todo = <<>>,
                          !.owned = IF failed THEN @ ELSE <<>>,
                          !.failed = @ \/ failed] IN
    CASE s.loop = "end" -> [done EXCEPT !.session = "draining", !.reported = failed]
      [] s.loop = "open" /\ ~failed -> [done EXCEPT !.pc = "prepare", !.closing = FALSE]
      [] OTHER -> [done EXCEPT !.pc = "idle"]

(* inspect, rm, and the record.  A resource that is not there, or that     *)
(* docker does not show in time, is taken for removed.                     *)
Removed(r) ==
    \E seen \in IF "slow" \in BrowserWindows THEN BOOLEAN ELSE {TRUE} :
        /\ docker' = [docker EXCEPT !.exists = IF seen THEN @ \ {r} ELSE @]
        /\ records' = records \ {r}

CloseOne(b) ==
    LET s == browsers[b] IN
    /\ Here(b) /\ s.todo # <<>>
    /\ IF Head(s.todo) \notin records
       THEN Set(b, [s EXCEPT !.todo = Tail(@)]) /\ UNCHANGED <<records, docker>>
       ELSE IF docker.up
       THEN Set(b, [s EXCEPT !.todo = Tail(@)]) /\ Removed(Head(s.todo))
       ELSE Set(b, After(s, TRUE)) /\ UNCHANGED <<records, docker>>
    /\ UNCHANGED <<rescues, processes>>

CloseDone(b) ==
    LET s == browsers[b] IN
    /\ Here(b) /\ s.loop # "none" /\ s.todo = <<>>
    /\ Set(b, After(s, FALSE))
    /\ UNCHANGED <<records, docker, rescues, processes>>

-----------------------------------------------------------------------------
(* open().                                                                 *)

CallOpen(b) ==
    LET s == browsers[b] IN
    /\ Here(b) /\ s.session = "open" /\ s.pc \in {"idle", "ready"} /\ s.left > 0
    /\ Set(b, IF s.closing
              THEN [s EXCEPT !.left = @ - 1, !.closing = FALSE, !.pc = "prepare"]
              ELSE [Looping(s, "open") EXCEPT !.left = @ - 1, !.pc = "closing"])
    /\ UNCHANGED <<records, docker, rescues, processes>>

(* The daemon's version, the images, the snapshot of the workspace.  An    *)
(* ended session has aborted the signal.                                   *)
Prepare(b) ==
    LET s == browsers[b] IN
    /\ Here(b) /\ s.pc = "prepare"
    /\ \/ s.session = "open" /\ docker.up
          /\ Set(b, [s EXCEPT !.pc = "claim", !.next = "network", !.opens = @ + 1])
       \/ Set(b, [s EXCEPT !.pc = "idle"])
    /\ UNCHANGED <<records, docker, rescues, processes>>

(* The commands of b in progress are killed; docker may have heard them.   *)
Killed(b) == IF "late" \in BrowserWindows THEN docker.requested
             ELSE {r \in docker.requested : r.of # b}

(* Variant: the resource is created before it is on record.                *)
CreateUnrecorded(b) ==
    LET s == browsers[b]
        r == Resource(b, s.next) IN
    /\ Here(b) /\ s.pc = "claim"
    /\ docker' = [docker EXCEPT !.requested = IF s.session = "open" THEN @ \cup {r} ELSE @]
    /\ Set(b, [s EXCEPT !.pc = "creating", !.owned = Append(@, r)])
    /\ UNCHANGED <<records, rescues, processes>>

(* claim, and the command that creates the resource; one that starts with  *)
(* an aborted signal is killed at once.                                    *)
ClaimResource(b) ==
    LET s == browsers[b]
        r == Resource(b, s.next) IN
    /\ Here(b) /\ s.pc = "claim"
    /\ records' = records \cup {r}
    /\ docker' = [docker EXCEPT !.requested = IF s.session = "open" THEN @ \cup {r} ELSE @]
    /\ Set(b, [s EXCEPT !.pc = "creating", !.owned = Append(@, r)])
    /\ UNCHANGED <<rescues, processes>>

(* The command answers: it created the resource.                           *)
Created(b) ==
    LET s == browsers[b] IN
    /\ Here(b) /\ s.pc = "creating" /\ s.session = "open"
    /\ Resource(b, s.next) \in docker.exists
    /\ Set(b, IF s.next = "browser" THEN [s EXCEPT !.pc = "ready"]
              ELSE [s EXCEPT !.pc = "claim", !.next = IF @ = "network" THEN "app" ELSE "browser"])
    /\ UNCHANGED <<records, docker, rescues, processes>>

(* It fails, in time or because the signal was aborted: the catch of open  *)
(* closes what there is, unless the end of the session is closing already. *)
OpenFails(b) ==
    LET s == browsers[b] IN
    /\ Here(b) /\ s.pc = "creating"
    /\ docker' = [docker EXCEPT !.requested = Killed(b)]
    /\ Set(b, IF s.closing THEN [s EXCEPT !.pc = "idle"]
              ELSE [Looping(s, "catch") EXCEPT !.pc = "closing"])
    /\ UNCHANGED <<records, rescues, processes>>

(* browser_close.                                                          *)
CallClose(b) ==
    LET s == browsers[b] IN
    /\ Here(b) /\ s.session = "open" /\ s.pc \in {"idle", "ready"} /\ s.opens > 0
    /\ ~s.closing
    /\ Set(b, [Looping(s, "call") EXCEPT !.pc = "closing"])
    /\ UNCHANGED <<records, docker, rescues, processes>>

(* AgentIntegrations.close: abort, close the browser, wait for the calls.  *)
(* A browser whose close failed before says at once that it is closed.     *)
EndSession(b) ==
    LET s == browsers[b] IN
    /\ Here(b) /\ s.session = "open"
    /\ docker' = [docker EXCEPT !.requested = Killed(b)]
    /\ Set(b, IF s.closing THEN [s EXCEPT !.session = "draining"]
              ELSE [Looping(s, "end") EXCEPT !.session = "closing"])
    /\ UNCHANGED <<records, rescues, processes>>

SessionClosed(b) ==
    LET s == browsers[b] IN
    /\ Here(b) /\ s.session = "draining" /\ s.pc \in {"idle", "ready"} /\ s.loop = "none"
    /\ Set(b, [s EXCEPT !.session = "closed"])
    /\ UNCHANGED <<records, docker, rescues, processes>>

-----------------------------------------------------------------------------
(* recoverBrowserResources: records of dead processes and of its own, the  *)
(* containers first.                                                       *)

Mine(p) == {r \in records : BrowserProcess(r.of) \notin processes.alive \ {p}}

Rescue(p) ==
    /\ p \in processes.alive /\ rescues[p] = {} /\ Mine(p) # {}
    /\ "same" \in BrowserWindows
       \/ \A b \in Browsers : BrowserProcess(b) = p => browsers[b].session = "closed"
    /\ rescues' = [rescues EXCEPT ![p] = Mine(p)]
    /\ UNCHANGED <<records, docker, browsers, processes>>

RescueOne(p) ==
    /\ p \in processes.alive
    /\ \E r \in rescues[p] :
          /\ r.kind = "network" => \A x \in rescues[p] : x.kind = "network"
          /\ IF docker.up
             THEN Removed(r) /\ rescues' = [rescues EXCEPT ![p] = @ \ {r}]
             ELSE rescues' = [rescues EXCEPT ![p] = {}] /\ UNCHANGED <<records, docker>>
    /\ UNCHANGED <<browsers, processes>>

-----------------------------------------------------------------------------
(* Outside.                                                                *)

DaemonCreates(r) ==
    /\ docker.up
    /\ docker' = [docker EXCEPT !.requested = @ \ {r}, !.exists = @ \cup {r}]
    /\ UNCHANGED <<records, browsers, rescues, processes>>

Outage ==
    /\ docker.up => docker.outages > 0
    /\ docker' = [docker EXCEPT !.up = ~@, !.outages = IF docker.up THEN @ - 1 ELSE @]
    /\ UNCHANGED <<records, browsers, rescues, processes>>

KillProcess(p) ==
    /\ p \in processes.alive /\ processes.crashes > 0
    /\ processes' = [alive |-> processes.alive \ {p}, crashes |-> processes.crashes - 1]
    /\ docker' = [docker EXCEPT !.requested = IF "late" \in BrowserWindows THEN @
                      ELSE {r \in @ : BrowserProcess(r.of) # p}]
    /\ UNCHANGED <<records, browsers, rescues>>

BrowserStep(b) ==
    \/ CloseOne(b) \/ CloseDone(b) \/ Prepare(b) \/ ClaimResource(b) \/ Created(b) \/ OpenFails(b)
    \/ SessionClosed(b)

BrowserNext ==
    \/ \E b \in Browsers : BrowserStep(b) \/ CallOpen(b) \/ CallClose(b) \/ EndSession(b)
    \/ \E p \in Rescuers : Rescue(p) \/ RescueOne(p)
    \/ \E r \in docker.requested : DaemonCreates(r)
    \/ \E p \in processes.alive : KillProcess(p)
    \/ Outage

BrowserSpec == BrowserInit /\ [][BrowserNext]_browserVars

-----------------------------------------------------------------------------
BrowserTypeOK ==
    /\ records \subseteq Resources /\ docker.exists \subseteq Resources
    /\ \A b \in Browsers : Range(browsers[b].owned) \subseteq Resources
    /\ \A b \in Browsers : browsers[b].loop # "none" => browsers[b].closing

(* Whatever exists in the daemon has a record, so that somebody can find   *)
(* it: through failures in the middle of open, an end of the session       *)
(* beside it, crashes and recovery (claim before create, removeResource    *)
(* after rm).                                                              *)
NothingForgotten == docker.exists \subseteq records

(* A session that closed without any failure of its cleanup has left       *)
(* nothing in the daemon, although its end and its calls close the same    *)
(* browser, and each returns at once while the other is at it              *)
(* (BrowserSandbox.close).                                                 *)
CleanCloseLeavesNothing ==
    \A b \in Browsers :
        Here(b) /\ browsers[b].session = "closed" /\ ~browsers[b].failed
            => ~\E r \in docker.exists : r.of = b

(* A session that closed and left something in the daemon has recorded     *)
(* that its cleanup is pending (AgentIntegrations.close).                  *)
PendingCleanupReported ==
    \A b \in Browsers :
        Here(b) /\ browsers[b].session = "closed" /\ ~browsers[b].reported
            => ~\E r \in docker.exists : r.of = b

(* Recovery does not take the browser of a session in progress away        *)
(* (recoverBrowserResources and the owner of a record).                    *)
LiveBrowserKept ==
    \A b \in Browsers :
        Here(b) /\ browsers[b].pc = "ready" /\ browsers[b].session = "open"
            => \A kind \in Kinds : Resource(b, kind) \in docker.exists

(* The three together: what the records are for.                           *)
BrowserAccounted == NothingForgotten /\ CleanCloseLeavesNothing /\ LiveBrowserKept
=============================================================================
