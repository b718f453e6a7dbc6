---------------------------- MODULE BrowserPage ----------------------------
(***************************************************************************)
(* The browser an agent acts on (integrations/browser/server.ts, in its    *)
(* container).  A snapshot numbers the elements of the page and keeps, for *)
(* each, a handle and a signature; an action names a snapshot and a        *)
(* number.  Every step to the page is an await, and the page changes on    *)
(* its own between them.                                                   *)
(*                                                                         *)
(* The agent makes one call at a time, but a call it has given up on goes  *)
(* on in the server beside the next one.                                   *)
(***************************************************************************)
EXTENDS Integers, Sequences, SequencesExt

CONSTANTS
    Nodes,              \* elements of a document
    Looks,              \* what an element can look like: label, text, attributes
    Hidden(_),          \* whether a look has no box, or is private
    Signature(_),       \* the part of a look that signature() serialises
    PageContents,       \* documents: nodes in order, and the look of each
    Calls,              \* identities of calls, served concurrently
    NoElement,          \* null
    MaxRefs, MaxActions,    \* the limits of the code
    PageBudgets         \* bounds: changes, calls given up, snapshots asked for

VARIABLES
    page,       \* the document, its nodes and looks now, how often it may still change
    observed,   \* fields snapshotId, observedAt in time, elements, actions; alone
                \* tells that no other snapshot was being taken when this one began
    calls,      \* per call: where its handler is, and what it has in hand
    agent,      \* the call it waits for, the snapshots it was shown; its bounds
    clicks      \* what the agent was shown and what was acted on, for each action

pageVars == <<page, observed, calls, agent, clicks>>

ASSUME PageAssumption ==
    /\ PageContents \subseteq [nodes : Seq(Nodes), looks : [Nodes -> Looks]]
    /\ NoElement \notin Calls
    /\ MaxRefs \in Nat /\ MaxActions \in Nat \ {0}
    /\ PageBudgets \subseteq [changes : Nat, giveUps : Nat, snapshots : Nat]

Refs == 0 .. MaxRefs - 1

(* An element as a snapshot saw it: the node of a document, the snapshot,  *)
(* the look it had when its label was read and the one it was signed with. *)
Item == [doc : Nat, node : Nodes, by : Nat, label : Looks, signed : Looks]
Handle == [doc : Nat, node : Nodes]

NoCall == [pc |-> "off", effect |-> FALSE, id |-> 0, handles |-> <<>>, refs |-> <<>>, ref |-> 0,
           shown |-> NoElement, target |-> NoElement, compared |-> NoElement, alone |-> FALSE]

(* Where a call has elements to write, and where it holds one to act on.   *)
Taking == {"query", "collect", "sign", "record"}
Acting == {"connected", "compare", "act"}

(* After start(): it has navigated once.  Its own snapshot is shown to     *)
(* nobody and forgotten by the next one.                                   *)
PageInit ==
    /\ \E d \in PageContents, b \in PageBudgets :
          /\ page = [doc |-> 0, nodes |-> d.nodes, looks |-> d.looks, changes |-> b.changes]
          /\ agent = [waits |-> NoElement, shown |-> {}, uncertain |-> FALSE, patience |-> b.giveUps,
                       latest |-> b.snapshots]
    /\ observed = [id |-> 0, fresh |-> TRUE, alone |-> TRUE,
                   elements |-> [r \in Refs |-> NoElement], actions |-> 1]
    /\ calls = [c \in Calls |-> NoCall]
    /\ clicks = {}

Free(c) == calls[c].pc = "off"

(* mutate(): the limit of interactions.                                    *)
Spent == observed.actions >= MaxActions
Counted == [observed EXCEPT !.actions = IF Spent THEN @ ELSE @ + 1]

(* The call ends without a result the agent can use.                       *)
EndCall(c) ==
    /\ calls' = [calls EXCEPT ![c] = NoCall]
    /\ agent' = [agent EXCEPT !.waits = IF @ = c THEN NoElement ELSE @]

(* A handle lives as long as its document, in the page or out of it.       *)
Alive(h) == h # NoElement /\ h.doc = page.doc
Attached(h) == Alive(h) /\ h.node \in Range(page.nodes)

-----------------------------------------------------------------------------
(* snapshot(): dispose of the handles and forget the elements, give the    *)
(* snapshot its identity, and ask for the elements of the page.  An action *)
(* under way on a handle that is disposed of fails.                        *)

AloneHere(c) == \A d \in Calls \ {c} : calls[d].pc \notin Taking

Restart(c) ==
    [observed EXCEPT !.id = @ + 1, !.fresh = TRUE, !.alone = AloneHere(c),
                     !.elements = [r \in Refs |-> NoElement]]

Disposed(k) ==
    IF k.pc \in Acting /\ k.target \in Range(observed.elements)
    THEN [k EXCEPT !.target = NoElement] ELSE k

BeginSnapshot(c) ==
    /\ calls[c].pc = "snapshot"
    /\ observed' = Restart(c)
    /\ calls' = [d \in Calls |->
                    IF d = c THEN [NoCall EXCEPT !.pc = "query", !.effect = calls[c].effect,
                                                 !.id = observed.id + 1]
                    ELSE Disposed(calls[d])]
    /\ UNCHANGED <<page, agent, clicks>>

HandleOf(node) == [doc |-> page.doc, node |-> node]

Query(c) ==
    LET found == IF Len(page.nodes) > MaxRefs THEN MaxRefs ELSE Len(page.nodes) IN
    /\ calls[c].pc = "query"
    /\ calls' = [calls EXCEPT ![c].pc = "collect",
                              ![c].handles = [i \in 1 .. found |-> HandleOf(page.nodes[i])]]
    /\ UNCHANGED <<page, observed, agent, clicks>>

(* An element that left the page, has no box or is private is left out.    *)
Skip(c) ==
    LET h == Head(calls[c].handles) IN
    /\ calls[c].pc = "collect" /\ calls[c].handles # <<>> /\ Alive(h)
    /\ ~Attached(h) \/ Hidden(page.looks[h.node])
    /\ calls' = [calls EXCEPT ![c].handles = Tail(@)]
    /\ UNCHANGED <<page, observed, agent, clicks>>

(* The label the agent will be shown is read first (the element may have   *)
(* been hidden since, or left),                                            *)
ReadLabel(c) ==
    LET k == calls[c]
        h == Head(k.handles) IN
    /\ k.pc = "collect" /\ k.handles # <<>> /\ Alive(h)
    /\ calls' = [calls EXCEPT ![c].pc = "sign", ![c].handles = Tail(@), ![c].target =
                    [doc |-> h.doc, node |-> h.node, by |-> k.id,
                     label |-> page.looks[h.node], signed |-> page.looks[h.node]]]
    /\ UNCHANGED <<page, observed, agent, clicks>>

(* the signature the element will be compared with two awaits later,       *)
ReadSignature(c) ==
    LET t == calls[c].target IN
    /\ calls[c].pc = "sign" /\ Alive(t)
    /\ calls' = [calls EXCEPT ![c].pc = "record", ![c].target.signed = page.looks[t.node]]
    /\ UNCHANGED <<page, observed, agent, clicks>>

(* and the element gets the next number of this snapshot, in the elements  *)
(* there are by then.                                                      *)
SetElement(c) ==
    LET k == calls[c] IN
    /\ k.pc = "record"
    /\ observed' = [observed EXCEPT !.elements[Len(k.refs)] = k.target]
    /\ calls' = [calls EXCEPT ![c].pc = "collect", ![c].refs = Append(@, k.target),
                              ![c].target = NoElement]
    /\ UNCHANGED <<page, agent, clicks>>

(* The result takes the identity the snapshot has by then, and is answered *)
(* two awaits later.                                                       *)
Conclude(c) ==
    /\ calls[c].pc = "collect" /\ calls[c].handles = <<>>
    /\ calls' = [calls EXCEPT ![c].pc = "answer", ![c].id = observed.id]
    /\ UNCHANGED <<page, observed, agent, clicks>>

AnswerSnapshot(c) ==
    LET k == calls[c] IN
    /\ k.pc = "answer"
    /\ calls' = [calls EXCEPT ![c] = NoCall]
    /\ agent' = IF agent.waits = c
                THEN [agent EXCEPT !.waits = NoElement, !.shown = @ \cup {[id |-> k.id, refs |-> k.refs]}]
                ELSE agent
    /\ UNCHANGED <<page, observed, clicks>>

(* A step to the page fails: it navigates, an element goes or is covered,  *)
(* Playwright's time-out passes.                                           *)
Fails(c) ==
    /\ calls[c].pc \in {"query", "collect", "sign", "answer"} \cup Acting
    /\ EndCall(c)
    /\ UNCHANGED <<page, observed, clicks>>

-----------------------------------------------------------------------------
(* Variant: any snapshot that is not too old will do.                      *)
StaleByAge(k) == ~observed.fresh

(* element(): the snapshot is the last one and not too old, and has the    *)
(* element;                                                                *)
Stale(k) == k.id # observed.id \/ ~observed.fresh

Check(c) ==
    LET k == calls[c]
        e == observed.elements[k.ref] IN
    /\ k.pc = "check"
    /\ observed' = Counted
    /\ IF Spent \/ Stale(k) \/ e = NoElement
       THEN EndCall(c)
       ELSE /\ calls' = [calls EXCEPT ![c].pc = "connected", ![c].target = e,
                                      ![c].alone = observed.alone]
            /\ UNCHANGED agent
    /\ UNCHANGED <<page, clicks>>

(* the element is in the page;                                             *)
Connected(c) ==
    /\ calls[c].pc = "connected"
    /\ IF Attached(calls[c].target)
       THEN calls' = [calls EXCEPT ![c].pc = "compare"] /\ UNCHANGED agent
       ELSE EndCall(c)
    /\ UNCHANGED <<page, observed, clicks>>

(* and its signature is the one on record.                                 *)
Compare(c) ==
    LET t == calls[c].target IN
    /\ calls[c].pc = "compare" /\ Alive(t)
    /\ IF Signature(page.looks[t.node]) = Signature(t.signed)
       THEN /\ calls' = [calls EXCEPT ![c].pc = "act", ![c].compared = page.looks[t.node]]
            /\ UNCHANGED agent
       ELSE EndCall(c)
    /\ UNCHANGED <<page, observed, clicks>>

(* The action on the handle, whatever the element looks like by then; one  *)
(* that left the page refuses it (Fails).  A snapshot follows.             *)
Act(c) ==
    LET k == calls[c] IN
    /\ k.pc = "act" /\ Attached(k.target)
    /\ clicks' = clicks \cup {[shown |-> k.shown, target |-> k.target, compared |-> k.compared,
                               acted |-> page.looks[k.target.node], alone |-> k.alone]}
    /\ calls' = [calls EXCEPT ![c].pc = "snapshot", ![c].target = NoElement]
    /\ UNCHANGED <<page, observed, agent>>

-----------------------------------------------------------------------------
(* navigate(), resize and scroll: an interaction, then a snapshot.  A path *)
(* that is refused or does not load ends the call.                         *)
Opened(d, changes) ==
    [doc |-> page.doc + 1, nodes |-> d.nodes, looks |-> d.looks, changes |-> changes]

Navigate(c) ==
    /\ calls[c].pc = "navigate"
    /\ observed' = Counted
    /\ \/ EndCall(c) /\ UNCHANGED page
       \/ /\ ~Spent
          /\ calls' = [calls EXCEPT ![c].pc = "snapshot"]
          /\ UNCHANGED page \/ \E d \in PageContents : page' = Opened(d, page.changes)
          /\ UNCHANGED agent
    /\ UNCHANGED clicks

-----------------------------------------------------------------------------
(* The agent.  After an effect whose outcome is unknown the registry       *)
(* admits reads only, until the user has reviewed it.                      *)

AskSnapshot(c) ==
    /\ observed.id < agent.latest
    /\ calls' = [calls EXCEPT ![c] = [NoCall EXCEPT !.pc = "snapshot"]]

AskNavigation(c) ==
    /\ ~agent.uncertain
    /\ calls' = [calls EXCEPT ![c] = [NoCall EXCEPT !.pc = "navigate", !.effect = TRUE]]

AskAction(c) ==
    /\ ~agent.uncertain
    /\ \E a \in agent.shown : \E r \in Refs :
          /\ r < Len(a.refs)
          /\ calls' = [calls EXCEPT ![c] = [NoCall EXCEPT !.pc = "check", !.effect = TRUE, !.id = a.id,
                                                          !.ref = r, !.shown = a.refs[r + 1]]]

CallTool(c) ==
    /\ Free(c) /\ agent.waits = NoElement
    /\ agent' = [agent EXCEPT !.waits = c]
    /\ AskSnapshot(c) \/ AskNavigation(c) \/ AskAction(c)
    /\ UNCHANGED <<page, observed, clicks>>

(* The client's timeout: nothing stops the handler.                        *)
GiveUp ==
    /\ agent.waits # NoElement /\ agent.patience > 0
    /\ agent' = [agent EXCEPT !.waits = NoElement, !.patience = @ - 1,
                              !.uncertain = @ \/ calls[agent.waits].effect]
    /\ UNCHANGED <<page, observed, calls, clicks>>

UserReviews ==
    /\ agent.uncertain
    /\ agent' = [agent EXCEPT !.uncertain = FALSE]
    /\ UNCHANGED <<page, observed, calls, clicks>>

(* Nodes come, go and change their look, or another document is opened.    *)
PageChanges ==
    /\ page.changes > 0
    /\ \/ \E d \in PageContents :
             page' \in {Opened(d, page.changes - 1),
                        [page EXCEPT !.nodes = d.nodes, !.changes = @ - 1]}
       \/ \E n \in Nodes : \E look \in Looks :
             page' = [page EXCEPT !.looks[n] = look, !.changes = @ - 1]
    /\ UNCHANGED <<observed, calls, agent, clicks>>

(* Ninety seconds pass.                                                    *)
Ages ==
    /\ observed.fresh /\ page.changes > 0
    /\ observed' = [observed EXCEPT !.fresh = FALSE]
    /\ page' = [page EXCEPT !.changes = @ - 1]
    /\ UNCHANGED <<calls, agent, clicks>>

PageNext ==
    \/ \E c \in Calls :
          BeginSnapshot(c) \/ Query(c) \/ Skip(c) \/ ReadLabel(c) \/ ReadSignature(c) \/ SetElement(c)
          \/ Conclude(c) \/ AnswerSnapshot(c) \/ Fails(c) \/ Check(c) \/ Connected(c) \/ Compare(c)
          \/ Act(c) \/ Navigate(c) \/ CallTool(c)
    \/ GiveUp \/ UserReviews \/ PageChanges \/ Ages

PageSpec == PageInit /\ [][PageNext]_pageVars

-----------------------------------------------------------------------------
MaybeItem == Item \cup {NoElement}
PageCalls ==
    [pc : {"off", "snapshot", "answer", "check", "navigate"} \cup Taking \cup Acting,
     effect : BOOLEAN, id : Nat, handles : Seq(Handle), refs : Seq(Item), ref : Nat,
     shown : MaybeItem, target : MaybeItem, compared : Looks \cup {NoElement}, alone : BOOLEAN]

PageTypeOK ==
    /\ page \in [doc : Nat, nodes : Seq(Nodes), looks : [Nodes -> Looks], changes : Nat]
    /\ observed \in [id : Nat, fresh : BOOLEAN, alone : BOOLEAN, elements : [Refs -> MaybeItem],
                     actions : 0 .. MaxActions]
    /\ calls \in [Calls -> PageCalls]
    /\ agent \in [waits : Calls \cup {NoElement}, shown : SUBSET [id : Nat, refs : Seq(Item)],
                  uncertain : BOOLEAN, patience : Nat, latest : Nat]

-----------------------------------------------------------------------------
(* The page left the element alone while the server read it, and while it  *)
(* was about to act on it.                                                 *)
StoodStill(x) == x.shown.label = x.shown.signed /\ x.acted = x.compared

(* What is acted on is the element the agent was shown under the number it *)
(* used, in the snapshot it named, and not another that took its number,   *)
(* unless an earlier snapshot that was given up on was still being taken   *)
(* when that one began; and it looks as it was shown, unless the page      *)
(* changed it between the reading of its label and of its signature, or    *)
(* between the comparison and the action (snapshot, element).              *)
ActsOnShown ==
    \A x \in clicks :
        /\ x.alone => x.target = x.shown
        /\ x.alone /\ StoodStill(x) => Signature(x.acted) = Signature(x.shown.label)

(* What the documentation of the browser says: an element that changed has *)
(* to be looked at again (docs/integraciones.md:48).  It does not hold.    *)
ChangedIsRefused == \A x \in clicks : x.acted = x.shown.label

-----------------------------------------------------------------------------
(* The inductive invariant behind ActsOnShown.                             *)

(* The elements are those of a list, up to its length.                     *)
OnRecord(elements, list) == \A r \in Refs : r < Len(list) => elements[r] = list[r + 1]

NobodyTakes == \A c \in Calls : calls[c].pc \notin Taking

(* A snapshot taken alone: the one call that takes it has recorded what it *)
(* will show; once it is concluded or shown, nobody writes elements.       *)
AloneInv ==
    observed.alone =>
        /\ \A c, d \in Calls : calls[c].pc \in Taking /\ calls[d].pc \in Taking => c = d
        /\ \A c \in Calls : calls[c].pc \in Taking => OnRecord(observed.elements, calls[c].refs)
        /\ \A c \in Calls : calls[c].pc = "answer" /\ calls[c].id = observed.id =>
               OnRecord(observed.elements, calls[c].refs) /\ NobodyTakes
        /\ \A a \in agent.shown : a.id = observed.id => OnRecord(observed.elements, a.refs) /\ NobodyTakes

PageCallInv(k) ==
    /\ k.pc \in {"sign", "record"} => k.target \in Item
    /\ k.pc = "answer" => k.id <= observed.id
    /\ k.pc = "check" =>
           /\ k.ref \in Refs
           /\ \E a \in agent.shown : k.id = a.id /\ k.ref < Len(a.refs) /\ k.shown = a.refs[k.ref + 1]
    /\ k.pc \in Acting /\ k.alone /\ k.target # NoElement => k.target = k.shown
    /\ k.pc = "act" /\ k.target # NoElement => Signature(k.compared) = Signature(k.target.signed)

PageIInv ==
    /\ PageTypeOK /\ AloneInv /\ ActsOnShown
    /\ \A c \in Calls : PageCallInv(calls[c])
    /\ \A a \in agent.shown : a.id <= observed.id
=============================================================================
