--------------------------- MODULE MCIntegrations ---------------------------
(***************************************************************************)
(* Five separate instances in one run: operations of two agent runs, the   *)
(* resources of two browsers, a page of a browser, the control of a        *)
(* window, and the reading of a catalog.                                   *)
(***************************************************************************)
EXTENDS IntegrationOperations, BrowserSandbox, BrowserPage, DesktopSession, CatalogReader

CONSTANTS
    r1, r3, wr, cl, rd, unity, browser, c1,
    b1, b2, p1, p2,
    e1, e2, l1, l2, l3, u1, u2, u3, v1

VARIABLE which      \* the instance this behaviour is about

MCProcess(r) == IF r = r3 THEN 2 ELSE 1
MCEffect(t) == CASE t = wr -> "write" [] t = cl -> "interact" [] OTHER -> "read"
MCKind(v) == IF v = unity THEN "unity" ELSE "browser"
MCBudget(t, s, c, l) == [tools |-> t, saves |-> s, crashes |-> c, releases |-> l]
MCBudgets == {MCBudget({wr}, 1, 0, 0), MCBudget({wr}, 0, 1, 0), MCBudget({wr}, 0, 0, 1),
              MCBudget({cl, rd}, 0, 0, 0)}
MCUncertainBudgets == {MCBudget({wr, cl}, 0, 0, 0)}

MCBrowserProcess(b) == IF b = b1 THEN p1 ELSE p2
MCOpens(x, y, o, c) ==
    [opens |-> [b \in {b1, b2} |-> IF b = b1 THEN x ELSE y], outages |-> o, crashes |-> c]
MCBrowserBudgets == {MCOpens(2, 0, 1, 0), MCOpens(1, 1, 0, 0), MCOpens(1, 0, 1, 1)}

(* A hidden look, and two others that differ in what signature() omits.    *)
MCHidden(look) == look = l1
MCSignature(look) == IF look = l3 THEN l2 ELSE look
MCPages ==
    [nodes : {<<e1, e2>>, <<e2>>},
     looks : {[n \in Nodes |-> IF n = e1 THEN look ELSE l2] : look \in {l1}}]
MCPageBudget(c, g, s) == [changes |-> c, giveUps |-> g, snapshots |-> s]
MCPageBudgets == {MCPageBudget(1, 0, 2), MCPageBudget(0, 1, 1)}
MCLists == {<<>>, <<u1>>, <<u2>>, <<u3, u2>>}

MCInit ==
    /\ which \in {"operations", "sandbox", "page", "desktop", "catalog"}
    /\ OperationInit
    /\ which # "operations" => bounds = CHOOSE b \in Budgets : TRUE
    /\ BrowserInit
    /\ which # "sandbox" => browsers[b1].left = 2
    /\ PageInit
    /\ which # "page" => page.nodes = <<e2>> /\ page.changes = 1
    /\ DesktopInit
    /\ which # "desktop" => window = v1
    /\ which = "catalog" => ReaderInit
    /\ which # "catalog" =>
           /\ offered = [c \in Cursors \cup {First} |-> [tools |-> <<>>, next |-> End]]
           /\ connection = [state |-> "closed", aborted |-> FALSE]
           /\ reader = [cursor |-> First, cursors |-> {}, tools |-> <<>>, pages |-> 0, outcome |-> "none"]

MCNext ==
    /\ UNCHANGED which
    /\ \/ /\ which = "operations" /\ OperationNext
          /\ UNCHANGED <<browserVars, pageVars, desktopVars, readerVars>>
       \/ /\ which = "sandbox" /\ BrowserNext
          /\ UNCHANGED <<operationVars, pageVars, desktopVars, readerVars>>
       \/ /\ which = "page" /\ PageNext
          /\ UNCHANGED <<operationVars, browserVars, desktopVars, readerVars>>
       \/ /\ which = "desktop" /\ DesktopNext
          /\ UNCHANGED <<operationVars, browserVars, pageVars, readerVars>>
       \/ /\ which = "catalog" /\ ReaderNext
          /\ UNCHANGED <<operationVars, browserVars, pageVars, desktopVars>>

mcVars == <<which, operationVars, browserVars, pageVars, desktopVars, readerVars>>

MCSpec == MCInit /\ [][MCNext]_mcVars

(* No fair step is enabled in an instance that is not under way.           *)
MCFairSpec == MCSpec /\ OperationFairness /\ DesktopFairness

(* One instance alone.                                                     *)
MCOperationSpec == which = "operations" /\ MCSpec
MCPageSpec == which = "page" /\ MCSpec
MCSandboxSpec == which = "sandbox" /\ MCSpec

(* The variables of each instance keep their types.                        *)
IntegrationsTypeOK ==
    OperationTypeOK /\ BrowserTypeOK /\ PageTypeOK /\ DesktopTypeOK

(* Operations come to an outcome, and calls to the desktop end.            *)
IntegrationsEnd == OperationSettles /\ DesktopCallEnds
=============================================================================
