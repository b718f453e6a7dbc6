--------------------------- MODULE CatalogReader ---------------------------
(***************************************************************************)
(* A connection to a service and the reading of its catalog of tools, page *)
(* by page (integrations/wire.ts, McpConnection).  The hash of what was    *)
(* read is what the user authorises, so a catalog must be read whole or    *)
(* not at all, whatever the service answers.                               *)
(***************************************************************************)
EXTENDS Integers, Sequences, SequencesExt, FiniteSets

CONSTANTS
    ToolNames, Cursors, \* tools, and cursors of pages
    First, End,         \* the page without a cursor, the absence of a next one
    MaxPages, MaxTools, \* limits of the code
    PageLists           \* lists of tools a page may have

(* Cursors are the values a service may answer with; none of them is the   *)
(* absence of one.                                                         *)
ASSUME CatalogAssumption ==
    /\ IsFiniteSet(Cursors) /\ End \notin Cursors
    /\ PageLists \subseteq Seq(ToolNames) /\ MaxPages \in Nat

VARIABLES
    offered,    \* what the service answers to each cursor
    connection, \* connecting, open, closed; aborted
    reader      \* cursor, cursors and tools seen, pages read, outcome

readerVars == <<offered, connection, reader>>

Pages == [tools : PageLists, next : Cursors \cup {End}]

ReaderInit ==
    /\ offered \in [Cursors \cup {First} -> Pages]
    /\ connection = [state |-> "connecting", aborted |-> FALSE]
    /\ reader = [cursor |-> First, cursors |-> {}, tools |-> <<>>, pages |-> 0, outcome |-> "none"]

-----------------------------------------------------------------------------
(* open: a connection that fails or is aborted while connecting is closed. *)

ConnectionOpens ==
    /\ connection.state = "connecting"
    /\ connection' = [connection EXCEPT !.state = IF connection.aborted THEN "closed" ELSE "open"]
    /\ UNCHANGED <<offered, reader>>

ConnectFails ==
    /\ connection.state = "connecting"
    /\ connection' = [connection EXCEPT !.state = "closed"]
    /\ UNCHANGED <<offered, reader>>

AbortConnection ==
    /\ ~connection.aborted
    /\ connection' = [aborted |-> TRUE,
           state |-> IF connection.state = "open" THEN "closed" ELSE connection.state]
    /\ UNCHANGED <<offered, reader>>

-----------------------------------------------------------------------------
(* readCatalog.                                                            *)

Reading == reader.outcome = "none"
Ended(outcome) == reader' = [reader EXCEPT !.outcome = outcome]

(* Variant: names may repeat.                                              *)
RefusedSize(tools) == Len(reader.tools \o tools) > MaxTools

(* What a page brings is refused: a name twice, or too many.               *)
RefusedPage(tools) ==
    \/ Len(reader.tools \o tools) > MaxTools
    \/ ~IsInjective(reader.tools \o tools)

ReadPage ==
    LET page == offered[reader.cursor] IN
    /\ connection.state = "open" /\ Reading /\ reader.pages < MaxPages
    /\ IF RefusedPage(page.tools) \/ page.next \in reader.cursors
       THEN Ended("refused")
       ELSE reader' = [reader EXCEPT
                !.pages = @ + 1, !.tools = @ \o page.tools, !.cursor = page.next,
                !.cursors = IF page.next = End THEN @ ELSE @ \cup {page.next},
                !.outcome = IF page.next = End THEN "accepted" ELSE @]
    /\ UNCHANGED <<offered, connection>>

(* Variant: what was read so far is the catalog.                           *)
TakeWhatThereIs ==
    /\ Reading /\ reader.pages = MaxPages
    /\ Ended("accepted")
    /\ UNCHANGED <<offered, connection>>

(* The pages run out while there is a cursor.                              *)
TooManyPages ==
    /\ Reading /\ reader.pages = MaxPages
    /\ Ended("refused")
    /\ UNCHANGED <<offered, connection>>

(* A request on a closed connection, or in flight when it closes.          *)
RequestFails ==
    /\ connection.state = "closed" /\ Reading
    /\ Ended("refused")
    /\ UNCHANGED <<offered, connection>>

ReaderStep == ReadPage \/ TooManyPages \/ RequestFails \/ ConnectionOpens

ReaderNext == ReaderStep \/ ConnectFails \/ AbortConnection

ReaderSpec == ReaderInit /\ [][ReaderNext]_readerVars

-----------------------------------------------------------------------------
(* The pages of the service from the first, following the cursors; at most *)
(* n of them.                                                              *)
Chain(n) ==
    LET chain[i \in 1..n] ==
            IF i = 1 THEN <<First>>
            ELSE LET c == chain[i - 1] IN
                 IF offered[Last(c)].next = End THEN c ELSE Append(c, offered[Last(c)].next)
    IN chain[n]

(* An accepted catalog is all the service offers, each tool once: no page  *)
(* is missing, none is read twice, and a service whose cursors go round    *)
(* for ever has none (readCatalog and its limits).                         *)
AcceptedIsWhole ==
    reader.outcome = "accepted" =>
        LET chain == Chain(Cardinality(Cursors) + 1) IN
        /\ offered[Last(chain)].next = End
        /\ reader.tools = FlattenSeq([i \in DOMAIN chain |-> offered[chain[i]].tools])
        /\ IsInjective(reader.tools)
=============================================================================
