----------------------------- MODULE Pagination -----------------------------
(***************************************************************************)
(* nango.paginate of a script, over the proxy: a collection of the         *)
(* provider is fetched page by page, by offset, by cursor or by link, and  *)
(* changes meanwhile.                                                      *)
(*                                                                         *)
(*   shared/lib/services/paginate.service.ts                               *)
(*   shared/lib/sdk/sync.ts                                                *)
(*                                                                         *)
(* The provider is external.  It lists its items in the order of their     *)
(* numbers; a cursor or a link names the last item of the page before.     *)
(***************************************************************************)
EXTENDS Proxy, FiniteSets

CONSTANTS
    NumItems,   \* the items that the provider may hold
    MaxChanges, \* bound: the items added and removed
    MaxPage     \* bound: the sizes of a page

ASSUME ItemsAssumption == NumItems \in Nat
ASSUME ChangesAssumption == MaxChanges \in Nat
ASSUME PageAssumption == MaxPage \in Nat \ {0}

Items == 1..NumItems
NoLimit == 0
Start == 0
Done == -1

VARIABLES
    type,       \* "cursor", "link" or "offset"
    limit,      \* the size of a page that the script asks for
    cap,        \* the size of a page that the provider gives at most
    hidden,     \* the items that the provider takes out of a page after it has cut it
    items,      \* the collection
    changes,    \* bound: the changes so far
    script,     \* the script's loop: "starts", "runs", "returned" or "threw"
    next,       \* the offset, cursor or link of the next request
    page,       \* the page that the provider gave: its items, and the next cursor
    delivered,  \* the items that the script got
    repeated,   \* history: some item was delivered twice
    steady,     \* history: the items that were there all the time
    reasons     \* history: what may have come between the loop and the collection

settings == <<type, limit, cap, hidden>>
provider == <<items, changes, steady>>
loop == <<script, next, delivered, repeated>>
loopVars == <<given, call, settings, provider, loop, page, reasons>>

Reasons == {"added", "removed", "emptied", "short"}
NoPage == [items |-> {}, next |-> Done]

Smaller(a, b) == IF a < b THEN a ELSE b

\* Bound: the items that are hidden, and those that are not there at first.
Few == {S \in SUBSET Items : Cardinality(S) <= MaxChanges}

LoopInit ==
    /\ ProxyInit
    /\ type \in {"cursor", "link", "offset"}
    /\ limit \in {NoLimit} \cup 1..MaxPage /\ cap \in 1..MaxPage /\ hidden \in Few
    /\ \E absent \in Few : items = Items \ absent
    /\ changes = 0 /\ steady = items
    /\ script = "starts" /\ next = Start /\ page = NoPage
    /\ delivered = {} /\ repeated = FALSE /\ reasons = {}
-----------------------------------------------------------------------------
(* The provider.                                                           *)

Size == IF limit = NoLimit THEN cap ELSE Smaller(limit, cap)

Before(S, i) == Cardinality({j \in S : j < i})

\* The items that are left from the position on.
Rest == {i \in items : IF type = "offset" THEN Before(items, i) >= next ELSE i > next}

\* The first of them.
Cut == {i \in Rest : Before(Rest, i) < Size}
More == Cut # Rest

\* With more to come, it may be a page with nothing in it, or not a full one.
Serves ==
    /\ Succeeds
    /\ LET kept == Cut \ hidden
       IN /\ \/ ~More /\ page' = [items |-> kept, next |-> Done]
             \/ /\ More
                /\ \E last \in Cut : /\ \A i \in Cut : i <= last
                                     /\ page' = [items |-> kept, next |-> last]
          /\ reasons' = reasons
               \cup (IF More /\ kept = {} THEN {"emptied"} ELSE {})
               \cup (IF More /\ Cardinality(kept) < limit THEN {"short"} ELSE {})
    /\ UNCHANGED <<given, settings, provider, loop>>

Changes(what, new) ==
    /\ script = "runs" /\ changes < MaxChanges
    /\ changes' = changes + 1 /\ items' = new /\ steady' = steady \cap new
    /\ reasons' = reasons \cup {what}
    /\ UNCHANGED <<given, call, settings, loop, page>>

Adds == \E i \in Items \ items : Changes("added", items \cup {i})
Removes == \E i \in items : Changes("removed", items \ {i})
-----------------------------------------------------------------------------
(* The script's loop.                                                      *)

Script(to) == script' = to /\ UNCHANGED <<next, delivered, repeated>>
Around == UNCHANGED <<given, settings, provider, page, reasons>>

\* getIntegration, the template's configuration and the script's, validateConfiguration.
Paginate == script = "starts" /\ Script("runs") /\ Around /\ UNCHANGED call
InvalidConfiguration == script = "starts" /\ Script("threw") /\ Around /\ UNCHANGED call

Fetch == script = "runs" /\ Call /\ Around /\ UNCHANGED loop

\* The answer is read; an empty page ends the loop, others are given to the script.
Empty == page.items = {}

Yield(goesOn, position) ==
    /\ Receive /\ page' = NoPage
    /\ script' = IF goesOn THEN script ELSE "returned"
    /\ next' = IF goesOn THEN position ELSE next
    /\ delivered' = delivered \cup page.items
    /\ repeated' = (repeated \/ delivered \cap page.items # {})
    /\ UNCHANGED <<given, settings, provider, reasons>>

\* Mutant: without a next cursor the last one is sent again.
CursorUnchecked ==
    /\ type = "cursor"
    /\ Yield(~Empty, IF page.next = Done THEN next ELSE page.next)

Cursor ==
    /\ type = "cursor"
    /\ Yield(~Empty /\ page.next # Done, page.next)

\* Mutant: a page that is not full is the last one.
LinkUntilShort ==
    /\ type = "link"
    /\ Yield(~Empty /\ page.next # Done /\ ~(Cardinality(page.items) < limit), page.next)

Link ==
    /\ type = "link"
    /\ Yield(~Empty /\ page.next # Done, page.next)

Offset ==
    /\ type = "offset"
    /\ LET count == Cardinality(page.items)
       IN  Yield(~Empty /\ ~(limit # NoLimit /\ count < limit), next + count)

Throws ==
    /\ script = "runs" /\ pc \in {"refused", "stopped"}
    /\ Script("threw") /\ Around /\ UNCHANGED call

Running == script = "runs" /\ UNCHANGED <<given, settings, provider, loop, page, reasons>>

Steps ==
    \/ Paginate
    \/ Fetch
    \/ Cursor
    \/ Link
    \/ Offset
    \/ Throws
    \/ Serves
    \/ Running /\ Proceeds

LoopNext ==
    \/ Steps
    \/ InvalidConfiguration
    \/ Adds
    \/ Removes
    \/ Running /\ Fails

\* The promises and timers of the proxy and the script go on; the provider answers.
LoopSpec == LoopInit /\ [][LoopNext]_loopVars /\ WF_loopVars(Steps)
-----------------------------------------------------------------------------
(* The properties.                                                         *)

\* The type of every variable, the call's included.
LoopTypeOK ==
    /\ ProxyTypeOK
    /\ type \in {"cursor", "link", "offset"}
    /\ limit \in 0..MaxPage /\ cap \in 1..MaxPage /\ hidden \subseteq Items
    /\ items \subseteq Items /\ changes \in 0..MaxChanges /\ steady \subseteq items
    /\ script \in {"starts", "runs", "returned", "threw"}
    /\ next \in Start..NumItems
    /\ page \in [items : SUBSET Items, next : Items \cup {Done}]
    /\ delivered \subseteq Items /\ repeated \in BOOLEAN /\ reasons \subseteq Reasons

\* A loop that returns has given the script every item that was there all the time,
\* whatever was tried again on the way: unless the provider gave an empty page with
\* more to come, or, by offset, a page shorter than the limit (which may be its own
\* cap) or a collection that shrank.
LoopIsComplete ==
    script = "returned" /\ "emptied" \notin reasons
        /\ (type = "offset" => reasons \cap {"short", "removed"} = {})
        => steady \ hidden \subseteq delivered

\* No item is given twice, unless by offset, from a collection that grew or whose
\* pages are filtered.
NothingTwice == repeated => type = "offset" /\ ("added" \in reasons \/ hidden # {})

\* What a loop gives to the script is what there is, once each.
LoopIsExact == LoopTypeOK /\ LoopIsComplete /\ NothingTwice

\* A loop ends, returning or throwing, unless the answer was lost, or the provider
\* is down and the number of retries is none: nothing has a timeout.
LoopEnds ==
    <>(script \in {"returned", "threw"} \/ pc = "lost" \/ (down /\ retries = NotANumber))
=============================================================================
