---------------------------- MODULE AuthRequest ----------------------------
(***************************************************************************)
(* What nango.auth() promises the page that calls it, without popups,      *)
(* sockets, sessions and servers: the promise settles once, and is         *)
(* resolved only when the connection is written and the start of its syncs *)
(* is over.  That they are running is not promised: a sync that could not  *)
(* be started may be passed over, with nobody told.  With a provider of    *)
(* the old OAuth1 kind the row only began to be written.                   *)
(***************************************************************************)
CONSTANT Auths      \* the calls of auth(), in the order of their numbers

VARIABLES
    awaited,    \* the server awaits what it reports
    promise,    \* call -> the promise it returned
    connected,  \* the calls whose connection has been written
    started,    \* the calls whose connection's syncs have been started
    swallowed,  \* the calls of whose syncs one was passed over
    begun       \* the calls whose row began to be written with nobody waiting

starts == <<started, swallowed>>
vars == <<awaited, promise, connected, starts, begun>>

Init ==
    /\ awaited \in BOOLEAN
    /\ promise = [a \in Auths |-> "none"]
    /\ connected = {} /\ started = {} /\ swallowed = {} /\ begun = {}

Settle(a, from, to) == promise[a] = from /\ promise' = [promise EXCEPT ![a] = to]

Ask(a) ==
    /\ \E to \in {"pending", "rejected"} : Settle(a, "none", to)
    /\ UNCHANGED <<awaited, connected, starts, begun>>

Begin(a) ==
    /\ ~awaited /\ promise[a] # "none"
    /\ begun' = begun \union {a}
    /\ UNCHANGED <<awaited, promise, connected, starts>>

\* The server goes on although the promise may have been rejected meanwhile; rows
\* that were being written when it stopped may appear together.
Write ==
    /\ \E written \in SUBSET {a \in Auths : promise[a] # "none" /\ (awaited \/ a \in begun)} :
          connected' = connected \union written
    /\ UNCHANGED <<awaited, promise, starts, begun>>

Start(a) ==
    /\ a \in connected
    /\ \/ started' = started \union {a} /\ UNCHANGED swallowed
       \/ swallowed' = swallowed \union {a} /\ UNCHANGED started
    /\ UNCHANGED <<awaited, promise, connected, begun>>

Resolve(a) ==
    /\ IF awaited THEN a \in connected \cap (started \union swallowed) ELSE a \in begun
    /\ Settle(a, "pending", "resolved")
    /\ UNCHANGED <<awaited, connected, starts, begun>>

Reject(a) ==
    /\ Settle(a, "pending", "rejected")
    /\ UNCHANGED <<awaited, connected, starts, begun>>

Next ==
    \/ Write
    \/ \E a \in Auths : Ask(a) \/ Begin(a) \/ Start(a) \/ Resolve(a) \/ Reject(a)

Spec == Init /\ [][Next]_vars
=============================================================================
