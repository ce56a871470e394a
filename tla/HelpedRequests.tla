--------------------------- MODULE HelpedRequests ---------------------------
(***************************************************************************)
(* What cixd promises of the requests whose work a helper does, without    *)
(* connections, records, queues, counters or batches: a request is open    *)
(* while its client is there, has at most one helper at a time, each stage *)
(* of its work is started once and in order, and it is answered once, when *)
(* nothing is under way for it any more.                                   *)
(***************************************************************************)
EXTENDS Naturals

CONSTANT MaxRequests

VARIABLES
    seen,           \* how many requests have arrived
    open,           \* those whose client is there
    locked,         \* open, and a credential of theirs is not verified
    waiting,        \* what waits for a helper, and what has one: a request
    working,        \*   and the stage of its work
    started,        \* what has ever had a helper
    answered        \* the requests that were answered

vars == <<seen, open, locked, waiting, working, started, answered>>

Stages == {"check", "work"}
Requests == 1 .. MaxRequests

Init ==
    /\ seen = 0
    /\ open = {} /\ locked = {} /\ answered = {}
    /\ waiting = {} /\ working = {} /\ started = {}

\* A request arrives, with a credential to verify or without.
Arrive ==
    /\ seen < MaxRequests
    /\ seen' = seen + 1
    /\ open' = open \cup {seen + 1}
    /\ locked' \in {locked, locked \cup {seen + 1}}
    /\ UNCHANGED <<waiting, working, started, answered>>

Busy(n) == \E s \in Stages : <<n, s>> \in waiting \cup working

\* An open request may ask for a stage that nobody has worked at, and for its
\* work proper only when its credential is verified.
MayAsk(n, s) ==
    /\ n \in open \ answered /\ ~Busy(n)
    /\ <<n, s>> \notin started
    /\ s = "work" => n \notin locked

Wait(n, s) ==
    /\ MayAsk(n, s)
    /\ waiting' = waiting \cup {<<n, s>>}
    /\ UNCHANGED <<seen, open, locked, working, started, answered>>

\* A helper starts, for a request that asks or for one that waited.
Begin(n, s) ==
    /\ MayAsk(n, s) \/ <<n, s>> \in waiting \ started
    /\ waiting' = waiting \ {<<n, s>>}
    /\ working' = working \cup {<<n, s>>}
    /\ started' = started \cup {<<n, s>>}
    /\ UNCHANGED <<seen, open, locked, answered>>

\* No helper can be had for a request that waited.
GiveUp(n, s) ==
    /\ <<n, s>> \in waiting
    /\ waiting' = waiting \ {<<n, s>>}
    /\ UNCHANGED <<seen, open, locked, working, started, answered>>

\* A helper ends; only a check may verify a credential.
Finish(n, s) ==
    /\ <<n, s>> \in working
    /\ working' = working \ {<<n, s>>}
    /\ locked' = locked \/ (s = "check" /\ locked' = locked \ {n})
    /\ UNCHANGED <<seen, open, waiting, started, answered>>

\* A request is answered; its connection may last until the answer is taken.
Answer(n) ==
    /\ n \in open \ answered /\ ~Busy(n)
    /\ answered' = answered \cup {n}
    /\ open' \in {open, open \ {n}}
    /\ locked' = locked \cap open'
    /\ UNCHANGED <<seen, waiting, working, started>>

\* A client leaves.  A helper at work goes on; what only waits is forgotten, or
\* is done all the same.
Leave(n) ==
    /\ n \in open
    /\ open' = open \ {n}
    /\ locked' = locked \cap open'
    /\ waiting' \in {waiting, {p \in waiting : p[1] # n}}
    /\ UNCHANGED <<seen, working, started, answered>>

\* Clients that do not take their answer are dropped; nobody else is.
Drop ==
    /\ open' \subseteq open /\ open \ open' \subseteq answered
    /\ locked' = locked \cap open'
    /\ UNCHANGED <<seen, waiting, working, started, answered>>

Next ==
    \/ Arrive \/ Drop
    \/ \E n \in Requests : Answer(n) \/ Leave(n)
    \/ \E n \in Requests, s \in Stages : Wait(n, s) \/ Begin(n, s) \/ GiveUp(n, s) \/ Finish(n, s)

Spec == Init /\ [][Next]_vars
=============================================================================
