--------------------------- MODULE CdcScanClient ---------------------------
(***************************************************************************)
(* CdcScanClient's retry policy for one log group: which node the next     *)
(* scan goes to, and when, while the group elects leaders, a leader is not *)
(* in sync yet, and nodes fail.                                            *)
(*                                                                         *)
(* Time is relative and saturates, so that the model is finite: wait is    *)
(* what is left until readyAt, sinceFollow the age of lastFollowAt (cut at *)
(* the largest backoff, with which it is compared).  The leader cache of   *)
(* the log agent and the log group itself are external, modelled from how  *)
(* the client uses them.                                                   *)
(***************************************************************************)
EXTENDS Naturals

CONSTANTS
    Node,                   \* the group's log nodes
    NoNode,                 \* an empty redirect, and no targetNode
    Stranger,               \* an address nodeByAddress does not know
    RetryBackoffInitial,
    RetryBackoffMax,
    IdlePause,              \* for how long an early empty page defers a scan
    MaxChanges              \* bound: elections and failures of nodes

ASSUME BackoffAssumption ==
    /\ RetryBackoffInitial \in Nat \ {0}
    /\ RetryBackoffMax \in Nat
    /\ RetryBackoffInitial <= RetryBackoffMax
    /\ IdlePause \in 0 .. RetryBackoffMax

ASSUME RedirectAssumption == {NoNode, Stranger} \cap Node = {}

VARIABLES
    call,           \* [state, node, answer]: state is "none", "sent", "done"
    backoff,
    wait,
    sinceFollow,
    cached,         \* the agent's leader cache, NoNode if it knows none
    refreshing,     \* a refresh of that cache was requested
    leader,         \* the group's leader, or NoNode
    synced,         \* the leader can serve
    up,             \* the nodes that answer
    settled,        \* every node knows the leader
    changes,        \* how often the group has changed
    served,         \* what the last scan taken came to: "page", "retry", "fatal"
    age, age2       \* ages of the last scan since a page, and of the one before,
                    \* cut at RetryBackoffInitial

clientVars == <<call, backoff, wait, sinceFollow, served, age, age2>>
cacheVars == <<cached, refreshing>>
groupVars == <<leader, synced, up, settled, changes>>
vars == <<clientVars, cacheVars, groupVars>>

NoCall == [state |-> "none"]

Init ==
    /\ call = NoCall
    /\ backoff = RetryBackoffInitial
    /\ wait = 0
    /\ sinceFollow = RetryBackoffMax
    /\ cached \in Node \cup {NoNode}
    /\ refreshing = FALSE
    /\ leader \in Node
    /\ synced = TRUE
    /\ up = Node
    /\ settled = TRUE
    /\ changes = 0
    /\ served = "page"
    /\ age = RetryBackoffInitial
    /\ age2 = RetryBackoffInitial

-----------------------------------------------------------------------------
(***************************************************************************)
(* The log group and the log agent (external).                             *)
(***************************************************************************)

\* The leader steps down or fails; until every node knows the next one, a node
\* may name anyone.
LoseLeader ==
    /\ leader # NoNode
    /\ changes < MaxChanges
    /\ changes' = changes + 1
    /\ leader' = NoNode
    /\ synced' = FALSE
    /\ up' \in {up, up \ {leader}} \ {{}}
    /\ settled' = FALSE
    /\ UNCHANGED <<clientVars, cacheVars>>

Elect ==
    /\ leader = NoNode
    /\ leader' \in up
    /\ UNCHANGED <<clientVars, cacheVars, synced, up, settled, changes>>

Settle ==
    /\ leader # NoNode
    /\ ~settled
    /\ settled' = TRUE
    /\ UNCHANGED <<clientVars, cacheVars, leader, synced, up, changes>>

GetInSync ==
    /\ leader # NoNode
    /\ ~synced
    /\ synced' = TRUE
    /\ UNCHANGED <<clientVars, cacheVars, leader, up, settled, changes>>

\* The agent looks for the leader of the group in the background.
Refresh ==
    /\ refreshing
    /\ leader # NoNode
    /\ cached' = leader
    /\ refreshing' = FALSE
    /\ UNCHANGED <<clientVars, groupVars>>

\* What a node makes of a scan: a leader in sync serves it, or answers that it
\* never will (PositionTruncated, no such method); any other names the leader it
\* knows, a leader not in sync itself; a node that is down fails it.
NodeAnswers(n) ==
    IF n \notin up THEN {"error"}
    ELSE IF n = leader /\ synced THEN {"page", "early", "truncated", "unsupported"}
    ELSE IF n = leader THEN {n}
    ELSE IF settled THEN {leader} ELSE Node \cup {NoNode, Stranger}

\* An agent that knows no leader leaves targetNode empty; it may fail the call,
\* or try some node with it.
Answers(n) ==
    IF n # NoNode THEN NodeAnswers(n)
    ELSE {"error"} \cup UNION {NodeAnswers(m) : m \in Node}

Done(a) == [state |-> "done", node |-> call.node, answer |-> a]

Answer ==
    /\ call.state = "sent"
    /\ \E a \in Answers(call.node) : call' = Done(a)
    /\ UNCHANGED <<backoff, wait, sinceFollow, served, age, age2, cacheVars,
                   groupVars>>

\* The network, or the call's timeout, fails it, or it comes back with a status
\* the client does not know.
Fail ==
    /\ call.state = "sent"
    /\ changes < MaxChanges
    /\ changes' = changes + 1
    /\ call' \in {Done("error"), Done("unknown")}
    /\ UNCHANGED <<backoff, wait, sinceFollow, served, age, age2, cacheVars,
                   leader, synced, up, settled>>

Older(k, most) == IF k < most THEN k + 1 ELSE most

\* One unit of time passes.
Tick ==
    /\ wait' = IF wait > 0 THEN wait - 1 ELSE 0
    /\ sinceFollow' = Older(sinceFollow, RetryBackoffMax)
    /\ age' = Older(age, RetryBackoffInitial)
    /\ age2' = Older(age2, RetryBackoffInitial)
    /\ UNCHANGED <<call, backoff, served, cacheVars, groupVars>>

-----------------------------------------------------------------------------
(***************************************************************************)
(* The client.                                                             *)
(***************************************************************************)

\* A scan is issued to the node of the leader cache, which is its targetNode,
\* once readyAt is reached.
Issue ==
    /\ call = NoCall
    /\ wait = 0
    /\ served # "fatal"
    /\ call' = [state |-> "sent", node |-> cached, answer |-> "none"]
    /\ age' = 0
    /\ age2' = age
    /\ UNCHANGED <<backoff, wait, sinceFollow, served, cacheVars, groupVars>>

\* takeCompleted takes a call whose callback has run.
Take(outcome) ==
    /\ call.state = "done"
    /\ call' = NoCall
    /\ served' = outcome
    /\ UNCHANGED groupVars

\* Mutant: the backoff doubles without end.
BackOffUncapped ==
    /\ wait' = IF wait > backoff THEN wait ELSE backoff
    /\ backoff' = 2 * backoff

BackOff ==
    /\ wait' = IF wait > backoff THEN wait ELSE backoff
    /\ backoff' = IF 2 * backoff < RetryBackoffMax THEN 2 * backoff ELSE RetryBackoffMax

\* A page; an empty one that came early defers the next scan.
TakePage ==
    /\ Take("page")
    /\ call.answer \in {"page", "early"}
    /\ backoff' = RetryBackoffInitial
    /\ sinceFollow' = RetryBackoffMax
    /\ wait' = IF call.answer = "early" THEN IdlePause ELSE wait
    /\ age' = RetryBackoffInitial
    /\ age2' = RetryBackoffInitial
    /\ UNCHANGED cacheVars

\* The log service has no CdcScan, or no longer has the position: no retry helps.
TakeUnsupported ==
    /\ Take("fatal")
    /\ call.answer = "unsupported"
    /\ UNCHANGED <<backoff, wait, sinceFollow, age, age2, cacheVars>>

TakePositionTruncated ==
    /\ Take("fatal")
    /\ call.answer = "truncated"
    /\ UNCHANGED <<backoff, wait, sinceFollow, age, age2, cacheVars>>

\* Mutant: nobody is asked for the leader.
AskForLeaderNot == UNCHANGED refreshing

AskForLeader == refreshing' = TRUE

TakeError ==
    /\ Take("retry")
    /\ call.answer = "error"
    /\ AskForLeader
    /\ BackOff
    /\ UNCHANGED <<sinceFollow, cached, age, age2>>

\* A status the client does not know is treated like a failed call.
TakeUnknownStatus ==
    /\ Take("retry")
    /\ call.answer = "unknown"
    /\ AskForLeader
    /\ BackOff
    /\ UNCHANGED <<sinceFollow, cached, age, age2>>

\* Mutant: a redirect is always followed at once.
FollowsAtOnceAlways == TRUE

\* The previous redirect was followed more than one backoff period ago.
FollowsAtOnce == sinceFollow >= backoff

FollowNode(n) == cached' = n

\* A different node claims the lead; any node is different from no targetNode.
TakeRedirect ==
    /\ Take("retry")
    /\ call.answer \in Node \ {call.node}
    /\ FollowNode(call.answer)
    /\ \/ /\ FollowsAtOnce
          /\ wait' = 0
          /\ UNCHANGED backoff
       \/ ~FollowsAtOnce /\ BackOff
    /\ sinceFollow' = 0
    /\ UNCHANGED <<refreshing, age, age2>>

\* No leader is known, the node just asked names itself, or an address the group
\* does not know.
TakeNotReady ==
    /\ Take("retry")
    /\ call.answer \in {NoNode, Stranger, call.node}
    /\ IF call.answer = Stranger THEN AskForLeader ELSE UNCHANGED refreshing
    /\ BackOff
    /\ UNCHANGED <<sinceFollow, cached, age, age2>>

Client ==
    \/ Issue \/ TakePage \/ TakeUnsupported \/ TakePositionTruncated
    \/ TakeError \/ TakeUnknownStatus \/ TakeRedirect \/ TakeNotReady

Next ==
    \/ LoseLeader \/ Elect \/ GetInSync \/ Settle \/ Refresh
    \/ Answer \/ Fail \/ Tick
    \/ Client

Spec == Init /\ [][Next]_vars

\* Time passes, the consumer keeps sending getMores, calls are answered or time
\* out, and the group gets over an election.
Fairness ==
    /\ WF_vars(Tick) /\ WF_vars(Client) /\ WF_vars(Answer)
    /\ WF_vars(Elect) /\ WF_vars(GetInSync) /\ WF_vars(Settle)
    /\ WF_vars(Refresh)

LiveSpec == Spec /\ Fairness

-----------------------------------------------------------------------------
(***************************************************************************)
(* Properties.                                                             *)
(***************************************************************************)

\* The client's state has its type; a backoff is never above the cap.
TypeOK ==
    /\ \/ call = NoCall
       \/ /\ call.state \in {"sent", "done"}
          /\ call.node \in Node \cup {NoNode}
    /\ backoff \in RetryBackoffInitial .. RetryBackoffMax
    /\ wait \in 0 .. RetryBackoffMax
    /\ sinceFollow \in 0 .. RetryBackoffMax
    /\ cached \in Node \cup {NoNode}
    /\ served \in {"page", "retry", "fatal"}
    /\ age \in 0 .. RetryBackoffInitial
    /\ age2 \in 0 .. RetryBackoffInitial

\* The client never loops against the log service: until a page comes, no three
\* scans are issued within the first backoff, whatever the nodes answer - two
\* that name each other, one that names itself, one that is down.
Paced == [][call = NoCall /\ call' # NoCall => age2 >= RetryBackoffInitial]_vars

\* A scan that has to be retried is served in the end, once the group has a
\* leader that stays.
EventuallyServed == served = "retry" ~> served \in {"page", "fatal"}

=============================================================================
