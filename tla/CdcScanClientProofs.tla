------------------------ MODULE CdcScanClientProofs ------------------------
(***************************************************************************)
(* Proof that CdcScanClient paces its retries, for any group of nodes, any *)
(* behaviour of theirs and any backoff bounds.                             *)
(***************************************************************************)
EXTENDS CdcScanClient, TLAPS

\* The types of what the proof counts with.
CountersOK ==
    /\ backoff \in RetryBackoffInitial .. RetryBackoffMax
    /\ wait \in Nat
    /\ sinceFollow \in 0 .. RetryBackoffMax
    /\ age \in 0 .. RetryBackoffInitial
    /\ age2 \in 0 .. RetryBackoffInitial

\* While no call is out and none was refused, either the rest of a backoff still
\* separates the next scan from the last one, or a redirect has just been followed at once and the
\* scan before the last is a backoff old.  While a call is out that was issued
\* so, the redirect is recent enough for the next one to be backed off from.
PaceInv ==
    /\ age <= age2
    /\ call = NoCall /\ served # "fatal" =>
        \/ wait + age >= RetryBackoffInitial
        \/ /\ age < RetryBackoffInitial => sinceFollow <= age
           /\ age2 >= RetryBackoffInitial
    /\ call # NoCall /\ age2 < RetryBackoffInitial => sinceFollow <= age2

IndInv == CountersOK /\ PaceInv

\* A client starts with no scan behind it.
LEMMA IndInit == Init => IndInv
  BY BackoffAssumption DEF Init, IndInv, CountersOK, PaceInv, NoCall

\* A backed-off client waits at least the initial backoff.
LEMMA BackOffWaits ==
  ASSUME CountersOK, BackOff
  PROVE  /\ wait' \in Nat /\ wait' >= RetryBackoffInitial
         /\ backoff' \in RetryBackoffInitial .. RetryBackoffMax
  BY BackoffAssumption DEF CountersOK, BackOff

\* Every step of the group, of the network, of time and of the client keeps the
\* invariant.
LEMMA IndStep ==
  ASSUME IndInv, [Next]_vars
  PROVE  IndInv'
<1> USE BackoffAssumption DEF IndInv, CountersOK, PaceInv
<1>1. CASE LoseLeader \/ Elect \/ Settle \/ GetInSync \/ Refresh \/ UNCHANGED vars
  BY <1>1 DEF LoseLeader, Elect, Settle, GetInSync, Refresh, clientVars, vars
<1>2. CASE Answer \/ Fail
  <2>1. call # NoCall /\ call' # NoCall
    BY <1>2 DEF Answer, Fail, Done, NoCall
  <2>2. QED
    BY <1>2, <2>1 DEF Answer, Fail, Done
<1>3. CASE Tick
  BY <1>3 DEF Tick, Older
<1>4. CASE Issue
  <2>1. call' # NoCall
    BY <1>4 DEF Issue, NoCall
  <2>2. QED
    BY <1>4, <2>1 DEF Issue
<1>5. CASE TakePage
  BY <1>5 DEF TakePage, Take, NoCall
<1>6. CASE TakeUnsupported \/ TakePositionTruncated
  BY <1>6 DEF TakeUnsupported, TakePositionTruncated, Take, NoCall
<1>7. CASE TakeError \/ TakeUnknownStatus
  BY <1>7, BackOffWaits DEF TakeError, TakeUnknownStatus, Take
<1>8. CASE TakeRedirect
  <2>1. call # NoCall
    BY <1>8 DEF TakeRedirect, Take, NoCall
  <2>2. CASE FollowsAtOnce
    BY <1>8, <2>1, <2>2 DEF TakeRedirect, Take, FollowsAtOnce
  <2>3. CASE ~FollowsAtOnce
    BY <1>8, <2>3, BackOffWaits DEF TakeRedirect, Take
  <2>4. QED
    BY <2>2, <2>3
<1>9. CASE TakeNotReady
  BY <1>9, BackOffWaits DEF TakeNotReady, Take
<1>10. QED
  BY <1>1, <1>2, <1>3, <1>4, <1>5, <1>6, <1>7, <1>8, <1>9 DEF Next, Client

\* The client never loops against the log service: of three scans in a row that
\* bring no page, the third is issued no sooner than the initial backoff after
\* the first.
THEOREM RetriesPaced == Spec => Paced
<1>1. Init => IndInv
  BY IndInit
<1>2. IndInv /\ [Next]_vars => IndInv'
  BY IndStep
<1>3. IndInv /\ [Next]_vars =>
        [call = NoCall /\ call' # NoCall => age2 >= RetryBackoffInitial]_vars
  <2> SUFFICES ASSUME IndInv, Next, call = NoCall, call' # NoCall
               PROVE  age2 >= RetryBackoffInitial
    BY DEF vars
  <2>1. Issue
    BY DEF Next, LoseLeader, Elect, Settle, GetInSync, Refresh, clientVars, Answer,
           Fail, Done, Tick, Client, TakePage, TakeUnsupported, TakePositionTruncated,
           TakeError, TakeUnknownStatus, TakeRedirect, TakeNotReady, Take, NoCall
  <2>2. QED
    BY <2>1, BackoffAssumption DEF Issue, IndInv, CountersOK, PaceInv
<1>4. QED
  BY <1>1, <1>2, <1>3, PTL DEF Spec, Paced

-----------------------------------------------------------------------------

\* The nodes of the group's own state: what the leader cache may come to hold.
NodesOK == up \subseteq Node /\ leader \in Node \cup {NoNode}

\* A backoff stays within its bounds, and so does the wait for it.
LEMMA BackOffType ==
  ASSUME TypeOK, BackOff
  PROVE  /\ wait' \in 0 .. RetryBackoffMax
         /\ backoff' \in RetryBackoffInitial .. RetryBackoffMax
  BY BackoffAssumption DEF TypeOK, BackOff

\* Taking an answer leaves no call, and keeps the types it does not assign.
LEMMA TakeStep ==
  ASSUME TypeOK, NodesOK, NEW outcome \in {"page", "retry", "fatal"}, Take(outcome),
         wait' \in 0 .. RetryBackoffMax,
         backoff' \in RetryBackoffInitial .. RetryBackoffMax,
         sinceFollow' \in 0 .. RetryBackoffMax,
         cached' \in Node \cup {NoNode},
         age' \in 0 .. RetryBackoffInitial, age2' \in 0 .. RetryBackoffInitial
  PROVE  TypeOK' /\ NodesOK'
  BY DEF Take, TypeOK, NodesOK, NoCall, groupVars

\* Every step keeps the types: the client goes to nodes of the group only, no
\* backoff is above the cap, and no wait is longer than the cap.
LEMMA TypeStep ==
  ASSUME TypeOK, NodesOK, [Next]_vars
  PROVE  TypeOK' /\ NodesOK'
<1> USE BackoffAssumption DEF TypeOK, NodesOK
<1>1. CASE LoseLeader \/ Elect \/ Settle \/ GetInSync \/ UNCHANGED vars
  BY <1>1 DEF LoseLeader, Elect, Settle, GetInSync, clientVars, cacheVars, groupVars,
              vars
<1>2. CASE Refresh
  BY <1>2 DEF Refresh, clientVars, groupVars
<1>3. CASE Answer \/ Fail
  <2>1. call # NoCall /\ \E a : call' = Done(a)
    BY <1>3 DEF Answer, Fail, NoCall
  <2>2. call'.state \in {"sent", "done"} /\ call'.node \in Node \cup {NoNode}
    BY <2>1 DEF Done
  <2>3. QED
    BY <1>3, <2>2 DEF Answer, Fail, cacheVars, groupVars
<1>4. CASE Tick
  BY <1>4 DEF Tick, Older, cacheVars, groupVars
<1>5. CASE Issue
  BY <1>5 DEF Issue, cacheVars, groupVars
<1>6. CASE TakePage
  BY <1>6, TakeStep DEF TakePage, cacheVars
<1>7. CASE TakeUnsupported \/ TakePositionTruncated
  BY <1>7, TakeStep DEF TakeUnsupported, TakePositionTruncated, cacheVars
<1>8. CASE TakeError \/ TakeUnknownStatus
  BY <1>8, TakeStep, BackOffType DEF TakeError, TakeUnknownStatus
<1>9. CASE TakeRedirect
  <2>1. /\ wait' \in 0 .. RetryBackoffMax
        /\ backoff' \in RetryBackoffInitial .. RetryBackoffMax
    BY <1>9, BackOffType DEF TakeRedirect
  <2>2. QED
    BY <1>9, <2>1, TakeStep DEF TakeRedirect, FollowNode
<1>10. CASE TakeNotReady
  BY <1>10, TakeStep, BackOffType DEF TakeNotReady
<1>11. QED
  BY <1>1, <1>2, <1>3, <1>4, <1>5, <1>6, <1>7, <1>8, <1>9, <1>10 DEF Next, Client

\* The client's state has its type throughout: it only ever calls nodes of its
\* group, though a node may name one it does not know, and its backoff and its
\* wait never exceed the cap.
THEOREM TypeCorrect == Spec => []TypeOK
<1>1. Init => TypeOK /\ NodesOK
  BY BackoffAssumption DEF Init, TypeOK, NodesOK
<1>2. TypeOK /\ NodesOK /\ [Next]_vars => TypeOK' /\ NodesOK'
  BY TypeStep
<1>3. QED
  BY <1>1, <1>2, PTL DEF Spec

=============================================================================
