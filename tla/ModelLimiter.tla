---------------------------- MODULE ModelLimiter ----------------------------
(* knowledge/modelLimiter.ts: one cap on the model calls in flight across the *)
(* files of a review. A rate limit halves the width, GrowEvery successes      *)
(* widen it by one; waiting calls start in order, and one whose signal has    *)
(* aborted is refused when its turn comes.                                    *)
EXTENDS Naturals, Sequences, FiniteSets

CONSTANTS Requests, Cap, GrowEvery

ASSUME LimiterAssumption == Cap \in Nat \ {0} /\ GrowEvery \in Nat \ {0}

VARIABLES
  width,      \* the calls allowed in flight
  successes,  \* since the width last changed
  line,       \* the waiting calls
  request,    \* where each call is; "settled" still counts as in flight
  revoked     \* the calls whose signal has aborted

limiterVars == <<width, successes, line, request, revoked>>

LimiterTypeOK ==
  /\ width \in 1..Cap /\ successes \in Nat
  /\ line \in Seq(Requests)
  /\ request \in [Requests -> {"new", "waiting", "running", "settled", "refused", "over"}]
  /\ revoked \subseteq Requests

LimiterInit ==
  /\ width = Cap /\ successes = 0 /\ line = <<>>
  /\ request = [q \in Requests |-> "new"] /\ revoked = {}

Active(state) == {q \in Requests : state[q] \in {"running", "settled"}}

\* Those at the head of the line that pump takes: until the width is reached,
\* counting the ones that are not revoked.
Live(queue, n) == {i \in 1..n : queue[i] \notin revoked}
Taken(queue, room) ==
  CHOOSE n \in 0..Len(queue) :
    /\ n = Len(queue) \/ Cardinality(Live(queue, n)) >= room
    /\ \A m \in 0..(n - 1) : Cardinality(Live(queue, m)) < room

\* Mutant of Pump: one call is started for one that ended.
PumpOne(queue, state) ==
  LET first == IF queue # <<>> /\ Cardinality(Active(state)) < width' THEN 1 ELSE 0
      gone == {queue[i] : i \in 1..first}
  IN /\ line' = SubSeq(queue, first + 1, Len(queue))
     /\ request' = [q \in Requests |-> IF q \notin gone THEN state[q]
                                       ELSE IF q \in revoked THEN "refused" ELSE "running"]

Pump(queue, state) ==
  LET active == Cardinality(Active(state))
      first == IF active < width' THEN Taken(queue, width' - active) ELSE 0
      gone == {queue[i] : i \in 1..first}
  IN /\ line' = SubSeq(queue, first + 1, Len(queue))
     /\ request' = [q \in Requests |-> IF q \notin gone THEN state[q]
                                       ELSE IF q \in revoked THEN "refused" ELSE "running"]

Run(q) ==
  /\ request[q] = "new"
  /\ UNCHANGED <<width, successes, revoked>>
  /\ Pump(Append(line, q), [request EXCEPT ![q] = "waiting"])

\* The call's answer, which its caller sees before its slot is free.
Answers(q) ==
  /\ request[q] = "running"
  /\ IF successes + 1 >= GrowEvery /\ width < Cap
       THEN width' = width + 1 /\ successes' = 0
       ELSE successes' = successes + 1 /\ UNCHANGED width
  /\ request' = [request EXCEPT ![q] = "settled"]
  /\ UNCHANGED <<line, revoked>>

RateLimited(q) ==
  /\ request[q] = "running"
  /\ width' = IF width = 1 THEN 1 ELSE width \div 2
  /\ successes' = 0
  /\ request' = [request EXCEPT ![q] = "settled"]
  /\ UNCHANGED <<line, revoked>>

Errs(q) ==
  /\ request[q] = "running"
  /\ request' = [request EXCEPT ![q] = "settled"]
  /\ UNCHANGED <<width, successes, line, revoked>>

Frees(q) ==
  /\ request[q] = "settled"
  /\ UNCHANGED <<width, successes, revoked>>
  /\ Pump(line, [request EXCEPT ![q] = "over"])

Revoke(q) ==
  /\ q \notin revoked
  /\ revoked' = revoked \union {q}
  /\ UNCHANGED <<width, successes, line, request>>

LimiterNext == \E q \in Requests :
  Run(q) \/ Answers(q) \/ RateLimited(q) \/ Errs(q) \/ Frees(q) \/ Revoke(q)

LimiterSpec == LimiterInit /\ [][LimiterNext]_limiterVars

-----------------------------------------------------------------------------
(* Properties.                                                                *)

\* No slot stays idle while a call waits, whatever the width did while calls
\* were running, and never are more than the cap in flight; a call that waits is
\* in the line, once.
SlotsAreUsed ==
  LET busy == Active(request) IN
  /\ Cardinality(busy) <= Cap
  /\ line # <<>> /\ (\A q \in Requests : request[q] # "settled") => Cardinality(busy) >= width
  /\ \A q \in Requests :
       Cardinality({i \in DOMAIN line : line[i] = q}) = IF request[q] = "waiting" THEN 1 ELSE 0

-----------------------------------------------------------------------------
(* The inductive invariant.                                                   *)

\* The line has every waiting call, once.
InLine(queue, state) ==
  /\ \A q \in Requests : state[q] = "waiting" <=> \E i \in DOMAIN queue : queue[i] = q
  /\ \A i, j \in DOMAIN queue : queue[i] = queue[j] => i = j

LimiterInv ==
  /\ LimiterTypeOK /\ InLine(line, request)
  /\ IsFiniteSet(Active(request)) /\ Cardinality(Active(request)) <= Cap
  /\ line # <<>> /\ (\A q \in Requests : request[q] # "settled") =>
       Cardinality(Active(request)) >= width
=============================================================================
