------------------------------- MODULE RateLimits ------------------------------
(***************************************************************************)
(* The two rate limits of the server, in one worker: rate_limit of the      *)
(* dashboard, whose views have limits of their own but share one list of    *)
(* times per user, and the throttle of the ingest API, with a list per rig, *)
(* together with the agent that sends its reports to that worker.  Both     *)
(* lists live in the worker's cache.  The other workers have lists of their *)
(* own, and what they serve does not count here.                            *)
(*                                                                          *)
(* Time passes in ticks of a few seconds.                                   *)
(***************************************************************************)
EXTENDS Integers, Sequences, FiniteSets, Functions

CONSTANTS
    Window,        \* window_s, and the minute of the throttle rates
    Period,        \* cron starts the agent once per Period
    Spread,        \* jitter and collection: when in its period a run has sent its report
    IngestRate,    \* the rate of scope ingest
    Limit,         \* Limit[v]: max_requests of a view of the dashboard
    Attempts,      \* retry_attempts of the agent
    MaxEvictions   \* bound: entries the cache drops

ASSUME LimitAssumption ==
    /\ Window \in Nat \ {0} /\ Period \in Nat \ {0} /\ Spread \in 0 .. Period - 1
    /\ IngestRate \in Nat \ {0} /\ Attempts \in Nat \ {0} /\ MaxEvictions \in Nat
    /\ \A v \in DOMAIN Limit : Limit[v] \in Nat \ {0}
    /\ \E v \in DOMAIN Limit : \A w \in DOMAIN Limit : Limit[w] <= Limit[v]

\* The throttle counts by the minute, cron starts the agent every minute, and the
\* rate leaves room for a repeated report.
ASSUME RateAssumption == Window <= Period /\ IngestRate >= 2

VARIABLES
    stamps,   \* stamps[key]: the list in the cache, as ages, oldest first
    served,   \* history: all that was served in the last Window
    phase,    \* the time since cron started the last run of the agent
    agent,    \* the attempts the run of the agent has left
    refused,  \* history: the last refusal
    evicted   \* entries dropped from the cache

rlVars == <<stamps, served, phase, agent, refused, evicted>>

Key  == {"user", "rig"}
View == DOMAIN Limit

\* A served request: how long ago, and whether its client got the answer.
Stamp == [age : 0 .. Window - 1, answered : BOOLEAN]

\* A refusal is early when its list was not used up, and unprovoked when a rig
\* whose reports were all answered is refused.
Verdict(key, limit) ==
    CASE Len(served[key]) < limit -> "early"
      [] key = "rig" /\ \A i \in DOMAIN served[key] : served[key][i].answered -> "unprovoked"
      [] OTHER -> "due"

Init ==
    /\ stamps = [k \in Key |-> <<>>]
    /\ served = [k \in Key |-> <<>>]
    /\ phase = 0
    /\ agent = Attempts
    /\ refused = "none"
    /\ evicted = 0

-----------------------------------------------------------------------------
\* Mutant: one more than the limit is served.
MayServeMore(key, limit) == Len(stamps[key]) <= limit

\* A request for which limit has been served within the window is refused, and
\* leaves no trace in the list.
MayServe(key, limit) == Len(stamps[key]) < limit

Recorded(lists, key, answered) ==
    [lists EXCEPT ![key] = Append(@, [age |-> 0, answered |-> answered])]

Serve(key, answered) ==
    /\ stamps' = Recorded(stamps, key, answered)
    /\ served' = Recorded(served, key, answered)
    /\ UNCHANGED refused

\* Mutant: the time is appended before the list is measured.
RefuseCounted(key, limit) ==
    /\ refused' = Verdict(key, limit)
    /\ stamps' = Recorded(stamps, key, TRUE)
    /\ UNCHANGED served

Refuse(key, limit) ==
    /\ refused' = Verdict(key, limit)
    /\ UNCHANGED <<stamps, served>>

\* rate_limit around a view of the dashboard
RequestView(v) ==
    /\ IF MayServe("user", Limit[v]) THEN Serve("user", TRUE) ELSE Refuse("user", Limit[v])
    /\ UNCHANGED <<phase, agent, evicted>>

\* Mutant: an answer does not end the loop.
AttemptAgain(answered) ==
    /\ agent > 0
    /\ IF MayServe("rig", IngestRate)
       THEN Serve("rig", answered) /\ agent' = agent - 1
       ELSE Refuse("rig", IngestRate) /\ agent' = 0
    /\ UNCHANGED <<phase, evicted>>

\* send_payload: an attempt that reaches the server is refused, answered, or
\* times out although it was served; then the next attempt follows.
Attempt(answered) ==
    /\ agent > 0
    /\ IF MayServe("rig", IngestRate)
       THEN /\ Serve("rig", answered)
            /\ agent' = IF answered THEN 0 ELSE agent - 1
       ELSE /\ Refuse("rig", IngestRate)
            /\ agent' = 0
    /\ UNCHANGED <<phase, evicted>>

\* An attempt that does not reach the server; the last one ends the run.
Unreachable ==
    /\ agent > 0
    /\ agent' = agent - 1
    /\ UNCHANGED <<stamps, served, phase, refused, evicted>>

\* Without its oldest n entries, and a tick later.
Older(list, n) == [i \in 1 .. Len(list) - n |-> [list[i + n] EXCEPT !.age = @ + 1]]

\* Mutant: the end of the window is inclusive.
AgedLate(list) == Older(list, Cardinality({i \in DOMAIN list : list[i].age = Window}))

\* The times of a list that are still within the window, a tick later.
Aged(list) == Older(list, Cardinality({i \in DOMAIN list : list[i].age = Window - 1}))

\* The alarm ends a run that has not sent by then, and cron starts the next.
Tick ==
    /\ stamps' = [k \in Key |-> Aged(stamps[k])]
    /\ served' = [k \in Key |-> Aged(served[k])]
    /\ phase' = (phase + 1) % Period
    /\ agent' = CASE phase' = 0     -> Attempts
                  [] phase = Spread -> 0
                  [] OTHER          -> agent
    /\ UNCHANGED <<refused, evicted>>

\* A full cache drops entries, and a restart of the worker drops all of them.
Evict(key) ==
    /\ stamps[key] # <<>> /\ evicted < MaxEvictions
    /\ stamps' = [stamps EXCEPT ![key] = <<>>]
    /\ evicted' = evicted + 1
    /\ UNCHANGED <<served, phase, agent, refused>>

Next ==
    \/ \E v \in View : RequestView(v)
    \/ \E answered \in BOOLEAN : Attempt(answered)
    \/ Unreachable \/ Tick
    \/ \E key \in Key : Evict(key)

Spec == Init /\ [][Next]_rlVars

-----------------------------------------------------------------------------
LimitsTypeOK ==
    /\ stamps \in [Key -> Seq(Stamp)] /\ served \in [Key -> Seq(Stamp)]
    /\ phase \in 0 .. Period - 1
    /\ agent \in 0 .. Attempts
    /\ refused \in {"none", "early", "unprovoked", "due"}
    /\ evicted \in 0 .. MaxEvictions

\* Whoever is refused was served as often as the limit of the view allows
\* within the window: to ask again too early does not prolong the refusal.
RefusalsDoNotCount == refused # "early"

MaxLimit(key) == IF key = "rig" THEN IngestRate
                 ELSE CHOOSE n \in Range(Limit) : \A m \in Range(Limit) : m <= n

\* A worker serves no user and no rig more than the largest limit within any
\* window, except that an entry the cache dropped starts a new count.
BurstBounded ==
    \A key \in Key : Len(served[key]) <= (1 + evicted) * MaxLimit(key)

\* An agent that is answered at its first attempt every minute is never
\* refused, whatever its jitter, even if all its reports go to one worker: only
\* attempts whose answer was lost use up the rate of the next report.
AnsweredAgentIsServed == refused # "unprovoked"

\* The limits hold, and refuse only who has used them up (rate_limit and
\* RigIngestThrottle).
LimitsHold == BurstBounded /\ RefusalsDoNotCount /\ AnsweredAgentIsServed
================================================================================
