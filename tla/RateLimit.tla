----------------------------- MODULE RateLimit -----------------------------
(* The two rate limiters, of the routes by address                           *)
(* (middleware/rateLimiter.ts) and of a tenant with a configured limit       *)
(* (services/TenantQuotaService.ts, api/quota.ts).                           *)
(* Both count in a window that begins with the first request after the last  *)
(* one has passed. A tick is the unit of time. `granted` and `highest` are   *)
(* history.                                                                  *)
EXTENDS Integers

CONSTANTS RouteMax,     \* requests per window of the routes, and the tenants' default
          Limits,       \* limits a tenant can be given
          Window,       \* windowMs in ticks
          MaxTime,      \* bound: ticks
          MaxPerTick    \* bound: requests to one limiter in a tick

VARIABLES now,
          entry,        \* each limiter's count and the tick its window ends
          quota,        \* the tenant's configured limit, or NoQuota
          asked,        \* requests to each limiter in this tick
          granted,      \* how many each let through from a tick on, for a window's length
          highest       \* the highest limit each limiter has had in its time

vars == <<now, entry, quota, asked, granted, highest>>

Limiters == {"route", "tenant"}
NoQuota == -1
NoEntry == [count |-> 0, resetAt |-> -1]
Times == 0..MaxTime
Span(t) == t..(t + Window)

Init ==
  /\ now = 0
  /\ entry = [k \in Limiters |-> NoEntry]
  /\ quota = NoQuota
  /\ asked = [k \in Limiters |-> 0]
  /\ granted = [k \in Limiters |-> [t \in Times |-> 0]]
  /\ highest = [k \in Limiters |-> RouteMax]

\* One more hit: a passed window is replaced by one that begins now.
Hit(e) ==
  IF now > e.resetAt THEN [count |-> 1, resetAt |-> now + Window]
  ELSE [e EXCEPT !.count = @ + 1]

\* The first request of a window is let through without a look at the limit.
Request(k, max) ==
  /\ asked[k] < MaxPerTick
  /\ asked' = [asked EXCEPT ![k] = @ + 1]
  /\ entry' = [entry EXCEPT ![k] = Hit(@)]
  /\ granted' = IF now > entry[k].resetAt \/ entry[k].count + 1 <= max
                THEN [granted EXCEPT ![k] =
                        [t \in Times |-> IF now \in Span(t) THEN @[t] + 1 ELSE @[t]]]
                ELSE granted
  /\ UNCHANGED <<now, quota, highest>>

\* createRateLimiter's middleware.
LimitRoute == Request("route", RouteMax)

\* checkRateLimit.
CheckRateLimit == Request("tenant", IF quota = NoQuota THEN RouteMax ELSE quota)

\* Mutant: a new limit begins a new window.
SetQuotaAnew(limit) ==
  /\ quota' = limit
  /\ highest' = [highest EXCEPT !["tenant"] = IF limit > @ THEN limit ELSE @]
  /\ entry' = [entry EXCEPT !["tenant"] = NoEntry]
  /\ UNCHANGED <<now, asked, granted>>

\* PUT and DELETE of a tenant's quota leave the window alone.
SetQuota(limit) ==
  /\ quota' = limit
  /\ highest' = [highest EXCEPT !["tenant"] = IF limit > @ THEN limit ELSE @]
  /\ UNCHANGED <<now, entry, asked, granted>>

DeleteQuota ==
  /\ quota # NoQuota
  /\ quota' = NoQuota
  /\ UNCHANGED <<now, entry, asked, granted, highest>>

Tick ==
  /\ now < MaxTime
  /\ now' = now + 1
  /\ asked' = [k \in Limiters |-> 0]
  /\ UNCHANGED <<entry, quota, granted, highest>>

Next ==
  \/ LimitRoute \/ CheckRateLimit
  \/ \E limit \in Limits : SetQuota(limit)
  \/ DeleteQuota \/ Tick

Spec == Init /\ [][Next]_vars

\* The comments call the window sliding. It is not: a span of one window's length may
\* hold the requests of two, and never more, however often the limit is changed. A
\* limit of zero lets one request through.
AtMostTwice ==
  \A k \in Limiters, t \in Times :
    granted[k][t] <= 2 * (IF highest[k] = 0 THEN 1 ELSE highest[k])
=============================================================================
