------------------------------ MODULE RateLimiter ------------------------------
(***************************************************************************)
(* The token bucket of one client: RateLimiter.check (app/api/governance.py)*)
(* over MissionStore.rate_limit_take (app/storage/sqlite_store.py), as     *)
(* _enforce_rate_limit and create_mission (app/main.py) call them.         *)
(*                                                                         *)
(* A request reads the clock before it takes the lock, so two requests may *)
(* reach the bucket in the other order: the later one is then charged with *)
(* the earlier time.  The store computes the elapsed time, never below 0,  *)
(* and writes the time it was given.                                       *)
(***************************************************************************)
EXTENDS Naturals, Sequences

CONSTANTS Callers,      \* concurrent requests of the client
          Burst,        \* capacity of the bucket
          Refill,       \* tokens that one unit of time brings
          TimeBound,    \* bound: units of time
          GrantBound    \* bound: requests admitted

ASSUME RateAssumption == /\ Burst \in Nat \ {0} /\ Refill \in Nat \ {0}
                         /\ TimeBound \in Nat /\ GrantBound \in Nat

VARIABLES time,      \* the clock
          readAt,    \* caller -> <<the time it has read>>, or <<>>
          tokens,    \* rate_limit_buckets.tokens
          updatedAt, \* rate_limit_buckets.updated_at
          stored,    \* is there a row for the bucket?
          granted,   \* requests admitted so far
          rewound    \* by how much updated_at went back, over all takes

rateVars == <<time, readAt, tokens, updatedAt, stored, granted, rewound>>

RateInit == /\ time = 0 /\ readAt = [c \in Callers |-> <<>>]
            /\ tokens = 0 /\ updatedAt = 0 /\ stored = FALSE
            /\ granted = 0 /\ rewound = 0

Tick == /\ time < TimeBound /\ time' = time + 1
        /\ UNCHANGED <<readAt, tokens, updatedAt, stored, granted, rewound>>

\* check: the configuration is resolved, the clock is read, the lock is waited for.
ReadClock(c) ==
  /\ readAt[c] = <<>> /\ granted < GrantBound
  /\ readAt' = [readAt EXCEPT ![c] = <<time>>]
  /\ UNCHANGED <<time, tokens, updatedAt, stored, granted, rewound>>

Least(a, b) == IF a <= b THEN a ELSE b
Elapsed(now) == IF now > updatedAt THEN now - updatedAt ELSE 0

\* The level of the bucket: full at first, then refilled up to the capacity.
Level(now) == IF stored THEN Least(Burst, tokens + Elapsed(now) * Refill) ELSE Burst

\* Mutant: a refused request leaves the bucket as refilled but dated as before.
TakeUndated(c) ==
  /\ readAt[c] # <<>>
  /\ LET now == readAt[c][1] IN
     /\ IF Level(now) >= 1 THEN /\ tokens' = Level(now) - 1
                                /\ granted' = granted + 1
                           ELSE /\ tokens' = Level(now) /\ granted' = granted
     /\ updatedAt' = updatedAt
     /\ rewound' = rewound
  /\ stored' = TRUE
  /\ readAt' = [readAt EXCEPT ![c] = <<>>]
  /\ UNCHANGED time

\* rate_limit_take: one transaction.
Take(c) ==
  /\ readAt[c] # <<>>
  /\ LET now == readAt[c][1] IN
     /\ IF Level(now) >= 1 THEN /\ tokens' = Level(now) - 1
                                /\ granted' = granted + 1
                           ELSE /\ tokens' = Level(now) /\ granted' = granted
     /\ updatedAt' = now
     /\ rewound' = rewound + (IF stored /\ now < updatedAt THEN updatedAt - now ELSE 0)
  /\ stored' = TRUE
  /\ readAt' = [readAt EXCEPT ![c] = <<>>]
  /\ UNCHANGED time

RateNext == Tick \/ \E c \in Callers : ReadClock(c) \/ Take(c)

RateSpec == RateInit /\ [][RateNext]_rateVars

-----------------------------------------------------------------------------
(* Properties.                                                             *)

\* The bucket is never over its capacity and never dated in the future
\* (the row of rate_limit_buckets).
RateTypeOK == /\ tokens \in 0..Burst /\ updatedAt \in 0..time /\ time \in 0..TimeBound
              /\ granted \in Nat /\ rewound \in Nat
              /\ readAt \in [Callers -> {<<>>} \cup {<<t>> : t \in 0..time}]

\* From the first request on, the client gets its burst and what the time brings,
\* and no more than that, except for the time by which a request that waited for
\* the lock set updated_at back: that time is refilled twice (governance.py:134).
BurstBounded == stored => granted <= Burst + Refill * (time + rewound)

=============================================================================
