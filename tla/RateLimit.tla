------------------------------ MODULE RateLimit ------------------------------
(***************************************************************************)
(* The gateway's token bucket (infra/gateway/middleware/rate_limit.py):    *)
(* one Redis key rl:{sub}:{target_agent} and the requests that share it.   *)
(*                                                                         *)
(* The middleware reads time.time(), then awaits a Lua script that refills *)
(* and charges the bucket for the stamp it was given.  The script is       *)
(* atomic, but scripts run in the order in which they reach Redis, so a    *)
(* stamp may be older than the one the bucket was last refilled to: the    *)
(* refill is then negative, and the bucket goes back in time.              *)
(*                                                                         *)
(* Tokens are counted in whole tokens and time in units in which Refill    *)
(* tokens arrive.                                                          *)
(***************************************************************************)
EXTENDS Integers

CONSTANTS
  Requests,  \* the requests of one caller to one agent
  Capacity,  \* settings.rate_limit_capacity
  Refill,    \* settings.rate_limit_refill_rate
  KeyTtl,    \* EXPIRE of the script
  MaxTime    \* bound on the clock

ASSUME RateAssumption ==
  /\ Capacity \in Nat \ {0}
  /\ Refill \in Nat
  /\ KeyTtl \in Nat \ {0}
  /\ MaxTime \in Nat

VARIABLES
  clock,     \* time.time()
  pc,        \* where each request is
  stamp,     \* its local variable now
  key,       \* whether the Redis key exists
  tokens,    \* its field tokens
  last,      \* its field last_refill
  expiresAt, \* when Redis drops it
  \* history variables, of the present life of the key
  high,      \* the latest stamp the bucket has seen
  total,     \* requests the bucket let through
  first,     \* the stamp the bucket stood at when a watch began
  admitted,  \* requests the bucket let through during the watch
  refusals   \* 429 answers: [req, stamp, high, total]

bucket == <<key, tokens, last, expiresAt>>
history == <<high, total, first, admitted, refusals>>
BucketVars == <<clock, pc, stamp, bucket, history>>

BucketTypeOK ==
  /\ clock \in 0 .. MaxTime
  /\ pc \in [Requests -> {"idle", "eval", "passed", "limited"}]
  /\ stamp \in [Requests -> 0 .. MaxTime]
  /\ key \in {"absent", "present"}
  /\ tokens \in Int
  /\ last \in 0 .. MaxTime
  /\ expiresAt \in Nat
  /\ high \in 0 .. MaxTime
  /\ total \in Nat
  /\ first \in 0 .. MaxTime
  /\ admitted \in Nat
  /\ refusals \in SUBSET [req : Requests, stamp : Nat, high : Nat, total : Nat]

BucketInit ==
  /\ clock = 0
  /\ pc = [r \in Requests |-> "idle"]
  /\ stamp = [r \in Requests |-> 0]
  /\ key = "absent"
  /\ tokens = 0
  /\ last = 0
  /\ expiresAt = 0
  /\ high = 0
  /\ total = 0
  /\ first = 0
  /\ admitted = 0
  /\ refusals = {}

-----------------------------------------------------------------------------
\* rate_limit_middleware up to the await: the request's time is read.
Enter(r) ==
  /\ pc[r] = "idle"
  /\ pc' = [pc EXCEPT ![r] = "eval"]
  /\ stamp' = [stamp EXCEPT ![r] = clock]
  /\ UNCHANGED <<clock, bucket, history>>

(***************************************************************************)
(* The script.                                                             *)
(***************************************************************************)
Least(x, y) == IF x <= y THEN x ELSE y
Greatest(x, y) == IF x >= y THEN x ELSE y

\* Faulty variant: the distance of the stamps, whichever is later.
LevelByDistance(now) ==
  IF key = "absent" THEN Capacity
  ELSE Least(Capacity,
             tokens + (Greatest(now, last) - Least(now, last)) * Refill)

\* The tokens there are for a request stamped now, before its cost.
Level(now) ==
  IF key = "absent" THEN Capacity
  ELSE Least(Capacity, tokens + (now - last) * Refill)

\* The tokens left after it.
Charged(now) == IF Level(now) < 1 THEN Level(now) ELSE Level(now) - 1

\* HMSET, EXPIRE and the history.
Script(r) ==
  LET now == stamp[r]
      win == IF Level(now) < 1 THEN 0 ELSE 1
  IN
  /\ key' = "present"
  /\ tokens' = Charged(now)
  /\ last' = now
  /\ expiresAt' = clock + KeyTtl
  /\ high' = IF key = "absent" THEN now ELSE Greatest(high, now)
  /\ total' = total + win
  /\ first' = IF key = "absent" THEN now ELSE first
  /\ admitted' = admitted + win

Refusal(r) ==
  [req |-> r, stamp |-> stamp[r], high |-> high', total |-> total]

\* The script's answer arrives, and the request goes on or gets a 429.
Eval(r) ==
  /\ pc[r] = "eval"
  /\ Script(r)
  /\ \/ /\ Level(stamp[r]) >= 1
        /\ pc' = [pc EXCEPT ![r] = "passed"]
        /\ UNCHANGED refusals
     \/ /\ Level(stamp[r]) < 1
        /\ pc' = [pc EXCEPT ![r] = "limited"]
        /\ refusals' = refusals \cup {Refusal(r)}
  /\ UNCHANGED <<clock, stamp>>

\* Redis fails, before or after the script ran: the request goes on.
EvalError(r) ==
  /\ pc[r] = "eval"
  /\ pc' = [pc EXCEPT ![r] = "passed"]
  /\ \/ /\ Script(r)
        /\ UNCHANGED <<clock, stamp, refusals>>
     \/ UNCHANGED <<clock, stamp, bucket, history>>

-----------------------------------------------------------------------------
\* Redis drops a key nobody used for KeyTtl.
BucketExpire ==
  /\ key = "present"
  /\ clock >= expiresAt
  /\ key' = "absent"
  /\ tokens' = 0 /\ last' = 0 /\ expiresAt' = 0
  /\ high' = 0 /\ total' = 0 /\ first' = 0 /\ admitted' = 0
  /\ UNCHANGED <<clock, pc, stamp, refusals>>

\* Not a step of the code: an observer starts to count, at any moment.
Watch ==
  /\ key = "present"
  /\ first' = last
  /\ admitted' = 0
  /\ UNCHANGED <<clock, pc, stamp, bucket, high, total, refusals>>

BucketTick ==
  /\ clock < MaxTime
  /\ clock' = clock + 1
  /\ UNCHANGED <<pc, stamp, bucket, history>>

BucketNext ==
  \/ \E r \in Requests : Enter(r) \/ Eval(r) \/ EvalError(r)
  \/ BucketExpire \/ Watch \/ BucketTick

BucketSpec == BucketInit /\ [][BucketNext]_BucketVars

-----------------------------------------------------------------------------
(***************************************************************************)
(* Properties.                                                             *)
(***************************************************************************)

\* config.py:113-119: from whatever moment one counts, the bucket lets through
\* at most a burst of Capacity and Refill for every unit of time that its stamps
\* cover, although stamps reach Redis in any order and the bucket's own time
\* moves backward with them.
RateBound == admitted <= Capacity + Refill * (high - first)

\* A bucket refuses nobody before it has let Capacity requests through, except
\* a request that was overtaken on its way to Redis, for which the deficit is at
\* most the refill of the time by which it was overtaken.
RefusalJustified ==
  \A x \in refusals : x.total + Refill * (x.high - x.stamp) >= Capacity

\* The bucket errs on neither side: nobody beyond the rate, and nobody turned away
\* for nothing, though stamps are read before the script runs (rate_limit.py:54-66).
BucketHonest == RateBound /\ RefusalJustified

-----------------------------------------------------------------------------
(***************************************************************************)
(* Inductive invariant.  The first bound is the potential argument: an     *)
(* evaluation never raises tokens - Refill * last, and an admission lowers *)
(* it by one.                                                              *)
(***************************************************************************)
Bounded ==
  key = "present" =>
    /\ last <= high
    /\ tokens <= Capacity
    /\ admitted + tokens - Refill * (last - first) <= Capacity
    /\ tokens + Refill * (high - last) >= 0
    /\ tokens + Refill * (high - last) >= Capacity - total

Blank == key = "absent" => admitted = 0 /\ total = 0 /\ first = high

BucketIInv == BucketTypeOK /\ Bounded /\ Blank /\ RefusalJustified
=============================================================================
