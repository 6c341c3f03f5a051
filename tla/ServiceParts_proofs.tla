------------------------- MODULE ServiceParts_proofs -------------------------
(***************************************************************************)
(* Proofs about parts that share no state: the rate limiter, for every     *)
(* capacity, refill rate and number of requests; the circuit breaker, for  *)
(* any finite set of calls and any threshold, duration and probe budget;   *)
(* and what the audit API answers, for any table, limit, number of clients *)
(* and size of their queues, and any trace.                                *)
(***************************************************************************)
EXTENDS MCServiceParts, PlanExec_proofs, FiniteSetTheorems, WellFoundedInduction

-----------------------------------------------------------------------------
(***************************************************************************)
(* The rate limiter                                                        *)
(***************************************************************************)

\* Products grow with a factor: the arithmetic of elapsed time.
LEMMA Scale ==
  ASSUME NEW f \in Nat, NEW x \in Int, NEW y \in Int, x <= y
  PROVE  f * x <= f * y
  OBVIOUS

\* The potential argument of Bounded, with the products named: N, L, H, G stand
\* for Refill times the request's stamp, the bucket's, and the latest stamp
\* before and after.
LEMMA Potential ==
  ASSUME NEW t \in Int, NEW v \in Int, NEW c \in Nat, NEW sum \in Nat,
         NEW N \in Int, NEW L \in Int, NEW H \in Int, NEW G \in Int,
         v = c \/ v = t + (N - L), H <= G, N <= G,
         t + (H - L) >= 0, t + (H - L) >= c - sum
  PROVE  v + (G - N) >= 0 /\ v + (G - N) >= c - sum
  OBVIOUS

\* An absent key owes nothing and has promised nothing.
LEMMA BucketInitIInv == BucketInit => BucketIInv
  BY RateAssumption
  DEF RateAssumption, BucketInit, BucketIInv, BucketTypeOK, Bounded, Blank, RefusalJustified

(***************************************************************************)
(* What one run of the script does.  v is what the bucket holds for the    *)
(* request, before its cost.                                               *)
(***************************************************************************)
\* The script keeps the bounds, and refuses only what RefusalJustified allows.
LEMMA ScriptBounded ==
  ASSUME BucketIInv, NEW r \in Requests, Script(r)
  PROVE  /\ Bounded' /\ Blank'
         /\ Level(stamp[r]) < 1 => total + Refill * (high' - stamp[r]) >= Capacity
PROOF
  <1> DEFINE n == stamp[r]
             v == Level(n)
             win == IF v < 1 THEN 0 ELSE 1
  <1>t. /\ n \in Nat /\ tokens \in Int /\ last \in Nat /\ high \in Nat
        /\ total \in Nat /\ admitted \in Nat /\ first \in Nat
        /\ Refill \in Nat /\ Capacity \in Nat \ {0} /\ MaxTime \in Nat
    BY RateAssumption DEF RateAssumption, BucketIInv, BucketTypeOK
  <1>1. /\ key' = "present" /\ last' = n
        /\ tokens' = IF v < 1 THEN v ELSE v - 1
        /\ high' = IF key = "absent" THEN n ELSE Greatest(high, n)
        /\ total' = total + win
        /\ first' = IF key = "absent" THEN n ELSE first
        /\ admitted' = admitted + win
    BY DEF Script, Charged
  <1>2. Blank'
    BY <1>1 DEF Blank
  <1>3. CASE key = "absent"
    <2>1. v = Capacity /\ win = 1
      BY <1>3, <1>t DEF Level
    <2>2. total = 0 /\ admitted = 0
      BY <1>3 DEF BucketIInv, Blank
    <2>3. Bounded'
      <3>1. /\ last' = n /\ high' = n /\ first' = n /\ tokens' = Capacity - 1
            /\ total' = 1 /\ admitted' = 1
        BY <1>1, <1>3, <2>1, <2>2
      <3>2. Refill * (n - n) = 0
        BY <1>t
      <3> QED
        BY <1>t, <3>1, <3>2 DEF Bounded
    <2> QED
      BY <1>t, <1>2, <2>1, <2>3
  <1>4. CASE key = "present"
    <2>0. v \in Int
      BY <1>4, <1>t DEF Level, Least
    <2>1. /\ last <= high /\ tokens <= Capacity
          /\ admitted + tokens - Refill * (last - first) <= Capacity
          /\ tokens + Refill * (high - last) >= 0
          /\ tokens + Refill * (high - last) >= Capacity - total
      BY <1>4 DEF BucketIInv, Bounded
    <2>2. /\ v <= Capacity
          /\ v <= tokens + (n - last) * Refill
          /\ v = Capacity \/ v = tokens + (n - last) * Refill
      BY <1>4, <1>t DEF Level, Least
    <2>3. /\ high' \in Nat /\ high <= high' /\ n <= high' /\ first' = first
      BY <1>1, <1>4, <1>t DEF Greatest
    <2>4. /\ (n - last) * Refill = Refill * n - Refill * last
          /\ Refill * (last - first) = Refill * last - Refill * first
          /\ Refill * (n - first) = Refill * n - Refill * first
          /\ Refill * (high - last) = Refill * high - Refill * last
          /\ Refill * (high' - n) = Refill * high' - Refill * n
      BY <1>t, <2>3
    <2>5. /\ Refill * high \in Int /\ Refill * n \in Int /\ Refill * last \in Int
          /\ Refill * first \in Int /\ Refill * high' \in Int
          /\ Refill * high <= Refill * high'
          /\ Refill * n <= Refill * high'
      <3>0. /\ high \in Int /\ high' \in Int /\ n \in Int /\ Refill \in Nat
            /\ high <= high' /\ n <= high'
        BY <1>t, <2>3
      <3> HIDE DEF n
      <3>1. Refill * high <= Refill * high' /\ Refill * n <= Refill * high'
        BY ONLY <3>0, Scale
      <3>2. /\ Refill * high \in Int /\ Refill * n \in Int
            /\ Refill * last \in Int
            /\ Refill * first \in Int /\ Refill * high' \in Int
        BY <1>t, <2>3
      <3> QED
        BY <3>1, <3>2
    <2>6. admitted + v - Refill * (n - first) <= Capacity
      BY <1>t, <2>0, <2>1, <2>2, <2>4, <2>5
    <2>7. /\ v + Refill * (high' - n) >= 0
          /\ v + Refill * (high' - n) >= Capacity - total
      <3>1. /\ v = Capacity \/ v = tokens + (Refill * n - Refill * last)
            /\ tokens + (Refill * high - Refill * last) >= 0
            /\ tokens + (Refill * high - Refill * last) >= Capacity - total
        BY <2>1, <2>2, <2>4
      <3> QED
        BY <1>t, <2>0, <2>4, <2>5, <3>1, Potential
    <2>8. Bounded'
      <3>1. CASE v < 1
        <4>1. tokens' = v /\ total' = total /\ admitted' = admitted
          BY <1>1, <1>t, <2>0, <3>1
        <4> QED
          BY <1>1, <2>2, <2>3, <2>6, <2>7, <4>1 DEF Bounded
      <3>2. CASE v >= 1
        <4>1. /\ tokens' = v - 1 /\ total' = total + 1
              /\ admitted' = admitted + 1
          BY <1>1, <1>t, <2>0, <3>2
        <4>2. Refill * (high' - n) \in Nat
          BY <1>t, <2>3, <2>4, <2>5
        <4>3. Refill * (n - first) \in Int
          BY <2>4, <2>5
        <4> DEFINE gap == Refill * (high' - n)
                   apart == Refill * (n - first)
        <4>4. admitted + v - apart <= Capacity /\ v + gap >= Capacity - total
          BY <2>6, <2>7
        <4> HIDE DEF v, gap, apart
        <4>5. /\ (admitted + 1) + (v - 1) - apart <= Capacity
              /\ (v - 1) + gap >= 0
              /\ (v - 1) + gap >= Capacity - (total + 1)
              /\ v - 1 <= Capacity
          BY <1>t, <2>0, <2>2, <3>2, <4>2, <4>3, <4>4 DEF gap, apart
        <4> QED
          BY <1>1, <2>3, <4>1, <4>5 DEF Bounded, gap, apart
      <3> QED
        BY <2>0, <3>1, <3>2
    <2>9. v < 1 => total + Refill * (high' - n) >= Capacity
      BY <1>t, <2>0, <2>4, <2>5, <2>7
    <2> QED
      BY <1>2, <2>8, <2>9
  <1>5. key \in {"absent", "present"}
    BY DEF BucketIInv, BucketTypeOK
  <1> QED
    BY <1>3, <1>4, <1>5

\* The script keeps its variables in their types.
LEMMA ScriptTyped ==
  ASSUME BucketTypeOK, NEW r \in Requests, Script(r)
  PROVE  /\ key' \in {"absent", "present"} /\ tokens' \in Int
         /\ last' \in 0 .. MaxTime /\ expiresAt' \in Nat
         /\ high' \in 0 .. MaxTime /\ total' \in Nat
         /\ first' \in 0 .. MaxTime /\ admitted' \in Nat
PROOF
  <1>1. Level(stamp[r]) \in Int
    BY RateAssumption DEF RateAssumption, BucketTypeOK, Level, Least
  <1> QED
    BY <1>1, RateAssumption
    DEF RateAssumption, BucketTypeOK, Script, Charged, Greatest

\* Every step of the script, of Redis and of the clock keeps the bounds (rate_limit.py).
LEMMA BucketNextIInv == BucketIInv /\ [BucketNext]_BucketVars => BucketIInv'
PROOF
  <1> SUFFICES ASSUME BucketIInv, [BucketNext]_BucketVars PROVE BucketIInv'
    OBVIOUS
  <1> USE RateAssumption
  <1>1. ASSUME NEW r \in Requests, Enter(r) PROVE BucketIInv'
    BY <1>1
    DEF Enter, RateAssumption, BucketIInv, BucketTypeOK, Bounded, Blank, RefusalJustified,
        bucket, history
  <1>2. ASSUME NEW r \in Requests, Eval(r) PROVE BucketIInv'
    <2>1. Script(r) /\ BucketTypeOK /\ UNCHANGED <<clock, stamp>>
      BY <1>2 DEF Eval, BucketIInv
    <2>2. /\ Bounded' /\ Blank'
          /\ Level(stamp[r]) < 1 =>
               total + Refill * (high' - stamp[r]) >= Capacity
      BY <2>1, ScriptBounded
    <2>3. /\ Refusal(r) \in [req : Requests, stamp : Nat, high : Nat,
                             total : Nat]
          /\ Refusal(r).total = total /\ Refusal(r).high = high'
          /\ Refusal(r).stamp = stamp[r]
      <3>1. /\ high' \in Nat /\ total \in Nat /\ stamp[r] \in Nat
        BY <2>1, ScriptTyped DEF RateAssumption, BucketTypeOK
      <3> QED
        BY <3>1 DEF Refusal
    <2>4. BucketTypeOK'
      <3>1. refusals' \subseteq [req : Requests, stamp : Nat, high : Nat,
                                total : Nat]
        BY <1>2, <2>1, <2>3 DEF Eval, BucketTypeOK
      <3>2. pc' \in [Requests -> {"idle", "eval", "passed", "limited"}]
        BY <1>2, <2>1 DEF Eval, BucketTypeOK
      <3> QED
        BY <2>1, <3>1, <3>2, ScriptTyped DEF BucketTypeOK
    <2>5. RefusalJustified'
      BY <1>2, <2>2, <2>3 DEF Eval, BucketIInv, RefusalJustified
    <2> QED
      BY <2>2, <2>4, <2>5 DEF BucketIInv
  <1>3. ASSUME NEW r \in Requests, EvalError(r) PROVE BucketIInv'
    <2>1. pc' \in [Requests -> {"idle", "eval", "passed", "limited"}]
      BY <1>3 DEF EvalError, BucketIInv, BucketTypeOK
    <2>2. CASE Script(r) /\ UNCHANGED <<clock, stamp, refusals>>
      <3>1. BucketTypeOK'
        BY <2>1, <2>2, ScriptTyped DEF BucketIInv, BucketTypeOK
      <3>2. Bounded' /\ Blank'
        BY <2>2, ScriptBounded
      <3> QED
        BY <2>2, <3>1, <3>2 DEF BucketIInv, RefusalJustified
    <2>3. CASE UNCHANGED <<clock, stamp, bucket, history>>
      BY <2>1, <2>3
      DEF BucketIInv, BucketTypeOK, Bounded, Blank, RefusalJustified, bucket, history
    <2> QED
      BY <1>3, <2>2, <2>3 DEF EvalError
  <1>4. ASSUME BucketExpire PROVE BucketIInv'
    BY <1>4
    DEF BucketExpire, RateAssumption, BucketIInv, BucketTypeOK, Bounded, Blank, RefusalJustified
  <1>5. ASSUME Watch PROVE BucketIInv'
    <2>1. /\ last <= high /\ tokens <= Capacity
          /\ tokens + Refill * (high - last) >= 0
          /\ tokens + Refill * (high - last) >= Capacity - total
      BY <1>5 DEF Watch, BucketIInv, Bounded
    <2>2. /\ tokens \in Int /\ Capacity \in Nat /\ Refill \in Nat /\ last \in Nat
      BY DEF RateAssumption, BucketIInv, BucketTypeOK
    <2>3. 0 + tokens - Refill * (last - last) <= Capacity
      BY <2>1, <2>2
    <2>4. Bounded' /\ Blank'
      BY <1>5, <2>1, <2>3 DEF Watch, Bounded, Blank, bucket
    <2>5. BucketTypeOK' /\ RefusalJustified'
      BY <1>5 DEF Watch, BucketIInv, BucketTypeOK, RefusalJustified, bucket
    <2> QED
      BY <2>4, <2>5 DEF BucketIInv
  <1>6. ASSUME BucketTick PROVE BucketIInv'
    BY <1>6
    DEF BucketTick, RateAssumption, BucketIInv, BucketTypeOK, Bounded, Blank, RefusalJustified,
        bucket, history
  <1>7. CASE UNCHANGED BucketVars
    BY <1>7
    DEF BucketVars, BucketIInv, BucketTypeOK, Bounded, Blank, RefusalJustified, bucket, history
  <1> QED
    BY <1>1, <1>2, <1>3, <1>4, <1>5, <1>6, <1>7 DEF BucketNext

\* The invariant holds, for any capacity, rate and number of requests.
LEMMA RateInvariant == BucketSpec => []BucketIInv
  BY BucketInitIInv, BucketNextIInv, PTL DEF BucketSpec

\* The bucket's state stays well formed: stamps never lie in the future.
THEOREM BucketTypeCorrect == BucketSpec => []BucketTypeOK
PROOF
  <1>1. BucketIInv => BucketTypeOK
    BY DEF BucketIInv
  <1> QED
    BY <1>1, RateInvariant, PTL

\* From whatever moment one counts, the middleware's script lets through at
\* most Capacity requests and Refill for every unit of time its stamps cover.
THEOREM RateNeverExceeded == BucketSpec => []RateBound
PROOF
  <1>1. BucketIInv => RateBound
    <2> SUFFICES ASSUME BucketIInv PROVE RateBound
      OBVIOUS
    <2>1. /\ admitted \in Nat /\ tokens \in Int /\ high \in Nat /\ last \in Nat
          /\ first \in Nat /\ Refill \in Nat /\ Capacity \in Nat
          /\ key \in {"absent", "present"}
      BY RateAssumption DEF RateAssumption, BucketIInv, BucketTypeOK
    <2>2. CASE key = "present"
      <3>1. /\ admitted + tokens - Refill * (last - first) <= Capacity
            /\ tokens + Refill * (high - last) >= 0
        BY <2>2 DEF BucketIInv, Bounded
      <3>2. Refill * (high - first)
              = Refill * (high - last) + Refill * (last - first)
        BY <2>1
      <3>3. Refill * (high - last) \in Int /\ Refill * (last - first) \in Int
        BY <2>1
      <3> QED
        BY <2>1, <3>1, <3>2, <3>3 DEF RateBound
    <2>3. CASE key = "absent"
      <3>1. admitted = 0 /\ Refill * (high - first) = 0
        BY <2>1, <2>3 DEF BucketIInv, Blank
      <3> QED
        BY <2>1, <3>1 DEF RateBound
    <2> QED
      BY <2>1, <2>2, <2>3
  <1> QED
    BY <1>1, RateInvariant, PTL

\* A 429 is given only after Capacity requests were let through, less the
\* refill of the time by which the refused request was overtaken.
THEOREM RefusalsJustified == BucketSpec => []RefusalJustified
PROOF
  <1>1. BucketIInv => RefusalJustified
    BY DEF BucketIInv
  <1> QED
    BY <1>1, RateInvariant, PTL

\* The bucket admits nobody beyond its rate and refuses nobody before it has let its
\* capacity through, whatever the order in which stamps reach Redis (rate_limit.py).
THEOREM BucketIsHonest == BucketSpec => []BucketHonest
<1>1. RateBound /\ RefusalJustified => BucketHonest
  BY DEF BucketHonest
<1>2. QED
  BY <1>1, RateNeverExceeded, RefusalsJustified, PTL

-----------------------------------------------------------------------------
(***************************************************************************)
(* The circuit breaker                                                     *)
(***************************************************************************)

\* Adding a call that is not there yet makes a set of probes one larger, and
\* removing one that is there makes it one smaller: the bookkeeping of
\* before_call's budget rests on this.
LEMMA CountProbes ==
  ASSUME NEW S \in SUBSET Calls, NEW c
  PROVE  /\ Cardinality(S) \in Nat
         /\ c \notin S => Cardinality(S \cup {c}) = Cardinality(S) + 1
         /\ c \in S => Cardinality(S \ {c}) = Cardinality(S) - 1
         /\ c \in S => Cardinality(S) >= 1
<1>1. IsFiniteSet(S)
  BY BreakerAssumption, FS_Subset DEF BreakerAssumption
<1>2. Cardinality(S) \in Nat
  BY <1>1, FS_CardinalityType
<1>3. c \notin S => Cardinality(S \cup {c}) = Cardinality(S) + 1
  BY <1>1, FS_AddElement
<1>4. c \in S => Cardinality(S \ {c}) = Cardinality(S) - 1
  BY <1>1, FS_RemoveElement
<1>5. c \in S => Cardinality(S) >= 1
  BY <1>1, <1>2, FS_EmptySet
<1>6. QED
  BY <1>2, <1>3, <1>4, <1>5

\* The initial state satisfies the inductive invariant.
LEMMA BreakerInitIInv == BreakerInit => BreakerIInv
BY BreakerAssumption
   DEF BreakerAssumption, BreakerInit, BreakerIInv, BreakerTypeOK, CountMatchesState, ProbesAccounted,
       ProbingOnlyHalfOpen, CLOSED, OPEN, HALF_OPEN

\* Every step of the breaker and of its callers preserves it.
LEMMA BreakerNextIInv == BreakerIInv /\ [BreakerNext]_BreakerVars => BreakerIInv'
<1> SUFFICES ASSUME BreakerIInv, [BreakerNext]_BreakerVars
             PROVE  BreakerIInv'
  OBVIOUS
<1> USE BreakerAssumption
    DEF BreakerAssumption, BreakerIInv, BreakerTypeOK, CountMatchesState, ProbesAccounted,
        ProbingOnlyHalfOpen, CLOSED, OPEN, HALF_OPEN
<1>1. ASSUME NEW c \in Calls, AdmitClosed(c)
      PROVE  BreakerIInv'
  BY <1>1 DEF AdmitClosed, breaker
<1>2. ASSUME NEW c \in Calls, AdmitFirstProbe(c)
      PROVE  BreakerIInv'
  <2>1. Cardinality({c}) = 1
    BY FS_Singleton
  <2>2. QED
    BY <1>2, <2>1 DEF AdmitFirstProbe, Elapsed
<1>3. ASSUME NEW c \in Calls, AdmitProbe(c)
      PROVE  BreakerIInv'
  <2>1. c \notin probing /\ probing \in SUBSET Calls
    BY <1>3 DEF AdmitProbe
  <2>2. /\ Cardinality(probing) \in Nat
        /\ Cardinality(probing \cup {c}) = Cardinality(probing) + 1
    BY <2>1, CountProbes
  <2>3. QED
    BY <1>3, <2>2 DEF AdmitProbe
<1>4. ASSUME NEW c \in Calls, Succeed(c)
      PROVE  BreakerIInv'
  BY <1>4 DEF Succeed
<1>5. ASSUME NEW c \in Calls, Fail(c)
      PROVE  BreakerIInv'
  <2>1. CASE Trips
    BY <1>5, <2>1 DEF Fail, Trips, Bump
  <2>2. CASE ~Trips
    BY <1>5, <2>2 DEF Fail, Trips, Bump
  <2>3. QED
    BY <2>1, <2>2
<1>6. ASSUME NEW c \in Calls, Vanish(c)
      PROVE  BreakerIInv'
  <2>1. probing \in SUBSET Calls
    OBVIOUS
  <2>2. CASE c \in probing
    <3>1. /\ Cardinality(probing) \in Nat
          /\ Cardinality(probing) >= 1
          /\ Cardinality(probing \ {c}) = Cardinality(probing) - 1
      BY <2>1, <2>2, CountProbes
    <3>2. state = HALF_OPEN
      BY <2>2
    <3>3. QED
      BY <1>6, <2>2, <3>1, <3>2 DEF Vanish, breaker
  <2>3. CASE c \notin probing
    <3>1. probing \ {c} = probing
      BY <2>3
    <3>2. QED
      BY <1>6, <2>3, <3>1 DEF Vanish, breaker
  <2>4. QED
    BY <2>2, <2>3
<1>7. CASE BreakerTick
  BY <1>7 DEF BreakerTick
<1>8. CASE Recover
  BY <1>8 DEF Recover, breaker
<1>9. ASSUME NEW c \in Calls, Refuse(c)
      PROVE  BreakerIInv'
  BY <1>9 DEF Refuse, BreakerVars, breaker
<1>10. CASE UNCHANGED BreakerVars
  BY <1>10 DEF BreakerVars, breaker
<1>11. QED
  BY <1>1, <1>2, <1>3, <1>4, <1>5, <1>6, <1>7, <1>8, <1>9, <1>10
     DEF BreakerNext, Admit, End

\* The inductive invariant holds of every reachable state.
LEMMA BreakerInvariant == BreakerSpec => []BreakerIInv
BY BreakerInitIInv, BreakerNextIInv, PTL DEF BreakerSpec

\* The breaker's variables keep the types of CircuitBreaker.__init__.
THEOREM BreakerTypeCorrect == BreakerSpec => []BreakerTypeOK
<1>1. BreakerIInv => BreakerTypeOK
  BY DEF BreakerIInv
<1>2. QED
  BY <1>1, BreakerInvariant, PTL

\* However late the reports of calls arrive, and in whatever order, the breaker
\* is closed exactly when fewer than the threshold of failures are counted.
THEOREM CountAgrees == BreakerSpec => []CountMatchesState
<1>1. BreakerIInv => CountMatchesState
  BY DEF BreakerIInv
<1>2. QED
  BY <1>1, BreakerInvariant, PTL

\* A half-open episode admits at most half_open_probes calls, and every probe is
\* available, in flight, or lost to an exception call_upstream does not report.
THEOREM ProbesNeverOverspent == BreakerSpec => []ProbesAccounted
<1>1. BreakerIInv => ProbesAccounted
  BY DEF BreakerIInv
<1>2. QED
  BY <1>1, BreakerInvariant, PTL

\* The breaker's counters agree with its state and account for every probe
\* (circuit_breaker.py).
THEOREM BreakerAccountsAlways == BreakerSpec => []BreakerAccounts
<1>1. CountMatchesState /\ ProbesAccounted => BreakerAccounts
  BY DEF BreakerAccounts
<1>2. QED
  BY <1>1, CountAgrees, ProbesNeverOverspent, PTL

-----------------------------------------------------------------------------
(***************************************************************************)
(* What the audit API answers: numbers first                               *)
(***************************************************************************)

\* Every set of numbers has a least one.
LEMMA LeastOf ==
  ASSUME NEW T \in SUBSET Nat, T # {}
  PROVE  \E x \in T : \A y \in T : x <= y
<1>1. IsWellFoundedOn({ss \in Nat \X Nat : ss[1] < ss[2]}, Nat)
  BY NatLessThanWellFounded, Zenon DEF OpToRel
<1> PICK R : R = {ss \in Nat \X Nat : ss[1] < ss[2]}
  OBVIOUS
<1>2. \E x \in T : \A y \in T : ~ (<<y, x>> \in R)
  BY <1>1, WFMin
<1>3. \A x, y \in Nat : y < x => <<y, x>> \in R
  OBVIOUS
<1>4. PICK x \in T : \A y \in T : ~ (y < x)
  BY <1>2, <1>3
<1>5. \A y \in T : x <= y
  BY <1>4
<1> QED  BY <1>5

\* Of the positions where a list has something there is a last one.
LEMMA LastOf ==
  ASSUME NEW n \in Nat, NEW S \in SUBSET (1..n), S # {}
  PROVE  Max(S) \in S /\ \A y \in S : y <= Max(S)
<1>1. PICK x \in {n - z : z \in S} : \A y \in {n - z : z \in S} : x <= y
  <2>1. \A z \in S : n - z \in Nat
    <3>1. \A z \in 1..n : n - z \in Nat
      OBVIOUS
    <3> QED  BY <3>1
  <2>2. {n - z : z \in S} \in SUBSET Nat /\ {n - z : z \in S} # {}
    BY <2>1
  <2> QED  BY <2>2, LeastOf
<1>2. PICK z \in S : x = n - z
  BY <1>1
<1>3. \A y \in S : z >= y
  <2> SUFFICES ASSUME NEW y \in S PROVE z >= y
    OBVIOUS
  <2>1. n - z <= n - y
    BY <1>1, <1>2
  <2>2. y \in Int /\ z \in Int
    OBVIOUS
  <2> QED  BY <2>1, <2>2
<1>4. Max(S) \in S /\ \A y \in S : Max(S) >= y
  BY <1>3 DEF Max
<1> QED  BY <1>4

-----------------------------------------------------------------------------
(***************************************************************************)
(* The tree of a trace                                                     *)
(***************************************************************************)

\* The rows of a trace.
RowSet == [span : Spans, parent : 0..MaxSpans]

\* Callers come first; a row names its request's caller or nobody, and the row of the
\* decision is the last of its request.
TraceIInv ==
  /\ caller \in [Spans -> 0..MaxSpans]
  /\ stage \in [Spans -> {"none", "begun", "consumed", "decided", "lost"}]
  /\ spanRows \in Seq(RowSet)
  /\ \A s \in Spans : caller[s] < s
  /\ \A i \in 1..Len(spanRows) :
        /\ stage[spanRows[i].span] \in {"consumed", "decided", "lost"}
        /\ spanRows[i].parent \in {0, caller[spanRows[i].span]}
  /\ \A s \in Spans : stage[s] = "decided" =>
        \E i \in 1..Len(spanRows) :
           /\ spanRows[i].span = s /\ spanRows[i].parent = caller[s]
           /\ \A j \in 1..Len(spanRows) : spanRows[j].span = s => j <= i

\* A row is added at the end.
LEMMA RowAdded ==
  ASSUME NEW q \in Seq(RowSet), NEW r \in RowSet
  PROVE  /\ Append(q, r) \in Seq(RowSet) /\ Len(Append(q, r)) = Len(q) + 1
         /\ Len(q) \in Nat
         /\ \A i \in 1..Len(q) : Append(q, r)[i] = q[i]
         /\ Append(q, r)[Len(q) + 1] = r
         /\ \A i \in 1..(Len(q) + 1) : i \in 1..Len(q) \/ i = Len(q) + 1
         /\ \A i \in 1..Len(q) : i \in 1..(Len(q) + 1) /\ i < Len(q) + 1
         /\ Len(q) + 1 \in 1..(Len(q) + 1)
         /\ \A i \in 1..Len(q) : q[i] \in RowSet
<1>1. Len(q) \in Nat
  OBVIOUS
<1>2. /\ \A i \in 1..(Len(q) + 1) : i \in 1..Len(q) \/ i = Len(q) + 1
      /\ \A i \in 1..Len(q) : i \in 1..(Len(q) + 1) /\ i < Len(q) + 1
      /\ Len(q) + 1 \in 1..(Len(q) + 1)
  BY <1>1
<1>3. /\ Append(q, r) \in Seq(RowSet) /\ Len(Append(q, r)) = Len(q) + 1
      /\ \A i \in 1..Len(q) : Append(q, r)[i] = q[i]
      /\ Append(q, r)[Len(q) + 1] = r
      /\ \A i \in 1..Len(q) : q[i] \in RowSet
  OBVIOUS
<1> QED  BY <1>1, <1>2, <1>3

\* A request begins: it has no rows yet, and its caller has begun before.
LEMMA OpenSpanKeeps ==
  ASSUME TraceIInv, NEW s \in Spans, OpenSpan(s)
  PROVE  TraceIInv'
<1>1. MaxSpans \in Nat /\ s \in 1..MaxSpans
  BY ReadsAssumption DEF Spans
<1>2. PICK p \in 0..(s - 1) : caller' = [caller EXCEPT ![s] = p]
  BY DEF OpenSpan
<1>3. stage[s] = "none" /\ stage' = [stage EXCEPT ![s] = "begun"] /\ spanRows' = spanRows
  BY DEF OpenSpan
<1>4. p \in 0..MaxSpans /\ p < s
  BY <1>1
<1>5. \A i \in 1..Len(spanRows) : spanRows[i].span # s /\ spanRows[i].span \in Spans
  <2>1. \A i \in 1..Len(spanRows) : spanRows[i] \in RowSet
    BY DEF TraceIInv
  <2> QED  BY <1>3, <2>1 DEF TraceIInv, RowSet
<1> QED  BY ZenonT(30), <1>2, <1>3, <1>4, <1>5 DEF TraceIInv

\* A request goes on: it gets a row that names nobody, or as its last one a row that
\* names its caller, or none.
LEMMA SpanGoesOn ==
  ASSUME TraceIInv, NEW s \in Spans, stage[s] \in {"begun", "consumed"},
         NEW q \in {"consumed", "decided", "lost"}, NEW p \in {0, caller[s]},
         stage' = [stage EXCEPT ![s] = q], caller' = caller,
         \/ spanRows' = Append(spanRows, Row(s, p))
         \/ spanRows' = spanRows /\ q # "decided",
         q = "decided" => p = caller[s]
  PROVE  TraceIInv'
<1>1. MaxSpans \in Nat /\ Row(s, p) \in RowSet /\ Row(s, p).span = s /\ Row(s, p).parent = p
  BY ReadsAssumption DEF TraceIInv, Row, RowSet
<1>2. \A i \in 1..Len(spanRows) : spanRows[i] \in RowSet /\ spanRows[i].span \in Spans
  <2>1. \A i \in 1..Len(spanRows) : spanRows[i] \in RowSet
    BY DEF TraceIInv
  <2>2. \A r \in RowSet : r.span \in Spans
    BY DEF RowSet
  <2> QED  BY <2>1, <2>2
<1>3. /\ stage' \in [Spans -> {"none", "begun", "consumed", "decided", "lost"}]
      /\ stage'[s] = q /\ \A t \in Spans \ {s} : stage'[t] = stage[t]
  BY DEF TraceIInv
<1>4. CASE spanRows' = spanRows /\ q # "decided"
  BY <1>2, <1>3, <1>4 DEF TraceIInv
<1>5. CASE spanRows' = Append(spanRows, Row(s, p))
  <2> PICK n : n = Len(spanRows)
    OBVIOUS
  <2>1. /\ spanRows' \in Seq(RowSet) /\ Len(spanRows') = n + 1 /\ n \in Nat
        /\ \A i \in 1..n : spanRows'[i] = spanRows[i]
        /\ spanRows'[n + 1] = Row(s, p)
        /\ \A i \in 1..(n + 1) : i \in 1..n \/ i = n + 1
        /\ \A i \in 1..n : i \in 1..(n + 1) /\ i < n + 1
        /\ n + 1 \in 1..(n + 1)
    BY <1>1, <1>5, RowAdded DEF TraceIInv
  <2>2. ASSUME NEW i \in 1..Len(spanRows')
        PROVE  /\ stage'[spanRows'[i].span] \in {"consumed", "decided", "lost"}
               /\ spanRows'[i].parent \in {0, caller'[spanRows'[i].span]}
    <3>1. CASE i \in 1..n
      BY <1>2, <1>3, <2>1, <3>1 DEF TraceIInv
    <3>2. CASE i = n + 1
      BY <1>1, <1>3, <2>1, <3>2
    <3> QED  BY <2>1, <3>1, <3>2
  <2>3. ASSUME NEW t \in Spans, stage'[t] = "decided"
        PROVE  \E i \in 1..Len(spanRows') :
                 /\ spanRows'[i].span = t /\ spanRows'[i].parent = caller'[t]
                 /\ \A j \in 1..Len(spanRows') : spanRows'[j].span = t => j <= i
    <3>1. CASE t = s
      <4>1. \A j \in 1..(n + 1) : j <= n + 1
        BY <2>1
      <4>2. spanRows'[n + 1].span = t /\ spanRows'[n + 1].parent = caller'[t]
        BY <1>1, <1>3, <2>1, <2>3, <3>1
      <4> QED  BY <2>1, <4>1, <4>2
    <3>2. CASE t # s
      <4>1. PICK i \in 1..n :
               /\ spanRows[i].span = t /\ spanRows[i].parent = caller[t]
               /\ \A j \in 1..n : spanRows[j].span = t => j <= i
        BY <1>3, <2>3, <3>2 DEF TraceIInv
      <4>2. spanRows'[n + 1].span # t
        BY <1>1, <2>1, <3>2
      <4>3. \A j \in 1..(n + 1) : spanRows'[j].span = t => j <= i
        BY <2>1, <4>1, <4>2
      <4> QED  BY <2>1, <4>1, <4>3
    <3> QED  BY <3>1, <3>2
  <2> QED  BY <1>3, <2>1, <2>2, <2>3 DEF TraceIInv
<1> QED  BY <1>4, <1>5

\* Requests, and rows on their way to the audit API.
LEMMA TraceKeeps == TraceIInv /\ [TraceNext]_traceVars => TraceIInv'
<1> SUFFICES ASSUME TraceIInv, [TraceNext]_traceVars PROVE TraceIInv'
  OBVIOUS
<1>1. ASSUME NEW s \in Spans, OpenSpan(s) PROVE TraceIInv'
  BY <1>1, OpenSpanKeeps
<1>2. ASSUME NEW s \in Spans, Consumed(s) PROVE TraceIInv'
  <2>1. \/ spanRows' = Append(spanRows, Row(s, 0)) \/ spanRows' = spanRows
    BY <1>2 DEF Consumed
  <2> QED  BY <1>2, <2>1, SpanGoesOn DEF Consumed
<1>3. ASSUME NEW s \in Spans, Decided(s) PROVE TraceIInv'
  BY <1>3, SpanGoesOn DEF Decided
<1>4. CASE UNCHANGED traceVars
  BY <1>4 DEF traceVars, TraceIInv
<1> QED  BY <1>1, <1>2, <1>3, <1>4 DEF TraceNext

\* span_by_id takes the last row of a span.
LEMMA ParentIsLast ==
  ASSUME TraceIInv, NEW s \in Indexed
  PROVE  /\ s \in Spans /\ 0 \notin Indexed
         /\ ParentOf(s) \in {0, caller[s]}
         /\ stage[s] = "decided" => ParentOf(s) = caller[s]
<1> DEFINE n == Len(spanRows)
           S == {i \in DOMAIN spanRows : spanRows[i].span = s}
<1>1. n \in Nat /\ DOMAIN spanRows = 1..n /\ \A i \in 1..n : spanRows[i] \in RowSet
  BY DEF TraceIInv
<1>2. \A i \in 1..n : spanRows[i].span \in Spans /\ 0 \notin Spans
  BY <1>1, ReadsAssumption DEF RowSet, Spans
<1>3. s \in Spans /\ 0 \notin Indexed
  BY <1>1, <1>2 DEF Indexed
<1>4. S \in SUBSET (1..n) /\ S # {}
  BY <1>1 DEF Indexed
<1>5. Max(S) \in S /\ \A y \in S : y <= Max(S)
  <2> HIDE DEF n, S
  <2> QED  BY <1>1, <1>4, LastOf
<1>6. ParentOf(s) = spanRows[Max(S)].parent
  BY DEF ParentOf
<1>7. PICK m \in 1..n : /\ spanRows[m].span = s /\ ParentOf(s) = spanRows[m].parent
                        /\ \A j \in 1..n : spanRows[j].span = s => j <= m
  BY <1>1, <1>5, <1>6
<1>8. spanRows[m].parent \in {0, caller[s]}
  BY <1>7 DEF TraceIInv
<1>9. ASSUME stage[s] = "decided" PROVE spanRows[m].parent = caller[s]
  <2>1. PICK i \in 1..n : /\ spanRows[i].span = s /\ spanRows[i].parent = caller[s]
                          /\ \A j \in 1..n : spanRows[j].span = s => j <= i
    BY <1>3, <1>9 DEF TraceIInv
  <2>2. i <= m /\ m <= i
    BY <1>7, <2>1
  <2>3. i = m
    <3> HIDE DEF n
    <3> QED  BY <1>1, <2>2
  <2> QED  BY <2>1, <2>3
<1> QED  BY <1>3, <1>7, <1>8, <1>9

\* ... so that the tree has every span, below its caller if that has rows.
LEMMA TraceImplies == TraceIInv => TreeKeepsCallers
<1> SUFFICES ASSUME TraceIInv, NEW s \in Indexed
             PROVE  /\ stage[s] = "decided" =>
                         IF caller[s] \in Indexed THEN s \in ChildrenOf(caller[s]) ELSE s \in Roots
                    /\ s \in Roots \/ \E p \in Indexed : p < s /\ s \in ChildrenOf(p)
  BY DEF TreeKeepsCallers
<1>1. /\ s \in Spans /\ 0 \notin Indexed
      /\ ParentOf(s) \in {0, caller[s]}
      /\ stage[s] = "decided" => ParentOf(s) = caller[s]
  BY ParentIsLast
<1>2. caller[s] < s
  BY <1>1 DEF TraceIInv
<1>3. s \in Roots <=> ParentOf(s) \notin Indexed
  BY DEF Roots
<1>4. \A p : s \in ChildrenOf(p) <=> ParentOf(s) = p
  BY DEF ChildrenOf
<1> QED  BY <1>1, <1>2, <1>3, <1>4

\* No request, no rows.
LEMMA TraceInitially == ReadsInit => TraceIInv
  BY ReadsAssumption DEF ReadsInit, TraceIInv, Spans, RowSet

-----------------------------------------------------------------------------
(***************************************************************************)
(* The stream                                                              *)
(***************************************************************************)

Rising(q) == \A i, j \in 1..Len(q) : i < j => q[i] < q[j]

\* put_nowait: a greater number at the end of a list that rises.
LEMMA RisingAppend ==
  ASSUME NEW q \in Seq(Nat), NEW n \in Nat
  PROVE  /\ Append(q, n) \in Seq(Nat) /\ Len(Append(q, n)) = Len(q) + 1 /\ Len(q) \in Nat
         /\ Range(Append(q, n)) = Range(q) \cup {n}
         /\ Rising(q) /\ (\A m \in Range(q) : m < n) => Rising(Append(q, n))
<1>1. /\ Len(q) \in Nat /\ DOMAIN q = 1..Len(q)
      /\ Append(q, n) \in Seq(Nat) /\ Len(Append(q, n)) = Len(q) + 1
      /\ DOMAIN Append(q, n) = 1..(Len(q) + 1)
      /\ \A i \in 1..Len(q) : Append(q, n)[i] = q[i]
      /\ Append(q, n)[Len(q) + 1] = n
  OBVIOUS
<1>2. /\ \A i \in 1..(Len(q) + 1) : i \in 1..Len(q) \/ i = Len(q) + 1
      /\ \A i \in 1..Len(q) : i \in 1..(Len(q) + 1)
      /\ Len(q) + 1 \in 1..(Len(q) + 1)
      /\ \A i \in 1..(Len(q) + 1) : ~ (Len(q) + 1 < i)
  BY <1>1
<1>3. Range(Append(q, n)) = Range(q) \cup {n}
  BY <1>1, <1>2 DEF Range
<1>4. ASSUME Rising(q), \A m \in Range(q) : m < n PROVE Rising(Append(q, n))
  BY <1>1, <1>2, <1>4 DEF Rising, Range
<1> QED  BY <1>1, <1>3, <1>4

\* get: the head of a list that rises is below the rest.
LEMMA RisingTail ==
  ASSUME NEW q \in Seq(Nat), q # <<>>
  PROVE  /\ Head(q) \in Nat /\ Tail(q) \in Seq(Nat) /\ Len(Tail(q)) <= Len(q)
         /\ Len(q) \in Nat /\ Len(Tail(q)) \in Nat
         /\ Range(q) = {Head(q)} \cup Range(Tail(q))
         /\ Rising(q) => Rising(Tail(q)) /\ \A m \in Range(Tail(q)) : Head(q) < m
<1>1. /\ Len(q) \in Nat /\ Len(q) > 0 /\ Head(q) = q[1] /\ Head(q) \in Nat
      /\ Tail(q) \in Seq(Nat) /\ Len(Tail(q)) = Len(q) - 1
      /\ \A i \in 1..(Len(q) - 1) : Tail(q)[i] = q[i + 1]
      /\ DOMAIN q = 1..Len(q)
  OBVIOUS
<1>2. /\ DOMAIN Tail(q) = 1..(Len(q) - 1) /\ 1 \in 1..Len(q)
      /\ \A i \in 1..(Len(q) - 1) : i + 1 \in 1..Len(q) /\ 1 < i + 1
      /\ \A i, j \in 1..(Len(q) - 1) : i < j => i + 1 < j + 1
      /\ \A i \in 1..Len(q) : i = 1 \/ (i - 1 \in 1..(Len(q) - 1) /\ (i - 1) + 1 = i)
  BY <1>1
<1>3. Range(q) \subseteq {Head(q)} \cup Range(Tail(q))
  <2> SUFFICES ASSUME NEW i \in 1..Len(q), i # 1 PROVE q[i] \in Range(Tail(q))
    BY <1>1 DEF Range
  <2>1. i - 1 \in 1..(Len(q) - 1) /\ Tail(q)[i - 1] = q[(i - 1) + 1] /\ (i - 1) + 1 = i
    BY <1>1, <1>2
  <2> QED  BY <1>2, <2>1 DEF Range
<1>4. {Head(q)} \cup Range(Tail(q)) \subseteq Range(q)
  BY <1>1, <1>2 DEF Range
<1>5. ASSUME Rising(q) PROVE Rising(Tail(q)) /\ \A m \in Range(Tail(q)) : Head(q) < m
  <2>1. ASSUME NEW i \in 1..(Len(q) - 1), NEW j \in 1..(Len(q) - 1), i < j
        PROVE  Tail(q)[i] < Tail(q)[j]
    <3>1. i + 1 \in 1..Len(q) /\ j + 1 \in 1..Len(q) /\ i + 1 < j + 1
      BY <1>2, <2>1
    <3>2. q[i + 1] < q[j + 1]
      BY <1>5, <3>1 DEF Rising
    <3> QED  BY <1>1, <3>2
  <2>2. ASSUME NEW i \in 1..(Len(q) - 1) PROVE Head(q) < Tail(q)[i]
    <3>1. i + 1 \in 1..Len(q) /\ 1 < i + 1
      BY <1>2
    <3>2. q[1] < q[i + 1]
      BY <1>2, <1>5, <3>1 DEF Rising
    <3> QED  BY <1>1, <3>2
  <2>3. Rising(Tail(q))
    BY <1>1, <2>1 DEF Rising
  <2>4. \A m \in Range(Tail(q)) : Head(q) < m
    BY <1>2, <2>2 DEF Range
  <2> QED  BY <2>3, <2>4
<1> QED  BY <1>1, <1>3, <1>4, <1>5

\* What was sent, and then what is queued.
LEMMA RisingConcat ==
  ASSUME NEW q \in Seq(Nat), NEW r \in Seq(Nat), Rising(q), Rising(r),
         \A m \in Range(q), n \in Range(r) : m < n
  PROVE  /\ \A i \in 1..(Len(q \o r) - 1) : (q \o r)[i] < (q \o r)[i + 1]
         /\ Range(q \o r) = Range(q) \cup Range(r)
<1>1. /\ Len(q) \in Nat /\ Len(r) \in Nat /\ Len(q \o r) = Len(q) + Len(r)
      /\ DOMAIN (q \o r) = 1..(Len(q) + Len(r))
      /\ \A i \in 1..Len(q) : (q \o r)[i] = q[i]
      /\ \A i \in 1..Len(r) : (q \o r)[Len(q) + i] = r[i]
      /\ DOMAIN q = 1..Len(q) /\ DOMAIN r = 1..Len(r)
      /\ \A i \in 1..Len(q) : q[i] \in Nat
      /\ \A i \in 1..Len(r) : r[i] \in Nat
  OBVIOUS
<1>2. /\ \A i \in 1..(Len(q) + Len(r)) :
           i \in 1..Len(q) \/ (i - Len(q) \in 1..Len(r) /\ Len(q) + (i - Len(q)) = i)
      /\ \A i \in 1..Len(q) : i \in 1..(Len(q) + Len(r))
      /\ \A i \in 1..Len(r) : Len(q) + i \in 1..(Len(q) + Len(r))
  BY <1>1
<1>3. Range(q \o r) \subseteq Range(q) \cup Range(r)
  <2> SUFFICES ASSUME NEW i \in 1..(Len(q) + Len(r))
               PROVE  (q \o r)[i] \in Range(q) \cup Range(r)
    BY <1>1 DEF Range
  <2>1. CASE i \in 1..Len(q)
    BY <1>1, <2>1 DEF Range
  <2>2. CASE i - Len(q) \in 1..Len(r) /\ Len(q) + (i - Len(q)) = i
    <3>1. (q \o r)[Len(q) + (i - Len(q))] = r[i - Len(q)]
      BY <1>1, <2>2
    <3> QED  BY <1>1, <2>2, <3>1 DEF Range
  <2> QED  BY <1>2, <2>1, <2>2
<1>4. Range(q) \cup Range(r) \subseteq Range(q \o r)
  <2>1. ASSUME NEW i \in 1..Len(q) PROVE q[i] \in Range(q \o r)
    <3>1. i \in DOMAIN (q \o r) /\ (q \o r)[i] = q[i]
      BY <1>1, <1>2
    <3> QED  BY <3>1 DEF Range
  <2>2. ASSUME NEW i \in 1..Len(r) PROVE r[i] \in Range(q \o r)
    <3>1. Len(q) + i \in DOMAIN (q \o r) /\ (q \o r)[Len(q) + i] = r[i]
      BY <1>1, <1>2
    <3> QED  BY <3>1 DEF Range
  <2>3. Range(q) = {q[i] : i \in 1..Len(q)} /\ Range(r) = {r[i] : i \in 1..Len(r)}
    BY <1>1 DEF Range
  <2> QED  BY <2>1, <2>2, <2>3
<1>5. ASSUME NEW i \in 1..(Len(q \o r) - 1) PROVE (q \o r)[i] < (q \o r)[i + 1]
  <2>1. i + 1 \in 1..(Len(q) + Len(r)) /\ i \in 1..(Len(q) + Len(r))
    BY <1>1
  <2>2. CASE i + 1 \in 1..Len(q)
    <3>1. i \in 1..Len(q) /\ i < i + 1
      BY <1>1, <1>5, <2>2
    <3> QED  BY <1>1, <2>2, <3>1 DEF Rising
  <2>3. CASE i \in 1..Len(q) /\ i + 1 \notin 1..Len(q)
    <3>1. 1 \in 1..Len(r) /\ i + 1 = Len(q) + 1
      BY <1>1, <2>1, <2>3
    <3>2. (q \o r)[i] = q[i] /\ (q \o r)[i + 1] = r[1]
      BY <1>1, <2>3, <3>1
    <3>3. q[i] \in Range(q) /\ r[1] \in Range(r)
      BY <1>1, <2>3, <3>1 DEF Range
    <3> QED  BY <3>2, <3>3
  <2>4. CASE i \notin 1..Len(q)
    <3>1. /\ i - Len(q) \in 1..Len(r) /\ Len(q) + (i - Len(q)) = i
          /\ i + 1 - Len(q) \in 1..Len(r) /\ Len(q) + (i + 1 - Len(q)) = i + 1
          /\ i - Len(q) < i + 1 - Len(q)
      BY <1>1, <2>1, <2>4
    <3>2. (q \o r)[i] = r[i - Len(q)] /\ (q \o r)[i + 1] = r[i + 1 - Len(q)]
      BY <1>1, <3>1
    <3> QED  BY <3>1, <3>2 DEF Rising
  <2> QED  BY <2>2, <2>3, <2>4
<1> QED  BY <1>1, <1>3, <1>4, <1>5

\* What a client may be at all.
ClientSet ==
  [pc : {"off", "subscribed", "check", "get", "closed"}, queue : Seq(Nat),
   got : Seq(Nat), told : Nat, full : BOOLEAN, gone : BOOLEAN]

\* What a client was sent and what is queued for it rise, are accepted by its filter,
\* and are all that is due if nothing was dropped.
Fine(c, x, a) ==
  /\ x \in ClientSet
  /\ Rising(x.got) /\ Rising(x.queue)
  /\ \A m \in Range(x.got), n \in Range(x.queue) : m < n
  /\ \A n \in Range(x.got) \cup Range(x.queue) : n \in 1..Len(a) /\ Accepts(c, a[n])
  /\ Len(x.queue) <= SubQueue /\ x.told <= Len(a)
  /\ x.pc \in {"check", "get"} /\ ~ x.gone /\ ~ x.full =>
       \A n \in 1..Len(a) : x.told < n /\ Accepts(c, a[n]) =>
          n \in Range(x.got) \cup Range(x.queue)

\* What is said of a client holds of each.
StreamIInv ==
  /\ aired \in Seq(Kinds)
  /\ sub \in [Clients -> ClientSet]
  /\ \A c \in Clients : Fine(c, sub[c], aired)

\* A step of one client that keeps what is said of it keeps it of all.
LEMMA OneClientChanges ==
  ASSUME StreamIInv, NEW c \in Clients, NEW x, Fine(c, x, aired),
         sub' = [sub EXCEPT ![c] = x], aired' = aired
  PROVE  StreamIInv'
<1>1. x \in ClientSet
  BY DEF Fine
<1>2. sub' \in [Clients -> ClientSet]
  BY <1>1 DEF StreamIInv
<1>3. ASSUME NEW d \in Clients PROVE Fine(d, sub'[d], aired')
  <2>1. CASE d = c
    <3>1. sub'[d] = x
      BY <2>1 DEF StreamIInv
    <3> QED  BY <2>1, <3>1
  <2>2. CASE d # c
    <3>1. sub'[d] = sub[d]
      BY <2>2 DEF StreamIInv
    <3> QED  BY <3>1 DEF StreamIInv
  <2> QED  BY <2>1, <2>2
<1> QED  BY <1>2, <1>3 DEF StreamIInv

\* An empty list has nothing in it and rises.
LEMMA NothingQueued == <<>> \in Seq(Nat) /\ Len(<<>>) = 0 /\ Range(<<>>) = {} /\ Rising(<<>>)
  BY DEF Range, Rising

\* A client that is not there has nothing.
LEMMA NoClientFine ==
  ASSUME NEW c, NEW a \in Seq(Kinds), NEW p \in {"off", "subscribed", "closed"}
  PROVE  Fine(c, [NoClient EXCEPT !.pc = p], a)
<1> PICK x : x = [NoClient EXCEPT !.pc = p]
  OBVIOUS
<1>1. /\ x.pc = p /\ x.queue = <<>> /\ x.got = <<>> /\ x.told = 0 /\ x \in ClientSet
  BY NothingQueued DEF NoClient, ClientSet
<1>2. Len(a) \in Nat /\ SubQueue \in Nat
  BY ReadsAssumption
<1> QED  BY <1>1, <1>2, NothingQueued DEF Fine

\* An event more has been broadcast.
LEMMA MoreAired ==
  ASSUME NEW a \in Seq(Kinds), NEW kind \in Kinds
  PROVE  /\ Append(a, kind) \in Seq(Kinds) /\ Len(Append(a, kind)) = Len(a) + 1
         /\ Len(a) \in Nat
         /\ \A n \in 1..Len(a) : n \in 1..(Len(a) + 1) /\ Append(a, kind)[n] = a[n] /\ n < Len(a) + 1
         /\ Append(a, kind)[Len(a) + 1] = kind /\ Len(a) + 1 \in 1..(Len(a) + 1)
         /\ \A n \in 1..(Len(a) + 1) : n \in 1..Len(a) \/ n = Len(a) + 1
<1>1. /\ Append(a, kind) \in Seq(Kinds) /\ Len(Append(a, kind)) = Len(a) + 1 /\ Len(a) \in Nat
      /\ \A n \in 1..Len(a) : Append(a, kind)[n] = a[n]
      /\ Append(a, kind)[Len(a) + 1] = kind
  OBVIOUS
<1>2. /\ \A n \in 1..Len(a) : n \in 1..(Len(a) + 1) /\ n < Len(a) + 1
      /\ Len(a) + 1 \in 1..(Len(a) + 1)
      /\ \A n \in 1..(Len(a) + 1) : n \in 1..Len(a) \/ n = Len(a) + 1
  BY <1>1
<1> QED  BY <1>1, <1>2

\* broadcast to a client whose filter refuses the event, or that does not listen yet.
LEMMA NotHeard ==
  ASSUME NEW c, NEW a \in Seq(Kinds), NEW kind \in Kinds, NEW x, Fine(c, x, a),
         ~ Accepts(c, kind) \/ x.pc \notin {"check", "get"}
  PROVE  Fine(c, x, Append(a, kind))
<1> PICK b, n : b = Append(a, kind) /\ n = Len(a)
  OBVIOUS
<1>1. /\ Len(b) = n + 1 /\ n \in Nat
      /\ \A i \in 1..n : i \in 1..(n + 1) /\ b[i] = a[i] /\ i < n + 1
      /\ b[n + 1] = kind
      /\ \A i \in 1..(n + 1) : i \in 1..n \/ i = n + 1
  BY MoreAired
<1>2. x.told \in Nat /\ x.told <= n + 1
  <2>1. x.told \in Nat /\ x.told <= n
    BY DEF Fine, ClientSet
  <2> QED  BY <1>1, <2>1
<1>3. \A i \in Range(x.got) \cup Range(x.queue) : i \in 1..(n + 1) /\ Accepts(c, b[i])
  BY <1>1 DEF Fine
<1>4. ASSUME x.pc \in {"check", "get"}, ~ x.gone, ~ x.full,
             NEW i \in 1..(n + 1), x.told < i, Accepts(c, b[i])
      PROVE  i \in Range(x.got) \cup Range(x.queue)
  <2>1. i \in 1..n /\ Accepts(c, a[i])
    BY <1>1, <1>4
  <2> QED  BY <1>4, <2>1 DEF Fine
<1>5. Fine(c, x, b)
  BY <1>1, <1>2, <1>3, <1>4 DEF Fine
<1> QED  BY <1>5

\* broadcast to a client that accepts the event: it is the last of its queue, or dropped.
LEMMA Heard ==
  ASSUME NEW c, NEW a \in Seq(Kinds), NEW kind \in Kinds, NEW x, Fine(c, x, a),
         Accepts(c, kind)
  PROVE  Fine(c, Put(x, Len(a) + 1), Append(a, kind))
<1> PICK b, n : b = Append(a, kind) /\ n = Len(a)
  OBVIOUS
<1>1. /\ Len(b) = n + 1 /\ n \in Nat /\ n + 1 \in Nat
      /\ \A i \in 1..n : i \in 1..(n + 1) /\ b[i] = a[i] /\ i < n + 1
      /\ b[n + 1] = kind /\ n + 1 \in 1..(n + 1)
      /\ \A i \in 1..(n + 1) : i \in 1..n \/ i = n + 1
  BY MoreAired
<1>2. x \in ClientSet /\ x.queue \in Seq(Nat) /\ Rising(x.queue) /\ Len(x.queue) <= SubQueue
      /\ SubQueue \in Nat /\ Len(x.queue) \in Nat
  BY ReadsAssumption DEF Fine, ClientSet
<1>3. x.told \in Nat /\ x.told <= n + 1
  <2>1. x.told \in Nat /\ x.told <= n
    BY DEF Fine, ClientSet
  <2> QED  BY <1>1, <2>1
<1>4. \A i \in Range(x.got) \cup Range(x.queue) : i < n + 1 /\ i \in 1..(n + 1) /\ Accepts(c, b[i])
  BY <1>1 DEF Fine
<1>5. CASE Len(x.queue) < SubQueue
  <2> PICK y, q : y = Put(x, n + 1) /\ q = Append(x.queue, n + 1)
    OBVIOUS
  <2>1. /\ q \in Seq(Nat) /\ Len(q) = Len(x.queue) + 1
        /\ Range(q) = Range(x.queue) \cup {n + 1} /\ Rising(q)
    BY <1>1, <1>2, <1>4, RisingAppend
  <2>2. Len(q) <= SubQueue
    BY <1>2, <1>5, <2>1
  <2>3. y = [x EXCEPT !.queue = q]
    BY <1>5 DEF Put
  <2>4. /\ y \in ClientSet /\ y.queue = q /\ y.got = x.got /\ y.told = x.told
        /\ y.pc = x.pc /\ y.gone = x.gone /\ y.full = x.full
    BY <1>2, <2>1, <2>3 DEF ClientSet
  <2>5. \A i \in Range(y.got) \cup Range(y.queue) : i \in 1..(n + 1) /\ Accepts(c, b[i])
    BY ZenonT(30), <1>1, <1>4, <2>1, <2>4
  <2>6. \A i \in Range(y.got), j \in Range(y.queue) : i < j
    BY <1>4, <2>1, <2>4 DEF Fine
  <2>7. ASSUME y.pc \in {"check", "get"}, ~ y.gone, ~ y.full,
               NEW i \in 1..(n + 1), y.told < i, Accepts(c, b[i])
        PROVE  i \in Range(y.got) \cup Range(y.queue)
    <3>1. CASE i = n + 1
      BY <2>1, <2>4, <3>1
    <3>2. CASE i \in 1..n
      BY <1>1, <2>1, <2>4, <2>7, <3>2 DEF Fine
    <3> QED  BY <1>1, <3>1, <3>2
  <2>8. Rising(y.got)
    BY <2>4 DEF Fine
  <2>9. Fine(c, y, b)
    BY <1>1, <1>3, <2>1, <2>2, <2>4, <2>5, <2>6, <2>7, <2>8 DEF Fine
  <2> QED  BY <2>9
<1>6. CASE ~ (Len(x.queue) < SubQueue)
  <2> PICK y : y = Put(x, n + 1)
    OBVIOUS
  <2>1. y = [x EXCEPT !.full = TRUE]
    BY <1>6 DEF Put
  <2>2. /\ y \in ClientSet /\ y.queue = x.queue /\ y.got = x.got /\ y.told = x.told /\ y.full
    BY <1>2, <2>1 DEF ClientSet
  <2>3. Fine(c, y, b)
    BY <1>1, <1>2, <1>3, <1>4, <2>2 DEF Fine
  <2> QED  BY <2>3
<1> QED  BY <1>5, <1>6

\* One broadcast to all subscribers.
LEMMA BroadcastKeeps ==
  ASSUME StreamIInv, Broadcast
  PROVE  StreamIInv'
<1>1. PICK kind \in Kinds :
         /\ aired' = Append(aired, kind)
         /\ sub' = [c \in Clients |->
              IF Registered(c) /\ Accepts(c, kind) THEN Put(sub[c], Len(aired) + 1)
              ELSE sub[c]]
  BY DEF Broadcast
<1>2. aired \in Seq(Kinds) /\ aired' \in Seq(Kinds)
  BY <1>1, MoreAired DEF StreamIInv
<1>3. ASSUME NEW c \in Clients PROVE Fine(c, sub'[c], aired')
  <2>1. Fine(c, sub[c], aired)
    BY DEF StreamIInv
  <2>2. CASE Registered(c) /\ Accepts(c, kind)
    <3>1. sub'[c] = Put(sub[c], Len(aired) + 1)
      BY <1>1, <2>2
    <3> QED  BY <1>1, <1>2, <2>1, <2>2, <3>1, Heard
  <2>3. CASE ~ (Registered(c) /\ Accepts(c, kind))
    <3>1. sub'[c] = sub[c]
      BY <1>1, <2>3
    <3>2. ~ Accepts(c, kind) \/ sub[c].pc \notin {"check", "get"}
      BY <2>3 DEF Registered
    <3> QED  BY <1>1, <1>2, <2>1, <3>1, <3>2, NotHeard
  <2> QED  BY <2>2, <2>3
<1>4. sub' \in [Clients -> ClientSet]
  <2>1. \A c \in Clients : sub'[c] \in ClientSet
    BY <1>3 DEF Fine
  <2> QED  BY <1>1, <2>1
<1> QED  BY <1>2, <1>3, <1>4 DEF StreamIInv

\* What a client does, or what is done for it.
LEMMA ClientKeeps ==
  ASSUME StreamIInv, NEW c \in Clients,
         \/ Subscribe(c) \/ Hello(c) \/ Disconnect(c) \/ Check(c)
         \/ Cancelled(c) \/ Get(c) \/ Heartbeat(c)
  PROVE  StreamIInv'
<1> PICK x : x = sub[c]
  OBVIOUS
<1>0. /\ Fine(c, x, aired) /\ x \in ClientSet /\ aired' = aired /\ aired \in Seq(Kinds)
      /\ Len(aired) \in Nat /\ x.gone \in BOOLEAN /\ x.told \in Nat
      /\ x.queue \in Seq(Nat) /\ x.got \in Seq(Nat)
  BY DEF StreamIInv, ClientSet, Subscribe, Hello, Disconnect, Check, Cancelled, Get, Heartbeat
<1>1. CASE Subscribe(c)
  <2> PICK y : y = [x EXCEPT !.pc = "subscribed"]
    OBVIOUS
  <2>1. /\ y \in ClientSet /\ y.pc = "subscribed" /\ y.queue = x.queue /\ y.got = x.got
        /\ y.told = x.told
    BY <1>0 DEF ClientSet
  <2>2. Fine(c, y, aired)
    BY <1>0, <2>1 DEF Fine
  <2> QED  BY <1>0, <1>1, <2>2, OneClientChanges DEF Subscribe
<1>2. CASE Hello(c)
  <2> PICK y : y = [x EXCEPT !.pc = "check", !.told = Len(aired)]
    OBVIOUS
  <2>1. /\ y \in ClientSet /\ y.queue = x.queue /\ y.got = x.got /\ y.told = Len(aired)
    BY <1>0 DEF ClientSet
  <2>2. \A n \in 1..Len(aired) : ~ (Len(aired) < n)
    BY <1>0
  <2>3. Fine(c, y, aired)
    BY <1>0, <2>1, <2>2 DEF Fine
  <2>4. sub' = [sub EXCEPT ![c] = y]
    BY <1>2 DEF Hello
  <2> QED  BY <1>0, <2>3, <2>4, OneClientChanges
<1>3. CASE Disconnect(c)
  <2> PICK y : y = [x EXCEPT !.gone = TRUE]
    OBVIOUS
  <2>1. /\ y \in ClientSet /\ y.queue = x.queue /\ y.got = x.got /\ y.told = x.told /\ y.gone
    BY <1>0 DEF ClientSet
  <2>2. Fine(c, y, aired)
    BY <1>0, <2>1 DEF Fine
  <2> QED  BY <1>0, <1>3, <2>2, OneClientChanges DEF Disconnect
<1>4. CASE Cancelled(c) \/ (Check(c) /\ x.gone)
  <2>1. Fine(c, Unsubscribed, aired)
    BY <1>0, NoClientFine DEF Unsubscribed
  <2>2. sub' = [sub EXCEPT ![c] = Unsubscribed]
    BY <1>4 DEF Cancelled, Check
  <2> QED  BY <1>0, <2>1, <2>2, OneClientChanges
<1>5. CASE (Check(c) /\ ~ x.gone) \/ Heartbeat(c)
  <2> PICK p \in {"check", "get"} : x.pc \in {"check", "get"} /\ sub' = [sub EXCEPT ![c] = [x EXCEPT !.pc = p]]
    BY <1>5 DEF Check, Heartbeat
  <2> PICK y : y = [x EXCEPT !.pc = p]
    OBVIOUS
  <2>1. /\ y \in ClientSet /\ y.queue = x.queue /\ y.got = x.got /\ y.told = x.told
        /\ y.gone = x.gone /\ y.full = x.full
    BY <1>0 DEF ClientSet
  <2>2. Fine(c, y, aired)
    BY <1>0, <2>1 DEF Fine
  <2> QED  BY <1>0, <2>2, OneClientChanges
<1>6. CASE Get(c)
  <2>1. x.pc = "get" /\ x.queue # <<>>
    BY <1>6 DEF Get
  <2> PICK h, t, g : h = Head(x.queue) /\ t = Tail(x.queue) /\ g = IF x.gone THEN x.got ELSE Append(x.got, h)
    OBVIOUS
  <2>2. /\ h \in Nat /\ t \in Seq(Nat) /\ Len(t) <= Len(x.queue)
        /\ Len(x.queue) \in Nat /\ Len(t) \in Nat
        /\ Range(x.queue) = {h} \cup Range(t)
        /\ Rising(t) /\ \A m \in Range(t) : h < m
    BY <1>0, <2>1, RisingTail DEF Fine
  <2>3. /\ Append(x.got, h) \in Seq(Nat) /\ Range(Append(x.got, h)) = Range(x.got) \cup {h}
        /\ Rising(Append(x.got, h))
    BY <1>0, <2>2, RisingAppend DEF Fine
  <2>4. /\ g \in Seq(Nat) /\ Rising(g) /\ Range(g) \subseteq Range(x.got) \cup {h}
        /\ ~ x.gone => Range(g) = Range(x.got) \cup {h}
    BY <1>0, <2>3 DEF Fine
  <2> PICK y : y = [x EXCEPT !.pc = "check", !.queue = t, !.got = g]
    OBVIOUS
  <2>5. /\ y \in ClientSet /\ y.queue = t /\ y.got = g /\ y.told = x.told
        /\ y.gone = x.gone /\ y.full = x.full
    BY <1>0, <2>2, <2>4 DEF ClientSet
  <2>6. \A m \in Range(g), n \in Range(t) : m < n
    BY <1>0, <2>2, <2>4 DEF Fine
  <2>7. Len(t) <= SubQueue
    BY <1>0, <2>2, ReadsAssumption DEF Fine
  <2>8. \A n \in Range(g) \cup Range(t) : n \in Range(x.got) \cup Range(x.queue)
    BY <2>2, <2>4
  <2>9. ~ x.gone => Range(g) \cup Range(t) = Range(x.got) \cup Range(x.queue)
    BY <2>2, <2>4
  <2>10. Fine(c, y, aired)
    BY <1>0, <2>1, <2>2, <2>4, <2>5, <2>6, <2>7, <2>8, <2>9 DEF Fine
  <2>11. sub' = [sub EXCEPT ![c] = y]
    BY <1>6 DEF Get
  <2> QED  BY <1>0, <2>10, <2>11, OneClientChanges
<1> QED  BY <1>1, <1>2, <1>3, <1>4, <1>5, <1>6

\* Every step of the stream.
LEMMA StreamKeeps == StreamIInv /\ [StreamNext]_streamVars => StreamIInv'
<1> SUFFICES ASSUME StreamIInv, [StreamNext]_streamVars PROVE StreamIInv'
  OBVIOUS
<1>1. CASE UNCHANGED streamVars
  BY <1>1 DEF streamVars, StreamIInv
<1> QED  BY <1>1, BroadcastKeeps, ClientKeeps DEF StreamNext

\* Nobody has subscribed.
LEMMA StreamInitially == ReadsInit => StreamIInv
<1> SUFFICES ASSUME ReadsInit PROVE StreamIInv
  OBVIOUS
<1>1. aired \in Seq(Kinds)
  BY DEF ReadsInit
<1>2. NoClient = [NoClient EXCEPT !.pc = "off"]
  BY DEF NoClient
<1>3. \A c \in Clients : Fine(c, NoClient, aired)
  BY <1>1, <1>2, NoClientFine
<1>4. NoClient \in ClientSet
  BY NothingQueued DEF NoClient, ClientSet
<1> QED  BY <1>1, <1>3, <1>4 DEF ReadsInit, StreamIInv

\* ... so that what a client is sent is what it should be sent.
LEMMA StreamImplies == StreamIInv => StreamFaithful
<1> SUFFICES ASSUME StreamIInv, NEW c \in Clients
             PROVE  LET flow == sub[c].got \o sub[c].queue
                        due == {n \in (sub[c].told + 1)..Len(aired) : Accepts(c, aired[n])}
                    IN  /\ \A i \in 1..(Len(flow) - 1) : flow[i] < flow[i + 1]
                        /\ \A i \in DOMAIN flow : Accepts(c, aired[flow[i]])
                        /\ sub[c].pc \in {"check", "get"} /\ ~ sub[c].gone /\ ~ sub[c].full =>
                             due \subseteq Range(flow)
  BY DEF StreamFaithful
<1> PICK x, f : x = sub[c] /\ f = x.got \o x.queue
  OBVIOUS
<1>1. Fine(c, x, aired) /\ x \in ClientSet /\ aired \in Seq(Kinds) /\ Len(aired) \in Nat
  BY DEF StreamIInv
<1>2. x.got \in Seq(Nat) /\ x.queue \in Seq(Nat) /\ x.told \in Nat
  BY <1>1 DEF ClientSet
<1>3. /\ \A i \in 1..(Len(f) - 1) : f[i] < f[i + 1]
      /\ Range(f) = Range(x.got) \cup Range(x.queue)
  BY <1>1, <1>2, RisingConcat DEF Fine
<1>4. \A i \in DOMAIN f : Accepts(c, aired[f[i]])
  BY <1>1, <1>3 DEF Fine, Range
<1>5. ASSUME x.pc \in {"check", "get"}, ~ x.gone, ~ x.full,
             NEW n \in (x.told + 1)..Len(aired), Accepts(c, aired[n])
      PROVE  n \in Range(f)
  <2>1. n \in 1..Len(aired) /\ x.told < n
    BY <1>1, <1>2
  <2> QED  BY <1>1, <1>3, <1>5, <2>1 DEF Fine
<1> QED  BY <1>3, <1>4, <1>5

-----------------------------------------------------------------------------
(***************************************************************************)
(* Pages                                                                   *)
(***************************************************************************)

\* No row is there twice.
Distinct(q) == \A i, j \in 1..Len(q) : q[i] = q[j] => i = j

\* The rows from the a-th to the b-th.
Part(q, a, b) == {q[i] : i \in a..b}

\* A slice is a list of these rows.
LEMMA SliceOf ==
  ASSUME NEW q \in Seq(Stored), NEW a \in Nat, NEW b \in Nat, 1 <= a, a <= b + 1, b <= Len(q)
  PROVE  /\ SubSeq(q, a, b) \in Seq(Stored) /\ Len(SubSeq(q, a, b)) = b - a + 1
         /\ \A i \in 1..(b - a + 1) : SubSeq(q, a, b)[i] = q[i + a - 1]
         /\ Range(SubSeq(q, a, b)) = Part(q, a, b)
<1>1. SubSeq(q, a, b) = [i \in 1..(b - a + 1) |-> q[i + a - 1]]
  OBVIOUS
<1>2. b - a + 1 \in Nat /\ Len(q) \in Nat
  OBVIOUS
<1>3. \A i \in 1..(b - a + 1) : i + a - 1 \in 1..Len(q) /\ i + a - 1 \in a..b
  BY <1>2
<1>4. \A i \in 1..Len(q) : q[i] \in Stored
  OBVIOUS
<1> PICK r, m : r = SubSeq(q, a, b) /\ m = b - a + 1
  OBVIOUS
<1>5. r \in Seq(Stored) /\ Len(r) = m /\ DOMAIN r = 1..m /\ \A i \in 1..m : r[i] = q[i + a - 1]
  BY <1>1, <1>2, <1>3, <1>4
<1>6. Range(r) = Part(q, a, b)
  <2>1. Range(r) \subseteq Part(q, a, b)
    BY <1>3, <1>5 DEF Range, Part
  <2>2. ASSUME NEW i \in a..b PROVE q[i] \in Range(r)
    <3>1. i - a + 1 \in 1..m /\ (i - a + 1) + a - 1 = i
      BY <1>2
    <3>2. r[i - a + 1] = q[(i - a + 1) + a - 1]
      BY <1>5, <3>1
    <3> QED  BY <1>5, <3>1, <3>2, Zenon DEF Range
  <2> QED  BY <2>1, <2>2 DEF Part
<1> QED  BY <1>5, <1>6

\* One list after another.
LEMMA Joined ==
  ASSUME NEW p \in Seq(Stored), NEW q \in Seq(Stored)
  PROVE  /\ p \o q \in Seq(Stored) /\ Len(p \o q) = Len(p) + Len(q)
         /\ \A j \in 1..Len(p) : (p \o q)[j] = p[j]
         /\ \A j \in 1..Len(q) : (p \o q)[Len(p) + j] = q[j]
         /\ Len(p) \in Nat /\ Len(q) \in Nat
         /\ Range(p \o q) = Range(p) \cup Range(q)
<1>1. p \o q \in Seq(Stored) /\ Len(p \o q) = Len(p) + Len(q)
  OBVIOUS
<1>2. \A j \in 1..Len(p) : (p \o q)[j] = p[j]
  OBVIOUS
<1>3. \A j \in 1..Len(q) : (p \o q)[Len(p) + j] = q[j]
  OBVIOUS
<1>4. Len(p) \in Nat /\ Len(q) \in Nat /\ DOMAIN p = 1..Len(p) /\ DOMAIN q = 1..Len(q)
      /\ DOMAIN (p \o q) = 1..(Len(p) + Len(q))
  OBVIOUS
<1> PICK r, m, n : r = p \o q /\ m = Len(p) /\ n = Len(q)
  OBVIOUS
<1>5. /\ m \in Nat /\ n \in Nat /\ DOMAIN r = 1..(m + n)
      /\ \A j \in 1..m : r[j] = p[j]
      /\ \A j \in 1..n : r[m + j] = q[j]
  BY <1>2, <1>3, <1>4
<1>6. \A j \in 1..(m + n) : j \in 1..m \/ (j - m \in 1..n /\ m + (j - m) = j)
  BY <1>5
<1>7. \A j \in 1..m : j \in 1..(m + n)
  BY <1>5
<1>8. \A j \in 1..n : m + j \in 1..(m + n)
  BY <1>5
<1>9. Range(r) = Range(p) \cup Range(q)
  <2>1. \A j \in 1..(m + n) : r[j] \in Range(p) \cup Range(q)
    <3>1. \A j \in 1..m : r[j] \in Range(p)
      BY <1>4, <1>5 DEF Range
    <3>2. \A j \in 1..n : r[m + j] \in Range(q)
      BY <1>4, <1>5 DEF Range
    <3> SUFFICES ASSUME NEW j \in 1..(m + n) PROVE r[j] \in Range(p) \cup Range(q)
      OBVIOUS
    <3>3. CASE j \in 1..m
      BY <3>1, <3>3
    <3>4. CASE j - m \in 1..n /\ m + (j - m) = j
      BY <3>2, <3>4
    <3> QED  BY <1>6, <3>3, <3>4
  <2>2. Range(p) \subseteq Range(r)
    BY <1>4, <1>5, <1>7 DEF Range
  <2>3. Range(q) \subseteq Range(r)
    <3> SUFFICES ASSUME NEW j \in 1..n PROVE q[j] \in Range(r)
      BY <1>4 DEF Range
    <3>1. r[m + j] = q[j] /\ m + j \in DOMAIN r
      BY <1>5, <1>8
    <3> QED  BY <3>1 DEF Range
  <2>4. Range(r) \subseteq Range(p) \cup Range(q)
    BY <1>5, <2>1 DEF Range
  <2> QED  BY <2>2, <2>3, <2>4
<1> QED  BY <1>1, <1>2, <1>3, <1>4, <1>9

\* The same of a list that is named.
LEMMA JoinedAs ==
  ASSUME NEW p, NEW q, NEW r, p \in Seq(Stored), q \in Seq(Stored), r = p \o q
  PROVE  /\ r \in Seq(Stored) /\ Len(r) = Len(p) + Len(q)
         /\ \A j \in 1..Len(p) : r[j] = p[j]
         /\ \A j \in 1..Len(q) : r[Len(p) + j] = q[j]
  BY Joined

\* The rows of a table that has each once.
LEMMA PartSize ==
  ASSUME NEW q \in Seq(Stored), Distinct(q),
         NEW a \in Nat, NEW b \in Nat, 1 <= a, a <= b + 1, b <= Len(q)
  PROVE  IsFiniteSet(Part(q, a, b)) /\ Cardinality(Part(q, a, b)) = b - a + 1
<1> DEFINE f == [i \in a..b |-> q[i]]
<1>1. \A i \in a..b : i \in 1..Len(q)
  OBVIOUS
<1>2. f \in Surjection(a..b, Part(q, a, b))
  BY DEF Surjection, Part
<1>3. f \in Injection(a..b, Part(q, a, b))
  <2>1. f \in [a..b -> Part(q, a, b)]
    BY DEF Part
  <2>2. \A i, j \in a..b : f[i] = f[j] => i = j
    BY <1>1 DEF Distinct
  <2> HIDE DEF f
  <2> QED  BY <2>1, <2>2 DEF Injection, IsInjective
<1>4. IsFiniteSet(a..b) /\ Cardinality(a..b) = b - a + 1
  <2>1. IsFiniteSet(a..b) /\ Cardinality(a..b) = IF a > b THEN 0 ELSE b - a + 1
    BY FS_Interval
  <2>2. a > b => b - a + 1 = 0
    OBVIOUS
  <2> QED  BY <2>1, <2>2
<1> HIDE DEF f
<1>5. IsFiniteSet(Part(q, a, b)) /\ Cardinality(Part(q, a, b)) = Cardinality(a..b)
  BY <1>2, <1>3, <1>4, FS_Surjection
<1> QED  BY <1>4, <1>5

\* r is q with e at its i-th place.
HasCome(r, q, i, e) ==
  /\ r \in Seq(Stored) /\ Len(r) = Len(q) + 1
  /\ \A j \in 1..(Len(q) + 1) : j < i => r[j] = q[j]
  /\ r[i] = e
  /\ \A j \in 1..(Len(q) + 1) : j > i => r[j] = q[j - 1]

\* A row comes in somewhere.
LEMMA Inserted ==
  ASSUME NEW q \in Seq(Stored), NEW e \in Stored, NEW i \in 1..(Len(q) + 1),
         NEW r, r = InsertAt(q, i, e)
  PROVE  HasCome(r, q, i, e)
<1> PICK n, u, v : n = Len(q) /\ u = SubSeq(q, 1, i - 1) /\ v = SubSeq(q, i, n)
  OBVIOUS
<1>1. n \in Nat /\ i \in Nat /\ i - 1 \in Nat /\ 1 <= i /\ i <= n + 1
  OBVIOUS
<1>2. /\ u \in Seq(Stored) /\ Len(u) = i - 1
      /\ \A j \in 1..(i - 1) : u[j] = q[j]
  <2>1. 1 \in Nat /\ 1 <= 1 /\ 1 <= (i - 1) + 1 /\ i - 1 <= n
    BY <1>1
  <2>2. /\ u \in Seq(Stored) /\ Len(u) = (i - 1) - 1 + 1
        /\ \A j \in 1..((i - 1) - 1 + 1) : u[j] = q[j + 1 - 1]
    BY <1>1, <2>1, SliceOf
  <2>3. (i - 1) - 1 + 1 = i - 1 /\ \A j \in 1..(i - 1) : j + 1 - 1 = j
    BY <1>1
  <2> QED  BY <2>2, <2>3
<1>3. /\ v \in Seq(Stored) /\ Len(v) = n - i + 1
      /\ \A j \in 1..(n - i + 1) : v[j] = q[j + i - 1]
  BY <1>1, SliceOf
<1> PICK w : w = u \o <<e>>
  OBVIOUS
<1>4. /\ w \in Seq(Stored) /\ Len(w) = i
      /\ \A j \in 1..(i - 1) : w[j] = q[j]
      /\ w[i] = e
  <2>1. <<e>> \in Seq(Stored) /\ Len(<<e>>) = 1 /\ <<e>>[1] = e
    OBVIOUS
  <2>2. /\ w \in Seq(Stored) /\ Len(w) = (i - 1) + 1
        /\ \A j \in 1..(i - 1) : w[j] = u[j]
        /\ w[(i - 1) + 1] = e
    <3> PICK z : z = <<e>>
      OBVIOUS
    <3>1. u \in Seq(Stored) /\ z \in Seq(Stored) /\ w = u \o z
      BY <1>2, <2>1
    <3>2. /\ w \in Seq(Stored) /\ Len(w) = Len(u) + Len(z)
          /\ \A j \in 1..Len(u) : w[j] = u[j]
          /\ \A j \in 1..Len(z) : w[Len(u) + j] = z[j]
      BY ONLY <3>1, JoinedAs
    <3>3. Len(z) = 1 /\ z[1] = e /\ 1 \in 1..1 /\ Len(u) = i - 1
      BY <1>2, <2>1
    <3> QED  BY ONLY <3>2, <3>3
  <2>3. (i - 1) + 1 = i
    BY <1>1
  <2> QED  BY <1>2, <2>2, <2>3
<1>5. r = w \o v
  BY DEF InsertAt
<1>6. /\ r \in Seq(Stored) /\ Len(r) = i + (n - i + 1)
      /\ \A j \in 1..i : r[j] = w[j]
      /\ \A j \in 1..(n - i + 1) : r[i + j] = v[j]
  <2>1. w \in Seq(Stored) /\ v \in Seq(Stored)
    BY <1>3, <1>4
  <2>2. /\ r \in Seq(Stored) /\ Len(r) = Len(w) + Len(v)
        /\ \A j \in 1..Len(w) : r[j] = w[j]
        /\ \A j \in 1..Len(v) : r[Len(w) + j] = v[j]
    BY ONLY <1>5, <2>1, JoinedAs
  <2> QED  BY <1>3, <1>4, <2>2
<1>7. i + (n - i + 1) = n + 1
  BY <1>1
<1>8. ASSUME NEW j \in 1..(n + 1), j < i PROVE r[j] = q[j]
  <2>1. j \in 1..i /\ j \in 1..(i - 1)
    BY <1>1, <1>8
  <2> QED  BY <1>4, <1>6, <2>1
<1>9. r[i] = e
  <2>1. i \in 1..i
    BY <1>1
  <2> QED  BY <1>4, <1>6, <2>1
<1>10. ASSUME NEW j \in 1..(n + 1), j > i PROVE r[j] = q[j - 1]
  <2>1. j - i \in 1..(n - i + 1) /\ i + (j - i) = j /\ (j - i) + i - 1 = j - 1
    BY <1>1, <1>10
  <2>2. r[i + (j - i)] = v[j - i] /\ v[j - i] = q[(j - i) + i - 1]
    BY <1>3, <1>6, <2>1
  <2> QED  BY <2>1, <2>2
<1> QED  BY <1>6, <1>7, <1>8, <1>9, <1>10 DEF HasCome

\* A row that comes in is one of the rows, and each is there once.
LEMMA InsertedRows ==
  ASSUME NEW q \in Seq(Stored), Distinct(q), NEW e \in Stored, e \notin Range(q),
         NEW i \in 1..(Len(q) + 1), NEW r, r = InsertAt(q, i, e)
  PROVE  Distinct(r) /\ Range(r) = Range(q) \cup {e}
<1>i. HasCome(r, q, i, e)
  BY Inserted
<1> PICK n : n = Len(q)
  OBVIOUS
<1>1. /\ n \in Nat /\ i \in Nat /\ 1 <= i /\ i <= n + 1 /\ DOMAIN q = 1..n
  OBVIOUS
<1>2. /\ r \in Seq(Stored) /\ Len(r) = n + 1
      /\ \A j \in 1..(n + 1) : j < i => r[j] = q[j]
      /\ r[i] = e
      /\ \A j \in 1..(n + 1) : j > i => r[j] = q[j - 1]
  BY <1>i DEF HasCome
<1>3. DOMAIN r = 1..(n + 1)
  BY <1>2
<1>4. \A j \in 1..n : q[j] \in Range(q) /\ q[j] # e
  BY <1>1 DEF Range
<1>5. \A j \in 1..(n + 1) : \/ j < i /\ j \in 1..n
                            \/ j = i
                            \/ j > i /\ j - 1 \in 1..n
  BY <1>1
<1>6. \A j, k \in 1..n : q[j] = q[k] => j = k
  BY DEF Distinct
<1>7. Distinct(r)
  <2> SUFFICES ASSUME NEW j \in 1..(n + 1), NEW k \in 1..(n + 1), r[j] = r[k]
               PROVE  j = k
    BY <1>2 DEF Distinct
  <2>1. CASE j < i /\ j \in 1..n
    <3>1. r[j] = q[j] /\ r[j] # e
      <4>1. j \in 1..(n + 1) /\ j < i
        BY <2>1
      <4>2. r[j] = q[j]
        BY ONLY <1>2, <4>1
      <4> QED  BY <1>4, <2>1, <4>2
    <3>2. CASE k < i /\ k \in 1..n
      <4>1. q[j] = q[k]
        BY <1>2, <3>1, <3>2
      <4> QED  BY <1>6, <2>1, <3>2, <4>1
    <3>3. CASE k = i
      BY <1>2, <3>1, <3>3
    <3>4. CASE k > i /\ k - 1 \in 1..n
      <4>1. q[j] = q[k - 1]
        BY <1>2, <3>1, <3>4
      <4>2. j = k - 1
        BY <1>6, <2>1, <3>4, <4>1
      <4> QED  BY <1>1, <2>1, <3>4, <4>2
    <3> QED  BY <1>5, <3>2, <3>3, <3>4
  <2>2. CASE j = i
    <3>1. r[k] = e
      BY <1>2, <2>2
    <3>2. ~ (k < i /\ k \in 1..n)
      BY <1>2, <1>4, <3>1
    <3>3. ~ (k > i /\ k - 1 \in 1..n)
      BY <1>2, <1>4, <3>1
    <3> QED  BY <1>5, <2>2, <3>2, <3>3
  <2>3. CASE j > i /\ j - 1 \in 1..n
    <3>1. r[j] = q[j - 1] /\ r[j] # e
      BY <1>2, <1>4, <2>3
    <3>2. CASE k < i /\ k \in 1..n
      <4>1. q[k] = q[j - 1]
        BY <1>2, <3>1, <3>2
      <4>2. k = j - 1
        BY <1>6, <2>3, <3>2, <4>1
      <4> QED  BY <1>1, <2>3, <3>2, <4>2
    <3>3. CASE k = i
      BY <1>2, <3>1, <3>3
    <3>4. CASE k > i /\ k - 1 \in 1..n
      <4>1. q[k - 1] = q[j - 1]
        BY <1>2, <3>1, <3>4
      <4>2. k - 1 = j - 1
        BY <1>6, <2>3, <3>4, <4>1
      <4> QED  BY <4>2
    <3> QED  BY <1>5, <3>2, <3>3, <3>4
  <2> QED  BY <1>5, <2>1, <2>2, <2>3
<1>8. Range(r) \subseteq Range(q) \cup {e}
  <2> SUFFICES ASSUME NEW j \in 1..(n + 1) PROVE r[j] \in Range(q) \cup {e}
    BY <1>3 DEF Range
  <2> QED  BY <1>2, <1>4, <1>5
<1>9. e \in Range(r)
  BY <1>1, <1>2, <1>3 DEF Range
<1>10. Range(q) \subseteq Range(r)
  <2> SUFFICES ASSUME NEW j \in 1..n PROVE q[j] \in Range(r)
    BY <1>1 DEF Range
  <2>1. CASE j < i
    <3>1. j \in 1..(n + 1) /\ r[j] = q[j]
      BY <1>1, <1>2, <2>1
    <3> QED  BY <1>3, <3>1 DEF Range
  <2>2. CASE j >= i
    <3>1. j + 1 \in 1..(n + 1) /\ j + 1 > i /\ (j + 1) - 1 = j
      BY <1>1, <2>2
    <3>2. r[j + 1] = q[(j + 1) - 1]
      BY <1>2, <3>1
    <3> QED  BY <1>3, <3>1, <3>2 DEF Range
  <2> QED  BY <1>1, <2>1, <2>2
<1> QED  BY <1>7, <1>8, <1>9, <1>10

\* The first rows are pushed on by one at most, and only that one comes among them.
LEMMA InsertedHead ==
  ASSUME NEW q \in Seq(Stored), NEW e \in Stored, NEW i \in 1..(Len(q) + 1),
         NEW o \in Nat, o <= Len(q), NEW r, r = InsertAt(q, i, e)
  PROVE  /\ \A j \in 1..o : r[j] = e \/ \E k \in 1..o : r[j] = q[k]
         /\ Part(q, 1, o) \subseteq Part(r, 1, o) \cup {q[o]}
<1>i. HasCome(r, q, i, e)
  BY Inserted
<1> PICK n : n = Len(q)
  OBVIOUS
<1>1. /\ n \in Nat /\ i \in Nat /\ 1 <= i /\ i <= n + 1 /\ o <= n
  OBVIOUS
<1>2. /\ \A j \in 1..(n + 1) : j < i => r[j] = q[j]
      /\ r[i] = e
      /\ \A j \in 1..(n + 1) : j > i => r[j] = q[j - 1]
  BY <1>i DEF HasCome
<1>3. ASSUME NEW j \in 1..o PROVE r[j] = e \/ \E k \in 1..o : r[j] = q[k]
  <2>1. CASE j < i
    BY <1>1, <1>2, <2>1
  <2>2. CASE j = i
    BY <1>2, <2>2
  <2>3. CASE j > i
    <3>1. j \in 1..(n + 1) /\ j - 1 \in 1..o
      BY <1>1, <2>3
    <3> QED  BY <1>2, <2>3, <3>1
  <2> QED  BY <1>1, <2>1, <2>2, <2>3
<1>4. ASSUME NEW j \in 1..o PROVE q[j] \in Part(r, 1, o) \cup {q[o]}
  <2>1. CASE j < i
    <3>1. j \in 1..(n + 1) /\ r[j] = q[j]
      BY <1>1, <1>2, <2>1
    <3> QED  BY <3>1 DEF Part
  <2>2. CASE j >= i /\ j < o
    <3>1. j + 1 \in 1..(n + 1) /\ j + 1 \in 1..o /\ j + 1 > i /\ (j + 1) - 1 = j
      BY <1>1, <2>2
    <3>2. r[j + 1] = q[(j + 1) - 1]
      BY <1>2, <3>1
    <3> QED  BY <3>1, <3>2 DEF Part
  <2>3. j < i \/ (j >= i /\ j < o) \/ j = o
    BY <1>1
  <2> QED  BY <2>1, <2>2, <2>3
<1> QED  BY <1>3, <1>4 DEF Part

\* The events the walk has sent.
Seen == Range(walk.seen)

\* The events sent already that a later page may send again.
Ahead == Seen \ Part(listing, 1, walk.offset)

\* Between two pages the walk has sent as many events as it skips, with every old one
\* among those; and each that it may repeat was pushed on by another that came in.
WalkGoesOn ==
  /\ walk.offset <= Len(listing) /\ Len(walk.seen) = walk.offset
  /\ \A i \in 1..walk.offset : listing[i] \in walk.old => listing[i] \in Seen
  /\ Len(walk.seen) + Cardinality(Ahead) <= walk.grown + Cardinality(Seen)

\* What a walk may be at all.
WalkSet ==
  [pc : {"idle", "count", "page", "ended"}, offset : Nat, limit : Nat, total : Nat,
   seen : Seq(Stored), old : SUBSET Stored, grown : Nat, late : Nat]

\* While it goes on, the walk is in balance; once it has ended it is explained.
WalkIInv ==
  /\ listing \in Seq(Stored) /\ Distinct(listing)
  /\ walk \in WalkSet
  /\ Seen \subseteq Range(listing) /\ walk.old \subseteq Range(listing)
  /\ walk.pc = "idle" => walk.seen = <<>>
  /\ walk.pc \in {"count", "page"} => WalkGoesOn
  /\ walk.pc = "page" => walk.total + walk.late = Len(listing)
  /\ walk.pc = "ended" => MissesOnlyLate /\ RepeatsOnlyGrown

\* Sets of events that lists hold are finite.
LEMMA RangeFinite ==
  ASSUME NEW q \in Seq(Stored)
  PROVE  /\ IsFiniteSet(Range(q)) /\ Cardinality(Range(q)) \in Nat
         /\ Len(q) \in Nat /\ DOMAIN q = 1..Len(q)
<1>1. DOMAIN q = 1..Len(q) /\ Len(q) \in Nat
  OBVIOUS
<1>2. q \in [1..Len(q) -> Range(q)]
  <2>1. q \in [1..Len(q) -> Stored]
    OBVIOUS
  <2>2. \A j \in 1..Len(q) : q[j] \in Range(q)
    BY <1>1 DEF Range
  <2> QED  BY <2>1, <2>2
<1>3. q \in Surjection(1..Len(q), Range(q))
  <2>1. \A x \in Range(q) : \E j \in 1..Len(q) : q[j] = x
    BY <1>1 DEF Range
  <2> QED  BY <1>2, <2>1 DEF Surjection
<1>4. IsFiniteSet(1..Len(q))
  BY <1>1, FS_Interval
<1>5. IsFiniteSet(Range(q))
  BY <1>3, <1>4, FS_Surjection
<1>6. Cardinality(Range(q)) \in Nat
  BY <1>5, FS_CardinalityType
<1> QED  BY <1>1, <1>5, <1>6

\* The count of a page: Q is the page, A are the rows before it, R what was sent.
LEMMA SeenGrows ==
  ASSUME NEW R, NEW Q, NEW A, IsFiniteSet(R), IsFiniteSet(Q), Q \cap A = {},
         NEW m \in Nat, NEW g \in Nat, m + Cardinality(R \ A) <= g + Cardinality(R)
  PROVE  m + Cardinality(Q) + Cardinality((R \cup Q) \ (A \cup Q))
           <= g + Cardinality(R \cup Q)
<1>1. IsFiniteSet(R \ A)
  BY FS_Subset
<1>2. (R \cup Q) \ (A \cup Q) = (R \ A) \ Q /\ (R \ A) \cap Q = R \cap Q
  OBVIOUS
<1>3. Cardinality((R \ A) \ Q) = Cardinality(R \ A) - Cardinality((R \ A) \cap Q)
  BY <1>1, FS_Difference
<1>4. Cardinality(R \cup Q) = Cardinality(R) + Cardinality(Q) - Cardinality(R \cap Q)
  BY FS_Union
<1>5. /\ Cardinality(R \ A) \in Nat /\ Cardinality(R) \in Nat /\ Cardinality(Q) \in Nat
      /\ Cardinality(R \cap Q) \in Nat
  <2>1. IsFiniteSet(R \cap Q)
    BY FS_Subset
  <2> QED  BY <1>1, <2>1, FS_CardinalityType
<1> PICK x, y, z, w : x = Cardinality(R \ A) /\ y = Cardinality(R)
                      /\ z = Cardinality(Q) /\ w = Cardinality(R \cap Q)
  OBVIOUS
<1>6. m + z + (x - w) <= g + (y + z - w)
  BY <1>5
<1> QED  BY <1>2, <1>3, <1>4, <1>6

\* One row more is ahead, at most.
LEMMA OneAhead ==
  ASSUME NEW R, NEW A, NEW B, NEW x, IsFiniteSet(R), A \subseteq B \cup {x}
  PROVE  /\ Cardinality(R \ B) \in Nat /\ Cardinality(R \ A) \in Nat
         /\ Cardinality(R \ B) <= Cardinality(R \ A) + 1
<1>1. IsFiniteSet(R \ A) /\ IsFiniteSet(R \ B)
  BY FS_Subset
<1>2. R \ B \subseteq (R \ A) \cup {x}
  OBVIOUS
<1>3. /\ IsFiniteSet((R \ A) \cup {x})
      /\ Cardinality((R \ A) \cup {x}) = IF x \in R \ A THEN Cardinality(R \ A)
                                         ELSE Cardinality(R \ A) + 1
  BY <1>1, FS_AddElement
<1>4. Cardinality(R \ B) <= Cardinality((R \ A) \cup {x})
  BY <1>2, <1>3, FS_Subset
<1>5. Cardinality(R \ B) \in Nat /\ Cardinality(R \ A) \in Nat
  BY <1>1, FS_CardinalityType
<1> QED  BY <1>3, <1>4, <1>5

\* What an event that comes in changes of the walk.
LEMMA OneMore ==
  ASSUME NEW w \in WalkSet, NEW x,
         x = [w EXCEPT !.grown = w.grown + 1, !.late = w.late + 1]
  PROVE  /\ x.pc = w.pc /\ x.offset = w.offset /\ x.limit = w.limit
         /\ x.total = w.total /\ x.seen = w.seen /\ x.old = w.old
         /\ x.grown = w.grown + 1 /\ x.late = w.late + 1
         /\ x \in WalkSet
<1>1. w.grown + 1 \in Nat /\ w.late + 1 \in Nat
  BY DEF WalkSet
<1> PICK g, l : g = w.grown + 1 /\ l = w.late + 1
  OBVIOUS
<1>2. g \in Nat /\ l \in Nat /\ x = [w EXCEPT !.grown = g, !.late = l]
  BY <1>1
<1>3. x \in WalkSet
  BY ONLY <1>2, w \in WalkSet DEF WalkSet
<1>4. /\ x.pc = w.pc /\ x.offset = w.offset /\ x.limit = w.limit
      /\ x.total = w.total /\ x.seen = w.seen /\ x.old = w.old
      /\ x.grown = g /\ x.late = l
  BY ONLY <1>2, w \in WalkSet DEF WalkSet
<1> QED  BY <1>3, <1>4

\* Whatever comes in, a walk goes on, and one that has ended is still explained.
LEMMA StoreKeeps ==
  ASSUME WalkIInv, NEW e \in Stored, Store(e)
  PROVE  WalkIInv'
<1> PICK i \in 1..(Len(listing) + 1) : listing' = InsertAt(listing, i, e)
  BY DEF Store
<1> PICK q, r, n : q = listing /\ r = listing' /\ n = Len(q)
  OBVIOUS
<1>1. /\ q \in Seq(Stored) /\ Distinct(q) /\ e \notin Range(q) /\ r = InsertAt(q, i, e)
      /\ n \in Nat /\ i \in 1..(Len(q) + 1)
  BY DEF WalkIInv, WalkSet, Store
<1>2. r \in Seq(Stored) /\ Len(r) = n + 1
  BY <1>1, Inserted DEF HasCome
<1>3. Distinct(r) /\ Range(r) = Range(q) \cup {e}
  BY <1>1, InsertedRows
<1>4. walk.pc = "idle" => walk' = walk
  BY DEF Store
<1>5. walk.pc # "idle" =>
        /\ walk'.pc = walk.pc /\ walk'.offset = walk.offset /\ walk'.limit = walk.limit
        /\ walk'.total = walk.total /\ walk'.seen = walk.seen /\ walk'.old = walk.old
        /\ walk'.grown = walk.grown + 1 /\ walk'.late = walk.late + 1
        /\ walk' \in WalkSet
  <2> SUFFICES ASSUME walk.pc # "idle"
               PROVE  /\ walk'.pc = walk.pc /\ walk'.offset = walk.offset
                      /\ walk'.limit = walk.limit /\ walk'.total = walk.total
                      /\ walk'.seen = walk.seen /\ walk'.old = walk.old
                      /\ walk'.grown = walk.grown + 1 /\ walk'.late = walk.late + 1
                      /\ walk' \in WalkSet
    OBVIOUS
  <2>1. walk \in WalkSet
    BY DEF WalkIInv
  <2>2. walk' = [walk EXCEPT !.grown = walk.grown + 1, !.late = walk.late + 1]
    BY DEF Store
  <2> QED  BY <2>1, <2>2, OneMore
<1>6. /\ walk'.pc = walk.pc /\ walk'.seen = walk.seen /\ walk'.old = walk.old
      /\ Seen' = Seen
  BY <1>4, <1>5 DEF Seen
<1>7. listing' \in Seq(Stored) /\ Distinct(listing')
  BY <1>2, <1>3
<1>8. walk' \in WalkSet
  BY <1>4, <1>5 DEF WalkIInv
<1>9. Seen' \subseteq Range(listing') /\ walk'.old \subseteq Range(listing')
  BY <1>3, <1>6 DEF WalkIInv, WalkSet
<1>10. walk'.pc = "idle" => walk'.seen = <<>>
  BY <1>6 DEF WalkIInv, WalkSet
<1>11. ASSUME walk'.pc \in {"count", "page"} PROVE WalkGoesOn'
  <2>1. walk.pc # "idle" /\ WalkGoesOn
    BY <1>6, <1>11 DEF WalkIInv, WalkSet
  <2> PICK o, R, g : o = walk.offset /\ R = Seen /\ g = walk.grown
    OBVIOUS
  <2>2. o \in Nat /\ o <= n /\ g \in Nat /\ Len(walk.seen) = o
    BY <2>1 DEF WalkGoesOn, WalkIInv, WalkSet
  <2>3. IsFiniteSet(R)
    BY RangeFinite DEF WalkIInv, WalkSet, Seen
  <2>4. /\ \A j \in 1..o : r[j] = e \/ \E k \in 1..o : r[j] = q[k]
        /\ Part(q, 1, o) \subseteq Part(r, 1, o) \cup {q[o]}
    <3>1. /\ q \in Seq(Stored) /\ e \in Stored /\ i \in 1..(Len(q) + 1)
          /\ o \in Nat /\ o <= Len(q) /\ r = InsertAt(q, i, e)
      BY <1>1, <2>2
    <3> QED  BY ONLY <3>1, InsertedHead
  <2>5. e \notin walk.old
    BY <1>1 DEF WalkIInv, WalkSet
  <2>6. \A j \in 1..o : r[j] \in walk.old => r[j] \in R
    BY <2>1, <2>4, <2>5 DEF WalkGoesOn
  <2>7. /\ Cardinality(R \ Part(r, 1, o)) \in Nat
        /\ Cardinality(R \ Part(q, 1, o)) \in Nat
        /\ Cardinality(R \ Part(r, 1, o)) <= Cardinality(R \ Part(q, 1, o)) + 1
    BY <2>3, <2>4, OneAhead
  <2>8. o + Cardinality(R \ Part(q, 1, o)) <= g + Cardinality(R)
    BY <2>1, <2>2 DEF WalkGoesOn, Ahead
  <2>9. Cardinality(R) \in Nat
    BY <2>3, FS_CardinalityType
  <2>10. o + Cardinality(R \ Part(r, 1, o)) <= (g + 1) + Cardinality(R)
    <3> PICK x, y, z : x = Cardinality(R \ Part(r, 1, o)) /\ z = Cardinality(R)
                       /\ y = Cardinality(R \ Part(q, 1, o))
      OBVIOUS
    <3> QED  BY SMTT(30), <2>2, <2>7, <2>8, <2>9
  <2>11. /\ walk'.offset = o /\ walk'.grown = g + 1 /\ Seen' = R /\ listing' = r
         /\ Ahead' = R \ Part(r, 1, o)
    BY <1>5, <1>6, <2>1 DEF Ahead
  <2>12. o <= n + 1
    BY <2>2, <1>1
  <2> QED  BY <1>2, <1>6, <2>2, <2>6, <2>10, <2>11, <2>12 DEF WalkGoesOn
<1>12. walk'.pc = "page" => walk'.total + walk'.late = Len(listing')
  <2> SUFFICES ASSUME walk'.pc = "page" PROVE walk'.total + walk'.late = Len(listing')
    OBVIOUS
  <2>1. walk'.total = walk.total /\ walk'.late = walk.late + 1 /\ walk.total + walk.late = n
    BY <1>5, <1>6 DEF WalkIInv, WalkSet
  <2>2. walk.total \in Nat /\ walk.late \in Nat
    BY DEF WalkIInv, WalkSet
  <2> QED  BY <1>2, <2>1, <2>2
<1>13. ASSUME walk'.pc = "ended" PROVE MissesOnlyLate' /\ RepeatsOnlyGrown'
  <2>1. walk.pc = "ended" /\ MissesOnlyLate /\ RepeatsOnlyGrown
    BY <1>6, <1>13 DEF WalkIInv, WalkSet
  <2>2. walk'.late = walk.late + 1 /\ walk'.grown = walk.grown + 1
        /\ walk.late \in Nat /\ walk.grown \in Nat /\ walk.seen \in Seq(Stored)
    BY <1>5, <2>1 DEF WalkIInv, WalkSet
  <2>3. Len(walk.seen) \in Nat /\ Cardinality(Range(walk.seen)) \in Nat
    BY <2>2, RangeFinite
  <2>4. MissesOnlyLate'
    <3>1. Cardinality(walk.old \ Range(walk.seen)) \in Nat
      <4>1. IsFiniteSet(Range(listing)) /\ walk.old \ Range(walk.seen) \subseteq Range(listing)
        BY RangeFinite DEF WalkIInv, WalkSet
      <4>2. IsFiniteSet(walk.old \ Range(walk.seen))
        BY <4>1, FS_Subset
      <4> QED  BY <4>2, FS_CardinalityType
    <3>2. Cardinality(walk.old \ Range(walk.seen)) <= walk.late
      BY <2>1 DEF MissesOnlyLate
    <3>3. Cardinality(walk.old \ Range(walk.seen)) <= walk.late + 1
      BY <2>2, <3>1, <3>2
    <3> QED  BY <1>6, <2>2, <3>3 DEF MissesOnlyLate
  <2>5. RepeatsOnlyGrown'
    <3>1. Len(walk.seen) - Cardinality(Range(walk.seen)) <= walk.grown
      BY <2>1 DEF RepeatsOnlyGrown
    <3>2. Len(walk.seen) - Cardinality(Range(walk.seen)) <= walk.grown + 1
      BY <2>2, <2>3, <3>1
    <3> QED  BY <1>6, <2>2, <3>2 DEF RepeatsOnlyGrown
  <2> QED  BY <2>4, <2>5
<1> QED  BY <1>7, <1>8, <1>9, <1>10, <1>11, <1>12, <1>13 DEF WalkIInv, WalkSet

\* A walk begins with nothing sent.
LEMMA BeginWalkKeeps ==
  ASSUME ReadsAssumption, WalkIInv, BeginWalk
  PROVE  WalkIInv'
<1> PICK n \in Limits :
      walk' = [NoWalk EXCEPT !.pc = "count", !.limit = n, !.old = Range(listing)]
  BY DEF BeginWalk
<1>1. n \in Nat /\ Range(listing) \in SUBSET Stored
  <2>1. listing \in Seq(Stored)
    BY DEF WalkIInv
  <2>2. Range(listing) \in SUBSET Stored
    BY <2>1 DEF Range
  <2> QED  BY <2>2 DEF ReadsAssumption
<1>2. /\ walk'.pc = "count" /\ walk'.offset = 0 /\ walk'.seen = <<>>
      /\ walk'.old = Range(listing) /\ walk'.grown = 0 /\ walk'.late = 0
      /\ walk'.limit = n /\ walk'.total = 0
      /\ walk' \in WalkSet
  <2> PICK o : o = Range(listing)
    OBVIOUS
  <2>1. walk' = [pc |-> "count", offset |-> 0, limit |-> n, total |-> 0, seen |-> <<>>,
                 old |-> o, grown |-> 0, late |-> 0]
    BY DEF NoWalk
  <2>2. <<>> \in Seq(Stored)
    OBVIOUS
  <2> PICK x : x = walk'
    OBVIOUS
  <2>3. x = [pc |-> "count", offset |-> 0, limit |-> n, total |-> 0, seen |-> <<>>,
             old |-> o, grown |-> 0, late |-> 0]
    BY <2>1
  <2>4. o \in SUBSET Stored
    BY <1>1
  <2>5. x \in WalkSet
    BY ONLY <1>1, <2>2, <2>3, <2>4 DEF WalkSet
  <2>6. /\ x.pc = "count" /\ x.offset = 0 /\ x.seen = <<>> /\ x.old = o
        /\ x.grown = 0 /\ x.late = 0 /\ x.limit = n /\ x.total = 0
    BY ONLY <2>3
  <2> QED  BY <2>5, <2>6
<1>3. Seen' = {}
  BY <1>2 DEF Seen, Range
<1>4. listing' = listing
  BY DEF BeginWalk
<1>5. WalkGoesOn'
  <2>1. Ahead' = {} /\ Cardinality({}) = 0
    BY <1>3, FS_EmptySet DEF Ahead
  <2>2. Len(listing) \in Nat /\ 0 <= Len(listing)
    BY DEF WalkIInv
  <2>3. Len(walk'.seen) = 0
    BY <1>2
  <2>4. \A i \in 1..0 : FALSE
    OBVIOUS
  <2>5. \A i \in 1..walk'.offset : listing'[i] \in walk'.old => listing'[i] \in Seen'
    BY <1>2, <2>4
  <2> QED  BY <1>2, <1>3, <1>4, <2>1, <2>2, <2>3, <2>5 DEF WalkGoesOn
<1> QED  BY <1>2, <1>3, <1>4, <1>5 DEF WalkIInv

\* A count changes nothing but what the next page believes.
LEMMA CountKeeps ==
  ASSUME WalkIInv, Count
  PROVE  WalkIInv'
<1> PICK n, w : n = Len(listing) /\ w = walk
  OBVIOUS
<1>1. n \in Nat /\ w \in WalkSet /\ w.pc = "count"
  BY DEF WalkIInv, Count
<1>2. walk' = [w EXCEPT !.pc = "page", !.total = n, !.late = 0] /\ listing' = listing
  BY DEF Count
<1>3. /\ walk'.pc = "page" /\ walk'.offset = w.offset /\ walk'.seen = w.seen
      /\ walk'.old = w.old /\ walk'.grown = w.grown /\ walk'.late = 0 /\ walk'.total = n
      /\ walk' \in WalkSet
  BY ONLY <1>1, <1>2 DEF WalkSet
<1>4. Seen' = Seen /\ Ahead' = Ahead
  BY <1>2, <1>3 DEF Seen, Ahead
<1>5. WalkGoesOn'
  <2>1. WalkGoesOn
    BY <1>1 DEF WalkIInv
  <2> QED  BY <1>2, <1>3, <1>4, <2>1 DEF WalkGoesOn
<1>6. walk'.total + walk'.late = Len(listing')
  BY <1>1, <1>2, <1>3
<1> QED  BY <1>2, <1>3, <1>4, <1>5, <1>6 DEF WalkIInv

\* A page takes the walk on: the rows from o + 1 to m, sent after the R of before.
LEMMA PageSent ==
  ASSUME WalkIInv, WalkGoesOn, NEW m \in Nat, walk.offset <= m, m <= Len(listing),
         NEW t, t = walk.seen \o SubSeq(listing, walk.offset + 1, m)
  PROVE  /\ t \in Seq(Stored) /\ Len(t) = m
         /\ Range(t) = Seen \cup Part(listing, walk.offset + 1, m)
         /\ Range(t) \subseteq Range(listing)
         /\ \A i \in 1..m : listing[i] \in walk.old => listing[i] \in Range(t)
         /\ Len(t) + Cardinality(Range(t) \ Part(listing, 1, m))
              <= walk.grown + Cardinality(Range(t))
<1> PICK q, o, n, p, g : /\ q = listing /\ o = walk.offset /\ n = Len(q) /\ p = walk.seen
                         /\ g = walk.grown
  OBVIOUS
<1>1. /\ q \in Seq(Stored) /\ Distinct(q) /\ n \in Nat /\ o \in Nat /\ o <= m /\ m <= n
      /\ p \in Seq(Stored) /\ Len(p) = o /\ g \in Nat
  BY DEF WalkIInv, WalkSet, WalkGoesOn
<1>2. /\ o + 1 \in Nat /\ 1 <= o + 1 /\ o + 1 <= m + 1 /\ m - (o + 1) + 1 = m - o
      /\ o + (m - o) = m
  BY SMTT(30), <1>1
<1> PICK v, Q : v = SubSeq(q, o + 1, m) /\ Q = Part(q, o + 1, m)
  OBVIOUS
<1>3. v \in Seq(Stored) /\ Len(v) = m - o /\ Range(v) = Q
  <2>1. m <= Len(q)
    BY <1>1
  <2>2. /\ SubSeq(q, o + 1, m) \in Seq(Stored) /\ Len(SubSeq(q, o + 1, m)) = m - (o + 1) + 1
        /\ Range(SubSeq(q, o + 1, m)) = Part(q, o + 1, m)
    BY ONLY SMTT(30), <1>1, <1>2, <2>1, m \in Nat, SliceOf
  <2> QED  BY <1>2, <2>2
<1>4. t = p \o v
  OBVIOUS
<1>5. t \in Seq(Stored) /\ Len(t) = Len(p) + Len(v) /\ Range(t) = Range(p) \cup Range(v)
  BY ONLY <1>1, <1>3, <1>4, Joined
<1>6. Len(t) = m /\ Range(t) = Seen \cup Q
  BY <1>1, <1>2, <1>3, <1>5 DEF Seen
<1>7. IsFiniteSet(Q) /\ Cardinality(Q) = m - o
  <2>1. m <= Len(q)
    BY <1>1
  <2>2. IsFiniteSet(Part(q, o + 1, m)) /\ Cardinality(Part(q, o + 1, m)) = m - (o + 1) + 1
    BY ONLY <1>1, <1>2, <2>1, m \in Nat, PartSize
  <2> QED  BY <1>2, <2>2
<1> PICK A : A = Part(q, 1, o)
  OBVIOUS
<1>8. Q \cap A = {} /\ A \cup Q = Part(q, 1, m)
  <2>1. \A i \in 1..o : \A j \in (o + 1)..m : i \in 1..Len(q) /\ j \in 1..Len(q) /\ i # j
    <3>1. \A i \in 1..o : \A j \in (o + 1)..m : i \in 1..n /\ j \in 1..n /\ i # j
      BY ONLY <1>1, m \in Nat
    <3> QED  BY <3>1
  <2>2. \A i \in 1..o : \A j \in (o + 1)..m : q[i] # q[j]
    BY <1>1, <2>1 DEF Distinct
  <2>3. \A i \in 1..m : i \in 1..o \/ i \in (o + 1)..m
    BY <1>1
  <2>4. (\A i \in 1..o : i \in 1..m) /\ \A i \in (o + 1)..m : i \in 1..m
    BY SMTT(30), <1>1
  <2> QED  BY <2>2, <2>3, <2>4 DEF Part
<1>9. Q \subseteq Range(q)
  <2>1. \A j \in (o + 1)..m : j \in DOMAIN q
    BY <1>1
  <2> QED  BY <2>1 DEF Part, Range
<1>10. Range(t) \subseteq Range(listing)
  BY <1>6, <1>9 DEF WalkIInv
<1>11. ASSUME NEW i \in 1..m, q[i] \in walk.old PROVE q[i] \in Range(t)
  <2>1. i \in 1..o => q[i] \in Seen
    BY <1>11 DEF WalkGoesOn
  <2>2. i \in (o + 1)..m => q[i] \in Q
    BY DEF Part
  <2>3. i \in 1..o \/ i \in (o + 1)..m
    BY <1>1
  <2> QED  BY <1>6, <2>1, <2>2, <2>3
<1>12. Len(t) + Cardinality(Range(t) \ Part(q, 1, m)) <= g + Cardinality(Range(t))
  <2> PICK R : R = Seen
    OBVIOUS
  <2>1. IsFiniteSet(R)
    BY <1>1, RangeFinite DEF Seen
  <2>2. o + Cardinality(R \ A) <= g + Cardinality(R)
    BY <1>1 DEF WalkGoesOn, Ahead
  <2>3. o + Cardinality(Q) + Cardinality((R \cup Q) \ (A \cup Q)) <= g + Cardinality(R \cup Q)
    BY ONLY <1>1, <1>7, <1>8, <2>1, <2>2, SeenGrows
  <2>4. o + Cardinality(Q) = m
    BY <1>1, <1>7
  <2> QED  BY <1>6, <1>8, <2>3, <2>4
<1> QED  BY <1>5, <1>6, <1>10, <1>11, <1>12

\* The least of two numbers is one of them (a page is cut at either bound).
LEMMA MinOfTwo ==
  ASSUME NEW a \in Nat, NEW b \in Nat
  PROVE  Min({a, b}) = IF a <= b THEN a ELSE b
  BY DEF Min

\* A page is the last when no row was left at the count: what is left now came after it.
LEMMA PageKeeps ==
  ASSUME WalkIInv, Page
  PROVE  WalkIInv'
<1>0. walk' = [walk EXCEPT
          !.seen = walk.seen \o SubSeq(listing, walk.offset + 1,
                                       Min({walk.offset + walk.limit, Len(listing)})),
          !.offset = IF walk.offset + walk.limit < walk.total
                     THEN walk.offset + walk.limit ELSE 0,
          !.pc = IF walk.offset + walk.limit < walk.total THEN "count" ELSE "ended"]
  BY DEF Page, MorePages, NextOffset
<1> PICK q, w, o, l, n, t : /\ q = listing /\ w = walk /\ o = walk.offset /\ l = walk.limit
                            /\ n = Len(q) /\ t = walk.total
  OBVIOUS
<1>1. /\ q \in Seq(Stored) /\ Distinct(q) /\ n \in Nat /\ o \in Nat /\ l \in Nat /\ t \in Nat
      /\ w \in WalkSet /\ w.late \in Nat /\ w.grown \in Nat
  BY DEF WalkIInv, WalkSet
<1>2. w.pc = "page" /\ WalkGoesOn /\ t + w.late = n /\ o <= n
  BY DEF Page, WalkIInv, WalkGoesOn
<1>p. PICK m : m = Min({o + l, n})
  OBVIOUS
<1>3. m = (IF o + l <= n THEN o + l ELSE n) /\ m \in Nat /\ o <= m /\ m <= n
  <2>1. m = IF o + l <= n THEN o + l ELSE n
    <3>1. o + l \in Nat /\ n \in Nat
      BY ONLY <1>1
    <3>2. Min({o + l, n}) = IF o + l <= n THEN o + l ELSE n
      BY ONLY <3>1, MinOfTwo
    <3> QED  BY ONLY <1>p, <3>2
  <2> QED  BY ONLY <1>1, <1>2, <2>1
<1>v. PICK v : v = w.seen \o SubSeq(q, o + 1, m)
  OBVIOUS
<1>4. /\ v \in Seq(Stored) /\ Len(v) = m
      /\ Range(v) = Seen \cup Part(q, o + 1, m)
      /\ Range(v) \subseteq Range(q)
      /\ \A i \in 1..m : q[i] \in w.old => q[i] \in Range(v)
      /\ Len(v) + Cardinality(Range(v) \ Part(q, 1, m)) <= w.grown + Cardinality(Range(v))
  <2>1. /\ m \in Nat /\ walk.offset <= m /\ m <= Len(listing)
        /\ v = walk.seen \o SubSeq(listing, walk.offset + 1, m)
    BY <1>3, <1>v
  <2>2. /\ v \in Seq(Stored) /\ Len(v) = m
        /\ Range(v) = Seen \cup Part(listing, walk.offset + 1, m)
        /\ Range(v) \subseteq Range(listing)
        /\ \A i \in 1..m : listing[i] \in walk.old => listing[i] \in Range(v)
        /\ Len(v) + Cardinality(Range(v) \ Part(listing, 1, m))
             <= walk.grown + Cardinality(Range(v))
    BY ONLY <1>2, <2>1, WalkIInv, PageSent
  <2> QED  BY <2>2
<1>q. walk' = [w EXCEPT !.seen = v, !.offset = IF o + l < t THEN o + l ELSE 0,
                        !.pc = IF o + l < t THEN "count" ELSE "ended"]
  BY <1>0, <1>p, <1>v
<1>5. listing' = q
  BY DEF Page
<1>6. w.old \subseteq Range(q)
  BY DEF WalkIInv
<1>7. CASE o + l < t
  <2>1. m = o + l
    BY ONLY <1>1, <1>2, <1>3, <1>7
  <2>2. walk' = [w EXCEPT !.seen = v, !.offset = m, !.pc = "count"]
    BY ONLY <1>7, <2>1, <1>q
  <2>3. /\ walk'.pc = "count" /\ walk'.offset = m /\ walk'.seen = v /\ walk'.old = w.old
        /\ walk'.grown = w.grown /\ walk' \in WalkSet
    BY ONLY <1>1, <1>3, <1>4, <2>2 DEF WalkSet
  <2>4. Seen' = Range(v) /\ Ahead' = Range(v) \ Part(q, 1, m)
    BY <1>5, <2>3 DEF Seen, Ahead
  <2>5. WalkGoesOn'
    BY <1>3, <1>4, <1>5, <2>3, <2>4 DEF WalkGoesOn
  <2> QED  BY <1>1, <1>4, <1>5, <1>6, <2>3, <2>4, <2>5 DEF WalkIInv
<1>8. CASE ~ (o + l < t)
  <2>1. walk' = [w EXCEPT !.seen = v, !.offset = 0, !.pc = "ended"]
    BY ONLY <1>8, <1>q
  <2>2. /\ walk'.pc = "ended" /\ walk'.seen = v /\ walk'.old = w.old
        /\ walk'.grown = w.grown /\ walk'.late = w.late /\ walk' \in WalkSet
    <3>1. 0 \in Nat
      OBVIOUS
    <3> QED  BY ONLY <1>1, <1>4, <2>1, <3>1 DEF WalkSet
  <2>3. Seen' = Range(v)
    BY <2>2 DEF Seen
  <2>4. IsFiniteSet(Range(v)) /\ Cardinality(Range(v)) \in Nat
    BY <1>4, RangeFinite
  <2>5. RepeatsOnlyGrown'
    <3>1. Cardinality(Range(v) \ Part(q, 1, m)) \in Nat
      <4>1. IsFiniteSet(Range(v) \ Part(q, 1, m))
        BY <2>4, FS_Difference
      <4> QED  BY <4>1, FS_CardinalityType
    <3> PICK x, y : x = Cardinality(Range(v) \ Part(q, 1, m)) /\ y = Cardinality(Range(v))
      OBVIOUS
    <3>2. Len(v) - y <= w.grown
      <4>1. x \in Nat /\ y \in Nat /\ Len(v) = m /\ Len(v) + x <= w.grown + y
        BY <1>4, <2>4, <3>1
      <4>2. w.grown \in Nat /\ m \in Nat
        BY <1>1, <1>3
      <4> QED  BY ONLY <4>1, <4>2
    <3> QED  BY <2>2, <3>2 DEF RepeatsOnlyGrown
  <2>6. MissesOnlyLate'
    <3>1. w.old \ Range(v) \subseteq Part(q, m + 1, n)
      <4> SUFFICES ASSUME NEW x \in w.old, x \notin Range(v) PROVE x \in Part(q, m + 1, n)
        OBVIOUS
      <4>1. PICK i : i \in 1..n /\ x = q[i]
        BY <1>1, <1>6 DEF Range
      <4>2. i \notin 1..m
        BY <1>4, <4>1
      <4>3. i \in (m + 1)..n
        BY ONLY <1>1, <1>3, <4>1, <4>2
      <4> QED  BY <4>1, <4>3 DEF Part
    <3>2. IsFiniteSet(Part(q, m + 1, n)) /\ Cardinality(Part(q, m + 1, n)) = n - m
      <4>1. m + 1 \in Nat /\ 1 <= m + 1 /\ m + 1 <= n + 1 /\ n - (m + 1) + 1 = n - m
        BY ONLY <1>1, <1>3
      <4>2. n <= Len(q)
        BY <1>1
      <4>3. IsFiniteSet(Part(q, m + 1, n)) /\ Cardinality(Part(q, m + 1, n)) = n - (m + 1) + 1
        BY ONLY <1>1, <4>1, <4>2, PartSize
      <4> QED  BY <4>1, <4>3
    <3>3. Cardinality(w.old \ Range(v)) <= n - m /\ Cardinality(w.old \ Range(v)) \in Nat
      <4>1. IsFiniteSet(w.old \ Range(v))
            /\ Cardinality(w.old \ Range(v)) <= Cardinality(Part(q, m + 1, n))
        <5> PICK S, T : S = Part(q, m + 1, n) /\ T = w.old \ Range(v)
          OBVIOUS
        <5>1. IsFiniteSet(S) /\ T \in SUBSET S
          BY <3>1, <3>2
        <5>2. IsFiniteSet(T) /\ Cardinality(T) <= Cardinality(S)
          BY ONLY <5>1, FS_Subset
        <5> QED  BY <5>2
      <4> QED  BY <3>2, <4>1, FS_CardinalityType
    <3>4. n - m <= w.late
      BY ONLY <1>1, <1>2, <1>3, <1>8
    <3>5. Cardinality(w.old \ Range(v)) <= w.late
      <4> PICK x : x = Cardinality(w.old \ Range(v))
        OBVIOUS
      <4>1. x <= n - m /\ x \in Nat
        BY <3>3
      <4>2. x <= w.late
        BY ONLY <1>1, <1>3, <3>4, <4>1
      <4> QED  BY <4>2
    <3> QED  BY <2>2, <3>5 DEF MissesOnlyLate
  <2> QED  BY <1>1, <1>4, <1>5, <1>6, <2>2, <2>3, <2>5, <2>6 DEF WalkIInv
<1> QED  BY <1>7, <1>8

\* The walk's invariant is inductive.
LEMMA WalkKeeps ==
  ASSUME ReadsAssumption, WalkIInv, [PagesNext]_pageVars
  PROVE  WalkIInv'
<1>1. CASE UNCHANGED pageVars
  BY <1>1 DEF pageVars, WalkIInv, WalkGoesOn, Seen, Ahead, MissesOnlyLate, RepeatsOnlyGrown
<1>2. CASE PagesNext
  BY <1>2, StoreKeeps, BeginWalkKeeps, CountKeeps, PageKeeps DEF PagesNext
<1> QED  BY <1>1, <1>2

\* No walk is under way and the table is empty.
LEMMA WalkInitially ==
  ASSUME ReadsInit
  PROVE  WalkIInv
<1>1. <<>> \in Seq(Stored) /\ Len(<<>>) = 0 /\ Range(<<>>) = {}
  BY DEF Range
<1>2. NoWalk \in WalkSet /\ NoWalk.seen = <<>> /\ NoWalk.old = {} /\ NoWalk.pc = "idle"
  BY <1>1 DEF NoWalk, WalkSet
<1> QED  BY <1>1, <1>2 DEF ReadsInit, WalkIInv, Seen, Distinct

\* Nothing is ahead that was not sent, so the repeats are the events that came in.
LEMMA WalkImplies ==
  ASSUME WalkIInv
  PROVE  WalkExplained
<1>1. MissesOnlyLate
  BY DEF WalkIInv, MissesOnlyLate
<1>2. walk \in WalkSet /\ walk.seen \in Seq(Stored) /\ walk.grown \in Nat
      /\ walk.pc \in {"idle", "count", "page", "ended"}
  BY DEF WalkIInv, WalkSet
<1> PICK p, g : p = walk.seen /\ g = walk.grown
  OBVIOUS
<1>3. /\ IsFiniteSet(Range(p)) /\ Cardinality(Range(p)) \in Nat /\ Len(p) \in Nat
  BY <1>2, RangeFinite
<1>4. CASE walk.pc = "idle"
  <2>1. p = <<>> /\ Len(p) = 0
    BY <1>4 DEF WalkIInv
  <2>2. Len(p) - Cardinality(Range(p)) <= g
    BY <1>2, <1>3, <2>1
  <2> QED  BY <1>1, <2>2 DEF WalkExplained, RepeatsOnlyGrown
<1>5. CASE walk.pc \in {"count", "page"}
  <2> PICK x, y : x = Cardinality(Ahead) /\ y = Cardinality(Range(p))
    OBVIOUS
  <2>1. x \in Nat
    <3>1. IsFiniteSet(Ahead)
      BY <1>3, FS_Difference DEF Ahead, Seen
    <3> QED  BY <3>1, FS_CardinalityType
  <2>2. Len(p) + x <= g + y
    BY <1>5 DEF WalkIInv, WalkGoesOn, Seen
  <2>3. Len(p) - y <= g
    BY <1>2, <1>3, <2>1, <2>2
  <2> QED  BY <1>1, <2>3 DEF WalkExplained, RepeatsOnlyGrown
<1>6. CASE walk.pc = "ended"
  BY <1>6 DEF WalkIInv, WalkExplained
<1> QED  BY <1>2, <1>4, <1>5, <1>6

\* Neither the offset nor the count points beyond the table.
WalkBounds ==
  /\ walk.limit \in Limits \cup {0}
  /\ walk.offset \in 0..Len(listing) /\ walk.total \in 0..Len(listing)

\* The offset grows only while rows were left at the count.
LEMMA BoundsKeep ==
  ASSUME ReadsAssumption, WalkIInv, WalkBounds, [PagesNext]_pageVars
  PROVE  WalkBounds'
<1>1. /\ listing \in Seq(Stored) /\ Len(listing) \in Nat /\ walk \in WalkSet
      /\ walk.offset \in Nat /\ walk.total \in Nat /\ walk.limit \in Nat
  BY DEF WalkIInv, WalkSet
<1>2. CASE UNCHANGED pageVars
  BY <1>2 DEF pageVars, WalkBounds
<1>3. ASSUME NEW e \in Stored, Store(e) PROVE WalkBounds'
  <2>1. PICK i \in 1..(Len(listing) + 1) : listing' = InsertAt(listing, i, e)
    BY <1>3 DEF Store
  <2>2. Len(listing') = Len(listing) + 1
    BY <1>1, <2>1, Inserted DEF HasCome
  <2>3. walk'.limit = walk.limit /\ walk'.offset = walk.offset /\ walk'.total = walk.total
    BY <1>1, <1>3 DEF Store, WalkSet
  <2> QED  BY <1>1, <2>2, <2>3 DEF WalkBounds
<1>4. CASE BeginWalk
  <2>1. PICK n \in Limits :
           walk' = [NoWalk EXCEPT !.pc = "count", !.limit = n, !.old = Range(listing)]
    BY <1>4 DEF BeginWalk
  <2>2. walk'.limit = n /\ walk'.offset = 0 /\ walk'.total = 0 /\ listing' = listing
    BY <1>4, <2>1 DEF NoWalk, BeginWalk
  <2> QED  BY <1>1, <2>2 DEF WalkBounds
<1>5. CASE Count
  <2>1. /\ walk'.limit = walk.limit /\ walk'.offset = walk.offset
        /\ walk'.total = Len(listing) /\ listing' = listing
    BY <1>1, <1>5 DEF Count, WalkSet
  <2> QED  BY <1>1, <2>1 DEF WalkBounds
<1>6. CASE Page
  <2>1. /\ walk'.limit = walk.limit /\ walk'.total = walk.total /\ listing' = listing
        /\ walk'.offset = IF NextOffset < walk.total THEN NextOffset ELSE 0
    BY <1>1, <1>6 DEF Page, MorePages, WalkSet
  <2> PICK o : o = NextOffset
    OBVIOUS
  <2>2. o \in Nat
    BY <1>1 DEF NextOffset
  <2>3. /\ walk'.limit \in Limits \cup {0} /\ walk.total <= Len(listing)
        /\ walk'.total \in 0..Len(listing')
    BY <2>1 DEF WalkBounds
  <2>4. walk'.offset \in 0..Len(listing')
    BY <1>1, <2>1, <2>2, <2>3
  <2> QED  BY <2>3, <2>4 DEF WalkBounds
<1> QED  BY <1>2, <1>3, <1>4, <1>5, <1>6 DEF PagesNext

\* An idle walk points at the first row.
LEMMA BoundsInitially ==
  ASSUME ReadsInit
  PROVE  WalkBounds
<1>1. Len(<<>>) = 0
  OBVIOUS
<1> QED  BY <1>1 DEF ReadsInit, WalkBounds, NoWalk

-----------------------------------------------------------------------------
(***************************************************************************)
(* The readers together                                                    *)
(***************************************************************************)

\* What each part keeps.
ReadsIInv == WalkIInv /\ WalkBounds /\ StreamIInv /\ TraceIInv

\* No part disturbs another.
LEMMA ReadsKeep ==
  ReadsIInv /\ [ReadsNext]_<<pageVars, streamVars, traceVars>> => ReadsIInv'
<1> SUFFICES ASSUME ReadsIInv, [ReadsNext]_<<pageVars, streamVars, traceVars>>
             PROVE  ReadsIInv'
  OBVIOUS
<1>1. [PagesNext]_pageVars /\ [StreamNext]_streamVars /\ [TraceNext]_traceVars
  BY DEF ReadsNext
<1>2. WalkIInv'
  BY <1>1, ReadsAssumption, WalkKeeps DEF ReadsIInv
<1>3. WalkBounds'
  BY <1>1, ReadsAssumption, BoundsKeep DEF ReadsIInv
<1>4. StreamIInv'
  BY <1>1, StreamKeeps DEF ReadsIInv
<1>5. TraceIInv'
  BY <1>1, TraceKeeps DEF ReadsIInv
<1> QED  BY <1>2, <1>3, <1>4, <1>5 DEF ReadsIInv

\* The invariant holds, for any table, any number of clients and any trace.
LEMMA ReadsInvariant == ReadsSpec => []ReadsIInv
<1>1. ReadsInit => ReadsIInv
  BY WalkInitially, BoundsInitially, StreamInitially, TraceInitially DEF ReadsIInv
<1> QED  BY <1>1, ReadsKeep, PTL DEF ReadsSpec

\* What a queue holds and what was sent are numbers of events that were broadcast.
LEMMA Numbered ==
  ASSUME NEW c, NEW x, NEW a \in Seq(Kinds), Fine(c, x, a)
  PROVE  x.queue \in Seq(1..Len(a)) /\ x.got \in Seq(1..Len(a))
<1>1. /\ x.queue \in Seq(Nat) /\ x.got \in Seq(Nat)
      /\ \A n \in Range(x.got) \cup Range(x.queue) : n \in 1..Len(a)
  BY DEF Fine, ClientSet
<1>2. ASSUME NEW q \in Seq(Nat), \A n \in Range(q) : n \in 1..Len(a)
      PROVE  q \in Seq(1..Len(a))
  <2>1. DOMAIN q = 1..Len(q) /\ Len(q) \in Nat
    OBVIOUS
  <2>2. \A j \in 1..Len(q) : q[j] \in 1..Len(a)
    BY <1>2, <2>1 DEF Range
  <2> QED  BY <2>1, <2>2
<1> QED  BY <1>1, <1>2

\* The type invariant follows.
LEMMA ReadsTyped == ReadsIInv => ReadsTypeOK
<1> SUFFICES ASSUME ReadsIInv PROVE ReadsTypeOK
  OBVIOUS
<1>1. /\ listing \in Seq(Stored) /\ walk.pc \in {"idle", "count", "page", "ended"}
      /\ walk.seen \in Seq(Stored) /\ walk.old \subseteq Stored
  BY DEF ReadsIInv, WalkIInv, WalkSet
<1>2. /\ walk.limit \in Limits \cup {0}
      /\ walk.offset \in 0..Len(listing) /\ walk.total \in 0..Len(listing)
  BY DEF ReadsIInv, WalkBounds
<1>3. aired \in Seq(Kinds)
  BY DEF ReadsIInv, StreamIInv
<1>4. ASSUME NEW c \in Clients
      PROVE  /\ sub[c].queue \in Seq(1..Len(aired)) /\ Len(sub[c].queue) <= SubQueue
             /\ sub[c].got \in Seq(1..Len(aired)) /\ sub[c].told \in 0..Len(aired)
             /\ sub[c].pc \in {"off", "subscribed", "check", "get", "closed"}
  <2> PICK x : x = sub[c]
    OBVIOUS
  <2>1. Fine(c, x, aired)
    BY DEF ReadsIInv, StreamIInv
  <2>2. x.queue \in Seq(1..Len(aired)) /\ x.got \in Seq(1..Len(aired))
    BY <1>3, <2>1, Numbered
  <2>3. Len(aired) \in Nat
    BY <1>3
  <2>4. /\ Len(x.queue) <= SubQueue /\ x.told \in 0..Len(aired)
        /\ x.pc \in {"off", "subscribed", "check", "get", "closed"}
    BY <2>1, <2>3 DEF Fine, ClientSet
  <2> QED  BY <2>2, <2>4
<1>5. /\ caller \in [Spans -> 0..MaxSpans]
      /\ stage \in [Spans -> {"none", "begun", "consumed", "decided", "lost"}]
  BY DEF ReadsIInv, TraceIInv
<1> QED  BY <1>1, <1>2, <1>3, <1>4, <1>5 DEF ReadsTypeOK

\* Offsets and counts stay within the table, queues within their size, and what is
\* sent are events that were broadcast (queries.py, sse.py).
THEOREM ReadsTypeCorrect == ReadsSpec => []ReadsTypeOK
<1> QED  BY ReadsInvariant, ReadsTyped, PTL

\* Whatever comes in between the pages and between the count and its page, the walk
\* along next_offset misses and repeats no more than that (queries.py:34-47).
THEOREM WalkAlwaysExplained == ReadsSpec => []WalkExplained
<1>1. ReadsIInv => WalkExplained
  BY WalkImplies DEF ReadsIInv
<1> QED  BY <1>1, ReadsInvariant, PTL

\* For any number of clients, filters and events, and any size of the queues: a
\* client hears its events in order and once, and all of them unless its queue was
\* full (sse.py:31-41, main.py:236-278).
THEOREM StreamAlwaysFaithful == ReadsSpec => []StreamFaithful
<1>1. ReadsIInv => StreamFaithful
  BY StreamImplies DEF ReadsIInv
<1> QED  BY <1>1, ReadsInvariant, PTL

\* For a trace of any length, whichever rows were lost: a request whose decision is
\* stored hangs below its caller, and the tree has every span (queries.py:82-102).
THEOREM TreeAlwaysKeepsCallers == ReadsSpec => []TreeKeepsCallers
<1>1. ReadsIInv => TreeKeepsCallers
  BY TraceImplies DEF ReadsIInv
<1> QED  BY <1>1, ReadsInvariant, PTL

-----------------------------------------------------------------------------
(***************************************************************************)
(* The parts together                                                      *)
(***************************************************************************)

\* Every behaviour of the parts in one run is one of each part: they share no state,
\* and a step of one leaves the others alone (main.py of the gateway and of the
\* audit API make one of each).
THEOREM PartsAreServices ==
  PartsSpec => Spec /\ BucketSpec /\ BreakerSpec /\ ReadsSpec
<1>1. PartsInit => Init /\ BucketInit /\ BreakerInit /\ ReadsInit
  BY DEF PartsInit
<1>2. [PartsNext]_<<scenario, gatewayVars, readsVars>> =>
        /\ [Next]_vars /\ [BucketNext]_BucketVars /\ [BreakerNext]_BreakerVars
        /\ [ReadsNext]_<<pageVars, streamVars, traceVars>>
  <2> SUFFICES ASSUME [PartsNext]_<<scenario, gatewayVars, readsVars>>
               PROVE  /\ [Next]_vars /\ [BucketNext]_BucketVars /\ [BreakerNext]_BreakerVars
                      /\ [ReadsNext]_<<pageVars, streamVars, traceVars>>
    OBVIOUS
  <2> USE DEF gatewayVars, readsVars
  <2>1. CASE UNCHANGED <<scenario, gatewayVars, readsVars>>
    BY <2>1
  <2>2. CASE Next /\ UNCHANGED <<BucketVars, BreakerVars, readsVars>>
    BY <2>2
  <2>3. CASE BucketNext /\ UNCHANGED <<vars, BreakerVars, readsVars>>
    BY <2>3
  <2>4. CASE BreakerNext /\ UNCHANGED <<vars, BucketVars, readsVars>>
    BY <2>4
  <2>5. CASE PagesNext /\ UNCHANGED <<gatewayVars, streamVars, traceVars>>
    BY <2>5 DEF ReadsNext
  <2>6. CASE StreamNext /\ UNCHANGED <<gatewayVars, pageVars, traceVars>>
    BY <2>6 DEF ReadsNext
  <2>7. CASE TraceNext /\ UNCHANGED <<gatewayVars, pageVars, streamVars>>
    BY <2>7 DEF ReadsNext
  <2>8. QED
    BY <2>1, <2>2, <2>3, <2>4, <2>5, <2>6, <2>7 DEF PartsNext
<1>3. QED
  BY <1>1, <1>2, PTL DEF PartsSpec, Spec, BucketSpec, BreakerSpec, ReadsSpec

\* All of them keep to their types, in any behaviour of the run.
THEOREM PartsTypeCorrect == PartsSpec => []PartsTypeOK
<1>1. TypeOK /\ BucketTypeOK /\ BreakerTypeOK /\ ReadsTypeOK => PartsTypeOK
  BY DEF PartsTypeOK
<1>2. QED
  BY <1>1, PartsAreServices, PlanTypeCorrect, BucketTypeCorrect, BreakerTypeCorrect,
     ReadsTypeCorrect, PTL

\* What is proved of each part (plan.py, rate_limit.py, circuit_breaker.py, queries.py,
\* sse.py) holds in every behaviour of the run.
THEOREM ServicesAreSafe ==
  PartsSpec => []( /\ SentInOrder /\ StatusTruthful
                   /\ BucketHonest /\ BreakerAccounts
                   /\ WalkExplained /\ StreamFaithful /\ TreeKeepsCallers )
  BY PartsAreServices, TasksSentInOrder, RecordsAreTruthful, BucketIsHonest,
     BreakerAccountsAlways, WalkAlwaysExplained, StreamAlwaysFaithful,
     TreeAlwaysKeepsCallers, PTL
=============================================================================
