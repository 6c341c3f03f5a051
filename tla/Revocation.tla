----------------------------- MODULE Revocation -----------------------------
(***************************************************************************)
(* POST /revoke at the IdP (infra/idp/revoke/handler.py) and the Redis     *)
(* sets it writes (infra/idp/storage/redis.py, sadd_member).               *)
(*                                                                         *)
(* A set is revoked:agents, revoked:jtis, ... and has ONE time to live for *)
(* all its members.  sadd_member brings it up to what the new revocation   *)
(* asks for with three commands, SADD, TTL and EXPIRE, and an await behind *)
(* each: other handlers, and the set's own expiry, may come in between.    *)
(*                                                                         *)
(* Time is Redis's clock, in seconds of a small scale.  disturbed and      *)
(* addedAt are history: the code does not keep them.                       *)
(***************************************************************************)
EXTENDS Integers, FiniteSets

CONSTANTS
  Revokes,    \* activations of the handler
  Members,    \* what can be revoked: agents, token ids, users
  SetOf,      \* the set a member belongs to (KEY_MAP)
  Ttls,       \* the ttl_sec values asked for; 0 leaves the set's TTL alone
  MaxTime     \* bound on the clock

Sets == {SetOf[m] : m \in Members}

ASSUME RevocationAssumption ==
  /\ SetOf \in [Members -> Sets]
  /\ Ttls \subseteq Nat
  /\ MaxTime \in Nat

NoTtl  == -1      \* Redis's TTL of a key without an expiry
Absent == -2      \* ... and of a key that does not exist
Never  == -1      \* not yet
Nobody == "nobody"

VARIABLES
  now,
  members,    \* the union of the sets
  expireAt,   \* for each set, when Redis drops it
  rpc,        \* for each activation, the command it waits for
  rmember, rttl,   \* its request: what to revoke, and for how long
  addedAt,    \* when its SADD was executed
  disturbed   \* activations that met another one, or the set's expiry, half-way

rvars == <<now, members, expireAt, rpc, rmember, rttl, addedAt, disturbed>>

RevocationTypeOK ==
  /\ now \in 0..MaxTime
  /\ members \subseteq Members
  /\ expireAt \in [Sets -> Nat \cup {NoTtl}]
  /\ rpc \in [Revokes -> {"idle", "ttl", "expire", "publish", "done", "failed"}]
  /\ rmember \in [Revokes -> Members \cup {Nobody}]
  /\ rttl \in [Revokes -> Ttls \cup {0}]
  /\ addedAt \in [Revokes -> 0..MaxTime \cup {Never}]
  /\ disturbed \subseteq Revokes

RevocationInit ==
  /\ now = 0
  /\ members = {}
  /\ expireAt = [s \in Sets |-> NoTtl]
  /\ rpc = [v \in Revokes |-> "idle"]
  /\ rmember = [v \in Revokes |-> Nobody]
  /\ rttl = [v \in Revokes |-> 0]
  /\ addedAt = [v \in Revokes |-> Never]
  /\ disturbed = {}

In(s) == {m \in members : SetOf[m] = s}

\* What TTL answers.
TtlOf(s) ==
  IF In(s) = {} THEN Absent
  ELSE IF expireAt[s] = NoTtl THEN NoTtl ELSE expireAt[s] - now

\* The activations between their SADD and their EXPIRE on set s.
Halfway(s) ==
  {v \in Revokes : rpc[v] \in {"ttl", "expire"} /\ SetOf[rmember[v]] = s}

-----------------------------------------------------------------------------
(***************************************************************************)
(* The handler, one command of Redis at a time.  A command whose answer is *)
(* lost raises, and the request ends in a 500.                             *)
(***************************************************************************)

Fail(v) ==
  /\ rpc' = [rpc EXCEPT ![v] = "failed"]
  /\ rmember' = [rmember EXCEPT ![v] = Nobody]
  /\ rttl' = [rttl EXCEPT ![v] = 0]
  /\ addedAt' = [addedAt EXCEPT ![v] = Never]
  /\ disturbed' = disturbed \ {v}

\* SADD.  It keeps the expiry of a set that exists and makes one without
\* expiry otherwise.  With ttl_sec = 0 nothing else is done to the set.
Add(v, m, t) ==
  LET s == SetOf[m] IN
  /\ rpc[v] = "idle"
  /\ members' = members \cup {m}
  /\ \/ Fail(v)
     \/ /\ rpc' = [rpc EXCEPT ![v] = IF t = 0 THEN "publish" ELSE "ttl"]
        /\ rmember' = [rmember EXCEPT ![v] = m]
        /\ rttl' = [rttl EXCEPT ![v] = t]
        /\ addedAt' = [addedAt EXCEPT ![v] = now]
        /\ disturbed' = disturbed
             \cup {w \in Halfway(s) : 0 < t /\ t < rttl[w]}
             \cup {u \in {v} : \E w \in Halfway(s) : rttl[w] < t}
  /\ UNCHANGED <<now, expireAt>>

\* Faulty variant: EXPIRE without asking for the TTL.
ReadNoTtl(v) ==
  /\ rpc[v] = "ttl"
  /\ rpc' = [rpc EXCEPT ![v] = "expire"]
  /\ UNCHANGED <<now, members, expireAt, rmember, rttl, addedAt, disturbed>>

\* TTL.  existing_ttl < 0 (no expiry, or no set) and existing_ttl < ttl_sec are
\* the two cases in which EXPIRE follows.
ReadTtl(v) ==
  LET s == SetOf[rmember[v]] IN
  /\ rpc[v] = "ttl"
  /\ rpc' = [rpc EXCEPT ![v] = IF TtlOf(s) < rttl[v] THEN "expire" ELSE "publish"]
  /\ UNCHANGED <<now, members, expireAt, rmember, rttl, addedAt, disturbed>>

\* EXPIRE, which does nothing to a set that is gone.
SetExpire(v) ==
  LET s == SetOf[rmember[v]] IN
  /\ rpc[v] = "expire"
  /\ expireAt' = IF In(s) = {} THEN expireAt ELSE [expireAt EXCEPT ![s] = now + rttl[v]]
  /\ \/ Fail(v)
     \/ /\ rpc' = [rpc EXCEPT ![v] = "publish"]
        /\ UNCHANGED <<rmember, rttl, addedAt, disturbed>>
  /\ UNCHANGED <<now, members>>

\* broadcast_revoke, then the audit event and {"revoked": true}.  Nobody
\* listens: the gateway's deprecated subscriber waits on channels of other names.
Broadcast(v) ==
  /\ rpc[v] = "publish"
  /\ rpc' = [rpc EXCEPT ![v] = "done"]
  /\ UNCHANGED <<now, members, expireAt, rmember, rttl, addedAt, disturbed>>

\* A command that fails without having been executed.
RevokeError(v) ==
  /\ rpc[v] \in {"ttl", "expire", "publish"}
  /\ Fail(v)
  /\ UNCHANGED <<now, members, expireAt>>

\* The clock, and the sets that expire with it.
RevocationTick ==
  LET gone == {s \in Sets : expireAt[s] = now + 1} IN
  /\ now < MaxTime
  /\ now' = now + 1
  /\ members' = {m \in members : SetOf[m] \notin gone}
  /\ expireAt' = [s \in Sets |-> IF s \in gone THEN NoTtl ELSE expireAt[s]]
  /\ disturbed' = disturbed \cup UNION {Halfway(s) : s \in gone}
  /\ UNCHANGED <<rpc, rmember, rttl, addedAt>>

Revoke(v) ==
  \/ \E m \in Members, t \in Ttls : Add(v, m, t)
  \/ ReadTtl(v)
  \/ SetExpire(v)
  \/ Broadcast(v)
  \/ RevokeError(v)

RevocationNext == RevocationTick \/ \E v \in Revokes : Revoke(v)

RevocationSpec == RevocationInit /\ [][RevocationNext]_rvars

-----------------------------------------------------------------------------
(***************************************************************************)
(* What the handler's answer is worth.                                     *)
(***************************************************************************)

\* The span for which activation v asked.
InForce(v) == now < addedAt[v] + rttl[v]

\* A revocation that was answered stays in its set for the time it asked for,
\* whatever other revocations do to the set's expiry afterwards.  It can be cut
\* short only if, between its own SADD and EXPIRE, a revocation with a shorter
\* ttl_sec was also between the two, or the set expired.
RevocationStands ==
  \A v \in Revokes :
    rpc[v] \in {"publish", "done"} /\ v \notin disturbed /\ InForce(v)
      => rmember[v] \in members

(***************************************************************************)
(* The inductive invariant behind it.                                      *)
(***************************************************************************)
Active(v) == rpc[v] \in {"ttl", "expire", "publish", "done"}
Key(v) == SetOf[rmember[v]]

\* What an activation has noted down.
Noted ==
  \A v \in Revokes : Active(v) =>
    /\ rmember[v] \in Members
    /\ addedAt[v] \in 0..now
    /\ rpc[v] \in {"ttl", "expire"} => rttl[v] > 0

\* A set's expiry is ahead, and a set without members has none.
ExpiryAhead ==
  \A s \in Sets :
    /\ expireAt[s] = NoTtl \/ expireAt[s] > now
    /\ In(s) = {} => expireAt[s] = NoTtl

\* An undisturbed activation half-way is there with its member, and with nobody
\* who asked for less.
HalfwaySafe ==
  \A v \in Revokes \ disturbed : rpc[v] \in {"ttl", "expire"} =>
    /\ rmember[v] \in members
    /\ \A w \in Halfway(Key(v)) : rttl[w] >= rttl[v]

\* An EXPIRE under way will not cut an undisturbed revocation short.
ExpireHarmless ==
  \A v \in Revokes \ disturbed, w \in Revokes :
    Active(v) /\ rpc[w] = "expire" /\ Key(w) = Key(v) =>
      now + rttl[w] >= addedAt[v] + rttl[v]

\* The set of a revocation in force lives as long as it must.
ExpiryEnough ==
  \A v \in Revokes \ disturbed : rpc[v] \in {"publish", "done"} /\ InForce(v) =>
    /\ rmember[v] \in members
    /\ expireAt[Key(v)] # NoTtl
    /\ expireAt[Key(v)] >= addedAt[v] + rttl[v]

RevocationIInv ==
  /\ RevocationTypeOK /\ Noted /\ ExpiryAhead
  /\ HalfwaySafe /\ ExpireHarmless /\ ExpiryEnough
=============================================================================
