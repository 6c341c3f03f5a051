------------------------- MODULE TokenExchange_proofs -------------------------
(***************************************************************************)
(* Proofs about the IdP's revocations and token exchange: an answered      *)
(* revocation stands for its time, and the handler of /token/exchange      *)
(* heeds revocations, replay markers and quotas, for every number of       *)
(* requests and activations, and all constants that the assumptions admit. *)
(***************************************************************************)
EXTENDS TokenExchange, FiniteSetTheorems, TLAPS

-----------------------------------------------------------------------------
(***************************************************************************)
(* POST /revoke                                                            *)
(***************************************************************************)

\* What the activations' functions return.
LEMMA Typed ==
  ASSUME RevocationTypeOK, Noted, NEW v \in Revokes
  PROVE  /\ now \in Nat /\ now <= MaxTime
         /\ rttl[v] \in Nat
         /\ Active(v) => /\ rmember[v] \in Members /\ Key(v) \in Sets
                         /\ addedAt[v] \in Nat /\ addedAt[v] <= now
PROOF
  <1>1. now \in Nat /\ now <= MaxTime
    BY RevocationAssumption DEF RevocationAssumption, RevocationTypeOK
  <1>2. rttl[v] \in Nat
    <2>1. rttl[v] \in Ttls \cup {0}
      BY DEF RevocationTypeOK
    <2>2. Ttls \cup {0} \subseteq Nat
      BY RevocationAssumption DEF RevocationAssumption
    <2> QED  BY <2>1, <2>2, Zenon
  <1>3. Active(v) => rmember[v] \in Members /\ addedAt[v] \in Nat /\ addedAt[v] <= now
    BY <1>1 DEF Noted
  <1> QED  BY <1>1, <1>2, <1>3 DEF Key, Sets

\* Before the first activation the sets are empty.
LEMMA RevocationInitIInv == RevocationInit => RevocationIInv
  BY RevocationAssumption
  DEF RevocationAssumption, RevocationInit, RevocationIInv, RevocationTypeOK, Noted,
      ExpiryAhead, HalfwaySafe, ExpireHarmless, ExpiryEnough, Active, In, NoTtl, Never

\* A failed activation promises nothing and leaves the others as they were.
LEMMA FailKeeps ==
  ASSUME RevocationIInv, NEW v \in Revokes, Fail(v), now' = now,
         NEW s \in Sets, NEW t \in Nat,
         members \subseteq members', members' \subseteq Members,
         \/ expireAt' = expireAt /\ \A z \in Sets : In(z)' = {} => In(z) = {}
         \/ /\ rpc[v] = "expire" /\ s = Key(v) /\ t = rttl[v] /\ t > 0
            /\ In(s) # {} /\ members' = members
            /\ expireAt' = [expireAt EXCEPT ![s] = now + t]
  PROVE  RevocationIInv'
PROOF
  <1> USE DEF RevocationIInv
  <1>f. /\ rpc' = [rpc EXCEPT ![v] = "failed"]
        /\ rmember' = [rmember EXCEPT ![v] = Nobody]
        /\ rttl' = [rttl EXCEPT ![v] = 0]
        /\ addedAt' = [addedAt EXCEPT ![v] = Never]
        /\ disturbed' = disturbed \ {v}
    BY DEF Fail
  <1>t. expireAt \in [Sets -> Nat \cup {NoTtl}] /\ now \in Nat
    BY RevocationAssumption DEF RevocationTypeOK, RevocationAssumption
  <1>o. \A w \in Revokes : w # v =>
          /\ rpc'[w] = rpc[w] /\ rmember'[w] = rmember[w] /\ rttl'[w] = rttl[w]
          /\ addedAt'[w] = addedAt[w] /\ (w \in disturbed' <=> w \in disturbed)
          /\ Key(w)' = Key(w) /\ (Active(w)' <=> Active(w)) /\ (InForce(w)' <=> InForce(w))
    BY <1>f DEF RevocationTypeOK, Key, Active, InForce
  <1>v. rpc'[v] = "failed" /\ ~Active(v)'
    BY <1>f DEF RevocationTypeOK, Active
  <1>1. RevocationTypeOK'
    BY <1>f, <1>t DEF RevocationTypeOK
  <1>2. Noted'
    BY <1>o, <1>v DEF Noted
  <1>3. ExpiryAhead'
    <2>1. CASE expireAt' = expireAt /\ \A z \in Sets : In(z)' = {} => In(z) = {}
      BY <2>1 DEF ExpiryAhead
    <2>2. CASE /\ In(s) # {} /\ members' = members /\ t > 0
               /\ expireAt' = [expireAt EXCEPT ![s] = now + t]
      BY <2>2, <1>t DEF ExpiryAhead, In
    <2> QED  BY <2>1, <2>2
  <1>4. HalfwaySafe'
    BY <1>o, <1>v DEF HalfwaySafe, Halfway, Key
  <1>5. ExpireHarmless'
    BY <1>o, <1>v DEF ExpireHarmless
  <1>6. ExpiryEnough'
    <2> SUFFICES ASSUME NEW u \in Revokes \ disturbed', rpc'[u] \in {"publish", "done"}, InForce(u)'
                 PROVE  /\ rmember'[u] \in members'
                        /\ expireAt'[Key(u)'] # NoTtl
                        /\ expireAt'[Key(u)'] >= addedAt'[u] + rttl'[u]
      BY DEF ExpiryEnough
    <2>1. u # v /\ u \in Revokes \ disturbed
      BY <1>o, <1>v
    <2>2. /\ rmember[u] \in members /\ expireAt[Key(u)] # NoTtl
          /\ expireAt[Key(u)] >= addedAt[u] + rttl[u]
      BY <2>1, <1>o DEF ExpiryEnough
    <2>3. /\ Active(u) /\ Key(u) \in Sets /\ addedAt[u] \in Nat /\ rttl[u] \in Nat
      BY <2>1, <1>o, Typed DEF Active
    <2>4. CASE expireAt' = expireAt
      BY <2>4, <2>1, <2>2, <1>o
    <2>5. CASE /\ rpc[v] = "expire" /\ s = Key(v) /\ t = rttl[v]
               /\ expireAt' = [expireAt EXCEPT ![s] = now + t]
      <3>1. Key(u) = s => now + t >= addedAt[u] + rttl[u]
        BY <2>5, <2>1, <2>3 DEF ExpireHarmless
      <3> QED  BY <3>1, <2>5, <2>1, <2>2, <2>3, <1>o, <1>t DEF NoTtl
    <2> QED  BY <2>4, <2>5
  <1> QED  BY <1>1, <1>2, <1>3, <1>4, <1>5, <1>6

\* What an activation that only moves on keeps.
LEMMA MovingOn ==
  ASSUME RevocationIInv, NEW v \in Revokes, rpc[v] \in {"ttl", "expire", "publish"},
         NEW next \in {"expire", "publish", "done"}, rpc' = [rpc EXCEPT ![v] = next],
         next = "expire" => rpc[v] = "ttl",
         UNCHANGED <<now, members, rmember, rttl, addedAt, disturbed>>
  PROVE  /\ rpc' \in [Revokes -> {"idle", "ttl", "expire", "publish", "done", "failed"}]
         /\ rpc'[v] = next /\ \A w \in Revokes \ {v} : rpc'[w] = rpc[w]
         /\ \A w \in Revokes : /\ Key(w)' = Key(w) /\ Active(w)' = Active(w)
                              /\ InForce(w)' = InForce(w)
         /\ \A z \in Sets : In(z)' = In(z) /\ Halfway(z)' \subseteq Halfway(z)
         /\ Noted' /\ HalfwaySafe'
PROOF
  <1> USE DEF RevocationIInv
  <1>1. /\ rpc' \in [Revokes -> {"idle", "ttl", "expire", "publish", "done", "failed"}]
        /\ rpc'[v] = next /\ \A w \in Revokes \ {v} : rpc'[w] = rpc[w]
    BY DEF RevocationTypeOK
  <1>2. \A w \in Revokes : /\ Key(w)' = Key(w) /\ Active(w)' = Active(w)
                           /\ InForce(w)' = InForce(w)
    BY <1>1 DEF Key, Active, InForce
  <1>3. \A z : In(z)' = In(z) /\ Halfway(z)' \subseteq Halfway(z)
    BY <1>1 DEF In, Halfway
  <1>4. Noted'
    BY <1>1, <1>2 DEF Noted
  <1>5. HalfwaySafe'
    BY <1>1, <1>2, <1>3 DEF HalfwaySafe
  <1> QED  BY <1>1, <1>2, <1>3, <1>4, <1>5

\* The TTL read decides whether EXPIRE follows: if the set lives long enough the
\* activation goes on without it.
LEMMA ReadTtlKeeps ==
  ASSUME RevocationIInv, NEW v \in Revokes, ReadTtl(v)
  PROVE  RevocationIInv'
PROOF
  <1> USE DEF RevocationIInv
  <1> DEFINE s == Key(v)
             next == IF TtlOf(s) < rttl[v] THEN "expire" ELSE "publish"
  <1>f. /\ rpc[v] = "ttl" /\ rpc' = [rpc EXCEPT ![v] = next]
        /\ UNCHANGED <<now, members, expireAt, rmember, rttl, addedAt, disturbed>>
    BY DEF ReadTtl, Key
  <1>m. /\ rpc' \in [Revokes -> {"idle", "ttl", "expire", "publish", "done", "failed"}]
        /\ rpc'[v] = next /\ \A w \in Revokes \ {v} : rpc'[w] = rpc[w]
        /\ \A w \in Revokes : /\ Key(w)' = Key(w) /\ Active(w)' = Active(w)
                             /\ InForce(w)' = InForce(w)
        /\ \A z \in Sets : In(z)' = In(z)
        /\ Noted' /\ HalfwaySafe'
    <2> HIDE DEF next, RevocationIInv
    <2>1. next \in {"expire", "publish"}
      BY DEF next
    <2> QED  BY <2>1, <1>f, MovingOn
  <1>v. /\ Active(v) /\ rmember[v] \in Members /\ s \in Sets /\ rttl[v] \in Nat /\ rttl[v] > 0
        /\ addedAt[v] \in Nat /\ addedAt[v] <= now /\ now \in Nat
    BY <1>f, Typed DEF Active, Noted
  <1>e. expireAt \in [Sets -> Nat \cup {NoTtl}]
    BY DEF RevocationTypeOK
  <1>1. RevocationTypeOK'
    BY <1>f, <1>m DEF RevocationTypeOK
  <1>2. ExpiryAhead'
    BY <1>f, <1>m DEF ExpiryAhead
  <1>3. ExpireHarmless'
    <2> SUFFICES ASSUME NEW u \in Revokes \ disturbed, NEW w \in Revokes,
                        Active(u), rpc'[w] = "expire", Key(w) = Key(u)
                 PROVE  now + rttl[w] >= addedAt[u] + rttl[u]
      BY <1>f, <1>m DEF ExpireHarmless
    <2>1. CASE w # v
      BY <2>1, <1>m DEF ExpireHarmless
    <2>2. CASE w = v
      <3>u. /\ rmember[u] \in Members /\ Key(u) = s /\ rttl[u] \in Nat
            /\ addedAt[u] \in Nat /\ addedAt[u] <= now
        BY <2>2, Typed
      <3>t. TtlOf(s) < rttl[v]
        BY <2>2, <1>m
      <3>1. CASE rpc[u] \in {"ttl", "expire"}
        <4>1. v \in Halfway(Key(u))
          BY <1>f, <3>u DEF Halfway, Key
        <4> QED  BY <4>1, <3>1, <3>u, <1>v, <2>2 DEF HalfwaySafe
      <3>2. CASE rpc[u] \in {"publish", "done"} /\ InForce(u)
        <4>1. /\ rmember[u] \in members /\ expireAt[s] # NoTtl
              /\ expireAt[s] >= addedAt[u] + rttl[u]
          BY <3>2, <3>u DEF ExpiryEnough
        <4>2. TtlOf(s) = expireAt[s] - now
          BY <4>1, <3>u DEF TtlOf, In, Key
        <4>3. expireAt[s] \in Nat
          BY <4>1, <1>e, <1>v
        <4> QED  BY <4>1, <4>2, <4>3, <3>t, <3>u, <1>v, <2>2
      <3>3. CASE ~InForce(u)
        BY <3>3, <3>u, <1>v, <2>2 DEF InForce
      <3> QED  BY <3>1, <3>2, <3>3 DEF Active
    <2> QED  BY <2>1, <2>2
  <1>4. ExpiryEnough'
    <2> SUFFICES ASSUME NEW u \in Revokes \ disturbed, rpc'[u] \in {"publish", "done"}, InForce(u)
                 PROVE  /\ rmember[u] \in members /\ expireAt[Key(u)] # NoTtl
                        /\ expireAt[Key(u)] >= addedAt[u] + rttl[u]
      BY <1>f, <1>m DEF ExpiryEnough
    <2>1. CASE u # v
      BY <2>1, <1>m DEF ExpiryEnough
    <2>2. CASE u = v
      <3>1. rmember[v] \in members /\ In(s) # {}
        BY <2>2, <1>f, <1>v DEF HalfwaySafe, In, Key
      <3>2. ~(TtlOf(s) < rttl[v])
        BY <2>2, <1>m
      <3>3. CASE expireAt[s] = NoTtl
        BY <3>1, <3>2, <3>3, <1>v DEF TtlOf, NoTtl
      <3>4. CASE expireAt[s] # NoTtl
        <4>1. TtlOf(s) = expireAt[s] - now /\ expireAt[s] \in Nat
          BY <3>1, <3>4, <1>e, <1>v DEF TtlOf
        <4> QED  BY <4>1, <3>1, <3>2, <3>4, <1>v, <2>2
      <3> QED  BY <3>3, <3>4
    <2> QED  BY <2>1, <2>2
  <1> QED  BY <1>1, <1>2, <1>3, <1>4, <1>m

\* An EXPIRE cuts no set short for an answered activation that asked for longer.
LEMMA SetExpireKeeps ==
  ASSUME RevocationIInv, NEW v \in Revokes, SetExpire(v)
  PROVE  RevocationIInv'
PROOF
  <1> USE DEF RevocationIInv
  <1> DEFINE s == Key(v)
  <1>f. /\ rpc[v] = "expire" /\ now' = now /\ members' = members
        /\ expireAt' = IF In(s) = {} THEN expireAt ELSE [expireAt EXCEPT ![s] = now + rttl[v]]
    BY DEF SetExpire, Key
  <1>v. /\ Active(v) /\ rmember[v] \in Members /\ s \in Sets /\ rttl[v] \in Nat /\ rttl[v] > 0
        /\ addedAt[v] \in Nat /\ addedAt[v] <= now /\ now \in Nat
    BY <1>f, Typed DEF Active, Noted
  <1>e. expireAt \in [Sets -> Nat \cup {NoTtl}] /\ members \subseteq Members
    BY DEF RevocationTypeOK
  <1>n. \A z \in Sets : In(z)' = In(z)
    BY <1>f DEF In
  <1>1. CASE Fail(v)
    <2> HIDE DEF RevocationIInv
    <2>1. CASE In(s) = {}
      BY <2>1, <1>1, <1>f, <1>v, <1>e, <1>n, FailKeeps
    <2>2. CASE In(s) # {}
      BY <2>2, <1>1, <1>f, <1>v, <1>e, FailKeeps
    <2> QED  BY <2>1, <2>2
  <1>2. CASE rpc' = [rpc EXCEPT ![v] = "publish"] /\ UNCHANGED <<rmember, rttl, addedAt, disturbed>>
    <2>m. /\ rpc' \in [Revokes -> {"idle", "ttl", "expire", "publish", "done", "failed"}]
          /\ rpc'[v] = "publish" /\ \A w \in Revokes \ {v} : rpc'[w] = rpc[w]
          /\ \A w \in Revokes : /\ Key(w)' = Key(w) /\ Active(w)' = Active(w)
                               /\ InForce(w)' = InForce(w)
          /\ Noted' /\ HalfwaySafe'
      <3> HIDE DEF RevocationIInv
      <3> QED  BY <1>2, <1>f, MovingOn
    <2>e. expireAt' \in [Sets -> Nat \cup {NoTtl}]
      BY <1>f, <1>e, <1>v
    <2>1. RevocationTypeOK'
      BY <1>f, <1>2, <2>m, <2>e DEF RevocationTypeOK
    <2>2. ExpiryAhead'
      BY <1>f, <1>e, <1>v, <1>n DEF ExpiryAhead
    <2>3. ExpireHarmless'
      BY <1>f, <1>2, <2>m DEF ExpireHarmless
    <2>4. ExpiryEnough'
      <3> SUFFICES ASSUME NEW u \in Revokes \ disturbed, rpc'[u] \in {"publish", "done"}, InForce(u)
                   PROVE  /\ rmember[u] \in members /\ expireAt'[Key(u)] # NoTtl
                          /\ expireAt'[Key(u)] >= addedAt[u] + rttl[u]
        BY <1>f, <1>2, <2>m DEF ExpiryEnough
      <3>1. CASE u = v
        <4>1. rmember[v] \in members /\ In(s) # {}
          BY <3>1, <1>f, <1>v DEF HalfwaySafe, In, Key
        <4>2. expireAt'[s] = now + rttl[v]
          BY <4>1, <1>f, <1>e, <1>v
        <4> QED  BY <4>1, <4>2, <3>1, <1>v DEF NoTtl
      <3>2. CASE u # v
        <4>1. /\ rmember[u] \in members /\ expireAt[Key(u)] # NoTtl
              /\ expireAt[Key(u)] >= addedAt[u] + rttl[u]
          BY <3>2, <2>m DEF ExpiryEnough
        <4>2. Active(u) /\ Key(u) \in Sets /\ addedAt[u] \in Nat /\ rttl[u] \in Nat
          BY <3>2, <2>m, Typed DEF Active
        <4>3. Key(u) = s => now + rttl[v] >= addedAt[u] + rttl[u]
          BY <4>2, <1>f DEF ExpireHarmless
        <4> QED  BY <4>1, <4>2, <4>3, <1>f, <1>e, <1>v DEF NoTtl
      <3> QED  BY <3>1, <3>2
    <2> QED  BY <2>1, <2>2, <2>3, <2>4, <2>m
  <1> QED  BY <1>1, <1>2 DEF SetExpire

\* The broadcast answers an activation whose set has its lifetime by then.
LEMMA BroadcastKeeps ==
  ASSUME RevocationIInv, NEW v \in Revokes, Broadcast(v)
  PROVE  RevocationIInv'
PROOF
  <1> USE DEF RevocationIInv
  <1>f. /\ rpc[v] = "publish" /\ rpc' = [rpc EXCEPT ![v] = "done"]
        /\ UNCHANGED <<now, members, expireAt, rmember, rttl, addedAt, disturbed>>
    BY DEF Broadcast
  <1>m. /\ rpc' \in [Revokes -> {"idle", "ttl", "expire", "publish", "done", "failed"}]
        /\ rpc'[v] = "done" /\ \A w \in Revokes \ {v} : rpc'[w] = rpc[w]
        /\ \A w \in Revokes : /\ Key(w)' = Key(w) /\ Active(w)' = Active(w)
                             /\ InForce(w)' = InForce(w)
        /\ \A z \in Sets : In(z)' = In(z)
        /\ Noted' /\ HalfwaySafe'
    <2> HIDE DEF RevocationIInv
    <2> QED  BY <1>f, MovingOn
  <1>1. RevocationTypeOK'
    BY <1>f, <1>m DEF RevocationTypeOK
  <1>2. ExpiryAhead'
    BY <1>f, <1>m DEF ExpiryAhead
  <1>3. ExpireHarmless'
    BY <1>f, <1>m DEF ExpireHarmless
  <1>4. ExpiryEnough'
    BY <1>f, <1>m DEF ExpiryEnough
  <1> QED  BY <1>1, <1>2, <1>3, <1>4, <1>m

\* A command that fails without having been executed leaves the sets alone.
LEMMA RevokeErrorKeeps ==
  ASSUME RevocationIInv, NEW v \in Revokes, RevokeError(v)
  PROVE  RevocationIInv'
PROOF
  <1>1. /\ Fail(v) /\ now' = now /\ members' = members /\ expireAt' = expireAt /\ Active(v)
    BY DEF RevokeError, Active
  <1>2. Key(v) \in Sets /\ members \subseteq Members
    BY <1>1, Typed DEF RevocationIInv, RevocationTypeOK
  <1>3. \A z \in Sets : In(z)' = In(z)
    BY <1>1 DEF In
  <1> QED  BY <1>1, <1>2, <1>3, FailKeeps

\* SADD that is answered.
LEMMA AddKeeps ==
  ASSUME RevocationIInv, NEW v \in Revokes, NEW m \in Members, NEW t \in Ttls, Add(v, m, t)
  PROVE  RevocationIInv'
PROOF
  <1> USE DEF RevocationIInv
  <1> DEFINE s == SetOf[m]
  <1>f. rpc[v] = "idle" /\ members' = members \cup {m} /\ now' = now /\ expireAt' = expireAt
    BY DEF Add
  <1>e. /\ members \subseteq Members /\ s \in Sets /\ t \in Nat /\ now \in Nat
        /\ members' \subseteq Members
    BY <1>f, Typed, RevocationAssumption DEF RevocationTypeOK, RevocationAssumption, Sets
  <1>n. \A z \in Sets : In(z) \subseteq In(z)'
    BY <1>f DEF In
  <1>1. CASE Fail(v)
    <2> HIDE DEF RevocationIInv
    <2> QED  BY <1>1, <1>f, <1>e, <1>n, FailKeeps
  <1>2. CASE /\ rpc' = [rpc EXCEPT ![v] = IF t = 0 THEN "publish" ELSE "ttl"]
             /\ rmember' = [rmember EXCEPT ![v] = m]
             /\ rttl' = [rttl EXCEPT ![v] = t]
             /\ addedAt' = [addedAt EXCEPT ![v] = now]
             /\ disturbed' = disturbed \cup {w \in Halfway(s) : 0 < t /\ t < rttl[w]}
                                       \cup {u \in {v} : \E w \in Halfway(s) : rttl[w] < t}
    <2>v. /\ rpc'[v] = (IF t = 0 THEN "publish" ELSE "ttl") /\ rmember'[v] = m
          /\ rttl'[v] = t /\ addedAt'[v] = now
      BY <1>2 DEF RevocationTypeOK
    <2>o. \A w \in Revokes \ {v} :
            /\ rpc'[w] = rpc[w] /\ rmember'[w] = rmember[w] /\ rttl'[w] = rttl[w]
            /\ addedAt'[w] = addedAt[w]
            /\ Key(w)' = Key(w) /\ Active(w)' = Active(w) /\ InForce(w)' = InForce(w)
      BY <1>2, <1>f DEF RevocationTypeOK, Key, Active, InForce
    <2>k. Key(v)' = s
      BY <2>v DEF Key
    <2>d. \A w \in Revokes : w \notin disturbed' =>
            /\ w \notin disturbed
            /\ w \in Halfway(s) => ~(0 < t /\ t < rttl[w])
            /\ w = v => \A x \in Halfway(s) : ~(rttl[x] < t)
      BY <1>2
    <2>h. \A z \in Sets : \A w \in Halfway(z)' :
            w \in Halfway(z) \/ (w = v /\ z = s /\ t > 0)
      <3> TAKE z \in Sets
      <3> TAKE w \in Halfway(z)'
      <3>1. w \in Revokes /\ rpc'[w] \in {"ttl", "expire"} /\ Key(w)' = z
        BY DEF Halfway, Key
      <3>2. CASE w = v
        BY <3>1, <3>2, <2>v, <2>k, <1>e
      <3>3. CASE w # v
        BY <3>1, <3>3, <2>o DEF Halfway, Key
      <3> QED  BY <3>2, <3>3
    <2>x. v \notin Halfway(s) /\ Halfway(s) \subseteq Revokes
      BY <1>f DEF Halfway
    <2>1. RevocationTypeOK'
      <3>1. now' \in 0..MaxTime /\ expireAt' \in [Sets -> Nat \cup {NoTtl}]
        BY <1>f DEF RevocationTypeOK
      <3>2. rpc' \in [Revokes -> {"idle", "ttl", "expire", "publish", "done", "failed"}]
        BY <1>2 DEF RevocationTypeOK
      <3>3. rmember' \in [Revokes -> Members \cup {Nobody}] /\ rttl' \in [Revokes -> Ttls \cup {0}]
        BY <1>2 DEF RevocationTypeOK
      <3>4. addedAt' \in [Revokes -> 0..MaxTime \cup {Never}]
        BY <1>2 DEF RevocationTypeOK
      <3>5. disturbed' \subseteq Revokes
        BY <1>2, <2>x DEF RevocationTypeOK
      <3> QED  BY <1>e, <3>1, <3>2, <3>3, <3>4, <3>5 DEF RevocationTypeOK
    <2>2. Noted'
      BY <2>v, <2>o, <1>f, <1>e DEF Noted
    <2>3. ExpiryAhead'
      BY <1>f, <1>n DEF ExpiryAhead
    <2>4. HalfwaySafe'
      <3> SUFFICES ASSUME NEW u \in Revokes, u \notin disturbed', rpc'[u] \in {"ttl", "expire"}
                   PROVE  /\ rmember'[u] \in members'
                          /\ \A w \in Halfway(Key(u))' : rttl'[w] >= rttl'[u]
        BY DEF HalfwaySafe
      <3>1. CASE u = v
        <4>1. \A w \in Halfway(s)' : rttl'[w] >= t
          BY <3>1, <2>d, <2>h, <2>v, <2>o, <2>x, <1>e, Typed
        <4> QED  BY <3>1, <4>1, <2>v, <2>k, <1>f
      <3>2. CASE u # v
        <4>1. /\ rmember[u] \in members /\ \A w \in Halfway(Key(u)) : rttl[w] >= rttl[u]
              /\ Key(u) \in Sets /\ u \in Halfway(Key(u)) /\ rttl[u] \in Nat
          BY <3>2, <2>o, <2>d, Typed DEF HalfwaySafe, Active, Halfway, Key
        <4>2. \A w \in Halfway(Key(u)) : w \in Revokes /\ w # v
          BY <1>f DEF Halfway
        <4>3. \A w \in Halfway(Key(u))' : rttl'[w] >= rttl[u]
          <5> SUFFICES ASSUME NEW w \in Halfway(Key(u))'  PROVE rttl'[w] >= rttl[u]
            OBVIOUS
          <5>1. w \in Halfway(Key(u)) \/ (w = v /\ Key(u) = s /\ t > 0)
            BY <2>h, <4>1, <3>2, <2>o
          <5>2. CASE w \in Halfway(Key(u))
            BY <5>2, <4>1, <4>2, <2>o
          <5>3. CASE w = v /\ Key(u) = s /\ t > 0
            BY <5>3, <4>1, <2>d, <2>v, <1>e
          <5> QED  BY <5>1, <5>2, <5>3
        <4> QED  BY <3>2, <4>1, <4>3, <2>o, <1>f
      <3> QED  BY <3>1, <3>2
    <2>5. ExpireHarmless'
      <3> SUFFICES ASSUME NEW u \in Revokes, u \notin disturbed', NEW w \in Revokes,
                          Active(u)', rpc'[w] = "expire", Key(w)' = Key(u)'
                   PROVE  now + rttl'[w] >= addedAt'[u] + rttl'[u]
        BY <1>f DEF ExpireHarmless
      <3>1. w # v
        BY <2>v
      <3>2. CASE u = v
        <4>1. w \in Halfway(s)
          BY <3>1, <3>2, <2>o, <2>k DEF Halfway, Key
        <4> QED  BY <3>1, <3>2, <4>1, <2>d, <2>v, <2>o, <1>e, Typed
      <3>3. CASE u # v
        BY <3>1, <3>3, <2>o, <2>d DEF ExpireHarmless
      <3> QED  BY <3>2, <3>3
    <2>6. ExpiryEnough'
      <3> SUFFICES ASSUME NEW u \in Revokes, u \notin disturbed',
                          rpc'[u] \in {"publish", "done"}, InForce(u)'
                   PROVE  /\ rmember'[u] \in members' /\ expireAt[Key(u)'] # NoTtl
                          /\ expireAt[Key(u)'] >= addedAt'[u] + rttl'[u]
        BY <1>f DEF ExpiryEnough
      <3>1. u # v
        BY <2>v, <1>f, <1>e DEF InForce
      <3> QED  BY <3>1, <2>o, <2>d, <1>f DEF ExpiryEnough
    <2> QED  BY <2>1, <2>2, <2>3, <2>4, <2>5, <2>6
  <1> QED  BY <1>1, <1>2 DEF Add

\* A set's expiry disturbs those half-way on it and meets nobody else's span.
LEMMA TickKeeps ==
  ASSUME RevocationIInv, RevocationTick
  PROVE  RevocationIInv'
PROOF
  <1> USE DEF RevocationIInv
  <1> DEFINE gone == {z \in Sets : expireAt[z] = now + 1}
  <1>f. /\ now < MaxTime /\ now' = now + 1
        /\ members' = {m \in members : SetOf[m] \notin gone}
        /\ expireAt' = [z \in Sets |-> IF z \in gone THEN NoTtl ELSE expireAt[z]]
        /\ disturbed' = disturbed \cup UNION {Halfway(z) : z \in gone}
        /\ UNCHANGED <<rpc, rmember, rttl, addedAt>>
    BY DEF RevocationTick
  <1>e. /\ now \in Nat /\ MaxTime \in Nat /\ members \subseteq Members
        /\ expireAt \in [Sets -> Nat \cup {NoTtl}]
    BY RevocationAssumption DEF RevocationTypeOK, RevocationAssumption
  <1>k. \A u \in Revokes : Key(u)' = Key(u) /\ Active(u)' = Active(u) /\ (InForce(u)' => InForce(u))
    <2>1. \A u \in Revokes : Key(u)' = Key(u) /\ Active(u)' = Active(u)
      BY <1>f DEF Key, Active
    <2>2. \A u \in Revokes : rttl[u] \in Nat /\ (addedAt[u] \in Nat \/ addedAt[u] = -1)
      BY Typed, <1>e DEF RevocationTypeOK, Never
    <2>3. \A u \in Revokes : InForce(u)' => InForce(u)
      BY <2>2, <1>f, <1>e DEF InForce
    <2> QED  BY <2>1, <2>3
  <1>h. \A z : Halfway(z)' = Halfway(z)
    BY <1>f DEF Halfway
  <1>n. \A z \in Sets : In(z)' = IF z \in gone THEN {} ELSE In(z)
    BY <1>f DEF In
  <1>d. \A u \in Revokes : u \notin disturbed' =>
          /\ u \notin disturbed
          /\ rpc[u] \in {"ttl", "expire"} => Key(u) \notin gone
    BY <1>f DEF Halfway, Key
  <1>1. RevocationTypeOK'
    <2>1. expireAt' \in [Sets -> Nat \cup {NoTtl}]
      BY <1>f, <1>e
    <2>2. disturbed' \subseteq Revokes
      BY <1>f DEF RevocationTypeOK, Halfway
    <2> QED  BY <2>1, <2>2, <1>f, <1>e DEF RevocationTypeOK
  <1>2. Noted'
    BY <1>f, <1>e, <1>k DEF Noted
  <1>3. ExpiryAhead'
    <2> SUFFICES ASSUME NEW z \in Sets
                 PROVE  /\ expireAt'[z] = NoTtl \/ expireAt'[z] > now + 1
                        /\ In(z)' = {} => expireAt'[z] = NoTtl
      BY <1>f DEF ExpiryAhead
    <2>1. CASE z \in gone
      BY <2>1, <1>f
    <2>2. CASE z \notin gone
      BY <2>2, <1>f, <1>n, <1>e DEF ExpiryAhead
    <2> QED  BY <2>1, <2>2
  <1>4. HalfwaySafe'
    <2> SUFFICES ASSUME NEW u \in Revokes, u \notin disturbed', rpc[u] \in {"ttl", "expire"}
                 PROVE  /\ rmember[u] \in members'
                        /\ \A w \in Halfway(Key(u)) : rttl[w] >= rttl[u]
      BY <1>f, <1>k, <1>h DEF HalfwaySafe
    <2> QED  BY <1>f, <1>d DEF HalfwaySafe, Key
  <1>5. ExpireHarmless'
    <2> SUFFICES ASSUME NEW u \in Revokes, u \notin disturbed', NEW w \in Revokes,
                        Active(u), rpc[w] = "expire", Key(w) = Key(u)
                 PROVE  now + 1 + rttl[w] >= addedAt[u] + rttl[u]
      BY <1>f, <1>k DEF ExpireHarmless
    <2>1. now + rttl[w] >= addedAt[u] + rttl[u]
      BY <1>d DEF ExpireHarmless
    <2> QED  BY <2>1, <1>e, Typed
  <1>6. ExpiryEnough'
    <2> SUFFICES ASSUME NEW u \in Revokes, u \notin disturbed', rpc[u] \in {"publish", "done"}, InForce(u)'
                 PROVE  /\ rmember[u] \in members' /\ expireAt'[Key(u)] # NoTtl
                        /\ expireAt'[Key(u)] >= addedAt[u] + rttl[u]
      BY <1>f, <1>k DEF ExpiryEnough
    <2>1. /\ rmember[u] \in members /\ expireAt[Key(u)] # NoTtl
          /\ expireAt[Key(u)] >= addedAt[u] + rttl[u]
      BY <1>d, <1>k DEF ExpiryEnough
    <2>2. Key(u) \in Sets /\ addedAt[u] \in Nat /\ rttl[u] \in Nat
      BY Typed DEF Active
    <2>3. now + 1 < addedAt[u] + rttl[u]
      BY <1>f DEF InForce
    <2>4. Key(u) \notin gone
      BY <2>1, <2>2, <2>3, <1>e
    <2> QED  BY <2>1, <2>2, <2>4, <1>f DEF Key
  <1> QED  BY <1>1, <1>2, <1>3, <1>4, <1>5, <1>6

\* Every command of the handler, and every second of Redis's clock, keeps the
\* invariant.
LEMMA RevocationNextIInv == RevocationIInv /\ [RevocationNext]_rvars => RevocationIInv'
PROOF
  <1> SUFFICES ASSUME RevocationIInv, [RevocationNext]_rvars  PROVE RevocationIInv'
    OBVIOUS
  <1>1. CASE RevocationTick
    BY <1>1, TickKeeps
  <1>2. ASSUME NEW v \in Revokes, Revoke(v)  PROVE RevocationIInv'
    BY <1>2, AddKeeps, ReadTtlKeeps, SetExpireKeeps, BroadcastKeeps, RevokeErrorKeeps DEF Revoke
  <1>3. CASE UNCHANGED rvars
    BY <1>3 DEF rvars, RevocationIInv, RevocationTypeOK, Noted, ExpiryAhead, HalfwaySafe,
                ExpireHarmless, ExpiryEnough, Active, Key, In, Halfway, InForce
  <1> QED  BY <1>1, <1>2, <1>3 DEF RevocationNext

\* POST /revoke alone (revoke/handler.py).
LEMMA RevocationInvariant == RevocationSpec => []RevocationIInv
  BY RevocationInitIInv, RevocationNextIInv, PTL DEF RevocationSpec

\* The state of POST /revoke and of Redis stays within its types.
THEOREM RevocationTypeCorrect == RevocationSpec => []RevocationTypeOK
PROOF
  <1>1. RevocationIInv => RevocationTypeOK
    BY DEF RevocationIInv
  <1> QED  BY <1>1, RevocationInvariant, PTL

\* A revocation that was answered and met no other one half-way (sadd_member's
\* SADD, TTL and EXPIRE) is in its set until the time it asked for is over.
THEOREM RevocationHolds == RevocationSpec => []RevocationStands
PROOF
  <1>1. RevocationIInv => RevocationStands
    BY DEF RevocationIInv, ExpiryEnough, RevocationStands
  <1> QED  BY <1>1, RevocationInvariant, PTL

-----------------------------------------------------------------------------
(***************************************************************************)
(* The inductive invariant                                                 *)
(***************************************************************************)

\* The marker of an accepted item outlives its acceptance by the guard's TTL.
ItemsMarked ==
  \A r \in Requests, g \in Guards :
     LET i == ItemOf[r][g]
     IN  acceptedAt[i] # Never => /\ acceptedAt[i] <= now
                                  /\ marker[i] >= acceptedAt[i] + MarkerTtl[g]

\* A request that waits for a marker was found timely when it was checked, which an
\* assertion without exp always is.
TimesChecked ==
  \A r \in Requests :
     /\ checkedAt[r] <= now
     /\ \A g \in Guards : pc[r] = g /\ Perishable(g, ItemOf[r][g]) =>
           checkedAt[r] <= IatOf[ItemOf[r][g]] + Timeliness[g]

\* The dimensions in which a request that has come to p was looked up.
LookedUp(p) ==
  IF p \in {"new", "row", "assertion", "agents", "refused", "failed"} THEN {}
  ELSE IF p = "jtis" THEN {"agents"}
  ELSE IF p = "subs" THEN {"agents", "jtis"} ELSE Dimensions

\* What was revoked for a request's sake before it arrived did not pass it by.
RevokedSeen ==
  \A r \in Requests :
     /\ \A v \in answered[r] : rpc[v] = "done"
     /\ \A v \in answered[r] \ disturbed :
           InForce(v) => \A d \in LookedUp(pc[r]) : Identity[r][d] # rmember[v]

\* Where a request has not met a counter yet.
BeforeCounter(c) ==
  {"new", "row", "assertion", "dpop", "perms", "user"} \cup Dimensions
    \cup (IF c = "agent" THEN {"agent"} ELSE {})

Spent(r) == \E c \in Counters : \E h \in hits[c] : h.req = r

\* The records of a request say what became of it, and one that spent something has one.
RecordsMatch ==
  \A r \in Requests :
     /\ <<"issue", r>> \in trail <=> pc[r] = "issued"
     /\ <<"deny", r>> \in trail => pc[r] = "refused"
     /\ pc[r] = "refused" /\ Spent(r) => <<"deny", r>> \in trail
     /\ \A c \in Counters : \A h \in hits[c] : h.req = r => pc[r] \notin BeforeCounter(c)

\* When the counter's window under way began; the hits that passed in it, and in a window's
\* length before it.
Start(c) == windowEnd[c] - Window
PassedSince(c) == {h \in hits[c] : h.ok /\ h.at >= Start(c)}
PassedBefore(c) == {h \in hits[c] : h.ok /\ h.at > Start(c) - Window /\ h.at < Start(c)}

\* The counter counts the hits of its window; the limit passed in it and at most the limit
\* in a window's length before it.
WindowCounted(c) ==
  /\ IsFiniteSet(hits[c])
  /\ \A h \in hits[c] : h.at <= now /\ h.at < windowEnd[c]
  /\ count[c] = 0 => hits[c] = {} /\ windowEnd[c] = 0
  /\ count[c] > 0 =>
       /\ Start(c) \in 0..now
       /\ Cardinality(PassedSince(c)) = (IF count[c] <= Limit THEN count[c] ELSE Limit)
       /\ Cardinality(PassedBefore(c)) <= Limit

QuotaHeldBy(c) ==
  \A t \in 0..MaxTime :
    Cardinality({h \in hits[c] : h.ok /\ h.at \in t..t + Window - 1}) <= 2 * Limit

QuotaFairBy(c) ==
  \A h \in hits[c] : ~h.ok =>
    Cardinality({k \in hits[c] : k.ok /\ k.at \in h.at - Window + 1..h.at}) >= Limit

CountersRight == \A c \in Counters : WindowCounted(c) /\ QuotaHeldBy(c) /\ QuotaFairBy(c)

ExchangeIInv ==
  /\ RevocationIInv /\ ExchangeTypeOK
  /\ ItemsMarked /\ TimesChecked /\ ReuseNeedsSlack
  /\ RevokedSeen /\ RecordsMatch /\ CountersRight

-----------------------------------------------------------------------------
(***************************************************************************)
(* What a step of the handler does                                         *)
(***************************************************************************)

\* The numbers among the constants (config of the IdP).
LEMMA ExchangeNumbers ==
  /\ MaxTime \in Nat /\ MaxLife \in Nat /\ Leeway \in Nat /\ MaxSkew \in Nat
  /\ Window \in Nat /\ Window > 0 /\ Limit \in Nat /\ Limit > 0
  /\ \A g \in Guards : MarkerTtl[g] \in Nat /\ MarkerTtl[g] > 0 /\ Timeliness[g] \in Nat
  /\ \A r \in Requests, g \in Guards :
        /\ ItemOf[r][g] \in Items
        /\ IatOf[ItemOf[r][g]] \in Int /\ LifeOf[ItemOf[r][g]] \in Nat \cup {NoExp}
<1>1. /\ MaxTime \in Nat /\ MaxLife \in Nat /\ Leeway \in Nat /\ MaxSkew \in Nat
      /\ Window \in Nat /\ Window > 0 /\ Limit \in Nat /\ Limit > 0
  BY ExchangeAssumption, RevocationAssumption
<1>2. \A g \in Guards : MarkerTtl[g] \in Nat /\ MarkerTtl[g] > 0
  BY ExchangeAssumption
<1>3. Timeliness["assertion"] \in Nat /\ Timeliness["dpop"] \in Nat
  BY <1>1 DEF Timeliness
<1>4. \A r \in Requests, g \in Guards :
        /\ ItemOf[r][g] \in Items
        /\ IatOf[ItemOf[r][g]] \in Int /\ LifeOf[ItemOf[r][g]] \in Nat \cup {NoExp}
  BY ExchangeAssumption
<1> QED  BY <1>1, <1>2, <1>3, <1>4 DEF Guards

\* Answered.
Ended == {"issued", "refused", "failed"}

\* Where a request goes from where it waits.
Edge(p, q) ==
  \/ q \in {"refused", "failed"} /\ p \notin {"new"} \cup Ended
  \/ p = "new" /\ q = "row"
  \/ p = "row" /\ q = "assertion"
  \/ p = "assertion" /\ q = "agents"
  \/ p = "agents" /\ q = "jtis"
  \/ p = "jtis" /\ q = "subs"
  \/ p = "subs" /\ q = "dpop"
  \/ p = "dpop" /\ q = "perms"
  \/ p = "perms" /\ q = "user"
  \/ p = "user" /\ q = "agent"
  \/ p = "agent" /\ q = "issued"

\* It comes to a marker only with an item found timely.
Checks(r, to) ==
  \/ checkedAt' = checkedAt /\ to \notin Guards
  \/ /\ checkedAt' = [checkedAt EXCEPT ![r] = now]
     /\ \E g \in Guards : to = g /\ Timely(g, ItemOf[r][g])

\* It sets a marker or does not.
Marks(r) ==
  \/ UNCHANGED <<marker, acceptedAt, reuses>>
  \/ \E g \in Guards :
        /\ pc[r] = g
        /\ \/ Accept(r, g)
           \/ /\ ~ Marked(ItemOf[r][g]) /\ SetMarker(g, ItemOf[r][g])
              /\ UNCHANGED <<acceptedAt, reuses>>

\* It passes a dimension only if nothing is revoked there; what was answered is noted once.
LooksUp(r, to) ==
  /\ pc[r] \in Dimensions /\ to \notin Ended => Identity[r][pc[r]] \notin members
  /\ \/ answered' = answered /\ pc[r] # "new"
     \/ /\ pc[r] = "new"
        /\ answered' = [answered EXCEPT ![r] = {v \in Revokes : rpc[v] = "done"}]

\* It increments the counter it waits for, or none.
Counts(r) ==
  \/ UNCHANGED <<count, windowEnd, hits>>
  \/ \E c \in Counters : pc[r] = c /\ Increment(r, c)

\* It leaves the record of its answer, unless it has spent nothing.
Records(r, to) ==
  \/ /\ trail' = trail /\ to # "issued"
     /\ to = "refused" => pc[r] \notin Counters
  \/ to = "refused" /\ trail' = trail \cup {<<"deny", r>>}
  \/ to = "issued" /\ trail' = trail \cup {<<"issue", r>>}

\* A step of the handler of request r, to where it waits next.
StepTo(r, to) ==
  /\ pc' = [pc EXCEPT ![r] = to] /\ Edge(pc[r], to)
  /\ UNCHANGED rvars
  /\ Checks(r, to) /\ Marks(r) /\ LooksUp(r, to) /\ Counts(r) /\ Records(r, to)

\* Every step of the handler is of this form (handler.py, from one await to the next).
LEMMA HandlerSteps ==
  ASSUME NEW r \in Requests, Exchange(r)
  PROVE  \E to : StepTo(r, to)
<1> USE DEF Goto, Edge, Ended, Guards, Counters, Dimensions
<1>1. CASE Arrive(r)
  <2>1. StepTo(r, "row")
    BY <1>1 DEF Arrive, StepTo, Checks, Marks, LooksUp, Counts, Records
  <2> QED  BY <2>1
<1>2. CASE VerifyAssertion(r)
  <2>1. CASE Goto(r, {"refused"}) /\ UNCHANGED checkedAt
    <3>1. StepTo(r, "refused")
      BY <1>2, <2>1 DEF VerifyAssertion, StepTo, Checks, Marks, LooksUp, Counts, Records
    <3> QED  BY <3>1
  <2>2. CASE /\ Timely("assertion", ItemOf[r]["assertion"])
             /\ Goto(r, {"assertion"})
             /\ checkedAt' = [checkedAt EXCEPT ![r] = now]
    <3>1. StepTo(r, "assertion")
      BY <1>2, <2>2 DEF VerifyAssertion, StepTo, Checks, Marks, LooksUp, Counts, Records
    <3> QED  BY <3>1
  <2> QED  BY <1>2, <2>1, <2>2 DEF VerifyAssertion
<1>3. CASE MarkAssertion(r)
  <2>1. CASE Replay(r, "assertion")
    <3>1. StepTo(r, "refused")
      BY <1>3, <2>1 DEF MarkAssertion, Replay, StepTo, Checks, Marks, LooksUp, Counts, Records
    <3> QED  BY <3>1
  <2>2. CASE Spoil(r, "assertion")
    <3>1. StepTo(r, "failed")
      BY <1>3, <2>2 DEF MarkAssertion, Spoil, StepTo, Checks, Marks, LooksUp, Counts, Records
    <3> QED  BY <3>1
  <2>3. CASE Accept(r, "assertion") /\ Goto(r, {"agents"})
    <3>1. StepTo(r, "agents")
      BY <1>3, <2>3 DEF MarkAssertion, StepTo, Checks, Marks, LooksUp, Counts, Records
    <3> QED  BY <3>1
  <2> QED  BY <1>3, <2>1, <2>2, <2>3 DEF MarkAssertion
<1>4. CASE LookUp(r)
  <2>1. CASE Goto(r, {"refused"}) /\ UNCHANGED checkedAt
    <3>1. StepTo(r, "refused")
      BY <1>4, <2>1 DEF LookUp, StepTo, Checks, Marks, LooksUp, Counts, Records
    <3> QED  BY <3>1
  <2>2. CASE /\ Identity[r][pc[r]] \notin members
             /\ pc[r] # "subs"
             /\ Goto(r, {IF pc[r] = "agents" THEN "jtis" ELSE "subs"})
             /\ UNCHANGED checkedAt
    <3>1. StepTo(r, IF pc[r] = "agents" THEN "jtis" ELSE "subs")
      BY <1>4, <2>2 DEF LookUp, StepTo, Checks, Marks, LooksUp, Counts, Records
    <3> QED  BY <3>1
  <2>3. CASE /\ Identity[r][pc[r]] \notin members
             /\ pc[r] = "subs"
             /\ Timely("dpop", ItemOf[r]["dpop"])
             /\ Goto(r, {"dpop"})
             /\ checkedAt' = [checkedAt EXCEPT ![r] = now]
    <3>1. StepTo(r, "dpop")
      BY <1>4, <2>3 DEF LookUp, StepTo, Checks, Marks, LooksUp, Counts, Records
    <3> QED  BY <3>1
  <2> QED  BY <1>4, <2>1, <2>2, <2>3 DEF LookUp
<1>5. CASE MarkProof(r)
  <2>1. CASE Replay(r, "dpop") /\ UNCHANGED trail
    <3>1. StepTo(r, "refused")
      BY <1>5, <2>1 DEF MarkProof, Replay, StepTo, Checks, Marks, LooksUp, Counts, Records
    <3> QED  BY <3>1
  <2>2. CASE Spoil(r, "dpop") /\ UNCHANGED trail
    <3>1. StepTo(r, "failed")
      BY <1>5, <2>2 DEF MarkProof, Spoil, StepTo, Checks, Marks, LooksUp, Counts, Records
    <3> QED  BY <3>1
  <2>3. CASE Accept(r, "dpop") /\ Goto(r, {"perms", "refused"}) /\ UNCHANGED trail
    <3>1. PICK to \in {"perms", "refused"} : pc' = [pc EXCEPT ![r] = to]
      BY <2>3
    <3>2. StepTo(r, to)
      BY <1>5, <2>3, <3>1 DEF MarkProof, StepTo, Checks, Marks, LooksUp, Counts, Records
    <3> QED  BY <3>2
  <2>4. CASE Accept(r, "dpop") /\ Deny(r)
    <3>1. StepTo(r, "refused")
      BY <1>5, <2>4 DEF MarkProof, Deny, StepTo, Checks, Marks, LooksUp, Counts, Records
    <3> QED  BY <3>1
  <2> QED  BY <1>5, <2>1, <2>2, <2>3, <2>4 DEF MarkProof
<1>6. CASE Intersect(r)
  <2>1. CASE Goto(r, {"user"}) /\ UNCHANGED trail
    <3>1. StepTo(r, "user")
      BY <1>6, <2>1 DEF Intersect, StepTo, Checks, Marks, LooksUp, Counts, Records
    <3> QED  BY <3>1
  <2>2. CASE Deny(r)
    <3>1. StepTo(r, "refused")
      BY <1>6, <2>2 DEF Intersect, Deny, StepTo, Checks, Marks, LooksUp, Counts, Records
    <3> QED  BY <3>1
  <2> QED  BY <1>6, <2>1, <2>2 DEF Intersect
<1>7. CASE CountUser(r)
  <2>1. CASE Counted("user") <= Limit /\ Goto(r, {"agent"}) /\ UNCHANGED trail
    <3>1. StepTo(r, "agent")
      BY <1>7, <2>1 DEF CountUser, StepTo, Checks, Marks, LooksUp, Counts, Records
    <3> QED  BY <3>1
  <2>2. CASE Deny(r)
    <3>1. StepTo(r, "refused")
      BY <1>7, <2>2 DEF CountUser, Deny, StepTo, Checks, Marks, LooksUp, Counts, Records
    <3> QED  BY <3>1
  <2>3. CASE Goto(r, {"failed"}) /\ UNCHANGED trail
    <3>1. StepTo(r, "failed")
      BY <1>7, <2>3 DEF CountUser, StepTo, Checks, Marks, LooksUp, Counts, Records
    <3> QED  BY <3>1
  <2> QED  BY <1>7, <2>1, <2>2, <2>3 DEF CountUser
<1>8. CASE CountAgent(r)
  <2>1. CASE /\ Goto(r, {"issued"})
             /\ trail' = trail \cup {<<"issue", r>>}
    <3>1. StepTo(r, "issued")
      BY <1>8, <2>1 DEF CountAgent, StepTo, Checks, Marks, LooksUp, Counts, Records
    <3> QED  BY <3>1
  <2>2. CASE Deny(r)
    <3>1. StepTo(r, "refused")
      BY <1>8, <2>2 DEF CountAgent, Deny, StepTo, Checks, Marks, LooksUp, Counts, Records
    <3> QED  BY <3>1
  <2>3. CASE Goto(r, {"failed"}) /\ UNCHANGED trail
    <3>1. StepTo(r, "failed")
      BY <1>8, <2>3 DEF CountAgent, StepTo, Checks, Marks, LooksUp, Counts, Records
    <3> QED  BY <3>1
  <2> QED  BY <1>8, <2>1, <2>2, <2>3 DEF CountAgent
<1>9. CASE Error(r)
  <2>1. StepTo(r, "failed")
    BY <1>9 DEF Error, StepTo, Checks, Marks, LooksUp, Counts, Records
  <2> QED  BY <2>1
<1> QED  BY <1>1, <1>2, <1>3, <1>4, <1>5, <1>6, <1>7, <1>8, <1>9 DEF Exchange

\* The parts of the types that the proofs use.
LEMMA Facts ==
  ASSUME RevocationTypeOK, ExchangeTypeOK, NEW r \in Requests
  PROVE  /\ now \in Nat /\ now <= MaxTime
         /\ checkedAt[r] \in Nat
         /\ pc[r] \in {"new", "row", "assertion", "dpop", "perms", "user", "agent",
                       "issued", "refused", "failed"} \cup Dimensions
         /\ \A i \in Items : marker[i] \in Nat /\ acceptedAt[i] \in Nat \cup {Never}
  BY ExchangeNumbers DEF RevocationTypeOK, ExchangeTypeOK, Never

-----------------------------------------------------------------------------
(***************************************************************************)
(* Types                                                                   *)
(***************************************************************************)

\* A step of the handler keeps the types (handler.py; rate_limit.py).
LEMMA ExchangeTypeStep ==
  ASSUME ExchangeIInv, NEW r \in Requests, NEW to, StepTo(r, to)
  PROVE  ExchangeTypeOK'
<1> USE ExchangeNumbers
<1>1. RevocationTypeOK /\ ExchangeTypeOK /\ TimesChecked
  BY DEF ExchangeIInv, RevocationIInv
<1>2. now' = now /\ RevocationTypeOK'
  BY <1>1 DEF StepTo, rvars, RevocationTypeOK, In
<1>3. now \in 0..MaxTime
  BY <1>1 DEF RevocationTypeOK
<1>4. pc' \in [Requests -> {"new", "row", "assertion", "dpop", "perms", "user", "agent",
                          "issued", "refused", "failed"} \cup Dimensions]
  BY <1>1 DEF StepTo, Edge, ExchangeTypeOK, Dimensions
<1>5. checkedAt' \in [Requests -> 0..MaxTime]
  BY <1>1, <1>3 DEF StepTo, Checks, ExchangeTypeOK
<1>6. marker' \in [Items -> Nat] /\ acceptedAt' \in [Items -> 0..MaxTime \cup {Never}]
  <2>1. CASE UNCHANGED <<marker, acceptedAt, reuses>>
    BY <1>1, <2>1 DEF ExchangeTypeOK
  <2>2. ASSUME NEW g \in Guards, SetMarker(g, ItemOf[r][g])
        PROVE  marker' \in [Items -> Nat]
    <3>1. now + MarkerTtl[g] \in Nat
      BY <1>3
    <3> QED  BY <1>1, <2>2, <3>1 DEF SetMarker, ExchangeTypeOK
  <2>3. ASSUME NEW g \in Guards, Accept(r, g)
        PROVE  acceptedAt' \in [Items -> 0..MaxTime \cup {Never}]
    BY <1>1, <1>3, <2>3 DEF Accept, ExchangeTypeOK
  <2> QED  BY <1>1, <2>1, <2>2, <2>3 DEF StepTo, Marks, Accept, ExchangeTypeOK
<1>7. reuses' \subseteq [item : Items, guard : Guards, gap : Int, stall : 0..MaxTime, lead : Int]
  <2>1. CASE UNCHANGED reuses
    BY <1>1, <2>1 DEF ExchangeTypeOK
  <2>2. ASSUME NEW g \in Guards, Accept(r, g)
        PROVE  reuses' \subseteq [item : Items, guard : Guards, gap : Int, stall : 0..MaxTime,
                                  lead : Int]
    <3> DEFINE i == ItemOf[r][g]
               gap == now - acceptedAt[i]
               stall == now - checkedAt[r]
               lead == IatOf[i] - acceptedAt[i]
    <3>1. i \in Items
      OBVIOUS
    <3>2. stall \in 0..MaxTime
      BY <1>1, <1>3, Facts DEF TimesChecked
    <3>3. acceptedAt[i] # Never => gap \in Int /\ lead \in Int
      BY <1>1, Facts DEF Never
    <3>4. reuses' = IF acceptedAt[i] = Never THEN reuses
                    ELSE reuses \cup {[item |-> i, guard |-> g, gap |-> gap, stall |-> stall,
                                       lead |-> lead]}
      BY <2>2 DEF Accept
    <3> HIDE DEF i, gap, stall, lead
    <3> QED  BY <1>1, <3>1, <3>2, <3>3, <3>4 DEF ExchangeTypeOK
  <2> QED  BY <2>1, <2>2 DEF StepTo, Marks
<1>8. trail' \subseteq {"issue", "deny"} \X Requests
  BY <1>1 DEF StepTo, Records, ExchangeTypeOK
<1>9. answered' \in [Requests -> SUBSET Revokes]
  BY <1>1 DEF StepTo, LooksUp, ExchangeTypeOK
<1>10. /\ count' \in [Counters -> Nat] /\ windowEnd' \in [Counters -> Nat]
       /\ hits' \in [Counters -> SUBSET Hit]
  <2>1. CASE UNCHANGED <<count, windowEnd, hits>>
    BY <1>1, <2>1 DEF ExchangeTypeOK
  <2>2. ASSUME NEW c \in Counters, Increment(r, c)
        PROVE  /\ count' \in [Counters -> Nat] /\ windowEnd' \in [Counters -> Nat]
               /\ hits' \in [Counters -> SUBSET Hit]
    <3>1. count[c] \in Nat /\ windowEnd[c] \in Nat /\ hits[c] \in SUBSET Hit
      BY <1>1 DEF ExchangeTypeOK
    <3>2. Counted(c) \in Nat /\ WindowAfter(c) \in Nat
      BY <1>3, <3>1 DEF Counted, WindowAfter
    <3>3. [req |-> r, at |-> now, ok |-> Counted(c) <= Limit] \in Hit
      BY <1>3 DEF Hit
    <3> QED  BY <1>1, <2>2, <3>1, <3>2, <3>3 DEF Increment, ExchangeTypeOK
  <2> QED  BY <2>1, <2>2 DEF StepTo, Counts
<1> QED  BY <1>2, <1>4, <1>5, <1>6, <1>7, <1>8, <1>9, <1>10 DEF ExchangeTypeOK

-----------------------------------------------------------------------------
(***************************************************************************)
(* The replay guards                                                       *)
(***************************************************************************)

\* An item of one guard is none of the other.
LEMMA OneGuard ==
  ASSUME NEW r \in Requests, NEW q \in Requests, NEW g \in Guards, NEW h \in Guards,
         ItemOf[r][g] = ItemOf[q][h]
  PROVE  g = h
  BY ExchangeAssumption DEF Guards

\* Whoever finds no marker comes late (handler.py, the two calls of setnx_with_ttl).
LEMMA GuardStep ==
  ASSUME ExchangeIInv, NEW r \in Requests, NEW to, StepTo(r, to)
  PROVE  ItemsMarked' /\ TimesChecked' /\ ReuseNeedsSlack'
<1> USE ExchangeNumbers
<1>1. /\ RevocationTypeOK /\ ExchangeTypeOK /\ ItemsMarked /\ TimesChecked
      /\ ReuseNeedsSlack
  BY DEF ExchangeIInv, RevocationIInv
<1>2. now' = now /\ now \in Nat
  BY <1>1, Facts DEF StepTo, rvars
<1>3. ItemsMarked'
  <2> SUFFICES ASSUME NEW q \in Requests, NEW h \in Guards,
                      acceptedAt'[ItemOf[q][h]] # Never
               PROVE  /\ acceptedAt'[ItemOf[q][h]] <= now
                      /\ marker'[ItemOf[q][h]] >= acceptedAt'[ItemOf[q][h]] + MarkerTtl[h]
    BY <1>2 DEF ItemsMarked
  <2> DEFINE j == ItemOf[q][h]
  <2>1. /\ j \in Items /\ marker[j] \in Nat /\ acceptedAt[j] \in Nat \cup {Never}
        /\ acceptedAt[j] # Never => /\ acceptedAt[j] <= now
                                    /\ marker[j] >= acceptedAt[j] + MarkerTtl[h]
    BY <1>1, Facts DEF ItemsMarked
  <2>2. CASE UNCHANGED <<marker, acceptedAt>>
    BY <2>1, <2>2
  <2>3. ASSUME NEW g \in Guards, SetMarker(g, ItemOf[r][g]), ~ Marked(ItemOf[r][g]),
               \/ acceptedAt' = acceptedAt
               \/ acceptedAt' = [acceptedAt EXCEPT ![ItemOf[r][g]] = now]
        PROVE  /\ acceptedAt'[j] <= now /\ marker'[j] >= acceptedAt'[j] + MarkerTtl[h]
    <3>1. CASE j = ItemOf[r][g]
      <4>1. g = h
        BY <3>1, OneGuard
      <4>2. marker'[j] = now + MarkerTtl[h]
        BY <1>1, <2>1, <2>3, <3>1, <4>1 DEF SetMarker, ExchangeTypeOK
      <4>3. acceptedAt'[j] \in {now, acceptedAt[j]}
        BY <1>1, <2>1, <2>3, <3>1 DEF ExchangeTypeOK
      <4>4. acceptedAt'[j] <= now /\ acceptedAt'[j] \in Nat
        BY <1>2, <2>1, <4>3 DEF Never
      <4> QED  BY <1>2, <4>2, <4>4
    <3>2. CASE j # ItemOf[r][g]
      <4>1. marker'[j] = marker[j] /\ acceptedAt'[j] = acceptedAt[j]
        BY <1>1, <2>1, <2>3, <3>2 DEF SetMarker, ExchangeTypeOK
      <4> QED  BY <2>1, <4>1
    <3> QED  BY <3>1, <3>2
  <2> QED  BY <2>2, <2>3 DEF StepTo, Marks, Accept
<1>4. TimesChecked'
  <2> SUFFICES ASSUME NEW q \in Requests
               PROVE  /\ checkedAt'[q] <= now
                      /\ \A g \in Guards : pc'[q] = g /\ Perishable(g, ItemOf[q][g]) =>
                            checkedAt'[q] <= IatOf[ItemOf[q][g]] + Timeliness[g]
    BY <1>2 DEF TimesChecked
  <2>1. CASE q # r
    <3>1. pc'[q] = pc[q] /\ checkedAt'[q] = checkedAt[q]
      BY <1>1, <2>1 DEF StepTo, Checks, ExchangeTypeOK
    <3> QED  BY <1>1, <3>1 DEF TimesChecked
  <2>2. CASE q = r /\ checkedAt' = checkedAt /\ to \notin Guards
    BY <1>1, <2>2 DEF StepTo, ExchangeTypeOK, TimesChecked
  <2>3. CASE /\ q = r /\ checkedAt' = [checkedAt EXCEPT ![r] = now]
             /\ \E g \in Guards : to = g /\ Timely(g, ItemOf[r][g])
    <3>1. PICK g \in Guards : to = g /\ Timely(g, ItemOf[r][g])
      BY <2>3
    <3>2. checkedAt'[q] = now /\ pc'[q] = g
      BY <1>1, <2>3, <3>1 DEF StepTo, ExchangeTypeOK
    <3>3. CASE g = "assertion" /\ Perishable(g, ItemOf[r][g])
      <4>1. /\ now <= IatOf[ItemOf[r][g]] + LifeOf[ItemOf[r][g]] + Leeway
            /\ LifeOf[ItemOf[r][g]] <= MaxLife
        BY <3>1, <3>3 DEF Timely, AssertionTimely, Perishable
      <4>2. Timeliness[g] = MaxLife + Leeway
        BY <3>3 DEF Timeliness
      <4>3. LifeOf[ItemOf[r][g]] \in Nat
        BY <3>3 DEF Perishable
      <4>4. now <= IatOf[ItemOf[r][g]] + Timeliness[g]
        BY <1>2, <4>1, <4>2, <4>3
      <4> QED  BY <1>2, <2>3, <3>2, <4>4
    <3>4. CASE g = "dpop"
      <4>1. now - IatOf[ItemOf[r][g]] \in -MaxSkew..MaxSkew
        BY <3>1, <3>4 DEF Timely
      <4>2. Timeliness[g] = MaxSkew
        BY <3>4 DEF Timeliness
      <4>3. now <= IatOf[ItemOf[r][g]] + Timeliness[g]
        BY <1>2, <4>1, <4>2
      <4> QED  BY <1>2, <2>3, <3>2, <4>3
    <3>5. CASE g = "assertion" /\ ~ Perishable(g, ItemOf[r][g])
      BY <1>2, <2>3, <3>2, <3>5
    <3> QED  BY <3>3, <3>4, <3>5 DEF Guards
  <2> QED  BY <2>1, <2>2, <2>3 DEF StepTo, Checks
<1>5. ReuseNeedsSlack'
  <2>1. CASE UNCHANGED reuses
    BY <1>1, <2>1 DEF ReuseNeedsSlack
  <2>2. ASSUME NEW g \in Guards, pc[r] = g, Accept(r, g)  PROVE ReuseNeedsSlack'
    <3> DEFINE i == ItemOf[r][g]
               u == [item |-> i, guard |-> g, gap |-> now - acceptedAt[i],
                     stall |-> now - checkedAt[r],
                     lead |-> IatOf[i] - acceptedAt[i]]
    <3>1. CASE acceptedAt[i] = Never
      BY <1>1, <2>2, <3>1 DEF Accept, ReuseNeedsSlack
    <3>2. CASE acceptedAt[i] # Never
      <4>1. reuses' = reuses \cup {u}
        BY <2>2, <3>2 DEF Accept
      <4>2. /\ marker[i] \in Nat /\ acceptedAt[i] \in Nat
            /\ marker[i] >= acceptedAt[i] + MarkerTtl[g]
        BY <1>1, <3>2, Facts DEF ItemsMarked
      <4>3. now >= marker[i]
        BY <1>2, <2>2, <4>2 DEF Accept, Marked
      <4>4. /\ checkedAt[r] \in Nat
            /\ Perishable(g, i) => checkedAt[r] <= IatOf[i] + Timeliness[g]
        BY <1>1, <2>2, Facts DEF TimesChecked
      <4>5. Perishable(g, i) =>
              (IatOf[i] - acceptedAt[i]) + (now - checkedAt[r]) >= MarkerTtl[g] - Timeliness[g]
        BY <1>2, <4>2, <4>3, <4>4
      <4>6. now - acceptedAt[i] >= MarkerTtl[g]
        BY <1>2, <4>2, <4>3
      <4>7. /\ u.gap >= MarkerTtl[u.guard]
            /\ Perishable(u.guard, u.item) =>
                 u.lead + u.stall >= MarkerTtl[u.guard] - Timeliness[u.guard]
        BY <4>5, <4>6
      <4> QED  BY <1>1, <4>1, <4>7 DEF ReuseNeedsSlack
    <3> QED  BY <3>1, <3>2
  <2> QED  BY <2>1, <2>2 DEF StepTo, Marks
<1> QED  BY <1>3, <1>4, <1>5

-----------------------------------------------------------------------------
(***************************************************************************)
(* Revocations and records                                                 *)
(***************************************************************************)

\* A dimension is behind a request once it has been looked up, and not before.
LEMMA LookedUpGrows ==
  ASSUME NEW p, NEW q, Edge(p, q), NEW d \in LookedUp(q)
  PROVE  d \in LookedUp(p) \/ (d = p /\ p \in Dimensions /\ q \notin Ended)
  BY DEF LookedUp, Edge, Dimensions, Ended

\* What is looked up finds what was revoked before (handler.py, _check_revoked).
LEMMA SeenStep ==
  ASSUME ExchangeIInv, NEW r \in Requests, NEW to, StepTo(r, to)
  PROVE  RevokedSeen'
<1>1. /\ RevocationTypeOK /\ ExchangeTypeOK /\ RevokedSeen /\ ExpiryEnough
  BY DEF ExchangeIInv, RevocationIInv
<1>2. UNCHANGED <<now, members, rpc, rmember, rttl, addedAt, disturbed>>
  BY DEF StepTo, rvars
<1>3. \A v \in Revokes : InForce(v)' = InForce(v)
  BY <1>2 DEF InForce
<1>4. ASSUME NEW q \in Requests
      PROVE  /\ \A v \in answered'[q] : rpc[v] = "done"
             /\ \A v \in answered'[q] \ disturbed :
                   InForce(v) => \A d \in LookedUp(pc'[q]) : Identity[q][d] # rmember[v]
  <2>4. CASE q # r
    <3>1. pc'[q] = pc[q] /\ answered'[q] = answered[q]
      BY <1>1, <2>4 DEF StepTo, LooksUp, ExchangeTypeOK
    <3> QED  BY <1>1, <3>1 DEF RevokedSeen
  <2>5. CASE q = r /\ pc[r] = "new"
    <3>1. pc'[q] = "row" /\ answered'[q] = {v \in Revokes : rpc[v] = "done"}
      BY <1>1, <2>5 DEF StepTo, LooksUp, Edge, ExchangeTypeOK, Ended
    <3>2. LookedUp(pc'[q]) = {}
      BY <3>1 DEF LookedUp
    <3> QED  BY <3>1, <3>2
  <2>6. CASE q = r /\ pc[r] # "new"
    <3>1. pc'[q] = to /\ answered'[q] = answered[q]
      BY <1>1, <2>6 DEF StepTo, LooksUp, ExchangeTypeOK
    <3>2. ASSUME NEW v \in answered[r] \ disturbed, InForce(v), NEW d \in LookedUp(to)
          PROVE  Identity[r][d] # rmember[v]
      <4>1. CASE d \in LookedUp(pc[r])
        BY <1>1, <3>2, <4>1 DEF RevokedSeen
      <4>2. CASE d = pc[r] /\ pc[r] \in Dimensions /\ to \notin Ended
        <5>1. Identity[r][d] \notin members
          BY <4>2 DEF StepTo, LooksUp
        <5>2. v \in Revokes \ disturbed /\ rpc[v] = "done"
          BY <1>1 DEF RevokedSeen, ExchangeTypeOK
        <5>3. rmember[v] \in members
          BY <1>1, <3>2, <5>2 DEF ExpiryEnough
        <5> QED  BY <5>1, <5>3
      <4>3. Edge(pc[r], to)
        BY DEF StepTo
      <4> QED  BY <4>1, <4>2, <4>3, LookedUpGrows
    <3> QED  BY <1>1, <2>6, <3>1, <3>2 DEF RevokedSeen
  <2> QED  BY <2>4, <2>5, <2>6
<1>5. \A q \in Requests : \A v \in answered'[q] : v \in Revokes
  BY <1>1 DEF StepTo, LooksUp, ExchangeTypeOK
<1> QED  BY <1>2, <1>3, <1>4, <1>5 DEF RevokedSeen

\* A counter is passed once and left behind.
LEMMA CountersAreBehind ==
  ASSUME NEW p, NEW q, Edge(p, q), NEW c \in Counters
  PROVE  /\ p \notin BeforeCounter(c) => q \notin BeforeCounter(c)
         /\ p = c => q \notin BeforeCounter(c) /\ p \in BeforeCounter(c)
  BY DEF Edge, BeforeCounter, Counters, Dimensions, Ended

\* An answer and its record are one step (handler.py, from the counters on).
LEMMA RecordStep ==
  ASSUME ExchangeIInv, NEW r \in Requests, NEW to, StepTo(r, to)
  PROVE  RecordsMatch'
<1>1. ExchangeTypeOK /\ RecordsMatch
  BY DEF ExchangeIInv
<1>2. Edge(pc[r], to) /\ pc' = [pc EXCEPT ![r] = to] /\ pc'[r] = to
  BY <1>1 DEF StepTo, ExchangeTypeOK
<1>3. pc[r] \notin Ended
  BY <1>2 DEF Edge, Ended
<1>4. \A q \in Requests \ {r} :
         /\ pc'[q] = pc[q]
         /\ <<"issue", q>> \in trail' <=> <<"issue", q>> \in trail
         /\ <<"deny", q>> \in trail' <=> <<"deny", q>> \in trail
  BY <1>1, <1>2 DEF StepTo, Records, ExchangeTypeOK
<1>5. ASSUME NEW c \in Counters, NEW h \in hits'[c]
      PROVE  h \in hits[c] \/ (h.req = r /\ pc[r] = c)
  <2>1. CASE hits' = hits
    BY <2>1, <1>5
  <2>2. ASSUME NEW k \in Counters, pc[r] = k, Increment(r, k)
        PROVE  h \in hits[c] \/ (h.req = r /\ pc[r] = c)
    <3>1. CASE c # k
      BY <1>1, <1>5, <2>2, <3>1 DEF Increment, ExchangeTypeOK
    <3>2. CASE c = k
      <4>1. hits'[c] = hits[c] \cup {[req |-> r, at |-> now, ok |-> Counted(c) <= Limit]}
        BY <1>1, <2>2, <3>2 DEF Increment, ExchangeTypeOK
      <4> QED  BY <1>5, <2>2, <3>2, <4>1
    <3> QED  BY <3>1, <3>2
  <2> QED  BY <2>1, <2>2 DEF StepTo, Counts
<1>6. ASSUME NEW q \in Requests, NEW c \in Counters, NEW h \in hits'[c], h.req = q
      PROVE  pc'[q] \notin BeforeCounter(c)
  <2>1. CASE h \in hits[c]
    <3>1. pc[q] \notin BeforeCounter(c)
      BY <1>1, <1>6, <2>1 DEF RecordsMatch
    <3> QED  BY <1>2, <1>4, <3>1, CountersAreBehind
  <2>2. CASE h.req = r /\ pc[r] = c
    BY <1>2, <1>6, <2>2, CountersAreBehind
  <2> QED  BY <1>5, <1>6, <2>1, <2>2
<1>7. ASSUME NEW q \in Requests
      PROVE  /\ <<"issue", q>> \in trail' <=> pc'[q] = "issued"
             /\ <<"deny", q>> \in trail' => pc'[q] = "refused"
             /\ pc'[q] = "refused" /\ Spent(q)' => <<"deny", q>> \in trail'
  <2>1. CASE q # r
    <3>1. Spent(q)' => Spent(q)
      BY <1>5, <2>1 DEF Spent
    <3> QED  BY <1>1, <1>4, <2>1, <3>1 DEF RecordsMatch
  <2>2. CASE q = r
    <3>1. <<"issue", r>> \notin trail /\ <<"deny", r>> \notin trail
      BY <1>1, <1>3 DEF RecordsMatch, Ended
    <3>2. CASE trail' = trail /\ to # "issued" /\ (to = "refused" => pc[r] \notin Counters)
      <4>1. ASSUME to = "refused", Spent(r)'  PROVE FALSE
        <5>1. PICK c \in Counters : \E h \in hits'[c] : h.req = r
          BY <4>1 DEF Spent
        <5>2. PICK h \in hits'[c] : h.req = r
          BY <5>1
        <5>3. h \in hits[c]
          BY <1>5, <3>2, <4>1
        <5>4. pc[r] \notin BeforeCounter(c)
          BY <1>1, <5>2, <5>3 DEF RecordsMatch
        <5> QED  BY <1>1, <1>3, <3>2, <4>1, <5>4
                 DEF BeforeCounter, Counters, ExchangeTypeOK, Ended
      <4> QED  BY <1>2, <2>2, <3>1, <3>2, <4>1
    <3>3. CASE to = "refused" /\ trail' = trail \cup {<<"deny", r>>}
      BY <1>2, <2>2, <3>1, <3>3
    <3>4. CASE to = "issued" /\ trail' = trail \cup {<<"issue", r>>}
      BY <1>2, <2>2, <3>1, <3>4
    <3> QED  BY <3>2, <3>3, <3>4 DEF StepTo, Records
  <2> QED  BY <2>1, <2>2
<1> QED  BY <1>6, <1>7 DEF RecordsMatch

-----------------------------------------------------------------------------
(***************************************************************************)
(* The counters                                                            *)
(***************************************************************************)

\* Sets of hits are finite, and of two that cover a third one has enough.
LEMMA Covered ==
  ASSUME NEW S, NEW A, NEW B, IsFiniteSet(A), IsFiniteSet(B), S \subseteq A \cup B
  PROVE  /\ IsFiniteSet(S) /\ Cardinality(S) \in Nat
         /\ Cardinality(S) <= Cardinality(A) + Cardinality(B)
<1>1. /\ IsFiniteSet(A \cup B)
      /\ Cardinality(A \cup B) = Cardinality(A) + Cardinality(B) - Cardinality(A \cap B)
  BY FS_Union
<1>2. IsFiniteSet(A \cap B)
  <2>1. A \cap B \in SUBSET A
    OBVIOUS
  <2> QED  BY <2>1, FS_Subset
<1>3. /\ Cardinality(A) \in Nat /\ Cardinality(B) \in Nat /\ Cardinality(A \cap B) \in Nat
      /\ Cardinality(A \cup B) \in Nat
  BY <1>1, <1>2, FS_CardinalityType
<1>4. IsFiniteSet(S) /\ Cardinality(S) <= Cardinality(A \cup B)
  <2>1. S \in SUBSET (A \cup B)
    OBVIOUS
  <2> QED  BY <1>1, <2>1, FS_Subset
<1>5. Cardinality(S) \in Nat
  BY <1>4, FS_CardinalityType
<1> QED  BY <1>1, <1>3, <1>4, <1>5

\* One hit more, of a request that has not met the counter (incr_with_window).
LEMMA CounterStep ==
  ASSUME RevocationTypeOK, ExchangeTypeOK, NEW c \in Counters, NEW r \in Requests,
         WindowCounted(c), QuotaHeldBy(c), QuotaFairBy(c),
         \A h \in hits[c] : h.req # r, Increment(r, c), now' = now
  PROVE  WindowCounted(c)' /\ QuotaHeldBy(c)' /\ QuotaFairBy(c)'
<1> DEFINE H == hits[c]
           n == Counted(c)
           w == WindowAfter(c)
           ok == n <= Limit
           x == [req |-> r, at |-> now, ok |-> ok]
           since == {h \in H : h.ok /\ h.at >= windowEnd[c] - Window}
           before == {h \in H : h.ok /\ h.at > windowEnd[c] - Window - Window
                                     /\ h.at < windowEnd[c] - Window}
           G == H \cup {x}
           since1 == {h \in G : h.ok /\ h.at >= w - Window}
           before1 == {h \in G : h.ok /\ h.at > w - Window - Window /\ h.at < w - Window}
<1>1. /\ now \in Nat /\ Window \in Nat /\ Window > 0 /\ Limit \in Nat /\ Limit > 0
      /\ windowEnd[c] \in Nat /\ count[c] \in Nat
  BY ExchangeNumbers DEF RevocationTypeOK, ExchangeTypeOK
<1>2. \A h \in H : h.at \in Nat /\ h.ok \in BOOLEAN /\ h.at <= now /\ h.at < windowEnd[c]
  BY ExchangeNumbers DEF ExchangeTypeOK, Hit, WindowCounted
<1>3. x.at = now /\ x.ok = ok /\ (ok => x.ok) /\ x.req = r /\ x \notin H
  OBVIOUS
<1>4. /\ count'[c] = n /\ windowEnd'[c] = w /\ hits'[c] = G
  BY DEF Increment, ExchangeTypeOK
<1>5. n \in Nat /\ n > 0 /\ w \in Nat /\ w > now /\ w - Window <= now
  <2>1. CASE now < windowEnd[c]
    <3>1. windowEnd[c] - Window \in 0..now
      BY <1>1, <2>1 DEF WindowCounted, Start
    <3> QED  BY <1>1, <2>1, <3>1 DEF Counted, WindowAfter
  <2>2. CASE ~ (now < windowEnd[c])
    BY <1>1, <2>2 DEF Counted, WindowAfter
  <2> QED  BY <2>1, <2>2
<1>6. /\ IsFiniteSet(H) /\ IsFiniteSet(G)
      /\ \A S \in SUBSET G : IsFiniteSet(S) /\ Cardinality(S) \in Nat
  <2>1. IsFiniteSet(H)
    BY DEF WindowCounted
  <2>2. IsFiniteSet(G)
    BY <2>1, FS_AddElement
  <2> QED  BY <2>1, <2>2, FS_Subset, FS_CardinalityType
<1>7. count[c] > 0 => /\ windowEnd[c] - Window \in 0..now
                      /\ Cardinality(since) = (IF count[c] <= Limit THEN count[c] ELSE Limit)
                      /\ Cardinality(before) <= Limit
  BY DEF WindowCounted, Start, PassedSince, PassedBefore
<1>8. count[c] = 0 => H = {} /\ windowEnd[c] = 0
  BY DEF WindowCounted
<1> HIDE DEF H, x, G
<1>9. /\ w - Window \in 0..now
      /\ Cardinality(since1) = (IF n <= Limit THEN n ELSE Limit)
      /\ Cardinality(before1) <= Limit
  <2>1. CASE now < windowEnd[c]
    <3>1. w = windowEnd[c] /\ n = count[c] + 1 /\ count[c] > 0
      BY <1>1, <1>8, <2>1 DEF Counted, WindowAfter
    <3>2. windowEnd[c] - Window \in 0..now
      BY <1>7, <3>1
    <3>3. before1 = before
      BY <1>1, <1>3, <3>1, <3>2 DEF G
    <3>4. CASE ok
      <4>0. x.ok /\ x.at >= windowEnd[c] - Window
        BY <1>1, <1>3, <3>2, <3>4
      <4>1. since1 = since \cup {x}
        <5>1. since1 = {h \in G : h.ok /\ h.at >= windowEnd[c] - Window}
          BY <3>1
        <5> HIDE DEF since1
        <5> QED  BY <4>0, <5>1 DEF G
      <4>2. IsFiniteSet(since) /\ x \notin since
        BY <1>3, <1>6 DEF G
      <4>3. Cardinality(since1) = Cardinality(since) + 1
        BY <4>1, <4>2, FS_AddElement
      <4> HIDE DEF since, since1, before, before1, w, n
      <4> QED  BY <1>1, <1>7, <3>1, <3>2, <3>3, <3>4, <4>3
    <3>5. CASE ~ ok
      <4>1. since1 = since
        BY <1>1, <1>3, <3>1, <3>5 DEF G
      <4> HIDE DEF since, since1, before, before1, w
      <4> QED  BY <1>1, <1>7, <3>1, <3>2, <3>3, <3>5, <4>1
    <3> QED  BY <3>4, <3>5
  <2>2. CASE ~ (now < windowEnd[c])
    <3>1. w = now + Window /\ n = 1
      BY <2>2 DEF Counted, WindowAfter
    <3>2. ok
      BY <1>1, <3>1
    <3>3. since1 = {x}
      <4>1. w - Window = now
        BY <1>1, <3>1
      <4>2. since1 = {h \in G : h.ok /\ h.at >= now}
        BY <4>1
      <4>3. \A h \in H : ~ (h.at >= now)
        BY <1>1, <1>2, <2>2
      <4>4. x.ok /\ x.at >= now
        BY <1>1, <1>3, <3>2
      <4> HIDE DEF since1
      <4> QED  BY <4>2, <4>3, <4>4 DEF G
    <3>4. Cardinality(since1) = 1
      BY <3>3, FS_Singleton
    <3>5. Cardinality(before1) <= Limit
      <4>1. CASE count[c] = 0
        <5>1. before1 = {}
          BY <1>1, <1>3, <1>8, <3>1, <4>1 DEF G
        <5>2. Cardinality(before1) = 0
          BY <5>1, FS_EmptySet
        <5> HIDE DEF before1
        <5> QED  BY <1>1, <5>2
      <4>2. CASE count[c] > 0
        <5>1. before1 \in SUBSET since
          BY <1>1, <1>2, <1>3, <2>2, <3>1 DEF G
        <5>2. since \in SUBSET G
          BY DEF G
        <5>3. IsFiniteSet(since) /\ Cardinality(since) \in Nat /\ Cardinality(before1) \in Nat
          BY <1>6, <5>2
        <5>4. Cardinality(before1) <= Cardinality(since)
          BY <5>1, <5>3, FS_Subset
        <5> HIDE DEF since, before1
        <5> QED  BY <1>1, <1>7, <4>2, <5>3, <5>4
      <4> QED  BY <1>1, <4>1, <4>2
    <3> HIDE DEF since1, before1, w, n
    <3> QED  BY <1>1, <3>1, <3>4, <3>5
  <2> QED  BY <2>1, <2>2
<1>10. WindowCounted(c)'
  <2>1. \A h \in G : h.at <= now /\ h.at < w
    <3>1. \A h \in H : h.at < w
      BY <1>1, <1>2, <1>5
    <3> HIDE DEF w
    <3> QED  BY <1>1, <1>2, <1>3, <1>5, <3>1 DEF G
  <2>2. PassedSince(c)' = since1 /\ PassedBefore(c)' = before1 /\ Start(c)' = w - Window
    BY <1>1, <1>4 DEF PassedSince, PassedBefore, Start
  <2> HIDE DEF since1, before1, w, n
  <2> QED  BY <1>1, <1>4, <1>5, <1>6, <1>9, <2>1, <2>2 DEF WindowCounted
<1>11. QuotaHeldBy(c)'
  <2> SUFFICES ASSUME NEW t \in 0..MaxTime
               PROVE  Cardinality({h \in G : h.ok /\ h.at \in t..t + Window - 1}) <= 2 * Limit
    BY <1>4 DEF QuotaHeldBy
  <2> DEFINE P == {h \in H : h.ok /\ h.at \in t..t + Window - 1}
             P1 == {h \in G : h.ok /\ h.at \in t..t + Window - 1}
  <2>0. t \in Nat
    BY ExchangeNumbers
  <2>1. CASE ok /\ now \in t..t + Window - 1
    <3>1. P1 \subseteq since1 \cup before1
      <4> SUFFICES ASSUME NEW h \in P1 PROVE h \in since1 \cup before1
        OBVIOUS
      <4>1. h \in G /\ h.ok /\ h.at \in t..t + Window - 1 /\ h.at \in Nat
        BY <1>1, <1>2, <1>3 DEF G
      <4>2. h.at > w - Window - Window
        BY <1>1, <1>5, <2>0, <2>1, <4>1
      <4> QED  BY <1>1, <1>5, <4>1, <4>2
    <3>2. since1 \in SUBSET G /\ before1 \in SUBSET G
      OBVIOUS
    <3>3. Cardinality(P1) \in Nat /\ Cardinality(P1) <= Cardinality(since1) + Cardinality(before1)
      <4> HIDE DEF since1, before1, P1
      <4> QED  BY <1>6, <3>1, <3>2, Covered
    <3>4. Cardinality(since1) \in Nat /\ Cardinality(before1) \in Nat
      BY <1>6, <3>2
    <3> HIDE DEF since1, before1, P1, w, n
    <3>5. Cardinality(since1) <= Limit
      BY <1>1, <1>5, <1>9
    <3> QED  BY <1>1, <1>9, <3>3, <3>4, <3>5 DEF P1
  <2>2. CASE ~ (ok /\ now \in t..t + Window - 1)
    <3>1. P1 = P
      BY <1>3, <2>2 DEF G
    <3> QED  BY <3>1 DEF QuotaHeldBy, H
  <2> QED  BY <2>1, <2>2
<1>12. QuotaFairBy(c)'
  <2> SUFFICES ASSUME NEW h \in G, ~ h.ok
               PROVE  Cardinality({k \in G : k.ok /\ k.at \in h.at - Window + 1..h.at}) >= Limit
    BY <1>4 DEF QuotaFairBy
  <2> DEFINE P == {k \in H : k.ok /\ k.at \in h.at - Window + 1..h.at}
             P1 == {k \in G : k.ok /\ k.at \in h.at - Window + 1..h.at}
  <2>1. P \in SUBSET P1 /\ P1 \in SUBSET G /\ P \in SUBSET G
    BY DEF G
  <2>2. /\ IsFiniteSet(P1) /\ Cardinality(P1) \in Nat /\ Cardinality(P) \in Nat
    BY <1>6, <2>1
  <2>3. CASE h \in H
    <3>1. Cardinality(P) >= Limit
      BY <2>3 DEF QuotaFairBy, H
    <3>2. Cardinality(P) <= Cardinality(P1)
      BY <2>1, <2>2, FS_Subset
    <3> HIDE DEF P, P1
    <3> QED  BY <1>1, <2>2, <3>1, <3>2 DEF P1
  <2>4. CASE h = x
    <3>1. ~ ok /\ h.at = now
      BY <1>3, <2>4
    <3>2. now < windowEnd[c] /\ n = count[c] + 1 /\ count[c] > 0
      BY <1>1, <1>8, <3>1 DEF Counted
    <3>3. since \in SUBSET P1
      <4> SUFFICES ASSUME NEW k \in since PROVE k \in P1
        OBVIOUS
      <4>1. k \in H /\ k.ok /\ k.at >= windowEnd[c] - Window /\ k.at \in Nat /\ k.at <= now
        BY <1>2
      <4>2. k.at \in h.at - Window + 1..h.at
        BY <1>1, <3>1, <3>2, <4>1
      <4> QED  BY <4>1, <4>2 DEF G
    <3>4. Cardinality(since) <= Cardinality(P1)
      BY <2>2, <3>3, FS_Subset
    <3>5. Cardinality(since) = Limit
      BY <1>1, <1>7, <3>1, <3>2
    <3> HIDE DEF since, P1
    <3> QED  BY <1>1, <2>2, <3>4, <3>5 DEF P1
  <2> QED  BY <2>3, <2>4 DEF G
<1> QED  BY <1>10, <1>11, <1>12

\* Every step of the handler (rate_limit.py, incr_with_window).
LEMMA QuotaStep ==
  ASSUME ExchangeIInv, NEW r \in Requests, NEW to, StepTo(r, to)
  PROVE  CountersRight'
<1>1. RevocationTypeOK /\ ExchangeTypeOK /\ RecordsMatch /\ CountersRight
  BY DEF ExchangeIInv, RevocationIInv
<1>2. now' = now
  BY DEF StepTo, rvars
<1>3. ASSUME NEW c \in Counters, UNCHANGED <<count[c], windowEnd[c], hits[c]>>
      PROVE  WindowCounted(c)' /\ QuotaHeldBy(c)' /\ QuotaFairBy(c)'
  <2>1. WindowCounted(c)'
    BY <1>1, <1>2, <1>3
    DEF CountersRight, WindowCounted, PassedSince, PassedBefore, Start
  <2> QED  BY <1>1, <1>3, <2>1 DEF CountersRight, QuotaHeldBy, QuotaFairBy
<1>4. CASE UNCHANGED <<count, windowEnd, hits>>
  BY <1>3, <1>4 DEF CountersRight
<1>5. ASSUME NEW k \in Counters, pc[r] = k, Increment(r, k)  PROVE CountersRight'
  <2>1. \A h \in hits[k] : h.req # r
    BY <1>1, <1>5 DEF RecordsMatch, BeforeCounter, Counters
  <2>2. \A c \in Counters \ {k} : UNCHANGED <<count[c], windowEnd[c], hits[c]>>
    BY <1>1, <1>5 DEF Increment, ExchangeTypeOK
  <2>3. WindowCounted(k)' /\ QuotaHeldBy(k)' /\ QuotaFairBy(k)'
    BY <1>1, <1>2, <1>5, <2>1, CounterStep DEF CountersRight
  <2> QED  BY <1>3, <2>2, <2>3 DEF CountersRight
<1> QED  BY <1>4, <1>5 DEF StepTo, Counts

-----------------------------------------------------------------------------
(***************************************************************************)
(* Revocations and Redis's clock under way                                 *)
(***************************************************************************)

\* An answered revocation stays what it was, and time goes on (revoke/handler.py).
LEMMA DoneStays ==
  ASSUME RevocationTypeOK, RevocationNext
  PROVE  /\ now' \in {now, now + 1}
         /\ \A v \in Revokes : rpc[v] = "done" =>
              /\ rpc'[v] = "done"
              /\ UNCHANGED <<rmember[v], rttl[v], addedAt[v]>>
              /\ v \in disturbed => v \in disturbed'
<1>1. CASE RevocationTick
  BY <1>1 DEF RevocationTick
<1>2. ASSUME NEW w \in Revokes, Revoke(w)
      PROVE  /\ now' = now
             /\ \A v \in Revokes : rpc[v] = "done" =>
                  /\ rpc'[v] = "done"
                  /\ UNCHANGED <<rmember[v], rttl[v], addedAt[v]>>
                  /\ v \in disturbed => v \in disturbed'
  <2> SUFFICES ASSUME NEW v \in Revokes, rpc[v] = "done"
               PROVE  /\ now' = now /\ rpc'[v] = "done"
                      /\ UNCHANGED <<rmember[v], rttl[v], addedAt[v]>>
                      /\ v \in disturbed => v \in disturbed'
    BY <1>2 DEF Revoke, Add, ReadTtl, SetExpire, Broadcast, RevokeError
  <2>1. Fail(w) /\ rpc[w] # "done" =>
          /\ rpc'[v] = "done" /\ UNCHANGED <<rmember[v], rttl[v], addedAt[v]>>
          /\ v \in disturbed => v \in disturbed'
    BY DEF Fail, RevocationTypeOK
  <2>2. ASSUME NEW m \in Members, NEW t \in Ttls, Add(w, m, t)
        PROVE  /\ now' = now /\ rpc'[v] = "done"
               /\ UNCHANGED <<rmember[v], rttl[v], addedAt[v]>>
               /\ v \in disturbed => v \in disturbed'
    BY <2>1, <2>2 DEF Add, RevocationTypeOK
  <2>3. CASE ReadTtl(w)
    BY <2>3 DEF ReadTtl, RevocationTypeOK
  <2>4. CASE SetExpire(w)
    BY <2>1, <2>4 DEF SetExpire, RevocationTypeOK
  <2>5. CASE Broadcast(w)
    BY <2>5 DEF Broadcast, RevocationTypeOK
  <2>6. CASE RevokeError(w)
    BY <2>1, <2>6 DEF RevokeError
  <2> QED  BY <1>2, <2>2, <2>3, <2>4, <2>5, <2>6 DEF Revoke
<1> QED  BY <1>1, <1>2 DEF RevocationNext

\* A revocation, and a second of the clock, leave what requests rely on.
LEMMA RevocationStep ==
  ASSUME ExchangeIInv, RevocationNext, UNCHANGED evars
  PROVE  ExchangeIInv'
<1> USE ExchangeNumbers
<1>1. /\ RevocationTypeOK /\ ExchangeTypeOK /\ ItemsMarked /\ TimesChecked
      /\ ReuseNeedsSlack /\ RevokedSeen /\ RecordsMatch /\ CountersRight
  BY DEF ExchangeIInv, RevocationIInv
<1>2. RevocationIInv' /\ RevocationTypeOK'
  <2>1. RevocationIInv'
    BY RevocationNextIInv DEF ExchangeIInv
  <2> QED  BY <2>1 DEF RevocationIInv
<1>3. now \in Nat /\ now' \in Nat /\ now <= now'
  BY <1>1, <1>2, DoneStays DEF RevocationTypeOK
<1>4. UNCHANGED <<pc, marker, count, windowEnd, trail, checkedAt, acceptedAt, reuses, hits,
                  answered>>
  BY DEF evars
<1>5. ExchangeTypeOK'
  BY <1>1, <1>2, <1>4 DEF ExchangeTypeOK
<1>6. ItemsMarked'
  <2> SUFFICES ASSUME NEW r \in Requests, NEW g \in Guards,
                      acceptedAt[ItemOf[r][g]] # Never
               PROVE  /\ acceptedAt[ItemOf[r][g]] <= now'
                      /\ marker[ItemOf[r][g]] >= acceptedAt[ItemOf[r][g]] + MarkerTtl[g]
    BY <1>4 DEF ItemsMarked
  <2>1. /\ acceptedAt[ItemOf[r][g]] \in Nat /\ acceptedAt[ItemOf[r][g]] <= now
        /\ marker[ItemOf[r][g]] >= acceptedAt[ItemOf[r][g]] + MarkerTtl[g]
    BY <1>1, Facts DEF ItemsMarked
  <2> QED  BY <1>3, <2>1
<1>7. TimesChecked'
  <2> SUFFICES ASSUME NEW r \in Requests
               PROVE  checkedAt[r] <= now'
    BY <1>1, <1>4 DEF TimesChecked
  <2>1. checkedAt[r] \in Nat /\ checkedAt[r] <= now
    BY <1>1, Facts DEF TimesChecked
  <2> QED  BY <1>3, <2>1
<1>8. ReuseNeedsSlack' /\ RecordsMatch'
  BY <1>1, <1>4 DEF ReuseNeedsSlack, RecordsMatch, Spent
<1>9. RevokedSeen'
  <2> SUFFICES ASSUME NEW r \in Requests, NEW v \in answered[r]
               PROVE  /\ rpc'[v] = "done"
                      /\ v \notin disturbed' /\ InForce(v)' =>
                           \A d \in LookedUp(pc[r]) : Identity[r][d] # rmember'[v]
    BY <1>4 DEF RevokedSeen
  <2>1. v \in Revokes /\ rpc[v] = "done"
    BY <1>1 DEF RevokedSeen, ExchangeTypeOK
  <2>2. /\ rpc'[v] = "done" /\ UNCHANGED <<rmember[v], rttl[v], addedAt[v]>>
        /\ v \in disturbed => v \in disturbed'
    BY <1>1, <2>1, DoneStays
  <2>3. rttl[v] \in Nat /\ addedAt[v] \in Int
    <3>1. rttl[v] \in Ttls \cup {0} /\ addedAt[v] \in 0..MaxTime \cup {Never}
      BY <1>1, <2>1 DEF RevocationTypeOK
    <3>2. rttl[v] \in Nat
      BY <3>1, RevocationAssumption
    <3>3. addedAt[v] \in Int
      BY <3>1 DEF Never
    <3> QED  BY <3>2, <3>3
  <2>4. InForce(v)' => InForce(v)
    BY <1>3, <2>2, <2>3 DEF InForce
  <2> QED  BY <1>1, <2>2, <2>4 DEF RevokedSeen
<1>10. CountersRight'
  <2> SUFFICES ASSUME NEW c \in Counters
               PROVE  WindowCounted(c)' /\ QuotaHeldBy(c)' /\ QuotaFairBy(c)'
    BY DEF CountersRight
  <2>1. \A h \in hits[c] : h.at <= now'
    <3>1. \A h \in hits[c] : h.at \in Nat /\ h.at <= now
      BY <1>1 DEF ExchangeTypeOK, Hit, CountersRight, WindowCounted
    <3> QED  BY <1>3, <3>1
  <2>2. Start(c)' = Start(c) /\ PassedSince(c)' = PassedSince(c)
        /\ PassedBefore(c)' = PassedBefore(c)
    BY <1>4 DEF Start, PassedSince, PassedBefore
  <2>3. Start(c) \in 0..now => Start(c) \in 0..now'
    BY <1>3
  <2>4. WindowCounted(c)'
    BY <1>1, <1>4, <2>1, <2>2, <2>3 DEF CountersRight, WindowCounted
  <2> QED  BY <1>1, <1>4, <2>4 DEF CountersRight, QuotaHeldBy, QuotaFairBy
<1> QED  BY <1>2, <1>5, <1>6, <1>7, <1>8, <1>9, <1>10 DEF ExchangeIInv

-----------------------------------------------------------------------------
(***************************************************************************)
(* The theorems                                                            *)
(***************************************************************************)

\* Nothing has been asked for and nothing counted (the IdP starts).
LEMMA ExchangeInitIInv == ExchangeInit => ExchangeIInv
<1> SUFFICES ASSUME ExchangeInit PROVE ExchangeIInv
  OBVIOUS
<1> USE ExchangeNumbers
<1>1. RevocationIInv /\ RevocationTypeOK /\ now = 0
  BY RevocationInitIInv DEF ExchangeInit, RevocationInit, RevocationIInv
<1>2. ExchangeTypeOK
  BY <1>1 DEF ExchangeInit, ExchangeTypeOK
<1>3. ItemsMarked
  BY DEF ExchangeInit, ItemsMarked
<1>4. TimesChecked
  BY <1>1 DEF ExchangeInit, TimesChecked, Guards
<1>5. ReuseNeedsSlack /\ RevokedSeen /\ RecordsMatch
  BY DEF ExchangeInit, ReuseNeedsSlack, RevokedSeen, RecordsMatch, Spent
<1>6. ASSUME NEW c \in Counters
      PROVE  WindowCounted(c) /\ QuotaHeldBy(c) /\ QuotaFairBy(c)
  <2>1. hits[c] = {} /\ count[c] = 0 /\ windowEnd[c] = 0
    BY DEF ExchangeInit
  <2>2. WindowCounted(c) /\ QuotaFairBy(c)
    BY <2>1, FS_EmptySet DEF WindowCounted, QuotaFairBy
  <2>3. QuotaHeldBy(c)
    <3>1. \A t \in 0..MaxTime : {h \in hits[c] : h.ok /\ h.at \in t..t + Window - 1} = {}
      BY <2>1
    <3>2. Cardinality({}) = 0 /\ 0 <= 2 * Limit
      BY FS_EmptySet
    <3> QED  BY <3>1, <3>2 DEF QuotaHeldBy
  <2> QED  BY <2>2, <2>3
<1> QED  BY <1>1, <1>2, <1>3, <1>4, <1>5, <1>6 DEF ExchangeIInv, CountersRight

\* Every step of a request, of a revocation and of the clock keeps the invariant.
LEMMA ExchangeNextIInv == ExchangeIInv /\ [ExchangeNext]_vars => ExchangeIInv'
<1> SUFFICES ASSUME ExchangeIInv, [ExchangeNext]_vars PROVE ExchangeIInv'
  OBVIOUS
<1>1. ASSUME NEW r \in Requests, Exchange(r) PROVE ExchangeIInv'
  <2>1. PICK to : StepTo(r, to)
    BY <1>1, HandlerSteps
  <2>2. RevocationIInv'
    <3>1. UNCHANGED rvars
      BY <2>1 DEF StepTo
    <3> QED  BY <3>1, RevocationNextIInv DEF ExchangeIInv
  <2> QED  BY <2>1, <2>2, ExchangeTypeStep, GuardStep, SeenStep, RecordStep, QuotaStep
           DEF ExchangeIInv
<1>2. CASE RevocationNext /\ UNCHANGED evars
  BY <1>2, RevocationStep
<1>3. CASE UNCHANGED vars
  <2>1. UNCHANGED rvars /\ UNCHANGED evars
    BY <1>3 DEF vars
  <2>2. RevocationIInv'
    BY <2>1, RevocationNextIInv DEF ExchangeIInv
  <2>3. /\ UNCHANGED <<pc, marker, count, windowEnd, trail, checkedAt, acceptedAt, reuses,
                        hits, answered>>
        /\ UNCHANGED <<now, rpc, rmember, rttl, addedAt, disturbed>>
    BY <2>1 DEF rvars, evars
  <2>4. ExchangeTypeOK'
    BY <2>2, <2>3 DEF ExchangeIInv, ExchangeTypeOK, RevocationIInv
  <2>5. ItemsMarked' /\ TimesChecked' /\ ReuseNeedsSlack' /\ RecordsMatch'
    BY <2>3 DEF ExchangeIInv, ItemsMarked, TimesChecked, ReuseNeedsSlack, RecordsMatch, Spent
  <2>6. RevokedSeen'
    BY <2>3 DEF ExchangeIInv, RevokedSeen, InForce
  <2>7. CountersRight'
    BY <2>3 DEF ExchangeIInv, CountersRight, WindowCounted, QuotaHeldBy, QuotaFairBy, Start,
                PassedSince, PassedBefore
  <2> QED  BY <2>2, <2>4, <2>5, <2>6, <2>7 DEF ExchangeIInv
<1> QED  BY <1>1, <1>2, <1>3 DEF ExchangeNext

\* The invariant holds of the handler and the revocations together (handler.py).
LEMMA ExchangeInvariant == ExchangeSpec => []ExchangeIInv
  BY ExchangeInitIInv, ExchangeNextIInv, PTL DEF ExchangeSpec

\* Requests, markers, counters and records keep to their types
\* (token_exchange/handler.py, storage/redis.py).
THEOREM ExchangeTypeCorrect == ExchangeSpec => []ExchangeTypeOK
<1>1. ExchangeIInv => ExchangeTypeOK
  BY DEF ExchangeIInv
<1> QED  BY <1>1, ExchangeInvariant, PTL

\* While tokens are exchanged an answered revocation stands for its time, too
\* (revoke/handler.py, sadd_member).
THEOREM RevocationStillHolds == ExchangeSpec => []RevocationStands
<1>1. ExchangeIInv => RevocationStands
  BY DEF ExchangeIInv, RevocationIInv, ExpiryEnough, RevocationStands
<1> QED  BY <1>1, ExchangeInvariant, PTL

\* An assertion or a proof is accepted again only after its marker, and if it goes stale
\* only with more slack than its marker leaves (handler.py, setnx_with_ttl).
THEOREM ReplaysNeedSlack == ExchangeSpec => []ReuseNeedsSlack
<1>1. ExchangeIInv => ReuseNeedsSlack
  BY DEF ExchangeIInv
<1> QED  BY <1>1, ExchangeInvariant, PTL

\* Whom an answered revocation names gets no token from a request that arrives later
\* (handler.py, the three look-ups).
THEOREM RevokedNeverServed == ExchangeSpec => []RevokedGetsNoToken
<1>1. ExchangeIInv => RevokedGetsNoToken
  <2> SUFFICES ASSUME ExchangeIInv, NEW r \in Requests, pc[r] = "issued",
                      NEW v \in answered[r] \ disturbed, InForce(v)
               PROVE  \A d \in Dimensions : Identity[r][d] # rmember[v]
    BY DEF RevokedGetsNoToken
  <2>1. LookedUp(pc[r]) = Dimensions
    BY DEF LookedUp
  <2> QED  BY <2>1 DEF ExchangeIInv, RevokedSeen
<1> QED  BY <1>1, ExchangeInvariant, PTL

\* The two call counters let no more than twice the limit pass in any window's length, and
\* refuse nobody before the limit has passed (rate_limit.py, incr_with_window).
THEOREM QuotasAlwaysHold == ExchangeSpec => []QuotasHold
<1>1. ExchangeIInv => QuotasHold
  BY DEF ExchangeIInv, QuotasHold, QuotaHeld, QuotaFair, CountersRight, QuotaHeldBy, QuotaFairBy
<1> QED  BY <1>1, ExchangeInvariant, PTL

\* Who spent some of a quota and was answered has left the record of that answer
\* (handler.py, audit).
THEOREM SpendingIsRecorded == ExchangeSpec => []SpentLeavesRecord
<1>1. ExchangeIInv => SpentLeavesRecord
  <2> SUFFICES ASSUME ExchangeIInv, NEW r \in Requests, NEW c \in Counters,
                      NEW h \in hits[c], h.req = r
               PROVE  /\ <<"issue", r>> \in trail <=> pc[r] = "issued"
                      /\ <<"deny", r>> \in trail <=> pc[r] = "refused"
    BY DEF SpentLeavesRecord
  <2>1. Spent(r)
    BY DEF Spent
  <2> QED  BY <2>1 DEF ExchangeIInv, RecordsMatch
<1> QED  BY <1>1, ExchangeInvariant, PTL
===============================================================================
