--------------------------- MODULE IdpParts_proofs ---------------------------
(***************************************************************************)
(* Proofs about the parts of the IdP beside the token exchange: its        *)
(* signing keys and the caches that verify with them, signing in, the      *)
(* agents' keys, and what it takes from files.  For all numbers of         *)
(* rotations, requests, agents and users, all lives of keys and tokens.    *)
(***************************************************************************)
EXTENDS MCIdpParts, SequenceTheorems, FiniteSetTheorems, TLAPS

-----------------------------------------------------------------------------
(***************************************************************************)
(* The signing keys                                                        *)
(***************************************************************************)

\* The parts of the type invariant.
StoreTypeOK ==
  /\ idp \in {"up", "down"} /\ torn \in BOOLEAN
  /\ meta \in [active : Kids \cup {NoKid}, previous : Kids \cup {NoKid}]
  /\ keyFiles \in [Kids -> 0..MaxCrashes + 1]
  /\ rows \in [Kids -> {"none", "active", "previous"}]
  /\ jwks \in [keys : Docs, at : Times]
  /\ rotation \in [Rotations -> [pc : {"idle", "active", "previous", "done", "failed"},
                                 new : Kids \cup {NoKid}, old : Kids \cup {NoKid}]]
  /\ activeFrom \in [Kids -> Times] /\ failedAt \in Times
  /\ minute \in 0..MaxMinutes /\ crashes \in 0..MaxCrashes

GatewayTyped(g) ==
  /\ g \in [pc : {"idle", "stale", "missed", "refused"}, kid : Kids \cup {NoKid},
            doc : Docs, age : 0..Latency, keys : Seq(Kids), fetchedAt : Times,
            fetched : BOOLEAN, excused : BOOLEAN]
  /\ Len(g.keys) <= MaxKids /\ IsInjective(g.keys)

AgentTypeOK ==
  /\ verify \in [Verifies -> [pc : {"idle", "fetch", "refused"}, kid : Kids \cup {NoKid},
                              doc : Docs, age : 0..Latency]]
  /\ held \in [Kids \cup {Document} -> Times]

UnderWay(r) == rotation[r].pc \in {"active", "previous"}

\* The key store: what meta.json names has a file, and versions only grow.
StoreInv ==
  /\ NamedKeysExist
  /\ meta.previous = IF meta.active = NoKid THEN NoKid ELSE meta.active - 1
  /\ idp = "up" => meta.active # NoKid
  /\ idp = "down" => jwks.keys = <<>> /\ \A r \in Rotations : ~UnderWay(r)
  /\ \A k \in Kids : k > meta.active => activeFrom[k] = Unset
  /\ \A k \in Kids : activeFrom[k] <= minute
  /\ \A k \in Kids : keyFiles[k] <= IF k <= meta.active THEN crashes + 1 ELSE crashes

\* Table jwks_rotation, while no rotation has failed: a key that is no longer
\* active keeps its row until the rotation that replaced it comes to it.
Replaces(r, k) == rotation[r].pc = "active" /\ rotation[r].old = k

RowsInv ==
  /\ \A r \in Rotations : rotation[r].pc = "active" =>
       rotation[r].old \in Kids /\ rotation[r].old < meta.active
  /\ (\A r \in Rotations : rotation[r].pc # "failed") =>
       /\ \A k \in Kids \ {1} :
            rows[k] = "active" <=> k = meta.active \/ \E r \in Rotations : Replaces(r, k)
       /\ \A q, r \in Rotations, k \in Kids : Replaces(q, k) /\ Replaces(r, k) => q = r

\* The IdP's document: a key that is named and not in it is newer than it, and
\* a rotation is hanging.
DocumentInv ==
  /\ jwks.at <= minute /\ failedAt <= minute
  /\ jwks.keys # <<>> =>
       \A k \in Kids : Listed(k) /\ k \notin ToSet(jwks.keys) =>
         /\ activeFrom[k] >= jwks.at
         /\ jwks.at <= failedAt \/ \E r \in Rotations : UnderWay(r)

GatewayInv ==
  /\ gateway.pc # "idle" => gateway.kid \in Kids
  /\ gateway.doc # <<>> =>
       /\ gateway.pc \in {"stale", "missed"}
       /\ gateway.excused \/ gateway.kid \in ToSet(gateway.doc)
  /\ RefusalExplained

\* An agent's document, on its way and in the cache: a key that is named and
\* not in it became active later than JwksTtl before it was served.
AgentInv ==
  /\ held[Document] <= minute
  /\ \A k \in Kids : Listed(k) /\ activeFrom[k] <= held[Document] - Latency - JwksTtl =>
       held[k] >= held[Document]
  /\ \A v \in Verifies :
       /\ verify[v].pc # "idle" => verify[v].kid \in 1..meta.active
       /\ verify[v].doc # <<>> =>
            /\ verify[v].pc = "fetch"
            /\ \A k \in Kids : Listed(k) /\ activeFrom[k] <= minute - verify[v].age - JwksTtl =>
                 k \in ToSet(verify[v].doc)
  /\ AgentCatchesUp

KeysInv ==
  /\ StoreTypeOK /\ GatewayTyped(gateway) /\ AgentTypeOK
  /\ StoreInv /\ RowsInv /\ DocumentInv /\ GatewayInv /\ AgentInv

\* OrderedDict without one of its keys: order and last key stay.
LEMMA WithoutList ==
  ASSUME NEW keys \in Seq(Kids), IsInjective(keys), NEW k \in Kids
  PROVE  /\ Without(keys, k) \in Seq(Kids)
         /\ IsInjective(Without(keys, k))
         /\ \A i \in DOMAIN Without(keys, k) : Without(keys, k)[i] # k
         /\ Len(Without(keys, k)) = IF k \in ToSet(keys) THEN Len(keys) - 1 ELSE Len(keys)
         /\ Len(keys) > 0 /\ keys[Len(keys)] # k =>
              /\ Len(Without(keys, k)) > 0
              /\ Without(keys, k)[Len(Without(keys, k))] = keys[Len(keys)]
<1>1. CASE k \notin ToSet(keys)
  BY <1>1 DEF Without, ToSet
<1>2. CASE k \in ToSet(keys)
  <2> DEFINE i == CHOOSE j \in DOMAIN keys : keys[j] = k
             w == RemoveAt(keys, i)
  <2>1. i \in 1..Len(keys) /\ keys[i] = k
    BY <1>2 DEF ToSet
  <2> HIDE DEF i
  <2>2. /\ w \in Seq(Kids) /\ Len(w) = Len(keys) - 1
        /\ \A j \in 1..Len(keys) - 1 : w[j] = IF j < i THEN keys[j] ELSE keys[j + 1]
    <3> DEFINE a == SubSeq(keys, 1, i - 1)
               b == SubSeq(keys, i + 1, Len(keys))
    <3>1. a \in Seq(Kids) /\ Len(a) = i - 1 /\ \A j \in 1..i - 1 : a[j] = keys[j]
      BY <2>1
    <3>2. b \in Seq(Kids) /\ Len(b) = Len(keys) - i /\ \A j \in 1..Len(keys) - i : b[j] = keys[i + j]
      BY <2>1
    <3>3. w = a \o b
      BY DEF RemoveAt
    <3> HIDE DEF a, b, w
    <3>4. w \in Seq(Kids) /\ Len(w) = Len(keys) - 1
      BY <2>1, <3>1, <3>2, <3>3
    <3>5. ASSUME NEW j \in 1..Len(keys) - 1
          PROVE  w[j] = IF j < i THEN keys[j] ELSE keys[j + 1]
      <4>1. CASE j < i
        BY <2>1, <3>1, <3>2, <3>3, <4>1
      <4>2. CASE j >= i
        <5>1. w[j] = b[j - (i - 1)]
          BY <2>1, <3>1, <3>2, <3>3, <4>2
        <5> QED  BY <2>1, <3>2, <4>2, <5>1
      <4> QED  BY <2>1, <4>1, <4>2
    <3> QED  BY <3>4, <3>5
  <2>3. Without(keys, k) = w
    BY <1>2 DEF Without, i
  <2> HIDE DEF w
  <2>4. Len(keys) \in Nat /\ DOMAIN keys = 1..Len(keys) /\ DOMAIN w = 1..Len(keys) - 1
    BY <2>2
  <2>5. \A j \in 1..Len(keys) : keys[j] = k => j = i
    BY <2>1, <2>4 DEF IsInjective
  <2>6. ASSUME NEW p \in DOMAIN w, NEW q \in DOMAIN w, w[p] = w[q] PROVE p = q
    <3> DEFINE at(j) == IF j < i THEN j ELSE j + 1
    <3>1. at(p) \in DOMAIN keys /\ at(q) \in DOMAIN keys
      BY <2>1, <2>4
    <3>2. w[p] = keys[at(p)] /\ w[q] = keys[at(q)]
      BY <2>2, <2>4
    <3>3. at(p) = at(q)
      BY <2>6, <3>1, <3>2 DEF IsInjective
    <3> QED  BY <2>1, <2>4, <3>3
  <2>7. \A j \in DOMAIN w : w[j] # k
    BY <2>1, <2>2, <2>4, <2>5
  <2>8. Len(keys) > 0 /\ keys[Len(keys)] # k => Len(w) > 0 /\ w[Len(w)] = keys[Len(keys)]
    BY <2>1, <2>2, <2>4
  <2> QED  BY <1>2, <2>2, <2>3, <2>6, <2>7, <2>8 DEF IsInjective
<1> QED  BY <1>1, <1>2

\* move_to_end, of a key that is there or is new (jwks_cache.py:70).
LEMMA TouchList ==
  ASSUME NEW keys \in Seq(Kids), IsInjective(keys), NEW k \in Kids
  PROVE  /\ Touch(keys, k) \in Seq(Kids)
         /\ IsInjective(Touch(keys, k))
         /\ Len(Touch(keys, k)) = IF k \in ToSet(keys) THEN Len(keys) ELSE Len(keys) + 1
         /\ Len(Touch(keys, k)) > 0 /\ Touch(keys, k)[Len(Touch(keys, k))] = k
         /\ Len(keys) > 0 /\ keys[Len(keys)] # k =>
              /\ Len(Touch(keys, k)) > 1
              /\ Touch(keys, k)[Len(Touch(keys, k)) - 1] = keys[Len(keys)]
<1> DEFINE w == Without(keys, k)
<1>1. /\ w \in Seq(Kids) /\ IsInjective(w)
      /\ \A i \in DOMAIN w : w[i] # k
      /\ Len(w) = IF k \in ToSet(keys) THEN Len(keys) - 1 ELSE Len(keys)
      /\ Len(keys) > 0 /\ keys[Len(keys)] # k => Len(w) > 0 /\ w[Len(w)] = keys[Len(keys)]
  BY WithoutList
<1>2. Touch(keys, k) = Append(w, k)
  BY DEF Touch
<1> HIDE DEF w
<1>3. /\ Append(w, k) \in Seq(Kids) /\ Len(Append(w, k)) = Len(w) + 1
      /\ Append(w, k)[Len(w) + 1] = k
      /\ DOMAIN w = 1..Len(w) /\ DOMAIN Append(w, k) = 1..Len(w) + 1
      /\ \A i \in 1..Len(w) : Append(w, k)[i] = w[i]
      /\ Len(w) \in Nat /\ Len(keys) \in Nat
  BY <1>1
<1>4. IsInjective(Append(w, k))
  BY <1>1, <1>3 DEF IsInjective
<1> QED  BY <1>1, <1>2, <1>3, <1>4

\* popitem drops the oldest, down to _MAX_KIDS (jwks_cache.py:73).
LEMMA NewestList ==
  ASSUME NEW keys \in Seq(Kids), IsInjective(keys)
  PROVE  /\ Newest(keys) \in Seq(Kids) /\ IsInjective(Newest(keys))
         /\ Len(Newest(keys)) <= MaxKids
         /\ \A i \in DOMAIN keys : i > Len(keys) - MaxKids => keys[i] \in ToSet(Newest(keys))
<1> USE KeysAssumption
<1>1. Len(keys) \in Nat /\ DOMAIN keys = 1..Len(keys) /\ MaxKids \in Nat
  OBVIOUS
<1>2. CASE Len(keys) <= MaxKids
  <2>1. Newest(keys) = keys
    BY <1>1, <1>2 DEF Newest
  <2>2. \A i \in DOMAIN keys : keys[i] \in ToSet(keys)
    BY DEF ToSet
  <2> QED  BY <1>2, <2>1, <2>2
<1>3. CASE Len(keys) > MaxKids
  <2> DEFINE d == Len(keys) - MaxKids
             s == SubSeq(keys, d + 1, Len(keys))
  <2>1. d \in Nat /\ Newest(keys) = s
    <3>1. d \in Nat
      BY <1>1, <1>3
    <3>2. Len(keys) > MaxKids => Newest(keys) = s
      BY DEF Newest
    <3> QED  BY <1>3, <3>1, <3>2
  <2>2. /\ s \in Seq(Kids) /\ Len(s) = MaxKids /\ DOMAIN s = 1..MaxKids
        /\ \A j \in 1..MaxKids : s[j] = keys[d + j]
    BY <1>1, <1>3, <2>1
  <2> HIDE DEF s
  <2>3. IsInjective(s)
    <3> SUFFICES ASSUME NEW p \in DOMAIN s, NEW q \in DOMAIN s, s[p] = s[q] PROVE p = q
      BY DEF IsInjective
    <3>1. d + p \in DOMAIN keys /\ d + q \in DOMAIN keys /\ keys[d + p] = keys[d + q]
      BY SMTT(30), <1>1, <1>3, <2>1, <2>2
    <3>2. d + p = d + q
      BY <3>1 DEF IsInjective
    <3> QED  BY <2>1, <2>2, <3>2
  <2>4. ASSUME NEW i \in DOMAIN keys, i > d PROVE keys[i] \in ToSet(s)
    <3>1. i - d \in 1..MaxKids /\ s[i - d] = keys[i]
      BY <1>1, <1>3, <2>1, <2>2, <2>4
    <3> QED  BY <2>2, <3>1 DEF ToSet
  <2> QED  BY <1>1, <2>1, <2>2, <2>3, <2>4
<1> QED  BY <1>1, <1>2, <1>3

\* /jwks names the active key and the previous one.
LEMMA DocsAreShort ==
  ASSUME NEW doc \in Docs
  PROVE  /\ doc \in Seq(Kids) /\ Len(doc) \in 0..2 /\ ToSet(doc) \subseteq Kids
         /\ doc # <<>> => Len(doc) \in {1, 2}
<1>1. PICK n \in 0..2 : doc \in [1..n -> Kids]
  BY DEF Docs
<1>2. doc \in Seq(Kids) /\ Len(doc) = n
  BY <1>1
<1>3. ToSet(doc) \subseteq Kids
  BY <1>1 DEF ToSet
<1>4. n = 0 => doc = <<>>
  BY <1>2
<1> QED  BY <1>1, <1>2, <1>3, <1>4

\* What _refresh_unlocked merges survives the eviction that follows it, since a
\* document has no more keys than the cache (jwks_cache.py:69-74).
LEMMA MergedList ==
  ASSUME NEW keys \in Seq(Kids), IsInjective(keys), NEW doc \in Docs, doc # <<>>
  PROVE  /\ Newest(Merged(keys, doc)) \in Seq(Kids)
         /\ IsInjective(Newest(Merged(keys, doc)))
         /\ Len(Newest(Merged(keys, doc))) <= MaxKids
         /\ ToSet(doc) \subseteq ToSet(Newest(Merged(keys, doc)))
<1> DEFINE m == Merged(keys, doc)
<1>0. doc \in Seq(Kids) /\ Len(doc) \in {1, 2}
  BY DocsAreShort
<1>1. /\ m \in Seq(Kids) /\ IsInjective(m)
      /\ \A k \in ToSet(doc) : \E i \in DOMAIN m : i > Len(m) - 2 /\ m[i] = k
  <2>1. CASE Len(doc) = 1
    <3>1. m = Touch(keys, doc[1]) /\ doc[1] \in Kids /\ ToSet(doc) = {doc[1]}
      BY <1>0, <2>1 DEF Merged, ToSet
    <3> HIDE DEF m
    <3>2. m \in Seq(Kids) /\ IsInjective(m) /\ Len(m) > 0 /\ m[Len(m)] = doc[1]
      BY ZenonT(30), <3>1, TouchList
    <3> QED  BY <3>1, <3>2
  <2>2. CASE Len(doc) = 2
    <3> DEFINE n == Touch(keys, doc[1])
    <3>1. /\ m = Touch(n, doc[2]) /\ doc[1] \in Kids /\ doc[2] \in Kids
          /\ ToSet(doc) = {doc[1], doc[2]}
      <4>1. DOMAIN doc = {1, 2}
        BY <1>0, <2>2
      <4>2. doc[1] \in Kids /\ doc[2] \in Kids
        <5>1. ToSet(doc) \subseteq Kids
          BY DocsAreShort
        <5> QED  BY <4>1, <5>1 DEF ToSet
      <4>3. ToSet(doc) = {doc[1], doc[2]}
        BY <4>1 DEF ToSet
      <4>4. m = Touch(n, doc[2])
        BY <2>2 DEF Merged
      <4> QED  BY <4>2, <4>3, <4>4
    <3>2. n \in Seq(Kids) /\ IsInjective(n) /\ Len(n) > 0 /\ n[Len(n)] = doc[1]
      BY <3>1, TouchList
    <3> HIDE DEF m, n
    <3>3. /\ m \in Seq(Kids) /\ IsInjective(m) /\ Len(m) > 0 /\ m[Len(m)] = doc[2]
          /\ Len(n) > 0 /\ n[Len(n)] # doc[2] => Len(m) > 1 /\ m[Len(m) - 1] = n[Len(n)]
      <4>1. /\ Touch(n, doc[2]) \in Seq(Kids) /\ IsInjective(Touch(n, doc[2]))
            /\ Len(Touch(n, doc[2])) > 0
            /\ Touch(n, doc[2])[Len(Touch(n, doc[2]))] = doc[2]
            /\ Len(n) > 0 /\ n[Len(n)] # doc[2] =>
                 /\ Len(Touch(n, doc[2])) > 1
                 /\ Touch(n, doc[2])[Len(Touch(n, doc[2])) - 1] = n[Len(n)]
        BY <3>1, <3>2, TouchList
      <4> QED  BY <3>1, <4>1
    <3>4. Len(m) \in Nat /\ DOMAIN m = 1..Len(m)
      BY <3>3
    <3>5. ASSUME NEW k \in ToSet(doc) PROVE \E i \in DOMAIN m : i > Len(m) - 2 /\ m[i] = k
      <4>1. CASE k = doc[2]
        BY <3>3, <3>4, <4>1
      <4>2. CASE k = doc[1] /\ doc[1] # doc[2]
        <5>1. Len(m) - 1 \in DOMAIN m /\ m[Len(m) - 1] = k
          BY <3>2, <3>3, <3>4, <4>2
        <5> QED  BY <3>4, <5>1
      <4> QED  BY <3>1, <4>1, <4>2
    <3> QED  BY <3>3, <3>5
  <2> QED  BY <1>0, <2>1, <2>2
<1> HIDE DEF m
<1>2. /\ Newest(m) \in Seq(Kids) /\ IsInjective(Newest(m)) /\ Len(Newest(m)) <= MaxKids
      /\ \A i \in DOMAIN m : i > Len(m) - MaxKids => m[i] \in ToSet(Newest(m))
  BY <1>1, NewestList
<1>3. ToSet(doc) \subseteq ToSet(Newest(m))
  <2> SUFFICES ASSUME NEW k \in ToSet(doc) PROVE k \in ToSet(Newest(m))
    OBVIOUS
  <2>1. PICK i \in DOMAIN m : i > Len(m) - 2 /\ m[i] = k
    BY <1>1
  <2>2. i > Len(m) - MaxKids
    BY <1>1, <2>1, KeysAssumption
  <2> QED  BY <1>2, <2>1, <2>2
<1> QED  BY <1>2, <1>3 DEF m

\* The type invariant is that of the store and of the two caches.
LEMMA KeysTypeParts ==
  KeysTypeOK <=> StoreTypeOK /\ GatewayTyped(gateway) /\ AgentTypeOK
  BY DEF KeysTypeOK, StoreTypeOK, GatewayTyped, AgentTypeOK

\* Unset is older than any life (jwks_cache.py _fetched_at = 0.0).
LEMMA TimesFacts ==
  /\ Unset \in Int /\ Times \subseteq Int /\ Unset \in Times /\ 0..MaxMinutes \subseteq Times
  /\ JwksTtl \in Nat /\ TokenTtl \in Nat /\ GatewayTtl \in Nat /\ AgentTtl \in Nat
  /\ MaxMinutes \in Nat /\ MaxCrashes \in Nat /\ MaxVersion \in Nat
  /\ JwksTtl > 0 /\ AgentTtl > 0 /\ MaxVersion > 0
  /\ -Unset >= AgentTtl /\ -Unset >= JwksTtl /\ \A t \in Times : t >= Unset
  BY KeysAssumption DEF Times, Unset

\* Documents of no, one and two keys.
LEMMA SmallDocs ==
  /\ <<>> \in Docs
  /\ \A k \in Kids : <<k>> \in Docs /\ \A l \in Kids : <<k, l>> \in Docs
<1>1. [1..0 -> Kids] \subseteq Docs /\ [1..1 -> Kids] \subseteq Docs /\ [1..2 -> Kids] \subseteq Docs
  BY DEF Docs
<1>2. <<>> \in [1..0 -> Kids]
  OBVIOUS
<1>3. \A k \in Kids : <<k>> \in [1..1 -> Kids]
  OBVIOUS
<1>4. \A k, l \in Kids : <<k, l>> \in [1..2 -> Kids]
  OBVIOUS
<1> QED  BY <1>1, <1>2, <1>3, <1>4

\* ... and how get_all_public_keys puts them together.
LEMMA SmallConcat ==
  /\ <<>> \o <<>> = <<>>
  /\ \A k \in Kids : <<k>> \o <<>> = <<k>> /\ <<>> \o <<k>> = <<k>>
  /\ \A k, l \in Kids : <<k>> \o <<l>> = <<k, l>>
<1>1. \A k \in Kids : <<k>> \in Seq(Kids)
  OBVIOUS
<1>2. <<>> \in Seq(Kids)
  OBVIOUS
<1>3. ASSUME NEW k \in Kids, NEW l \in Kids PROVE <<k>> \o <<l>> = <<k, l>>
  <2>1. /\ <<k>> \o <<l>> \in Seq(Kids) /\ Len(<<k>> \o <<l>>) = 2
        /\ (<<k>> \o <<l>>)[1] = k /\ (<<k>> \o <<l>>)[2] = l
    OBVIOUS
  <2>2. <<k, l>> \in Seq(Kids) /\ Len(<<k, l>>) = 2 /\ <<k, l>>[1] = k /\ <<k, l>>[2] = l
    OBVIOUS
  <2> DEFINE s == <<k>> \o <<l>>  u == <<k, l>>
  <2>3. s \in Seq(Kids) /\ u \in Seq(Kids) /\ Len(s) = Len(u)
    BY <2>1, <2>2
  <2>4. \A i \in 1..Len(s) : s[i] = u[i]
    BY <2>1, <2>2
  <2> HIDE DEF s, u
  <2>5. s = u
    BY <2>3, <2>4, SeqEqual
  <2> QED  BY <2>5 DEF s, u
<1> QED  BY <1>1, <1>2, <1>3, ConcatEmptySeq

\* The document that is made when none is cached.
LEMMA PublicDocument ==
  ASSUME StoreTypeOK
  PROVE  /\ PublicKeys \in Docs
         /\ \A k \in Kids : k \in ToSet(PublicKeys) <=> Listed(k) /\ keyFiles[k] > 0
<1> DEFINE a == meta.active  p == meta.previous
<1>0. a \in Kids \cup {NoKid} /\ p \in Kids \cup {NoKid}
  BY DEF StoreTypeOK
<1> HIDE DEF a, p
<1>1. \A k \in Kids : k \in Nat /\ k # NoKid
  BY DEF Kids, NoKid
<1>2. PublicKeys = (IF a # NoKid /\ keyFiles[a] > 0 THEN <<a>> ELSE <<>>)
                     \o (IF p # NoKid /\ keyFiles[p] > 0 THEN <<p>> ELSE <<>>)
  BY DEF PublicKeys, Present, a, p
<1>3. \A k : Listed(k) <=> k = a \/ k = p
  BY DEF Listed, a, p
<1>4. \A k \in Kids : ToSet(<<k>>) = {k} /\ \A l \in Kids : ToSet(<<k, l>>) = {k, l}
  BY DEF ToSet
<1>5. ToSet(<<>>) = {}
  BY DEF ToSet
<1>6. CASE a # NoKid /\ keyFiles[a] > 0 /\ p # NoKid /\ keyFiles[p] > 0
  <2>1. PublicKeys = <<a, p>> /\ a \in Kids /\ p \in Kids
    BY <1>0, <1>2, <1>6, SmallConcat
  <2>2. ToSet(PublicKeys) = {a, p} /\ PublicKeys \in Docs
    BY <1>4, <2>1, SmallDocs
  <2> QED  BY <1>1, <1>3, <1>6, <2>2
<1>7. CASE a # NoKid /\ keyFiles[a] > 0 /\ ~(p # NoKid /\ keyFiles[p] > 0)
  <2>1. PublicKeys = <<a>> /\ a \in Kids
    BY <1>0, <1>2, <1>7, SmallConcat
  <2> QED  BY <1>0, <1>1, <1>3, <1>4, <1>7, <2>1, SmallDocs
<1>8. CASE ~(a # NoKid /\ keyFiles[a] > 0) /\ p # NoKid /\ keyFiles[p] > 0
  <2>1. PublicKeys = <<p>> /\ p \in Kids
    BY <1>0, <1>2, <1>8, SmallConcat
  <2> QED  BY <1>0, <1>1, <1>3, <1>4, <1>8, <2>1, SmallDocs
<1>9. CASE ~(a # NoKid /\ keyFiles[a] > 0) /\ ~(p # NoKid /\ keyFiles[p] > 0)
  <2>1. PublicKeys = <<>>
    BY <1>2, <1>9, SmallConcat
  <2> QED  BY <1>1, <1>3, <1>5, <1>9, <2>1, SmallDocs
<1> QED  BY <1>6, <1>7, <1>8, <1>9

CacheStep == GatewayKeysNext \/ AgentKeysNext

\* The caches change nothing of the IdP but its document.
LEMMA CachesOnly ==
  ASSUME CacheStep
  PROVE  /\ UNCHANGED <<storeVars, rows, rotation, minute, crashes, failedAt>>
         /\ UNCHANGED jwks \/ Serve
  BY DEF CacheStep, GatewayKeysNext, AgentKeysNext, GatewayGet, ServeGateway, GatewayRefreshed,
         GatewayFetchFails, GatewayRefuses, Verify, ServeAgent, AgentLoaded, AgentRefuses,
         gatewayOnly, agentOnly

\* What is a number in the store (kms/store.py, jwks/cache.py).
LEMMA Numbers ==
  ASSUME StoreTypeOK
  PROVE  /\ NoKid = 0 /\ meta.active \in Nat /\ meta.previous \in Nat
         /\ crashes \in Nat /\ minute \in Nat /\ failedAt \in Int /\ jwks.at \in Int
         /\ \A k \in Kids : k \in Nat /\ k > 0 /\ keyFiles[k] \in Nat /\ activeFrom[k] \in Int
<1>1. NoKid = 0 /\ \A k \in Kids : k \in Nat /\ k > 0
  BY DEF Kids, NoKid
<1>2. meta.active \in Kids \cup {NoKid} /\ meta.previous \in Kids \cup {NoKid}
  BY DEF StoreTypeOK
<1>3. crashes \in Nat /\ minute \in Nat
  BY DEF StoreTypeOK
<1>4. failedAt \in Times /\ jwks.at \in Times /\ \A k \in Kids : activeFrom[k] \in Times
  BY DEF StoreTypeOK
<1>5. \A k \in Kids : keyFiles[k] \in Nat
  BY DEF StoreTypeOK
<1>6. Times \subseteq Int
  BY TimesFacts
<1>7. failedAt \in Int /\ jwks.at \in Int /\ \A k \in Kids : activeFrom[k] \in Int
  BY <1>4, <1>6
<1>8. meta.active \in Nat /\ meta.previous \in Nat
  BY <1>1, <1>2
<1> QED  BY <1>1, <1>3, <1>5, <1>7, <1>8

\* A key gets a file and a place in meta.json.
LEMMA KeyWritten ==
  ASSUME KeysInv, NEW k \in Kids, WriteKey(k), k > meta.active \/ crashes' = crashes + 1,
         crashes' \in 0..MaxCrashes
  PROVE  /\ keyFiles' \in [Kids -> 0..MaxCrashes + 1]
         /\ \A l \in Kids \ {k} : keyFiles'[l] = keyFiles[l]
         /\ keyFiles'[k] > 0 /\ keyFiles'[k] = keyFiles[k] + 1
<1>1. keyFiles[k] \in Nat /\ crashes \in Nat /\ keyFiles[k] <= crashes + 1
      /\ (k > meta.active => keyFiles[k] <= crashes)
  BY TimesFacts DEF KeysInv, StoreInv, StoreTypeOK, Kids, NoKid
<1> QED  BY <1>1, TimesFacts DEF KeysInv, StoreTypeOK, WriteKey

\* _save_meta names the new key and the one before (kms/store.py).
LEMMA MetaSaved ==
  ASSUME KeysInv, NEW k \in Kids, NEW p \in Kids \cup {NoKid}, SaveMeta(k, p)
  PROVE  /\ meta' \in [active : Kids \cup {NoKid}, previous : Kids \cup {NoKid}]
         /\ meta'.active = k /\ meta'.previous = p
         /\ activeFrom' \in [Kids -> Times] /\ activeFrom'[k] = minute
         /\ \A l \in Kids \ {k} : activeFrom'[l] = activeFrom[l]
  BY TimesFacts DEF KeysInv, StoreTypeOK, SaveMeta

\* Every step keeps the store to its types (kms/store.py, kms/rotator.py).
LEMMA StoreTypeStep ==
  ASSUME KeysInv, [KeysNext]_KeysVars
  PROVE  StoreTypeOK'
<1> DEFINE Goal == StoreTypeOK'
<1> USE DEF KeysInv
<1> USE TimesFacts DEF StoreTypeOK
<1>1. CASE StartIdp
  <2>1. CASE meta.active = NoKid
    <3>1. WriteKey(1) /\ SaveMeta(1, NoKid) /\ 1 \in Kids /\ 1 > meta.active
      BY <1>1, <2>1 DEF StartIdp, FirstKey, Kids, NoKid
    <3>2. crashes' = crashes /\ crashes' \in 0..MaxCrashes
      BY <1>1 DEF StartIdp
    <3> QED  BY <1>1, <3>1, <3>2, KeyWritten, MetaSaved DEF StartIdp
  <2>2. CASE meta.active # NoKid
    BY <1>1, <2>2 DEF StartIdp, LoadActive
  <2> QED  BY <2>1, <2>2
<1>2. CASE Crash
  <2>0. crashes' = crashes + 1 /\ crashes' \in 0..MaxCrashes
    BY <1>2 DEF Crash
  <2>1. keyFiles' \in [Kids -> 0..MaxCrashes + 1] /\ torn' \in BOOLEAN
        /\ UNCHANGED <<meta, activeFrom>>
    <3>1. CASE UNCHANGED <<meta, torn, keyFiles, activeFrom>>
      BY <3>1
    <3>2. CASE NextVersion \in Kids /\ CutShort
      BY <2>0, <3>2, KeyWritten DEF CutShort
    <3> QED  BY <1>2, <3>1, <3>2 DEF Crash
  <2> QED  BY <1>2, <2>0, <2>1, SmallDocs DEF Crash
<1>3. CASE KeysTick
  BY <1>3, SmallDocs DEF KeysTick, storeVars
<1>4. ASSUME NEW r \in Rotations, RotateKey(r) PROVE Goal
  <2>1. /\ NextVersion \in Kids /\ NextVersion > meta.active
        /\ WriteKey(NextVersion) /\ SaveMeta(NextVersion, meta.active)
    BY <1>4 DEF RotateKey, NextVersion, Kids, NoKid
  <2>2. crashes' = crashes /\ crashes' \in 0..MaxCrashes
    BY <1>4 DEF RotateKey
  <2>3. /\ keyFiles' \in [Kids -> 0..MaxCrashes + 1] /\ activeFrom' \in [Kids -> Times]
        /\ meta' \in [active : Kids \cup {NoKid}, previous : Kids \cup {NoKid}]
    BY <2>1, <2>2, KeyWritten, MetaSaved
  <2> QED  BY <1>4, <2>1, <2>2, <2>3 DEF RotateKey, RecordRow
<1>5. ASSUME NEW r \in Rotations, RecordPrevious(r) PROVE Goal
  BY ZenonT(30), <1>5, SmallDocs DEF RecordPrevious, RecordOld, RecordRow, storeVars, cacheVars
<1>6. ASSUME NEW r \in Rotations, FinishRotation(r) PROVE Goal
  BY ZenonT(30), <1>6, SmallDocs DEF FinishRotation, Invalidate, storeVars, cacheVars
<1>7. ASSUME NEW r \in Rotations, FailRotation(r) PROVE Goal
  BY ZenonT(30), <1>7, SmallDocs DEF FailRotation, storeVars, cacheVars
<1>8. CASE CacheStep
  BY <1>8, CachesOnly, PublicDocument DEF CacheStep, storeVars, Serve
<1>9. CASE UNCHANGED KeysVars
  BY <1>9, SmallDocs DEF KeysVars
<1> QED  BY <1>1, <1>2, <1>3, <1>4, <1>5, <1>6, <1>7, <1>8, <1>9 DEF KeysNext, IdpKeysNext, CacheStep

\* A rotation, and a kill in the middle of one, leave a file for what meta.json
\* names (kms/store.py, kms/rotator.py).
LEMMA StoreStep ==
  ASSUME KeysInv, [KeysNext]_KeysVars
  PROVE  StoreInv'
<1> DEFINE Goal == StoreInv'
<1> USE DEF KeysInv
<1> USE TimesFacts DEF StoreTypeOK, StoreInv, NamedKeysExist, UnderWay
<1>1. CASE StartIdp
  <2>1. CASE meta.active = NoKid
    <3>1. WriteKey(1) /\ SaveMeta(1, NoKid) /\ 1 \in Kids /\ 1 > meta.active
      BY <1>1, <2>1 DEF StartIdp, FirstKey, Kids, NoKid
    <3>2. crashes' = crashes /\ crashes' \in 0..MaxCrashes
      BY <1>1 DEF StartIdp
    <3>3. /\ keyFiles' \in [Kids -> 0..MaxCrashes + 1]
          /\ \A l \in Kids \ {1} : keyFiles'[l] = keyFiles[l]
          /\ keyFiles'[1] > 0 /\ keyFiles'[1] = keyFiles[1] + 1
      BY <3>1, <3>2, KeyWritten
    <3>4. /\ meta'.active = 1 /\ meta'.previous = NoKid /\ activeFrom'[1] = minute
          /\ \A l \in Kids \ {1} : activeFrom'[l] = activeFrom[l]
      BY <3>1, MetaSaved
    <3>5. NamedKeysExist'
      BY <3>3, <3>4
    <3>6. \A k \in Kids : /\ k > meta'.active => activeFrom'[k] = Unset
                          /\ activeFrom'[k] <= minute
      BY <2>1, <3>4 DEF Kids, NoKid
    <3>7. \A k \in Kids : keyFiles'[k] <= IF k <= meta'.active THEN crashes + 1 ELSE crashes
      BY <2>1, <3>3, <3>4 DEF Kids, NoKid
    <3> QED  BY <1>1, <3>1, <3>2, <3>4, <3>5, <3>6, <3>7 DEF StartIdp, NoKid
  <2>2. CASE meta.active # NoKid
    BY <1>1, <2>2 DEF StartIdp, LoadActive
  <2> QED  BY <2>1, <2>2
<1>2. CASE Crash
  <2>0. crashes' = crashes + 1 /\ crashes' \in 0..MaxCrashes /\ crashes \in Nat
    BY <1>2 DEF Crash
  <2>1. UNCHANGED <<meta, activeFrom, minute>>
    BY <1>2 DEF Crash, CutShort
  <2>2. \A k \in Kids : /\ keyFiles'[k] <= IF k <= meta.active THEN crashes + 2 ELSE crashes + 1
                        /\ keyFiles[k] > 0 => keyFiles'[k] > 0
    <3>1. CASE UNCHANGED <<meta, torn, keyFiles, activeFrom>>
      BY <2>0, <3>1 DEF Kids, NoKid
    <3>2. CASE NextVersion \in Kids /\ CutShort
      <4>1. /\ \A l \in Kids \ {NextVersion} : keyFiles'[l] = keyFiles[l]
            /\ keyFiles'[NextVersion] > 0 /\ keyFiles'[NextVersion] = keyFiles[NextVersion] + 1
        BY <2>0, <3>2, KeyWritten DEF CutShort
      <4>2. NextVersion = meta.active + 1
        BY DEF NextVersion
      <4>3. \A k \in Kids : keyFiles[k] <= IF k <= meta.active THEN crashes + 1 ELSE crashes
        OBVIOUS
      <4>4. ASSUME NEW k \in Kids
            PROVE  /\ keyFiles'[k] <= IF k <= meta.active THEN crashes + 2 ELSE crashes + 1
                   /\ keyFiles[k] > 0 => keyFiles'[k] > 0
        <5>1. CASE k = NextVersion
          BY <3>2, <4>1, <4>2, <4>3, <5>1, Numbers
        <5>2. CASE k # NextVersion
          BY <4>1, <4>3, <5>2, Numbers
        <5> QED  BY <5>1, <5>2
      <4> QED  BY <4>4
    <3> QED  BY <1>2, <3>1, <3>2 DEF Crash
  <2>3. \A r \in Rotations : rotation'[r].pc \in {"idle", "failed"}
    BY <1>2 DEF Crash
  <2>4. NamedKeysExist'
    BY <2>1, <2>2
  <2> QED  BY <1>2, <2>0, <2>1, <2>2, <2>3, <2>4 DEF Crash, Kids, NoKid
<1>3. CASE KeysTick
  BY <1>3 DEF KeysTick, storeVars
<1>4. ASSUME NEW r \in Rotations, RotateKey(r) PROVE Goal
  <2> DEFINE n == NextVersion
  <2>1. /\ n \in Kids /\ n = meta.active + 1 /\ n > meta.active /\ meta.active \in Kids
        /\ WriteKey(n) /\ SaveMeta(n, meta.active) /\ idp = "up" /\ idp' = "up"
        /\ UNCHANGED <<crashes, minute>> /\ crashes' \in 0..MaxCrashes
    BY <1>4 DEF RotateKey, NextVersion, Kids, NoKid
  <2> HIDE DEF n
  <2>3. /\ \A l \in Kids \ {n} : keyFiles'[l] = keyFiles[l]
        /\ keyFiles'[n] > 0 /\ keyFiles'[n] = keyFiles[n] + 1
    BY <2>1, KeyWritten
  <2>4. /\ meta'.active = n /\ meta'.previous = meta.active /\ activeFrom'[n] = minute
        /\ \A l \in Kids \ {n} : activeFrom'[l] = activeFrom[l]
    BY <2>1, MetaSaved
  <2>5. NamedKeysExist'
    BY <2>1, <2>3, <2>4, Numbers
  <2>6. \A k \in Kids : /\ k > meta'.active => activeFrom'[k] = Unset
                        /\ activeFrom'[k] <= minute
    BY <2>1, <2>4, Numbers
  <2>7. \A k \in Kids : keyFiles'[k] <= IF k <= meta'.active THEN crashes + 1 ELSE crashes
    BY <2>1, <2>3, <2>4, Numbers
  <2> QED  BY <2>1, <2>4, <2>5, <2>6, <2>7, Numbers
<1>5. ASSUME NEW r \in Rotations, RecordPrevious(r) PROVE Goal
  BY <1>5 DEF RecordPrevious, RecordOld, RecordRow, storeVars, cacheVars
<1>6. ASSUME NEW r \in Rotations, FinishRotation(r) PROVE Goal
  BY <1>6 DEF FinishRotation, Invalidate, storeVars, cacheVars
<1>7. ASSUME NEW r \in Rotations, FailRotation(r) PROVE Goal
  BY <1>7 DEF FailRotation, storeVars, cacheVars
<1>8. CASE CacheStep
  BY <1>8, CachesOnly DEF CacheStep, storeVars, Serve
<1>9. CASE UNCHANGED KeysVars
  BY <1>9 DEF KeysVars
<1> QED  BY <1>1, <1>2, <1>3, <1>4, <1>5, <1>6, <1>7, <1>8, <1>9 DEF KeysNext, IdpKeysNext, CacheStep

\* Overlapping rotations each end the row of the key they replaced
\* (kms/rotator.py).
LEMMA KeyRowsStep ==
  ASSUME KeysInv, [KeysNext]_KeysVars
  PROVE  RowsInv'
<1> DEFINE Goal == RowsInv'
<1> USE DEF KeysInv
<1>0. Kids \subseteq Nat \ {0} /\ NoKid = 0 /\ meta.active \in Nat
  BY Numbers DEF Kids, NoKid
<1> USE DEF StoreTypeOK, RowsInv, Replaces
<1>1. CASE StartIdp
  BY <1>1, <1>0, MetaSaved DEF StartIdp, FirstKey, LoadActive, WriteKey, SaveMeta, cacheVars, StoreInv, UnderWay
<1>2. CASE Crash
  BY <1>2, <1>0 DEF Crash, CutShort, WriteKey, NextVersion, cacheVars
<1>3. CASE KeysTick
  <2>1. UNCHANGED <<meta, rows, rotation>>
    BY <1>3 DEF KeysTick, storeVars
  <2> QED  BY <2>1
<1>4. ASSUME NEW r \in Rotations, RotateKey(r) PROVE Goal
  <2> DEFINE n == NextVersion
  <2>1. /\ n \in Kids /\ n = meta.active + 1 /\ meta.active \in Kids /\ SaveMeta(n, meta.active)
    BY <1>4, <1>0 DEF RotateKey, NextVersion, StoreInv
  <2>2. /\ rotation[r].pc = "idle"
        /\ rotation'[r].pc = "active" /\ rotation'[r].old = meta.active
        /\ \A q \in Rotations \ {r} : rotation'[q] = rotation[q]
        /\ rows'[n] = "active" /\ \A k \in Kids \ {n} : rows'[k] = rows[k]
    BY <1>4, <2>1 DEF RotateKey, RecordRow
  <2> HIDE DEF n
  <2>3. meta'.active = n
    BY <2>1, MetaSaved
  <2>4. \A q \in Rotations, k \in Kids :
          Replaces(q, k)' <=> IF q = r THEN k = meta.active ELSE Replaces(q, k)
    BY <2>2
  <2>5. \A q \in Rotations, k \in Kids : Replaces(q, k) => q # r /\ k < meta.active
    BY <2>2
  <2>6. \A q \in Rotations : rotation'[q].pc = "active" =>
          rotation'[q].old \in Kids /\ rotation'[q].old < n
    <3> SUFFICES ASSUME NEW q \in Rotations, rotation'[q].pc = "active"
                 PROVE  rotation'[q].old \in Kids /\ rotation'[q].old < n
      OBVIOUS
    <3>1. CASE q = r
      BY <1>0, <2>1, <2>2, <3>1
    <3>2. CASE q # r
      <4>1. rotation[q].old \in Kids /\ rotation[q].old < meta.active
        BY <2>2, <3>2
      <4>2. rotation'[q].old = rotation[q].old
        BY <2>2, <3>2
      <4>3. rotation[q].old \in Nat /\ n = meta.active + 1 /\ meta.active \in Nat
        BY <1>0, <2>1, <4>1
      <4> HIDE DEF StoreTypeOK, RowsInv, KeysInv
      <4> QED  BY <4>1, <4>2, <4>3
    <3> QED  BY <3>1, <3>2
  <2> HIDE DEF Replaces
  <2>7. ASSUME \A q \in Rotations : rotation'[q].pc # "failed"
        PROVE  /\ \A k \in Kids \ {1} : rows'[k] = "active" <=>
                    k = n \/ \E q \in Rotations : Replaces(q, k)'
               /\ \A p, q \in Rotations, k \in Kids :
                    Replaces(p, k)' /\ Replaces(q, k)' => p = q
    <3>1. \A q \in Rotations : rotation[q].pc # "failed"
      BY <2>2, <2>7
    <3>2. ASSUME NEW k \in Kids \ {1}
          PROVE  rows'[k] = "active" <=> k = n \/ \E q \in Rotations : Replaces(q, k)'
      <4>1. CASE k = n
        BY <2>2, <4>1
      <4>2. CASE k # n
        <5>1. rows'[k] = "active" <=> k = meta.active \/ \E q \in Rotations : Replaces(q, k)
          BY <2>2, <3>1, <4>2
        <5> QED  BY <2>4, <2>5, <4>2, <5>1
      <4> QED  BY <4>1, <4>2
    <3>3. ASSUME NEW p \in Rotations, NEW q \in Rotations, NEW k \in Kids,
                 Replaces(p, k)', Replaces(q, k)'
          PROVE  p = q
      BY <1>0, <2>4, <2>5, <3>1, <3>3
    <3> QED  BY <3>2, <3>3
  <2> QED  BY <2>3, <2>6, <2>7
<1>5. ASSUME NEW r \in Rotations, RecordPrevious(r) PROVE Goal
  BY <1>5, <1>0 DEF RecordPrevious, RecordOld, RecordRow, storeVars, cacheVars
<1>6. ASSUME NEW r \in Rotations, FinishRotation(r) PROVE Goal
  BY <1>6, <1>0 DEF FinishRotation, Invalidate, storeVars, cacheVars
<1>7. ASSUME NEW r \in Rotations, FailRotation(r) PROVE Goal
  BY <1>7, <1>0 DEF FailRotation, storeVars, cacheVars
<1>8. CASE CacheStep
  BY <1>8, CachesOnly DEF CacheStep, storeVars
<1>9. CASE UNCHANGED KeysVars
  BY <1>9, <1>0 DEF KeysVars
<1> QED  BY <1>1, <1>2, <1>3, <1>4, <1>5, <1>6, <1>7, <1>8, <1>9 DEF KeysNext, IdpKeysNext, CacheStep

\* The cached document lacks a named key only until invalidate_cache
\* (jwks/cache.py, infra/idp/main.py:211).
LEMMA DocumentStep ==
  ASSUME KeysInv, [KeysNext]_KeysVars
  PROVE  DocumentInv'
<1> DEFINE Goal == DocumentInv'
<1> USE DEF KeysInv
<1> USE Numbers DEF DocumentInv, UnderWay, Listed
<1>1. CASE StartIdp
  BY <1>1 DEF StartIdp, FirstKey, LoadActive, WriteKey, SaveMeta, cacheVars, StoreInv
<1>2. CASE Crash
  BY <1>2, TimesFacts DEF Crash, CutShort, WriteKey, NextVersion, cacheVars, StoreTypeOK
<1>3. CASE KeysTick
  BY <1>3 DEF KeysTick, storeVars, StoreTypeOK
<1>4. ASSUME NEW r \in Rotations, RotateKey(r) PROVE Goal
  BY <1>4 DEF RotateKey, NextVersion, WriteKey, SaveMeta, RecordRow, cacheVars, StoreTypeOK
<1>5. ASSUME NEW r \in Rotations, RecordPrevious(r) PROVE Goal
  BY <1>5 DEF RecordPrevious, RecordOld, RecordRow, storeVars, cacheVars, StoreTypeOK
<1>6. ASSUME NEW r \in Rotations, FinishRotation(r) PROVE Goal
  BY <1>6, TimesFacts DEF FinishRotation, Invalidate, storeVars, cacheVars, StoreTypeOK
<1>7. ASSUME NEW r \in Rotations, FailRotation(r) PROVE Goal
  BY <1>7 DEF FailRotation, storeVars, cacheVars, StoreTypeOK
<1>8. CASE CacheStep
  BY SMTT(30), <1>8, CachesOnly, PublicDocument DEF CacheStep, storeVars, Serve, StoreInv, NamedKeysExist
<1>9. CASE UNCHANGED KeysVars
  BY <1>9 DEF KeysVars, StoreTypeOK
<1> QED  BY <1>1, <1>2, <1>3, <1>4, <1>5, <1>6, <1>7, <1>8, <1>9 DEF KeysNext, IdpKeysNext, CacheStep

\* A file that is written is of a key that is not yet named.
LEMMA FilesStand ==
  ASSUME KeysInv, [KeysNext]_KeysVars
  PROVE  NamedKeysStand
<1> DEFINE Goal == NamedKeysStand
<1> USE Numbers DEF KeysInv, NamedKeysStand
<1>1. CASE StartIdp
  <2>1. CASE meta.active = NoKid
    <3>1. WriteKey(1) /\ 1 \in Kids /\ 1 > meta.active
      BY <1>1, <2>1, TimesFacts DEF StartIdp, FirstKey, Kids, NoKid
    <3> QED  BY <3>1 DEF WriteKey, StoreInv, StoreTypeOK
  <2>2. CASE meta.active # NoKid
    BY <1>1, <2>2 DEF StartIdp, LoadActive
  <2> QED  BY <2>1, <2>2
<1>2. CASE Crash
  BY <1>2 DEF Crash, CutShort, WriteKey, NextVersion, cacheVars, StoreInv, StoreTypeOK
<1>3. CASE KeysTick
  BY <1>3 DEF KeysTick, storeVars
<1>4. ASSUME NEW r \in Rotations, RotateKey(r) PROVE Goal
  BY <1>4 DEF RotateKey, NextVersion, WriteKey, SaveMeta, RecordRow, cacheVars, StoreInv, StoreTypeOK
<1>5. ASSUME NEW r \in Rotations, RecordPrevious(r) PROVE Goal
  BY <1>5 DEF RecordPrevious, RecordOld, RecordRow, storeVars, cacheVars
<1>6. ASSUME NEW r \in Rotations, FinishRotation(r) PROVE Goal
  BY <1>6 DEF FinishRotation, Invalidate, storeVars, cacheVars
<1>7. ASSUME NEW r \in Rotations, FailRotation(r) PROVE Goal
  BY <1>7 DEF FailRotation, storeVars, cacheVars
<1>8. CASE CacheStep
  BY <1>8, CachesOnly DEF CacheStep, storeVars
<1>9. CASE UNCHANGED KeysVars
  BY <1>9 DEF KeysVars
<1> QED  BY <1>1, <1>2, <1>3, <1>4, <1>5, <1>6, <1>7, <1>8, <1>9 DEF KeysNext, IdpKeysNext, CacheStep

\* What get makes of the keys it has.
LEMMA Resolved ==
  ASSUME GatewayTyped(gateway), NEW g, GatewayTyped(g), NEW k \in Kids,
         NEW lastTry \in BOOLEAN, NEW fetched \in BOOLEAN, g.pc # "idle" \/ ~lastTry
  PROVE  /\ GatewayTyped(Resolve(g, k, lastTry, fetched))
         /\ Resolve(g, k, lastTry, fetched).doc = <<>>
         /\ Resolve(g, k, lastTry, fetched).pc # "idle" =>
              Resolve(g, k, lastTry, fetched).kid = k
         /\ Resolve(g, k, lastTry, fetched).pc = "refused" =>
              /\ lastTry /\ k \notin ToSet(g.keys)
              /\ Resolve(g, k, lastTry, fetched).fetched = fetched
              /\ Resolve(g, k, lastTry, fetched).excused = g.excused
<1> DEFINE result == Resolve(g, k, lastTry, fetched)
<1>0. <<>> \in Docs /\ 0 \in 0..Latency /\ k \in Kids \cup {NoKid} /\ NoKid \in Kids \cup {NoKid}
  BY SmallDocs DEF Latency
<1>1. CASE k \in ToSet(g.keys)
  <2>1. /\ Touch(g.keys, k) \in Seq(Kids) /\ IsInjective(Touch(g.keys, k))
        /\ Len(Touch(g.keys, k)) <= MaxKids
    BY <1>1, TouchList DEF GatewayTyped
  <2>2. result = [GatewayIdle EXCEPT !.keys = Touch(g.keys, k), !.fetchedAt = g.fetchedAt]
    BY <1>1 DEF Resolve
  <2> HIDE DEF result
  <2>3. /\ result.pc = "idle" /\ result.doc = <<>> /\ result.keys = Touch(g.keys, k)
        /\ GatewayTyped(result)
    BY <1>0, <2>1, <2>2 DEF GatewayIdle, GatewayTyped
  <2> QED  BY <2>3 DEF result
<1>2. CASE k \notin ToSet(g.keys) /\ lastTry
  <2>1. result = [g EXCEPT !.pc = "refused", !.kid = k, !.doc = <<>>, !.age = 0, !.fetched = fetched]
    BY <1>2 DEF Resolve
  <2> HIDE DEF result
  <2>2. /\ result.kid = k /\ result.doc = <<>> /\ result.fetched = fetched
        /\ result.excused = g.excused /\ GatewayTyped(result)
    BY <1>0, <2>1 DEF GatewayTyped
  <2> QED  BY <1>2, <2>2 DEF result
<1>3. CASE k \notin ToSet(g.keys) /\ ~lastTry
  <2>1. result = [g EXCEPT !.pc = "missed", !.kid = k, !.doc = <<>>, !.age = 0]
    BY <1>3 DEF Resolve
  <2> HIDE DEF result
  <2>2. result.kid = k /\ result.doc = <<>> /\ result.pc = "missed" /\ GatewayTyped(result)
    BY <1>0, <2>1 DEF GatewayTyped
  <2> QED  BY <1>3, <2>2 DEF result
<1> QED  BY <1>1, <1>2, <1>3

\* The steps that touch the gateway's cache.
LEMMA IdpLeavesCaches ==
  ASSUME IdpKeysNext, ~KeysTick
  PROVE  UNCHANGED cacheVars
  BY DEF IdpKeysNext, StartIdp, Crash, RotateKey, RecordPrevious, FinishRotation, FailRotation, cacheVars

\* Every step keeps the gateway's list and what a lookup knows
\* (jwks_cache.py get).
LEMMA GatewayCacheStep ==
  ASSUME KeysInv, [KeysNext]_KeysVars
  PROVE  (GatewayTyped(gateway) /\ GatewayInv)'
<1> DEFINE Goal == (GatewayTyped(gateway) /\ GatewayInv)'
<1> USE DEF KeysInv
<1>1. ASSUME NEW k \in Kids, GatewayGet(k) PROVE Goal
  <2>1. CASE minute - gateway.fetchedAt > GatewayTtl
    BY <1>1, <2>1 DEF GatewayGet, GatewayTyped, GatewayInv, RefusalExplained
  <2>2. CASE ~(minute - gateway.fetchedAt > GatewayTtl)
    <3>1. gateway' = Resolve(gateway, k, FALSE, FALSE)
      BY <1>1, <2>2 DEF GatewayGet
    <3> QED  BY <3>1, Resolved DEF GatewayInv, RefusalExplained
  <2> QED  BY <2>1, <2>2
<1>2. CASE ServeGateway
  <2>1. ServedKeys \in Docs
    BY PublicDocument DEF ServedKeys, StoreTypeOK
  <2>2. gateway.kid \in Kids
    BY <1>2 DEF ServeGateway, GatewayInv
  <2>3. Hanging \/ ~Listed(gateway.kid) \/ gateway.kid \in ToSet(ServedKeys)
    <3>1. CASE ~Cached
      BY <2>2, <3>1, PublicDocument, Numbers DEF ServedKeys, StoreInv, NamedKeysExist, Listed
    <3>2. CASE Cached
      <4>1. ~(jwks.at <= failedAt) \/ Hanging
        BY <3>2, Numbers, TimesFacts DEF Cached, Hanging
      <4>2. (\E r \in Rotations : UnderWay(r)) => Hanging
        BY DEF Hanging, UnderWay
      <4> QED  BY <2>2, <3>2, <4>1, <4>2 DEF Cached, ServedKeys, DocumentInv
    <3> QED  BY <3>1, <3>2
  <2>4. /\ gateway' = [gateway EXCEPT !.doc = ServedKeys, !.excused = Hanging \/ ~Listed(gateway.kid)]
        /\ gateway.pc \in {"stale", "missed"}
    BY <1>2 DEF ServeGateway
  <2>5. (Hanging \/ ~Listed(gateway.kid)) \in BOOLEAN
    BY DEF Hanging, Listed
  <2> QED  BY <2>1, <2>2, <2>3, <2>4, <2>5 DEF GatewayTyped, GatewayInv, RefusalExplained
<1>3. CASE GatewayRefreshed
  <2> DEFINE m == Newest(Merged(gateway.keys, gateway.doc))
             g == [gateway EXCEPT !.keys = m, !.fetchedAt = minute]
  <2>1. gateway.doc # <<>> /\ gateway.doc \in Docs /\ gateway.pc \in {"stale", "missed"}
    BY <1>3 DEF GatewayRefreshed, GatewayInv, GatewayTyped
  <2>2. gateway.kid \in Kids /\ (gateway.excused \/ gateway.kid \in ToSet(gateway.doc))
    BY <2>1 DEF GatewayInv
  <2>3. /\ m \in Seq(Kids) /\ IsInjective(m) /\ Len(m) <= MaxKids
        /\ ToSet(gateway.doc) \subseteq ToSet(m)
    BY <2>1, MergedList DEF GatewayTyped
  <2>4. gateway' = Resolve(g, gateway.kid, gateway.pc = "missed", TRUE)
    BY <1>3 DEF GatewayRefreshed
  <2> HIDE DEF m
  <2>5. /\ GatewayTyped(g) /\ g.keys = m /\ g.excused = gateway.excused /\ g.pc = gateway.pc
    BY <2>3, TimesFacts DEF GatewayTyped, StoreTypeOK
  <2> HIDE DEF g
  <2>6. (gateway.pc = "missed") \in BOOLEAN
    OBVIOUS
  <2> QED  BY <2>1, <2>2, <2>3, <2>4, <2>5, <2>6, Resolved DEF GatewayInv, RefusalExplained
<1>4. CASE GatewayFetchFails
  <2>1. gateway' = Resolve(gateway, gateway.kid, gateway.pc = "missed", FALSE) /\ gateway.pc # "idle"
    BY <1>4 DEF GatewayFetchFails
  <2>2. gateway.kid \in Kids /\ (gateway.pc = "missed") \in BOOLEAN
    BY <2>1 DEF GatewayInv
  <2> QED  BY <2>1, <2>2, Resolved DEF GatewayInv, RefusalExplained
<1>5. CASE GatewayRefuses
  <2>1. <<>> \in Docs /\ 0 \in 0..Latency /\ NoKid \in Kids \cup {NoKid}
    BY SmallDocs DEF Latency
  <2>2. GatewayTyped(GatewayIdle) /\ GatewayIdle.pc = "idle" /\ GatewayIdle.doc = <<>>
    BY <2>1 DEF GatewayIdle, GatewayTyped
  <2> QED  BY <1>5, <2>2 DEF GatewayRefuses, GatewayInv, RefusalExplained
<1>6. CASE KeysTick
  BY <1>6 DEF KeysTick, Older, GatewayTyped, GatewayInv, RefusalExplained, Latency
<1>7. CASE UNCHANGED gateway
  BY <1>7 DEF GatewayTyped, GatewayInv, RefusalExplained
<1>8. IdpKeysNext => KeysTick \/ UNCHANGED gateway
  BY IdpLeavesCaches DEF cacheVars
<1>9. AgentKeysNext => UNCHANGED gateway
  BY DEF AgentKeysNext, Verify, ServeAgent, AgentLoaded, AgentRefuses, agentOnly
<1> QED  BY <1>1, <1>2, <1>3, <1>4, <1>5, <1>6, <1>7, <1>8, <1>9
         DEF KeysNext, GatewayKeysNext, KeysVars

\* Where an agent's call is, and what its document can lack.
LEMMA AgentCacheTypeStep ==
  ASSUME KeysInv, [KeysNext]_KeysVars
  PROVE  AgentTypeOK'
<1> DEFINE Goal == AgentTypeOK'
<1> USE SmallDocs DEF KeysInv, AgentTypeOK, Latency
<1>1. ASSUME NEW v \in Verifies, NEW k \in Kids, Verify(v, k) PROVE Goal
  BY <1>1 DEF Verify
<1>2. ASSUME NEW v \in Verifies, ServeAgent(v) PROVE Goal
  <2>1. ServedKeys \in Docs
    BY PublicDocument DEF ServedKeys, StoreTypeOK
  <2> QED  BY <1>2, <2>1 DEF ServeAgent
<1>3. ASSUME NEW v \in Verifies, AgentLoaded(v) PROVE Goal
  <2>1. minute \in Times /\ DOMAIN held = Kids \cup {Document}
    BY TimesFacts DEF StoreTypeOK
  <2>2. held' \in [Kids \cup {Document} -> Times]
    BY <1>3, <2>1 DEF AgentLoaded
  <2>3. verify' \in [Verifies -> [pc : {"idle", "fetch", "refused"}, kid : Kids \cup {NoKid},
                                 doc : Docs, age : 0..1]]
    BY <1>3 DEF AgentLoaded, VerifyIdle
  <2> QED  BY <2>2, <2>3
<1>4. ASSUME NEW v \in Verifies, AgentRefuses(v) PROVE Goal
  BY <1>4 DEF AgentRefuses, VerifyIdle
<1>5. CASE KeysTick
  BY <1>5 DEF KeysTick, Older
<1>6. CASE UNCHANGED <<verify, held>>
  BY <1>6
<1>7. IdpKeysNext => KeysTick \/ UNCHANGED <<verify, held>>
  BY IdpLeavesCaches DEF cacheVars
<1>8. GatewayKeysNext => UNCHANGED <<verify, held>>
  BY DEF GatewayKeysNext, GatewayGet, ServeGateway, GatewayRefreshed, GatewayFetchFails,
         GatewayRefuses, gatewayOnly
<1> QED  BY <1>1, <1>2, <1>3, <1>4, <1>5, <1>6, <1>7, <1>8 DEF KeysNext, AgentKeysNext, KeysVars

\* What is a number in the agent's cache (agents/common/auth.py).
LEMMA AgentNumbers ==
  ASSUME KeysInv
  PROVE  /\ held[Document] \in Int /\ \A k \in Kids : held[k] \in Int
         /\ \A v \in Verifies : verify[v].age \in Nat /\ verify[v].age <= Latency
         /\ \A v \in Verifies : verify[v].kid \in 1..meta.active => verify[v].kid \in Kids
         /\ Latency = 1
<1>1. \A e \in Kids \cup {Document} : held[e] \in Times
  BY DEF KeysInv, AgentTypeOK
<1>2. held[Document] \in Int /\ \A k \in Kids : held[k] \in Int
  BY <1>1, TimesFacts
<1>3. \A v \in Verifies : verify[v].age \in 0..Latency /\ verify[v].kid \in Kids \cup {NoKid}
  BY DEF KeysInv, AgentTypeOK
<1> QED  BY <1>2, <1>3 DEF Latency, NoKid

\* The key that becomes active is newer than every document.
LEMMA AgentSeesNewKey ==
  ASSUME KeysInv, NEW n \in Kids, n = meta.active + 1, SaveMeta(n, meta.active),
         UNCHANGED <<verify, held, minute>>
  PROVE  AgentInv'
<1> USE AgentNumbers, Numbers, TimesFacts DEF KeysInv
<1>0. meta.active \in Kids \cup {NoKid} /\ meta.active \in Nat
  BY DEF StoreTypeOK
<1>1. /\ meta'.active = n /\ meta'.previous = meta.active /\ activeFrom'[n] = minute
      /\ \A l \in Kids \ {n} : activeFrom'[l] = activeFrom[l]
  BY <1>0, MetaSaved
<1>2. \A k \in Kids : Listed(k)' => k = n \/ k = meta.active
  BY <1>1 DEF Listed
<1>3. Listed(meta.active)
  BY DEF Listed
<1>4. \A v \in Verifies : verify[v].pc # "idle" =>
        verify[v].kid \in 1..meta.active /\ verify[v].kid \in Kids \ {n}
  BY SMTT(30), <1>0 DEF AgentInv
<1>5. ASSUME NEW k \in Kids, Listed(k)', activeFrom'[k] <= held[Document] - Latency - JwksTtl
      PROVE  held[k] >= held[Document]
  <2>1. held[Document] <= minute
    BY DEF AgentInv
  <2>2. k # n
    BY <1>1, <1>5, <2>1
  <2>3. k = meta.active /\ Listed(k) /\ activeFrom'[k] = activeFrom[k]
    BY <1>1, <1>2, <1>3, <1>5, <2>2
  <2> QED  BY <1>5, <2>3 DEF AgentInv
<1>6. ASSUME NEW v \in Verifies, verify[v].doc # <<>>
      PROVE  \A k \in Kids : Listed(k)' /\ activeFrom'[k] <= minute - verify[v].age - JwksTtl =>
               k \in ToSet(verify[v].doc)
  <2> SUFFICES ASSUME NEW k \in Kids, Listed(k)', activeFrom'[k] <= minute - verify[v].age - JwksTtl
               PROVE  k \in ToSet(verify[v].doc)
    OBVIOUS
  <2>1. k # n
    BY <1>1
  <2>2. k = meta.active /\ Listed(k) /\ activeFrom'[k] = activeFrom[k]
    BY <1>1, <1>2, <1>3, <2>1
  <2>3. activeFrom[k] <= minute - verify[v].age - JwksTtl
    BY <2>2
  <2> QED  BY <1>6, <2>2, <2>3 DEF AgentInv
<1>7. ASSUME NEW v \in Verifies, verify[v].pc = "refused", Listed(verify[v].kid)'
      PROVE  minute - activeFrom'[verify[v].kid] < AgentTtl + JwksTtl + Latency
  <2>1. verify[v].kid = meta.active /\ meta.active # n
    BY <1>0, <1>2, <1>4, <1>7
  <2>2. minute - activeFrom[meta.active] < AgentTtl + JwksTtl + Latency
    BY <1>3, <1>7, <2>1 DEF AgentInv, AgentCatchesUp
  <2> QED  BY <1>1, <1>4, <1>7, <2>1, <2>2
<1> QED  BY <1>0, <1>1, <1>4, <1>5, <1>6, <1>7 DEF AgentInv, AgentCatchesUp

\* What an agent may lack of the IdP's keys (agents/common/auth.py _load_jwks).
LEMMA AgentCacheStep ==
  ASSUME KeysInv, [KeysNext]_KeysVars
  PROVE  AgentInv'
<1> DEFINE Goal == AgentInv'
<1> USE AgentNumbers, Numbers, TimesFacts DEF KeysInv
<1>0. \A v \in Verifies : verify[v].doc # <<>> => verify[v].pc = "fetch"
  BY DEF AgentInv
<1>1. CASE StartIdp
  <2>1. CASE meta.active = NoKid
    <3>1. SaveMeta(1, meta.active) /\ 1 \in Kids /\ 1 = meta.active + 1
      BY <1>1, <2>1 DEF StartIdp, FirstKey, Kids
    <3> QED  BY <1>1, <3>1, AgentSeesNewKey DEF StartIdp, cacheVars
  <2>2. CASE meta.active # NoKid
    BY <1>1, <2>2 DEF StartIdp, LoadActive, cacheVars, AgentInv, AgentCatchesUp, Listed
  <2> QED  BY <2>1, <2>2
<1>2. ASSUME NEW r \in Rotations, RotateKey(r) PROVE Goal
  <2>1. NextVersion \in Kids /\ NextVersion = meta.active + 1 /\ SaveMeta(NextVersion, meta.active)
    BY <1>2 DEF RotateKey, NextVersion
  <2> QED  BY <1>2, <2>1, AgentSeesNewKey DEF RotateKey, cacheVars
<1>3. CASE UNCHANGED <<meta, activeFrom, verify, held, minute>>
  BY <1>3 DEF AgentInv, AgentCatchesUp, Listed
<1>4. CASE KeysTick
  <2>1. UNCHANGED <<meta, activeFrom, held>> /\ minute' = minute + 1
    BY <1>4 DEF KeysTick, storeVars
  <2>2. \A v \in Verifies : /\ verify'[v].pc = verify[v].pc /\ verify[v].pc # "refused"
                            /\ verify'[v].kid = verify[v].kid /\ verify'[v].doc = verify[v].doc
                            /\ verify[v].doc # <<>> => verify'[v].age = verify[v].age + 1
    BY <1>4 DEF KeysTick, Older, AgentTypeOK
  <2>3. ASSUME NEW v \in Verifies, verify'[v].doc # <<>>,
               NEW k \in Kids, Listed(k), activeFrom[k] <= minute' - verify'[v].age - JwksTtl
        PROVE  k \in ToSet(verify'[v].doc)
    <3>1. minute' - verify'[v].age = minute - verify[v].age
      <4>1. verify'[v].age = verify[v].age + 1 /\ verify[v].age \in Nat
        BY <2>2, <2>3
      <4> QED  BY <2>1, <4>1
    <3> QED  BY <2>2, <2>3, <3>1 DEF AgentInv
  <2>4. held[Document] <= minute'
    BY <2>1 DEF AgentInv
  <2> QED  BY <2>1, <2>2, <2>3, <2>4 DEF AgentInv, AgentCatchesUp, Listed
<1>5. ASSUME NEW v \in Verifies, NEW k \in Kids, Verify(v, k) PROVE Goal
  <2>1. UNCHANGED <<meta, activeFrom, held, minute>>
    BY <1>5 DEF Verify, agentOnly, storeVars
  <2>2. /\ \A w \in Verifies \ {v} : verify'[w] = verify[w]
        /\ verify'[v].kid = k /\ verify'[v].doc = verify[v].doc /\ verify[v].pc = "idle"
        /\ verify'[v].pc \in {"fetch", "refused"}
        /\ verify'[v].pc = "refused" => Holds(Document) /\ ~Holds(k)
    BY <1>5 DEF Verify, AgentTypeOK
  <2>3. verify'[v].doc = <<>>
    BY <1>0, <2>2
  <2>4. k \in 1..meta.active
    BY <1>5 DEF Verify, InUse
  <2>5. Listed(k) /\ verify'[v].pc = "refused" =>
          minute - activeFrom[k] < AgentTtl + JwksTtl + Latency
    <3> SUFFICES ASSUME Listed(k), verify'[v].pc = "refused",
                        minute - activeFrom[k] >= AgentTtl + JwksTtl + Latency
                 PROVE  FALSE
      OBVIOUS
    <3>1. minute - held[Document] < AgentTtl /\ ~(minute - held[k] < AgentTtl)
      BY <2>2 DEF Holds
    <3>2. activeFrom[k] <= held[Document] - Latency - JwksTtl
      BY <3>1
    <3>3. held[k] >= held[Document]
      BY <3>2 DEF AgentInv
    <3> QED  BY <3>1, <3>3
  <2> QED  BY <2>1, <2>2, <2>3, <2>4, <2>5 DEF AgentInv, AgentCatchesUp, Listed
<1>6. ASSUME NEW v \in Verifies, ServeAgent(v) PROVE Goal
  <2>1. UNCHANGED <<meta, activeFrom, held, minute>>
    BY <1>6 DEF ServeAgent, agentOnly, storeVars
  <2>2. /\ \A w \in Verifies \ {v} : verify'[w] = verify[w]
        /\ verify'[v].kid = verify[v].kid /\ verify'[v].doc = ServedKeys
        /\ verify[v].pc = "fetch" /\ verify'[v].pc = "fetch" /\ verify'[v].age = verify[v].age
    BY <1>6 DEF ServeAgent, AgentTypeOK
  <2>3. ASSUME NEW k \in Kids, Listed(k), activeFrom[k] <= minute - verify[v].age - JwksTtl
        PROVE  k \in ToSet(ServedKeys)
    <3>1. CASE ~Cached
      BY <2>3, <3>1, PublicDocument DEF ServedKeys, StoreInv, NamedKeysExist, Listed
    <3>2. CASE Cached
      <4>1. activeFrom[k] < jwks.at
        <5>1. minute - jwks.at < JwksTtl
          BY <3>2 DEF Cached
        <5>2. verify[v].age \in Nat
          OBVIOUS
        <5> QED  BY <2>3, <5>1, <5>2
      <4> QED  BY <2>3, <3>2, <4>1 DEF Cached, ServedKeys, DocumentInv
    <3> QED  BY <3>1, <3>2
  <2> QED  BY <2>1, <2>2, <2>3 DEF AgentInv, AgentCatchesUp, Listed
<1>7. ASSUME NEW v \in Verifies, AgentLoaded(v) PROVE Goal
  <2>1. UNCHANGED <<meta, activeFrom, minute>> /\ verify[v].doc # <<>>
    BY <1>7 DEF AgentLoaded, agentOnly, storeVars
  <2>2. held'[Document] = minute
        /\ \A k \in Kids : held'[k] = IF k \in ToSet(verify[v].doc) THEN minute ELSE held[k]
    <3>1. DOMAIN held = Kids \cup {Document} /\ \A k \in Kids : k # Document
      BY DEF AgentTypeOK, Document
    <3>2. held' = [e \in DOMAIN held |->
                     IF e = Document \/ e \in ToSet(verify[v].doc) THEN minute ELSE held[e]]
      BY <1>7 DEF AgentLoaded
    <3> QED  BY <3>1, <3>2
  <2>3. ASSUME NEW k \in Kids, Listed(k), activeFrom[k] <= minute - Latency - JwksTtl
        PROVE  held'[k] = minute
    <3>1. activeFrom[k] <= minute - verify[v].age - JwksTtl
      BY <2>3
    <3> QED  BY <2>1, <2>2, <2>3, <3>1 DEF AgentInv
  <2>4. /\ \A w \in Verifies \ {v} : verify'[w] = verify[w]
        /\ verify'[v].doc = <<>> /\ verify'[v].pc \in {"idle", "refused"}
        /\ verify'[v].pc = "refused" =>
             /\ verify'[v].kid = verify[v].kid
             /\ ~(held'[verify[v].kid] # Unset /\ minute - held'[verify[v].kid] < AgentTtl)
    BY SMTT(30), <1>7 DEF AgentLoaded, VerifyIdle, AgentTypeOK
  <2>5. verify[v].kid \in 1..meta.active /\ verify[v].kid \in Kids
    BY <1>0, <2>1 DEF AgentInv
  <2>6. Listed(verify[v].kid) /\ verify'[v].pc = "refused" =>
          minute - activeFrom[verify[v].kid] < AgentTtl + JwksTtl + Latency
    <3>1. minute # Unset
      BY DEF Unset
    <3> SUFFICES ASSUME Listed(verify[v].kid), verify'[v].pc = "refused",
                        minute - activeFrom[verify[v].kid] >= AgentTtl + JwksTtl + Latency
                 PROVE  FALSE
      BY <2>5
    <3>2. activeFrom[verify[v].kid] <= minute - Latency - JwksTtl
      BY <2>5
    <3>3. held'[verify[v].kid] = minute
      BY <2>3, <2>5, <3>2
    <3> QED  BY <2>4, <3>1, <3>3
  <2>7. \A k \in Kids : Listed(k)' /\ activeFrom'[k] <= held'[Document] - Latency - JwksTtl =>
          held'[k] >= held'[Document]
    <3> SUFFICES ASSUME NEW k \in Kids, Listed(k), activeFrom[k] <= minute - Latency - JwksTtl
                 PROVE  held'[k] >= minute
      BY <2>1, <2>2 DEF Listed
    <3> QED  BY <2>3
  <2>8. held'[Document] <= minute'
    BY <2>1, <2>2
  <2>9. AgentCatchesUp'
    BY <2>1, <2>4, <2>6 DEF AgentInv, AgentCatchesUp, Listed
  <2> QED  BY <2>1, <2>4, <2>7, <2>8, <2>9 DEF AgentInv, Listed
<1>8. ASSUME NEW v \in Verifies, AgentRefuses(v) PROVE Goal
  <2>1. UNCHANGED <<meta, activeFrom, held, minute>>
    BY <1>8 DEF AgentRefuses, agentOnly, storeVars
  <2>2. /\ \A w \in Verifies \ {v} : verify'[w] = verify[w]
        /\ verify'[v].pc = "idle" /\ verify'[v].doc = <<>>
    BY <1>8 DEF AgentRefuses, VerifyIdle, AgentTypeOK
  <2> QED  BY <2>1, <2>2 DEF AgentInv, AgentCatchesUp, Listed
<1>9. GatewayKeysNext => UNCHANGED <<meta, activeFrom, verify, held, minute>>
  BY DEF GatewayKeysNext, GatewayGet, ServeGateway, GatewayRefreshed, GatewayFetchFails,
         GatewayRefuses, gatewayOnly, storeVars
<1>10. IdpKeysNext => \/ StartIdp \/ KeysTick \/ \E r \in Rotations : RotateKey(r)
                      \/ UNCHANGED <<meta, activeFrom, verify, held, minute>>
                      \/ Crash
  BY DEF IdpKeysNext, RecordPrevious, FinishRotation, FailRotation, cacheVars, storeVars
<1>11. Crash => UNCHANGED <<meta, activeFrom, verify, held, minute>>
  BY DEF Crash, CutShort, cacheVars
<1> QED  BY <1>1, <1>2, <1>3, <1>4, <1>5, <1>6, <1>7, <1>8, <1>9, <1>10, <1>11
         DEF KeysNext, AgentKeysNext, KeysVars

\* The invariant of the keys holds (kms, jwks, jwks_cache.py, auth.py).
LEMMA KeysInvariant == KeysSpec => []KeysInv
<1>1. KeysInit => KeysInv
  <2> SUFFICES ASSUME KeysInit PROVE KeysInv
    OBVIOUS
  <2> USE TimesFacts, SmallDocs DEF KeysInit, NoKid
  <2>1. StoreTypeOK
    <3>1. keyFiles \in [Kids -> 0..MaxCrashes + 1] /\ minute \in 0..MaxMinutes /\ crashes \in 0..MaxCrashes
      OBVIOUS
    <3>2. jwks \in [keys : Docs, at : Times] /\ failedAt \in Times /\ activeFrom \in [Kids -> Times]
      OBVIOUS
    <3>3. meta \in [active : Kids \cup {NoKid}, previous : Kids \cup {NoKid}]
      OBVIOUS
    <3> QED  BY <3>1, <3>2, <3>3 DEF StoreTypeOK
  <2>2. GatewayTyped(gateway)
    BY KeysAssumption DEF GatewayTyped, IsInjective, Latency
  <2>3. AgentTypeOK
    BY DEF AgentTypeOK, Latency
  <2>4. StoreInv /\ RowsInv /\ DocumentInv
    BY Numbers, <2>1 DEF StoreInv, NamedKeysExist, RowsInv, Replaces, UnderWay, DocumentInv, Unset
  <2>5. GatewayInv /\ AgentInv
    BY Numbers, <2>1 DEF GatewayInv, RefusalExplained, AgentInv, AgentCatchesUp, Listed, Unset, Latency
  <2> QED  BY <2>1, <2>2, <2>3, <2>4, <2>5 DEF KeysInv
<1>2. KeysInv /\ [KeysNext]_KeysVars => KeysInv'
  BY StoreTypeStep, StoreStep, KeyRowsStep, DocumentStep, GatewayCacheStep, AgentCacheTypeStep, AgentCacheStep
     DEF KeysInv
<1> QED  BY <1>1, <1>2, PTL DEF KeysSpec

\* The key store, the gateway's bounded memory and the agents' caches keep to
\* their types, whatever the lives of documents and tokens.
THEOREM KeysTypeCorrect == KeysSpec => []KeysTypeOK
<1>1. KeysInv => KeysTypeOK
  BY KeysTypeParts DEF KeysInv
<1> QED  BY <1>1, KeysInvariant, PTL

\* For any number of rotations, any cache of two keys or more and any lives: a
\* gateway that was answered refuses a key in force only in a window that a
\* hanging rotation leaves, and an agent learns of a key in time.
THEOREM VerifiersExplainedAlways == KeysSpec => []VerifiersExplained
<1>1. KeysInv => VerifiersExplained
  BY DEF KeysInv, GatewayInv, AgentInv, VerifiersExplained
<1> QED  BY <1>1, KeysInvariant, PTL

\* Every step of the IdP keeps meta.json, files and rows in order, with any
\* number of rotations and crashes (kms/store.py, kms/rotator.py).
THEOREM KeysStayInOrder == KeysSpec => KeysInOrder
<1>1. KeysInv => NamedKeysExist /\ RowsFollow
  <2> SUFFICES ASSUME KeysInv PROVE NamedKeysExist /\ RowsFollow
    OBVIOUS
  <2>1. NamedKeysExist
    BY DEF KeysInv, StoreInv
  <2>2. (\A r \in Rotations : rotation[r].pc \in {"idle", "done"}) =>
          \A k \in Kids : \A r \in Rotations : ~Replaces(r, k)
    BY DEF Replaces
  <2>3. RowsFollow
    BY <2>2 DEF KeysInv, RowsInv, RowsFollow
  <2> QED  BY <2>1, <2>3
<1>2. KeysInv /\ KeysInv' /\ [KeysNext]_KeysVars => [NamedKeysExist' /\ NamedKeysStand /\ RowsFollow']_KeysVars
  <2>1. KeysInv' => NamedKeysExist' /\ RowsFollow'
    BY <1>1, PTL
  <2> QED  BY <2>1, FilesStand
<1> QED  BY <1>2, KeysInvariant, PTL DEF KeysSpec, KeysInOrder

-----------------------------------------------------------------------------
(***************************************************************************)
(* Signing in                                                              *)
(***************************************************************************)

\* What a request may present has been made: a session that was begun, or the
\* key of a request that ended well.
MadeKey(k) ==
  \/ \E s \in opened : k = StateKey(s)
  \/ \E l \in Logins : k = CodeKey(l) /\ stage[l] = "done"
  \/ \E e \in Exchanges : k = RefreshKey(e) /\ stage[e] = "done"

KeysMade ==
  /\ spent \cap stored = {}
  /\ \A k \in spent : MadeKey(k)
  /\ \A r \in SignInRequests : stage[r] # "idle" => MadeKey(shown[r])

\* The commands that each kind of request waits for.
CommandsOfKinds ==
  /\ \A l \in Logins : stage[l] # "sign"
  /\ \A e \in Exchanges : stage[e] \notin {"verify", "sign"}
  /\ \A r \in Refreshes : stage[r] \in {"idle", "sign", "done", "refused"}
  /\ \A o \in Logouts : stage[o] \in {"idle", "delete", "done", "error"}

\* What a request that is still good presents, and what was checked of it.
Going(r) == stage[r] \notin {"idle", "refused", "error"}

Presented ==
  /\ \A l \in Logins : Going(l) => \E s \in Sessions : shown[l] = StateKey(s)
  /\ \A l \in Logins : stage[l] \in {"store", "done"} => form[l]
  /\ \A e \in Exchanges : Going(e) =>
       \E l \in Logins : shown[e] = CodeKey(l) /\ stage[l] = "done"
  /\ \A r \in Refreshes : Going(r) =>
       \E e \in Exchanges : shown[r] = RefreshKey(e) /\ stage[e] = "done"

VerifiersMatched ==
  \A e \in Exchanges : stage[e] \in {"store", "done"} => VerifierMatches(e)

ReadInTime == \A r \in SignInRequests \ Logouts : Going(r) => ~spentFirst[r]

SignInInv ==
  /\ SignInTypeOK
  /\ CommandsOfKinds /\ KeysMade /\ Presented /\ VerifiersMatched /\ ReadInTime

\* Keys of Redis are prefixed and random (oidc/session.py, oidc/refresh.py).
LEMMA SignInKeyNames ==
  /\ \A s, t \in Sessions : StateKey(s) = StateKey(t) => s = t
  /\ \A l, m \in Logins : CodeKey(l) = CodeKey(m) => l = m
  /\ \A d, e \in Exchanges : RefreshKey(d) = RefreshKey(e) => d = e
  /\ \A s \in Sessions, l \in Logins : StateKey(s) # CodeKey(l)
  /\ \A s \in Sessions, e \in Exchanges : StateKey(s) # RefreshKey(e)
  /\ \A l \in Logins, e \in Exchanges : CodeKey(l) # RefreshKey(e)
  BY DEF StateKey, CodeKey, RefreshKey

\* Every session, code and refresh token has its key (oidc/session.py).
LEMMA SignInKeysListed ==
  /\ \A s \in Sessions : StateKey(s) \in SignInKeys
  /\ \A l \in Logins : CodeKey(l) \in SignInKeys
  /\ \A e \in Exchanges : RefreshKey(e) \in SignInKeys
  BY DEF SignInKeys

\* What a request stores is one of them (oidc/authorize.py, oidc/token.py).
LEMMA MadeListed ==
  ASSUME NEW r \in Logins \cup Exchanges
  PROVE  Made(r) \in SignInKeys
  BY SignInKeysListed DEF Made


\* What was made is a key (oidc/session.py).
LEMMA MadeIsKey ==
  ASSUME SignInTypeOK, NEW k, MadeKey(k)
  PROVE  k \in SignInKeys
  BY SignInKeysListed DEF MadeKey, SignInTypeOK

\* A command leaves every request at a command of its handler (oidc).
LEMMA SignInTypeStep ==
  ASSUME SignInInv, [SignInNext]_SignInVars
  PROVE  (SignInTypeOK /\ CommandsOfKinds)'
<1> DEFINE Typed == SignInTypeOK /\ CommandsOfKinds
<1> USE SignInAssumption DEF SignInInv, SignInTypeOK, CommandsOfKinds, SignInRequests
<1>0. \A r \in SignInRequests : stage[r] # "idle" => shown[r] \in SignInKeys
  BY MadeIsKey DEF KeysMade
<1>1. ASSUME NEW s \in Sessions, Authorize(s) PROVE Typed'
  BY <1>1, <1>0, SignInKeysListed, MadeListed DEF Authorize
<1>2. ASSUME NEW l \in Logins, Login(l) PROVE Typed'
  <2>1. CASE SubmitLogin(l)
    BY <2>1, <1>0, SignInKeysListed, MadeListed DEF SubmitLogin, Get, To
  <2>2. CASE ConsumeState(l)
    BY <2>2, <1>0, SignInKeysListed, MadeListed DEF ConsumeState, Consume, To
  <2>3. CASE CheckPassword(l)
    BY <2>3, <1>0, SignInKeysListed, MadeListed DEF CheckPassword, To
  <2>4. CASE SetKey(l)
    BY <2>4, <1>0, SignInKeysListed, MadeListed DEF SetKey, To
  <2>5. CASE CommandFails(l)
    BY <2>5, <1>0, SignInKeysListed, MadeListed DEF CommandFails, To
  <2> QED  BY <1>2, <2>1, <2>2, <2>3, <2>4, <2>5 DEF Login
<1>3. ASSUME NEW e \in Exchanges, ExchangeCode(e) PROVE Typed'
  <2>1. CASE SendCode(e)
    BY <2>1, <1>0, SignInKeysListed, MadeListed DEF SendCode, Get, To
  <2>2. CASE ConsumeCode(e)
    BY <2>2, <1>0, SignInKeysListed, MadeListed DEF ConsumeCode, Consume, To
  <2>3. CASE SetKey(e)
    BY <2>3, <1>0, SignInKeysListed, MadeListed DEF SetKey, To
  <2>4. CASE CommandFails(e)
    BY <2>4, <1>0, SignInKeysListed, MadeListed DEF CommandFails, To
  <2> QED  BY <1>3, <2>1, <2>2, <2>3, <2>4 DEF ExchangeCode
<1>4. ASSUME NEW r \in Refreshes, Refresh(r) PROVE Typed'
  <2>1. CASE SendRefresh(r)
    BY <2>1, <1>0, SignInKeysListed, MadeListed DEF SendRefresh, Get, To
  <2>2. CASE SignAccessToken(r)
    BY <2>2, <1>0, SignInKeysListed, MadeListed DEF SignAccessToken, To
  <2> QED  BY <1>4, <2>1, <2>2 DEF Refresh
<1>5. ASSUME NEW o \in Logouts, Logout(o) PROVE Typed'
  <2>1. CASE SendRevoke(o)
    BY <2>1, <1>0, SignInKeysListed, MadeListed DEF SendRevoke, To
  <2>2. CASE RevokeRefresh(o)
    BY <2>2, <1>0, SignInKeysListed, MadeListed DEF RevokeRefresh, Consume, To
  <2>3. CASE RevokeOther(o)
    BY <2>3, <1>0, SignInKeysListed, MadeListed DEF RevokeOther, To
  <2>4. CASE CommandFails(o)
    BY <2>4, <1>0, SignInKeysListed, MadeListed DEF CommandFails, To
  <2> QED  BY <1>5, <2>1, <2>2, <2>3, <2>4 DEF Logout
<1>6. ASSUME NEW key \in SignInKeys, Expire(key) PROVE Typed'
  BY <1>6, <1>0, SignInKeysListed, MadeListed DEF Expire
<1>7. CASE UNCHANGED SignInVars
  BY <1>7, <1>0, SignInKeysListed, MadeListed DEF SignInVars
<1> QED  BY <1>1, <1>2, <1>3, <1>4, <1>5, <1>6, <1>7 DEF SignInNext

\* A request that was answered is left alone, and none changes what it presents;
\* only the verifier lets an exchange go on (oidc/token.py).
LEMMA RequestsKeep ==
  ASSUME SignInInv, [SignInNext]_SignInVars
  PROVE  /\ opened \subseteq opened'
         /\ \A q \in SignInRequests :
              /\ stage[q] = "done" => stage'[q] = "done"
              /\ stage[q] # "idle" => shown'[q] = shown[q]
              /\ stage[q] # "idle" /\ q \in Logins \cup Exchanges => form'[q] = form[q]
              /\ q \in Exchanges /\ stage'[q] \in {"store", "done"} =>
                   \/ stage[q] \in {"store", "done"}
                   \/ stage[q] = "delete" /\ VerifierMatches(q)
<1> DEFINE Keeps ==
      /\ opened \subseteq opened'
      /\ \A q \in SignInRequests :
           /\ stage[q] = "done" => stage'[q] = "done"
           /\ stage[q] # "idle" => shown'[q] = shown[q]
           /\ stage[q] # "idle" /\ q \in Logins \cup Exchanges => form'[q] = form[q]
           /\ q \in Exchanges /\ stage'[q] \in {"store", "done"} =>
                \/ stage[q] \in {"store", "done"}
                \/ stage[q] = "delete" /\ VerifierMatches(q)
<1> USE SignInAssumption DEF SignInInv, SignInTypeOK, CommandsOfKinds, SignInRequests
<1>1. ASSUME NEW s \in Sessions, Authorize(s) PROVE Keeps
  BY <1>1 DEF Authorize
<1>2. ASSUME NEW l \in Logins, Login(l) PROVE Keeps
  <2>1. CASE SubmitLogin(l)
    BY <2>1 DEF SubmitLogin, Get, To
  <2>2. CASE ConsumeState(l)
    BY <2>2 DEF ConsumeState, Consume, To
  <2>3. CASE CheckPassword(l)
    BY <2>3 DEF CheckPassword, To
  <2>4. CASE SetKey(l)
    BY <2>4 DEF SetKey, To
  <2>5. CASE CommandFails(l)
    BY <2>5 DEF CommandFails, To
  <2> QED  BY <1>2, <2>1, <2>2, <2>3, <2>4, <2>5 DEF Login
<1>3. ASSUME NEW e \in Exchanges, ExchangeCode(e) PROVE Keeps
  <2>1. CASE SendCode(e)
    BY <2>1 DEF SendCode, Get, To
  <2>2. CASE ConsumeCode(e)
    BY <2>2 DEF ConsumeCode, Consume, To
  <2>3. CASE SetKey(e)
    BY <2>3 DEF SetKey, To
  <2>4. CASE CommandFails(e)
    BY <2>4 DEF CommandFails, To
  <2> QED  BY <1>3, <2>1, <2>2, <2>3, <2>4 DEF ExchangeCode
<1>4. ASSUME NEW r \in Refreshes, Refresh(r) PROVE Keeps
  <2>1. CASE SendRefresh(r)
    BY <2>1 DEF SendRefresh, Get, To
  <2>2. CASE SignAccessToken(r)
    BY <2>2 DEF SignAccessToken, To
  <2> QED  BY <1>4, <2>1, <2>2 DEF Refresh
<1>5. ASSUME NEW o \in Logouts, Logout(o) PROVE Keeps
  <2>1. CASE SendRevoke(o)
    BY <2>1 DEF SendRevoke, To
  <2>2. CASE RevokeRefresh(o)
    BY <2>2 DEF RevokeRefresh, Consume, To
  <2>3. CASE RevokeOther(o)
    BY <2>3 DEF RevokeOther, To
  <2>4. CASE CommandFails(o)
    BY <2>4 DEF CommandFails, To
  <2> QED  BY <1>5, <2>1, <2>2, <2>3, <2>4 DEF Logout
<1>6. ASSUME NEW key \in SignInKeys, Expire(key) PROVE Keeps
  BY <1>6 DEF Expire
<1>7. CASE UNCHANGED SignInVars
  BY <1>7 DEF SignInVars
<1> QED  BY <1>1, <1>2, <1>3, <1>4, <1>5, <1>6, <1>7 DEF SignInNext

\* What was made stays made (oidc/session.py).
LEMMA MadeStays ==
  ASSUME SignInInv, [SignInNext]_SignInVars, NEW k, MadeKey(k)
  PROVE  MadeKey(k)'
  BY RequestsKeep DEF MadeKey, SignInRequests

\* A key that is stored now was never deleted before (oidc/session.py).
LEMMA NewKeys ==
  ASSUME SignInInv
  PROVE  /\ \A s \in Sessions \ opened : StateKey(s) \notin spent
         /\ \A r \in Logins \cup Exchanges : stage[r] # "done" => Made(r) \notin spent
  BY SignInKeyNames, SignInAssumption DEF SignInInv, SignInTypeOK, KeysMade, MadeKey, Made

\* Whose key it is (oidc/session.py).
LEMMA KeysOfMakers ==
  /\ \A s \in opened : MadeKey(StateKey(s))
  /\ \A l \in Logins : stage[l] = "done" => MadeKey(CodeKey(l))
  /\ \A e \in Exchanges : stage[e] = "done" => MadeKey(RefreshKey(e))
  BY DEF MadeKey

\* No command stores a key again that one has deleted (oidc/session.py:15).
LEMMA KeysMadeStep ==
  ASSUME SignInInv, [SignInNext]_SignInVars
  PROVE  KeysMade'
<1> USE SignInAssumption DEF SignInInv, SignInTypeOK, CommandsOfKinds, KeysMade, SignInRequests
<1>0. \A k : MadeKey(k) => MadeKey(k)'
  BY MadeStays
<1>1. ASSUME NEW s \in Sessions, Authorize(s) PROVE KeysMade'
  BY <1>1, <1>0, NewKeys, KeysOfMakers DEF Authorize
<1>2. ASSUME NEW l \in Logins, Login(l) PROVE KeysMade'
  <2>1. CASE SubmitLogin(l)
    BY <2>1, <1>0, NewKeys, KeysOfMakers DEF SubmitLogin, Get, To
  <2>2. CASE ConsumeState(l)
    BY <2>2, <1>0, NewKeys, KeysOfMakers DEF ConsumeState, Consume, To
  <2>3. CASE CheckPassword(l)
    BY <2>3, <1>0, NewKeys, KeysOfMakers DEF CheckPassword, To
  <2>4. CASE SetKey(l)
    BY <2>4, <1>0, NewKeys, KeysOfMakers DEF SetKey, To
  <2>5. CASE CommandFails(l)
    BY <2>5, <1>0, NewKeys, KeysOfMakers DEF CommandFails, To
  <2> QED  BY <1>2, <2>1, <2>2, <2>3, <2>4, <2>5 DEF Login
<1>3. ASSUME NEW e \in Exchanges, ExchangeCode(e) PROVE KeysMade'
  <2>1. CASE SendCode(e)
    BY <2>1, <1>0, NewKeys, KeysOfMakers DEF SendCode, Get, To
  <2>2. CASE ConsumeCode(e)
    BY <2>2, <1>0, NewKeys, KeysOfMakers DEF ConsumeCode, Consume, To
  <2>3. CASE SetKey(e)
    BY <2>3, <1>0, NewKeys, KeysOfMakers DEF SetKey, To
  <2>4. CASE CommandFails(e)
    BY <2>4, <1>0, NewKeys, KeysOfMakers DEF CommandFails, To
  <2> QED  BY <1>3, <2>1, <2>2, <2>3, <2>4 DEF ExchangeCode
<1>4. ASSUME NEW r \in Refreshes, Refresh(r) PROVE KeysMade'
  <2>1. CASE SendRefresh(r)
    BY <2>1, <1>0, NewKeys, KeysOfMakers DEF SendRefresh, Get, To
  <2>2. CASE SignAccessToken(r)
    BY <2>2, <1>0, NewKeys, KeysOfMakers DEF SignAccessToken, To
  <2> QED  BY <1>4, <2>1, <2>2 DEF Refresh
<1>5. ASSUME NEW o \in Logouts, Logout(o) PROVE KeysMade'
  <2>1. CASE SendRevoke(o)
    BY <2>1, <1>0, NewKeys, KeysOfMakers DEF SendRevoke, To
  <2>2. CASE RevokeRefresh(o)
    BY <2>2, <1>0, NewKeys, KeysOfMakers DEF RevokeRefresh, Consume, To
  <2>3. CASE RevokeOther(o)
    BY <2>3, <1>0, NewKeys, KeysOfMakers DEF RevokeOther, To
  <2>4. CASE CommandFails(o)
    BY <2>4, <1>0, NewKeys, KeysOfMakers DEF CommandFails, To
  <2> QED  BY <1>5, <2>1, <2>2, <2>3, <2>4 DEF Logout
<1>6. ASSUME NEW key \in SignInKeys, Expire(key) PROVE KeysMade'
  BY <1>6, <1>0, NewKeys, KeysOfMakers DEF Expire
<1>7. CASE UNCHANGED SignInVars
  BY <1>7, <1>0, NewKeys, KeysOfMakers DEF SignInVars
<1> QED  BY <1>1, <1>2, <1>3, <1>4, <1>5, <1>6, <1>7 DEF SignInNext

\* A request that goes on presents what another request was given (oidc/authorize.py,
\* oidc/token.py).
LEMMA PresentedStep ==
  ASSUME SignInInv, [SignInNext]_SignInVars
  PROVE  Presented'
<1> USE SignInAssumption DEF SignInInv, SignInTypeOK, CommandsOfKinds, Presented, Going, SignInRequests
<1>1. ASSUME NEW s \in Sessions, Authorize(s) PROVE Presented'
  BY <1>1 DEF Authorize
<1>2. ASSUME NEW l \in Logins, Login(l) PROVE Presented'
  <2>1. CASE SubmitLogin(l)
    BY <2>1 DEF SubmitLogin, Get, To
  <2>2. CASE ConsumeState(l)
    BY <2>2 DEF ConsumeState, Consume, To
  <2>3. CASE CheckPassword(l)
    BY <2>3 DEF CheckPassword, To
  <2>4. CASE SetKey(l)
    BY <2>4 DEF SetKey, To
  <2>5. CASE CommandFails(l)
    BY <2>5 DEF CommandFails, To
  <2> QED  BY <1>2, <2>1, <2>2, <2>3, <2>4, <2>5 DEF Login
<1>3. ASSUME NEW e \in Exchanges, ExchangeCode(e) PROVE Presented'
  <2>1. CASE SendCode(e)
    BY <2>1 DEF SendCode, Get, To
  <2>2. CASE ConsumeCode(e)
    BY <2>2 DEF ConsumeCode, Consume, To
  <2>3. CASE SetKey(e)
    BY <2>3 DEF SetKey, To
  <2>4. CASE CommandFails(e)
    BY <2>4 DEF CommandFails, To
  <2> QED  BY <1>3, <2>1, <2>2, <2>3, <2>4 DEF ExchangeCode
<1>4. ASSUME NEW r \in Refreshes, Refresh(r) PROVE Presented'
  <2>1. CASE SendRefresh(r)
    BY <2>1 DEF SendRefresh, Get, To
  <2>2. CASE SignAccessToken(r)
    BY <2>2 DEF SignAccessToken, To
  <2> QED  BY <1>4, <2>1, <2>2 DEF Refresh
<1>5. ASSUME NEW o \in Logouts, Logout(o) PROVE Presented'
  <2>1. CASE SendRevoke(o)
    BY <2>1 DEF SendRevoke, To
  <2>2. CASE RevokeRefresh(o)
    BY <2>2 DEF RevokeRefresh, Consume, To
  <2>3. CASE RevokeOther(o)
    BY <2>3 DEF RevokeOther, To
  <2>4. CASE CommandFails(o)
    BY <2>4 DEF CommandFails, To
  <2> QED  BY <1>5, <2>1, <2>2, <2>3, <2>4 DEF Logout
<1>6. ASSUME NEW key \in SignInKeys, Expire(key) PROVE Presented'
  BY <1>6 DEF Expire
<1>7. CASE UNCHANGED SignInVars
  BY <1>7 DEF SignInVars
<1> QED  BY <1>1, <1>2, <1>3, <1>4, <1>5, <1>6, <1>7 DEF SignInNext

\* The verifier was compared with the challenge of the code's session
\* (oidc/token.py _handle_code_exchange).
LEMMA VerifiersStep ==
  ASSUME SignInInv, [SignInNext]_SignInVars
  PROVE  VerifiersMatched'
<1> SUFFICES ASSUME NEW e \in Exchanges, stage'[e] \in {"store", "done"}
             PROVE  VerifierMatches(e)'
  BY DEF VerifiersMatched
<1>1. stage[e] \in {"delete", "store", "done"} /\ VerifierMatches(e)
  BY RequestsKeep DEF SignInInv, VerifiersMatched, SignInRequests
<1>2. /\ LoginOf(e) \in Logins /\ stage[LoginOf(e)] = "done"
  BY <1>1, SignInKeyNames DEF SignInInv, Presented, Going, LoginOf
<1>3. form'[e] = form[e] /\ shown'[e] = shown[e] /\ shown'[LoginOf(e)] = shown[LoginOf(e)]
  BY <1>1, <1>2, RequestsKeep DEF SignInRequests
<1>4. LoginOf(e)' = LoginOf(e)
  BY <1>3 DEF LoginOf
<1>5. SessionOf(LoginOf(e))' = SessionOf(LoginOf(e))
  BY <1>3, <1>4 DEF SessionOf
<1> QED  BY <1>1, <1>3, <1>5 DEF VerifierMatches

\* GET finds only what no DEL has removed (oidc/session.py consume_auth_code).
LEMMA ReadStep ==
  ASSUME SignInInv, [SignInNext]_SignInVars
  PROVE  ReadInTime'
<1> USE SignInAssumption DEF SignInInv, SignInTypeOK, CommandsOfKinds, KeysMade, ReadInTime, Going, SignInRequests
<1>1. ASSUME NEW s \in Sessions, Authorize(s) PROVE ReadInTime'
  BY <1>1 DEF Authorize
<1>2. ASSUME NEW l \in Logins, Login(l) PROVE ReadInTime'
  <2>1. CASE SubmitLogin(l)
    BY ZenonT(30), <2>1 DEF SubmitLogin, Get, To
  <2>2. CASE ConsumeState(l)
    BY <2>2 DEF ConsumeState, Consume, To
  <2>3. CASE CheckPassword(l)
    BY <2>3 DEF CheckPassword, To
  <2>4. CASE SetKey(l)
    BY <2>4 DEF SetKey, To
  <2>5. CASE CommandFails(l)
    BY <2>5 DEF CommandFails, To
  <2> QED  BY <1>2, <2>1, <2>2, <2>3, <2>4, <2>5 DEF Login
<1>3. ASSUME NEW e \in Exchanges, ExchangeCode(e) PROVE ReadInTime'
  <2>1. CASE SendCode(e)
    BY <2>1 DEF SendCode, Get, To
  <2>2. CASE ConsumeCode(e)
    BY <2>2 DEF ConsumeCode, Consume, To
  <2>3. CASE SetKey(e)
    BY <2>3 DEF SetKey, To
  <2>4. CASE CommandFails(e)
    BY <2>4 DEF CommandFails, To
  <2> QED  BY <1>3, <2>1, <2>2, <2>3, <2>4 DEF ExchangeCode
<1>4. ASSUME NEW r \in Refreshes, Refresh(r) PROVE ReadInTime'
  <2>1. CASE SendRefresh(r)
    BY <2>1 DEF SendRefresh, Get, To
  <2>2. CASE SignAccessToken(r)
    BY <2>2 DEF SignAccessToken, To
  <2> QED  BY <1>4, <2>1, <2>2 DEF Refresh
<1>5. ASSUME NEW o \in Logouts, Logout(o) PROVE ReadInTime'
  <2>1. CASE SendRevoke(o)
    BY <2>1 DEF SendRevoke, To
  <2>2. CASE RevokeRefresh(o)
    BY <2>2 DEF RevokeRefresh, Consume, To
  <2>3. CASE RevokeOther(o)
    BY <2>3 DEF RevokeOther, To
  <2>4. CASE CommandFails(o)
    BY <2>4 DEF CommandFails, To
  <2> QED  BY <1>5, <2>1, <2>2, <2>3, <2>4 DEF Logout
<1>6. ASSUME NEW key \in SignInKeys, Expire(key) PROVE ReadInTime'
  BY <1>6 DEF Expire
<1>7. CASE UNCHANGED SignInVars
  BY <1>7 DEF SignInVars
<1> QED  BY <1>1, <1>2, <1>3, <1>4, <1>5, <1>6, <1>7 DEF SignInNext

\* The invariant of signing in holds (infra/idp/oidc).
LEMMA SignInInvariant == SignInSpec => []SignInInv
<1>1. SignInInit => SignInInv
  BY SignInAssumption
     DEF SignInInit, SignInInv, SignInTypeOK, CommandsOfKinds, KeysMade, Presented, Going,
         VerifiersMatched, ReadInTime, SignInRequests, SignInKeys
<1>2. SignInInv /\ [SignInNext]_SignInVars => SignInInv'
  BY SignInTypeStep, KeysMadeStep, PresentedStep, VerifiersStep, ReadStep DEF SignInInv
<1> QED  BY <1>1, <1>2, PTL DEF SignInSpec

\* For any number of tabs, forms and clients: a token is traced to a password and
\* a verifier, and a code serves twice only between GET and DEL.
THEOREM CodesHoldAlways == SignInSpec => []CodesHold
<1>1. SignInInv => CodesHold
  <2> SUFFICES ASSUME SignInInv PROVE CodesHold
    OBVIOUS
  <2> USE SignInAssumption DEF SignInInv, Presented, Going, SignInRequests
  <2>1. ASSUME NEW e \in Exchanges, stage[e] = "done"
        PROVE  form[LoginOf(e)] /\ form[e] = SessionOf(LoginOf(e))
    <3>1. LoginOf(e) \in Logins /\ stage[LoginOf(e)] = "done"
      BY <2>1, SignInKeyNames DEF LoginOf
    <3> QED  BY <2>1, <3>1 DEF VerifiersMatched, VerifierMatches
  <2>2. TokenTracesToLogin
    BY <2>1 DEF TokenTracesToLogin
  <2>3. ReusedOnlyTogether
    BY DEF ReusedOnlyTogether, ReadInTime
  <2> QED  BY <2>2, <2>3 DEF CodesHold
<1> QED  BY <1>1, SignInInvariant, PTL

\* For any number of refreshes and revocations: a token that was revoked is not
\* good again (oidc/token.py, oidc/refresh.py).
THEOREM RevokedStaysOutAlways == SignInSpec => []RevokedStaysOut
<1>1. SignInInv => RevokedStaysOut
  BY SignInAssumption DEF SignInInv, RevokedStaysOut, ReadInTime, Going, SignInRequests
<1> QED  BY <1>1, SignInInvariant, PTL

-----------------------------------------------------------------------------
(***************************************************************************)
(* The agents' keys                                                        *)
(***************************************************************************)

RowFollows ==
  /\ \A r \in wrote : step[r] \in {"answer", "ended"}
  /\ \A r \in KeyRequests : step[r] = "answer" => r \in wrote
  /\ row.key \in wrote \cup {NoKey}
  /\ row.key # NoKey => row.version = given[row.key].version
  /\ \A r \in KeyRequests : step[r] = "write" =>
       /\ given[r].seen \in wrote \cup {NoKey}
       /\ given[r].seen = row.key => given[r].version = row.version + 1

VersionsCount ==
  /\ row.version <= Cardinality(wrote)
  /\ \A r \in KeyRequests : step[r] = "write" => given[r].version <= Cardinality(wrote) + 1

KidsGrow ==
  raced = {} =>
    /\ \A q \in wrote : given[q].version <= row.version
    /\ \A q, r \in wrote : q # r => given[q].version # given[r].version

RunsFollow ==
  /\ \A b, c \in Runs : Running(b) /\ Running(c) => b = c
  /\ \A b \in Runs :
       /\ run[b] = "idle" => step[b] = "idle"
       /\ run[b] \in {"key", "kid", "saved"} => b \in wrote
       /\ run[b] = "kid" => saved.key = b
       /\ run[b] = "saved" /\ row.key = b =>
            /\ CanSign
            /\ \A c \in Runs : Running(c) => run[c] = "waiting" /\ c \notin wrote

KeyInv == AgentKeysTypeOK /\ RowFollows /\ VersionsCount /\ KidsGrow /\ RunsFollow

\* How many requests can still write the row.
LEMMA WritersCounted ==
  ASSUME NEW W \in SUBSET KeyRequests
  PROVE  /\ Cardinality(W) \in Nat /\ Cardinality(KeyRequests) \in Nat
         /\ \A r \in KeyRequests \ W :
              /\ Cardinality(W \cup {r}) = Cardinality(W) + 1
              /\ Cardinality(W) + 1 <= Cardinality(KeyRequests)
<1>1. IsFiniteSet(KeyRequests)
  BY KeyAssumption, FS_Union DEF KeyRequests
<1>2. IsFiniteSet(W)
  BY <1>1, FS_Subset
<1>3. ASSUME NEW r \in KeyRequests \ W
      PROVE  /\ Cardinality(W \cup {r}) = Cardinality(W) + 1
             /\ Cardinality(W \cup {r}) <= Cardinality(KeyRequests)
  BY <1>1, <1>2, FS_AddElement, FS_Subset
<1> QED  BY <1>1, <1>2, <1>3, FS_CardinalityType

\* Versions are numbers (agents/rotate.py:29).
LEMMA VersionsNat == Versions \subseteq Nat
  BY DEF Versions

\* A request that has not written finds a version that fits (agents/rotate.py:29).
LEMMA VersionFits ==
  ASSUME NEW W \in SUBSET KeyRequests, NEW r \in KeyRequests \ W,
         NEW v \in Nat, v <= Cardinality(W)
  PROVE  v + 1 \in Versions
<1>1. Cardinality(W) \in Nat /\ Cardinality(KeyRequests) \in Nat
  BY WritersCounted
<1>2. Cardinality(W) + 1 <= Cardinality(KeyRequests)
  BY WritersCounted
<1> QED  BY <1>1, <1>2 DEF Versions

\* Every step keeps row, requests and files to their types.
LEMMA AgentKeysTypeStep ==
  ASSUME KeyInv, [KeyNext]_KeyVars
  PROVE  AgentKeysTypeOK'
<1> DEFINE Goal == AgentKeysTypeOK'
<1> USE KeyAssumption DEF KeyInv, AgentKeysTypeOK, RowFollows, VersionsCount, KeyRequests, Versions
<1>0. \A r \in KeyRequests : step[r] \in {"idle", "sent", "write"} => r \notin wrote
  OBVIOUS
<1>C. /\ Cardinality(wrote) \in Nat /\ Cardinality(KeyRequests) \in Nat
      /\ \A r \in KeyRequests \ wrote :
           /\ Cardinality(wrote \cup {r}) = Cardinality(wrote) + 1
           /\ Cardinality(wrote) + 1 <= Cardinality(KeyRequests)
  BY WritersCounted
<1>1. ASSUME NEW r \in KeyRequests, KeyRequest(r) PROVE Goal
  <2>1. CASE ReadRow(r)
    <3>1. r \in KeyRequests \ wrote
      BY <2>1, <1>0 DEF ReadRow
    <3>2. row.version \in Nat /\ row.version <= Cardinality(wrote)
      OBVIOUS
    <3>3. VersionAfter \in Versions
      BY <3>1, <3>2, VersionFits DEF VersionAfter
    <3> HIDE DEF Versions
    <3> QED  BY <2>1, <3>3 DEF ReadRow, Proceed
  <2>2. CASE RefuseRequest(r)
    BY <2>2, <1>0, <1>C DEF RefuseRequest, Proceed
  <2>3. CASE WriteRow(r)
    BY <2>3, <1>0, <1>C DEF WriteRow, Proceed
  <2>4. CASE RowFails(r)
    BY <2>4, <1>0, <1>C DEF RowFails, Proceed
  <2> QED  BY <1>1, <2>1, <2>2, <2>3, <2>4 DEF KeyRequest
<1>2. ASSUME NEW w \in Rotates, SendRotate(w) PROVE Goal
  BY <1>2, <1>0, <1>C DEF SendRotate, Proceed
<1>3. ASSUME NEW w \in Rotates, AnswerRotate(w) PROVE Goal
  BY <1>3, <1>0, <1>C DEF AnswerRotate, Proceed
<1>4. ASSUME NEW b \in Runs, Bootstrap(b) PROVE Goal
  <2>1. CASE PostRegister(b)
    BY <2>1, <1>0, <1>C DEF PostRegister, Proceed
  <2>2. CASE RegisterAnswered(b)
    BY <2>2, <1>0, <1>C DEF RegisterAnswered, Proceed
  <2>3. CASE SaveKey(b)
    BY <2>3, <1>0, <1>C DEF SaveKey
  <2>4. CASE SaveKid(b)
    BY <2>4, <1>0, <1>C DEF SaveKid
  <2>5. CASE RunFails(b)
    BY <2>5, <1>0, <1>C DEF RunFails
  <2> QED  BY <1>4, <2>1, <2>2, <2>3, <2>4, <2>5 DEF Bootstrap
<1>5. CASE UNCHANGED KeyVars
  BY <1>5, <1>0, <1>C DEF KeyVars
<1> QED  BY <1>1, <1>2, <1>3, <1>4, <1>5 DEF KeyNext

\* A request writes once, with what it has read (agents/register.py, rotate.py).
LEMMA RowStep ==
  ASSUME KeyInv, [KeyNext]_KeyVars
  PROVE  RowFollows'
<1> DEFINE Goal == RowFollows'
<1> USE KeyAssumption DEF KeyInv, AgentKeysTypeOK, RowFollows, KeyRequests
<1>1. ASSUME NEW r \in KeyRequests, KeyRequest(r) PROVE Goal
  <2>1. CASE ReadRow(r)
    BY <2>1 DEF ReadRow, VersionAfter, Proceed
  <2>2. CASE RefuseRequest(r)
    BY <2>2 DEF RefuseRequest, Proceed
  <2>3. CASE WriteRow(r)
    BY <2>3 DEF WriteRow, Proceed
  <2>4. CASE RowFails(r)
    BY <2>4 DEF RowFails, Proceed
  <2> QED  BY <1>1, <2>1, <2>2, <2>3, <2>4 DEF KeyRequest
<1>2. ASSUME NEW w \in Rotates, SendRotate(w) PROVE Goal
  BY <1>2 DEF SendRotate, Proceed
<1>3. ASSUME NEW w \in Rotates, AnswerRotate(w) PROVE Goal
  BY <1>3 DEF AnswerRotate, Proceed
<1>4. ASSUME NEW b \in Runs, Bootstrap(b) PROVE Goal
  <2>1. CASE PostRegister(b)
    BY <2>1 DEF PostRegister, Proceed, RunsFollow
  <2>2. CASE RegisterAnswered(b)
    BY <2>2 DEF RegisterAnswered, Proceed
  <2>3. CASE SaveKey(b)
    BY <2>3 DEF SaveKey
  <2>4. CASE SaveKid(b)
    BY <2>4 DEF SaveKid
  <2>5. CASE RunFails(b)
    BY <2>5 DEF RunFails
  <2> QED  BY <1>4, <2>1, <2>2, <2>3, <2>4, <2>5 DEF Bootstrap
<1>5. CASE UNCHANGED KeyVars
  BY <1>5 DEF KeyVars
<1> QED  BY <1>1, <1>2, <1>3, <1>4, <1>5 DEF KeyNext

\* A version is no greater than the number of writes (agents/rotate.py:29).
LEMMA CountStep ==
  ASSUME KeyInv, [KeyNext]_KeyVars
  PROVE  VersionsCount'
<1> DEFINE Goal == VersionsCount'
<1> USE KeyAssumption DEF KeyInv, AgentKeysTypeOK, RowFollows, VersionsCount, KeyRequests, Versions
<1>0. \A r \in KeyRequests : step[r] \in {"idle", "sent", "write"} => r \notin wrote
  OBVIOUS
<1>C. /\ Cardinality(wrote) \in Nat /\ Cardinality(KeyRequests) \in Nat
      /\ \A r \in KeyRequests \ wrote :
           /\ Cardinality(wrote \cup {r}) = Cardinality(wrote) + 1
           /\ Cardinality(wrote) + 1 <= Cardinality(KeyRequests)
  BY WritersCounted
<1>1. ASSUME NEW r \in KeyRequests, KeyRequest(r) PROVE Goal
  <2>1. CASE ReadRow(r)
    BY <2>1, <1>0, <1>C DEF ReadRow, VersionAfter, Proceed
  <2>2. CASE RefuseRequest(r)
    BY <2>2, <1>0, <1>C DEF RefuseRequest, Proceed
  <2>3. CASE WriteRow(r)
    BY <2>3, <1>0, <1>C DEF WriteRow, Proceed
  <2>4. CASE RowFails(r)
    BY <2>4, <1>0, <1>C DEF RowFails, Proceed
  <2> QED  BY <1>1, <2>1, <2>2, <2>3, <2>4 DEF KeyRequest
<1>2. ASSUME NEW w \in Rotates, SendRotate(w) PROVE Goal
  BY <1>2, <1>0, <1>C DEF SendRotate, Proceed
<1>3. ASSUME NEW w \in Rotates, AnswerRotate(w) PROVE Goal
  BY <1>3, <1>0, <1>C DEF AnswerRotate, Proceed
<1>4. ASSUME NEW b \in Runs, Bootstrap(b) PROVE Goal
  <2>1. CASE PostRegister(b)
    BY <2>1, <1>0, <1>C DEF PostRegister, Proceed
  <2>2. CASE RegisterAnswered(b)
    BY <2>2, <1>0, <1>C DEF RegisterAnswered, Proceed
  <2>3. CASE SaveKey(b)
    BY <2>3, <1>0, <1>C DEF SaveKey
  <2>4. CASE SaveKid(b)
    BY <2>4, <1>0, <1>C DEF SaveKid
  <2>5. CASE RunFails(b)
    BY <2>5, <1>0, <1>C DEF RunFails
  <2> QED  BY <1>4, <2>1, <2>2, <2>3, <2>4, <2>5 DEF Bootstrap
<1>5. CASE UNCHANGED KeyVars
  BY <1>5, <1>0, <1>C DEF KeyVars
<1> QED  BY <1>1, <1>2, <1>3, <1>4, <1>5 DEF KeyNext

\* Without a race versions only grow (agents/rotate.py:29, register.py:94).
LEMMA KidsStep ==
  ASSUME KeyInv, [KeyNext]_KeyVars
  PROVE  KidsGrow'
<1> DEFINE Goal == KidsGrow'
<1> USE KeyAssumption DEF KeyInv, AgentKeysTypeOK, RowFollows, KeyRequests, KidsGrow
<1>1. ASSUME NEW r \in KeyRequests, KeyRequest(r) PROVE Goal
  <2>1. CASE ReadRow(r)
    BY <2>1 DEF ReadRow, VersionAfter, Proceed
  <2>2. CASE RefuseRequest(r)
    BY <2>2 DEF RefuseRequest, Proceed
  <2>3. CASE WriteRow(r)
    <3>1. CASE raced' # {}
      BY <3>1
    <3>2. CASE raced' = {}
      <4>1. raced = {} /\ row.key = given[r].seen
        BY <2>3, <3>2 DEF WriteRow
      <4>2. r \notin wrote /\ given[r].version = row.version + 1
        BY <2>3, <4>1 DEF WriteRow
      <4>3. given' = given /\ wrote' = wrote \cup {r} /\ row'.version = given[r].version
        BY <2>3 DEF WriteRow
      <4>4. \A q \in wrote : given[q].version \in Nat /\ given[q].version <= row.version
        BY <4>1, VersionsNat
      <4>5. row.version \in Nat
        BY VersionsNat
      <4> QED  BY <4>1, <4>2, <4>3, <4>4, <4>5
    <3> QED  BY <3>1, <3>2
  <2>4. CASE RowFails(r)
    BY <2>4 DEF RowFails, Proceed
  <2> QED  BY <1>1, <2>1, <2>2, <2>3, <2>4 DEF KeyRequest
<1>2. ASSUME NEW w \in Rotates, SendRotate(w) PROVE Goal
  BY <1>2 DEF SendRotate, Proceed
<1>3. ASSUME NEW w \in Rotates, AnswerRotate(w) PROVE Goal
  BY <1>3 DEF AnswerRotate, Proceed
<1>4. ASSUME NEW b \in Runs, Bootstrap(b) PROVE Goal
  <2>1. CASE PostRegister(b)
    BY <2>1 DEF PostRegister, Proceed, RunsFollow
  <2>2. CASE RegisterAnswered(b)
    BY <2>2 DEF RegisterAnswered, Proceed
  <2>3. CASE SaveKey(b)
    BY <2>3 DEF SaveKey
  <2>4. CASE SaveKid(b)
    BY <2>4 DEF SaveKid
  <2>5. CASE RunFails(b)
    BY <2>5 DEF RunFails
  <2> QED  BY <1>4, <2>1, <2>2, <2>3, <2>4, <2>5 DEF Bootstrap
<1>5. CASE UNCHANGED KeyVars
  BY <1>5 DEF KeyVars
<1> QED  BY <1>1, <1>2, <1>3, <1>4, <1>5 DEF KeyNext

\* One run of the script at a time writes the files (bootstrap_register.py:50).
LEMMA RunsStep ==
  ASSUME KeyInv, [KeyNext]_KeyVars
  PROVE  RunsFollow'
<1> DEFINE Goal == RunsFollow'
<1> USE KeyAssumption DEF KeyInv, AgentKeysTypeOK, RowFollows, KeyRequests, RunsFollow, Running, CanSign
<1>1. ASSUME NEW r \in KeyRequests, KeyRequest(r) PROVE Goal
  <2>1. CASE ReadRow(r)
    BY <2>1 DEF ReadRow, VersionAfter, Proceed
  <2>2. CASE RefuseRequest(r)
    BY <2>2 DEF RefuseRequest, Proceed
  <2>3. CASE WriteRow(r)
    BY <2>3 DEF WriteRow, Proceed
  <2>4. CASE RowFails(r)
    BY <2>4 DEF RowFails, Proceed
  <2> QED  BY <1>1, <2>1, <2>2, <2>3, <2>4 DEF KeyRequest
<1>2. ASSUME NEW w \in Rotates, SendRotate(w) PROVE Goal
  BY <1>2 DEF SendRotate, Proceed
<1>3. ASSUME NEW w \in Rotates, AnswerRotate(w) PROVE Goal
  BY <1>3 DEF AnswerRotate, Proceed
<1>4. ASSUME NEW b \in Runs, Bootstrap(b) PROVE Goal
  <2>1. CASE PostRegister(b)
    BY <2>1 DEF PostRegister, Proceed, RunsFollow
  <2>2. CASE RegisterAnswered(b)
    BY <2>2 DEF RegisterAnswered, Proceed
  <2>3. CASE SaveKey(b)
    BY <2>3 DEF SaveKey
  <2>4. CASE SaveKid(b)
    BY <2>4 DEF SaveKid
  <2>5. CASE RunFails(b)
    BY <2>5 DEF RunFails
  <2> QED  BY <1>4, <2>1, <2>2, <2>3, <2>4, <2>5 DEF Bootstrap
<1>5. CASE UNCHANGED KeyVars
  BY <1>5 DEF KeyVars
<1> QED  BY <1>1, <1>2, <1>3, <1>4, <1>5 DEF KeyNext

\* The invariant of the agent's key holds (agents, bootstrap_register.py).
LEMMA KeyInvariant == KeySpec => []KeyInv
<1>1. KeyInit => KeyInv
  BY KeyAssumption, WritersCounted
     DEF KeyInit, KeyInv, AgentKeysTypeOK, RowFollows, VersionsCount, KidsGrow, RunsFollow,
         Running, Versions, KeyRequests
<1>2. KeyInv /\ [KeyNext]_KeyVars => KeyInv'
  BY AgentKeysTypeStep, RowStep, CountStep, KidsStep, RunsStep DEF KeyInv
<1> QED  BY <1>1, <1>2, PTL DEF KeySpec

\* For any number of registrations and rotations: kids differ unless two writes
\* raced, and a run that ends well repairs the agent's files.
THEOREM AgentKeysHoldAlways == KeySpec => []AgentKeysHold
<1>1. KeyInv => AgentKeysHold
  BY DEF KeyInv, KidsGrow, RunsFollow, AgentKeysHold, KidNamesOneKey, BootstrapRepairs
<1> QED  BY <1>1, KeyInvariant, PTL

-----------------------------------------------------------------------------
(***************************************************************************)
(* Files                                                                   *)
(***************************************************************************)

\* A load that began after the last edit, and has not failed.
Current(l) == load[l] \in {"users", "done"} /\ begunAt[l] = edits

ReloadInv ==
  /\ ReloadTypeOK
  /\ ~refused => Separate(inForce)
  /\ \A l \in Loads : begunAt[l] <= edits
  /\ \A l \in Loads : Current(l) =>
       /\ badFiles \cap Agents = {}
       /\ load[Boot] \in {"users", "done"} => inForce = capFiles
       /\ \A u \in UsersListed : u \notin todo[l] => userRows[u] = userFiles[u]

\* A process that starts has an empty dictionary (agents/loader.py).
LEMMA NothingInForce ==
  None \in [Agents -> Capabilities \cup {{}}] /\ Separate(None)
  BY DEF None, Separate, Agents

\* load_capabilities reads every file, or fails (agents/loader.py).
LEMMA CapabilitiesRead ==
  ASSUME ReloadTypeOK, NEW caps, LoadCapabilities(caps)
  PROVE  /\ caps \in [Agents -> Capabilities \cup {{}}]
         /\ badFiles \cap Agents = {} => caps = capFiles
<1>1. PICK read : caps = [a \in Agents |-> IF a \in read THEN capFiles[a] ELSE {}]
                  /\ (badFiles \cap Agents = {} => read = Agents)
  BY DEF LoadCapabilities
<1> QED  BY <1>1 DEF ReloadTypeOK

\* The invariant of loading the files holds (infra/idp/main.py).
LEMMA ReloadInvariant == ReloadSpec => []ReloadInv
<1> USE LoadAssumption DEF ReloadTypeOK, Loads
<1>1. ReloadInit => ReloadInv
  <2> SUFFICES ASSUME ReloadInit PROVE ReloadInv
    OBVIOUS
  <2>1. ReloadTypeOK
    <3>1. inForce \in [Agents -> Capabilities \cup {{}}]
      BY NothingInForce DEF ReloadInit
    <3>2. userRows \in [Users -> Grants \cup {NoFile}]
      BY DEF ReloadInit
    <3>3. load \in [Loads -> {"idle", "users", "done", "failed"}]
      BY DEF ReloadInit
    <3>4. todo \in [Loads -> SUBSET Users] /\ \A l \in Loads : todo[l] = {}
      BY DEF ReloadInit
    <3>5. edits \in 0..MaxEdits /\ begunAt \in [Loads -> 0..MaxEdits]
      BY DEF ReloadInit
    <3> QED  BY <3>1, <3>2, <3>3, <3>4, <3>5 DEF ReloadInit
  <2>2. Separate(inForce)
    BY NothingInForce DEF ReloadInit
  <2> QED  BY <2>1, <2>2 DEF ReloadInit, ReloadInv, Current
<1>2. ReloadInv /\ [ReloadNext]_FileVars => ReloadInv'
  <2> SUFFICES ASSUME ReloadInv, [ReloadNext]_FileVars PROVE ReloadInv'
    OBVIOUS
  <2> USE DEF ReloadInv, Current, UsersListed
  <2>1. CASE Edit
    BY <2>1 DEF Edit
  <2>2. CASE Restart
    BY <2>2, NothingInForce DEF Restart, fileVars
  <2>3. ASSUME NEW l \in Loads, Begin(l) PROVE ReloadInv'
    <3>1. /\ inForce' \in [Agents -> Capabilities \cup {{}}]
          /\ badFiles \cap Agents = {} => inForce' = capFiles
      BY <2>3, CapabilitiesRead DEF Begin
    <3>2. Accepted(inForce') => badFiles \cap Agents = {} /\ Separate(inForce')
      BY DEF Accepted
    <3>3. ReloadTypeOK'
      BY <2>3, <3>1 DEF Begin, fileVars
    <3>4. ~refused' => Separate(inForce)'
      BY <2>3, <3>2 DEF Begin, Separate
    <3>5. begunAt'[l] = edits /\ \A m \in Loads : begunAt'[m] <= edits'
      BY <2>3 DEF Begin, fileVars
    <3>6. ASSUME NEW m \in Loads, Current(m)'
          PROVE  /\ badFiles \cap Agents = {} /\ inForce' = capFiles
                 /\ \A u \in UsersListed : u \notin todo'[m] => userRows[u] = userFiles[u]
      BY <2>3, <3>1, <3>2, <3>6 DEF Begin, fileVars
    <3> QED  BY <2>3, <3>3, <3>4, <3>5, <3>6 DEF Begin, fileVars
  <2>4. ASSUME NEW l \in Loads, LoadFails(l) PROVE ReloadInv'
    BY <2>4 DEF LoadFails, fileVars
  <2>5. ASSUME NEW l \in Loads, LoadEnds(l) PROVE ReloadInv'
    BY <2>5 DEF LoadEnds, fileVars
  <2>6. ASSUME NEW l \in Loads, NEW u \in Users, LoadUser(l, u) PROVE ReloadInv'
    BY <2>6 DEF LoadUser, Upsert, fileVars
  <2>7. CASE UNCHANGED FileVars
    BY <2>7 DEF FileVars
  <2> QED  BY <2>1, <2>2, <2>3, <2>4, <2>5, <2>6, <2>7 DEF ReloadNext
<1> QED  BY <1>1, <1>2, PTL DEF ReloadSpec

\* For any agents, users, edits and overlapping reloads: what is in force is
\* separated and current, but for a reload that was refused.
THEOREM ReloadsHoldAlways == ReloadSpec => []ReloadsHold
<1>1. ReloadInv => ReloadsHold
  BY DEF ReloadInv, Current, UsersListed, ReloadsHold, SeparateUnlessRefused, AnsweredReloadHolds,
         Loads, ReloadTypeOK
<1> QED  BY <1>1, ReloadInvariant, PTL

-----------------------------------------------------------------------------
(***************************************************************************)
(* All parts                                                               *)
(***************************************************************************)

\* The run of all parts together shows nothing that the parts do not: a
\* behaviour of PartsSpec is one of each of them, held still in between.
LEMMA PartsAreParts == PartsSpec => KeysSpec /\ SignInSpec /\ KeySpec /\ ReloadSpec
<1>1. PartsInit => KeysInit /\ SignInInit /\ KeyInit /\ ReloadInit
  BY DEF PartsInit
<1>2. [PartsNext]_PartsVars => [KeysNext]_KeysVars
  BY DEF PartsNext, PartsVars, KeysVars
<1>3. [PartsNext]_PartsVars => [SignInNext]_SignInVars
  BY DEF PartsNext, PartsVars, SignInVars
<1>4. [PartsNext]_PartsVars => [KeyNext]_KeyVars
  BY DEF PartsNext, PartsVars, KeyVars
<1>5. [PartsNext]_PartsVars => [ReloadNext]_FileVars
  BY DEF PartsNext, PartsVars, FileVars
<1> QED  BY <1>1, <1>2, <1>3, <1>4, <1>5, PTL DEF PartsSpec, KeysSpec, SignInSpec, KeySpec, ReloadSpec

\* All parts of the IdP beside the token exchange keep to their types, for all
\* values of their constants (kms, jwks, oidc, agents, users).
THEOREM IdpPartsTypeCorrect == PartsSpec => []PartsTypeOK
<1>1. KeysInv /\ SignInInv /\ KeyInv /\ ReloadInv => PartsTypeOK
  BY KeysTypeParts DEF KeysInv, SignInInv, KeyInv, ReloadInv, PartsTypeOK
<1> QED  BY <1>1, PartsAreParts, KeysInvariant, SignInInvariant, KeyInvariant, ReloadInvariant, PTL
=============================================================================
