----------------------------- MODULE SigningKeys -----------------------------
(***************************************************************************)
(* The IdP's signing keys (infra/idp/kms, infra/idp/jwks) and the two      *)
(* caches that verify with them: the gateway's (jwt_token/jwks_cache.py)   *)
(* and an agent's (agents/common/auth.py).                                 *)
(*                                                                         *)
(* A kid is the version number it ends in.  The IdP is one process whose   *)
(* key functions do not await, so a rotation and its key files are one     *)
(* step, unless the process is killed in it; the rows, the publication and *)
(* the requests of the caches are steps of their own.                      *)
(***************************************************************************)
EXTENDS Integers, Sequences, SequencesExt

CONSTANTS
  MaxVersion,   \* bound: rotations stop there
  MaxCrashes,   \* bound: of the IdP
  MaxMinutes,   \* bound: of the clock
  Rotations,    \* requests to /admin/rotate-idp-key
  Verifies,     \* calls of verify_delegated_token in one agent
  JwksTtl,      \* life of the IdP's cached document (CACHE_TTL_SEC, 60 s)
  TokenTtl,     \* life of a token (TOKEN_EXCHANGE_TTL_SEC, 120 s)
  GatewayTtl,   \* age at which the gateway fetches again (600 s)
  AgentTtl,     \* life of the entries of the agent's cache (600 s)
  MaxKids       \* keys the gateway keeps (_MAX_KIDS)

Kids == 1..MaxVersion
NoKid == 0
Document == 0       \* the cache entry of an agent that is the whole document
                    \* A time before every other, by more than any life:
Unset == -(JwksTtl + TokenTtl + GatewayTtl + AgentTtl)
Latency == 1        \* ticks that may pass while an answer is on its way (5 s)

ASSUME KeysAssumption ==
  /\ MaxVersion \in Nat \ {0} /\ MaxMinutes \in Nat /\ MaxCrashes \in Nat
  /\ {JwksTtl, TokenTtl, GatewayTtl, AgentTtl} \subseteq Nat \ {0}
  /\ MaxKids \in Nat \ {0, 1}

VARIABLES
  idp,          \* is the process "up", or "down" and to be started again?
  meta,         \* meta.json: its active and its previous kid
  torn,         \* was the process killed while it wrote meta.json?
  keyFiles,     \* how often the files of a kid's key were written
  rows,         \* status of each kid in table jwks_rotation
  jwks,         \* _cache_keys and _cache_ts, and whether there are any
  rotation,     \* of each rotation, what it waits for, its new and its old kid
  gateway,      \* the gateway's cache and the lookup that holds its lock
  verify,       \* of each call in the agent, what it waits for
  held,         \* the agent's cache: when each entry was put there
  minute,       \* the clock
  crashes,
  \* History.
  activeFrom,   \* when a kid became the active one
  failedAt      \* when a rotation last failed after its keys had changed

KeysVars == <<idp, meta, torn, keyFiles, rows, jwks, rotation, gateway, verify,
              held, minute, crashes, activeFrom, failedAt>>

Times == {Unset} \cup 0..MaxMinutes
Docs == UNION {[1..n -> Kids] : n \in 0..2}

KeysTypeOK ==
  /\ idp \in {"up", "down"} /\ torn \in BOOLEAN
  /\ meta \in [active : Kids \cup {NoKid}, previous : Kids \cup {NoKid}]
  /\ keyFiles \in [Kids -> 0..MaxCrashes + 1]
  /\ rows \in [Kids -> {"none", "active", "previous"}]
  /\ jwks \in [keys : Docs, at : Times]
  /\ rotation \in [Rotations -> [pc : {"idle", "active", "previous", "done", "failed"},
                                 new : Kids \cup {NoKid}, old : Kids \cup {NoKid}]]
  /\ gateway \in [pc : {"idle", "stale", "missed", "refused"}, kid : Kids \cup {NoKid},
                  doc : Docs, age : 0..Latency, keys : Seq(Kids), fetchedAt : Times,
                  fetched : BOOLEAN, excused : BOOLEAN]
  /\ Len(gateway.keys) <= MaxKids /\ IsInjective(gateway.keys)
  /\ verify \in [Verifies -> [pc : {"idle", "fetch", "refused"}, kid : Kids \cup {NoKid},
                              doc : Docs, age : 0..Latency]]
  /\ held \in [Kids \cup {Document} -> Times]
  /\ activeFrom \in [Kids -> Times] /\ failedAt \in Times
  /\ minute \in 0..MaxMinutes /\ crashes \in 0..MaxCrashes

KeysInit ==
  /\ idp = "down" /\ torn = FALSE
  /\ meta = [active |-> NoKid, previous |-> NoKid]
  /\ keyFiles = [k \in Kids |-> 0]
  /\ rows = [k \in Kids |-> "none"]
  /\ jwks = [keys |-> <<>>, at |-> Unset]
  /\ rotation = [r \in Rotations |-> [pc |-> "idle", new |-> NoKid, old |-> NoKid]]
  /\ gateway = [pc |-> "idle", kid |-> NoKid, doc |-> <<>>, age |-> 0,
                keys |-> <<>>, fetchedAt |-> Unset, fetched |-> FALSE, excused |-> FALSE]
  /\ verify = [v \in Verifies |->
                [pc |-> "idle", kid |-> NoKid, doc |-> <<>>, age |-> 0]]
  /\ held = [e \in Kids \cup {Document} |-> Unset]
  /\ minute = 0 /\ crashes = 0
  /\ activeFrom = [k \in Kids |-> Unset]
  /\ failedAt = Unset

-----------------------------------------------------------------------------
(* The key store. *)

storeVars == <<idp, meta, torn, keyFiles, activeFrom>>
cacheVars == <<gateway, verify, held>>

WriteKey(k) == keyFiles' = [keyFiles EXCEPT ![k] = @ + 1]

SaveMeta(active, previous) ==
  /\ meta' = [active |-> active, previous |-> previous]
  /\ activeFrom' = [activeFrom EXCEPT ![active] = minute]

\* The version that the next key gets.
NextVersion == meta.active + 1

\* get_active_signing_key fails if the file of the active key is missing.
LoadActive == keyFiles[meta.active] > 0 /\ UNCHANGED <<keyFiles, meta, activeFrom>>
FirstKey == WriteKey(1) /\ SaveMeta(1, NoKid)

\* lifespan: init_kms makes a first key if meta.json names none, and fails if
\* meta.json cannot be parsed.
StartIdp ==
  /\ idp = "down" /\ ~torn
  /\ idp' = "up"
  /\ IF meta.active = NoKid THEN FirstKey ELSE LoadActive
  /\ UNCHANGED <<torn, rows, jwks, rotation, cacheVars, minute, crashes, failedAt>>

\* Faulty variant: meta.json is written before the file of the key.
CutShortMetaFirst ==
  /\ torn' \in BOOLEAN /\ UNCHANGED <<keyFiles, activeFrom>>
  /\ meta' = [active |-> NextVersion, previous |-> meta.active]

\* What a kill leaves of a process that makes the next key: the file and
\* meta.json are written one after the other, and meta.json is emptied before
\* it is written.
CutShort ==
  /\ WriteKey(NextVersion) /\ torn' \in BOOLEAN
  /\ UNCHANGED <<meta, activeFrom>>

\* The process is killed, while it makes a key or at any other time.
Crash ==
  /\ crashes < MaxCrashes /\ crashes' = crashes + 1
  /\ \/ idp = "up" /\ UNCHANGED <<meta, torn, keyFiles, activeFrom>>
     \/ /\ NextVersion \in Kids /\ ~torn
        /\ idp = "up" \/ meta.active = NoKid
        /\ CutShort
  /\ idp' = "down"
  /\ jwks' = [keys |-> <<>>, at |-> Unset]
  /\ rotation' = [r \in Rotations |->
       IF rotation[r].pc = "idle" THEN rotation[r]
                                  ELSE [pc |-> "failed", new |-> NoKid, old |-> NoKid]]
  /\ UNCHANGED <<rows, cacheVars, minute, failedAt>>

-----------------------------------------------------------------------------
(* POST /admin/rotate-idp-key.  SQLite executes statements in the order in *)
(* which they are handed to it, so a row changes in the step that hands    *)
(* over its statement.                                                     *)

RecordRow(k, status) == rows' = [rows EXCEPT ![k] = status]

RotateKey(r) ==
  /\ idp = "up" /\ rotation[r].pc = "idle" /\ NextVersion \in Kids
  /\ WriteKey(NextVersion)
  /\ SaveMeta(NextVersion, meta.active)
  /\ RecordRow(NextVersion, "active")
  /\ rotation' = [rotation EXCEPT ![r] =
       [pc |-> "active", new |-> NextVersion, old |-> meta.active]]
  /\ UNCHANGED <<idp, torn, jwks, cacheVars, minute, crashes, failedAt>>

RecordOld(r) == RecordRow(rotation[r].old, "previous")

RecordPrevious(r) ==
  /\ rotation[r].pc = "active"
  /\ RecordOld(r)
  /\ rotation' = [rotation EXCEPT ![r].pc = "previous"]
  /\ UNCHANGED <<storeVars, jwks, cacheVars, minute, crashes, failedAt>>

\* Faulty variant: the cached document is left as it is.
KeepCache == UNCHANGED jwks

Invalidate == jwks' = [keys |-> <<>>, at |-> Unset]

\* The publication has succeeded: invalidate_cache and the answer.
FinishRotation(r) ==
  /\ rotation[r].pc = "previous"
  /\ Invalidate
  /\ rotation' = [rotation EXCEPT ![r].pc = "done"]
  /\ UNCHANGED <<storeVars, rows, cacheVars, minute, crashes, failedAt>>

\* A row or the publication has failed: the cache is not invalidated.
FailRotation(r) ==
  /\ rotation[r].pc \in {"active", "previous"}
  /\ rotation' = [rotation EXCEPT ![r].pc = "failed"]
  /\ failedAt' = minute
  /\ UNCHANGED <<storeVars, rows, jwks, cacheVars, minute, crashes, activeFrom>>

-----------------------------------------------------------------------------
(* GET /jwks. *)

\* get_all_public_keys: the active and the previous key, if they have a file.
Present(k) == IF k # NoKid /\ keyFiles[k] > 0 THEN <<k>> ELSE <<>>

PublicKeys == Present(meta.active) \o Present(meta.previous)

Cached == jwks.keys # <<>> /\ minute - jwks.at < JwksTtl

ServedKeys == IF Cached THEN jwks.keys ELSE PublicKeys

Serve ==
  /\ idp = "up"
  /\ jwks' = IF Cached THEN jwks ELSE [keys |-> PublicKeys, at |-> minute]

\* May the document served now be an old one?  Only while a rotation has not
\* come to invalidate_cache, or failed to, for as long as the document lives.
Hanging == \/ \E r \in Rotations : rotation[r].pc \in {"active", "previous"}
           \/ minute - failedAt < JwksTtl

Listed(k) == k \in {meta.active, meta.previous}

\* May a token of this key be in force?  sign_delegated_token uses a key until
\* the next one is active.
InUse(k) == \/ k = meta.active
            \/ k < meta.active /\ minute < activeFrom[k + 1] + TokenTtl

-----------------------------------------------------------------------------
(* The gateway: JwksCache.get runs under a lock, so it is one at a time. *)

gatewayOnly == <<storeVars, rows, rotation, verify, held, minute, crashes, failedAt>>

Without(keys, k) ==
  IF k \in ToSet(keys) THEN RemoveAt(keys, CHOOSE i \in DOMAIN keys : keys[i] = k) ELSE keys

Touch(keys, k) == Append(Without(keys, k), k)

\* A document has one key or two.
Merged(keys, doc) == Touch(IF Len(doc) = 2 THEN Touch(keys, doc[1]) ELSE keys, doc[Len(doc)])

\* Faulty variant: the memory has no bound.
NewestAll(keys) == keys

Newest(keys) ==
  IF Len(keys) > MaxKids THEN SubSeq(keys, Len(keys) - MaxKids + 1, Len(keys)) ELSE keys

GatewayIdle == [gateway EXCEPT !.pc = "idle", !.kid = NoKid, !.doc = <<>>, !.age = 0,
                               !.fetched = FALSE, !.excused = FALSE]

\* What get does with the keys it has: a key it knows moves to the end of the
\* list; for one it does not know it fetches once more, or gives up.
Resolve(g, k, lastTry, fetched) ==
  IF k \in ToSet(g.keys)
    THEN [GatewayIdle EXCEPT !.keys = Touch(g.keys, k), !.fetchedAt = g.fetchedAt]
  ELSE IF lastTry
    THEN [g EXCEPT !.pc = "refused", !.kid = k, !.doc = <<>>, !.age = 0, !.fetched = fetched]
    ELSE [g EXCEPT !.pc = "missed", !.kid = k, !.doc = <<>>, !.age = 0]

GatewayGet(k) ==
  /\ gateway.pc = "idle" /\ InUse(k)
  /\ gateway' = IF minute - gateway.fetchedAt > GatewayTtl
                  THEN [gateway EXCEPT !.pc = "stale", !.kid = k]
                  ELSE Resolve(gateway, k, FALSE, FALSE)
  /\ UNCHANGED <<gatewayOnly, jwks>>

\* The IdP answers the gateway's request.
ServeGateway ==
  /\ gateway.pc \in {"stale", "missed"} /\ gateway.doc = <<>>
  /\ Serve
  /\ gateway' = [gateway EXCEPT !.doc = ServedKeys,
                   !.excused = Hanging \/ ~Listed(gateway.kid)]
  /\ UNCHANGED gatewayOnly

\* _refresh_unlocked merges the answer into the list and drops the oldest.
GatewayRefreshed ==
  /\ gateway.doc # <<>>
  /\ gateway' = Resolve([gateway EXCEPT !.keys = Newest(Merged(gateway.keys, gateway.doc)),
                                        !.fetchedAt = minute],
                        gateway.kid, gateway.pc = "missed", TRUE)
  /\ UNCHANGED <<gatewayOnly, jwks>>

\* The request or its answer is lost: logged, and the keys stay as they are.
GatewayFetchFails ==
  /\ gateway.pc \in {"stale", "missed"}
  /\ gateway' = Resolve(gateway, gateway.kid, gateway.pc = "missed", FALSE)
  /\ UNCHANGED <<gatewayOnly, jwks>>

GatewayRefuses ==
  /\ gateway.pc = "refused" /\ gateway' = GatewayIdle
  /\ UNCHANGED <<gatewayOnly, jwks>>

-----------------------------------------------------------------------------
(* The agent: the document and each of its keys are entries of one TTL     *)
(* cache, and calls overlap.                                               *)

agentOnly == <<storeVars, rows, rotation, gateway, minute, crashes, failedAt>>

Holds(e) == minute - held[e] < AgentTtl

VerifyIdle(v) == verify' = [verify EXCEPT ![v] =
                              [pc |-> "idle", kid |-> NoKid, doc |-> <<>>, age |-> 0]]

\* A document that is held is not fetched again for a key that is not in it.
Verify(v, k) ==
  /\ verify[v].pc = "idle" /\ InUse(k) /\ ~Holds(k)
  /\ verify' = [verify EXCEPT ![v].kid = k,
                              ![v].pc = IF Holds(Document) THEN "refused" ELSE "fetch"]
  /\ UNCHANGED <<agentOnly, jwks, held>>

ServeAgent(v) ==
  /\ verify[v].pc = "fetch" /\ verify[v].doc = <<>>
  /\ Serve
  /\ verify' = [verify EXCEPT ![v].doc = ServedKeys]
  /\ UNCHANGED <<agentOnly, held>>

\* _load_jwks stores the document and its keys; verification goes on with the
\* key of the token, if it is there.
AgentLoaded(v) ==
  /\ verify[v].doc # <<>>
  /\ held' = [e \in DOMAIN held |->
                IF e = Document \/ e \in ToSet(verify[v].doc) THEN minute ELSE held[e]]
  /\ IF held'[verify[v].kid] # Unset /\ minute - held'[verify[v].kid] < AgentTtl
       THEN VerifyIdle(v)
       ELSE verify' = [verify EXCEPT ![v].pc = "refused", ![v].doc = <<>>, ![v].age = 0]
  /\ UNCHANGED <<agentOnly, jwks>>

\* The token is refused: its key is unknown, or the document could not be had.
AgentRefuses(v) ==
  /\ verify[v].pc # "idle"
  /\ VerifyIdle(v)
  /\ UNCHANGED <<agentOnly, jwks, held>>

-----------------------------------------------------------------------------
Older(answer) == IF answer.doc # <<>> THEN [answer EXCEPT !.age = @ + 1] ELSE answer

\* Time passes; an answer is not on its way for longer than its timeout.
KeysTick ==
  /\ minute < MaxMinutes /\ minute' = minute + 1
  /\ gateway.age < Latency /\ \A v \in Verifies : verify[v].age < Latency /\ verify[v].pc # "refused"
  /\ gateway' = Older(gateway)
  /\ verify' = [v \in Verifies |-> Older(verify[v])]
  /\ UNCHANGED <<storeVars, rows, jwks, rotation, held, crashes, failedAt>>

IdpKeysNext ==
  \/ StartIdp \/ Crash \/ KeysTick
  \/ \E r \in Rotations : RotateKey(r) \/ RecordPrevious(r) \/ FinishRotation(r) \/ FailRotation(r)

GatewayKeysNext ==
  \/ \E k \in Kids : GatewayGet(k)
  \/ ServeGateway \/ GatewayRefreshed \/ GatewayFetchFails \/ GatewayRefuses

AgentKeysNext ==
  \E v \in Verifies :
    \/ \E k \in Kids : Verify(v, k)
    \/ ServeAgent(v) \/ AgentLoaded(v) \/ AgentRefuses(v)

KeysNext == IdpKeysNext \/ GatewayKeysNext \/ AgentKeysNext

KeysSpec == KeysInit /\ [][KeysNext]_KeysVars

-----------------------------------------------------------------------------
(* Properties. *)

(***************************************************************************)
(* Wherever the process is killed, it can be started again with the keys   *)
(* that meta.json names, and what /jwks serves is never short of one: the  *)
(* key's file is written first.  A torn meta.json is the exception, which  *)
(* nothing repairs (kms/store.py _save_meta).                              *)
(***************************************************************************)
NamedKeysExist ==
  \A k \in {meta.active, meta.previous} \ {NoKid} : keyFiles[k] > 0

(***************************************************************************)
(* A step writes no file of a key that meta.json has named before,         *)
(* not by overlapping rotations and not by the key that is made anew after *)
(* a crash: tokens in force keep the key that signed them.                 *)
(***************************************************************************)
NamedKeysStand ==
  \A k \in Kids : keyFiles'[k] # keyFiles[k] => activeFrom[k] = Unset

(***************************************************************************)
(* When no rotation is under way and none was cut short, table             *)
(* jwks_rotation has as active the key that meta.json names, and no other, *)
(* in whatever order the rows of overlapping rotations were written.  The  *)
(* first key has no row.                                                   *)
(***************************************************************************)
RowsFollow ==
  (\A r \in Rotations : rotation[r].pc \in {"idle", "done"}) =>
    \A k \in Kids \ {1} : rows[k] = "active" <=> k = meta.active

\* The three places in which a rotation is written agree where they are to, whatever
\* overlaps and wherever the process is killed: every step keeps them so
\* (kms/store.py, admin rotation).
KeysInOrder == [][NamedKeysExist' /\ NamedKeysStand /\ RowsFollow']_KeysVars

(***************************************************************************)
(* The gateway refuses a token in force, though the IdP answered its       *)
(* request, only if the token's key had been rotated away twice by then or *)
(* a rotation was hanging before invalidate_cache: the refresh on a miss   *)
(* closes every other window of a rotation (jwks_cache.py get).            *)
(***************************************************************************)
RefusalExplained == gateway.pc = "refused" /\ gateway.fetched => gateway.excused

(***************************************************************************)
(* An agent does not refresh on a miss.  It refuses the tokens of a new    *)
(* key for as long as the document it holds lives, and the one that the    *)
(* IdP had cached, but not longer (agents/common/auth.py _load_jwks).      *)
(***************************************************************************)
AgentCatchesUp ==
  \A v \in Verifies : verify[v].pc = "refused" =>
    \/ ~Listed(verify[v].kid)
    \/ minute - activeFrom[verify[v].kid] < AgentTtl + JwksTtl + Latency

\* No verifier refuses a token in force for a reason other than those of its cache:
\* the gateway's, which fetches on a miss, and an agent's, which does not.
VerifiersExplained == RefusalExplained /\ AgentCatchesUp

(***************************************************************************)
(* docs/design/方案-IdP.md:651-652: after a rotation the verifiers refresh *)
(* their caches within 10 minutes, and only after 15 does the new key sign *)
(* tokens.  So no verifier refuses a token of the active key because it    *)
(* does not know the key.                                                  *)
(***************************************************************************)
ActiveKeyKnown ==
  \A v \in Verifies : verify[v].pc = "refused" => verify[v].kid # meta.active
=============================================================================
