---------------------------- MODULE Gateway_proofs ----------------------------
(***************************************************************************)
(* The gateway's promises about tokens, proofs and revocations, for any    *)
(* set of requests, in any order of their steps.                           *)
(***************************************************************************)
EXTENDS Gateway, TLAPS

\* Before the first request there are no markers, uses or answers.
LEMMA InitIInv == Init => IInv
  BY GatewayAssumption
  DEF GatewayAssumption, Init, IInv, TypeOK, UsesMarked, OneUseBeforeExpiry,
      GuardsFresh, ProofReuseNeedsStall, Screened, RevocationHeeded, Looked,
      Steps, Results

\* A marker written by MarkUsed outlives the token, whenever its TTL was
\* computed.
LEMMA MarkerOutlives ==
  ASSUME TypeOK, NEW r \in Requests, MarkUsed(r)
  PROVE  /\ usedUntil' \in [Tokens -> Nat]
         /\ usedUntil'[TokenOf[r]] >= Exp[TokenOf[r]]
         /\ usedUntil'[TokenOf[r]] > clock
         /\ \A t \in Tokens \ {TokenOf[r]} : usedUntil'[t] = usedUntil[t]
PROOF
  <1>1. PICK sent \in readAt[r] .. clock :
          usedUntil' =
            [usedUntil EXCEPT ![TokenOf[r]] = clock + Ttl(TokenOf[r], sent)]
    BY DEF MarkUsed
  <1>2. /\ TokenOf[r] \in Tokens /\ Exp[TokenOf[r]] \in Nat
        /\ readAt[r] \in Nat /\ clock \in Nat /\ sent \in Nat /\ sent <= clock
    BY GatewayAssumption DEF GatewayAssumption, TypeOK
  <1>3. /\ Ttl(TokenOf[r], sent) \in Nat \ {0}
        /\ clock + Ttl(TokenOf[r], sent) >= Exp[TokenOf[r]]
    BY <1>2 DEF Ttl
  <1> QED
    BY <1>1, <1>2, <1>3 DEF TypeOK

\* Moving on and answering keep the bookkeeping of a request in its types.
LEMMA MoveTyped ==
  ASSUME TypeOK, NEW r \in Requests,
         \/ \E from \in Steps, to \in Steps : Goto(r, from, to)
         \/ \E from \in Steps, code \in Results : Answer(r, from, code)
  PROVE  /\ clock' \in 0 .. MaxTime /\ clock' = clock
         /\ pc' \in [Requests -> Steps]
         /\ looks' \in [Requests -> Nat]
         /\ readAt' \in [Requests -> 0 .. MaxTime]
         /\ result' \in [Requests -> Results]
PROOF
  <1>1. clock \in 0 .. MaxTime /\ 0 \in 0 .. MaxTime
    BY GatewayAssumption DEF GatewayAssumption, TypeOK
  <1>2. "done" \in Steps
    BY DEF Steps
  <1> QED
    BY <1>1, <1>2 DEF TypeOK, Goto, Answer

\* Every action moves one request to its next await or answers it (Goto, Answer).
LEMMA TypeStep == TypeOK /\ [Next]_vars => TypeOK'
PROOF
  <1> SUFFICES ASSUME TypeOK, [Next]_vars PROVE TypeOK'
    OBVIOUS
  <1> DEFINE Moved(r) ==
        \/ \E from \in Steps, to \in Steps : Goto(r, from, to)
        \/ \E from \in Steps, code \in Results : Answer(r, from, code)
  <1>1. ASSUME NEW r \in Requests, Arrive(r) PROVE TypeOK'
    <2>1. Moved(r)
      BY <1>1 DEF Arrive, Steps, Results
    <2> QED
      BY <1>1, <2>1, MoveTyped DEF Arrive, TypeOK, redis, history
  <1>2. ASSUME NEW r \in Requests, CheckRevocation(r) PROVE TypeOK'
    <2>1. Moved(r)
      BY <1>2 DEF CheckRevocation, Steps, Results
    <2> QED
      BY <1>2, <2>1, MoveTyped DEF CheckRevocation, TypeOK, redis, history
  <1>3. ASSUME NEW r \in Requests, GuardProof(r) PROVE TypeOK'
    <2>1. Moved(r)
      BY <1>3 DEF GuardProof, EnterRoute, Steps, Results
    <2>2. /\ ProofOf[r] \in Proofs /\ readAt[r] \in Nat /\ clock \in Nat
          /\ clock + DpopTtl \in Nat
      BY GatewayAssumption DEF GatewayAssumption, TypeOK
    <2>3. Accepted(r) \in [req : Requests, proof : Proofs, at : Nat, verified : Nat]
      BY <2>2 DEF Accepted
    <2>4. dpopUntil' \in [Proofs -> Nat]
      BY <1>3, <2>2 DEF GuardProof, TypeOK
    <2>5. accepts' \subseteq [req : Requests, proof : Proofs, at : Nat,
                              verified : Nat]
      BY <1>3, <2>3 DEF GuardProof, TypeOK
    <2> QED
      BY <1>3, <2>1, <2>4, <2>5, MoveTyped DEF GuardProof, TypeOK
  <1>4. ASSUME NEW r \in Requests, Authorize(r) PROVE TypeOK'
    <2>1. Moved(r)
      BY <1>4 DEF Authorize, Steps, Results
    <2>2. log' \in SUBSET (Requests \X Kinds)
      BY <1>4 DEF Authorize, Emit, TypeOK, Kinds
    <2>3. reached' \in SUBSET (Requests \X {"approved", "called"})
      BY <1>4 DEF Authorize, Reach, TypeOK
    <2> QED
      BY <1>4, <2>1, <2>2, <2>3, MoveTyped DEF Authorize, TypeOK, redis
  <1>5. ASSUME NEW r \in Requests, ConsumeFresh(r) PROVE TypeOK'
    <2>1. Moved(r)
      BY <1>5 DEF ConsumeFresh, Consume, Steps, Results
    <2>2. log' \in SUBSET (Requests \X Kinds)
      BY <1>5 DEF ConsumeFresh, Consume, Emit, TypeOK, Kinds
    <2>3. Recorded(r) \in [req : Requests, token : Tokens, time : Nat,
                           against : SUBSET Dimensions]
      BY GatewayAssumption DEF GatewayAssumption, Recorded, RevokedDims, TypeOK
    <2>4. usedUntil' \in [Tokens -> Nat]
      BY <1>5, MarkerOutlives DEF ConsumeFresh, Consume
    <2>5. uses' \subseteq [req : Requests, token : Tokens, time : Nat,
                           against : SUBSET Dimensions]
      BY <1>5, <2>3 DEF ConsumeFresh, Consume, TypeOK
    <2>6. reached' \in SUBSET (Requests \X {"approved", "called"})
      BY <1>5 DEF ConsumeFresh, Consume, Reach, TypeOK
    <2> QED
      BY <1>5, <2>1, <2>2, <2>4, <2>5, <2>6, MoveTyped
      DEF ConsumeFresh, Consume, TypeOK
  <1>6. ASSUME NEW r \in Requests, ConsumeReplay(r) PROVE TypeOK'
    <2>1. Moved(r)
      BY <1>6 DEF ConsumeReplay, Steps, Results
    <2> QED
      BY <1>6, <2>1, MoveTyped DEF ConsumeReplay, TypeOK, redis, history
  <1>7. ASSUME NEW r \in Requests, ConsumeError(r) PROVE TypeOK'
    <2>1. Moved(r)
      BY <1>7 DEF ConsumeError, Steps, Results
    <2>2. usedUntil' \in [Tokens -> Nat]
      BY <1>7, MarkerOutlives DEF ConsumeError, TypeOK
    <2> QED
      BY <1>7, <2>1, <2>2, MoveTyped DEF ConsumeError, TypeOK, history
  <1>8. ASSUME NEW r \in Requests, CallUpstream(r) PROVE TypeOK'
    <2>1. Moved(r)
      BY <1>8 DEF CallUpstream, Steps, Results
    <2>2. log' \in SUBSET (Requests \X Kinds)
      BY <1>8 DEF CallUpstream, Emit, TypeOK, Kinds
    <2> QED
      BY <1>8, <2>1, <2>2, MoveTyped DEF CallUpstream, TypeOK, redis, history
  <1>9. ASSUME NEW t \in Tokens, NEW d \in Dimensions, Revoke(t, d) PROVE TypeOK'
    <2>1. /\ revoked' \in SUBSET (Tokens \X Dimensions)
          /\ overtaken' \in SUBSET (Requests \X Dimensions)
      BY <1>9 DEF Revoke, TypeOK
    <2> QED
      BY <1>9, <2>1 DEF Revoke, TypeOK
  <1>12. ASSUME NEW d \in Dimensions, Lapse(d) PROVE TypeOK'
    BY <1>12 DEF Lapse, TypeOK, history
  <1>10. ASSUME Tick PROVE TypeOK'
    BY <1>10, GatewayAssumption
    DEF GatewayAssumption, Tick, TypeOK, redis, history
  <1>11. CASE UNCHANGED vars
    BY <1>11 DEF vars, TypeOK, redis, history
  <1> QED
    BY <1>1, <1>2, <1>3, <1>4, <1>5, <1>6, <1>7, <1>8, <1>9, <1>10, <1>11, <1>12
    DEF Next, Handle

-----------------------------------------------------------------------------
(***************************************************************************)
(* Tokens.                                                                 *)
(***************************************************************************)
\* Every other step leaves uses alone, markers as they are or later, and the
\* clock as it is or later.
LEMMA UsesFrame ==
  ASSUME TypeOK, UsesMarked, OneUseBeforeExpiry,
         uses' = uses, clock' \in Nat, clock' >= clock,
         \A t \in Tokens : usedUntil'[t] = usedUntil[t] \/ usedUntil'[t] >= Exp[t]
  PROVE  UsesMarked' /\ OneUseBeforeExpiry'
PROOF
  <1>1. ASSUME NEW u \in uses
        PROVE  /\ u.time <= clock'
               /\ u.time < Exp[u.token] => usedUntil'[u.token] >= Exp[u.token]
    <2>1. u.token \in Tokens /\ u.time \in Nat /\ u.time <= clock /\ clock \in Nat
      BY DEF TypeOK, UsesMarked
    <2>2. u.time < Exp[u.token] => usedUntil[u.token] >= Exp[u.token]
      BY DEF UsesMarked
    <2> QED
      BY <2>1, <2>2
  <1>2. UsesMarked'
    BY <1>1 DEF UsesMarked
  <1> QED
    BY <1>2 DEF OneUseBeforeExpiry

\* A token without a live marker was not used before its expiry, if that is
\* still to come.
LEMMA NoMarkerNoUse ==
  ASSUME TypeOK, UsesMarked, NEW t \in Tokens,
         clock >= usedUntil[t], clock < Exp[t]
  PROVE  \A u \in uses : u.token = t => ~(u.time < Exp[t])
PROOF
  <1>1. clock \in Nat /\ usedUntil[t] \in Nat /\ Exp[t] \in Nat
    BY GatewayAssumption DEF GatewayAssumption, TypeOK
  <1> QED
    BY <1>1 DEF UsesMarked

\* ConsumeFresh writes the marker with the use; no other action records a use or
\* shortens a marker.
LEMMA UsesStep ==
  TypeOK /\ UsesMarked /\ OneUseBeforeExpiry /\ [Next]_vars
    => UsesMarked' /\ OneUseBeforeExpiry'
PROOF
  <1> SUFFICES ASSUME TypeOK, UsesMarked, OneUseBeforeExpiry, [Next]_vars
               PROVE  UsesMarked' /\ OneUseBeforeExpiry'
    OBVIOUS
  <1>t. clock \in Nat /\ clock >= clock /\ clock + 1 >= clock
    BY DEF TypeOK
  <1>1. ASSUME NEW r \in Requests, ConsumeFresh(r)
        PROVE  UsesMarked' /\ OneUseBeforeExpiry'
    <2> DEFINE t == TokenOf[r]
               new == Recorded(r)
    <2>1. /\ t \in Tokens /\ clock >= usedUntil[t] /\ clock' = clock
          /\ uses' = uses \cup {new}
      BY <1>1, GatewayAssumption
      DEF GatewayAssumption, ConsumeFresh, Consume, Goto, Answer
    <2>2. new.req = r /\ new.token = t /\ new.time = clock
      BY DEF Recorded
    <2>3. /\ usedUntil'[t] >= Exp[t]
          /\ \A s \in Tokens \ {t} : usedUntil'[s] = usedUntil[s]
      BY <1>1, MarkerOutlives DEF ConsumeFresh, Consume
    <2>4. UsesMarked'
      <3> SUFFICES ASSUME NEW u \in uses'
                   PROVE  /\ u.time <= clock
                          /\ u.time < Exp[u.token] =>
                               usedUntil'[u.token] >= Exp[u.token]
        BY <2>1 DEF UsesMarked
      <3>1. CASE u = new
        BY <1>t, <2>2, <2>3, <3>1
      <3>2. CASE u \in uses
        <4>1. u.token \in Tokens
          BY <3>2 DEF TypeOK
        <4> QED
          BY <2>3, <3>2, <4>1 DEF UsesMarked
      <3> QED
        BY <2>1, <3>1, <3>2
    <2>5. OneUseBeforeExpiry'
      <3> SUFFICES ASSUME NEW u \in uses', NEW v \in uses',
                          u.token = v.token, u.time < Exp[u.token],
                          v.time < Exp[v.token]
                   PROVE  u.req = v.req
        BY DEF OneUseBeforeExpiry
      <3>1. CASE u \in uses /\ v \in uses
        BY <3>1 DEF OneUseBeforeExpiry
      <3>2. CASE u = new /\ v \in uses
        BY <2>1, <2>2, <3>2, NoMarkerNoUse
      <3>3. CASE v = new /\ u \in uses
        BY <2>1, <2>2, <3>3, NoMarkerNoUse
      <3>4. CASE u = new /\ v = new
        BY <3>4
      <3> QED
        BY <2>1, <3>1, <3>2, <3>3, <3>4
    <2> QED
      BY <2>4, <2>5
  <1>2. ASSUME NEW r \in Requests, ConsumeError(r)
        PROVE  UsesMarked' /\ OneUseBeforeExpiry'
    <2>1. uses' = uses /\ clock' = clock
      BY <1>2 DEF ConsumeError, Answer, history
    <2>2. \A t \in Tokens :
            usedUntil'[t] = usedUntil[t] \/ usedUntil'[t] >= Exp[t]
      BY <1>2, MarkerOutlives DEF ConsumeError
    <2> QED
      BY <1>t, <2>1, <2>2, UsesFrame
  <1>3. ASSUME NEW r \in Requests,
               \/ Arrive(r) \/ CheckRevocation(r) \/ GuardProof(r)
               \/ Authorize(r) \/ ConsumeReplay(r) \/ CallUpstream(r)
        PROVE  UsesMarked' /\ OneUseBeforeExpiry'
    <2>1. uses' = uses /\ clock' = clock /\ usedUntil' = usedUntil
      BY <1>3
      DEF Arrive, CheckRevocation, GuardProof, EnterRoute, Authorize,
          ConsumeReplay, CallUpstream, Goto, Answer, redis, history
    <2> QED
      BY <1>t, <2>1, UsesFrame
  <1>4. ASSUME \/ Tick \/ UNCHANGED vars
               \/ \E t \in Tokens, d \in Dimensions : Revoke(t, d)
               \/ \E d \in Dimensions : Lapse(d)
        PROVE  UsesMarked' /\ OneUseBeforeExpiry'
    <2>1. /\ uses' = uses /\ clock' \in {clock, clock + 1}
          /\ usedUntil' = usedUntil
      BY <1>4 DEF Tick, Revoke, Lapse, vars, redis, history
    <2> QED
      BY <1>t, <2>1, UsesFrame
  <1> QED
    BY <1>1, <1>2, <1>3, <1>4 DEF Next, Handle

-----------------------------------------------------------------------------
(***************************************************************************)
(* Proofs of possession.                                                   *)
(***************************************************************************)
\* A request that moves without becoming one that waits for the guard, while the
\* guard's own data stay, keeps what is known of the guard.
LEMMA GuardFrame ==
  ASSUME TypeOK, GuardsFresh, ProofReuseNeedsStall,
         accepts' = accepts, dpopUntil' = dpopUntil,
         clock' \in Nat, clock' >= clock,
         \A r \in Requests : pc'[r] = "guard" =>
           /\ Iat[ProofOf[r]] <= readAt'[r]
           /\ readAt'[r] <= clock'
           /\ readAt'[r] - Iat[ProofOf[r]] <= MaxSkew
  PROVE  GuardsFresh' /\ ProofReuseNeedsStall'
PROOF
  <1>1. ProofReuseNeedsStall'
    BY DEF ProofReuseNeedsStall
  <1>2. ASSUME NEW a \in accepts PROVE a.at <= clock'
    BY DEF GuardsFresh, TypeOK
  <1> QED
    BY <1>1, <1>2 DEF GuardsFresh

\* A proof whose marker is gone was accepted DpopTtl ago or earlier.
LEMMA GuardGone ==
  ASSUME TypeOK, GuardsFresh, NEW p \in Proofs, clock >= dpopUntil[p]
  PROVE  \A a \in accepts : a.proof = p => a.at + DpopTtl <= clock
PROOF
  <1>1. \A a \in accepts : a.at \in Nat
    BY DEF TypeOK
  <1>2. clock \in Nat /\ dpopUntil[p] \in Nat /\ DpopTtl \in Nat
    BY GatewayAssumption DEF GatewayAssumption, TypeOK
  <1> QED
    BY <1>1, <1>2 DEF GuardsFresh

\* The guard's answer: whatever it is, r no longer waits for it.
LEMMA GuardAnswered ==
  ASSUME TypeOK, NEW r \in Requests, GuardProof(r)
  PROVE  /\ pc[r] = "guard" /\ clock' = clock
         /\ \A q \in Requests : pc'[q] = "guard" =>
              q # r /\ pc[q] = "guard" /\ readAt'[q] = readAt[q]
         /\ \/ accepts' = accepts
            \/ /\ accepts' = accepts \cup {Accepted(r)}
               /\ clock >= dpopUntil[ProofOf[r]]
               /\ dpopUntil'[ProofOf[r]] = clock + DpopTtl
         /\ \/ dpopUntil' = dpopUntil
            \/ /\ clock >= dpopUntil[ProofOf[r]]
               /\ dpopUntil' =
                    [dpopUntil EXCEPT ![ProofOf[r]] = clock + DpopTtl]
PROOF
  <1>1. ProofOf[r] \in Proofs /\ clock \in Nat /\ dpopUntil[ProofOf[r]] \in Nat
    BY GatewayAssumption DEF GatewayAssumption, TypeOK
  <1>2. /\ pc[r] = "guard" /\ clock' = clock
        /\ \A q \in Requests : pc'[q] = "guard" =>
             q # r /\ pc[q] = "guard" /\ readAt'[q] = readAt[q]
    BY DEF GuardProof, EnterRoute, Goto, Answer, TypeOK
  <1>3. \/ /\ accepts' = accepts /\ dpopUntil' = dpopUntil
        \/ /\ ~(clock < dpopUntil[ProofOf[r]])
           /\ dpopUntil' = [dpopUntil EXCEPT ![ProofOf[r]] = clock + DpopTtl]
           /\ accepts' \in {accepts, accepts \cup {Accepted(r)}}
    BY DEF GuardProof
  <1> QED
    BY <1>1, <1>2, <1>3 DEF TypeOK

\* GuardProof writes a proof's marker when it accepts the proof; no other action accepts
\* one or shortens a marker.
LEMMA ProofsStep ==
  TypeOK /\ GuardsFresh /\ ProofReuseNeedsStall /\ [Next]_vars
    => GuardsFresh' /\ ProofReuseNeedsStall'
PROOF
  <1> SUFFICES ASSUME TypeOK, GuardsFresh, ProofReuseNeedsStall, [Next]_vars
               PROVE  GuardsFresh' /\ ProofReuseNeedsStall'
    OBVIOUS
  <1>t. /\ clock \in Nat /\ clock >= clock /\ clock + 1 >= clock
        /\ \A r \in Requests : readAt[r] \in Nat
    BY DEF TypeOK
  <1>1. ASSUME NEW r \in Requests, CheckRevocation(r)
        PROVE  GuardsFresh' /\ ProofReuseNeedsStall'
    <2>1. accepts' = accepts /\ dpopUntil' = dpopUntil /\ clock' = clock
      BY <1>1 DEF CheckRevocation, Goto, Answer, redis, history
    <2>2. ASSUME NEW q \in Requests, pc'[q] = "guard"
          PROVE  \/ pc[q] = "guard" /\ readAt'[q] = readAt[q]
                 \/ Fresh(ProofOf[q]) /\ readAt'[q] = clock
      BY <1>1, <2>2 DEF CheckRevocation, Goto, Answer, TypeOK
    <2> QED
      BY <1>t, <2>1, <2>2, GuardFrame DEF GuardsFresh, Fresh
  <1>2. ASSUME NEW r \in Requests, GuardProof(r)
        PROVE  GuardsFresh' /\ ProofReuseNeedsStall'
    <2> DEFINE p == ProofOf[r]
               new == Accepted(r)
    <2>t. /\ p \in Proofs /\ Iat[p] \in Nat /\ MaxSkew \in Nat
          /\ DpopTtl \in Nat /\ DpopTtl > 0
          /\ \A q \in Proofs : dpopUntil[q] \in Nat
          /\ \A a \in accepts :
               a.proof \in Proofs /\ a.at \in Nat /\ a.verified \in Nat
      BY GatewayAssumption DEF GatewayAssumption, TypeOK
    <2>1. /\ Iat[p] <= readAt[r] /\ readAt[r] <= clock
          /\ readAt[r] - Iat[p] <= MaxSkew
      BY <1>2, GuardAnswered DEF GuardsFresh
    <2>2. new.proof = p /\ new.at = clock /\ new.verified = readAt[r] /\ new.req = r
      BY DEF Accepted
    <2>3. \A q \in Proofs : dpopUntil'[q] >= dpopUntil[q]
      BY <1>2, <1>t, <2>t, GuardAnswered DEF TypeOK
    <2>4. ASSUME NEW a \in accepts'
          PROVE  Iat[a.proof] <= a.at /\ a.at <= clock
                 /\ dpopUntil'[a.proof] >= a.at + DpopTtl
      <3>1. CASE a \in accepts
        <4>1. /\ Iat[a.proof] <= a.at /\ a.at <= clock
              /\ dpopUntil[a.proof] >= a.at + DpopTtl
          BY <3>1 DEF GuardsFresh
        <4>2. dpopUntil'[a.proof] \in Nat
          BY <1>2, <1>t, <2>t, <3>1, GuardAnswered DEF TypeOK
        <4> QED
          BY <1>t, <2>t, <2>3, <3>1, <4>1, <4>2
      <3>2. CASE a = new /\ a \notin accepts
        BY <1>2, <1>t, <2>t, <2>1, <2>2, <3>2, GuardAnswered
      <3> QED
        BY <1>2, <3>1, <3>2, GuardAnswered
    <2>5. GuardsFresh'
      BY <1>2, <2>4, GuardAnswered DEF GuardsFresh
    <2>6. ProofReuseNeedsStall'
      <3> SUFFICES ASSUME NEW a \in accepts', NEW b \in accepts',
                          a.proof = b.proof, a.req # b.req, a.at <= b.at
                   PROVE  b.at - b.verified >= DpopTtl - MaxSkew
        BY DEF ProofReuseNeedsStall
      <3>0. accepts' = accepts \/
              (accepts' = accepts \cup {new} /\ clock >= dpopUntil[p])
        BY <1>2, GuardAnswered
      <3>1. CASE a \in accepts /\ b \in accepts
        BY <3>1 DEF ProofReuseNeedsStall
      <3>2. CASE a \in accepts /\ b = new /\ clock >= dpopUntil[p]
        <4>1. a.at + DpopTtl <= clock /\ Iat[p] <= a.at
          BY <2>t, <2>2, <3>2, GuardGone DEF GuardsFresh
        <4> QED
          BY <1>t, <2>t, <2>1, <2>2, <3>2, <4>1
      <3>3. CASE a = new /\ b \in accepts /\ clock >= dpopUntil[p]
        <4>1. b.at + DpopTtl <= clock
          BY <2>t, <2>2, <3>3, GuardGone
        <4> QED
          BY <1>t, <2>t, <2>2, <3>3, <4>1
      <3>4. CASE a = new /\ b = new
        BY <3>4
      <3> QED
        BY <3>0, <3>1, <3>2, <3>3, <3>4
    <2> QED
      BY <2>5, <2>6
  <1>3. ASSUME NEW r \in Requests,
               \/ Arrive(r) \/ Authorize(r) \/ ConsumeFresh(r)
               \/ ConsumeReplay(r) \/ ConsumeError(r) \/ CallUpstream(r)
        PROVE  GuardsFresh' /\ ProofReuseNeedsStall'
    <2>1. accepts' = accepts /\ dpopUntil' = dpopUntil /\ clock' = clock
      BY <1>3
      DEF Arrive, Authorize, ConsumeFresh, Consume, ConsumeReplay, ConsumeError,
          CallUpstream, Goto, Answer, redis, history
    <2>2. ASSUME NEW q \in Requests, pc'[q] = "guard"
          PROVE  pc[q] = "guard" /\ readAt'[q] = readAt[q]
      BY <1>3, <2>2
      DEF Arrive, Authorize, ConsumeFresh, Consume, ConsumeReplay, ConsumeError,
          CallUpstream, Goto, Answer, TypeOK
    <2> QED
      BY <1>t, <2>1, <2>2, GuardFrame DEF GuardsFresh
  <1>4. ASSUME \/ Tick \/ UNCHANGED vars
               \/ \E t \in Tokens, d \in Dimensions : Revoke(t, d)
               \/ \E d \in Dimensions : Lapse(d)
        PROVE  GuardsFresh' /\ ProofReuseNeedsStall'
    <2>1. /\ accepts' = accepts /\ dpopUntil' = dpopUntil
          /\ clock' \in {clock, clock + 1} /\ pc' = pc /\ readAt' = readAt
      BY <1>4 DEF Tick, Revoke, Lapse, vars, redis, history
    <2>2. ASSUME NEW q \in Requests, pc[q] = "guard"
          PROVE  readAt[q] <= clock'
      BY <1>t, <2>1, <2>2 DEF GuardsFresh
    <2> QED
      BY <1>t, <2>1, <2>2, GuardFrame DEF GuardsFresh
  <1> QED
    BY <1>1, <1>2, <1>3, <1>4 DEF Next, Handle

-----------------------------------------------------------------------------
(***************************************************************************)
(* Revocations.                                                            *)
(***************************************************************************)
\* Whatever r does, it does not look for others, revoke or record another's use.
LEMMA LooksFrame ==
  ASSUME TypeOK, NEW r \in Requests, Handle(r)
  PROVE  /\ revoked' = revoked /\ overtaken' = overtaken
         /\ pc' \in [Requests -> Steps] /\ looks' \in [Requests -> Nat]
         /\ \A q \in Requests \ {r} : pc'[q] = pc[q] /\ looks'[q] = looks[q]
         /\ uses' \in {uses, uses \cup {Recorded(r)}}
PROOF
  <1>1. /\ revoked' = revoked /\ overtaken' = overtaken
        /\ uses' \in {uses, uses \cup {Recorded(r)}}
    BY DEF Handle, Arrive, CheckRevocation, GuardProof, Authorize, ConsumeFresh,
       Consume, ConsumeReplay, ConsumeError, CallUpstream, redis, history
  <1>2. \/ \E from \in Steps, to \in Steps : Goto(r, from, to)
        \/ \E from \in Steps, code \in Results : Answer(r, from, code)
    BY DEF Handle, Arrive, CheckRevocation, GuardProof, EnterRoute, Authorize,
       ConsumeFresh, Consume, ConsumeReplay, ConsumeError, CallUpstream, Steps,
       Results
  <1>3. pc' \in [Requests -> Steps] /\ looks' \in [Requests -> Nat]
    BY <1>2, MoveTyped
  <1>4. \A q \in Requests \ {r} : pc'[q] = pc[q] /\ looks'[q] = looks[q]
    BY <1>2 DEF Goto, Answer, TypeOK
  <1> QED
    BY <1>1, <1>3, <1>4

\* The part of Screened about one request (authn.py:65-73).
ScreenOf(r) ==
  /\ pc[r] = "call" => Bought(r)
  /\ pc[r] = "idle" => looks[r] = 0
  /\ pc[r] = "revocation" => looks[r] < 4
  /\ pc[r] \in {"guard", "authz", "consume"} => looks[r] = 4
  /\ \A d \in Dimensions :
       Looked(r, d) /\ <<TokenOf[r], d>> \in revoked => <<r, d>> \in overtaken

\* Looking at one more set adds that set's dimension (authn.py:65-73).
LEMMA OneMoreLook ==
  ASSUME NEW n \in Nat, NEW r, NEW d, looks[r] = n, looks'[r] = n + 1, Looked(r, d)'
  PROVE  Looked(r, d) \/ d = Lookups[n + 1]
<1>1. PICK i \in 1 .. n + 1 : Lookups[i] = d
  BY DEF Looked
<1>2. CASE i = n + 1
  BY <1>1, <1>2
<1>3. CASE i # n + 1
  <2>1. i \in 1 .. n
    BY <1>3
  <2>2. QED
    BY <1>1, <2>1 DEF Looked
<1>4. QED
  BY <1>2, <1>3

\* Someone who has not looked, or no longer counts its looks, has looked for nothing
\* (authn.py:65).
LEMMA NoLooks ==
  ASSUME NEW r, NEW d, looks[r] = 0
  PROVE  ~Looked(r, d)
<1>1. 1 .. 0 = {}
  OBVIOUS
<1>2. QED
  BY <1>1 DEF Looked

\* r's own step leaves it screened (authn.py:65-100).
LEMMA OwnScreen ==
  ASSUME TypeOK, NEW r \in Requests, ScreenOf(r), Handle(r)
  PROVE  ScreenOf(r)'
<1>t. /\ looks[r] \in Nat /\ pc \in [Requests -> Steps]
      /\ looks \in [Requests -> Nat]
  BY DEF TypeOK
<1>f. /\ revoked' = revoked /\ overtaken' = overtaken
  BY LooksFrame
<1>a. ASSUME NEW from, NEW code, Answer(r, from, code)
      PROVE  ScreenOf(r)'
  <2>1. pc'[r] = "done" /\ looks'[r] = 0
    BY <1>a, <1>t DEF Answer
  <2>2. \A d \in Dimensions : ~Looked(r, d)'
    <3>1. 1 .. 0 = {}
      OBVIOUS
    <3>2. QED
      BY <2>1, <3>1 DEF Looked
  <2>3. QED
    BY <2>1, <2>2 DEF ScreenOf
<1>g. ASSUME NEW from, NEW to, Goto(r, from, to), from # "revocation",
             to \in {"guard", "authz", "consume", "call"} => looks[r] = 4,
             to \in {"revocation", "guard", "authz", "consume", "call"},
             to = "revocation" => looks[r] = 0,
             to = "call" => Bought(r)'
      PROVE  ScreenOf(r)'
  <2>1. pc'[r] = to /\ looks'[r] = looks[r]
    BY <1>g, <1>t DEF Goto
  <2>2. \A d \in Dimensions : Looked(r, d)' <=> Looked(r, d)
    BY <2>1 DEF Looked
  <2>3. QED
    BY <1>f, <1>g, <2>1, <2>2 DEF ScreenOf
<1>1. CASE Arrive(r)
  <2>1. \/ Goto(r, "idle", "revocation") /\ pc[r] = "idle"
        \/ Answer(r, "idle", "AUTHN_TOKEN_INVALID")
    BY <1>1 DEF Arrive, Goto
  <2>2. QED
    BY <1>a, <1>g, <2>1 DEF ScreenOf
<1>2. CASE CheckRevocation(r)
  <2>1. pc[r] = "revocation" /\ looks[r] < 4
    BY <1>2 DEF CheckRevocation, ScreenOf
  <2>2. CASE \E code : Answer(r, "revocation", code)
    BY <1>a, <2>2
  <2>3. CASE \E to \in {"revocation", "guard"} :
               /\ Goto(r, "revocation", to)
               /\ <<TokenOf[r], Lookups[looks[r] + 1]>> \notin revoked
               /\ to = "guard" <=> looks[r] + 1 = 4
    <3>1. PICK to \in {"revocation", "guard"} :
               /\ Goto(r, "revocation", to)
               /\ <<TokenOf[r], Lookups[looks[r] + 1]>> \notin revoked
               /\ to = "guard" <=> looks[r] + 1 = 4
      BY <2>3
    <3>2. pc'[r] = to /\ looks'[r] = looks[r] + 1
      BY <3>1, <1>t DEF Goto
    <3>3. ASSUME NEW d \in Dimensions, Looked(r, d)', <<TokenOf[r], d>> \in revoked
          PROVE  <<r, d>> \in overtaken
      <4>1. Looked(r, d) \/ d = Lookups[looks[r] + 1]
        BY <1>t, <3>2, <3>3, OneMoreLook
      <4>2. Looked(r, d)
        BY <3>1, <3>3, <4>1
      <4>3. QED
        BY <3>3, <4>2 DEF ScreenOf
    <3>4. /\ pc'[r] = "revocation" => looks'[r] < 4
          /\ pc'[r] = "guard" => looks'[r] = 4
          /\ pc'[r] \in {"revocation", "guard"}
      BY <1>t, <2>1, <3>1, <3>2
    <3>5. QED
      BY <1>f, <3>3, <3>4 DEF ScreenOf
  <2>4. Len(Lookups) = 4
    BY DEF Lookups
  <2>5. \/ \E code : Answer(r, "revocation", code)
        \/ \E to \in {"revocation", "guard"} :
               /\ Goto(r, "revocation", to)
               /\ <<TokenOf[r], Lookups[looks[r] + 1]>> \notin revoked
               /\ to = "guard" <=> looks[r] + 1 = 4
    BY <1>2, <2>4 DEF CheckRevocation
  <2>6. QED
    BY <2>2, <2>3, <2>5
<1>3. CASE GuardProof(r)
  <2>1. \/ \E code : Answer(r, "guard", code)
        \/ \E to \in {"authz", "consume"} : Goto(r, "guard", to) /\ looks[r] = 4
    BY <1>3 DEF GuardProof, EnterRoute, ScreenOf, Goto
  <2>2. QED
    BY <1>a, <1>g, <2>1
<1>4. CASE Authorize(r)
  <2>1. \/ \E code : Answer(r, "authz", code)
        \/ Goto(r, "authz", "consume") /\ looks[r] = 4
    BY <1>4 DEF Authorize, ScreenOf, Goto
  <2>2. QED
    BY <1>a, <1>g, <2>1
<1>5. CASE ConsumeFresh(r)
  <2>1. \/ \E code : Answer(r, "consume", code)
        \/ Goto(r, "consume", "call") /\ looks[r] = 4
    BY <1>5 DEF ConsumeFresh, Consume, ScreenOf, Goto
  <2>2. Recorded(r) \in uses' /\ Recorded(r).req = r
    BY <1>5 DEF ConsumeFresh, Consume, Recorded
  <2>3. Bought(r)'
    BY <2>2, Zenon DEF Bought
  <2>4. QED
    BY <1>a, <1>g, <2>1, <2>3
<1>6. CASE ConsumeReplay(r) \/ ConsumeError(r) \/ CallUpstream(r)
  <2>1. \E from, code : Answer(r, from, code)
    BY <1>6 DEF ConsumeReplay, ConsumeError, CallUpstream
  <2>2. QED
    BY <1>a, <2>1
<1>7. QED
  BY <1>1, <1>2, <1>3, <1>4, <1>5, <1>6 DEF Handle

\* Another's step, or the clock's, leaves a request screened; a revocation of its
\* token overtakes it where it has looked, and a set that lapses asks for less
\* (infra/idp/storage/redis.py:54-62).
LEMMA OthersScreen ==
  ASSUME TypeOK, NEW q \in Requests, ScreenOf(q),
         pc'[q] = pc[q], looks'[q] = looks[q], uses \subseteq uses',
         overtaken \subseteq overtaken',
         \A d \in Dimensions : <<TokenOf[q], d>> \in revoked' =>
           \/ <<TokenOf[q], d>> \in revoked
           \/ Looked(q, d) => <<q, d>> \in overtaken'
  PROVE  ScreenOf(q)'
<1>1. \A d \in Dimensions : Looked(q, d)' <=> Looked(q, d)
  BY DEF Looked
<1>2. Bought(q) => Bought(q)'
  BY DEF Bought
<1>3. QED
  BY <1>1, <1>2 DEF ScreenOf

\* Screened is about the uses and about each request (routes/invoke.py:59-107).
LEMMA ScreenedParts ==
  Screened <=> /\ \A u \in uses : pc[u.req] \in {"call", "done"}
               /\ \A r \in Requests : ScreenOf(r)
  BY DEF Screened, ScreenOf

\* A request consumes its token with all four looks behind it, so that whatever
\* stands revoked then came later (authn.py:65-73, one_shot.py:14).
LEMMA HeededByUse ==
  ASSUME TypeOK, NEW r \in Requests, ScreenOf(r), pc[r] = "consume",
         NEW d \in {"jti", "sub", "trace", "plan"}, d \in Recorded(r).against
  PROVE  <<r, d>> \in overtaken
<1>1. looks[r] = 4
  BY DEF ScreenOf
<1>2. /\ Lookups[1] = "jti" /\ Lookups[2] = "sub"
      /\ Lookups[3] = "trace" /\ Lookups[4] = "plan"
  BY DEF Lookups
<1>3. \E i \in 1 .. 4 : Lookups[i] = d
  BY <1>2
<1>4. Looked(r, d)
  BY <1>1, <1>3 DEF Looked
<1>5. d \in Dimensions /\ <<TokenOf[r], d>> \in revoked
  BY DEF Recorded, RevokedDims
<1>6. QED
  BY <1>4, <1>5 DEF ScreenOf

\* Every step keeps the bookkeeping of the looks and of what they were overtaken by
\* (authn.py:65-73).
LEMMA ScreenStep ==
  TypeOK /\ Screened /\ RevocationHeeded /\ [Next]_vars
    => Screened' /\ RevocationHeeded'
PROOF
  <1> SUFFICES ASSUME TypeOK, Screened, RevocationHeeded, [Next]_vars
               PROVE  Screened' /\ RevocationHeeded'
    OBVIOUS
  <1>s. /\ \A u \in uses : pc[u.req] \in {"call", "done"} /\ u.req \in Requests
        /\ \A r \in Requests : ScreenOf(r)
    BY ScreenedParts DEF TypeOK
  <1>1. ASSUME NEW r \in Requests, Handle(r)
        PROVE  Screened' /\ RevocationHeeded'
    <2>1. /\ revoked' = revoked /\ overtaken' = overtaken
          /\ pc' \in [Requests -> Steps]
          /\ \A q \in Requests \ {r} : pc'[q] = pc[q] /\ looks'[q] = looks[q]
          /\ uses' \in {uses, uses \cup {Recorded(r)}}
      BY <1>1, LooksFrame
    <2>2. ASSUME NEW q \in Requests PROVE ScreenOf(q)'
      <3>1. CASE q = r
        BY <1>1, <1>s, <3>1, OwnScreen
      <3>2. CASE q # r
        BY <1>s, <2>1, <3>2, OthersScreen
      <3> QED
        BY <3>1, <3>2
    <2>3. /\ \/ uses' = uses
             \/ /\ uses' = uses \cup {Recorded(r)}
                /\ pc[r] = "consume" /\ pc'[r] \in {"call", "done"}
          /\ pc[r] \in {"call", "done"} => pc'[r] \in {"call", "done"}
      <3>1. CASE ConsumeFresh(r)
        BY <3>1 DEF ConsumeFresh, Consume, Goto, Answer, TypeOK
      <3>2. CASE ~ConsumeFresh(r)
        BY <1>1, <3>2
        DEF Handle, Arrive, CheckRevocation, GuardProof, EnterRoute, Authorize,
            ConsumeReplay, ConsumeError, CallUpstream, Goto, Answer, redis, history,
            TypeOK
      <3> QED
        BY <3>1, <3>2
    <2>4. Recorded(r).req = r
      BY DEF Recorded
    <2>5. \A u \in uses' : pc'[u.req] \in {"call", "done"}
      BY <1>s, <2>1, <2>3, <2>4
    <2>6. Screened'
      BY <2>2, <2>5 DEF Screened, ScreenOf
    <2>7. ASSUME NEW u \in uses',
                 NEW d \in u.against \cap {"jti", "sub", "trace", "plan"}
          PROVE  <<u.req, d>> \in overtaken'
      <3>1. CASE u \in uses
        BY <2>1, <2>7, <3>1 DEF RevocationHeeded
      <3>2. CASE u \notin uses
        <4>1. u = Recorded(r) /\ pc[r] = "consume"
          BY <2>1, <2>3, <2>7, <3>2
        <4> QED
          BY <1>s, <2>1, <2>4, <2>7, <4>1, HeededByUse
      <3> QED
        BY <3>1, <3>2
    <2>8. RevocationHeeded'
      BY <2>7 DEF RevocationHeeded
    <2> QED
      BY <2>6, <2>8
  <1>2. ASSUME \/ Tick \/ UNCHANGED vars
               \/ \E t \in Tokens, d \in Dimensions : Revoke(t, d)
               \/ \E d \in Dimensions : Lapse(d)
        PROVE  Screened' /\ RevocationHeeded'
    <2>1. /\ pc' = pc /\ looks' = looks /\ uses' = uses
          /\ overtaken \subseteq overtaken'
      BY <1>2 DEF Tick, Revoke, Lapse, vars, redis, history
    <2>2. ASSUME NEW q \in Requests, NEW d \in Dimensions,
                 <<TokenOf[q], d>> \in revoked'
          PROVE  \/ <<TokenOf[q], d>> \in revoked
                 \/ Looked(q, d) => <<q, d>> \in overtaken'
      BY <1>2, <2>2 DEF Tick, Revoke, Lapse, vars, redis
    <2>3. \A q \in Requests : ScreenOf(q)'
      BY <1>s, <2>1, <2>2, OthersScreen
    <2>4. Screened'
      BY <1>s, <2>1, <2>3 DEF Screened, ScreenOf
    <2> QED
      BY <2>1, <2>4 DEF RevocationHeeded
  <1> QED
    BY <1>1, <1>2 DEF Next

-----------------------------------------------------------------------------
\* Every action keeps every part of the invariant.
LEMMA NextIInv == IInv /\ [Next]_vars => IInv'
  BY TypeStep, UsesStep, ProofsStep, ScreenStep DEF IInv

\* The invariant holds in every reachable state.
LEMMA GatewayInvariant == Spec => []IInv
  BY InitIInv, NextIInv, PTL DEF Spec

\* The coroutines' state, the Redis markers and the histories stay well formed.
THEOREM TypeCorrect == Spec => []TypeOK
PROOF
  <1>1. IInv => TypeOK
    BY DEF IInv
  <1> QED
    BY <1>1, GatewayInvariant, PTL

\* consume_one_shot lets at most one request use a token before its exp,
\* whatever the number of requests, their routes and their interleaving.
THEOREM TokenUsedOnceBeforeExpiry == Spec => []OneUseBeforeExpiry
PROOF
  <1>1. IInv => OneUseBeforeExpiry
    BY DEF IInv
  <1> QED
    BY <1>1, GatewayInvariant, PTL

\* The proof-of-possession guard accepts a proof again only for a request that
\* was held up between its freshness test and the guard for the difference of
\* the two windows.
THEOREM ProofReusedOnlyAfterStall == Spec => []ProofReuseNeedsStall
PROOF
  <1>1. IInv => ProofReuseNeedsStall
    BY DEF IInv
  <1> QED
    BY <1>1, GatewayInvariant, PTL

\* A token that stands revoked when it is consumed, in a dimension authn_middleware
\* looks up, was revoked after its request had looked.
THEOREM RevokedNeverConsumed == Spec => []RevocationHeeded
PROOF
  <1>1. IInv => RevocationHeeded
    BY DEF IInv
  <1> QED
    BY <1>1, GatewayInvariant, PTL

-----------------------------------------------------------------------------
(***************************************************************************)
(* The audit trail: what has been recorded of a request says how far it    *)
(* has come.                                                               *)
(***************************************************************************)

Logged(r, kind) == <<r, kind>> \in log

Before == {"idle", "revocation", "guard", "authz", "consume"}

Reached(r, stage) == <<r, stage>> \in reached

TrailOf(r) ==
  /\ Logged(r, "token_consumed") <=> Bought(r)
  /\ pc[r] \in Before =>
       /\ ~Bought(r) /\ ~Logged(r, "allow") /\ ~Logged(r, "deny")
       /\ ~Reached(r, "called")
       /\ pc[r] # "consume" => ~Reached(r, "approved")
  /\ pc[r] = "call" =>
       Bought(r) /\ ~Logged(r, "allow") /\ ~Logged(r, "deny") /\ Reached(r, "called")
  /\ pc[r] = "done" =>
       /\ Logged(r, "deny") <=> result[r] = "AUTHZ_SCOPE_EXCEEDED"
       /\ Logged(r, "allow") <=> Reached(r, "called")
       /\ result[r] = "ok" => Reached(r, "called")
       /\ Reached(r, "approved") /\ ~Reached(r, "called") =>
            result[r] \in {"TOKEN_REPLAYED", "SERVER_ERROR", "UPSTREAM_FAIL"}

Trails == \A r \in Requests : RouteOf[r] = "invoke" => TrailOf(r)

\* What becomes of one request shows nothing of another.
SameOf(q) ==
  /\ pc'[q] = pc[q] /\ result'[q] = result[q]
  /\ Bought(q)' <=> Bought(q)
  /\ \A kind \in Kinds : Logged(q, kind)' <=> Logged(q, kind)
  /\ \A stage \in {"approved", "called"} : Reached(q, stage)' <=> Reached(q, stage)

\* A trail that is left alone stays (routes/invoke.py).
LEMMA SameKeeps ==
  ASSUME NEW q, SameOf(q), TrailOf(q)
  PROVE  TrailOf(q)'
  BY DEF SameOf, TrailOf, Kinds

\* A handler records and consumes for its own request (routes/invoke.py:59-107).
LEMMA OthersSame ==
  ASSUME TypeOK, NEW r \in Requests, Handle(r), NEW q \in Requests, q # r
  PROVE  SameOf(q)
<1>1. pc'[q] = pc[q] /\ result'[q] = result[q]
  BY DEF TypeOK, Handle, Arrive, CheckRevocation, GuardProof, EnterRoute, Authorize,
     ConsumeFresh, Consume, ConsumeReplay, ConsumeError, CallUpstream, Goto, Answer
<1>2. uses' = uses \/ uses' = uses \cup {Recorded(r)}
  BY DEF Handle, Arrive, CheckRevocation, GuardProof, Authorize, ConsumeFresh, Consume,
     ConsumeReplay, ConsumeError, CallUpstream, history
<1>3. Recorded(r).req = r
  BY DEF Recorded
<1>4. Bought(q)' <=> Bought(q)
  BY <1>2, <1>3 DEF Bought
<1>5. log' = log \/ \E kind \in Kinds : log' = log \cup {<<r, kind>>}
  BY DEF Handle, Arrive, CheckRevocation, GuardProof, Authorize, ConsumeFresh, Consume,
     ConsumeReplay, ConsumeError, CallUpstream, Emit, Kinds
<1>6. \A kind \in Kinds : Logged(q, kind)' <=> Logged(q, kind)
  BY <1>5 DEF Logged
<1>7. reached' = reached \/ \E stage \in {"approved", "called"} :
                               reached' = reached \cup {<<r, stage>>}
  BY DEF Handle, Arrive, CheckRevocation, GuardProof, Authorize, ConsumeFresh, Consume,
     ConsumeReplay, ConsumeError, CallUpstream, Reach, history
<1>8. \A stage \in {"approved", "called"} : Reached(q, stage)' <=> Reached(q, stage)
  BY <1>7 DEF Reached
<1>9. QED
  BY <1>1, <1>4, <1>6, <1>8 DEF SameOf

\* A request on the invoke route records each of its outcomes when it comes to it
\* (routes/invoke.py:59-107).
LEMMA OwnTrail ==
  ASSUME TypeOK, NEW r \in Requests, RouteOf[r] = "invoke", TrailOf(r), Handle(r)
  PROVE  TrailOf(r)'
<1>1. pc \in [Requests -> Steps] /\ result \in [Requests -> Results]
  BY DEF TypeOK
<1>2. CASE Arrive(r) \/ CheckRevocation(r) \/ GuardProof(r)
  <2>1. pc[r] \in Before /\ pc[r] # "consume" /\ UNCHANGED <<log, uses, reached>>
    BY <1>2
    DEF Arrive, CheckRevocation, GuardProof, EnterRoute, Goto, Answer, Before, history
  <2>2. \/ pc'[r] \in Before
        \/ pc'[r] = "done" /\ result'[r] \notin {"ok", "AUTHZ_SCOPE_EXCEEDED"}
    BY <1>1, <1>2
    DEF Arrive, CheckRevocation, GuardProof, EnterRoute, Goto, Answer, Before
  <2>3. /\ ~Bought(r) /\ ~Logged(r, "allow") /\ ~Logged(r, "deny")
        /\ ~Reached(r, "called") /\ ~Reached(r, "approved")
        /\ ~Logged(r, "token_consumed")
    BY <2>1 DEF TrailOf
  <2>4. /\ ~Bought(r)' /\ ~Logged(r, "allow")' /\ ~Logged(r, "deny")'
        /\ ~Reached(r, "called")' /\ ~Reached(r, "approved")'
        /\ ~Logged(r, "token_consumed")'
    BY <2>1, <2>3 DEF Bought, Logged, Reached
  <2>5. QED
    BY <2>2, <2>4 DEF TrailOf, Before
<1>3. CASE Authorize(r)
  <2>1. pc[r] = "authz" /\ pc[r] \in Before /\ uses' = uses
    BY <1>3 DEF Authorize, Goto, Answer, Before
  <2>2. \/ /\ pc'[r] = "consume" /\ log' = log
           /\ reached' = reached \cup {<<r, "approved">>}
        \/ /\ pc'[r] = "done" /\ result'[r] = "AUTHZ_SCOPE_EXCEEDED"
           /\ log' = log \cup {<<r, "deny">>} /\ reached' = reached
    BY <1>1, <1>3 DEF Authorize, Goto, Answer, Emit, Reach
  <2>3. QED
    BY <2>1, <2>2 DEF TrailOf, Bought, Logged, Reached, Before
<1>4. CASE ConsumeFresh(r)
  <2>1. /\ pc[r] \in Before /\ uses' = uses \cup {Recorded(r)}
        /\ log' = log \cup {<<r, "token_consumed">>}
    BY <1>4 DEF ConsumeFresh, Consume, Goto, Answer, Before, Emit
  <2>2. \/ pc'[r] = "call" /\ reached' = reached \cup {<<r, "called">>}
        \/ pc'[r] = "done" /\ result'[r] = "UPSTREAM_FAIL" /\ reached' = reached
    BY <1>1, <1>4 DEF ConsumeFresh, Consume, Goto, Answer, Reach
  <2>3. Recorded(r).req = r
    BY DEF Recorded
  <2>4. Recorded(r) \in uses'
    BY <2>1
  <2>5. Bought(r)'
    BY <2>3, <2>4, Zenon DEF Bought
  <2>6. QED
    BY <2>1, <2>2, <2>5 DEF TrailOf, Logged, Reached, Before
<1>5. CASE ConsumeReplay(r) \/ ConsumeError(r)
  <2>1. pc[r] \in Before /\ UNCHANGED <<log, uses, reached>>
    BY <1>5 DEF ConsumeReplay, ConsumeError, Answer, Before, history
  <2>2. pc'[r] = "done" /\ result'[r] \in {"TOKEN_REPLAYED", "SERVER_ERROR"}
    BY <1>1, <1>5 DEF ConsumeReplay, ConsumeError, Answer
  <2>3. QED
    BY <2>1, <2>2 DEF TrailOf, Bought, Logged, Reached, Before
<1>6. CASE CallUpstream(r)
  <2>1. /\ pc[r] = "call" /\ uses' = uses /\ reached' = reached
        /\ log' = log \cup {<<r, "allow">>}
    BY <1>6 DEF CallUpstream, Answer, Emit, history
  <2>2. pc'[r] = "done" /\ result'[r] \in {"ok", "UPSTREAM_FAIL"}
    BY <1>1, <1>6 DEF CallUpstream, Answer
  <2>3. QED
    BY <2>1, <2>2 DEF TrailOf, Bought, Logged, Reached, Before
<1>7. QED
  BY <1>2, <1>3, <1>4, <1>5, <1>6 DEF Handle

\* Every step keeps every trail; revocations and the clock touch none.
LEMMA TrailStep == TypeOK /\ Trails /\ [Next]_vars => Trails'
<1> SUFFICES ASSUME TypeOK, Trails, [Next]_vars,
                    NEW q \in Requests, RouteOf[q] = "invoke"
             PROVE  TrailOf(q)'
  BY DEF Trails
<1>1. TrailOf(q)
  BY DEF Trails
<1>2. CASE \E r \in Requests : Handle(r)
  <2>1. PICK r \in Requests : Handle(r)
    BY <1>2
  <2>2. CASE q = r
    BY <1>1, <2>1, <2>2, OwnTrail
  <2>3. CASE q # r
    BY <1>1, <2>1, <2>3, OthersSame, SameKeeps
  <2>4. QED
    BY <2>2, <2>3
<1>3. CASE \/ \E t \in Tokens, d \in Dimensions : Revoke(t, d)
           \/ \E d \in Dimensions : Lapse(d)
           \/ Tick
           \/ UNCHANGED vars
  <2>1. UNCHANGED <<pc, result, log, uses, reached>>
    BY <1>3 DEF Revoke, Lapse, Tick, vars, history
  <2>2. SameOf(q)
    BY <2>1 DEF SameOf, Bought, Logged, Reached
  <2>3. QED
    BY <1>1, <2>2, SameKeeps
<1>4. QED
  BY <1>2, <1>3 DEF Next

\* Nothing is recorded of a request that has not come.
LEMMA TrailInit == Init => Trails
  BY DEF Init, Trails, TrailOf, Bought, Logged, Reached, Before

\* The records of every answered invoke request, and the ones it lacks, agree with what became of it, in any
\* interleaving and whatever Redis, OPA or the agent answered (routes/invoke.py).
THEOREM AuditIsTrue == Spec => []AuditTellsOutcome
<1>1. Trails => AuditTellsOutcome
  BY DEF Trails, TrailOf, AuditTellsOutcome, Logged, Reached
<1>2. QED
  BY <1>1, TrailInit, TrailStep, TypeCorrect, PTL DEF Spec

-----------------------------------------------------------------------------
(***************************************************************************)
(* Refinement.                                                             *)
(***************************************************************************)
\* The executions bought and what each request has come to, as OneTimeToken sees
\* them.
Spends == {[req |-> u.req, token |-> u.token, time |-> u.time] : u \in uses}
Stands == [r \in Requests |-> Status(r)]

\* Before the first request nothing has been spent and nobody has been answered.
LEMMA InitRefines == Init => Promise!Init
<1> SUFFICES ASSUME Init PROVE Promise!Init
  OBVIOUS
<1>1. \A r \in Requests : Status(r) = "open"
  BY DEF Init, Status, Bought
<1>2. QED
  BY <1>1 DEF Init, Promise!Init

\* A request's status follows from where it is and whether it has bought
\* (routes/invoke.py:59-107).
LEMMA StatusIs ==
  ASSUME NEW r
  PROVE  /\ pc[r] # "done" /\ ~Bought(r) => Status(r) = "open"
         /\ pc[r] # "done" /\ Bought(r) => Status(r) = "granted"
         /\ pc[r] = "done" /\ result[r] = "ok" => Status(r) = "served"
         /\ pc[r] = "done" /\ result[r] # "ok" /\ Bought(r) => Status(r) = "failed"
         /\ pc[r] = "done" /\ result[r] # "ok" /\ ~Bought(r) => Status(r) = "refused"
  BY DEF Status

\* What one request does leaves the others' status alone (routes/invoke.py:59-107).
LEMMA OthersStatus ==
  ASSUME NEW q, pc'[q] = pc[q], result'[q] = result[q], Bought(q)' <=> Bought(q)
  PROVE  Status(q)' = Status(q)
  BY DEF Status

\* The abstract state after a step in which only r's status changes.
LEMMA OneStatus ==
  ASSUME NEW r \in Requests, NEW s, Status(r)' = s,
         \A q \in Requests \ {r} : Status(q)' = Status(q)
  PROVE  Stands' = [Stands EXCEPT ![r] = s]
  BY DEF Stands

\* A use is recorded for the request that consumes (one_shot.py:14).
LEMMA SpendsGrow ==
  ASSUME NEW r \in Requests, uses' = uses \cup {Recorded(r)}
  PROVE  Spends' = Spends \cup {[req |-> r, token |-> TokenOf[r], time |-> clock]}
<1> DEFINE new == [req |-> r, token |-> TokenOf[r], time |-> clock]
<1>1. Recorded(r).req = r /\ Recorded(r).token = TokenOf[r] /\ Recorded(r).time = clock
  BY DEF Recorded
<1>2. ASSUME NEW x \in Spends' PROVE x \in Spends \cup {new}
  BY <1>1, <1>2 DEF Spends
<1>3. ASSUME NEW x \in Spends \cup {new} PROVE x \in Spends'
  <2>1. CASE x \in Spends
    BY <2>1 DEF Spends
  <2>2. CASE x = new
    BY <1>1, <2>2 DEF Spends
  <2>3. QED
    BY <1>3, <2>1, <2>2
<1>4. QED
  BY <1>2, <1>3

\* A consumption that finds no marker is a purchase that the promise allows
\* (one_shot.py:14).
LEMMA ConsumeRefines ==
  ASSUME IInv, NEW r \in Requests, ConsumeFresh(r)
  PROVE  Promise!Next
<1>1. /\ TokenOf[r] \in Tokens /\ clock >= usedUntil[TokenOf[r]] /\ clock' = clock
      /\ uses' = uses \cup {Recorded(r)} /\ pc[r] = "consume"
      /\ \A q \in Requests \ {r} : pc'[q] = pc[q] /\ result'[q] = result[q]
      /\ pc'[r] \in {"call", "done"}
  BY GatewayAssumption
  DEF GatewayAssumption, ConsumeFresh, Consume, Goto, Answer, IInv, TypeOK
<1>2. ~Bought(r)
  BY <1>1 DEF IInv, Screened, Bought
<1>3. Status(r) = "open"
  BY <1>1, <1>2, StatusIs
<1>4. Recorded(r) \in uses' /\ Recorded(r).req = r
  BY <1>1 DEF Recorded
<1>5. Bought(r)'
  BY <1>4, Zenon DEF Bought
<1>6. Status(r)' \in {"granted", "served", "failed"}
  BY <1>1, <1>5 DEF Status
<1>7. ASSUME NEW q \in Requests \ {r} PROVE Status(q)' = Status(q)
  <2>1. Bought(q)' <=> Bought(q)
    BY <1>1, <1>4 DEF Bought
  <2>2. QED
    BY <1>1, <2>1, OthersStatus
<1>8. \E s \in {"granted", "served", "failed"} : Stands' = [Stands EXCEPT ![r] = s]
  BY <1>6, <1>7, OneStatus
<1>9. Spends' = Spends \cup {[req |-> r, token |-> TokenOf[r], time |-> clock]}
  BY <1>1, SpendsGrow
<1>10. clock < Exp[TokenOf[r]] => ~Promise!SpentEarly(TokenOf[r])
  <2>1. clock < Exp[TokenOf[r]] =>
          \A u \in uses : u.token = TokenOf[r] => ~(u.time < Exp[TokenOf[r]])
    BY <1>1, NoMarkerNoUse DEF IInv
  <2>2. QED
    BY <2>1 DEF Promise!SpentEarly
<1>11. Stands[r] = "open"
  BY <1>3 DEF Stands
<1>12. Promise!Buy(r)
  BY <1>1, <1>8, <1>9, <1>10, <1>11 DEF Promise!Buy, Spends, Stands
<1>13. QED
  BY <1>12 DEF Promise!Next

\* Every other step of a request spends nothing: it leaves the status, refuses one
\* that has not bought, or ends one that has (routes/invoke.py:96-107).
LEMMA MoveRefines ==
  ASSUME IInv, NEW r \in Requests,
         \/ Arrive(r) \/ CheckRevocation(r) \/ GuardProof(r)
         \/ Authorize(r) \/ ConsumeReplay(r) \/ ConsumeError(r)
         \/ CallUpstream(r)
  PROVE  Promise!Next \/ (clock' = clock /\ Spends' = Spends /\ Stands' = Stands)
<1>1. /\ clock' = clock /\ uses' = uses
      /\ \A q \in Requests \ {r} : pc'[q] = pc[q] /\ result'[q] = result[q]
  BY DEF Arrive, CheckRevocation, GuardProof, EnterRoute, Authorize, ConsumeReplay,
     ConsumeError, CallUpstream, Goto, Answer, redis, history, IInv, TypeOK
<1>2. Spends' = Spends
  BY <1>1 DEF Spends
<1>3. \A q \in Requests : Bought(q)' <=> Bought(q)
  BY <1>1 DEF Bought
<1>4. \A q \in Requests \ {r} : Status(q)' = Status(q)
  BY <1>1, <1>3, OthersStatus
<1>5. \/ pc[r] # "done" /\ pc'[r] # "done" /\ result'[r] = result[r]
      \/ pc[r] \notin {"call", "done"} /\ pc'[r] = "done" /\ result'[r] # "ok"
      \/ pc[r] = "call" /\ pc'[r] = "done"
  BY DEF Arrive, CheckRevocation, GuardProof, EnterRoute, Authorize, ConsumeReplay,
     ConsumeError, CallUpstream, Goto, Answer, IInv, TypeOK
<1>6. CASE pc[r] # "done" /\ pc'[r] # "done" /\ result'[r] = result[r]
  <2>1. Status(r)' = Status(r)
    BY <1>3, <1>6 DEF Status
  <2>2. Stands' = Stands
    BY <1>4, <2>1 DEF Stands
  <2>3. QED
    BY <1>1, <1>2, <2>2
<1>7. CASE pc[r] \notin {"call", "done"} /\ pc'[r] = "done" /\ result'[r] # "ok"
  <2>1. ~Bought(r)
    BY <1>7 DEF IInv, Screened, Bought
  <2>2. Status(r) = "open" /\ Status(r)' = "refused"
    BY <1>3, <1>7, <2>1 DEF Status
  <2>3. Stands' = [Stands EXCEPT ![r] = "refused"] /\ Stands[r] = "open"
    BY <1>4, <2>2, OneStatus DEF Stands
  <2>4. Promise!Refuse(r)
    BY <1>1, <1>2, <2>3 DEF Promise!Refuse, Spends, Stands
  <2>5. QED
    BY <2>4 DEF Promise!Next
<1>8. CASE pc[r] = "call" /\ pc'[r] = "done"
  <2>1. Bought(r)
    BY <1>8 DEF IInv, Screened
  <2>2. Status(r) = "granted" /\ Status(r)' \in {"served", "failed"}
    BY <1>3, <1>8, <2>1 DEF Status
  <2>3. /\ \E s \in {"served", "failed"} : Stands' = [Stands EXCEPT ![r] = s]
        /\ Stands[r] = "granted"
    BY <1>4, <2>2, OneStatus DEF Stands
  <2>4. Promise!Finish(r)
    BY <1>1, <1>2, <2>3 DEF Promise!Finish, Spends, Stands
  <2>5. QED
    BY <2>4 DEF Promise!Next
<1>9. QED
  BY <1>5, <1>6, <1>7, <1>8

\* Every step is a step of the promise, or none.
LEMMA StepRefines ==
  IInv /\ [Next]_vars => [Promise!Next]_<<clock, Stands, Spends>>
<1> SUFFICES ASSUME IInv, [Next]_vars
             PROVE  Promise!Next \/ (clock' = clock /\ Spends' = Spends /\ Stands' = Stands)
  OBVIOUS
<1>1. CASE \E r \in Requests : Handle(r)
  BY <1>1, ConsumeRefines, MoveRefines DEF Handle
<1>2. CASE Tick \/ UNCHANGED vars \/ (\E t \in Tokens, d \in Dimensions : Revoke(t, d))
           \/ (\E d \in Dimensions : Lapse(d))
  <2>1. /\ pc' = pc /\ result' = result /\ uses' = uses
        /\ clock' = clock \/ (Tick /\ clock' = clock + 1)
    BY <1>2 DEF Tick, Revoke, Lapse, vars, history
  <2>2. \A q \in Requests : Status(q)' = Status(q)
    BY <2>1 DEF Status, Bought
  <2>3. Spends' = Spends /\ Stands' = Stands
    BY <2>1, <2>2 DEF Spends, Stands
  <2>4. CASE clock' = clock
    BY <2>3, <2>4
  <2>5. CASE clock' = clock + 1
    <3>1. clock \in Nat
      BY DEF IInv, TypeOK
    <3>2. Promise!Tick
      BY <2>3, <2>5, <3>1 DEF Promise!Tick, Spends, Stands
    <3>3. QED
      BY <3>2 DEF Promise!Next
  <2>6. QED
    BY <2>1, <2>4, <2>5
<1>3. QED
  BY <1>1, <1>2 DEF Next

\* The markers in Redis implement the promise of OneTimeToken: seen from outside, the
\* gateway serves only who has bought, no refused request has bought, and each token
\* is sold once before its expiry (authz/one_shot.py, routes/invoke.py).
THEOREM GatewayKeepsPromise == Spec => OneTimePromise
  BY InitRefines, StepRefines, GatewayInvariant, PTL
  DEF Spec, OneTimePromise, Promise!Spec, Spends, Stands
===============================================================================
