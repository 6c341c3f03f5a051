----------------------------- MODULE MCGateway -----------------------------
(***************************************************************************)
(* Instances of Gateway for TLC.  A tick is 30 s, so that the windows have *)
(* the ratios of the configuration: leeway 30 s, proof skew 60 s, proof    *)
(* marker 120 s, token lifetime 120 s.                                     *)
(***************************************************************************)
EXTENDS Gateway

CONSTANTS r1, r2, r3, t1, p1, p2

MCRequests == {r1, r2, r3}

\* r1 and r3 are the same HTTP message delivered twice, r3 the copy that arrives
\* later; r2 submits a plan with the same token.
MCTokenOf == [r \in MCRequests |-> t1]
MCProofOf == [r \in MCRequests |-> IF r = r2 THEN p2 ELSE p1]
MCRouteOf == [r \in MCRequests |-> IF r = r2 THEN "plan" ELSE "invoke"]
MCExp == [t \in {t1} |-> 4]

\* p1 comes from a client whose clock is one tick ahead.
MCIat == [p \in {p1, p2} |-> IF p = p1 THEN 1 ELSE 0]

\* The other client submits again after the token has expired.
MCLateIat == [p \in {p1, p2} |-> IF p = p1 THEN 1 ELSE 3]

\* Two scenarios share the run: all three requests without a revocation, and two
\* of them with revocations at any moment, for which less time is enough.
Scenario(started, revocations, time) ==
  revocations = {} \/ (started \subseteq {r1, r2} /\ time <= 2)

Started == {r \in Requests : pc[r] # "idle"}

\* The first and the last dimension that are looked up; one that is not has no
\* reader here.
MCDimensions == {"jti", "plan"}

\* Without revocations nothing else touches what the lookups read, so that they
\* may follow one another.
Between(r) == pc[r] = "revocation" /\ looks[r] > 0

Turn(r) ==
  Cardinality(Started) = 3 => \A q \in Requests \ {r} : ~Between(q)

\* Redis fails one request at most.
MCNext ==
  \/ \E r \in Requests :
        /\ Scenario(Started \cup {r}, revoked \cup overtaken, clock)
        /\ Turn(r)
        /\ r = r3 => pc[r1] # "idle"
        /\ Handle(r)
        /\ Cardinality({q \in Requests : result'[q] = "SERVER_ERROR"}) <= 1
  \/ \E t \in Tokens, d \in MCDimensions :
        Scenario(Started, revoked \cup {<<t, d>>}, clock) /\ Revoke(t, d)
  \/ \E d \in MCDimensions : Lapse(d)
  \/ Scenario(Started, revoked \cup overtaken, clock + 1) /\ Tick

MCSpec == Init /\ [][MCNext]_vars

\* Requests that are answered within the tick in which they arrive.
Prompt ==
  \/ \E r \in Requests : Handle(r)
  \/ (\A r \in Requests : pc[r] \in {"idle", "done"}) /\ Tick

PromptSpec == Init /\ [][Prompt]_vars
=============================================================================
