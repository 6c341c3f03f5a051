--------------------------- MODULE MCTokenExchange ---------------------------
(* All requests are those of one agent and one user.  first and again carry  *)
(* one assertion and one proof: a message delivered twice; careless signs a  *)
(* new assertion and sends the proof again.                                  *)
EXTENDS TokenExchange, TLC

MCItemOf == [r \in Requests |->
  CASE r \in {"first", "again"} -> [assertion |-> "a1", dpop |-> "p1"]
    [] r = "careless" -> [assertion |-> "a2", dpop |-> "p1"]
    [] r = "greedy" -> [assertion |-> "a0", dpop |-> "p2"]
    [] r = "second" -> [assertion |-> "a2", dpop |-> "p2"]
    [] r = "third" -> [assertion |-> "a3", dpop |-> "p3"]
    [] r \in {"early", "late"} -> [assertion |-> "a4", dpop |-> IF r = "early" THEN "p2" ELSE "p3"]]

\* a1 and p1 come from a client whose clock is ahead; a0 asks for too long; a4
\* has no exp.
MCIatOf == [i \in Items |-> IF i \in {"a1", "p1"} THEN 1 ELSE 0]
MCLifeOf == [i \in Items |-> CASE i = "a0" -> 2 [] i = "a4" -> NoExp [] OTHER -> 1]
MCIdentity == [r \in Requests |-> [agents |-> "bot", jtis |-> "token", subs |-> "alice"]]
MCSetOf == [bot |-> "revoked:agents", alice |-> "revoked:subs"]
MCMarkerTtl == [assertion |-> 3, dpop |-> 2]

MCSymmetry == Permutations(Revokes)

\* Five scenarios share the run: the message twice, an assertion without exp
\* twice, the proof twice, three requests that compete for the quotas, and
\* revocations during one request.  The last three need less time.
Scenario(started, revoking, time) ==
  \/ revoking = {} /\ started \subseteq {"first", "again", "greedy"}
  \/ revoking = {} /\ started \subseteq {"early", "late"}
  \/ revoking = {} /\ started \subseteq {"first", "careless"} /\ time <= 3
  \/ revoking = {} /\ started \subseteq {"first", "second", "third"}
                   /\ time + Cardinality(started) <= 4
  \/ started \subseteq {"first"} /\ time <= 2

Started == {r \in Requests : pc[r] # "new"}
Revoking == {v \in Revokes : rpc[v] # "idle"}

MCNext ==
  \/ \E r \in Requests : Scenario(Started \cup {r}, Revoking, now) /\ Exchange(r)
  \/ \E v \in Revokes : /\ Scenario(Started, Revoking \cup {v}, now)
                        /\ Revoke(v) /\ UNCHANGED evars
  \/ Scenario(Started, Revoking, now + 1) /\ RevocationTick /\ UNCHANGED evars

MCSpec == ExchangeInit /\ [][MCNext]_vars
=============================================================================
