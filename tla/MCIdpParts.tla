----------------------------- MODULE MCIdpParts -----------------------------
(***************************************************************************)
(* The parts of the IdP beside the token exchange, in one run.  They share *)
(* no state that their properties depend on, so each behaviour is of one   *)
(* part, which scenario names.  Two model values serve all parts where two *)
(* of a kind are interchangeable.                                          *)
(***************************************************************************)
EXTENDS SigningKeys, Oidc, AgentKeys, Reload, TLC

VARIABLE scenario

PartsInit ==
  /\ scenario \in {"signing keys", "sign in", "agent keys", "files"}
  /\ KeysInit /\ SignInInit /\ KeyInit /\ ReloadInit
  /\ scenario = "files" \/ /\ \A a \in Agents : capFiles[a] = {"read"}
                           /\ \A u \in Users : userFiles[u] = NoFile

\* Three kinds of behaviours of the signing keys: crashes, within two ticks of
\* the clock; lookups of the gateway; and those of an agent, for longer if
\* there is one rotation only; two of these overlap only then, and early.
GatewayUsed == gateway.pc # "idle" \/ gateway.fetchedAt # Unset
AgentUsed == \/ \E e \in DOMAIN held : held[e] # Unset
             \/ \E v \in Verifies : verify[v].pc # "idle"

KeysBound ==
  \/ ~GatewayUsed /\ ~AgentUsed /\ minute <= 1
  \/ GatewayUsed /\ ~AgentUsed /\ crashes = 0 /\ minute <= 3
  \/ /\ ~GatewayUsed /\ crashes = 0
     /\ (minute <= 3 \/ meta.active <= 2)
     /\ \/ \E v \in Verifies : verify[v].pc = "idle"
        \/ minute <= 3 /\ meta.active <= 2

\* Refreshes and a revocation of one token, or two exchanges.
SignInBound ==
  \/ \A r \in Refreshes \cup Logouts : stage[r] = "idle"
  \/ \E e \in Exchanges : stage[e] = "idle"

PartsNext ==
  /\ UNCHANGED scenario
  /\ \/ /\ scenario = "signing keys" /\ KeysNext /\ KeysBound'
        /\ UNCHANGED <<SignInVars, KeyVars, FileVars>>
     \/ /\ scenario = "sign in" /\ SignInNext /\ SignInBound'
        /\ UNCHANGED <<KeysVars, KeyVars, FileVars>>
     \/ scenario = "agent keys" /\ KeyNext /\ UNCHANGED <<KeysVars, SignInVars, FileVars>>
     \/ scenario = "files" /\ ReloadNext /\ UNCHANGED <<KeysVars, SignInVars, KeyVars>>

PartsVars == <<scenario, KeysVars, SignInVars, KeyVars, FileVars>>
PartsSpec == PartsInit /\ [][PartsNext]_PartsVars

PartsSymmetry == Permutations(Rotations)

\* The components keep to their types.
PartsTypeOK == KeysTypeOK /\ SignInTypeOK /\ AgentKeysTypeOK /\ ReloadTypeOK
=============================================================================
