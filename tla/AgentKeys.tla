------------------------------ MODULE AgentKeys ------------------------------
(***************************************************************************)
(* One agent's key: its row at the IdP, the requests that replace it       *)
(* (infra/idp/agents/register.py, agents/rotate.py), and the bootstrap     *)
(* script that registers the agent and saves the key it is given           *)
(* (agents/common/bootstrap_register.py).                                  *)
(*                                                                         *)
(* A key pair is named for the request that generated it; a kid is its     *)
(* version.  Requests read the row, then write it: two commands of SQLite, *)
(* which other requests come between.                                      *)
(***************************************************************************)
EXTENDS Naturals, FiniteSets

CONSTANTS
  Runs,         \* runs of the bootstrap script, each sends one registration
  Rotates       \* requests to rotate the agent's key, of the administrator

KeyRequests == Runs \cup Rotates
NoKey == "no key"

\* A request is one or the other, and is no placeholder for a key.
ASSUME KeyAssumption ==
  /\ IsFiniteSet(Runs) /\ IsFiniteSet(Rotates)
  /\ Runs \cap Rotates = {} /\ NoKey \notin KeyRequests

Versions == 0..Cardinality(KeyRequests)

VARIABLES
  row,          \* the agent's row: its version (0: there is none) and key
  step,         \* of each request, how far the IdP has come with it
  given,        \* of each request, the version it made its key with, and the
                \* key it saw in the row
  run,          \* of each run of the script, how far it has come
  saved,        \* the files private.pem and kid.txt
  \* History.
  wrote,        \* requests that wrote the row
  raced         \* ... though it had changed since they read it

KeyVars == <<row, step, given, run, saved, wrote, raced>>

AgentKeysTypeOK ==
  /\ row \in [version : Versions, key : KeyRequests \cup {NoKey}]
  /\ step \in [KeyRequests -> {"idle", "sent", "write", "answer", "ended"}]
  /\ given \in [KeyRequests -> [version : Versions, seen : KeyRequests \cup {NoKey}]]
  /\ run \in [Runs -> {"idle", "waiting", "key", "kid", "saved", "failed"}]
  /\ saved \in [key : Runs \cup {NoKey}, version : Versions]
  /\ wrote \subseteq KeyRequests /\ raced \subseteq wrote

KeyInit ==
  /\ row = [version |-> 0, key |-> NoKey]
  /\ step = [r \in KeyRequests |-> "idle"]
  /\ given = [r \in KeyRequests |-> [version |-> 0, seen |-> NoKey]]
  /\ run = [b \in Runs |-> "idle"]
  /\ saved = [key |-> NoKey, version |-> 0]
  /\ wrote = {} /\ raced = {}

-----------------------------------------------------------------------------
(* The IdP. *)

Proceed(r, s) == step' = [step EXCEPT ![r] = s]

VersionAfter == row.version + 1

\* SELECT finds the row or none; the kid's version and the key are made in the
\* same step.
ReadRow(r) ==
  /\ step[r] = "sent" /\ (r \in Rotates => row.version > 0)
  /\ given' = [given EXCEPT ![r] = [version |-> VersionAfter, seen |-> row.key]]
  /\ Proceed(r, "write")
  /\ UNCHANGED <<row, run, saved, wrote, raced>>

\* There is nothing to rotate, or check_agent_sod refuses a registration.
RefuseRequest(r) ==
  /\ step[r] = "sent" /\ (r \in Rotates => row.version = 0)
  /\ Proceed(r, "ended")
  /\ UNCHANGED <<row, given, run, saved, wrote, raced>>

\* upsert_agent and update_agent_kid replace the key, whatever is there.
WriteRow(r) ==
  /\ step[r] = "write"
  /\ row' = [version |-> given[r].version, key |-> r]
  /\ wrote' = wrote \cup {r}
  /\ raced' = IF row.key = given[r].seen THEN raced ELSE raced \cup {r}
  /\ Proceed(r, "answer")
  /\ UNCHANGED <<given, run, saved>>

\* The database fails, before or after the row is written.
RowFails(r) ==
  /\ step[r] = "write" \/ step[r] = "answer"
  /\ Proceed(r, "ended")
  /\ UNCHANGED <<row, given, run, saved, wrote, raced>>

SendRotate(w) ==
  /\ step[w] = "idle" /\ Proceed(w, "sent")
  /\ UNCHANGED <<row, given, run, saved, wrote, raced>>

AnswerRotate(w) ==
  /\ step[w] = "answer" /\ Proceed(w, "ended")
  /\ UNCHANGED <<row, given, run, saved, wrote, raced>>

-----------------------------------------------------------------------------
(* The script.  One run follows another; a run that was killed, or that    *)
(* stopped waiting, may leave its request at work.                         *)

Running(b) == run[b] \in {"waiting", "key", "kid"}

PostRegister(b) ==
  /\ run[b] = "idle" /\ \A c \in Runs : ~Running(c)
  /\ run' = [run EXCEPT ![b] = "waiting"]
  /\ Proceed(b, "sent")
  /\ UNCHANGED <<row, given, saved, wrote, raced>>

\* The answer holds the private key, which the IdP does not keep.
RegisterAnswered(b) ==
  /\ run[b] = "waiting" /\ step[b] = "answer"
  /\ run' = [run EXCEPT ![b] = "key"] /\ Proceed(b, "ended")
  /\ UNCHANGED <<row, given, saved, wrote, raced>>

\* Faulty variant: a file that is there is not written again.
SaveKeyOnce(b) ==
  /\ run[b] = "key" /\ run' = [run EXCEPT ![b] = "kid"]
  /\ saved' = [saved EXCEPT !.key = IF @ = NoKey THEN b ELSE @]
  /\ UNCHANGED <<row, step, given, wrote, raced>>

SaveKey(b) ==
  /\ run[b] = "key" /\ run' = [run EXCEPT ![b] = "kid"]
  /\ saved' = [saved EXCEPT !.key = b]
  /\ UNCHANGED <<row, step, given, wrote, raced>>

SaveKid(b) ==
  /\ run[b] = "kid" /\ run' = [run EXCEPT ![b] = "saved"]
  /\ saved' = [saved EXCEPT !.version = given[b].version]
  /\ UNCHANGED <<row, step, given, wrote, raced>>

\* Refused, timed out, or killed between any two steps.
RunFails(b) ==
  /\ Running(b) /\ run' = [run EXCEPT ![b] = "failed"]
  /\ UNCHANGED <<row, step, given, saved, wrote, raced>>

KeyRequest(r) == ReadRow(r) \/ RefuseRequest(r) \/ WriteRow(r) \/ RowFails(r)
Bootstrap(b) ==
  PostRegister(b) \/ RegisterAnswered(b) \/ SaveKey(b) \/ SaveKid(b) \/ RunFails(b)

KeyNext ==
  \/ \E r \in KeyRequests : KeyRequest(r)
  \/ \E w \in Rotates : SendRotate(w) \/ AnswerRotate(w)
  \/ \E b \in Runs : Bootstrap(b)

KeySpec == KeyInit /\ [][KeyNext]_KeyVars

-----------------------------------------------------------------------------
(* Properties. *)

\* verify_client_assertion finds the agent by the kid and checks the signature
\* with the key of its row.
CanSign == saved.version = row.version /\ saved.key = row.key

(***************************************************************************)
(* While no request has written over one that it had not seen, a kid names *)
(* one key: the versions of rows that were written differ.  One such race  *)
(* is enough for a kid to be given again later, by requests that did not   *)
(* race themselves (agents/rotate.py:29, register.py:94).                  *)
(***************************************************************************)
KidNamesOneKey ==
  raced = {} => \A q, r \in wrote : q # r => given[q].version # given[r].version

(***************************************************************************)
(* A run of the script that ends well leaves an agent that can sign, as    *)
(* long as its key is the one in the row, whatever earlier runs had left   *)
(* half written.  Only a later write undoes it, and the registration of a  *)
(* run that was given up may be such a one (bootstrap_register.py:50).     *)
(***************************************************************************)
BootstrapRepairs ==
  \A b \in Runs : run[b] = "saved" /\ row.key = b => CanSign

\* The row, the kid and the agent's files agree, but for requests that raced or a
\* registration that came late (agents/rotate.py:29, bootstrap_register.py).
AgentKeysHold == KidNamesOneKey /\ BootstrapRepairs
=============================================================================
