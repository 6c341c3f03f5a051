-------------------------------- MODULE Oidc --------------------------------
(***************************************************************************)
(* Signing in at the IdP (infra/idp/oidc): an authorization session, the   *)
(* login form, the exchange of the code, refreshing and revoking.          *)
(*                                                                         *)
(* Everything is a key of Redis that lives for a while; reading one and    *)
(* deleting it are two commands, and each command is a step.  The key of a *)
(* session, a code or a refresh token is named for the request that made   *)
(* it, since it is random.  A code challenge is the session it was made    *)
(* for: its verifier is the one of the same session.                       *)
(***************************************************************************)
EXTENDS Naturals

CONSTANTS
  Sessions,     \* requests to /oidc/authorize, one per browser tab
  Logins,       \* submissions of the login form
  Exchanges,    \* requests to /oidc/token for a code
  Refreshes,    \* ... and for a refresh token
  Logouts       \* requests to /oidc/revoke

\* A request has one endpoint, and one kind of grant.
ASSUME SignInAssumption ==
  /\ Logins \cap (Exchanges \cup Refreshes \cup Logouts) = {}
  /\ Exchanges \cap (Refreshes \cup Logouts) = {}
  /\ Refreshes \cap Logouts = {}

StateKey(s) == <<"state", s>>
CodeKey(l) == <<"code", l>>
RefreshKey(e) == <<"refresh", e>>

SignInRequests == Logins \cup Exchanges \cup Refreshes \cup Logouts
Nothing == <<"none", "none">>
SignInKeys == {StateKey(s) : s \in Sessions} \cup {CodeKey(l) : l \in Logins}
                \cup {RefreshKey(e) : e \in Exchanges}

VARIABLES
  stored,       \* the keys in Redis
  opened,       \* the sessions that were begun
  stage,        \* of each request, the command it waits for, or its end
  shown,        \* of each request, the key of what it presents
  form,         \* of each login, whether user and password match; of each
                \* exchange, the session whose verifier it presents
  \* History.
  spent,        \* keys that a request has deleted, and been answered
  spentFirst    \* of each request, whether its key was spent when it read it

SignInVars == <<stored, opened, stage, shown, form, spent, spentFirst>>

SignInTypeOK ==
  /\ stored \subseteq SignInKeys /\ spent \subseteq SignInKeys
  /\ opened \subseteq Sessions
  /\ stage \in [SignInRequests ->
                 {"idle", "delete", "verify", "store", "sign", "done", "refused", "error"}]
  /\ shown \in [SignInRequests -> SignInKeys \cup {Nothing}]
  /\ DOMAIN form = Logins \cup Exchanges
  /\ \A l \in Logins : form[l] \in BOOLEAN
  /\ \A e \in Exchanges : form[e] \in Sessions \cup {Nothing}
  /\ spentFirst \in [SignInRequests -> BOOLEAN]

SignInInit ==
  /\ stored = {} /\ opened = {} /\ spent = {}
  /\ stage = [r \in SignInRequests |-> "idle"]
  /\ shown = [r \in SignInRequests |-> Nothing]
  /\ form = [r \in Logins \cup Exchanges |-> IF r \in Logins THEN FALSE ELSE Nothing]
  /\ spentFirst = [r \in SignInRequests |-> FALSE]

-----------------------------------------------------------------------------
(* The commands. *)

To(r, s) == stage' = [stage EXCEPT ![r] = s]

\* GET: a key that is not there, or has expired, ends the request.
Get(r, key, next) ==
  /\ stage[r] = "idle"
  /\ shown' = [shown EXCEPT ![r] = key]
  /\ spentFirst' = [spentFirst EXCEPT ![r] = key \in spent]
  /\ To(r, IF key \in stored THEN next ELSE "refused")
  /\ UNCHANGED <<stored, opened, spent>>

\* Faulty variant: what was read is not deleted.
ConsumeNothing(r, next) ==
  /\ spent' = spent \cup {shown[r]} /\ To(r, next)
  /\ UNCHANGED <<stored, opened, shown, form, spentFirst>>

\* DEL of what was read.
Consume(r, next) ==
  /\ stored' = stored \ {shown[r]} /\ spent' = spent \cup {shown[r]}
  /\ To(r, next)
  /\ UNCHANGED <<opened, shown, form, spentFirst>>

\* SETEX, the last command of a request.
Made(r) == IF r \in Logins THEN CodeKey(r) ELSE RefreshKey(r)

SetKey(r) ==
  /\ stage[r] = "store" /\ stored' = stored \cup {Made(r)}
  /\ To(r, "done")
  /\ UNCHANGED <<opened, shown, form, spent, spentFirst>>

\* Redis or SQLite fails, and the request with it; the command may have been
\* executed all the same.
CommandFails(r) ==
  /\ stage[r] \in {"delete", "verify", "store"}
  /\ \/ UNCHANGED stored
     \/ stage[r] = "delete" /\ stored' = stored \ {shown[r]}
     \/ stage[r] = "store" /\ stored' = stored \cup {Made(r)}
  /\ To(r, "error")
  /\ UNCHANGED <<opened, shown, form, spent, spentFirst>>

Expire(key) ==
  /\ key \in stored /\ stored' = stored \ {key}
  /\ UNCHANGED <<opened, stage, shown, form, spent, spentFirst>>

-----------------------------------------------------------------------------
(* The handlers. *)

\* oidc_authorize: response_type, redirect_uri and the challenge's method are
\* accepted.
Authorize(s) ==
  /\ s \notin opened /\ opened' = opened \cup {s}
  /\ stored' = stored \cup {StateKey(s)}
  /\ UNCHANGED <<stage, shown, form, spent, spentFirst>>

\* oidc_login: the session is consumed before the password is looked at.
SubmitLogin(l) ==
  \E s \in opened, right \in BOOLEAN :
    /\ form' = [form EXCEPT ![l] = right]
    /\ Get(l, StateKey(s), "delete")

ConsumeState(l) == stage[l] = "delete" /\ Consume(l, "verify")

CheckPassword(l) ==
  /\ stage[l] = "verify"
  /\ To(l, IF form[l] THEN "store" ELSE "refused")
  /\ UNCHANGED <<stored, opened, shown, form, spent, spentFirst>>

Login(l) ==
  \/ SubmitLogin(l) \/ ConsumeState(l) \/ CheckPassword(l)
  \/ SetKey(l) \/ CommandFails(l)

\* The session of a code is what the login read.
SessionOf(l) == CHOOSE s \in Sessions : shown[l] = StateKey(s)

\* _handle_code_exchange: a client sends a code it was redirected with.
SendCode(e) ==
  \E l \in Logins, s \in opened :
    /\ stage[l] = "done"
    /\ form' = [form EXCEPT ![e] = s]
    /\ Get(e, CodeKey(l), "delete")

\* The code is consumed whatever redirect_uri, verifier and scopes turn out to
\* be.
LoginOf(e) == CHOOSE l \in Logins : shown[e] = CodeKey(l)

VerifierMatches(e) == form[e] = SessionOf(LoginOf(e))

ConsumeCode(e) ==
  /\ stage[e] = "delete"
  /\ \E scopes \in BOOLEAN :
       Consume(e, IF VerifierMatches(e) /\ scopes THEN "store" ELSE "refused")

ExchangeCode(e) ==
  \/ SendCode(e) \/ ConsumeCode(e)
  \/ SetKey(e) \/ CommandFails(e)

\* _handle_refresh: the token is read, not replaced.
SendRefresh(r) ==
  /\ \E e \in Exchanges : stage[e] = "done" /\ Get(r, RefreshKey(e), "sign")
  /\ UNCHANGED form

\* Faulty variant: the key is stored again with the token.
SignAndRenew(r) ==
  /\ stage[r] = "sign" /\ To(r, "done")
  /\ stored' = stored \cup {shown[r]}
  /\ UNCHANGED <<opened, shown, form, spent, spentFirst>>

SignAccessToken(r) ==
  /\ stage[r] = "sign" /\ To(r, "done")
  /\ UNCHANGED <<stored, opened, shown, form, spent, spentFirst>>

Refresh(r) == SendRefresh(r) \/ SignAccessToken(r)

\* revoke_token deletes the key, whether it is there or not, unless the hint
\* speaks of another kind of token.
SendRevoke(o) ==
  /\ stage[o] = "idle"
  /\ \E e \in Exchanges :
       stage[e] = "done" /\ shown' = [shown EXCEPT ![o] = RefreshKey(e)]
  /\ To(o, "delete")
  /\ UNCHANGED <<stored, opened, form, spent, spentFirst>>

RevokeRefresh(o) == stage[o] = "delete" /\ Consume(o, "done")

RevokeOther(o) ==
  /\ stage[o] = "delete" /\ To(o, "done")
  /\ UNCHANGED <<stored, opened, shown, form, spent, spentFirst>>

Logout(o) ==
  SendRevoke(o) \/ RevokeRefresh(o) \/ RevokeOther(o) \/ CommandFails(o)

SignInNext ==
  \/ \E s \in Sessions : Authorize(s)
  \/ \E l \in Logins : Login(l)
  \/ \E e \in Exchanges : ExchangeCode(e)
  \/ \E r \in Refreshes : Refresh(r)
  \/ \E o \in Logouts : Logout(o)
  \/ \E key \in SignInKeys : Expire(key)

SignInSpec == SignInInit /\ [][SignInNext]_SignInVars

-----------------------------------------------------------------------------
(* Properties. *)

(***************************************************************************)
(* An exchange that is answered with tokens presented the code of a login  *)
(* that had given the right password, and the verifier of the session in   *)
(* which that login began, however tabs, double submissions and lost       *)
(* answers mix; and a refresh presented the token of such an exchange      *)
(* (oidc/authorize.py, oidc/token.py).                                     *)
(***************************************************************************)
TokenTracesToLogin ==
  /\ \A e \in Exchanges : stage[e] = "done" =>
       /\ form[LoginOf(e)]
       /\ form[e] = SessionOf(LoginOf(e))
  /\ \A r \in Refreshes : stage[r] = "done" =>
       \E e \in Exchanges : shown[r] = RefreshKey(e) /\ stage[e] = "done"

(***************************************************************************)
(* A login session or a code serves a second request only if both read it  *)
(* before either deleted it: GET and DEL are two commands, and the window  *)
(* between them is the only one (oidc/session.py consume_auth_code).       *)
(***************************************************************************)
ReusedOnlyTogether ==
  \A r \in Logins \cup Exchanges : stage[r] = "done" => ~spentFirst[r]

\* Whoever gets a token went through a login of the same session, and nobody goes
\* twice through one but in the window between GET and DEL (oidc/session.py:15).
CodesHold == TokenTracesToLogin /\ ReusedOnlyTogether

(***************************************************************************)
(* A refresh token that a revocation has deleted is never good again, also *)
(* when a refresh had read it before: refreshing does not write it         *)
(* (oidc/token.py _handle_refresh, oidc/refresh.py).                       *)
(***************************************************************************)
RevokedStaysOut ==
  \A r \in Refreshes : stage[r] = "done" => ~spentFirst[r]
=============================================================================
