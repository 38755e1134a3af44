------------------------------ MODULE McpOAuth ------------------------------
(***************************************************************************)
(* Threads that share one McpClient whose server wants OAuth: the access   *)
(* token, its expiry and rejection, the refresh lock and the second look   *)
(* behind it, the rotating refresh token in memory and in the vault, and   *)
(* the one retry of rpc_with.                                              *)
(***************************************************************************)
EXTENDS Naturals, FiniteSets

CONSTANTS
  Caller,       \* threads, one request each
  MaxTokenMishaps    \* bound: revocations, expiries, failed requests and vault writes

VARIABLES
  oaAt,          \* how far each caller is
  oaTool,        \* callers whose method is tools/call
  oaRetried,     \* callers that have retried
  oaToken,       \* the access token each caller took
  oaRejected,    \* the token each caller wants replaced, or NoToken
  oaForm,        \* the refresh token in each caller's token request
  oaAccess,      \* OAuthState.access and whether it is past its expiry
  oaRefresh,     \* OAuthState.refresh
  oaVault,       \* the refresh token in the vault
  oaLock,        \* who holds refresh_lock
  oaIssued,      \* access tokens the server has issued
  oaRevoked,     \* access tokens the server no longer takes
  oaSuperseded,  \* ghost: refresh tokens a received answer has replaced
  oaReused,      \* ghost: a superseded refresh token was presented
  oaReplaced,    \* ghost: access tokens that had expired or were rejected
  oaRefreshes,   \* ghost: token requests made, and those that failed
  oaSent,        \* ghost: requests each caller has sent
  oaMishaps

oauthVars == <<oaAt, oaTool, oaRetried, oaToken, oaRejected, oaForm, oaAccess, oaRefresh, oaVault,
               oaLock, oaIssued, oaRevoked, oaSuperseded, oaReused, oaReplaced, oaRefreshes,
               oaSent, oaMishaps>>
callerVars == <<oaTool, oaRetried, oaToken, oaRejected, oaForm>>
serverSide == <<oaIssued, oaRevoked>>
ghostVars == <<oaSuperseded, oaReused, oaReplaced, oaRefreshes, oaSent>>
stateVars == <<oaAccess, oaRefresh, oaVault>>

NoToken == 0
Free == "free"
ASSUME CallerAssumption == Free \notin Caller

OAuthInit ==
  /\ oaAt = [c \in Caller |-> "start"]
  /\ oaTool \in SUBSET Caller
  /\ oaRetried = {}
  /\ oaToken = [c \in Caller |-> NoToken]
  /\ oaRejected = [c \in Caller |-> NoToken]
  /\ oaForm = [c \in Caller |-> NoToken]
  /\ oaAccess = [token |-> NoToken, expired |-> FALSE]
  /\ oaRefresh = NoToken /\ oaVault = 1
  /\ oaLock = Free
  /\ oaIssued = 0 /\ oaRevoked = {}
  /\ oaSuperseded = {} /\ oaReused = FALSE /\ oaReplaced = {}
  /\ oaRefreshes = [made |-> 0, failed |-> 0]
  /\ oaSent = [c \in Caller |-> 0]
  /\ oaMishaps = 0

OAt(c, where) == oaAt[c] = where
OGo(c, where) == oaAt' = [oaAt EXCEPT ![c] = where]
Usable == oaAccess.token # NoToken /\ ~oaAccess.expired
Mishap == oaMishaps < MaxTokenMishaps /\ oaMishaps' = oaMishaps + 1

----------------------------------------------------------------------------
(* oauth_access_token_with: look, refresh, and take what is there then.    *)

CheckToken(c) ==
  /\ OAt(c, "start")
  /\ OGo(c, IF Usable THEN "take" ELSE "want")
  /\ oaRejected' = [oaRejected EXCEPT ![c] = NoToken]
  /\ UNCHANGED <<oaTool, oaRetried, oaToken, oaForm, stateVars, oaLock, serverSide, ghostVars, oaMishaps>>

TakeToken(c) ==
  /\ OAt(c, "take")
  /\ oaToken' = [oaToken EXCEPT ![c] = oaAccess.token]
  /\ OGo(c, "send")
  /\ UNCHANGED <<oaTool, oaRetried, oaRejected, oaForm, stateVars, oaLock, serverSide, ghostVars, oaMishaps>>

----------------------------------------------------------------------------
(* rpc_with: one request, and at most one more after a 401.                *)

\* The server answers, refuses the token, or cannot be reached
Send(c) ==
  /\ OAt(c, "send")
  /\ oaSent' = [oaSent EXCEPT ![c] = @ + 1]
  /\ IF oaToken[c] \in oaRevoked
     THEN /\ oaReplaced' = oaReplaced \cup {oaToken[c]}
          /\ IF c \in oaRetried
             THEN OGo(c, "failed") /\ UNCHANGED oaRejected
             ELSE OGo(c, "want") /\ oaRejected' = [oaRejected EXCEPT ![c] = oaToken[c]]
     ELSE /\ OGo(c, "answered") \/ OGo(c, "failed")
          /\ UNCHANGED <<oaReplaced, oaRejected>>
  /\ UNCHANGED <<oaTool, oaRetried, oaToken, oaForm, stateVars, oaLock, serverSide,
                 oaSuperseded, oaReused, oaRefreshes, oaMishaps>>

MUT_ReplayToolCall(c) ==
  IF oaRejected[c] = NoToken THEN OGo(c, "take") /\ UNCHANGED oaRetried
  ELSE OGo(c, "start") /\ oaRetried' = oaRetried \cup {c}
\* A refreshed tool call is not replayed; another method starts over once
Refreshed(c) ==
  IF oaRejected[c] = NoToken THEN OGo(c, "take") /\ UNCHANGED oaRetried
  ELSE IF c \in oaTool THEN OGo(c, "failed") /\ UNCHANGED oaRetried
  ELSE OGo(c, "start") /\ oaRetried' = oaRetried \cup {c}

----------------------------------------------------------------------------
(* refresh_oauth under refresh_lock.                                       *)

MUT_AlwaysRefresh(c) == oaRejected[c] = NoToken /\ Usable
AlreadyRefreshed(c) == Usable /\ (oaRejected[c] # NoToken => oaAccess.token # oaRejected[c])

LockRefresh(c) ==
  /\ OAt(c, "want") /\ oaLock = Free
  /\ IF AlreadyRefreshed(c)
     THEN Refreshed(c) /\ UNCHANGED oaLock
     ELSE OGo(c, "locked") /\ oaLock' = c /\ UNCHANGED oaRetried
  /\ UNCHANGED <<oaTool, oaToken, oaRejected, oaForm, stateVars, serverSide, ghostVars, oaMishaps>>

MUT_FormFromVault(c) == oaVault
\* The rotated token in memory before the one in the vault
FormToken(c) == IF oaRefresh # NoToken THEN oaRefresh ELSE oaVault

Post(c) ==
  /\ OAt(c, "locked")
  /\ oaForm' = [oaForm EXCEPT ![c] = FormToken(c)]
  /\ oaReused' = (oaReused \/ FormToken(c) \in oaSuperseded)
  /\ oaRefreshes' = [oaRefreshes EXCEPT !.made = @ + 1]
  /\ OGo(c, "posted")
  /\ UNCHANGED <<oaTool, oaRetried, oaToken, oaRejected, stateVars, oaLock, serverSide,
                 oaSuperseded, oaReplaced, oaSent, oaMishaps>>

\* No vault entry, no connection, a refusal or an answer that makes no sense
PostFails(c) ==
  /\ OAt(c, "posted") /\ Mishap
  /\ oaRefreshes' = [oaRefreshes EXCEPT !.failed = @ + 1]
  /\ OGo(c, "failed") /\ oaLock' = Free
  /\ UNCHANGED <<callerVars, stateVars, serverSide, oaSuperseded, oaReused, oaReplaced, oaSent>>

\* A new access token, and perhaps a new refresh token that the vault may not take
PostAnswers(c) ==
  /\ OAt(c, "posted")
  /\ oaIssued' = oaIssued + 1
  /\ oaAccess' = [token |-> oaIssued + 1, expired |-> FALSE]
  /\ \/ UNCHANGED <<oaRefresh, oaVault, oaSuperseded, oaMishaps>>
     \/ /\ oaRefresh' = oaForm[c] + 1
        /\ oaSuperseded' = oaSuperseded \cup {oaForm[c]}
        /\ \/ oaVault' = oaRefresh' /\ UNCHANGED oaMishaps
           \/ Mishap /\ UNCHANGED oaVault
  /\ oaLock' = Free /\ Refreshed(c)
  /\ UNCHANGED <<oaTool, oaToken, oaRejected, oaForm, oaRevoked, oaReused, oaReplaced,
                 oaRefreshes, oaSent>>

----------------------------------------------------------------------------
(* The server and the clock.                                               *)

Revoke ==
  /\ oaIssued > 0 /\ oaIssued \notin oaRevoked /\ Mishap
  /\ oaRevoked' = oaRevoked \cup {oaIssued}
  /\ UNCHANGED <<oaAt, callerVars, stateVars, oaLock, oaIssued, ghostVars>>

\* Fewer than OAUTH_EXPIRY_SKEW seconds are left
Expire ==
  /\ Usable /\ Mishap
  /\ oaAccess' = [oaAccess EXCEPT !.expired = TRUE]
  /\ oaReplaced' = oaReplaced \cup {oaAccess.token}
  /\ UNCHANGED <<oaAt, callerVars, oaRefresh, oaVault, oaLock, serverSide, oaSuperseded, oaReused,
                 oaRefreshes, oaSent>>

CallerStep(c) ==
  \/ CheckToken(c) \/ TakeToken(c) \/ Send(c)
  \/ LockRefresh(c) \/ Post(c) \/ PostFails(c) \/ PostAnswers(c)

OAuthNext == Revoke \/ Expire \/ \E c \in Caller : CallerStep(c)

OAuthSpec == OAuthInit /\ [][OAuthNext]_oauthVars

----------------------------------------------------------------------------
(* Properties.                                                             *)

(* However the callers interleave, a token is replaced once: there are no  *)
(* more token requests than tokens that expired or were rejected, failed   *)
(* requests and the first; and a refresh token that an answer has replaced *)
(* is never presented again, even when the vault could not be written.     *)
RefreshIsCoalesced ==
  /\ ~oaReused
  /\ oaRefreshes.made <= 1 + Cardinality(oaReplaced) + oaRefreshes.failed

(* A tool call is sent at most once whatever happens to its token; any     *)
(* other request at most twice.                                            *)
ToolCallsAreSentOnce ==
  \A c \in Caller : oaSent[c] <= IF c \in oaTool THEN 1 ELSE 2

(* Neither a token nor a tool call is spent twice.                         *)
NothingIsSpentTwice == RefreshIsCoalesced /\ ToolCallsAreSentOnce
============================================================================
