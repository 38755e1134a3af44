---------------------------- MODULE RemoteProofs ----------------------------
(***************************************************************************)
(* Theorems about the components that talk to somebody else: the OAuth     *)
(* refresh of the MCP client, the MCP server and its runs, the reviews of  *)
(* foreign tools, and the retries of a provider call.                      *)
(***************************************************************************)
EXTENDS McpServer, McpOAuth, McpSetup, ProviderCall, FiniteSetTheorems, TLAPS

----------------------------------------------------------------------------
(* McpOAuth.                                                               *)

Sending == {"start", "take", "send"}
Refreshing == {"want", "locked", "posted"}
OAuthPlaces == Sending \cup Refreshing \cup {"answered", "failed"}

OAuthTypeOK ==
  /\ oaAt \in [Caller -> OAuthPlaces] /\ oaSent \in [Caller -> Nat]
  /\ oaToken \in [Caller -> Nat] /\ oaRejected \in [Caller -> Nat] /\ oaForm \in [Caller -> Nat]
  /\ oaAccess \in [token : Nat, expired : BOOLEAN] /\ oaRefresh \in Nat /\ oaVault \in Nat /\ oaIssued \in Nat
  /\ oaRefreshes \in [made : Nat, failed : Nat]

\* The lock is held exactly from the second look to the answer
HeldWhileRefreshing == \A c \in Caller : oaAt[c] \in {"locked", "posted"} <=> oaLock = c

\* The token on its way is the newest, and every superseded one is older
NewestPresented ==
  /\ \A c \in Caller : oaAt[c] = "posted" => oaForm[c] = FormToken(c)
  /\ \A old \in oaSuperseded : old \in Nat /\ old < oaRefresh
  /\ ~oaReused

\* Access tokens are numbered as they are issued; all but the newest were
\* replaced for a reason, and the newest has one too while it is refreshed
ReplacedForReason ==
  /\ oaAccess.token = oaIssued
  /\ oaAccess.expired => oaIssued \in oaReplaced
  /\ oaRevoked \subseteq 1 .. oaIssued /\ oaReplaced \subseteq 1 .. oaIssued
  /\ \A t \in 1 .. oaIssued : t # oaIssued => t \in oaReplaced
  /\ \A c \in Caller :
       /\ oaRejected[c] # NoToken => oaRejected[c] \in oaReplaced
       /\ oaAt[c] \in {"locked", "posted"} /\ oaIssued # 0 => oaIssued \in oaReplaced

\* Every token request has issued a token, failed, or is still on its way
RequestsCounted ==
  \/ /\ \E c \in Caller : oaAt[c] = "posted"
     /\ oaRefreshes.made = oaIssued + oaRefreshes.failed + 1
  \/ /\ \A c \in Caller : oaAt[c] # "posted"
     /\ oaRefreshes.made = oaIssued + oaRefreshes.failed

\* A request is sent before a retry and after one; tool calls are not retried
SentByPlace ==
  \A c \in Caller :
    /\ c \in oaRetried => c \notin oaTool
    /\ oaSent[c] <= (IF c \in oaRetried THEN 1 ELSE 0)
                    + (IF oaAt[c] \in {"answered", "failed"} THEN 1 ELSE 0)
                    + (IF oaAt[c] \in Refreshing /\ oaRejected[c] # NoToken THEN 1 ELSE 0)
    /\ c \in oaRetried /\ oaAt[c] # "start" => oaRejected[c] = NoToken

OAuthInv ==
  /\ OAuthTypeOK /\ HeldWhileRefreshing /\ NewestPresented /\ ReplacedForReason
  /\ RequestsCounted /\ SentByPlace

\* One step of one caller, of the server or of the clock
LEMMA OAuthStep == OAuthInv /\ [OAuthNext]_oauthVars => OAuthInv'
<1> SUFFICES ASSUME OAuthInv, [OAuthNext]_oauthVars
             PROVE  OAuthInv'
  OBVIOUS
<1>g. ASSUME NEW c \in Caller, NEW where \in OAuthPlaces, OGo(c, where)
      PROVE  /\ oaAt' \in [Caller -> OAuthPlaces]
             /\ oaAt'[c] = where /\ \A d \in Caller \ {c} : oaAt'[d] = oaAt[d]
  BY <1>g DEF OGo, OAuthInv, OAuthTypeOK
<1>r. ASSUME NEW c \in Caller, Refreshed(c)
      PROVE  /\ oaAt' \in [Caller -> OAuthPlaces]
             /\ oaAt'[c] \in {"take", "failed", "start"}
             /\ \A d \in Caller \ {c} : oaAt'[d] = oaAt[d]
             /\ oaAt'[c] = "take" <=> oaRejected[c] = NoToken
             /\ oaAt'[c] = "start" => c \notin oaTool /\ oaRetried' = oaRetried \cup {c}
             /\ oaAt'[c] # "start" => oaRetried' = oaRetried
  BY <1>r, <1>g DEF Refreshed, OAuthPlaces, Sending, Refreshing
<1>e. ASSUME NEW c \in Caller, Send(c)
      PROVE  oaReplaced \subseteq oaReplaced' /\ oaReplaced' \subseteq 1 .. oaIssued
  <2>1. oaReplaced \subseteq 1 .. oaIssued /\ oaRevoked \subseteq 1 .. oaIssued
    BY DEF OAuthInv, ReplacedForReason
  <2>2. \/ oaReplaced' = oaReplaced
        \/ oaReplaced' = oaReplaced \cup {oaToken[c]} /\ oaToken[c] \in oaRevoked
    BY <1>e DEF Send
  <2> QED BY <2>1, <2>2
<1> USE CallerAssumption, <1>g
    DEF OAuthInv, OAuthTypeOK, HeldWhileRefreshing, NewestPresented, ReplacedForReason,
        RequestsCounted, SentByPlace, OAuthPlaces, Sending, Refreshing, OAt, FormToken, NoToken,
        callerVars, serverSide, ghostVars, stateVars
<1>1. ASSUME NEW c \in Caller, CheckToken(c)
      PROVE  OAuthInv'
  BY <1>1 DEF CheckToken
<1>2. ASSUME NEW c \in Caller, TakeToken(c)
      PROVE  OAuthInv'
  BY <1>2 DEF TakeToken
<1>3. ASSUME NEW c \in Caller, Send(c)
      PROVE  OAuthInv'
  <2>1. /\ oaSent' \in [Caller -> Nat] /\ oaSent'[c] = oaSent[c] + 1
        /\ \A d \in Caller \ {c} : oaSent'[d] = oaSent[d]
    BY <1>3 DEF Send
  <2>2. \/ /\ OGo(c, "answered") \/ OGo(c, "failed")
           /\ UNCHANGED <<oaReplaced, oaRejected>>
        \/ /\ c \in oaRetried /\ OGo(c, "failed") /\ UNCHANGED oaRejected
           /\ oaToken[c] \in oaRevoked /\ oaReplaced' = oaReplaced \cup {oaToken[c]}
        \/ /\ c \notin oaRetried /\ OGo(c, "want")
           /\ oaToken[c] \in oaRevoked /\ oaReplaced' = oaReplaced \cup {oaToken[c]}
           /\ oaRejected' \in [Caller -> Nat] /\ oaRejected'[c] = oaToken[c]
           /\ \A d \in Caller \ {c} : oaRejected'[d] = oaRejected[d]
    BY <1>3 DEF Send
  <2>3. /\ oaAt[c] = "send"
        /\ UNCHANGED <<oaTool, oaRetried, oaToken, oaForm, oaAccess, oaRefresh, oaVault, oaLock,
                       oaIssued, oaRevoked, oaSuperseded, oaReused, oaRefreshes>>
    BY <1>3 DEF Send
  <2>4. /\ oaReplaced \subseteq oaReplaced' /\ oaReplaced' \subseteq 1 .. oaIssued
    BY <1>3, <1>e
  <2>5. ReplacedForReason'
    <3>1. ASSUME NEW d \in Caller
          PROVE  /\ oaRejected'[d] # NoToken => oaRejected'[d] \in oaReplaced'
                 /\ oaAt'[d] \in {"locked", "posted"} => oaAt[d] \in {"locked", "posted"}
      BY <2>2, <2>3, <2>4
    <3> QED BY <2>3, <2>4, <3>1
  <2>6. OAuthTypeOK' /\ HeldWhileRefreshing' /\ NewestPresented'
    BY <2>1, <2>2, <2>3
  <2>7. RequestsCounted'
    BY <2>2, <2>3
  <2>8. SentByPlace'
    BY <2>1, <2>2, <2>3
  <2> QED BY <2>5, <2>6, <2>7, <2>8
<1>4. ASSUME NEW c \in Caller, LockRefresh(c)
      PROVE  OAuthInv'
  BY <1>4, <1>r DEF LockRefresh, AlreadyRefreshed, Usable
<1>5. ASSUME NEW c \in Caller, Post(c)
      PROVE  OAuthInv'
  <2>1. /\ oaForm' \in [Caller -> Nat] /\ oaForm'[c] = FormToken(c)
        /\ \A d \in Caller \ {c} : oaForm'[d] = oaForm[d]
    BY <1>5 DEF Post
  <2>2. /\ oaRefreshes' \in [made : Nat, failed : Nat]
        /\ oaRefreshes'.made = oaRefreshes.made + 1 /\ oaRefreshes'.failed = oaRefreshes.failed
    BY <1>5 DEF Post
  <2>3. FormToken(c) \notin oaSuperseded
    OBVIOUS
  <2>4. OAuthTypeOK'
    BY <1>5, <2>1, <2>2, <2>3 DEF Post
  <2>5. HeldWhileRefreshing'
    BY <1>5, <2>1, <2>2, <2>3 DEF Post
  <2>6. NewestPresented'
    <3>1. oaRefresh' = oaRefresh /\ oaVault' = oaVault /\ oaSuperseded' = oaSuperseded
      BY <1>5 DEF Post
    <3>2. ~oaReused'
      BY <1>5, <2>3 DEF Post
    <3>3. ASSUME NEW d \in Caller, oaAt'[d] = "posted"
          PROVE  oaForm'[d] = IF oaRefresh # NoToken THEN oaRefresh ELSE oaVault
      <4>1. CASE d = c
        BY <2>1, <4>1
      <4>2. CASE d # c
        <5>1. oaAt[d] = "posted" /\ oaForm'[d] = oaForm[d]
          BY <1>5, <2>1, <3>3, <4>2 DEF Post, OGo
        <5> QED BY <5>1
      <4> QED BY <4>1, <4>2
    <3> QED BY <3>1, <3>2, <3>3
  <2>7. ReplacedForReason'
    BY <1>5, <2>1, <2>2, <2>3 DEF Post
  <2>8. RequestsCounted'
    BY <1>5, <2>1, <2>2, <2>3 DEF Post
  <2>9. SentByPlace'
    BY <1>5, <2>1, <2>2, <2>3 DEF Post
  <2> QED BY <2>4, <2>5, <2>6, <2>7, <2>8, <2>9
<1>6. ASSUME NEW c \in Caller, PostFails(c)
      PROVE  OAuthInv'
  BY <1>6 DEF PostFails
<1>7. ASSUME NEW c \in Caller, PostAnswers(c)
      PROVE  OAuthInv'
  <2>1. /\ oaAccess' \in [token : Nat, expired : BOOLEAN] /\ oaIssued' = oaIssued + 1
        /\ oaAccess'.token = oaIssued + 1 /\ ~oaAccess'.expired
        /\ oaRefresh' \in Nat /\ oaVault' \in Nat
    BY <1>7 DEF PostAnswers
  <2>2. OAuthTypeOK' /\ HeldWhileRefreshing'
    BY <1>7, <1>r, <2>1 DEF PostAnswers
  <2>3. NewestPresented'
    BY <1>7, <1>r, <2>1 DEF PostAnswers
  <2>4. ReplacedForReason'
    BY <1>7, <1>r, <2>1 DEF PostAnswers
  <2>5. RequestsCounted'
    BY <1>7, <1>r, <2>1 DEF PostAnswers
  <2>6. SentByPlace'
    BY <1>7, <1>r, <2>1 DEF PostAnswers
  <2> QED BY <2>2, <2>3, <2>4, <2>5, <2>6
<1>8. ASSUME Revoke
      PROVE  OAuthInv'
  BY <1>8 DEF Revoke
<1>9. ASSUME Expire
      PROVE  OAuthInv'
  <2>1. oaAccess'.token = oaAccess.token /\ oaAccess' \in [token : Nat, expired : BOOLEAN]
    BY <1>9 DEF Expire
  <2>2. oaReplaced' = oaReplaced \cup {oaIssued} /\ oaIssued \in 1 .. oaIssued
    BY <1>9 DEF Expire, Usable
  <2>3. UNCHANGED <<oaAt, oaTool, oaRetried, oaToken, oaRejected, oaForm, oaRefresh, oaVault, oaLock,
                    oaIssued, oaRevoked, oaSuperseded, oaReused, oaRefreshes, oaSent>>
    BY <1>9 DEF Expire
  <2> QED BY <2>1, <2>2, <2>3
<1>10. ASSUME UNCHANGED oauthVars
       PROVE  OAuthInv'
  BY <1>10 DEF oauthVars
<1> QED
  BY <1>1, <1>2, <1>3, <1>4, <1>5, <1>6, <1>7, <1>8, <1>9, <1>10 DEF OAuthNext, CallerStep

\* As many replaced tokens as issued ones, but for the newest.
LEMMA ReplacedCounted ==
  ASSUME ReplacedForReason, oaIssued \in Nat
  PROVE  /\ IsFiniteSet(oaReplaced) /\ Cardinality(oaReplaced) \in Nat
         /\ oaIssued <= 1 + Cardinality(oaReplaced)
         /\ oaIssued \in oaReplaced => oaIssued <= Cardinality(oaReplaced)
<1>1. IsFiniteSet(1 .. oaIssued)
  BY FS_Interval
<1>2. IsFiniteSet(oaReplaced) /\ Cardinality(oaReplaced) \in Nat
  BY <1>1, FS_Subset, FS_CardinalityType DEF ReplacedForReason
<1>3. ASSUME NEW n \in Nat, 1 .. n \subseteq oaReplaced
      PROVE  n <= Cardinality(oaReplaced)
  <2>1. Cardinality(1 .. n) = n
    BY FS_Interval
  <2>2. Cardinality(1 .. n) <= Cardinality(oaReplaced)
    BY <1>2, <1>3, FS_Subset
  <2> QED BY <2>1, <2>2
<1>4. CASE oaIssued = 0
  BY <1>2, <1>4
<1>5. CASE oaIssued # 0
  <2>1. oaIssued - 1 \in Nat /\ 1 .. (oaIssued - 1) \subseteq oaReplaced
    BY <1>5 DEF ReplacedForReason
  <2>2. oaIssued - 1 <= Cardinality(oaReplaced)
    BY <2>1, <1>3
  <2>3. oaIssued \in oaReplaced => 1 .. oaIssued \subseteq oaReplaced
    BY DEF ReplacedForReason
  <2> QED BY <2>2, <2>3, <1>2, <1>3
<1> QED BY <1>4, <1>5

\* Callers that share one MCP client replace a token once, never present a
\* refresh token that was replaced, and never send a tool call twice
\* (crates/nh-tools/src/mcp.rs, oauth).
THEOREM NoTokenSpentTwice == OAuthSpec => []NothingIsSpentTwice
<1>1. ASSUME OAuthInit
      PROVE  OAuthInv
  <2>1. OAuthTypeOK /\ oaAccess.token = 0 /\ oaAccess.expired = FALSE
        /\ oaRefreshes.made = 0 /\ oaRefreshes.failed = 0
    BY <1>1 DEF OAuthInit, OAuthTypeOK, OAuthPlaces, Sending, NoToken
  <2> QED
    BY <1>1, <2>1, CallerAssumption
       DEF OAuthInit, OAuthInv, HeldWhileRefreshing, NewestPresented, ReplacedForReason,
           RequestsCounted, SentByPlace, Refreshing, NoToken
<1>2. ASSUME OAuthInv
      PROVE  NothingIsSpentTwice
  <2>1. oaRefreshes.made <= 1 + Cardinality(oaReplaced) + oaRefreshes.failed
    <3>1. /\ oaIssued \in Nat /\ oaRefreshes.made \in Nat /\ oaRefreshes.failed \in Nat
          /\ Cardinality(oaReplaced) \in Nat /\ oaIssued <= 1 + Cardinality(oaReplaced)
          /\ oaIssued \in oaReplaced => oaIssued <= Cardinality(oaReplaced)
      BY <1>2, ReplacedCounted DEF OAuthInv, OAuthTypeOK
    <3>2. CASE \A c \in Caller : oaAt[c] # "posted"
      BY <1>2, <3>1, <3>2 DEF OAuthInv, RequestsCounted
    <3>3. CASE \E c \in Caller : oaAt[c] = "posted"
      <4>1. oaIssued = 0 \/ oaIssued \in oaReplaced
        BY <1>2, <3>3 DEF OAuthInv, ReplacedForReason
      <4>2. oaRefreshes.made = oaIssued + oaRefreshes.failed + 1
        BY <1>2, <3>3 DEF OAuthInv, RequestsCounted
      <4> QED BY <3>1, <4>1, <4>2
    <3> QED BY <3>2, <3>3
  <2>2. ToolCallsAreSentOnce
    BY <1>2 DEF OAuthInv, OAuthTypeOK, SentByPlace, ToolCallsAreSentOnce, Refreshing
  <2> QED
    BY <1>2, <2>1, <2>2 DEF OAuthInv, NewestPresented, NothingIsSpentTwice, RefreshIsCoalesced
<1> QED
  BY <1>1, <1>2, OAuthStep, PTL DEF OAuthSpec

----------------------------------------------------------------------------
(* McpServer.                                                              *)

ServerTypeOK ==
  /\ svPhase \in {"accepting", "busy", "claimed", "prepared", "spawned", "reading", "closed"}
  /\ svActive \in Int /\ svTold \subseteq RunId /\ svDirs \subseteq RunId
  /\ svThread \in [RunId -> {"none", "starting", "locked", "running", "hanging", "returned", "gone"}]

\* Directories are made in the order of the ids, and a run that has a thread has one
DirsAsMinted ==
  /\ \E n \in Nat : svDirs = 1 .. n
  /\ \A r \in RunId : svThread[r] # "none" => r \in svDirs
  /\ svTold \subseteq svDirs

\* The run in hand has its directory, and has no thread before the spawn
RunInHand ==
  /\ svPhase \in {"prepared", "spawned"} => svRun \in svDirs
  /\ svPhase = "prepared" => svThread[svRun] = "none"

\* A call that got past the counter has a slot to fill
SlotLeft == svPhase \in {"claimed", "prepared"} => Cardinality(Executing) < MaxActive

ServerInv ==
  /\ ServerTypeOK /\ DirsAsMinted /\ RunInHand /\ SlotLeft
  /\ ActiveRunsAreCapped /\ StartedIsKnown

\* The runs that execute are a finite set, a thread more or less counts one.
LEMMA ExecutingCounted ==
  /\ IsFiniteSet(RunId) /\ IsFiniteSet(Executing) /\ Cardinality(Executing) \in Nat
  /\ \A r \in RunId \ Executing : Cardinality(Executing \cup {r}) = Cardinality(Executing) + 1
  /\ \A r \in Executing : Cardinality(Executing \ {r}) = Cardinality(Executing) - 1
<1>1. IsFiniteSet(RunId)
  BY ServerAssumption, FS_Interval DEF RunId
<1>2. IsFiniteSet(Executing)
  BY <1>1, FS_Subset DEF Executing
<1> QED BY <1>1, <1>2, FS_CardinalityType, FS_AddElement, FS_RemoveElement

\* A new id is one past the directories there are.
LEMMA FreshIsNew ==
  ASSUME DirsAsMinted, svDirs \subseteq RunId
  PROVE  \E n \in Nat : svDirs = 1 .. n /\ Fresh = n + 1
<1>1. PICK n \in Nat : svDirs = 1 .. n
  BY DEF DirsAsMinted
<1>2. Cardinality(1 .. n) = n
  BY FS_Interval
<1> QED BY <1>1, <1>2 DEF Fresh

\* A step that starts and ends no thread and claims no slot keeps the count.
LEMMA SameThreads ==
  ASSUME ServerInv, Executing' = Executing, svActive' = svActive,
         svPhase' \in {"busy", "claimed", "prepared"} <=> svPhase \in {"busy", "claimed", "prepared"},
         svPhase' \in {"claimed", "prepared"} => svPhase \in {"claimed", "prepared"}
  PROVE  ActiveRunsAreCapped' /\ SlotLeft'
BY DEF ServerInv, ActiveRunsAreCapped, SlotLeft

\* A call that gives its slot back without a thread.
LEMMA SlotGivenBack ==
  ASSUME ServerInv, Executing' = Executing, svActive' = svActive - 1,
         svPhase \in {"busy", "claimed", "prepared"}, svPhase' = "accepting"
  PROVE  ActiveRunsAreCapped' /\ SlotLeft'
BY ExecutingCounted DEF ServerInv, ServerTypeOK, ActiveRunsAreCapped, SlotLeft

\* One step of the accept loop, of a run's thread or of a resume
LEMMA ServerStep == ServerInv /\ [ServerNext]_serverVars => ServerInv'
<1> SUFFICES ASSUME ServerInv, [ServerNext]_serverVars
             PROVE  ServerInv'
  OBVIOUS
<1>a. ASSUME NEW tool, NEW verdict, Answer(tool, verdict), tool # "fleet_status"
      PROVE  svPhase' = "accepting" /\ svReply'.tool # "fleet_status"
  BY <1>a DEF Answer
<1>g. ASSUME NEW r \in RunId, NEW to \in {"locked", "running", "hanging", "returned", "gone"}, Go(r, to)
      PROVE  /\ svThread' \in [RunId -> {"none", "starting", "locked", "running", "hanging", "returned", "gone"}]
             /\ svThread'[r] = to /\ \A o \in RunId \ {r} : svThread'[o] = svThread[o]
  BY <1>g DEF Go, ServerInv, ServerTypeOK
<1>e. UNCHANGED svThread => Executing' = Executing
  BY DEF Executing
<1>h. ASSUME NEW r \in RunId, NEW to \in {"locked", "running", "hanging", "returned"}, Go(r, to),
             svThread[r] \in {"starting", "locked", "running"}
      PROVE  Executing' = Executing
  BY <1>h, <1>g DEF Executing
<1> USE <1>a DEF callVars, runVars, ThreadAt, Lock, Write
<1>1. ASSUME NEW q, Request(q)
      PROVE  ServerInv'
  <2>1. Executing' = Executing
    BY <1>1, <1>e DEF Request, Refuse, ReadOnlyCall, FleetRunMalformed, Claim, ReadLedger
  <2>2. ServerTypeOK' /\ DirsAsMinted' /\ RunInHand'
    <3>1. /\ svActive' \in {svActive, svActive + 1} /\ UNCHANGED <<svTold, svDirs, svThread>>
          /\ svPhase' \in {"accepting", "busy", "claimed", "reading"}
      BY <1>1 DEF Request, Refuse, ReadOnlyCall, FleetRunMalformed, Claim, ReadLedger, Answer
    <3> QED BY <3>1 DEF ServerInv, ServerTypeOK, DirsAsMinted, RunInHand
  <2>3. ActiveRunsAreCapped' /\ SlotLeft'
    <3>1. CASE Claim(q)
      BY <2>1, <3>1, ExecutingCounted, ServerAssumption
         DEF Claim, Accepting, ServerInv, ServerTypeOK, ActiveRunsAreCapped, SlotLeft
    <3>2. CASE Refuse(q) \/ ReadOnlyCall(q) \/ FleetRunMalformed(q) \/ ReadLedger(q)
      <4>1. svActive' = svActive /\ svPhase = "accepting" /\ svPhase' \in {"accepting", "reading"}
        BY <3>2 DEF Refuse, ReadOnlyCall, FleetRunMalformed, ReadLedger, Accepting, Answer
      <4> QED BY <2>1, <4>1, SameThreads
    <3> QED BY <1>1, <3>1, <3>2 DEF Request
  <2>4. StartedIsKnown'
    <3>1. svReply'.tool # "fleet_status"
      BY <1>1, <1>a DEF Request, Refuse, ReadOnlyCall, FleetRunMalformed, Claim, ReadLedger, Nothing
    <3> QED BY <3>1 DEF StartedIsKnown
  <2> QED BY <2>2, <2>3, <2>4 DEF ServerInv
<1>2. ASSUME Busy \/ PreflightFails \/ PrepareFails \/ SpawnFails
      PROVE  ServerInv'
  <2>1. /\ Executing' = Executing /\ svActive' = svActive - 1
        /\ svPhase \in {"busy", "claimed", "prepared"} /\ svPhase' = "accepting"
        /\ svReply'.tool # "fleet_status"
        /\ UNCHANGED <<svTold, svDirs, svThread>>
    BY <1>2, <1>e DEF Busy, PreflightFails, PrepareFails, SpawnFails
  <2> QED
    BY <2>1, SlotGivenBack
       DEF ServerInv, ServerTypeOK, DirsAsMinted, RunInHand, StartedIsKnown
<1>3. ASSUME Prepare
      PROVE  ServerInv'
  <2>1. PICK n \in Nat : svDirs = 1 .. n /\ Fresh = n + 1
    BY FreshIsNew DEF ServerInv, ServerTypeOK
  <2>2. /\ svDirs' = svDirs \cup {n + 1} /\ svRun' = n + 1 /\ n + 1 \in RunId
        /\ svPhase = "claimed" /\ svPhase' = "prepared"
        /\ UNCHANGED <<svActive, svReply, svTold, svThread>>
    BY <1>3, <2>1 DEF Prepare
  <2>3. svDirs' = 1 .. (n + 1) /\ n + 1 \notin svDirs
    BY <2>1, <2>2
  <2>4. svThread[n + 1] = "none"
    BY <2>2, <2>3 DEF ServerInv, DirsAsMinted
  <2>5. ActiveRunsAreCapped' /\ SlotLeft'
    BY <1>e, <2>2, SameThreads
  <2>6. DirsAsMinted'
    BY <2>2, <2>3 DEF ServerInv, DirsAsMinted
  <2> QED
    BY <2>2, <2>4, <2>5, <2>6 DEF ServerInv, ServerTypeOK, RunInHand, StartedIsKnown
<1>4. ASSUME SpawnThread
      PROVE  ServerInv'
  <2>1. /\ svPhase = "prepared" /\ svPhase' = "spawned" /\ svRun \in RunId
        /\ svThread' = [svThread EXCEPT ![svRun] = "starting"] /\ svThread[svRun] = "none"
        /\ svRun \in svDirs
        /\ UNCHANGED <<svActive, svRun, svReply, svTold, svDirs>>
    BY <1>4 DEF SpawnThread, ServerInv, ServerTypeOK, RunInHand
  <2>2. /\ ServerTypeOK' /\ svThread'[svRun] = "starting"
        /\ \A o \in RunId \ {svRun} : svThread'[o] = svThread[o]
    BY <2>1 DEF ServerInv, ServerTypeOK
  <2>3. Executing' = Executing \cup {svRun} /\ svRun \in RunId \ Executing
    BY <2>1, <2>2 DEF Executing
  <2>4. ActiveRunsAreCapped' /\ SlotLeft'
    BY <2>1, <2>3, ExecutingCounted, ServerAssumption
       DEF ServerInv, ServerTypeOK, ActiveRunsAreCapped, SlotLeft
  <2>5. DirsAsMinted' /\ RunInHand'
    BY <2>1, <2>2 DEF ServerInv, DirsAsMinted, RunInHand
  <2> QED BY <2>1, <2>2, <2>4, <2>5 DEF ServerInv, StartedIsKnown
<1>5. ASSUME Tell
      PROVE  ServerInv'
  <2>1. /\ svPhase = "spawned" /\ svPhase' = "accepting" /\ svTold' = svTold \cup {svRun}
        /\ svRun \in svDirs /\ svReply'.tool # "fleet_status" /\ Executing' = Executing
        /\ UNCHANGED <<svActive, svDirs, svThread>>
    BY <1>5, <1>e DEF Tell, ServerInv, RunInHand
  <2>2. ActiveRunsAreCapped' /\ SlotLeft'
    BY <2>1, SameThreads
  <2> QED
    BY <2>1, <2>2 DEF ServerInv, ServerTypeOK, DirsAsMinted, RunInHand, StartedIsKnown
<1>6. ASSUME Status
      PROVE  ServerInv'
  <2>1. /\ svPhase = "reading" /\ svPhase' = "accepting" /\ Executing' = Executing
        /\ UNCHANGED <<svActive, svTold, svDirs, svThread>>
    BY <1>6, <1>e DEF Status
  <2>2. svReply'.run \in svDirs => svReply'.verdict # "unknown"
    BY <1>6 DEF Status, StateOf
  <2>3. ActiveRunsAreCapped' /\ SlotLeft'
    BY <2>1, SameThreads
  <2> QED
    BY <2>1, <2>2, <2>3 DEF ServerInv, ServerTypeOK, DirsAsMinted, RunInHand, StartedIsKnown
<1>7. ASSUME Shutdown \/ Close \/ UNCHANGED serverVars
      PROVE  ServerInv'
  <2>1. /\ Executing' = Executing /\ UNCHANGED <<svActive, svReply, svRun, svTold, svDirs, svThread>>
        /\ svPhase' = svPhase \/ (svPhase = "accepting" /\ svPhase' = "closed")
    BY <1>7, <1>e DEF Shutdown, Close, serverVars
  <2>2. ActiveRunsAreCapped' /\ SlotLeft'
    BY <2>1, SameThreads
  <2> QED
    BY <2>1, <2>2 DEF ServerInv, ServerTypeOK, DirsAsMinted, RunInHand, StartedIsKnown
<1>8. ASSUME NEW r \in RunId,
             \/ TakeLock(r) \/ LockTaken(r) \/ RefuseLedger(r) \/ StartRun(r)
             \/ EndRun(r) \/ FailsUnlocked(r) \/ EndsUnrecorded(r) \/ RunHangs(r)
      PROVE  ServerInv'
  <2>1. PICK to \in {"locked", "running", "hanging", "returned"} : Go(r, to)
    BY <1>8 DEF TakeLock, LockTaken, RefuseLedger, StartRun, EndRun,
             FailsUnlocked, EndsUnrecorded, RunHangs
  <2>2. /\ svThread[r] \in {"starting", "locked", "running"}
        /\ UNCHANGED <<svPhase, svActive, svRun, svReply, svTold>>
    BY <1>8 DEF TakeLock, LockTaken, RefuseLedger, StartRun, EndRun,
             FailsUnlocked, EndsUnrecorded, RunHangs
  <2>3. svDirs' = svDirs
    <3>1. r \in svDirs
      BY <2>2 DEF ServerInv, DirsAsMinted
    <3> QED BY <1>8, <3>1 DEF TakeLock, LockTaken, RefuseLedger, StartRun, EndRun,
             FailsUnlocked, EndsUnrecorded, RunHangs
  <2>4. Executing' = Executing
    BY <2>1, <2>2, <1>h
  <2>5. ActiveRunsAreCapped' /\ SlotLeft'
    BY <2>2, <2>4, SameThreads
  <2> QED
    BY <2>1, <2>2, <2>3, <2>5, <1>g
       DEF ServerInv, ServerTypeOK, DirsAsMinted, RunInHand, StartedIsKnown
<1>9. ASSUME NEW r \in RunId, DropGuard(r)
      PROVE  ServerInv'
  <2>1. /\ svThread[r] = "returned" /\ Go(r, "gone") /\ svActive' = svActive - 1
        /\ UNCHANGED <<svPhase, svRun, svReply, svTold, svDirs>>
    BY <1>9 DEF DropGuard
  <2>2. Executing' = Executing \ {r} /\ r \in Executing
    BY <2>1, <1>g DEF Executing
  <2>3. ActiveRunsAreCapped' /\ SlotLeft'
    BY <2>1, <2>2, ExecutingCounted, ServerAssumption
       DEF ServerInv, ServerTypeOK, ActiveRunsAreCapped, SlotLeft
  <2> QED
    BY <2>1, <2>3, <1>g
       DEF ServerInv, ServerTypeOK, DirsAsMinted, RunInHand, StartedIsKnown
<1>10. ASSUME NEW r \in RunId, Resume(r) \/ Resumer(r)
       PROVE  ServerInv'
  <2>1. Executing' = Executing /\ UNCHANGED <<svPhase, svActive, svRun, svReply, svTold, svDirs, svThread>>
    BY <1>10, <1>e DEF Resume, Resumer, ResumeFails, ResumeRuns,
              ResumeUnrecorded, ResumeHangs, ResumeReturns
  <2>2. ActiveRunsAreCapped' /\ SlotLeft'
    BY <2>1, SameThreads
  <2> QED
    BY <2>1, <2>2 DEF ServerInv, ServerTypeOK, DirsAsMinted, RunInHand, StartedIsKnown
<1> QED
  BY <1>1, <1>2, <1>3, <1>4, <1>5, <1>6, <1>7, <1>8, <1>9, <1>10
     DEF ServerNext, Handler, RunThread

\* The counter of active runs is exactly the guards alive, never more than
\* MAX_ACTIVE_RUNS runs execute, and a run a caller was told of is never
\* unknown afterwards (crates/nh-mcp/src/lib.rs).
THEOREM RunsAccounted == ServerSpec => []RunsAreAccounted
<1>1. ASSUME ServerInit
      PROVE  ServerInv
  <2>1. /\ svPhase = "accepting" /\ svActive = 0 /\ svTold = {} /\ svDirs = {}
        /\ \A r \in RunId : svThread[r] = "none"
        /\ ServerTypeOK /\ svReply.tool = "none"
    BY <1>1 DEF ServerInit, ServerTypeOK, Nothing
  <2>2. Executing = {} /\ Cardinality({}) = 0
    BY <2>1, FS_EmptySet DEF Executing
  <2>3. 1 .. 0 = {}
    OBVIOUS
  <2> QED
    BY <2>1, <2>2, <2>3, ServerAssumption
       DEF ServerInv, DirsAsMinted, RunInHand, SlotLeft, ActiveRunsAreCapped, StartedIsKnown
<1>2. ServerInv => RunsAreAccounted
  BY DEF ServerInv, RunsAreAccounted
<1> QED
  BY <1>1, <1>2, ServerStep, PTL DEF ServerSpec

----------------------------------------------------------------------------
(* McpTools.                                                               *)

ToolPlaces == {"starting", "idle", "asking", "allowed", "current"}

\* The adapter is what was reviewed, of a server that may be contacted
AdapterReviewed == mcAdapter # NoTool => Contacted /\ mcAdapter = mcReview.def

\* A call that goes on is of an adapter, and allowed by the user or without asking
CallInHand ==
  /\ mcAt \in {"asking", "allowed", "current"} => mcAdapter # NoTool
  /\ mcAt \in {"allowed", "current"} => mcApproved \/ Unasked
  /\ mcAt = "current" => mcSaw = mcAdapter

ToolsInv ==
  mcAt \in ToolPlaces /\ AdapterReviewed /\ CallInHand /\ CallsAreReviewed

\* One step of a session, of the operator or of the server
LEMMA ToolsStep == ToolsInv /\ [ToolsNext]_toolVars => ToolsInv'
<1> SUFFICES ASSUME ToolsInv, [ToolsNext]_toolVars
             PROVE  ToolsInv'
  OBVIOUS
<1> USE DEF ToolsInv, ToolPlaces, AdapterReviewed, CallInHand, Contacted, Unasked, settings, world,
            Refused, Onwards
<1>1. CASE CollectAdapters
  <2>1. /\ mcAt' = "idle" /\ UNCHANGED <<mcTrust, mcLaw, mcReview, mcSent>>
        /\ mcAdapter' # NoTool => mcAdapter' = mcAdapter \/ (Contacted /\ mcAdapter' = mcReview.def)
    BY <1>1 DEF CollectAdapters
  <2> QED BY <2>1 DEF CallsAreReviewed
<1>2. CASE Discover \/ Relist \/ CancelCall \/ UNCHANGED toolVars
  <2>1. UNCHANGED <<mcAt, mcTrust, mcLaw, mcReview, mcSent, mcAdapter, mcApproved, mcSaw>>
    BY <1>2 DEF Discover, Relist, CancelCall, toolVars
  <2> QED BY <2>1 DEF CallsAreReviewed
<1>3. CASE Invoke
  <2>1. UNCHANGED <<mcTrust, mcLaw, mcReview, mcSent, mcAdapter>>
    BY <1>3 DEF Invoke
  <2>2. /\ mcAt' \in {"idle", "allowed", "asking"}
        /\ mcAt' \in {"allowed", "asking"} => mcAdapter # NoTool
        /\ mcAt' = "allowed" => Unasked
    BY <1>3 DEF Invoke, Reachable
  <2> QED BY <2>1, <2>2 DEF CallsAreReviewed
<1>4. CASE UserApproves
  <2>1. /\ mcAt = "asking" /\ UNCHANGED <<mcTrust, mcLaw, mcReview, mcSent, mcAdapter>>
        /\ mcAt' = "idle" \/ (mcAt' = "allowed" /\ mcApproved')
    BY <1>4 DEF UserApproves
  <2> QED BY <2>1 DEF CallsAreReviewed
<1>5. CASE Revalidate
  <2>1. /\ mcAt = "allowed" /\ UNCHANGED <<mcTrust, mcLaw, mcReview, mcSent, mcAdapter, mcApproved>>
        /\ mcAt' = "idle" \/ (mcAt' = "current" /\ mcSaw' = mcAdapter)
    BY <1>5 DEF Revalidate
  <2> QED BY <2>1 DEF CallsAreReviewed
<1>6. CASE CallTool
  <2>1. /\ mcAt = "current" /\ mcAt' = "idle"
        /\ UNCHANGED <<mcTrust, mcLaw, mcReview, mcAdapter>>
        /\ mcSent' \subseteq mcSent \cup {[saw |-> mcSaw, approved |-> mcApproved]}
    BY <1>6 DEF CallTool
  <2>2. ASSUME NEW call \in mcSent'
        PROVE  /\ mcReview.exists /\ mcReview.connection /\ mcReview.enabled
               /\ call.saw = mcReview.def
               /\ mcLaw # "block" /\ mcTrust # "block"
               /\ call.approved \/ (mcTrust = "auto" /\ mcReview.def.readOnly /\ mcLaw = "allow")
    <3>1. CASE call \in mcSent
      BY <3>1 DEF CallsAreReviewed
    <3>2. CASE call = [saw |-> mcSaw, approved |-> mcApproved]
      <4>1. call.saw = mcSaw /\ (call.approved <=> mcApproved)
        BY <3>2
      <4> QED BY <2>1, <4>1
    <3> QED BY <2>1, <2>2, <3>1, <3>2
  <2>3. CallsAreReviewed'
    BY <2>1, <2>2 DEF CallsAreReviewed
  <2> QED BY <2>1, <2>3
<1> QED
  BY <1>1, <1>2, <1>3, <1>4, <1>5, <1>6 DEF ToolsNext

----------------------------------------------------------------------------
(* McpSetup.                                                               *)

Reviews == [kind : {"absent", "malformed", "state"},
            connection : [url : {"a", "b", "unsafe", "none"}, auth : Auths],
            snapshot : Listings, enabled : SUBSET SetupTools]
Commands == [command : {"none", "connect", "review", "disable"},
             at : {"new", "asked", "contact", "publish", "replace", "ended"},
             config : Tables \cup {NoServer}, prior : Reviews, next : Reviews, snapshot : Listings]

SetupTypeOK ==
  /\ suConfig \in Tables \cup {NoServer} /\ suRepo \in {"auto", "block"}
  /\ suListed \in Listings /\ suReview \in Reviews /\ suDo \in [Setups -> Commands]

\* Whatever a review enables was listed then, and was shown to the operator
EnablesShown(review, shown) ==
  \A t \in review.enabled :
    /\ review.snapshot[t] # "gone"
    /\ Seen(review.connection, t, review.snapshot[t]) \in shown

\* So it is for the saved review and for those the commands have in hand
ReviewsShown ==
  /\ EnablesShown(suReview, suShown)
  /\ \A p \in Setups : EnablesShown(suDo[p].prior, suShown) /\ EnablesShown(suDo[p].next, suShown)

SetupInv ==
  SetupTypeOK /\ ReviewsShown /\ (suUntouched => suReview = NoReview)

\* What was shown once counts for ever.
LEMMA ShownStays ==
  ASSUME NEW review, NEW shown, NEW more, EnablesShown(review, shown), shown \subseteq more
  PROVE  EnablesShown(review, more)
BY DEF EnablesShown

\* The reviews and the command that enable nothing.
LEMMA EmptyReviews ==
  /\ NoReview \in Reviews /\ Malformed \in Reviews /\ NoSetup \in Commands
  /\ \A shown : EnablesShown(NoReview, shown) /\ EnablesShown(Malformed, shown)
  /\ NoSetup.prior = NoReview /\ NoSetup.next = NoReview /\ NoReview.kind = "absent"
<1>1. NothingListed \in Listings
  BY DEF NothingListed, Listings
<1>2. Connection(NoServer) \in [url : {"a", "b", "unsafe", "none"}, auth : Auths]
  BY DEF Connection, NoServer, Auths
<1>3. \A kind \in {"absent", "malformed"} :
        /\ Unread(kind) \in Reviews /\ Unread(kind).enabled = {} /\ Unread(kind).kind = kind
  BY <1>1, <1>2 DEF Unread, Reviews
<1>4. NoReview \in Reviews /\ Malformed \in Reviews /\ NoReview.kind = "absent"
  BY <1>3 DEF NoReview, Malformed
<1>5. \A shown : EnablesShown(NoReview, shown) /\ EnablesShown(Malformed, shown)
  BY <1>3 DEF NoReview, Malformed, EnablesShown
<1>6. NoSetup \in Commands /\ NoSetup.prior = NoReview /\ NoSetup.next = NoReview
  BY <1>1, <1>4 DEF NoSetup, Commands
<1> QED BY <1>4, <1>5, <1>6

\* A command that moves on with reviews the operator has seen.
LEMMA CommandMoves ==
  ASSUME SetupInv, NEW p \in Setups, NEW command \in Commands, SetupBecomes(p, command),
         suShown \subseteq suShown',
         EnablesShown(command.prior, suShown'), EnablesShown(command.next, suShown'),
         UNCHANGED <<suRepo, suListed>>, suConfig' \in Tables \cup {NoServer},
         suReview' \in Reviews, EnablesShown(suReview', suShown'),
         suUntouched' => suReview' = NoReview
  PROVE  SetupInv'
<1>1. suDo' \in [Setups -> Commands] /\ suDo'[p] = command
      /\ \A q \in Setups \ {p} : suDo'[q] = suDo[q]
  BY DEF SetupBecomes, SetupInv, SetupTypeOK
<1>2. SetupTypeOK'
  BY <1>1 DEF SetupInv, SetupTypeOK
<1>3. ASSUME NEW q \in Setups
      PROVE  EnablesShown(suDo'[q].prior, suShown') /\ EnablesShown(suDo'[q].next, suShown')
  BY <1>1, ShownStays DEF SetupInv, ReviewsShown
<1>4. ReviewsShown'
  BY <1>3 DEF ReviewsShown
<1> QED BY <1>2, <1>4 DEF SetupInv

\* A command that has ended, or is refused, holds no review.
LEMMA CommandEnds ==
  ASSUME SetupInv, NEW p \in Setups,
         suDo' = [suDo EXCEPT ![p] = [NoSetup EXCEPT !.at = "ended"]],
         suShown \subseteq suShown', UNCHANGED <<suRepo, suListed>>,
         suConfig' \in Tables \cup {NoServer},
         suReview' \in Reviews, EnablesShown(suReview', suShown'),
         suUntouched' => suReview' = NoReview
  PROVE  SetupInv'
<1> DEFINE ended == [NoSetup EXCEPT !.at = "ended"]
<1>1. ended \in Commands /\ ended.prior = NoReview /\ ended.next = NoReview
  <2>1. NoSetup \in Commands /\ NoSetup.prior = NoReview /\ NoSetup.next = NoReview
    BY EmptyReviews
  <2> QED BY <2>1 DEF Commands
<1>2. EnablesShown(ended.prior, suShown') /\ EnablesShown(ended.next, suShown')
  BY <1>1, EmptyReviews
<1>3. SetupBecomes(p, ended)
  BY DEF SetupBecomes
<1> HIDE DEF ended
<1> QED BY <1>1, <1>2, <1>3, CommandMoves

\* The command a process is at.
LEMMA CommandInHand ==
  ASSUME SetupInv, NEW p \in Setups
  PROVE  /\ suDo[p] \in Commands
         /\ EnablesShown(suDo[p].prior, suShown) /\ EnablesShown(suDo[p].next, suShown)
         /\ suReview \in Reviews /\ EnablesShown(suReview, suShown)
         /\ suConfig \in Tables \cup {NoServer} /\ suListed \in Listings
         /\ suUntouched => suReview = NoReview
BY DEF SetupInv, SetupTypeOK, ReviewsShown

\* `nh mcp connect`
LEMMA ConnectStep ==
  ASSUME SetupInv, NEW p \in Setups, ConnectReads(p) \/ ConnectConfirms(p) \/ SaveConnection(p)
  PROVE  SetupInv'
<1> USE CommandInHand, EmptyReviews
<1>1. UNCHANGED <<suRepo, suListed, suReview, suShown>>
  BY DEF ConnectReads, ConnectConfirms, SaveConnection, Only, setupRules
<1>2. ASSUME ConnectReads(p)
      PROVE  SetupInv'
  <2> DEFINE asked == [NoSetup EXCEPT !.command = "connect", !.at = "asked"]
  <2>1. UNCHANGED <<suConfig, suUntouched>>
    BY <1>2 DEF ConnectReads, Only
  <2>2. CASE SetupEnds(p)
    BY <1>1, <2>1, <2>2, CommandEnds DEF SetupEnds, SetupBecomes
  <2>3. CASE SetupBecomes(p, asked)
    <3>1. asked \in Commands /\ asked.prior = NoReview /\ asked.next = NoReview
      BY DEF Commands
    <3> HIDE DEF asked
    <3> QED BY <1>1, <2>1, <2>3, <3>1, CommandMoves
  <2> QED BY <1>2, <2>2, <2>3 DEF ConnectReads
<1>3. ASSUME ConnectConfirms(p)
      PROVE  SetupInv'
  <2>1. suDo[p].command = "connect" /\ suConfig' = suConfig
    BY <1>3 DEF ConnectConfirms, SetupAt, Only
  <2>2. CASE SetupEnds(p) /\ UNCHANGED <<suUntouched, suConnected>>
    BY <1>1, <2>1, <2>2, CommandEnds DEF SetupEnds, SetupBecomes
  <2>3. CASE suReview = NoReview /\ FilledIn(p)
    <3>1. PICK url \in {"a", "b"} : \E auth \in {"none", "apikey"} :
            SetupBecomes(p, [suDo[p] EXCEPT !.at = "publish",
                               !.config = [url |-> url, auth |-> auth, trust |-> "ask"]])
      BY <2>3 DEF FilledIn
    <3>2. PICK auth \in {"none", "apikey"} :
            SetupBecomes(p, [suDo[p] EXCEPT !.at = "publish",
                               !.config = [url |-> url, auth |-> auth, trust |-> "ask"]])
      BY <3>1
    <3> DEFINE filled == [suDo[p] EXCEPT !.at = "publish",
                            !.config = [url |-> url, auth |-> auth, trust |-> "ask"]]
    <3>3. filled \in Commands /\ filled.prior = suDo[p].prior /\ filled.next = suDo[p].next
      BY DEF Commands, Tables, Auths
    <3>4. SetupBecomes(p, filled)
      BY <3>2
    <3> HIDE DEF filled
    <3> QED BY <1>1, <2>1, <2>3, <3>3, <3>4, CommandMoves
  <2> QED BY <1>3, <2>2, <2>3 DEF ConnectConfirms
<1>4. ASSUME SaveConnection(p)
      PROVE  SetupInv'
  <2>1. suDo[p].command = "connect" /\ SetupEnds(p) /\ suUntouched' = suUntouched
    BY <1>4 DEF SaveConnection, SetupAt
  <2>2. suConfig' \in Tables \cup {NoServer}
    BY <1>4 DEF SaveConnection, Commands
  <2> QED BY <1>1, <2>1, <2>2, CommandEnds DEF SetupEnds, SetupBecomes
<1> QED BY <1>2, <1>3, <1>4

\* `nh mcp review`, until the operator is asked
LEMMA InspectStep ==
  ASSUME SetupInv, NEW p \in Setups, ReviewReads(p) \/ Inspect(p)
  PROVE  SetupInv'
<1> USE CommandInHand, EmptyReviews
<1>1. UNCHANGED <<suRepo, suListed, suReview, suShown, suConfig, suUntouched>>
  BY DEF ReviewReads, Inspect, Only, setupRules
<1>2. ASSUME ReviewReads(p)
      PROVE  SetupInv'
  <2> DEFINE contact == [NoSetup EXCEPT !.command = "review", !.at = "contact",
                           !.config = suConfig, !.prior = suReview]
  <2>1. CASE SetupEnds(p)
    BY <1>1, <2>1, CommandEnds DEF SetupEnds, SetupBecomes
  <2>2. CASE SetupBecomes(p, contact)
    <3>1. contact \in Commands /\ contact.prior = suReview /\ contact.next = NoReview
      BY DEF Commands
    <3> HIDE DEF contact
    <3> QED BY <1>1, <2>2, <3>1, CommandMoves
  <2> QED BY <1>2, <2>1, <2>2 DEF ReviewReads
<1>3. ASSUME Inspect(p)
      PROVE  SetupInv'
  <2> DEFINE asked == [suDo[p] EXCEPT !.at = "asked", !.snapshot = suListed]
  <2>1. CASE SetupEnds(p)
    BY <1>1, <2>1, CommandEnds DEF SetupEnds, SetupBecomes, Commands
  <2>2. CASE SetupBecomes(p, asked)
    <3>1. asked \in Commands /\ asked.prior = suDo[p].prior /\ asked.next = suDo[p].next
      BY DEF Commands
    <3> HIDE DEF asked
    <3> QED BY <1>1, <2>2, <3>1, CommandMoves
  <2> QED BY <1>3, <2>1, <2>2 DEF Inspect
<1> QED BY <1>2, <1>3

\* `nh mcp review`, when the operator has chosen
LEMMA ReviewStep ==
  ASSUME SetupInv, NEW p \in Setups, ReviewConfirms(p)
  PROVE  SetupInv'
<1> USE CommandInHand, EmptyReviews
<1> DEFINE mine == suDo[p]
           connection == Connection(mine.config)
           listed == {t \in SetupTools : mine.snapshot[t] # "gone"}
           next(chosen) == [kind |-> "state", connection |-> connection,
                            snapshot |-> mine.snapshot, enabled |-> chosen]
           goes(chosen) == [mine EXCEPT !.at = "publish", !.next = next(chosen)]
           again(chosen) == {c \in chosen :
                               ToolStatus(mine.prior, connection, mine.snapshot, c) # "enabled"}
           shown(chosen) == {Seen(connection, t, mine.snapshot[t]) : t \in again(chosen)}
<1>1. UNCHANGED <<suRepo, suListed, suReview, suConfig, suUntouched>> /\ mine.command = "review"
  BY DEF ReviewConfirms, SetupAt, setupRules
<1>2. CASE SetupEnds(p) /\ UNCHANGED suShown
  BY <1>1, <1>2, CommandEnds DEF SetupEnds, SetupBecomes
<1>3. ASSUME NEW chosen \in SUBSET listed, SetupBecomes(p, goes(chosen)),
             suShown' = suShown \cup shown(chosen)
      PROVE  SetupInv'
  <2>1. connection \in [url : {"a", "b", "unsafe", "none"}, auth : Auths]
    BY DEF Commands, Connection, Tables, NoServer, Auths
  <2>2. mine \in Commands /\ mine.snapshot \in Listings /\ mine.prior \in Reviews
    BY DEF Commands
  <2>3. next(chosen) \in Reviews /\ next(chosen).enabled = chosen
        /\ next(chosen).snapshot = mine.snapshot /\ next(chosen).connection = connection
    BY <2>1, <2>2 DEF Reviews
  <2>4. ASSUME NEW t \in chosen
        PROVE  mine.snapshot[t] # "gone" /\ Seen(connection, t, mine.snapshot[t]) \in suShown'
    <3>1. CASE ToolStatus(mine.prior, connection, mine.snapshot, t) # "enabled"
      BY <1>3, <3>1
    <3>2. CASE ToolStatus(mine.prior, connection, mine.snapshot, t) = "enabled"
      <4>1. /\ mine.prior.connection = connection /\ mine.prior.snapshot[t] = mine.snapshot[t]
            /\ t \in mine.prior.enabled
        BY <3>2 DEF ToolStatus
      <4>2. EnablesShown(mine.prior, suShown)
        OBVIOUS
      <4>3. Seen(mine.prior.connection, t, mine.prior.snapshot[t]) \in suShown
        BY <4>1, <4>2 DEF EnablesShown
      <4> QED BY <1>3, <4>1, <4>3
    <3> QED BY <3>1, <3>2
  <2>5. EnablesShown(next(chosen), suShown')
    BY <2>3, <2>4 DEF EnablesShown
  <2>6. goes(chosen) \in Commands /\ goes(chosen).prior = mine.prior
        /\ goes(chosen).next = next(chosen)
    <3> HIDE DEF next
    <3> QED BY <2>2, <2>3 DEF Commands
  <2>7. suShown \subseteq suShown'
    BY <1>3
  <2>8. EnablesShown(mine.prior, suShown') /\ EnablesShown(suReview, suShown')
    BY <2>7, ShownStays
  <2> HIDE DEF goes, next, shown
  <2> QED BY <1>1, <1>3, <2>5, <2>6, <2>7, <2>8, CommandMoves
<1>4. \/ SetupEnds(p) /\ UNCHANGED suShown
      \/ \E chosen \in SUBSET listed :
           SetupBecomes(p, goes(chosen)) /\ suShown' = suShown \cup shown(chosen)
  BY DEF ReviewConfirms
<1> HIDE DEF goes, listed, shown
<1> QED BY <1>2, <1>3, <1>4

\* `nh mcp disable`, and publishing
LEMMA PublishStep ==
  ASSUME SetupInv, NEW p \in Setups,
         DisableReads(p) \/ DisableConfirms(p) \/ CompareRead(p) \/ SaveReview(p)
  PROVE  SetupInv'
<1> USE CommandInHand, EmptyReviews
<1>1. UNCHANGED <<suRepo, suListed, suConfig, suShown>>
  BY DEF DisableReads, DisableConfirms, CompareRead, SaveReview, Only, setupRules
<1>2. ASSUME DisableReads(p)
      PROVE  SetupInv'
  <2> DEFINE asked == [NoSetup EXCEPT !.command = "disable", !.at = "asked", !.prior = suReview]
  <2>1. UNCHANGED <<suReview, suUntouched>>
    BY <1>2 DEF DisableReads, Only
  <2>2. CASE SetupEnds(p)
    BY <1>1, <2>1, <2>2, CommandEnds DEF SetupEnds, SetupBecomes
  <2>3. CASE SetupBecomes(p, asked)
    <3>1. asked \in Commands /\ asked.prior = suReview /\ asked.next = NoReview
      BY DEF Commands
    <3> HIDE DEF asked
    <3> QED BY <1>1, <2>1, <2>3, <3>1, CommandMoves
  <2> QED BY <1>2, <2>2, <2>3 DEF DisableReads
<1>3. ASSUME DisableConfirms(p)
      PROVE  SetupInv'
  <2> DEFINE none == [suDo[p].prior EXCEPT !.enabled = {}]
             off == [suDo[p] EXCEPT !.at = "publish", !.next = none]
  <2>1. UNCHANGED <<suReview, suUntouched>> /\ suDo[p].command = "disable"
    BY <1>3 DEF DisableConfirms, Only, SetupAt
  <2>2. CASE SetupEnds(p)
    BY <1>1, <2>1, <2>2, CommandEnds DEF SetupEnds, SetupBecomes
  <2>3. CASE SetupBecomes(p, off)
    <3>1. none \in Reviews /\ none.enabled = {}
      BY DEF Commands, Reviews
    <3>2. EnablesShown(none, suShown')
      BY <3>1 DEF EnablesShown
    <3> HIDE DEF none
    <3>3. off \in Commands /\ off.prior = suDo[p].prior /\ off.next = none
      BY <3>1 DEF Commands
    <3> HIDE DEF off
    <3> QED BY <1>1, <2>1, <2>3, <3>2, <3>3, CommandMoves
  <2> QED BY <1>3, <2>2, <2>3 DEF DisableConfirms
<1>4. ASSUME CompareRead(p)
      PROVE  SetupInv'
  <2> DEFINE goes == [suDo[p] EXCEPT !.at = "replace"]
  <2>1. UNCHANGED <<suReview, suUntouched>>
    BY <1>4 DEF CompareRead, Only
  <2>2. CASE SetupEnds(p)
    BY <1>1, <2>1, <2>2, CommandEnds DEF SetupEnds, SetupBecomes, Commands
  <2>3. CASE SetupGoes(p, "replace")
    <3>1. goes \in Commands /\ goes.prior = suDo[p].prior /\ goes.next = suDo[p].next
      BY DEF Commands
    <3>2. SetupBecomes(p, goes)
      BY <2>3 DEF SetupGoes
    <3> HIDE DEF goes
    <3> QED BY <1>1, <2>1, <3>1, <3>2, CommandMoves
  <2> QED BY <1>4, <2>2, <2>3 DEF CompareRead
<1>5. ASSUME SaveReview(p)
      PROVE  SetupInv'
  <2>1. SetupEnds(p) /\ suDo[p].command \in {"review", "disable"}
    BY <1>5 DEF SaveReview
  <2>2. \/ suReview' = suDo[p].next /\ suUntouched' = FALSE
       \/ UNCHANGED <<suReview, suUntouched>>
    BY <1>5 DEF SaveReview
  <2>3. suReview' \in Reviews /\ EnablesShown(suReview', suShown') /\ (suUntouched' => suReview' = NoReview)
    BY <1>1, <2>2 DEF Commands
  <2> QED BY <1>1, <2>1, <2>3, CommandEnds DEF SetupEnds, SetupBecomes
<1> QED BY <1>2, <1>3, <1>4, <1>5

\* One step of a command, of the operator's editor or of the server
LEMMA SetupStep == SetupInv /\ [SetupNext]_setupVars => SetupInv'
<1> SUFFICES ASSUME SetupInv, [SetupNext]_setupVars
             PROVE  SetupInv'
  OBVIOUS
<1>1. ASSUME NEW p \in Setups, Setup(p)
      PROVE  SetupInv'
  BY <1>1, ConnectStep, InspectStep, ReviewStep, PublishStep DEF Setup
<1>2. CASE EditByHand
  <2>1. UNCHANGED <<suRepo, suListed, suDo, suShown, suUntouched>>
    BY <1>2 DEF EditByHand, setupRules
  <2>2. suConfig' \in Tables \cup {NoServer}
    BY <1>2 DEF EditByHand, OneEditOf, SetupInv, SetupTypeOK
  <2>3. suReview' = suReview \/ (suReview # NoReview /\ suReview' \in {NoReview, Malformed})
    BY <1>2 DEF EditByHand
  <2>4. suReview' \in Reviews /\ EnablesShown(suReview', suShown)
    BY <2>3, EmptyReviews DEF SetupInv, SetupTypeOK, ReviewsShown
  <2> QED BY <2>1, <2>2, <2>3, <2>4 DEF SetupInv, SetupTypeOK, ReviewsShown
<1>3. CASE ListOtherTools
  BY <1>3 DEF ListOtherTools, SetupInv, SetupTypeOK, ReviewsShown, setupRules
<1>4. CASE UNCHANGED setupVars
  BY <1>4 DEF setupVars, SetupInv, SetupTypeOK, ReviewsShown
<1> QED BY <1>1, <1>2, <1>3, <1>4 DEF SetupNext

\* What a review that enables only what was shown says of the offers
LEMMA OffersWereShown ==
  ASSUME SetupInv
  PROVE  OffersAreReviewed
<1>1. suReview \in Reviews /\ EnablesShown(suReview, suShown) /\ (suUntouched => suReview = NoReview)
  BY DEF SetupInv, SetupTypeOK, ReviewsShown
<1>2. suConfig \in Tables \cup {NoServer} /\ suRepo \in {"auto", "block"}
  BY DEF SetupInv, SetupTypeOK
<1>3. ASSUME NEW t \in Offered
      PROVE  /\ MayContact(suConfig) /\ Answers(suConfig) /\ ConnectionMatches(suReview, suConfig)
             /\ t \in SetupTools /\ t \in suReview.enabled /\ suListed[t] = suReview.snapshot[t]
  BY DEF Offered
<1>4. \A t \in Offered : Seen(Connection(suConfig), t, suListed[t]) \in suShown
  BY <1>1, <1>3 DEF EnablesShown, ConnectionMatches
<1>5. ASSUME MayContact(suConfig), suConfig.url # "unsafe", ~InvalidAuth(suConfig)
      PROVE  PolicyReady
  <2>1. suConfig # NoServer /\ ~AudienceMissing(suConfig) /\ suConfig.url \notin suBlocked
    BY <1>5 DEF MayContact, EffectiveTable
  <2>2. suConfig \in Tables
    BY <1>2, <2>1
  <2>3. EffectiveTable(suConfig) = [suConfig EXCEPT !.trust = MoreRestrictive(suConfig.trust, suRepo)]
    BY <2>1 DEF EffectiveTable
  <2>4. EffectiveTable(suConfig).trust = MoreRestrictive(suConfig.trust, suRepo)
    BY <2>2, <2>3 DEF Tables
  <2>5. suConfig.trust # "block"
    <3> SUFFICES ASSUME suConfig.trust = "block"
                 PROVE  MoreRestrictive(suConfig.trust, suRepo) = "block"
      BY <1>5, <2>4 DEF MayContact
    <3> QED BY <1>2 DEF MoreRestrictive, TrustRank
  <2> QED BY <1>5, <2>1, <2>5 DEF MayContact, PolicyReady
<1>6. ~InvalidAuth(suConfig) => Offered \subseteq StatusReady
  BY <1>3, <1>5 DEF StatusReady, PrerequisitesReady, Answers
<1>7. ASSUME CheckClean
      PROVE  {t \in StatusReady : suNames[t] = "own"} \subseteq Offered
  <2> SUFFICES ASSUME NEW t \in StatusReady, suNames[t] = "own"
               PROVE  t \in Offered
    OBVIOUS
  <2>1. PrerequisitesReady /\ ConnectionMatches(suReview, suConfig) /\ t \in suReview.enabled
    BY DEF StatusReady
  <2>2. t \in SetupTools /\ suListed[t] = suReview.snapshot[t] /\ suReview.snapshot[t] # "gone"
    BY <1>1, <1>7, <2>1 DEF Reviews, CheckClean, EnablesShown
  <2>3. MayContact(suConfig) /\ Answers(suConfig)
    BY <2>1 DEF PrerequisitesReady, PolicyReady, MayContact, Answers
  <2> QED BY <2>1, <2>2, <2>3 DEF Offered
<1>8. suUntouched => Offered = {}
  BY <1>1, <1>3, EmptyReviews DEF ConnectionMatches
<1> QED BY <1>4, <1>6, <1>7, <1>8 DEF OffersAreReviewed

(* Theorem: whatever the operator, the commands, the repository and the    *)
(* server do, and in whatever order, a call that reaches an MCP server is  *)
(* for a definition that was reviewed and enabled, and a session is        *)
(* offered nothing that was not shown for the connection it uses.          *)
THEOREM OnlyReviewedCalled == ToolsSpec /\ SetupSpec => []OnlyReviewedToolsAreCalled
<1>1. ToolsInit => ToolsInv
  BY DEF ToolsInit, ToolsInv, ToolPlaces, AdapterReviewed, CallInHand, CallsAreReviewed
<1>2. SetupInit => SetupInv
  <2> SUFFICES ASSUME SetupInit
               PROVE  SetupInv
    OBVIOUS
  <2> DEFINE table == [url |-> "a", auth |-> "apikey", trust |-> "ask"]
             reviewed == [kind |-> "state", connection |-> Connection(table),
                          snapshot |-> suListed, enabled |-> SetupTools]
  <2>1. suListed = [t \in SetupTools |-> "v1"] /\ suListed \in Listings
    BY DEF SetupInit, Listings
  <2>2. table \in Tables /\ Connection(table) \in [url : {"a", "b", "unsafe", "none"}, auth : Auths]
    BY DEF Tables, Connection, Auths
  <2>3. /\ suConfig \in {table, NoServer} /\ suReview \in {NoReview, reviewed}
        /\ suShown = {Seen(Connection(table), t, suListed[t]) : t \in suReview.enabled}
    BY DEF SetupInit
  <2>4. reviewed \in Reviews /\ reviewed.enabled = SetupTools
        /\ reviewed.snapshot = suListed /\ reviewed.connection = Connection(table)
    BY <2>1, <2>2 DEF Reviews
  <2>5. EnablesShown(suReview, suShown)
    <3>1. CASE suReview = NoReview
      BY <3>1, EmptyReviews
    <3>2. CASE suReview = reviewed
      BY <2>1, <2>3, <2>4, <3>2 DEF EnablesShown
    <3> QED BY <2>3, <3>1, <3>2
  <2>6. suDo \in [Setups -> Commands] /\ \A p \in Setups : suDo[p] = NoSetup
    BY EmptyReviews DEF SetupInit
  <2>7. ReviewsShown
    BY <2>5, <2>6, EmptyReviews DEF ReviewsShown
  <2> HIDE DEF reviewed, table
  <2>8. SetupTypeOK
    BY <2>1, <2>2, <2>3, <2>4, <2>6, EmptyReviews DEF SetupInit, SetupTypeOK
  <2> QED BY <2>7, <2>8 DEF SetupInv, SetupInit
<1>3. ToolsInv => CallsAreReviewed
  BY DEF ToolsInv
<1>4. SetupInv => EnabledWasShown /\ OffersAreReviewed
  BY OffersWereShown DEF EnabledWasShown, SetupInv, ReviewsShown, EnablesShown
<1> QED
  BY <1>1, <1>2, <1>3, <1>4, ToolsStep, SetupStep, PTL
  DEF ToolsSpec, SetupSpec, OnlyReviewedToolsAreCalled

----------------------------------------------------------------------------
(* Usage: what adding two usage objects up keeps of each.                  *)

\* A usage object is neither of the two things that are not one.
LEMMA UsageIsReal ==
  ASSUME NEW usage \in Usages
  PROVE  /\ usage # None /\ usage # Overflow
         /\ usage.prompt \in Nat /\ usage.completion \in Nat /\ usage.cached \in Nat \cup {-1}
         /\ usage.evidence \in {"measured", "partial", "unknown"}
         /\ usage.evidence = "unknown" <=> usage = Unmetered
         /\ ~Reported(usage) => usage.prompt = 0 /\ usage.completion = 0
<1>1. Unmetered.evidence = "unknown" /\ Unmetered.prompt = 0 /\ Unmetered.completion = 0
      /\ Unmetered.cached = -1 /\ None.evidence = "none" /\ Overflow.evidence = "overflow"
  BY DEF Unmetered, None, Overflow
<1>2. CASE usage = Unmetered
  BY <1>1, <1>2 DEF Reported
<1>3. CASE usage # Unmetered
  <2>1. /\ usage.prompt \in Nat /\ usage.completion \in Nat /\ usage.cached \in Nat \cup {-1}
        /\ usage.evidence \in {"measured", "partial"}
    BY <1>3 DEF Usages
  <2> QED BY <1>1, <1>3, <2>1 DEF Reported
<1> QED BY <1>2, <1>3

\* The sum of two usage objects counts both, and is as trustworthy as the worse.
LEMMA AddedCounts ==
  ASSUME NEW a \in Usages, NEW b \in Usages
  PROVE  LET sum == Added(a, b) IN
         /\ sum \in Usages
         /\ sum.prompt = a.prompt + b.prompt /\ sum.completion = a.completion + b.completion
         /\ Reported(sum) <=> Reported(a) \/ Reported(b)
         /\ sum.evidence = "measured" <=> a.evidence = "measured" /\ b.evidence = "measured"
<1> DEFINE sum == Added(a, b)
<1> USE UsageIsReal
<1>1. CASE Reported(a) /\ Reported(b)
  <2>1. /\ sum.prompt = a.prompt + b.prompt /\ sum.completion = a.completion + b.completion
        /\ sum.cached = (IF a.cached >= 0 /\ b.cached >= 0 THEN a.cached + b.cached ELSE -1)
        /\ sum.evidence = CombinedEvidence(a.evidence, b.evidence)
        /\ sum = [prompt |-> sum.prompt, completion |-> sum.completion, cached |-> sum.cached,
                  evidence |-> sum.evidence]
    BY <1>1 DEF Added
  <2>2. /\ sum.evidence \in {"measured", "partial"}
        /\ sum.evidence = "measured" <=> a.evidence = "measured" /\ b.evidence = "measured"
    BY <1>1, <2>1 DEF CombinedEvidence, Reported
  <2>3. sum.prompt \in Nat /\ sum.completion \in Nat /\ sum.cached \in Nat \cup {-1}
    BY <2>1
  <2>4. sum \in Usages
    <3> HIDE DEF sum
    <3> QED BY <2>1, <2>2, <2>3 DEF Usages
  <2> QED BY <1>1, <2>1, <2>2, <2>4 DEF Reported
<1>2. CASE ~(Reported(a) /\ Reported(b))
  <2> DEFINE kept == IF Reported(a) THEN a ELSE IF Reported(b) THEN b ELSE Unmetered
  <2>1. Unmetered \in Usages /\ ~Reported(Unmetered) /\ kept \in Usages
    BY DEF Usages, Reported, Unmetered
  <2>2. /\ sum.prompt = kept.prompt /\ sum.completion = kept.completion
        /\ sum.cached = kept.cached
        /\ sum.evidence = CombinedEvidence(a.evidence, b.evidence)
        /\ sum = [prompt |-> sum.prompt, completion |-> sum.completion, cached |-> sum.cached,
                  evidence |-> sum.evidence]
    BY <1>2 DEF Added
  <2>3. kept.prompt = a.prompt + b.prompt /\ kept.completion = a.completion + b.completion
    BY <1>2, <2>1
  <2>4. sum.prompt \in Nat /\ sum.completion \in Nat /\ sum.cached \in Nat \cup {-1}
    BY <2>1, <2>2
  <2>5. CASE Reported(a) \/ Reported(b)
    <3>1. sum.evidence = "partial"
      BY <1>2, <2>2, <2>5 DEF CombinedEvidence, Reported
    <3>2. sum \in Usages
      <4> HIDE DEF sum
      <4> QED BY <2>2, <2>4, <3>1 DEF Usages
    <3> HIDE DEF kept
    <3> QED BY <1>2, <2>2, <2>3, <2>5, <3>1, <3>2 DEF Reported
  <2>6. CASE ~Reported(a) /\ ~Reported(b)
    <3>1. sum.evidence = "unknown" /\ kept = Unmetered
      BY <2>2, <2>6 DEF CombinedEvidence, Reported
    <3>2. sum = Unmetered
      BY <2>2, <3>1 DEF Unmetered
    <3> HIDE DEF kept
    <3> QED BY <2>1, <2>2, <2>3, <2>6, <3>1, <3>2 DEF Reported
  <2> QED BY <2>5, <2>6
<1> QED BY <1>1, <1>2

\* A usage object that stands for more than was metered says so, and counts the same.
LEMMA MarkedCounts ==
  ASSUME NEW usage \in Usages
  PROVE  LET marked == MarkUnreported(usage) IN
         /\ marked \in Usages /\ marked.evidence # "measured"
         /\ marked.prompt = usage.prompt /\ marked.completion = usage.completion
         /\ Reported(marked) <=> Reported(usage)
<1> USE UsageIsReal
<1>1. CASE usage.evidence = "measured"
  <2> DEFINE marked == [usage EXCEPT !.evidence = "partial"]
  <2>1. usage \in [prompt : Nat, completion : Nat, cached : Nat \cup {-1},
                   evidence : {"measured", "partial"}]
    BY <1>1 DEF Usages
  <2>2. marked \in Usages /\ marked.evidence = "partial"
        /\ marked.prompt = usage.prompt /\ marked.completion = usage.completion
    BY <2>1 DEF Usages
  <2> QED BY <1>1, <2>2 DEF MarkUnreported, Reported
<1>2. CASE usage.evidence # "measured"
  BY <1>2 DEF MarkUnreported, Reported
<1> QED BY <1>1, <1>2

----------------------------------------------------------------------------
(* ProviderCall: when it tries again.                                      *)

RetryOutcomes == {"timeout", "network", "rate_limited", "unavailable", "rejected",
                  "unreadable_answer", "cut_answer"}

RetryTypeOK ==
  /\ rtAt \in {"attempting", "waiting", "done"}
  /\ rtClock \in Nat /\ rtAttempts \in 1 .. MaxAttempts
  /\ rtTimeout \in Nat \ {0} /\ rtStarted \in Nat /\ rtDelay \in Nat /\ rtLast.due \in Int

\* While it waits, another attempt is left, for a failure that may be retried
WaitsForRetry ==
  rtAt = "waiting" =>
    /\ rtAttempts < MaxAttempts /\ Retryable(rtLast.outcome)
    /\ rtClock + rtDelay >= rtLast.due

RetryInv == RetryTypeOK /\ WaitsForRetry /\ RetryObeysPolicy

\* A delay is not shorter than the provider asked for, and an attempt is left after it.
LEMMA DelaysAreLongEnough ==
  ASSUME NEW index \in 0 .. MaxAttempts, NEW retryAfter \in {-1, 30}, NEW elapsed \in Nat,
         NEW delay \in Delays(index, retryAfter, elapsed)
  PROVE  delay \in Nat /\ delay >= retryAfter /\ index < MaxAttempts - 1
<1>1. index < MaxAttempts - 1
  BY DEF Delays, MaxAttempts
<1>2. PICK backoff \in Backoffs(index) : delay = Greater(retryAfter, backoff)
  BY <1>1 DEF Delays
<1>3. index = 0 \/ index = 1 \/ index = 2
  BY <1>1 DEF MaxAttempts
<1>4. 2 ^ 0 = 1 /\ 2 ^ 1 = 2 /\ 2 ^ 2 = 4
  OBVIOUS
<1>5. 2 ^ index \in {1, 2, 4}
  BY <1>3, <1>4
<1>6. Lesser(Base * 2 ^ index, MaxDelay) \in {2, 4, 8}
  BY <1>5 DEF Base, MaxDelay, Lesser
<1>7. backoff \in Nat
  BY <1>2, <1>6 DEF Backoffs
<1> QED BY <1>1, <1>2, <1>7 DEF Greater

\* An attempt ends, or the wait for the next one does
LEMMA RetryStep == RetryInv /\ [ProviderNext]_retryVars => RetryInv'
<1> SUFFICES ASSUME RetryInv, [ProviderNext]_retryVars
             PROVE  RetryInv'
  OBVIOUS
<1> USE DEF MaxAttempts, TotalBudget
<1>1. ASSUME Takes
      PROVE  rtClock' \in Nat
  <2>1. PICK t \in AttemptTimes : rtClock' = rtClock + t
    BY <1>1 DEF Takes
  <2> QED BY <2>1, ProviderAssumption DEF RetryInv, RetryTypeOK
<1>2. CASE Succeed
  BY <1>1, <1>2 DEF Succeed, RetryInv, RetryTypeOK, WaitsForRetry, RetryObeysPolicy
<1>3. ASSUME NEW outcome \in RetryOutcomes, Fail(outcome)
      PROVE  RetryInv'
  <2>1. rtAt = "attempting" /\ UNCHANGED <<rtAttempts, rtTimeout, rtStarted>>
    BY <1>3 DEF Fail
  <2>2. rtClock' \in Nat
    BY <1>1, <1>3 DEF Fail, RetryInv, RetryTypeOK
  <2>3. PICK retryAfter \in {-1, 30} :
          /\ rtLast' = [outcome |-> outcome, due |-> rtClock' + retryAfter]
          /\ \/ /\ Retryable(outcome) /\ rtDelay' \in Delays(rtAttempts - 1, retryAfter, rtClock')
                /\ rtAt' = "waiting"
             \/ rtAt' = "done" /\ UNCHANGED rtDelay
    BY <1>3 DEF Fail
  <2>4. rtLast'.outcome = outcome /\ rtLast'.due = rtClock' + retryAfter
    BY <2>3
  <2>5. CASE rtAt' = "waiting"
    <3>1. Retryable(outcome) /\ rtDelay' \in Delays(rtAttempts - 1, retryAfter, rtClock')
      BY <2>3, <2>5
    <3>2. rtAttempts - 1 \in 0 .. MaxAttempts
      BY DEF RetryInv, RetryTypeOK
    <3>3. rtDelay' \in Nat /\ rtDelay' >= retryAfter /\ rtAttempts - 1 < MaxAttempts - 1
      BY <2>2, <3>1, <3>2, DelaysAreLongEnough
    <3>4. RetryTypeOK'
      BY <2>1, <2>2, <2>4, <2>5, <3>3 DEF RetryInv, RetryTypeOK
    <3>5. rtClock' + rtDelay' >= rtClock' + retryAfter
      <4>1. \A clock, delay \in Nat : \A after \in {-1, 30} :
              delay >= after => clock + delay >= clock + after
        OBVIOUS
      <4> QED BY <2>2, <3>3, <4>1
    <3>6. rtAttempts' < MaxAttempts
      BY <2>1, <3>3 DEF RetryInv, RetryTypeOK
    <3>7. WaitsForRetry'
      BY <2>4, <3>1, <3>5, <3>6 DEF WaitsForRetry
    <3>8. RetryObeysPolicy'
      BY <2>1, <2>5 DEF RetryInv, RetryTypeOK, RetryObeysPolicy
    <3> QED BY <3>4, <3>7, <3>8 DEF RetryInv
  <2>6. CASE rtAt' = "done"
    BY <2>1, <2>2, <2>3, <2>4, <2>6 DEF RetryInv, RetryTypeOK, WaitsForRetry, RetryObeysPolicy
  <2> QED BY <2>3, <2>5, <2>6
<1>4. CASE Wake
  <2>1. rtAt = "waiting" /\ rtLast' = rtLast /\ rtDelay' = rtDelay
    BY <1>4 DEF Wake
  <2>2. PICK late \in AttemptTimes : rtClock' = rtClock + rtDelay + late
    BY <1>4 DEF Wake
  <2>3. rtClock' \in Nat /\ rtClock' >= rtLast.due
    BY <2>1, <2>2, ProviderAssumption DEF RetryInv, RetryTypeOK, WaitsForRetry
  <2>4. CASE rtClock' < TotalBudget
    <3>1. /\ rtAt' = "attempting" /\ rtAttempts' = rtAttempts + 1
          /\ rtTimeout' = TotalBudget - rtClock' /\ rtStarted' = rtClock'
      BY <1>4, <2>4 DEF Wake
    <3>2. rtTimeout' \in Nat \ {0} /\ rtStarted' + rtTimeout' = TotalBudget /\ rtTimeout' > 0
      <4>1. \A clock \in Nat :
              clock < TotalBudget => /\ TotalBudget - clock \in Nat \ {0} /\ TotalBudget - clock > 0
                                     /\ clock + (TotalBudget - clock) = TotalBudget
        OBVIOUS
      <4> QED BY <2>3, <2>4, <3>1, <4>1
    <3>3. rtAttempts' \in 1 .. MaxAttempts
      BY <2>1, <3>1 DEF RetryInv, RetryTypeOK, WaitsForRetry
    <3>4. RetryTypeOK'
      BY <2>1, <2>3, <3>1, <3>2, <3>3 DEF RetryInv, RetryTypeOK
    <3>5. RetryObeysPolicy'
      <4>1. rtAttempts' <= MaxAttempts
        BY <3>3
      <4>2. Retryable(rtLast'.outcome) /\ rtStarted' >= rtLast'.due
        BY <2>1, <2>3, <3>1 DEF RetryInv, WaitsForRetry
      <4> QED BY <3>2, <4>1, <4>2 DEF RetryObeysPolicy
    <3> QED BY <3>1, <3>4, <3>5 DEF RetryInv, WaitsForRetry
  <2>5. CASE ~(rtClock' < TotalBudget)
    <3>1. rtAt' = "done" /\ UNCHANGED <<rtAttempts, rtTimeout, rtStarted>>
      BY <1>4, <2>5 DEF Wake
    <3> QED BY <2>1, <2>3, <3>1 DEF RetryInv, RetryTypeOK, WaitsForRetry, RetryObeysPolicy
  <2> QED BY <2>4, <2>5
<1>5. CASE UNCHANGED retryVars
  BY <1>5 DEF retryVars, RetryInv, RetryTypeOK, WaitsForRetry, RetryObeysPolicy
<1> QED BY <1>2, <1>3, <1>4, <1>5 DEF ProviderNext, RetryOutcomes

(* Theorem: however long attempts and delays take and whatever providers   *)
(* answer, a provider is called at most MaxAttempts times, again only      *)
(* after a failure that may be retried, not before it asked to be, and     *)
(* only within the retry window.                                           *)
THEOREM RetriesObeyPolicy == ProviderSpec => []RetryObeysPolicy
<1>1. ProviderInit => RetryInv
  BY DEF ProviderInit, RetryInv, RetryTypeOK, WaitsForRetry, RetryObeysPolicy,
         MaxAttempts, RequestTimeout
<1>2. RetryInv => RetryObeysPolicy
  BY DEF RetryInv
<1> QED
  BY <1>1, <1>2, RetryStep, PTL DEF ProviderSpec

----------------------------------------------------------------------------
(* ProviderCall: what it says it cost.                                     *)

Bills == [prompt : Nat, completion : Nat, metered : BOOLEAN, measured : BOOLEAN]

Describes(usage, bill) ==
  /\ usage.prompt = bill.prompt /\ usage.completion = bill.completion
  /\ Reported(usage) <=> bill.metered
  /\ usage.evidence = "measured" <=> bill.measured

\* What is salvaged of the attempts so far is what they were billed
SalvageIsTrue(salvaged, unreported, bill) ==
  /\ salvaged = None =>
       /\ bill.prompt = 0 /\ bill.completion = 0 /\ ~bill.metered
       /\ bill.measured <=> ~unreported
  /\ salvaged # None => Describes(salvaged, bill) /\ (unreported => ~bill.measured)

UsageInv ==
  /\ rtBilled \in Bills /\ rtSalvaged \in Usages \cup {None}
  /\ rtUnreported \in BOOLEAN /\ rtOverflowed \in BOOLEAN
  /\ rtAt # "done" /\ ~rtOverflowed => SalvageIsTrue(rtSalvaged, rtUnreported, rtBilled)
  /\ UsageIsHonest

\* What an attempt adds to the bill
LEMMA BilledMore ==
  ASSUME rtBilled \in Bills, NEW usage \in Usages \cup {None}, Bill(usage)
  PROVE  /\ rtBilled' \in Bills
         /\ usage = None =>
              /\ rtBilled'.prompt = rtBilled.prompt /\ rtBilled'.completion = rtBilled.completion
              /\ (rtBilled'.metered <=> rtBilled.metered) /\ ~rtBilled'.measured
         /\ usage # None =>
              /\ rtBilled'.prompt = rtBilled.prompt + usage.prompt
              /\ rtBilled'.completion = rtBilled.completion + usage.completion
              /\ rtBilled'.metered <=> (rtBilled.metered \/ Reported(usage))
              /\ rtBilled'.measured <=> (rtBilled.measured /\ usage.evidence = "measured")
<1> DEFINE metered == usage # None /\ usage # Unmetered
<1>1. /\ rtBilled.prompt \in Nat /\ rtBilled.completion \in Nat
      /\ rtBilled.metered \in BOOLEAN /\ rtBilled.measured \in BOOLEAN
  BY DEF Bills
<1>2. rtBilled' = [prompt     |-> rtBilled.prompt + IF metered THEN usage.prompt ELSE 0,
                   completion |-> rtBilled.completion + IF metered THEN usage.completion ELSE 0,
                   metered    |-> rtBilled.metered \/ metered,
                   measured   |-> rtBilled.measured /\ usage.evidence = "measured"]
  BY DEF Bill
<1>3. /\ rtBilled'.prompt = rtBilled.prompt + IF metered THEN usage.prompt ELSE 0
      /\ rtBilled'.completion = rtBilled.completion + IF metered THEN usage.completion ELSE 0
      /\ rtBilled'.metered <=> (rtBilled.metered \/ metered)
      /\ rtBilled'.measured <=> (rtBilled.measured /\ usage.evidence = "measured")
  BY <1>2
<1>4. rtBilled' = [prompt |-> rtBilled'.prompt, completion |-> rtBilled'.completion,
                   metered |-> rtBilled'.metered, measured |-> rtBilled'.measured]
      /\ rtBilled'.metered \in BOOLEAN /\ rtBilled'.measured \in BOOLEAN
  <2> HIDE DEF metered
  <2> QED BY <1>2
<1>5. CASE usage = None
  <2>1. ~metered /\ usage.evidence # "measured"
    BY <1>5 DEF None
  <2>2. /\ rtBilled'.prompt = rtBilled.prompt /\ rtBilled'.completion = rtBilled.completion
        /\ (rtBilled'.metered <=> rtBilled.metered) /\ ~rtBilled'.measured
    BY <1>1, <1>3, <2>1
  <2>3. rtBilled' \in Bills
    BY <1>1, <1>4, <2>2 DEF Bills
  <2> QED BY <1>5, <2>2, <2>3
<1>6. CASE usage # None
  <2>1. usage \in Usages
    BY <1>6
  <2>2. /\ usage.prompt \in Nat /\ usage.completion \in Nat
        /\ metered <=> Reported(usage)
        /\ ~metered => usage.prompt = 0 /\ usage.completion = 0
    BY <1>6, <2>1, UsageIsReal DEF Reported
  <2>3. /\ rtBilled'.prompt = rtBilled.prompt + usage.prompt
        /\ rtBilled'.completion = rtBilled.completion + usage.completion
    BY <1>3, <2>2
  <2>4. rtBilled' \in Bills
    BY <1>1, <1>4, <2>2, <2>3 DEF Bills
  <2> QED BY <1>3, <1>6, <2>2, <2>3, <2>4
<1> QED BY <1>5, <1>6

\* What the caller is told, once it is worked out
LEMMA AnswerIsHonest ==
  ASSUME NEW total \in Usages \cup {None, Overflow}, NEW ok \in {"yes", "no"},
         rtResult' = Answered(ok, total),
         total \in Usages => Describes(total, rtBilled')
  PROVE  UsageIsHonest'
<1>1. rtResult'.usage = (IF total = Overflow THEN None ELSE total)
  BY DEF Answered
<1>2. CASE total \in Usages
  BY <1>1, <1>2, UsageIsReal DEF UsageIsHonest, Describes
<1>3. CASE total \in {None, Overflow}
  BY <1>1, <1>3 DEF UsageIsHonest
<1> QED BY <1>2, <1>3

\* Adding a usage object to what describes a bill describes the longer bill.
LEMMA MergedDescribes ==
  ASSUME NEW bill \in Bills, NEW more \in Bills, NEW next \in Usages,
         NEW total \in Usages \cup {None},
         total # None => Describes(total, bill),
         total = None => /\ bill.prompt = 0 /\ bill.completion = 0 /\ ~bill.metered
                         /\ bill.measured \/ next.evidence # "measured",
         more.prompt = bill.prompt + next.prompt,
         more.completion = bill.completion + next.completion,
         more.metered <=> (bill.metered \/ Reported(next)),
         more.measured <=> (bill.measured /\ next.evidence = "measured")
  PROVE  /\ Merge(total, next) \in Usages \cup {Overflow}
         /\ Merge(total, next) \in Usages => Describes(Merge(total, next), more)
<1>1. next.prompt \in Nat /\ next.completion \in Nat
  BY UsageIsReal
<1>2. CASE total = None
  <2>1. Merge(total, next) = next
    BY <1>2 DEF Merge
  <2>2. Describes(next, more)
    BY <1>1, <1>2 DEF Describes
  <2> QED BY <2>1, <2>2
<1>3. CASE total # None
  <2>1. total \in Usages
    BY <1>3
  <2>2. CASE Fits(total, next)
    <3> DEFINE sum == Added(total, next)
    <3>1. Merge(total, next) = sum
      BY <1>3, <2>2 DEF Merge
    <3>2. /\ sum \in Usages
          /\ sum.prompt = total.prompt + next.prompt
          /\ sum.completion = total.completion + next.completion
          /\ Reported(sum) <=> Reported(total) \/ Reported(next)
          /\ sum.evidence = "measured" <=> total.evidence = "measured" /\ next.evidence = "measured"
      BY <2>1, AddedCounts
    <3>3. Describes(total, bill)
      BY <1>3
    <3> HIDE DEF sum
    <3>4. Describes(sum, more)
      BY <3>2, <3>3 DEF Describes
    <3> QED BY <3>1, <3>2, <3>4
  <2>3. CASE ~Fits(total, next)
    <3>1. Merge(total, next) = Overflow
      BY <1>3, <2>3 DEF Merge
    <3> QED BY <3>1, UsageIsReal
  <2> QED BY <2>2, <2>3
<1> QED BY <1>2, <1>3

\* A failed attempt leaves its bill salvaged, or the counters overflowed.
LEMMA FailureIsSalvaged ==
  ASSUME UsageInv, rtAt # "done", NEW usage \in Usages \cup {None}, Bill(usage), Salvage(usage)
  PROVE  /\ rtBilled' \in Bills /\ rtSalvaged' \in Usages \cup {None}
         /\ rtUnreported' \in BOOLEAN /\ rtOverflowed' \in BOOLEAN
         /\ ~rtOverflowed' => SalvageIsTrue(rtSalvaged', rtUnreported', rtBilled')
<1>1. rtBilled \in Bills /\ rtSalvaged \in Usages \cup {None}
      /\ rtUnreported \in BOOLEAN /\ rtOverflowed \in BOOLEAN
  BY DEF UsageInv
<1>2. rtBilled' \in Bills
  BY <1>1, BilledMore
<1>3. CASE rtOverflowed
  BY <1>1, <1>2, <1>3 DEF Salvage
<1>4. CASE ~rtOverflowed /\ usage = None
  <2> DEFINE total == IF rtSalvaged # None THEN MarkUnreported(rtSalvaged) ELSE None
  <2>1. /\ rtOverflowed' = (total = Overflow) /\ rtUnreported' = TRUE
        /\ rtSalvaged' = (IF total = Overflow THEN rtSalvaged ELSE total)
    BY <1>1, <1>4 DEF Salvage
  <2>2. /\ rtBilled'.prompt = rtBilled.prompt /\ rtBilled'.completion = rtBilled.completion
        /\ (rtBilled'.metered <=> rtBilled.metered) /\ ~rtBilled'.measured
    BY <1>1, <1>4, BilledMore
  <2>3. SalvageIsTrue(rtSalvaged, rtUnreported, rtBilled)
    BY <1>4 DEF UsageInv
  <2>4. CASE rtSalvaged = None
    <3>1. total = None /\ None # Overflow
      BY <2>4 DEF None, Overflow
    <3> HIDE DEF total
    <3>2. rtSalvaged' = None /\ ~rtOverflowed'
      BY <2>1, <3>1
    <3> QED BY <1>2, <2>1, <2>2, <2>3, <2>4, <3>2 DEF SalvageIsTrue
  <2>5. CASE rtSalvaged # None
    <3>1. rtSalvaged \in Usages
      BY <1>1, <2>5
    <3>2. /\ total \in Usages /\ total.evidence # "measured"
          /\ total.prompt = rtSalvaged.prompt /\ total.completion = rtSalvaged.completion
          /\ Reported(total) <=> Reported(rtSalvaged)
      BY <2>5, <3>1, MarkedCounts
    <3>3. total # Overflow /\ total # None
      BY <3>2, UsageIsReal
    <3>4. rtSalvaged' = total /\ rtOverflowed' = FALSE
      BY <2>1, <3>3
    <3>5. Describes(rtSalvaged, rtBilled)
      BY <2>3, <2>5 DEF SalvageIsTrue
    <3> HIDE DEF total
    <3>6. Describes(total, rtBilled')
      BY <2>2, <3>2, <3>5 DEF Describes
    <3> QED BY <1>2, <2>1, <2>2, <3>2, <3>3, <3>4, <3>6 DEF SalvageIsTrue
  <2> QED BY <2>4, <2>5
<1>5. CASE ~rtOverflowed /\ usage # None
  <2> DEFINE marked == IF rtUnreported THEN MarkUnreported(usage) ELSE usage
             total == Merge(rtSalvaged, marked)
  <2>1. /\ rtOverflowed' = (total = Overflow) /\ rtUnreported' = rtUnreported
        /\ rtSalvaged' = (IF total = Overflow THEN rtSalvaged ELSE total)
    BY <1>1, <1>5 DEF Salvage
  <2>2. usage \in Usages
    BY <1>5
  <2>3. /\ marked \in Usages
        /\ marked.prompt = usage.prompt /\ marked.completion = usage.completion
        /\ Reported(marked) <=> Reported(usage)
        /\ marked.evidence = "measured" <=> (usage.evidence = "measured" /\ ~rtUnreported)
    BY <2>2, MarkedCounts
  <2>4. SalvageIsTrue(rtSalvaged, rtUnreported, rtBilled)
    BY <1>5 DEF UsageInv
  <2>5. /\ rtBilled'.prompt = rtBilled.prompt + usage.prompt
        /\ rtBilled'.completion = rtBilled.completion + usage.completion
        /\ rtBilled'.metered <=> (rtBilled.metered \/ Reported(usage))
        /\ rtBilled'.measured <=> (rtBilled.measured /\ usage.evidence = "measured")
    BY <1>1, <1>5, BilledMore
  <2>6. rtUnreported => ~rtBilled.measured
    BY <2>4 DEF SalvageIsTrue
  <2> HIDE DEF marked
  <2>7. total \in Usages \cup {Overflow} /\ (total \in Usages => Describes(total, rtBilled'))
    <3>1. /\ rtBilled'.prompt = rtBilled.prompt + marked.prompt
          /\ rtBilled'.completion = rtBilled.completion + marked.completion
          /\ rtBilled'.metered <=> (rtBilled.metered \/ Reported(marked))
          /\ rtBilled'.measured <=> (rtBilled.measured /\ marked.evidence = "measured")
      BY <2>3, <2>5, <2>6
    <3>2. rtSalvaged # None => Describes(rtSalvaged, rtBilled)
      BY <2>4 DEF SalvageIsTrue
    <3>3. rtSalvaged = None =>
            /\ rtBilled.prompt = 0 /\ rtBilled.completion = 0 /\ ~rtBilled.metered
            /\ rtBilled.measured \/ marked.evidence # "measured"
      BY <2>3, <2>4 DEF SalvageIsTrue
    <3> QED BY <1>1, <1>2, <2>3, <3>1, <3>2, <3>3, MergedDescribes
  <2> HIDE DEF total
  <2>8. CASE total = Overflow
    BY <1>1, <1>2, <2>1, <2>8
  <2>9. CASE total \in Usages
    <3>1. total # Overflow /\ total # None
      BY <2>9, UsageIsReal
    <3> QED BY <1>1, <1>2, <2>1, <2>5, <2>6, <2>7, <2>9, <3>1 DEF SalvageIsTrue
  <2> QED BY <2>7, <2>8, <2>9
<1> QED BY <1>3, <1>4, <1>5

\* An attempt, the wait after it, and the answer
LEMMA UsageStep == UsageInv /\ [ProviderNext]_retryVars => UsageInv'
<1> SUFFICES ASSUME UsageInv, [ProviderNext]_retryVars
             PROVE  UsageInv'
  OBVIOUS
<1>1. rtBilled \in Bills /\ rtSalvaged \in Usages \cup {None}
      /\ rtUnreported \in BOOLEAN /\ rtOverflowed \in BOOLEAN
  BY DEF UsageInv
<1>2. rtAt # "done" /\ ~rtOverflowed => SalvageIsTrue(rtSalvaged, rtUnreported, rtBilled)
  BY DEF UsageInv
<1>3. Reports \cup {None} \subseteq Usages \cup {None}
  BY ProviderAssumption
<1>4. ASSUME Succeed
      PROVE  UsageInv'
  <2>1. PICK usage \in Usages \cup {None} : Bill(usage) /\ SuccessUsage(usage)
    BY <1>3, <1>4 DEF Succeed
  <2>2. /\ UNCHANGED <<rtSalvaged, rtOverflowed, rtUnreported>>
        /\ rtAt = "attempting" /\ rtAt' = "done"
    BY <1>4 DEF Succeed
  <2>3. rtBilled' \in Bills
    BY <1>1, <2>1, BilledMore
  <2> DEFINE salvaged == IF rtUnreported /\ rtSalvaged = None THEN Unmetered ELSE rtSalvaged
             total == IF rtOverflowed THEN None ELSE Combine(salvaged, usage)
  <2>4. rtResult' = Answered("yes", total)
    BY <2>1 DEF SuccessUsage
  <2>5. ASSUME ~rtOverflowed
        PROVE  /\ salvaged \in Usages \cup {None}
               /\ salvaged # None => Describes(salvaged, rtBilled)
               /\ salvaged = None => /\ rtBilled.prompt = 0 /\ rtBilled.completion = 0
                                     /\ ~rtBilled.metered /\ rtBilled.measured
    <3>1. CASE rtUnreported /\ rtSalvaged = None
      <4>1. Unmetered \in Usages /\ Unmetered # None /\ salvaged = Unmetered
        BY <3>1, UsageIsReal DEF Usages
      <4>2. Unmetered.prompt = 0 /\ Unmetered.completion = 0 /\ Unmetered.evidence = "unknown"
        BY DEF Unmetered
      <4>3. Describes(Unmetered, rtBilled)
        BY <1>2, <2>2, <2>5, <3>1, <4>2 DEF SalvageIsTrue, Describes, Reported
      <4> QED BY <4>1, <4>3
    <3>2. CASE ~(rtUnreported /\ rtSalvaged = None)
      <4>1. salvaged = rtSalvaged
        BY <3>2
      <4> HIDE DEF salvaged
      <4> QED BY <1>1, <1>2, <2>2, <2>5, <3>2, <4>1 DEF SalvageIsTrue
    <3> QED BY <3>1, <3>2
  <2> HIDE DEF salvaged
  <2>6. total \in Usages \cup {None, Overflow} /\ (total \in Usages => Describes(total, rtBilled'))
    <3>1. CASE rtOverflowed
      BY <3>1, UsageIsReal
    <3>2. CASE ~rtOverflowed /\ usage # None
      <4>1. usage \in Usages /\ total = Merge(salvaged, usage)
        BY <3>2 DEF Combine
      <4>2. /\ rtBilled'.prompt = rtBilled.prompt + usage.prompt
            /\ rtBilled'.completion = rtBilled.completion + usage.completion
            /\ rtBilled'.metered <=> (rtBilled.metered \/ Reported(usage))
            /\ rtBilled'.measured <=> (rtBilled.measured /\ usage.evidence = "measured")
        BY <1>1, <2>1, <3>2, BilledMore
      <4>3. /\ Merge(salvaged, usage) \in Usages \cup {Overflow}
            /\ Merge(salvaged, usage) \in Usages => Describes(Merge(salvaged, usage), rtBilled')
        BY <1>1, <2>3, <2>5, <3>2, <4>1, <4>2, MergedDescribes
      <4> QED BY <4>1, <4>3
    <3>3. CASE ~rtOverflowed /\ usage = None /\ salvaged = None
      <4>1. total = None
        BY <3>3 DEF Combine
      <4> QED BY <4>1, UsageIsReal
    <3>4. CASE ~rtOverflowed /\ usage = None /\ salvaged # None
      <4>1. salvaged \in Usages /\ Describes(salvaged, rtBilled) /\ total = MarkUnreported(salvaged)
        BY <2>5, <3>4 DEF Combine
      <4>2. /\ rtBilled'.prompt = rtBilled.prompt /\ rtBilled'.completion = rtBilled.completion
            /\ (rtBilled'.metered <=> rtBilled.metered) /\ ~rtBilled'.measured
        BY <1>1, <2>1, <3>4, BilledMore
      <4>3. /\ total \in Usages /\ total.evidence # "measured"
            /\ total.prompt = salvaged.prompt /\ total.completion = salvaged.completion
            /\ Reported(total) <=> Reported(salvaged)
        BY <4>1, MarkedCounts
      <4> HIDE DEF total
      <4> QED BY <4>1, <4>2, <4>3 DEF Describes
    <3> QED BY <3>1, <3>2, <3>3, <3>4
  <2> HIDE DEF total
  <2>7. UsageIsHonest'
    BY <2>4, <2>6, AnswerIsHonest
  <2> QED BY <1>1, <2>2, <2>3, <2>7 DEF UsageInv
<1>5. ASSUME NEW outcome \in RetryOutcomes, Fail(outcome)
      PROVE  UsageInv'
  <2>1. PICK usage \in Usages \cup {None} :
          /\ Bill(usage) /\ Salvage(usage)
          /\ \/ rtAt' = "waiting"
             \/ /\ rtAt' = "done"
                /\ rtResult' = Answered("no", IF rtOverflowed' THEN None ELSE rtSalvaged')
    BY <1>3, <1>5 DEF Fail
  <2>2. rtAt = "attempting"
    BY <1>5 DEF Fail
  <2>3. /\ rtBilled' \in Bills /\ rtSalvaged' \in Usages \cup {None}
        /\ rtUnreported' \in BOOLEAN /\ rtOverflowed' \in BOOLEAN
        /\ ~rtOverflowed' => SalvageIsTrue(rtSalvaged', rtUnreported', rtBilled')
    BY <2>1, <2>2, FailureIsSalvaged
  <2>4. CASE rtAt' = "waiting"
    BY <2>3, <2>4 DEF UsageInv, UsageIsHonest
  <2>5. CASE rtAt' = "done" /\ rtResult' = Answered("no", IF rtOverflowed' THEN None ELSE rtSalvaged')
    <3> DEFINE total == IF rtOverflowed' THEN None ELSE rtSalvaged'
    <3>1. total \in Usages => Describes(total, rtBilled')
      BY <2>3, UsageIsReal DEF SalvageIsTrue
    <3>2. total \in Usages \cup {None, Overflow} /\ rtResult' = Answered("no", total)
      BY <2>3, <2>5
    <3> HIDE DEF total
    <3>3. UsageIsHonest'
      BY <3>1, <3>2, AnswerIsHonest
    <3> QED BY <2>3, <2>5, <3>3 DEF UsageInv
  <2> QED BY <2>1, <2>4, <2>5
<1>6. ASSUME Wake
      PROVE  UsageInv'
  <2>1. /\ UNCHANGED <<rtSalvaged, rtOverflowed, rtUnreported, rtBilled>> /\ rtAt = "waiting"
        /\ \/ rtAt' = "attempting"
           \/ /\ rtAt' = "done"
              /\ rtResult' = Answered("no", IF rtOverflowed THEN None ELSE rtSalvaged)
    BY <1>6 DEF Wake
  <2>2. CASE rtAt' = "attempting"
    BY <1>1, <1>2, <2>1, <2>2 DEF UsageInv, UsageIsHonest
  <2>3. CASE rtAt' = "done" /\ rtResult' = Answered("no", IF rtOverflowed THEN None ELSE rtSalvaged)
    <3> DEFINE total == IF rtOverflowed THEN None ELSE rtSalvaged
    <3>1. total \in Usages => Describes(total, rtBilled')
      BY <1>1, <1>2, <2>1, UsageIsReal DEF SalvageIsTrue
    <3>2. total \in Usages \cup {None, Overflow} /\ rtResult' = Answered("no", total)
      BY <1>1, <2>3
    <3> HIDE DEF total
    <3>3. UsageIsHonest'
      BY <3>1, <3>2, AnswerIsHonest
    <3> QED BY <1>1, <2>1, <2>3, <3>3 DEF UsageInv
  <2> QED BY <2>1, <2>2, <2>3
<1>7. CASE UNCHANGED retryVars
  BY <1>7 DEF retryVars, UsageInv, UsageIsHonest
<1> QED BY <1>4, <1>5, <1>6, <1>7 DEF ProviderNext, RetryOutcomes

(* Theorem: whatever a provider reports, fails to report or reports too    *)
(* much of, the usage a call returns is the sum of what its attempts were  *)
(* billed, and says whether that sum is complete.                          *)
THEOREM UsageAddsUp == ProviderSpec => []UsageIsHonest
<1>1. ProviderInit => UsageInv
  <2> SUFFICES ASSUME ProviderInit
               PROVE  UsageInv
    OBVIOUS
  <2>1. rtBilled = [prompt |-> 0, completion |-> 0, metered |-> FALSE, measured |-> TRUE]
    BY DEF ProviderInit
  <2>2. rtBilled \in Bills /\ rtBilled.prompt = 0 /\ rtBilled.completion = 0
        /\ ~rtBilled.metered /\ rtBilled.measured
    BY <2>1 DEF Bills
  <2> QED BY <2>2 DEF ProviderInit, UsageInv, SalvageIsTrue, UsageIsHonest
<1>2. UsageInv => UsageIsHonest
  BY DEF UsageInv
<1> QED
  BY <1>1, <1>2, UsageStep, PTL DEF ProviderSpec
==============================================================================
