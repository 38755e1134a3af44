------------------------------ MODULE McpSetup ------------------------------
(***************************************************************************)
(* One MCP server in the operator's files: `nh mcp connect`, `review`      *)
(* and `disable` as processes that share ~/.nosis/mcp.toml and the saved   *)
(* review, the operator editing both by hand, the server changing what it  *)
(* lists, and what `nh mcp status`, `check` and a new session make of it.  *)
(***************************************************************************)
EXTENDS McpTools, FiniteSets

CONSTANTS
  SetupTools,      \* the tools a server may list
  MaxSetups,       \* bound: commands, each a process of its own
  MaxSetupsAtOnce, \* bound: commands under way at once
  MaxHandEdits,    \* bound: changes made by hand
  MaxSetupLists    \* bound: changes of what the server lists

VARIABLES
  suConfig,   \* the server's table in mcp.toml, or NoServer
  suRepo,     \* the trust the repository's own mcp.toml allows at most
  suBlocked,  \* the destinations the law blocks
  suAudience, \* the destinations the credential is approved for
  suKey,      \* what the credential store says of the credential
  suNames,    \* for each tool: whether the name a session would expose is its own
  suReview,   \* the saved review
  suListed,   \* what the server lists: each tool's definition, or "gone"
  suDo,       \* the commands
  suShown,    \* ghost: what the operator was shown and has selected
  suUntouched,\* ghost: no review was saved since connect was confirmed
  suConnected,\* ghost: the table was saved by that connect
  suEdits, suLists

setupVars == <<suConfig, suRepo, suBlocked, suAudience, suKey, suNames, suReview, suListed, suDo,
               suShown, suUntouched, suConnected, suEdits, suLists>>
setupRules == <<suRepo, suBlocked, suAudience, suKey, suNames>>
setupBounds == <<suEdits, suLists>>

\* An "oddkey" is an API key under an entry name that `nh` itself would not give
Setups == 1 .. MaxSetups
Auths == {"none", "apikey", "oddkey"}
Tables == [url : {"a", "b", "unsafe"}, auth : Auths, trust : {"ask", "block"}]
NoServer == [url |-> "none", auth |-> "none", trust |-> "none"]
Connection(table) == [url |-> table.url, auth |-> table.auth]
Listings == [SetupTools -> {"v1", "v2", "gone"}]
NothingListed == [t \in SetupTools |-> "gone"]
Unread(kind) == [kind |-> kind, connection |-> Connection(NoServer), snapshot |-> NothingListed, enabled |-> {}]
NoReview == Unread("absent")
Malformed == Unread("malformed")
NoSetup == [command |-> "none", at |-> "new", config |-> NoServer, prior |-> NoReview,
         next |-> NoReview, snapshot |-> NothingListed]

Seen(connection, t, def) == [connection |-> connection, tool |-> t, def |-> def]

\* Either nothing was reviewed yet, or every tool as the server lists it, at its first address
SetupInit ==
  /\ suListed = [t \in SetupTools |-> "v1"]
  /\ \E table \in {[url |-> "a", auth |-> "apikey", trust |-> "ask"]} :
       /\ suConfig \in {table, NoServer}
       /\ suReview \in {NoReview, [kind |-> "state", connection |-> Connection(table),
                                   snapshot |-> suListed, enabled |-> SetupTools]}
       /\ suShown = {Seen(Connection(table), t, suListed[t]) : t \in suReview.enabled}
  /\ suRepo \in {"auto", "block"}
  /\ suBlocked \in {{}, {"b"}} /\ suAudience \in {{}, {"a"}}
  /\ suKey \in {"present", "missing"}
  /\ suNames \in [SetupTools -> {"own", "long", "shared"}]
  /\ suDo = [p \in Setups |-> NoSetup]
  /\ suUntouched = FALSE /\ suConnected = FALSE
  /\ suEdits = 0 /\ suLists = 0

----------------------------------------------------------------------------
(* merge_and_vet: the user's table, its trust lowered by the repository's, *)
(* and dropped when its credential may not be sent to its destination.     *)

TrustRank(trust) == CASE trust = "block" -> 0 [] trust = "ask" -> 1 [] trust = "auto" -> 2
MoreRestrictive(left, right) == IF TrustRank(left) <= TrustRank(right) THEN left ELSE right

AudienceMissing(table) == table.auth # "none" /\ table.url \notin suAudience

EffectiveTable(table) ==
  IF table = NoServer \/ AudienceMissing(table) THEN NoServer
  ELSE [table EXCEPT !.trust = MoreRestrictive(table.trust, suRepo)]

\* What review, check and a new session ask of a server before they contact it
MayContact(table) ==
  /\ EffectiveTable(table) # NoServer /\ EffectiveTable(table).trust # "block"
  /\ table.url \notin suBlocked

KeyReady(table) == table.auth = "none" \/ suKey = "present"
Answers(table) == KeyReady(table) /\ table.url # "unsafe"

MUT_ConnectionMatches(review, table) == review.kind = "state"

\* A URL with user info, a query or a fragment has no connection descriptor
ConnectionMatches(review, table) ==
  review.kind = "state" /\ table.url # "unsafe" /\ review.connection = Connection(table)

\* collect_adapters: the tools of a session that starts now.  Left out are those
\* whose mcp__server__tool is too long, or also another server's.
Offered ==
  {t \in SetupTools :
     /\ MayContact(suConfig) /\ Answers(suConfig) /\ ConnectionMatches(suReview, suConfig)
     /\ t \in suReview.enabled
     /\ suListed[t] # "gone" /\ suListed[t] = suReview.snapshot[t]
     /\ suNames[t] = "own"}

----------------------------------------------------------------------------
(* The commands.                                                           *)

SetupAt(p, command, where) == suDo[p].command = command /\ suDo[p].at = where
SetupBecomes(p, command) == suDo' = [suDo EXCEPT ![p] = command]
SetupGoes(p, where) == SetupBecomes(p, [suDo[p] EXCEPT !.at = where])
SetupEnds(p) == SetupBecomes(p, [NoSetup EXCEPT !.at = "ended"])
Only(p) == UNCHANGED <<suConfig, setupRules, suReview, suListed, suShown, setupBounds>>

SetupBegins(p) ==
  /\ suDo[p] = NoSetup /\ (p > 1 => suDo[p - 1] # NoSetup)
  /\ Cardinality({q \in Setups : suDo[q].at \notin {"new", "ended"}}) < MaxSetupsAtOnce

\* A name that is taken, or that an old review still goes by, is refused
ConnectReads(p) ==
  /\ SetupBegins(p)
  /\ IF suConfig # NoServer \/ suReview # NoReview THEN SetupEnds(p)
     ELSE SetupBecomes(p, [NoSetup EXCEPT !.command = "connect", !.at = "asked"])
  /\ Only(p) /\ UNCHANGED <<suUntouched, suConnected>>

FilledIn(p) ==
  \E url \in {"a", "b"}, auth \in {"none", "apikey"} :
    SetupBecomes(p, [suDo[p] EXCEPT !.at = "publish",
                       !.config = [url |-> url, auth |-> auth, trust |-> "ask"]])

MUT_ConnectIgnoresLateReview(p) ==
  /\ SetupAt(p, "connect", "asked")
  /\ \/ SetupEnds(p) /\ UNCHANGED <<suUntouched, suConnected>>
     \/ FilledIn(p) /\ suUntouched' = TRUE /\ suConnected' = FALSE
  /\ Only(p)

\* The answers are validated, and a review that has appeared meanwhile stops it
ConnectConfirms(p) ==
  /\ SetupAt(p, "connect", "asked")
  /\ \/ SetupEnds(p) /\ UNCHANGED <<suUntouched, suConnected>>
     \/ /\ suReview = NoReview
        /\ FilledIn(p) /\ suUntouched' = TRUE /\ suConnected' = FALSE
  /\ Only(p)

ReviewReads(p) ==
  /\ SetupBegins(p)
  /\ IF MayContact(suConfig) /\ suConfig.url # "unsafe"
     THEN SetupBecomes(p, [NoSetup EXCEPT !.command = "review", !.at = "contact",
                             !.config = suConfig, !.prior = suReview])
     ELSE SetupEnds(p)
  /\ Only(p) /\ UNCHANGED <<suUntouched, suConnected>>

\* inspect_mcp_server, which may fail
Inspect(p) ==
  /\ suDo[p].at = "contact"
  /\ \/ /\ Answers(suDo[p].config)
        /\ SetupBecomes(p, [suDo[p] EXCEPT !.at = "asked", !.snapshot = suListed])
     \/ SetupEnds(p)
  /\ Only(p) /\ UNCHANGED <<suUntouched, suConnected>>

MUT_ToolStatus(prior, connection, snapshot, t) ==
  IF prior.kind # "state" \/ prior.snapshot[t] = "gone" THEN "new"
  ELSE IF prior.snapshot[t] # snapshot[t] THEN "changed"
  ELSE IF t \in prior.enabled THEN "enabled" ELSE "disabled"

ToolStatus(prior, connection, snapshot, t) ==
  IF prior.kind = "state" /\ prior.connection # connection THEN "connection_changed"
  ELSE IF prior.kind # "state" \/ prior.snapshot[t] = "gone" THEN "new"
  ELSE IF prior.snapshot[t] # snapshot[t] THEN "changed"
  ELSE IF t \in prior.enabled THEN "enabled" ELSE "disabled"

\* The metadata of a selected tool is shown again unless it is still enabled as it was
ReviewConfirms(p) ==
  /\ SetupAt(p, "review", "asked")
  /\ LET mine == suDo[p]
         connection == Connection(mine.config)
         listed == {t \in SetupTools : mine.snapshot[t] # "gone"}
     IN \/ SetupEnds(p) /\ UNCHANGED suShown
        \/ \E chosen \in SUBSET listed :
             /\ SetupBecomes(p, [mine EXCEPT !.at = "publish",
                              !.next = [kind |-> "state", connection |-> connection,
                                        snapshot |-> mine.snapshot, enabled |-> chosen]])
             /\ suShown' = suShown \cup
                  {Seen(connection, t, mine.snapshot[t]) :
                     t \in {c \in chosen :
                              ToolStatus(mine.prior, connection, mine.snapshot, c) # "enabled"}}
  /\ UNCHANGED <<suConfig, setupRules, suReview, suListed, suUntouched, suConnected, setupBounds>>

DisableReads(p) ==
  /\ SetupBegins(p)
  /\ IF suReview.kind # "state" \/ suReview.enabled = {} THEN SetupEnds(p)
     ELSE SetupBecomes(p, [NoSetup EXCEPT !.command = "disable", !.at = "asked", !.prior = suReview])
  /\ Only(p) /\ UNCHANGED <<suUntouched, suConnected>>

DisableConfirms(p) ==
  /\ SetupAt(p, "disable", "asked")
  /\ \/ SetupEnds(p)
     \/ SetupBecomes(p, [suDo[p] EXCEPT !.at = "publish", !.next = [suDo[p].prior EXCEPT !.enabled = {}]])
  /\ Only(p) /\ UNCHANGED <<suUntouched, suConnected>>

\* publish compares with what the command has read, and replaces afterwards (PrivateState)
CompareRead(p) ==
  /\ suDo[p].at = "publish"
  /\ IF suDo[p].command = "connect"
     THEN IF suConfig = NoServer THEN SetupGoes(p, "replace") ELSE SetupEnds(p)
     ELSE IF suReview = suDo[p].prior THEN SetupGoes(p, "replace") ELSE SetupEnds(p)
  /\ Only(p) /\ UNCHANGED <<suUntouched, suConnected>>

SaveConnection(p) ==
  /\ SetupAt(p, "connect", "replace") /\ SetupEnds(p)
  /\ \/ suConfig' = suDo[p].config /\ suConnected' = TRUE
     \/ UNCHANGED <<suConfig, suConnected>>
  /\ UNCHANGED <<setupRules, suReview, suListed, suShown, suUntouched, setupBounds>>

\* The first review is linked, which an existing file prevents; a later one replaces
SaveReview(p) ==
  /\ suDo[p].command \in {"review", "disable"} /\ suDo[p].at = "replace" /\ SetupEnds(p)
  /\ \/ /\ (suDo[p].prior = NoReview) = (suReview = NoReview)
        /\ suReview' = suDo[p].next /\ suUntouched' = FALSE
     \/ UNCHANGED <<suReview, suUntouched>>
  /\ UNCHANGED <<suConfig, setupRules, suListed, suShown, suConnected, setupBounds>>

----------------------------------------------------------------------------
(* The operator's editor and the server.                                   *)

\* One setting of the table, or the whole table
OneEditOf(table) ==
  {NoServer} \cup {t \in Tables : /\ table # NoServer
                                  /\ \E key \in DOMAIN t : t = [table EXCEPT ![key] = t[key]]}

EditByHand ==
  /\ suEdits < MaxHandEdits /\ suEdits' = suEdits + 1
  /\ \/ /\ suConfig' \in OneEditOf(suConfig) \ {suConfig} /\ suConnected' = FALSE
        /\ UNCHANGED suReview
     \/ /\ suReview # NoReview /\ suReview' \in {NoReview, Malformed}
        /\ UNCHANGED <<suConfig, suConnected>>
  /\ UNCHANGED <<setupRules, suListed, suDo, suShown, suUntouched, suLists>>

ListOtherTools ==
  /\ suLists < MaxSetupLists /\ suLists' = suLists + 1
  /\ suListed' \in Listings \ {suListed}
  /\ UNCHANGED <<suConfig, setupRules, suReview, suDo, suShown, suUntouched, suConnected, suEdits>>

Setup(p) ==
  \/ ConnectReads(p) \/ ConnectConfirms(p) \/ ReviewReads(p) \/ Inspect(p) \/ ReviewConfirms(p)
  \/ DisableReads(p) \/ DisableConfirms(p) \/ CompareRead(p) \/ SaveConnection(p) \/ SaveReview(p)

SetupNext == (\E p \in Setups : Setup(p)) \/ EditByHand \/ ListOtherTools

SetupSpec == SetupInit /\ [][SetupNext]_setupVars

----------------------------------------------------------------------------
(* nh mcp status and nh mcp check.                                         *)

\* Only status looks at how the credential's entry is named
InvalidAuth(table) == table.auth = "oddkey"

\* Any blocker of its ladder makes the reviewed tools inactive
PolicyReady ==
  /\ suConfig.url # "unsafe" /\ ~InvalidAuth(suConfig) /\ ~AudienceMissing(suConfig)
  /\ suConfig.trust # "block" /\ EffectiveTable(suConfig).trust # "block"
  /\ suConfig.url \notin suBlocked
  /\ EffectiveTable(suConfig) # NoServer

PrerequisitesReady == PolicyReady /\ KeyReady(suConfig)

\* The enabled reviewed tools that status calls ready locally
StatusReady ==
  IF PrerequisitesReady /\ ConnectionMatches(suReview, suConfig) THEN suReview.enabled ELSE {}

\* print_check_result, from the saved review and what the server lists
CheckClean ==
  /\ suReview.connection = Connection(suConfig)
  /\ \A t \in SetupTools : suListed[t] = suReview.snapshot[t]

----------------------------------------------------------------------------
(* Properties.                                                             *)

(* Every tool a saved review enables was selected by the operator with     *)
(* that very definition, of a server reached by that very connection,      *)
(* before them: nothing the operator has not seen becomes callable because *)
(* the table, the list or another command changed meanwhile.               *)
EnabledWasShown ==
  \A t \in suReview.enabled : Seen(suReview.connection, t, suReview.snapshot[t]) \in suShown

(* A session is offered only what was shown for the connection it uses.    *)
(* What status calls ready is what a session gets, but for tools without   *)
(* an exposed name of their own, which neither status nor check mentions,  *)
(* and for what the server lists otherwise by now, which check reports.  A *)
(* session gets no more than that, save where the credential's entry has a *)
(* name that status calls invalid and a session does not look at.  And a   *)
(* connection saved by connect starts with no tools, whatever used the     *)
(* name before.                                                            *)
OffersAreReviewed ==
  /\ \A t \in Offered : Seen(Connection(suConfig), t, suListed[t]) \in suShown
  /\ ~InvalidAuth(suConfig) => Offered \subseteq StatusReady
  /\ CheckClean => {t \in StatusReady : suNames[t] = "own"} \subseteq Offered
  /\ suConnected /\ suUntouched => Offered = {}

(* From the operator's table and review to the call that reaches the       *)
(* server, only what was reviewed is offered or called.                    *)
OnlyReviewedToolsAreCalled == CallsAreReviewed /\ EnabledWasShown /\ OffersAreReviewed
============================================================================
