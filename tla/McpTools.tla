------------------------------ MODULE McpTools ------------------------------
(***************************************************************************)
(* One remote MCP tool from the operator's review to the call: what a      *)
(* session collects when it starts, discovery mode's two tools, and the    *)
(* gates of McpToolAdapter::execute, while the server may list another     *)
(* definition at any moment.                                               *)
(***************************************************************************)
EXTENDS Naturals

CONSTANTS
  MaxCalls,     \* bound: calls of the tool by the model
  MaxListings   \* bound: changes of what the server lists

VARIABLES
  mcTrust,       \* trust of the server: block, ask or auto
  mcLaw,         \* the law's verdict on sending to its host
  mcMode,        \* direct adapters or mcp_discover and mcp_invoke
  mcReview,      \* the saved review: the connection still matches, the tool is enabled, its definition
  mcListed,      \* what the server lists under the tool's name
  mcAt,          \* where the session is
  mcAdapter,     \* the definition the adapter was built from, or NoTool
  mcUnsupported, \* the name is in unsupported_header_tools
  mcDiscovered,  \* mcp_discover has returned it as available
  mcApproved,    \* the user has approved the call in hand
  mcSaw,         \* ghost: what the server listed when the call was revalidated
  mcCancel,
  mcSent,        \* ghost: the calls that reached the server
  mcCalls, mcListings

toolVars == <<mcTrust, mcLaw, mcMode, mcReview, mcListed, mcAt, mcAdapter, mcUnsupported,
              mcDiscovered, mcApproved, mcSaw, mcCancel, mcSent, mcCalls, mcListings>>
settings == <<mcTrust, mcLaw, mcMode, mcReview>>
world == <<mcListed, mcCancel, mcListings>>

Definition == [text : {"reviewed", "changed"}, readOnly : BOOLEAN]
NoTool == [text |-> "none", readOnly |-> FALSE]
Listing == [how : {"tool"}, def : Definition]
             \cup [how : {"gone", "duplicate", "headers", "unreviewable"}, def : {NoTool}]

ToolsInit ==
  /\ mcTrust \in {"block", "ask", "auto"} /\ mcLaw \in {"allow", "ask", "block"}
  /\ mcMode \in {"direct", "discovery"}
  /\ mcReview \in [exists : BOOLEAN, connection : BOOLEAN, enabled : BOOLEAN,
                   def : {d \in Definition : d.text = "reviewed"}]
  /\ mcListed \in {l \in Listing : l.how = "tool"}
  /\ mcAt = "starting" /\ mcAdapter = NoTool /\ mcUnsupported = FALSE
  /\ mcDiscovered = FALSE /\ mcApproved = FALSE
  /\ mcSaw = NoTool /\ mcCancel = FALSE
  /\ mcSent = {} /\ mcCalls = 0 /\ mcListings = 0

----------------------------------------------------------------------------
(* fetch_tools_full: a tool with x-mcp-header parameters is excluded and   *)
(* remembered, entries that share a name are all excluded, and one that    *)
(* cannot be reviewed has no fingerprint.                                  *)
Fetched == IF mcListed.how = "tool" THEN mcListed.def ELSE NoTool
Remember == mcUnsupported' = (mcListed.how = "headers")

\* collect_adapters asks neither a blocked server nor one without a current review
Contacted ==
  /\ mcTrust # "block" /\ mcLaw # "block"
  /\ mcReview.exists /\ mcReview.connection /\ mcReview.enabled

CollectAdapters ==
  /\ mcAt = "starting" /\ mcAt' = "idle"
  /\ \/ /\ Contacted
        /\ mcAdapter' = IF Fetched = mcReview.def THEN Fetched ELSE NoTool
        /\ Remember
     \/ UNCHANGED <<mcAdapter, mcUnsupported>>
  /\ UNCHANGED <<settings, world, mcDiscovered, mcApproved, mcSaw, mcSent, mcCalls>>

\* An item may be left out of the page, too large or redacted
Discover ==
  /\ mcAt = "idle" /\ mcMode = "discovery" /\ mcAdapter # NoTool /\ ~mcCancel
  /\ mcDiscovered' = TRUE
  /\ UNCHANGED <<settings, world, mcAt, mcAdapter, mcUnsupported, mcApproved, mcSaw, mcSent, mcCalls>>

----------------------------------------------------------------------------
(* One call.                                                               *)

Refused == mcAt' = "idle" /\ UNCHANGED <<mcAdapter, mcUnsupported, mcDiscovered, mcSaw, mcSent>>
Onwards(where) == mcAt' = where /\ UNCHANGED <<mcAdapter, mcUnsupported, mcDiscovered, mcSaw, mcSent>>
Reachable == mcAdapter # NoTool /\ (mcMode = "discovery" => mcDiscovered)
Unasked == mcTrust = "auto" /\ mcAdapter.readOnly /\ mcLaw = "allow"

\* Cancelled, unknown or undiscovered; then the law, and then the trust
Invoke ==
  /\ mcAt = "idle" /\ mcCalls < MaxCalls /\ mcCalls' = mcCalls + 1
  /\ mcApproved' = FALSE
  /\ IF mcCancel \/ ~Reachable \/ mcLaw = "block" \/ mcTrust = "block" THEN Refused
     ELSE Onwards(IF Unasked THEN "allowed" ELSE "asking")
  /\ UNCHANGED <<settings, world>>

UserApproves ==
  /\ mcAt = "asking"
  /\ \/ mcApproved' = TRUE /\ Onwards("allowed")
     \/ Refused /\ UNCHANGED mcApproved
  /\ UNCHANGED <<settings, world, mcCalls>>

MUT_RevalidateCached ==
  /\ mcAt = "allowed" /\ ~mcCancel
  /\ mcSaw' = Fetched /\ mcAt' = "current"
  /\ UNCHANGED <<settings, world, mcAdapter, mcUnsupported, mcDiscovered, mcApproved, mcSent, mcCalls>>

\* A fresh list, never the cached one, must still have the reviewed fingerprint
Revalidate ==
  /\ mcAt = "allowed"
  /\ \/ mcCancel /\ Refused
     \/ ~mcCancel /\ Refused   \* the server does not answer
     \/ /\ ~mcCancel /\ Remember /\ mcSaw' = Fetched
        /\ mcAt' = IF Fetched = mcAdapter THEN "current" ELSE "idle"
        /\ UNCHANGED <<mcAdapter, mcDiscovered, mcSent>>
  /\ UNCHANGED <<settings, world, mcApproved, mcCalls>>

CallTool ==
  /\ mcAt = "current" /\ mcAt' = "idle"
  /\ mcSent' = IF mcCancel \/ mcUnsupported THEN mcSent
               ELSE mcSent \cup {[saw |-> mcSaw, approved |-> mcApproved]}
  /\ UNCHANGED <<settings, world, mcAdapter, mcUnsupported, mcDiscovered, mcApproved, mcSaw, mcCalls>>

----------------------------------------------------------------------------
Relist ==
  /\ mcListings < MaxListings /\ mcListings' = mcListings + 1
  /\ mcListed' \in Listing \ {mcListed}
  /\ UNCHANGED <<settings, mcCancel, mcAt, mcAdapter, mcUnsupported, mcDiscovered, mcApproved,
                 mcSaw, mcSent, mcCalls>>

CancelCall ==
  /\ ~mcCancel /\ mcCancel' = TRUE
  /\ UNCHANGED <<settings, mcListed, mcListings, mcAt, mcAdapter, mcUnsupported, mcDiscovered,
                 mcApproved, mcSaw, mcSent, mcCalls>>

ToolsNext ==
  \/ CollectAdapters \/ Discover \/ Invoke \/ UserApproves \/ Revalidate \/ CallTool
  \/ Relist \/ CancelCall

ToolsSpec == ToolsInit /\ [][ToolsNext]_toolVars

----------------------------------------------------------------------------
(* Properties.                                                             *)

(* A call that reaches the server is for the definition the operator has   *)
(* reviewed and enabled, as the server listed it after the user was asked; *)
(* unasked only for a read-only tool of a trusted server the law allows;   *)
(* and never when the law or the trust blocks it.                          *)
CallsAreReviewed ==
  \A call \in mcSent :
    /\ mcReview.exists /\ mcReview.connection /\ mcReview.enabled
    /\ call.saw = mcReview.def
    /\ mcLaw # "block" /\ mcTrust # "block"
    /\ call.approved \/ (mcTrust = "auto" /\ mcReview.def.readOnly /\ mcLaw = "allow")
============================================================================
