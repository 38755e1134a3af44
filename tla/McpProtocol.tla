---------------------------- MODULE McpProtocol ----------------------------
(***************************************************************************)
(* One MCP call on the wire: the request nh-tools' client builds, and what *)
(* nh-mcp's server checks before a tool runs, in the server's order.  A    *)
(* tool name is what the header encoding can tell apart; a header is the   *)
(* sequence of the values sent under its name.                             *)
(***************************************************************************)
EXTENDS Naturals, Sequences

Version == "2026-07-28"
Missing == "missing"

Name == [empty : BOOLEAN, printable : BOOLEAN, padded : BOOLEAN,
         sentinel : BOOLEAN, secret : BOOLEAN]
PlainName == [empty |-> FALSE, printable |-> TRUE, padded |-> FALSE,
              sentinel |-> FALSE, secret |-> FALSE]
NotDecoded == [raw |-> Missing]

\* The bytes under a header: the name itself, or =?base64?...?= around it
Value(wrapped, name) == [wrapped |-> wrapped, name |-> name]

----------------------------------------------------------------------------
(* The client.                                                             *)

\* A secret-shaped name is refused by the header lint, an empty one as empty
Sendable(name) == ~name.secret /\ ~name.empty

MUT_EncodeSentinelPlain(name) == Value(~(name.printable /\ ~name.padded), name)
EncodeHeader(name) ==
  Value(~(name.printable /\ ~name.padded /\ ~name.sentinel), name)

\* request_headers, the JSON-RPC envelope and the three MCP headers
ClientRequest(method, name) ==
  [local |-> TRUE, authorized |-> TRUE, target |-> "mcp", verb |-> "POST", body |-> "json",
   object |-> TRUE, jsonrpc |-> TRUE, isReply |-> FALSE, id |-> TRUE,
   method |-> method, params |-> TRUE, meta |-> TRUE, version |-> Version,
   capabilities |-> TRUE, clientInfo |-> "named", name |-> name,
   versionHeader |-> <<Version>>, methodHeader |-> <<method>>,
   nameHeader |-> IF method = "tools/call" THEN <<EncodeHeader(name)>> ELSE << >>,
   tool |-> "other", wellFormed |-> TRUE]

----------------------------------------------------------------------------
(* The server.                                                             *)

\* decode_header_value: whatever looks wrapped is unwrapped
DecodeHeader(value) ==
  IF value.wrapped THEN value.name
  ELSE IF value.name.sentinel THEN NotDecoded
  ELSE IF value.name.printable /\ ~value.name.padded /\ ~value.name.empty THEN value.name
  ELSE NotDecoded

\* loopback_headers, authorized, then path, verb and body
Transport(q) ==
  CASE ~q.local -> "forbidden"
    [] q.local /\ ~q.authorized -> "unauthorized"
    [] OTHER ->
       IF q.verb = "GET" /\ q.target = "card" THEN "card"
       ELSE IF q.target # "mcp" THEN "not_found"
       ELSE IF q.verb # "POST" THEN "method_not_allowed"
       ELSE IF q.body = "large" THEN "too_large"
       ELSE IF q.body # "json" THEN "parse_error"
       ELSE "pass"

BadEnvelope(q) == ~q.object \/ ~q.jsonrpc \/ q.isReply \/ ~q.id \/ q.method = Missing
BadParams(q) ==
  \/ ~q.params \/ ~q.meta \/ q.version = Missing \/ ~q.capabilities
  \/ q.clientInfo = "unnamed"

\* required_header: once, and the same as the body says
Agrees(header, value) == Len(header) = 1 /\ header[1] = value

Envelope(q) ==
  IF BadEnvelope(q) THEN "invalid_request"
  ELSE IF BadParams(q) THEN "invalid_params"
  ELSE IF ~Agrees(q.versionHeader, q.version) THEN "header_mismatch"
  ELSE IF q.version # Version THEN "unsupported_version"
  ELSE IF ~Agrees(q.methodHeader, q.method) THEN "header_mismatch"
  ELSE IF q.method # "tools/call" THEN "pass"
  ELSE IF q.name.empty THEN "invalid_params"
  ELSE IF Len(q.nameHeader) # 1 \/ DecodeHeader(q.nameHeader[1]) # q.name THEN "header_mismatch"
  ELSE "pass"

\* What the accept loop makes of a request; "call" is the only one that reaches a tool
Verdict(q) ==
  IF Transport(q) # "pass" THEN Transport(q)
  ELSE IF Envelope(q) # "pass" THEN Envelope(q)
  ELSE CASE q.method = "server/discover" -> "discover"
         [] q.method = "tools/list" -> "list"
         [] q.method = "tools/call" -> "call"
         [] OTHER -> "method_not_found"

----------------------------------------------------------------------------
(* The calls the server's own behaviour is explored with: each tool, and   *)
(* one request that is refused.                                            *)
ToolCall(tool, wellFormed) ==
  [ClientRequest("tools/call", PlainName) EXCEPT !.tool = tool, !.wellFormed = wellFormed]

SomeRequests ==
  {ToolCall("fleet_run", TRUE), ToolCall("fleet_run", FALSE),
   ToolCall("fleet_status", TRUE), ToolCall("receipts", TRUE),
   [ToolCall("fleet_run", TRUE) EXCEPT !.authorized = FALSE]}
============================================================================
