---------------------------- MODULE ContextArchive ----------------------------
(***************************************************************************)
(* `nh run` with the extractive context experiment (nh-core                *)
(* context_experiment.rs) over the observations a run retains (nh-tools    *)
(* observation.rs).  Before a request the oldest complete exchanges of the *)
(* history are put away under a handle, if there is need and room for it,  *)
(* and the request is sent without them.                                   *)
(*                                                                         *)
(* Tokens and bytes of a message are both its Size.  Of the text of a      *)
(* message, what an archive does with it is kept: the arguments of a call  *)
(* are plain, hold something the scrubber knows (secret) or are not JSON   *)
(* (broken).  A result was scrubbed before it joined the history.          *)
(***************************************************************************)
EXTENDS Conversation, Integers, TLC

CONSTANTS
  ContextLimit,      \* effective_context_limit
  MaxAgentTurns,     \* max_turns
  MaxArchives,       \* MAX_CONTEXT_ARCHIVES
  MaxItems,          \* ObservationLimits::items
  MaxItemBytes,      \* ObservationLimits::item_bytes
  MaxSessionBytes,   \* ObservationLimits::session_bytes
  Openings,          \* histories a run may start from, its task the last message
  MaxLarge,          \* bound: tool results large enough to be retained
  MaxArchiveMishaps  \* bound: failed writes, changed files, unmeasured answers

\* A message of the model, with its calls
Speaks(turn, args) ==
  [role |-> "assistant", turn |-> turn, calls |-> [k \in DOMAIN args |-> k], args |-> args]

(* No message of a history is the notice of an archive.                    *)
Ordinary(m) ==
  /\ m.role = "system" => m.says # "archive"
  /\ m.role = "assistant" => /\ Len(m.args) \in Nat /\ DOMAIN m.args = 1 .. Len(m.args)
                             /\ m = Speaks(m.turn, m.args)

\* The calls of an assistant message are answered next, and nothing else is a result
AnsweredAt(h, i, j) == h[i].role = "assistant" /\ i < j /\ j <= i + Len(h[i].calls)
Paired(h) ==
  \A j \in 1 .. Len(h) : h[j].role = "tool" <=> \E i \in 1 .. Len(h) : AnsweredAt(h, i, j)
\* No call is left to answer
Closed(h) == \A i \in 1 .. Len(h) : h[i].role = "assistant" => i + Len(h[i].calls) <= Len(h)

ASSUME ArchiveAssumption ==
  /\ MaxItems \in Nat
  /\ \A h \in Openings :
       /\ Len(h) \in Nat /\ Len(h) >= 1 /\ h = [i \in 1 .. Len(h) |-> h[i]]
       /\ h[1].role = "system" /\ \A i \in 1 .. Len(h) : Ordinary(h[i])
       /\ Paired(h) /\ Closed(h)

VARIABLES
  cxAt,        \* ready, sent, tools, over, left or closed
  cxHistory,   \* the messages of the run
  cxTurn,      \* next_request
  cxQuote,     \* the price at the start of the run
  cxCached,    \* preceding_cached_tokens
  cxActive,    \* the archive in use
  cxCount,     \* archive_count
  cxSent,      \* the last request that was sent
  cxCancel,    \* ctx.cancel
  cxToDo,      \* calls of the answer that have not run
  obEntries,   \* each handle's entry: what was retained under it
  obFiles,     \* what the files of the session hold
  obDisabled,  \* capture_disabled
  obClosed,    \* closed
  cxSpent      \* what has been used of the bounds

sessionVars == << obEntries, obFiles, obDisabled, obClosed >>
planVars == << cxActive, cxCount, cxSent >>
archiveVars == << cxAt, cxHistory, cxTurn, cxQuote, cxCached, planVars, cxCancel, cxToDo,
                  sessionVars, cxSpent >>

NoArchive == [handle |-> 0, removed |-> {}, prefix |-> << >>]
NoEvidence == -1
NoQuote == [hit |-> -1, miss |-> -1, output |-> -1]
Changed == 0 :> System("changed")

ArchiveInit ==
  /\ cxAt = "ready" /\ cxTurn = 0
  /\ cxHistory \in Openings
  /\ cxQuote \in {NoQuote, [hit |-> 1, miss |-> 1, output |-> 1], [hit |-> 1, miss |-> 3, output |-> 1]}
  /\ cxCached = NoEvidence
  /\ cxActive = NoArchive /\ cxCount = 0 /\ cxSent = << >>
  /\ cxCancel = FALSE /\ cxToDo = << >>
  /\ obEntries = << >> /\ obFiles = << >> /\ obDisabled = FALSE /\ obClosed = FALSE
  /\ cxSpent = [large |-> 0, mishaps |-> 0]

Amiss == cxSpent.mishaps < MaxArchiveMishaps /\ cxSpent' = [cxSpent EXCEPT !.mishaps = @ + 1]

----------------------------------------------------------------------------
(* Retaining.                                                              *)

\* What is retained is a function of the places it had in the history
Bytes(content) == FoldFunction(LAMBDA m, sum : sum + Size(<< m >>), 0, content)
SessionBytes == FoldFunction(LAMBDA content, sum : sum + Bytes(content), 0, obEntries)

NoRoom(content) ==
  \/ obClosed \/ obDisabled
  \/ Bytes(content) > MaxItemBytes
  \/ Cardinality(DOMAIN obEntries) >= MaxItems
  \/ SessionBytes + Bytes(content) > MaxSessionBytes

NewHandle == CHOOSE h \in 1 .. MaxItems + 1 : h \notin DOMAIN obEntries \cup DOMAIN obFiles

Entered(f, handle, content) == [h \in DOMAIN f \cup {handle} |-> IF h = handle THEN content ELSE f[h]]

Stored(content) ==
  /\ obEntries' = Entered(obEntries, NewHandle, content)
  /\ obFiles' = Entered(obFiles, NewHandle, content)
  /\ UNCHANGED << obDisabled, obClosed, cxSpent >>

\* discard_failed_capture: a part that cannot be removed is the last
NotStored ==
  /\ Amiss
  /\ \/ UNCHANGED sessionVars
     \/ /\ obFiles' = Entered(obFiles, NewHandle, Changed) /\ obDisabled' = TRUE
        /\ UNCHANGED << obEntries, obClosed >>

Refusal == 0 :> System("refused")
(* retrieve, and what read_observation makes of it *)
Retrieve(handle) ==
  IF obClosed \/ handle \notin DOMAIN obEntries \/ handle \notin DOMAIN obFiles
       \/ obFiles[handle] # obEntries[handle]
  THEN Refusal ELSE obFiles[handle]

----------------------------------------------------------------------------
(* Planning a request.                                                     *)

KeepRecentGroups == 2
AssumedFutureRequests == 2
RetrievalAllowance == 1

Members(h, i) == i .. i + Len(h[i].calls)
(* complete_tool_groups: a message with calls and exactly their results *)
IsGroup(h, i) ==
  /\ h[i].role = "assistant" /\ h[i].calls # << >>
  /\ i + Len(h[i].calls) <= Len(h)
  /\ IsInjective(h[i].calls)
  /\ \A k \in DOMAIN h[i].calls : h[i + k].role = "tool"
  /\ {h[i + k].call : k \in DOMAIN h[i].calls} = ToSet(h[i].calls)
  /\ i + Len(h[i].calls) < Len(h) => h[i + Len(h[i].calls) + 1].role # "tool"
Groups(h) == {i \in DOMAIN h : IsGroup(h, i)}

MUT_Candidate(h) ==
  UNION {Members(h, i) : i \in {j \in Groups(h) : Cardinality({k \in Groups(h) : k > j}) >= KeepRecentGroups - 1}}
(* archive_candidate: all but the last groups *)
Candidate(h) ==
  UNION {Members(h, i) : i \in {j \in Groups(h) : Cardinality({k \in Groups(h) : k > j}) >= KeepRecentGroups}}

MUT_ScrubbedArg(arg) == arg
\* scrub_tool_arguments: what is not JSON is withheld as a whole
ScrubbedArg(arg) ==
  CASE arg = "secret" -> "scrubbed" [] arg = "broken" -> "withheld" [] OTHER -> arg
(* scrub_message_for_archive *)
Archived(m) ==
  IF m.role = "assistant" THEN Speaks(m.turn, [k \in DOMAIN m.args |-> ScrubbedArg(m.args[k])]) ELSE m
(* archive_payload: each message with the place it had *)
Taken(h, places) == [i \in places |-> Archived(h[i])]
UpTo(places, i) == {j \in places : j <= i}
\* What is left is in order: the k-th place has k of those left up to it
Without(h, places) ==
  LET left == DOMAIN h \ places
  IN [k \in 1 .. Cardinality(left) |-> h[CHOOSE i \in left : Cardinality(UpTo(left, i)) = k]]

Notice(handle) == [role |-> "system", says |-> "archive", handle |-> handle]
(* apply_archive: the notice goes behind the system messages that open it *)
Apply(h, archive) ==
  IF archive = NoArchive THEN h
  ELSE LET left  == Without(h, archive.removed)
           front == CHOOSE n \in 0 .. Len(left) :
                      /\ \A k \in 1 .. n : left[k].role \in {"system", "marker"}
                      /\ n < Len(left) => left[n + 1].role \notin {"system", "marker"}
       IN InsertAt(left, front + 1, Notice(archive.handle))

Tokens(messages) == Size(messages) + SpecTokens
\* context_percent, rounded to the nearest
Percent(tokens) == (tokens * 100 + ContextLimit \div 2) \div ContextLimit

Least(a, b) == IF a < b THEN a ELSE b
(* evaluate_costs: what two more requests save against one full retrieval, *)
(* the prefix that is no longer cached and the answer's own allowance.     *)
Favorable(removed, archived, retained, future) ==
  /\ cxQuote # NoQuote /\ cxCached # NoEvidence
  /\ future >= AssumedFutureRequests
  /\ removed * Least(cxQuote.hit, cxQuote.miss) * future
       > archived * (cxQuote.hit + cxQuote.miss - Least(cxQuote.hit, cxQuote.miss))
         + Least(cxCached, retained) * (IF cxQuote.miss > cxQuote.hit THEN cxQuote.miss - cxQuote.hit ELSE 0)
         + RetrievalAllowance * cxQuote.output

(* The ladder of prepare_request up to the retention itself. *)
WantsArchive(h, active, seq) ==
  LET current   == Tokens(Apply(h, active))
      candidate == Candidate(h)
      smaller   == Tokens(Apply(h, [active EXCEPT !.removed = candidate, !.handle = 1]))
      future    == Least(IF MaxAgentTurns > seq THEN MaxAgentTurns - seq ELSE 0, AssumedFutureRequests)
  IN /\ Percent(current) >= 50
     /\ candidate # {} /\ candidate # active.removed
     /\ cxCount < MaxArchives
     /\ smaller < current
     /\ \/ Percent(current) >= 70
        \/ Favorable(current - smaller, Size(Without(h, DOMAIN h \ candidate)), smaller, future)
     /\ ~cxCancel

MUT_Valid(h, archive) == archive
(* ActiveArchive::matches: an archive of a history that was rewritten is let go *)
Valid(h, archive) == IF IsPrefix(archive.prefix, h) THEN archive ELSE NoArchive

SendWith(h, archive) ==
  /\ cxHistory' = h
  /\ cxActive' = archive /\ cxSent' = Apply(h, archive)

\* The agent compacts its history before it asks (agent.rs).  A measured
\* prompt, of a request that is no longer than the history, adds nothing.
Compact(h) ==
  IF Crowded(h, 0, ContextLimit) /\ CanCompact(h, ContextLimit) THEN Compacted(h, ContextLimit) ELSE h

(* complete, up to the provider *)
PrepareSend ==
  /\ cxAt = "ready" /\ ~cxCancel /\ cxTurn < MaxAgentTurns
  /\ cxAt' = "sent" /\ cxTurn' = cxTurn + 1
  /\ LET h       == Compact(cxHistory)
         active  == Valid(h, cxActive)
         content == Taken(h, Candidate(h))
     IN IF ~WantsArchive(h, active, cxTurn + 1) \/ NoRoom(content)
        THEN SendWith(h, active) /\ UNCHANGED << cxCount, sessionVars, cxSpent >>
        ELSE \/ /\ Stored(content)
                /\ SendWith(h, [handle |-> NewHandle, removed |-> Candidate(h), prefix |-> h])
                /\ cxCount' = cxCount + 1
             \/ NotStored /\ SendWith(h, active) /\ UNCHANGED cxCount
  /\ UNCHANGED << cxQuote, cxCached, cxCancel, cxToDo >>

----------------------------------------------------------------------------
(* The rest of the run.                                                    *)

\* An answer that was retried, or whose usage was not measured, is no evidence
CallsAnswered ==
  /\ cxAt = "sent" /\ ~cxCancel
  /\ \E args \in {<< "plain" >>, << "secret", "broken" >>} :
       /\ cxToDo' = [k \in DOMAIN args |-> k]
       /\ cxHistory' = Append(cxHistory, Speaks(cxTurn, args))
  /\ \/ cxCached' = Size(cxSent) /\ UNCHANGED cxSpent
     \/ cxCached' = NoEvidence /\ Amiss
  /\ cxAt' = "tools"
  /\ UNCHANGED << cxTurn, cxQuote, planVars, cxCancel, sessionVars >>

\* A final answer, an error, a cancellation or the last turn
RunOver ==
  /\ \/ cxAt = "sent"
     \/ cxAt = "ready" /\ (cxCancel \/ cxTurn = MaxAgentTurns)
     \/ cxAt = "tools" /\ cxCancel
  /\ cxAt' = "over"
  /\ UNCHANGED << cxHistory, cxTurn, cxQuote, cxCached, planVars, cxCancel, cxToDo, sessionVars, cxSpent >>

\* A result; one that is too large for the message is retained if there is room
RunTool ==
  /\ cxAt = "tools" /\ ~cxCancel /\ cxToDo # << >>
  /\ LET result == ToolResult(1, cxTurn, Head(cxToDo), "ran") IN
       /\ cxHistory' = Append(cxHistory, result)
       /\ \/ UNCHANGED << sessionVars, cxSpent >>
          \/ /\ cxSpent.large < MaxLarge /\ ~NoRoom(<< result >>)
             /\ obEntries' = Entered(obEntries, NewHandle, << result >>)
             /\ obFiles' = Entered(obFiles, NewHandle, << result >>)
             /\ cxSpent' = [cxSpent EXCEPT !.large = @ + 1]
             /\ UNCHANGED << obDisabled, obClosed >>
          \/ ~NoRoom(<< result >>) /\ NotStored
  /\ cxToDo' = Tail(cxToDo)
  /\ cxAt' = IF Len(cxToDo) = 1 THEN "ready" ELSE "tools"
  /\ UNCHANGED << cxTurn, cxQuote, cxCached, planVars, cxCancel >>

UserStops ==
  /\ ~cxCancel /\ cxAt \notin {"over", "left", "closed"}
  /\ cxCancel' = TRUE
  /\ UNCHANGED << cxAt, cxHistory, cxTurn, cxQuote, cxCached, planVars, cxToDo, sessionVars, cxSpent >>

\* Somebody else's change to a file of the session
Tamper ==
  /\ cxAt \notin {"over", "left", "closed"}
  /\ \E h \in DOMAIN obEntries : obFiles' = [obFiles EXCEPT ![h] = Changed]
  /\ Amiss
  /\ UNCHANGED << cxAt, cxHistory, cxTurn, cxQuote, cxCached, planVars, cxCancel, cxToDo,
                  obEntries, obDisabled, obClosed >>

(* cleanup, and once more when the session is dropped: files that cannot   *)
(* be removed are reported and stay.                                       *)
CleanUp ==
  /\ cxAt \in {"over", "left"}
  /\ cxAt' = "closed" /\ obClosed' = TRUE /\ obEntries' = << >>
  /\ \E stay \in SUBSET DOMAIN obFiles :
       /\ obFiles' = [h \in stay |-> obFiles[h]]
       /\ IF stay = {} THEN UNCHANGED cxSpent ELSE Amiss
  /\ UNCHANGED << cxHistory, cxTurn, cxQuote, cxCached, planVars, cxCancel, cxToDo, obDisabled >>

(* A directory that is not the one that was created stays as it is, and    *)
(* the session is not closed.                                              *)
CleanUpFails ==
  /\ cxAt = "over" /\ Amiss
  /\ cxAt' = "left"
  /\ UNCHANGED << cxHistory, cxTurn, cxQuote, cxCached, planVars, cxCancel, cxToDo, sessionVars >>

ArchiveNext ==
  \/ PrepareSend \/ CallsAnswered \/ RunOver \/ RunTool \/ UserStops \/ Tamper
  \/ CleanUp \/ CleanUpFails

ArchiveSpec == ArchiveInit /\ [][ArchiveNext]_archiveVars

----------------------------------------------------------------------------
(* "preserves every system and user message, removes only validated        *)
(* complete assistant/tool groups, and retains the removed messages"       *)
(* (context_experiment.rs), scrubbed.  What a request lacks of the history *)
(* as it is now is, place by place, what can be read back under the handle *)
(* its notice gives, or is refused if somebody changed it: the message     *)
(* with its calls and results, but for the arguments the scrubber has to   *)
(* change and those that are not JSON, which nothing brings back.  No file *)
(* holds what the scrubber knows.  The last two exchanges are in the       *)
(* request, and every call that is there has its results, also behind a    *)
(* compaction of what an archive was made of.  Files stay within the       *)
(* session's limit, and once it is closed nothing can be read; a run that  *)
(* could not close it leaves what it retained.                             *)
Same(kept, m) ==
  /\ kept.role = m.role
  /\ m.role = "tool" => kept = m
  /\ m.role = "assistant" =>
       /\ kept.turn = m.turn /\ kept.calls = m.calls
       /\ \A k \in DOMAIN m.args : /\ kept.args[k] # "secret"
                                   /\ m.args[k] = "plain" => kept.args[k] = "plain"
ArchiveHoldsTheRest ==
  LET content   == IF cxActive = NoArchive THEN << >> ELSE obEntries[cxActive.handle]
      notices   == {k \in DOMAIN cxSent : cxSent[k].role = "system" /\ cxSent[k].says = "archive"}
      recent(i) == Cardinality({j \in Groups(cxHistory) : j > i}) < KeepRecentGroups
  IN /\ cxAt = "sent" =>
          /\ cxActive # NoArchive =>
               /\ cxActive.handle \in DOMAIN obEntries
               /\ Retrieve(cxActive.handle) \in {content, Refusal}
               /\ \E k \in DOMAIN cxSent : cxSent[k] = Notice(cxActive.handle)
          /\ DOMAIN content \subseteq DOMAIN cxHistory
          /\ \A i \in DOMAIN content :
               cxHistory[i].role \in {"assistant", "tool"} /\ Same(content[i], cxHistory[i])
          /\ Without(cxSent, notices) = Without(cxHistory, DOMAIN content)
          /\ \A i \in Groups(cxHistory) :
               /\ recent(i) => Members(cxHistory, i) \cap DOMAIN content = {}
               /\ Members(cxHistory, i) \cap DOMAIN content \in {{}, Members(cxHistory, i)}
     /\ Cardinality(DOMAIN obFiles) <= MaxItems
     /\ cxAt = "closed" => \A h \in 1 .. MaxItems : Retrieve(h) = Refusal
     /\ cxAt = "left" /\ cxActive # NoArchive => cxActive.handle \in DOMAIN obEntries
=============================================================================
