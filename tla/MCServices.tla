----------------------------- MODULE MCServices -----------------------------
(* The components without shared state, for TLC: a behaviour is about one  *)
(* of them and the others stay as they start.                              *)
EXTENDS McpServer, FileTools, CatalogMigration, ProviderCall, McpOAuth, McpSetup,
        Policies, ContextArchive, Recorder, Chat

CONSTANT Services   \* the components a run explores

VARIABLE service

allVars == << serverVars, fileVars, privateVars, retryVars, oauthVars,
              toolVars, policyVars, archiveVars, recorderVars, chatVars, setupVars,
              migrationVars, service >>

\* How many of the rules around an MCP server differ from those that let it be used
RulesApart ==
  Cardinality({r \in {<< "repo", suRepo = "auto" >>, << "law", suBlocked = {} >>,
                      << "audience", suAudience # {} >>, << "key", suKey = "present" >>,
                      << "names", \A t \in SetupTools : suNames[t] = "own" >>} : ~r[2]})

\* The history of nh run, and one of a caller whose earlier tasks can be compacted
NewRun == << System("constitution"), User(1) >>
Ran(turn, call) == ToolResult(1, turn, call, "ran")
LaterRun ==
  << System("constitution"), User(1), Speaks(1, << "plain", "broken" >>), Ran(1, 1), Ran(1, 2),
     User(2), Speaks(1, << "secret" >>), Ran(1, 1), User(3) >>
NewOrLater == {NewRun, LaterRun}

\* A component nobody uses starts in one of its states
Init ==
  /\ service \in Services
  /\ ServerInit /\ ProviderInit /\ PolicyInit /\ ChatInit
  /\ FileInit     /\ (service # "file" => fiTool = "write_file" /\ fiFile = Absent)
  /\ PrivateInit  /\ (service # "private" => psFile = NoText)
  /\ OAuthInit    /\ (service # "oauth" => oaTool = {})
  /\ ArchiveInit  /\ (service # "archive" => cxQuote = NoQuote /\ cxHistory = NewRun)
  /\ RecorderInit /\ (service # "recorder" => ~rcContexts)
  /\ MigrationInit /\ (service # "migration" => cmCatalog = "bundled" /\ cmTrusted = "absent")
  /\ SetupInit   /\ RulesApart <= IF service = "setup" THEN 1 ELSE 0
  /\ (service # "setup" => suConfig = NoServer /\ suReview = NoReview)
  /\ ToolsInit
  /\ service # "tools" =>
       /\ mcTrust = "block" /\ mcLaw = "block" /\ mcMode = "direct"
       /\ mcReview = [exists |-> FALSE, connection |-> FALSE, enabled |-> FALSE,
                      def |-> [text |-> "reviewed", readOnly |-> FALSE]]
       /\ mcListed = [how |-> "tool", def |-> mcReview.def]

Next ==
  \/ service = "server" /\ ServerNext
     /\ UNCHANGED << fileVars, privateVars, retryVars, oauthVars, toolVars,
                     policyVars, archiveVars, recorderVars, chatVars, setupVars,
                     migrationVars, service >>
  \/ service = "file" /\ FileNext
     /\ UNCHANGED << serverVars, privateVars, retryVars, oauthVars, toolVars,
                     policyVars, archiveVars, recorderVars, chatVars, setupVars,
                     migrationVars, service >>
  \/ service = "private" /\ PrivateNext
     /\ UNCHANGED << serverVars, fileVars, retryVars, oauthVars, toolVars,
                     policyVars, archiveVars, recorderVars, chatVars, setupVars,
                     migrationVars, service >>
  \/ service = "provider" /\ ProviderNext
     /\ UNCHANGED << serverVars, fileVars, privateVars, oauthVars, toolVars,
                     policyVars, archiveVars, recorderVars, chatVars, setupVars,
                     migrationVars, service >>
  \/ service = "oauth" /\ OAuthNext
     /\ UNCHANGED << serverVars, fileVars, privateVars, retryVars, toolVars,
                     policyVars, archiveVars, recorderVars, chatVars, setupVars,
                     migrationVars, service >>
  \/ service = "tools" /\ ToolsNext
     /\ UNCHANGED << serverVars, fileVars, privateVars, retryVars, oauthVars,
                     policyVars, archiveVars, recorderVars, chatVars, setupVars,
                     migrationVars, service >>
  \/ service = "policy" /\ PolicyNext
     /\ UNCHANGED << serverVars, fileVars, privateVars, retryVars, oauthVars,
                     toolVars, archiveVars, recorderVars, chatVars, setupVars,
                     migrationVars, service >>
  \/ service = "archive" /\ ArchiveNext
     /\ UNCHANGED << serverVars, fileVars, privateVars, retryVars, oauthVars,
                     toolVars, policyVars, recorderVars, chatVars, setupVars,
                     migrationVars, service >>
  \/ service = "recorder" /\ RecorderNext
     /\ UNCHANGED << serverVars, fileVars, privateVars, retryVars, oauthVars,
                     toolVars, policyVars, archiveVars, chatVars, setupVars,
                     migrationVars, service >>
  \/ service = "chat" /\ ChatNext
     /\ UNCHANGED << serverVars, fileVars, privateVars, retryVars, oauthVars,
                     toolVars, policyVars, archiveVars, recorderVars, setupVars,
                     migrationVars, service >>
  \/ service = "setup" /\ SetupNext
     /\ UNCHANGED << serverVars, fileVars, privateVars, retryVars, oauthVars,
                     toolVars, policyVars, archiveVars, recorderVars, chatVars,
                     migrationVars, service >>
  \/ service = "migration" /\ MigrationNext
     /\ UNCHANGED << serverVars, fileVars, privateVars, retryVars, oauthVars,
                     toolVars, policyVars, archiveVars, recorderVars, chatVars,
                     setupVars, service >>

Spec == Init /\ [][Next]_allVars

\* The handler, the run threads and a resume that has the lock keep running
ServerFairness ==
  /\ WF_serverVars(service = "server" /\ Handler)
  /\ \A r \in RunId : /\ WF_serverVars(service = "server" /\ RunThread(r))
                      /\ WF_serverVars(service = "server" /\ Resumer(r))

FairSpec == Spec /\ ServerFairness

Measured(prompt) == [prompt |-> prompt, completion |-> 1, cached |-> -1, evidence |-> "measured"]
SomeReports ==
  {Measured(2), Unmetered,
   [prompt |-> 2, completion |-> 0, cached |-> 1, evidence |-> "partial"]}

SomeOutcomes ==
  {[ok |-> TRUE, at |-> 2, usage |-> [Measured(3) EXCEPT !.cached = 1]],
   [ok |-> FALSE, at |-> 1, usage |-> None]}
=============================================================================
