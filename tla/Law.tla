-------------------------------- MODULE Law --------------------------------
(***************************************************************************)
(* The layered law of a session (nh-law): the sources that may be missing, *)
(* refused or malformed, the policy compiled from them, the verdicts on    *)
(* writing, reading, sending and executing, and the constitution.          *)
(*                                                                         *)
(* A list of rules is a set, since only whether one matches matters.  The  *)
(* rules of the four block lists are given by one set.                     *)
(***************************************************************************)
EXTENDS Glob, FiniteSets, SequencesExt

\* [autonomy, auto, ask, block, audience, text]; commands a law blocks are in execs
NoLaw == [autonomy |-> "unset", auto |-> {}, ask |-> {}, block |-> {}, execs |-> {},
          audience |-> {}, text |-> FALSE]
BundledLaw == [NoLaw EXCEPT !.autonomy = "ask", !.block = {<< AnyDepth, << "k" >> >>},
                            !.audience = {"bundled"}, !.text = TRUE]

----------------------------------------------------------------------------
(* Sources.                                                                *)

(* read_guarded: what stat, the two canonical paths, open and the read     *)
(* themselves find, one after the other, while the file may change.        *)
GuardedRead(found) ==
  IF found.stat = "missing" THEN "absent"
  ELSE IF \/ found.stat # "regular"
          \/ found.contained /\ found.resolves # "inside"
          \/ found.size > found.cap
          \/ found.open # "regular"
          \/ found.read > found.cap
          \/ found.size > 0 /\ found.read = 0
          \/ ~found.utf8
  THEN "refused" ELSE "text"

\* read_optional_law
Source(found, parses, law) ==
  [law |-> law,
   how |-> IF GuardedRead(found) # "text" THEN GuardedRead(found)
           ELSE IF parses THEN "law" ELSE "malformed"]

\* A source that is absent or was warned about counts for nothing
UsableLaw(source) == IF source.how = "law" THEN source.law ELSE NoLaw
Complains(source) == source.how \in {"refused", "malformed", "no home"}

(* repo_tries_to_weaken *)
TriesToWeaken(law) ==
  law.autonomy \notin {"unset", "ask"} \/ law.auto # {} \/ law.audience # {}

(* autonomy_from: what is not known is ask. *)
AutonomyFrom(law) == IF law.autonomy = "auto" THEN "auto" ELSE "ask"

----------------------------------------------------------------------------
(* Loading.                                                                *)

MUT_CompilePolicy(autonomy, bundled, user, repo) ==
  [autonomy |-> autonomy,
   auto     |-> bundled.auto \cup user.auto \cup repo.auto,
   audience |-> bundled.audience \cup user.audience,
   ask      |-> bundled.ask \cup user.ask \cup repo.ask,
   block    |-> bundled.block \cup user.block \cup repo.block,
   execs    |-> bundled.execs \cup user.execs \cup repo.execs]
(* The repository joins the lists that restrict and no other. *)
CompilePolicy(autonomy, bundled, user, repo) ==
  [autonomy |-> autonomy,
   auto     |-> bundled.auto \cup user.auto,
   audience |-> bundled.audience \cup user.audience,
   ask      |-> bundled.ask \cup user.ask \cup repo.ask,
   block    |-> bundled.block \cup user.block \cup repo.block,
   execs    |-> bundled.execs \cup user.execs \cup repo.execs]

Autonomy(cli, user) ==
  CASE cli # "unset"                            -> cli
    [] cli = "unset" /\ user.autonomy # "unset" -> AutonomyFrom(user)
    [] OTHER                                    -> AutonomyFrom(BundledLaw)

Warnings(user, repo) ==
  {w \in {"user", "repo", "restriction", "autonomy"} :
     CASE w = "user"        -> Complains(user)
       [] w = "repo"        -> Complains(repo)
       [] w = "restriction" -> TriesToWeaken(UsableLaw(repo))
       [] w = "autonomy"    -> UsableLaw(user).autonomy = "unknown"}

(* assemble_constitution: the sections there are, in a fixed order. *)
Constitution(user, repo, agents, memory) ==
  LET there(label) ==
        CASE label = "operating" -> BundledLaw.text
          [] label = "user"      -> UsableLaw(user).text
          [] label = "project"   -> UsableLaw(repo).text
          [] label = "agents"    -> agents = "text"
          [] label = "memory"    -> memory = "text"
  IN  SelectSeq(<< "operating", "user", "project", "agents", "memory" >>, there)

(* load_checked rejects a malformed law, load warns and goes without it. *)
Load(checked, cli, user, repo) ==
  IF checked /\ "malformed" \in {user.how, repo.how} THEN [ok |-> FALSE]
  ELSE [ok       |-> TRUE,
        policy   |-> CompilePolicy(Autonomy(cli, UsableLaw(user)), BundledLaw,
                                   UsableLaw(user), UsableLaw(repo)),
        constitution |-> Constitution(user, repo, "text", "text"),
        warnings |-> Warnings(user, repo)]

----------------------------------------------------------------------------
(* Verdicts.                                                               *)

Hits(patterns, value) == \E p \in patterns : GlobMatches(p, value)

WriteVerdict(policy, path) ==
  IF Hits(policy.block, path) THEN "block"
  ELSE IF Hits(policy.ask, path) THEN "ask"
  ELSE IF Hits(policy.auto, path) \/ policy.autonomy = "auto" THEN "allow" ELSE "ask"

\* read_verdict, and send_verdict with the host for a path of one segment
ReadVerdict(policy, path) == IF Hits(policy.block, path) THEN "block" ELSE "allow"

----------------------------------------------------------------------------
(* Commands.  A text is a sequence of words and of the marks among them    *)
(* that matter, "/", " " and ";"; quotes are dropped.  A token is a text, a *)
(* fragment the sequence of its tokens, and a command the sequence of the  *)
(* fragments between & ; | and line ends.                                  *)

MaxWrapperDepth == 4
NoWord == << "no token" >>
Assignments == {<< "A=1" >>}
EnvTakesOne == {<< "-u" >>, << "-C" >>}
Flags == {<< "-i" >>, << "-p" >>, << "--" >>}
Nohups == {<< "nohup" >>, << "command" >>}
Shells == {<< "sh" >>, << "cmd" >>, << "pwsh" >>}
RunsNext(shell) ==
  CASE shell = << "sh" >>   -> {<< "-c" >>}
    [] shell = << "cmd" >>  -> {<< "/", "c" >>, << "/", "k" >>}
    [] shell = << "pwsh" >> -> {<< "-c" >>, << "/", "c" >>}

TextOf(parts, mark) ==
  FoldLeft(LAMBDA text, part : IF text = << >> THEN part ELSE text \o << mark >> \o part, << >>, parts)

\* What a glob sees of a text
Segments(text) ==
  FoldLeft(LAMBDA done, word : IF word = "/" THEN Append(done, << >>)
                               ELSE [done EXCEPT ![Len(done)] = Append(@, word)],
           << << >> >>, text)

ExecutableName(token) == Last(Segments(token))

RECURSIVE DropWhile(_, _)
DropWhile(kinds, tokens) ==
  IF tokens # << >> /\ Head(tokens) \in kinds THEN DropWhile(kinds, Tail(tokens)) ELSE tokens

\* What env runs: past its options, their values and its assignments, or past --
RECURSIVE AfterEnv(_)
AfterEnv(tokens) ==
  CASE tokens = << >> -> << >>
    [] tokens # << >> /\ Head(tokens) = << "--" >> -> Tail(tokens)
    [] tokens # << >> /\ Head(tokens) \in EnvTakesOne -> AfterEnv(SubSeq(tokens, 3, Len(tokens)))
    [] tokens # << >> /\ Head(tokens) \in (Flags \ {<< "--" >>}) \cup Assignments ->
         AfterEnv(Tail(tokens))
    [] OTHER -> tokens

MUT_AtWrapperLimit(depth) == depth >= MaxWrapperDepth - 1
AtWrapperLimit(depth) == depth >= MaxWrapperDepth

RECURSIVE CommandToken(_, _)
CommandToken(tokens, depth) ==
  LET rest == DropWhile(Assignments, tokens) IN
  CASE AtWrapperLimit(depth) \/ rest = << >> -> NoWord
    [] ~AtWrapperLimit(depth) /\ rest # << >> ->
       LET wrapper == ExecutableName(Head(rest)) IN
       CASE wrapper = << "env" >> -> CommandToken(AfterEnv(Tail(rest)), depth + 1)
         [] wrapper \in Nohups -> CommandToken(DropWhile(Flags, Tail(rest)), depth + 1)
         [] wrapper \in Shells ->
              IF Len(rest) > 1 /\ rest[2] \in RunsNext(wrapper)
              THEN CommandToken(SubSeq(rest, 3, Len(rest)), depth + 1)
              ELSE NoWord
         [] OTHER -> Head(rest)

TextMatches(pattern, text) == GlobMatches(Segments(pattern), Segments(text))
TokenMatches(pattern, token) ==
  token # NoWord /\ (TextMatches(pattern, token) \/ TextMatches(pattern, ExecutableName(token)))

ExecPatternMatches(pattern, command) ==
  LET fragments == SelectSeq(command, LAMBDA fragment : fragment # << >>)
      texts == [i \in DOMAIN command |-> TextOf(command[i], " ")]
  IN \/ TextMatches(pattern, TextOf(texts, ";"))
     \/ \E i \in DOMAIN fragments :
          \/ TokenMatches(pattern, fragments[i][1])
          \/ TokenMatches(pattern, CommandToken(fragments[i], 0))
          \/ TextMatches(pattern, TextOf(fragments[i], " "))

ExecVerdict(policy, command) ==
  IF \E p \in policy.execs : ExecPatternMatches(p, command) THEN "block" ELSE "ask"

\* blocks_all_shell_commands
BlocksAllCommands(policy) == policy.execs \cap {<< "*" >>, << "*", "*" >>} # {}
=============================================================================
