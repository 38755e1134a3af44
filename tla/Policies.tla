------------------------------ MODULE Policies ------------------------------
(***************************************************************************)
(* The decisions of the harness that have no state of their own: each is   *)
(* asked one question and its answer compared with what it has to be.      *)
(***************************************************************************)
EXTENDS Law, WireFormat, Routes, McpProtocol, Vault, ToolRepair, EditMatch

VARIABLE question

policyVars == << question >>

NoQuestion == [about |-> "nothing"]
PolicyInit == question = NoQuestion

Asked(about) == question.about = about
Ask(q) == question' = q

----------------------------------------------------------------------------
(* Globs.                                                                  *)

Words(letters, lengths) == UNION {[1 .. n -> letters] : n \in lengths}

AskSegment ==
  \E pattern \in Words({"a", "b", "*", "?"}, 0 .. 4), value \in Words({"a", "b"}, 0 .. 4) :
    Ask([about |-> "segment", pattern |-> pattern, value |-> value])

AskGlob ==
  \E pattern \in Words({AnyDepth, << "a" >>, << "*" >>}, 1 .. 4),
     value \in Words({<< "a" >>, << "b" >>}, 1 .. 4) :
    Ask([about |-> "glob", pattern |-> pattern, value |-> value])

(* The walk, which never goes back further than its last wildcard, finds a *)
(* match exactly when there is one.                                        *)
GlobsMatchTheirMeaning ==
  /\ Asked("segment") => SegmentMatches(question.pattern, question.value)
                           = SegmentMeans(question.pattern, question.value)
  /\ Asked("glob") => GlobMatches(question.pattern, question.value)
                        = GlobMeans(question.pattern, question.value)

----------------------------------------------------------------------------
(* The law.                                                                *)

Regular == [stat |-> "regular", contained |-> TRUE, resolves |-> "inside", size |-> 1,
            cap |-> 2, open |-> "regular", read |-> 1, utf8 |-> TRUE]
Anything == {<< AnyDepth >>}
Sources == << << "s" >>, AnyDepth >>
Paths == {<< << "s" >>, << "a" >> >>, << << "k" >> >>, << << "a" >> >>}
Blocked == << "tool" >>
Commands == {<< << << "tool" >>, << "x" >> >> >>,
             << << << "other" >> >>, << << "sh" >>, << "-c" >>, << "tool" >> >> >>}

Laws ==
  {[NoLaw EXCEPT !.autonomy = autonomy, !.auto = IF weakens THEN Anything ELSE {},
                 !.audience = IF weakens THEN {"its own"} ELSE {},
                 !.ask = IF asks THEN {Sources} ELSE {},
                 !.block = IF blocks THEN {Sources} ELSE {},
                 !.execs = IF blocks THEN {Blocked} ELSE {}, !.text = blocks] :
     autonomy \in {"unset", "ask", "auto", "unknown"},
     weakens \in BOOLEAN, asks \in BOOLEAN, blocks \in BOOLEAN}

\* A file that is missing, grows under the reader, is swapped for a link, or does not parse
Unusable ==
  {Source([Regular EXCEPT !.stat = "missing"], TRUE, NoLaw),
   Source([Regular EXCEPT !.read = 3], TRUE, NoLaw),
   Source([Regular EXCEPT !.open = "link"], TRUE, NoLaw),
   Source(Regular, FALSE, NoLaw)}
SomeSources == Unusable \cup {Source(Regular, TRUE, law) : law \in Laws}

AskLayers ==
  \E user, repo \in SomeSources, cli \in {"unset", "ask", "auto"}, checked \in BOOLEAN :
    Ask([about |-> "law", user |-> user, repo |-> repo, cli |-> cli, checked |-> checked])

Strength == [allow |-> 0, ask |-> 1, block |-> 2]

(* docs/SECURITY_MODEL.md: "Repository policy can only tighten trust."     *)
(* Whatever the layers say and whichever of them cannot be used, a         *)
(* repository law makes no verdict weaker, approves no audience and sets   *)
(* no autonomy, and trying to is answered with a warning; what a layer     *)
(* blocks is blocked whatever the others allow; and a layer that could not *)
(* be used is rejected or warned about.                                    *)
LawOnlyTightens ==
  Asked("law") =>
    LET with    == Load(question.checked, question.cli, question.user, question.repo)
        without == Load(FALSE, question.cli, question.user, Source([Regular EXCEPT !.stat = "missing"], TRUE, NoLaw))
        blocks(p) == Hits(BundledLaw.block \cup UsableLaw(question.user).block
                            \cup UsableLaw(question.repo).block, p)
    IN IF ~with.ok THEN question.checked /\ "malformed" \in {question.user.how, question.repo.how}
       ELSE /\ \A p \in Paths :
                 /\ Strength[WriteVerdict(with.policy, p)] >= Strength[WriteVerdict(without.policy, p)]
                 /\ Strength[ReadVerdict(with.policy, p)] >= Strength[ReadVerdict(without.policy, p)]
                 /\ blocks(p) => WriteVerdict(with.policy, p) = "block"
            /\ \A c \in Commands :
                 Strength[ExecVerdict(with.policy, c)] >= Strength[ExecVerdict(without.policy, c)]
            /\ with.policy.audience = without.policy.audience
            /\ with.policy.autonomy = without.policy.autonomy
            /\ TriesToWeaken(UsableLaw(question.repo)) => "restriction" \in with.warnings
            /\ question.repo.how \in {"refused", "malformed"} => "repo" \in with.warnings
            /\ with.constitution # << >> /\ with.constitution[1] = "operating"

----------------------------------------------------------------------------
(* Commands.                                                               *)

Env == << << "env" >>, << "-u" >>, << "X" >>, << "A=1" >> >>
Shell == << << "bin", "/", "sh" >>, << "-c" >> >>
Wrappers ==
  {Env, Shell, << << "env" >>, << "--" >> >>, << << "nohup" >>, << "-p" >> >>,
   << << "A=1" >>, << "cmd" >>, << "/", "c" >> >>}
Launchers == Words(Wrappers, 0 .. 2) \cup Words({Env, Shell}, 3 .. MaxWrapperDepth)

Universal == {<< "*" >>, << "*", "*" >>}
Programs == {<< "tool" >>, << "bin", "/", "tool" >>, << "other" >>}
Arguments == {<< "x" >>, << "tool" >>, << "x", "/", "y" >>}

AskCommand ==
  \E launchers \in Launchers, runs \in Programs, argument \in Arguments, before \in BOOLEAN,
     pattern \in {Blocked, Blocked \o << " ", "x" >>, Blocked \o << " ", "*" >>} \cup Universal :
    LET fragment == FlattenSeq(launchers) \o << runs, argument >>
    IN Ask([about |-> "command", runs |-> runs, argument |-> argument, pattern |-> pattern,
            depth |-> Len(launchers),
            command |-> IF before THEN << << << "other" >> >>, << >>, fragment >> ELSE << fragment >>])

(* A command that a law blocks by its name is blocked wherever it stands   *)
(* on the line, under any directory and behind fewer than MaxWrapperDepth  *)
(* recognised launchers: behind more it is not seen.  The name is no       *)
(* reason to block anything else, least of all as an argument.  A pattern  *)
(* with arguments stands for a whole fragment as it is written, and its *  *)
(* for anything but a slash: an address is not covered by it.  And every   *)
(* command is blocked when the law blocks all of them.                     *)
BlockedCommandsAreSeen ==
  Asked("command") =>
    LET policy  == CompilePolicy("auto", BundledLaw, [NoLaw EXCEPT !.execs = {question.pattern}], NoLaw)
        blocked == ExecVerdict(policy, question.command) = "block"
        named   == question.runs # << "other" >> /\ question.depth < MaxWrapperDepth
        plain   == question.runs = Blocked /\ question.depth = 0
    IN /\ question.pattern = Blocked => (blocked <=> named)
       /\ question.pattern = Blocked \o << " ", "x" >> =>
            (blocked <=> plain /\ question.argument = << "x" >>)
       /\ question.pattern = Blocked \o << " ", "*" >> =>
            (blocked <=> plain /\ Len(question.argument) = 1)
       /\ BlocksAllCommands(policy) => blocked

----------------------------------------------------------------------------
(* The effort a request asks for.                                          *)

AskEffort ==
  \E explicit \in Efforts \cup {"unset"}, posture \in {"floor", "default", "ceiling"},
     dialect \in Dialects, wire \in {"openai", "anthropic"}, keep, quirk, content, calls \in BOOLEAN :
    Ask([about |-> "effort", explicit |-> explicit, posture |-> posture, dialect |-> dialect,
         wire |-> wire, keep |-> keep, quirk |-> quirk,
         message |-> [role |-> "assistant", content |-> IF content THEN "text" ELSE "",
                      calls |-> calls, reasoning |-> "thoughts"]])

(* The effort the user is shown is the one the request asks for: "none"    *)
(* exactly when the model is not to think, the very word where the wire    *)
(* has one, and the same again when it is chosen explicitly.  Reasoning    *)
(* goes back only while the model is to think about it, and a tool-only    *)
(* message never lacks the field where the provider insists on it.         *)
EffortIsSent ==
  Asked("effort") =>
    LET effort == ResolveEffort(question.explicit, question.posture, question.dialect, question.wire)
        active == ThinkingIsActive(question.dialect, effort)
        body   == ApplyThinking(question.dialect, question.keep, effort)
        sent   == ReasoningToSend(question.message,
                                  [preserve |-> FALSE, preserveWhenThinking |-> question.keep,
                                   emptyOnToolReplay |-> question.quirk], active)
    IN /\ ResolveEffort(effort, question.posture, question.dialect, question.wire) = effort
       /\ question.wire = "openai" =>
            /\ effort = "none" <=> ~active
            /\ active => body.thinking # "disabled"
            /\ body.effort \in {"unset", effort}
            /\ body.keep => question.keep /\ active
            /\ sent = "thoughts" => active
            /\ question.quirk /\ question.message.calls /\ question.message.content = ""
                 => sent # "unset"

----------------------------------------------------------------------------
(* The same answer on either wire.                                         *)

SomeCalls ==
  {<< >>} \cup Words([id : {"", "1", "2"}, name : {"", "tool"}], 1 .. 2)

AskAnswer ==
  \E text \in {"unset", "", "text"}, calls \in SomeCalls, split \in BOOLEAN,
     stop \in {"unset", "stop", "tool use", "truncated", "else"},
     usage \in [prompt : {"unset", "sent"}, completion : {"unset", "sent"}, cached : {"unset", "sent"}] :
    Ask([about |-> "answer", text |-> text, calls |-> calls, split |-> split, stop |-> stop,
         usage |-> usage])

OnOpenAi(q) ==
  [usage |-> q.usage,
   choices |-> << [role |-> "assistant", content |-> q.text, calls |-> q.calls,
                   finish |-> CASE q.stop = "tool use" -> "tool_calls"
                                [] q.stop = "truncated" -> "length"
                                [] OTHER -> q.stop] >>]
\* A provider may split the text, and send kinds of blocks nobody knows
OnAnthropic(q) ==
  LET block(kind, text, id, name) == [kind |-> kind, text |-> text, id |-> id, name |-> name]
  IN [usage |-> q.usage,
      content |-> (IF q.split THEN << block("other", "", "", "") >> ELSE << >>)
                   \o (IF q.text = "unset" THEN << >>
                       ELSE IF q.split THEN << block("text", q.text, "", ""), block("text", "", "", "") >>
                       ELSE << block("text", q.text, "", "") >>)
                   \o [i \in DOMAIN q.calls |-> block("use", "", q.calls[i].id, q.calls[i].name)],
      stop |-> CASE q.stop = "stop" -> "end_turn"
                 [] q.stop = "tool use" -> "tool_use"
                 [] q.stop = "truncated" -> "max_tokens"
                 [] OTHER -> q.stop]

(* The agent loop cannot tell the wires apart: an answer means the same on *)
(* both, or is refused on both, and then it has calls that could not be    *)
(* paired with their results.                                              *)
WiresAgree ==
  Asked("answer") =>
    LET openai == ParseOpenAi(OnOpenAi(question)) IN
      /\ openai = ParseAnthropic(OnAnthropic(question))
      /\ openai.ok => openai.finish = (CASE question.stop = "unset" -> "missing"
                                         [] question.stop = "else" -> "unknown"
                                         [] OTHER -> question.stop)

----------------------------------------------------------------------------
(* Routes.                                                                 *)

Rates(currency, hit, miss, output) ==
  [currency |-> currency, hit |-> hit, miss |-> miss, output |-> output, peak |-> NoPeak]
Doubled == [multiplier |-> 2, days |-> {1}, windows |-> {<< 0, 2 >>, << 9, 12 >>}]
Api(provider, context, price) ==
  [key |-> << "key" >>, model |-> << "model" >>, class |-> "api", provider |-> provider,
   scheme |-> "https", loopback |-> FALSE, wire |-> "openai", modality |-> {"text"},
   context |-> context, price |-> price]
SomeRoutes ==
  {Api("us", 3, Rates("USD", 0, 1, 2)), Api("us", 2, Rates("USD", 0, 1, 1)),
   Api("us", 3, [Rates("USD", 0, 1, 2) EXCEPT !.peak = Doubled]),
   Api("cn", 3, Rates("CNY", 1, 2, 3)), Api("cn", 3, Rates("CNY", 1, 5, 9)),
   Api("us", 3, Rates("CNY", 1, 2, 3)), Api("cn", 3, NoPrice), Api("cn", Unknown, Rates("CNY", 1, 1, 1)),
   [Api("us", 3, NoPrice) EXCEPT !.class = "local", !.scheme = "http", !.loopback = TRUE],
   [Api("us", 3, Rates("USD", 0, 0, 0)) EXCEPT !.model = << "mimo-v2-", "pro" >>]}
Moments == {[day |-> 1, hour |-> 1], [day |-> 0, hour |-> 17], [day |-> 1, hour |-> 17]}

AskRoute ==
  \E routes \in [1 .. 3 -> SomeRoutes], fx \in {NoFx, [rate |-> 3, fresh |-> TRUE], [rate |-> 3, fresh |-> FALSE]},
     output \in 0 .. 1, allowed \in {{1, 2, 3}, {2, 3, 4}}, at \in Moments :
    /\ FromToml(routes)
    /\ Ask([about |-> "route", routes |-> routes, fx |-> fx, prompt |-> 2, output |-> output,
            allowed |-> allowed, at |-> at])

(* The route a request goes to is one of those it may go to, holds it, is  *)
(* known not to be dead, and no other that would do is known to be         *)
(* cheaper: prices of two currencies are compared at a rate still good, or *)
(* else the one that cannot be compared is not taken.  Every other route   *)
(* that was allowed is accounted for, once.  A provider's default is its   *)
(* cheapest, which only means something because no catalog lets one        *)
(* provider price in two currencies.                                       *)
RouteChoiceIsJustified ==
  Asked("route") =>
    LET routes == question.routes
        choice == ResolveCapable(routes, question.fx, question.prompt, question.output,
                                 question.allowed, question.at)
        usable == {id \in question.allowed \cap DOMAIN routes :
                     /\ routes[id].class = "api" /\ routes[id].price # NoPrice
                     /\ routes[id].context >= question.prompt + question.output}
        cost(id)     == ExpectedCost(routes, id, question.prompt, question.output, question.at)
        currency(id) == routes[id].price.currency
        default(provider) == ProviderDefault(routes, provider)
    IN /\ choice.ok <=> usable # {}
       /\ choice.ok =>
            /\ choice.id \in usable /\ ~IsBanned(routes[choice.id].model)
            /\ ToSet(choice.trace) = question.allowed \ {choice.id}
            /\ Len(choice.trace) = Cardinality(question.allowed) - 1
            /\ \A id \in usable :
                 IF currency(id) = currency(choice.id) THEN cost(choice.id) <= cost(id)
                 ELSE IF ~question.fx.fresh THEN currency(choice.id) = "USD"
                 ELSE IF currency(id) = "CNY" THEN 10 * cost(choice.id) <= question.fx.rate * cost(id)
                 ELSE question.fx.rate * cost(choice.id) <= 10 * cost(id)
       /\ \A provider \in {"us", "cn"} :
            default(provider).ok =>
              \A id \in DOMAIN routes :
                routes[id].provider = provider /\ routes[id].class = "api" /\ routes[id].price # NoPrice
                => /\ currency(id) = currency(default(provider).id)
                   /\ routes[id].price.output >= routes[default(provider).id].price.output

----------------------------------------------------------------------------
(* Money.                                                                  *)

AskCost ==
  \E hit, miss \in {0, 1, 3}, peak \in {NoPeak, Doubled}, class \in {"api", "local"},
     prompt \in 0 .. 2, cached \in Unknown .. 3, elided \in 0 .. 2, events \in 1 .. 2,
     evidence \in {"measured", "partial"}, at \in Moments :
    Ask([about |-> "cost", at |-> at, elided |-> elided, events |-> events,
         route |-> [Api("us", 3, [Rates("USD", hit, miss, 1) EXCEPT !.peak = peak]) EXCEPT !.class = class],
         usage |-> [prompt |-> prompt, completion |-> 1, cached |-> cached, evidence |-> evidence]])

(* What is said about money is never too little.  A cost is stated only    *)
(* for usage that was measured, is exact when the cache split is known and *)
(* covers every split there could have been when it is not; a saving is    *)
(* shown only when something was saved; the chip says peak when the peak   *)
(* rate is what is paid.  What a compaction nets is the difference between *)
(* the next call with the cached prefix and without it.                    *)
CostsAreHonest ==
  Asked("cost") =>
    LET route  == question.route
        usage  == question.usage
        cost   == TurnCost(<< route >>, route, usage, question.at)
        effect == CompactionCost(route, question.events, question.elided, usage.cached, question.at)
        quote  == PriceAt(route, question.at)
        stated == cost.how \in {"priced", "at most"}
        paid(cached) == CostOf(quote, usage.prompt, cached, usage.completion)
    IN /\ stated => usage.evidence = "measured" /\ route.class = "api"
       /\ cost.how = "at most" => \A cached \in 0 .. usage.prompt : paid(cached) <= cost.amount
       /\ cost.how = "priced" =>
            /\ cost.amount = paid(usage.cached)
            /\ cost.saved # Unknown => cost.saved \in 0 .. 99 /\ cost.amount < cost.naive.noCache
            /\ PeakStatus(route, question.at) = "peak" => cost.naive.peak = cost.amount
            /\ PeakStatus(route, question.at) = "off-peak" => cost.naive.peak >= cost.amount
       /\ effect.how = "net" =>
            LET kept == usage.cached - question.elided
            IN effect.amount = CostOf(quote, usage.cached, usage.cached, 0) - CostOf(quote, kept, 0, 0)

----------------------------------------------------------------------------
(* Execution profiles.                                                     *)

SomeProfiles == [thinking : DOMAIN Postures, cap : {1, 3, NoCap}, offpeak : {"unset", "no", "yes"}]
NoProfiles == << >>

AskProfile ==
  \E user, repo \in SomeProfiles, bundled \in BOOLEAN, hasUser \in BOOLEAN,
     new \in BOOLEAN, maxOut \in {2, NoCap} :
    Ask([about |-> "profile", maxOut |-> maxOut,
         bundled |-> IF bundled THEN [balanced |-> SafeBalanced, frugal |-> [SafeBalanced EXCEPT !.cap = 2]]
                     ELSE NoProfiles,
         user |-> IF hasUser THEN [frugal |-> user] ELSE NoProfiles,
         repo |-> IF new THEN [balanced |-> repo] ELSE [frugal |-> repo]])

(* A repository's profiles cannot make a session think more, answer longer *)
(* or pay peak rates, under any name the session may ask for and whichever *)
(* layers could be read; the route's own limit holds; and a lever that was *)
(* not granted is warned about.                                            *)
ProfilesOnlyTighten ==
  Asked("profile") =>
    LET compiled == CompileProfiles(question.bundled, question.user, question.repo)
        plain    == CompileProfiles(question.bundled, question.user, NoProfiles)
    IN /\ \A name \in {"balanced", "frugal", "unknown"} :
            LET with    == Effective(compiled.profiles, name, question.maxOut)
                without == Effective(plain.profiles, name, question.maxOut)
            IN /\ with.profile = without.profile
               /\ with.cap <= without.cap /\ with.cap <= question.maxOut
               /\ Postures[with.thinking] <= Postures[without.thinking]
               /\ without.offpeak => with.offpeak
       /\ \A name \in DOMAIN question.repo :
            \/ name \in DOMAIN compiled.profiles /\ compiled.profiles[name] = question.repo[name]
            \/ name \in compiled.warned

----------------------------------------------------------------------------
(* MCP requests.                                                           *)

Served == [m \in {"server/discover", "tools/list", "tools/call"} |->
             CASE m = "server/discover" -> "discover" [] m = "tools/list" -> "list"
               [] OTHER -> "call"]

AskRequest ==
  \E method \in DOMAIN Served, name \in {n \in Name : Sendable(n)}, other \in Name,
     change \in {"none", "version", "method", "name", "no name", "two names"} :
    LET sent == ClientRequest(method, name) IN
    Ask([about |-> "request", method |-> method, change |-> change,
         differs |-> method # "tools/call" \/ other # name,
         sent |-> CASE change = "none"      -> sent
                    [] change = "version"   -> [sent EXCEPT !.versionHeader = <<"2025-06-18">>]
                    [] change = "method"    -> [sent EXCEPT !.methodHeader = <<"ping">>]
                    [] change = "name"      -> [sent EXCEPT !.nameHeader = <<EncodeHeader(other)>>]
                    [] change = "no name"   -> [sent EXCEPT !.nameHeader = << >>]
                    [] change = "two names" -> [sent EXCEPT !.nameHeader = @ \o @]])

(* Every request the client builds is served, whatever a tool is called;   *)
(* one whose headers say something else than its body calls no tool.       *)
RequestsAreServed ==
  Asked("request") =>
    LET verdict == Verdict(question.sent) IN
      /\ question.change = "none" => verdict = Served[question.method]
      /\ question.change # "none" /\ question.differs => verdict # "call"

----------------------------------------------------------------------------
(* The arguments of a tool call, as a model writes them.                   *)

Faults == {"single", "unterminated", "keys", "commas"}

(* An object of one key, with a string, with a list of strings or with an  *)
(* object in it, written as JSON or with some of the faults.               *)
Spoken(shape, string, faults, gap) ==
  LET mark  == IF "single" \in faults THEN "'" ELSE "\""
      key   == IF "keys" \in faults THEN << "a" >> ELSE << mark, "a", mark >>
      comma == (IF "commas" \in faults THEN << "," >> ELSE << >>) \o gap
      char(c) == CASE c = mark -> << "\\", mark >>
                   [] c = "\\" -> << "\\", "\\" >>
                   [] OTHER -> << c >>
      text  == << mark >> \o FlattenSeq([i \in DOMAIN string |-> char(string[i])])
      last  == IF "unterminated" \in faults THEN text ELSE text \o << mark >>
  IN << "{" >> \o key \o << ":" >>
       \o (CASE shape = "string" -> last
              [] shape = "list"   -> << "[" >> \o text \o << mark, ",", " " >> \o last \o comma \o << "]" >>
              [] shape = "object" -> << " ", "{" >> \o key \o << ":" >> \o last \o comma \o << "}" >>)
       \o comma \o << "}" >>

AskArguments ==
  \E shape \in {"string", "list", "object"}, fence \in {"none", "json", "other"},
     string \in Words({"a", ":", ",", "}", "{", "'", "\"", "\\", " "}, 0 .. 2),
     faults \in SUBSET Faults :
    \* A comma behind a string nobody closed is part of it
    /\ ~({"unterminated", "commas"} \subseteq faults)
    /\ fence = "none" \/ string = << "a" >>
    /\ LET gap == IF "unterminated" \in faults THEN << >> ELSE << " " >>
           meant == Spoken(shape, string, {}, gap)
       IN Ask([about |-> "arguments", clear |-> ~(shape = "list" /\ "unterminated" \in faults),
               fence |-> fence, faults |-> faults, meant |-> meant,
               parsed |-> ParseArguments(fence, Spoken(shape, string, faults, gap), {meant})])

(* A repair never changes what was said: whatever a call's strings hold,   *)
(* arguments with any of the known faults become the JSON that was meant,  *)
(* with a note of each fault and of no other, and JSON is left alone.      *)
(* Where a string nobody closed stands in a list in an object, which the   *)
(* closers do not tell, the call is refused and not guessed at.            *)
RepairsKeepMeaning ==
  Asked("arguments") =>
    LET parsed == question.parsed IN
      /\ parsed.ok <=> question.clear /\ question.fence # "other"
      /\ parsed.ok => /\ parsed.value = question.meant
                      /\ parsed.notes = question.faults
                                          \cup (IF question.fence = "json" THEN {"fence"} ELSE {})

----------------------------------------------------------------------------
(* Edits.                                                                  *)

FileLines == {<< "a" >>, << " ", "a" >>, << " ", " ", "a", " ", " ", "a" >>, << "a", "a", " " >>,
              << " " >>}
OldLines == {<< >>, << "a" >>, << " ", "a" >>, << "a", " ", "a" >>}

Joined(lines, end) ==
  FlattenSeq([i \in DOMAIN lines |-> lines[i] \o (IF i < Len(lines) THEN end ELSE << >>)])

AskEdit ==
  \E lines \in Words(FileLines, 1 .. 3), olds \in Words(OldLines, 1 .. 2), crlf \in BOOLEAN :
    /\ olds # << << >> >>
    /\ LET old  == Joined(olds, << "nl" >>)
           file == Joined(lines, IF crlf THEN << "cr", "nl" >> ELSE << "nl" >>)
       IN Ask([about |-> "edit", old |-> old, file |-> file, found |-> Locate(file, old, old)])

\* What a text says when blanks only separate words
Reads(s) == CharsOf(Normal(s, FALSE))
\* Parts of a file that read as old does
PlacesOf(file, old) ==
  {r \in [from : DOMAIN file, to : DOMAIN file] :
     /\ r.from <= r.to /\ file[r.from] \notin Blanks /\ file[r.to] \notin Blanks
     /\ Reads(Part(file, r)) = Reads(old)}
Disjoint(r, other) == r.to < other.from \/ other.to < r.from
\* What a tier has to find, in a text and in the places of a file that hold it
ReadsAt(tier, s) == IF tier = "exact" THEN s ELSE CharsOf(Normal(s, tier = "whitespace"))
PlacesAt(tier, file, old) ==
  {r \in [from : DOMAIN file, to : DOMAIN file] :
     /\ r.from <= r.to /\ ReadsAt(tier, Part(file, r)) = ReadsAt(tier, old)
     /\ tier # "exact" =>
          /\ file[r.to] \notin Blanks
          /\ file[r.from] = "nl" => r.from = 1 \/ file[r.from - 1] # "cr"
          /\ file[r.from] \in Blanks =>
               EndsLine(file, r.from) \/ (tier = "whitespace" /\ LineStart(file, r.from) = r.from)}
OverlapsItself(s) == \E n \in 1 .. Len(s) - 1 : SubSeq(s, 1, n) = SubSeq(s, Len(s) - n + 1, Len(s))
Indents(s) == LET lines == SelectSeq(LinesOf(s), LAMBDA l : Reads(l) # << >>)
              IN [i \in DOMAIN lines |-> Indentation(lines[i])]

(* nh-tools, edit.rs:1: "ambiguity instead of guessing".  What an edit     *)
(* replaces reads as the old text does, and at the tier that found it no   *)
(* other place of the file does: an edit has one region, or is refused.    *)
(* It is refused as ambiguous only when there are two places, and as not   *)
(* found only when there is none.  Putting back what was there leaves the  *)
(* words and the indentation of every line of the file as they were.       *)
(* NOT promised, and not so: the one region when the old text overlaps     *)
(* itself.  match_indices goes on behind an occurrence, so two that share  *)
(* characters count as one, and a-a in a-a-a is edited at the first, while *)
(* lib.rs:1008 tells a model that its text "must identify exactly one      *)
(* region in the file".  Only a place that shares characters with the      *)
(* region is left out, and only for such a text (README, section 7).       *)
EditsHitTheirTarget ==
  Asked("edit") =>
    LET file   == question.file
        old    == question.old
        found  == question.found
        places == PlacesOf(file, old)
    IN /\ found.how = "found" =>
            /\ Reads(Part(file, found.range)) = Reads(old)
            /\ \A place \in PlacesAt(found.tier, file, old) \ {found.range} :
                 OverlapsItself(ReadsAt(found.tier, old)) /\ ~Disjoint(place, found.range)
            /\ Reads(Edited(file, found)) = Reads(file)
            /\ Indents(Edited(file, found)) = Indents(file)
       /\ found.how = "ambiguous" => \E p, q \in places : Disjoint(p, q)
       /\ found.how = "not found" => Reads(old) = << >> \/ places = {}

----------------------------------------------------------------------------
(* Credentials.                                                            *)

Written(parses, scheme, port, host) ==
  [parses |-> parses, scheme |-> scheme, port |-> port, host |-> host]
Destinations ==
  {Written(FALSE, "unset", 0, "none")} \cup
  {Written(TRUE, scheme, port, host) : scheme \in {"unset", "https", "http", "other"},
     port \in {0, 443, 8443}, host \in {"api", "API", "LocalHost", "none"}}

AskCredential ==
  \E d \in Destinations, approved \in {{}} \cup {{a} : a \in Destinations},
     store \in Stores, environment \in Environments :
    /\ store = "value" \/ (d.scheme = "http" /\ d.host = "LocalHost")
    /\ Ask([about |-> "credential", to |-> d, approved |-> approved,
            store |-> store, environment |-> environment])

(* docs/SECURITY_MODEL.md: a credential goes only to an origin its user    *)
(* has approved, over https or to this machine, however either of them is  *)
(* written, and the host the law's send rules are asked about is that of   *)
(* the origin.  What is said to be present is what such a destination      *)
(* gets, and is said to be absent only by a store that could tell.         *)
CredentialsStayInScope ==
  Asked("credential") =>
    LET got      == GetScoped(question.store, question.environment, question.to, question.approved)
        to       == question.to
        presence == EntryPresence(question.store, question.environment)
        port(d)  == IF d.port # 0 THEN d.port ELSE IF Scheme(d) = "http" THEN 80 ELSE 443
    IN /\ got \in {"stored", "environment", "missing"} =>
            /\ Scheme(to) = "https" \/ (Scheme(to) = "http" /\ HostOf(to) = "localhost")
            /\ \E a \in question.approved :
                 /\ a.parses /\ to.parses /\ Scheme(a) = Scheme(to) /\ port(a) = port(to)
                 /\ HostOf(a) = HostOf(to) /\ HostOf(to) = ExactOrigin(to).origin.host
            /\ presence = "present" <=> got # "missing"
       /\ presence = "absent" => question.store = "none"

Secrets == Words({"a", "b"}, 0 .. 3)

AskScrub ==
  \E inserted \in [1 .. 2 -> Secrets], shown \in Secrets, around \in Words({"a", " "}, 0 .. 1) :
    Ask([about |-> "scrub", inserted |-> inserted, shown |-> shown, around |-> around])

(* No secret that was registered is left in a text, in whichever order the *)
(* secrets came; and where one stands for itself nothing of it is shown,   *)
(* not even when another is how it begins.                                 *)
SecretsAreNotShown ==
  Asked("scrub") =>
    LET known == ToSet(question.inserted) \ {<< >>}
        text  == question.around \o question.shown \o question.around
        left  == Scrub(question.inserted, text)
    IN /\ \A s \in known : ~\E i \in 1 .. Len(left) - Len(s) + 1 : SubSeq(left, i, i + Len(s) - 1) = s
       /\ question.shown \in known /\ question.around \in {<< >>, << " " >>} =>
            left = question.around \o << Redacted >> \o question.around

----------------------------------------------------------------------------
(* What a rule says is what is enforced, for paths, for commands and for   *)
(* where a credential may go or be seen.                                   *)
RulesMeanWhatTheySay ==
  GlobsMatchTheirMeaning /\ BlockedCommandsAreSeen /\ CredentialsStayInScope /\ SecretsAreNotShown

(* A repository can only tighten what its user has set.                    *)
RepositoriesOnlyTighten == LawOnlyTightens /\ ProfilesOnlyTighten

(* What was meant is what is done: on either wire, over MCP, with the      *)
(* arguments of a call and by an edit.                                     *)
ProtocolsAreFaithful ==
  EffortIsSent /\ WiresAgree /\ RequestsAreServed /\ RepairsKeepMeaning /\ EditsHitTheirTarget

(* A route is chosen, and its cost stated, for reasons that hold.          *)
MoneyIsHonest == RouteChoiceIsJustified /\ CostsAreHonest

PolicyNext ==
  /\ question = NoQuestion
  /\ AskSegment \/ AskGlob \/ AskLayers \/ AskCommand \/ AskEffort \/ AskAnswer
     \/ AskRoute \/ AskCost \/ AskProfile \/ AskRequest \/ AskCredential \/ AskScrub
     \/ AskArguments \/ AskEdit
=============================================================================
