------------------------------ MODULE Routes ------------------------------
(***************************************************************************)
(* Routes and money (nh-routes, nh-core cost): which catalogs are accepted,*)
(* which route a request goes to, what a turn costs, what a compaction     *)
(* does to the next one, and the execution profiles of a session.          *)
(*                                                                         *)
(* Route ids are integers, in the order of the catalog's keys.  Rates are  *)
(* small integers and costs are not divided by the million.                *)
(***************************************************************************)
EXTENDS Integers, FiniteSets, SequencesExt

NoPrice == [currency |-> "none"]
NoPeak  == [multiplier |-> 1, days |-> {}, windows |-> {}]
NoFx    == [rate |-> 0, fresh |-> FALSE]
NotParsed == [ok |-> FALSE]
Unknown == -1   \* Option::None where a number is expected

----------------------------------------------------------------------------
(* The catalog.                                                            *)

BannedExact    == {<< "deepseek-chat" >>, << "deepseek-reasoner" >>}
BannedPrefixes == {"mimo-v2-", "gpt-5.2", "gpt-5.3-codex", "moonshot-v1-"}
IsBanned(model) == model \in BannedExact \/ model[1] \in BannedPrefixes

(* parse_peak and parse_window: start before end, at least one of each *)
PeakParses(peak) ==
  /\ peak.multiplier > 0
  /\ peak.windows # {} /\ peak.days # {}
  /\ \A w \in peak.windows : w[1] < w[2]

PriceParses(price) ==
  /\ price.currency \in {"CNY", "USD"}
  /\ price.hit >= 0 /\ price.miss >= 0 /\ price.output >= 0
  /\ price.peak = NoPeak \/ PeakParses(price.peak)

\* validate_route_url: plain http only to this machine, and a local route only there
UrlAllowed(route) ==
  /\ route.scheme = "https" \/ (route.scheme = "http" /\ route.loopback)
  /\ route.class = "local" => route.loopback

RouteParses(route) ==
  /\ ~IsBanned(route.key) /\ ~IsBanned(route.model)
  /\ route.class \in {"api", "local", "delegate"}
  /\ UrlAllowed(route)
  /\ route.wire \in {"openai", "anthropic"}
  /\ route.class = "local" => route.wire = "openai"
  /\ route.modality # {} /\ route.modality \subseteq {"text", "image", "video", "audio"}
  /\ route.price = NoPrice \/ PriceParses(route.price)

MUT_OneCurrencyPerProvider(routes) == TRUE
(* validate_provider_currencies *)
OneCurrencyPerProvider(routes) ==
  \A a, b \in DOMAIN routes :
    /\ routes[a].provider = routes[b].provider
    /\ routes[a].price # NoPrice /\ routes[b].price # NoPrice
    => routes[a].price.currency = routes[b].price.currency

FromToml(routes) ==
  (\A id \in DOMAIN routes : RouteParses(routes[id])) /\ OneCurrencyPerProvider(routes)

----------------------------------------------------------------------------
(* Prices.                                                                 *)

PeakOffset == 8   \* Asia/Shanghai, the one timezone there is

LocalTime(at) == LET hours == at.hour + PeakOffset
                 IN [day |-> (at.day + hours \div 24) % 7, hour |-> hours % 24]
IsPeak(peak, at) ==
  LET local == LocalTime(at)
  IN local.day \in peak.days /\ \E w \in peak.windows : w[1] <= local.hour /\ local.hour < w[2]

Quote(price, factor, peak) ==
  [hit |-> price.hit * factor, miss |-> price.miss * factor, output |-> price.output * factor,
   currency |-> price.currency, peak |-> peak]

(* price_at, of a route with a price *)
PriceAt(route, at) ==
  IF IsPeak(route.price.peak, at) THEN Quote(route.price, route.price.peak.multiplier, TRUE)
  ELSE Quote(route.price, 1, FALSE)

(* peak_status: the chip of the cost display *)
PeakStatus(route, at) ==
  IF route.class = "local" THEN "local"
  ELSE IF route.price = NoPrice THEN "no price data"
  ELSE IF route.price.peak = NoPeak THEN "none"
  ELSE IF PriceAt(route, at).peak THEN "peak" ELSE "off-peak"

(* cost_of, for cached <= prompt *)
CostOf(quote, prompt, cached, output) ==
  cached * quote.hit + (prompt - cached) * quote.miss + output * quote.output

Larger(a, b)  == IF a > b THEN a ELSE b
Smaller(a, b) == IF a < b THEN a ELSE b

MUT_CacheSplitUpperBound(quote, prompt, output) == CostOf(quote, prompt, 0, output)
(* cache_split_cost_upper_bound *)
CacheSplitUpperBound(quote, prompt, output) ==
  Larger(CostOf(quote, prompt, 0, output), CostOf(quote, prompt, prompt, output))

\* to_usd_approx and usd_compare_key, in tenths; Unknown when the rate is not to be used
UsdKey(cost, currency, fx) ==
  IF currency = "USD" THEN 10 * cost ELSE IF fx.fresh THEN fx.rate * cost ELSE Unknown

(* naive_cost: the same turn without a cache, at the peak rate, and on the *)
(* route whose cache-miss rate is the highest in its currency.             *)
NaiveCost(routes, route, prompt, cached, output, at) ==
  LET quote  == PriceAt(route, at)
      dearer == {q \in {PriceAt(routes[id], at) :
                          id \in {i \in DOMAIN routes : routes[i].class = "api" /\ routes[i].price # NoPrice}} :
                   q.currency = quote.currency /\ q.miss > quote.miss}
      top    == IF dearer = {} THEN quote
                ELSE CHOOSE q \in dearer : \A r \in dearer : q.miss >= r.miss
  IN [noCache |-> CostOf(quote, prompt, 0, output),
      peak    |-> IF route.price.peak = NoPeak THEN Unknown
                  ELSE CostOf(Quote(route.price, route.price.peak.multiplier, TRUE), prompt, cached, output),
      topTier |-> CostOf(top, prompt, cached, output)]

\* saved_pct; Unknown is nothing to show
SavedPct(actual, noCache) ==
  IF noCache <= actual THEN Unknown
  ELSE Smaller(99, ((noCache - actual) * 200 + noCache) \div (2 * noCache))

----------------------------------------------------------------------------
(* What is said about money.                                               *)

NotStated(why) == [how |-> why]

(* turn_cost: usage as the wires report it, cached Unknown when the split is not *)
TurnCost(routes, route, usage, at) ==
  IF route.class = "local" THEN NotStated("local")
  ELSE IF usage.evidence # "measured" THEN NotStated(usage.evidence)
  ELSE IF route.price = NoPrice THEN NotStated("no price")
  ELSE IF usage.cached > usage.prompt THEN NotStated("invalid usage")
  ELSE LET quote == PriceAt(route, at) IN
    IF usage.cached = Unknown
    THEN [how    |-> "at most",
          amount |-> CacheSplitUpperBound(quote, usage.prompt, usage.completion)]
    ELSE LET actual == CostOf(quote, usage.prompt, usage.cached, usage.completion)
             naive  == NaiveCost(routes, route, usage.prompt, usage.cached, usage.completion, at)
         IN [how |-> "priced", amount |-> actual, naive |-> naive,
             saved |-> SavedPct(actual, naive.noCache)]

(* compaction_cost, of one event: what the next call saves on the elided   *)
(* tokens and pays again for those that stay.                              *)
CompactionCost(route, events, elided, cached, at) ==
  IF events # 1 THEN NotStated("aggregate")
  ELSE IF route.class = "local" THEN NotStated("local")
  ELSE IF cached = Unknown THEN NotStated("cache unknown")
  ELSE IF elided > cached THEN NotStated("cache too small")
  ELSE IF route.price = NoPrice THEN NotStated("no price")
  ELSE LET quote     == PriceAt(route, at)
           retained  == cached - elided
           saving    == CostOf(quote, elided, elided, 0)
           surcharge == CostOf(quote, retained, 0, 0) - CostOf(quote, retained, retained, 0)
       IN IF surcharge < 0 THEN NotStated("inverted")
          ELSE [how |-> "net", amount |-> saving - surcharge]

(* turn_cost_line_for_run: a run is priced at its end, and says so when it *)
(* began at the other rate.                                                *)
SpansPeak(route, usage, started, ended) ==
  /\ route.class # "local" /\ route.price # NoPrice
  /\ PriceAt(route, started).peak # PriceAt(route, ended).peak
  /\ usage.evidence = "measured" /\ usage.cached # Unknown /\ usage.cached <= usage.prompt

----------------------------------------------------------------------------
(* Choosing a route.                                                       *)

(* resolve *)
Resolve(routes, id) ==
  IF id \notin DOMAIN routes \/ IsBanned(routes[id].key) THEN NotParsed
  ELSE [ok |-> TRUE, id |-> id]

(* provider_default: the cheapest by off-peak output price, then by id *)
ProviderDefault(routes, provider) ==
  LET priced == {id \in DOMAIN routes : /\ routes[id].provider = provider
                                        /\ routes[id].class = "api"
                                        /\ routes[id].price # NoPrice}
      before(a, b) == \/ routes[a].price.output < routes[b].price.output
                      \/ routes[a].price.output = routes[b].price.output /\ a < b
  IN IF priced = {} THEN NotParsed
     ELSE [ok |-> TRUE, id |-> CHOOSE a \in priced : \A b \in priced \ {a} : before(a, b)]

\* Why resolve_capable skips a route before it compares prices
Rejection(routes, id, required) ==
  IF id \notin DOMAIN routes THEN "unknown route"
  ELSE IF routes[id].class # "api" THEN routes[id].class
  ELSE IF routes[id].context = Unknown /\ required > 0 THEN "unknown context"
  ELSE IF routes[id].context # Unknown /\ routes[id].context < required THEN "context"
  ELSE IF routes[id].price = NoPrice THEN "no price"
  ELSE "none"

ExpectedCost(routes, id, prompt, output, at) ==
  CostOf(PriceAt(routes[id], at), prompt, 0, output)

MUT_Rank(routes, id, cost, single, fx) == cost
\* What capable routes are compared by
Rank(routes, id, cost, single, fx) ==
  IF single THEN cost ELSE UsdKey(cost, routes[id].price.currency, fx)

(* resolve_capable *)
ResolveCapable(routes, fx, prompt, output, allowed, at) ==
  LET rejected == {id \in allowed : Rejection(routes, id, prompt + output) # "none"}
      capable  == allowed \ rejected
      single   == \A a, b \in capable : routes[a].price.currency = routes[b].price.currency
      rank(id) == Rank(routes, id, ExpectedCost(routes, id, prompt, output, at), single, fx)
      stale    == {id \in capable : rank(id) = Unknown}
      ordered  == SetToSortSeq(capable \ stale, LAMBDA a, b : \/ rank(a) < rank(b)
                                                              \/ rank(a) = rank(b) /\ a < b)
      skipped(ids) == SetToSortSeq(ids, LAMBDA a, b : a < b)
  IN IF ordered = << >> THEN NotParsed
     ELSE [ok |-> TRUE, id |-> ordered[1], trace |-> skipped(rejected) \o skipped(stale) \o Tail(ordered)]

----------------------------------------------------------------------------
(* Execution profiles.  Postures and caps are compared as numbers: NoCap   *)
(* is what a missing cap amounts to.                                       *)

NoCap == 1000
Postures == [floor |-> 0, default |-> 1, ceiling |-> 2]
SafeBalanced == [thinking |-> "default", cap |-> NoCap, offpeak |-> "unset"]

MUT_CapIsLooser(candidate, baseline) == candidate # NoCap /\ candidate > baseline
(* cap_is_looser *)
CapIsLooser(candidate, baseline) == candidate > baseline

Loosens(candidate, baseline) ==
  \/ Postures[candidate.thinking] > Postures[baseline.thinking]
  \/ CapIsLooser(candidate.cap, baseline.cap)
  \/ baseline.offpeak = "yes" /\ candidate.offpeak # "yes"

Clamp(candidate, baseline) ==
  [thinking |-> IF Postures[candidate.thinking] > Postures[baseline.thinking]
                THEN baseline.thinking ELSE candidate.thinking,
   cap      |-> IF CapIsLooser(candidate.cap, baseline.cap) THEN baseline.cap ELSE candidate.cap,
   offpeak  |-> IF baseline.offpeak = "yes" THEN "yes" ELSE candidate.offpeak]

(* compile: a user profile replaces a bundled one; a repository's replaces *)
(* it as far as it is as strict, and adds none.                            *)
CompileProfiles(bundled, user, repo) ==
  LET base == user @@ bundled
  IN [profiles |-> [name \in DOMAIN base |->
                      IF name \in DOMAIN repo THEN Clamp(repo[name], base[name]) ELSE base[name]],
      warned   |-> {name \in DOMAIN repo : name \notin DOMAIN base \/ Loosens(repo[name], base[name])}]

(* effective: an unknown name falls back to balanced *)
Effective(profiles, name, maxOut) ==
  LET used    == IF name \in DOMAIN profiles THEN name ELSE "balanced"
      profile == IF used \in DOMAIN profiles THEN profiles[used] ELSE SafeBalanced
  IN [profile |-> used, cap |-> Smaller(maxOut, profile.cap), thinking |-> profile.thinking,
      offpeak |-> profile.offpeak = "yes"]
=============================================================================
