------------------------------- MODULE Vault -------------------------------
(***************************************************************************)
(* The credentials of nh-vault: where one is found, to whom it may go, and *)
(* how those of a session are kept out of what is shown.                   *)
(***************************************************************************)
EXTENDS Integers, SequencesExt

----------------------------------------------------------------------------
(* Where a credential is found.                                            *)

\* What the key store of the system says of an entry, and what NH_<ENTRY>_KEY holds
Stores == {"value", "none", "fails"}
Environments == {"value", "empty", "unset"}

\* EnvFallbackVault::get
Get(store, environment) ==
  IF store = "value" THEN "stored" ELSE IF environment = "value" THEN "environment" ELSE "missing"

\* EnvFallbackVault::entry_presence
EntryPresence(store, environment) ==
  IF store = "value" \/ environment = "value" THEN "present"
  ELSE IF store = "none" THEN "absent" ELSE "unavailable"

----------------------------------------------------------------------------
(* To whom it may go.  A destination as it is written: a scheme and a port *)
(* that may be left out, and a host in any case; or what is no URL.        *)

KnownPort == [https |-> 443, http |-> 80, ftp |-> 21]
Lower == [api |-> "api", API |-> "api", localhost |-> "localhost", LocalHost |-> "localhost",
          none |-> "none"]
Loopback == {"localhost"}

Scheme(d) == IF d.scheme = "unset" THEN "https" ELSE d.scheme
HasHost(d) == d.parses /\ d.host # "none"

\* exact_origin: only a secure one is an origin
ExactOrigin(d) ==
  LET origin == [scheme |-> Scheme(d), host |-> Lower[d.host],
                 port |-> IF d.port = 0 THEN KnownPort[Scheme(d)] ELSE d.port]
      secure == origin.scheme = "https" \/ (origin.scheme = "http" /\ origin.host \in Loopback)
  IN IF ~HasHost(d) \/ (d.port = 0 /\ Scheme(d) \notin DOMAIN KnownPort) THEN [how |-> "unparseable"]
     ELSE [how |-> IF secure THEN "secure" ELSE "insecure", origin |-> origin]

\* host_of: what the law's [send] rules are about
HostOf(d) == IF HasHost(d) THEN Lower[d.host] ELSE "nobody"

MUT_AudienceOf(d) == LET o == ExactOrigin(d)
                     IN IF o.how = "secure" THEN [o EXCEPT !.origin.port = 443] ELSE o
\* The origin an entry of an audience, or a request, counts as
AudienceOf(d) == ExactOrigin(d)

AudienceAllows(d, approved) ==
  /\ AudienceOf(d).how = "secure"
  /\ \E a \in approved : AudienceOf(a).how = "secure" /\ AudienceOf(a).origin = AudienceOf(d).origin

\* get_scoped: a credential is not even looked up for a destination that may not have it
GetScoped(store, environment, d, approved) ==
  IF ExactOrigin(d).how = "insecure" THEN "insecure"
  ELSE IF ~AudienceAllows(d, approved) THEN "unapproved"
  ELSE Get(store, environment)

----------------------------------------------------------------------------
(* Secrets in what is shown: SecretRegistry and Scrubber.  A text is a     *)
(* sequence of letters, the marker one letter of its own.                  *)

Redacted == "[REDACTED]"

\* The literals a registry holds after inserting secrets in this order, longest first
MUT_Registered(inserted) == SelectSeq(inserted, LAMBDA s : s # << >>)
Registered(inserted) ==
  SetToSortSeq(ToSet(inserted) \ {<< >>}, LAMBDA s, t : Len(s) > Len(t))

\* str::replace: from the left, without overlaps
RECURSIVE Replaced(_, _)
Replaced(text, literal) ==
  IF Len(text) < Len(literal) THEN text
  ELSE IF SubSeq(text, 1, Len(literal)) = literal
       THEN << Redacted >> \o Replaced(SubSeq(text, Len(literal) + 1, Len(text)), literal)
       ELSE << Head(text) >> \o Replaced(Tail(text), literal)

Scrub(inserted, text) == FoldLeft(Replaced, text, Registered(inserted))
============================================================================
