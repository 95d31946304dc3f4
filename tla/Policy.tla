-------------------------------- MODULE Policy --------------------------------
(***************************************************************************)
(* internal/policy: which destinations may be reached.                     *)
(*                                                                         *)
(* A name is a sequence of characters, because what can go wrong is at the *)
(* boundary of two labels.  The alphabet is tiny: "A" is the upper-case    *)
(* form of "a".  An authority has its parts split: the host, the port (0:  *)
(* not a usable decimal), and how the two are put together.                *)
(***************************************************************************)
EXTENDS Naturals, Sequences, SequencesExt, Addresses

CONSTANTS AddressTexts,        \* texts netip.ParseAddr accepts
          maxHostnameLength,   \* 253
          maxLabelLength       \* 63

AllowedPort == 443

-----------------------------------------------------------------------------
(***************************************************************************)
(* Names and destinations.                                                 *)
(***************************************************************************)

NoDestination == [host |-> <<>>, port |-> 0]

LabelCharacters == {"a", "b", "0", "-", "_"}

\* "?" stands for the characters the code has no rule for.
Characters == LabelCharacters \cup {"A", ".", "*", "?"}

ToLower(text) == [i \in DOMAIN text |-> IF text[i] = "A" THEN "a" ELSE text[i]]

\* strings.Split(name, ".").
Labels(name) ==
  LET cuts == {0, Len(name) + 1} \cup {i \in DOMAIN name : name[i] = "."}
  IN  {SubSeq(name, cut[1] + 1, cut[2] - 1) :
         cut \in {c \in cuts \X cuts : c[1] < c[2] /\ \A k \in cuts : k <= c[1] \/ k >= c[2]}}

validateLabel(label) ==
  /\ label # <<>> /\ Len(label) <= maxLabelLength
  /\ Head(label) # "-" /\ Last(label) # "-"
  /\ ToSet(label) \subseteq LabelCharacters

\* strings.TrimSuffix(name, ".").
WithoutDot(name) == IF name # <<>> /\ Last(name) = "." THEN Front(name) ELSE name

\* The canonical name, or the reason to deny it.
canonicalHostname(raw) ==
  LET host == WithoutDot(raw)
      refused(reason) == [name |-> <<>>, deny |-> reason]
  IN  IF host = <<>> \/ Len(host) > maxHostnameLength \/ "*" \in ToSet(host)
        THEN refused("malformed-authority")
      ELSE IF host \in AddressTexts THEN refused("ip-literal")
      ELSE IF \E label \in Labels(ToLower(host)) : ~validateLabel(label)
        THEN refused("malformed-authority")
      ELSE [name |-> ToLower(host), deny |-> "none"]

NewDestination(host, port) ==
  LET canonical == canonicalHostname(host)
      refused(reason) == [destination |-> NoDestination, deny |-> reason]
  IN  IF canonical.deny # "none" THEN refused(canonical.deny)
      ELSE IF port # AllowedPort THEN refused("port-not-allowed")
      ELSE [destination |-> [host |-> canonical.name, port |-> port], deny |-> "none"]

\* form: "plain" is host:port, "brackets" is [host]:port, "bare" has no port,
\* "spaced" is surrounded by white space.
ParseAuthority(raw) ==
  LET refused(reason) == [destination |-> NoDestination, deny |-> reason]
  IN  CASE raw.form = "spaced" \/ raw.host = <<>> -> refused("malformed-authority")
        [] raw.form \in {"bare", "brackets"} ->
             refused(IF raw.host \in AddressTexts THEN "ip-literal" ELSE "malformed-authority")
        [] raw.form = "plain" ->
             IF raw.port = 0 THEN refused("malformed-authority")
             ELSE NewDestination(raw.host, raw.port)

-----------------------------------------------------------------------------
(***************************************************************************)
(* Allowlists.                                                             *)
(***************************************************************************)

\* ParseHostPattern; kind is "invalid" for an entry that is refused.
ParseHostPattern(entry) ==
  LET wildcard == Len(entry) >= 2 /\ SubSeq(entry, 1, 2) = <<"*", ".">>
      canonical == canonicalHostname(IF wildcard THEN SubSeq(entry, 3, Len(entry)) ELSE entry)
  IN  IF canonical.deny # "none" \/ (wildcard /\ "." \notin ToSet(canonical.name))
        THEN [kind |-> "invalid", host |-> <<>>]
        ELSE [kind |-> IF wildcard THEN "wildcard" ELSE "exact", host |-> canonical.name]

\* One invalid entry makes the whole list invalid.  A pattern is not repeated,
\* and nothing depends on the order.
ParseAllowlist(entries) ==
  LET parsed == {ParseHostPattern(entries[i]) : i \in DOMAIN entries}
  IN  IF \E pattern \in parsed : pattern.kind = "invalid"
        THEN [valid |-> FALSE, all |-> FALSE, patterns |-> {}]
        ELSE [valid |-> TRUE, all |-> FALSE, patterns |-> parsed]

AllowAll == [valid |-> TRUE, all |-> TRUE, patterns |-> {}]

\* Mutant: the character in front of the suffix is not looked at.
matchesAnySuffix(pattern, host) ==
  /\ host # <<>>
  /\ \/ pattern.kind = "exact" /\ host = pattern.host
     \/ /\ pattern.kind = "wildcard"
        /\ Len(host) > Len(pattern.host) + 1
        /\ IsSuffix(pattern.host, host)

matches(pattern, host) ==
  /\ host # <<>>
  /\ \/ pattern.kind = "exact" /\ host = pattern.host
     \/ /\ pattern.kind = "wildcard"
        /\ Len(host) > Len(pattern.host) + 1
        /\ IsSuffix(pattern.host, host)
        /\ host[Len(host) - Len(pattern.host)] = "."

\* A decision is "none" or the reason of a refusal.
Permits(list, destination) ==
  IF destination.host = <<>> THEN "malformed-authority"
  ELSE IF destination.port # AllowedPort THEN "port-not-allowed"
  ELSE IF list.all \/ \E p \in list.patterns : matches(p, destination.host) THEN "none"
  ELSE "not-allowlisted"

-----------------------------------------------------------------------------
(***************************************************************************)
(* Checker.  A lookup has an err, which stands for LookupAddresses failing *)
(* and for a checker without a resolver, and addresses.                    *)
(***************************************************************************)

CheckAuthority(list, raw) ==
  LET parsed == ParseAuthority(raw)
  IN  IF parsed.deny # "none" THEN parsed
      ELSE [parsed EXCEPT !.deny = Permits(list, parsed.destination)]

Resolve(list, destination, lookup) ==
  IF Permits(list, destination) # "none" THEN Permits(list, destination)
  ELSE IF lookup.err THEN "resolution-failed"
  ELSE CheckAddresses(lookup.addresses)
=============================================================================
