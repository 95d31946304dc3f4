------------------------------ MODULE SecureDial ------------------------------
(***************************************************************************)
(* From a name to a connection: the DoH resolver (doh.go), the use of its  *)
(* HTTPS record (ech.go) and SecureDialer (dialer.go, tls.go) of           *)
(* internal/securetransport.  The client dials the relay with all of it;   *)
(* the relay only looks a destination's addresses up.                      *)
(*                                                                         *)
(* The resolver may answer anything that decodes.  Names are canonical,    *)
(* and "" is the root; the order of records in an answer is of no          *)
(* consequence, so an answer is a set of records.                          *)
(***************************************************************************)
EXTENDS Naturals, Sequences, FiniteSets, Addresses

CONSTANTS
  Names, hostname,       \* the names that may occur, and the one asked for
  aliasHops,             \* aliasHopLimit
  HTTPSAnswers(_),       \* the answers to the HTTPS query for a name
  AddressAnswers(_, _)   \* the answers to the A or AAAA query for a name

ASSUME HopsAssumption == aliasHops \in Nat \ {0}

ASSUME HostAssumption == hostname \in Names \ {""}

\* What the parser makes of an answer: finitely many records, whose fields have
\* these types.
Config  == [kind : {"supported", "unknown", "truncated"}, public : STRING, algorithms : BOOLEAN]
Addr    == [order : Nat, valid : BOOLEAN, zone : BOOLEAN, mapped : BOOLEAN, traits : SUBSET Traits]
httpsRecord == [rtype : {"CNAME", "HTTPS", "A", "AAAA"}, name : Names \cup {""}, in : BOOLEAN, priority : Nat,
                target : Names \cup {""}, list : Seq(Config)]

ASSUME AnswersAssumption ==
  \A n \in Names :
    /\ \A answer \in HTTPSAnswers(n) : answer \subseteq httpsRecord
    /\ \A qtype \in {"A", "AAAA"} : \A answer \in AddressAnswers(n, qtype) :
         /\ IsFiniteSet(answer)
         /\ \A r \in answer :
              /\ r.name \in Names \cup {""} /\ r.target \in Names \cup {""}
              /\ r.rtype \in {"A", "AAAA"} => r.address \in Addr

VARIABLES
  purpose,    \* "dial" or "lookup"
  ech,        \* the mode
  pc,
  name, depth, seen,     \* where an alias chain has got to
  record,     \* the HTTPS record that was selected
  addresses, aliases,    \* what resolveAddresses has collected
  received,   \* every record the resolver has sent
  queries,    \* how many queries were made
  endpoints,  \* the addresses that are still to be tried
  tried,      \* those that were dialled
  raw,        \* the TCP connection: "none", "open", "closed"
  exposed,    \* the names sent in the clear
  accepted,   \* the handshake has used ECH
  reason      \* FailureReason

chainVars   == <<name, depth, seen>>
answerVars  == <<record, addresses, aliases, received, queries>>
connectVars == <<endpoints, tried, raw, exposed, accepted>>
vars == <<purpose, ech, pc, chainVars, answerVars, connectVars, reason>>

NoRecord == [rtype |-> "none", name |-> "", in |-> TRUE, priority |-> 0, target |-> "", list |-> <<>>]

echRequired == ech # "insecure-disabled"

Init ==
  /\ purpose \in {"dial", "lookup"}
  /\ ech \in {"required", "unset", "insecure-disabled"}
  /\ pc = IF purpose = "dial" THEN "HTTPS" ELSE "A"
  /\ name = hostname /\ depth = 0 /\ seen = {}
  /\ record = NoRecord
  /\ addresses = {} /\ aliases = {} /\ received = {} /\ queries = 0
  /\ endpoints = <<>> /\ tried = {} /\ raw = "none"
  /\ exposed = {} /\ accepted = FALSE
  /\ reason = "none"

Fail(why) == pc' = "failed" /\ reason' = why

-----------------------------------------------------------------------------
(***************************************************************************)
(* One query.                                                              *)
(***************************************************************************)

\* Whatever is wrong with an exchange ends the attempt.
Defects == {"unreachable", "redirect", "status", "media-type", "size", "malformed", "id",
            "not-a-response", "truncated", "rcode", "question"}

queryReason(defect) == IF defect = "redirect" THEN "redirect" ELSE "doh"

QueryFails ==
  /\ pc \in {"HTTPS", "A", "AAAA"}
  /\ \E defect \in Defects : Fail(queryReason(defect))
  /\ UNCHANGED <<purpose, ech, chainVars, answerVars, connectVars>>

\* Mutant: the depth is not passed on.
TooLongIfSeen(host, hops, visited) == host \in visited

TooLong(host, hops, visited) == hops >= aliasHops \/ host \in visited

ChainTooLong ==
  /\ pc \in {"HTTPS", "A"} /\ TooLong(name, depth, seen)
  /\ Fail(IF pc = "HTTPS" THEN "https-record" ELSE "doh")
  /\ UNCHANGED <<purpose, ech, chainVars, answerVars, connectVars>>

Receive(answer) == received' = received \cup answer /\ queries' = queries + 1

\* The chain goes on at an alias, or starts again at a name.
Follow(alias) == name' = alias /\ depth' = depth + 1 /\ seen' = seen \cup {name}

StartAt(target) == name' = target /\ depth' = 0 /\ seen' = {}

-----------------------------------------------------------------------------
(***************************************************************************)
(* resolveHTTPS.                                                           *)
(***************************************************************************)

alias(r) == r.rtype = "CNAME" \/ (r.rtype = "HTTPS" /\ r.priority = 0)

Aliases(answer) == {r.target : r \in {s \in answer : alias(s)}}

\* A service record without a target is its owner's.
Services(answer) ==
  {IF r.target = "" THEN [r EXCEPT !.target = name] ELSE r :
     r \in {s \in answer : s.rtype = "HTTPS" /\ ~alias(s)}}

Preferred(services) == {r \in services : \A other \in services : r.priority <= other.priority}

OnTopic(r) == r.in /\ r.name = name /\ r.rtype \in {"CNAME", "HTTPS"}

resolveHTTPS ==
  /\ pc = "HTTPS" /\ ~TooLong(name, depth, seen)
  /\ \E answer \in HTTPSAnswers(name) :
       LET best == Preferred(Services(answer))
           names == Aliases(answer)
       IN
       /\ Receive(answer)
       /\ \/ /\ \/ \E r \in answer : ~OnTopic(r)
                \/ best = {} /\ (Cardinality(names) > 1 \/ "" \in names)
                \/ Cardinality({<<r.target, r.list>> : r \in best}) > 1
             /\ Fail("https-record")
             /\ UNCHANGED <<chainVars, record>>
          \/ /\ \A r \in answer : OnTopic(r)
             /\ best = {} /\ names = {}
             /\ pc' = "A" /\ StartAt(hostname)
             /\ UNCHANGED <<record, reason>>
          \/ /\ \A r \in answer : OnTopic(r)
             /\ best = {} /\ Cardinality(names) = 1 /\ "" \notin names
             /\ \E next \in names : Follow(next)
             /\ UNCHANGED <<pc, record, reason>>
          \/ /\ \A r \in answer : OnTopic(r)
             /\ Cardinality({<<r.target, r.list>> : r \in best}) = 1
             /\ record' \in best
             /\ pc' = "A" /\ StartAt(record'.target)
             /\ UNCHANGED reason
  /\ UNCHANGED <<purpose, ech, addresses, aliases, connectVars>>

-----------------------------------------------------------------------------
(***************************************************************************)
(* resolveAddresses.                                                       *)
(***************************************************************************)

\* The names an answer may speak for: those its CNAME records lead to.  A name
\* with two targets, a cycle or the root as a target make it invalid; after
\* aliasHops names the walk simply ends.
CNAMEs(answer) == {r \in answer : r.rtype = "CNAME"}

Targets(answer, n) == {r.target : r \in {s \in CNAMEs(answer) : s.name = n}}

FollowOne(answer, before) ==
  IF ~before.valid \/ Targets(answer, before.last) = {} THEN before
  ELSE LET target == CHOOSE t \in Targets(answer, before.last) : TRUE IN
       [valid |-> target # "" /\ target \notin before.names,
        names |-> before.names \cup {target}, last |-> target]

followCNAMEs(answer, host) ==
  LET walk[hop \in 0..aliasHops] ==
        IF hop = 0 THEN [valid |-> TRUE, names |-> {host}, last |-> host]
        ELSE FollowOne(answer, walk[hop - 1])
  IN  [walk[aliasHops] EXCEPT
         !.valid = @ /\ \A r, s \in CNAMEs(answer) : r.name = s.name => r.target = s.target]

\* Mutant: an address is taken whatever name it is for.
AcceptableForAnyName(r, qtype, names) == r.in /\ r.rtype \in {qtype, "CNAME"}

Acceptable(r, qtype, names) == r.in /\ r.name \in names /\ r.rtype \in {qtype, "CNAME"}

Collected(qtype, answer) == addresses \cup {r.address : r \in {s \in answer : s.rtype = qtype}}

\* Both answers are in: go on with them, at an alias, or not at all.
Conclude(found, others) ==
  \/ /\ found # {}
     /\ pc' = IF purpose = "dial" THEN "check" ELSE "resolved"
     /\ UNCHANGED <<chainVars, reason>>
     /\ addresses' = found /\ aliases' = others
  \/ /\ found = {} /\ Cardinality(others) = 1
     /\ pc' = "A" /\ \E next \in others : Follow(next)
     /\ addresses' = {} /\ aliases' = {}
     /\ UNCHANGED reason
  \/ /\ found = {} /\ Cardinality(others) # 1
     /\ Fail("doh")
     /\ UNCHANGED <<chainVars, addresses, aliases>>

resolveAddresses(qtype) ==
  /\ pc = qtype /\ (qtype = "A" => ~TooLong(name, depth, seen))
  /\ \E answer \in AddressAnswers(name, qtype) :
       LET chain == followCNAMEs(answer, name)
           valid == chain.valid /\ \A r \in answer : Acceptable(r, qtype, chain.names)
           others == aliases \cup (chain.names \ {name})
       IN
       /\ Receive(answer)
       /\ \/ ~valid /\ Fail("doh") /\ UNCHANGED <<chainVars, addresses, aliases>>
          \/ /\ valid /\ qtype = "A"
             /\ pc' = "AAAA"
             /\ addresses' = Collected(qtype, answer) /\ aliases' = others
             /\ UNCHANGED <<chainVars, reason>>
          \/ valid /\ qtype = "AAAA" /\ Conclude(Collected(qtype, answer), others)
  /\ UNCHANGED <<purpose, ech, record, connectVars>>

\* Sorted and without duplicates.
compactAddresses(set) ==
  CHOOSE list \in [1..Cardinality(set) -> set] :
    /\ {list[i] : i \in 1..Cardinality(set)} = set
    /\ \A i, j \in 1..Cardinality(set) : i < j => list[i].order <= list[j].order

-----------------------------------------------------------------------------
(***************************************************************************)
(* DialPort and connectAll.  A list is a sequence of configurations, each  *)
(* "supported" (with the public name it puts into the outer SNI, and       *)
(* whether crypto/tls has its algorithms), "unknown" or "truncated".       *)
(***************************************************************************)

Truncated(list) == \E i \in DOMAIN list : list[i].kind = "truncated"

Supported(list) == {i \in DOMAIN list : list[i].kind = "supported"}

\* Mutant: only the first supported configuration is looked at.
validateFirstECHConfig(list, serverName) ==
  /\ ~Truncated(list)
  /\ \E i \in Supported(list) : list[i].public # serverName /\ \A k \in Supported(list) : i <= k

validateECHConfigList(list, serverName) ==
  /\ ~Truncated(list)
  /\ Supported(list) # {}
  /\ \A i \in Supported(list) : list[i].public # serverName

\* The public name of the first supported configuration in front of a broken one.
echPublicName(list) ==
  LET usable == {i \in Supported(list) : \A k \in 1..i : list[k].kind # "truncated"}
  IN  IF usable = {} THEN "" ELSE list[CHOOSE i \in usable : \A k \in usable : i <= k].public

\* Why DialPort does not get to the dial.
Refusal ==
  IF echRequired /\ record = NoRecord THEN "https-record"
  ELSE IF echRequired /\ (record.list = <<>> \/ ~validateECHConfigList(record.list, hostname))
    THEN "ech-unavailable"
  ELSE IF CheckAddresses(compactAddresses(addresses)) # "none" THEN "address-rejected"
  ELSE "none"

DialPort ==
  /\ pc = "check"
  /\ IF Refusal # "none" THEN Fail(Refusal) /\ UNCHANGED endpoints
     ELSE /\ pc' = "connect" /\ endpoints' = compactAddresses(addresses)
          /\ UNCHANGED reason
  /\ UNCHANGED <<purpose, ech, chainVars, answerVars, tried, raw, exposed, accepted>>

\* An address that cannot be reached is passed over.
Connect ==
  /\ pc = "connect" /\ endpoints # <<>>
  /\ endpoints' = Tail(endpoints)
  /\ tried' = tried \cup {Head(endpoints)}
  /\ \/ raw' = "open" /\ pc' = "handshake"
     \/ UNCHANGED <<raw, pc>>
  /\ UNCHANGED <<purpose, ech, chainVars, answerVars, exposed, accepted, reason>>

NothingConnects ==
  /\ pc = "connect" /\ endpoints = <<>>
  /\ Fail("handshake")
  /\ UNCHANGED <<purpose, ech, chainVars, answerVars, connectVars>>

\* The configurations crypto/tls may choose; it refuses a list it cannot parse.
UsableConfigs ==
  IF Truncated(record.list) THEN {}
  ELSE {record.list[i] : i \in {k \in Supported(record.list) : record.list[k].algorithms}}

\* The outer SNI of the ClientHello, none if there is no ClientHello.
OuterNames == IF record.list = <<>> THEN {hostname} ELSE {config.public : config \in UsableConfigs}

verifyTransport(echAccepted) ==
  IF echRequired /\ ~echAccepted THEN "ech-rejected"
  ELSE IF echRequired /\ echPublicName(record.list) \in {"", hostname} THEN "ech-unavailable"
  ELSE "none"

classifyHandshakeError(error) ==
  CASE error = "ECHRejectionError" -> "ech-rejected"
    [] error = "certificate" -> "certificate"
    [] OTHER -> "handshake"

\* The handshake succeeds.  With a list, crypto/tls completes it only if the
\* server has accepted ECH.
HandshakeCompletes ==
  /\ pc = "handshake"
  /\ \E sni \in OuterNames : exposed' = exposed \cup {sni}
  /\ accepted' = (record.list # <<>>)
  /\ IF verifyTransport(accepted') = "none"
       THEN pc' = "connected" /\ UNCHANGED <<raw, reason>>
       ELSE Fail(verifyTransport(accepted')) /\ raw' = "closed"
  /\ UNCHANGED <<purpose, ech, chainVars, answerVars, endpoints, tried>>

\* Mutant: the next address is tried, as after a failed dial.
HandshakeFailsOver ==
  /\ pc = "handshake"
  /\ \E sni \in OuterNames : exposed' = exposed \cup {sni}
  /\ raw' = "closed" /\ pc' = "connect"
  /\ UNCHANGED <<purpose, ech, chainVars, answerVars, endpoints, tried, accepted, reason>>

\* It fails, which is the end of the attempt: no other address, no retry
\* configuration.
HandshakeFails ==
  /\ pc = "handshake"
  /\ \/ /\ \E sni \in OuterNames : exposed' = exposed \cup {sni}
        /\ \E error \in {"certificate", "other"} \cup (IF record.list = <<>> THEN {} ELSE {"ECHRejectionError"}) :
             Fail(classifyHandshakeError(error))
     \/ Fail("handshake") /\ UNCHANGED exposed
  /\ raw' = "closed"
  /\ UNCHANGED <<purpose, ech, chainVars, answerVars, endpoints, tried, accepted>>

-----------------------------------------------------------------------------

Resolving ==
  QueryFails \/ ChainTooLong \/ resolveHTTPS \/ resolveAddresses("A") \/ resolveAddresses("AAAA")

Dialling == DialPort \/ Connect \/ NothingConnects \/ HandshakeCompletes \/ HandshakeFails

Next == Resolving \/ Dialling

Spec == Init /\ [][Next]_vars

\* Queries, dials and handshakes all have timeouts.
FairSpec == Spec /\ WF_vars(Next)

-----------------------------------------------------------------------------
(***************************************************************************)
(* Properties.                                                             *)
(***************************************************************************)

\* A name belongs to the one that was asked for if every set that has it and
\* that the aliases and service targets received do not leave contains it.
Reached(n) ==
  \A closed \in SUBSET (Names \cup {""}) :
    /\ hostname \in closed
    /\ \A r \in received :
         r.name \in closed /\ r.rtype \in {"CNAME", "HTTPS"} => r.target \in closed \cup {""}
    => n \in closed

AddressRecords == {r \in received : r.rtype \in {"A", "AAAA"}}

\* An address is used only if the resolver has given it for the name that was
\* asked about or one that name's aliases lead to, at any distance; and one is
\* dialled only if every address that came with it is public.
AddressesAreTraced ==
  /\ pc = "resolved" \/ tried # {} =>
       \A a \in addresses : \E r \in AddressRecords : r.address = a /\ Reached(r.name)
  /\ tried \subseteq addresses
  /\ tried # {} => \A r \in AddressRecords : r.address.traits = {"global"}

\* With ECH required the relay's name never leaves in the clear, not even in an
\* attempt that fails.  In any mode a connection whose record has a list uses it,
\* and the list comes with a record of a name the relay's own leads to.
NameIsConcealed ==
  /\ echRequired => hostname \notin exposed
  /\ pc = "connected" =>
       /\ accepted = (record.list # <<>>)
       /\ record # NoRecord => Reached(record.name)

\* A handshake that has failed is final: its connection is closed, and no other
\* address is dialled.
FailuresAreFinal ==
  /\ [](pc = "failed" => raw # "open")
  /\ [][raw # "none" => tried' = tried]_vars

\* A hop of the HTTPS chain costs one query, a hop of the address chain two.
QueriesAreBounded == queries <= 3 * aliasHops

\* Whatever the resolver answers, an attempt ends after a bounded number of
\* queries: alias chains that loop or never stop are given up.
AttemptEnds == <>(pc \in {"resolved", "connected", "failed"} /\ QueriesAreBounded)
=============================================================================
