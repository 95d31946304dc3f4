--------------------------- MODULE SecureDialProofs ---------------------------
(***************************************************************************)
(* Proofs about SecureDial, for every resolver: whatever it answers.       *)
(*                                                                         *)
(* First what the operators return: the walk along the CNAME records of    *)
(* an answer, which the program does in a loop, the list of the collected  *)
(* addresses, and the check of it.  The walk and the list are defined by   *)
(* recursion and by CHOOSE, so that each needs an induction; the induction *)
(* is the least number principle.  Then an invariant of the attempt, and   *)
(* the properties that follow from it.                                     *)
(***************************************************************************)
EXTENDS SecureDial, FiniteSetTheorems, WellFoundedInduction, TLAPS

-----------------------------------------------------------------------------
(***************************************************************************)
(* Induction: a set of numbers that is not empty has a least one.          *)
(***************************************************************************)

LEMMA LessIsWellFounded ==
  \E R : IsWellFoundedOn(R, Nat) /\ \A m, n \in Nat : m < n => <<m, n>> \in R
<1> DEFINE R == OpToRel(<, Nat)
<1>1. \A m, n \in Nat : m < n => <<m, n>> \in R
  BY DEF OpToRel
<1>2. IsWellFoundedOn(R, Nat)
  BY NatLessThanWellFounded
<1> HIDE DEF R
<1> QED
  BY <1>1, <1>2, Zenon

LEMMA LeastNumber ==
  ASSUME NEW S, S \subseteq Nat, S # {}
  PROVE  \E m \in S : \A n \in S : m <= n
<1>1. PICK R : IsWellFoundedOn(R, Nat) /\ \A m, n \in Nat : m < n => <<m, n>> \in R
  BY LessIsWellFounded
<1>2. IsWellFoundedOn(R, Nat)
  BY <1>1
<1>3. \E m \in S : \A n \in S : ~(<<n, m>> \in R)
  BY <1>2, WFMin, Zenon
<1>4. PICK m \in S : \A n \in S : ~(<<n, m>> \in R)
  BY <1>3
<1>5. \A n \in S : ~(n < m)
  BY <1>1, <1>4, Zenon
<1> QED
  BY <1>5

LEMMA UpTo ==
  ASSUME NEW n \in Nat, NEW S, 0 \in S, \A m \in 0..n : m # 0 /\ m - 1 \in S => m \in S
  PROVE  0..n \subseteq S
<1> DEFINE Missing == (0..n) \ S
<1>1. SUFFICES ASSUME Missing # {} PROVE FALSE
  OBVIOUS
<1>2. PICK m \in Missing : \A k \in Missing : m <= k
  <2>1. Missing \subseteq Nat
    OBVIOUS
  <2> HIDE DEF Missing
  <2> QED
    BY <1>1, <2>1, LeastNumber
<1>3. m # 0 /\ m - 1 \in 0..n /\ m - 1 \notin Missing
  BY <1>2
<1> QED
  BY <1>2, <1>3

-----------------------------------------------------------------------------
(***************************************************************************)
(* followCNAMEs: the loop is a function of the number of hops, and a name  *)
(* it leads to is in every set that has the first one and that the records *)
(* do not leave.                                                           *)
(***************************************************************************)

LEMMA Hops == aliasHops \in Nat /\ 0 \in 0..aliasHops /\ aliasHops \in 0..aliasHops
  BY HopsAssumption

Start(host) == [valid |-> TRUE, names |-> {host}, last |-> host]

WalkTo(answer, host, w, limit) ==
  w = [hop \in 0..limit |-> IF hop = 0 THEN Start(host) ELSE FollowOne(answer, w[hop - 1])]

Walk(answer, host) ==
  CHOOSE walk : walk = [hop \in 0..aliasHops |-> IF hop = 0 THEN [valid |-> TRUE, names |-> {host}, last |-> host]
                                                 ELSE FollowOne(answer, walk[hop - 1])]

LEMMA WalkExtends ==
  ASSUME NEW answer, NEW host, NEW n \in Nat, n # 0, NEW v, WalkTo(answer, host, v, n - 1)
  PROVE  \E w : WalkTo(answer, host, w, n)
<1> DEFINE w == [hop \in 0..n |-> IF hop = 0 THEN Start(host) ELSE FollowOne(answer, v[hop - 1])]
<1>1. \A hop \in 0..(n - 1) : v[hop] = IF hop = 0 THEN Start(host) ELSE FollowOne(answer, v[hop - 1])
  <2>1. v = [hop \in 0..(n - 1) |-> IF hop = 0 THEN Start(host) ELSE FollowOne(answer, v[hop - 1])]
    BY DEF WalkTo
  <2> QED
    BY <2>1
<1>2. \A hop \in 0..(n - 1) : hop \in 0..n
  OBVIOUS
<1>3. \A hop \in 0..n : w[hop] = IF hop = 0 THEN Start(host) ELSE FollowOne(answer, v[hop - 1])
  OBVIOUS
<1>4. \A hop \in 0..(n - 1) : w[hop] = v[hop]
  BY <1>1, <1>2, <1>3, Zenon
<1>5. \A hop \in 0..n : hop # 0 => hop - 1 \in 0..(n - 1)
  OBVIOUS
<1>6. \A hop \in 0..n : hop # 0 => w[hop - 1] = v[hop - 1]
  BY <1>4, <1>5, Zenon
<1>7. w = [hop \in 0..n |-> IF hop = 0 THEN Start(host) ELSE FollowOne(answer, w[hop - 1])]
  BY <1>6
<1> QED
  BY <1>7 DEF WalkTo

LEMMA WalksExist ==
  ASSUME NEW answer, NEW host
  PROVE  \A n \in Nat : \E w : WalkTo(answer, host, w, n)
<1> DEFINE Lengths == {n \in Nat : \E w : WalkTo(answer, host, w, n)}
<1>1. 0 \in Lengths
  <2> DEFINE w == [hop \in 0..0 |-> Start(host)]
  <2>1. w = [hop \in 0..0 |-> IF hop = 0 THEN Start(host) ELSE FollowOne(answer, w[hop - 1])]
    OBVIOUS
  <2>2. WalkTo(answer, host, w, 0)
    BY <2>1 DEF WalkTo
  <2> QED
    BY <2>2, 0 \in Nat
<1>2. \A n \in Nat : n # 0 /\ n - 1 \in Lengths => n \in Lengths
  BY WalkExtends
<1> HIDE DEF Lengths
<1>3. \A n \in Nat : 0..n \subseteq Lengths
  <2>1. TAKE n \in Nat
  <2>2. \A m \in 0..n : m # 0 /\ m - 1 \in Lengths => m \in Lengths
    BY <1>2
  <2> QED
    BY <1>1, <2>2, UpTo
<1>4. \A n \in Nat : n \in Lengths
  BY <1>3
<1> QED
  BY <1>4 DEF Lengths

LEMMA WalkIsDefined ==
  ASSUME NEW answer, NEW host
  PROVE  /\ Walk(answer, host)[0] = Start(host)
         /\ \A hop \in 0..aliasHops : hop # 0 =>
              Walk(answer, host)[hop] = FollowOne(answer, Walk(answer, host)[hop - 1])
<1> DEFINE w == Walk(answer, host)
<1>1. PICK v : v = [hop \in 0..aliasHops |-> IF hop = 0 THEN [valid |-> TRUE, names |-> {host}, last |-> host]
                                             ELSE FollowOne(answer, v[hop - 1])]
  <2>1. PICK v : WalkTo(answer, host, v, aliasHops)
    BY WalksExist, HopsAssumption
  <2> QED
    BY <2>1, Zenon DEF WalkTo, Start
<1>2. w = [hop \in 0..aliasHops |-> IF hop = 0 THEN [valid |-> TRUE, names |-> {host}, last |-> host]
                                    ELSE FollowOne(answer, w[hop - 1])]
  BY <1>1, Zenon DEF Walk
<1> HIDE DEF w
<1>3. 0 \in 0..aliasHops
  BY HopsAssumption
<1>4. w[0] = Start(host)
  BY <1>2, <1>3 DEF Start
<1>5. \A hop \in 0..aliasHops : hop # 0 => w[hop] = FollowOne(answer, w[hop - 1])
  BY <1>2
<1> QED
  BY <1>4, <1>5 DEF w

\* A set the records do not leave.
ClosedUnder(closed, records) ==
  \A r \in records : r.name \in closed /\ r.rtype \in {"CNAME", "HTTPS"} => r.target \in closed \cup {""}

Chain == [valid : BOOLEAN, names : SUBSET (Names \cup {""}), last : Names \cup {""}]

Inside(chain, closed) == chain.valid => chain.names \subseteq closed \ {""} /\ chain.last \in closed

TypedNames(answer) == \A r \in answer : r.name \in Names \cup {""} /\ r.target \in Names \cup {""}

LEMMA FollowOneStays ==
  ASSUME NEW answer, TypedNames(answer), NEW closed, ClosedUnder(closed, answer),
         NEW before \in Chain, Inside(before, closed)
  PROVE  FollowOne(answer, before) \in Chain /\ Inside(FollowOne(answer, before), closed)
<1> DEFINE target == CHOOSE t \in Targets(answer, before.last) : TRUE
           after  == [valid |-> target # "" /\ target \notin before.names,
                      names |-> before.names \cup {target}, last |-> target]
<1>1. CASE ~before.valid \/ Targets(answer, before.last) = {}
  BY <1>1 DEF FollowOne
<1>2. CASE before.valid /\ Targets(answer, before.last) # {}
  <2>1. target \in Targets(answer, before.last)
    BY <1>2
  <2>2. PICK r \in answer : r.rtype = "CNAME" /\ r.name = before.last /\ target = r.target
    BY <2>1 DEF Targets, CNAMEs
  <2> HIDE DEF target
  <2>3. target \in Names \cup {""} /\ target \in closed \cup {""}
    BY <2>2, <1>2 DEF TypedNames, ClosedUnder, Inside
  <2>4. before.names \subseteq closed \ {""} /\ before.names \subseteq Names \cup {""}
    BY <1>2 DEF Inside, Chain
  <2>5. after \in Chain
    BY <2>3, <2>4 DEF Chain
  <2>6. Inside(after, closed)
    BY <2>3, <2>4 DEF Inside
  <2>7. FollowOne(answer, before) = after
    BY <1>2 DEF FollowOne, target
  <2> QED
    BY <2>5, <2>6, <2>7
<1> QED
  BY <1>1, <1>2, before.valid \in BOOLEAN DEF Chain

LEMMA WalkStays ==
  ASSUME NEW answer, TypedNames(answer), NEW host \in Names \ {""},
         NEW closed, ClosedUnder(closed, answer), host \in closed
  PROVE  \A hop \in 0..aliasHops :
           Walk(answer, host)[hop] \in Chain /\ Inside(Walk(answer, host)[hop], closed)
<1> DEFINE w == Walk(answer, host)
           Good(hop) == w[hop] \in Chain /\ Inside(w[hop], closed)
           S == {hop \in 0..aliasHops : Good(hop)}
<1>1. Good(0)
  <2>1. w[0] = Start(host)
    BY WalkIsDefined
  <2>2. Start(host) \in Chain /\ Inside(Start(host), closed)
    BY DEF Start, Chain, Inside
  <2> QED
    BY <2>1, <2>2
<1>2. ASSUME NEW n \in 0..aliasHops, n # 0, Good(n - 1)
      PROVE  Good(n)
  <2>1. w[n] = FollowOne(answer, w[n - 1])
    BY <1>2, WalkIsDefined
  <2> HIDE DEF w
  <2> QED
    BY <1>2, <2>1, FollowOneStays
<1> HIDE DEF Good
<1>3. 0 \in S
  BY <1>1, Hops, Zenon
<1>4. \A n \in 0..aliasHops : n # 0 /\ n - 1 \in S => n \in S
  BY <1>2, Zenon
<1> HIDE DEF S
<1>5. 0..aliasHops \subseteq S
  BY <1>3, <1>4, Hops, UpTo, Zenon
<1>6. \A hop \in 0..aliasHops : Good(hop)
  BY <1>5 DEF S
<1> QED
  BY <1>6 DEF Good

\* What an answer's aliases lead to, the root apart, lies in every set that has the
\* name the query was for and that the answer does not leave.
LEMMA FollowedNames ==
  ASSUME NEW answer, TypedNames(answer), NEW host \in Names \ {""},
         NEW closed, ClosedUnder(closed, answer), host \in closed,
         followCNAMEs(answer, host).valid
  PROVE  followCNAMEs(answer, host).names \subseteq closed \ {""}
<1> DEFINE w == Walk(answer, host)[aliasHops]
<1>1. followCNAMEs(answer, host) =
        [w EXCEPT !.valid = @ /\ \A r, s \in CNAMEs(answer) : r.name = s.name => r.target = s.target]
  BY Zenon DEF followCNAMEs, Walk
<1>2. w \in Chain /\ Inside(w, closed)
  BY Hops, WalkStays, Zenon
<1> HIDE DEF w
<1>3. w.valid /\ followCNAMEs(answer, host).names = w.names
  BY <1>1, <1>2 DEF Chain
<1> QED
  BY <1>2, <1>3 DEF Inside

-----------------------------------------------------------------------------
(***************************************************************************)
(* compactAddresses: the list has exactly the addresses of the set.        *)
(***************************************************************************)

Lists(set, n) ==
  {list \in [1..n -> set] :
     /\ {list[i] : i \in 1..n} = set
     /\ \A i, j \in 1..n : i < j => list[i].order <= list[j].order}

LEMMA FirstAddress ==
  ASSUME NEW set \in SUBSET Addr, set # {}
  PROVE  \E first \in set : \A a \in set : first.order <= a.order
<1> DEFINE orders == {a.order : a \in set}
<1>1. \A a \in set : a.order \in Nat
  BY DEF Addr
<1>2. orders \subseteq Nat /\ orders # {}
  BY <1>1
<1>3. \A a \in set : a.order \in orders
  OBVIOUS
<1>4. \A o \in orders : \E a \in set : o = a.order
  OBVIOUS
<1> HIDE DEF orders
<1>5. PICK least \in orders : \A o \in orders : least <= o
  BY <1>2, LeastNumber
<1> QED
  BY <1>3, <1>4, <1>5

LEMMA ListExtends ==
  ASSUME NEW n \in Nat, n # 0, NEW set \in SUBSET Addr,
         NEW first \in set, \A a \in set : first.order <= a.order,
         NEW rest \in Lists(set \ {first}, n - 1)
  PROVE  Lists(set, n) # {}
<1> DEFINE list == [i \in 1..n |-> IF i = 1 THEN first ELSE rest[i - 1]]
<1>1. \A i \in 1..n : i # 1 => i - 1 \in 1..(n - 1)
  OBVIOUS
<1>2. \A i \in 1..(n - 1) : i + 1 \in 1..n /\ i + 1 # 1 /\ (i + 1) - 1 = i
  OBVIOUS
<1>3. 1 \in 1..n
  OBVIOUS
<1>4. /\ \A i \in 1..(n - 1) : rest[i] \in set
      /\ \A a \in set : a # first => \E i \in 1..(n - 1) : a = rest[i]
      /\ \A i, j \in 1..(n - 1) : i < j => rest[i].order <= rest[j].order
  BY DEF Lists
<1>5. \A i \in 1..n : list[i] = IF i = 1 THEN first ELSE rest[i - 1]
  OBVIOUS
<1>6. list \in [1..n -> set]
  BY <1>1, <1>4
<1> HIDE DEF list
<1>7. {list[i] : i \in 1..n} = set
  <2>1. \A i \in 1..n : list[i] \in set
    BY <1>6
  <2>2. ASSUME NEW a \in set PROVE \E i \in 1..n : a = list[i]
    <3>1. CASE a = first
      BY <3>1, <1>3, <1>5
    <3>2. CASE a # first
      <4>1. PICK i \in 1..(n - 1) : a = rest[i]
        BY <3>2, <1>4
      <4>2. list[i + 1] = rest[i]
        BY <1>2, <1>5
      <4> QED
        BY <4>1, <4>2, <1>2
    <3> QED
      BY <3>1, <3>2
  <2> QED
    BY <2>1, <2>2
<1>8. ASSUME NEW i \in 1..n, NEW j \in 1..n, i < j
      PROVE  list[i].order <= list[j].order
  <2>1. j # 1 /\ list[j] = rest[j - 1] /\ j - 1 \in 1..(n - 1)
    BY <1>8, <1>5
  <2>2. CASE i = 1
    BY <2>1, <2>2, <1>4, <1>5
  <2>3. CASE i # 1
    <3>1. i - 1 \in 1..(n - 1) /\ i - 1 < j - 1 /\ list[i] = rest[i - 1]
      BY <2>3, <1>8, <1>5
    <3> QED
      BY <2>1, <3>1, <1>4
  <2> QED
    BY <2>2, <2>3
<1>9. list \in Lists(set, n)
  BY <1>6, <1>7, <1>8 DEF Lists
<1> QED
  BY <1>9

LEMMA ListsExist ==
  ASSUME NEW set \in SUBSET Addr, IsFiniteSet(set)
  PROVE  Lists(set, Cardinality(set)) # {}
<1> DEFINE Listed(n) == \A T \in SUBSET Addr : IsFiniteSet(T) /\ Cardinality(T) = n => Lists(T, n) # {}
           S == {n \in Nat : Listed(n)}
<1>1. Listed(0)
  <2> SUFFICES ASSUME NEW T \in SUBSET Addr, IsFiniteSet(T), Cardinality(T) = 0
               PROVE  Lists(T, 0) # {}
    OBVIOUS
  <2>1. T = {}
    BY FS_EmptySet
  <2> DEFINE list == [i \in 1..0 |-> i]
  <2>2. list \in [1..0 -> {}]
    OBVIOUS
  <2>3. {list[i] : i \in 1..0} = {}
    OBVIOUS
  <2>4. list \in Lists({}, 0)
    BY <2>2, <2>3 DEF Lists
  <2> QED
    BY <2>1, <2>4
<1>2. ASSUME NEW n \in Nat, n # 0, Listed(n - 1)
      PROVE  Listed(n)
  <2> SUFFICES ASSUME NEW T \in SUBSET Addr, IsFiniteSet(T), Cardinality(T) = n
               PROVE  Lists(T, n) # {}
    OBVIOUS
  <2>1. T # {}
    BY <1>2, FS_EmptySet
  <2>2. PICK first \in T : \A a \in T : first.order <= a.order
    BY <2>1, FirstAddress
  <2>3. IsFiniteSet(T \ {first}) /\ Cardinality(T \ {first}) = n - 1
    BY FS_RemoveElement
  <2>4. T \ {first} \in SUBSET Addr
    OBVIOUS
  <2>5. PICK rest : rest \in Lists(T \ {first}, n - 1)
    BY <1>2, <2>3, <2>4
  <2> QED
    BY <1>2, <2>2, <2>5, ListExtends
<1> HIDE DEF Listed
<1>3. 0 \in S
  BY <1>1, 0 \in Nat, Zenon
<1>4. Cardinality(set) \in Nat
  BY FS_CardinalityType
<1>5. \A n \in 0..Cardinality(set) : n \in Nat
  BY <1>4
<1>6. \A n \in 0..Cardinality(set) : n # 0 /\ n - 1 \in S => n \in S
  BY <1>2, <1>5, Zenon
<1> HIDE DEF S
<1>7. 0..Cardinality(set) \subseteq S
  BY <1>3, <1>4, <1>6, UpTo
<1>8. Cardinality(set) \in 0..Cardinality(set)
  BY <1>4
<1>9. Cardinality(set) \in S
  BY <1>7, <1>8, Zenon
<1>10. Listed(Cardinality(set))
  BY <1>9, Zenon DEF S
<1> QED
  BY <1>10, Zenon DEF Listed

LEMMA CompactedAddresses ==
  ASSUME NEW set \in SUBSET Addr, IsFiniteSet(set)
  PROVE  /\ compactAddresses(set) \in Seq(set)
         /\ DOMAIN compactAddresses(set) = 1..Cardinality(set)
         /\ {compactAddresses(set)[i] : i \in 1..Cardinality(set)} = set
<1> DEFINE n == Cardinality(set)
<1>1. PICK list : list \in Lists(set, n)
  BY ListsExist
<1>2. compactAddresses(set) \in [1..n -> set] /\ {compactAddresses(set)[i] : i \in 1..n} = set
  <2>1. \E l \in [1..n -> set] :
          /\ {l[i] : i \in 1..n} = set
          /\ \A i, j \in 1..n : i < j => l[i].order <= l[j].order
    BY <1>1, Zenon DEF Lists
  <2> QED
    BY <2>1, Zenon DEF compactAddresses
<1>3. n \in Nat
  BY FS_CardinalityType
<1> QED
  BY <1>2, <1>3

-----------------------------------------------------------------------------
(***************************************************************************)
(* The checks of DialPort: what they let through.                          *)
(***************************************************************************)

LEMMA PublicAddress ==
  ASSUME NEW a \in Addr, ClassifyAddress(a) = "public"
  PROVE  a.traits = {"global"}
<1> DEFINE unmapped == [a EXCEPT !.mapped = FALSE]
<1>1. unmapped.mapped = FALSE /\ unmapped.traits = a.traits
  BY DEF Addr
<1>2. \A trait : Has(Unmap(a), trait) <=> trait \in a.traits
  BY <1>1 DEF Has, Unmap
<1>3. a.traits \in SUBSET {"unspecified", "loopback", "private", "link-local", "multicast", "global", "reserved"}
  BY DEF Addr, Traits
<1>4. a.valid /\ ~a.zone
  BY a.valid \in BOOLEAN, a.zone \in BOOLEAN DEF ClassifyAddress, Addr
<1>5. /\ ~Has(Unmap(a), "unspecified") /\ ~Has(Unmap(a), "loopback") /\ ~Has(Unmap(a), "private")
      /\ ~Has(Unmap(a), "link-local") /\ ~Has(Unmap(a), "multicast") /\ Has(Unmap(a), "global")
      /\ ~Has(Unmap(a), "reserved")
  BY <1>4 DEF ClassifyAddress
<1> QED
  BY <1>2, <1>3, <1>5

LEMMA CheckedAddresses ==
  ASSUME NEW list \in Seq(Addr), CheckAddresses(list) = "none"
  PROVE  list # <<>> /\ \A i \in DOMAIN list : list[i].traits = {"global"}
<1>1. list # <<>> /\ NonPublic(list) = {}
  BY DEF CheckAddresses
<1>2. \A i \in DOMAIN list : list[i] \in Addr /\ ClassifyAddress(list[i]) = "public"
  BY <1>1 DEF NonPublic
<1> QED
  BY <1>1, <1>2, PublicAddress

\* With a list that has passed the check, no ClientHello names the server.
LEMMA ConcealedByList ==
  ASSUME record.list # <<>>, validateECHConfigList(record.list, hostname)
  PROVE  hostname \notin OuterNames
BY DEF validateECHConfigList, OuterNames, UsableConfigs, Supported, Truncated

-----------------------------------------------------------------------------
(***************************************************************************)
(* The invariant of an attempt.                                            *)
(***************************************************************************)

ReachedBy(n, records) ==
  \A closed \in SUBSET (Names \cup {""}) : hostname \in closed /\ ClosedUnder(closed, records) => n \in closed

Resolution == {"HTTPS", "A", "AAAA"}
Dial       == {"connect", "handshake", "connected"}

Types ==
  /\ pc \in Resolution \cup Dial \cup {"check", "resolved", "failed"}
  /\ name \in Names \ {""} /\ depth \in Nat /\ queries \in Nat
  /\ record \in httpsRecord \cup {NoRecord}
  /\ endpoints \in Seq(Addr)

\* What is left of the chain bounds the queries that can still be made.
QueriesFit ==
  /\ queries <= 3 * aliasHops
  /\ pc = "HTTPS" => queries <= depth
  /\ pc = "A" => queries <= aliasHops + 2 * depth
  /\ pc = "AAAA" => queries <= aliasHops + 2 * depth + 1 /\ depth < aliasHops

NamesAreReached ==
  /\ ReachedBy(name, received)
  /\ \A n \in aliases : ReachedBy(n, received) /\ n \in Names \ {""}
  /\ record # NoRecord => ReachedBy(record.name, received)

\* As long as every answer was accepted, the addresses are those of the records
\* received, all of them for names that were reached.
AddressesAreRecords ==
  /\ addresses \subseteq Addr /\ IsFiniteSet(addresses)
  /\ pc # "failed" \/ tried # {} =>
       /\ addresses = {r.address : r \in AddressRecords}
       /\ \A r \in AddressRecords : ReachedBy(r.name, received)

\* What DialPort has checked still holds while it dials.
DialIsChecked ==
  /\ tried \subseteq addresses
  /\ pc \in Dial => \A i \in DOMAIN endpoints : endpoints[i] \in addresses
  /\ tried # {} => pc \in Dial \cup {"failed"}
  /\ pc \in Dial \/ tried # {} => \A a \in addresses : a.traits = {"global"}
  /\ pc \in Dial /\ echRequired => record.list # <<>> /\ validateECHConfigList(record.list, hostname)

ConnectionInv ==
  /\ raw # "none" => pc \in {"handshake", "connected", "failed"}
  /\ pc = "failed" => raw # "open"
  /\ pc = "connected" => accepted = (record.list # <<>>)
  /\ echRequired => hostname \notin exposed

AttemptInv ==
  Types /\ QueriesFit /\ NamesAreReached /\ AddressesAreRecords /\ DialIsChecked /\ ConnectionInv

LEMMA InitInv == Init => AttemptInv
<1> SUFFICES ASSUME Init PROVE AttemptInv
  OBVIOUS
<1> USE DEF Init
<1>1. Types
  <2>1. pc \in Resolution /\ name \in Names \ {""}
    BY HostAssumption DEF Resolution
  <2>2. endpoints \in Seq(Addr)
    OBVIOUS
  <2>3. depth \in Nat /\ queries \in Nat /\ record = NoRecord
    OBVIOUS
  <2> QED
    BY <2>1, <2>2, <2>3, Zenon DEF Types
<1>2. QueriesFit
  BY HopsAssumption DEF QueriesFit
<1>3. NamesAreReached
  BY DEF NamesAreReached, ReachedBy
<1>4. AddressesAreRecords
  BY FS_EmptySet DEF AddressesAreRecords, AddressRecords
<1>5. DialIsChecked
  BY DEF DialIsChecked, Dial
<1>6. ConnectionInv
  BY DEF ConnectionInv
<1> QED
  BY <1>1, <1>2, <1>3, <1>4, <1>5, <1>6 DEF AttemptInv

-----------------------------------------------------------------------------
(***************************************************************************)
(* Resolving.                                                              *)
(***************************************************************************)

\* Records that arrive later do not make a name unreached.
LEMMA ReachedStays ==
  ASSUME NEW n, NEW records, NEW more, ReachedBy(n, records), records \subseteq more
  PROVE  ReachedBy(n, more)
BY DEF ReachedBy, ClosedUnder

\* A step that only gives up.
LEMMA FailingStep ==
  ASSUME AttemptInv, pc \in Resolution \cup {"check", "connect"}, pc' = "failed",
         UNCHANGED <<purpose, ech, chainVars, answerVars, connectVars>>
  PROVE  AttemptInv'
<1> USE DEF AttemptInv, chainVars, answerVars, connectVars
<1>1. Types'
  BY DEF Types
<1>2. QueriesFit'
  BY DEF QueriesFit
<1>3. NamesAreReached'
  BY DEF NamesAreReached
<1>4. AddressesAreRecords'
  <2>1. AddressRecords' = AddressRecords
    BY DEF AddressRecords
  <2>2. pc # "failed"
    BY DEF Resolution
  <2> QED
    BY <2>1, <2>2 DEF AddressesAreRecords
<1>5. DialIsChecked'
  BY DEF DialIsChecked, Dial, Resolution, echRequired
<1>6. ConnectionInv'
  BY DEF ConnectionInv, Resolution, echRequired
<1> QED
  BY <1>1, <1>2, <1>3, <1>4, <1>5, <1>6

\* A name that a record of a reached one points to is reached.
LEMMA NextIsReached ==
  ASSUME NEW n, NEW records, ReachedBy(n, records),
         NEW r \in records, r.name = n, r.rtype \in {"CNAME", "HTTPS"}, r.target # ""
  PROVE  ReachedBy(r.target, records)
BY DEF ReachedBy, ClosedUnder

\* What an answer to the HTTPS query selects: a record of the name asked about,
\* and a name one step further.
LEMMA ServiceIsReached ==
  ASSUME Types, NamesAreReached, NEW answer \in HTTPSAnswers(name), received' = received \cup answer,
         \A r \in answer : OnTopic(r), NEW best \in Services(answer)
  PROVE  /\ best \in httpsRecord
         /\ ReachedBy(best.name, received') /\ ReachedBy(best.target, received')
         /\ best.target \in Names \ {""}
<1>1. ReachedBy(name, received')
  <2>1. received \subseteq received' /\ ReachedBy(name, received)
    BY DEF NamesAreReached
  <2> QED
    BY <2>1, ReachedStays
<1>2. name \in Names \ {""}
  BY DEF Types
<1>3. PICK r \in answer : /\ r.rtype = "HTTPS"
                          /\ best = IF r.target = "" THEN [r EXCEPT !.target = name] ELSE r
  BY DEF Services
<1>4. r \in httpsRecord /\ r.name = name
  BY <1>2, AnswersAssumption DEF OnTopic
<1>5. CASE r.target = ""
  <2>1. best \in httpsRecord /\ best.name = name /\ best.target = name
    BY <1>2, <1>3, <1>4, <1>5 DEF httpsRecord
  <2> QED
    BY <1>1, <1>2, <2>1
<1>6. CASE r.target # ""
  <2>1. best = r /\ r \in received'
    BY <1>3, <1>6
  <2>2. ReachedBy(r.target, received')
    BY <1>1, <1>3, <1>4, <1>6, <2>1, NextIsReached
  <2>3. r.target \in Names \cup {""}
    BY <1>4 DEF httpsRecord
  <2> QED
    BY <1>1, <1>4, <1>6, <2>1, <2>2, <2>3
<1> QED
  BY <1>5, <1>6

LEMMA AliasIsReached ==
  ASSUME Types, NamesAreReached, NEW answer \in HTTPSAnswers(name), received' = received \cup answer,
         \A r \in answer : OnTopic(r), NEW next \in Aliases(answer), next # ""
  PROVE  ReachedBy(next, received') /\ next \in Names \ {""}
<1>1. ReachedBy(name, received')
  <2>1. received \subseteq received' /\ ReachedBy(name, received)
    BY DEF NamesAreReached
  <2> QED
    BY <2>1, ReachedStays
<1>2. name \in Names \ {""}
  BY DEF Types
<1>3. PICK r \in answer : alias(r) /\ next = r.target
  BY DEF Aliases
<1>4. r \in httpsRecord /\ r.name = name /\ r.rtype \in {"CNAME", "HTTPS"} /\ r \in received'
  BY <1>2, <1>3, AnswersAssumption DEF OnTopic
<1>5. r.target \in Names \cup {""}
  BY <1>4 DEF httpsRecord
<1> QED
  BY <1>1, <1>3, <1>4, <1>5, NextIsReached

\* Before the dial nothing has been tried, connected or sent.
LEMMA NothingTried ==
  ASSUME AttemptInv, pc \in Resolution \cup {"check"}
  PROVE  tried = {} /\ raw = "none"
BY DEF AttemptInv, DialIsChecked, ConnectionInv, Dial, Resolution

LEMMA DialUntouched ==
  ASSUME AttemptInv, pc \in Resolution, UNCHANGED <<ech, connectVars>>,
         pc' \in Resolution \cup {"check", "resolved", "failed"}
  PROVE  DialIsChecked' /\ ConnectionInv'
<1>1. tried = {} /\ raw = "none"
  BY NothingTried
<1>2. DialIsChecked'
  BY <1>1 DEF AttemptInv, DialIsChecked, Dial, Resolution, connectVars, echRequired
<1>3. ConnectionInv'
  BY <1>1 DEF AttemptInv, ConnectionInv, Resolution, connectVars, echRequired
<1> QED
  BY <1>2, <1>3

LEMMA HTTPSStep ==
  ASSUME AttemptInv, resolveHTTPS
  PROVE  AttemptInv'
<1> USE DEF AttemptInv
<1>1. /\ pc = "HTTPS" /\ ~TooLong(name, depth, seen)
      /\ UNCHANGED <<purpose, ech, addresses, aliases, connectVars>>
  BY DEF resolveHTTPS
<1>2. PICK answer \in HTTPSAnswers(name) :
        /\ received' = received \cup answer /\ queries' = queries + 1
        /\ \/ pc' = "failed" /\ UNCHANGED <<name, depth, record>>
           \/ /\ \A r \in answer : OnTopic(r)
              /\ pc' = "A" /\ name' = hostname /\ depth' = 0 /\ UNCHANGED record
           \/ /\ \A r \in answer : OnTopic(r)
              /\ \E next \in Aliases(answer) : next # "" /\ name' = next
              /\ pc' = pc /\ depth' = depth + 1 /\ UNCHANGED record
           \/ /\ \A r \in answer : OnTopic(r)
              /\ record' \in Services(answer)
              /\ pc' = "A" /\ name' = record'.target /\ depth' = 0
  <2> DEFINE best(answer) == Preferred(Services(answer))
             names(answer) == Aliases(answer)
  <2>1. PICK answer \in HTTPSAnswers(name) :
          /\ Receive(answer)
          /\ \/ /\ \/ \E r \in answer : ~OnTopic(r)
                   \/ best(answer) = {} /\ (Cardinality(names(answer)) > 1 \/ "" \in names(answer))
                   \/ Cardinality({<<r.target, r.list>> : r \in best(answer)}) > 1
                /\ Fail("https-record")
                /\ UNCHANGED <<chainVars, record>>
             \/ /\ \A r \in answer : OnTopic(r)
                /\ best(answer) = {} /\ names(answer) = {}
                /\ pc' = "A" /\ StartAt(hostname)
                /\ UNCHANGED <<record, reason>>
             \/ /\ \A r \in answer : OnTopic(r)
                /\ best(answer) = {} /\ Cardinality(names(answer)) = 1 /\ "" \notin names(answer)
                /\ \E next \in names(answer) : Follow(next)
                /\ UNCHANGED <<pc, record, reason>>
             \/ /\ \A r \in answer : OnTopic(r)
                /\ Cardinality({<<r.target, r.list>> : r \in best(answer)}) = 1
                /\ record' \in best(answer)
                /\ pc' = "A" /\ StartAt(record'.target)
                /\ UNCHANGED reason
    BY Zenon DEF resolveHTTPS
  <2>2. best(answer) \subseteq Services(answer)
    BY DEF Preferred
  <2>3. received' = received \cup answer /\ queries' = queries + 1
    BY <2>1 DEF Receive
  <2> HIDE DEF best, names
  <2>4. CASE Fail("https-record") /\ UNCHANGED <<chainVars, record>>
    BY <2>3, <2>4 DEF Fail, chainVars
  <2>5. CASE (\A r \in answer : OnTopic(r)) /\ pc' = "A" /\ StartAt(hostname) /\ UNCHANGED record
    BY <2>3, <2>5 DEF StartAt
  <2>6. CASE /\ \A r \in answer : OnTopic(r)
             /\ "" \notin names(answer) /\ \E next \in names(answer) : Follow(next)
             /\ UNCHANGED <<pc, record>>
    BY <2>3, <2>6 DEF Follow, names
  <2>7. CASE /\ \A r \in answer : OnTopic(r)
             /\ record' \in best(answer) /\ pc' = "A" /\ StartAt(record'.target)
    BY <2>2, <2>3, <2>7 DEF StartAt
  <2> QED
    BY <2>1, <2>4, <2>5, <2>6, <2>7
<1>3. depth < aliasHops /\ depth \in Nat /\ queries \in Nat /\ aliasHops \in Nat
  <2>1. depth \in Nat /\ queries \in Nat
    BY DEF Types
  <2>2. ~(depth >= aliasHops)
    BY <1>1 DEF TooLong
  <2> QED
    BY <2>1, <2>2, Hops
<1>4. tried = {} /\ tried' = {}
  BY <1>1, NothingTried DEF connectVars, Resolution
<1>5. received \subseteq received'
  BY <1>2
<1>6. \A n : ReachedBy(n, received) => ReachedBy(n, received')
  BY <1>5, ReachedStays
<1>a. \/ pc' = "failed" /\ depth' = depth
      \/ pc' = "A" /\ depth' = 0
      \/ pc' = "HTTPS" /\ depth' = depth + 1
  BY <1>1, <1>2
<1>b. queries' = queries + 1
  BY <1>2
<1>7. /\ name' \in Names \ {""} /\ ReachedBy(name', received')
      /\ record' \in httpsRecord \cup {NoRecord}
      /\ record' # NoRecord => ReachedBy(record'.name, received')
  <2>1. name \in Names \ {""} /\ ReachedBy(name, received')
    BY <1>6 DEF Types, NamesAreReached
  <2>2. /\ record \in httpsRecord \cup {NoRecord}
        /\ record # NoRecord => ReachedBy(record.name, received')
    BY <1>6 DEF Types, NamesAreReached
  <2>3. hostname \in Names \ {""} /\ ReachedBy(hostname, received')
    BY HostAssumption DEF ReachedBy
  <2>4. ASSUME \A r \in answer : OnTopic(r), NEW next \in Aliases(answer), next # "", name' = next
        PROVE  ReachedBy(name', received') /\ name' \in Names \ {""}
    BY <1>2, <2>4, AliasIsReached
  <2>5. ASSUME \A r \in answer : OnTopic(r), record' \in Services(answer), name' = record'.target
        PROVE  /\ record' \in httpsRecord /\ ReachedBy(record'.name, received')
               /\ ReachedBy(name', received') /\ name' \in Names \ {""}
    BY <1>2, <2>5, ServiceIsReached
  <2> QED
    BY <1>2, <2>1, <2>2, <2>3, <2>4, <2>5
<1>8. Types'
  <2>1. pc' \in Resolution \cup {"failed"} /\ depth' \in Nat /\ queries' \in Nat
    BY <1>3, <1>a, <1>b DEF Resolution
  <2>2. endpoints' \in Seq(Addr)
    BY <1>1 DEF Types, connectVars
  <2> QED
    BY <1>7, <2>1, <2>2 DEF Types
<1>9. QueriesFit'
  <2>1. queries <= depth
    BY <1>1 DEF QueriesFit
  <2> QED
    BY <1>3, <1>a, <1>b, <2>1 DEF QueriesFit
<1>10. NamesAreReached'
  BY <1>1, <1>6, <1>7 DEF NamesAreReached
<1>11. AddressesAreRecords'
  <2>1. CASE pc' = "failed"
    BY <1>1, <1>4, <2>1 DEF AddressesAreRecords
  <2>2. CASE pc' # "failed"
    <3>1. \A r \in answer : r.rtype \in {"CNAME", "HTTPS"}
      BY <1>2, <2>2 DEF OnTopic
    <3>2. AddressRecords' = AddressRecords
      BY <1>2, <3>1 DEF AddressRecords
    <3> QED
      BY <1>1, <1>6, <3>2 DEF AddressesAreRecords
  <2> QED
    BY <2>1, <2>2
<1>12. DialIsChecked' /\ ConnectionInv'
  BY <1>1, <1>2, DialUntouched DEF Resolution
<1> QED
  BY <1>8, <1>9, <1>10, <1>11, <1>12

\* What a valid answer's aliases lead to is reached.
LEMMA ChainIsReached ==
  ASSUME Types, NamesAreReached, NEW qtype \in {"A", "AAAA"}, NEW answer \in AddressAnswers(name, qtype),
         received' = received \cup answer, followCNAMEs(answer, name).valid
  PROVE  \A n \in followCNAMEs(answer, name).names : ReachedBy(n, received') /\ n \in Names \ {""}
<1>1. name \in Names \ {""} /\ ReachedBy(name, received)
  BY DEF Types, NamesAreReached
<1>2. TypedNames(answer)
  <2>1. \A r \in answer : r.name \in Names \cup {""} /\ r.target \in Names \cup {""}
    BY <1>1, AnswersAssumption
  <2> QED
    BY <2>1 DEF TypedNames
<1>3. received \subseteq received' /\ answer \subseteq received'
  OBVIOUS
<1>4. ReachedBy(name, received')
  BY <1>1, <1>3, ReachedStays
<1>5. followCNAMEs(answer, name).names \subseteq Names \ {""}
  <2>1. ClosedUnder(Names \cup {""}, answer) /\ name \in Names \cup {""}
    BY <1>1, <1>2 DEF ClosedUnder, TypedNames
  <2>2. followCNAMEs(answer, name).names \subseteq (Names \cup {""}) \ {""}
    BY <1>1, <1>2, <2>1, FollowedNames
  <2> QED
    BY <2>2
<1>6. ASSUME NEW n \in followCNAMEs(answer, name).names,
             NEW closed \in SUBSET (Names \cup {""}), hostname \in closed, ClosedUnder(closed, received')
      PROVE  n \in closed
  <2>1. ClosedUnder(closed, answer)
    BY <1>3, <1>6 DEF ClosedUnder
  <2>2. name \in closed
    BY <1>4, <1>6 DEF ReachedBy
  <2>3. followCNAMEs(answer, name).names \subseteq closed \ {""}
    BY <1>1, <1>2, <2>1, <2>2, FollowedNames
  <2> QED
    BY <1>6, <2>3
<1> QED
  BY <1>5, <1>6 DEF ReachedBy

LEMMA FiniteImage ==
  ASSUME NEW records, IsFiniteSet(records)
  PROVE  IsFiniteSet({r.address : r \in records})
<1> DEFINE f == [r \in records |-> r.address]
           T == {r.address : r \in records}
<1>1. f \in [records -> T]
  OBVIOUS
<1>2. \A a \in T : \E r \in records : f[r] = a
  OBVIOUS
<1> HIDE DEF f, T
<1>3. f \in Surjection(records, T)
  BY <1>1, <1>2 DEF Surjection
<1>4. IsFiniteSet(T)
  BY <1>3, FS_Surjection
<1> QED
  BY <1>4 DEF T

\* What is collected of an answer that is accepted.
LEMMA CollectedRecords ==
  ASSUME AttemptInv, NEW qtype \in {"A", "AAAA"}, pc = qtype, NEW answer \in AddressAnswers(name, qtype),
         received' = received \cup answer, followCNAMEs(answer, name).valid,
         \A r \in answer : Acceptable(r, qtype, followCNAMEs(answer, name).names)
  PROVE  /\ Collected(qtype, answer) \subseteq Addr /\ IsFiniteSet(Collected(qtype, answer))
         /\ Collected(qtype, answer) = {r.address : r \in AddressRecords'}
         /\ \A r \in AddressRecords' : ReachedBy(r.name, received')
<1> DEFINE new == {r \in answer : r.rtype = qtype}
<1> USE DEF AttemptInv
<1>1. AddressRecords' = AddressRecords \cup new
  <2>1. \A r \in answer : r.rtype \in {qtype, "CNAME"}
    BY DEF Acceptable
  <2> QED
    BY <2>1 DEF AddressRecords
<1>2. addresses = {r.address : r \in AddressRecords}
  <2>1. pc # "failed"
    OBVIOUS
  <2> QED
    BY <2>1 DEF AddressesAreRecords
<1>3. Collected(qtype, answer) = addresses \cup {r.address : r \in new}
  BY DEF Collected
<1>4. name \in Names
  BY DEF Types
<1>5. IsFiniteSet(answer) /\ \A r \in new : r.address \in Addr
  BY <1>4, AnswersAssumption
<1>6. IsFiniteSet({r.address : r \in new})
  <2>1. new \in SUBSET answer
    OBVIOUS
  <2>2. IsFiniteSet(new)
    BY <1>5, <2>1, FS_Subset
  <2> QED
    BY <2>2, FiniteImage
<1>7. IsFiniteSet(Collected(qtype, answer))
  <2>1. IsFiniteSet(addresses)
    BY DEF AddressesAreRecords
  <2> HIDE DEF new
  <2>2. IsFiniteSet(addresses \cup {r.address : r \in new})
    BY <1>6, <2>1, FS_Union
  <2> QED
    BY <1>3, <2>2
<1>8. \A r \in new : ReachedBy(r.name, received')
  BY ChainIsReached DEF Acceptable
<1>9. received \subseteq received'
  OBVIOUS
<1>10. \A r \in AddressRecords : ReachedBy(r.name, received')
  <2>1. pc # "failed"
    OBVIOUS
  <2> QED
    BY <1>9, <2>1, ReachedStays DEF AddressesAreRecords
<1> QED
  BY <1>1, <1>2, <1>3, <1>5, <1>7, <1>8, <1>10 DEF AddressesAreRecords

\* The outcomes of one answer about addresses: nothing, what it says, or an alias.
AcceptedAnswer(qtype, answer) ==
  /\ followCNAMEs(answer, name).valid
  /\ \A r \in answer : Acceptable(r, qtype, followCNAMEs(answer, name).names)

Others(answer) == aliases \cup (followCNAMEs(answer, name).names \ {name})

GivesUp == pc' = "failed" /\ UNCHANGED <<name, depth, addresses, aliases>>

Keeps(qtype, answer) ==
  /\ AcceptedAnswer(qtype, answer)
  /\ pc' \in (IF qtype = "A" THEN {"AAAA"} ELSE {"check", "resolved"})
  /\ addresses' = Collected(qtype, answer) /\ aliases' = Others(answer) /\ UNCHANGED <<name, depth>>

GoesOn(qtype, answer) ==
  /\ AcceptedAnswer(qtype, answer) /\ qtype = "AAAA" /\ Collected(qtype, answer) = {}
  /\ pc' = "A" /\ name' \in Others(answer) /\ depth' = depth + 1
  /\ addresses' = {} /\ aliases' = {}

LEMMA AddressOutcomes ==
  ASSUME NEW qtype \in {"A", "AAAA"}, resolveAddresses(qtype)
  PROVE  \E answer \in AddressAnswers(name, qtype) :
           /\ received' = received \cup answer /\ queries' = queries + 1
           /\ GivesUp \/ Keeps(qtype, answer) \/ GoesOn(qtype, answer)
<1> DEFINE valid(answer) == /\ followCNAMEs(answer, name).valid
                            /\ \A r \in answer : Acceptable(r, qtype, followCNAMEs(answer, name).names)
           others(answer) == aliases \cup (followCNAMEs(answer, name).names \ {name})
<1>1. PICK answer \in AddressAnswers(name, qtype) :
        /\ Receive(answer)
        /\ \/ ~valid(answer) /\ Fail("doh") /\ UNCHANGED <<chainVars, addresses, aliases>>
           \/ /\ valid(answer) /\ qtype = "A"
              /\ pc' = "AAAA"
              /\ addresses' = Collected(qtype, answer) /\ aliases' = others(answer)
              /\ UNCHANGED <<chainVars, reason>>
           \/ valid(answer) /\ qtype = "AAAA" /\ Conclude(Collected(qtype, answer), others(answer))
  BY Zenon DEF resolveAddresses
<1>2. valid(answer) <=> AcceptedAnswer(qtype, answer)
  BY DEF AcceptedAnswer
<1>3. others(answer) = Others(answer)
  BY DEF Others
<1> HIDE DEF valid, others
<1>4. received' = received \cup answer /\ queries' = queries + 1
  BY <1>1 DEF Receive
<1>5. CASE Fail("doh") /\ UNCHANGED <<chainVars, addresses, aliases>>
  BY <1>4, <1>5 DEF GivesUp, Fail, chainVars
<1>6. CASE /\ valid(answer) /\ qtype = "A" /\ pc' = "AAAA"
           /\ addresses' = Collected(qtype, answer) /\ aliases' = others(answer) /\ UNCHANGED chainVars
  BY <1>2, <1>3, <1>4, <1>6 DEF Keeps, chainVars
<1>7. CASE valid(answer) /\ qtype = "AAAA" /\ Conclude(Collected(qtype, answer), others(answer))
  <2>1. CASE /\ pc' = (IF purpose = "dial" THEN "check" ELSE "resolved") /\ UNCHANGED chainVars
             /\ addresses' = Collected(qtype, answer) /\ aliases' = others(answer)
    BY <1>2, <1>3, <1>4, <1>7, <2>1 DEF Keeps, chainVars
  <2>2. CASE /\ Collected(qtype, answer) = {} /\ pc' = "A"
             /\ \E next \in others(answer) : Follow(next)
             /\ addresses' = {} /\ aliases' = {}
    BY <1>2, <1>3, <1>4, <1>7, <2>2 DEF GoesOn, Follow
  <2>3. CASE Fail("doh") /\ UNCHANGED <<chainVars, addresses, aliases>>
    BY <1>5, <2>3
  <2> QED
    BY <1>7, <2>1, <2>2, <2>3 DEF Conclude
<1> QED
  BY <1>1, <1>5, <1>6, <1>7

LEMMA AddressStep ==
  ASSUME AttemptInv, NEW qtype \in {"A", "AAAA"}, resolveAddresses(qtype)
  PROVE  AttemptInv'
<1> USE DEF AttemptInv
<1>1. /\ pc = qtype /\ (qtype = "A" => ~TooLong(name, depth, seen))
      /\ UNCHANGED <<purpose, ech, record, connectVars>>
  BY Zenon DEF resolveAddresses
<1>2. PICK answer \in AddressAnswers(name, qtype) :
        /\ received' = received \cup answer /\ queries' = queries + 1
        /\ GivesUp \/ Keeps(qtype, answer) \/ GoesOn(qtype, answer)
  BY AddressOutcomes
<1>3. depth \in Nat /\ queries \in Nat /\ aliasHops \in Nat /\ queries' = queries + 1
  BY <1>2, Hops DEF Types
<1>4. tried = {} /\ tried' = {}
  BY <1>1, NothingTried DEF connectVars, Resolution
<1>5. received \subseteq received'
  BY <1>2
<1>6. \A n : ReachedBy(n, received) => ReachedBy(n, received')
  BY <1>5, ReachedStays
<1>7. AcceptedAnswer(qtype, answer) => \A n \in Others(answer) : ReachedBy(n, received') /\ n \in Names \ {""}
  BY <1>2, <1>6, ChainIsReached DEF AcceptedAnswer, Others, NamesAreReached
<1>8. name' \in Names \ {""} /\ ReachedBy(name', received')
  <2>1. name \in Names \ {""} /\ ReachedBy(name, received')
    BY <1>6 DEF Types, NamesAreReached
  <2> QED
    BY <1>2, <1>7, <2>1 DEF GivesUp, Keeps, GoesOn
<1>9. QueriesFit' /\ depth' \in Nat
  <2>1. CASE GivesUp
    <3>1. queries + 1 <= 3 * aliasHops
      <4>1. CASE qtype = "A"
        <5>1. ~(depth >= aliasHops) /\ queries <= aliasHops + 2 * depth
          BY <1>1, <4>1 DEF QueriesFit, TooLong
        <5> QED
          BY <1>3, <5>1
      <4>2. CASE qtype = "AAAA"
        <5>1. depth < aliasHops /\ queries <= aliasHops + 2 * depth + 1
          BY <1>1, <4>2 DEF QueriesFit
        <5> QED
          BY <1>3, <5>1
      <4> QED
        BY <4>1, <4>2
    <3> QED
      BY <1>3, <2>1, <3>1 DEF QueriesFit, GivesUp
  <2>2. CASE Keeps(qtype, answer) /\ qtype = "A"
    <3>1. ~(depth >= aliasHops) /\ queries <= aliasHops + 2 * depth
      BY <1>1, <2>2 DEF QueriesFit, TooLong
    <3>2. pc' = "AAAA" /\ depth' = depth
      BY <2>2 DEF Keeps
    <3> QED
      BY <1>3, <3>1, <3>2 DEF QueriesFit
  <2>3. CASE Keeps(qtype, answer) /\ qtype = "AAAA"
    <3>1. depth < aliasHops /\ queries <= aliasHops + 2 * depth + 1
      BY <1>1, <2>3 DEF QueriesFit
    <3>2. pc' \in {"check", "resolved"} /\ depth' = depth
      BY <2>3 DEF Keeps
    <3> QED
      BY <1>3, <3>1, <3>2 DEF QueriesFit
  <2>4. CASE GoesOn(qtype, answer)
    <3>1. depth < aliasHops /\ queries <= aliasHops + 2 * depth + 1
      BY <1>1, <2>4 DEF QueriesFit, GoesOn
    <3>2. pc' = "A" /\ depth' = depth + 1
      BY <2>4 DEF GoesOn
    <3> QED
      BY <1>3, <3>1, <3>2 DEF QueriesFit
  <2> QED
    BY <1>2, <2>1, <2>2, <2>3, <2>4
<1>10. pc' \in {"A", "AAAA", "check", "resolved", "failed"}
  BY <1>2 DEF GivesUp, Keeps, GoesOn
<1>11. Types'
  <2>1. endpoints' \in Seq(Addr) /\ record' \in httpsRecord \cup {NoRecord}
    BY <1>1 DEF Types, connectVars
  <2>2. queries' \in Nat
    BY <1>3
  <2>3. pc' \in Resolution \cup Dial \cup {"check", "resolved", "failed"}
    BY <1>10 DEF Resolution
  <2> QED
    BY <1>8, <1>9, <2>1, <2>2, <2>3, Zenon DEF Types
<1>12. NamesAreReached'
  <2>1. record # NoRecord => ReachedBy(record.name, received')
    BY <1>6 DEF NamesAreReached
  <2>2. \A n \in aliases' : ReachedBy(n, received') /\ n \in Names \ {""}
    BY <1>2, <1>6, <1>7 DEF NamesAreReached, GivesUp, Keeps, GoesOn
  <2> QED
    BY <1>1, <1>8, <2>1, <2>2 DEF NamesAreReached
<1>13. AddressesAreRecords'
  <2>1. CASE GivesUp
    BY <1>4, <2>1 DEF AddressesAreRecords, GivesUp
  <2>2. CASE ~GivesUp
    <3>1. AcceptedAnswer(qtype, answer) /\ addresses' = Collected(qtype, answer)
      BY <1>2, <2>2 DEF Keeps, GoesOn
    <3>2. /\ Collected(qtype, answer) \subseteq Addr /\ IsFiniteSet(Collected(qtype, answer))
          /\ Collected(qtype, answer) = {r.address : r \in AddressRecords'}
          /\ \A r \in AddressRecords' : ReachedBy(r.name, received')
      BY <1>1, <1>2, <3>1, CollectedRecords DEF AcceptedAnswer
    <3> QED
      BY <3>1, <3>2 DEF AddressesAreRecords
  <2> QED
    BY <2>1, <2>2
<1>14. DialIsChecked' /\ ConnectionInv'
  BY <1>1, <1>10, DialUntouched DEF Resolution
<1> QED
  BY <1>9, <1>11, <1>12, <1>13, <1>14

-----------------------------------------------------------------------------
(***************************************************************************)
(* Dialling.                                                               *)
(***************************************************************************)

\* The answers are not touched any more.
LEMMA AnswersKept ==
  ASSUME AttemptInv, pc # "failed", UNCHANGED <<chainVars, answerVars>>,
         pc' \in Dial \cup {"failed"}, tried' = {} \/ pc' # "failed" \/ pc \in Dial
  PROVE  QueriesFit' /\ NamesAreReached' /\ AddressesAreRecords'
<1> USE DEF AttemptInv, chainVars, answerVars
<1>1. QueriesFit'
  BY DEF QueriesFit, Dial
<1>2. NamesAreReached'
  BY DEF NamesAreReached
<1>3. AddressesAreRecords'
  BY DEF AddressesAreRecords, AddressRecords
<1> QED
  BY <1>1, <1>2, <1>3

LEMMA DialPortStep ==
  ASSUME AttemptInv, DialPort
  PROVE  AttemptInv'
<1>1. pc = "check" /\ UNCHANGED <<purpose, ech, chainVars, answerVars, tried, raw, exposed, accepted>>
  BY DEF DialPort
<1>2. CASE Refusal # "none"
  BY <1>1, <1>2, FailingStep DEF DialPort, Fail, connectVars
<1>3. CASE Refusal = "none"
  <2> DEFINE list == compactAddresses(addresses)
  <2>1. pc' = "connect" /\ endpoints' = list
    BY <1>3 DEF DialPort
  <2>2. addresses \in SUBSET Addr /\ IsFiniteSet(addresses)
    BY DEF AttemptInv, AddressesAreRecords
  <2>3. /\ list \in Seq(addresses) /\ DOMAIN list = 1..Cardinality(addresses)
        /\ {list[i] : i \in 1..Cardinality(addresses)} = addresses
    BY <2>2, CompactedAddresses
  <2>4. list \in Seq(Addr)
    BY <2>2, <2>3
  <2>5. /\ echRequired => record.list # <<>> /\ validateECHConfigList(record.list, hostname)
        /\ CheckAddresses(list) = "none"
    BY <1>3 DEF Refusal
  <2> HIDE DEF list
  <2>6. \A i \in DOMAIN list : list[i].traits = {"global"}
    BY <2>4, <2>5, CheckedAddresses
  <2>7. \A a \in addresses : a.traits = {"global"}
    BY <2>3, <2>6
  <2>8. \A i \in DOMAIN list : list[i] \in addresses
    BY <2>3
  <2>9. Types'
    <3>1. pc' \in Resolution \cup Dial \cup {"check", "resolved", "failed"}
      BY <2>1 DEF Dial
    <3>2. UNCHANGED <<name, depth, queries, record>> /\ endpoints' \in Seq(Addr)
      BY <1>1, <2>1, <2>4 DEF chainVars, answerVars
    <3> QED
      BY <3>1, <3>2, Zenon DEF AttemptInv, Types
  <2>10. QueriesFit' /\ NamesAreReached' /\ AddressesAreRecords'
    BY <1>1, <2>1, AnswersKept DEF Dial
  <2>11. DialIsChecked'
    <3>1. tried = {}
      BY <1>1, NothingTried
    <3> QED
      BY <1>1, <2>1, <2>5, <2>7, <2>8, <3>1 DEF DialIsChecked, answerVars, echRequired
  <2>12. ConnectionInv'
    <3>1. raw = "none"
      BY <1>1, NothingTried
    <3> QED
      BY <1>1, <2>1, <3>1 DEF AttemptInv, ConnectionInv, echRequired
  <2> QED
    BY <2>9, <2>10, <2>11, <2>12 DEF AttemptInv
<1> QED
  BY <1>2, <1>3

LEMMA ConnectStep ==
  ASSUME AttemptInv, Connect
  PROVE  AttemptInv'
<1> USE DEF AttemptInv
<1>1. /\ pc = "connect" /\ endpoints # <<>> /\ endpoints' = Tail(endpoints)
      /\ tried' = tried \cup {Head(endpoints)}
      /\ UNCHANGED <<purpose, ech, chainVars, answerVars, exposed, accepted>>
  BY DEF Connect
<1>2. \/ pc' = "handshake" /\ raw' = "open"
      \/ pc' = "connect" /\ raw' = raw
  BY <1>1 DEF Connect
<1>3. endpoints \in Seq(Addr) /\ \A i \in DOMAIN endpoints : endpoints[i] \in addresses
  BY <1>1 DEF Types, DialIsChecked, Dial
<1>4. /\ endpoints' \in Seq(Addr) /\ Head(endpoints) \in addresses
      /\ \A i \in DOMAIN endpoints' : endpoints'[i] \in addresses
  BY <1>1, <1>3
<1>5. Types'
  <2>1. pc' \in Resolution \cup Dial \cup {"check", "resolved", "failed"}
    BY <1>2 DEF Dial
  <2>2. UNCHANGED <<name, depth, queries, record>>
    BY <1>1 DEF chainVars, answerVars
  <2> QED
    BY <1>4, <2>1, <2>2, Zenon DEF Types
<1>6. QueriesFit' /\ NamesAreReached' /\ AddressesAreRecords'
  BY <1>1, <1>2, AnswersKept DEF Dial
<1>7. DialIsChecked'
  BY <1>1, <1>2, <1>4 DEF DialIsChecked, Dial, answerVars, echRequired
<1>8. ConnectionInv'
  BY <1>1, <1>2 DEF ConnectionInv, echRequired, answerVars
<1> QED
  BY <1>5, <1>6, <1>7, <1>8

\* A handshake ends the attempt; of the ClientHello only an outer name is exposed.
LEMMA HandshakeStep ==
  ASSUME AttemptInv, HandshakeCompletes \/ HandshakeFails
  PROVE  AttemptInv'
<1> USE DEF AttemptInv
<1>1. pc = "handshake" /\ UNCHANGED <<purpose, ech, chainVars, answerVars, endpoints, tried>>
  BY DEF HandshakeCompletes, HandshakeFails
<1>2. \/ pc' = "connected" /\ raw' = raw /\ accepted' = (record.list # <<>>)
      \/ pc' = "failed" /\ raw' = "closed"
  BY DEF HandshakeCompletes, HandshakeFails, Fail
<1>3. exposed' \subseteq exposed \cup OuterNames
  BY DEF HandshakeCompletes, HandshakeFails
<1>4. echRequired => hostname \notin OuterNames
  BY <1>1, ConcealedByList DEF DialIsChecked, Dial
<1>5. echRequired => hostname \notin exposed'
  BY <1>3, <1>4 DEF ConnectionInv
<1>6. Types'
  <2>1. pc' \in Resolution \cup Dial \cup {"check", "resolved", "failed"}
    BY <1>2 DEF Dial
  <2>2. UNCHANGED <<name, depth, queries, record, endpoints>>
    BY <1>1 DEF chainVars, answerVars
  <2> QED
    BY <2>1, <2>2, Zenon DEF Types
<1>7. QueriesFit' /\ NamesAreReached' /\ AddressesAreRecords'
  BY <1>1, <1>2, AnswersKept DEF Dial
<1>8. DialIsChecked'
  BY <1>1, <1>2 DEF DialIsChecked, Dial, answerVars, echRequired
<1>9. ConnectionInv'
  BY <1>1, <1>2, <1>5 DEF ConnectionInv, echRequired, answerVars
<1> QED
  BY <1>6, <1>7, <1>8, <1>9

LEMMA StepInv == AttemptInv /\ [Next]_vars => AttemptInv'
<1> SUFFICES ASSUME AttemptInv, [Next]_vars PROVE AttemptInv'
  OBVIOUS
<1>1. CASE QueryFails \/ ChainTooLong \/ NothingConnects
  BY <1>1, FailingStep DEF QueryFails, ChainTooLong, NothingConnects, Fail, Resolution
<1>2. CASE resolveHTTPS
  BY <1>2, HTTPSStep
<1>3. CASE resolveAddresses("A")
  BY <1>3, AddressStep
<1>4. CASE resolveAddresses("AAAA")
  BY <1>4, AddressStep
<1>5. CASE DialPort
  BY <1>5, DialPortStep
<1>6. CASE Connect
  BY <1>6, ConnectStep
<1>7. CASE HandshakeCompletes \/ HandshakeFails
  BY <1>7, HandshakeStep
<1>8. CASE UNCHANGED vars
  BY <1>8 DEF vars, chainVars, answerVars, connectVars, AttemptInv, Types, QueriesFit, NamesAreReached,
              AddressesAreRecords, AddressRecords, DialIsChecked, ConnectionInv, echRequired
<1> QED
  BY <1>1, <1>2, <1>3, <1>4, <1>5, <1>6, <1>7, <1>8 DEF Next, Resolving, Dialling

-----------------------------------------------------------------------------
(***************************************************************************)
(* The theorems.                                                           *)
(***************************************************************************)

\* The invariant holds of every attempt (doh.go, ech.go, dialer.go).
THEOREM Invariant == Spec => []AttemptInv
<1>1. Init => AttemptInv
  BY InitInv
<1>2. AttemptInv /\ [Next]_vars => AttemptInv'
  BY StepInv
<1> QED
  BY <1>1, <1>2, PTL DEF Spec

LEMMA ReachedIsReachedBy ==
  ASSUME NEW n, ReachedBy(n, received)
  PROVE  Reached(n)
BY DEF Reached, ReachedBy, ClosedUnder

\* An address is used only if the resolver gave it for the name that was asked
\* about or one that name's aliases lead to, at any distance, and dialled only if
\* every address that came with it is public (Resolver.resolveAddresses,
\* followCNAMEs, policy.CheckAddresses).
THEOREM AddressesTraced == Spec => []AddressesAreTraced
<1>1. AttemptInv => AddressesAreTraced
  <2> SUFFICES ASSUME AttemptInv PROVE AddressesAreTraced
    OBVIOUS
  <2>1. ASSUME pc = "resolved" \/ tried # {}, NEW a \in addresses
        PROVE  \E r \in AddressRecords : r.address = a /\ Reached(r.name)
    <3>1. /\ addresses = {r.address : r \in AddressRecords}
          /\ \A r \in AddressRecords : ReachedBy(r.name, received)
      BY <2>1 DEF AttemptInv, AddressesAreRecords
    <3> QED
      BY <2>1, <3>1, ReachedIsReachedBy
  <2>2. tried \subseteq addresses
    BY DEF AttemptInv, DialIsChecked
  <2>3. ASSUME tried # {}, NEW r \in AddressRecords
        PROVE  r.address.traits = {"global"}
    <3>1. r.address \in addresses
      BY <2>3 DEF AttemptInv, AddressesAreRecords
    <3> QED
      BY <2>3, <3>1 DEF AttemptInv, DialIsChecked
  <2> QED
    BY <2>1, <2>2, <2>3 DEF AddressesAreTraced
<1> QED
  BY <1>1, Invariant, PTL

\* With ECH required the relay's name never leaves in the clear, and a connection
\* uses the list of its record, which a reached name published
\* (SecureDialer.DialPort, validateECHConfigList, verifyTransport).
THEOREM NameConcealed == Spec => []NameIsConcealed
<1>1. AttemptInv => NameIsConcealed
  <2> SUFFICES ASSUME AttemptInv PROVE NameIsConcealed
    OBVIOUS
  <2>1. /\ echRequired => hostname \notin exposed
        /\ pc = "connected" => accepted = (record.list # <<>>)
    BY DEF AttemptInv, ConnectionInv
  <2>2. record # NoRecord => Reached(record.name)
    BY ReachedIsReachedBy DEF AttemptInv, NamesAreReached
  <2> QED
    BY <2>1, <2>2 DEF NameIsConcealed
<1> QED
  BY <1>1, Invariant, PTL

\* A handshake that has failed is final: its connection is closed, and no other
\* address is dialled once one connection was made (SecureDialer.connectAll).
THEOREM FailuresFinal == Spec => FailuresAreFinal
<1>1. AttemptInv => (pc = "failed" => raw # "open")
  BY DEF AttemptInv, ConnectionInv
<1>2. AttemptInv /\ [Next]_vars => [raw # "none" => tried' = tried]_vars
  <2> SUFFICES ASSUME AttemptInv, Next, raw # "none" PROVE tried' = tried
    BY DEF vars
  <2>1. pc \in {"handshake", "connected", "failed"}
    BY DEF AttemptInv, ConnectionInv
  <2>2. ~Connect
    BY <2>1 DEF Connect
  <2> QED
    BY <2>1, <2>2 DEF Next, Resolving, Dialling, QueryFails, ChainTooLong, resolveHTTPS, resolveAddresses,
                      DialPort, NothingConnects, HandshakeCompletes, HandshakeFails, connectVars
<1> QED
  BY <1>1, <1>2, Invariant, PTL DEF Spec, FailuresAreFinal

\* An attempt makes at most three queries for every hop an alias chain may have,
\* whatever the resolver answers (aliasHopLimit).
THEOREM BoundedQueries == Spec => []QueriesAreBounded
<1>1. AttemptInv => QueriesAreBounded
  BY DEF AttemptInv, QueriesFit, QueriesAreBounded
<1> QED
  BY <1>1, Invariant, PTL
=============================================================================
