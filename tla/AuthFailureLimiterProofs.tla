---------------------- MODULE AuthFailureLimiterProofs ----------------------
(***************************************************************************)
(* The limiter's list is well linked, bounded and implements FailureTable, *)
(* for any number of sources, any capacity, limit and window.              *)
(***************************************************************************)
EXTENDS AuthFailureLimiter, FiniteSetTheorems, TLAPS

-----------------------------------------------------------------------------
(***************************************************************************)
(* remove and insert as functions on lists.                                *)
(***************************************************************************)

\* remove unlinks one entry from the map and returns a list (limiter.go, remove).
LEMMA RemoveType ==
  ASSUME NEW L \in Lists, NEW s \in Sources
  PROVE  /\ remove(L, s) \in Lists
         /\ remove(L, s).entries = L.entries \ {s}
  BY DEF remove, Lists, Pointer

\* insert adds one entry to the map and returns a list (limiter.go, insert).
LEMMA InsertType ==
  ASSUME NEW L \in Lists, NEW s \in Sources
  PROVE  /\ insert(L, s) \in Lists
         /\ insert(L, s).entries = L.entries \cup {s}
  BY DEF insert, Lists, Pointer

\* The restriction of an order is an order.
LEMMA OrdersRestrict ==
  ASSUME NEW S, NEW R, NEW s, Orders(R, S)
  PROVE  Orders(R \cap ((S \ {s}) \X (S \ {s})), S \ {s})
  BY DEF Orders

\* Appending a new greatest element to an order gives an order.
LEMMA OrdersExtend ==
  ASSUME NEW S, NEW R, NEW s, s \notin S, Orders(R, S)
  PROVE  Orders(R \cup (S \X {s}), S \cup {s})
  <1> DEFINE T == S \cup {s}
             Q == R \cup (S \X {s})
  <1>1. Q \subseteq T \X T
    BY DEF Orders
  <1>2. \A t \in T : <<t, t>> \notin Q
    BY DEF Orders
  <1>3. \A t, u \in T : t = u \/ <<t, u>> \in Q \/ <<u, t>> \in Q
    BY DEF Orders
  <1>4. \A t, u, v \in T : <<t, u>> \in Q /\ <<u, v>> \in Q => <<t, v>> \in Q
    <2> SUFFICES ASSUME NEW t \in T, NEW u \in T, NEW v \in T,
                        <<t, u>> \in Q, <<u, v>> \in Q
                 PROVE  <<t, v>> \in Q
      OBVIOUS
    <2>1. u \in S /\ t \in S
      BY DEF Orders
    <2> QED BY <2>1 DEF Orders
  <1> QED BY <1>1, <1>2, <1>3, <1>4 DEF Orders

\* remove keeps the pointers in step with the order of the entries that stay.
LEMMA RemoveLinked ==
  ASSUME NEW L \in Lists, NEW R, NEW s \in L.entries, Linked(L, R)
  PROVE  LET S == L.entries \ {s}
         IN Linked(remove(L, s), R \cap (S \X S))
  <1> DEFINE E == L.entries
             S == E \ {s}
             Q == R \cap (S \X S)
             M == remove(L, s)
             b == L.older[s]
             a == L.newer[s]
  <1>0. /\ Nil \notin Sources /\ E \subseteq Sources /\ s \in E
        /\ M.entries = S
        /\ M.oldest = IF b = Nil THEN a ELSE L.oldest
        /\ M.newest = IF a = Nil THEN b ELSE L.newest
        /\ \A t \in Sources : M.newer[t] =
             IF t = s THEN Nil ELSE IF t = b THEN a ELSE L.newer[t]
        /\ \A t \in Sources : M.older[t] =
             IF t = s THEN Nil ELSE IF t = a THEN b ELSE L.older[t]
    BY LimiterAssumption DEF remove, Lists, Pointer
  <1>1. Orders(R, E) /\ Orders(Q, S)
    BY OrdersRestrict DEF Linked
  <1>2. /\ IsBefore(R, E, s, b) /\ IsAfter(R, E, s, a)
        /\ a \in S \cup {Nil} /\ b \in S \cup {Nil}
    BY <1>0, <1>1 DEF Linked, Orders, IsBefore, IsAfter
  <1>a. /\ \A u, v : <<u, v>> \in Q <=> u \in S /\ v \in S /\ <<u, v>> \in R
        /\ \A u : u \in S <=> u \in E /\ u # s
    OBVIOUS
  <1> HIDE DEF M, Q, S, E, a, b
  <1>3. ASSUME NEW t \in S PROVE IsBefore(Q, S, t, M.older[t])
    <2>1. IsBefore(R, E, t, L.older[t])
      BY <1>a DEF Linked, E
    <2>2. CASE t = a
      <3>1. M.older[t] = b /\ <<s, t>> \in R
        BY <1>0, <1>2, <1>a, <2>2 DEF IsAfter
      <3>2. ASSUME NEW u \in S, <<u, t>> \in R PROVE <<u, s>> \in R
        <4>1. <<s, u>> \notin R
          BY <1>0, <1>1, <1>2, <1>a, <2>2, <3>2 DEF Orders, IsAfter
        <4> QED BY <1>0, <1>1, <1>a, <4>1 DEF Orders
      <3>3. CASE b = Nil
        BY <1>2, <1>a, <3>1, <3>2, <3>3 DEF IsBefore
      <3>4. CASE b # Nil
        <4>1. <<b, t>> \in R
          BY <1>1, <1>2, <1>a, <3>1, <3>4 DEF Orders, IsBefore
        <4> QED BY <1>2, <1>a, <3>1, <3>2, <3>4, <4>1 DEF IsBefore
      <3> QED BY <3>3, <3>4
    <2>3. CASE t # a
      <3>1. L.older[t] # s
        <4> SUFFICES ASSUME L.older[t] = s PROVE FALSE
          OBVIOUS
        <4>1. <<s, t>> \in R
          BY <1>0, <2>1 DEF IsBefore
        <4>2. a \in S /\ <<s, a>> \in R /\ <<a, t>> \in R
          BY <1>0, <1>2, <1>a, <2>3, <4>1 DEF IsAfter
        <4>3. a = s \/ <<a, s>> \in R
          BY <1>0, <1>a, <2>1, <4>2 DEF IsBefore
        <4> QED BY <1>1, <1>a, <4>2, <4>3 DEF Orders
      <3> QED BY <1>0, <1>1, <1>2, <1>a, <2>1, <2>3, <3>1 DEF Orders, IsBefore
    <2> QED BY <2>2, <2>3
  <1>4. ASSUME NEW t \in S PROVE IsAfter(Q, S, t, M.newer[t])
    <2>1. IsAfter(R, E, t, L.newer[t])
      BY <1>a DEF Linked, E
    <2>2. CASE t = b
      <3>1. M.newer[t] = a /\ <<t, s>> \in R
        BY <1>0, <1>2, <1>a, <2>2 DEF IsBefore
      <3>2. ASSUME NEW u \in S, <<t, u>> \in R PROVE <<s, u>> \in R
        <4>1. <<u, s>> \notin R
          BY <1>0, <1>1, <1>2, <1>a, <2>2, <3>2 DEF Orders, IsBefore
        <4> QED BY <1>0, <1>1, <1>a, <4>1 DEF Orders
      <3>3. CASE a = Nil
        BY <1>2, <1>a, <3>1, <3>2, <3>3 DEF IsAfter
      <3>4. CASE a # Nil
        <4>1. <<t, a>> \in R
          BY <1>1, <1>2, <1>a, <3>1, <3>4 DEF Orders, IsAfter
        <4> QED BY <1>2, <1>a, <3>1, <3>2, <3>4, <4>1 DEF IsAfter
      <3> QED BY <3>3, <3>4
    <2>3. CASE t # b
      <3>1. L.newer[t] # s
        <4> SUFFICES ASSUME L.newer[t] = s PROVE FALSE
          OBVIOUS
        <4>1. <<t, s>> \in R
          BY <1>0, <2>1 DEF IsAfter
        <4>2. b \in S /\ <<b, s>> \in R /\ <<t, b>> \in R
          BY <1>0, <1>2, <1>a, <2>3, <4>1 DEF IsBefore
        <4>3. b = s \/ <<s, b>> \in R
          BY <1>0, <1>a, <2>1, <4>2 DEF IsAfter
        <4> QED BY <1>1, <1>a, <4>2, <4>3 DEF Orders
      <3> QED BY <1>0, <1>1, <1>2, <1>a, <2>1, <2>3, <3>1 DEF Orders, IsAfter
    <2> QED BY <2>2, <2>3
  <1>5. IF M.oldest = Nil THEN S = {}
        ELSE M.oldest \in S /\ \A u \in S : u = M.oldest \/ <<M.oldest, u>> \in Q
    <2>1. L.oldest \in E /\ \A u \in E : u = L.oldest \/ <<L.oldest, u>> \in R
      BY <1>a DEF Linked, E
    <2>2. CASE b = Nil
      <3>1. M.oldest = a /\ \A u \in S : <<s, u>> \in R
        BY <1>0, <1>1, <1>2, <1>a, <2>2 DEF Orders, IsBefore
      <3> QED BY <1>2, <1>a, <3>1 DEF IsAfter
    <2>3. CASE b # Nil
      BY <1>0, <1>1, <1>2, <1>a, <2>1, <2>3 DEF Orders, IsBefore
    <2> QED BY <2>2, <2>3
  <1>6. IF M.newest = Nil THEN S = {}
        ELSE M.newest \in S /\ \A u \in S : u = M.newest \/ <<u, M.newest>> \in Q
    <2>1. L.newest \in E /\ \A u \in E : u = L.newest \/ <<u, L.newest>> \in R
      BY <1>a DEF Linked, E
    <2>2. CASE a = Nil
      <3>1. M.newest = b /\ \A u \in S : <<u, s>> \in R
        BY <1>0, <1>1, <1>2, <1>a, <2>2 DEF Orders, IsAfter
      <3> QED BY <1>2, <1>a, <3>1 DEF IsBefore
    <2>3. CASE a # Nil
      <3>1. M.newest = L.newest /\ a \in S /\ <<s, a>> \in R
        BY <1>0, <1>2, <2>3 DEF IsAfter
      <3>2. L.newest # Nil
        BY <1>0, <2>1
      <3>3. L.newest # s
        <4>1. s \in E /\ a \in E /\ a # s
          BY <1>0, <1>a, <3>1
        <4>2. <<a, s>> \notin R
          BY <1>1, <3>1, <4>1 DEF Orders
        <4> QED BY <2>1, <4>1, <4>2
      <3> QED BY <1>a, <2>1, <3>1, <3>2, <3>3
    <2> QED BY <2>2, <2>3
  <1>7. \A t \in Sources \ S : M.older[t] = Nil /\ M.newer[t] = Nil
    BY <1>0, <1>2, <1>a DEF Linked, E
  <1>8. Linked(M, Q)
    BY <1>0, <1>1, <1>3, <1>4, <1>5, <1>6, <1>7 DEF Linked
  <1> QED BY <1>8 DEF M, Q, S, E

\* insert keeps the pointers in step with the order, the new entry last.
LEMMA InsertLinked ==
  ASSUME NEW L \in Lists, NEW R, NEW s \in Sources, s \notin L.entries,
         Linked(L, R)
  PROVE  Linked(insert(L, s), R \cup (L.entries \X {s}))
  <1> DEFINE E == L.entries
             S == E \cup {s}
             Q == R \cup (E \X {s})
             M == insert(L, s)
             n == L.newest
  <1>0. /\ Nil \notin Sources /\ E \subseteq Sources /\ s \notin E
        /\ M.entries = S
        /\ M.oldest = IF n = Nil THEN s ELSE L.oldest
        /\ M.newest = s
        /\ \A t \in Sources : M.newer[t] =
             IF t = s THEN Nil ELSE IF t = n THEN s ELSE L.newer[t]
        /\ \A t \in Sources : M.older[t] = IF t = s THEN n ELSE L.older[t]
    BY LimiterAssumption DEF insert, Lists, Pointer
  <1>1. Orders(R, E) /\ Orders(Q, S)
    BY OrdersExtend DEF Linked
  <1>2. IF n = Nil THEN E = {}
        ELSE n \in E /\ \A u \in E : u = n \/ <<u, n>> \in R
    BY DEF Linked
  <1>a. /\ \A u, v : <<u, v>> \in Q <=> <<u, v>> \in R \/ (u \in E /\ v = s)
        /\ \A u : u \in S <=> u \in E \/ u = s
    OBVIOUS
  <1> HIDE DEF M, Q, S, E, n
  <1>3. ASSUME NEW t \in S PROVE IsBefore(Q, S, t, M.older[t])
    <2>1. CASE t = s
      BY <1>0, <1>1, <1>a, <1>2, <2>1 DEF Orders, IsBefore
    <2>2. CASE t # s
      <3>1. IsBefore(R, E, t, L.older[t])
        BY <1>a, <2>2 DEF Linked, E
      <3> QED BY <1>0, <1>1, <1>a, <2>2, <3>1 DEF Orders, IsBefore
    <2> QED BY <2>1, <2>2
  <1>4. ASSUME NEW t \in S PROVE IsAfter(Q, S, t, M.newer[t])
    <2>1. CASE t = s
      BY <1>0, <1>1, <1>a, <2>1 DEF Orders, IsAfter
    <2>2. CASE t # s /\ t = n
      <3>1. n \in E /\ M.newer[t] = s /\ <<t, s>> \in Q
        BY <1>0, <1>a, <2>2
      <3>2. ASSUME NEW u \in S, <<t, u>> \in Q PROVE u = s
        <4> SUFFICES ASSUME u # s PROVE FALSE
          OBVIOUS
        <4>1. u \in E /\ <<n, u>> \in R
          BY <1>a, <2>2, <3>2
        <4>2. u = n \/ <<u, n>> \in R
          BY <1>0, <1>2, <3>1, <4>1
        <4> QED BY <1>1, <3>1, <4>1, <4>2 DEF Orders
      <3> QED BY <1>0, <1>a, <3>1, <3>2 DEF IsAfter
    <2>3. CASE t # s /\ t # n
      <3>1. IsAfter(R, E, t, L.newer[t])
        BY <1>a, <2>3 DEF Linked, E
      <3>2. n \in E /\ <<t, n>> \in R
        BY <1>2, <1>a, <2>3
      <3> QED BY <1>0, <1>1, <1>a, <2>3, <3>1, <3>2 DEF Orders, IsAfter
    <2> QED BY <2>1, <2>2, <2>3
  <1>5. M.oldest \in S /\ \A u \in S : u = M.oldest \/ <<M.oldest, u>> \in Q
    <2>1. IF L.oldest = Nil THEN E = {}
          ELSE L.oldest \in E /\ \A u \in E : u = L.oldest \/ <<L.oldest, u>> \in R
      BY DEF Linked, E
    <2> QED BY <1>0, <1>2, <1>a, <2>1
  <1>6. M.newest \in S /\ \A u \in S : u = M.newest \/ <<u, M.newest>> \in Q
    BY <1>0, <1>a
  <1>7. \A t \in Sources \ S : M.older[t] = Nil /\ M.newer[t] = Nil
    BY <1>0, <1>2, <1>a DEF Linked, E
  <1>8. Linked(M, Q)
    BY <1>0, <1>1, <1>3, <1>4, <1>5, <1>6, <1>7, <1>a DEF Linked
  <1> QED BY <1>8 DEF M, Q, E

-----------------------------------------------------------------------------
(***************************************************************************)
(* The inductive invariant.  WellLinked needs CountsMatchEntries (an       *)
(* insertion must start at age 0, younger than all others) and             *)
(* BoundedTable needs WellLinked (a full table must have an oldest entry   *)
(* to evict), so the four are proved together.                             *)
(***************************************************************************)

Inv == TypeOK /\ WellLinked /\ CountsMatchEntries /\ BoundedTable

\* WellLinked as a property of any list L and any ages f.
Good(L, f) ==
  \E R \in SUBSET (L.entries \X L.entries) :
    /\ Linked(L, R)
    /\ \A t, u \in L.entries : <<t, u>> \in R => f[u] <= f[t]

\* WellLinked is Good of the current list and ages.
LEMMA WellLinkedIsGood == WellLinked <=> Good(list, age)
  BY DEF WellLinked, Good, AgesFollow

\* Removing an entry leaves a good list good (limiter.go, remove).
LEMMA RemoveGood ==
  ASSUME NEW L \in Lists, NEW f, NEW s \in L.entries, Good(L, f)
  PROVE  Good(remove(L, s), f)
  <1>1. PICK R \in SUBSET (L.entries \X L.entries) :
          /\ Linked(L, R)
          /\ \A t, u \in L.entries : <<t, u>> \in R => f[u] <= f[t]
    BY DEF Good
  <1> DEFINE S == L.entries \ {s}
             Q == R \cap (S \X S)
  <1>2. Linked(remove(L, s), Q) /\ remove(L, s).entries = S
    BY <1>1, RemoveLinked, RemoveType DEF Lists
  <1>3. Q \in SUBSET (S \X S) /\ \A t, u \in S : <<t, u>> \in Q => f[u] <= f[t]
    BY <1>1
  <1> HIDE DEF Q, S
  <1> QED BY <1>2, <1>3 DEF Good

\* Inserting an entry of age 0 leaves a good list good (limiter.go, insert).
LEMMA InsertGood ==
  ASSUME NEW L \in Lists, NEW f \in [Sources -> Nat], NEW s \in Sources,
         s \notin L.entries, f[s] = 0, Good(L, f)
  PROVE  Good(insert(L, s), f)
  <1>1. PICK R \in SUBSET (L.entries \X L.entries) :
          /\ Linked(L, R)
          /\ \A t, u \in L.entries : <<t, u>> \in R => f[u] <= f[t]
    BY DEF Good
  <1> DEFINE S == L.entries \cup {s}
             Q == R \cup (L.entries \X {s})
  <1>2. Linked(insert(L, s), Q) /\ insert(L, s).entries = S
    BY <1>1, InsertLinked, InsertType
  <1>3. Q \in SUBSET (S \X S) /\ \A t, u \in S : <<t, u>> \in Q => f[u] <= f[t]
    <2>1. L.entries \subseteq Sources
      BY DEF Lists
    <2> QED BY <1>1, <2>1
  <1> HIDE DEF Q, S
  <1> QED BY <1>2, <1>3 DEF Good

\* Only the ages of a list's own entries matter to it.
LEMMA GoodAgrees ==
  ASSUME NEW L, NEW f, NEW g, \A t \in L.entries : f[t] = g[t], Good(L, f)
  PROVE  Good(L, g)
  BY DEF Good

\* What removing one element does to the size of a finite set.
LEMMA CardinalityMinus ==
  ASSUME NEW S, NEW x, IsFiniteSet(S)
  PROVE  /\ IsFiniteSet(S \ {x})
         /\ Cardinality(S) \in Nat /\ Cardinality(S \ {x}) \in Nat
         /\ Cardinality(S \ {x}) <= Cardinality(S)
         /\ x \in S => Cardinality(S \ {x}) = Cardinality(S) - 1
  <1>1. /\ IsFiniteSet(S \ {x})
        /\ Cardinality(S \ {x}) =
             IF x \in S THEN Cardinality(S) - 1 ELSE Cardinality(S)
    BY FS_RemoveElement
  <1>2. Cardinality(S) \in Nat /\ Cardinality(S \ {x}) \in Nat
    BY <1>1, FS_CardinalityType
  <1> QED BY <1>1, <1>2

\* FailureTable counts with the same Cardinality.
LEMMA SameCardinality == \A S : Table!Cardinality(S) = Cardinality(S)
  BY DEF Cardinality, Table!Cardinality, IsFiniteSet, Table!IsFiniteSet

\* A good list that is not empty has an oldest entry, and no entry is older.
LEMMA OldestIsOldest ==
  ASSUME NEW L \in Lists, NEW f \in [Sources -> Nat], Good(L, f), L.entries # {}
  PROVE  L.oldest \in L.entries /\ \A t \in L.entries : f[t] <= f[L.oldest]
  <1>1. L.entries \subseteq Sources
    BY DEF Lists
  <1>2. PICK R \in SUBSET (L.entries \X L.entries) :
          /\ Linked(L, R)
          /\ \A t, u \in L.entries : <<t, u>> \in R => f[u] <= f[t]
    BY DEF Good
  <1>3. /\ L.oldest \in L.entries
        /\ \A t \in L.entries : t = L.oldest \/ <<L.oldest, t>> \in R
    BY <1>2 DEF Linked
  <1>4. ASSUME NEW t \in L.entries PROVE f[t] <= f[L.oldest]
    <2>1. f[t] \in Nat
      BY <1>1
    <2>2. CASE t = L.oldest
      BY <2>1, <2>2
    <2>3. CASE <<L.oldest, t>> \in R
      BY <1>2, <1>3, <2>3
    <2> QED BY <1>3, <2>2, <2>3
  <1> QED BY <1>3, <1>4

-----------------------------------------------------------------------------
(***************************************************************************)
(* One lemma per method: it preserves Inv and is a step of FailureTable.   *)
(***************************************************************************)

\* Dropping an entry (expiry in blocked and record, reset, eviction).
LEMMA DropEntryStep ==
  ASSUME Inv, NEW s \in Sources, Found(s), dropEntry(s)
  PROVE  Inv' /\ Table!Forget({s})
  <1>0. list \in Lists /\ s \in list.entries /\ list.entries \subseteq Sources
    BY DEF Inv, TypeOK, Found, Lists
  <1>1. list' \in Lists /\ list'.entries = list.entries \ {s}
    BY <1>0, RemoveType DEF dropEntry
  <1>2. TypeOK'
    BY <1>1, LimiterAssumption DEF Inv, TypeOK, dropEntry, Cleared
  <1>3. WellLinked'
    <2>1. Good(list', age)
      BY <1>0, RemoveGood, WellLinkedIsGood DEF Inv, dropEntry
    <2>2. \A t \in list'.entries : age[t] = age'[t]
      BY <1>0, <1>1 DEF dropEntry, Cleared
    <2>3. Good(list', age')
      BY <2>1, <2>2, GoodAgrees
    <2> QED BY <2>3 DEF WellLinked, Good, AgesFollow
  <1>4. CountsMatchEntries'
    BY <1>0, <1>1 DEF Inv, CountsMatchEntries, dropEntry, Cleared
  <1>5. BoundedTable'
    <2>1. IsFiniteSet(list.entries) /\ Cardinality(list.entries) <= maxAuthSources
      BY DEF Inv, BoundedTable
    <2>2. /\ IsFiniteSet(list.entries \ {s})
          /\ Cardinality(list.entries \ {s}) = Cardinality(list.entries) - 1
          /\ Cardinality(list.entries) \in Nat
      BY <1>0, <2>1, FS_RemoveElement, FS_CardinalityType
    <2>3. Cardinality(list.entries \ {s}) <= maxAuthSources
      BY <2>1, <2>2, LimiterAssumption
    <2> QED BY <1>1, <2>2, <2>3 DEF BoundedTable
  <1>6. Table!Forget({s})
    BY DEF dropEntry, Cleared, Table!Forget
  <1> QED BY <1>2, <1>3, <1>4, <1>5, <1>6 DEF Inv

\* The table's view of a source is the list's (CountsMatchEntries).
LEMMA SameView ==
  ASSUME Inv
  PROVE  /\ Table!Tracked = list.entries
         /\ \A s \in Sources : Table!Expired(s) <=> Found(s) /\ Expired(s)
         /\ \A s \in Sources : Table!Live(s) <=> Found(s) /\ ~Expired(s)
  <1>1. list.entries \subseteq Sources
    BY DEF Inv, TypeOK, Lists
  <1> QED
    BY <1>1, LimiterAssumption
    DEF Inv, TypeOK, CountsMatchEntries, Found, Expired, Table!Tracked, Table!Expired,
        Table!Live

\* blocked drops an expired window and changes nothing else.
LEMMA BlockedStep ==
  ASSUME Inv, NEW s \in Sources, blocked(s)
  PROVE  Inv' /\ Table!Ask(s)
  <1>1. CASE Found(s) /\ Expired(s)
    BY <1>1, DropEntryStep, SameView DEF blocked, Table!Ask
  <1>2. CASE ~(Found(s) /\ Expired(s))
    <2>1. UNCHANGED vars /\ ~Table!Expired(s)
      BY <1>2, SameView DEF blocked
    <2> QED
      BY <2>1 DEF vars, Inv, TypeOK, WellLinked, AgesFollow, CountsMatchEntries, BoundedTable,
                  Table!Ask, Table!tableVars
  <1> QED BY <1>1, <1>2

\* reset forgets its source, and only its source.
LEMMA ResetStep ==
  ASSUME Inv, NEW s \in Sources, reset(s)
  PROVE  Inv' /\ Table!Reset(s)
  <1>1. CASE Found(s)
    BY <1>1, DropEntryStep DEF reset, Table!Reset
  <1>2. CASE ~Found(s)
    <2>1. UNCHANGED vars
      BY <1>2 DEF reset
    <2>2. Inv'
      BY <2>1 DEF vars, Inv, TypeOK, WellLinked, AgesFollow, CountsMatchEntries, BoundedTable
    <2>3. count[s] = 0 /\ age[s] = 0
      BY <1>2 DEF Inv, TypeOK, CountsMatchEntries, Found
    <2>4. Table!Forget({s})
      BY <2>1, <2>3 DEF vars, Inv, TypeOK, Table!Forget
    <2> QED BY <2>2, <2>4 DEF Table!Reset
  <1> QED BY <1>1, <1>2

\* A tick ages every live window alike, so it reorders nothing.
LEMMA TickStep ==
  ASSUME Inv, Tick
  PROVE  Inv' /\ Table!Tick
  <1>0. list.entries \subseteq Sources
    BY DEF Inv, TypeOK, Lists
  <1>1. TypeOK'
    BY LimiterAssumption DEF Inv, TypeOK, Tick, Expired, Found
  <1>2. WellLinked'
    <2>1. PICK R \in SUBSET (list.entries \X list.entries) :
            Linked(list, R) /\ AgesFollow(R)
      BY DEF Inv, WellLinked
    <2>2. AgesFollow(R)'
      BY <1>0, <2>1, LimiterAssumption DEF Inv, TypeOK, AgesFollow, Tick, Found, Expired
    <2>3. list' = list
      BY DEF Tick
    <2> QED BY <2>1, <2>2, <2>3 DEF WellLinked
  <1>3. CountsMatchEntries' /\ BoundedTable'
    BY <1>0 DEF Inv, TypeOK, CountsMatchEntries, BoundedTable, Tick, Found
  <1>4. Table!Tick
    BY SameView DEF Tick, Table!Tick
  <1> QED BY <1>1, <1>2, <1>3, <1>4 DEF Inv

\* A failure in a live window adds one to its count (or stutters at the bound)
\* and moves no window.
LEMMA CountFailureStep ==
  ASSUME Inv, NEW s \in Sources, Found(s), ~Expired(s), countFailure(s)
  PROVE  Inv' /\ (Table!Recount(s) \/ UNCHANGED <<count, age>>)
  <1>1. TypeOK' /\ CountsMatchEntries'
    BY DEF Inv, TypeOK, CountsMatchEntries, countFailure, Incremented, Found
  <1>2. WellLinked' /\ BoundedTable'
    BY DEF Inv, WellLinked, AgesFollow, BoundedTable, countFailure
  <1>3. Table!Recount(s) \/ UNCHANGED <<count, age>>
    <2>1. count[s] \in Nat /\ count \in [Sources -> Nat] /\ UNCHANGED age
      BY DEF Inv, TypeOK, countFailure
    <2>2. CASE count[s] < MaxCount
      BY <2>1, <2>2, SameView DEF countFailure, Incremented, Table!Recount
    <2>3. CASE ~(count[s] < MaxCount)
      BY <2>1, <2>3 DEF countFailure, Incremented
    <2> QED BY <2>2, <2>3
  <1> QED BY <1>1, <1>2, <1>3 DEF Inv

\* A failure outside a live window: s is the newest entry afterwards, and the
\* victim of a full table is one whose window opened first.
LEMMA OpenWindowStep ==
  ASSUME Inv, NEW s \in Sources, ~(Found(s) /\ ~Expired(s)), openWindow(s)
  PROVE  Inv' /\ \E V \in SUBSET Table!Tracked : Table!Open(s, V)
  <1> DEFINE kept == IF Found(s) THEN remove(list, s) ELSE list
             full == Cardinality(kept.entries) >= maxAuthSources
             room == IF full THEN remove(kept, kept.oldest) ELSE kept
             V    == IF full THEN {kept.oldest} ELSE {}
  <1>0. /\ list \in Lists /\ list.entries \subseteq Sources
        /\ count \in [Sources -> Nat] /\ age \in [Sources -> Nat]
        /\ Good(list, age)
        /\ IsFiniteSet(list.entries) /\ Cardinality(list.entries) <= maxAuthSources
    BY WellLinkedIsGood, LimiterAssumption DEF Inv, TypeOK, Lists, BoundedTable
  <1>1. /\ kept \in Lists /\ kept.entries = list.entries \ {s}
        /\ Good(kept, age)
    BY <1>0, RemoveType, RemoveGood DEF Found
  <1>2. IsFiniteSet(kept.entries) /\ Cardinality(kept.entries) \in Nat
        /\ Cardinality(kept.entries) <= maxAuthSources
    <2>1. /\ IsFiniteSet(list.entries \ {s}) /\ Cardinality(list.entries) \in Nat
          /\ Cardinality(list.entries \ {s}) \in Nat
          /\ Cardinality(list.entries \ {s}) <= Cardinality(list.entries)
      BY <1>0, CardinalityMinus
    <2>2. Cardinality(list.entries \ {s}) <= maxAuthSources
      BY <1>0, <2>1, LimiterAssumption
    <2> HIDE DEF kept
    <2> QED BY <1>1, <2>1, <2>2
  <1>3. ASSUME full
        PROVE  /\ kept.oldest \in kept.entries
               /\ \A t \in kept.entries : age[t] <= age[kept.oldest]
    <2>1. kept.entries # {}
      BY <1>2, <1>3, FS_EmptySet, LimiterAssumption
    <2> QED BY <1>0, <1>1, <2>1, OldestIsOldest
  <1>4. /\ list' = insert(room, s)
        /\ count' = [t \in Sources |-> IF t = s THEN 1 ELSE IF t \in V THEN 0 ELSE count[t]]
        /\ age' = [t \in Sources |-> IF t \in V \cup {s} THEN 0 ELSE age[t]]
    BY DEF openWindow, Cleared
  <1> HIDE DEF kept
  <1>5. /\ room \in Lists /\ room.entries = kept.entries \ V
        /\ Good(room, age)
    <2>1. CASE full
      <3>1. kept.oldest \in Sources /\ kept.oldest \in kept.entries
        BY <1>0, <1>1, <1>3, <2>1
      <3> QED BY <1>1, <2>1, <3>1, RemoveType, RemoveGood
    <2>2. CASE ~full
      BY <1>1, <2>2
    <2> QED BY <2>1, <2>2
  <1>6. /\ IsFiniteSet(room.entries) /\ Cardinality(room.entries) \in Nat
        /\ Cardinality(room.entries) < maxAuthSources
    <2>1. CASE full
      <3>1. room.entries = kept.entries \ {kept.oldest} /\ kept.oldest \in kept.entries
        BY <1>3, <1>5, <2>1
      <3>2. /\ IsFiniteSet(kept.entries \ {kept.oldest})
            /\ Cardinality(kept.entries \ {kept.oldest}) \in Nat
            /\ Cardinality(kept.entries \ {kept.oldest}) = Cardinality(kept.entries) - 1
        BY <1>2, <3>1, CardinalityMinus
      <3> HIDE DEF room, full
      <3> QED BY <1>2, <3>1, <3>2, LimiterAssumption
    <2>2. CASE ~full
      BY <1>2, <1>5, <2>2, LimiterAssumption
    <2> QED BY <2>1, <2>2
  <1>7. s \notin room.entries /\ s \notin V /\ V \subseteq kept.entries
    BY <1>1, <1>3, <1>5
  <1> HIDE DEF V, room, full
  <1>8. list' \in Lists /\ list'.entries = (list.entries \ V) \cup {s}
    BY <1>1, <1>4, <1>5, InsertType
  <1>9. TypeOK'
    BY <1>4, <1>8, LimiterAssumption DEF Inv, TypeOK
  <1>10. WellLinked'
    <2>1. age' \in [Sources -> Nat] /\ age'[s] = 0
      BY <1>0, <1>4
    <2>2. \A t \in room.entries : age[t] = age'[t]
      BY <1>0, <1>1, <1>4, <1>5, <1>7
    <2>3. Good(room, age')
      BY <1>5, <2>2, GoodAgrees
    <2>4. Good(list', age')
      BY <1>4, <1>5, <1>7, <2>1, <2>3, InsertGood
    <2> QED BY <2>4 DEF WellLinked, Good, AgesFollow
  <1>11. CountsMatchEntries'
    BY <1>0, <1>1, <1>4, <1>7, <1>8 DEF Inv, CountsMatchEntries
  <1>12. BoundedTable'
    <2>1. list'.entries = room.entries \cup {s}
      BY <1>1, <1>5, <1>8, <1>7
    <2>2. /\ IsFiniteSet(room.entries \cup {s})
          /\ Cardinality(room.entries \cup {s}) = Cardinality(room.entries) + 1
      BY <1>6, <1>7, FS_AddElement
    <2>3. Cardinality(room.entries \cup {s}) <= maxAuthSources
      BY <1>6, <2>2, LimiterAssumption
    <2> QED BY <2>1, <2>2, <2>3 DEF BoundedTable
  <1>13. V \in SUBSET Table!Tracked /\ Table!Open(s, V)
    <2>1. /\ Table!Tracked \ {s} = kept.entries /\ ~Table!Live(s)
          /\ V \in SUBSET Table!Tracked
      BY <1>1, <1>7, SameView
    <2>2. CASE full
      <3>1. V = {kept.oldest} /\ Cardinality(kept.entries) >= maxAuthSources
        BY <2>2 DEF V, full
      <3>2. \E v \in Table!Tracked \ {s} :
              V = {v} /\ \A t \in Table!Tracked \ {s} : age[t] <= age[v]
        BY <1>3, <2>1, <2>2, <3>1
      <3>3. Cardinality(Table!Tracked \ {s}) >= maxAuthSources
        BY <2>1, <3>1
      <3> QED BY <1>4, <2>1, <3>2, <3>3, SameCardinality DEF Table!Open
    <2>3. CASE ~full
      <3>1. V = {} /\ ~(Cardinality(kept.entries) >= maxAuthSources)
        BY <2>3 DEF V, full
      <3>2. ~(Cardinality(Table!Tracked \ {s}) >= maxAuthSources)
        BY <2>1, <3>1
      <3> QED BY <1>4, <2>1, <3>1, <3>2, SameCardinality DEF Table!Open
    <2> QED BY <2>1, <2>2, <2>3
  <1> QED BY <1>9, <1>10, <1>11, <1>12, <1>13 DEF Inv

\* record, whichever way it goes.
LEMMA RecordStep ==
  ASSUME Inv, NEW s \in Sources, record(s)
  PROVE  Inv' /\ (Table!Record(s) \/ UNCHANGED <<count, age>>)
  BY CountFailureStep, OpenWindowStep DEF record, Table!Record

-----------------------------------------------------------------------------
(***************************************************************************)
(* The theorems.                                                           *)
(***************************************************************************)

\* An empty limiter satisfies the invariant and is an empty table.
LEMMA InitStep ==
  ASSUME newAuthFailureLimiter
  PROVE  Inv /\ Table!TableInit
  <1>1. TypeOK /\ CountsMatchEntries /\ Table!TableInit
    BY LimiterAssumption
    DEF newAuthFailureLimiter, emptyList, TypeOK, Lists, Pointer, CountsMatchEntries,
        Table!TableInit
  <1>2. BoundedTable
    BY FS_EmptySet, LimiterAssumption DEF newAuthFailureLimiter, emptyList, BoundedTable
  <1>3. WellLinked
    <2>1. /\ list.entries = {} /\ list.oldest = Nil /\ list.newest = Nil
          /\ \A t \in Sources : list.older[t] = Nil /\ list.newer[t] = Nil
      BY DEF newAuthFailureLimiter, emptyList
    <2>2. Linked(list, {}) /\ AgesFollow({})
      BY <2>1 DEF Linked, Orders, AgesFollow
    <2>3. {} \in SUBSET (list.entries \X list.entries)
      OBVIOUS
    <2> QED BY <2>2, <2>3 DEF WellLinked
  <1> QED BY <1>1, <1>2, <1>3 DEF Inv

\* Every step of the limiter keeps the invariant and is a step of the table.
LEMMA NextStep ==
  ASSUME Inv, [Next]_vars
  PROVE  Inv' /\ [Table!TableNext]_(Table!tableVars)
  <1>1. CASE Tick
    BY <1>1, TickStep DEF Table!TableNext
  <1>2. ASSUME NEW s \in Sources, blocked(s) \/ record(s) \/ reset(s)
        PROVE  Inv' /\ [Table!TableNext]_(Table!tableVars)
    <2>1. CASE record(s)
      BY <2>1, RecordStep DEF Table!TableNext, Table!tableVars
    <2>2. CASE blocked(s) \/ reset(s)
      BY <2>2, BlockedStep, ResetStep DEF Table!TableNext
    <2> QED BY <1>2, <2>1, <2>2
  <1>3. CASE UNCHANGED vars
    BY <1>3 DEF vars, Inv, TypeOK, WellLinked, AgesFollow, CountsMatchEntries, BoundedTable,
                Table!tableVars
  <1> QED BY <1>1, <1>2, <1>3 DEF Next

\* TypeOK, WellLinked, CountsMatchEntries and BoundedTable hold in every
\* reachable state of the limiter, whatever its capacity, limit and window.
THEOREM LimiterInvariant == Spec => []Inv
  BY InitStep, NextStep, PTL DEF Spec

\* The map and the linked list agree, in window order, in every reachable
\* state (remove, insert).
THEOREM ListWellLinked == Spec => []WellLinked
  <1>1. Inv => WellLinked
    BY DEF Inv
  <1> QED BY <1>1, LimiterInvariant, PTL

\* The table never outgrows maxAuthSources (the eviction in record).
THEOREM TableBounded == Spec => []BoundedTable
  <1>1. Inv => BoundedTable
    BY DEF Inv
  <1> QED BY <1>1, LimiterInvariant, PTL

\* The linked list implements the abstract failure table.
THEOREM LimiterRefinesTable == Spec => RefinesTable
  BY InitStep, NextStep, LimiterInvariant, PTL DEF Spec, RefinesTable, Table!TableSpec

\* The limiter keeps its types: a pointer is an entry or nil (limiter.go).
THEOREM LimiterTypeOK == Spec => []TypeOK
  <1>1. Inv => TypeOK
    BY DEF Inv
  <1> QED BY <1>1, LimiterInvariant, PTL

\* No count is left behind without an entry, nor an entry without a count
\* (record, remove).
THEOREM LimiterCounts == Spec => []CountsMatchEntries
  <1>1. Inv => CountsMatchEntries
    BY DEF Inv
  <1> QED BY <1>1, LimiterInvariant, PTL
=============================================================================
