------------------------- MODULE AuthFailureLimiter -------------------------
(***************************************************************************)
(* The relay's authentication-failure limiter, internal/relay/limiter.go:  *)
(* a map from a source to its entry, and a doubly linked list of the       *)
(* entries in the order their windows opened, so that a full table can     *)
(* evict the oldest in constant time.                                      *)
(*                                                                         *)
(* Every method holds limiter.mu from its first read to its last write, so *)
(* each is one action.  An entry is named by its source: a source has at   *)
(* most one live entry, and an entry that was removed is garbage.  The     *)
(* entry's start is kept as the age of its window, see FailureTable.       *)
(***************************************************************************)
EXTENDS Naturals, FiniteSets

CONSTANTS Sources,            \* rate-limit keys
          Nil,                \* the nil *authFailureEntry
          authFailureLimit,   \* failures that block a source
          authFailureWindow,  \* length of a window, in ticks
          maxAuthSources,     \* sources tracked at once
          MaxCount            \* bound: counts above it are not told apart

ASSUME LimiterAssumption ==
  /\ Nil \notin Sources
  /\ authFailureLimit \in Nat \ {0}
  /\ authFailureWindow \in Nat \ {0}
  /\ maxAuthSources \in Nat \ {0}
  /\ MaxCount \in Nat /\ MaxCount >= authFailureLimit

VARIABLES
  list,    \* the map's keys and the pointers: entries, older, newer, oldest, newest
  count,   \* entry.count, 0 for a source without an entry
  age      \* now - entry.start, 0 for a source without an entry

vars == <<list, count, age>>

Pointer == Sources \cup {Nil}

Lists == [entries : SUBSET Sources,
          older   : [Sources -> Pointer],
          newer   : [Sources -> Pointer],
          oldest  : Pointer,
          newest  : Pointer]

\* Counts, window ages and list cells have their Go types.
TypeOK ==
  /\ list \in Lists
  /\ count \in [Sources -> Nat]
  /\ age \in [Sources -> 0 .. authFailureWindow]

-----------------------------------------------------------------------------
(***************************************************************************)
(* The list.  L is the list before the call, the value the list after it.  *)
(***************************************************************************)

emptyList == [entries |-> {},
              older   |-> [t \in Sources |-> Nil],
              newer   |-> [t \in Sources |-> Nil],
              oldest  |-> Nil,
              newest  |-> Nil]

\* Mutant: the entry behind the removed one keeps pointing at it.
removeKeepsBackPointer(L, s) ==
  [entries |-> L.entries \ {s},
   oldest  |-> IF L.older[s] = Nil THEN L.newer[s] ELSE L.oldest,
   newest  |-> IF L.newer[s] = Nil THEN L.older[s] ELSE L.newest,
   newer   |-> [t \in Sources |->
                  IF t = s THEN Nil
                  ELSE IF t = L.older[s] THEN L.newer[s] ELSE L.newer[t]],
   older   |-> [t \in Sources |-> IF t = s THEN Nil ELSE L.older[t]]]

\* Unlinks s, whose neighbours then point at each other.
remove(L, s) ==
  LET behind == L.older[s]
      ahead  == L.newer[s]
  IN [entries |-> L.entries \ {s},
      oldest  |-> IF behind = Nil THEN ahead ELSE L.oldest,
      newest  |-> IF ahead = Nil THEN behind ELSE L.newest,
      newer   |-> [t \in Sources |->
                     IF t = s THEN Nil
                     ELSE IF t = behind THEN ahead ELSE L.newer[t]],
      older   |-> [t \in Sources |->
                     IF t = s THEN Nil
                     ELSE IF t = ahead THEN behind ELSE L.older[t]]]

\* Mutant: a new entry is linked in as the oldest one.
insertAtOldest(L, s) ==
  [entries |-> L.entries \cup {s},
   newest  |-> IF L.oldest = Nil THEN s ELSE L.newest,
   oldest  |-> s,
   older   |-> [t \in Sources |->
                  IF t = s THEN Nil
                  ELSE IF t = L.oldest THEN s ELSE L.older[t]],
   newer   |-> [t \in Sources |-> IF t = s THEN L.oldest ELSE L.newer[t]]]

\* Links s in as the newest entry.
insert(L, s) ==
  [entries |-> L.entries \cup {s},
   oldest  |-> IF L.newest = Nil THEN s ELSE L.oldest,
   newest  |-> s,
   older   |-> [t \in Sources |-> IF t = s THEN L.newest ELSE L.older[t]],
   newer   |-> [t \in Sources |->
                  IF t = s THEN Nil
                  ELSE IF t = L.newest THEN s ELSE L.newer[t]]]

-----------------------------------------------------------------------------
(***************************************************************************)
(* The methods.                                                            *)
(***************************************************************************)

Found(s) == s \in list.entries

Expired(s) == age[s] >= authFailureWindow

\* What blocked(s) answers.
IsBlocked(s) == Found(s) /\ ~Expired(s) /\ count[s] >= authFailureLimit

\* The entries of V are gone: their counts and windows with them.
Cleared(f, V) == [t \in Sources |-> IF t \in V THEN 0 ELSE f[t]]

newAuthFailureLimiter ==
  /\ list = emptyList
  /\ count = [s \in Sources |-> 0]
  /\ age = [s \in Sources |-> 0]

\* Mutant: a dropped entry's failures are still counted when it returns.
dropEntryKeepsCount(s) ==
  /\ list' = remove(list, s)
  /\ age' = Cleared(age, {s})
  /\ UNCHANGED count

dropEntry(s) ==
  /\ list' = remove(list, s)
  /\ count' = Cleared(count, {s})
  /\ age' = Cleared(age, {s})

\* An expired entry is dropped; otherwise blocked only answers.
blocked(s) ==
  IF Found(s) /\ Expired(s) THEN dropEntry(s) ELSE UNCHANGED vars

\* Mutant: the table may grow one entry past its capacity.
openWindowOffByOne(s) ==
  LET kept == IF Found(s) THEN remove(list, s) ELSE list
      full == Cardinality(kept.entries) > maxAuthSources
      room == IF full THEN remove(kept, kept.oldest) ELSE kept
      gone == IF full THEN {s, kept.oldest} ELSE {s}
  IN /\ list' = insert(room, s)
     /\ count' = [Cleared(count, gone) EXCEPT ![s] = 1]
     /\ age' = Cleared(age, gone)

\* A failure outside a live window: an expired entry is dropped first, a
\* full table loses its oldest entry, and s is inserted with one failure.
openWindow(s) ==
  LET kept == IF Found(s) THEN remove(list, s) ELSE list
      full == Cardinality(kept.entries) >= maxAuthSources
      room == IF full THEN remove(kept, kept.oldest) ELSE kept
      gone == IF full THEN {s, kept.oldest} ELSE {s}
  IN /\ list' = insert(room, s)
     /\ count' = [Cleared(count, gone) EXCEPT ![s] = 1]
     /\ age' = Cleared(age, gone)

\* count++, as far as the bound goes.
Incremented(n) == IF n < MaxCount THEN n + 1 ELSE n

\* Mutant: every failure restarts the window of its source.
countFailureRestartsWindow(s) ==
  /\ count' = [count EXCEPT ![s] = Incremented(@)]
  /\ age' = [age EXCEPT ![s] = 0]
  /\ UNCHANGED list

\* A failure in a live window.
countFailure(s) ==
  /\ count' = [count EXCEPT ![s] = Incremented(@)]
  /\ UNCHANGED <<list, age>>

record(s) ==
  IF Found(s) /\ ~Expired(s) THEN countFailure(s) ELSE openWindow(s)

\* Mutant: a good HELLO takes one failure back and leaves the entry.
resetForgivesOne(s) ==
  IF Found(s)
    THEN count' = [count EXCEPT ![s] = @ - 1] /\ UNCHANGED <<list, age>>
    ELSE UNCHANGED vars

reset(s) == IF Found(s) THEN dropEntry(s) ELSE UNCHANGED vars

\* The clock moves on by one tick for every entry.
Tick ==
  /\ age' = [s \in Sources |->
               IF Found(s) /\ ~Expired(s) THEN age[s] + 1 ELSE age[s]]
  /\ UNCHANGED <<list, count>>

Next ==
  \/ Tick
  \/ \E s \in Sources :
       \/ blocked(s)
       \/ record(s)
       \/ reset(s)

Spec == newAuthFailureLimiter /\ [][Next]_vars

\* Time passes; nothing obliges anyone to call the limiter.
FairSpec == Spec /\ WF_vars(Tick)

-----------------------------------------------------------------------------
(***************************************************************************)
(* What makes the list right.                                              *)
(***************************************************************************)

\* R orders the set S strictly and totally.
Orders(R, S) ==
  /\ R \subseteq S \X S
  /\ \A t \in S : <<t, t>> \notin R
  /\ \A t, u \in S : t = u \/ <<t, u>> \in R \/ <<u, t>> \in R
  /\ \A t, u, v \in S : <<t, u>> \in R /\ <<u, v>> \in R => <<t, v>> \in R

\* p is the R-predecessor of t in S, Nil when t has none.
IsBefore(R, S, t, p) ==
  IF p = Nil
    THEN \A u \in S : <<u, t>> \notin R
    ELSE /\ p \in S /\ <<p, t>> \in R
         /\ \A u \in S : <<u, t>> \in R => u = p \/ <<u, p>> \in R

\* p is the R-successor of t in S, Nil when t has none.
IsAfter(R, S, t, p) ==
  IF p = Nil
    THEN \A u \in S : <<t, u>> \notin R
    ELSE /\ p \in S /\ <<t, p>> \in R
         /\ \A u \in S : <<t, u>> \in R => u = p \/ <<p, u>> \in R

\* The pointers of L spell out the order R of its entries, from oldest to
\* newest in one direction and back in the other.
Linked(L, R) ==
  /\ Orders(R, L.entries)
  /\ \A t \in L.entries : IsBefore(R, L.entries, t, L.older[t])
  /\ \A t \in L.entries : IsAfter(R, L.entries, t, L.newer[t])
  /\ IF L.oldest = Nil THEN L.entries = {}
     ELSE /\ L.oldest \in L.entries
          /\ \A u \in L.entries : u = L.oldest \/ <<L.oldest, u>> \in R
  /\ IF L.newest = Nil THEN L.entries = {}
     ELSE /\ L.newest \in L.entries
          /\ \A u \in L.entries : u = L.newest \/ <<u, L.newest>> \in R
  /\ \A t \in Sources \ L.entries : L.older[t] = Nil /\ L.newer[t] = Nil

\* An entry that is further back in the list has the older window.
AgesFollow(R) == \A t, u \in list.entries : <<t, u>> \in R => age[u] <= age[t]

\* After any sequence of calls, the map and the list agree: walking newer
\* from oldest, or older from newest, meets exactly the map's entries, once
\* each, in the order their windows opened (remove, insert; the comment in
\* record says the list is ordered by window start).
WellLinked ==
  \E R \in SUBSET (list.entries \X list.entries) : Linked(list, R) /\ AgesFollow(R)

\* A source has an entry exactly when it has a failure to its name: record
\* counts every entry it inserts, and remove leaves no count behind.
CountsMatchEntries ==
  \A s \in Sources :
    /\ count[s] > 0 <=> s \in list.entries
    /\ s \notin list.entries => age[s] = 0

\* However many sources fail, the table never holds more than its capacity
\* (the eviction in record).
BoundedTable ==
  IsFiniteSet(list.entries) /\ Cardinality(list.entries) <= maxAuthSources

\* The linked list implements the abstract table: in particular the victim
\* of an eviction is one with the earliest window, a failure never moves a
\* live window, and nothing but reset, expiry and eviction forgets a source.
Table == INSTANCE FailureTable

RefinesTable == Table!TableSpec

\* A blocked source is let in again once its window has passed, even if
\* sessions that were admitted before the block go on failing (record does
\* not move entry.start).
BlockEnds == \A s \in Sources : IsBlocked(s) ~> ~IsBlocked(s)
=============================================================================
