-------------------------- MODULE RelayServerProofs --------------------------
(***************************************************************************)
(* The relay server's accounting, its graceful drain and the limiter's     *)
(* overshoot, for any number of connections, sources and sessions.         *)
(***************************************************************************)
EXTENDS RelayServer, FiniteSetTheorems, TLAPS

-----------------------------------------------------------------------------
(***************************************************************************)
(* The inductive invariant.                                                *)
(***************************************************************************)

\* The two counters count the handlers between their defers, and the map
\* holds the sessions between track and untrack.
Accounted ==
  /\ sessions = Cardinality(At(Holding))
  /\ activeWait = Cardinality(At(Counted))
  /\ active = At(Session)
  /\ target \subseteq At({"openOK", "relay"})

\* The HTTP server tracks a connection exactly until Hijack.
HijackedLate == At(Tracked) \cap hijacked = {}

\* Where Shutdown is, against what it has seen.
Drained ==
  /\ listening => phase \in {"serving", "draining"}
  /\ waiter # "none" => phase \notin {"serving", "draining", "http"}
  /\ phase \notin {"serving", "draining", "http"} /\ ~httpErr => At(Tracked) = {}
  /\ waiter \in {"woken", "done"} /\ ~httpErr => activeWait = 0
  /\ waiter = "panicked" => httpErr
  /\ result = "nil" => ~httpErr /\ waiter = "done"

Inv == TypeOK /\ Accounted /\ HijackedLate /\ Drained

-----------------------------------------------------------------------------
(***************************************************************************)
(* How a handler's step moves the sets At(S) and their sizes.              *)
(***************************************************************************)

\* At(S) gains or loses the connection that moved.
LEMMA GotoAt ==
  ASSUME pc \in [Conns -> Labels], NEW CONSTANT S, NEW CONSTANT c \in Conns,
         NEW CONSTANT from, NEW CONSTANT to, Goto(c, from, to)
  PROVE  /\ At(S)' = IF to \in S THEN At(S) \cup {c} ELSE At(S) \ {c}
         /\ c \in At(S) <=> from \in S
  BY DEF At, Goto

\* Its size changes by one when the step enters or leaves S.
LEMMA GotoCardinality ==
  ASSUME pc \in [Conns -> Labels], NEW CONSTANT S, NEW CONSTANT c \in Conns,
         NEW CONSTANT from, NEW CONSTANT to, Goto(c, from, to)
  PROVE  /\ Cardinality(At(S)) \in Nat /\ Cardinality(At(S)') \in Nat
         /\ Cardinality(At(S)') =
              IF from \notin S /\ to \in S THEN Cardinality(At(S)) + 1
              ELSE IF from \in S /\ to \notin S THEN Cardinality(At(S)) - 1
              ELSE Cardinality(At(S))
  <1>1. IsFiniteSet(At(S))
    BY ServerAssumption, FS_Subset DEF At
  <1>2. /\ At(S)' = IF to \in S THEN At(S) \cup {c} ELSE At(S) \ {c}
        /\ c \in At(S) <=> from \in S
    BY GotoAt
  <1> DEFINE A == At(S)
             B == At(S)'
  <1>3. /\ IsFiniteSet(A) /\ B = IF to \in S THEN A \cup {c} ELSE A \ {c}
        /\ c \in A <=> from \in S
    BY <1>1, <1>2
  <1> HIDE DEF A, B
  <1>4. Cardinality(A) \in Nat
    BY <1>3, FS_CardinalityType
  <1>5. CASE to \in S
    <2>1. /\ IsFiniteSet(A \cup {c})
          /\ Cardinality(A \cup {c}) = IF c \in A THEN Cardinality(A) ELSE Cardinality(A) + 1
      BY <1>3, FS_AddElement
    <2> QED BY <1>3, <1>4, <1>5, <2>1 DEF A, B
  <1>6. CASE to \notin S
    <2>1. /\ IsFiniteSet(A \ {c})
          /\ Cardinality(A \ {c}) = IF c \in A THEN Cardinality(A) - 1 ELSE Cardinality(A)
      BY <1>3, FS_RemoveElement
    <2>2. Cardinality(A \ {c}) \in Nat
      BY <2>1, FS_CardinalityType
    <2> QED BY <1>3, <1>4, <1>6, <2>1, <2>2 DEF A, B
  <1> QED BY <1>5, <1>6

\* n moves with the entry to, or the exit from, S.
Follows(n, m, from, to, S) ==
  m = IF from \notin S /\ to \in S THEN n + 1
      ELSE IF from \in S /\ to \notin S THEN n - 1 ELSE n

\* What every step of a handler has in common.
Move(c, from, to) ==
  /\ Goto(c, from, to) /\ from \in Labels /\ to \in Labels
  /\ Follows(sessions, sessions', from, to, Holding)
  /\ from \notin Holding /\ to \in Holding => sessions < MaxSessions
  /\ Follows(activeWait, activeWait', from, to, Counted)
  /\ to \in Counted => from \in Counted \cup Tracked
  /\ active' = IF to \in Session THEN active \cup {c} ELSE active \ {c}
  /\ target' \subseteq target \cup {c}
  /\ to \in {"openOK", "relay"} \/ target' \subseteq target \ {c}
  /\ to \in Tracked => from \in Tracked \/ listening
  /\ hijacked' \subseteq hijacked \cup {c}
  /\ to \in Tracked => c \notin hijacked'
  /\ cancelled' \subseteq Conns /\ closed' \subseteq Conns
  /\ source' \in [Conns -> Sources]
  /\ UNCHANGED shutdownVars
  /\ \/ waiter' = waiter
     \/ waiter = "blocked" /\ waiter' = "woken" /\ activeWait' = 0

\* Every action of a handler is a Move.
LEMMA HandlerMoves ==
  ASSUME Inv, NEW c \in Conns,
         \/ \E peer \in Sources, forwarded \in Sources : Arrive(c, peer, forwarded)
         \/ OtherRequest(c) \/ Handler(c) \/ EndRelay(c)
  PROVE  \E from, to : Move(c, from, to)
  <1> USE DEF Move, Follows, Goto, Labels, Holding, Counted, Session, Tracked, shutdownVars
  <1>0. /\ active \subseteq Conns /\ target \subseteq Conns /\ hijacked \subseteq Conns
        /\ cancelled \subseteq Conns /\ closed \subseteq Conns
        /\ pc \in [Conns -> Labels] /\ source \in [Conns -> Sources]
        /\ sessions \in Nat /\ activeWait \in Nat
        /\ c \in active <=> pc[c] \in Session
        /\ c \in target => pc[c] \in {"openOK", "relay"}
        /\ pc[c] \in Tracked => c \notin hijacked
    BY ServerAssumption DEF Inv, TypeOK, Accounted, HijackedLate, At
  <1>1. ASSUME NEW peer \in Sources, NEW forwarded \in Sources, Arrive(c, peer, forwarded)
        PROVE  Move(c, "free", "new")
    BY <1>0, <1>1, ServerAssumption
    DEF Arrive, slotVars, authenticationSource, Sources
  <1>2. CASE OtherRequest(c)
    <2>1. Move(c, "new", "free")
      BY <1>0, <1>2 DEF OtherRequest, slotVars, connVars
    <2> QED BY <2>1
  <1>3. CASE CheckDraining(c)
    <2>1. Move(c, "new", IF draining THEN "free" ELSE "limit")
      BY <1>0, <1>3 DEF CheckDraining, slotVars, connVars
    <2> QED BY <2>1
  <1>4. CASE CheckBlocked(c)
    <2>1. Move(c, "limit", IF Failures!IsBlocked(source[c]) THEN "free" ELSE "acquire")
      BY <1>0, <1>4 DEF CheckBlocked, slotVars, connVars
    <2> QED BY <2>1
  <1>5. CASE Acquire(c)
    <2>1. CASE sessions < MaxSessions
      <3>1. Move(c, "acquire", "add")
        BY <1>0, <1>5, <2>1 DEF Acquire, connVars
      <3> QED BY <3>1
    <2>2. CASE ~(sessions < MaxSessions)
      <3>1. Move(c, "acquire", "free")
        BY <1>0, <1>5, <2>2 DEF Acquire, connVars
      <3> QED BY <3>1
    <2> QED BY <2>1, <2>2
  <1>6. CASE Add(c)
    <2>1. Move(c, "add", "upgrade")
      BY <1>0, <1>6 DEF Add, connVars
    <2> QED BY <2>1
  <1>7. CASE Upgrade(c)
    <2>1. Move(c, "upgrade", "done") \/ Move(c, "upgrade", "flush")
      BY <1>0, <1>7 DEF Upgrade, slotVars
    <2> QED BY <2>1
  <1>8. CASE Flush(c)
    <2>1. Move(c, "flush", "done") \/ Move(c, "flush", "track")
      BY <1>0, <1>8 DEF Flush, slotVars
    <2> QED BY <2>1
  <1>9. CASE Track(c)
    <2>1. Move(c, "track", "tls")
      BY <1>0, <1>9 DEF Track, slotVars, connVars
    <2> QED BY <2>1
  <1>10. CASE AcceptInnerTLS(c)
    <2>1. Move(c, "tls", "untrack") \/ Move(c, "tls", "hello")
      BY <1>0, <1>10 DEF AcceptInnerTLS, authenticationFailed, slotVars, connVars
    <2> QED BY <2>1
  <1>11. CASE Hello(c)
    <2>1. Move(c, "hello", "untrack") \/ Move(c, "hello", "helloOK")
      BY <1>0, <1>11 DEF Hello, authenticationFailed, slotVars, connVars
    <2> QED BY <2>1
  <1>12. CASE Exchange(c)
    <2>1. \/ Move(c, "helloOK", "open") \/ Move(c, "open", "resolve")
          \/ Move(c, "resolve", "dial")
      BY <1>0, <1>12 DEF Exchange, slotVars, connVars
    <2> QED BY <2>1
  <1>13. CASE Dial(c)
    <2>1. Move(c, "dial", "openOK")
      BY <1>0, <1>13 DEF Dial, slotVars, connVars
    <2> QED BY <2>1
  <1>14. CASE OpenOK(c)
    <2>1. Move(c, "openOK", "relay")
      BY <1>0, <1>14 DEF OpenOK, slotVars, connVars
    <2> QED BY <2>1
  <1>15. CASE FailSession(c)
    <2>1. PICK l \in {"hello", "helloOK", "open", "resolve", "dial", "openOK"} :
            Goto(c, l, "untrack")
      BY <1>15 DEF FailSession
    <2>2. Move(c, l, "untrack")
      BY <1>0, <1>15, <2>1 DEF FailSession, slotVars, connVars
    <2> QED BY <2>2
  <1>16. CASE EndRelay(c)
    <2>1. Move(c, "relay", "untrack")
      BY <1>0, <1>16 DEF EndRelay, slotVars, connVars
    <2> QED BY <2>1
  <1>17. CASE Untrack(c)
    <2>1. Move(c, "untrack", "cancel")
      BY <1>0, <1>17 DEF Untrack, slotVars, connVars
    <2> QED BY <2>1
  <1>18. CASE Cancel(c)
    <2>1. Move(c, "cancel", "done")
      BY <1>0, <1>18 DEF Cancel, slotVars
    <2> QED BY <2>1
  <1>19. CASE Done(c)
    <2>1. Move(c, "done", "release")
      BY <1>0, <1>19 DEF Done, connVars
    <2> QED BY <2>1
  <1>20. CASE Release(c)
    <2>1. Move(c, "release", "free")
      BY <1>0, <1>20 DEF Release, connVars
    <2> QED BY <2>1
  <1> QED
    BY <1>1, <1>2, <1>3, <1>4, <1>5, <1>6, <1>7, <1>8, <1>9, <1>10, <1>11, <1>12, <1>13,
       <1>14, <1>15, <1>16, <1>17, <1>18, <1>19, <1>20
    DEF Handler
-----------------------------------------------------------------------------
(***************************************************************************)
(* The limiter's part.                                                     *)
(***************************************************************************)

LimiterTypeOK == count \in [Sources -> Nat] /\ age \in [Sources -> 0 .. authFailureWindow]

\* The sessions that can still add a failure to s.
Pending(s) == {c \in At(Unproven) : source[c] = s}

Bounded(s) ==
  count[s] + Cardinality(Pending(s)) <= (authFailureLimit - 1) + Cardinality(Conns)

\* The limiter's operations keep counts and ages in their types.
LEMMA LimiterTyped ==
  ASSUME LimiterTypeOK,
         \/ UNCHANGED limiterVars \/ Failures!Tick
         \/ \E s \in Sources : Failures!Ask(s) \/ Failures!Record(s) \/ Failures!Reset(s)
  PROVE  LimiterTypeOK'
  <1> USE ServerAssumption DEF LimiterTypeOK
  <1>1. CASE UNCHANGED limiterVars
    BY <1>1 DEF limiterVars
  <1>2. CASE Failures!Tick
    BY <1>2 DEF Failures!Tick, Failures!Live
  <1>3. ASSUME NEW s \in Sources, Failures!Ask(s) PROVE LimiterTypeOK'
    BY <1>3 DEF Failures!Ask, Failures!Forget, Failures!tableVars
  <1>4. ASSUME NEW s \in Sources, Failures!Record(s) PROVE LimiterTypeOK'
    BY <1>4 DEF Failures!Record, Failures!Recount, Failures!Open
  <1>5. ASSUME NEW s \in Sources, Failures!Reset(s) PROVE LimiterTypeOK'
    BY <1>5 DEF Failures!Reset, Failures!Forget
  <1> QED BY <1>1, <1>2, <1>3, <1>4, <1>5

\* Which handler steps touch the limiter, and what they do to Pending.
LEMMA HandlerAndLimiter ==
  ASSUME Inv, NEW c \in Conns,
         \/ \E peer \in Sources, forwarded \in Sources : Arrive(c, peer, forwarded)
         \/ OtherRequest(c) \/ Handler(c) \/ EndRelay(c)
  PROVE  \/ UNCHANGED limiterVars /\ \A s \in Sources : Pending(s)' \subseteq Pending(s)
         \/ CheckBlocked(c)
         \/ \E l \in {"tls", "hello"} : authenticationFailed(c, l)
         \/ /\ Failures!Reset(source[c])
            /\ \A s \in Sources : Pending(s)' \subseteq Pending(s)
  <1> USE DEF Goto, Unproven, Pending, At, limiterVars
  <1>0. pc \in [Conns -> Labels] /\ source \in [Conns -> Sources]
    BY DEF Inv, TypeOK
  <1>1. ASSUME NEW peer \in Sources, NEW forwarded \in Sources, Arrive(c, peer, forwarded)
        PROVE  UNCHANGED limiterVars /\ \A s \in Sources : Pending(s)' \subseteq Pending(s)
    BY <1>0, <1>1 DEF Arrive
  <1>2. CASE OtherRequest(c) \/ CheckDraining(c)
    BY <1>0, <1>2 DEF OtherRequest, CheckDraining
  <1>3. CASE Acquire(c)
    BY <1>0, <1>3 DEF Acquire
  <1>4. CASE Add(c) \/ Upgrade(c) \/ Flush(c) \/ Track(c)
    BY <1>0, <1>4 DEF Add, Upgrade, Flush, Track
  <1>5. CASE AcceptInnerTLS(c)
    BY <1>0, <1>5 DEF AcceptInnerTLS
  <1>6. CASE Hello(c)
    BY <1>0, <1>6 DEF Hello
  <1>7. CASE Exchange(c) \/ Dial(c) \/ OpenOK(c)
    BY <1>0, <1>7 DEF Exchange, Dial, OpenOK
  <1>8. CASE FailSession(c) \/ EndRelay(c)
    BY <1>0, <1>8 DEF FailSession, EndRelay
  <1>9. CASE Untrack(c) \/ Cancel(c) \/ Done(c) \/ Release(c)
    BY <1>0, <1>9 DEF Untrack, Cancel, Done, Release
  <1> QED
    BY <1>1, <1>2, <1>3, <1>4, <1>5, <1>6, <1>7, <1>8, <1>9 DEF Handler

\* There are at most as many pending sessions as connections.
LEMMA PendingFinite ==
  ASSUME NEW CONSTANT s \in Sources
  PROVE  /\ IsFiniteSet(Pending(s)) /\ IsFiniteSet(Pending(s)')
         /\ Cardinality(Pending(s)) \in Nat /\ Cardinality(Pending(s)') \in Nat
         /\ Cardinality(Pending(s)) <= Cardinality(Conns)
         /\ Cardinality(Pending(s)') <= Cardinality(Conns)
         /\ Cardinality(Conns) \in Nat
  <1>1. Pending(s) \subseteq Conns /\ Pending(s)' \subseteq Conns
    BY DEF Pending, At
  <1> QED BY <1>1, ServerAssumption, FS_Subset, FS_CardinalityType

\* A smaller count and fewer pending sessions keep the bound.
LEMMA FewerIsBounded ==
  ASSUME LimiterTypeOK, LimiterTypeOK', NEW CONSTANT s \in Sources, Bounded(s),
         count'[s] <= count[s], Pending(s)' \subseteq Pending(s)
  PROVE  Bounded(s)'
  <1> DEFINE p == Cardinality(Pending(s))
             q == Cardinality(Pending(s)')
             k == Cardinality(Conns)
  <1>1. q <= p /\ p \in Nat /\ q \in Nat /\ k \in Nat
    BY PendingFinite, FS_Subset
  <1>2. count[s] \in Nat /\ count'[s] \in Nat /\ count[s] + p <= (authFailureLimit - 1) + k
    BY DEF LimiterTypeOK, Bounded
  <1> HIDE DEF p, q, k
  <1>3. count'[s] + q <= (authFailureLimit - 1) + k
    BY <1>1, <1>2, ServerAssumption
  <1> QED BY <1>3 DEF Bounded, q, k

\* The bound survives every step of a handler: a session enters Pending only
\* below the limit, and leaves it when its failure is counted.
LEMMA HandlerBounded ==
  ASSUME Inv, LimiterTypeOK', NEW c \in Conns,
         \/ \E peer \in Sources, forwarded \in Sources : Arrive(c, peer, forwarded)
         \/ OtherRequest(c) \/ Handler(c) \/ EndRelay(c),
         NEW CONSTANT s \in Sources, Bounded(s)
  PROVE  Bounded(s)'
  <1>0. /\ pc \in [Conns -> Labels] /\ source \in [Conns -> Sources] /\ LimiterTypeOK
        /\ count \in [Sources -> Nat] /\ count[s] \in Nat /\ source[c] \in Sources
        /\ authFailureLimit \in Nat \ {0}
    BY ServerAssumption DEF Inv, TypeOK, LimiterTypeOK
  <1>1. CASE UNCHANGED limiterVars /\ Pending(s)' \subseteq Pending(s)
    BY <1>0, <1>1, FewerIsBounded DEF limiterVars
  <1>2. CASE CheckBlocked(c)
    <2>1. CASE Failures!IsBlocked(source[c])
      <3>1. Pending(s)' \subseteq Pending(s)
        BY <1>0, <1>2, <2>1 DEF CheckBlocked, Goto, Pending, At, Unproven
      <3>2. count'[s] <= count[s]
        BY <1>0, <1>2 DEF CheckBlocked, Failures!Ask, Failures!Forget, Failures!tableVars
      <3> QED BY <1>0, <3>1, <3>2, FewerIsBounded
    <2>2. CASE ~Failures!IsBlocked(source[c]) /\ source[c] = s
      <3>0. age[s] \in Nat /\ authFailureWindow \in Nat /\ Failures!Ask(s)
        BY <1>0, <1>2, <2>2, ServerAssumption DEF LimiterTypeOK, CheckBlocked
      <3>1. count'[s] \in Nat /\ count'[s] <= authFailureLimit - 1
        <4>1. CASE Failures!Expired(s)
          BY <1>0, <3>0, <4>1 DEF Failures!Ask, Failures!Forget
        <4>2. CASE ~Failures!Expired(s)
          <5>1. count'[s] = count[s]
            BY <3>0, <4>2 DEF Failures!Ask, Failures!tableVars
          <5>2. count[s] < authFailureLimit
            BY <1>0, <2>2, <3>0, <4>2
            DEF Failures!IsBlocked, Failures!Live, Failures!Expired
          <5> QED BY <1>0, <5>1, <5>2
        <4> QED BY <4>1, <4>2
      <3> QED BY <1>0, <3>1, PendingFinite DEF Bounded
    <2>3. CASE source[c] # s
      <3>1. Pending(s)' \subseteq Pending(s)
        BY <1>0, <1>2, <2>3 DEF CheckBlocked, Goto, Pending, At, Unproven
      <3>2. count'[s] <= count[s]
        BY <1>0, <1>2 DEF CheckBlocked, Failures!Ask, Failures!Forget, Failures!tableVars
      <3> QED BY <1>0, <3>1, <3>2, FewerIsBounded
    <2> QED BY <2>1, <2>2, <2>3
  <1>3. ASSUME NEW l \in {"tls", "hello"}, authenticationFailed(c, l)
        PROVE  Bounded(s)'
    <2>1. CASE source[c] # s
      <3>1. Pending(s)' \subseteq Pending(s)
        BY <1>0, <1>3, <2>1 DEF authenticationFailed, Goto, Pending, At, Unproven
      <3>2. count'[s] <= count[s]
        BY <1>0, <1>3, <2>1
        DEF authenticationFailed, Failures!Record, Failures!Recount, Failures!Open
      <3> QED BY <1>0, <3>1, <3>2, FewerIsBounded
    <2>2. CASE source[c] = s
      <3>1. Pending(s)' = Pending(s) \ {c} /\ c \in Pending(s)
        BY <1>0, <1>3, <2>2 DEF authenticationFailed, Goto, Pending, At, Unproven
      <3> DEFINE p == Cardinality(Pending(s))
                 q == Cardinality(Pending(s)')
                 k == Cardinality(Conns)
      <3>2. q = p - 1 /\ p \in Nat /\ q \in Nat /\ k \in Nat /\ p <= k
        BY <3>1, PendingFinite, FS_RemoveElement
      <3>3. count'[s] \in Nat /\ (count'[s] = count[s] + 1 \/ count'[s] = 1)
        BY <1>0, <1>3, <2>2
        DEF authenticationFailed, Failures!Record, Failures!Recount, Failures!Open
      <3>4. count[s] + p <= (authFailureLimit - 1) + k
        BY DEF Bounded
      <3> HIDE DEF p, q, k
      <3>5. count'[s] + q <= (authFailureLimit - 1) + k
        BY <1>0, <3>2, <3>3, <3>4
      <3> QED BY <3>5 DEF Bounded, q, k
    <2> QED BY <2>1, <2>2
  <1>4. CASE Failures!Reset(source[c]) /\ Pending(s)' \subseteq Pending(s)
    <2>1. count'[s] <= count[s]
      BY <1>0, <1>4 DEF Failures!Reset, Failures!Forget
    <2> QED BY <1>0, <1>4, <2>1, FewerIsBounded
  <1> QED BY <1>1, <1>2, <1>3, <1>4, HandlerAndLimiter
-----------------------------------------------------------------------------
(***************************************************************************)
(* The invariant is inductive.                                             *)
(***************************************************************************)

\* The server starts with nothing to account for.
LEMMA InitInv == Init => Inv /\ \A s \in Sources : Bounded(s)
  <1> SUFFICES ASSUME Init PROVE Inv /\ \A s \in Sources : Bounded(s)
    OBVIOUS
  <1>1. \A S : "free" \notin S => At(S) = {}
    BY DEF Init, At
  <1>2. At(Holding) = {} /\ At(Counted) = {} /\ At(Session) = {} /\ At(Tracked) = {}
        /\ At({"openOK", "relay"}) = {} /\ At(Unproven) = {}
    BY <1>1 DEF Holding, Counted, Session, Tracked, Unproven
  <1>3. TypeOK
    <2>1. /\ pc \in [Conns -> Labels] /\ source \in [Conns -> Sources]
          /\ count \in [Sources -> Nat] /\ age \in [Sources -> 0 .. authFailureWindow]
          /\ sessions \in 0 .. MaxSessions /\ activeWait \in Nat
      BY ServerAssumption DEF Init, Labels, Failures!TableInit, Sources
    <2> QED BY <2>1 DEF Init, TypeOK
  <1>4. Accounted /\ HijackedLate /\ Drained
    BY <1>2, FS_EmptySet DEF Init, Accounted, HijackedLate, Drained
  <1>5. ASSUME NEW s \in Sources PROVE Bounded(s)
    <2>1. Pending(s) = {} /\ count[s] = 0
      BY <1>2 DEF Pending, Init, Failures!TableInit
    <2>2. Cardinality(Pending(s)) = 0 /\ Cardinality(Conns) \in Nat
      BY <2>1, FS_EmptySet, FS_CardinalityType, ServerAssumption
    <2> QED BY <2>1, <2>2, ServerAssumption DEF Bounded
  <1> QED BY <1>3, <1>4, <1>5 DEF Inv

\* A handler's step keeps the invariant.
LEMMA MoveInv ==
  ASSUME Inv, LimiterTypeOK', NEW CONSTANT c \in Conns,
         NEW CONSTANT from, NEW CONSTANT to, Move(c, from, to)
  PROVE  Inv'
  <1>0. /\ pc \in [Conns -> Labels] /\ Goto(c, from, to)
        /\ from \in Labels /\ to \in Labels
    BY DEF Inv, TypeOK, Move
  <1>1. /\ sessions' = Cardinality(At(Holding)') /\ sessions' \in Nat
        /\ activeWait' = Cardinality(At(Counted)') /\ activeWait' \in Nat
    <2>1. sessions = Cardinality(At(Holding)) /\ activeWait = Cardinality(At(Counted))
      BY DEF Inv, Accounted
    <2> QED BY <1>0, <2>1, GotoCardinality DEF Move, Follows
  <1>2. sessions' <= MaxSessions
    BY <1>0, <1>1, ServerAssumption DEF Inv, TypeOK, Move, Follows
  <1>3. TypeOK'
    <2>1. pc' \in [Conns -> Labels]
      BY <1>0 DEF Goto
    <2>2. waiter' \in {"none", "started", "blocked", "woken", "done", "panicked"}
      BY DEF Inv, TypeOK, Move
    <2>3. active' \subseteq Conns /\ hijacked' \subseteq Conns /\ target' \subseteq Conns
      BY DEF Inv, TypeOK, Move
    <2> QED
      BY <1>1, <1>2, <2>1, <2>2, <2>3, ServerAssumption
      DEF Inv, TypeOK, Move, LimiterTypeOK, shutdownVars
  <1>4. active' = At(Session)'
    <2>1. At(Session)' = IF to \in Session THEN At(Session) \cup {c} ELSE At(Session) \ {c}
      BY <1>0, GotoAt
    <2> QED BY <2>1 DEF Inv, Accounted, Move
  <1>5. target' \subseteq At({"openOK", "relay"})'
    <2> DEFINE S == {"openOK", "relay"}
    <2>1. At(S)' = IF to \in S THEN At(S) \cup {c} ELSE At(S) \ {c}
      BY <1>0, GotoAt
    <2>2. target \subseteq At(S)
      BY DEF Inv, Accounted
    <2>3. target' \subseteq target \cup {c} /\ (to \in S \/ target' \subseteq target \ {c})
      BY DEF Move
    <2> HIDE DEF S
    <2>4. target' \subseteq At(S)'
      BY <2>1, <2>2, <2>3
    <2> QED BY <2>4 DEF S
  <1>6. /\ At(Tracked)' = IF to \in Tracked THEN At(Tracked) \cup {c} ELSE At(Tracked) \ {c}
        /\ c \in At(Tracked) <=> from \in Tracked
    BY <1>0, GotoAt
  <1>7. HijackedLate'
    BY <1>6 DEF Inv, HijackedLate, Move
  <1>8. Drained'
    <2>1. /\ UNCHANGED <<listening, phase, httpErr, result>>
          /\ to \in Tracked => from \in Tracked \/ listening
      BY DEF Move, shutdownVars
    <2>2. phase \notin {"serving", "draining", "http"} /\ ~httpErr => At(Tracked)' = {}
      BY <1>6, <2>1 DEF Inv, Drained
    <2>3. ASSUME waiter' \in {"woken", "done"}, ~httpErr PROVE activeWait' = 0
      <3>1. CASE waiter' = waiter
        <4>1. activeWait = 0 /\ At(Tracked) = {}
          BY <2>3, <3>1 DEF Inv, Drained
        <4>2. At(Counted) = {}
          <5>1. IsFiniteSet(At(Counted)) /\ Cardinality(At(Counted)) = 0
            BY <4>1, ServerAssumption, FS_Subset DEF Inv, Accounted, At
          <5> QED BY <5>1, FS_EmptySet
        <4>3. from \notin Counted /\ from \notin Tracked
          BY <1>0, <1>6, <4>1, <4>2, GotoAt
        <4>4. to \in Counted => from \in Counted \cup Tracked
          BY DEF Move
        <4> QED BY <4>1, <4>3, <4>4 DEF Move, Follows
      <3>2. CASE waiter' = "woken" /\ activeWait' = 0
        BY <3>2
      <3> QED BY <3>1, <3>2 DEF Move
    <2> QED BY <2>1, <2>2, <2>3 DEF Inv, Drained, Move
  <1> QED BY <1>1, <1>3, <1>4, <1>5, <1>7, <1>8 DEF Inv, Accounted
\* Shutdown, the goroutine it starts and its deadline keep the invariant.
LEMMA ShutdownInv ==
  ASSUME Inv, StartDraining \/ Shutdown \/ Wait \/ Expire
  PROVE  Inv' /\ UNCHANGED handlerVars
  <1> USE DEF handlerVars, slotVars, limiterVars, connVars, shutdownVars, InPhase
  <1>1. ASSUME UNCHANGED <<pc, slotVars, active, target>>
        PROVE  Accounted' /\ At(Tracked)' = At(Tracked)
    BY <1>1 DEF Inv, Accounted, At
  <1>2. CASE StartDraining
    <2>1. TypeOK' /\ HijackedLate' /\ Drained'
      BY <1>2 DEF StartDraining, Inv, TypeOK, HijackedLate, Drained, At
    <2> QED BY <1>1, <1>2, <2>1 DEF StartDraining, Inv
  <1>3. CASE CloseListener
    <2>1. TypeOK' /\ HijackedLate' /\ Drained'
      BY <1>3 DEF CloseListener, Inv, TypeOK, HijackedLate, Drained, At
    <2> QED BY <1>1, <1>3, <2>1 DEF CloseListener, Inv
  <1>4. CASE HttpShutdownReturns
    <2>0. Accounted' /\ At(Tracked)' = At(Tracked)
      BY <1>1, <1>4 DEF HttpShutdownReturns
    <2>1. TypeOK' /\ HijackedLate'
      BY <1>4 DEF HttpShutdownReturns, Inv, TypeOK, HijackedLate, At
    <2>2. ASSUME ~httpErr' PROVE At(Tracked) = {}
      <3>1. HttpBusy = {}
        BY <1>4, <2>2 DEF HttpShutdownReturns
      <3> QED BY <3>1 DEF HttpBusy, Inv, HijackedLate, At, Tracked
    <2>3. Drained'
      <3>1. phase = "http" /\ phase' = "select" /\ waiter' = "started" /\ ~listening
            /\ listening' = listening /\ result' = result
        BY <1>4 DEF HttpShutdownReturns, Inv, Drained
      <3>2. result # "nil"
        BY <3>1 DEF Inv, Drained
      <3> QED BY <2>0, <2>2, <3>1, <3>2 DEF Drained
    <2> QED BY <1>4, <2>0, <2>1, <2>3 DEF HttpShutdownReturns, Inv
  <1>5. CASE Wait
    <2>1. TypeOK' /\ HijackedLate'
      BY <1>5 DEF Wait, Inv, TypeOK, HijackedLate, At
    <2>2. Drained'
      BY <1>1, <1>5 DEF Wait, Inv, Drained
    <2> QED BY <1>1, <1>5, <2>1, <2>2 DEF Wait, Inv
  <1>6. CASE SelectDone
    <2>1. TypeOK' /\ HijackedLate'
      BY <1>6 DEF SelectDone, Inv, TypeOK, HijackedLate, At
    <2>2. Drained'
      BY <1>1, <1>6 DEF SelectDone, Inv, Drained
    <2> QED BY <1>1, <1>6, <2>1, <2>2 DEF SelectDone, Inv
  <1>7. CASE SelectExpired
    <2>1. TypeOK' /\ HijackedLate'
      BY <1>7 DEF SelectExpired, Inv, TypeOK, HijackedLate, At
    <2>2. Drained'
      BY <1>1, <1>7 DEF SelectExpired, Inv, Drained
    <2> QED BY <1>1, <1>7, <2>1, <2>2 DEF SelectExpired, Inv
  <1>8. CASE Snapshot
    <2>1. TypeOK' /\ HijackedLate'
      BY <1>8 DEF Snapshot, Inv, TypeOK, HijackedLate, At
    <2>2. Drained'
      BY <1>1, <1>8 DEF Snapshot, Inv, Drained
    <2> QED BY <1>1, <1>8, <2>1, <2>2 DEF Snapshot, Inv
  <1>9. CASE LoopEnds
    <2>1. TypeOK' /\ HijackedLate'
      BY <1>9 DEF LoopEnds, Inv, TypeOK, HijackedLate, At
    <2>2. Drained'
      BY <1>1, <1>9 DEF LoopEnds, Inv, Drained
    <2> QED BY <1>1, <1>9, <2>1, <2>2 DEF LoopEnds, Inv
  <1>10. ASSUME NEW c \in Conns, CancelDoomed(c) \/ CloseDoomed(c)
         PROVE  Inv' /\ UNCHANGED handlerVars
    <2>1. TypeOK' /\ HijackedLate'
      BY <1>10 DEF CancelDoomed, CloseDoomed, Inv, TypeOK, HijackedLate, At
    <2>2. Drained'
      BY <1>1, <1>10 DEF CancelDoomed, CloseDoomed, Inv, Drained
    <2> QED BY <1>1, <1>10, <2>1, <2>2 DEF CancelDoomed, CloseDoomed, Inv
  <1>11. CASE Expire
    <2>1. TypeOK' /\ HijackedLate'
      BY <1>11 DEF Expire, Inv, TypeOK, HijackedLate, At
    <2>2. Drained'
      BY <1>1, <1>11 DEF Expire, Inv, Drained
    <2> QED BY <1>1, <1>11, <2>1, <2>2 DEF Expire, Inv
  <1> QED
    BY <1>2, <1>3, <1>4, <1>5, <1>6, <1>7, <1>8, <1>9, <1>10, <1>11 DEF Shutdown

\* Every step keeps the invariant and the limiter's bound.
LEMMA NextInv ==
  ASSUME Inv, [Next]_vars, \A s \in Sources : Bounded(s)
  PROVE  Inv' /\ \A s \in Sources : Bounded(s)'
  <1>0. LimiterTypeOK
    BY DEF Inv, TypeOK, LimiterTypeOK
  <1>1. ASSUME UNCHANGED <<pc, source, count>> PROVE \A s \in Sources : Bounded(s)'
    BY <1>1 DEF Bounded, Pending, At
  <1>2. ASSUME NEW c \in Conns,
               \/ \E peer \in Sources, forwarded \in Sources : Arrive(c, peer, forwarded)
               \/ OtherRequest(c) \/ Handler(c) \/ EndRelay(c)
        PROVE  Inv' /\ \A s \in Sources : Bounded(s)'
    <2>1. LimiterTypeOK'
      <3>1. \/ UNCHANGED limiterVars
            \/ \E s \in Sources : Failures!Ask(s) \/ Failures!Record(s) \/ Failures!Reset(s)
        <4>1. source[c] \in Sources
          BY DEF Inv, TypeOK
        <4> QED BY <1>2, <4>1, HandlerAndLimiter DEF CheckBlocked, authenticationFailed
      <3> QED BY <1>0, <3>1, LimiterTyped
    <2>2. \E from, to : Move(c, from, to)
      BY <1>2, HandlerMoves
    <2>3. Inv'
      BY <2>1, <2>2, MoveInv
    <2>4. \A s \in Sources : Bounded(s)'
      BY <1>2, <2>1, HandlerBounded
    <2> QED BY <2>3, <2>4
  <1>3. CASE StartDraining \/ Shutdown \/ Wait \/ Expire
    BY <1>1, <1>3, ShutdownInv DEF handlerVars, limiterVars
  <1>4. CASE Tick
    <2>1. LimiterTypeOK' /\ count' = count
      BY <1>0, <1>4, LimiterTyped DEF Tick, Failures!Tick
    <2>2. Inv'
      BY <1>4, <2>1
      DEF Tick, Inv, TypeOK, LimiterTypeOK, Accounted, HijackedLate, Drained, At, slotVars,
          connVars, shutdownVars
    <2> QED BY <1>1, <1>4, <2>1, <2>2 DEF Tick
  <1>5. ASSUME NEW c \in Conns, ExpireLifetime(c)
        PROVE  Inv' /\ \A s \in Sources : Bounded(s)'
    <2>1. Inv'
      BY <1>5
      DEF ExpireLifetime, Inv, TypeOK, Accounted, HijackedLate, Drained, At, limiterVars,
          slotVars, shutdownVars
    <2> QED BY <1>1, <1>5, <2>1 DEF ExpireLifetime, limiterVars
  <1>6. CASE UNCHANGED vars
    <2>1. Inv'
      BY <1>6
      DEF vars, Inv, TypeOK, Accounted, HijackedLate, Drained, At, limiterVars, slotVars,
          connVars, shutdownVars
    <2> QED BY <1>1, <1>6, <2>1 DEF vars, limiterVars
  <1> QED BY <1>2, <1>3, <1>4, <1>5, <1>6 DEF Next, Serve

-----------------------------------------------------------------------------
(***************************************************************************)
(* The theorems.                                                           *)
(***************************************************************************)

\* The counters, the map and the drain are consistent in every reachable state.
THEOREM ServerInvariant == Spec => [](Inv /\ \A s \in Sources : Bounded(s))
  <1>1. Inv /\ (\A s \in Sources : Bounded(s)) /\ [Next]_vars
          => Inv' /\ (\A s \in Sources : Bounded(s))'
    BY NextInv
  <1> QED BY <1>1, InitInv, PTL DEF Spec

\* Variables keep their types: in particular no counter goes below zero and
\* no more tokens are taken than the sessions channel holds.
THEOREM ServerTypeOK == Spec => []TypeOK
  <1>1. Inv => TypeOK
    BY DEF Inv
  <1> QED BY <1>1, ServerInvariant, PTL

\* Never more open targets than MaxSessions, each in a tracked session.
THEOREM ServerTargetsBounded == Spec => []TargetsBounded
  <1>1. Inv => TargetsBounded
    <2> SUFFICES ASSUME Inv PROVE TargetsBounded
      OBVIOUS
    <2>1. target \subseteq active
      BY DEF Inv, Accounted, At, Session
    <2>2. target \subseteq At(Holding) /\ IsFiniteSet(At(Holding))
      <3>1. target \subseteq At(Holding)
        BY DEF Inv, Accounted, At, Holding, Counted, Session
      <3> QED BY <3>1, ServerAssumption, FS_Subset DEF At
    <2>3. Cardinality(target) <= Cardinality(At(Holding)) /\ Cardinality(target) \in Nat
      BY <2>2, FS_Subset, FS_CardinalityType
    <2>4. Cardinality(At(Holding)) \in Nat /\ Cardinality(At(Holding)) <= MaxSessions
      BY ServerAssumption DEF Inv, TypeOK, Accounted
    <2>5. Cardinality(target) <= MaxSessions
      BY <2>3, <2>4, ServerAssumption
    <2> QED BY <2>1, <2>5 DEF TargetsBounded
  <1> QED BY <1>1, ServerInvariant, PTL

\* Only sessions admitted before a block overshoot the failure limit.
THEOREM ServerOvershootBounded == Spec => []OvershootBounded
  <1>1. (\A s \in Sources : Bounded(s)) => OvershootBounded
    BY DEF Bounded, Pending, OvershootBounded
  <1> QED BY <1>1, ServerInvariant, PTL

\* A Shutdown that returns nil left no session behind.
THEOREM ServerGracefulDrain == Spec => [](GracefulDrain /\ PanicOnlyAfterTimeout)
  <1>1. Inv => GracefulDrain /\ PanicOnlyAfterTimeout
    <2> SUFFICES ASSUME Inv PROVE GracefulDrain /\ PanicOnlyAfterTimeout
      OBVIOUS
    <2>1. PanicOnlyAfterTimeout
      BY DEF Inv, Drained, PanicOnlyAfterTimeout
    <2>2. ASSUME phase = "returned", result = "nil"
          PROVE  /\ At(Labels \ {"free", "release"}) = {} /\ active = {} /\ target = {}
                 /\ ~listening
      <3>1. At(Tracked) = {} /\ ~listening /\ activeWait = 0
        BY <2>2 DEF Inv, Drained
      <3>2. At(Counted) = {}
        <4>1. IsFiniteSet(At(Counted)) /\ Cardinality(At(Counted)) = 0
          BY <3>1, ServerAssumption, FS_Subset DEF Inv, Accounted, At
        <4> QED BY <4>1, FS_EmptySet
      <3>3. At(Labels \ {"free", "release"}) = {}
        BY <3>1, <3>2 DEF At, Labels, Holding, Tracked
      <3>4. active = {} /\ target = {}
        BY <3>2 DEF Inv, Accounted, At, Counted, Session
      <3> QED BY <3>1, <3>3, <3>4
    <2> QED BY <2>1, <2>2 DEF GracefulDrain
  <1> QED BY <1>1, ServerInvariant, PTL

\* WaitGroup.Wait panics only after http.Shutdown has timed out.
THEOREM ServerPanicOnlyAfterTimeout == Spec => []PanicOnlyAfterTimeout
  BY ServerGracefulDrain, PTL
=============================================================================
