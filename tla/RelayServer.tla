----------------------------- MODULE RelayServer -----------------------------
(***************************************************************************)
(* The relay server, internal/relay/server.go: the HTTP handler that       *)
(* admits and runs sessions, and Shutdown, which drains them.              *)
(*                                                                         *)
(* Each element of Conns is a place for one connection to the HTTP server; *)
(* when its handler has returned, the place is free for another.  The pc   *)
(* of a place is the point its handler has reached, one label per access   *)
(* to state that handlers or Shutdown share.  The limiter is the abstract  *)
(* FailureTable, which AuthFailureLimiter implements.  net/http's listener *)
(* and Shutdown, sync.WaitGroup and context are external: they are         *)
(* modelled by what this code relies on.                                   *)
(***************************************************************************)
EXTENDS Naturals, FiniteSets

CONSTANTS Conns,              \* connections the HTTP server can have at once
          Addresses,          \* client addresses
          LocalAddresses,     \* the loopback and private ones among them
          Unknown,            \* no address; also the key of an unknown source
          authFailureLimit, authFailureWindow, maxAuthSources,
          MaxSessions,        \* config.Limits.MaxSessions
          ClientPins,         \* TRUE if the server pins client certificates
          HasLifetime         \* TRUE if config.Timeouts.MaxLifetime > 0

Sources == Addresses \cup {Unknown}

ASSUME ServerAssumption ==
  /\ IsFiniteSet(Conns)
  /\ LocalAddresses \subseteq Addresses
  /\ Unknown \notin Addresses
  /\ authFailureLimit \in Nat \ {0}
  /\ authFailureWindow \in Nat \ {0}
  /\ maxAuthSources \in Nat \ {0}
  /\ MaxSessions \in Nat \ {0}
  /\ ClientPins \in BOOLEAN
  /\ HasLifetime \in BOOLEAN

VARIABLES
  pc,         \* where the handler of each connection is
  source,     \* the handler's rate-limit key
  count, age, \* server.failures
  sessions,   \* tokens in the server.sessions channel
  activeWait, \* the WaitGroup's counter
  active,     \* keys of the server.active map
  hijacked,   \* connections the HTTP server no longer tracks
  cancelled,  \* sessions whose context is done
  closed,     \* sessions whose WebSocket is closed
  target,     \* sessions with an open connection to their target
  draining,   \* server.draining
  listening,  \* FALSE once http.Shutdown has closed the listener
  phase,      \* where Shutdown is
  httpErr,    \* http.Shutdown returned the context's error
  expired,    \* Shutdown's context is done
  waiter,     \* the goroutine in activeWait.Wait
  doomed,     \* closeActive's snapshot of active
  result      \* what Shutdown returned

limiterVars  == <<count, age>>
slotVars     == <<sessions, activeWait>>
connVars     == <<hijacked, cancelled, closed>>
shutdownVars == <<draining, listening, phase, httpErr, expired, doomed, result>>
vars == <<pc, source, limiterVars, slotVars, active, connVars, target,
          shutdownVars, waiter>>

Failures == INSTANCE FailureTable

\* Before Hijack the HTTP server tracks the connection and Shutdown awaits it.
Tracked == {"new", "limit", "acquire", "add", "upgrade"}
\* Between track and untrack.
Session == {"tls", "hello", "helloOK", "open", "resolve", "dial", "openOK",
            "relay", "untrack"}
\* Between activeWait.Add and Done.
Counted == {"upgrade", "flush", "track", "cancel", "done"} \cup Session
\* A token of the sessions channel is held.
Holding == {"add", "release"} \cup Counted
\* The source was admitted and has not shown a good or a bad HELLO yet.
Unproven == {"acquire", "add", "upgrade", "flush", "track", "tls", "hello"}

Labels == {"free"} \cup Tracked \cup Holding

At(S) == {c \in Conns : pc[c] \in S}

TypeOK ==
  /\ pc \in [Conns -> Labels]
  /\ source \in [Conns -> Sources]
  /\ count \in [Sources -> Nat]
  /\ age \in [Sources -> 0 .. authFailureWindow]
  /\ sessions \in 0 .. MaxSessions
  /\ activeWait \in Nat
  /\ active \subseteq Conns
  /\ hijacked \subseteq Conns
  /\ cancelled \subseteq Conns
  /\ closed \subseteq Conns
  /\ target \subseteq Conns
  /\ draining \in BOOLEAN
  /\ listening \in BOOLEAN
  /\ phase \in {"serving", "draining", "http", "select", "forced", "cancelling",
                "closing", "await", "returned"}
  /\ httpErr \in BOOLEAN
  /\ expired \in BOOLEAN
  /\ waiter \in {"none", "started", "blocked", "woken", "done", "panicked"}
  /\ doomed \subseteq Conns
  /\ result \in {"none", "nil", "error"}

Init ==
  /\ pc = [c \in Conns |-> "free"]
  /\ source = [c \in Conns |-> Unknown]
  /\ Failures!TableInit
  /\ sessions = 0
  /\ activeWait = 0
  /\ active = {}
  /\ hijacked = {}
  /\ cancelled = {}
  /\ closed = {}
  /\ target = {}
  /\ draining = FALSE
  /\ listening = TRUE
  /\ phase = "serving"
  /\ httpErr = FALSE
  /\ expired = FALSE
  /\ waiter = "none"
  /\ doomed = {}
  /\ result = "none"

\* A panic in any goroutine ends the process.
Alive == waiter # "panicked"

\* The handler of c moves from one label to the next.
Goto(c, from, to) == Alive /\ pc[c] = from /\ pc' = [pc EXCEPT ![c] = to]

-----------------------------------------------------------------------------
(***************************************************************************)
(* Admission: ServeHTTP up to the tracked session.                         *)
(***************************************************************************)

\* The key a request is limited by: the forwarded address counts only when
\* the direct peer is local.  Unknown stands for an address that is missing
\* or does not parse.
authenticationSource(peer, forwarded) ==
  IF peer \in LocalAddresses /\ forwarded # Unknown THEN forwarded ELSE peer

\* A connection is accepted and its request is on its way.
Arrive(c, peer, forwarded) ==
  /\ listening
  /\ Goto(c, "free", "new")
  /\ source' = [source EXCEPT ![c] = authenticationSource(peer, forwarded)]
  /\ hijacked' = hijacked \ {c}
  /\ cancelled' = cancelled \ {c}
  /\ closed' = closed \ {c}
  /\ UNCHANGED <<limiterVars, slotVars, active, target, shutdownVars, waiter>>

\* A health check or another path: answered, and nothing else.
OtherRequest(c) ==
  /\ Goto(c, "new", "free")
  /\ UNCHANGED <<source, limiterVars, slotVars, active, connVars, target,
                 shutdownVars, waiter>>

CheckDraining(c) ==
  /\ Goto(c, "new", IF draining THEN "free" ELSE "limit")
  /\ UNCHANGED <<source, limiterVars, slotVars, active, connVars, target,
                 shutdownVars, waiter>>

\* Mutant: a blocked source is let through.
CheckBlockedIgnored(c) ==
  /\ Goto(c, "limit", "acquire")
  /\ Failures!Ask(source[c])
  /\ UNCHANGED <<source, slotVars, active, connVars, target, shutdownVars, waiter>>

CheckBlocked(c) ==
  /\ Goto(c, "limit", IF Failures!IsBlocked(source[c]) THEN "free" ELSE "acquire")
  /\ Failures!Ask(source[c])
  /\ UNCHANGED <<source, slotVars, active, connVars, target, shutdownVars, waiter>>

\* Mutant: the channel is one token too long.
AcquireOffByOne(c) ==
  /\ IF sessions <= MaxSessions
       THEN Goto(c, "acquire", "add") /\ sessions' = sessions + 1
       ELSE Goto(c, "acquire", "free") /\ UNCHANGED sessions
  /\ UNCHANGED <<source, limiterVars, activeWait, active, connVars, target,
                 shutdownVars, waiter>>

\* The select with a default: a full channel refuses at once.
Acquire(c) ==
  /\ IF sessions < MaxSessions
       THEN Goto(c, "acquire", "add") /\ sessions' = sessions + 1
       ELSE Goto(c, "acquire", "free") /\ UNCHANGED sessions
  /\ UNCHANGED <<source, limiterVars, activeWait, active, connVars, target,
                 shutdownVars, waiter>>

Add(c) ==
  /\ Goto(c, "add", "upgrade")
  /\ activeWait' = activeWait + 1
  /\ UNCHANGED <<source, limiterVars, sessions, active, connVars, target,
                 shutdownVars, waiter>>

\* Mutant: a refused upgrade returns without its deferred Done.
UpgradeLeaksCount(c) ==
  /\ \/ Goto(c, "upgrade", "release") /\ UNCHANGED hijacked
     \/ Goto(c, "upgrade", "flush") /\ hijacked' = hijacked \cup {c}
  /\ UNCHANGED <<source, limiterVars, slotVars, active, cancelled, closed, target,
                 shutdownVars, waiter>>

\* AcceptWebSocket up to Hijack: a request that is no valid upgrade is
\* refused; otherwise the HTTP server stops tracking the connection.
Upgrade(c) ==
  /\ \/ Goto(c, "upgrade", "done") /\ UNCHANGED hijacked
     \/ Goto(c, "upgrade", "flush") /\ hijacked' = hijacked \cup {c}
  /\ UNCHANGED <<source, limiterVars, slotVars, active, cancelled, closed, target,
                 shutdownVars, waiter>>

\* The 101 response is written, or the connection is closed.
Flush(c) ==
  /\ \/ Goto(c, "flush", "done") /\ closed' = closed \cup {c}
     \/ Goto(c, "flush", "track") /\ UNCHANGED closed
  /\ UNCHANGED <<source, limiterVars, slotVars, active, hijacked, cancelled, target,
                 shutdownVars, waiter>>

\* sessionContext and track.
Track(c) ==
  /\ Goto(c, "track", "tls")
  /\ active' = active \cup {c}
  /\ UNCHANGED <<source, limiterVars, slotVars, connVars, target, shutdownVars, waiter>>

-----------------------------------------------------------------------------
(***************************************************************************)
(* handleSession.  Its deferred closes of the inner connection and of the  *)
(* target run before ServeHTTP's deferred untrack.                         *)
(***************************************************************************)

\* Mutant: a session that fails after its dial leaves the target open.
FailSessionKeepsTarget(c) ==
  /\ \E l \in {"helloOK", "open", "resolve", "dial", "openOK"} : Goto(c, l, "untrack")
  /\ UNCHANGED <<source, limiterVars, slotVars, active, connVars, target, shutdownVars,
                 waiter>>

\* Any step of the exchange can fail: the peer leaves, a deadline passes, a
\* message is malformed, a destination is refused, a dial fails.  A WebSocket
\* that was closed takes no deadline, which ends the session before HELLO.
FailSession(c) ==
  /\ \/ c \in closed /\ Goto(c, "hello", "untrack")
     \/ \E l \in {"helloOK", "open", "resolve", "dial", "openOK"} : Goto(c, l, "untrack")
  /\ target' = target \ {c}
  /\ UNCHANGED <<source, limiterVars, slotVars, active, connVars, shutdownVars, waiter>>

authenticationFailed(c, l) ==
  /\ Goto(c, l, "untrack")
  /\ Failures!Record(source[c])
  /\ UNCHANGED <<source, slotVars, active, connVars, target, shutdownVars, waiter>>

\* AcceptInnerTLS.  With client pins every failure is metered, without them
\* none is.  The handshake cannot succeed on a session that was cut off.
AcceptInnerTLS(c) ==
  \/ ClientPins /\ authenticationFailed(c, "tls")
  \/ /\ \/ ~ClientPins /\ Goto(c, "tls", "untrack")
        \/ c \notin cancelled \cup closed /\ Goto(c, "tls", "hello")
     /\ UNCHANGED <<source, limiterVars, slotVars, active, connVars, target,
                    shutdownVars, waiter>>

\* HELLO: a missing, malformed or wrong one is metered, a good one clears the
\* source.
Hello(c) ==
  \/ authenticationFailed(c, "hello")
  \/ /\ Goto(c, "hello", "helloOK")
     /\ Failures!Reset(source[c])
     /\ UNCHANGED <<source, slotVars, active, connVars, target, shutdownVars, waiter>>

\* HELLO_OK is sent, OPEN read, its destination resolved.
Exchange(c) ==
  /\ \/ c \notin closed /\ Goto(c, "helloOK", "open")
     \/ Goto(c, "open", "resolve")
     \/ Goto(c, "resolve", "dial")
  /\ UNCHANGED <<source, limiterVars, slotVars, active, connVars, target,
                 shutdownVars, waiter>>

Dial(c) ==
  /\ c \notin cancelled
  /\ Goto(c, "dial", "openOK")
  /\ target' = target \cup {c}
  /\ UNCHANGED <<source, limiterVars, slotVars, active, connVars, shutdownVars, waiter>>

\* OPEN_OK is sent and the deadlines are cleared.
OpenOK(c) ==
  /\ c \notin closed
  /\ Goto(c, "openOK", "relay")
  /\ UNCHANGED <<source, limiterVars, slotVars, active, connVars, target,
                 shutdownVars, waiter>>

\* Copy returns, for whatever reason.
EndRelay(c) ==
  /\ Goto(c, "relay", "untrack")
  /\ target' = target \ {c}
  /\ UNCHANGED <<source, limiterVars, slotVars, active, connVars, shutdownVars, waiter>>

\* MaxLifetime runs out.
ExpireLifetime(c) ==
  /\ HasLifetime /\ Alive
  /\ pc[c] \in Session
  /\ cancelled' = cancelled \cup {c}
  /\ UNCHANGED <<pc, source, limiterVars, slotVars, active, hijacked, closed, target,
                 shutdownVars, waiter>>

-----------------------------------------------------------------------------
(***************************************************************************)
(* ServeHTTP's deferred calls.                                             *)
(***************************************************************************)

Untrack(c) ==
  /\ Goto(c, "untrack", "cancel")
  /\ active' = active \ {c}
  /\ UNCHANGED <<source, limiterVars, slotVars, connVars, target, shutdownVars, waiter>>

\* cancel() and websocket.Close().
Cancel(c) ==
  /\ Goto(c, "cancel", "done")
  /\ cancelled' = cancelled \cup {c}
  /\ closed' = closed \cup {c}
  /\ UNCHANGED <<source, limiterVars, slotVars, active, hijacked, target,
                 shutdownVars, waiter>>

\* Done on the last session wakes a blocked Wait.
Done(c) ==
  /\ Goto(c, "done", "release")
  /\ activeWait' = activeWait - 1
  /\ waiter' = IF activeWait = 1 /\ waiter = "blocked" THEN "woken" ELSE waiter
  /\ UNCHANGED <<source, limiterVars, sessions, active, connVars, target, shutdownVars>>

Release(c) ==
  /\ Goto(c, "release", "free")
  /\ sessions' = sessions - 1
  /\ UNCHANGED <<source, limiterVars, activeWait, active, connVars, target,
                 shutdownVars, waiter>>

-----------------------------------------------------------------------------
(***************************************************************************)
(* Shutdown.                                                               *)
(***************************************************************************)

handlerVars == <<pc, source, limiterVars, slotVars, active, target>>

InPhase(p) == Alive /\ phase = p

\* draining.Store(true).
StartDraining ==
  /\ InPhase("serving")
  /\ phase' = "draining"
  /\ draining' = TRUE
  /\ UNCHANGED <<handlerVars, connVars, listening, httpErr, expired, doomed, result, waiter>>

\* http.Shutdown closes the listener.
CloseListener ==
  /\ InPhase("draining")
  /\ phase' = "http"
  /\ listening' = FALSE
  /\ UNCHANGED <<handlerVars, connVars, draining, httpErr, expired, doomed, result, waiter>>

\* The connections http.Shutdown waits for.
HttpBusy == {c \in Conns : pc[c] # "free" /\ c \notin hijacked}

\* Mutant: Shutdown does not wait for http.Shutdown before it starts the waiter.
HttpShutdownReturnsAtOnce ==
  /\ InPhase("http")
  /\ httpErr' = FALSE
  /\ phase' = "select"
  /\ waiter' = "started"
  /\ UNCHANGED <<handlerVars, connVars, draining, listening, expired, doomed, result>>

\* http.Shutdown returns once every connection is idle or hijacked, or with
\* the context's error; the goroutine that waits for the sessions starts.
HttpShutdownReturns ==
  /\ InPhase("http")
  /\ \/ HttpBusy = {} /\ httpErr' = FALSE
     \/ HttpBusy # {} /\ expired /\ httpErr' = TRUE
  /\ phase' = "select"
  /\ waiter' = "started"
  /\ UNCHANGED <<handlerVars, connVars, draining, listening, expired, doomed, result>>

\* activeWait.Wait.  A Wait that was woken panics if the counter is in use
\* again by the time it runs.
Wait ==
  /\ \/ waiter = "started" /\ waiter' = IF activeWait = 0 THEN "done" ELSE "blocked"
     \/ waiter = "woken" /\ waiter' = IF activeWait = 0 THEN "done" ELSE "panicked"
  /\ UNCHANGED <<handlerVars, connVars, shutdownVars>>

\* The select's first case, or the receive after closeActive.
SelectDone ==
  /\ waiter = "done"
  /\ \/ InPhase("select") /\ result' = IF httpErr THEN "error" ELSE "nil"
     \/ InPhase("await") /\ result' = "error"
  /\ phase' = "returned"
  /\ UNCHANGED <<handlerVars, connVars, draining, listening, httpErr, expired, doomed, waiter>>

\* The select's second case.
SelectExpired ==
  /\ InPhase("select")
  /\ expired
  /\ phase' = "forced"
  /\ UNCHANGED <<handlerVars, connVars, draining, listening, httpErr, expired, doomed,
                 result, waiter>>

\* closeActive copies the map under activeMu ...
Snapshot ==
  /\ InPhase("forced")
  /\ doomed' = active
  /\ phase' = "cancelling"
  /\ UNCHANGED <<handlerVars, connVars, draining, listening, httpErr, expired, result, waiter>>

\* ... then cancels every session in it, ...
CancelDoomed(c) ==
  /\ InPhase("cancelling") /\ c \in doomed \ cancelled
  /\ cancelled' = cancelled \cup {c}
  /\ UNCHANGED <<handlerVars, hijacked, closed, shutdownVars, waiter>>

\* ... then closes every one.
CloseDoomed(c) ==
  /\ InPhase("closing") /\ c \in doomed \ closed
  /\ closed' = closed \cup {c}
  /\ UNCHANGED <<handlerVars, hijacked, cancelled, shutdownVars, waiter>>

\* Mutant: the loops end with sessions still to be cut off.
LoopEndsEarly ==
  /\ \/ InPhase("cancelling") /\ phase' = "closing"
     \/ InPhase("closing") /\ phase' = "await"
  /\ UNCHANGED <<handlerVars, connVars, draining, listening, httpErr, expired, doomed,
                 result, waiter>>

\* The two loops of closeActive end.
LoopEnds ==
  /\ \/ InPhase("cancelling") /\ doomed \subseteq cancelled /\ phase' = "closing"
     \/ InPhase("closing") /\ doomed \subseteq closed /\ phase' = "await"
  /\ UNCHANGED <<handlerVars, connVars, draining, listening, httpErr, expired, doomed,
                 result, waiter>>

\* Shutdown's deadline passes.
Expire ==
  /\ Alive /\ phase \notin {"serving", "returned"}
  /\ ~expired
  /\ expired' = TRUE
  /\ UNCHANGED <<handlerVars, connVars, draining, listening, phase, httpErr, doomed,
                 result, waiter>>

-----------------------------------------------------------------------------

Tick ==
  /\ Alive
  /\ Failures!Tick
  /\ UNCHANGED <<pc, source, slotVars, active, connVars, target, shutdownVars, waiter>>

\* What the handler of c does by itself.  A relay ends by itself only when it
\* was cut off (Copy's watcher interrupts both connections).
Handler(c) ==
  \/ CheckDraining(c) \/ CheckBlocked(c) \/ Acquire(c) \/ Add(c)
  \/ Upgrade(c) \/ Flush(c) \/ Track(c)
  \/ AcceptInnerTLS(c) \/ Hello(c) \/ Exchange(c) \/ Dial(c) \/ OpenOK(c)
  \/ FailSession(c)
  \/ c \in cancelled \cup closed /\ EndRelay(c)
  \/ Untrack(c) \/ Cancel(c) \/ Done(c) \/ Release(c)

Shutdown ==
  \/ CloseListener \/ HttpShutdownReturns
  \/ SelectDone \/ SelectExpired
  \/ Snapshot \/ LoopEnds
  \/ \E c \in Conns : CancelDoomed(c) \/ CloseDoomed(c)

\* The server while nobody shuts it down.
Serve ==
  \/ Tick
  \/ \E c \in Conns, peer \in Sources, forwarded \in Sources : Arrive(c, peer, forwarded)
  \/ \E c \in Conns : OtherRequest(c) \/ Handler(c) \/ EndRelay(c) \/ ExpireLifetime(c)

Next == Serve \/ StartDraining \/ Shutdown \/ Wait \/ Expire

Spec == Init /\ [][Next]_vars

\* A server that is never shut down; the limiter's runs use it.
ServeSpec == Init /\ [][Serve]_vars

\* Deadlines bound every read, write, lookup and dial before the relay, so a
\* handler moves on; Shutdown, the waiting goroutine and its deadline do too.
\* Nobody is obliged to connect, to shut down, or to end a relay.
Fairness ==
  /\ \A c \in Conns : WF_vars(Handler(c))
  /\ WF_vars(Shutdown)
  /\ WF_vars(Wait)
  /\ WF_vars(Expire)

FairSpec == Spec /\ Fairness

-----------------------------------------------------------------------------
(***************************************************************************)
(* Properties.                                                             *)
(***************************************************************************)

\* Every open target connection belongs to a tracked session, and however
\* sessions start, fail and end, there are never more of them than
\* Limits.MaxSessions (the sessions channel and the order of the defers).
TargetsBounded ==
  /\ target \subseteq active
  /\ Cardinality(target) <= MaxSessions

\* Failures recorded for a source, and the sessions that can still add one,
\* exceed the limit by no more than the connections there are: blocked is
\* asked before the session and record is called after it, so sessions
\* admitted before the block overshoot it, but nobody else does.
OvershootBounded ==
  \A s \in Sources :
    count[s] + Cardinality({c \in At(Unproven) : source[c] = s})
      <= (authFailureLimit - 1) + Cardinality(Conns)

\* A Shutdown that returns nil has drained the server: no session is left, no
\* target is open, and none can start any more.
GracefulDrain ==
  phase = "returned" /\ result = "nil" =>
    /\ At(Labels \ {"free", "release"}) = {}
    /\ active = {} /\ target = {}
    /\ ~listening

\* WaitGroup.Wait panics only if http.Shutdown had given up on a connection:
\* otherwise Add cannot run again after the counter has reached zero.
PanicOnlyAfterTimeout == waiter = "panicked" => httpErr

\* A session that is tracked when closeActive copies the map ends.
SnapshotEnds ==
  \A c \in Conns :
    phase = "cancelling" /\ c \in doomed ~> pc[c] = "free" \/ ~Alive

\* A session that was tracked only after closeActive had copied the map: it
\* relays, nobody cancels it, and the last receive of Shutdown awaits it.
Missed ==
  /\ phase = "await"
  /\ \E c \in active \ doomed : pc[c] = "relay" /\ c \notin cancelled

\* Shutdown returns, unless such a session relays from some moment on.  Its
\* request had passed the draining check before Shutdown; when closeActive
\* copied the map it was on its way from Hijack to track or, if http.Shutdown
\* had given up on it, anywhere from the draining check to track.
ShutdownReturnsUnlessMissed ==
  phase = "draining" ~> phase = "returned" \/ ~Alive \/ []Missed

\* "Shutdown stops accepting sessions, waits for active relays, and
\* forcefully cancels only those still running when ctx expires" (server.go,
\* 319): so it returns.
ShutdownReturns == phase = "draining" ~> phase = "returned"
=============================================================================
