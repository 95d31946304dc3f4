------------------------------ MODULE LocalProxy ------------------------------
(***************************************************************************)
(* The local proxy, internal/localproxy/server.go: the handler that turns  *)
(* a CONNECT request into a tunnel, and Shutdown, which drains them.       *)
(*                                                                         *)
(* Unlike the relay server it counts its sessions without a WaitGroup: the *)
(* channel activeZero is replaced when the first session starts and closed *)
(* when the last one ends, and Shutdown waits on the channel it finds.     *)
(*                                                                         *)
(* Each element of Conns is a place for one connection to the HTTP server; *)
(* the pc of a place is the point its handler has reached.  net/http, the  *)
(* clients, TunnelOpener and relay.Copy (see RelayCopy) are modelled by    *)
(* what this code relies on.                                               *)
(***************************************************************************)
EXTENDS Naturals

CONSTANT Conns   \* connections the HTTP server can have at once

VARIABLES
  pc,          \* where the handler of each connection is
  active,      \* keys of the server.active map
  hasConn,     \* sessions whose session.conn is set
  hijacked,    \* connections the HTTP server no longer tracks
  cancelled,   \* sessions whose context is done
  closed,      \* sessions whose local connection is closed
  remote,      \* sessions with an open tunnel stream
  zeroClosed,  \* the current activeZero channel is closed
  done,        \* the channel Shutdown waits on
  draining,    \* server.draining
  listening,   \* FALSE once http.Shutdown has closed the listener
  phase,       \* where Shutdown is
  httpErr,     \* http.Shutdown returned the context's error
  expired,     \* Shutdown's context is done
  doomed,      \* closeActive's snapshot of active ...
  doomedConns, \* ... and of the connections set in it
  result       \* what Shutdown returned

sessionVars  == <<hasConn, hijacked, cancelled, closed, remote>>
channelVars  == <<zeroClosed, done>>
shutdownVars == <<draining, listening, phase, httpErr, expired, doomed, doomedConns, result>>
vars == <<pc, active, sessionVars, channelVars, shutdownVars>>

\* Between track and untrack.
Session == {"open", "hijack", "setConnection", "respond", "relay", "closeLocal",
            "closeRemote", "untrack"}

Labels == {"free", "new", "track", "cancel"} \cup Session

At(S) == {c \in Conns : pc[c] \in S}

\* The channel Shutdown got from activeDone: the current activeZero, or one that
\* was replaced since, when it was closed or (a lost wakeup) when it was not.
Channels == {"none", "current", "closed", "lost"}

TypeOK ==
  /\ pc \in [Conns -> Labels]
  /\ active \subseteq Conns
  /\ hasConn \subseteq Conns
  /\ hijacked \subseteq Conns
  /\ cancelled \subseteq Conns
  /\ closed \subseteq Conns
  /\ remote \subseteq Conns
  /\ zeroClosed \in BOOLEAN
  /\ done \in Channels
  /\ draining \in BOOLEAN
  /\ listening \in BOOLEAN
  /\ phase \in {"serving", "draining", "http", "activeDone", "select", "forced",
                "cutting", "await", "returned"}
  /\ httpErr \in BOOLEAN
  /\ expired \in BOOLEAN
  /\ doomed \subseteq Conns
  /\ doomedConns \subseteq Conns
  /\ result \in {"none", "nil", "error"}

\* NewServer: activeZero starts closed.
Init ==
  /\ pc = [c \in Conns |-> "free"]
  /\ active = {}
  /\ hasConn = {}
  /\ hijacked = {}
  /\ cancelled = {}
  /\ closed = {}
  /\ remote = {}
  /\ zeroClosed = TRUE
  /\ done = "none"
  /\ draining = FALSE
  /\ listening = TRUE
  /\ phase = "serving"
  /\ httpErr = FALSE
  /\ expired = FALSE
  /\ doomed = {}
  /\ doomedConns = {}
  /\ result = "none"

\* The handler of c moves from one label to the next.
Goto(c, from, to) == pc[c] = from /\ pc' = [pc EXCEPT ![c] = to]

-----------------------------------------------------------------------------
(***************************************************************************)
(* ServeHTTP.                                                              *)
(***************************************************************************)

\* A client connects; the place holds a fresh session.
Arrive(c) ==
  /\ listening
  /\ Goto(c, "free", "new")
  /\ hasConn' = hasConn \ {c}
  /\ hijacked' = hijacked \ {c}
  /\ cancelled' = cancelled \ {c}
  /\ closed' = closed \ {c}
  /\ UNCHANGED <<active, remote, channelVars, shutdownVars>>

\* The checks on the request: draining, the method, the protocol version, the
\* body and the destination.  A draining proxy refuses every request.
CheckRequest(c) ==
  /\ \/ Goto(c, "new", "free")
     \/ ~draining /\ Goto(c, "new", "track")
  /\ UNCHANGED <<active, sessionVars, channelVars, shutdownVars>>

\* Mutant: every session makes a new channel.
TrackAlwaysMakes(c) ==
  /\ Goto(c, "track", "open")
  /\ zeroClosed' = FALSE
  /\ done' = IF done = "current" THEN IF zeroClosed THEN "closed" ELSE "lost" ELSE done
  /\ active' = active \cup {c}
  /\ UNCHANGED <<sessionVars, shutdownVars>>

\* track, under activeMu: the first session makes a new channel.
Track(c) ==
  /\ Goto(c, "track", "open")
  /\ IF active = {}
       THEN /\ zeroClosed' = FALSE
            /\ done' = IF done = "current"
                         THEN IF zeroClosed THEN "closed" ELSE "lost" ELSE done
       ELSE UNCHANGED channelVars
  /\ active' = active \cup {c}
  /\ UNCHANGED <<sessionVars, shutdownVars>>

\* The client leaves while the HTTP server still reads from it, which ends the
\* request's context.
ClientGone(c) ==
  /\ pc[c] \in {"open", "hijack"} /\ c \notin cancelled
  /\ cancelled' = cancelled \cup {c}
  /\ UNCHANGED <<pc, active, hasConn, hijacked, closed, remote, channelVars, shutdownVars>>

\* opener.Open: it can always fail, and fails if the context has ended; a
\* failure is answered with a proxy error.
Open(c) ==
  /\ \/ Goto(c, "open", "untrack") /\ UNCHANGED remote
     \/ c \notin cancelled /\ Goto(c, "open", "hijack") /\ remote' = remote \cup {c}
  /\ UNCHANGED <<active, hasConn, hijacked, cancelled, closed, channelVars, shutdownVars>>

Hijack(c) ==
  /\ \/ Goto(c, "hijack", "closeRemote") /\ UNCHANGED hijacked
     \/ Goto(c, "hijack", "setConnection") /\ hijacked' = hijacked \cup {c}
  /\ UNCHANGED <<active, hasConn, cancelled, closed, remote, channelVars, shutdownVars>>

\* setConnection, under activeMu.
SetConnection(c) ==
  /\ Goto(c, "setConnection", "respond")
  /\ hasConn' = IF c \in active THEN hasConn \cup {c} ELSE hasConn
  /\ UNCHANGED <<active, hijacked, cancelled, closed, remote, channelVars, shutdownVars>>

\* The 200 response is written and flushed, or the client is gone.
Respond(c) ==
  /\ \/ Goto(c, "respond", "closeLocal")
     \/ c \notin closed /\ Goto(c, "respond", "relay")
  /\ UNCHANGED <<active, sessionVars, channelVars, shutdownVars>>

\* relay.Copy returns, for whatever reason.
EndRelay(c) ==
  /\ Goto(c, "relay", "closeLocal")
  /\ UNCHANGED <<active, sessionVars, channelVars, shutdownVars>>

\* The deferred calls, last first.
CloseLocal(c) ==
  /\ Goto(c, "closeLocal", "closeRemote")
  /\ closed' = closed \cup {c}
  /\ UNCHANGED <<active, hasConn, hijacked, cancelled, remote, channelVars, shutdownVars>>

\* Mutant: the tunnel stream is not closed.
CloseRemoteForgotten(c) ==
  /\ Goto(c, "closeRemote", "untrack")
  /\ UNCHANGED <<active, sessionVars, channelVars, shutdownVars>>

CloseRemote(c) ==
  /\ Goto(c, "closeRemote", "untrack")
  /\ remote' = remote \ {c}
  /\ UNCHANGED <<active, hasConn, hijacked, cancelled, closed, channelVars, shutdownVars>>

\* Mutant: the session that ends is still counted when the map is measured.
UntrackClosesLate(c) ==
  /\ Goto(c, "untrack", "cancel")
  /\ zeroClosed' = (zeroClosed \/ active = {})
  /\ active' = active \ {c}
  /\ UNCHANGED <<sessionVars, done, shutdownVars>>

\* untrack, under activeMu: the last session closes the channel.
Untrack(c) ==
  /\ Goto(c, "untrack", "cancel")
  /\ active' = active \ {c}
  /\ zeroClosed' = (zeroClosed \/ active' = {})
  /\ UNCHANGED <<sessionVars, done, shutdownVars>>

Cancel(c) ==
  /\ Goto(c, "cancel", "free")
  /\ cancelled' = cancelled \cup {c}
  /\ UNCHANGED <<active, hasConn, hijacked, closed, remote, channelVars, shutdownVars>>

-----------------------------------------------------------------------------
(***************************************************************************)
(* Shutdown.                                                               *)
(***************************************************************************)

handlerVars == <<pc, active, hasConn, hijacked, remote, zeroClosed>>

\* draining.Store(true).
StartDraining ==
  /\ phase = "serving"
  /\ phase' = "draining"
  /\ draining' = TRUE
  /\ UNCHANGED <<handlerVars, cancelled, closed, done, listening, httpErr, expired,
                 doomed, doomedConns, result>>

\* http.Shutdown closes the listener.
CloseListener ==
  /\ phase = "draining"
  /\ phase' = "http"
  /\ listening' = FALSE
  /\ UNCHANGED <<handlerVars, cancelled, closed, done, draining, httpErr, expired,
                 doomed, doomedConns, result>>

\* The connections http.Shutdown waits for.
HttpBusy == {c \in Conns : pc[c] # "free" /\ c \notin hijacked}

\* http.Shutdown returns once every connection is idle or hijacked, or with
\* the context's error.
HttpShutdownReturns ==
  /\ phase = "http"
  /\ \/ HttpBusy = {} /\ httpErr' = FALSE
     \/ HttpBusy # {} /\ expired /\ httpErr' = TRUE
  /\ phase' = "activeDone"
  /\ UNCHANGED <<handlerVars, cancelled, closed, done, draining, listening, expired,
                 doomed, doomedConns, result>>

\* Mutant: the channel is fetched before http.Shutdown has emptied the server.
FetchDoneEarly ==
  /\ phase \in {"http", "activeDone"}
  /\ phase' = "select"
  /\ done' = "current"
  /\ UNCHANGED <<handlerVars, cancelled, closed, draining, listening, httpErr, expired,
                 doomed, doomedConns, result>>

\* activeDone, under activeMu.
FetchDone ==
  /\ phase = "activeDone"
  /\ phase' = "select"
  /\ done' = "current"
  /\ UNCHANGED <<handlerVars, cancelled, closed, draining, listening, httpErr, expired,
                 doomed, doomedConns, result>>

DoneClosed == done = "closed" \/ (done = "current" /\ zeroClosed)

\* The select's first case, or the receive after closeActive.
SelectDone ==
  /\ DoneClosed
  /\ \/ phase = "select" /\ result' = IF httpErr THEN "error" ELSE "nil"
     \/ phase = "await" /\ result' = "error"
  /\ phase' = "returned"
  /\ UNCHANGED <<handlerVars, cancelled, closed, done, draining, listening, httpErr,
                 expired, doomed, doomedConns>>

\* The select's second case.
SelectExpired ==
  /\ phase = "select" /\ expired
  /\ phase' = "forced"
  /\ UNCHANGED <<handlerVars, cancelled, closed, done, draining, listening, httpErr,
                 expired, doomed, doomedConns, result>>

\* closeActive copies the sessions and their connections under activeMu ...
Snapshot ==
  /\ phase = "forced"
  /\ phase' = "cutting"
  /\ doomed' = active
  /\ doomedConns' = active \cap hasConn
  /\ UNCHANGED <<handlerVars, cancelled, closed, done, draining, listening, httpErr,
                 expired, result>>

\* Mutant: a session without a connection yet is passed over.
CutOffConnected(c) ==
  /\ phase = "cutting" /\ c \in doomed
  /\ cancelled' = cancelled \cup ({c} \cap doomedConns)
  /\ closed' = closed \cup ({c} \cap doomedConns)
  /\ doomed' = doomed \ {c}
  /\ UNCHANGED <<handlerVars, done, draining, listening, phase, httpErr, expired,
                 doomedConns, result>>

\* ... and then cancels each one, and closes the connection if it has one.
CutOff(c) ==
  /\ phase = "cutting" /\ c \in doomed
  /\ cancelled' = cancelled \cup {c}
  /\ closed' = closed \cup ({c} \cap doomedConns)
  /\ doomed' = doomed \ {c}
  /\ UNCHANGED <<handlerVars, done, draining, listening, phase, httpErr, expired,
                 doomedConns, result>>

CutOffEnds ==
  /\ phase = "cutting" /\ doomed = {}
  /\ phase' = "await"
  /\ UNCHANGED <<handlerVars, cancelled, closed, done, draining, listening, httpErr,
                 expired, doomed, doomedConns, result>>

\* Shutdown's deadline passes.
Expire ==
  /\ phase \notin {"serving", "returned"} /\ ~expired
  /\ expired' = TRUE
  /\ UNCHANGED <<handlerVars, cancelled, closed, done, draining, listening, phase,
                 httpErr, doomed, doomedConns, result>>

-----------------------------------------------------------------------------

\* What the handler of c does by itself.  A relay ends by itself only when it
\* was cut off.
Handler(c) ==
  \/ CheckRequest(c) \/ Track(c) \/ Open(c) \/ Hijack(c) \/ SetConnection(c) \/ Respond(c)
  \/ c \in cancelled \cup closed /\ EndRelay(c)
  \/ CloseLocal(c) \/ CloseRemote(c) \/ Untrack(c) \/ Cancel(c)

Shutdown ==
  \/ CloseListener \/ HttpShutdownReturns \/ FetchDone
  \/ SelectDone \/ SelectExpired \/ Snapshot \/ CutOffEnds
  \/ \E c \in Conns : CutOff(c)

Next ==
  \/ \E c \in Conns : Arrive(c) \/ ClientGone(c) \/ Handler(c) \/ EndRelay(c)
  \/ StartDraining \/ Shutdown \/ Expire

Spec == Init /\ [][Next]_vars

\* Open and the response are bounded by timeouts, so a handler moves on; so do
\* Shutdown and its deadline.  Nobody is obliged to connect, to shut down, or
\* to end a relay.
FairSpec ==
  /\ Spec
  /\ \A c \in Conns : WF_vars(Handler(c))
  /\ WF_vars(Shutdown) /\ WF_vars(Expire)

-----------------------------------------------------------------------------
(***************************************************************************)
(* Properties.                                                             *)
(***************************************************************************)

\* The channel and the map agree whenever activeMu is free: activeZero is
\* closed exactly while no session is active (so untrack never closes it
\* twice), and the channel Shutdown holds was not replaced while open, which
\* would leave Shutdown waiting on a channel nobody closes.
ChannelTracksActive ==
  /\ zeroClosed <=> active = {}
  /\ done # "lost"

\* Every open tunnel stream belongs to a session Shutdown can see, however
\* the handler returns (the order of ServeHTTP's deferred calls).
StreamsTracked == remote \subseteq active

\* A Shutdown that returns nil has drained the proxy: no session is left, no
\* stream is open, and none can start any more.
GracefulDrain ==
  phase = "returned" /\ result = "nil" =>
    /\ At(Labels \ {"free", "cancel"}) = {}
    /\ active = {} /\ remote = {}
    /\ ~listening

\* A session in closeActive's snapshot ends, also one whose connection was
\* not set yet and could not be closed: its context alone ends it.
SnapshotEnds ==
  \A c \in Conns : phase = "cutting" /\ c \in doomed ~> pc[c] = "free"

\* Shutdown returns, unless its deadline passed while a request was between the
\* draining check and track: closeActive does not see that session.
Missed == phase \in {"cutting", "await"} /\ At(Session) \ (doomed \cup cancelled) # {}

ShutdownReturnsUnlessMissed ==
  phase = "draining" ~> phase = "returned" \/ Missed

\* "Shutdown stops accepting CONNECT requests, waits for active tunnels, and
\* cancels the remaining sessions if ctx expires" (server.go, 282): so it returns.
ShutdownReturns == phase = "draining" ~> phase = "returned"
=============================================================================
