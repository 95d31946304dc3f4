------------------------------ MODULE RelayCopy ------------------------------
(***************************************************************************)
(* Copy of internal/relay/relay.go: one relay between the client's inner   *)
(* TLS connection (left) and the target (right).  Four goroutines take     *)
(* part: Copy itself, one copyDirection each way, and watchRelay, which    *)
(* cuts both connections when the context ends or no byte has moved for    *)
(* the idle timeout.  They share the connections' deadlines and four       *)
(* channels: activity, interrupted, watchDone and results.                 *)
(*                                                                         *)
(* Peers may send for ever, so bytes are not counted: what matters of a    *)
(* direction is how many are on their way to the copy and how many the     *)
(* copy has read and not written.  The two connections and the peers       *)
(* behind them are external.                                               *)
(***************************************************************************)
EXTENDS Naturals, Sequences

CONSTANTS IdleTimeout,  \* options.IdleTimeout in ticks; 0 disables the timer
          MaxUnread     \* bound: bytes on their way from a peer at once

ASSUME CopyAssumption == IdleTimeout \in Nat /\ MaxUnread \in Nat

Conns == {"left", "right"}
\* A direction is named by the connection it reads from.
Other(c) == IF c = "left" THEN "right" ELSE "left"

VARIABLES
  unread,     \* per direction, the bytes its peer has sent and the copy not read
  unwritten,  \* per direction, the bytes the copy has read and not written
  eof,        \* directions whose peer will send no more
  deadline,   \* connections whose deadline was set in the past
  halfClosed, \* connections whose peer is told that no more will come
  copying,    \* per direction: where copyDirection is
  outcome,    \* per direction: what io.Copy returned
  results,    \* the results channel
  main,       \* where Copy is
  failed,     \* one of the results Copy has received is an error
  returned,   \* what Copy returns
  watch,      \* where watchRelay is
  watchDone,  \* the watchDone channel is closed
  activity,   \* the activity channel holds its one token
  interrupted,\* the interrupted channel's value
  ctxDone,    \* the context has ended
  timer,      \* ticks since the idle timer was last reset
  quiet       \* ticks since touch was last called

copyVars   == <<unwritten, halfClosed, copying, outcome, results>>
mainVars   == <<main, failed, returned, watchDone>>
watchVars  == <<watch, interrupted, timer>>
vars == <<unread, eof, deadline, copyVars, mainVars, watchVars, activity, ctxDone, quiet>>

Results == {"nil", "io", "deadline"}

TypeOK ==
  /\ unread \in [Conns -> 0 .. MaxUnread] /\ unwritten \in [Conns -> {0, 1}]
  /\ eof \subseteq Conns /\ deadline \subseteq Conns /\ halfClosed \subseteq Conns
  /\ copying \in [Conns -> {"read", "write", "halfClose", "send", "ended"}]
  /\ outcome \in [Conns -> {"none"} \cup Results]
  /\ results \in Seq(Results) /\ Len(results) <= 2
  /\ main \in {"first", "cutLeft", "cutRight", "second", "collect", "closeDone",
               "waitWatch", "returned"}
  /\ failed \in BOOLEAN
  /\ returned \in {"none", "nil", "error", "ctx", "idle"}
  /\ watch \in {"select", "reset", "cutLeft", "cutRight", "ended"}
  /\ watchDone \in BOOLEAN /\ activity \in BOOLEAN /\ ctxDone \in BOOLEAN
  /\ interrupted \in {"none", "ctx", "idle"}
  /\ timer \in 0 .. IdleTimeout /\ quiet \in 0 .. IdleTimeout

\* The watcher is running, touch was called once, both copies are about to read.
Init ==
  /\ unread = [c \in Conns |-> 0] /\ unwritten = [c \in Conns |-> 0]
  /\ eof = {} /\ deadline = {} /\ halfClosed = {}
  /\ copying = [c \in Conns |-> "read"]
  /\ outcome = [c \in Conns |-> "none"]
  /\ results = <<>>
  /\ main = "first" /\ failed = FALSE /\ returned = "none"
  /\ watch = "select" /\ watchDone = FALSE
  /\ activity = TRUE /\ interrupted = "none" /\ ctxDone = FALSE
  /\ timer = 0 /\ quiet = 0

-----------------------------------------------------------------------------
(***************************************************************************)
(* The peers, the context and time.                                        *)
(***************************************************************************)

PeerSends(c) ==
  /\ c \notin eof /\ unread[c] < MaxUnread
  /\ unread' = [unread EXCEPT ![c] = @ + 1]
  /\ UNCHANGED eof

PeerCloses(c) ==
  /\ c \notin eof
  /\ eof' = eof \cup {c}
  /\ UNCHANGED unread

Peer(c) ==
  /\ main # "returned"
  /\ PeerSends(c) \/ PeerCloses(c)
  /\ UNCHANGED <<copyVars, deadline, mainVars, watchVars, activity, ctxDone, quiet>>

ContextEnds ==
  /\ ~ctxDone /\ main # "returned"
  /\ ctxDone' = TRUE
  /\ UNCHANGED <<unread, eof, copyVars, deadline, mainVars, watchVars, activity, quiet>>

AtMost(n) == IF n < IdleTimeout THEN n + 1 ELSE IdleTimeout

Tick ==
  /\ main # "returned" /\ (timer < IdleTimeout \/ quiet < IdleTimeout)
  /\ timer' = AtMost(timer) /\ quiet' = AtMost(quiet)
  /\ UNCHANGED <<unread, eof, copyVars, deadline, mainVars, watch, interrupted, activity,
                 ctxDone>>

-----------------------------------------------------------------------------
(***************************************************************************)
(* copyDirection: io.Copy between two progressConns, then the half-closes. *)
(***************************************************************************)

\* Mutant: a touch that finds a token waiting takes it away.
touchToggles == activity' = ~activity /\ quiet' = 0

\* The non-blocking send on activity, after a byte has moved.
touch == activity' = TRUE /\ quiet' = 0

ReadByte(d) ==
  /\ copying[d] = "read" /\ unread[d] > 0
  /\ unread' = [unread EXCEPT ![d] = @ - 1]
  /\ unwritten' = [unwritten EXCEPT ![d] = @ + 1]
  /\ copying' = [copying EXCEPT ![d] = "write"]
  /\ touch
  /\ UNCHANGED <<halfClosed, outcome, results>>

WriteByte(d) ==
  /\ copying[d] = "write" /\ Other(d) \notin deadline
  /\ unwritten' = [unwritten EXCEPT ![d] = @ - 1]
  /\ copying' = [copying EXCEPT ![d] = "read"]
  /\ touch
  /\ UNCHANGED <<unread, halfClosed, outcome, results>>

ReadEOF(d) ==
  /\ copying[d] = "read" /\ d \in eof /\ unread[d] = 0
  /\ copying' = [copying EXCEPT ![d] = "halfClose"]
  /\ outcome' = [outcome EXCEPT ![d] = "nil"]
  /\ UNCHANGED <<unread, unwritten, halfClosed, results, activity, quiet>>

\* io.Copy ends with an error: a past deadline makes it, a broken connection
\* can at any time.
CopyFails(d, error) ==
  /\ copying[d] \in {"read", "write"}
  /\ error = "deadline" =>
       (IF copying[d] = "read" THEN d ELSE Other(d)) \in deadline
  /\ outcome' = [outcome EXCEPT ![d] = error]
  /\ copying' = [copying EXCEPT ![d] = "send"]
  /\ UNCHANGED <<unread, unwritten, halfClosed, results, activity, quiet>>

\* Mutant: the half-close sends a result of its own.
HalfCloseReports(d) ==
  /\ copying[d] = "halfClose"
  /\ halfClosed' = halfClosed \cup {Other(d)}
  /\ results' = Append(results, "nil")
  /\ copying' = [copying EXCEPT ![d] = "send"]
  /\ UNCHANGED <<unread, unwritten, outcome, activity, quiet>>

\* halfCloseWrite of the destination, halfCloseRead of the source.  A connection
\* without CloseWrite is passed over, and the error of one that has it ignored.
HalfClose(d) ==
  /\ copying[d] = "halfClose"
  /\ halfClosed' \in {halfClosed, halfClosed \cup {Other(d)}}
  /\ copying' = [copying EXCEPT ![d] = "send"]
  /\ UNCHANGED <<unread, unwritten, outcome, results, activity, quiet>>

SendResult(d) ==
  /\ copying[d] = "send"
  /\ results' = Append(results, outcome[d])
  /\ copying' = [copying EXCEPT ![d] = "ended"]
  /\ UNCHANGED <<unread, unwritten, halfClosed, outcome, activity, quiet>>

\* What copyDirection does without the help of the peer it writes to.
CopyAlone(d) ==
  /\ \/ ReadByte(d) \/ ReadEOF(d) \/ CopyFails(d, "deadline")
     \/ HalfClose(d) \/ SendResult(d)
  /\ UNCHANGED <<eof, deadline, mainVars, watchVars, ctxDone>>

\* A write that the peer accepts, an error on either connection.
CopyWithPeer(d) ==
  /\ WriteByte(d) \/ CopyFails(d, "io")
  /\ UNCHANGED <<eof, deadline, mainVars, watchVars, ctxDone>>

-----------------------------------------------------------------------------
(***************************************************************************)
(* Copy after it has started the others.                                   *)
(***************************************************************************)

\* Mutant: any first result, a clean one too, interrupts the other direction.
ReceiveFirstAlwaysCuts ==
  /\ main = "first" /\ results # <<>>
  /\ failed' = (Head(results) # "nil") /\ results' = Tail(results)
  /\ main' = "cutLeft"
  /\ UNCHANGED <<returned, watchDone, deadline>>

ReceiveFirst ==
  /\ main = "first" /\ results # <<>>
  /\ failed' = (Head(results) # "nil") /\ results' = Tail(results)
  /\ main' = IF failed' THEN "cutLeft" ELSE "second"
  /\ UNCHANGED <<returned, watchDone, deadline>>

\* interruptConnections(left, right).
MainInterrupts ==
  /\ \/ main = "cutLeft" /\ main' = "cutRight" /\ deadline' = deadline \cup {"left"}
     \/ main = "cutRight" /\ main' = "second" /\ deadline' = deadline \cup {"right"}
  /\ UNCHANGED <<failed, returned, watchDone, results>>

\* Mutant: the second direction's error is lost.
ReceiveSecondForgets ==
  /\ main = "second" /\ results # <<>>
  /\ results' = Tail(results)
  /\ main' = "collect"
  /\ UNCHANGED <<failed, returned, watchDone, deadline>>

ReceiveSecond ==
  /\ main = "second" /\ results # <<>>
  /\ failed' = (failed \/ Head(results) # "nil") /\ results' = Tail(results)
  /\ main' = "collect"
  /\ UNCHANGED <<returned, watchDone, deadline>>

\* The watcher's reason if there is one, else errors.Join of the two results.
Collect ==
  /\ main = "collect"
  /\ returned' = IF interrupted # "none" THEN interrupted
                 ELSE IF failed THEN "error" ELSE "nil"
  /\ main' = "closeDone"
  /\ UNCHANGED <<failed, watchDone, results, deadline>>

\* Mutant: Copy does not wait for the watcher.
StopWatcherNoWait ==
  /\ \/ main = "closeDone" /\ watchDone' = TRUE /\ main' = "returned"
     \/ main = "waitWatch" /\ UNCHANGED watchDone /\ main' = "returned"
  /\ UNCHANGED <<failed, returned, results, deadline>>

\* The deferred close(watchDone) and watch.Wait().
StopWatcher ==
  /\ \/ main = "closeDone" /\ watchDone' = TRUE /\ main' = "waitWatch"
     \/ main = "waitWatch" /\ watch = "ended" /\ UNCHANGED watchDone /\ main' = "returned"
  /\ UNCHANGED <<failed, returned, results, deadline>>

Copy ==
  /\ ReceiveFirst \/ MainInterrupts \/ ReceiveSecond \/ Collect \/ StopWatcher
  /\ UNCHANGED <<unread, eof, unwritten, halfClosed, copying, outcome, watchVars, activity,
                 ctxDone, quiet>>

-----------------------------------------------------------------------------
(***************************************************************************)
(* watchRelay.  Its select takes any case that is ready.                   *)
(***************************************************************************)

WatchDone ==
  /\ watch = "select" /\ watchDone
  /\ watch' = "ended"
  /\ UNCHANGED <<interrupted, timer, activity, deadline>>

\* Mutant: the connections are cut before the reason is on its channel.
WatchContextCutsFirst ==
  /\ watch = "select" /\ ctxDone
  /\ deadline' = Conns
  /\ watch' = "cutLeft"
  /\ UNCHANGED <<interrupted, timer, activity>>

\* Mutant: the watcher reports the context's end and leaves.
WatchContextOnlyReports ==
  /\ watch = "select" /\ ctxDone
  /\ interrupted' = "ctx"
  /\ watch' = "ended"
  /\ UNCHANGED <<timer, activity, deadline>>

\* The reason goes on its channel before either connection is cut.
WatchContext ==
  /\ watch = "select" /\ ctxDone
  /\ interrupted' = "ctx"
  /\ watch' = "cutLeft"
  /\ UNCHANGED <<timer, activity, deadline>>

WatchActivity ==
  /\ watch = "select" /\ activity
  /\ activity' = FALSE
  /\ watch' = IF IdleTimeout > 0 THEN "reset" ELSE "select"
  /\ UNCHANGED <<interrupted, timer, deadline>>

WatchReset ==
  /\ watch = "reset"
  /\ timer' = 0
  /\ watch' = "select"
  /\ UNCHANGED <<interrupted, activity, deadline>>

\* Mutant: the watcher leaves without cutting the connections.
WatchIdleOnlyReports ==
  /\ watch = "select" /\ IdleTimeout > 0 /\ timer = IdleTimeout
  /\ interrupted' = "idle"
  /\ watch' = "ended"
  /\ UNCHANGED <<timer, activity, deadline>>

WatchIdle ==
  /\ watch = "select" /\ IdleTimeout > 0 /\ timer = IdleTimeout
  /\ interrupted' = "idle"
  /\ watch' = "cutLeft"
  /\ UNCHANGED <<timer, activity, deadline>>

\* interruptConnections(left, right).
WatchInterrupts ==
  /\ \/ watch = "cutLeft" /\ watch' = "cutRight" /\ deadline' = deadline \cup {"left"}
     \/ watch = "cutRight" /\ watch' = "ended" /\ deadline' = deadline \cup {"right"}
  /\ UNCHANGED <<interrupted, timer, activity>>

unwatchedVars == <<unread, eof, copyVars, mainVars, ctxDone, quiet>>

watchRelay ==
  /\ \/ WatchDone \/ WatchContext \/ WatchActivity \/ WatchReset \/ WatchIdle
     \/ WatchInterrupts
  /\ UNCHANGED unwatchedVars

-----------------------------------------------------------------------------

Next ==
  \/ \E c \in Conns : Peer(c) \/ CopyAlone(c) \/ CopyWithPeer(c)
  \/ ContextEnds \/ Tick \/ Copy \/ watchRelay

Spec == Init /\ [][Next]_vars

\* Goroutines that can run do, and a select, which chooses at random, takes the
\* end of the context in the end even if there is activity each time.  Peers owe
\* us nothing: a read may wait for bytes, and a write for a stalled peer, for
\* ever, and bytes may come for ever.
FairSpec ==
  /\ Spec
  /\ \A d \in Conns : WF_vars(CopyAlone(d))
  /\ WF_vars(Copy) /\ WF_vars(watchRelay) /\ SF_vars(WatchContext /\ UNCHANGED unwatchedVars)

\* The clock goes on.  Only the idle timer depends on it.
TimePasses == WF_vars(Tick)

-----------------------------------------------------------------------------
(***************************************************************************)
(* Properties.                                                             *)
(***************************************************************************)

\* A clean end is told only of a complete stream, to the caller (nil) and to a peer
\* (the half-close): the other side has finished, and every byte it sent was
\* delivered.  A relay that fails or is cut off makes no truncated stream look whole.
CleanMeansComplete ==
  \A d \in Conns :
    returned = "nil" \/ Other(d) \in halfClosed =>
      d \in eof /\ unread[d] = 0 /\ unwritten[d] = 0

\* "A clean EOF half-closes the opposite writer and leaves the reverse copy
\* running": connections are cut only for an error, the context's end or
\* the idle timeout, never because one direction has finished.
CutForCause ==
  deadline # {} => interrupted # "none" \/ \E d \in Conns : outcome[d] = "io"

\* An interruption is never reported as an I/O error: the watcher leaves its
\* reason before it cuts, so the failures it causes come after it.
InterruptReported ==
  returned = "error" => \E d \in Conns : outcome[d] = "io"

\* When Copy has returned, its goroutines have ended: nothing touches the
\* connections after their owner closes them.
JoinedAtReturn ==
  main = "returned" => watch = "ended" /\ \A d \in Conns : copying[d] = "ended"

\* The one-token channel loses no progress: when the watcher declares the
\* relay idle, no byte has moved for the whole idle timeout, or the token
\* that says so is still waiting beside the timer.
NoFalseIdle ==
  [][interrupted = "none" /\ interrupted' = "idle" => quiet = IdleTimeout \/ activity]_vars

\* Bytes are read or written again and again, in either direction.
BytesMoveOn == []<><<TRUE>>_unwritten

\* With an idle timeout and a clock that goes on, a relay ends unless bytes keep
\* moving: peers that send nothing, or send and do not read, cannot hold it.
RelayEnds == TimePasses => <>(main = "returned") \/ BytesMoveOn

\* Without the help of the idle timer, and although bytes may keep moving, it
\* ends once a direction fails or the context ends.
InterruptEnds ==
  ctxDone \/ (\E d \in Conns : outcome[d] = "io") ~> main = "returned"
=============================================================================
