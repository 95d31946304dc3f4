------------------------------ MODULE TunnelOpen ------------------------------
(***************************************************************************)
(* One tunnel from CONNECT to the relay: Client.Open and DialStream in     *)
(* internal/tunnel/client.go with Upgrade, DialInnerTLS and AcceptInnerTLS *)
(* against handleSession in internal/relay/server.go, message by message.  *)
(*                                                                         *)
(* A stream is a sequence of cells: the messages of the handshakes, the    *)
(* cells of control frames (Protocol), "fin" for an orderly end and "rst"  *)
(* for a reset.  A deadline is none, future or past; cancelling the        *)
(* context starts the callbacks registered with AfterFunc, each of which   *)
(* sets a past deadline when it gets to run.                               *)
(***************************************************************************)
EXTENDS Naturals, Sequences, FiniteSets, Protocol

CONSTANTS
  Setups,    \* what the operators of both sides and the CONNECT client have chosen
  Lookups,   \* what the relay's resolver can answer
  clientMax  \* the client's limit on control messages (the default one)

\* What is configured and typed, and what a token may be (config.LoadToken, Limits).
ASSUME SetupsAssumption ==
  \A s \in Setups :
    /\ s.authority.host \in Seq(Characters) /\ s.authority.form \in {"plain", "brackets", "bare", "spaced"}
    /\ s.relayList \in Seq(Seq(Characters)) /\ s.relayAll \in BOOLEAN
    /\ s.token.size \in Nat /\ s.token.size >= MinTokenBytes /\ 2 + s.token.size <= clientMax
    /\ s.relayMax \in Nat /\ s.relayMax >= 3

\* Every destination fits the client's limit.
ASSUME LimitsAssumption ==
  /\ MinTokenBytes \in Nat /\ clientMax \in Nat /\ maxHostnameLength \in Nat
  /\ 5 + maxHostnameLength <= clientMax

ASSUME LookupsAssumption ==
  \A lookup \in Lookups :
    lookup.addresses \in Seq([valid : BOOLEAN, zone : BOOLEAN, mapped : BOOLEAN, traits : SUBSET Traits])

VARIABLES
  setup,         \* the element of Setups in force, and the lists it configures
  ctxDone,       \* the context of Open has ended
  pc,            \* where Open is
  deadline,      \* deadline of the client's connection
  callback,      \* the two AfterFunc callbacks
  requested,     \* the destination Open is called with
  result,        \* what Open returns
  clientClosed,  \* the client has closed its connection
  toServer, toClient,
  broken,        \* the network between the two has failed
  spc,           \* where the relay's session is
  sdeadline,     \* deadline of the relay's connection
  serverClosed,  \* the relay has closed its connection
  answer,        \* what the relay has decided about the session
  addresses,     \* addresses TCPDialer has still to try
  target,        \* the connection to the destination
  dialed         \* the destination and the address it was made to

clientVars == <<pc, deadline, callback, requested, result, clientClosed>>
serverVars == <<spc, sdeadline, serverClosed, answer, addresses, target, dialed>>
wires      == <<toServer, toClient>>
world      == <<setup, ctxDone, broken>>
vars == <<clientVars, serverVars, wires, world>>

Cell(name) == [cell |-> name]

\* Both sides parse their lists when they start.
Configured(s) ==
  [given |-> s, local |-> ParseAllowlist(s.localList),
   relay |-> IF s.relayAll THEN AllowAll ELSE ParseAllowlist(s.relayList)]

Given == setup.given

Init ==
  /\ setup \in {Configured(s) : s \in Setups}
  /\ requested = NoDestination
  /\ ctxDone = FALSE
  /\ pc = "check"
  /\ deadline = "none"
  /\ callback = [k \in {"upgrade", "open"} |-> "unset"]
  /\ result = "none"
  /\ clientClosed = TRUE
  /\ toServer = <<>> /\ toClient = <<>>
  /\ broken = FALSE
  /\ spc = "http"
  /\ sdeadline = "none"
  /\ serverClosed = FALSE
  /\ answer = "none"
  /\ addresses = <<>>
  /\ target = "none"
  /\ dialed = [destination |-> NoDestination, address |-> "none"]

-----------------------------------------------------------------------------
(***************************************************************************)
(* The connection between the two.                                         *)
(***************************************************************************)

Ends == {"fin", "rst"}

Ended(stream) == stream # <<>> /\ Last(stream).cell \in Ends

Ending(stream, end) == IF Ended(stream) THEN stream ELSE Append(stream, Cell(end))

\* A reset may overtake what was sent before it.
Resets(stream) == {Ending(stream, "rst"), <<Cell("rst")>>}

\* What the client sees when the relay closes.  Closing with input unread resets
\* the connection, which the front end before the relay may make orderly again.
AfterServerClose(stream, unread) ==
  IF clientClosed THEN {<<>>}
  ELSE IF broken THEN {stream}
  ELSE IF unread THEN Resets(stream) \cup {Ending(stream, "fin")}
  ELSE {Ending(stream, "fin")}

\* The client writes one cell; a relay that is gone answers with a reset, a
\* broken network perhaps with nothing.
ClientWrites(cell) ==
  IF serverClosed \/ broken
    THEN /\ UNCHANGED toServer
         /\ toClient' \in Resets(toClient) \cup (IF broken THEN {toClient} ELSE {})
    ELSE toServer' = Append(toServer, cell) /\ UNCHANGED toClient

\* Why a write of the client can fail.  On the first write after a reset the
\* system reports it; a stream that had ended before is a broken pipe.
WriteErrors ==
  (IF deadline = "past" THEN {"timeout"} ELSE {})
    \cup (IF Ended(toClient) THEN {"reset", "pipe"} ELSE {})

\* Why a read of the client can fail.
ReadErrors ==
  IF deadline = "past" THEN {"timeout"}
  ELSE IF toClient # <<>> /\ Head(toClient).cell = "fin" THEN {"eof"}
  ELSE IF toClient # <<>> /\ Head(toClient).cell = "rst" THEN {"reset"}
  ELSE {}

\* WebSocketConn.readHeader passes io.EOF on and puts any other error into
\* the text of ErrMalformedWebSocketFrame, where errors.Is does not find it.
ViaWebSocket(error) == IF error \in {"timeout", "reset"} THEN "malformed" ELSE error

\* Decode can go on: the frame is there, or will not be.
FrameReady(stream, max) ==
  \/ Len(stream) >= 2
  \/ Len(stream) = 1 /\ (stream[1].cell # "length" \/ stream[1].size > max)

-----------------------------------------------------------------------------
(***************************************************************************)
(* Open.                                                                   *)
(***************************************************************************)

Goto(from, to) == pc = from /\ pc' = to

\* The local proxy parses the authority and checks it; Open checks again.
Check ==
  /\ pc = "check"
  /\ LET checked == CheckAuthority(setup.local, Given.authority) IN
       IF checked.deny = "none"
         THEN pc' = "dial" /\ requested' = checked.destination /\ UNCHANGED result
         ELSE pc' = "failed" /\ result' = checked.deny /\ UNCHANGED requested
  /\ UNCHANGED <<deadline, callback, clientClosed, serverVars, wires, world>>

\* DialPort fails, or Upgrade starts: a deadline and its callback.
Dial ==
  \/ /\ Goto("dial", "failed")
     /\ result' \in IF ctxDone THEN {"cancelled"} ELSE {"timeout", "error"}
     /\ UNCHANGED <<requested, deadline, callback, clientClosed, serverVars, wires, world>>
  \/ /\ Goto("dial", "upgradeWrite")
     /\ clientClosed' = FALSE
     /\ deadline' = "future"
     /\ callback' = [callback EXCEPT !["upgrade"] = "armed"]
     /\ UNCHANGED <<requested, result, serverVars, wires, world>>

\* The request carries a fresh key, and only a 101 that proves to have read it is
\* an answer to it.
UpgradeRequest == Cell("GET")

validateUpgrade(response) == response.cell = "101"

\* What arrived with the response stays in front of what is still to come.
AfterResponse == Tail(toClient)

UpgradeWrite ==
  /\ \/ /\ Goto("upgradeWrite", "upgradeRead") /\ deadline # "past"
        /\ ClientWrites(UpgradeRequest)
        /\ UNCHANGED result
     \/ /\ Goto("upgradeWrite", "upgradeStop")
        /\ \E error \in WriteErrors : result' = IF error = "timeout" THEN "timeout" ELSE "error"
        /\ UNCHANGED wires
  /\ UNCHANGED <<requested, deadline, callback, clientClosed, serverVars, world>>

UpgradeRead ==
  /\ Goto("upgradeRead", "upgradeStop")
  /\ \/ /\ ReadErrors = {} /\ toClient # <<>>
        /\ result' = IF validateUpgrade(Head(toClient)) THEN "none" ELSE "error"
        /\ toClient' = AfterResponse
     \/ /\ \E error \in ReadErrors : result' = IF error = "timeout" THEN "timeout" ELSE "error"
        /\ UNCHANGED toClient
  /\ UNCHANGED <<requested, deadline, callback, clientClosed, toServer, serverVars, world>>

\* What stop() of AfterFunc does: a callback that has started is not stopped.
Stop(k) == callback' = [callback EXCEPT ![k] = IF @ = "armed" THEN "stopped" ELSE @]

\* Mutant: the callback is left armed.
UpgradeStopForgotten ==
  /\ Goto("upgradeStop", "upgradeClear")
  /\ UNCHANGED <<requested, deadline, callback, result, clientClosed, serverVars, wires, world>>

UpgradeStop ==
  /\ Goto("upgradeStop", "upgradeClear")
  /\ Stop("upgrade")
  /\ UNCHANGED <<requested, deadline, result, clientClosed, serverVars, wires, world>>

\* The client closes its connection: unread input is lost, and so is the stream
\* to a caller that gets an error.
CloseClient ==
  /\ clientClosed' = TRUE
  /\ toClient' = <<>>
  /\ toServer' = IF serverClosed THEN <<>>
                 ELSE IF broken THEN toServer ELSE Ending(toServer, "fin")

\* Upgrade's deferred call; DialStream closes the connection of a failed one.
UpgradeClear ==
  /\ pc = "upgradeClear"
  /\ deadline' = "none"
  /\ IF result = "none"
       THEN pc' = "tlsHello" /\ UNCHANGED <<clientClosed, wires>>
       ELSE pc' = "failed" /\ CloseClient
  /\ UNCHANGED <<requested, callback, result, serverVars, world>>

\* handshakeInnerTLS: a deadline, the ClientHello, the server's flight with its
\* certificate, the client's Finished; the deadline is cleared.
TLSHello ==
  /\ Goto("tlsHello", "tlsRead")
  /\ deadline' = "future"
  /\ ClientWrites(Cell("ClientHello"))
  /\ UNCHANGED <<requested, callback, result, clientClosed, serverVars, world>>

TLSRead ==
  /\ Goto("tlsRead", "tlsClear")
  /\ ReadErrors = {} /\ toClient # <<>> /\ Head(toClient).cell = "ServerHello"
  /\ Given.pin
  /\ IF serverClosed \/ broken
       THEN toServer' = toServer /\ toClient' \in Resets(Tail(toClient))
       ELSE toServer' = Append(toServer, Cell("Finished")) /\ toClient' = Tail(toClient)
  /\ UNCHANGED <<requested, deadline, callback, result, clientClosed, serverVars, world>>

\* The handshake fails: a read error, another key than the pinned one, or
\* HandshakeContext sees the end of the context and closes the connection.
TLSFails ==
  /\ Goto("tlsRead", "failed")
  /\ \/ ctxDone /\ result' = "cancelled"
     \/ ReadErrors # {} /\ result' = "error"
     \/ ReadErrors = {} /\ toClient # <<>> /\ ~Given.pin /\ result' = "error"
  /\ deadline' = "none"
  /\ CloseClient
  /\ UNCHANGED <<requested, callback, serverVars, world>>

TLSClear ==
  /\ Goto("tlsClear", "control")
  /\ deadline' = "none"
  /\ UNCHANGED <<requested, callback, result, clientClosed, serverVars, wires, world>>

\* Mutant: only the context bounds the control messages.
StartControlUnbounded ==
  /\ Goto("control", "helloLength")
  /\ deadline' = "none"
  /\ callback' = [callback EXCEPT !["open"] = "armed"]
  /\ UNCHANGED <<requested, result, clientClosed, serverVars, wires, world>>

\* The control deadline, and the callback that overrides it.
StartControl ==
  /\ Goto("control", "helloLength")
  /\ deadline' = "future"
  /\ callback' = [callback EXCEPT !["open"] = "armed"]
  /\ UNCHANGED <<requested, result, clientClosed, serverVars, wires, world>>

HelloMessage == Hello(Given.token)
OpenMessage == Open(requested)

\* One of the two writes of Encode.
Send(from, to, cell) ==
  /\ Goto(from, to) /\ deadline # "past"
  /\ ClientWrites(cell)
  /\ UNCHANGED <<requested, deadline, callback, result, clientClosed, serverVars, world>>

SendHello ==
  \/ Send("helloLength", "helloBody", Encode(HelloMessage, clientMax)[1])
  \/ Send("helloBody", "helloAwait", Encode(HelloMessage, clientMax)[2])

SendOpen ==
  \/ Send("openLength", "openBody", Encode(OpenMessage, clientMax)[1])
  \/ Send("openBody", "openAwait", Encode(OpenMessage, clientMax)[2])

\* Mutant: the end of the stream is taken for a refused certificate.
CertificateRejectedAtEnd(error) == error \in {"alert", "reset", "eof"}

\* ClientCertificateRejected.
CertificateRejected(error) == error \in {"alert", "reset"}

\* How Open reports an error of Encode or Decode.  A write that was too late stays
\* a timeout to errors.As; a read no longer is one, see ViaWebSocket.
Report(error) ==
  IF ctxDone THEN "cancelled"
  ELSE IF pc \in {"helloLength", "helloBody", "helloAwait"} /\ CertificateRejected(error) THEN "certRejected"
  ELSE IF pc = "helloAwait" /\ error = "eof" THEN "authFailed"
  ELSE IF error = "timeout" THEN "timeout"
  ELSE "error"

SendFails ==
  /\ pc \in {"helloLength", "helloBody", "openLength", "openBody"}
  /\ \E error \in WriteErrors : result' = Report(error)
  /\ pc' = "unwind"
  /\ UNCHANGED <<requested, deadline, callback, clientClosed, serverVars, wires, world>>

\* Decode fails: the connection does (with io.EOF only before the first byte of
\* a frame), the relay's alert arrives, or the message is not one.
AwaitFails ==
  /\ pc \in {"helloAwait", "openAwait"}
  /\ \/ \E error \in ReadErrors : result' = Report(ViaWebSocket(error))
     \/ /\ ReadErrors = {} /\ toClient # <<>>
        /\ IF Head(toClient).cell = "alert"
             THEN result' = Report("alert")
             ELSE /\ FrameReady(toClient, clientMax)
                  /\ Decode(toClient, clientMax).error # "none"
                  /\ result' = Report("malformed")
  /\ pc' = "unwind"
  /\ UNCHANGED <<requested, deadline, callback, clientClosed, serverVars, wires, world>>

Reply == Decode(toClient, clientMax)

\* A message arrives; the context is asked again before it is believed.
Await(from, to, type) ==
  /\ pc = from
  /\ ReadErrors = {} /\ FrameReady(toClient, clientMax) /\ Reply.error = "none"
  /\ toClient' = SubSeq(toClient, Reply.read + 1, Len(toClient))
  /\ IF ~ctxDone /\ Reply.message.type = type
       THEN pc' = to /\ UNCHANGED result
       ELSE /\ pc' = "unwind"
            /\ result' = IF ctxDone THEN "cancelled"
                         ELSE IF from = "openAwait" /\ Reply.message.type = "OPEN_ERROR"
                                THEN Reply.message.code ELSE "error"
  /\ UNCHANGED <<requested, deadline, callback, clientClosed, toServer, serverVars, world>>

AwaitHelloOK == Await("helloAwait", "openLength", "HELLO_OK")
AwaitOpenOK == Await("openAwait", "stop", "OPEN_OK")

\* OPEN_OK: stopCancellation, one more look at the context, no deadline.
StopCancellation ==
  /\ Goto("stop", "recheck")
  /\ Stop("open")
  /\ UNCHANGED <<requested, deadline, result, clientClosed, serverVars, wires, world>>

Recheck ==
  /\ \/ ~ctxDone /\ Goto("recheck", "clear") /\ UNCHANGED result
     \/ ctxDone /\ Goto("recheck", "unwind") /\ result' = "cancelled"
  /\ UNCHANGED <<requested, deadline, callback, clientClosed, serverVars, wires, world>>

ClearDeadline ==
  /\ Goto("clear", "opened")
  /\ deadline' = "none"
  /\ result' = "opened"
  /\ UNCHANGED <<requested, callback, clientClosed, serverVars, wires, world>>

\* Mutant: the deferred close asks for an error that is no longer the one.
UnwindKeepsStream ==
  /\ Goto("unwind", "failed")
  /\ Stop("open")
  /\ IF result = "cancelled" THEN UNCHANGED <<clientClosed, wires>> ELSE CloseClient
  /\ UNCHANGED <<requested, deadline, result, serverVars, world>>

\* The deferred calls of an Open that failed.
Unwind ==
  /\ Goto("unwind", "failed")
  /\ Stop("open")
  /\ CloseClient
  /\ UNCHANGED <<requested, deadline, result, serverVars, world>>

\* The status the local proxy answers CONNECT with, 0 before there is one.
proxyStatus ==
  CASE result = "none" -> 0
    [] result = "opened" -> 200
    [] result = "malformed-authority" -> 400
    [] result \in {"ip-literal", "port-not-allowed", "not-allowlisted",
                   "forbidden-destination", "address-rejected"} -> 403
    [] result = "timeout" -> 504
    [] result \in {"cancelled", "limit-exceeded"} -> 503
    [] OTHER -> 502

-----------------------------------------------------------------------------
(***************************************************************************)
(* The context, its callbacks, the clock and the network.                  *)
(***************************************************************************)

\* The CONNECT client leaves, or the local proxy cuts the session off.
CancelContext ==
  /\ ~ctxDone
  /\ ctxDone' = TRUE
  /\ UNCHANGED <<setup, broken, clientVars, serverVars, wires>>

CallbackStarts(k) ==
  /\ ctxDone /\ callback[k] = "armed"
  /\ callback' = [callback EXCEPT ![k] = "running"]
  /\ UNCHANGED <<requested, pc, deadline, result, clientClosed, serverVars, wires, world>>

CallbackSets(k) ==
  /\ callback[k] = "running"
  /\ callback' = [callback EXCEPT ![k] = "done"]
  /\ deadline' = IF clientClosed THEN deadline ELSE "past"
  /\ UNCHANGED <<requested, pc, result, clientClosed, serverVars, wires, world>>

DeadlinePasses ==
  /\ \/ deadline = "future" /\ deadline' = "past" /\ UNCHANGED sdeadline
     \/ sdeadline = "future" /\ sdeadline' = "past" /\ UNCHANGED deadline
  /\ UNCHANGED <<pc, callback, requested, result, clientClosed, spc, serverClosed, answer, addresses,
                 target, dialed, wires, world>>

\* The network fails.  Each end may notice, or hear nothing any more.
Break ==
  /\ ~broken /\ ~clientClosed /\ ~serverClosed
  /\ broken' = TRUE
  /\ toClient' \in Resets(toClient) \cup {Ending(toClient, "fin"), <<>>}
  /\ toServer' \in Resets(toServer) \cup {<<>>}
  /\ UNCHANGED <<setup, ctxDone, clientVars, serverVars>>

-----------------------------------------------------------------------------
(***************************************************************************)
(* handleSession, after net/http has read the request.                     *)
(***************************************************************************)

SGoto(from, to) == spc = from /\ spc' = to

\* The relay writes, to a client that may be gone.
Written(stream, cells) == IF clientClosed \/ broken THEN stream ELSE stream \o cells

\* A read of the relay fails: cut off, too late, or the client is gone.
ServerReadFails ==
  serverClosed \/ sdeadline = "past" \/ (toServer # <<>> /\ Head(toServer).cell \in Ends)

\* A write of the relay can fail for the same reasons.
ServerWriteFails == serverClosed \/ sdeadline = "past" \/ Ended(toServer)

\* The deferred calls: the target, the inner session, the WebSocket.  rest is
\* the input that was not read, sent what was still written.
EndSession(rest, sent, decision) ==
  /\ spc' = "ended"
  /\ answer' = IF answer = "none" THEN decision ELSE answer
  /\ target' = IF target = "open" THEN "closed" ELSE target
  /\ serverClosed' = TRUE
  /\ toServer' = <<>>
  /\ IF serverClosed THEN UNCHANGED toClient
     ELSE toClient' \in AfterServerClose(Written(toClient, sent), rest # <<>> /\ ~Ended(rest))
  /\ UNCHANGED <<sdeadline, addresses, dialed>>

\* AcceptWebSocket: the request is answered with 101, or refused (too many
\* sessions, a blocked source, a draining server).
Accept ==
  /\ spc = "http" /\ toServer # <<>>
  /\ \/ /\ Head(toServer).cell \notin Ends
        /\ \/ /\ spc' = "tlsHello" /\ sdeadline' = "future"
              /\ toClient' = Written(toClient, <<Cell("101")>>)
              /\ UNCHANGED answer
           \/ /\ spc' = "ended" /\ answer' = "http"
              /\ toClient' = Written(toClient, <<Cell("status")>>)
              /\ UNCHANGED sdeadline
        /\ toServer' = Tail(toServer)
        /\ UNCHANGED <<serverClosed, addresses, target, dialed>>
     \/ Head(toServer).cell \in Ends /\ EndSession(<<>>, <<>>, "lost")
  /\ UNCHANGED <<clientVars, world>>

SInput(label) == spc = label /\ ~ServerReadFails /\ toServer # <<>>

AcceptHello ==
  /\ SInput("tlsHello")
  /\ spc' = "tlsFinished"
  /\ toServer' = Tail(toServer)
  /\ toClient' = Written(toClient, <<Cell("ServerHello")>>)
  /\ UNCHANGED <<sdeadline, serverClosed, answer, addresses, target, dialed, clientVars, world>>

\* The client's certificate is judged before its Finished is read; a refusal is
\* an alert, and whatever follows it stays unread.
AcceptFinished ==
  /\ SInput("tlsFinished")
  /\ IF Given.certificate = "refused"
       THEN EndSession(Tail(toServer), <<Cell("alert")>>, "cert")
       ELSE /\ spc' = "hello" /\ sdeadline' = "future"
            /\ toServer' = Tail(toServer)
            /\ UNCHANGED <<serverClosed, answer, addresses, target, dialed, toClient>>
  /\ UNCHANGED <<clientVars, world>>

SReady(label) == spc = label /\ ~ServerReadFails /\ FrameReady(toServer, Given.relayMax)

Heard == Decode(toServer, Given.relayMax)

Unheard == SubSeq(toServer, Heard.read + 1, Len(toServer))

ReadHello ==
  /\ SReady("hello")
  /\ IF Heard.error = "none" /\ Heard.message.type = "HELLO" /\ Heard.message.token.secret \in Given.tokens
       THEN /\ spc' = "helloOK"
            /\ toServer' = Unheard
            /\ UNCHANGED <<sdeadline, serverClosed, answer, addresses, target, dialed, toClient>>
       ELSE EndSession(Unheard, <<>>, IF Heard.error = "none" THEN "token" ELSE "hello")
  /\ UNCHANGED <<clientVars, world>>

\* Encode; a failure leaves a part of the frame behind and ends the session.
Say(from, to, frame) ==
  /\ spc = from
  /\ \/ /\ ~serverClosed /\ sdeadline # "past"
        /\ spc' = to
        /\ toClient' = Written(toClient, frame)
        /\ UNCHANGED <<toServer, sdeadline, serverClosed, answer, addresses, target, dialed>>
     \/ /\ ServerWriteFails
        /\ \E n \in 0..1 : EndSession(toServer, SubSeq(frame, 1, n), "lost")
  /\ UNCHANGED <<clientVars, world>>

SayHelloOK == Say("helloOK", "open", Encode(HelloOK, Given.relayMax))

Refusal(code) == Encode(OpenError(code), Given.relayMax)

ReadOpen ==
  /\ SReady("open")
  /\ IF Heard.error = "none" /\ Heard.message.type = "OPEN"
       THEN /\ spc' = "resolve"
            /\ dialed' = [dialed EXCEPT !.destination = Heard.message.destination]
            /\ toServer' = Unheard
            /\ UNCHANGED <<sdeadline, serverClosed, answer, addresses, target, toClient>>
       ELSE EndSession(Unheard, Refusal("malformed"), "malformed")
  /\ UNCHANGED <<clientVars, world>>

\* Checker.Resolve, then the checks of TCPDialer.Dial, which are the same.
ResolveTarget ==
  /\ spc = "resolve"
  /\ \E lookup \in Lookups :
       LET decision == Resolve(setup.relay, dialed.destination, lookup) IN
         IF decision = "none"
           THEN /\ spc' = "dial" /\ addresses' = lookup.addresses
                /\ UNCHANGED <<sdeadline, serverClosed, answer, target, dialed, wires>>
           ELSE EndSession(toServer, IF ServerWriteFails THEN <<>> ELSE Refusal(ErrorCodeFor(decision)),
                           ErrorCodeFor(decision))
  /\ UNCHANGED <<clientVars, world>>

\* Each address in order, until one accepts.
DialTarget ==
  /\ spc = "dial"
  /\ \/ /\ addresses # <<>> /\ ~serverClosed
        /\ target' = "open" /\ spc' = "openOK"
        /\ dialed' = [dialed EXCEPT !.address = Head(addresses)]
        /\ UNCHANGED <<addresses, sdeadline, serverClosed, answer, wires>>
     \/ /\ addresses # <<>>
        /\ addresses' = Tail(addresses)
        /\ UNCHANGED <<spc, target, dialed, sdeadline, serverClosed, answer, wires>>
     \/ /\ addresses = <<>>
        /\ EndSession(toServer, IF ServerWriteFails THEN <<>> ELSE Refusal("dial-failed"), "dial-failed")
  /\ UNCHANGED <<clientVars, world>>

\* Mutant: OPEN_OK is sent before the target is dialled.
SayOpenOKEarly == Say("dial", "openOK", Encode(OpenOK, Given.relayMax))

SayOpenOK == Say("openOK", "relay", Encode(OpenOK, Given.relayMax))

\* The deadline is cleared and Copy runs (see RelayCopy) until it ends.
RelayEnds ==
  /\ spc = "relay"
  /\ EndSession(<<>>, <<>>, "ok")
  /\ UNCHANGED <<clientVars, world>>

\* A read fails before a message is complete.
SessionFails ==
  /\ spc \in {"tlsHello", "tlsFinished", "hello", "open"}
  /\ ServerReadFails
  /\ EndSession(toServer, IF spc = "open" /\ ~ServerWriteFails THEN Refusal("malformed") ELSE <<>>, "lost")
  /\ UNCHANGED <<clientVars, world>>

\* closeActive, the end of the session's lifetime.
CutOff ==
  /\ ~serverClosed /\ spc \notin {"http", "ended"}
  /\ serverClosed' = TRUE
  /\ answer' = IF answer = "none" THEN "lost" ELSE answer
  /\ toServer' = <<>>
  /\ toClient' \in AfterServerClose(toClient, toServer # <<>> /\ ~Ended(toServer))
  /\ UNCHANGED <<spc, sdeadline, addresses, target, dialed, clientVars, world>>

-----------------------------------------------------------------------------

Opening ==
  \/ Check \/ Dial \/ UpgradeWrite \/ UpgradeRead \/ UpgradeStop \/ UpgradeClear
  \/ TLSHello \/ TLSRead \/ TLSFails \/ TLSClear \/ StartControl \/ SendHello \/ SendOpen
  \/ SendFails \/ AwaitFails \/ AwaitHelloOK \/ AwaitOpenOK
  \/ StopCancellation \/ Recheck \/ ClearDeadline \/ Unwind

Serving ==
  \/ Accept \/ AcceptHello \/ AcceptFinished \/ ReadHello \/ SayHelloOK \/ ReadOpen
  \/ ResolveTarget \/ DialTarget \/ SayOpenOK \/ SessionFails

Callbacks == \E k \in {"upgrade", "open"} : CallbackStarts(k) \/ CallbackSets(k)

Next ==
  \/ Opening \/ Serving \/ RelayEnds
  \/ CancelContext \/ Callbacks \/ DeadlinePasses \/ Break \/ CutOff

Spec == Init /\ [][Next]_vars

\* Both goroutines run, deadlines pass, and a relay whose client is gone ends: it
\* reads the end of the stream, or its idle timeout passes (see RelayCopy).
\* Nobody has to cancel, to cut off or to break anything.
FairSpec ==
  /\ Spec
  /\ WF_vars(Opening) /\ WF_vars(Serving) /\ WF_vars(DeadlinePasses)
  /\ WF_vars((serverClosed \/ broken \/ Ended(toServer)) /\ RelayEnds)

-----------------------------------------------------------------------------
(***************************************************************************)
(* Properties.                                                             *)
(***************************************************************************)

\* A stream Open returns has no deadline, and no callback that could still set
\* one: neither Upgrade's nor Open's cancellation outlives it.
OpenedIsUsable ==
  pc = "opened" =>
    /\ deadline = "none"
    /\ \A k \in DOMAIN callback : callback[k] = "stopped"

\* An Open that fails leaves no connection behind, and a session that has ended
\* no target.
NothingLeaks ==
  /\ pc = "failed" => clientClosed
  /\ spc = "ended" => target # "open"

\* Reference for what an allowlist entry permits, label by label.
Under(host, suffix) ==
  \E k \in 2..Len(host) : host[k] = "." /\ SubSeq(host, k + 1, Len(host)) = suffix

Covers(entry, host) ==
  \/ host = WithoutDot(ToLower(entry))
  \/ /\ Len(entry) >= 2 /\ SubSeq(entry, 1, 2) = <<"*", ".">>
     /\ Under(host, WithoutDot(ToLower(SubSeq(entry, 3, Len(entry)))))

\* The relay connects only to the destination the CONNECT client has named, only
\* if its own list covers it, and only to a public address, although the name
\* and the port have crossed the network.
OnlyAllowedDialed ==
  target # "none" =>
    /\ ToLower(Given.authority.host) \in
         {dialed.destination.host, Append(dialed.destination.host, ".")}
    /\ dialed.destination.port = Given.authority.port /\ Given.authority.port = 443
    /\ Given.relayAll \/ \E entry \in ToSet(Given.relayList) : Covers(entry, dialed.destination.host)
    /\ dialed.address.valid /\ ~dialed.address.zone
    /\ dialed.address.traits = {"global"}

\* What Open reports is true.  A refusal's code is the relay's; a rejected
\* certificate was rejected, unless the session was lost, or was larger than the
\* relay would read (which resets the connection too); a failed authentication
\* is neither an accepted one nor a rejected certificate; the CONNECT client reads
\* 200 only after the relay's OPEN_OK, 403 only if a list or an address forbade the
\* destination, and 504 only if the relay has not connected to it and will not.
ReportsAreTrue ==
  /\ result \in ErrorCodes => answer = result
  /\ result = "certRejected" =>
       answer \in {"cert", "lost"} \/ broken
         \/ (answer = "hello" /\ BodySize(HelloMessage) > Given.relayMax)
  /\ result = "authFailed" => broken \/ answer \in {"hello", "token", "lost"}
  /\ proxyStatus = 200 => answer \in {"none", "ok", "lost"}
  /\ proxyStatus = 403 =>
       answer \in {"forbidden-destination", "address-rejected"}
         \/ CheckAuthority(setup.local, Given.authority).deny # "none"
  /\ proxyStatus = 504 => target = "none"

Contract == INSTANCE OpenContract WITH
  caller <- CASE pc = "opened" -> "opened" [] pc = "failed" -> "failed" [] OTHER -> "opening",
  relay <- CASE target = "open" -> "connected" [] target = "closed" -> "left"
             [] spc = "ended" /\ target = "none" -> "refused" [] OTHER -> "idle"

\* Open implements its contract.
RefinesContract == Contract!ContractSpec

\* Open returns, and a session whose client has given up lets go of its target.
OpenReturns ==
  /\ pc = "check" ~> pc \in {"opened", "failed"}
  /\ pc = "failed" /\ spc \notin {"http", "ended"} ~> spc = "ended"
=============================================================================
