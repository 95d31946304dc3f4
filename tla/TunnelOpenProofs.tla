--------------------------- MODULE TunnelOpenProofs ---------------------------
(***************************************************************************)
(* Proofs about TunnelOpen, for all setups, all answers of the resolver    *)
(* and all limits: its four invariants, and that it implements             *)
(* OpenContract.                                                           *)
(*                                                                         *)
(* The invariant has eight parts: where the callbacks can be               *)
(* (CallbackInv), what the relay's decision and its target have to do with *)
(* where its session is (SessionInv), what may be on its way to the relay  *)
(* (WireInv) and to the client (SaidInv), what has become of the           *)
(* destination (SentInv), how far the two are apart before the answer to   *)
(* HELLO (StepInv), what Open may have reported (ReportInv), and what the  *)
(* relay does not know before OPEN is written (TimeoutInv).                *)
(***************************************************************************)
EXTENDS TunnelOpen, TLAPS

-----------------------------------------------------------------------------
(***************************************************************************)
(* The invariant.                                                          *)
(***************************************************************************)

Keys == {"upgrade", "open"}

\* Where the callback of Upgrade, and that of Open, has been registered, and where
\* it can no longer start.
Upgrading == {"upgradeWrite", "upgradeRead", "upgradeStop"}
Controlling == {"helloLength", "helloBody", "helloAwait", "openLength", "openBody", "openAwait", "stop"}
AfterUpgrade ==
  {"upgradeClear", "tlsHello", "tlsRead", "tlsClear", "control", "helloLength", "helloBody", "helloAwait",
   "openLength", "openBody", "openAwait", "stop", "recheck", "clear", "opened"}
AfterStop == {"recheck", "clear", "opened"}

CallbackInv ==
  /\ callback \in [Keys -> {"unset", "armed", "stopped", "running", "done"}]
  /\ \A k \in Keys : callback[k] \in {"running", "done"} => ctxDone
  /\ pc \in Upgrading => callback["upgrade"] # "unset"
  /\ pc \in AfterUpgrade => callback["upgrade"] \notin {"unset", "armed"}
  /\ pc \in Controlling => callback["open"] # "unset"
  /\ pc \in AfterStop => callback["open"] \notin {"unset", "armed"}
  /\ pc \in {"clear", "opened"} => \A k \in Keys : callback[k] = "stopped"
  /\ pc = "opened" => deadline = "none"

\* The relay decides once, and is done with a session it has decided about,
\* except that a session cut off has still to end.
SessionInv ==
  /\ setup \in {Configured(s) : s \in Setups}
  /\ clientClosed \in BOOLEAN /\ serverClosed \in BOOLEAN /\ ctxDone \in BOOLEAN /\ broken \in BOOLEAN
  /\ pc \in {"check", "dial", "failed"} <=> clientClosed
  /\ target \in {"none", "open", "closed"}
  /\ target = "open" <=> spc \in {"openOK", "relay"}
  /\ target = "closed" => spc = "ended"
  /\ answer # "none" => spc = "ended" \/ serverClosed
  /\ spc = "ended" \/ serverClosed => answer # "none"
  /\ spc = "http" => ~serverClosed
  /\ answer = "http" => spc = "ended"
  /\ target # "none" => answer \in {"none", "ok", "lost"}

Checked == CheckAuthority(setup.local, Given.authority)

\* What the client may have sent: its messages, and an end only when there is
\* nothing more to send.
Sendable ==
  {Cell("GET"), Cell("ClientHello"), Cell("Finished"), Cell("fin"), Cell("rst"),
   Prefix(BodySize(HelloMessage)), Body(HelloMessage), Prefix(BodySize(OpenMessage)), Body(OpenMessage)}

WireStream ==
  /\ toServer \in Seq(Sendable)
  /\ \A i \in DOMAIN toServer :
       toServer[i].cell \in Ends => i = Len(toServer) /\ (clientClosed \/ broken)

\* Open asks for the destination Check has let through, and nothing is sent before.
WireRequest ==
  /\ pc \in {"check", "dial"} => toServer = <<>> /\ spc = "http" /\ result = "none"
  /\ pc = "check" => requested = NoDestination
  /\ requested # NoDestination => Checked.deny = "none" /\ requested = Checked.destination
  /\ pc \notin {"check", "failed"} => requested # NoDestination

WireInv == WireStream /\ WireRequest

\* What the relay may have sent.  The cells that tell the client something do so
\* truly.
Sayable ==
  {Cell("status"), Cell("ServerHello"), Body(HelloOK), Prefix(1), Prefix(2), Prefix(3)}
    \cup {cell \in {Cell("fin"), Cell("rst")} : serverClosed \/ broken}
    \cup {cell \in {Cell("101")} : spc # "http" /\ answer # "http"}
    \cup {cell \in {Cell("alert")} : answer = "cert"}
    \cup {Body(OpenError(code)) : code \in {c \in ErrorCodes : answer = c}}
    \cup {cell \in {Body(OpenOK)} : target # "none"}

SaidInv ==
  /\ toClient \in Seq(Sayable)
  /\ pc \in {"stop", "recheck", "clear", "opened"} => target # "none"

\* What has become of the client's destination.
Again == NewDestination(requested.host, requested.port)

PublicAddresses ==
  {a \in [valid : BOOLEAN, zone : BOOLEAN, mapped : BOOLEAN, traits : SUBSET Traits] :
     a.valid /\ ~a.zone /\ a.traits = {"global"}}

SentInv ==
  /\ dialed = [destination |-> dialed.destination, address |-> dialed.address]
  /\ spc \in {"resolve", "dial"} \/ target # "none" =>
       Again.deny = "none" /\ dialed.destination = Again.destination
  /\ spc = "dial" \/ target # "none" => Permits(setup.relay, dialed.destination) = "none"
  /\ spc = "dial" => addresses \in Seq(PublicAddresses)
  /\ target # "none" => dialed.address \in PublicAddresses

\* Up to the relay's answer to HELLO, the client has sent a part of Script and
\* the relay has taken a part of that.
Early ==
  {"upgradeWrite", "upgradeRead", "upgradeStop", "upgradeClear", "tlsHello", "tlsRead", "tlsClear",
   "control", "helloLength", "helloBody", "helloAwait"}

Script ==
  <<UpgradeRequest, Cell("ClientHello"), Cell("Finished"), Prefix(BodySize(HelloMessage)), Body(HelloMessage)>>

Sent(at) ==
  CASE at = "upgradeWrite" -> 0
    [] at \in {"upgradeRead", "upgradeStop", "upgradeClear", "tlsHello"} -> 1
    [] at = "tlsRead" -> 2
    [] at \in {"tlsClear", "control", "helloLength"} -> 3
    [] at = "helloBody" -> 4
    [] OTHER -> 5

Taken(at) ==
  CASE at = "http" -> 0 [] at = "tlsHello" -> 1 [] at = "tlsFinished" -> 2 [] at = "hello" -> 3 [] OTHER -> 5

TooLarge == BodySize(HelloMessage) > Given.relayMax

\* The alert is in front of the end of the stream.
FinAfterAlert(stream) ==
  \A i \in DOMAIN stream : stream[i].cell = "fin" => i > 1 /\ stream[i - 1].cell = "alert"

Live == pc \in Early /\ result = "none" /\ ~broken

InStep ==
  /\ spc \in {"http", "tlsHello", "tlsFinished", "hello", "helloOK", "open", "ended"}
  /\ spc # "ended" => Taken(spc) <= Sent(pc)
  /\ spc # "ended" /\ ~serverClosed =>
       /\ Len(toServer) = Sent(pc) - Taken(spc)
       /\ \A i \in DOMAIN toServer : toServer[i] = Script[Taken(spc) + i]
  /\ answer \in {"none", "lost", "http", "cert", "hello", "token"}
  /\ answer = "hello" => pc = "helloAwait" \/ TooLarge
  /\ answer = "token" => pc = "helloAwait"
  /\ answer = "cert" => FinAfterAlert(toClient)
  /\ pc \notin {"upgradeWrite", "upgradeRead"} => spc # "http" /\ answer # "http"

\* Where Open has nothing to report yet.
Undecided ==
  {"check", "dial", "upgradeWrite", "upgradeRead", "tlsHello", "tlsRead", "tlsClear", "control", "helloLength",
   "helloBody", "helloAwait", "openLength", "openBody", "openAwait", "stop", "recheck", "clear"}

StepInv ==
  /\ pc \in Undecided => result = "none"
  /\ Live => InStep

\* What has been reported stays true.
Denials == {"malformed-authority", "ip-literal", "port-not-allowed", "not-allowlisted"}

ReportInv ==
  /\ result = "opened" => pc = "opened"
  /\ result \in Denials => Checked.deny # "none"
  /\ result \in ErrorCodes => answer = result
  /\ result = "certRejected" => answer \in {"cert", "lost"} \/ broken \/ (answer = "hello" /\ TooLarge)
  /\ result = "authFailed" => broken \/ answer \in {"hello", "token", "lost"}

\* Until Open has written the whole of OPEN, and for ever when a timeout ends it
\* before, the relay has no destination and gets none.
BeforeOpen == Early \cup {"check", "dial", "openLength", "openBody"}

NotAsked == pc \in BeforeOpen \/ result = "timeout"

Unasked ==
  {Cell("GET"), Cell("ClientHello"), Cell("Finished"), Cell("fin"), Cell("rst"),
   Prefix(BodySize(HelloMessage)), Body(HelloMessage), Prefix(BodySize(OpenMessage))}

TimeoutInv ==
  NotAsked =>
    /\ toServer \in Seq(Unasked)
    /\ spc \notin {"resolve", "dial", "openOK", "relay"} /\ target = "none"

-----------------------------------------------------------------------------
(***************************************************************************)
(* Names: what canonicalHostname leaves.                                   *)
(***************************************************************************)

LEMMA Lowered ==
  ASSUME NEW text \in Seq(Characters)
  PROVE  /\ ToLower(text) \in Seq(Characters) /\ Len(ToLower(text)) = Len(text)
         /\ \A i \in 1..Len(text) : ToLower(text)[i] = IF text[i] = "A" THEN "a" ELSE text[i]
         /\ ToLower(ToLower(text)) = ToLower(text)
<1>1. ToLower(text) = [i \in 1..Len(text) |-> IF text[i] = "A" THEN "a" ELSE text[i]]
  BY DEF ToLower
<1>2. \A i \in 1..Len(text) : (IF text[i] = "A" THEN "a" ELSE text[i]) \in Characters
  <2>1. "a" \in Characters
    BY DEF Characters, LabelCharacters
  <2>2. \A i \in 1..Len(text) : text[i] \in Characters
    OBVIOUS
  <2> QED
    BY <2>1, <2>2, Zenon
<1>3. ToLower(text) \in Seq(Characters) /\ Len(ToLower(text)) = Len(text)
  BY <1>1, <1>2
<1>4. ToLower(ToLower(text)) = [i \in 1..Len(text) |-> IF ToLower(text)[i] = "A" THEN "a" ELSE ToLower(text)[i]]
  BY <1>3 DEF ToLower
<1>5. \A i \in 1..Len(text) : ToLower(text)[i] # "A"
  BY <1>1
<1>6. ToLower(ToLower(text)) = ToLower(text)
  BY <1>1, <1>4, <1>5
<1> QED
  BY <1>1, <1>3, <1>6

LEMMA Undotted ==
  ASSUME NEW text \in Seq(Characters)
  PROVE  /\ WithoutDot(text) \in Seq(Characters)
         /\ ToLower(WithoutDot(text)) = WithoutDot(ToLower(text))
         /\ text = WithoutDot(text) \/ text = Append(WithoutDot(text), ".")
         /\ text = <<>> \/ text[Len(text)] # "." => WithoutDot(text) = text
<1> DEFINE lower == ToLower(text)
<1>1. lower \in Seq(Characters) /\ Len(lower) = Len(text)
      /\ \A i \in 1..Len(text) : lower[i] = IF text[i] = "A" THEN "a" ELSE text[i]
  BY Lowered
<1>2. CASE text # <<>> /\ text[Len(text)] = "."
  <2>1. PICK n \in Nat : Len(text) = n + 1 /\ Len(text) - 1 = n
    <3>1. Len(text) \in Nat /\ Len(text) # 0
      BY <1>2
    <3> QED
      BY <3>1, Len(text) - 1 \in Nat
  <2> DEFINE front == SubSeq(text, 1, n)
  <2>2. WithoutDot(text) = front
    BY <1>2, <2>1 DEF WithoutDot, Last, Front
  <2>3. front \in Seq(Characters) /\ Len(front) = n /\ \A i \in 1..n : front[i] = text[i] /\ i \in 1..Len(text)
    BY <2>1
  <2>4. text = Append(front, ".")
    BY <1>2, <2>1
  <2>5. lower # <<>> /\ lower[Len(lower)] = "." /\ Len(lower) - 1 = n
    BY <1>1, <1>2, <2>1
  <2>6. WithoutDot(lower) = SubSeq(lower, 1, n)
    BY <2>5 DEF WithoutDot, Last, Front
  <2> HIDE DEF front
  <2>7. ToLower(front) = [i \in 1..n |-> IF front[i] = "A" THEN "a" ELSE front[i]]
    BY <2>3 DEF ToLower
  <2>8. \A i \in 1..n : (IF front[i] = "A" THEN "a" ELSE front[i]) = lower[i]
    BY <1>1, <2>3
  <2> HIDE DEF lower
  <2>9. ToLower(front) = [i \in 1..n |-> lower[i]]
    BY <2>7, <2>8, Zenon
  <2>10. SubSeq(lower, 1, n) = [i \in 1..n |-> lower[i]]
    BY <1>1, <2>1
  <2> QED
    BY <1>2, <2>2, <2>3, <2>4, <2>6, <2>9, <2>10 DEF lower
<1>3. CASE text = <<>> \/ text[Len(text)] # "."
  <2>1. WithoutDot(text) = text
    BY <1>3 DEF WithoutDot, Last
  <2>2. lower = <<>> \/ lower[Len(lower)] # "."
    BY <1>1, <1>3
  <2>3. WithoutDot(lower) = lower
    BY <2>2 DEF WithoutDot, Last
  <2> QED
    BY <2>1, <2>3
<1> QED
  BY <1>2, <1>3

\* A name that ends in a dot has an empty label.
LEMMA EmptyLabel ==
  ASSUME NEW name \in Seq(Characters), name # <<>>, name[Len(name)] = "."
  PROVE  <<>> \in Labels(name)
<1> DEFINE n == Len(name)
           cuts == {0, n + 1} \cup {i \in DOMAIN name : name[i] = "."}
           cut == <<n, n + 1>>
<1>1. n \in cuts /\ n + 1 \in cuts
  OBVIOUS
<1>2. cut[1] < cut[2] /\ \A k \in cuts : k <= cut[1] \/ k >= cut[2]
  OBVIOUS
<1>3. SubSeq(name, cut[1] + 1, cut[2] - 1) = <<>>
  OBVIOUS
<1>4. cut \in {c \in cuts \X cuts : c[1] < c[2] /\ \A k \in cuts : k <= c[1] \/ k >= c[2]}
  BY <1>1, <1>2
<1> QED
  BY <1>3, <1>4 DEF Labels

LEMMA Canonical ==
  ASSUME NEW raw \in Seq(Characters), canonicalHostname(raw).deny = "none"
  PROVE  LET name == canonicalHostname(raw).name IN
           /\ name = ToLower(WithoutDot(raw))
           /\ name \in Seq(Characters) /\ name # <<>> /\ Len(name) <= maxHostnameLength
           /\ WithoutDot(name) = name
<1> DEFINE host == WithoutDot(raw)
           name == ToLower(host)
<1>1. host \in Seq(Characters)
  BY Undotted
<1>2. name \in Seq(Characters) /\ Len(name) = Len(host)
  BY <1>1, Lowered
<1>3. /\ canonicalHostname(raw) = [name |-> name, deny |-> "none"]
      /\ host # <<>> /\ ~(Len(host) > maxHostnameLength)
      /\ \A label \in Labels(name) : validateLabel(label)
  BY DEF canonicalHostname
<1> HIDE DEF host, name
<1>4. name # <<>> /\ Len(name) <= maxHostnameLength
  BY <1>1, <1>2, <1>3, LimitsAssumption
<1>5. ~validateLabel(<<>>)
  BY DEF validateLabel
<1>6. name[Len(name)] # "."
  BY <1>2, <1>3, <1>4, <1>5, EmptyLabel
<1>7. WithoutDot(name) = name
  BY <1>2, <1>6, Undotted
<1> QED
  BY <1>2, <1>3, <1>4, <1>7 DEF host, name

\* What passes ParseAuthority and the local list.
LEMMA CheckedDestination ==
  ASSUME NEW list, NEW raw, raw.host \in Seq(Characters), raw.form \in {"plain", "brackets", "bare", "spaced"},
         CheckAuthority(list, raw).deny = "none"
  PROVE  LET destination == CheckAuthority(list, raw).destination IN
           /\ destination = [host |-> ToLower(WithoutDot(raw.host)), port |-> AllowedPort]
           /\ raw.port = AllowedPort
           /\ destination.host \in Seq(Characters) /\ destination.host # <<>>
           /\ Len(destination.host) <= maxHostnameLength
           /\ WithoutDot(destination.host) = destination.host
<1> DEFINE parsed == ParseAuthority(raw)
           canonical == canonicalHostname(raw.host)
<1>1. parsed.deny = "none" /\ CheckAuthority(list, raw).destination = parsed.destination
  <2>1. CASE parsed.deny # "none"
    BY <2>1 DEF CheckAuthority
  <2>2. CASE parsed.deny = "none"
    BY <2>2 DEF CheckAuthority
  <2> QED
    BY <2>1, <2>2
<1>2. parsed = NewDestination(raw.host, raw.port)
  BY <1>1 DEF ParseAuthority
<1>3. /\ canonical.deny = "none" /\ raw.port = AllowedPort
      /\ parsed.destination = [host |-> canonical.name, port |-> raw.port]
  BY <1>1, <1>2 DEF NewDestination
<1> QED
  BY <1>1, <1>3, Canonical

-----------------------------------------------------------------------------
(***************************************************************************)
(* Which variables are whose.                                              *)
(***************************************************************************)

LEMMA ServerSteps ==
  ASSUME Serving \/ RelayEnds \/ CutOff
  PROVE  UNCHANGED <<clientVars, world>>
<1>1. CASE Serving
  BY <1>1 DEF Serving, Accept, AcceptHello, AcceptFinished, ReadHello, SayHelloOK, ReadOpen,
              ResolveTarget, DialTarget, SayOpenOK, SessionFails, Say
<1>2. CASE RelayEnds \/ CutOff
  BY <1>2 DEF RelayEnds, CutOff
<1> QED
  BY <1>1, <1>2

LEMMA ClientSteps ==
  ASSUME Opening
  PROVE  UNCHANGED <<serverVars, world>>
BY DEF Opening, Check, Dial, UpgradeWrite, UpgradeRead, UpgradeStop, UpgradeClear, TLSHello, TLSRead,
       TLSFails, TLSClear, StartControl, SendHello, SendOpen, Send, SendFails, AwaitFails, AwaitHelloOK,
       AwaitOpenOK, Await, StopCancellation, Recheck, ClearDeadline, Unwind

-----------------------------------------------------------------------------
(***************************************************************************)
(* The callbacks.                                                          *)
(***************************************************************************)

LEMMA CallbackStart == Init => CallbackInv
  BY DEF Init, CallbackInv, Keys, Upgrading, AfterUpgrade, Controlling, AfterStop

\* What stop() leaves: the callback cannot start any more.
LEMMA Stopped ==
  ASSUME callback \in [Keys -> {"unset", "armed", "stopped", "running", "done"}],
         NEW k \in Keys, Stop(k)
  PROVE  /\ callback' \in [Keys -> {"unset", "armed", "stopped", "running", "done"}]
         /\ \A j \in Keys : callback'[j] = callback[j] \/ (j = k /\ callback'[j] = "stopped")
         /\ callback'[k] # "armed" /\ (callback'[k] = "unset" => callback[k] = "unset")
BY DEF Stop, Keys

\* Between two changes of its callbacks, Open moves within the same phase.
LEMMA CallbackMoves ==
  ASSUME CallbackInv, Opening
  PROVE  CallbackInv'
<1> ctxDone' = ctxDone
  BY ClientSteps DEF world
<1> USE DEF CallbackInv, Keys, Upgrading, AfterUpgrade, Controlling, AfterStop, Goto
<1>1. CASE Check \/ UpgradeWrite \/ UpgradeRead \/ UpgradeClear
  <2>1. UNCHANGED callback /\ pc' # "opened"
    BY <1>1 DEF Check, UpgradeWrite, UpgradeRead, UpgradeClear
  <2>2. /\ pc' \in AfterUpgrade => pc \in AfterUpgrade
        /\ pc' \in Upgrading => pc \in Upgrading
        /\ pc' \notin Controlling
    BY <1>1 DEF Check, UpgradeWrite, UpgradeRead, UpgradeClear
  <2>3. pc' \notin AfterStop
    BY <1>1 DEF Check, UpgradeWrite, UpgradeRead, UpgradeClear
  <2> QED
    BY <2>1, <2>2, <2>3
<1>2. CASE TLSHello \/ TLSRead \/ TLSFails \/ TLSClear
  BY <1>2 DEF TLSHello, TLSRead, TLSFails, TLSClear
<1>3. CASE SendHello \/ SendOpen \/ AwaitHelloOK \/ AwaitOpenOK
  <2>1. UNCHANGED callback
    BY <1>3 DEF SendHello, SendOpen, AwaitHelloOK, AwaitOpenOK, Send, Await
  <2>2. pc \in {"helloLength", "helloBody", "helloAwait", "openLength", "openBody", "openAwait"}
    BY <1>3 DEF SendHello, SendOpen, AwaitHelloOK, AwaitOpenOK, Send, Await
  <2>3. pc' \in {"helloBody", "helloAwait", "openLength", "openBody", "openAwait", "stop", "unwind"}
    BY <1>3 DEF SendHello, SendOpen, AwaitHelloOK, AwaitOpenOK, Send, Await
  <2> QED
    BY <2>1, <2>2, <2>3
<1>10. CASE SendFails \/ AwaitFails \/ Recheck
  BY <1>10 DEF SendFails, AwaitFails, Recheck
<1>4. CASE ClearDeadline
  BY <1>4 DEF ClearDeadline
<1>5. CASE Dial
  BY <1>5 DEF Dial
<1>6. CASE StartControl
  BY <1>6 DEF StartControl
<1>7. CASE UpgradeStop
  <2>1. pc = "upgradeStop" /\ pc' = "upgradeClear" /\ Stop("upgrade")
    BY <1>7 DEF UpgradeStop
  <2> QED
    BY <2>1, Stopped
<1>8. CASE StopCancellation
  <2>1. pc = "stop" /\ pc' = "recheck" /\ Stop("open")
    BY <1>8 DEF StopCancellation
  <2> QED
    BY <2>1, Stopped
<1>9. CASE Unwind
  BY <1>9 DEF Unwind, Stop
<1> QED
  BY <1>1, <1>2, <1>3, <1>4, <1>5, <1>6, <1>7, <1>8, <1>9, <1>10 DEF Opening

LEMMA CallbackStep ==
  ASSUME CallbackInv, [Next]_vars
  PROVE  CallbackInv'
<1>1. CASE Opening
  BY <1>1, CallbackMoves
<1>2. CASE Serving \/ RelayEnds \/ CutOff
  BY <1>2, ServerSteps DEF CallbackInv, clientVars, world
<1>3. CASE CancelContext
  BY <1>3 DEF CallbackInv, CancelContext, clientVars
<1>4. CASE Callbacks
  BY <1>4 DEF CallbackInv, Callbacks, CallbackStarts, CallbackSets, Keys, Upgrading, AfterUpgrade, Controlling, AfterStop, world
<1>5. CASE DeadlinePasses \/ Break
  BY <1>5 DEF CallbackInv, DeadlinePasses, Break, clientVars, world
<1>6. CASE UNCHANGED vars
  BY <1>6 DEF CallbackInv, vars, clientVars, world
<1> QED
  BY <1>1, <1>2, <1>3, <1>4, <1>5, <1>6 DEF Next

\* Open and DialStream return only a usable stream: no deadline is left on it,
\* and both AfterFunc callbacks have been stopped before they could start.
THEOREM OpenedUsable == Spec => []OpenedIsUsable
<1>1. CallbackInv => OpenedIsUsable
  BY DEF CallbackInv, OpenedIsUsable, Keys
<1> QED
  BY <1>1, CallbackStart, CallbackStep, PTL DEF Spec

-----------------------------------------------------------------------------
(***************************************************************************)
(* The session and its target.                                             *)
(***************************************************************************)

LEMMA SessionStart == Init => SessionInv
  BY DEF Init, SessionInv

\* The steps of Open decide only whether the client's connection is open.
LEMMA ClientCloses ==
  ASSUME SessionInv, Opening
  PROVE  clientClosed' \in BOOLEAN /\ (pc' \in {"check", "dial", "failed"} <=> clientClosed')
<1> USE DEF SessionInv, Goto
<1>1. CASE Check \/ Dial
  BY <1>1 DEF Check, Dial
<1>2. CASE UpgradeWrite \/ UpgradeRead \/ UpgradeStop \/ UpgradeClear
  BY <1>2 DEF UpgradeWrite, UpgradeRead, UpgradeStop, UpgradeClear, CloseClient
<1>3. CASE TLSHello \/ TLSRead \/ TLSClear \/ StartControl
  BY <1>3 DEF TLSHello, TLSRead, TLSClear, StartControl
<1>8. CASE TLSFails \/ Unwind
  <2>1. pc' = "failed" /\ clientClosed' = TRUE
    BY <1>8 DEF TLSFails, Unwind, CloseClient
  <2> QED
    BY <2>1
<1>4. CASE SendHello \/ SendOpen
  BY <1>4 DEF SendHello, SendOpen, Send
<1>5. CASE SendFails \/ AwaitFails
  BY <1>5 DEF SendFails, AwaitFails
<1>6. CASE AwaitHelloOK \/ AwaitOpenOK
  <2>1. UNCHANGED clientClosed /\ pc \in {"helloAwait", "openAwait"} /\ pc' \in {"openLength", "stop", "unwind"}
    BY <1>6 DEF AwaitHelloOK, AwaitOpenOK, Await
  <2> QED
    BY <2>1
<1>7. CASE StopCancellation \/ Recheck \/ ClearDeadline
  BY <1>7 DEF StopCancellation, Recheck, ClearDeadline
<1> QED
  BY <1>1, <1>2, <1>3, <1>4, <1>5, <1>6, <1>7, <1>8 DEF Opening

\* What EndSession does to a session that has not ended.
LEMMA SessionEnds ==
  ASSUME SessionInv, spc # "ended", NEW rest, NEW sent, NEW decision, EndSession(rest, sent, decision),
         decision \notin {"none", "http"}, target # "none" => decision \in {"ok", "lost"}
  PROVE  /\ spc' = "ended" /\ serverClosed' = TRUE
         /\ target' \in {"none", "closed"} /\ (target' # "none" => target = "open")
         /\ answer' \notin {"none", "http"}
         /\ target' # "none" => answer' \in {"ok", "lost"}
<1>1. answer # "http"
  BY DEF SessionInv
<1> QED
  BY <1>1 DEF SessionInv, EndSession

LEMMA SessionMoves ==
  ASSUME SessionInv, Serving \/ RelayEnds \/ CutOff
  PROVE  SessionInv'
<1>1. UNCHANGED <<clientVars, world>>
  BY ServerSteps
<1>2. clientClosed' = clientClosed /\ ctxDone' = ctxDone /\ broken' = broken /\ pc' = pc /\ setup' = setup
  BY <1>1 DEF clientVars, world
<1>3. ASSUME NEW rest, NEW sent, NEW decision, EndSession(rest, sent, decision), spc # "ended",
             decision \notin {"none", "http"}, target # "none" => decision \in {"ok", "lost"}
      PROVE  SessionInv'
  <2>1. /\ spc' = "ended" /\ serverClosed' = TRUE
        /\ target' \in {"none", "closed"}
        /\ answer' \notin {"none", "http"}
        /\ target' # "none" => answer' \in {"ok", "lost"}
    BY <1>3, SessionEnds
  <2> QED
    BY <2>1, <1>2 DEF SessionInv
<1>4. spc \in {"http", "tlsHello", "tlsFinished", "hello", "helloOK", "open", "resolve", "dial"} => target = "none"
  BY DEF SessionInv
<1>5. CASE Accept
  <2>1. CASE EndSession(<<>>, <<>>, "lost")
    BY <2>1, <1>3, <1>5 DEF Accept
  <2>2. CASE ~EndSession(<<>>, <<>>, "lost")
    BY <2>2, <1>2, <1>5 DEF Accept, SessionInv
  <2> QED
    BY <2>1, <2>2
<1>6. CASE AcceptHello
  BY <1>6, <1>2 DEF AcceptHello, SInput, ServerReadFails, SessionInv
<1>7. CASE AcceptFinished
  <2>1. CASE Given.certificate = "refused"
    BY <2>1, <1>3, <1>4, <1>7 DEF AcceptFinished, SInput
  <2>2. CASE Given.certificate # "refused"
    BY <2>2, <1>2, <1>7 DEF AcceptFinished, SInput, ServerReadFails, SessionInv
  <2> QED
    BY <2>1, <2>2
<1>8. CASE ReadHello
  <2>1. CASE spc' = "helloOK"
    <3>1. spc = "hello" /\ ~serverClosed
      BY <1>8 DEF ReadHello, SReady, ServerReadFails
    <3>2. UNCHANGED <<serverClosed, answer, target>>
      BY <1>8, <2>1 DEF ReadHello, EndSession
    <3> QED
      BY <2>1, <3>1, <3>2, <1>2 DEF SessionInv
  <2>2. CASE spc' # "helloOK"
    <3>1. EndSession(Unheard, <<>>, "token") \/ EndSession(Unheard, <<>>, "hello")
      BY <2>2, <1>8 DEF ReadHello
    <3> QED
      BY <3>1, <1>3, <1>4, <1>8 DEF ReadHello, SReady
  <2> QED
    BY <2>1, <2>2
<1>9. CASE SayHelloOK \/ SayOpenOK
  <2>1. PICK from, to, frame : /\ Say(from, to, frame)
                               /\ \/ from = "helloOK" /\ to = "open"
                                  \/ from = "openOK" /\ to = "relay"
    BY <1>9 DEF SayHelloOK, SayOpenOK
  <2>2. CASE spc' = to
    <3>1. spc = from /\ ~serverClosed /\ UNCHANGED <<serverClosed, answer, target>>
      BY <2>1, <2>2 DEF Say, EndSession
    <3> QED
      BY <2>1, <2>2, <3>1, <1>2 DEF SessionInv
  <2>3. CASE spc' # to
    <3>1. PICK n \in 0..1 : EndSession(toServer, SubSeq(frame, 1, n), "lost")
      BY <2>1, <2>3 DEF Say
    <3> QED
      BY <3>1, <1>3, <2>1 DEF Say
  <2> QED
    BY <2>2, <2>3
<1>10. CASE ReadOpen
  <2>1. CASE EndSession(Unheard, Refusal("malformed"), "malformed")
    BY <2>1, <1>3, <1>4, <1>10 DEF ReadOpen, SReady
  <2>2. CASE ~EndSession(Unheard, Refusal("malformed"), "malformed")
    <3>1. spc = "open" /\ spc' = "resolve" /\ ~serverClosed /\ UNCHANGED <<serverClosed, answer, target>>
      BY <2>2, <1>10 DEF ReadOpen, SReady, ServerReadFails
    <3> QED
      BY <3>1, <1>2 DEF SessionInv
  <2> QED
    BY <2>1, <2>2
<1>11. CASE ResolveTarget
  <2>1. PICK lookup \in Lookups :
          LET decision == Resolve(setup.relay, dialed.destination, lookup) IN
            IF decision = "none"
              THEN /\ spc' = "dial" /\ addresses' = lookup.addresses
                   /\ UNCHANGED <<sdeadline, serverClosed, answer, target, dialed, wires>>
              ELSE EndSession(toServer, IF ServerWriteFails THEN <<>> ELSE Refusal(ErrorCodeFor(decision)),
                              ErrorCodeFor(decision))
    BY <1>11 DEF ResolveTarget
  <2> DEFINE decision == Resolve(setup.relay, dialed.destination, lookup)
  <2>2. spc = "resolve"
    BY <1>11 DEF ResolveTarget
  <2>3. CASE decision = "none"
    BY <2>1, <2>2, <2>3, <1>2 DEF SessionInv
  <2>4. CASE decision # "none"
    <3>1. ErrorCodeFor(decision) \notin {"none", "http"}
      BY DEF ErrorCodeFor
    <3> QED
      BY <2>1, <2>2, <2>4, <3>1, <1>3, <1>4
  <2> QED
    BY <2>3, <2>4
<1>12. CASE DialTarget
  <2>1. CASE addresses = <<>>
    BY <2>1, <1>3, <1>4, <1>12 DEF DialTarget
  <2>2. CASE addresses # <<>>
    BY <2>2, <1>2, <1>12 DEF DialTarget, SessionInv
  <2> QED
    BY <2>1, <2>2
<1>13. CASE SessionFails
  BY <1>13, <1>3, <1>4 DEF SessionFails
<1>14. CASE RelayEnds
  BY <1>14, <1>3 DEF RelayEnds
<1>15. CASE CutOff
  BY <1>15, <1>2 DEF CutOff, SessionInv
<1> QED
  BY <1>5, <1>6, <1>7, <1>8, <1>9, <1>10, <1>11, <1>12, <1>13, <1>14, <1>15 DEF Serving

LEMMA SessionStep ==
  ASSUME SessionInv, [Next]_vars
  PROVE  SessionInv'
<1>1. CASE Opening
  <2>1. UNCHANGED <<serverVars, world>>
    BY <1>1, ClientSteps
  <2> QED
    BY <1>1, <2>1, ClientCloses DEF SessionInv, serverVars, world
<1>2. CASE Serving \/ RelayEnds \/ CutOff
  BY <1>2, SessionMoves
<1>3. CASE CancelContext \/ Break
  <2>1. UNCHANGED <<clientVars, serverVars, setup>> /\ ctxDone' \in BOOLEAN /\ broken' \in BOOLEAN
    BY <1>3 DEF SessionInv, CancelContext, Break
  <2> QED
    BY <2>1 DEF SessionInv, clientVars, serverVars
<1>4. CASE Callbacks \/ DeadlinePasses
  BY <1>4 DEF SessionInv, Callbacks, CallbackStarts, CallbackSets, DeadlinePasses, serverVars, world
<1>5. CASE UNCHANGED vars
  BY <1>5 DEF SessionInv, vars, clientVars, serverVars, world
<1> QED
  BY <1>1, <1>2, <1>3, <1>4, <1>5 DEF Next

\* Every failed Open has closed its connection (DialStream and Open close it on
\* each of their error paths), and handleSession's deferred calls leave no
\* connection to the destination.
THEOREM NoLeaks == Spec => []NothingLeaks
<1>1. SessionInv => NothingLeaks
  BY DEF SessionInv, NothingLeaks
<1> QED
  BY <1>1, SessionStart, SessionStep, PTL DEF Spec

-----------------------------------------------------------------------------
(***************************************************************************)
(* What the client has sent.                                               *)
(***************************************************************************)

\* What Open is called with, once Check has let it through.
LEMMA Requested ==
  ASSUME SessionInv, Checked.deny = "none"
  PROVE  /\ Checked.destination = [host |-> ToLower(WithoutDot(Given.authority.host)), port |-> AllowedPort]
         /\ Checked.destination # NoDestination
         /\ Given.authority.port = AllowedPort
         /\ Checked.destination.host \in Seq(Characters) /\ Checked.destination.host # <<>>
         /\ Len(Checked.destination.host) <= maxHostnameLength
         /\ WithoutDot(Checked.destination.host) = Checked.destination.host
<1>1. Given \in Setups
  BY DEF SessionInv, Given, Configured
<1>2. Given.authority.host \in Seq(Characters) /\ Given.authority.form \in {"plain", "brackets", "bare", "spaced"}
  BY <1>1, SetupsAssumption
<1> DEFINE destination == Checked.destination
<1>3. /\ destination = [host |-> ToLower(WithoutDot(Given.authority.host)), port |-> AllowedPort]
      /\ Given.authority.port = AllowedPort
      /\ destination.host \in Seq(Characters) /\ destination.host # <<>>
      /\ Len(destination.host) <= maxHostnameLength
      /\ WithoutDot(destination.host) = destination.host
  BY <1>2, CheckedDestination DEF Checked
<1> HIDE DEF destination
<1>4. destination # NoDestination
  BY <1>3 DEF NoDestination, AllowedPort
<1> QED
  BY <1>3, <1>4 DEF destination

\* HELLO and OPEN fit the client's limit, so Encode writes both cells of each.
LEMMA MessagesFit ==
  ASSUME SessionInv, WireInv
  PROVE  /\ Encode(HelloMessage, clientMax) = <<Prefix(BodySize(HelloMessage)), Body(HelloMessage)>>
         /\ requested # NoDestination =>
              Encode(OpenMessage, clientMax) = <<Prefix(BodySize(OpenMessage)), Body(OpenMessage)>>
         /\ BodySize(HelloMessage) \in Nat /\ BodySize(HelloMessage) > 0
<1>1. Given \in Setups
  BY DEF SessionInv, Given, Configured
<1>2. /\ HelloMessage.type = "HELLO" /\ HelloMessage.version = Version1
      /\ HelloMessage.token = Given.token
  BY DEF HelloMessage, Hello, Blank
<1>3. /\ Given.token.size \in Nat /\ Given.token.size >= MinTokenBytes /\ 2 + Given.token.size <= clientMax
  BY <1>1, SetupsAssumption
<1>4. Validate(HelloMessage) /\ BodySize(HelloMessage) = 2 + Given.token.size
  BY <1>2, <1>3 DEF Validate, BodySize, Supported
<1>5. Encode(HelloMessage, clientMax) = <<Prefix(BodySize(HelloMessage)), Body(HelloMessage)>>
  BY <1>3, <1>4 DEF Encode
<1>6. ASSUME requested # NoDestination
      PROVE  Encode(OpenMessage, clientMax) = <<Prefix(BodySize(OpenMessage)), Body(OpenMessage)>>
  <2>1. /\ OpenMessage.type = "OPEN" /\ OpenMessage.destination = requested
    BY DEF OpenMessage, Open, Blank
  <2>2. requested.port = AllowedPort /\ requested.host \in Seq(Characters)
        /\ Len(requested.host) <= maxHostnameLength
    BY <1>6, Requested DEF WireInv, WireRequest
  <2>3. Validate(OpenMessage) /\ BodySize(OpenMessage) = 5 + Len(requested.host)
    BY <1>6, <2>1, <2>2 DEF Validate, BodySize
  <2>4. BodySize(OpenMessage) <= clientMax
    BY <2>2, <2>3, LimitsAssumption
  <2> QED
    BY <2>3, <2>4 DEF Encode
<1> QED
  BY <1>3, <1>4, <1>5, <1>6

LEMMA WireStart == Init => WireInv
<1>1. Init => toServer = <<>> /\ pc = "check" /\ spc = "http" /\ result = "none" /\ requested = NoDestination
  BY DEF Init
<1> QED
  BY <1>1 DEF WireInv, WireStream, WireRequest

\* The client writes while its side of the connection is open.
LEMMA WireAppends ==
  ASSUME WireInv, ~clientClosed, ~broken, UNCHANGED <<setup, requested>>,
         NEW cell \in Sendable, cell.cell \notin Ends, toServer' = Append(toServer, cell)
  PROVE  WireStream'
<1>1. Sendable' = Sendable
  BY DEF Sendable, HelloMessage, OpenMessage, Given
<1>2. toServer \in Seq(Sendable) /\ \A i \in 1..Len(toServer) : toServer[i].cell \notin Ends
  BY DEF WireInv, WireStream
<1>3. /\ toServer' \in Seq(Sendable) /\ Len(toServer') = Len(toServer) + 1
      /\ \A i \in 1..Len(toServer) : toServer'[i] = toServer[i]
      /\ toServer'[Len(toServer) + 1] = cell
  BY <1>2
<1>4. \A i \in 1..Len(toServer') : toServer'[i].cell \notin Ends
  BY <1>2, <1>3
<1> QED
  BY <1>1, <1>3, <1>4 DEF WireStream

LEMMA WireWrites ==
  ASSUME WireInv, ~clientClosed, clientClosed' = clientClosed, broken' = broken,
         UNCHANGED <<setup, requested>>,
         NEW cell \in Sendable, cell.cell \notin Ends, ClientWrites(cell)
  PROVE  WireStream'
<1>1. CASE serverClosed \/ broken
  <2>1. Sendable' = Sendable
    BY DEF Sendable, HelloMessage, OpenMessage, Given
  <2> QED
    BY <1>1, <2>1 DEF WireStream, WireInv, ClientWrites
<1>2. CASE ~(serverClosed \/ broken)
  BY <1>2, WireAppends DEF ClientWrites
<1> QED
  BY <1>1, <1>2

\* An end is put behind what was sent, or takes its place.
LEMMA WireEnds ==
  ASSUME WireInv, UNCHANGED <<setup, requested>>, clientClosed' \/ broken',
         toServer' \in {toServer, <<>>, Ending(toServer, "fin"), Ending(toServer, "rst"), <<Cell("rst")>>}
  PROVE  WireStream'
<1>1. Sendable' = Sendable
  BY DEF Sendable, HelloMessage, OpenMessage, Given
<1>2. toServer \in Seq(Sendable) /\ \A i \in DOMAIN toServer : toServer[i].cell \in Ends => i = Len(toServer)
  BY DEF WireInv, WireStream, WireRequest
<1>3. ASSUME NEW end \in {"fin", "rst"}, toServer' = Ending(toServer, end)
      PROVE  WireStream'
  <2>1. CASE Ended(toServer)
    BY <1>1, <1>2, <1>3, <2>1 DEF Ending, WireStream
  <2>2. CASE ~Ended(toServer)
    <3>1. toServer' = Append(toServer, Cell(end)) /\ Cell(end) \in Sendable
      BY <1>3, <2>2 DEF Ending, Sendable
    <3>2. \A i \in 1..Len(toServer) : toServer[i].cell \notin Ends
      BY <1>2, <2>2 DEF Ended, Last
    <3>3. /\ toServer' \in Seq(Sendable) /\ Len(toServer') = Len(toServer) + 1
          /\ \A i \in 1..Len(toServer) : toServer'[i] = toServer[i]
      BY <1>2, <3>1
    <3>4. \A i \in 1..Len(toServer') : toServer'[i].cell \in Ends => i = Len(toServer')
      BY <3>2, <3>3
    <3> QED
      BY <1>1, <3>3, <3>4 DEF WireStream
  <2> QED
    BY <2>1, <2>2
<1>4. CASE toServer' = toServer
  BY <1>1, <1>2, <1>4 DEF WireStream
<1>6. CASE toServer' = <<>>
  BY <1>1, <1>6 DEF WireStream
<1>5. CASE toServer' = <<Cell("rst")>>
  <2>1. Cell("rst") \in Sendable
    BY DEF Sendable
  <2>2. toServer' \in Seq(Sendable) /\ Len(toServer') = 1
    BY <1>5, <2>1
  <2> QED
    BY <1>1, <2>2 DEF WireStream
<1> QED
  BY <1>3, <1>4, <1>5, <1>6

LEMMA WireByOpen ==
  ASSUME SessionInv, WireInv, Opening
  PROVE  WireInv'
<1>1. UNCHANGED <<serverVars, world>> /\ broken' = broken /\ setup' = setup /\ spc' = spc
  BY ClientSteps DEF world, serverVars
<1>2. Cell("GET") \in Sendable /\ Cell("ClientHello") \in Sendable /\ Cell("Finished") \in Sendable
  BY DEF Sendable
<1>3. Cell("GET").cell \notin Ends /\ Cell("ClientHello").cell \notin Ends /\ Cell("Finished").cell \notin Ends
  BY DEF Cell, Ends
<1>4. CASE Check
  <2>1. pc = "check" /\ pc' \in {"dial", "failed"} /\ UNCHANGED toServer /\ toServer = <<>> /\ spc = "http"
        /\ result = "none" /\ requested = NoDestination
    BY <1>4 DEF Check, wires, WireInv, WireRequest
  <2>2. \/ pc' = "dial" /\ Checked.deny = "none" /\ requested' = Checked.destination /\ UNCHANGED result
        \/ pc' = "failed" /\ UNCHANGED requested
    BY <1>4 DEF Check, Checked
  <2>3. Checked' = Checked
    BY <1>1 DEF Checked, Given
  <2>4. Checked.deny = "none" => Checked.destination # NoDestination
    BY Requested
  <2> QED
    BY <1>1, <2>1, <2>2, <2>3, <2>4 DEF WireInv, WireStream, WireRequest
<1>5. ASSUME pc \notin {"check", "failed"}, UNCHANGED requested, pc' \notin {"check", "dial"}, WireStream'
      PROVE  WireInv'
  <2>1. Checked' = Checked
    BY <1>1 DEF Checked, Given
  <2>2. WireRequest'
    BY <1>5, <2>1 DEF WireInv, WireRequest
  <2> QED
    BY <1>5, <2>2 DEF WireInv, WireRequest
<1>6. ASSUME UNCHANGED <<toServer, requested>>, pc \notin {"check", "failed"}, pc' \notin {"check", "dial"},
             clientClosed' = clientClosed
      PROVE  WireInv'
  <2>1. Sendable' = Sendable
    BY <1>1, <1>6 DEF Sendable, HelloMessage, OpenMessage, Given
  <2>2. WireStream'
    BY <1>1, <1>6, <2>1 DEF WireInv, WireStream
  <2> QED
    BY <1>5, <1>6, <2>2
<1>7. ASSUME NEW cell \in Sendable, cell.cell \notin Ends, ClientWrites(cell), UNCHANGED requested,
             pc \notin {"check", "dial", "failed"}, pc' \notin {"check", "dial"}, clientClosed' = clientClosed
      PROVE  WireInv'
  <2>1. ~clientClosed
    BY <1>7 DEF SessionInv
  <2>2. WireStream'
    BY <1>1, <1>7, <2>1, WireWrites
  <2> QED
    BY <1>5, <1>7, <2>2
<1>8. ASSUME CloseClient, UNCHANGED requested, pc \notin {"check", "failed"}, pc' = "failed"
      PROVE  WireInv'
  <2>1. clientClosed' /\ toServer' \in {toServer, <<>>, Ending(toServer, "fin")}
    BY <1>8 DEF CloseClient
  <2>2. WireStream'
    BY <1>1, <1>8, <2>1, WireEnds
  <2> QED
    BY <1>5, <1>8, <2>2
<1> USE DEF Goto
<1>9. CASE Dial
  <2>1. pc = "dial" /\ pc' \in {"failed", "upgradeWrite"} /\ UNCHANGED <<toServer, requested>>
    BY <1>9 DEF Dial, wires
  <2>2. toServer = <<>>
    BY <2>1 DEF WireInv, WireStream, WireRequest
  <2>3. WireStream'
    BY <2>1, <2>2 DEF WireStream
  <2> QED
    BY <1>5, <2>1, <2>3
<1>10. CASE UpgradeWrite
  <2>1. pc = "upgradeWrite" /\ pc' \in {"upgradeRead", "upgradeStop"} /\ UNCHANGED <<requested, clientClosed>>
        /\ (ClientWrites(Cell("GET")) \/ UNCHANGED toServer)
    BY <1>10 DEF UpgradeWrite, UpgradeRequest, wires
  <2> QED
    BY <1>2, <1>3, <1>6, <1>7, <2>1
<1>11. CASE UpgradeRead \/ UpgradeStop \/ TLSClear \/ StartControl
  <2>1. /\ pc \in {"upgradeRead", "upgradeStop", "tlsClear", "control"}
        /\ pc' \in {"upgradeStop", "upgradeClear", "control", "helloLength"}
        /\ UNCHANGED <<toServer, requested, clientClosed>>
    BY <1>11 DEF UpgradeRead, UpgradeStop, TLSClear, StartControl, wires
  <2> QED
    BY <1>6, <2>1
<1>12. CASE SendFails \/ AwaitFails \/ StopCancellation \/ Recheck \/ ClearDeadline
  <2>1. /\ pc \in {"helloLength", "helloBody", "openLength", "openBody", "helloAwait", "openAwait", "stop", "recheck", "clear"}
        /\ pc' \in {"unwind", "recheck", "clear", "opened"}
    BY <1>12 DEF SendFails, AwaitFails, StopCancellation, Recheck, ClearDeadline
  <2>2. UNCHANGED <<toServer, requested, clientClosed>>
    BY <1>12 DEF SendFails, AwaitFails, StopCancellation, Recheck, ClearDeadline, wires
  <2> QED
    BY <1>6, <2>1, <2>2
<1>13. CASE UpgradeClear
  <2>1. pc = "upgradeClear" /\ UNCHANGED requested
    BY <1>13 DEF UpgradeClear
  <2>2. \/ pc' = "tlsHello" /\ UNCHANGED <<toServer, clientClosed>>
        \/ pc' = "failed" /\ CloseClient
    BY <1>13 DEF UpgradeClear, wires
  <2> QED
    BY <1>6, <1>8, <2>1, <2>2
<1>14. CASE TLSHello
  <2>1. pc = "tlsHello" /\ pc' = "tlsRead" /\ UNCHANGED <<requested, clientClosed>>
        /\ ClientWrites(Cell("ClientHello"))
    BY <1>14 DEF TLSHello
  <2> QED
    BY <1>2, <1>3, <1>7, <2>1
<1>15. CASE TLSRead
  <2>1. pc = "tlsRead" /\ pc' = "tlsClear" /\ UNCHANGED <<requested, clientClosed>>
    BY <1>15 DEF TLSRead
  <2>2. CASE serverClosed \/ broken
    BY <1>6, <1>15, <2>1, <2>2 DEF TLSRead
  <2>3. CASE ~(serverClosed \/ broken)
    <3>1. toServer' = Append(toServer, Cell("Finished")) /\ ~clientClosed
      BY <1>15, <2>1, <2>3 DEF TLSRead, SessionInv
    <3>2. WireStream'
      BY <1>1, <1>2, <1>3, <2>1, <2>3, <3>1, WireAppends
    <3> QED
      BY <1>5, <2>1, <3>2
  <2> QED
    BY <2>2, <2>3
<1>16. CASE TLSFails \/ Unwind
  <2>1. pc \in {"tlsRead", "unwind"} /\ pc' = "failed" /\ CloseClient /\ UNCHANGED requested
    BY <1>16 DEF TLSFails, Unwind
  <2> QED
    BY <1>8, <2>1
<1>17. CASE SendHello \/ SendOpen
  <2>1. PICK from, to, cell :
          /\ Send(from, to, cell)
          /\ from \in {"helloLength", "helloBody", "openLength", "openBody"}
          /\ to \in {"helloBody", "helloAwait", "openBody", "openAwait"}
          /\ cell \in {Encode(HelloMessage, clientMax)[1], Encode(HelloMessage, clientMax)[2],
                      Encode(OpenMessage, clientMax)[1], Encode(OpenMessage, clientMax)[2]}
    BY <1>17 DEF SendHello, SendOpen
  <2>2. /\ pc \notin {"check", "dial", "failed"} /\ pc' \notin {"check", "dial"}
        /\ UNCHANGED <<requested, clientClosed>> /\ ClientWrites(cell)
    BY <2>1 DEF Send
  <2>3. requested # NoDestination
    BY <2>2 DEF WireInv, WireRequest
  <2>4. cell \in {Prefix(BodySize(HelloMessage)), Body(HelloMessage), Prefix(BodySize(OpenMessage)), Body(OpenMessage)}
    BY <2>1, <2>3, MessagesFit
  <2>5. cell \in Sendable /\ cell.cell \notin Ends
    BY <2>4 DEF Sendable, Prefix, Body, Ends
  <2> QED
    BY <1>7, <2>2, <2>5
<1>18. CASE AwaitHelloOK \/ AwaitOpenOK
  <2>1. /\ pc \in {"helloAwait", "openAwait"} /\ pc' \in {"openLength", "stop", "unwind"}
        /\ UNCHANGED <<toServer, requested, clientClosed>>
    BY <1>18 DEF AwaitHelloOK, AwaitOpenOK, Await
  <2> QED
    BY <1>6, <2>1
<1> QED
  BY <1>4, <1>9, <1>10, <1>11, <1>12, <1>13, <1>14, <1>15, <1>16, <1>17, <1>18 DEF Opening

\* The relay reads from the front of the stream, or drops it.
Behind(stream, n) == SubSeq(stream, n + 1, Len(stream))

LEMMA BehindIndexed ==
  ASSUME NEW S, NEW s \in Seq(S), NEW n \in 0..Len(s)
  PROVE  /\ Behind(s, n) \in Seq(S) /\ Len(Behind(s, n)) = Len(s) - n
         /\ \A i \in 1..Len(Behind(s, n)) : Behind(s, n)[i] = s[i + n] /\ i + n \in 1..Len(s)
<1> DEFINE t == SubSeq(s, n + 1, Len(s))
<1>1. Len(s) \in Nat /\ n \in Nat /\ n <= Len(s)
  OBVIOUS
<1>2. t \in Seq(S)
  BY <1>1
<1>3. Len(t) = Len(s) - n
  BY <1>1
<1>4. \A i \in 1..(Len(s) - n) : t[i] = s[i + n] /\ i + n \in 1..Len(s)
  BY <1>1
<1> QED
  BY <1>2, <1>3, <1>4 DEF Behind

LEMMA HeardRead ==
  ASSUME NEW label, SReady(label), NEW S, toServer \in Seq(S), Heard.error = "none"
  PROVE  /\ Len(toServer) >= 2 /\ Heard.read = 2
         /\ toServer[1].cell = "length" /\ toServer[2].cell = "body"
         /\ Heard.message = Unmarshal(toServer[2].message)
         /\ Validate(Heard.message)
<1>1. /\ Heard.read = 2 /\ Heard.message = Unmarshal(toServer[2].message)
      /\ toServer[1].cell = "length" /\ ~(toServer[1].size > Given.relayMax)
      /\ toServer[2].cell = "body"
      /\ Validate(Unmarshal(toServer[2].message))
  BY DEF Heard, Decode
<1>2. FrameReady(toServer, Given.relayMax)
  BY DEF SReady
<1>3. Len(toServer) >= 2
  BY <1>1, <1>2 DEF FrameReady
<1> QED
  BY <1>1, <1>3

LEMMA TakenFromWire ==
  ASSUME NEW S, toServer \in Seq(S), Serving \/ RelayEnds \/ CutOff
  PROVE  \E n \in 0..Len(toServer) : toServer' = Behind(toServer, n)
<1>1. toServer = Behind(toServer, 0) /\ <<>> = Behind(toServer, Len(toServer)) /\ Len(toServer) \in Nat
  BY DEF Behind
<1>2. toServer # <<>> => 1 \in 0..Len(toServer) /\ Tail(toServer) = Behind(toServer, 1)
  BY DEF Behind
<1>3. ASSUME toServer' = toServer \/ toServer' = <<>> \/ (toServer # <<>> /\ toServer' = Tail(toServer))
      PROVE  \E n \in 0..Len(toServer) : toServer' = Behind(toServer, n)
  BY <1>1, <1>2, <1>3
<1>4. \A rest, sent, decision : EndSession(rest, sent, decision) => toServer' = <<>>
  BY DEF EndSession
<1>5. CASE Accept \/ AcceptHello \/ AcceptFinished
  BY <1>3, <1>4, <1>5 DEF Accept, AcceptHello, AcceptFinished, SInput
<1>6. ASSUME NEW label, SReady(label), Heard.error = "none", toServer' = Unheard
      PROVE  \E n \in 0..Len(toServer) : toServer' = Behind(toServer, n)
  <2>1. Len(toServer) >= 2 /\ Heard.read = 2
    BY <1>6, HeardRead
  <2>2. 2 \in 0..Len(toServer) /\ toServer' = Behind(toServer, 2)
    BY <1>6, <2>1 DEF Unheard, Behind
  <2> QED
    BY <2>2
<1>7. CASE ReadHello
  <2>1. SReady("hello") /\ (toServer' = <<>> \/ (Heard.error = "none" /\ toServer' = Unheard))
    BY <1>4, <1>7 DEF ReadHello
  <2> QED
    BY <1>3, <1>6, <2>1
<1>8. CASE ReadOpen
  <2>1. SReady("open") /\ (toServer' = <<>> \/ (Heard.error = "none" /\ toServer' = Unheard))
    BY <1>4, <1>8 DEF ReadOpen
  <2> QED
    BY <1>3, <1>6, <2>1
<1>9. CASE SayHelloOK \/ SayOpenOK
  BY <1>3, <1>4, <1>9 DEF SayHelloOK, SayOpenOK, Say
<1>10. CASE ResolveTarget \/ DialTarget
  BY <1>3, <1>4, <1>10 DEF ResolveTarget, DialTarget, wires
<1>11. CASE SessionFails \/ RelayEnds \/ CutOff
  BY <1>3, <1>4, <1>11 DEF SessionFails, RelayEnds, CutOff
<1> QED
  BY <1>5, <1>7, <1>8, <1>9, <1>10, <1>11 DEF Serving

LEMMA WireByRelay ==
  ASSUME SessionInv, WireInv, Serving \/ RelayEnds \/ CutOff
  PROVE  WireInv'
<1>1. UNCHANGED <<clientVars, world>>
  BY ServerSteps
<1>2. UNCHANGED <<pc, requested, result, clientClosed, setup, broken>>
  BY <1>1 DEF clientVars, world
<1>3. Sendable' = Sendable /\ Checked' = Checked
  BY <1>2 DEF Sendable, HelloMessage, OpenMessage, Given, Checked
<1>4. toServer \in Seq(Sendable)
  BY DEF WireInv, WireStream
<1>5. PICK n \in 0..Len(toServer) : toServer' = Behind(toServer, n)
  BY <1>4, TakenFromWire
<1>6. /\ toServer' \in Seq(Sendable) /\ Len(toServer') = Len(toServer) - n
      /\ \A i \in 1..Len(toServer') : toServer'[i] = toServer[i + n] /\ i + n \in 1..Len(toServer)
  BY <1>4, <1>5, BehindIndexed
<1>7. WireStream'
  <2>1. SUFFICES ASSUME NEW i \in 1..Len(toServer'), toServer'[i].cell \in Ends
                 PROVE  i = Len(toServer') /\ (clientClosed \/ broken)
    BY <1>2, <1>3, <1>6 DEF WireStream
  <2>2. i + n \in 1..Len(toServer) /\ toServer[i + n].cell \in Ends
    BY <1>6, <2>1
  <2>3. i + n = Len(toServer) /\ (clientClosed \/ broken)
    BY <1>4, <2>2 DEF WireInv, WireStream
  <2>4. Len(toServer) \in Nat /\ n \in Nat /\ i \in Nat
    BY <1>4, <1>6
  <2> QED
    BY <1>6, <2>3, <2>4
<1>8. pc \in {"check", "dial"} => toServer' = <<>> /\ spc' = "http" /\ result = "none"
  <2>1. SUFFICES ASSUME pc \in {"check", "dial"} PROVE toServer' = <<>> /\ spc' = "http" /\ result = "none"
    OBVIOUS
  <2>2. toServer = <<>> /\ spc = "http" /\ result = "none"
    BY <2>1 DEF WireInv, WireRequest
  <2>3. FALSE
    BY <2>2 DEF Serving, Accept, AcceptHello, AcceptFinished, ReadHello, SayHelloOK, ReadOpen, ResolveTarget,
                DialTarget, SayOpenOK, SessionFails, Say, RelayEnds, CutOff, SInput, SReady
  <2> QED
    BY <2>3
<1>9. WireRequest'
  BY <1>2, <1>3, <1>8 DEF WireInv, WireRequest
<1> QED
  BY <1>7, <1>9 DEF WireInv

LEMMA WireStep ==
  ASSUME SessionInv, WireInv, [Next]_vars
  PROVE  WireInv'
<1>1. CASE Opening
  BY <1>1, WireByOpen
<1>2. CASE Serving \/ RelayEnds \/ CutOff
  BY <1>2, WireByRelay
<1>3. CASE Break
  <2>1. UNCHANGED <<setup, pc, requested, result, clientClosed, spc>> /\ broken' /\ ~clientClosed
        /\ toServer' \in {<<>>, Ending(toServer, "rst"), <<Cell("rst")>>}
    BY <1>3 DEF Break, clientVars, serverVars, Resets
  <2>2. WireStream'
    BY <2>1, WireEnds
  <2>3. Checked' = Checked
    BY <2>1 DEF Checked, Given
  <2>4. pc \notin {"check", "dial"}
    BY <2>1 DEF SessionInv
  <2>5. WireRequest'
    BY <2>1, <2>3, <2>4 DEF WireInv, WireRequest
  <2> QED
    BY <2>2, <2>5 DEF WireInv
<1>4. CASE CancelContext \/ Callbacks \/ DeadlinePasses \/ UNCHANGED vars
  <2>1. UNCHANGED <<setup, pc, requested, result, clientClosed, spc, broken, toServer>>
    BY <1>4 DEF CancelContext, Callbacks, CallbackStarts, CallbackSets, DeadlinePasses,
                vars, clientVars, serverVars, wires, world
  <2>2. Sendable' = Sendable /\ Checked' = Checked
    BY <2>1 DEF Sendable, HelloMessage, OpenMessage, Given, Checked
  <2> QED
    BY <2>1, <2>2 DEF WireInv, WireStream, WireRequest
<1> QED
  BY <1>1, <1>2, <1>3, <1>4 DEF Next

-----------------------------------------------------------------------------
(***************************************************************************)
(* What the relay has said.                                                *)
(***************************************************************************)

LEMMA Pairs ==
  ASSUME NEW S, NEW a \in S, NEW b \in S
  PROVE  <<a, b>> \in Seq(S) /\ <<>> \in Seq(S)
OBVIOUS

\* A frame of the relay is empty, when Encode refuses it, or its two cells.
LEMMA Frames ==
  ASSUME NEW max
  PROVE  /\ Encode(HelloOK, max) \in Seq({Prefix(2), Body(HelloOK)})
         /\ Encode(OpenOK, max) \in Seq({Prefix(1), Body(OpenOK)})
         /\ \A code : Encode(OpenError(code), max) \in
              Seq({Prefix(3)} \cup {Body(OpenError(c)) : c \in {d \in ErrorCodes : d = code}})
<1>1. BodySize(HelloOK) = 2
  BY DEF BodySize, HelloOK, Blank
<1>2. BodySize(OpenOK) = 1
  BY DEF BodySize, OpenOK, Blank
<1>3. ASSUME NEW code
      PROVE  Encode(OpenError(code), max) \in
               Seq({Prefix(3)} \cup {Body(OpenError(c)) : c \in {d \in ErrorCodes : d = code}})
  <2>1. BodySize(OpenError(code)) = 3
    BY DEF BodySize, OpenError, Blank
  <2>2. Validate(OpenError(code)) => code \in ErrorCodes
    BY DEF Validate, OpenError, Blank
  <2>3. Encode(OpenError(code), max) = <<>>
          \/ (code \in ErrorCodes /\ Encode(OpenError(code), max) = <<Prefix(3), Body(OpenError(code))>>)
    BY <2>1, <2>2 DEF Encode
  <2> DEFINE S == {Prefix(3)} \cup {Body(OpenError(c)) : c \in {d \in ErrorCodes : d = code}}
  <2>4. Prefix(3) \in S /\ (code \in ErrorCodes => Body(OpenError(code)) \in S)
    OBVIOUS
  <2> HIDE DEF S
  <2>5. <<>> \in Seq(S) /\ (code \in ErrorCodes => <<Prefix(3), Body(OpenError(code))>> \in Seq(S))
    BY <2>4, Pairs, Zenon
  <2>6. Encode(OpenError(code), max) \in Seq(S)
    BY <2>3, <2>5, Zenon
  <2> QED
    BY <2>6, Zenon DEF S
<1>4. Encode(HelloOK, max) = <<>> \/ Encode(HelloOK, max) = <<Prefix(2), Body(HelloOK)>>
  BY <1>1 DEF Encode
<1>5. Encode(OpenOK, max) = <<>> \/ Encode(OpenOK, max) = <<Prefix(1), Body(OpenOK)>>
  BY <1>2 DEF Encode
<1>6. Encode(HelloOK, max) \in Seq({Prefix(2), Body(HelloOK)})
  <2> DEFINE S == {Prefix(2), Body(HelloOK)}
  <2>1. <<Prefix(2), Body(HelloOK)>> \in Seq(S) /\ <<>> \in Seq(S)
    BY Pairs, Zenon
  <2> QED
    BY <1>4, <2>1, Zenon
<1>7. Encode(OpenOK, max) \in Seq({Prefix(1), Body(OpenOK)})
  <2> DEFINE S == {Prefix(1), Body(OpenOK)}
  <2>1. <<Prefix(1), Body(OpenOK)>> \in Seq(S) /\ <<>> \in Seq(S)
    BY Pairs, Zenon
  <2> QED
    BY <1>5, <2>1, Zenon
<1> QED
  BY <1>3, <1>6, <1>7, Zenon

\* A relay's limit leaves room for what it says (Limits.Validate).
LEMMA LongFrames ==
  ASSUME SessionInv
  PROVE  /\ Given \in Setups
         /\ Len(Encode(HelloOK, Given.relayMax)) = 2 /\ Len(Encode(OpenOK, Given.relayMax)) = 2
<1>1. Given \in Setups
  BY DEF SessionInv, Given, Configured
<1>2. Given.relayMax \in Nat /\ Given.relayMax >= 3
  BY <1>1, SetupsAssumption
<1>3. BodySize(HelloOK) = 2 /\ BodySize(OpenOK) = 1 /\ Validate(HelloOK) /\ Validate(OpenOK)
  BY DEF BodySize, Validate, Supported, HelloOK, OpenOK, Blank
<1>4. BodySize(HelloOK) <= Given.relayMax /\ BodySize(OpenOK) <= Given.relayMax
  BY <1>2, <1>3
<1>5. Encode(HelloOK, Given.relayMax) = <<Prefix(BodySize(HelloOK)), Body(HelloOK)>>
  BY <1>3, <1>4, Zenon DEF Encode
<1>6. Encode(OpenOK, Given.relayMax) = <<Prefix(BodySize(OpenOK)), Body(OpenOK)>>
  BY <1>3, <1>4, Zenon DEF Encode
<1> QED
  BY <1>1, <1>5, <1>6

\* The session never goes back, and what has been decided stays.
OnlyOnward ==
  /\ spc' = "http" => spc = "http"
  /\ serverClosed => serverClosed'
  /\ answer # "none" => answer' = answer
  /\ answer' = "http" => answer = "http" \/ spc = "http"
  /\ target # "none" => target' # "none"

LEMMA Onward ==
  ASSUME SessionInv, [Next]_vars
  PROVE  OnlyOnward
<1> USE DEF OnlyOnward
<1>1. CASE UNCHANGED serverVars
  BY <1>1 DEF serverVars
<1>2. CASE Opening \/ CancelContext \/ Callbacks \/ Break \/ UNCHANGED vars
  BY <1>1, <1>2, ClientSteps
     DEF CancelContext, Callbacks, CallbackStarts, CallbackSets, Break, vars
<1>3. CASE DeadlinePasses
  BY <1>3 DEF DeadlinePasses
<1>4. ASSUME NEW rest, NEW sent, NEW decision, EndSession(rest, sent, decision), decision # "http"
      PROVE  OnlyOnward
  BY <1>4 DEF EndSession
<1>5. ASSUME NEW from, NEW to, NEW frame, Say(from, to, frame), to # "http"
      PROVE  OnlyOnward
  BY <1>4, <1>5 DEF Say
<1>6. CASE Accept
  <2>1. answer = "none"
    BY <1>6 DEF Accept, SessionInv
  <2> QED
    BY <1>4, <1>6, <2>1 DEF Accept
<1>7. CASE AcceptHello
  BY <1>7 DEF AcceptHello
<1>8. CASE AcceptFinished
  BY <1>4, <1>8 DEF AcceptFinished
<1>9. CASE ReadHello
  BY <1>4, <1>9 DEF ReadHello
<1>10. CASE SayHelloOK \/ SayOpenOK
  BY <1>5, <1>10 DEF SayHelloOK, SayOpenOK
<1>11. CASE ReadOpen
  BY <1>4, <1>11 DEF ReadOpen
<1>12. CASE ResolveTarget
  <2>1. \A decision : ErrorCodeFor(decision) # "http"
    BY DEF ErrorCodeFor
  <2> QED
    BY <1>4, <1>12, <2>1 DEF ResolveTarget
<1>13. CASE DialTarget
  BY <1>4, <1>13 DEF DialTarget
<1>14. CASE SessionFails \/ RelayEnds
  BY <1>4, <1>14 DEF SessionFails, RelayEnds
<1>15. CASE CutOff
  BY <1>15 DEF CutOff
<1> QED
  BY <1>2, <1>3, <1>6, <1>7, <1>8, <1>9, <1>10, <1>11, <1>12, <1>13, <1>14, <1>15 DEF Next, Serving

\* The network does not heal, nor does the context come back.
LEMMA Worsens ==
  ASSUME [Next]_vars
  PROVE  setup' = setup /\ (broken => broken')
<1>1. CASE Opening \/ Serving \/ RelayEnds \/ CutOff
  BY <1>1, ClientSteps, ServerSteps DEF world
<1>2. CASE CancelContext \/ Callbacks \/ DeadlinePasses \/ Break \/ UNCHANGED vars
  BY <1>2 DEF CancelContext, Callbacks, CallbackStarts, CallbackSets, DeadlinePasses, Break, vars, world
<1> QED
  BY <1>1, <1>2 DEF Next

\* So what could be said can still be said.
LEMMA SayableGrows ==
  ASSUME SessionInv, [Next]_vars
  PROVE  Sayable \subseteq Sayable'
BY Onward, Worsens DEF Sayable, OnlyOnward, ErrorCodes

LEMMA Streams ==
  ASSUME NEW S, NEW s \in Seq(S)
  PROVE  /\ \A t \in Seq(S) : Written(s, t) \in Seq(S)
         /\ s # <<>> => Tail(s) \in Seq(S)
         /\ \A n \in Nat : SubSeq(s, n + 1, Len(s)) \in Seq(S)
         /\ \A T : S \subseteq T => s \in Seq(T)
         /\ \A c \in S : Append(s, c) \in Seq(S)
<1>1. \A n \in Nat : SubSeq(s, n + 1, Len(s)) \in Seq(S)
  OBVIOUS
<1>2. \A t \in Seq(S) : s \o t \in Seq(S)
  OBVIOUS
<1>3. \A t \in Seq(S) : Written(s, t) \in Seq(S)
  BY <1>2 DEF Written
<1>4. \A T : S \subseteq T => s \in Seq(T)
  OBVIOUS
<1>5. \A c \in S : Append(s, c) \in Seq(S)
  OBVIOUS
<1>6. s # <<>> => Tail(s) \in Seq(S)
  OBVIOUS
<1> QED
  BY <1>1, <1>3, <1>4, <1>5, <1>6

LEMMA EndedStreams ==
  ASSUME NEW S, Cell("fin") \in S, Cell("rst") \in S, NEW s \in Seq(S)
  PROVE  /\ Ending(s, "fin") \in Seq(S)
         /\ Resets(s) \subseteq Seq(S)
         /\ \A unread : AfterServerClose(s, unread) \subseteq Seq(S)
<1>1. Ending(s, "fin") \in Seq(S)
  BY DEF Ending
<1>2. Ending(s, "rst") \in Seq(S) /\ <<Cell("rst")>> \in Seq(S)
  BY DEF Ending
<1>3. Resets(s) \subseteq Seq(S)
  BY <1>2 DEF Resets
<1>4. <<>> \in Seq(S)
  OBVIOUS
<1>5. \A unread : AfterServerClose(s, unread) \subseteq Seq(S)
  BY <1>1, <1>3, <1>4 DEF AfterServerClose
<1> QED
  BY <1>1, <1>3, <1>5

\* The message Decode returns is the one in the body; OPEN_OK, OPEN_ERROR and
\* HELLO_OK are not changed by unmarshalMessage.
LEMMA ReplyIsSaid ==
  ASSUME toClient \in Seq(Sayable), FrameReady(toClient, clientMax), Reply.error = "none"
  PROVE  /\ Reply.read = 2 /\ Len(toClient) >= 2
         /\ toClient[1].cell = "length" /\ toClient[2].cell = "body"
         /\ Reply.message.type = "OPEN_OK" => target # "none"
         /\ Reply.message.type = "OPEN_ERROR" =>
              Reply.message.code \in ErrorCodes /\ answer = Reply.message.code
<1>1. /\ Reply.read = 2 /\ Reply.message = Unmarshal(toClient[2].message)
      /\ toClient[1].cell = "length" /\ ~(toClient[1].size > clientMax)
      /\ toClient[2].cell = "body"
  BY DEF Reply, Decode
<1>2. Len(toClient) >= 2
  BY <1>1 DEF FrameReady
<1>3. toClient[2] \in Sayable
  BY <1>2
<1>4. toClient[2].cell = "body" => /\ toClient[2] = Body(toClient[2].message)
                                   /\ \/ toClient[2].message = HelloOK
                                      \/ toClient[2].message = OpenOK /\ target # "none"
                                      \/ answer \in ErrorCodes /\ toClient[2].message = OpenError(answer)
  BY <1>3 DEF Sayable, Body, Prefix, Cell
<1>5. \A m : m.type # "OPEN" => Unmarshal(m) = m
  BY DEF Unmarshal
<1>6. /\ HelloOK.type = "HELLO_OK" /\ OpenOK.type = "OPEN_OK"
      /\ \A code : OpenError(code).type = "OPEN_ERROR" /\ OpenError(code).code = code
  BY DEF HelloOK, OpenOK, OpenError, Blank
<1>7. Reply.message = toClient[2].message
  BY <1>1, <1>4, <1>5, <1>6
<1> QED
  BY <1>1, <1>2, <1>4, <1>6, <1>7

LEMMA SaidStart == Init => SaidInv
<1>1. Init => toClient = <<>> /\ pc = "check"
  BY DEF Init
<1> QED
  BY <1>1 DEF SaidInv

LEMMA WriteSaid ==
  ASSUME SaidInv, NEW cell, ClientWrites(cell)
  PROVE  toClient' \in Seq(Sayable)
<1>1. toClient \in Seq(Sayable)
  BY DEF SaidInv
<1>2. CASE serverClosed \/ broken
  <2>1. Cell("fin") \in Sayable /\ Cell("rst") \in Sayable
    BY <1>2 DEF Sayable
  <2>2. Resets(toClient) \subseteq Seq(Sayable)
    BY <1>1, <2>1, EndedStreams
  <2>3. toClient' \in Resets(toClient) \/ toClient' = toClient
    BY <1>2 DEF ClientWrites
  <2> QED
    BY <1>1, <2>2, <2>3
<1>3. CASE ~(serverClosed \/ broken)
  BY <1>1, <1>3 DEF ClientWrites
<1> QED
  BY <1>2, <1>3

\* Open takes from the stream, or finds its end.
LEMMA SaidToOpen ==
  ASSUME SaidInv, Opening
  PROVE  /\ toClient' \in Seq(Sayable)
         /\ pc' \in {"stop", "recheck", "clear", "opened"} => target # "none"
<1>1. toClient \in Seq(Sayable)
  BY DEF SaidInv
<1>2. <<>> \in Seq(Sayable) /\ (toClient # <<>> => Tail(toClient) \in Seq(Sayable))
  BY <1>1
<1> USE DEF Goto
<1>3. CASE Check \/ Dial \/ UpgradeStop \/ TLSClear \/ StartControl
  BY <1>1, <1>3 DEF Check, Dial, UpgradeStop, TLSClear, StartControl, wires
<1>4. CASE SendFails \/ AwaitFails
  BY <1>1, <1>4 DEF SendFails, AwaitFails, wires
<1>5. CASE StopCancellation \/ Recheck \/ ClearDeadline
  BY <1>1, <1>5 DEF StopCancellation, Recheck, ClearDeadline, wires, SaidInv
<1>6. CASE UpgradeWrite
  <2>1. pc' \in {"upgradeRead", "upgradeStop"} /\ (ClientWrites(UpgradeRequest) \/ toClient' = toClient)
    BY <1>6 DEF UpgradeWrite, wires
  <2> QED
    BY <1>1, <2>1, WriteSaid
<1>7. CASE UpgradeRead
  <2>1. pc' = "upgradeStop" /\ (toClient' = toClient \/ (toClient # <<>> /\ toClient' = Tail(toClient)))
    BY <1>7 DEF UpgradeRead, AfterResponse
  <2> QED
    BY <1>1, <1>2, <2>1
<1>8. CASE UpgradeClear \/ TLSFails \/ Unwind
  <2>1. pc' \in {"tlsHello", "failed"} /\ (toClient' = toClient \/ toClient' = <<>>)
    BY <1>8 DEF UpgradeClear, TLSFails, Unwind, CloseClient, wires
  <2> QED
    BY <1>1, <1>2, <2>1
<1>9. CASE TLSHello
  <2>1. pc' = "tlsRead" /\ ClientWrites(Cell("ClientHello"))
    BY <1>9 DEF TLSHello
  <2> QED
    BY <2>1, WriteSaid
<1>10. CASE TLSRead
  <2>1. pc' = "tlsClear" /\ toClient # <<>>
    BY <1>10 DEF TLSRead
  <2>2. CASE serverClosed \/ broken
    <3>1. toClient' \in Resets(Tail(toClient))
      BY <1>10, <2>2 DEF TLSRead
    <3>2. Cell("fin") \in Sayable /\ Cell("rst") \in Sayable
      BY <2>2 DEF Sayable
    <3>3. Tail(toClient) \in Seq(Sayable)
      BY <1>2, <2>1
    <3>4. Resets(Tail(toClient)) \subseteq Seq(Sayable)
      BY <3>2, <3>3, EndedStreams
    <3> QED
      BY <2>1, <3>1, <3>4
  <2>3. CASE ~(serverClosed \/ broken)
    BY <1>2, <1>10, <2>1, <2>3 DEF TLSRead
  <2> QED
    BY <2>2, <2>3
<1>11. CASE SendHello \/ SendOpen
  <2>1. PICK from, to, cell : /\ Send(from, to, cell)
                              /\ to \in {"helloBody", "helloAwait", "openBody", "openAwait"}
    BY <1>11 DEF SendHello, SendOpen
  <2> QED
    BY <2>1, WriteSaid DEF Send
<1>12. CASE AwaitHelloOK \/ AwaitOpenOK
  <2>1. PICK from, to, type : /\ Await(from, to, type)
                              /\ \/ to = "openLength"
                                 \/ to = "stop" /\ type = "OPEN_OK"
    BY <1>12 DEF AwaitHelloOK, AwaitOpenOK
  <2>2. /\ FrameReady(toClient, clientMax) /\ Reply.error = "none"
        /\ toClient' = SubSeq(toClient, Reply.read + 1, Len(toClient))
        /\ pc' = "unwind" \/ (pc' = to /\ Reply.message.type = type)
    BY <2>1 DEF Await
  <2>3. Reply.read \in Nat /\ (Reply.message.type = "OPEN_OK" => target # "none")
    BY <1>1, <2>2, ReplyIsSaid
  <2>4. toClient' \in Seq(Sayable)
    BY <1>1, <2>2, <2>3, Streams
  <2> QED
    BY <2>1, <2>2, <2>3, <2>4
<1> QED
  BY <1>3, <1>4, <1>5, <1>6, <1>7, <1>8, <1>9, <1>10, <1>11, <1>12 DEF Opening

\* Before the connection is closed, the relay may write its last words.
LEMMA LastWords ==
  ASSUME NEW S, toClient \in Seq(S), Cell("fin") \in S, Cell("rst") \in S,
         NEW rest, NEW sent, NEW decision, EndSession(rest, sent, decision),
         ~serverClosed => sent \in Seq(S)
  PROVE  toClient' \in Seq(S)
<1>1. CASE serverClosed
  BY <1>1 DEF EndSession
<1>2. CASE ~serverClosed
  <2>1. Written(toClient, sent) \in Seq(S)
    BY <1>2, Streams
  <2>2. AfterServerClose(Written(toClient, sent), rest # <<>> /\ ~Ended(rest)) \subseteq Seq(S)
    BY <2>1, EndedStreams
  <2>3. toClient' \in AfterServerClose(Written(toClient, sent), rest # <<>> /\ ~Ended(rest))
    BY <1>2 DEF EndSession
  <2> QED
    BY <2>2, <2>3
<1> QED
  BY <1>1, <1>2

\* A decision that is made becomes the answer.
LEMMA Decided ==
  ASSUME SessionInv, spc # "ended", NEW rest, NEW sent, NEW decision, EndSession(rest, sent, decision)
  PROVE  serverClosed' = TRUE /\ (~serverClosed => answer' = decision)
BY DEF EndSession, SessionInv

\* An end at the front of the stream is all that is left of it: where a read of
\* the relay fails, so does a write.
LEMMA EndMakesBoth ==
  ASSUME WireInv, ServerReadFails
  PROVE  ServerWriteFails
<1>1. CASE toServer # <<>> /\ Head(toServer).cell \in Ends
  <2>1. 1 \in DOMAIN toServer /\ toServer[1].cell \in Ends
    BY <1>1 DEF WireInv, WireStream
  <2>2. 1 = Len(toServer)
    BY <2>1 DEF WireInv, WireStream
  <2> QED
    BY <1>1, <2>1, <2>2 DEF ServerWriteFails, Ended, Last
<1> QED
  BY <1>1 DEF ServerReadFails, ServerWriteFails

LEMMA SaidByRelay ==
  ASSUME SessionInv, WireInv, SaidInv, [Next]_vars, Serving \/ RelayEnds \/ CutOff
  PROVE  toClient' \in Seq(Sayable')
<1> DEFINE S == Sayable'
<1>1. Sayable \subseteq S /\ toClient \in Seq(S) /\ <<>> \in Seq(S)
  BY SayableGrows, Streams DEF SaidInv
<1>2. Cell("ServerHello") \in S /\ Cell("status") \in S
  BY DEF Sayable
<1>3. serverClosed' => Cell("fin") \in S /\ Cell("rst") \in S
  BY DEF Sayable
<1>4. answer' = "cert" => Cell("alert") \in S
  BY DEF Sayable
<1>5. spc' # "http" /\ answer' # "http" => Cell("101") \in S
  BY DEF Sayable
<1>6. \A max : Encode(HelloOK, max) \in Seq(S)
  <2>1. {Prefix(2), Body(HelloOK)} \subseteq S
    BY DEF Sayable
  <2> HIDE DEF S
  <2> QED
    BY <2>1, Frames, Streams
<1>7. target' # "none" => \A max : Encode(OpenOK, max) \in Seq(S)
  <2>1. target' # "none" => {Prefix(1), Body(OpenOK)} \subseteq S
    BY DEF Sayable
  <2> HIDE DEF S
  <2> QED
    BY <2>1, Frames, Streams
<1>8. \A code : answer' = code => Refusal(code) \in Seq(S)
  <2>1. TAKE code
  <2>2. answer' = code =>
          {Prefix(3)} \cup {Body(OpenError(c)) : c \in {d \in ErrorCodes : d = code}} \subseteq S
    BY DEF Sayable
  <2> HIDE DEF S
  <2>3. Refusal(code) \in Seq({Prefix(3)} \cup {Body(OpenError(c)) : c \in {d \in ErrorCodes : d = code}})
    BY Frames DEF Refusal
  <2> QED
    BY <2>2, <2>3, Streams
<1> SUFFICES toClient' \in Seq(S)
  OBVIOUS
<1> HIDE DEF S
<1>9. ASSUME NEW rest, NEW sent, NEW decision, EndSession(rest, sent, decision), spc # "ended",
             ~serverClosed /\ answer' = decision => sent \in Seq(S)
      PROVE  toClient' \in Seq(S)
  <2>1. serverClosed' /\ (~serverClosed => answer' = decision)
    BY <1>9, Decided
  <2> QED
    BY <1>1, <1>3, <1>9, <2>1, LastWords
<1>10. \A cell \in S : <<cell>> \in Seq(S)
  OBVIOUS
<1>11. CASE Accept
  <2>1. spc = "http" /\ answer = "none"
    BY <1>11 DEF Accept, SessionInv
  <2>2. CASE EndSession(<<>>, <<>>, "lost")
    <3>1. spc # "ended" /\ <<>> \in Seq(S)
      BY <2>1, <1>1
    <3> QED
      BY <2>2, <3>1, <1>9, Zenon
  <2>3. CASE ~EndSession(<<>>, <<>>, "lost")
    <3>1. \/ toClient' = Written(toClient, <<Cell("101")>>) /\ spc' = "tlsHello" /\ answer' = "none"
          \/ toClient' = Written(toClient, <<Cell("status")>>)
      BY <2>1, <2>3, <1>11 DEF Accept
    <3>2. CASE toClient' = Written(toClient, <<Cell("status")>>)
      <4>1. <<Cell("status")>> \in Seq(S)
        BY <1>2, <1>10, Zenon
      <4> QED
        BY <3>2, <4>1, <1>1, Streams, Zenon
    <3>3. CASE toClient' = Written(toClient, <<Cell("101")>>) /\ spc' = "tlsHello" /\ answer' = "none"
      <4>1. Cell("101") \in S
        BY <3>3, <1>5
      <4>2. <<Cell("101")>> \in Seq(S)
        BY <4>1, <1>10, Zenon
      <4> QED
        BY <3>3, <4>2, <1>1, Streams, Zenon
    <3> QED
      BY <3>1, <3>2, <3>3
  <2> QED
    BY <2>2, <2>3
<1>12. CASE AcceptHello
  <2>1. toClient' = Written(toClient, <<Cell("ServerHello")>>)
    BY <1>12 DEF AcceptHello
  <2>2. <<Cell("ServerHello")>> \in Seq(S)
    BY <1>2, <1>10, Zenon
  <2> QED
    BY <2>1, <2>2, <1>1, Streams, Zenon
<1>13. CASE AcceptFinished
  <2>1. CASE Given.certificate = "refused"
    <3>1. answer' = "cert" => <<Cell("alert")>> \in Seq(S)
      BY <1>4, <1>10, Zenon
    <3>2. EndSession(Tail(toServer), <<Cell("alert")>>, "cert") /\ spc # "ended"
      BY <2>1, <1>13 DEF AcceptFinished, SInput
    <3> QED
      BY <3>1, <3>2, <1>9, Zenon
  <2>2. CASE Given.certificate # "refused"
    BY <2>2, <1>1, <1>13 DEF AcceptFinished
  <2> QED
    BY <2>1, <2>2
<1>14. CASE ReadHello
  <2>1. spc = "hello"
    BY <1>14 DEF ReadHello, SReady
  <2>2. toClient' = toClient \/ EndSession(Unheard, <<>>, "token") \/ EndSession(Unheard, <<>>, "hello")
    BY <1>14 DEF ReadHello
  <2>3. spc # "ended" /\ <<>> \in Seq(S)
    BY <2>1, <1>1
  <2> QED
    BY <2>2, <2>3, <1>1, <1>9, Zenon
<1>15. ASSUME NEW from, NEW to, NEW frame, Say(from, to, frame), from # "ended",
              frame \in Seq(S), Len(frame) >= 1
       PROVE  toClient' \in Seq(S)
  <2>1. \A n \in 0..1 : SubSeq(frame, 1, n) \in Seq(S)
    BY <1>15
  <2>2. Written(toClient, frame) \in Seq(S)
    BY <1>1, <1>15, Streams, Zenon
  <2>3. CASE toClient' = Written(toClient, frame)
    BY <2>2, <2>3
  <2>4. CASE \E n \in 0..1 : EndSession(toServer, SubSeq(frame, 1, n), "lost")
    <3>1. PICK n \in 0..1 : EndSession(toServer, SubSeq(frame, 1, n), "lost")
      BY <2>4
    <3>2. spc # "ended"
      BY <1>15 DEF Say
    <3>3. SubSeq(frame, 1, n) \in Seq(S)
      BY <2>1
    <3> QED
      BY <3>1, <3>2, <3>3, <1>9, Zenon
  <2> QED
    BY <1>15, <2>3, <2>4 DEF Say
<1>16. CASE SayHelloOK
  <2> DEFINE frame == Encode(HelloOK, Given.relayMax)
  <2>1. frame \in Seq(S) /\ Len(frame) >= 1
    BY <1>6, LongFrames
  <2>2. Say("helloOK", "open", frame)
    BY <1>16 DEF SayHelloOK
  <2> HIDE DEF frame
  <2> QED
    BY <2>1, <2>2, <1>15
<1>17. CASE SayOpenOK
  <2>1. spc = "openOK"
    BY <1>17 DEF SayOpenOK, Say
  <2>2. target' # "none"
    BY <2>1, Onward DEF SessionInv, OnlyOnward
  <2>3. Encode(OpenOK, Given.relayMax) \in Seq(S)
    BY <2>2, <1>7
  <2> QED
    BY <1>17, <1>15, <2>3, LongFrames DEF SayOpenOK
<1>18. ASSUME NEW rest, NEW code, NEW silent \in BOOLEAN, spc # "ended",
              EndSession(rest, IF silent THEN <<>> ELSE Refusal(code), code)
       PROVE  toClient' \in Seq(S)
  <2>1. answer' = code => (IF silent THEN <<>> ELSE Refusal(code)) \in Seq(S)
    BY <1>1, <1>8
  <2> QED
    BY <2>1, <1>9, <1>18, Zenon
<1>19. CASE ReadOpen
  <2>1. spc = "open"
    BY <1>19 DEF ReadOpen, SReady
  <2>2. CASE EndSession(Unheard, Refusal("malformed"), "malformed")
    <3>1. spc # "ended" /\ (answer' = "malformed" => Refusal("malformed") \in Seq(S))
      BY <2>1, <1>8
    <3> QED
      BY <2>2, <3>1, <1>9, Zenon
  <2>3. CASE toClient' = toClient
    BY <2>3, <1>1
  <2> QED
    BY <2>2, <2>3, <1>19 DEF ReadOpen
<1>20. CASE ResolveTarget
  <2>1. spc # "ended"
    BY <1>20 DEF ResolveTarget
  <2>2. \/ toClient' = toClient
        \/ \E code : EndSession(toServer, IF ServerWriteFails THEN <<>> ELSE Refusal(code), code)
    BY <1>20 DEF ResolveTarget, wires
  <2> QED
    BY <2>1, <2>2, <1>1, <1>18
<1>21. CASE DialTarget
  <2>1. spc # "ended"
    BY <1>21 DEF DialTarget
  <2>2. \/ toClient' = toClient
        \/ EndSession(toServer, IF ServerWriteFails THEN <<>> ELSE Refusal("dial-failed"), "dial-failed")
    BY <1>21 DEF DialTarget, wires
  <2> QED
    BY <2>1, <2>2, <1>1, <1>18
<1>22. CASE RelayEnds
  <2>1. spc # "ended" /\ EndSession(<<>>, <<>>, "ok") /\ <<>> \in Seq(S)
    BY <1>22, <1>1 DEF RelayEnds
  <2> QED
    BY <2>1, <1>9, Zenon
<1>23. CASE SessionFails
  <2>1. spc # "ended" /\ ServerReadFails
    BY <1>23 DEF SessionFails
  <2>2. ServerWriteFails
    BY <2>1, EndMakesBoth
  <2>3. EndSession(toServer, <<>>, "lost") /\ <<>> \in Seq(S)
    BY <2>2, <1>1, <1>23 DEF SessionFails
  <2> QED
    BY <2>1, <2>3, <1>9, Zenon
<1>24. CASE CutOff
  <2>1. serverClosed' /\ toClient' \in AfterServerClose(toClient, toServer # <<>> /\ ~Ended(toServer))
    BY <1>24 DEF CutOff
  <2> QED
    BY <2>1, <1>1, <1>3, EndedStreams
<1> QED
  BY <1>11, <1>12, <1>13, <1>14, <1>16, <1>17, <1>19, <1>20, <1>21, <1>22, <1>23, <1>24 DEF Serving

LEMMA SaidStep ==
  ASSUME SessionInv, WireInv, SaidInv, [Next]_vars
  PROVE  SaidInv'
<1>1. Sayable \subseteq Sayable' /\ toClient \in Seq(Sayable')
  BY SayableGrows, Streams DEF SaidInv
<1>2. target # "none" => target' # "none"
  BY Onward DEF OnlyOnward
<1>3. CASE Opening
  <2>1. /\ toClient' \in Seq(Sayable)
        /\ pc' \in {"stop", "recheck", "clear", "opened"} => target # "none"
    BY <1>3, SaidToOpen
  <2>2. toClient' \in Seq(Sayable')
    BY <1>1, <2>1, Streams
  <2> QED
    BY <1>2, <2>1, <2>2 DEF SaidInv
<1>4. CASE Serving \/ RelayEnds \/ CutOff
  <2>1. toClient' \in Seq(Sayable') /\ pc' = pc
    BY <1>4, SaidByRelay, ServerSteps DEF clientVars
  <2> QED
    BY <1>2, <2>1 DEF SaidInv
<1>5. CASE Break
  <2>1. pc' = pc /\ broken'
    BY <1>5 DEF Break, clientVars
  <2>2. Cell("fin") \in Sayable' /\ Cell("rst") \in Sayable'
    BY <2>1 DEF Sayable
  <2>3. toClient' \in Resets(toClient) \/ toClient' = Ending(toClient, "fin") \/ toClient' = <<>>
    BY <1>5 DEF Break
  <2> DEFINE S == Sayable'
  <2>4. Cell("fin") \in S /\ Cell("rst") \in S /\ toClient \in Seq(S)
    BY <1>1, <2>2
  <2> HIDE DEF S
  <2>5. toClient' \in Seq(S)
    <3>1. <<>> \in Seq(S)
      OBVIOUS
    <3> QED
      BY <2>3, <2>4, <3>1, EndedStreams
  <2> QED
    BY <1>2, <2>1, <2>5 DEF SaidInv, S
<1>6. CASE CancelContext \/ Callbacks \/ DeadlinePasses \/ UNCHANGED vars
  <2>1. UNCHANGED <<pc, toClient>>
    BY <1>6 DEF CancelContext, Callbacks, CallbackStarts, CallbackSets, DeadlinePasses, vars, clientVars, wires
  <2> QED
    BY <1>1, <1>2, <2>1 DEF SaidInv
<1> QED
  BY <1>3, <1>4, <1>5, <1>6 DEF Next

-----------------------------------------------------------------------------
(***************************************************************************)
(* The contract.                                                           *)
(***************************************************************************)

CallerOf(at) == CASE at = "opened" -> "opened" [] at = "failed" -> "failed" [] OTHER -> "opening"

RelayOf(at, of) ==
  CASE of = "open" -> "connected" [] of = "closed" -> "left"
    [] at = "ended" /\ of = "none" -> "refused" [] OTHER -> "idle"

\* Open ends once, and with a stream only when the relay has reached the target.
LEMMA CallerSteps ==
  ASSUME SessionInv, SaidInv, Opening
  PROVE  /\ UNCHANGED <<spc, target>>
         /\ \/ CallerOf(pc') = CallerOf(pc)
            \/ CallerOf(pc) = "opening" /\ CallerOf(pc') = "failed"
            \/ CallerOf(pc) = "opening" /\ CallerOf(pc') = "opened" /\ RelayOf(spc, target) \in {"connected", "left"}
<1>1. UNCHANGED <<spc, target>>
  BY ClientSteps DEF serverVars
<1>2. CASE ClearDeadline
  <2>1. pc = "clear" /\ pc' = "opened"
    BY <1>2 DEF ClearDeadline, Goto
  <2>2. target \in {"open", "closed"}
    BY <2>1 DEF SessionInv, SaidInv
  <2> QED
    BY <1>1, <2>1, <2>2 DEF CallerOf, RelayOf
<1>3. CASE ~ClearDeadline
  <2>1. pc \notin {"opened", "failed"} /\ pc' # "opened"
    <3>1. CASE Check \/ Dial \/ UpgradeWrite \/ UpgradeRead \/ UpgradeStop \/ UpgradeClear
      BY <3>1 DEF Check, Dial, UpgradeWrite, UpgradeRead, UpgradeStop, UpgradeClear, Goto
    <3>2. CASE TLSHello \/ TLSRead \/ TLSFails \/ TLSClear \/ StartControl
      BY <3>2 DEF TLSHello, TLSRead, TLSFails, TLSClear, StartControl, Goto
    <3>3. CASE SendHello \/ SendOpen \/ SendFails \/ AwaitFails
      BY <3>3 DEF SendHello, SendOpen, Send, SendFails, AwaitFails, Goto
    <3>4. CASE AwaitHelloOK \/ AwaitOpenOK \/ StopCancellation \/ Recheck \/ Unwind
      BY <3>4 DEF AwaitHelloOK, AwaitOpenOK, Await, StopCancellation, Recheck, Unwind, Goto
    <3> QED
      BY <1>3, <3>1, <3>2, <3>3, <3>4 DEF Opening
  <2> QED
    BY <1>1, <2>1 DEF CallerOf
<1> QED
  BY <1>2, <1>3

\* The relay reaches the target or gives the session up, and lets go of it once.
RelayAdvances ==
  \/ RelayOf(spc', target') = RelayOf(spc, target)
  \/ RelayOf(spc, target) = "idle" /\ RelayOf(spc', target') \in {"connected", "refused"}
  \/ RelayOf(spc, target) = "connected" /\ RelayOf(spc', target') = "left"

LEMMA RelaySteps ==
  ASSUME SessionInv, Serving \/ RelayEnds \/ CutOff
  PROVE  RelayAdvances
<1> DEFINE Idle == target = "none" /\ spc # "ended"
<1>1. spc \notin {"ended", "openOK", "relay"} => target = "none"
  BY DEF SessionInv
<1>2. spc \in {"openOK", "relay"} => target = "open"
  BY DEF SessionInv
<1>3. spc # "ended" => Idle \/ target = "open"
  BY DEF SessionInv
<1>4. ASSUME spc # "ended", NEW rest, NEW sent, NEW decision, EndSession(rest, sent, decision)
      PROVE  RelayAdvances
  <2>1. spc' = "ended" /\ target' = IF target = "open" THEN "closed" ELSE target
    BY <1>4 DEF EndSession
  <2> QED
    BY <1>3, <1>4, <2>1 DEF RelayAdvances, RelayOf
<1>5. ASSUME spc' \notin {"ended", "openOK", "relay"}, Idle, target' = target
      PROVE  RelayAdvances
  BY <1>5 DEF RelayAdvances, RelayOf
<1>6. CASE Accept
  <2>1. CASE EndSession(<<>>, <<>>, "lost")
    BY <1>4, <1>6, <2>1 DEF Accept
  <2>2. CASE ~EndSession(<<>>, <<>>, "lost")
    <3>1. Idle /\ target' = target /\ spc' \in {"tlsHello", "ended"}
      BY <1>1, <1>6, <2>2 DEF Accept
    <3> QED
      BY <3>1 DEF RelayAdvances, RelayOf
  <2> QED
    BY <2>1, <2>2
<1>7. CASE AcceptHello
  BY <1>1, <1>5, <1>7 DEF AcceptHello, SInput
<1>8. CASE AcceptFinished
  BY <1>1, <1>4, <1>5, <1>8 DEF AcceptFinished, SInput
<1>9. CASE ReadHello
  BY <1>1, <1>4, <1>5, <1>9 DEF ReadHello, SReady
<1>10. CASE SayHelloOK
  BY <1>1, <1>4, <1>5, <1>10 DEF SayHelloOK, Say
<1>11. CASE SayOpenOK
  <2>1. CASE spc' = "relay" /\ target' = target /\ spc = "openOK"
    BY <1>2, <2>1 DEF RelayAdvances, RelayOf
  <2> QED
    BY <1>4, <1>11, <2>1 DEF SayOpenOK, Say
<1>12. CASE ReadOpen
  BY <1>1, <1>4, <1>5, <1>12 DEF ReadOpen, SReady
<1>13. CASE ResolveTarget
  BY <1>1, <1>4, <1>5, <1>13 DEF ResolveTarget
<1>14. CASE DialTarget
  <2>1. CASE target' = "open" /\ spc' = "openOK" /\ spc = "dial"
    BY <1>1, <2>1 DEF RelayAdvances, RelayOf
  <2>2. CASE UNCHANGED <<spc, target>> /\ spc = "dial"
    BY <2>2 DEF RelayAdvances
  <2> QED
    BY <1>4, <1>14, <2>1, <2>2 DEF DialTarget
<1>15. CASE SessionFails \/ RelayEnds
  BY <1>4, <1>15 DEF SessionFails, RelayEnds
<1>16. CASE CutOff
  BY <1>16 DEF CutOff, RelayAdvances
<1> QED
  BY <1>6, <1>7, <1>8, <1>9, <1>10, <1>11, <1>12, <1>13, <1>14, <1>15, <1>16 DEF Serving

LEMMA ContractStep ==
  ASSUME SessionInv, SaidInv, [Next]_vars
  PROVE  [Contract!ContractNext]_(Contract!contractVars)
<1> DEFINE caller == CallerOf(pc)
           relay  == RelayOf(spc, target)
<1>1. \/ UNCHANGED relay /\ UNCHANGED caller
      \/ UNCHANGED relay /\ caller = "opening" /\ caller' = "failed"
      \/ UNCHANGED relay /\ caller = "opening" /\ caller' = "opened" /\ relay \in {"connected", "left"}
      \/ UNCHANGED caller /\ relay = "idle" /\ relay' \in {"connected", "refused"}
      \/ UNCHANGED caller /\ relay = "connected" /\ relay' = "left"
  <2>1. CASE Opening
    BY <2>1, CallerSteps
  <2>2. CASE Serving \/ RelayEnds \/ CutOff
    <3>1. UNCHANGED pc
      BY <2>2, ServerSteps DEF clientVars
    <3> QED
      BY <2>2, <3>1, RelaySteps DEF RelayAdvances
  <2>3. CASE CancelContext \/ Callbacks \/ DeadlinePasses \/ Break \/ UNCHANGED vars
    <3>1. UNCHANGED <<pc, spc, target>>
      BY <2>3 DEF CancelContext, Callbacks, CallbackStarts, CallbackSets, DeadlinePasses, Break, vars,
                  clientVars, serverVars
    <3> QED
      BY <3>1
  <2> QED
    BY <2>1, <2>2, <2>3 DEF Next
<1> QED
  BY <1>1 DEF Contract!ContractNext, Contract!contractVars, Contract!Reach, Contract!Leave, Contract!Succeed,
              Contract!GiveUp, CallerOf, RelayOf

\* Open keeps its contract: a stream is returned only after the relay has reached
\* the destination, and Open ends once.
THEOREM ContractKept == Spec => RefinesContract
<1>1. Init => Contract!ContractInit
  BY DEF Init, Contract!ContractInit
<1> QED
  BY <1>1, ContractStep, SessionStart, SessionStep, WireStart, WireStep, SaidStart, SaidStep, PTL
     DEF Spec, RefinesContract, Contract!ContractSpec

-----------------------------------------------------------------------------
(***************************************************************************)
(* The destination that is dialled.                                        *)
(***************************************************************************)

LEMMA SuffixIndexed ==
  ASSUME NEW S, NEW s \in Seq(S), NEW t \in Seq(S), IsSuffix(s, t)
  PROVE  Len(s) <= Len(t) /\ SubSeq(t, Len(t) - Len(s) + 1, Len(t)) = s
<1> DEFINE m == Len(s)
           n == Len(t)
<1>1. m \in Nat /\ n \in Nat
  OBVIOUS
<1>2. /\ Reverse(s) = [i \in 1..m |-> s[(m - i) + 1]]
      /\ Reverse(t) = [i \in 1..n |-> t[(n - i) + 1]]
  BY DEF Reverse
<1>3. Reverse(s) \in Seq(S) /\ Len(Reverse(s)) = m /\ Reverse(t) \in Seq(S) /\ Len(Reverse(t)) = n
  BY <1>2
<1>4. m <= n /\ SubSeq(Reverse(s), 1, m) = SubSeq(Reverse(t), 1, m)
  BY <1>3 DEF IsSuffix, IsPrefix
<1>5. \A i \in 1..m : SubSeq(Reverse(s), 1, m)[i] = s[(m - i) + 1] /\ SubSeq(Reverse(t), 1, m)[i] = t[(n - i) + 1]
  BY <1>2, <1>3, <1>4
<1>6. \A i \in 1..m : s[(m - i) + 1] = t[(n - i) + 1]
  BY <1>4, <1>5
<1>7. \A j \in 1..m : s[j] = t[n - m + j]
  <2>1. TAKE j \in 1..m
  <2>2. (m - j) + 1 \in 1..m /\ (m - ((m - j) + 1)) + 1 = j /\ (n - ((m - j) + 1)) + 1 = n - m + j
    BY <1>1
  <2> QED
    BY <1>6, <2>2
<1> DEFINE u == SubSeq(t, n - m + 1, n)
<1>8. u \in Seq(S) /\ Len(u) = m /\ \A j \in 1..m : u[j] = t[n - m + j]
  BY <1>1, <1>4
<1>9. u = s
  BY <1>7, <1>8
<1> QED
  BY <1>4, <1>9

\* What an entry of the list matches, it covers: matches compares from the end.
LEMMA PatternCovers ==
  ASSUME NEW entry \in Seq(Characters), NEW host \in Seq(Characters),
         ParseHostPattern(entry).kind # "invalid", matches(ParseHostPattern(entry), host)
  PROVE  Covers(entry, host)
<1> DEFINE wildcard == Len(entry) >= 2 /\ SubSeq(entry, 1, 2) = <<"*", ".">>
           text == IF wildcard THEN SubSeq(entry, 3, Len(entry)) ELSE entry
           canonical == canonicalHostname(text)
           pattern == ParseHostPattern(entry)
<1>1. text \in Seq(Characters)
  OBVIOUS
<1>2. /\ canonical.deny = "none"
      /\ pattern = [kind |-> IF wildcard THEN "wildcard" ELSE "exact", host |-> canonical.name]
  BY DEF ParseHostPattern
<1>3. canonical.name = WithoutDot(ToLower(text)) /\ canonical.name \in Seq(Characters)
  BY <1>1, <1>2, Canonical, Undotted
<1>4. CASE ~wildcard
  <2>1. host = canonical.name
    BY <1>2, <1>4 DEF matches
  <2> QED
    BY <1>3, <1>4, <2>1 DEF Covers
<1>5. CASE wildcard
  <2> DEFINE suffix == canonical.name
             k == Len(host) - Len(suffix)
  <2>1. pattern.kind = "wildcard" /\ pattern.host = suffix
    BY <1>2, <1>5
  <2>2. Len(host) > Len(suffix) + 1 /\ IsSuffix(suffix, host) /\ host[k] = "."
    BY <2>1 DEF matches
  <2>3. SubSeq(host, k + 1, Len(host)) = suffix
    BY <1>3, <2>2, SuffixIndexed
  <2>4. k \in 2..Len(host)
    BY <1>3, <2>2
  <2>5. Under(host, suffix)
    BY <2>2, <2>3, <2>4 DEF Under
  <2>6. suffix = WithoutDot(ToLower(SubSeq(entry, 3, Len(entry))))
    BY <1>3, <1>5
  <2> QED
    BY <1>5, <2>5, <2>6 DEF Covers
<1> QED
  BY <1>4, <1>5

LEMMA ListCovers ==
  ASSUME SessionInv, NEW destination, destination.host \in Seq(Characters),
         Permits(setup.relay, destination) = "none"
  PROVE  Given.relayAll \/ \E entry \in ToSet(Given.relayList) : Covers(entry, destination.host)
<1>1. Given \in Setups /\ setup.relay = IF Given.relayAll THEN AllowAll ELSE ParseAllowlist(Given.relayList)
  BY DEF SessionInv, Given, Configured
<1>2. SUFFICES ASSUME ~Given.relayAll
               PROVE  \E entry \in ToSet(Given.relayList) : Covers(entry, destination.host)
  OBVIOUS
<1> DEFINE entries == Given.relayList
           parsed == {ParseHostPattern(entries[i]) : i \in DOMAIN entries}
<1>3. entries \in Seq(Seq(Characters))
  BY <1>1, SetupsAssumption
<1>4. setup.relay = ParseAllowlist(entries)
  BY <1>1, <1>2
<1>5. setup.relay.all = FALSE
  BY <1>4 DEF ParseAllowlist
<1>6. PICK p \in setup.relay.patterns : matches(p, destination.host)
  BY <1>5 DEF Permits
<1>7. p \in parsed /\ p.kind # "invalid"
  BY <1>4, <1>6 DEF ParseAllowlist
<1>8. PICK i \in DOMAIN entries : p = ParseHostPattern(entries[i])
  BY <1>7
<1>9. entries[i] \in Seq(Characters) /\ entries[i] \in ToSet(entries)
  BY <1>3, <1>8 DEF ToSet
<1> QED
  BY <1>6, <1>7, <1>8, <1>9, PatternCovers

LEMMA PublicAddress ==
  ASSUME NEW a \in [valid : BOOLEAN, zone : BOOLEAN, mapped : BOOLEAN, traits : SUBSET Traits],
         ClassifyAddress(a) = "public"
  PROVE  a \in PublicAddresses
<1>1. \A trait : Has(Unmap(a), trait) <=> trait \in a.traits
  BY DEF Has, Unmap
<1>2. a.valid /\ ~a.zone
  BY a.valid \in BOOLEAN, a.zone \in BOOLEAN DEF ClassifyAddress
<1>3. /\ ~Has(Unmap(a), "unspecified") /\ ~Has(Unmap(a), "loopback") /\ ~Has(Unmap(a), "private")
      /\ ~Has(Unmap(a), "link-local") /\ ~Has(Unmap(a), "multicast") /\ Has(Unmap(a), "global")
      /\ ~Has(Unmap(a), "reserved")
  BY <1>2 DEF ClassifyAddress
<1>4. a.traits = {"global"}
  BY <1>1, <1>3 DEF Traits
<1> QED
  BY <1>2, <1>4 DEF PublicAddresses

\* A list that passes CheckAddresses has only public addresses.
LEMMA ResolvedAddresses ==
  ASSUME NEW lookup \in Lookups, NEW list, NEW destination, Resolve(list, destination, lookup) = "none"
  PROVE  Permits(list, destination) = "none" /\ lookup.addresses \in Seq(PublicAddresses)
<1> DEFINE AnyAddress == [valid : BOOLEAN, zone : BOOLEAN, mapped : BOOLEAN, traits : SUBSET Traits]
           addrs == lookup.addresses
<1>1. Permits(list, destination) = "none"
  BY DEF Resolve
<1>2. CheckAddresses(addrs) = "none"
  BY <1>1 DEF Resolve
<1>3. addrs \in Seq(AnyAddress)
  BY LookupsAssumption
<1>4. \A i \in DOMAIN addrs : ClassifyAddress(addrs[i]) = "public"
  BY <1>2 DEF CheckAddresses, NonPublic
<1>5. \A i \in 1..Len(addrs) : addrs[i] \in PublicAddresses
  <2>1. TAKE i \in 1..Len(addrs)
  <2>2. ClassifyAddress(addrs[i]) = "public"
    <3> HIDE DEF addrs, AnyAddress
    <3> QED
      BY <1>3, <1>4
  <2>3. addrs[i] \in AnyAddress
    <3> HIDE DEF addrs, AnyAddress
    <3> QED
      BY <1>3
  <2> QED
    BY <2>2, <2>3, PublicAddress
<1> HIDE DEF addrs, AnyAddress
<1>6. addrs \in Seq(PublicAddresses)
  BY <1>3, <1>5
<1> QED
  BY <1>1, <1>6 DEF addrs

LEMMA SentStart == Init => SentInv
  BY DEF Init, SentInv

\* The OPEN the relay reads is the client's, with its destination built again.
LEMMA OpenIsHeard ==
  ASSUME WireInv, SReady("open"), Heard.error = "none", Heard.message.type = "OPEN"
  PROVE  Again.deny = "none" /\ Heard.message.destination = Again.destination
<1>1. toServer \in Seq(Sendable)
  BY DEF WireInv, WireStream
<1>2. /\ Len(toServer) >= 2 /\ toServer[2].cell = "body"
      /\ Heard.message = Unmarshal(toServer[2].message)
  BY <1>1, HeardRead
<1>3. toServer[2] \in Sendable
  BY <1>1, <1>2
<1>4. toServer[2].message = HelloMessage \/ toServer[2].message = OpenMessage
  BY <1>2, <1>3 DEF Sendable, Cell, Prefix, Body
<1>5. HelloMessage.type = "HELLO" /\ OpenMessage.type = "OPEN" /\ OpenMessage.destination = requested
      /\ Blank.type = "garbage" /\ \A d : Open(d).destination = d
  BY DEF HelloMessage, Hello, OpenMessage, Open, Blank
<1>6. Unmarshal(HelloMessage) = HelloMessage
  BY <1>5 DEF Unmarshal
<1>7. Heard.message = Unmarshal(OpenMessage)
  BY <1>2, <1>4, <1>5, <1>6
<1>8. Unmarshal(OpenMessage) = IF Again.deny # "none" THEN Blank ELSE Open(Again.destination)
  BY <1>5 DEF Unmarshal, Again
<1> QED
  BY <1>5, <1>7, <1>8

LEMMA SentStep ==
  ASSUME SessionInv, WireInv, SentInv, [Next]_vars
  PROVE  SentInv'
<1>1. ASSUME UNCHANGED <<setup, requested, dialed, addresses>>, target' # "none" => target # "none",
             spc' = spc \/ spc' \notin {"resolve", "dial"}
      PROVE  SentInv'
  <2>1. Again' = Again
    BY <1>1 DEF Again
  <2> QED
    BY <1>1, <2>1 DEF SentInv
<1>2. setup' = setup
  BY Worsens
<1>3. CASE Opening
  <2>1. UNCHANGED serverVars
    BY <1>3, ClientSteps
  <2>2. CASE Check
    <3>1. spc = "http"
      BY <2>2 DEF Check, WireInv, WireRequest
    <3>2. target = "none"
      BY <3>1 DEF SessionInv
    <3> QED
      BY <2>1, <3>1, <3>2 DEF SentInv, serverVars
  <2>3. CASE ~Check
    <3>1. requested' = requested
      BY <1>3, <2>3 DEF Opening, Dial, UpgradeWrite, UpgradeRead, UpgradeStop, UpgradeClear, TLSHello, TLSRead,
           TLSFails, TLSClear, StartControl, SendHello, SendOpen, Send, SendFails, AwaitFails, AwaitHelloOK,
           AwaitOpenOK, Await, StopCancellation, Recheck, ClearDeadline, Unwind
    <3> QED
      BY <1>1, <1>2, <2>1, <3>1 DEF serverVars
  <2> QED
    BY <2>2, <2>3
<1>4. CASE CancelContext \/ Callbacks \/ DeadlinePasses \/ Break \/ UNCHANGED vars
  <2>1. UNCHANGED <<requested, dialed, addresses, target, spc>>
    BY <1>4 DEF CancelContext, Callbacks, CallbackStarts, CallbackSets, DeadlinePasses, Break, vars,
                clientVars, serverVars
  <2> QED
    BY <1>1, <1>2, <2>1
<1>5. CASE Serving \/ RelayEnds \/ CutOff
  <2>1. requested' = requested
    BY <1>5, ServerSteps DEF clientVars
  <2>2. Again' = Again
    BY <2>1 DEF Again
  <2>3. ASSUME NEW rest, NEW sent, NEW decision, EndSession(rest, sent, decision)
        PROVE  SentInv'
    BY <1>1, <1>2, <2>1, <2>3 DEF EndSession
  <2>4. CASE Accept \/ AcceptHello \/ AcceptFinished \/ ReadHello \/ SayHelloOK \/ SayOpenOK
    <3>1. \/ \E rest, sent, decision : EndSession(rest, sent, decision)
          \/ UNCHANGED <<dialed, addresses, target>>
               /\ spc' \in {"tlsHello", "ended", "tlsFinished", "hello", "helloOK", "open", "relay"}
      BY <2>4 DEF Accept, AcceptHello, AcceptFinished, ReadHello, SayHelloOK, SayOpenOK, Say
    <3> QED
      BY <1>1, <1>2, <2>1, <2>3, <3>1
  <2>5. CASE ReadOpen
    <3>1. SReady("open") /\ target = "none"
      BY <2>5 DEF ReadOpen, SReady, SessionInv
    <3>2. CASE Heard.error = "none" /\ Heard.message.type = "OPEN"
      <4>1. spc' = "resolve" /\ target' = "none"
            /\ dialed' = [dialed EXCEPT !.destination = Heard.message.destination]
        BY <2>5, <3>1, <3>2 DEF ReadOpen
      <4>2. dialed' = [destination |-> Again.destination, address |-> dialed.address] /\ Again.deny = "none"
        BY <3>1, <3>2, <4>1, OpenIsHeard DEF SentInv
      <4> QED
        BY <2>2, <4>1, <4>2 DEF SentInv
    <3> QED
      BY <2>3, <2>5, <3>2 DEF ReadOpen
  <2>6. CASE ResolveTarget
    <3>1. PICK lookup \in Lookups :
            LET decision == Resolve(setup.relay, dialed.destination, lookup) IN
              IF decision = "none"
                THEN spc' = "dial" /\ addresses' = lookup.addresses /\ UNCHANGED <<target, dialed>>
                ELSE \E rest, sent : EndSession(rest, sent, ErrorCodeFor(decision))
      BY <2>6 DEF ResolveTarget
    <3>2. spc = "resolve" /\ target = "none"
      BY <2>6 DEF ResolveTarget, SessionInv
    <3>3. CASE Resolve(setup.relay, dialed.destination, lookup) = "none"
      <4>1. Permits(setup.relay, dialed.destination) = "none" /\ lookup.addresses \in Seq(PublicAddresses)
        BY <3>3, ResolvedAddresses
      <4>2. spc' = "dial" /\ addresses' = lookup.addresses /\ target' = "none" /\ dialed' = dialed
        BY <3>1, <3>2, <3>3
      <4> QED
        BY <1>2, <2>2, <3>2, <4>1, <4>2 DEF SentInv
    <3> QED
      BY <2>3, <3>1, <3>3
  <2>7. CASE DialTarget
    <3>1. spc = "dial" /\ target = "none"
      BY <2>7 DEF DialTarget, SessionInv
    <3>2. CASE addresses # <<>>
      <4>1. addresses \in Seq(PublicAddresses)
        BY <3>1 DEF SentInv
      <4>2. Head(addresses) \in PublicAddresses /\ Tail(addresses) \in Seq(PublicAddresses)
        BY <3>2, <4>1
      <4>3. \/ target' = "open" /\ spc' = "openOK" /\ dialed' = [dialed EXCEPT !.address = Head(addresses)]
            \/ addresses' = Tail(addresses) /\ UNCHANGED <<spc, target, dialed>>
        BY <2>7, <3>2 DEF DialTarget
      <4> QED
        BY <1>2, <2>2, <3>1, <4>2, <4>3 DEF SentInv
    <3> QED
      BY <2>3, <2>7, <3>2 DEF DialTarget
  <2>8. CASE SessionFails \/ RelayEnds
    BY <2>3, <2>8 DEF SessionFails, RelayEnds
  <2>9. CASE CutOff
    BY <1>1, <1>2, <2>1, <2>9 DEF CutOff
  <2> QED
    BY <1>5, <2>4, <2>5, <2>6, <2>7, <2>8, <2>9 DEF Serving
<1> QED
  BY <1>3, <1>4, <1>5 DEF Next

\* handleSession dials what NewDestination makes of the name in OPEN, which
\* the client has made of the one in CONNECT: the same, although each side has
\* put it into its canonical form; and Checker.Resolve has let it through.
THEOREM AllowedDialed == Spec => []OnlyAllowedDialed
<1>1. ASSUME SessionInv, WireInv, SentInv
      PROVE  OnlyAllowedDialed
  <2>1. SUFFICES ASSUME target # "none" PROVE OnlyAllowedDialed
    BY DEF OnlyAllowedDialed
  <2> DEFINE raw  == Given.authority.host
             host == dialed.destination.host
  <2>2. /\ Again.deny = "none" /\ dialed.destination = Again.destination
        /\ Permits(setup.relay, dialed.destination) = "none" /\ dialed.address \in PublicAddresses
    BY <1>1, <2>1 DEF SentInv
  <2>3. requested # NoDestination
    <3>1. canonicalHostname(<<>>).deny = "malformed-authority"
      BY DEF canonicalHostname, WithoutDot
    <3>2. NewDestination(<<>>, 0).deny # "none"
      BY <3>1 DEF NewDestination
    <3> QED
      BY <2>2, <3>2 DEF Again, NoDestination
  <2>4. Checked.deny = "none" /\ requested = Checked.destination
    BY <1>1, <2>3 DEF WireInv, WireRequest
  <2>5. /\ requested = [host |-> ToLower(WithoutDot(raw)), port |-> AllowedPort]
        /\ Given.authority.port = AllowedPort
        /\ requested.host \in Seq(Characters) /\ WithoutDot(requested.host) = requested.host
    BY <1>1, <2>4, Requested
  <2>6. raw \in Seq(Characters)
    BY <1>1, SetupsAssumption DEF SessionInv, Given, Configured
  <2>7. /\ canonicalHostname(requested.host).deny = "none"
        /\ dialed.destination = [host |-> canonicalHostname(requested.host).name, port |-> AllowedPort]
    BY <2>2, <2>5 DEF Again, NewDestination
  <2>8. host = ToLower(requested.host) /\ host \in Seq(Characters)
    BY <2>5, <2>7, Canonical
  <2>9. WithoutDot(raw) \in Seq(Characters) /\ ToLower(WithoutDot(raw)) = WithoutDot(ToLower(raw))
    BY <2>6, Undotted
  <2>10. host = WithoutDot(ToLower(raw))
    BY <2>5, <2>8, <2>9, Lowered
  <2>11. ToLower(raw) = host \/ ToLower(raw) = Append(host, ".")
    BY <2>6, <2>10, Lowered, Undotted
  <2>12. Given.relayAll \/ \E entry \in ToSet(Given.relayList) : Covers(entry, host)
    BY <1>1, <2>2, <2>8, ListCovers
  <2>13. dialed.address.valid /\ ~dialed.address.zone /\ dialed.address.traits = {"global"}
    BY <2>2 DEF PublicAddresses
  <2> QED
    BY <2>5, <2>7, <2>11, <2>12, <2>13 DEF OnlyAllowedDialed, AllowedPort
<1> QED
  BY <1>1, SessionStart, SessionStep, WireStart, WireStep, SentStart, SentStep, PTL DEF Spec

-----------------------------------------------------------------------------
(***************************************************************************)
(* How far the two are apart.                                              *)
(***************************************************************************)

LEMMA Counted ==
  /\ \A at \in Early : Sent(at) \in 0..5 /\ (Sent(at) = 5 <=> at = "helloAwait")
  /\ Sent("upgradeWrite") = 0 /\ Sent("upgradeRead") = 1 /\ Sent("upgradeStop") = 1 /\ Sent("upgradeClear") = 1
  /\ Sent("tlsHello") = 1 /\ Sent("tlsRead") = 2 /\ Sent("tlsClear") = 3 /\ Sent("control") = 3
  /\ Sent("helloLength") = 3 /\ Sent("helloBody") = 4 /\ Sent("helloAwait") = 5
  /\ Taken("http") = 0 /\ Taken("tlsHello") = 1 /\ Taken("tlsFinished") = 2 /\ Taken("hello") = 3
  /\ Taken("helloOK") = 5 /\ Taken("open") = 5
BY DEF Sent, Taken, Early

LEMMA Scripted ==
  /\ Script[1] = Cell("GET") /\ Script[2] = Cell("ClientHello") /\ Script[3] = Cell("Finished")
  /\ Script[4] = Prefix(BodySize(HelloMessage)) /\ Script[5] = Body(HelloMessage)
BY DEF Script, UpgradeRequest

\* A reset and what the client takes leave the alert in front of the end.
LEMMA AlertStays ==
  ASSUME NEW S, NEW s \in Seq(S), FinAfterAlert(s)
  PROVE  /\ \A t \in Resets(s) : FinAfterAlert(t)
         /\ s # <<>> /\ s[1].cell # "alert" => FinAfterAlert(Tail(s)) /\ Tail(s) \in Seq(S)
<1>1. Cell("rst").cell = "rst"
  BY DEF Cell
<1>2. \A i \in 1..Len(s) : s[i].cell = "fin" => i > 1 /\ s[i - 1].cell = "alert"
  <2>1. DOMAIN s = 1..Len(s)
    OBVIOUS
  <2> QED
    BY <2>1, FinAfterAlert(s), Zenon DEF FinAfterAlert
<1>3. FinAfterAlert(<<Cell("rst")>>)
  BY <1>1 DEF FinAfterAlert
<1>4. FinAfterAlert(Append(s, Cell("rst")))
  <2> DEFINE t == Append(s, Cell("rst"))
  <2>1. Len(t) = Len(s) + 1 /\ DOMAIN t = 1..(Len(s) + 1) /\ t[Len(s) + 1] = Cell("rst")
        /\ \A i \in 1..Len(s) : t[i] = s[i]
    OBVIOUS
  <2> SUFFICES FinAfterAlert(t)
    OBVIOUS
  <2> HIDE DEF t
  <2>2. SUFFICES ASSUME NEW i \in 1..(Len(s) + 1), t[i].cell = "fin"
                 PROVE  i > 1 /\ t[i - 1].cell = "alert"
    BY <2>1 DEF FinAfterAlert
  <2>3. i \in 1..Len(s)
    BY <1>1, <2>1, <2>2
  <2>4. i > 1 /\ s[i - 1].cell = "alert"
    BY <1>2, <2>1, <2>2, <2>3
  <2>5. i - 1 \in 1..Len(s)
    BY <2>3, <2>4
  <2> QED
    BY <2>1, <2>4, <2>5
<1>5. \A t \in Resets(s) : FinAfterAlert(t)
  BY <1>3, <1>4 DEF Resets, Ending
<1>6. ASSUME s # <<>>, s[1].cell # "alert"
      PROVE  FinAfterAlert(Tail(s)) /\ Tail(s) \in Seq(S)
  <2> DEFINE t == Tail(s)
  <2>1. t \in Seq(S) /\ Len(t) + 1 = Len(s) /\ \A i \in 1..Len(t) : t[i] = s[i + 1] /\ i + 1 \in 1..Len(s)
    BY <1>6
  <2> SUFFICES FinAfterAlert(t)
    BY <2>1
  <2> HIDE DEF t
  <2>2. SUFFICES ASSUME NEW i \in 1..Len(t), t[i].cell = "fin"
                 PROVE  i > 1 /\ t[i - 1].cell = "alert"
    BY <2>1 DEF FinAfterAlert
  <2>3. s[i].cell = "alert"
    <3>1. i + 1 \in 1..Len(s) /\ s[i + 1].cell = "fin" /\ (i + 1) - 1 = i
      BY <2>1, <2>2
    <3> QED
      BY <1>2, <3>1
  <2>4. i > 1
    BY <1>6, <2>3
  <2>5. t[i - 1] = s[i]
    BY <2>1, <2>4
  <2> QED
    BY <2>3, <2>4, <2>5
<1> QED
  BY <1>5, <1>6

LEMMA StepStart == Init => StepInv
<1>1. Init => pc = "check" /\ result = "none"
  BY DEF Init
<1> QED
  BY <1>1 DEF StepInv, Live, Early

\* A step of the client that keeps the two in step.
LEMMA InStepKept ==
  ASSUME InStep, pc \in Early, pc # "helloAwait", UNCHANGED <<spc, answer, serverClosed, setup>>,
         Sent(pc) <= Sent(pc'), pc' \in Early,
         spc # "ended" /\ ~serverClosed =>
           /\ Len(toServer') = Sent(pc') - Taken(spc)
           /\ \A i \in DOMAIN toServer' : toServer'[i] = Script[Taken(spc) + i],
         answer = "cert" => FinAfterAlert(toClient'),
         pc' \notin {"upgradeWrite", "upgradeRead"} => spc # "http" /\ answer # "http"
  PROVE  InStep'
<1>1. Script' = Script /\ TooLarge' = TooLarge
  BY DEF Script, TooLarge, HelloMessage, Given
<1>2. Sent(pc) \in 0..5 /\ Sent(pc') \in 0..5
  BY Counted
<1>3. answer # "token" /\ (answer = "hello" => TooLarge)
  BY DEF InStep
<1>4. spc # "ended" => Taken(spc) <= Sent(pc) /\ Taken(spc) \in 0..5
  BY Counted DEF InStep
<1>5. spc # "ended" => Taken(spc) <= Sent(pc')
  BY <1>2, <1>4
<1>6. Sent(pc)' = Sent(pc') /\ Taken(spc)' = Taken(spc)
  BY DEF Sent, Taken
<1>7. FinAfterAlert(toClient)' <=> FinAfterAlert(toClient')
  BY DEF FinAfterAlert
<1> QED
  BY <1>1, <1>3, <1>5, <1>6, <1>7 DEF InStep

\* What the client writes is what comes next in Script.
LEMMA NextWritten ==
  ASSUME InStep, pc \in Early, NEW S, toServer \in Seq(S), NEW cell, cell = Script[Sent(pc) + 1],
         spc # "ended", ~serverClosed, toServer' = Append(toServer, cell), Sent(pc') = Sent(pc) + 1
  PROVE  /\ Len(toServer') = Sent(pc') - Taken(spc)
         /\ \A i \in DOMAIN toServer' : toServer'[i] = Script[Taken(spc) + i]
<1>1. /\ Sent(pc) \in Nat /\ Taken(spc) \in Nat
      /\ Len(toServer) = Sent(pc) - Taken(spc)
      /\ \A i \in 1..Len(toServer) : toServer[i] = Script[Taken(spc) + i]
  BY Counted DEF InStep
<1>2. /\ Len(toServer') = Len(toServer) + 1 /\ DOMAIN toServer' = 1..(Len(toServer) + 1)
      /\ \A i \in 1..Len(toServer) : toServer'[i] = toServer[i]
      /\ toServer'[Len(toServer) + 1] = cell
  OBVIOUS
<1>3. Taken(spc) + (Len(toServer) + 1) = Sent(pc) + 1
  BY <1>1
<1>4. \A i \in 1..(Len(toServer) + 1) : i \in 1..Len(toServer) \/ i = Len(toServer) + 1
  OBVIOUS
<1> QED
  BY <1>1, <1>2, <1>3, <1>4

LEMMA UndecidedStays ==
  ASSUME StepInv, Opening
  PROVE  pc' \in Undecided => result' = "none"
<1>1. pc \in Undecided => result = "none"
  BY DEF StepInv
<1> USE DEF Goto, Undecided
<1>2. CASE Check \/ Dial \/ UpgradeWrite \/ UpgradeRead \/ UpgradeStop \/ UpgradeClear
  BY <1>1, <1>2 DEF Check, Dial, UpgradeWrite, UpgradeRead, UpgradeStop, UpgradeClear
<1>3. CASE TLSHello \/ TLSRead \/ TLSFails \/ TLSClear \/ StartControl
  BY <1>1, <1>3 DEF TLSHello, TLSRead, TLSFails, TLSClear, StartControl
<1>4. CASE SendHello \/ SendOpen
  <2>1. pc \in Undecided /\ result' = result
    BY <1>4 DEF SendHello, SendOpen, Send
  <2> QED
    BY <1>1, <2>1
<1>5. CASE AwaitHelloOK \/ AwaitOpenOK
  <2>1. pc \in Undecided /\ (pc' = "unwind" \/ result' = result)
    BY <1>5 DEF AwaitHelloOK, AwaitOpenOK, Await
  <2> QED
    BY <1>1, <2>1
<1>6. CASE SendFails \/ AwaitFails \/ StopCancellation \/ Recheck \/ ClearDeadline \/ Unwind
  BY <1>1, <1>6 DEF SendFails, AwaitFails, StopCancellation, Recheck, ClearDeadline, Unwind
<1> QED
  BY <1>2, <1>3, <1>4, <1>5, <1>6 DEF Opening

LEMMA InStepByOpen ==
  ASSUME SessionInv, WireInv, SaidInv, StepInv, Opening, Live'
  PROVE  InStep'
<1>1. /\ UNCHANGED <<spc, answer, serverClosed, setup>> /\ ~broken
      /\ pc' \in Early /\ result' = "none"
  BY ClientSteps DEF Live, serverVars, world
<1>2. toServer \in Seq(Sendable) /\ toClient \in Seq(Sayable)
  BY DEF WireInv, WireStream, SaidInv
<1>3. pc \in Early /\ result = "none" => InStep
  BY <1>1 DEF StepInv, Live
<1>4. pc \in Early /\ pc \notin {"upgradeStop", "upgradeClear"} => result = "none"
  BY DEF StepInv, Early, Undecided
<1> DEFINE Upgraded == pc' \notin {"upgradeWrite", "upgradeRead"} => spc # "http" /\ answer # "http"
<1>5. ASSUME pc \in Early, pc # "helloAwait", result = "none", Sent(pc') = Sent(pc), UNCHANGED toServer,
             answer = "cert" => FinAfterAlert(toClient'), Upgraded
      PROVE  InStep'
  <2>1. InStep
    BY <1>3, <1>5
  <2>2. Sent(pc) <= Sent(pc')
    BY <1>5, Counted
  <2>3. spc # "ended" /\ ~serverClosed =>
           /\ Len(toServer') = Sent(pc') - Taken(spc)
           /\ \A i \in DOMAIN toServer' : toServer'[i] = Script[Taken(spc) + i]
    BY <1>5, <2>1 DEF InStep
  <2> QED
    BY <1>1, <1>5, <2>1, <2>2, <2>3, InStepKept
<1>6. ASSUME pc \in Early, pc # "helloAwait", result = "none", NEW cell, cell = Script[Sent(pc) + 1],
             Sent(pc') = Sent(pc) + 1, ClientWrites(cell), Upgraded
      PROVE  InStep'
  <2>1. InStep
    BY <1>3, <1>6
  <2>2. Sent(pc) <= Sent(pc')
    BY <1>6, Counted
  <2>3. spc # "ended" /\ ~serverClosed =>
           /\ Len(toServer') = Sent(pc') - Taken(spc)
           /\ \A i \in DOMAIN toServer' : toServer'[i] = Script[Taken(spc) + i]
    <3>1. SUFFICES ASSUME spc # "ended", ~serverClosed
                   PROVE  /\ Len(toServer') = Sent(pc') - Taken(spc)
                          /\ \A i \in DOMAIN toServer' : toServer'[i] = Script[Taken(spc) + i]
      OBVIOUS
    <3>2. toServer' = Append(toServer, cell)
      BY <1>1, <1>6, <3>1 DEF ClientWrites
    <3> QED
      BY <1>2, <1>6, <2>1, <3>1, <3>2, NextWritten, Zenon
  <2>4. answer = "cert" => FinAfterAlert(toClient')
    <3>1. answer = "cert" => FinAfterAlert(toClient)
      BY <2>1 DEF InStep
    <3>2. toClient' = toClient \/ toClient' \in Resets(toClient)
      BY <1>1, <1>6 DEF ClientWrites
    <3> QED
      BY <1>2, <3>1, <3>2, AlertStays
  <2> QED
    BY <1>1, <1>6, <2>1, <2>2, <2>3, <2>4, InStepKept
<1>7. CASE Dial
  <2>1. pc = "dial" /\ pc' = "upgradeWrite" /\ UNCHANGED toServer
    BY <1>1, <1>7 DEF Dial, Goto, Early, wires
  <2>2. toServer = <<>> /\ spc = "http"
    BY <2>1 DEF WireInv, WireRequest
  <2>3. answer = "none"
    BY <2>2 DEF SessionInv
  <2>4. Sent(pc)' = 0 /\ Taken(spc)' = 0
    BY <1>1, <2>1, <2>2, Counted DEF Sent, Taken
  <2>5. toServer' = <<>> /\ spc' = "http" /\ answer' = "none" /\ pc' = "upgradeWrite"
    BY <1>1, <2>1, <2>2, <2>3
  <2> QED
    BY <2>4, <2>5 DEF InStep
<1> USE DEF Goto
<1>8. CASE UpgradeWrite
  <2>1. pc = "upgradeWrite" /\ pc' = "upgradeRead" /\ ClientWrites(Cell("GET"))
    BY <1>1, <1>8 DEF UpgradeWrite, UpgradeRequest
  <2> QED
    BY <1>4, <1>6, <2>1, Counted, Scripted DEF Early
<1>9. CASE UpgradeRead
  <2>1. pc = "upgradeRead" /\ pc' = "upgradeStop"
    BY <1>9 DEF UpgradeRead
  <2>2. toClient # <<>> /\ toClient' = Tail(toClient) /\ UNCHANGED toServer /\ Head(toClient).cell = "101"
    BY <1>1, <1>9 DEF UpgradeRead, AfterResponse, validateUpgrade
  <2>3. toClient[1] \in Sayable /\ toClient[1].cell = "101"
    BY <1>2, <2>2
  <2>4. spc # "http" /\ answer # "http"
    BY <2>3 DEF Sayable, Cell, Prefix, Body
  <2>5. pc \in Early /\ result = "none"
    BY <1>4, <2>1 DEF Early
  <2>6. answer = "cert" => FinAfterAlert(toClient)
    BY <1>3, <2>5 DEF InStep
  <2>7. answer = "cert" => FinAfterAlert(toClient')
    BY <1>2, <2>2, <2>3, <2>6, AlertStays
  <2> QED
    BY <1>5, <2>1, <2>2, <2>4, <2>5, <2>7, Counted
<1>10. CASE UpgradeStop \/ UpgradeClear \/ TLSClear \/ StartControl
  <2>1. /\ \/ pc = "upgradeStop" /\ pc' = "upgradeClear"
           \/ pc = "upgradeClear" /\ pc' = "tlsHello"
           \/ pc = "tlsClear" /\ pc' = "control"
           \/ pc = "control" /\ pc' = "helloLength"
        /\ UNCHANGED <<toServer, toClient, result>>
    BY <1>1, <1>10 DEF UpgradeStop, UpgradeClear, TLSClear, StartControl, wires, Early
  <2>2. pc \in Early /\ result = "none" /\ Sent(pc') = Sent(pc)
    BY <1>1, <2>1, Counted DEF Early
  <2>3. InStep
    BY <1>3, <2>2
  <2>4. Upgraded /\ (answer = "cert" => FinAfterAlert(toClient'))
    BY <2>1, <2>3 DEF InStep
  <2> QED
    BY <1>5, <2>1, <2>2, <2>4
<1>11. CASE TLSHello \/ SendHello
  <2>1. \/ pc = "tlsHello" /\ pc' = "tlsRead" /\ ClientWrites(Cell("ClientHello"))
        \/ pc = "helloLength" /\ pc' = "helloBody" /\ ClientWrites(Encode(HelloMessage, clientMax)[1])
        \/ pc = "helloBody" /\ pc' = "helloAwait" /\ ClientWrites(Encode(HelloMessage, clientMax)[2])
    BY <1>11 DEF TLSHello, SendHello, Send
  <2>2. /\ Encode(HelloMessage, clientMax)[1] = Prefix(BodySize(HelloMessage))
        /\ Encode(HelloMessage, clientMax)[2] = Body(HelloMessage)
    BY MessagesFit
  <2>3. pc \in Early /\ pc # "helloAwait" /\ pc \notin {"upgradeWrite", "upgradeRead", "upgradeStop", "upgradeClear"}
    BY <2>1 DEF Early
  <2>4. result = "none" /\ InStep
    BY <1>3, <1>4, <2>3
  <2>5. Upgraded
    BY <2>3, <2>4 DEF InStep
  <2>6. Sent(pc') = Sent(pc) + 1 /\ ClientWrites(Script[Sent(pc) + 1])
    <3>1. CASE pc = "tlsHello"
      BY <2>1, <3>1, Counted, Scripted
    <3>2. CASE pc = "helloLength"
      BY <2>1, <2>2, <3>2, Counted, Scripted
    <3>3. CASE pc = "helloBody"
      BY <2>1, <2>2, <3>3, Counted, Scripted
    <3> QED
      BY <2>1, <3>1, <3>2, <3>3
  <2> QED
    BY <1>6, <2>3, <2>4, <2>5, <2>6
<1>12. CASE TLSRead
  <2>1. pc = "tlsRead" /\ pc' = "tlsClear" /\ toClient # <<>> /\ Head(toClient).cell = "ServerHello"
    BY <1>12 DEF TLSRead
  <2>2. pc \in Early /\ result = "none" /\ InStep
    BY <1>3, <1>4, <2>1 DEF Early
  <2>3. Upgraded
    BY <2>1, <2>2 DEF InStep
  <2>4. answer = "cert" => FinAfterAlert(Tail(toClient))
    BY <1>2, <2>1, <2>2, AlertStays DEF InStep
  <2>5. Tail(toClient) \in Seq(Sayable)
    BY <1>2, <2>1
  <2>6. toClient' = Tail(toClient) \/ toClient' \in Resets(Tail(toClient))
    BY <1>12 DEF TLSRead
  <2>7. answer = "cert" => FinAfterAlert(toClient')
    BY <2>4, <2>5, <2>6, AlertStays
  <2>8. Sent(pc') = Sent(pc) + 1 /\ Sent(pc) <= Sent(pc') /\ pc # "helloAwait"
    BY <2>1, Counted
  <2>9. spc # "ended" /\ ~serverClosed =>
           /\ Len(toServer') = Sent(pc') - Taken(spc)
           /\ \A i \in DOMAIN toServer' : toServer'[i] = Script[Taken(spc) + i]
    <3>1. SUFFICES ASSUME spc # "ended", ~serverClosed
                   PROVE  /\ Len(toServer') = Sent(pc') - Taken(spc)
                          /\ \A i \in DOMAIN toServer' : toServer'[i] = Script[Taken(spc) + i]
      OBVIOUS
    <3>2. toServer' = Append(toServer, Cell("Finished"))
      BY <1>1, <1>12, <3>1 DEF TLSRead
    <3>3. Cell("Finished") = Script[Sent(pc) + 1]
      BY <2>1, Counted, Scripted
    <3> QED
      BY <1>2, <2>2, <2>8, <3>1, <3>2, <3>3, NextWritten, Zenon
  <2> QED
    BY <1>1, <2>2, <2>3, <2>7, <2>8, <2>9, InStepKept
<1>13. CASE Check \/ TLSFails \/ SendFails \/ AwaitFails \/ Unwind
  BY <1>1, <1>13 DEF Check, TLSFails, SendFails, AwaitFails, Unwind, Early
<1>14. CASE SendOpen \/ AwaitHelloOK \/ AwaitOpenOK \/ StopCancellation \/ Recheck \/ ClearDeadline
  <2>1. pc' \in {"openBody", "openAwait", "openLength", "stop", "unwind", "recheck", "clear", "opened"}
    BY <1>14 DEF SendOpen, Send, AwaitHelloOK, AwaitOpenOK, Await, StopCancellation, Recheck, ClearDeadline
  <2> QED
    BY <1>1, <2>1 DEF Early
<1> QED
  BY <1>7, <1>8, <1>9, <1>10, <1>11, <1>12, <1>13, <1>14 DEF Opening

\* Behind an alert, the end of the stream follows it.
LEMMA AlertIsLast ==
  ASSUME toClient \in Seq(Sayable), ~serverClosed, ~broken,
         NEW t \in Resets(toClient \o <<Cell("alert")>>) \cup {Ending(toClient \o <<Cell("alert")>>, "fin")}
  PROVE  FinAfterAlert(t)
<1>1. \A i \in 1..Len(toClient) : toClient[i].cell \notin Ends
  <2>1. \A cell \in Sayable : cell.cell \notin Ends
    BY DEF Sayable, Ends, Cell, Prefix, Body
  <2> QED
    BY <2>1
<1> DEFINE s == Append(toClient, Cell("alert"))
           n == Len(toClient)
<1>2. toClient \o <<Cell("alert")>> = s
  <2>1. Cell("alert") \in {Cell("alert")}
    OBVIOUS
  <2> QED
    OBVIOUS
<1>3. /\ s \in Seq(Sayable \cup {Cell("alert")}) /\ n \in Nat /\ Len(s) = n + 1 /\ s[n + 1] = Cell("alert")
      /\ \A i \in 1..n : s[i] = toClient[i]
  OBVIOUS
<1>4. Cell("alert").cell = "alert" /\ Cell("fin").cell = "fin" /\ Cell("rst").cell = "rst"
  BY DEF Cell
<1> HIDE DEF s, n
<1>5. DOMAIN s = 1..(n + 1)
  BY <1>3
<1>6. \A i \in 1..(n + 1) : s[i].cell \notin Ends
  BY <1>1, <1>3, <1>4 DEF Ends, n
<1>7. s # <<>> /\ ~Ended(s)
  BY <1>3, <1>4 DEF Ended, Last, Ends
<1>8. FinAfterAlert(s)
  BY <1>5, <1>6 DEF FinAfterAlert, Ends
<1>9. FinAfterAlert(Append(s, Cell("fin")))
  <2> DEFINE u == Append(s, Cell("fin"))
  <2>1. /\ DOMAIN u = 1..(n + 2) /\ u[n + 2] = Cell("fin")
        /\ \A i \in 1..(n + 1) : u[i] = s[i]
    BY <1>3
  <2> SUFFICES FinAfterAlert(u)
    OBVIOUS
  <2> HIDE DEF u
  <2>2. SUFFICES ASSUME NEW i \in 1..(n + 2), u[i].cell = "fin"
                 PROVE  i > 1 /\ u[i - 1].cell = "alert"
    BY <2>1 DEF FinAfterAlert
  <2>3. i = n + 2
    BY <1>3, <1>6, <2>1, <2>2 DEF Ends
  <2>4. i > 1 /\ i - 1 = n + 1 /\ i - 1 \in 1..(n + 1)
    BY <1>3, <2>3
  <2> QED
    BY <1>3, <1>4, <2>1, <2>4
<1>10. CASE t \in Resets(s)
  BY <1>3, <1>8, <1>10, AlertStays
<1>11. CASE t = Ending(s, "fin")
  BY <1>7, <1>9, <1>11 DEF Ending
<1> QED
  BY <1>2, <1>10, <1>11

LEMMA InStepByRelay ==
  ASSUME SessionInv, WireInv, SaidInv, StepInv, Serving \/ RelayEnds \/ CutOff, Live'
  PROVE  InStep'
<1>1. UNCHANGED <<pc, result, clientClosed, setup, broken>>
  BY ServerSteps DEF clientVars, world
<1>2. Live /\ InStep /\ pc \in Early /\ ~broken
  BY <1>1 DEF Live, StepInv
<1>3. clientClosed = FALSE
  BY <1>2 DEF SessionInv, Early
<1>4. Script' = Script /\ TooLarge' = TooLarge /\ Sent(pc)' = Sent(pc) /\ Sent(pc) \in 0..5
  BY <1>1, <1>2, Counted DEF Script, TooLarge, HelloMessage, Given, Sent
<1>5. toServer \in Seq(Sendable) /\ toClient \in Seq(Sayable)
  BY DEF WireInv, WireStream, SaidInv
<1>6. spc # "ended" /\ ~serverClosed => answer = "none"
  BY DEF SessionInv
<1>7. ASSUME spc # "ended", NEW rest, NEW sent, NEW decision, EndSession(rest, sent, decision),
             decision \in {"lost", "cert", "hello", "token"},
             decision = "hello" => pc = "helloAwait" \/ TooLarge,
             decision = "token" => pc = "helloAwait",
             decision = "cert" /\ ~serverClosed => FinAfterAlert(toClient')
      PROVE  InStep'
  <2>1. spc' = "ended" /\ answer' = IF answer = "none" THEN decision ELSE answer
    BY <1>7 DEF EndSession
  <2>2. answer' = "cert" => FinAfterAlert(toClient')
    <3>1. CASE serverClosed
      <4>1. answer # "none" /\ toClient' = toClient
        BY <1>7, <3>1 DEF SessionInv, EndSession
      <4> QED
        BY <1>2, <2>1, <4>1 DEF InStep
    <3>2. CASE ~serverClosed
      BY <1>6, <1>7, <2>1, <3>2
    <3> QED
      BY <3>1, <3>2
  <2>3. /\ answer' \in {"none", "lost", "http", "cert", "hello", "token"}
        /\ answer' = "hello" => pc = "helloAwait" \/ TooLarge
        /\ answer' = "token" => pc = "helloAwait"
        /\ pc \notin {"upgradeWrite", "upgradeRead"} => answer' # "http"
    BY <1>2, <1>7, <2>1 DEF InStep
  <2>4. FinAfterAlert(toClient)' <=> FinAfterAlert(toClient')
    BY DEF FinAfterAlert
  <2> QED
    BY <1>1, <1>4, <2>1, <2>2, <2>3, <2>4 DEF InStep
<1>8. ASSUME spc # "ended", ~serverClosed, spc' \in {"tlsHello", "tlsFinished", "hello", "helloOK", "open"},
             UNCHANGED <<answer, serverClosed>>, NEW k \in 0..Len(toServer), toServer' = Behind(toServer, k),
             Taken(spc') = Taken(spc) + k
      PROVE  InStep'
  <2>1. answer' = "none"
    BY <1>6, <1>8
  <2>2. /\ Taken(spc) \in 0..5 /\ Taken(spc) <= Sent(pc) /\ Len(toServer) = Sent(pc) - Taken(spc)
        /\ \A i \in 1..Len(toServer) : toServer[i] = Script[Taken(spc) + i]
    BY <1>2, <1>5, <1>8, Counted DEF InStep
  <2>3. /\ toServer' \in Seq(Sendable) /\ Len(toServer') = Len(toServer) - k
        /\ \A i \in 1..Len(toServer') : toServer'[i] = toServer[i + k] /\ i + k \in 1..Len(toServer)
    BY <1>5, <1>8, BehindIndexed
  <2>4. Taken(spc') <= Sent(pc) /\ Len(toServer') = Sent(pc) - Taken(spc')
    BY <1>4, <1>8, <2>2, <2>3
  <2>5. \A i \in 1..Len(toServer') : toServer'[i] = Script[Taken(spc') + i]
    <3>1. TAKE i \in 1..Len(toServer')
    <3>2. toServer'[i] = Script[Taken(spc) + (i + k)]
      BY <2>2, <2>3
    <3>3. Taken(spc) + (i + k) = Taken(spc') + i
      BY <1>8, <2>2
    <3> QED
      BY <3>2, <3>3
  <2>6. DOMAIN toServer' = 1..Len(toServer')
    BY <2>3
  <2>7. Taken(spc)' = Taken(spc')
    BY DEF Taken
  <2> QED
    BY <1>1, <1>4, <1>8, <2>1, <2>4, <2>5, <2>6, <2>7 DEF InStep
<1>9. toServer # <<>> => 1 \in 0..Len(toServer) /\ Tail(toServer) = Behind(toServer, 1)
  BY <1>5 DEF Behind
<1>10. CASE Accept
  <2>1. spc = "http" /\ ~serverClosed /\ toServer # <<>> /\ answer = "none"
    BY <1>6, <1>10 DEF Accept, SessionInv
  <2>2. CASE EndSession(<<>>, <<>>, "lost")
    BY <1>7, <2>1, <2>2
  <2>3. CASE spc' = "ended" /\ answer' = "http"
    <3>1. pc \in {"upgradeWrite", "upgradeRead"}
      BY <1>2, <2>1 DEF InStep
    <3> QED
      BY <1>1, <2>3, <3>1 DEF InStep
  <2>4. CASE spc' = "tlsHello" /\ UNCHANGED <<answer, serverClosed>> /\ toServer' = Tail(toServer)
    <3>1. Taken(spc') = Taken(spc) + 1
      BY <2>1, <2>4, Counted
    <3> QED
      BY <1>8, <1>9, <2>1, <2>4, <3>1
  <2> QED
    BY <1>10, <2>2, <2>3, <2>4 DEF Accept
<1>11. CASE AcceptHello
  <2>1. /\ spc = "tlsHello" /\ ~serverClosed /\ toServer # <<>> /\ spc' = "tlsFinished"
        /\ UNCHANGED <<answer, serverClosed>> /\ toServer' = Tail(toServer)
    BY <1>11 DEF AcceptHello, SInput, ServerReadFails
  <2>2. Taken(spc') = Taken(spc) + 1
    BY <2>1, Counted
  <2> QED
    BY <1>8, <1>9, <2>1, <2>2
<1>12. CASE AcceptFinished
  <2>1. spc = "tlsFinished" /\ ~serverClosed /\ toServer # <<>>
    BY <1>12 DEF AcceptFinished, SInput, ServerReadFails
  <2>2. CASE Given.certificate = "refused"
    <3>1. EndSession(Tail(toServer), <<Cell("alert")>>, "cert")
      BY <1>12, <2>2 DEF AcceptFinished
    <3>2. Written(toClient, <<Cell("alert")>>) = toClient \o <<Cell("alert")>>
      BY <1>2, <1>3 DEF Written
    <3>3. toClient' \in Resets(toClient \o <<Cell("alert")>>) \cup {Ending(toClient \o <<Cell("alert")>>, "fin")}
      BY <1>2, <1>3, <2>1, <3>1, <3>2 DEF EndSession, AfterServerClose
    <3>4. FinAfterAlert(toClient')
      BY <1>2, <1>5, <2>1, <3>3, AlertIsLast
    <3> QED
      BY <1>7, <2>1, <3>1, <3>4
  <2>3. CASE Given.certificate # "refused"
    <3>1. spc' = "hello" /\ UNCHANGED <<answer, serverClosed>> /\ toServer' = Tail(toServer)
      BY <1>12, <2>3 DEF AcceptFinished
    <3>2. Taken(spc') = Taken(spc) + 1
      BY <2>1, <3>1, Counted
    <3> QED
      BY <1>8, <1>9, <2>1, <3>1, <3>2
  <2> QED
    BY <2>2, <2>3
<1>13. CASE ReadHello
  <2>1. SReady("hello") /\ spc = "hello" /\ ~serverClosed /\ FrameReady(toServer, Given.relayMax)
    BY <1>13 DEF ReadHello, SReady, ServerReadFails
  <2>2. /\ Len(toServer) = Sent(pc) - 3 /\ \A i \in 1..Len(toServer) : toServer[i] = Script[3 + i]
        /\ Len(toServer) \in Nat
    BY <1>2, <1>5, <2>1, Counted DEF InStep
  <2>3. Len(toServer) >= 2 => Len(toServer) = 2 /\ pc = "helloAwait"
    BY <1>2, <1>4, <2>2, Counted
  <2>4. pc = "helloAwait" \/ TooLarge
    <3>1. CASE Len(toServer) >= 2
      BY <2>3, <3>1
    <3>2. CASE Len(toServer) = 1 /\ (toServer[1].cell # "length" \/ toServer[1].size > Given.relayMax)
      <4>1. toServer[1] = Script[3 + 1] /\ 3 + 1 = 4
        BY <2>2, <3>2
      <4>2. toServer[1] = Prefix(BodySize(HelloMessage))
        BY <4>1, Scripted, Zenon
      <4> QED
        BY <3>2, <4>2 DEF Prefix, TooLarge
    <3> QED
      BY <2>1, <3>1, <3>2 DEF FrameReady
  <2>5. Heard.error = "none" => Len(toServer) >= 2 /\ Heard.read = 2
    BY <1>5, <2>1, HeardRead
  <2>6. CASE Heard.error = "none" /\ spc' = "helloOK" /\ UNCHANGED <<answer, serverClosed>> /\ toServer' = Unheard
    <3>1. toServer' = Behind(toServer, 2) /\ 2 \in 0..Len(toServer)
      BY <2>3, <2>5, <2>6 DEF Unheard, Behind
    <3>2. Taken(spc') = Taken(spc) + 2
      BY <2>1, <2>6, Counted
    <3> QED
      BY <1>8, <2>1, <2>6, <3>1, <3>2
  <2>7. CASE Heard.error = "none" /\ EndSession(Unheard, <<>>, "token")
    BY <1>7, <2>1, <2>3, <2>5, <2>7
  <2>8. CASE EndSession(Unheard, <<>>, "hello")
    BY <1>7, <2>1, <2>4, <2>8
  <2> QED
    BY <1>13, <2>6, <2>7, <2>8 DEF ReadHello
<1>14. CASE SayHelloOK
  <2>1. spc = "helloOK"
    BY <1>14 DEF SayHelloOK, Say
  <2>2. CASE ~serverClosed /\ spc' = "open" /\ UNCHANGED <<answer, serverClosed, toServer>>
    <3>1. toServer' = Behind(toServer, 0) /\ 0 \in 0..Len(toServer)
      BY <1>5, <2>2 DEF Behind
    <3>2. Taken(spc') = Taken(spc) + 0
      BY <2>1, <2>2, Counted
    <3> QED
      BY <1>8, <2>1, <2>2, <3>1, <3>2
  <2>3. CASE \E n \in 0..1 : EndSession(toServer, SubSeq(Encode(HelloOK, Given.relayMax), 1, n), "lost")
    BY <1>7, <2>1, <2>3
  <2> QED
    BY <1>14, <2>2, <2>3 DEF SayHelloOK, Say
<1>15. CASE ReadOpen
  <2>1. spc = "open" /\ ~serverClosed /\ FrameReady(toServer, Given.relayMax)
    BY <1>15 DEF ReadOpen, SReady, ServerReadFails
  <2>2. Len(toServer) = Sent(pc) - 5 /\ Len(toServer) \in Nat
    BY <1>2, <1>5, <2>1, Counted DEF InStep
  <2> QED
    BY <1>4, <2>1, <2>2 DEF FrameReady
<1>16. CASE ResolveTarget \/ DialTarget \/ SayOpenOK \/ RelayEnds
  BY <1>2, <1>16 DEF InStep, ResolveTarget, DialTarget, SayOpenOK, Say, RelayEnds
<1>17. CASE SessionFails
  <2>1. spc # "ended" /\ \E sent : EndSession(toServer, sent, "lost")
    BY <1>17 DEF SessionFails
  <2> QED
    BY <1>7, <2>1
<1>18. CASE CutOff
  <2>1. ~serverClosed /\ spc \notin {"http", "ended"} /\ serverClosed' = TRUE /\ spc' = spc
        /\ answer' = IF answer = "none" THEN "lost" ELSE answer
    BY <1>18 DEF CutOff
  <2>2. answer' = "lost"
    BY <1>6, <2>1
  <2>3. Taken(spc)' = Taken(spc)
    BY <2>1 DEF Taken
  <2> QED
    BY <1>1, <1>2, <1>4, <2>1, <2>2, <2>3 DEF InStep
<1> QED
  BY <1>10, <1>11, <1>12, <1>13, <1>14, <1>15, <1>16, <1>17, <1>18 DEF Serving

LEMMA StepStep ==
  ASSUME SessionInv, WireInv, SaidInv, StepInv, [Next]_vars
  PROVE  StepInv'
<1>1. CASE Opening
  BY <1>1, UndecidedStays, InStepByOpen DEF StepInv
<1>2. CASE Serving \/ RelayEnds \/ CutOff
  <2>1. UNCHANGED <<pc, result>>
    BY <1>2, ServerSteps DEF clientVars
  <2> QED
    BY <1>2, <2>1, InStepByRelay DEF StepInv
<1>3. CASE Break
  BY <1>3 DEF Break, clientVars, StepInv, Live
<1>4. CASE CancelContext \/ Callbacks \/ DeadlinePasses \/ UNCHANGED vars
  <2>1. UNCHANGED <<pc, result, setup, broken, spc, answer, serverClosed, toServer, toClient>>
    BY <1>4 DEF CancelContext, Callbacks, CallbackStarts, CallbackSets, DeadlinePasses, vars, clientVars,
                serverVars, wires, world
  <2>2. Live' = Live /\ Script' = Script /\ TooLarge' = TooLarge /\ Sent(pc)' = Sent(pc) /\ Taken(spc)' = Taken(spc)
        /\ FinAfterAlert(toClient)' = FinAfterAlert(toClient)
    BY <2>1 DEF Live, Script, TooLarge, HelloMessage, Given, Sent, Taken, FinAfterAlert
  <2>3. InStep' = InStep
    BY <2>1, <2>2 DEF InStep
  <2> QED
    BY <2>1, <2>2, <2>3 DEF StepInv
<1> QED
  BY <1>1, <1>2, <1>3, <1>4 DEF Next

-----------------------------------------------------------------------------
(***************************************************************************)
(* What Open reports.                                                      *)
(***************************************************************************)

LEMMA ReportStart == Init => ReportInv
<1>1. Init => result = "none"
  BY DEF Init
<1> QED
  BY <1>1 DEF ReportInv, Denials, ErrorCodes

\* Checker.CheckAuthority gives one of four reasons.
LEMMA Reasons ==
  ASSUME SessionInv
  PROVE  Checked.deny \in Denials \cup {"none"}
<1> DEFINE raw == Given.authority
<1>1. raw.form \in {"plain", "brackets", "bare", "spaced"}
  BY SetupsAssumption DEF SessionInv, Given, Configured
<1>2. \A host : canonicalHostname(host).deny \in Denials \cup {"none"}
  BY DEF canonicalHostname, Denials
<1>3. \A host, port : NewDestination(host, port).deny \in Denials \cup {"none"}
  BY <1>2 DEF NewDestination, Denials
<1>4. ParseAuthority(raw).deny \in Denials \cup {"none"}
  BY <1>1, <1>3 DEF ParseAuthority, Denials
<1>5. \A list, destination : Permits(list, destination) \in Denials \cup {"none"}
  BY DEF Permits, Denials
<1>6. CheckAuthority(setup.local, raw).deny \in {ParseAuthority(raw).deny, Permits(setup.local, ParseAuthority(raw).destination)}
  <2>1. ParseAuthority(raw) = [destination |-> ParseAuthority(raw).destination, deny |-> ParseAuthority(raw).deny]
    BY <1>1 DEF ParseAuthority, NewDestination
  <2> QED
    BY <2>1 DEF CheckAuthority
<1> QED
  BY <1>4, <1>5, <1>6 DEF Checked

\* A write that fails with a reset, and an answer to HELLO that is the end of
\* the stream, are what they are taken for.
LEMMA RejectionIsTrue ==
  ASSUME SessionInv, SaidInv, StepInv, pc \in {"helloLength", "helloBody"}, Ended(toClient)
  PROVE  answer \in {"cert", "lost"} \/ broken \/ (answer = "hello" /\ TooLarge)
<1>1. SUFFICES ASSUME ~broken PROVE answer \in {"cert", "lost"} \/ (answer = "hello" /\ TooLarge)
  OBVIOUS
<1>2. InStep
  BY <1>1 DEF StepInv, Live, Undecided, Early
<1>3. Last(toClient) \in Sayable /\ Last(toClient).cell \in Ends
  BY DEF SaidInv, Ended, Last
<1>4. serverClosed
  BY <1>1, <1>3 DEF Sayable, Ends, Cell, Prefix, Body
<1>5. answer # "none"
  BY <1>4 DEF SessionInv
<1> QED
  BY <1>2, <1>5 DEF InStep

LEMMA RefusalIsTrue ==
  ASSUME SessionInv, SaidInv, StepInv, pc = "helloAwait", toClient # <<>>, Head(toClient).cell = "fin"
  PROVE  broken \/ answer \in {"hello", "token", "lost"}
<1>1. SUFFICES ASSUME ~broken PROVE answer \in {"hello", "token", "lost"}
  OBVIOUS
<1>2. InStep
  BY <1>1 DEF StepInv, Live, Undecided, Early
<1>3. toClient[1] \in Sayable /\ toClient[1].cell = "fin" /\ 1 \in DOMAIN toClient
  BY DEF SaidInv
<1>4. serverClosed
  BY <1>1, <1>3 DEF Sayable, Cell, Prefix, Body
<1>5. answer # "none"
  BY <1>4 DEF SessionInv
<1>6. answer # "cert"
  <2>1. ~FinAfterAlert(toClient)
    BY <1>3 DEF FinAfterAlert
  <2> QED
    BY <1>2, <2>1 DEF InStep
<1> QED
  BY <1>2, <1>5, <1>6 DEF InStep

\* A value of result about which ReportInv says nothing.
Neutral == {"none", "cancelled", "timeout", "error"}

LEMMA ReportByOpen ==
  ASSUME SessionInv, SaidInv, StepInv, ReportInv, Opening
  PROVE  ReportInv'
<1>1. UNCHANGED <<answer, setup, broken>>
  BY ClientSteps DEF serverVars, world
<1>2. Checked' = Checked /\ TooLarge' = TooLarge
  BY <1>1 DEF Checked, Given, TooLarge, HelloMessage
<1> USE DEF Goto
<1>3. CASE result' \in Neutral
  BY <1>3 DEF Neutral, ReportInv, Denials, ErrorCodes
<1>4. ASSUME result' = result, pc # "opened"
      PROVE  ReportInv'
  BY <1>1, <1>2, <1>4 DEF ReportInv
<1>5. CASE Check
  <2>1. result' = result \/ (result' = Checked.deny /\ Checked.deny # "none")
    BY <1>5 DEF Check, Checked
  <2>2. CASE result' = Checked.deny /\ Checked.deny # "none"
    <3>1. result' \in Denials
      BY <2>2, Reasons
    <3> QED
      BY <1>2, <2>2, <3>1 DEF ReportInv, Denials, ErrorCodes
  <2>3. pc # "opened"
    BY <1>5 DEF Check
  <2> QED
    BY <1>4, <2>1, <2>2, <2>3
<1>6. CASE Dial \/ UpgradeWrite \/ UpgradeRead \/ TLSFails \/ Recheck
  <2>1. pc # "opened" /\ (result' = result \/ result' \in Neutral)
    BY <1>6 DEF Dial, UpgradeWrite, UpgradeRead, TLSFails, Recheck, Neutral
  <2> QED
    BY <1>3, <1>4, <2>1
<1>7. CASE UpgradeStop \/ UpgradeClear \/ TLSHello \/ TLSRead \/ TLSClear \/ StartControl \/ StopCancellation \/ Unwind
  <2>1. pc # "opened" /\ result' = result
    BY <1>7 DEF UpgradeStop, UpgradeClear, TLSHello, TLSRead, TLSClear, StartControl, StopCancellation, Unwind
  <2> QED
    BY <1>4, <2>1
<1>8. CASE SendHello \/ SendOpen
  <2>1. pc # "opened" /\ result' = result
    BY <1>8 DEF SendHello, SendOpen, Send
  <2> QED
    BY <1>4, <2>1
<1>9. CASE SendFails
  <2>1. PICK error \in WriteErrors : result' = Report(error)
    BY <1>9 DEF SendFails
  <2>2. pc \in {"helloLength", "helloBody", "openLength", "openBody"}
    BY <1>9 DEF SendFails
  <2>3. error \in {"timeout", "reset", "pipe"} /\ (error # "timeout" => Ended(toClient))
    BY <2>1 DEF WriteErrors
  <2>4. result' \in Neutral \/ (result' = "certRejected" /\ error = "reset" /\ pc \in {"helloLength", "helloBody"})
    BY <2>1, <2>2, <2>3 DEF Report, CertificateRejected, Neutral
  <2>5. CASE result' = "certRejected" /\ error = "reset" /\ pc \in {"helloLength", "helloBody"}
    <3>1. answer \in {"cert", "lost"} \/ broken \/ (answer = "hello" /\ TooLarge)
      BY <2>3, <2>5, RejectionIsTrue
    <3> QED
      BY <1>1, <1>2, <2>5, <3>1 DEF ReportInv, Denials, ErrorCodes
  <2> QED
    BY <1>3, <2>4, <2>5
<1>10. CASE AwaitFails
  <2>1. pc \in {"helloAwait", "openAwait"}
    BY <1>10 DEF AwaitFails
  <2>2. \/ \E error \in ReadErrors : result' = Report(ViaWebSocket(error))
        \/ toClient # <<>> /\ Head(toClient).cell = "alert" /\ result' = Report("alert")
        \/ result' = Report("malformed")
    BY <1>10 DEF AwaitFails
  <2>3. CASE \E error \in ReadErrors : result' = Report(ViaWebSocket(error))
    <3>1. PICK error \in ReadErrors : result' = Report(ViaWebSocket(error))
      BY <2>3
    <3>2. /\ error \in {"timeout", "eof", "reset"}
          /\ error = "eof" => toClient # <<>> /\ Head(toClient).cell = "fin"
      BY <3>1 DEF ReadErrors
    <3>3. result' \in Neutral \/ (result' = "authFailed" /\ error = "eof" /\ pc = "helloAwait")
      BY <3>1, <3>2 DEF ViaWebSocket, Report, CertificateRejected, Neutral
    <3>4. CASE result' = "authFailed" /\ error = "eof" /\ pc = "helloAwait"
      <4>1. broken \/ answer \in {"hello", "token", "lost"}
        BY <3>2, <3>4, RefusalIsTrue
      <4> QED
        BY <1>1, <3>4, <4>1 DEF ReportInv, Denials, ErrorCodes
    <3> QED
      BY <1>3, <3>3, <3>4
  <2>4. CASE toClient # <<>> /\ Head(toClient).cell = "alert" /\ result' = Report("alert")
    <3>1. toClient[1] \in Sayable /\ toClient[1].cell = "alert"
      BY <2>4 DEF SaidInv
    <3>2. answer = "cert"
      BY <3>1 DEF Sayable, Cell, Prefix, Body
    <3>3. result' \in Neutral \/ result' = "certRejected"
      BY <2>4 DEF Report, Neutral
    <3>4. CASE result' = "certRejected"
      BY <1>1, <3>2, <3>4 DEF ReportInv, Denials, ErrorCodes
    <3> QED
      BY <1>3, <3>3, <3>4
  <2>5. CASE result' = Report("malformed")
    BY <1>3, <2>5 DEF Report, CertificateRejected, Neutral
  <2> QED
    BY <2>2, <2>3, <2>4, <2>5
<1>11. CASE AwaitHelloOK \/ AwaitOpenOK
  <2>1. /\ pc # "opened" /\ FrameReady(toClient, clientMax) /\ Reply.error = "none"
        /\ \/ result' = result
           \/ result' \in Neutral
           \/ Reply.message.type = "OPEN_ERROR" /\ result' = Reply.message.code
    BY <1>11 DEF AwaitHelloOK, AwaitOpenOK, Await, Neutral
  <2>2. CASE Reply.message.type = "OPEN_ERROR" /\ result' = Reply.message.code
    <3>1. result' \in ErrorCodes /\ answer = result'
      BY <2>1, <2>2, ReplyIsSaid DEF SaidInv
    <3> QED
      BY <1>1, <3>1 DEF ReportInv, Denials, ErrorCodes
  <2> QED
    BY <1>3, <1>4, <2>1, <2>2
<1>12. CASE ClearDeadline
  <2>1. pc' = "opened" /\ result' = "opened"
    BY <1>12 DEF ClearDeadline
  <2> QED
    BY <2>1 DEF ReportInv, Denials, ErrorCodes
<1> QED
  BY <1>5, <1>6, <1>7, <1>8, <1>9, <1>10, <1>11, <1>12 DEF Opening

LEMMA ReportStep ==
  ASSUME SessionInv, SaidInv, StepInv, ReportInv, [Next]_vars
  PROVE  ReportInv'
<1>1. CASE Opening
  BY <1>1, ReportByOpen
<1>2. CASE Serving \/ RelayEnds \/ CutOff \/ CancelContext \/ Callbacks \/ DeadlinePasses \/ Break \/ UNCHANGED vars
  <2>1. UNCHANGED <<pc, result>>
    BY <1>2, ServerSteps DEF CancelContext, Callbacks, CallbackStarts, CallbackSets, DeadlinePasses, Break, vars,
                             clientVars
  <2>2. setup' = setup /\ (broken => broken') /\ (answer # "none" => answer' = answer)
    BY Worsens, Onward DEF OnlyOnward
  <2>3. Checked' = Checked /\ TooLarge' = TooLarge
    BY <2>2 DEF Checked, Given, TooLarge, HelloMessage
  <2>4. "none" \notin ErrorCodes
    BY DEF ErrorCodes
  <2> QED
    BY <2>1, <2>2, <2>3, <2>4 DEF ReportInv
<1> QED
  BY <1>1, <1>2 DEF Next

-----------------------------------------------------------------------------
(***************************************************************************)
(* Timeouts that reach the CONNECT client.                                 *)
(***************************************************************************)

LEMMA TimeoutStart == Init => TimeoutInv
<1>1. Init => toServer = <<>> /\ spc = "http" /\ target = "none"
  BY DEF Init
<1> QED
  BY <1>1 DEF TimeoutInv

\* Open reports a timeout only of what it does before OPEN is written.
LEMMA NotAskedBefore ==
  ASSUME SaidInv, Opening, NotAsked'
  PROVE  NotAsked
<1>1. SUFFICES ASSUME pc \notin BeforeOpen PROVE result = "timeout"
  BY DEF NotAsked
<1> USE DEF Goto, BeforeOpen, Early
<1>2. CASE \/ Check \/ Dial \/ UpgradeWrite \/ UpgradeRead \/ UpgradeStop \/ UpgradeClear \/ TLSHello
           \/ TLSRead \/ TLSFails \/ TLSClear \/ StartControl
  BY <1>1, <1>2 DEF Check, Dial, UpgradeWrite, UpgradeRead, UpgradeStop, UpgradeClear, TLSHello, TLSRead,
                    TLSFails, TLSClear, StartControl
<1>3. CASE SendHello \/ SendOpen \/ SendFails \/ AwaitHelloOK
  BY <1>1, <1>3 DEF SendHello, SendOpen, Send, SendFails, AwaitHelloOK, Await
<1>4. CASE AwaitFails
  <2>1. pc = "openAwait" /\ pc' = "unwind"
    BY <1>1, <1>4 DEF AwaitFails
  <2>2. \/ \E error \in {"timeout", "eof", "reset"} : result' = Report(ViaWebSocket(error))
        \/ result' = Report("alert")
        \/ result' = Report("malformed")
    BY <1>4 DEF AwaitFails, ReadErrors
  <2>3. result' # "timeout"
    BY <2>1, <2>2 DEF Report, ViaWebSocket
  <2> QED
    BY <2>1, <2>3 DEF NotAsked
<1>5. CASE AwaitOpenOK
  <2>1. /\ pc' \in {"stop", "unwind"} /\ FrameReady(toClient, clientMax) /\ Reply.error = "none"
        /\ \/ result' \in {result, "cancelled", "error"}
           \/ Reply.message.type = "OPEN_ERROR" /\ result' = Reply.message.code
    BY <1>5 DEF AwaitOpenOK, Await
  <2>2. Reply.message.type = "OPEN_ERROR" => Reply.message.code # "timeout"
    <3>1. Reply.message.type = "OPEN_ERROR" => Reply.message.code \in ErrorCodes
      BY <2>1, ReplyIsSaid DEF SaidInv
    <3> QED
      BY <3>1 DEF ErrorCodes
  <2> QED
    BY <2>1, <2>2 DEF NotAsked
<1>6. CASE StopCancellation \/ Recheck \/ ClearDeadline \/ Unwind
  BY <1>6 DEF StopCancellation, Recheck, ClearDeadline, Unwind, NotAsked
<1> QED
  BY <1>2, <1>3, <1>4, <1>5, <1>6 DEF Opening

\* What Open writes before.
LEMMA UnaskedByOpen ==
  ASSUME SessionInv, WireInv, StepInv, toServer \in Seq(Unasked), Opening, NotAsked'
  PROVE  (toServer \in Seq(Unasked))'
<1>1. setup' = setup
  BY ClientSteps DEF world
<1>2. Cell("fin") \in Unasked /\ Cell("rst") \in Unasked
  BY DEF Unasked
<1>3. CASE Check
  <2>1. toServer' = <<>>
    BY <1>3 DEF Check, WireInv, WireRequest, wires
  <2> QED
    BY <2>1
<1>4. CASE ~Check
  <2>1. requested' = requested
    BY <1>4 DEF Opening, Dial, UpgradeWrite, UpgradeRead, UpgradeStop, UpgradeClear, TLSHello, TLSRead,
         TLSFails, TLSClear, StartControl, SendHello, SendOpen, Send, SendFails, AwaitFails, AwaitHelloOK,
         AwaitOpenOK, Await, StopCancellation, Recheck, ClearDeadline, Unwind
  <2>2. Unasked' = Unasked
    BY <1>1, <2>1 DEF Unasked, HelloMessage, OpenMessage, Given
  <2>3. ASSUME NEW cell \in Unasked, toServer' = toServer \/ toServer' = Append(toServer, cell)
        PROVE  toServer' \in Seq(Unasked)
    BY <2>3, Streams
  <2>4. CASE CloseClient
    <3>1. toServer' \in {toServer, <<>>, Ending(toServer, "fin")}
      BY <2>4 DEF CloseClient
    <3>2. Ending(toServer, "fin") \in Seq(Unasked)
      BY <1>2, EndedStreams
    <3>3. toServer' = <<>> => toServer' \in Seq(Unasked)
      OBVIOUS
    <3> QED
      BY <2>2, <3>1, <3>2, <3>3
  <2>5. CASE \E cell \in Unasked : ClientWrites(cell)
    BY <2>2, <2>3, <2>5 DEF ClientWrites
  <2>6. CASE UNCHANGED toServer
    BY <2>2, <2>6
  <2> USE DEF Goto
  <2>7. CASE Dial \/ UpgradeWrite \/ UpgradeRead \/ UpgradeStop \/ UpgradeClear
    <3>1. UpgradeRequest \in Unasked
      BY DEF UpgradeRequest, Unasked
    <3>2. CloseClient \/ ClientWrites(UpgradeRequest) \/ UNCHANGED toServer
      BY <2>7 DEF Dial, UpgradeWrite, UpgradeRead, UpgradeStop, UpgradeClear, wires
    <3> QED
      BY <2>4, <2>5, <2>6, <3>1, <3>2
  <2>8. CASE TLSHello \/ TLSRead \/ TLSFails \/ TLSClear \/ StartControl
    <3>1. Cell("ClientHello") \in Unasked /\ Cell("Finished") \in Unasked
      BY DEF Unasked
    <3>2. \/ CloseClient \/ ClientWrites(Cell("ClientHello")) \/ UNCHANGED toServer
          \/ toServer' = Append(toServer, Cell("Finished"))
      BY <2>8 DEF TLSHello, TLSRead, TLSFails, TLSClear, StartControl, wires
    <3> QED
      BY <2>2, <2>3, <2>4, <2>5, <2>6, <3>1, <3>2
  <2>9. CASE SendHello \/ SendOpen
    <3>1. pc \notin {"check", "dial", "failed"}
      BY <2>9 DEF SendHello, SendOpen, Send
    <3>2. requested # NoDestination
      BY <3>1 DEF WireInv, WireRequest
    <3>3. result' # "timeout"
      <4>1. result' = result /\ pc \in Undecided
        BY <2>9 DEF SendHello, SendOpen, Send, Undecided
      <4> QED
        BY <4>1 DEF StepInv
    <3>4. pc' # "openAwait"
      BY <3>3 DEF NotAsked, BeforeOpen, Early
    <3>5. \E cell \in {Prefix(BodySize(HelloMessage)), Body(HelloMessage), Prefix(BodySize(OpenMessage))} :
             ClientWrites(cell)
      BY <2>9, <3>2, <3>4, MessagesFit DEF SendHello, SendOpen, Send
    <3>6. {Prefix(BodySize(HelloMessage)), Body(HelloMessage), Prefix(BodySize(OpenMessage))} \subseteq Unasked
      BY DEF Unasked
    <3> QED
      BY <2>5, <3>5, <3>6
  <2>10. CASE \/ SendFails \/ AwaitFails \/ AwaitHelloOK \/ AwaitOpenOK \/ StopCancellation \/ Recheck
              \/ ClearDeadline \/ Unwind
    <3>1. CloseClient \/ UNCHANGED toServer
      BY <2>10 DEF SendFails, AwaitFails, AwaitHelloOK, AwaitOpenOK, Await, StopCancellation, Recheck,
                   ClearDeadline, Unwind, wires
    <3> QED
      BY <2>4, <2>6, <3>1
  <2> QED
    BY <1>4, <2>7, <2>8, <2>9, <2>10 DEF Opening
<1> QED
  BY <1>3, <1>4

\* A relay that has read no OPEN does not go on.
LEMMA UnaskedByRelay ==
  ASSUME SessionInv, TimeoutInv, NotAsked, Serving \/ RelayEnds \/ CutOff
  PROVE  TimeoutInv'
<1>1. UNCHANGED <<clientVars, world>>
  BY ServerSteps
<1>2. Unasked' = Unasked
  BY <1>1 DEF clientVars, world, Unasked, HelloMessage, OpenMessage, Given
<1>3. toServer \in Seq(Unasked) /\ spc \notin {"resolve", "dial", "openOK", "relay"} /\ target = "none"
  BY DEF TimeoutInv
<1>4. toServer' \in Seq(Unasked)
  <2>1. PICK n \in 0..Len(toServer) : toServer' = Behind(toServer, n)
    BY <1>3, TakenFromWire
  <2> QED
    BY <1>3, <2>1, BehindIndexed
<1>5. ASSUME NEW rest, NEW sent, NEW decision, EndSession(rest, sent, decision)
      PROVE  spc' = "ended" /\ target' = "none"
  BY <1>3, <1>5 DEF EndSession
<1>6. spc' \notin {"resolve", "dial", "openOK", "relay"} /\ target' = "none"
  <2>1. CASE Accept \/ AcceptHello \/ AcceptFinished \/ ReadHello \/ SayHelloOK
    <3>1. \/ \E rest, sent, decision : EndSession(rest, sent, decision)
          \/ target' = target /\ spc' \in {"tlsHello", "ended", "tlsFinished", "hello", "helloOK", "open"}
      BY <2>1 DEF Accept, AcceptHello, AcceptFinished, ReadHello, SayHelloOK, Say
    <3> QED
      BY <1>3, <1>5, <3>1
  <2>2. CASE ReadOpen
    <3>1. SReady("open") /\ (Heard.error = "none" => Heard.message = Unmarshal(toServer[2].message)
                               /\ toServer[2] \in Unasked /\ toServer[2].cell = "body")
      <4>1. SReady("open")
        BY <2>2 DEF ReadOpen
      <4>2. ASSUME Heard.error = "none"
            PROVE  /\ Len(toServer) >= 2 /\ toServer[2].cell = "body"
                   /\ Heard.message = Unmarshal(toServer[2].message)
        BY <1>3, <4>1, <4>2, HeardRead
      <4> QED
        BY <1>3, <4>1, <4>2
    <3>2. HelloMessage.type = "HELLO"
      BY DEF HelloMessage, Hello, Blank
    <3>3. Heard.error = "none" => Heard.message.type = "HELLO"
      <4>1. SUFFICES ASSUME Heard.error = "none" PROVE Heard.message.type = "HELLO"
        OBVIOUS
      <4>2. toServer[2].message = HelloMessage
        BY <3>1, <4>1 DEF Unasked, Cell, Prefix, Body
      <4>3. Unmarshal(HelloMessage) = HelloMessage
        BY <3>2 DEF Unmarshal
      <4> QED
        BY <3>1, <3>2, <4>1, <4>2, <4>3
    <3> QED
      BY <1>5, <2>2, <3>3 DEF ReadOpen
  <2>3. CASE ResolveTarget \/ DialTarget \/ SayOpenOK \/ RelayEnds
    BY <1>3, <2>3 DEF ResolveTarget, DialTarget, SayOpenOK, Say, RelayEnds
  <2>4. CASE SessionFails
    BY <1>5, <2>4 DEF SessionFails
  <2>5. CASE CutOff
    BY <1>3, <2>5 DEF CutOff
  <2> QED
    BY <2>1, <2>2, <2>3, <2>4, <2>5 DEF Serving
<1> QED
  BY <1>2, <1>4, <1>6 DEF TimeoutInv

LEMMA TimeoutStep ==
  ASSUME SessionInv, WireInv, SaidInv, StepInv, TimeoutInv, [Next]_vars
  PROVE  TimeoutInv'
<1>1. SUFFICES ASSUME NotAsked' PROVE TimeoutInv'
  BY DEF TimeoutInv
<1>2. CASE Opening
  <2>1. NotAsked
    BY <1>1, <1>2, NotAskedBefore
  <2>2. (toServer \in Seq(Unasked))'
    BY <1>1, <1>2, <2>1, UnaskedByOpen DEF TimeoutInv
  <2>3. UNCHANGED <<spc, target>>
    BY <1>2, ClientSteps DEF serverVars
  <2> QED
    BY <2>1, <2>2, <2>3 DEF TimeoutInv
<1>3. CASE Serving \/ RelayEnds \/ CutOff
  <2>1. NotAsked
    BY <1>1, <1>3, ServerSteps DEF NotAsked, clientVars
  <2> QED
    BY <1>3, <2>1, UnaskedByRelay
<1>4. CASE CancelContext \/ Callbacks \/ DeadlinePasses \/ Break \/ UNCHANGED vars
  <2>1. /\ UNCHANGED <<setup, pc, requested, result, spc, target>>
        /\ toServer' = toServer \/ toServer' \in Resets(toServer) \cup {<<>>}
    BY <1>4 DEF CancelContext, Callbacks, CallbackStarts, CallbackSets, DeadlinePasses, Break, vars, clientVars,
                serverVars, wires, world
  <2>2. NotAsked /\ Unasked' = Unasked
    BY <1>1, <2>1 DEF NotAsked, Unasked, HelloMessage, OpenMessage, Given
  <2>3. toServer \in Seq(Unasked) /\ Resets(toServer) \subseteq Seq(Unasked)
    <3>1. Cell("fin") \in Unasked /\ Cell("rst") \in Unasked
      BY DEF Unasked
    <3> QED
      BY <2>2, <3>1, EndedStreams DEF TimeoutInv
  <2>4. toServer' \in Seq(Unasked)
    <3>1. toServer' = <<>> => toServer' \in Seq(Unasked)
      OBVIOUS
    <3>2. toServer' \in {toServer, <<>>} \/ toServer' \in Resets(toServer)
      BY <2>1
    <3> QED
      BY <2>3, <3>1, <3>2
  <2> QED
    BY <2>1, <2>2, <2>4 DEF TimeoutInv
<1> QED
  BY <1>2, <1>3, <1>4 DEF Next

\* How Client.Open classifies an error (ClientCertificateRejected, io.EOF, the code
\* in OPEN_ERROR) and the local proxy turns it into a status agrees with what
\* handleSession has decided.
THEOREM TrueReports == Spec => []ReportsAreTrue
<1>1. ASSUME SessionInv, SaidInv, ReportInv, TimeoutInv
      PROVE  ReportsAreTrue
  <2>1. proxyStatus = 200 => result = "opened"
    BY DEF proxyStatus
  <2>2. proxyStatus = 403 => result \in Denials \/ result \in {"forbidden-destination", "address-rejected"}
    BY DEF proxyStatus, Denials
  <2>3. result = "opened" => answer \in {"none", "ok", "lost"}
    BY <1>1 DEF ReportInv, SaidInv, SessionInv
  <2>4. proxyStatus = 504 => target = "none"
    <3>1. proxyStatus = 504 => result = "timeout"
      BY DEF proxyStatus
    <3> QED
      BY <1>1, <3>1 DEF TimeoutInv, NotAsked
  <2> QED
    BY <1>1, <2>1, <2>2, <2>3, <2>4 DEF ReportInv, ReportsAreTrue, TooLarge, Checked, ErrorCodes
<1> QED
  BY <1>1, SessionStart, SessionStep, WireStart, WireStep, SaidStart, SaidStep, StepStart, StepStep,
     ReportStart, ReportStep, TimeoutStart, TimeoutStep, PTL DEF Spec

=============================================================================
