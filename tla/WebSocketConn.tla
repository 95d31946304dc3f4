---------------------------- MODULE WebSocketConn ----------------------------
(***************************************************************************)
(* The two ends of one WebSocket connection, internal/tunnel/              *)
(* websocket_conn.go, each with a goroutine that reads and one that        *)
(* writes, and the front end between them, which sends pings of its own    *)
(* and may split messages.                                                 *)
(*                                                                         *)
(* A direction is a bounded sequence of cells: the header of a frame, and  *)
(* the bytes of its payload.  A masked byte remembers the key and the      *)
(* position in it, so unmasking with another one does not give it back.    *)
(* Directions are named after the end that writes.                         *)
(***************************************************************************)
EXTENDS Naturals, Sequences, SequencesExt

CONSTANTS
  Capacity,      \* cells the network holds in one direction
  Writes,        \* per end, the sizes of the payloads it writes
  Pings,         \* per end, how many pings the front end sends it
  Interruptible, \* the ends that set deadlines and close
  maskLength,    \* 4
  maxRead        \* the largest buffer given to Read

Ends == {"client", "server"}
Peer(e) == IF e = "client" THEN "server" ELSE "client"

ASSUME SizesAssumption ==
  /\ maskLength \in Nat \ {0} /\ maxRead \in 1..Capacity
  /\ Writes \in [Ends -> Seq(Nat \ {0})] /\ Pings \in [Ends -> Nat] /\ Interruptible \subseteq Ends

VARIABLES
  stream,      \* the cells under way
  sent, got,   \* the bytes written, and those read at the other end
  failed,      \* a write has failed
  writeMu,     \* "free", "writer", "reader"
  out,         \* per end, the rest of the frame that is being written
  wpc,         \* the writing goroutine: "idle", "lock", "frame"
  rpc,         \* the reading one: "idle", "header", "payload", "lock", "pong", "ended",
               \* "stopped": TLS does not read on
  reading,     \* readRemaining, readMask, readMaskAt, fragmented
  pong,        \* the control payload the reader answers with
  todo,        \* the payloads still to be written
  keys,        \* the last mask key
  pings,       \* the pings still to come
  cut          \* "no", "deadline" (it is past), "grace" (for writes it is not any more),
               \* "closing" (Close is called), "closed"

writerVars == <<sent, wpc, todo>>
readerVars == <<rpc, reading, pong>>
frameVars  == <<writeMu, out, keys, failed>>
vars == <<stream, got, writerVars, readerVars, frameVars, pings, cut>>

Init ==
  /\ stream = [e \in Ends |-> <<>>]
  /\ sent = [e \in Ends |-> <<>>]
  /\ got = [e \in Ends |-> <<>>]
  /\ failed = [e \in Ends |-> FALSE]
  /\ writeMu = [e \in Ends |-> "free"]
  /\ out = [e \in Ends |-> <<>>]
  /\ wpc = [e \in Ends |-> "idle"]
  /\ rpc = [e \in Ends |-> "idle"]
  /\ reading = [e \in Ends |-> [remaining |-> 0, key |-> 0, at |-> 0, fragmented |-> FALSE]]
  /\ pong = [e \in Ends |-> <<>>]
  /\ todo = Writes
  /\ keys = [e \in Ends |-> 0]
  /\ pings = Pings
  /\ cut = [e \in Ends |-> "no"]

-----------------------------------------------------------------------------
(***************************************************************************)
(* Frames.  Key 0 is no mask.                                              *)
(***************************************************************************)

IsHeader(cell) == "opcode" \in DOMAIN cell

Header(opcode, fin, length, key) == [opcode |-> opcode, fin |-> fin, length |-> length, key |-> key]

applyMask(payload, key) ==
  [i \in DOMAIN payload |->
     [value |-> payload[i], key |-> key, at |-> IF key = 0 THEN 0 ELSE (i - 1) % maskLength]]

garbage == 0   \* no byte of the stream

\* A byte taken with a key at a position; a header taken for a byte is garbage.
Unmask(cell, key, at) ==
  IF IsHeader(cell) THEN garbage
  ELSE IF cell.key = key /\ (key = 0 \/ cell.at = at % maskLength) THEN cell.value
  ELSE garbage

peerFramesAreMasked(e) == e = "server"

\* The client takes a fresh key for every frame.
FreshKey(e) == IF e = "client" THEN 1 + (keys[e] % 2) ELSE 0

Frame(opcode, payload, key) ==
  <<Header(opcode, TRUE, Len(payload), key)>> \o applyMask(payload, key)

\* The cells at the end of a direction are whole frames: nobody is within one.
Whole(e) == out[e] = <<>> /\ ~failed[e]

-----------------------------------------------------------------------------
(***************************************************************************)
(* Writing: the lock, then header and payload as the network takes them.   *)
(***************************************************************************)

Bytes(first, n) == [i \in 1..n |-> first + i]

\* TLS gives Write its next record; after a write has failed only the last one,
\* its close_notify.
Write(e) ==
  /\ wpc[e] = "idle" /\ todo[e] # <<>> /\ cut[e] \in {"no", "deadline", "grace"}
  /\ failed[e] => cut[e] = "grace"
  /\ wpc' = [wpc EXCEPT ![e] = "lock"]
  /\ sent' = [sent EXCEPT ![e] = @ \o Bytes(Len(@), Head(todo[e]))]
  /\ UNCHANGED <<stream, got, todo, readerVars, frameVars, pings, cut>>

Lock(e, actor, frame) ==
  /\ writeMu[e] = "free"
  /\ writeMu' = [writeMu EXCEPT ![e] = actor]
  /\ out' = [out EXCEPT ![e] = frame]
  /\ keys' = [keys EXCEPT ![e] = FreshKey(e)]

WriteLocked(e) ==
  /\ wpc[e] = "lock"
  /\ Lock(e, "writer", Frame("binary", SubSeq(sent[e], Len(sent[e]) - Head(todo[e]) + 1, Len(sent[e])), FreshKey(e)))
  /\ wpc' = [wpc EXCEPT ![e] = "frame"]
  /\ todo' = [todo EXCEPT ![e] = Tail(@)]
  /\ UNCHANGED <<stream, sent, got, failed, readerVars, pings, cut>>

\* The network takes another cell of the frame.
WriteCell(e) ==
  /\ out[e] # <<>> /\ cut[e] \in {"no", "grace", "closing"} /\ cut[Peer(e)] # "closed"
  /\ Len(stream[e]) < Capacity
  /\ stream' = [stream EXCEPT ![e] = Append(@, Head(out[e]))]
  /\ out' = [out EXCEPT ![e] = Tail(@)]
  /\ UNCHANGED <<got, failed, keys, writeMu, writerVars, readerVars, pings, cut>>

\* The frame is written, or cannot be: a past deadline, a connection that is
\* closed here or there.  Whoever wrote it unlocks and returns.
WriteFrameEnds(e) ==
  /\ writeMu[e] # "free"
  /\ \/ out[e] = <<>> /\ UNCHANGED failed
     \/ /\ out[e] # <<>> /\ (cut[e] \in {"deadline", "closed"} \/ cut[Peer(e)] = "closed")
        /\ failed' = [failed EXCEPT ![e] = TRUE]
  /\ out' = [out EXCEPT ![e] = <<>>]
  /\ writeMu' = [writeMu EXCEPT ![e] = "free"]
  /\ IF writeMu[e] = "writer"
       THEN wpc' = [wpc EXCEPT ![e] = "idle"] /\ UNCHANGED rpc
       ELSE /\ rpc' = [rpc EXCEPT ![e] = IF failed'[e] THEN "ended" ELSE "header"]
            /\ UNCHANGED wpc
  /\ UNCHANGED <<stream, sent, got, todo, keys, reading, pong, pings, cut>>

-----------------------------------------------------------------------------
(***************************************************************************)
(* Reading.                                                                *)
(***************************************************************************)

Goto(e, to) == rpc' = [rpc EXCEPT ![e] = to]

Input(e) == stream[Peer(e)]

Take(e, n) == stream' = [stream EXCEPT ![Peer(e)] = SubSeq(@, n + 1, Len(@))]

Late(e) == cut[e] \in {"deadline", "grace", "closed"}

\* Nothing more will come that a read could wait for.
ReadFails(e) == Late(e) \/ cut[Peer(e)] = "closed"

\* TLS asks for more; what is left of a frame is read first.
Read(e) ==
  /\ rpc[e] = "idle" /\ cut[e] = "no"
  /\ Goto(e, IF reading[e].remaining = 0 THEN "header" ELSE "payload")
  /\ UNCHANGED <<stream, got, writerVars, reading, pong, frameVars, pings, cut>>

\* Whoever takes the bytes from TLS waits for its own peer, and for good.
StopReading(e) ==
  /\ rpc[e] = "idle" /\ cut[e] = "no" /\ Goto(e, "stopped")
  /\ UNCHANGED <<stream, got, writerVars, reading, pong, frameVars, pings, cut>>

Acceptable(e, header) ==
  /\ IsHeader(header)
  /\ (header.key # 0) = peerFramesAreMasked(e)
  /\ CASE header.opcode \in {"ping", "pong", "close"} -> header.fin
       [] header.opcode = "binary" -> ~reading[e].fragmented
       [] header.opcode = "continuation" -> reading[e].fragmented

\* nextDataFrame up to a data frame, or its error.
NextDataFrame(e) ==
  /\ rpc[e] = "header" /\ Input(e) # <<>> /\ ~Late(e)
  /\ Take(e, 1)
  /\ LET header == Head(Input(e)) IN
       \/ /\ Acceptable(e, header) /\ header.opcode \in {"binary", "continuation"}
          /\ reading' = [reading EXCEPT ![e] = [remaining |-> header.length, key |-> header.key, at |-> 0,
                                               fragmented |-> ~header.fin]]
          /\ Goto(e, IF header.length = 0 THEN "header" ELSE "payload")
       \/ /\ Acceptable(e, header) => header.opcode = "close"
          /\ Goto(e, "ended")
          /\ UNCHANGED reading
  /\ UNCHANGED <<got, writerVars, pong, frameVars, pings, cut>>

\* A control frame between two data frames, or between the parts of one message.
ControlFrame(e) ==
  /\ rpc[e] = "header" /\ Input(e) # <<>> /\ ~Late(e)
  /\ LET header == Head(Input(e)) IN
       /\ Acceptable(e, header) /\ header.opcode \in {"ping", "pong"}
       /\ Len(Input(e)) > header.length
       /\ Take(e, 1 + header.length)
       /\ pong' = [pong EXCEPT ![e] =
                     [i \in 1..header.length |-> Unmask(Input(e)[i + 1], header.key, i - 1)]]
       /\ Goto(e, IF header.opcode = "ping" THEN "lock" ELSE "header")
  /\ UNCHANGED <<got, writerVars, reading, frameVars, pings, cut>>

\* Mutant: the pong does not wait for the frame that is being written.
AnswerPingUnlocked(e) ==
  /\ rpc[e] = "lock" /\ Len(stream[e]) < Capacity
  /\ stream' = [stream EXCEPT ![e] = @ \o Frame("pong", pong[e], FreshKey(e))]
  /\ keys' = [keys EXCEPT ![e] = FreshKey(e)]
  /\ Goto(e, "header")
  /\ UNCHANGED <<got, writerVars, reading, pong, writeMu, out, failed, pings, cut>>

AnswerPing(e) ==
  /\ rpc[e] = "lock"
  /\ Lock(e, "reader", Frame("pong", pong[e], FreshKey(e)))
  /\ Goto(e, "pong")
  /\ UNCHANGED <<stream, got, failed, writerVars, reading, pong, pings, cut>>

\* Mutant: every read of a frame starts with the first byte of the mask.
DeliverMaskRestarted(e, count) ==
  LET r == reading[e] IN
    /\ Take(e, count)
    /\ got' = [got EXCEPT ![Peer(e)] = @ \o [i \in 1..count |-> Unmask(Input(e)[i], r.key, i - 1)]]
    /\ reading' = [reading EXCEPT ![e].remaining = @ - count]

\* The mask goes on where the last read of this frame has stopped.
Deliver(e, count) ==
  LET r == reading[e] IN
    /\ Take(e, count)
    /\ got' = [got EXCEPT ![Peer(e)] = @ \o [i \in 1..count |-> Unmask(Input(e)[i], r.key, r.at + i - 1)]]
    /\ reading' = [reading EXCEPT ![e].remaining = @ - count, ![e].at = @ + count]

Wanted(e) == IF reading[e].remaining < maxRead THEN reading[e].remaining ELSE maxRead

ReadPayload(e) ==
  /\ rpc[e] = "payload" /\ ~Late(e)
  /\ \E want \in 1..Wanted(e) : want <= Len(Input(e)) /\ Deliver(e, want)
  /\ Goto(e, "idle")
  /\ UNCHANGED <<writerVars, pong, frameVars, pings, cut>>

\* The read fails with a part of the payload, the header or nothing.
ReadTruncated(e) ==
  /\ rpc[e] = "payload" /\ ReadFails(e)
  /\ \E count \in 0..Wanted(e) - 1 :
       /\ IF Late(e) THEN count <= Len(Input(e)) ELSE count = Len(Input(e))
       /\ Deliver(e, count)
  /\ Goto(e, "ended")
  /\ UNCHANGED <<writerVars, pong, frameVars, pings, cut>>

ReadEnds(e) ==
  /\ rpc[e] = "header" /\ ReadFails(e)
  /\ ~Late(e) /\ Input(e) # <<>> =>
       /\ IsHeader(Head(Input(e))) /\ Head(Input(e)).opcode \in {"ping", "pong"}
       /\ Len(Input(e)) <= Head(Input(e)).length
  /\ Goto(e, "ended")
  /\ UNCHANGED <<stream, got, writerVars, reading, pong, frameVars, pings, cut>>

-----------------------------------------------------------------------------
(***************************************************************************)
(* Interruption, and the front end.                                        *)
(***************************************************************************)

\* The relay's watcher sets a past deadline; before the connection is closed,
\* writing has another second.
SetDeadline(e) ==
  /\ e \in Interruptible
  /\ \/ cut[e] = "no" /\ cut' = [cut EXCEPT ![e] = "deadline"]
     \/ cut[e] = "deadline" /\ cut' = [cut EXCEPT ![e] = "grace"]
  /\ UNCHANGED <<stream, got, writerVars, readerVars, frameVars, pings>>

CallClose(e) ==
  /\ e \in Interruptible
  /\ cut[e] \in {"no", "deadline", "grace"} /\ cut' = [cut EXCEPT ![e] = "closing"]
  /\ UNCHANGED <<stream, got, writerVars, readerVars, frameVars, pings>>

\* Mutant: a close frame is sent first.
CloseSendsFrame(e) ==
  /\ cut[e] = "closing" /\ writeMu[e] = "free" /\ Len(stream[e]) < Capacity
  /\ stream' = [stream EXCEPT ![e] = Append(@, Header("close", TRUE, 0, FreshKey(e)))]
  /\ cut' = [cut EXCEPT ![e] = "closed"]
  /\ UNCHANGED <<got, writerVars, readerVars, frameVars, pings>>

\* The transport is closed under whatever is going on.
Close(e) ==
  /\ cut[e] = "closing" /\ cut' = [cut EXCEPT ![e] = "closed"]
  /\ UNCHANGED <<stream, got, writerVars, readerVars, frameVars, pings>>

\* A ping to e, between two frames of its peer.
FrontEndPings(e) ==
  /\ pings[e] > 0 /\ Whole(Peer(e)) /\ Len(stream[Peer(e)]) + 2 <= Capacity
  /\ stream' = [stream EXCEPT ![Peer(e)] =
                  @ \o Frame("ping", <<garbage>>, IF peerFramesAreMasked(e) THEN 3 ELSE 0)]
  /\ pings' = [pings EXCEPT ![e] = @ - 1]
  /\ UNCHANGED <<got, writerVars, readerVars, frameVars, cut>>

\* A message that is wholly in the network is split after its first byte; the
\* two frames have a mask of their own, if any.
FrontEndSplits(e) ==
  /\ Len(stream[e]) < Capacity
  /\ \E k \in DOMAIN stream[e] :
       LET header == stream[e][k] IN
       /\ IsHeader(header) /\ header.opcode = "binary" /\ header.fin /\ header.length > 1
       /\ k + header.length <= Len(stream[e])
       /\ \A i \in 1..header.length : ~IsHeader(stream[e][k + i])
       /\ LET bytes == [i \in 1..header.length |-> stream[e][k + i].value]
              key == IF header.key = 0 THEN 0 ELSE 3
              first == SubSeq(bytes, 1, 1)
              rest == SubSeq(bytes, 2, header.length)
          IN stream' = [stream EXCEPT ![e] =
               SubSeq(@, 1, k - 1) \o <<Header("binary", FALSE, 1, key)>> \o applyMask(first, key)
                 \o <<Header("continuation", TRUE, Len(rest), key)>> \o applyMask(rest, key)
                 \o SubSeq(@, k + header.length + 1, Len(@))]
  /\ UNCHANGED <<got, writerVars, readerVars, frameVars, pings, cut>>

-----------------------------------------------------------------------------

Writing(e) == Write(e) \/ WriteLocked(e) \/ WriteCell(e) \/ WriteFrameEnds(e)

Reading(e) == Read(e) \/ StopReading(e) \/ NextDataFrame(e) \/ ControlFrame(e) \/ AnswerPing(e) \/ ReadPayload(e)
              \/ ReadTruncated(e) \/ ReadEnds(e)

Interrupting(e) == SetDeadline(e) \/ CallClose(e) \/ Close(e)

Next == \E e \in Ends : Writing(e) \/ Reading(e) \/ Interrupting(e) \/ FrontEndPings(e) \/ FrontEndSplits(e)

Spec == Init /\ [][Next]_vars

\* Goroutines run, a lock is handed to whoever waits for it, Close returns.
\* Nothing has to be interrupted, pinged or split.
FairSpec ==
  /\ Spec
  /\ \A e \in Ends :
       /\ WF_vars(Write(e) \/ WriteCell(e) \/ WriteFrameEnds(e)) /\ SF_vars(WriteLocked(e))
       /\ WF_vars(Read(e) \/ NextDataFrame(e) \/ ControlFrame(e) \/ ReadPayload(e) \/ ReadTruncated(e) \/ ReadEnds(e))
       /\ SF_vars(AnswerPing(e)) /\ WF_vars(Close(e))

-----------------------------------------------------------------------------
(***************************************************************************)
(* Properties.                                                             *)
(***************************************************************************)

FromClient == INSTANCE BytePipe WITH
  sent <- sent["client"], got <- got["client"], failed <- failed["client"]

FromServer == INSTANCE BytePipe WITH
  sent <- sent["server"], got <- got["server"], failed <- failed["server"]

\* Each direction is a byte pipe, whatever the readers' pongs, the front end's
\* pings and its splits put between the bytes.
IsBytePipe == FromClient!PipeSpec /\ FromServer!PipeSpec

Returned(e) == wpc[e] = "idle" /\ rpc[e] \in {"idle", "stopped", "ended"}

\* Each reader waits to answer a ping, behind frames that a full network does not
\* take, which only the other reader could make room for.
MutualWait ==
  \A e \in Ends : rpc[e] \in {"lock", "pong"} /\ writeMu[e] # "free" /\ Len(stream[e]) = Capacity

Delivered == \A e \in Ends : got[e] = sent[e]
Interrupted == \E e \in Ends : cut[e] # "no" \/ rpc[e] = "stopped"
Closing == \E e \in Ends : cut[e] \in {"closing", "closed"}

\* What is written arrives where it is read, although a reader that answers a ping
\* waits for a writer: bytes stay under way for ever only in a mutual wait.  Close
\* at one end ends the calls under way at both, that wait included.
CallsReturn ==
  /\ []<>(Delivered \/ Interrupted) \/ <>[]MutualWait
  /\ []<>(Closing => \A e \in Ends : Returned(e))
=============================================================================
