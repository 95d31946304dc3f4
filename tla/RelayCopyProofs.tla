--------------------------- MODULE RelayCopyProofs ---------------------------
(***************************************************************************)
(* Copy's safety properties for any amount of data and any idle timeout.   *)
(***************************************************************************)
EXTENDS RelayCopy, TLAPS

\* Where each copy is, against its bytes and what it has announced.
Streams ==
  \A d \in Conns :
    /\ copying[d] \in {"read", "write"} <=> outcome[d] = "none"
    /\ copying[d] = "halfClose" => outcome[d] = "nil"
    /\ copying[d] = "read" => unwritten[d] = 0
    /\ copying[d] = "write" => unwritten[d] = 1
    /\ outcome[d] = "nil" => d \in eof /\ unread[d] = 0 /\ unwritten[d] = 0
    /\ Other(d) \in halfClosed => outcome[d] = "nil"

\* How many results Copy has received.
Received == IF main = "first" THEN 0
            ELSE IF main \in {"cutLeft", "cutRight", "second"} THEN 1 ELSE 2

One(d) == IF copying[d] = "ended" THEN 1 ELSE 0

\* Every result that was sent is in the channel or was received, and an error
\* among them is not lost on the way.
Announced ==
  /\ Len(results) + Received = One("left") + One("right")
  /\ \A d \in Conns : copying[d] = "ended" /\ outcome[d] # "nil" =>
       failed \/ \E i \in 1 .. Len(results) : results[i] # "nil"
  /\ \A i \in 1 .. Len(results) : \E d \in Conns : results[i] = outcome[d]
  /\ failed => \E d \in Conns : outcome[d] \in {"io", "deadline"}
  /\ main = "first" => ~failed
  /\ main \in {"cutLeft", "cutRight"} => failed

Cause == interrupted # "none" \/ \E d \in Conns : outcome[d] = "io"

\* Connections are cut for a cause, and a deadline error follows a cut.
Causes ==
  /\ deadline # {} => Cause
  /\ (\E d \in Conns : outcome[d] = "deadline") => deadline # {}
  /\ watch \in {"cutLeft", "cutRight"} => interrupted # "none"

\* What Copy has decided, and what it has waited for.
Decided ==
  /\ main \in {"first", "cutLeft", "cutRight", "second", "collect"} <=> returned = "none"
  /\ returned = "nil" => ~failed
  /\ returned = "error" => \E d \in Conns : outcome[d] = "io"
  /\ main = "returned" => watch = "ended"

\* No touch is lost: without a token, the timer is no older than the silence.
Timed == watch = "select" /\ ~activity => timer <= quiet

Inv == TypeOK /\ Streams /\ Announced /\ Causes /\ Decided /\ Timed

-----------------------------------------------------------------------------

\* The start of Copy satisfies the invariant.
LEMMA InitInv == Init => Inv
  <1> SUFFICES ASSUME Init PROVE Inv
    OBVIOUS
  <1> USE CopyAssumption DEF Init, Conns
  <1>1. TypeOK
    <2>1. /\ unread \in [Conns -> 0 .. MaxUnread] /\ unwritten \in [Conns -> {0, 1}]
          /\ copying \in [Conns -> {"read", "write", "halfClose", "send", "ended"}]
          /\ outcome \in [Conns -> {"none"} \cup Results]
      OBVIOUS
    <2>2. /\ results \in Seq(Results) /\ Len(results) <= 2
          /\ timer \in 0 .. IdleTimeout /\ quiet \in 0 .. IdleTimeout
      OBVIOUS
    <2> QED BY <2>1, <2>2 DEF TypeOK
  <1>2. Streams
    BY DEF Streams, Other
  <1>3. Announced
    BY DEF Announced, Received, One
  <1>4. Causes /\ Decided /\ Timed
    BY DEF Causes, Cause, Decided, Timed
  <1> QED BY <1>1, <1>2, <1>3, <1>4 DEF Inv
-----------------------------------------------------------------------------
(***************************************************************************)
(* One lemma per goroutine.                                                *)
(***************************************************************************)

\* Facts about the channel of results: a send appends, a receive takes the head.
LEMMA ChannelFacts ==
  ASSUME NEW q \in Seq(Results), NEW r \in Results
  PROVE  /\ Append(q, r) \in Seq(Results) /\ Len(Append(q, r)) = Len(q) + 1
         /\ \A i \in 1 .. Len(q) : Append(q, r)[i] = q[i]
         /\ Append(q, r)[Len(q) + 1] = r
         /\ q # <<>> => /\ Head(q) = q[1] /\ Head(q) \in Results /\ Len(q) \in Nat \ {0}
                       /\ Tail(q) \in Seq(Results) /\ Len(Tail(q)) = Len(q) - 1
                       /\ \A i \in 1 .. Len(Tail(q)) : Tail(q)[i] = q[i + 1]
  OBVIOUS

\* The peers, the context and time.
LEMMA OutsideInv ==
  ASSUME Inv, (\E c \in Conns : Peer(c)) \/ ContextEnds \/ Tick
  PROVE  Inv'
  <1> USE DEF copyVars, mainVars, watchVars
  <1>1. ASSUME NEW c \in Conns, Peer(c) PROVE Inv'
    <2>1. TypeOK'
      <3>1. unread' \in [Conns -> 0 .. MaxUnread] /\ eof' \subseteq Conns
        <4>1. unread \in [Conns -> 0 .. MaxUnread] /\ eof \subseteq Conns
          BY DEF Inv, TypeOK
        <4>2. CASE PeerSends(c)
          BY <4>1, <4>2, CopyAssumption DEF PeerSends
        <4>3. CASE PeerCloses(c)
          BY <4>1, <4>3 DEF PeerCloses
        <4> QED BY <1>1, <4>2, <4>3 DEF Peer
      <3> QED BY <1>1, <3>1 DEF Inv, TypeOK, Peer
    <2>2. Streams'
      BY <1>1 DEF Inv, TypeOK, Streams, Peer, PeerSends, PeerCloses
    <2>3. Announced' /\ Causes' /\ Decided' /\ Timed'
      BY <1>1 DEF Inv, Announced, Received, One, Causes, Cause, Decided, Timed, Peer
    <2> QED BY <2>1, <2>2, <2>3 DEF Inv
  <1>2. CASE ContextEnds
    <2>1. TypeOK'
      BY <1>2 DEF ContextEnds, Inv, TypeOK
    <2>2. Streams' /\ Announced'
      BY <1>2 DEF ContextEnds, Inv, Streams, Announced, Received, One
    <2>3. Causes' /\ Decided' /\ Timed'
      BY <1>2 DEF ContextEnds, Inv, Causes, Cause, Decided, Timed
    <2> QED BY <2>1, <2>2, <2>3 DEF Inv
  <1>3. CASE Tick
    <2>1. timer' \in 0 .. IdleTimeout /\ quiet' \in 0 .. IdleTimeout /\ Timed'
      BY <1>3, CopyAssumption DEF Tick, AtMost, Inv, TypeOK, Timed
    <2>2. TypeOK'
      BY <1>3, <2>1 DEF Tick, Inv, TypeOK
    <2>3. Streams' /\ Announced' /\ Causes' /\ Decided'
      BY <1>3 DEF Tick, Inv, Streams, Announced, Received, One, Causes, Cause, Decided
    <2> QED BY <2>1, <2>2, <2>3 DEF Inv
  <1> QED BY <1>1, <1>2, <1>3

\* A step that ends no copy and touches neither outcome nor results leaves
\* what has been announced as it was.
LEMMA AnnouncedUntouched ==
  ASSUME Announced, UNCHANGED <<outcome, results, main, failed>>,
         \A c \in Conns : (copying'[c] = "ended") <=> (copying[c] = "ended")
  PROVE  Announced'
  <1>1. One("left")' = One("left") /\ One("right")' = One("right") /\ Received' = Received
    BY DEF Conns, One, Received
  <1> HIDE DEF One, Received
  <1> QED BY <1>1 DEF Announced

\* Only outcomes of ended copies are on the channel.
LEMMA SentResults ==
  ASSUME TypeOK
  PROVE  \A i \in 1 .. Len(results) : results[i] # "none"
  <1>1. results \in Seq(Results)
    BY DEF TypeOK
  <1>2. \A i \in 1 .. Len(results) : results[i] \in Results
    BY <1>1
  <1> QED BY <1>2 DEF Results

\* The same when the copy of d, which has not ended, learns its outcome.
LEMMA AnnouncedOutcome ==
  ASSUME Announced, NEW d \in Conns, UNCHANGED <<results, main, failed>>,
         copying[d] # "ended", outcome[d] = "none",
         \A i \in 1 .. Len(results) : results[i] # "none",
         \A c \in Conns : (copying'[c] = "ended") <=> (copying[c] = "ended"),
         \A c \in Conns : c # d => outcome'[c] = outcome[c]
  PROVE  Announced'
  <1>1. One("left")' = One("left") /\ One("right")' = One("right") /\ Received' = Received
    BY DEF Conns, One, Received
  <1>2. \A i \in 1 .. Len(results) : \E c \in Conns : results[i] = outcome'[c]
    BY DEF Announced
  <1>3. failed => \E c \in Conns : outcome'[c] \in {"io", "deadline"}
    BY DEF Announced
  <1> HIDE DEF One, Received
  <1> QED BY <1>1, <1>2, <1>3 DEF Announced

\* copyDirection.
LEMMA CopyDirectionInv ==
  ASSUME Inv, NEW d \in Conns, CopyAlone(d) \/ CopyWithPeer(d)
  PROVE  Inv'
  <1> USE DEF mainVars, watchVars
  <1>0. /\ d \in {"left", "right"} /\ Other(d) \in Conns /\ Other(d) # d
        /\ \A c \in Conns : c = d \/ c = Other(d)
    BY DEF Conns, Other
  <1>1. ASSUME ReadByte(d) \/ WriteByte(d),
               UNCHANGED <<eof, deadline, mainVars, watchVars, ctxDone>>
        PROVE  Inv'
    <2> USE DEF ReadByte, WriteByte, touch
    <2>0. /\ \A c \in Conns : (copying'[c] = "ended") <=> (copying[c] = "ended")
          /\ UNCHANGED <<outcome, results>>
      <3>1. CASE ReadByte(d)
        BY <3>1 DEF Inv, TypeOK
      <3>2. CASE WriteByte(d)
        BY <3>2 DEF Inv, TypeOK
      <3> QED BY <1>1, <3>1, <3>2
    <2>1. TypeOK'
      <3>1. /\ unread' \in [Conns -> 0 .. MaxUnread] /\ unwritten' \in [Conns -> {0, 1}]
            /\ copying' \in [Conns -> {"read", "write", "halfClose", "send", "ended"}]
        <4>1. CASE ReadByte(d)
          BY <1>1, <4>1, CopyAssumption DEF Inv, TypeOK, Streams
        <4>2. CASE WriteByte(d)
          BY <1>1, <4>2 DEF Inv, TypeOK, Streams
        <4> QED BY <1>1, <4>1, <4>2
      <3>2. quiet' \in 0 .. IdleTimeout
        BY <1>1, CopyAssumption
      <3>3. activity' = TRUE
        BY <1>1
      <3> QED BY <1>1, <3>1, <3>2, <3>3 DEF Inv, TypeOK
    <2>2. Streams'
      BY <1>0, <1>1 DEF Inv, TypeOK, Streams
    <2>3. Announced'
      BY <1>1, <2>0, AnnouncedUntouched DEF Inv
    <2>4. Causes' /\ Decided' /\ Timed'
      BY <1>1 DEF Inv, Causes, Cause, Decided, Timed
    <2> QED BY <2>1, <2>2, <2>3, <2>4 DEF Inv
  <1>2. ASSUME ReadEOF(d), UNCHANGED <<eof, deadline, mainVars, watchVars, ctxDone>>
        PROVE  Inv'
    <2> USE DEF ReadEOF
    <2>1. TypeOK'
      BY <1>2 DEF Inv, TypeOK, Results
    <2>2. Streams'
      BY <1>0, <1>2 DEF Inv, TypeOK, Streams
    <2>3. Announced'
      <3>0. \A i \in 1 .. Len(results) : results[i] # "none"
        BY SentResults DEF Inv
      <3>1. copying[d] # "ended" /\ outcome[d] = "none"
        BY <1>2 DEF Inv, Streams
      <3>2. /\ \A c \in Conns : (copying'[c] = "ended") <=> (copying[c] = "ended")
            /\ \A c \in Conns : c # d => outcome'[c] = outcome[c]
        BY <1>2 DEF Inv, TypeOK
      <3> QED BY <1>2, <3>0, <3>1, <3>2, AnnouncedOutcome DEF Inv
    <2>4. Causes' /\ Decided' /\ Timed'
      BY <1>0, <1>2 DEF Inv, TypeOK, Streams, Causes, Cause, Decided, Timed
    <2> QED BY <2>1, <2>2, <2>3, <2>4 DEF Inv
  <1>3. ASSUME NEW error \in {"io", "deadline"}, CopyFails(d, error),
               UNCHANGED <<eof, deadline, mainVars, watchVars, ctxDone>>
        PROVE  Inv'
    <2> USE DEF CopyFails
    <2>1. TypeOK'
      BY <1>3 DEF Inv, TypeOK, Results
    <2>2. Streams'
      BY <1>0, <1>3 DEF Inv, TypeOK, Streams
    <2>3. Announced'
      <3>0. \A i \in 1 .. Len(results) : results[i] # "none"
        BY SentResults DEF Inv
      <3>1. copying[d] # "ended" /\ outcome[d] = "none"
        BY <1>3 DEF Inv, Streams
      <3>2. /\ \A c \in Conns : (copying'[c] = "ended") <=> (copying[c] = "ended")
            /\ \A c \in Conns : c # d => outcome'[c] = outcome[c]
        BY <1>3 DEF Inv, TypeOK
      <3> QED BY <1>3, <3>0, <3>1, <3>2, AnnouncedOutcome DEF Inv
    <2>4. Causes' /\ Decided' /\ Timed'
      BY <1>0, <1>3 DEF Inv, TypeOK, Streams, Causes, Cause, Decided, Timed
    <2> QED BY <2>1, <2>2, <2>3, <2>4 DEF Inv
  <1>4. ASSUME HalfClose(d), UNCHANGED <<eof, deadline, mainVars, watchVars, ctxDone>>
        PROVE  Inv'
    <2> USE DEF HalfClose
    <2>1. TypeOK'
      <3>1. /\ halfClosed' \subseteq Conns
            /\ copying' \in [Conns -> {"read", "write", "halfClose", "send", "ended"}]
        BY <1>0, <1>4 DEF Inv, TypeOK
      <3> QED BY <1>4, <3>1 DEF Inv, TypeOK
    <2>2. Streams'
      <3>1. /\ copying[d] = "halfClose" /\ outcome[d] = "nil"
            /\ copying' = [copying EXCEPT ![d] = "send"]
            /\ UNCHANGED <<unread, eof, unwritten, outcome>>
        BY <1>4 DEF Inv, Streams
      <3>2. \A c \in Conns : Other(c) \in halfClosed' => c = d \/ Other(c) \in halfClosed
        BY <1>0, <1>4 DEF Conns, Other
      <3>3. \A c \in Conns : Other(c) \in halfClosed' => outcome[c] = "nil"
        BY <3>1, <3>2 DEF Inv, Streams
      <3>4. copying \in [Conns -> {"read", "write", "halfClose", "send", "ended"}]
        BY DEF Inv, TypeOK
      <3> QED BY <1>0, <3>1, <3>3, <3>4 DEF Inv, Streams
    <2>3. Announced'
      <3>1. \A c \in Conns : (copying'[c] = "ended") <=> (copying[c] = "ended")
        BY <1>4 DEF Inv, TypeOK
      <3> QED BY <1>4, <3>1, AnnouncedUntouched DEF Inv
    <2>4. Causes' /\ Decided' /\ Timed'
      BY <1>4 DEF Inv, Causes, Cause, Decided, Timed
    <2> QED BY <2>1, <2>2, <2>3, <2>4 DEF Inv
  <1>5. ASSUME SendResult(d), UNCHANGED <<eof, deadline, mainVars, watchVars, ctxDone>>
        PROVE  Inv'
    <2> USE DEF SendResult
    <2>0. /\ results \in Seq(Results) /\ Len(results) \in Nat /\ outcome[d] \in Results
          /\ copying' = [copying EXCEPT ![d] = "ended"] /\ copying[d] = "send"
          /\ copying \in [Conns -> {"read", "write", "halfClose", "send", "ended"}]
      <3>1. copying' = [copying EXCEPT ![d] = "ended"] /\ copying[d] = "send"
        BY <1>5
      <3>2. /\ results \in Seq(Results)
            /\ copying \in [Conns -> {"read", "write", "halfClose", "send", "ended"}]
        BY DEF Inv, TypeOK
      <3>3. outcome[d] \in Results \cup {"none"}
        BY DEF Inv, TypeOK
      <3>4. outcome[d] # "none"
        BY <3>1 DEF Inv, Streams
      <3> QED BY <3>1, <3>2, <3>3, <3>4
    <2>1. /\ results' \in Seq(Results) /\ Len(results') = Len(results) + 1
          /\ \A i \in 1 .. Len(results) : results'[i] = results[i]
          /\ results'[Len(results) + 1] = outcome[d]
      BY <1>5, <2>0, ChannelFacts
    <2>2. Len(results') + Received' = One("left")' + One("right")'
      BY <1>0, <1>5, <2>0, <2>1 DEF Inv, TypeOK, Conns, Announced, Received, One
    <2>3. Len(results') <= 2
      BY <2>1, <2>2 DEF Received, One
    <2>4. TypeOK'
      BY <1>5, <2>0, <2>1, <2>3 DEF Inv, TypeOK
    <2>5. Streams'
      BY <1>0, <1>5, <2>0 DEF Inv, Streams
    <2>6. \A c \in Conns : copying'[c] = "ended" /\ outcome[c] # "nil" =>
             failed \/ \E i \in 1 .. Len(results') : results'[i] # "nil"
      BY <1>0, <1>5, <2>0, <2>1 DEF Inv, Announced
    <2>7. \A i \in 1 .. Len(results') : \E c \in Conns : results'[i] = outcome[c]
      BY <2>0, <2>1 DEF Inv, Announced
    <2>8. Announced'
      BY <1>5, <2>2, <2>6, <2>7 DEF Inv, Announced
    <2>9. Causes' /\ Decided' /\ Timed'
      BY <1>5 DEF Inv, Causes, Cause, Decided, Timed
    <2> QED BY <2>4, <2>5, <2>8, <2>9 DEF Inv
  <1> QED BY <1>1, <1>2, <1>3, <1>4, <1>5 DEF CopyAlone, CopyWithPeer

\* A failed copy is traced to the I/O error or the interruption behind it.
LEMMA FailureHasCause ==
  ASSUME Inv, failed
  PROVE  Cause
  BY DEF Inv, Announced, Causes, Cause

\* Copy itself.
LEMMA MainInv ==
  ASSUME Inv, Copy
  PROVE  Inv'
  <1> USE DEF watchVars
  <1>0. UNCHANGED <<unread, eof, unwritten, halfClosed, copying, outcome, watchVars,
                    activity, ctxDone, quiet>>
    BY DEF Copy
  <1>1. Streams' /\ Timed'
    BY <1>0 DEF Inv, Streams, Timed
  <1>2. ASSUME ReceiveFirst \/ ReceiveSecond PROVE Inv'
    <2>0. /\ results \in Seq(Results) /\ results # <<>> /\ results' = Tail(results)
          /\ UNCHANGED <<returned, watchDone, deadline>>
          /\ failed' = (failed \/ Head(results) # "nil")
      <3>1. failed \in BOOLEAN /\ (main = "first" => ~failed)
        BY DEF Inv, TypeOK, Announced
      <3> QED BY <1>2, <3>1 DEF Inv, TypeOK, ReceiveFirst, ReceiveSecond
    <2>1. /\ Head(results) = results[1] /\ Head(results) \in Results
          /\ Len(results) \in Nat \ {0}
          /\ results' \in Seq(Results) /\ Len(results') = Len(results) - 1
          /\ \A i \in 1 .. Len(results') : results'[i] = results[i + 1]
      BY <2>0, ChannelFacts DEF Results
    <2>2. Received' = Received + 1
      BY <1>2 DEF Received, ReceiveFirst, ReceiveSecond
    <2>3. TypeOK'
      <3>1. main' \in {"cutLeft", "second", "collect"}
        BY <1>2 DEF ReceiveFirst, ReceiveSecond
      <3>2. Len(results') <= 2
        BY <2>1 DEF Inv, TypeOK
      <3>3. failed' \in BOOLEAN
        BY <2>0
      <3> QED BY <1>0, <2>0, <2>1, <3>1, <3>2, <3>3 DEF Inv, TypeOK
    <2>4. Len(results') + Received' = One("left")' + One("right")'
      BY <1>0, <2>1, <2>2 DEF Inv, Announced, One, Received
    <2>5. ASSUME NEW d \in Conns, copying[d] = "ended", outcome[d] # "nil"
          PROVE  failed' \/ \E i \in 1 .. Len(results') : results'[i] # "nil"
      <3>1. CASE failed
        BY <2>0, <3>1
      <3>2. CASE ~failed
        <4>1. PICK i \in 1 .. Len(results) : results[i] # "nil"
          BY <2>5, <3>2 DEF Inv, Announced
        <4>2. CASE i = 1
          BY <2>0, <2>1, <4>1, <4>2
        <4>3. CASE i # 1
          <5>1. i - 1 \in 1 .. Len(results') /\ results'[i - 1] = results[i]
            BY <2>1, <4>3
          <5> QED BY <4>1, <5>1
        <4> QED BY <4>2, <4>3
      <3> QED BY <3>1, <3>2
    <2>6. \A i \in 1 .. Len(results') : \E d \in Conns : results'[i] = outcome[d]
      <3> SUFFICES ASSUME NEW i \in 1 .. Len(results')
                   PROVE  \E d \in Conns : results'[i] = outcome[d]
        OBVIOUS
      <3>1. i + 1 \in 1 .. Len(results) /\ results'[i] = results[i + 1]
        BY <2>1
      <3> QED BY <3>1 DEF Inv, Announced
    <2>7. failed' => \E d \in Conns : outcome[d] \in {"io", "deadline"}
      <3>1. CASE failed
        BY <3>1 DEF Inv, Announced
      <3>2. CASE ~failed /\ Head(results) # "nil"
        <4>1. 1 \in 1 .. Len(results)
          BY <2>1
        <4>2. PICK d \in Conns : results[1] = outcome[d]
          BY <4>1 DEF Inv, Announced
        <4> QED BY <2>1, <3>2, <4>2 DEF Results
      <3> QED BY <2>0, <3>1, <3>2
    <2>8. Announced'
      <3>1. /\ main' # "first"
            /\ main' \in {"cutLeft", "cutRight"} => failed'
        BY <1>2 DEF ReceiveFirst, ReceiveSecond
      <3> QED BY <1>0, <2>4, <2>5, <2>6, <2>7, <3>1 DEF Announced
    <2>9. Causes' /\ Decided'
      <3>1. Causes'
        BY <1>0, <2>0 DEF Inv, Causes, Cause
      <3>2. returned = "none" /\ main' \in {"cutLeft", "second", "collect"}
        BY <1>2 DEF Inv, Decided, ReceiveFirst, ReceiveSecond
      <3> QED BY <1>0, <2>0, <3>1, <3>2 DEF Decided
    <2> QED BY <1>1, <2>3, <2>8, <2>9 DEF Inv
  <1>3. ASSUME MainInterrupts PROVE Inv'
    <2> USE DEF MainInterrupts
    <2>1. TypeOK'
      <3>1. deadline' \subseteq Conns /\ main' \in {"cutRight", "second"}
        BY <1>3 DEF Inv, TypeOK, Conns
      <3> QED BY <1>0, <1>3, <3>1 DEF Inv, TypeOK
    <2>2. Received' = Received /\ failed
      BY <1>3 DEF Inv, Announced, Received
    <2>3. Announced'
      BY <1>0, <1>3, <2>2 DEF Inv, Announced, One
    <2>4. Causes'
      <3>1. Cause
        BY <2>2, FailureHasCause
      <3>2. deadline \subseteq deadline'
        BY <1>3
      <3> QED BY <1>0, <3>1, <3>2 DEF Inv, Causes, Cause
    <2>5. Decided'
      BY <1>0, <1>3 DEF Inv, Decided
    <2> QED BY <1>1, <2>1, <2>3, <2>4, <2>5 DEF Inv
  <1>4. ASSUME Collect PROVE Inv'
    <2> USE DEF Collect
    <2>1. TypeOK'
      <3>1. returned' \in {"none", "nil", "error", "ctx", "idle"}
        BY <1>4 DEF Inv, TypeOK
      <3> QED BY <1>0, <1>4, <3>1 DEF Inv, TypeOK
    <2>2. Received' = Received
      BY <1>4 DEF Received
    <2>3. Announced' /\ Causes'
      BY <1>0, <1>4, <2>2 DEF Inv, Announced, One, Causes, Cause
    <2>4. returned' # "none" /\ (returned' = "nil" => ~failed)
      BY <1>4 DEF Inv, TypeOK
    <2>5. returned' = "error" => \E d \in Conns : outcome[d] = "io"
      BY <1>4, FailureHasCause DEF Inv, TypeOK, Cause
    <2>6. Decided'
      BY <1>0, <1>4, <2>4, <2>5 DEF Inv, Decided
    <2> QED BY <1>1, <2>1, <2>3, <2>6 DEF Inv
  <1>5. ASSUME StopWatcher PROVE Inv'
    <2> USE DEF StopWatcher
    <2>1. TypeOK'
      BY <1>0, <1>5 DEF Inv, TypeOK
    <2>2. Received' = Received
      BY <1>5 DEF Received
    <2>3. Announced' /\ Causes'
      BY <1>0, <1>5, <2>2 DEF Inv, Announced, One, Causes, Cause
    <2>4. Decided'
      BY <1>0, <1>5 DEF Inv, Decided
    <2> QED BY <1>1, <2>1, <2>3, <2>4 DEF Inv
  <1> QED BY <1>2, <1>3, <1>4, <1>5 DEF Copy

\* watchRelay.
LEMMA WatchInv ==
  ASSUME Inv, watchRelay
  PROVE  Inv'
  <1> USE DEF copyVars, mainVars, unwatchedVars
  <1>0. UNCHANGED <<unread, eof, copyVars, mainVars, ctxDone, quiet>>
    BY DEF watchRelay
  <1>1. Streams' /\ Announced'
    BY <1>0 DEF Inv, Streams, Announced, Received, One
  <1>2. TypeOK'
    <2>1. /\ deadline' \subseteq Conns
          /\ watch' \in {"select", "reset", "cutLeft", "cutRight", "ended"}
          /\ interrupted' \in {"none", "ctx", "idle"}
      BY DEF watchRelay, Inv, TypeOK, Conns, WatchDone, WatchContext, WatchActivity,
             WatchReset, WatchIdle, WatchInterrupts
    <2>2. timer' \in 0 .. IdleTimeout
      BY CopyAssumption DEF watchRelay, Inv, TypeOK, WatchDone, WatchContext,
             WatchActivity, WatchReset, WatchIdle, WatchInterrupts
    <2>3. activity' \in BOOLEAN
      BY DEF watchRelay, Inv, TypeOK, WatchDone, WatchContext, WatchActivity,
             WatchReset, WatchIdle, WatchInterrupts
    <2> QED BY <1>0, <2>1, <2>2, <2>3 DEF Inv, TypeOK
  <1>3. Causes'
    <2>1. interrupted # "none" => interrupted' # "none"
      BY DEF watchRelay, WatchDone, WatchContext, WatchActivity, WatchReset, WatchIdle,
             WatchInterrupts
    <2>2. deadline' = deadline \/ (interrupted # "none" /\ deadline \subseteq deadline')
      BY DEF watchRelay, Inv, Causes, WatchDone, WatchContext, WatchActivity, WatchReset,
             WatchIdle, WatchInterrupts
    <2>3. watch' \in {"cutLeft", "cutRight"} => interrupted' # "none"
      BY DEF watchRelay, Inv, Causes, WatchDone, WatchContext, WatchActivity, WatchReset,
             WatchIdle, WatchInterrupts
    <2> QED BY <1>0, <2>1, <2>2, <2>3 DEF Inv, Causes, Cause
  <1>4. Decided'
    <2>1. watch # "ended"
      BY DEF watchRelay, WatchDone, WatchContext, WatchActivity, WatchReset, WatchIdle,
             WatchInterrupts
    <2> QED BY <1>0, <2>1 DEF Inv, Decided
  <1>5. Timed'
    <2>1. CASE WatchReset
      BY <1>0, <2>1 DEF WatchReset, Inv, TypeOK, Timed
    <2>2. CASE WatchActivity
      <3>1. CASE IdleTimeout > 0
        BY <2>2, <3>1 DEF WatchActivity, Timed
      <3>2. CASE ~(IdleTimeout > 0)
        BY <1>0, <1>2, <3>2, CopyAssumption DEF TypeOK, Timed, Inv
      <3> QED BY <3>1, <3>2
    <2>3. CASE WatchDone \/ WatchContext \/ WatchIdle \/ WatchInterrupts
      BY <2>3 DEF WatchDone, WatchContext, WatchIdle, WatchInterrupts, Timed
    <2> QED BY <2>1, <2>2, <2>3 DEF watchRelay
  <1> QED BY <1>1, <1>2, <1>3, <1>4, <1>5 DEF Inv

\* Every step of the relay keeps the invariant.
LEMMA NextInv == Inv /\ [Next]_vars => Inv'
  <1> SUFFICES ASSUME Inv, [Next]_vars PROVE Inv'
    OBVIOUS
  <1>1. CASE Next
    BY <1>1, OutsideInv, CopyDirectionInv, MainInv, WatchInv DEF Next
  <1>2. CASE UNCHANGED vars
    <2> USE <1>2 DEF vars, copyVars, mainVars, watchVars
    <2>1. TypeOK' /\ Streams'
      BY DEF Inv, TypeOK, Streams
    <2>2. Announced' /\ Causes' /\ Decided' /\ Timed'
      BY DEF Inv, Announced, Received, One, Causes, Cause, Decided, Timed
    <2> QED BY <2>1, <2>2 DEF Inv
  <1> QED BY <1>1, <1>2

-----------------------------------------------------------------------------

\* Once Copy has both results, both copies have ended and the channel is empty.
LEMMA BothResults ==
  ASSUME Inv, Received = 2
  PROVE  /\ \A d \in Conns : copying[d] = "ended"
         /\ results = <<>>
  <1>1. Len(results) \in Nat /\ results \in Seq(Results)
    BY DEF Inv, TypeOK
  <1>2. Len(results) + 2 = One("left") + One("right")
    BY DEF Inv, Announced
  <1>3. /\ One("left") \in {0, 1}
        /\ One("left") = 1 => copying["left"] = "ended"
        /\ One("right") \in {0, 1}
        /\ One("right") = 1 => copying["right"] = "ended"
    BY DEF One
  <1>4. One("left") = 1 /\ One("right") = 1 /\ Len(results) = 0
    <2> HIDE DEF One
    <2> QED BY <1>1, <1>2, <1>3
  <1> QED BY <1>1, <1>3, <1>4 DEF Conns

\* The invariant holds in every reachable state of Copy.
THEOREM CopyInvariant == Spec => []Inv
  BY InitInv, NextInv, PTL DEF Spec

\* Copy never reports success for a relay that lost a byte, nor tells a peer of the
\* end of a stream that was not delivered as a whole (copyDirection).
THEOREM CleanCopyIsComplete == Spec => []CleanMeansComplete
  <1>1. Inv => CleanMeansComplete
    <2> SUFFICES ASSUME Inv, NEW d \in Conns, returned = "nil" \/ Other(d) \in halfClosed
                 PROVE  outcome[d] = "nil"
      BY DEF CleanMeansComplete, Inv, Streams
    <2>1. CASE Other(d) \in halfClosed
      BY <2>1 DEF Inv, Streams
    <2>2. CASE returned = "nil"
      <3>1. Received = 2
        BY <2>2 DEF Inv, TypeOK, Decided, Received
      <3>2. copying[d] = "ended" /\ results = <<>>
        BY <3>1, BothResults
      <3>3. Len(results) = 0
        BY <3>2
      <3> QED BY <2>2, <3>2, <3>3 DEF Inv, Decided, Announced
    <2> QED BY <2>1, <2>2
  <1> QED BY <1>1, CopyInvariant, PTL

\* Connections are cut for an error, a cancellation or idleness only, and an
\* interruption is never reported as an I/O error.
THEOREM CopyCutsForCause == Spec => [](CutForCause /\ InterruptReported)
  <1>1. Inv => CutForCause /\ InterruptReported
    BY DEF Inv, Causes, Cause, Decided, CutForCause, InterruptReported
  <1> QED BY <1>1, CopyInvariant, PTL

\* No goroutine of Copy outlives it.
THEOREM CopyJoins == Spec => []JoinedAtReturn
  <1>1. Inv => JoinedAtReturn
    <2> SUFFICES ASSUME Inv, main = "returned"
                 PROVE  watch = "ended" /\ \A d \in Conns : copying[d] = "ended"
      BY DEF JoinedAtReturn
    <2>1. Received = 2
      BY DEF Received
    <2> QED BY <2>1, BothResults DEF Inv, Decided
  <1> QED BY <1>1, CopyInvariant, PTL

\* The watcher declares idleness only after a full timeout without progress,
\* or with the token of the progress still in its hand.
THEOREM CopyNoFalseIdle == Spec => NoFalseIdle
  <1>1. Inv /\ [Next]_vars =>
          [interrupted = "none" /\ interrupted' = "idle" => quiet = IdleTimeout \/ activity]_vars
    <2> SUFFICES ASSUME Inv, Next, interrupted = "none", interrupted' = "idle"
                 PROVE  quiet = IdleTimeout \/ activity
      OBVIOUS
    <2>1. WatchIdle
      BY DEF Next, Peer, ContextEnds, Tick, Copy, CopyAlone, CopyWithPeer, watchRelay,
             watchVars, WatchDone, WatchContext, WatchActivity, WatchReset, WatchInterrupts
    <2> QED BY <2>1, CopyAssumption DEF WatchIdle, Inv, TypeOK, Timed
  <1> QED BY <1>1, CopyInvariant, PTL DEF Spec, NoFalseIdle

\* Copy keeps its types.
THEOREM CopyTypeOK == Spec => []TypeOK
  <1>1. Inv => TypeOK
    BY DEF Inv
  <1> QED BY <1>1, CopyInvariant, PTL

\* An interruption is never reported as an I/O error (Copy, watchRelay).
THEOREM CopyReportsInterrupts == Spec => []InterruptReported
  BY CopyCutsForCause, PTL
=============================================================================
