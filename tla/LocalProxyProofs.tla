--------------------------- MODULE LocalProxyProofs ---------------------------
(***************************************************************************)
(* The local proxy's safety properties for any number of connections.      *)
(***************************************************************************)
EXTENDS LocalProxy, TLAPS

\* What a handler holds, by where it is.
Held ==
  /\ \A c \in Conns : c \in active <=> pc[c] \in Session
  /\ \A c \in remote : pc[c] \in Session \ {"open", "untrack"}
  /\ \A c \in hijacked : pc[c] \notin {"new", "track", "open", "hijack"}

\* The phases of Shutdown after http.Shutdown, and after activeDone.
AfterDone == {"select", "forced", "cutting", "await", "returned"}
AfterHttp == AfterDone \cup {"activeDone"}

\* http.Shutdown without an error leaves no request that could become a session.
Emptied ==
  /\ phase \notin {"serving", "draining"} => ~listening
  /\ phase \in AfterHttp /\ ~httpErr =>
       \A c \in Conns : pc[c] \notin {"new", "track", "open", "hijack"}

\* The channel Shutdown holds, and what Shutdown has made of it.
Waited ==
  /\ done # "none" <=> phase \in AfterDone
  /\ done = "closed" => httpErr
  /\ result = "nil" => ~httpErr /\ active = {} /\ phase = "returned"

Inv == TypeOK /\ ChannelTracksActive /\ Held /\ Emptied /\ Waited

-----------------------------------------------------------------------------

\* A new server satisfies the invariant.
LEMMA InitInv == Init => Inv
  <1> SUFFICES ASSUME Init PROVE Inv
    OBVIOUS
  <1> USE DEF Init
  <1>1. TypeOK
    BY DEF TypeOK, Labels, Channels
  <1>2. ChannelTracksActive /\ Held /\ Emptied /\ Waited
    BY DEF ChannelTracksActive, Held, Session, Emptied, Waited, AfterHttp, AfterDone
  <1> QED BY <1>1, <1>2 DEF Inv

\* A handler's move changes one pc.
LEMMA GotoFacts ==
  ASSUME NEW c \in Conns, NEW from, NEW to \in Labels, TypeOK, Goto(c, from, to)
  PROVE  /\ pc[c] = from /\ pc'[c] = to
         /\ \A b \in Conns : b # c => pc'[b] = pc[b]
         /\ pc' \in [Conns -> Labels]
  BY DEF Goto, TypeOK

\* The handler's steps that leave the map and the channel alone.
LEMMA PlainStep ==
  ASSUME Inv, NEW c \in Conns, NEW from, NEW to \in Labels, Goto(c, from, to),
         UNCHANGED <<active, channelVars, shutdownVars>>,
         hasConn' \subseteq Conns, cancelled' \subseteq Conns, closed' \subseteq Conns,
         from \in Session <=> to \in Session,
         to \in {"new", "track", "open", "hijack"} =>
           from \in {"new", "track", "open", "hijack"} \/ listening,
         \/ remote' = remote /\ (c \in remote => to \in Session \ {"open", "untrack"})
         \/ remote' = remote \ {c}
         \/ remote' = remote \cup {c} /\ to \in Session \ {"open", "untrack"},
         \/ hijacked' = hijacked /\ (c \in hijacked => to \notin {"new", "track", "open", "hijack"})
         \/ hijacked' = hijacked \ {c}
         \/ hijacked' = hijacked \cup {c} /\ to \notin {"new", "track", "open", "hijack"}
  PROVE  Inv'
  <1>1. /\ pc[c] = from /\ pc'[c] = to
        /\ \A b \in Conns : b # c => pc'[b] = pc[b]
        /\ pc' \in [Conns -> Labels]
    BY GotoFacts DEF Inv
  <1> USE DEF channelVars, shutdownVars
  <1>2. TypeOK'
    BY <1>1 DEF Inv, TypeOK
  <1>3. ChannelTracksActive' /\ Waited'
    BY DEF Inv, ChannelTracksActive, Waited
  <1>4. Held'
    <2>1. \A b \in Conns : b \in active' <=> pc'[b] \in Session
      BY <1>1 DEF Inv, Held
    <2>2. \A b \in remote' : pc'[b] \in Session \ {"open", "untrack"}
      BY <1>1 DEF Inv, Held, TypeOK
    <2>3. \A b \in hijacked' : pc'[b] \notin {"new", "track", "open", "hijack"}
      BY <1>1 DEF Inv, Held, TypeOK
    <2> QED BY <2>1, <2>2, <2>3 DEF Held
  <1>5. Emptied'
    BY <1>1 DEF Inv, TypeOK, Emptied, AfterHttp, AfterDone
  <1> QED BY <1>2, <1>3, <1>4, <1>5 DEF Inv

\* Every step of a handler other than track and untrack.
LEMMA HandlerInv ==
  ASSUME Inv, NEW c \in Conns,
         \/ Arrive(c) \/ ClientGone(c) \/ CheckRequest(c) \/ Open(c) \/ Hijack(c)
         \/ SetConnection(c) \/ Respond(c) \/ EndRelay(c) \/ CloseLocal(c)
         \/ CloseRemote(c) \/ Cancel(c)
  PROVE  Inv'
  <1> USE DEF Labels, Session, sessionVars, channelVars
  <1>0. /\ hasConn \subseteq Conns /\ cancelled \subseteq Conns /\ closed \subseteq Conns
        /\ c \in remote => pc[c] \in Session \ {"open", "untrack"}
        /\ c \in hijacked => pc[c] \notin {"new", "track", "open", "hijack"}
    BY DEF Inv, TypeOK, Held
  <1>1. CASE Arrive(c)
    BY <1>0, <1>1, PlainStep DEF Arrive, Goto
  <1>2. CASE ClientGone(c)
    <2> USE <1>2 DEF ClientGone, shutdownVars
    <2>1. TypeOK'
      BY DEF Inv, TypeOK
    <2>2. ChannelTracksActive' /\ Held' /\ Emptied' /\ Waited'
      BY DEF Inv, ChannelTracksActive, Held, Emptied, Waited
    <2> QED BY <2>1, <2>2 DEF Inv
  <1>3. CASE CheckRequest(c)
    <2>1. CASE Goto(c, "new", "free")
      BY <1>0, <1>3, <2>1, PlainStep DEF CheckRequest, Goto
    <2>2. CASE Goto(c, "new", "track")
      BY <1>0, <1>3, <2>2, PlainStep DEF CheckRequest, Goto
    <2> QED BY <1>3, <2>1, <2>2 DEF CheckRequest
  <1>4. CASE Open(c)
    <2>1. CASE Goto(c, "open", "untrack") /\ UNCHANGED remote
      BY <1>0, <1>4, <2>1, PlainStep DEF Open, Goto
    <2>2. CASE Goto(c, "open", "hijack") /\ remote' = remote \cup {c}
      BY <1>0, <1>4, <2>2, PlainStep DEF Open, Goto
    <2> QED BY <1>4, <2>1, <2>2 DEF Open
  <1>5. CASE Hijack(c)
    <2>1. CASE Goto(c, "hijack", "closeRemote") /\ UNCHANGED hijacked
      BY <1>0, <1>5, <2>1, PlainStep DEF Hijack, Goto
    <2>2. CASE Goto(c, "hijack", "setConnection") /\ hijacked' = hijacked \cup {c}
      BY <1>0, <1>5, <2>2, PlainStep DEF Hijack, Goto
    <2> QED BY <1>5, <2>1, <2>2 DEF Hijack
  <1>6. CASE SetConnection(c)
    BY <1>0, <1>6, PlainStep DEF SetConnection, Goto
  <1>7. CASE Respond(c)
    <2>1. CASE Goto(c, "respond", "closeLocal")
      BY <1>0, <1>7, <2>1, PlainStep DEF Respond, Goto
    <2>2. CASE Goto(c, "respond", "relay")
      BY <1>0, <1>7, <2>2, PlainStep DEF Respond, Goto
    <2> QED BY <1>7, <2>1, <2>2 DEF Respond
  <1>8. CASE EndRelay(c)
    BY <1>0, <1>8, PlainStep DEF EndRelay, Goto
  <1>9. CASE CloseLocal(c)
    BY <1>0, <1>9, PlainStep DEF CloseLocal, Goto
  <1>10. CASE CloseRemote(c)
    BY <1>0, <1>10, PlainStep DEF CloseRemote, Goto
  <1>11. CASE Cancel(c)
    BY <1>0, <1>11, PlainStep DEF Cancel, Goto
  <1> QED BY <1>1, <1>2, <1>3, <1>4, <1>5, <1>6, <1>7, <1>8, <1>9, <1>10, <1>11

\* track: the first session of a busy period replaces a channel that is closed.
LEMMA TrackInv ==
  ASSUME Inv, NEW c \in Conns, Track(c)
  PROVE  Inv'
  <1> USE DEF sessionVars, channelVars, shutdownVars
  <1>1. /\ pc[c] = "track" /\ pc'[c] = "open"
        /\ \A b \in Conns : b # c => pc'[b] = pc[b]
        /\ pc' \in [Conns -> Labels]
    BY GotoFacts DEF Inv, Track, Labels, Session
  <1>2. active' = active \cup {c} /\ zeroClosed' = FALSE
    BY DEF Track, Inv, TypeOK, ChannelTracksActive
  <1>3. phase \in AfterHttp => httpErr
    BY <1>1 DEF Inv, Emptied
  <1>4. done' = done \/ (done = "current" /\ done' = "closed")
    BY DEF Track, Inv, ChannelTracksActive
  <1>5. TypeOK'
    <2>1. done' \in Channels
      BY <1>4 DEF Inv, TypeOK, Channels
    <2> QED BY <1>1, <1>2, <2>1 DEF Track, Inv, TypeOK
  <1>6. ChannelTracksActive'
    BY <1>2, <1>4 DEF Inv, ChannelTracksActive
  <1>7. Held'
    BY <1>1, <1>2 DEF Track, Inv, TypeOK, Held, Session
  <1>8. Emptied'
    BY <1>1, <1>3 DEF Track, Inv, TypeOK, Emptied
  <1>9. Waited'
    <2>1. done = "current" => httpErr
      BY <1>3 DEF Inv, Waited, AfterHttp
    <2>2. result # "nil"
      BY <1>3 DEF Inv, Waited, AfterHttp, AfterDone
    <2> QED BY <1>4, <2>1, <2>2 DEF Track, Inv, Waited
  <1> QED BY <1>5, <1>6, <1>7, <1>8, <1>9 DEF Inv

\* untrack: the last session closes a channel that is open.
LEMMA UntrackInv ==
  ASSUME Inv, NEW c \in Conns, Untrack(c)
  PROVE  Inv'
  <1> USE DEF sessionVars, shutdownVars
  <1>1. /\ pc[c] = "untrack" /\ pc'[c] = "cancel"
        /\ \A b \in Conns : b # c => pc'[b] = pc[b]
        /\ pc' \in [Conns -> Labels]
    BY GotoFacts DEF Inv, Untrack, Labels, Session
  <1>2. active' = active \ {c} /\ c \in active
    BY <1>1 DEF Untrack, Inv, Held, Session
  <1>3. zeroClosed' <=> active' = {}
    BY <1>2 DEF Untrack, Inv, ChannelTracksActive
  <1>4. TypeOK'
    <2>1. zeroClosed' \in BOOLEAN
      BY DEF Untrack
    <2> QED BY <1>1, <1>2, <2>1 DEF Untrack, Inv, TypeOK
  <1>5. ChannelTracksActive'
    BY <1>3 DEF Untrack, Inv, ChannelTracksActive
  <1>6. Held'
    BY <1>1, <1>2 DEF Untrack, Inv, TypeOK, Held, Session
  <1>7. Emptied' /\ Waited'
    BY <1>1, <1>2 DEF Untrack, Inv, Emptied, Waited
  <1> QED BY <1>4, <1>5, <1>6, <1>7 DEF Inv

\* Shutdown and its deadline.
LEMMA ShutdownInv ==
  ASSUME Inv, StartDraining \/ Shutdown \/ Expire
  PROVE  Inv'
  <1> USE DEF handlerVars
  <1>0. UNCHANGED handlerVars
    BY DEF StartDraining, Shutdown, Expire, CloseListener, HttpShutdownReturns, FetchDone,
           SelectDone, SelectExpired, Snapshot, CutOffEnds, CutOff
  <1>1. Held'
    BY <1>0 DEF Inv, Held
  <1>2. ASSUME StartDraining \/ CloseListener PROVE Inv'
    <2> USE <1>0, <1>2 DEF StartDraining, CloseListener
    <2>1. TypeOK'
      BY DEF Inv, TypeOK
    <2>2. ChannelTracksActive' /\ Emptied' /\ Waited'
      BY DEF Inv, ChannelTracksActive, Emptied, Waited, AfterHttp, AfterDone
    <2> QED BY <1>1, <2>1, <2>2 DEF Inv
  <1>3. ASSUME HttpShutdownReturns PROVE Inv'
    <2> USE <1>0, <1>3 DEF HttpShutdownReturns
    <2>1. TypeOK'
      BY DEF Inv, TypeOK
    <2>2. Emptied'
      BY DEF Inv, Held, Emptied, HttpBusy
    <2>3. ChannelTracksActive' /\ Waited'
      BY DEF Inv, ChannelTracksActive, Waited, AfterDone
    <2> QED BY <1>1, <2>1, <2>2, <2>3 DEF Inv
  <1>4. ASSUME FetchDone PROVE Inv'
    <2> USE <1>0, <1>4 DEF FetchDone
    <2>1. TypeOK'
      BY DEF Inv, TypeOK, Channels
    <2>2. ChannelTracksActive' /\ Emptied' /\ Waited'
      BY DEF Inv, ChannelTracksActive, Emptied, Waited, AfterHttp, AfterDone
    <2> QED BY <1>1, <2>1, <2>2 DEF Inv
  <1>5. ASSUME SelectDone PROVE Inv'
    <2> USE <1>0, <1>5 DEF SelectDone
    <2>1. TypeOK'
      BY DEF Inv, TypeOK
    <2>2. ChannelTracksActive' /\ Emptied'
      BY DEF Inv, ChannelTracksActive, Emptied, AfterHttp, AfterDone
    <2>3. Waited'
      BY DEF Inv, ChannelTracksActive, Waited, DoneClosed, AfterDone
    <2> QED BY <1>1, <2>1, <2>2, <2>3 DEF Inv
  <1>6. ASSUME \/ SelectExpired \/ Snapshot \/ CutOffEnds \/ Expire
               \/ \E c \in Conns : CutOff(c)
        PROVE  Inv'
    <2>1. TypeOK'
      <3> USE DEF Inv, TypeOK
      <3>1. CASE SelectExpired
        BY <1>0, <3>1 DEF SelectExpired
      <3>2. CASE Snapshot
        BY <1>0, <3>2 DEF Snapshot
      <3>3. CASE CutOffEnds
        BY <1>0, <3>3 DEF CutOffEnds
      <3>4. CASE Expire
        BY <1>0, <3>4 DEF Expire
      <3>5. CASE \E c \in Conns : CutOff(c)
        BY <1>0, <3>5 DEF CutOff
      <3> QED BY <1>6, <3>1, <3>2, <3>3, <3>4, <3>5
    <2> USE <1>0, <1>6 DEF SelectExpired, Snapshot, CutOffEnds, Expire, CutOff
    <2>2. UNCHANGED <<listening, httpErr, done, result>>
      OBVIOUS
    <2>3. phase' = phase \/ (phase \in AfterDone \ {"returned"} /\ phase' \in AfterDone)
      BY DEF AfterDone
    <2>4. ChannelTracksActive'
      BY <2>2 DEF Inv, ChannelTracksActive
    <2>5. Emptied' /\ Waited'
      BY <2>2, <2>3 DEF Inv, Emptied, Waited, AfterHttp, AfterDone
    <2> QED BY <1>1, <2>1, <2>4, <2>5 DEF Inv
  <1> QED BY <1>2, <1>3, <1>4, <1>5, <1>6 DEF Shutdown

\* Every step of the proxy keeps the invariant.
LEMMA NextInv == Inv /\ [Next]_vars => Inv'
  <1> SUFFICES ASSUME Inv, [Next]_vars PROVE Inv'
    OBVIOUS
  <1>1. CASE Next
    BY <1>1, HandlerInv, TrackInv, UntrackInv, ShutdownInv DEF Next, Handler
  <1>2. CASE UNCHANGED vars
    <2> USE <1>2 DEF vars, sessionVars, channelVars, shutdownVars
    <2>1. TypeOK'
      BY DEF Inv, TypeOK
    <2>2. ChannelTracksActive' /\ Held' /\ Emptied' /\ Waited'
      BY DEF Inv, ChannelTracksActive, Held, Emptied, Waited
    <2> QED BY <2>1, <2>2 DEF Inv
  <1> QED BY <1>1, <1>2

-----------------------------------------------------------------------------

\* The invariant holds in every reachable state of the proxy.
THEOREM ProxyInvariant == Spec => []Inv
  BY InitInv, NextInv, PTL DEF Spec

\* activeZero is closed exactly while the map is empty, so no untrack closes it
\* twice, and Shutdown's channel is never replaced while it is open.
THEOREM ProxyChannel == Spec => []ChannelTracksActive
  <1>1. Inv => ChannelTracksActive
    BY DEF Inv
  <1> QED BY <1>1, ProxyInvariant, PTL

\* No tunnel stream outlives its session's place in the map.
THEOREM ProxyStreamsTracked == Spec => []StreamsTracked
  <1>1. Inv => StreamsTracked
    BY DEF Inv, TypeOK, Held, StreamsTracked
  <1> QED BY <1>1, ProxyInvariant, PTL

\* A Shutdown that returns nil has drained the proxy.
THEOREM ProxyGracefulDrain == Spec => []GracefulDrain
  <1>1. Inv => GracefulDrain
    <2> SUFFICES ASSUME Inv, phase = "returned", result = "nil"
                 PROVE  /\ At(Labels \ {"free", "cancel"}) = {}
                        /\ active = {} /\ remote = {}
                        /\ ~listening
      BY DEF GracefulDrain
    <2>1. active = {} /\ ~httpErr /\ ~listening
      BY DEF Inv, Waited, Emptied
    <2>2. \A c \in Conns : pc[c] \notin Session \cup {"new", "track"}
      BY <2>1 DEF Inv, Held, Emptied, AfterHttp, AfterDone
    <2>3. At(Labels \ {"free", "cancel"}) = {}
      BY <2>2 DEF At, Labels
    <2>4. remote = {}
      BY <2>2 DEF Inv, TypeOK, Held
    <2> QED BY <2>1, <2>3, <2>4
  <1> QED BY <1>1, ProxyInvariant, PTL
=============================================================================
