---------------------------- MODULE FailureTable ----------------------------
(***************************************************************************)
(* What the relay's authentication-failure limiter promises, without the   *)
(* linked list it is built from (internal/relay/limiter.go).               *)
(*                                                                         *)
(* A tracked source has a failure count and the age of its window, the     *)
(* time since its first failure.  Ages stand for the code's absolute       *)
(* window starts: the code only ever compares now - start with the window  *)
(* and one start with another.  An age stops growing at the window's       *)
(* length, where the window counts as expired whatever its exact age.      *)
(* A source that is not tracked has count 0 and age 0.                     *)
(***************************************************************************)
EXTENDS Naturals, FiniteSets

CONSTANTS Sources,            \* rate-limit keys
          authFailureLimit,   \* failures that block a source
          authFailureWindow,  \* length of a window, in ticks
          maxAuthSources      \* sources tracked at once

VARIABLES count, age

tableVars == <<count, age>>

Tracked == {s \in Sources : count[s] > 0}

Expired(s) == count[s] > 0 /\ age[s] >= authFailureWindow

Live(s) == count[s] > 0 /\ age[s] < authFailureWindow

\* The answer of blocked(s).
IsBlocked(s) == Live(s) /\ count[s] >= authFailureLimit

-----------------------------------------------------------------------------

TableInit ==
  /\ count = [s \in Sources |-> 0]
  /\ age = [s \in Sources |-> 0]

Forget(V) ==
  /\ count' = [s \in Sources |-> IF s \in V THEN 0 ELSE count[s]]
  /\ age' = [s \in Sources |-> IF s \in V THEN 0 ELSE age[s]]

\* What blocked(s) does besides answering: an expired window is dropped.
Ask(s) ==
  \/ Expired(s) /\ Forget({s})
  \/ ~Expired(s) /\ UNCHANGED tableVars

\* A failure in a live window is counted; the window does not move.
Recount(s) ==
  /\ Live(s)
  /\ count' = [count EXCEPT ![s] = @ + 1]
  /\ UNCHANGED age

\* A failure outside a live window opens one.  When every slot is taken by
\* another source, one with the earliest window is evicted.
Open(s, V) ==
  /\ ~Live(s)
  /\ IF Cardinality(Tracked \ {s}) >= maxAuthSources
       THEN \E v \in Tracked \ {s} :
              /\ V = {v}
              /\ \A t \in Tracked \ {s} : age[t] <= age[v]
       ELSE V = {}
  /\ count' = [t \in Sources |->
                 IF t = s THEN 1 ELSE IF t \in V THEN 0 ELSE count[t]]
  /\ age' = [t \in Sources |-> IF t \in V \cup {s} THEN 0 ELSE age[t]]

Record(s) == Recount(s) \/ \E V \in SUBSET Tracked : Open(s, V)

\* A good HELLO clears the source.
Reset(s) == Forget({s})

\* Time passes for every tracked source.
Tick ==
  /\ age' = [s \in Sources |->
               IF Live(s) THEN age[s] + 1 ELSE age[s]]
  /\ UNCHANGED count

TableNext ==
  \/ Tick
  \/ \E s \in Sources : Ask(s) \/ Record(s) \/ Reset(s)

TableSpec == TableInit /\ [][TableNext]_tableVars
=============================================================================
