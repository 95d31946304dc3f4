------------------------------- MODULE BytePipe -------------------------------
(***************************************************************************)
(* What inner TLS needs of the connection below it, in one direction:      *)
(* bytes arrive in order, none missing and none added, until a write has   *)
(* failed; what arrives then is for TLS to reject.                         *)
(***************************************************************************)
EXTENDS Naturals, Sequences

VARIABLES sent,    \* the bytes given to Write
          got,     \* the bytes Read has returned at the other end
          failed   \* a write has failed

pipeVars == <<sent, got, failed>>

PipeInit == sent = <<>> /\ got = <<>> /\ failed = FALSE

\* The bytes are numbered in the order they are written.
Put ==
  /\ Len(sent') > Len(sent) /\ sent' = [i \in 1..Len(sent') |-> i]
  /\ UNCHANGED <<got, failed>>

Get ==
  /\ ~failed
  /\ \E n \in Len(got)..Len(sent) : got' = SubSeq(sent, 1, n)
  /\ UNCHANGED <<sent, failed>>

Break == failed' = TRUE /\ UNCHANGED sent

AfterBreak == failed /\ failed' = failed

PipeNext == Put \/ Get \/ Break \/ AfterBreak

PipeSpec == PipeInit /\ [][PipeNext]_pipeVars
=============================================================================
