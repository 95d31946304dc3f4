----------------------------- MODULE OpenContract -----------------------------
(***************************************************************************)
(* What Open promises its caller, without messages, deadlines or           *)
(* callbacks: a stream is returned only when the relay has reached the     *)
(* destination, and Open ends once.                                        *)
(***************************************************************************)
VARIABLES caller,  \* "opening", "opened", "failed"
          relay    \* "idle", "connected", "left" (after it was connected), "refused"

contractVars == <<caller, relay>>

ContractInit == caller = "opening" /\ relay = "idle"

\* The relay connects to the destination, or never will.
Reach ==
  /\ relay = "idle"
  /\ relay' \in {"connected", "refused"}
  /\ UNCHANGED caller

\* It lets go of the destination whenever it likes.
Leave ==
  /\ relay = "connected"
  /\ relay' = "left"
  /\ UNCHANGED caller

Succeed ==
  /\ caller = "opening" /\ relay \in {"connected", "left"}
  /\ caller' = "opened"
  /\ UNCHANGED relay

GiveUp ==
  /\ caller = "opening"
  /\ caller' = "failed"
  /\ UNCHANGED relay

ContractNext == Reach \/ Leave \/ Succeed \/ GiveUp

ContractSpec == ContractInit /\ [][ContractNext]_contractVars
=============================================================================
