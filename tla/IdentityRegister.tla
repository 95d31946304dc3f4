--------------------------- MODULE IdentityRegister ---------------------------
(***************************************************************************)
(* What the pins that operators copy around need of the identity file: a   *)
(* register that is written once.  Whoever serves proves the identity in   *)
(* it, and it is never replaced; only a power failure may undo the choice, *)
(* and only as long as nobody has made it durable.                         *)
(***************************************************************************)
CONSTANTS Processes, Keys, None

VARIABLES pin,    \* the identity, or None
          kept,   \* it is durable
          told    \* per process, the identity it proves and reports, or None

registerVars == <<pin, kept, told>>

Nobody == [p \in Processes |-> None]

RegisterInit == pin = None /\ kept = FALSE /\ told = Nobody

Choose == pin = None /\ pin' \in Keys /\ UNCHANGED <<kept, told>>

Keep == pin # None /\ kept' = TRUE /\ UNCHANGED <<pin, told>>

Tell(p) == pin # None /\ told' = [told EXCEPT ![p] = pin] /\ UNCHANGED <<pin, kept>>

Leave(p) == told' = [told EXCEPT ![p] = None] /\ UNCHANGED <<pin, kept>>

PowerFails ==
  /\ told' = Nobody
  /\ \/ pin' = pin /\ kept' = (pin # None)
     \/ ~kept /\ pin' = None /\ kept' = FALSE

RegisterNext ==
  \/ Choose \/ Keep \/ PowerFails
  \/ \E p \in Processes : Tell(p) \/ Leave(p)

RegisterSpec == RegisterInit /\ [][RegisterNext]_registerVars
=============================================================================
