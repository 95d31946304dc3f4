---------------------------- MODULE IdentityStore -----------------------------
(***************************************************************************)
(* Starting processes that share one identity file:                        *)
(* loadOrCreateIdentity in internal/tunnel/identity.go, within NewServer   *)
(* and NewClient, within the server and client commands.                   *)
(*                                                                         *)
(* The steps of different processes interleave, and a process or the whole *)
(* machine may stop between any two of them.  A supervisor, outside the    *)
(* code, starts again what has stopped.  The file's content is a number of *)
(* blocks, of which PEM parsing needs all.                                 *)
(***************************************************************************)
EXTENDS Naturals

CONSTANTS
  Processes,
  Servers,       \* those that run the server command; the others run client
  Keys, None,
  Blocks,        \* what is written of an identity before it parses
  Disturbances   \* how many failures, crashes and stops there are

ASSUME StoreAssumption ==
  /\ Servers \subseteq Processes /\ None \notin Keys
  /\ Blocks \in Nat \ {0} /\ Disturbances \in Nat

VARIABLES
  file,        \* what is at the path
  pc,          \* per process
  draft,       \* the identity it has generated
  mem,         \* the identity that loadOrCreateIdentity has returned to it
  told,        \* the identity it has reported and proves to its peers
  cutShort,    \* the file's creator was stopped, or could not write or remove it
  left         \* disturbances left

vars == <<file, pc, draft, mem, told, cutShort, left>>

NoFile == [key |-> None, size |-> 0, private |-> FALSE, synced |-> FALSE]

Writing == {"restrict", "write", "sync"}

Init ==
  /\ file = NoFile
  /\ pc = [p \in Processes |-> "down"]
  /\ draft = [p \in Processes |-> None]
  /\ mem = [p \in Processes |-> None]
  /\ told = [p \in Processes |-> None]
  /\ cutShort = FALSE
  /\ left = Disturbances

Missing == file.key = None

\* LoadIdentity succeeds.
Loads == ~Missing /\ file.private /\ file.size = Blocks

Broken == ~Missing /\ ~Loads /\ \A p \in Processes : pc[p] \notin Writing

Disturb == left > 0 /\ left' = left - 1

Goto(p, to) == pc' = [pc EXCEPT ![p] = to]

-----------------------------------------------------------------------------

\* The client reads its token before the identity, the server after it.
Start(p) ==
  /\ pc[p] \in {"down", "failed"}
  /\ Goto(p, IF p \in Servers THEN "load" ELSE "token")
  /\ draft' = [draft EXCEPT ![p] = None] /\ mem' = [mem EXCEPT ![p] = None]
  /\ UNCHANGED <<file, told, cutShort, left>>

ReadToken(p) ==
  /\ pc[p] = "token"
  /\ \/ Goto(p, IF p \in Servers THEN "listen" ELSE "load") /\ UNCHANGED left
     \/ Goto(p, "failed") /\ Disturb
  /\ UNCHANGED <<file, draft, mem, told, cutShort>>

Loaded(p) ==
  /\ mem' = [mem EXCEPT ![p] = file.key]
  /\ Goto(p, IF p \in Servers THEN "token" ELSE "listen")

\* LoadIdentity, and whether to create one.
Load(p) ==
  /\ pc[p] = "load"
  /\ \/ Loads /\ Loaded(p)
     \/ Missing /\ Goto(p, "create") /\ UNCHANGED mem
     \/ ~Missing /\ ~Loads /\ Goto(p, "failed") /\ UNCHANGED mem
  /\ UNCHANGED <<file, draft, told, cutShort, left>>

\* Mutant: without O_EXCL a file that is there is truncated.
OpenFileTruncates(p) ==
  /\ pc[p] = "create"
  /\ \E key \in Keys : draft' = [draft EXCEPT ![p] = key]
  /\ file' = [NoFile EXCEPT !.key = draft'[p], !.private = TRUE]
  /\ Goto(p, "restrict")
  /\ UNCHANGED <<mem, told, cutShort, left>>

\* O_CREATE|O_EXCL, after the directory is made and a key is generated.  The
\* mode makes the file private on Unix but not on Windows.
OpenFile(p) ==
  /\ pc[p] = "create" /\ Missing
  /\ \E key \in Keys : draft' = [draft EXCEPT ![p] = key]
  /\ \E private \in BOOLEAN : file' = [NoFile EXCEPT !.key = draft'[p], !.private = private]
  /\ Goto(p, "restrict")
  /\ UNCHANGED <<mem, told, cutShort, left>>

\* Another process was first.
FileExists(p) ==
  /\ pc[p] = "create" /\ ~Missing /\ Goto(p, "reload")
  /\ UNCHANGED <<file, draft, mem, told, cutShort, left>>

CreateFails(p) ==
  /\ pc[p] = "create" /\ Goto(p, "failed") /\ Disturb
  /\ UNCHANGED <<file, draft, mem, told, cutShort>>

Restrict(p) ==
  /\ pc[p] = "restrict"
  /\ file' = [file EXCEPT !.private = TRUE]
  /\ Goto(p, "write")
  /\ UNCHANGED <<draft, mem, told, cutShort, left>>

\* Mutant: nothing removes the empty file.
RestrictFailsLeavesFile(p) ==
  /\ pc[p] = "restrict" /\ Goto(p, "failed") /\ Disturb
  /\ UNCHANGED <<file, draft, mem, told, cutShort>>

\* The empty file is removed; the removal, too, may fail, and nobody looks.
RestrictFails(p) ==
  /\ pc[p] = "restrict" /\ Goto(p, "failed") /\ Disturb
  /\ \/ file' = NoFile /\ UNCHANGED cutShort
     \/ cutShort' = TRUE /\ UNCHANGED file
  /\ UNCHANGED <<draft, mem, told>>

WriteBlock(p) ==
  /\ pc[p] = "write"
  /\ file' = [file EXCEPT !.size = @ + 1]
  /\ Goto(p, IF file.size + 1 = Blocks THEN "sync" ELSE "write")
  /\ UNCHANGED <<draft, mem, told, cutShort, left>>

Sync(p) ==
  /\ pc[p] = "sync"
  /\ file' = [file EXCEPT !.synced = TRUE]
  /\ Goto(p, "reload")
  /\ UNCHANGED <<draft, mem, told, cutShort, left>>

\* A write, or the sync or close after it, fails: the file stays as it is.
WriteFails(p) ==
  /\ pc[p] \in {"write", "sync"} /\ Goto(p, "failed") /\ Disturb
  /\ cutShort' = TRUE
  /\ UNCHANGED <<file, draft, mem, told>>

\* The creator, too, takes what is in the file.
Reload(p) ==
  /\ pc[p] = "reload"
  /\ \/ Loads /\ Loaded(p)
     \/ ~Loads /\ Goto(p, "failed") /\ UNCHANGED mem
  /\ UNCHANGED <<file, draft, told, cutShort, left>>

\* The resolver and the listener; then the pin is logged.
Serve(p) ==
  /\ pc[p] = "listen"
  /\ \/ Goto(p, "up") /\ told' = [told EXCEPT ![p] = mem[p]] /\ UNCHANGED left
     \/ Goto(p, "failed") /\ Disturb /\ UNCHANGED told
  /\ UNCHANGED <<file, draft, mem, cutShort>>

-----------------------------------------------------------------------------

\* A signal, a failure of the listener, or a crash.
Stop(p) ==
  /\ pc[p] # "down" /\ Goto(p, "down") /\ Disturb
  /\ told' = [told EXCEPT ![p] = None]
  /\ cutShort' = (cutShort \/ pc[p] \in Writing)
  /\ UNCHANGED <<file, draft, mem>>

\* What was not synced may be gone, in part or with its directory entry.  What
\* is left is on the disk.
PowerFailure ==
  /\ Disturb
  /\ \/ file' = [file EXCEPT !.synced = ~Missing]
     \/ ~file.synced /\ ~Missing
        /\ \/ file' = NoFile
           \/ \E size \in 0..file.size : file' = [file EXCEPT !.size = size, !.synced = TRUE]
  /\ pc' = [p \in Processes |-> "down"]
  /\ told' = [p \in Processes |-> None]
  /\ cutShort' = (cutShort \/ \E p \in Processes : pc[p] \in Writing)
  /\ UNCHANGED <<draft, mem>>

\* The operator removes what no start accepts; nothing else does.
RemoveBroken ==
  /\ Broken /\ file' = NoFile /\ cutShort' = FALSE
  /\ UNCHANGED <<pc, draft, mem, told, left>>

-----------------------------------------------------------------------------

Starting(p) ==
  \/ Start(p) \/ ReadToken(p) \/ Load(p) \/ OpenFile(p) \/ FileExists(p) \/ CreateFails(p)
  \/ Restrict(p) \/ RestrictFails(p) \/ WriteBlock(p) \/ Sync(p) \/ WriteFails(p)
  \/ Reload(p) \/ Serve(p)

Next == (\E p \in Processes : Starting(p) \/ Stop(p)) \/ PowerFailure \/ RemoveBroken

Spec == Init /\ [][Next]_vars

\* Processes run, and the supervisor starts them again.  The operator need not
\* come.
FairSpec == Spec /\ \A p \in Processes : WF_vars(Starting(p))

-----------------------------------------------------------------------------
(***************************************************************************)
(* Properties.                                                             *)
(***************************************************************************)

\* The register: the identity is chosen when the last block is written.
Register == INSTANCE IdentityRegister WITH
  pin <- IF Loads THEN file.key ELSE None,
  kept <- Loads /\ file.synced

\* However starts interleave with each other and with crashes, all processes
\* prove one identity and no later start replaces it.
WritesOnce == Register!RegisterSpec

\* Every process ends up serving.  Only when a creator was stopped before its
\* file was complete, could not write it, or could not remove it after its
\* access control had failed, may a file stay that no start accepts.
EventuallyServes ==
  \/ <>[](Broken /\ cutShort)
  \/ \A p \in Processes : <>[](pc[p] = "up" /\ told[p] = file.key)
=============================================================================
