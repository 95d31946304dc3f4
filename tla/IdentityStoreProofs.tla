-------------------------- MODULE IdentityStoreProofs --------------------------
(***************************************************************************)
(* Any number of processes that start on one identity file, with any       *)
(* number of failures, crashes and power failures between their steps,     *)
(* implement the register that is written once.                            *)
(***************************************************************************)
EXTENDS IdentityStore, TLAPS

Labels == {"down", "failed", "token", "load", "create", "reload", "listen", "up"} \cup Writing

TypeOK ==
  /\ file \in [key : Keys \cup {None}, size : 0..Blocks, private : BOOLEAN, synced : BOOLEAN]
  /\ pc \in [Processes -> Labels]
  /\ draft \in [Processes -> Keys \cup {None}]
  /\ mem \in [Processes -> Keys \cup {None}]
  /\ told \in [Processes -> Keys \cup {None}]

\* The process has the identity in memory.
Holds(p) == pc[p] \in {"listen", "up"} \/ (pc[p] = "token" /\ p \in Servers)

\* There is at most one writer, and how far the file is.
OneWriter ==
  \A p \in Processes : pc[p] \in Writing =>
    /\ ~Missing /\ ~file.synced
    /\ \A q \in Processes \ {p} : pc[q] \notin Writing
    /\ pc[p] = "restrict" => file.size = 0
    /\ pc[p] = "write" => file.private /\ file.size < Blocks
    /\ pc[p] = "sync" => file.private /\ file.size = Blocks

\* What a process holds is what the file has.
FileIsHeld == \A p \in Processes : Holds(p) => Loads /\ mem[p] = file.key

Inv == TypeOK /\ OneWriter /\ FileIsHeld

-----------------------------------------------------------------------------

\* Nobody holds an identity while the file is none.
LEMMA NobodyHolds ==
  ASSUME FileIsHeld, ~Loads, NEW p \in Processes
  PROVE  ~Holds(p)
  BY DEF FileIsHeld

\* A step that leaves the file alone keeps the invariant, when its process
\* neither starts to write nor to hold, or holds what the file has.
LEMMA QuietStep ==
  ASSUME Inv, NEW p \in Processes, NEW to \in Labels \ Writing,
         Goto(p, to), UNCHANGED file, draft' \in [Processes -> Keys \cup {None}],
         mem' \in [Processes -> Keys \cup {None}], told' \in [Processes -> Keys \cup {None}],
         \A q \in Processes \ {p} : mem'[q] = mem[q],
         Holds(p)' => Loads /\ mem'[p] = file.key
  PROVE  Inv'
  <1>1. /\ pc'[p] = to /\ pc' \in [Processes -> Labels]
        /\ \A q \in Processes \ {p} : pc'[q] = pc[q]
    BY DEF Inv, TypeOK, Goto
  <1>2. TypeOK'
    BY <1>1 DEF Inv, TypeOK
  <1>3. OneWriter'
    BY <1>1 DEF Inv, OneWriter, Missing
  <1>4. FileIsHeld'
    BY <1>1 DEF Inv, FileIsHeld, Holds, Loads, Missing
  <1> QED BY <1>2, <1>3, <1>4 DEF Inv

\* A step of the writer, or of the one who becomes it, while nobody holds.
LEMMA WriterStep ==
  ASSUME Inv, NEW p \in Processes, NEW to \in Labels,
         Goto(p, to), UNCHANGED mem, ~Holds(p)',
         draft' \in [Processes -> Keys \cup {None}], told' = told,
         file' \in [key : Keys \cup {None}, size : 0..Blocks, private : BOOLEAN, synced : BOOLEAN],
         \A q \in Processes \ {p} : pc[q] \notin Writing,
         ~Loads \/ (Loads' /\ file'.key = file.key),
         to \in Writing =>
           /\ ~Missing' /\ ~file'.synced
           /\ to = "restrict" => file'.size = 0
           /\ to = "write" => file'.private /\ file'.size < Blocks
           /\ to = "sync" => file'.private /\ file'.size = Blocks
  PROVE  Inv'
  <1>1. /\ pc'[p] = to /\ pc' \in [Processes -> Labels]
        /\ \A q \in Processes \ {p} : pc'[q] = pc[q]
    BY DEF Inv, TypeOK, Goto
  <1>2. TypeOK'
    BY <1>1 DEF Inv, TypeOK
  <1>3. OneWriter'
    BY <1>1 DEF OneWriter
  <1>4. FileIsHeld'
    <2> SUFFICES ASSUME NEW q \in Processes, Holds(q)'
                 PROVE  Loads' /\ mem'[q] = file'.key
      BY DEF FileIsHeld
    <2>1. q # p /\ Holds(q)
      BY <1>1 DEF Holds
    <2>2. Loads /\ mem[q] = file.key
      BY <2>1 DEF Inv, FileIsHeld
    <2> QED BY <2>2
  <1> QED BY <1>2, <1>3, <1>4 DEF Inv

\* The machine is down: only the file matters.
LEMMA DownStep ==
  ASSUME Inv, pc' = [p \in Processes |-> "down"], told' = [p \in Processes |-> None],
         UNCHANGED <<draft, mem>>,
         file' \in [key : Keys \cup {None}, size : 0..Blocks, private : BOOLEAN, synced : BOOLEAN]
  PROVE  Inv'
  BY DEF Inv, TypeOK, OneWriter, FileIsHeld, Holds, Labels, Writing

-----------------------------------------------------------------------------

LEMMA InitInv == Init => Inv
  BY StoreAssumption
     DEF Init, Inv, TypeOK, OneWriter, FileIsHeld, Holds, Labels, Writing, NoFile, Missing

\* What Holds and the labels say of a process at a label.
LEMMA HoldsWhere ==
  ASSUME Inv, NEW p \in Processes, NEW to \in Labels, Goto(p, to)
  PROVE  /\ pc'[p] = to
         /\ Holds(p)' <=> to \in {"listen", "up"} \/ (to = "token" /\ p \in Servers)
  BY DEF Inv, TypeOK, Goto, Holds

LEMMA OnlyWriter ==
  ASSUME Inv, NEW p \in Processes, pc[p] \in Writing
  PROVE  /\ ~Missing /\ ~file.synced
         /\ \A q \in Processes \ {p} : pc[q] \notin Writing
         /\ pc[p] = "restrict" => file.size = 0
         /\ pc[p] = "write" => file.private /\ file.size < Blocks
         /\ pc[p] = "sync" => file.private /\ file.size = Blocks
         /\ pc[p] # "sync" => ~Loads
  BY StoreAssumption DEF Inv, OneWriter, Loads, Writing

\* Start, ReadToken, Load, FileExists, CreateFails, Reload, Serve and Stop.
LEMMA QuietInv ==
  ASSUME Inv, NEW p \in Processes,
         \/ Start(p) \/ ReadToken(p) \/ Load(p) \/ FileExists(p)
         \/ CreateFails(p) \/ WriteFails(p) \/ Reload(p) \/ Serve(p) \/ Stop(p)
  PROVE  Inv'
  <1> USE DEF Labels
  <1>0. TypeOK /\ FileIsHeld
    BY DEF Inv
  <1>1. CASE Start(p)
    <2> DEFINE to == IF p \in Servers THEN "load" ELSE "token"
    <2>1. /\ to \in Labels \ Writing /\ Goto(p, to) /\ UNCHANGED <<file, told>>
      BY <1>1 DEF Start, Writing
    <2>2. ~Holds(p)'
      BY <2>1, HoldsWhere
    <2>3. draft' \in [Processes -> Keys \cup {None}] /\ mem' \in [Processes -> Keys \cup {None}]
      BY <1>0, <1>1 DEF Start, TypeOK
    <2>4. \A q \in Processes \ {p} : mem'[q] = mem[q]
      BY <1>0, <1>1 DEF Start, TypeOK
    <2> QED BY <1>0, <2>1, <2>2, <2>3, <2>4, QuietStep DEF TypeOK
  <1>2. CASE ReadToken(p)
    <2>1. UNCHANGED <<file, draft, mem, told>>
      BY <1>2 DEF ReadToken
    <2>2. CASE Goto(p, IF p \in Servers THEN "listen" ELSE "load")
      <3>1. CASE p \in Servers
        <4>1. Goto(p, "listen") /\ Holds(p)
          BY <1>2, <2>2, <3>1 DEF ReadToken, Holds
        <4>2. Loads /\ mem'[p] = file.key
          BY <1>0, <2>1, <4>1 DEF FileIsHeld
        <4> QED BY <1>0, <2>1, <4>1, <4>2, QuietStep DEF TypeOK, Writing
      <3>2. CASE p \notin Servers
        <4>1. Goto(p, "load")
          BY <2>2, <3>2
        <4>2. ~Holds(p)'
          BY <4>1, HoldsWhere
        <4> QED BY <1>0, <2>1, <4>1, <4>2, QuietStep DEF TypeOK, Writing
      <3> QED BY <3>1, <3>2
    <2>3. CASE Goto(p, "failed")
      <3>1. ~Holds(p)'
        BY <2>3, HoldsWhere
      <3> QED BY <1>0, <2>1, <2>3, <3>1, QuietStep DEF TypeOK, Writing
    <2> QED BY <1>2, <2>2, <2>3 DEF ReadToken
  <1>3. CASE Loads /\ Loaded(p) /\ UNCHANGED <<file, draft, told>>
    <2> DEFINE to == IF p \in Servers THEN "token" ELSE "listen"
    <2>1. to \in Labels \ Writing /\ Goto(p, to)
      BY <1>3 DEF Loaded, Writing
    <2>2. /\ mem' \in [Processes -> Keys \cup {None}] /\ mem'[p] = file.key
          /\ \A q \in Processes \ {p} : mem'[q] = mem[q]
      BY <1>0, <1>3 DEF Loaded, TypeOK
    <2> QED BY <1>0, <1>3, <2>1, <2>2, QuietStep DEF TypeOK
  <1>4. CASE /\ UNCHANGED <<file, draft, mem>> /\ told' \in [Processes -> Keys \cup {None}]
             /\ \/ Goto(p, "create") \/ Goto(p, "failed") \/ Goto(p, "reload") \/ Goto(p, "down")
    <2>1. PICK to \in {"create", "failed", "reload", "down"} : Goto(p, to)
      BY <1>4
    <2>2. ~Holds(p)'
      BY <2>1, HoldsWhere
    <2> QED BY <1>0, <1>4, <2>1, <2>2, QuietStep DEF TypeOK, Writing
  <1>5. CASE Serve(p)
    <2>1. Holds(p) /\ UNCHANGED <<file, draft, mem>>
      BY <1>5 DEF Serve, Holds
    <2>2. Loads /\ mem'[p] = file.key
      BY <1>0, <2>1 DEF FileIsHeld
    <2>3. told' \in [Processes -> Keys \cup {None}]
      BY <1>0, <1>5 DEF Serve, TypeOK
    <2>4. Goto(p, "up") \/ Goto(p, "failed")
      BY <1>5 DEF Serve
    <2> QED BY <1>0, <2>1, <2>2, <2>3, <2>4, QuietStep DEF TypeOK, Writing
  <1>6. CASE Load(p) \/ FileExists(p) \/ CreateFails(p) \/ WriteFails(p) \/ Reload(p)
    <2>1. UNCHANGED <<file, draft, told>>
      BY <1>6 DEF Load, FileExists, CreateFails, WriteFails, Reload
    <2>2. \/ Loads /\ Loaded(p)
          \/ UNCHANGED mem /\ (Goto(p, "create") \/ Goto(p, "failed") \/ Goto(p, "reload"))
      BY <1>6 DEF Load, FileExists, CreateFails, WriteFails, Reload
    <2> QED BY <1>0, <1>3, <1>4, <2>1, <2>2 DEF TypeOK
  <1>7. CASE Stop(p)
    <2>1. told' \in [Processes -> Keys \cup {None}]
      BY <1>0, <1>7 DEF Stop, TypeOK
    <2> QED BY <1>4, <1>7, <2>1 DEF Stop
  <1> QED BY <1>1, <1>2, <1>5, <1>6, <1>7

\* OpenFile, Restrict, WriteBlock and Sync, and a Restrict that fails.
LEMMA WriterInv ==
  ASSUME Inv, NEW p \in Processes,
         OpenFile(p) \/ Restrict(p) \/ RestrictFails(p) \/ WriteBlock(p) \/ Sync(p)
  PROVE  Inv'
  <1> USE DEF Labels, Writing
  <1>0. TypeOK /\ FileIsHeld
    BY DEF Inv
  <1>1. CASE OpenFile(p)
    <2>1. PICK key \in Keys, private \in BOOLEAN :
            /\ draft' = [draft EXCEPT ![p] = key]
            /\ file' = [key |-> key, size |-> 0, private |-> private, synced |-> FALSE]
      <3>1. PICK key \in Keys : draft' = [draft EXCEPT ![p] = key]
        BY <1>1 DEF OpenFile
      <3>2. draft'[p] = key
        BY <1>0, <3>1 DEF TypeOK
      <3>3. PICK private \in BOOLEAN : file' = [NoFile EXCEPT !.key = draft'[p], !.private = private]
        BY <1>1 DEF OpenFile
      <3> QED BY <3>1, <3>2, <3>3 DEF NoFile
    <2>2. Missing /\ Goto(p, "restrict") /\ UNCHANGED <<mem, told>>
      BY <1>1 DEF OpenFile
    <2>3. \A q \in Processes : pc[q] \notin Writing
      BY <2>2 DEF Inv, OneWriter
    <2>4. ~Loads /\ ~Missing' /\ ~Holds(p)'
      BY <2>1, <2>2, HoldsWhere, StoreAssumption DEF Loads, Missing
    <2>5. draft' \in [Processes -> Keys \cup {None}]
      BY <1>0, <2>1 DEF TypeOK
    <2> QED BY <2>1, <2>2, <2>3, <2>4, <2>5, WriterStep, StoreAssumption
  <1>2. CASE Restrict(p)
    <2>1. /\ file' = [file EXCEPT !.private = TRUE]
          /\ Goto(p, "write") /\ UNCHANGED <<draft, mem, told>> /\ pc[p] = "restrict"
      BY <1>2 DEF Restrict
    <2>2. /\ ~Missing' /\ ~file'.synced /\ file'.private /\ file'.size = 0 /\ ~Loads
          /\ \A q \in Processes \ {p} : pc[q] \notin Writing
      BY <1>0, <2>1, OnlyWriter DEF TypeOK, Missing
    <2>3. ~Holds(p)'
      BY <2>1, HoldsWhere
    <2>4. file' \in [key : Keys \cup {None}, size : 0..Blocks, private : BOOLEAN, synced : BOOLEAN]
      BY <1>0, <2>1 DEF TypeOK
    <2>5. 0 < Blocks
      BY StoreAssumption
    <2> QED BY <1>0, <2>1, <2>2, <2>3, <2>4, <2>5, WriterStep DEF TypeOK
  <1>3. CASE RestrictFails(p)
    <2>1. /\ file' \in {NoFile, file} /\ Goto(p, "failed")
          /\ UNCHANGED <<draft, mem, told>> /\ pc[p] = "restrict"
      BY <1>3 DEF RestrictFails
    <2>2. ~Loads /\ ~Holds(p)' /\ \A q \in Processes \ {p} : pc[q] \notin Writing
      BY <2>1, OnlyWriter, HoldsWhere
    <2>3. file' \in [key : Keys \cup {None}, size : 0..Blocks, private : BOOLEAN, synced : BOOLEAN]
      <3>1. NoFile \in [key : Keys \cup {None}, size : 0..Blocks, private : BOOLEAN, synced : BOOLEAN]
        BY StoreAssumption DEF NoFile
      <3>2. file \in [key : Keys \cup {None}, size : 0..Blocks, private : BOOLEAN, synced : BOOLEAN]
        BY <1>0 DEF TypeOK
      <3>3. CASE file' = NoFile
        BY <3>1, <3>3
      <3>4. CASE file' = file
        BY <3>2, <3>4
      <3> QED BY <2>1, <3>3, <3>4
    <2>4. draft' \in [Processes -> Keys \cup {None}]
      BY <1>0, <2>1 DEF TypeOK
    <2>5. "failed" \in Labels \ Writing
      OBVIOUS
    <2> QED BY <2>1, <2>2, <2>3, <2>4, <2>5, WriterStep
  <1>4. CASE WriteBlock(p)
    <2> DEFINE to == IF file.size + 1 = Blocks THEN "sync" ELSE "write"
    <2>1. /\ file' = [file EXCEPT !.size = @ + 1]
          /\ Goto(p, to) /\ UNCHANGED <<draft, mem, told>> /\ pc[p] = "write"
      BY <1>4 DEF WriteBlock
    <2>2. /\ ~Missing' /\ ~file'.synced /\ file'.private /\ file'.size = file.size + 1
          /\ file.size < Blocks /\ ~Loads
          /\ \A q \in Processes \ {p} : pc[q] \notin Writing
      BY <1>0, <2>1, OnlyWriter DEF TypeOK, Missing
    <2>3. file' \in [key : Keys \cup {None}, size : 0..Blocks, private : BOOLEAN, synced : BOOLEAN]
      BY <1>0, <2>1, <2>2, StoreAssumption DEF TypeOK
    <2>4. /\ to = "write" => file'.size < Blocks
          /\ to = "sync" => file'.size = Blocks
      BY <1>0, <2>2, StoreAssumption DEF TypeOK
    <2>5. ~Holds(p)'
      BY <2>1, HoldsWhere
    <2> HIDE DEF to
    <2>6. to \in {"write", "sync"}
      BY DEF to
    <2> QED BY <1>0, <2>1, <2>2, <2>3, <2>4, <2>5, <2>6, WriterStep DEF TypeOK
  <1>5. CASE Sync(p)
    <2>1. /\ file' = [file EXCEPT !.synced = TRUE]
          /\ Goto(p, "reload") /\ UNCHANGED <<draft, mem, told>> /\ pc[p] = "sync"
      BY <1>5 DEF Sync
    <2>2. /\ ~Missing' /\ Loads' /\ file'.key = file.key
          /\ \A q \in Processes \ {p} : pc[q] \notin Writing
      BY <1>0, <2>1, OnlyWriter DEF TypeOK, Missing, Loads
    <2>3. ~Holds(p)'
      BY <2>1, HoldsWhere
    <2>4. file' \in [key : Keys \cup {None}, size : 0..Blocks, private : BOOLEAN, synced : BOOLEAN]
      BY <1>0, <2>1 DEF TypeOK
    <2> QED BY <1>0, <2>1, <2>2, <2>3, <2>4, WriterStep DEF TypeOK
  <1> QED BY <1>1, <1>2, <1>3, <1>4, <1>5

\* A power failure, and the removal of a file that no start accepts.
LEMMA OutsideInv ==
  ASSUME Inv, PowerFailure \/ RemoveBroken
  PROVE  Inv'
  <1>0. TypeOK /\ FileIsHeld /\ OneWriter
    BY DEF Inv
  <1>1. CASE PowerFailure
    <2>1. /\ pc' = [p \in Processes |-> "down"] /\ told' = [p \in Processes |-> None]
          /\ UNCHANGED <<draft, mem>>
      BY <1>1 DEF PowerFailure
    <2>2. \/ file' = [file EXCEPT !.synced = ~Missing]
          \/ file' = NoFile
          \/ ~Missing /\ \E size \in 0..file.size : file' = [file EXCEPT !.size = size, !.synced = TRUE]
      BY <1>1 DEF PowerFailure
    <2>3. file' \in [key : Keys \cup {None}, size : 0..Blocks, private : BOOLEAN, synced : BOOLEAN]
      <3>1. CASE file' = [file EXCEPT !.synced = ~Missing]
        BY <1>0, <3>1 DEF TypeOK, Missing
      <3>2. CASE file' = NoFile
        BY <3>2, StoreAssumption DEF NoFile
      <3>3. CASE \E size \in 0..file.size : file' = [file EXCEPT !.size = size, !.synced = TRUE]
        <4>1. 0..file.size \subseteq 0..Blocks
          BY <1>0, StoreAssumption DEF TypeOK
        <4> QED BY <1>0, <3>3, <4>1 DEF TypeOK
      <3> QED BY <2>2, <3>1, <3>2, <3>3
    <2> QED BY <2>1, <2>3, DownStep
  <1>2. CASE RemoveBroken
    <2>1. /\ file' = NoFile /\ UNCHANGED <<pc, draft, mem, told>>
          /\ ~Loads /\ \A p \in Processes : pc[p] \notin Writing
      BY <1>2 DEF RemoveBroken, Broken
    <2>2. \A p \in Processes : ~Holds(p)
      BY <1>0, <2>1, NobodyHolds
    <2> QED BY <1>0, <2>1, <2>2, StoreAssumption
            DEF Inv, TypeOK, OneWriter, FileIsHeld, Holds, NoFile
  <1> QED BY <1>1, <1>2

LEMMA StepInv == Inv /\ [Next]_vars => Inv'
  <1> SUFFICES ASSUME Inv, [Next]_vars PROVE Inv'
    OBVIOUS
  <1>1. CASE UNCHANGED vars
    BY <1>1 DEF vars, Inv, TypeOK, OneWriter, FileIsHeld, Holds, Loads, Missing
  <1>2. CASE \E p \in Processes : Starting(p) \/ Stop(p)
    BY <1>2, QuietInv, WriterInv DEF Starting
  <1> QED BY <1>1, <1>2, OutsideInv DEF Next

\* The inductive invariant: one writer, and whoever holds an identity holds the
\* one in the file.
THEOREM IdentityInvariant == Spec => []Inv
  BY InitInv, StepInv, PTL DEF Spec

-----------------------------------------------------------------------------
(***************************************************************************)
(* Refinement.                                                             *)
(***************************************************************************)

Chosen == IF Loads THEN file.key ELSE None
Durable == Loads /\ file.synced

\* The register's actions, by what the mapping gives them.
RegisterStep ==
  \/ Chosen = None /\ Chosen' \in Keys /\ Durable' = Durable /\ told' = told
  \/ Chosen # None /\ Durable' = TRUE /\ Chosen' = Chosen /\ told' = told
  \/ /\ told' = [p \in Processes |-> None]
     /\ \/ Chosen' = Chosen /\ Durable' = (Chosen # None)
        \/ ~Durable /\ Chosen' = None /\ Durable' = FALSE
  \/ /\ Chosen' = Chosen /\ Durable' = Durable
     /\ \/ told' = told
        \/ \E p \in Processes : Chosen # None /\ told' = [told EXCEPT ![p] = Chosen]
        \/ \E p \in Processes : told' = [told EXCEPT ![p] = None]

LEMMA RegisterSteps == RegisterStep => [Register!RegisterNext]_(Register!registerVars)
  BY DEF RegisterStep, Chosen, Durable, Register!RegisterNext, Register!registerVars,
         Register!Choose, Register!Keep, Register!Tell, Register!Leave, Register!PowerFails,
         Register!Nobody

LEMMA InitRegister == Init => Register!RegisterInit
  BY DEF Init, Register!RegisterInit, Register!Nobody, Loads, Missing, NoFile

\* A file that loads has a key.
LEMMA ChosenFacts ==
  ASSUME Inv
  PROVE  /\ Chosen # None <=> Loads
         /\ Loads => Chosen = file.key /\ file.key \in Keys
         /\ Chosen \in Keys \cup {None}
         /\ Durable \in BOOLEAN
  BY StoreAssumption DEF Inv, TypeOK, Chosen, Durable, Loads, Missing

\* The mapping depends on the file alone.
LEMMA SameFile ==
  ASSUME file' = file
  PROVE  Chosen' = Chosen /\ Durable' = Durable
  BY DEF Chosen, Durable, Loads, Missing

LEMMA StepRegister ==
  ASSUME Inv, Inv', NEW p \in Processes, Starting(p) \/ Stop(p)
  PROVE  RegisterStep
  <1>1. CASE \/ Start(p) \/ ReadToken(p) \/ Load(p) \/ FileExists(p) \/ CreateFails(p)
             \/ WriteFails(p) \/ Reload(p)
    <2>1. file' = file /\ told' = told
      BY <1>1 DEF Start, ReadToken, Load, FileExists, CreateFails, WriteFails, Reload
    <2> QED BY <2>1, SameFile DEF RegisterStep
  <1>2. CASE Stop(p)
    <2>1. file' = file /\ told' = [told EXCEPT ![p] = None]
      BY <1>2 DEF Stop
    <2> QED BY <2>1, SameFile DEF RegisterStep
  <1>3. CASE Serve(p)
    <2>1. file' = file /\ Holds(p) /\ (told' = told \/ told' = [told EXCEPT ![p] = mem[p]])
      BY <1>3 DEF Serve, Holds
    <2>2. Loads /\ mem[p] = file.key
      BY <2>1 DEF Inv, FileIsHeld
    <2>3. Chosen # None /\ mem[p] = Chosen
      BY <2>2, ChosenFacts
    <2> QED BY <2>1, <2>3, SameFile DEF RegisterStep
  <1>4. CASE OpenFile(p) \/ Restrict(p) \/ RestrictFails(p)
    <2>1. ~Loads /\ ~Loads' /\ told' = told
      <3>1. CASE OpenFile(p)
        <4>1. Missing /\ told' = told
          BY <3>1 DEF OpenFile
        <4>2. \E private \in BOOLEAN : file' = [NoFile EXCEPT !.key = draft'[p], !.private = private]
          BY <3>1 DEF OpenFile
        <4>3. file'.size = 0
          BY <4>2 DEF NoFile
        <4> QED BY <4>1, <4>3, StoreAssumption DEF Loads
      <3>2. CASE Restrict(p)
        <4>1. file.size = 0 /\ file' = [file EXCEPT !.private = TRUE] /\ told' = told
          BY <3>2, OnlyWriter DEF Restrict, Writing
        <4>2. file'.size = 0
          BY <4>1 DEF Inv, TypeOK
        <4> QED BY <4>1, <4>2, StoreAssumption DEF Loads
      <3>3. CASE RestrictFails(p)
        <4>1. file.size = 0 /\ file' \in {NoFile, file} /\ told' = told
          BY <3>3, OnlyWriter DEF RestrictFails, Writing
        <4> QED BY <4>1, StoreAssumption DEF Loads, NoFile
      <3> QED BY <1>4, <3>1, <3>2, <3>3
    <2>2. Chosen' = Chosen /\ Durable' = Durable
      BY <2>1 DEF Chosen, Durable
    <2> QED BY <2>1, <2>2 DEF RegisterStep
  <1>5. CASE WriteBlock(p)
    <2>1. /\ ~Loads /\ ~file.synced /\ ~Missing
          /\ file' = [file EXCEPT !.size = @ + 1] /\ told' = told
      BY <1>5, OnlyWriter DEF WriteBlock, Writing
    <2>2. ~file'.synced /\ file'.key = file.key
      BY <2>1 DEF Inv, TypeOK
    <2>3. Chosen = None /\ Durable' = Durable
      BY <2>1, <2>2 DEF Chosen, Durable
    <2>4. Chosen' = None \/ Chosen' \in Keys
      BY <2>1, <2>2 DEF Chosen, Inv, TypeOK, Missing
    <2> QED BY <2>1, <2>3, <2>4 DEF RegisterStep
  <1>6. CASE Sync(p)
    <2>1. /\ ~Missing /\ file.private /\ file.size = Blocks
          /\ file' = [file EXCEPT !.synced = TRUE] /\ told' = told
      BY <1>6, OnlyWriter DEF Sync, Writing
    <2>2. /\ file'.key = file.key /\ file'.private = file.private
          /\ file'.size = file.size /\ file'.synced = TRUE
      BY <2>1 DEF Inv, TypeOK
    <2>3. Loads /\ Loads'
      BY <2>1, <2>2 DEF Loads, Missing
    <2>4. Chosen # None /\ Chosen' = Chosen /\ Durable' = TRUE
      BY <2>2, <2>3, ChosenFacts DEF Chosen, Durable
    <2> QED BY <2>1, <2>4 DEF RegisterStep
  <1> QED BY <1>1, <1>2, <1>3, <1>4, <1>5, <1>6 DEF Starting

LEMMA OutsideRegister ==
  ASSUME Inv, Inv', PowerFailure \/ RemoveBroken
  PROVE  RegisterStep
  <1>1. CASE PowerFailure
    <2>1. told' = [p \in Processes |-> None]
      BY <1>1 DEF PowerFailure
    <2>2. CASE file' = [file EXCEPT !.synced = ~Missing]
      <3>1. /\ file'.key = file.key /\ file'.private = file.private
            /\ file'.size = file.size /\ file'.synced = ~Missing
        BY <2>2 DEF Inv, TypeOK
      <3>2. Loads' = Loads /\ Durable' = Loads
        BY <3>1 DEF Loads, Missing, Durable
      <3>3. Chosen' = Chosen
        BY <3>1, <3>2 DEF Chosen
      <3>4. Loads \in BOOLEAN
        BY DEF Loads, Missing, Inv, TypeOK
      <3>5. Durable' = (Chosen # None)
        BY <3>2, <3>4, ChosenFacts
      <3> QED BY <2>1, <3>3, <3>5 DEF RegisterStep
    <2>3. CASE ~file.synced /\ file' = NoFile
      <3>1. ~Durable /\ ~Loads'
        BY <2>3 DEF Durable, Loads, Missing, NoFile
      <3> QED BY <2>1, <3>1 DEF RegisterStep, Chosen, Durable
    <2>4. CASE ~file.synced /\ \E size \in 0..file.size : file' = [file EXCEPT !.size = size, !.synced = TRUE]
      <3>1. PICK size \in 0..file.size : file' = [file EXCEPT !.size = size, !.synced = TRUE]
        BY <2>4
      <3>2. /\ file'.key = file.key /\ file'.private = file.private
            /\ file'.size = size /\ file'.synced = TRUE
        BY <3>1 DEF Inv, TypeOK
      <3>3. ~Durable
        BY <2>4 DEF Durable
      <3>4. CASE Loads'
        <4>1. file.size = Blocks
          BY <3>2, <3>4, StoreAssumption DEF Loads, Inv, TypeOK
        <4>2. Loads
          BY <3>2, <3>4, <4>1 DEF Loads, Missing
        <4>3. Chosen' = Chosen /\ Chosen # None /\ Durable' = TRUE
          BY <3>2, <3>4, <4>2, ChosenFacts DEF Chosen, Durable
        <4> QED BY <2>1, <4>3 DEF RegisterStep
      <3>5. CASE ~Loads'
        BY <2>1, <3>3, <3>5 DEF RegisterStep, Chosen, Durable
      <3> QED BY <3>4, <3>5
    <2> QED BY <1>1, <2>2, <2>3, <2>4 DEF PowerFailure
  <1>2. CASE RemoveBroken
    <2>1. ~Loads /\ ~Loads' /\ told' = told
      BY <1>2 DEF RemoveBroken, Broken, Loads, Missing, NoFile
    <2> QED BY <2>1 DEF RegisterStep, Chosen, Durable
  <1> QED BY <1>1, <1>2

\* Every process that serves proves the one identity that was ever chosen: the
\* starting processes implement the register.
THEOREM IdentityWrittenOnce == Spec => WritesOnce
  <1>1. Inv /\ Inv' /\ [Next]_vars => [Register!RegisterNext]_(Register!registerVars)
    <2> SUFFICES ASSUME Inv, Inv', [Next]_vars PROVE RegisterStep
      BY RegisterSteps
    <2>1. CASE UNCHANGED vars
      BY <2>1, SameFile DEF vars, RegisterStep
    <2> QED BY <2>1, StepRegister, OutsideRegister DEF Next
  <1> QED BY <1>1, InitRegister, IdentityInvariant, PTL DEF Spec, WritesOnce, Register!RegisterSpec
=============================================================================
