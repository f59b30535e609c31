------------------------ MODULE PlaybackEngineProofs ------------------------
(***************************************************************************)
(* Proofs about PlaybackEngine, for any set of tasks and of pipelines, any *)
(* configuration and any number of retries: the types, that no pipeline is *)
(* lost, and that the sink of an undisturbed load becomes DRM master.      *)
(***************************************************************************)
EXTENDS PlaybackEngine, TLAPS

\* The steps at which a play has a pipeline that is not stored, and those of
\* them at which its sink has not yet opened the device.
Early == {"preflight", "elements", "preroll"}
Making == Early \cup {"store", "stop_failed", "not_negotiated"}

\* The steps of a load that has the display, and those of a stop.
Unlocking == {"unlock", "unlock_negotiation"}
Acquired == Making \cup Unlocking
                \cup {"acquired", "play", "check_exit", "build", "played",
                      "play_failed"}
Stopping == {"stop_engine", "release", "released"}
Opening == {"set_master", "enumerate"}
Steps == Acquired \cup Stopping \cup Opening
             \cup {"idle", "acquire", "acquire_failed"}

\* Both locks are held by whoever is inside, and by nobody else.
LockInv ==
    /\ lock \in Clients \cup {None}
    /\ busy \in Clients \cup {None}
    /\ \A c \in Clients :
        /\ pc[c] \in Unlocking <=> lock = c
        /\ pc[c] \in Opening <=> busy = c

\* PlaybackTypeOK with the types of what it leaves out.
TypeInv ==
    /\ PlaybackTypeOK
    /\ config \in Configs
    /\ pc \in [Clients -> Steps]
    /\ session \in Clients \cup {None}
    /\ LockInv

\* A play has a pipeline exactly where it makes one, and nobody else has it;
\* the stored one exists; and a sink that has not opened the device is not its
\* master.
PipeInv ==
    /\ slot # None => pipe[slot] # None
    /\ \A c \in Clients :
        /\ local[c] # None <=> pc[c] \in Making
        /\ local[c] # None => pipe[local[c]] # None /\ local[c] # slot
        /\ pc[c] \in Early => master # local[c]
    /\ \A c, d \in Clients : local[c] # None /\ local[c] = local[d] => c = d

\* Who is master is still there; an acquired display is nobody's, and stays
\* acquired for the load whose session is active until a stop begins.
MasterInv ==
    /\ master = "renderer" => renderer
    /\ master = "gbm" => gbm
    /\ gbm => crtc /\ "card" \in GbmNodes
    /\ crtc => master # "display" /\ busy = None
    /\ \A c \in Clients :
        (session = c /\ pc[c] \in Acquired
            /\ \A d \in Clients : pc[d] \notin Stopping) => crtc

Inv == TypeInv /\ PipeInv /\ NoOrphanPipeline /\ MasterInv

-----------------------------------------------------------------------------
(***************************************************************************)
(* Where each step leads, and the types.                                   *)
(***************************************************************************)
\* c goes from one of the steps in from to one of those in to.
Moves(c, from, to) ==
    pc[c] \in from /\ \E s \in to : pc' = [pc EXCEPT ![c] = s]

LEMMA FallBackMoves ==
  ASSUME TypeInv, NEW c \in Clients, NEW n \in BOOLEAN, FallBack(c, n)
  PROVE  /\ pc' = [pc EXCEPT ![c] = "play"] \/ pc' = [pc EXCEPT ![c] = "play_failed"]
         /\ mode' \in [Clients -> Modes]
         /\ UNCHANGED <<attempt, target>>
  BY DEF FallBack, NextMode, Goto, TypeInv, PlaybackTypeOK, Modes

LEMMA FailedMoves ==
  ASSUME TypeInv, NEW c \in Clients, Failed(c)
  PROVE  /\ pc' = [pc EXCEPT ![c] = "play"] \/ pc' = [pc EXCEPT ![c] = "play_failed"]
         /\ mode' \in [Clients -> Modes]
         /\ UNCHANGED <<attempt, target>>
  BY FallBackMoves DEF Failed, Goto, callVars, TypeInv, PlaybackTypeOK

LEMMA ConfiguredBuilt ==
  ASSUME TypeInv, NEW c \in Clients PROVE Configured(c) \in Built
  BY EngineAssumption DEF Configured, Built, TypeInv

LEMMA DropType ==
  ASSUME TypeInv, NEW ps, DropPipes(ps)
  PROVE  pipe' \in [Pipes -> Built \cup {None}] /\ master' \in Holders
  BY DEF DropPipes, TypeInv, PlaybackTypeOK, Holders

LEMMA InitInv == Init => Inv
  <1> USE DisplayAssumption, EngineAssumption DEF Init, DisplayInit
  <1>1. Init => TypeInv
    <2> SUFFICES ASSUME Init PROVE TypeInv
      OBVIOUS
    <2>1. {opened, crtc, saved, gbm, renderer} \subseteq BOOLEAN
      OBVIOUS
    <2>2. master \in Holders /\ attempt \in [Clients -> 0 .. MaxRetries + 1]
      BY DEF Holders
    <2>3. pc \in [Clients -> Steps]
      BY DEF Steps
    <2> QED
      BY <2>1, <2>2, <2>3 DEF TypeInv, LockInv, PlaybackTypeOK, Modes, Unlocking, Opening
  <1>2. Init => PipeInv /\ NoOrphanPipeline
    BY DEF PipeInv, NoOrphanPipeline, Making, Early
  <1>3. Init => MasterInv
    BY DEF MasterInv, Acquired, Making, Early, Unlocking
  <1> QED  BY <1>1, <1>2, <1>3 DEF Inv

-----------------------------------------------------------------------------
(***************************************************************************)
(* What a step that moves one task leaves as it is.                        *)
(***************************************************************************)
\* Outside the two locks a step keeps them.
LEMMA MovesType ==
  ASSUME TypeInv, NEW c \in Clients, NEW from, NEW to, Moves(c, from, to),
         to \subseteq Steps,
         (from \cup to) \cap (Unlocking \cup Opening) = {},
         UNCHANGED <<lock, busy>>
  PROVE  pc' \in [Clients -> Steps] /\ LockInv'
  <1>1. PICK s \in to : pc' = [pc EXCEPT ![c] = s]
    BY DEF Moves
  <1>2. pc' \in [Clients -> Steps]
    BY <1>1 DEF TypeInv
  <1>3. ASSUME NEW d \in Clients
        PROVE  /\ pc'[d] \in Unlocking <=> lock' = d
               /\ pc'[d] \in Opening <=> busy' = d
    BY <1>1, <1>3 DEF TypeInv, LockInv, Moves
  <1> QED  BY <1>2, <1>3 DEF TypeInv, LockInv

\* The pipelines of a step that makes, stores and drops none.
LEMMA MovesPipes ==
  ASSUME TypeInv, PipeInv, NoOrphanPipeline,
         NEW c \in Clients, NEW from, NEW to, Moves(c, from, to),
         (from \cup to) \cap Making = {} \/ from \cup to \subseteq Early,
         UNCHANGED <<pipe, slot, local>>,
         master' \in {master, None, "display", "gbm", "renderer"}
  PROVE  PipeInv' /\ NoOrphanPipeline'
  <1>1. PICK s \in to : pc' = [pc EXCEPT ![c] = s]
    BY DEF Moves
  <1>2. ASSUME NEW d \in Clients
        PROVE  /\ pc'[d] \in Making <=> pc[d] \in Making
               /\ pc'[d] \in Early => pc[d] \in Early
    BY <1>1, <1>2 DEF TypeInv, Moves, Making
  <1>3. ASSUME NEW p \in Pipes PROVE master' = p => master = p
    BY <1>3, DisplayAssumption
  <1>4. ASSUME NEW d \in Clients, pc'[d] \in Early PROVE master' # local'[d]
    BY <1>2, <1>3, <1>4 DEF PipeInv, Making, TypeInv, PlaybackTypeOK
  <1>5. PipeInv'
    BY <1>2, <1>4 DEF PipeInv
  <1>6. NoOrphanPipeline'
    BY <1>3 DEF NoOrphanPipeline
  <1> QED  BY <1>5, <1>6

\* The display of a step that is not the display's.
LEMMA MovesMaster ==
  ASSUME TypeInv, MasterInv,
         NEW c \in Clients, NEW from, NEW to, Moves(c, from, to),
         to \cap Acquired = {} \/ from \subseteq Acquired,
         from \cap Stopping = {} \/ to \subseteq Stopping,
         UNCHANGED <<renderer, gbm, crtc, busy>>,
         session' \in {session, None},
         master' \in Pipes \cup {master, None}
  PROVE  MasterInv'
  <1>1. PICK s \in to : pc' = [pc EXCEPT ![c] = s]
    BY DEF Moves
  <1>2. ASSUME NEW d \in Clients
        PROVE  /\ pc'[d] \in Acquired => pc[d] \in Acquired
               /\ pc[d] \in Stopping => pc'[d] \in Stopping
    BY <1>1, <1>2 DEF TypeInv, Moves
  <1>3. ASSUME NEW d \in Clients, session' = d
        PROVE  session = d
    BY <1>3, DisplayAssumption
  <1>4. /\ master' = "renderer" => renderer'
        /\ master' = "gbm" => gbm'
        /\ gbm' => crtc' /\ "card" \in GbmNodes
        /\ crtc' => master' # "display" /\ busy' = None
    BY DisplayAssumption DEF MasterInv
  <1>5. ASSUME NEW d \in Clients, session' = d, pc'[d] \in Acquired,
               \A e \in Clients : pc'[e] \notin Stopping
        PROVE  crtc'
    BY <1>2, <1>3, <1>5 DEF MasterInv
  <1> QED  BY <1>4, <1>5 DEF MasterInv

-----------------------------------------------------------------------------
(***************************************************************************)
(* The steps that leave pipelines and display alone.                       *)
(***************************************************************************)
Plain(c, from, to) ==
    /\ Moves(c, from, to)
    /\ to \subseteq Steps
    /\ (from \cup to) \cap (Unlocking \cup Opening) = {}
    /\ (from \cup to) \cap Making = {} \/ from \cup to \subseteq Early
    /\ to \cap Acquired = {} \/ from \subseteq Acquired
    /\ from \cap Stopping = {} \/ to \subseteq Stopping
    /\ UNCHANGED <<displayVars, renderer, master, config, engineVars>>
    /\ mode' \in [Clients -> Modes]
    /\ attempt' \in [Clients -> 0 .. MaxRetries + 1]
    /\ session' \in {session, None}

LEMMA PlainInv ==
  ASSUME Inv, NEW c \in Clients, NEW from, NEW to, Plain(c, from, to)
  PROVE  Inv'
  <1> USE DEF Plain, displayVars, engineVars
  <1>1. pc' \in [Clients -> Steps] /\ LockInv'
    BY MovesType DEF Inv
  <1>2. TypeInv'
    BY <1>1, DisplayAssumption DEF Inv, TypeInv, PlaybackTypeOK, LockInv, Unlocking, Opening
  <1>3. PipeInv' /\ NoOrphanPipeline'
    BY MovesPipes DEF Inv
  <1>4. MasterInv'
    BY MovesMaster DEF Inv
  <1> QED  BY <1>2, <1>3, <1>4 DEF Inv

\* Where each of them leads.
LEMMA PlainSteps ==
  ASSUME Inv, NEW c \in Clients,
         \/ BeginBuffer(c) \/ LoadFails(c) \/ Retry(c) \/ MarkPlaying(c)
         \/ CheckExit(c) \/ Preflight(c) \/ Elements(c) \/ StopEngineFails(c)
  PROVE  Inv'
  <1> USE DEF Goto, Return, callVars, sessionVars
  <1>t. mode \in [Clients -> Modes] /\ attempt \in [Clients -> 0 .. MaxRetries + 1]
    BY DEF Inv, TypeInv, PlaybackTypeOK
  <1>1. CASE BeginBuffer(c)
    <2>1. Moves(c, {"acquired"}, {"play", "idle"})
      BY <1>1 DEF BeginBuffer, Moves
    <2>2. mode' \in [Clients -> Modes] /\ attempt' \in [Clients -> 0 .. MaxRetries + 1]
      BY <1>1, <1>t, EngineAssumption DEF BeginBuffer, Modes
    <2>3. Plain(c, {"acquired"}, {"play", "idle"})
      BY <1>1, <2>1, <2>2 DEF BeginBuffer, Plain, Steps, Acquired, Making, Early,
                          Unlocking, Stopping, Opening
    <2> QED  BY <2>3, PlainInv
  <1>2. CASE LoadFails(c)
    <2>1. Moves(c, {"acquire_failed", "play_failed"}, {"idle"})
      BY <1>2 DEF LoadFails, Moves
    <2>2. mode' \in [Clients -> Modes] /\ attempt' \in [Clients -> 0 .. MaxRetries + 1]
      BY <1>2, <1>t, EngineAssumption DEF LoadFails, Modes
    <2>3. Plain(c, {"acquire_failed", "play_failed"}, {"idle"})
      BY <1>2, <2>1, <2>2 DEF LoadFails, Plain, Steps, Acquired, Making, Early,
                          Unlocking, Stopping, Opening
    <2> QED  BY <2>3, PlainInv
  <1>3. CASE Retry(c)
    <2>1. Moves(c, {"play_failed"}, {"play"})
      BY <1>3 DEF Retry, Moves
    <2>2. mode' \in [Clients -> Modes] /\ attempt' \in [Clients -> 0 .. MaxRetries + 1]
      BY <1>3, <1>t, EngineAssumption DEF Retry, Modes
    <2>3. Plain(c, {"play_failed"}, {"play"})
      BY <1>3, <2>1, <2>2 DEF Retry, Plain, Steps, Acquired, Making, Early,
                          Unlocking, Stopping, Opening
    <2> QED  BY <2>3, PlainInv
  <1>4. CASE MarkPlaying(c)
    <2>1. Moves(c, {"played"}, {"idle"})
      BY <1>4 DEF MarkPlaying, Moves
    <2>2. mode' \in [Clients -> Modes] /\ attempt' \in [Clients -> 0 .. MaxRetries + 1]
      BY <1>4, <1>t, EngineAssumption DEF MarkPlaying, Modes
    <2>3. Plain(c, {"played"}, {"idle"})
      BY <1>4, <2>1, <2>2 DEF MarkPlaying, Plain, Steps, Acquired, Making, Early,
                          Unlocking, Stopping, Opening
    <2> QED  BY <2>3, PlainInv
  <1>5. CASE CheckExit(c)
    <2>1. Moves(c, {"check_exit"}, {"build", "play_failed"})
      BY <1>5 DEF CheckExit, Moves
    <2>2. mode' \in [Clients -> Modes] /\ attempt' \in [Clients -> 0 .. MaxRetries + 1]
      BY <1>5, <1>t, EngineAssumption DEF CheckExit, Modes
    <2>3. Plain(c, {"check_exit"}, {"build", "play_failed"})
      BY <1>5, <2>1, <2>2 DEF CheckExit, Plain, Steps, Acquired, Making, Early,
                          Unlocking, Stopping, Opening
    <2> QED  BY <2>3, PlainInv
  <1>6. CASE Preflight(c)
    <2>1. Moves(c, {"preflight"}, {"elements"})
      BY <1>6 DEF Preflight, Moves
    <2>2. mode' \in [Clients -> Modes] /\ attempt' \in [Clients -> 0 .. MaxRetries + 1]
      BY <1>6, <1>t, EngineAssumption DEF Preflight, Modes
    <2>3. Plain(c, {"preflight"}, {"elements"})
      BY <1>6, <2>1, <2>2 DEF Preflight, Plain, Steps, Acquired, Making, Early,
                          Unlocking, Stopping, Opening
    <2> QED  BY <2>3, PlainInv
  <1>7. CASE Elements(c)
    <2>1. Moves(c, {"elements"}, {"preroll"})
      BY <1>7 DEF Elements, Moves
    <2>2. mode' \in [Clients -> Modes] /\ attempt' \in [Clients -> 0 .. MaxRetries + 1]
      BY <1>7, <1>t, EngineAssumption DEF Elements, Modes
    <2>3. Plain(c, {"elements"}, {"preroll"})
      BY <1>7, <2>1, <2>2 DEF Elements, Plain, Steps, Acquired, Making, Early,
                          Unlocking, Stopping, Opening
    <2> QED  BY <2>3, PlainInv
  <1>8. CASE StopEngineFails(c)
    <2>1. Moves(c, {"stop_engine"}, {"release"})
      BY <1>8 DEF StopEngineFails, Moves
    <2>2. mode' \in [Clients -> Modes] /\ attempt' \in [Clients -> 0 .. MaxRetries + 1]
      BY <1>8, <1>t, EngineAssumption DEF StopEngineFails, Modes
    <2>3. Plain(c, {"stop_engine"}, {"release"})
      BY <1>8, <2>1, <2>2 DEF StopEngineFails, Plain, Steps, Acquired, Making, Early,
                          Unlocking, Stopping, Opening
    <2> QED  BY <2>3, PlainInv
  <1> QED  BY <1>1, <1>2, <1>3, <1>4, <1>5, <1>6, <1>7, <1>8

\* A stop that begins is not a step of the load whose display it will take.
LEMMA StopBeginInv == ASSUME Inv, NEW c \in Clients, StopBegin(c) PROVE Inv'
  <1>1. Moves(c, {"idle"}, {"stop_engine", "release"})
    BY DEF StopBegin, Goto, Moves
  <1>2. Plain(c, {"idle"}, {"stop_engine", "release"})
    BY <1>1 DEF StopBegin, sessionVars, Inv, TypeInv, PlaybackTypeOK, Plain, Steps,
                Acquired, Making, Early, Unlocking, Stopping, Opening
  <1> QED  BY <1>2, PlainInv

\* The session that begins has no display yet.
LEMMA LoadBeginInv == ASSUME Inv, NEW c \in Clients, LoadBegin(c) PROVE Inv'
  <1> USE DEF LoadBegin, Goto, displayVars, engineVars
  <1>1. Moves(c, {"idle"}, {"acquire"})
    BY DEF Moves
  <1>2. pc' \in [Clients -> Steps] /\ LockInv'
    BY <1>1, MovesType DEF Inv, Steps, Unlocking, Opening
  <1>3. attempt' \in [Clients -> 0 .. MaxRetries + 1]
    BY EngineAssumption DEF Inv, TypeInv, PlaybackTypeOK
  <1>4. TypeInv'
    BY <1>2, <1>3, DisplayAssumption
    DEF Inv, TypeInv, PlaybackTypeOK, LockInv, Unlocking, Opening
  <1>5. PipeInv' /\ NoOrphanPipeline'
    BY <1>1, MovesPipes DEF Inv, Making, Early
  <1>6. ASSUME NEW d \in Clients PROVE ~(session' = d /\ pc'[d] \in Acquired)
    BY <1>6 DEF Inv, TypeInv, Acquired, Making, Early, Unlocking
  <1>7. MasterInv'
    BY <1>6 DEF Inv, MasterInv
  <1> QED  BY <1>4, <1>5, <1>7 DEF Inv

\* The stop that has released the display ends with the session.
LEMMA StopClearInv == ASSUME Inv, NEW c \in Clients, StopClear(c) PROVE Inv'
  <1> USE DEF StopClear, Goto, displayVars, engineVars
  <1>1. Moves(c, {"released"}, {"idle"})
    BY DEF Moves
  <1>2. pc' \in [Clients -> Steps] /\ LockInv'
    BY <1>1, MovesType DEF Inv, Steps, Unlocking, Opening
  <1>3. TypeInv'
    BY <1>2, DisplayAssumption
    DEF Inv, TypeInv, PlaybackTypeOK, LockInv, Unlocking, Opening
  <1>4. PipeInv' /\ NoOrphanPipeline'
    BY <1>1, MovesPipes DEF Inv, Making, Early
  <1>5. MasterInv'
    BY DisplayAssumption DEF Inv, MasterInv
  <1> QED  BY <1>3, <1>4, <1>5 DEF Inv

-----------------------------------------------------------------------------
(***************************************************************************)
(* The steps that make, store and drop pipelines.                          *)
(***************************************************************************)
\* Of what is dropped nothing else is changed.
LEMMA DropFacts ==
  ASSUME TypeInv, NEW ps, DropPipes(ps)
  PROVE  /\ pipe' \in [Pipes -> Built \cup {None}]
         /\ master' \in Holders /\ master' \in {master, None}
         /\ \A p \in Pipes : pipe'[p] = IF p \in ps THEN None ELSE pipe[p]
         /\ \A p \in ps : master' = p => p = None
  BY DropType DEF DropPipes

\* The engine's slot is emptied, by a play or by a stop.
LEMMA EmptySlot ==
  ASSUME Inv, NEW c \in Clients, NEW from, NEW to, Moves(c, from, to),
         (from \cup to) \cap Making = {},
         DropPipes({slot}), slot' = None, UNCHANGED local
  PROVE  PipeInv' /\ NoOrphanPipeline'
  <1> USE DEF Inv
  <1>1. PICK s \in to : pc' = [pc EXCEPT ![c] = s]
    BY DEF Moves
  <1>2. ASSUME NEW d \in Clients
        PROVE  /\ pc'[d] \in Making <=> pc[d] \in Making
               /\ pc'[d] \in Early => pc[d] \in Early
    BY <1>1, <1>2 DEF TypeInv, Moves, Making
  <1>3. ASSUME NEW d \in Clients, local[d] # None
        PROVE  local[d] \in Pipes /\ local[d] # slot /\ pipe'[local[d]] # None
    BY <1>3, DropFacts DEF PipeInv, TypeInv, PlaybackTypeOK
  <1>4. ASSUME NEW d \in Clients, pc'[d] \in Early PROVE master' # local'[d]
    BY <1>2, <1>4, DropFacts DEF PipeInv, Making
  <1>5. PipeInv'
    BY <1>2, <1>3, <1>4 DEF PipeInv
  <1>6. master' \in Pipes => pipe'[master'] # None
    BY DropFacts, DisplayAssumption DEF NoOrphanPipeline
  <1>7. ASSUME NEW p \in Pipes, pipe'[p] # None
        PROVE  \E d \in Clients : local'[d] = p
    BY <1>7, DropFacts DEF NoOrphanPipeline
  <1> QED  BY <1>5, <1>6, <1>7 DEF NoOrphanPipeline

LEMMA StopExistingInv == ASSUME Inv, NEW c \in Clients, StopExisting(c) PROVE Inv'
  <1> USE DEF StopExisting, Goto, displayVars, callVars, sessionVars
  <1>1. Moves(c, {"play"}, {"check_exit", "build"})
    BY DEF Moves
  <1>2. pc' \in [Clients -> Steps] /\ LockInv'
    BY <1>1, MovesType
    DEF Inv, Steps, Acquired, Making, Early, Unlocking, Opening
  <1>3. TypeInv'
    BY <1>2, DropFacts, DisplayAssumption
    DEF Inv, TypeInv, PlaybackTypeOK, LockInv, Unlocking, Opening
  <1>4. PipeInv' /\ NoOrphanPipeline'
    BY <1>1, EmptySlot DEF Making, Early
  <1>5. MasterInv'
    BY <1>1, MovesMaster, DropFacts DEF Inv, Acquired, Stopping
  <1> QED  BY <1>3, <1>4, <1>5 DEF Inv

LEMMA StopEngineInv == ASSUME Inv, NEW c \in Clients, StopEngine(c) PROVE Inv'
  <1> USE DEF StopEngine, Goto, displayVars, callVars, sessionVars
  <1>1. Moves(c, {"stop_engine"}, {"release"})
    BY DEF Moves
  <1>2. pc' \in [Clients -> Steps] /\ LockInv'
    BY <1>1, MovesType DEF Inv, Steps, Stopping, Unlocking, Opening
  <1>3. TypeInv'
    BY <1>2, DropFacts, DisplayAssumption
    DEF Inv, TypeInv, PlaybackTypeOK, LockInv, Unlocking, Opening
  <1>4. PipeInv' /\ NoOrphanPipeline'
    BY <1>1, EmptySlot DEF Making, Early
  <1>5. MasterInv'
    BY <1>1, MovesMaster, DropFacts
    DEF Inv, Acquired, Making, Early, Unlocking, Stopping
  <1> QED  BY <1>3, <1>4, <1>5 DEF Inv

\* A new pipeline is one that does not exist, which nobody has.
LEMMA StartSourceInv == ASSUME Inv, NEW c \in Clients, StartSource(c) PROVE Inv'
  <1> USE DEF StartSource, Goto, displayVars, callVars, sessionVars
  <1>1. Moves(c, {"build"}, {"preflight"})
    BY DEF Moves
  <1>2. pc' \in [Clients -> Steps] /\ LockInv'
    BY <1>1, MovesType
    DEF Inv, Steps, Acquired, Making, Early, Unlocking, Opening
  <1>3. PICK p \in Pipes :
          /\ pipe[p] = None
          /\ pipe' = [pipe EXCEPT ![p] = Configured(c)]
          /\ local' = [local EXCEPT ![c] = p]
    OBVIOUS
  <1>4. Configured(c) \in Built /\ Configured(c) # None /\ p # None
    BY ConfiguredBuilt, EngineAssumption, DisplayAssumption
    DEF Inv, TypeInv, PlaybackTypeOK
  <1>5. TypeInv'
    BY <1>2, <1>3, <1>4, DisplayAssumption
    DEF Inv, TypeInv, PlaybackTypeOK, LockInv, Unlocking, Opening
  <1>6. p # slot /\ p # master /\ \A d \in Clients : local[d] # p
    BY <1>3, <1>4 DEF Inv, PipeInv, NoOrphanPipeline
  <1>7. ASSUME NEW d \in Clients, d # c
        PROVE  pc'[d] = pc[d] /\ local'[d] = local[d]
    BY <1>3, <1>7 DEF Inv, TypeInv, PlaybackTypeOK
  <1>8. pc'[c] = "preflight" /\ local'[c] = p
    BY <1>3 DEF Inv, TypeInv, PlaybackTypeOK
  <1>9. ASSUME NEW q \in Pipes
        PROVE  /\ q # p => pipe'[q] = pipe[q]
               /\ pipe'[p] # None
    BY <1>3, <1>4 DEF Inv, TypeInv, PlaybackTypeOK
  <1>10. slot # None => slot \in Pipes
    BY DEF Inv, TypeInv, PlaybackTypeOK
  <1>11. ASSUME NEW d \in Clients
         PROVE  /\ local'[d] # None <=> pc'[d] \in Making
                /\ local'[d] # None => pipe'[local'[d]] # None /\ local'[d] # slot'
                /\ pc'[d] \in Early => master' # local'[d]
    <2>1. CASE d = c
      BY <2>1, <1>4, <1>6, <1>8, <1>9 DEF Making, Early
    <2>2. CASE d # c
      <3>1. local[d] # None => local[d] \in Pipes
        BY DEF Inv, TypeInv, PlaybackTypeOK
      <3> QED  BY <2>2, <3>1, <1>6, <1>7, <1>9 DEF Inv, PipeInv
    <2> QED  BY <2>1, <2>2
  <1>12. ASSUME NEW d \in Clients, NEW e \in Clients,
                local'[d] # None, local'[d] = local'[e]
         PROVE  d = e
    BY <1>12, <1>6, <1>7, <1>8 DEF Inv, PipeInv
  <1>13. PipeInv'
    BY <1>6, <1>9, <1>10, <1>11, <1>12 DEF Inv, PipeInv
  <1>14. NoOrphanPipeline'
    <2>1. ASSUME NEW q \in Pipes, pipe'[q] # None
          PROVE  q = slot' \/ \E d \in Clients : local'[d] = q
      <3>1. CASE q = p
        BY <3>1, <1>8
      <3>2. CASE q # p
        <4>1. local[c] = None /\ q # None
          BY DisplayAssumption DEF Inv, PipeInv, Making, Early
        <4>2. q = slot \/ \E d \in Clients : local[d] = q
          BY <3>2, <2>1, <1>9 DEF Inv, NoOrphanPipeline
        <4> QED  BY <4>1, <4>2, <1>7
      <3> QED  BY <3>1, <3>2
    <2>2. master' \in Pipes => pipe'[master'] # None
      BY <1>6, <1>9 DEF Inv, NoOrphanPipeline
    <2> QED  BY <2>1, <2>2 DEF NoOrphanPipeline
  <1>15. MasterInv'
    BY <1>1, MovesMaster DEF Inv, Acquired, Stopping, Making, Early
  <1> QED  BY <1>5, <1>13, <1>14, <1>15 DEF Inv

\* The pipeline of a play that fails is dropped before it is anybody else's.
LEMMA DropLocal ==
  ASSUME Inv, NEW c \in Clients, NEW from, NEW to, Moves(c, from, to),
         to \cap Making = {},
         DropPipes({local[c]}), local' = [local EXCEPT ![c] = None],
         UNCHANGED slot
  PROVE  PipeInv' /\ NoOrphanPipeline'
  <1> USE DEF Inv
  <1>1. PICK s \in to : pc' = [pc EXCEPT ![c] = s]
    BY DEF Moves
  <1>2. /\ pc'[c] \notin Making /\ local'[c] = None
        /\ \A d \in Clients \ {c} : pc'[d] = pc[d] /\ local'[d] = local[d]
    BY <1>1 DEF TypeInv, PlaybackTypeOK
  <1>3. ASSUME NEW d \in Clients, d # c, local[d] # None
        PROVE  local[d] \in Pipes /\ pipe'[local[d]] # None
    BY <1>3, DropFacts DEF PipeInv, TypeInv, PlaybackTypeOK
  <1>4. slot # None => pipe'[slot] # None
    BY DropFacts DEF PipeInv, TypeInv, PlaybackTypeOK
  <1>5. ASSUME NEW d \in Clients
        PROVE  /\ local'[d] # None <=> pc'[d] \in Making
               /\ local'[d] # None => pipe'[local'[d]] # None /\ local'[d] # slot'
               /\ pc'[d] \in Early => master' # local'[d]
    <2>1. CASE d = c
      BY <2>1, <1>2 DEF Making
    <2>2. CASE d # c
      BY <2>2, <1>2, <1>3, DropFacts DEF PipeInv, Making
    <2> QED  BY <2>1, <2>2
  <1>6. ASSUME NEW d \in Clients, NEW e \in Clients,
               local'[d] # None, local'[d] = local'[e]
        PROVE  d = e
    BY <1>6, <1>2 DEF PipeInv
  <1>7. PipeInv'
    BY <1>4, <1>5, <1>6 DEF PipeInv
  <1>8. master' \in Pipes => pipe'[master'] # None
    BY DropFacts, DisplayAssumption DEF NoOrphanPipeline
  <1>9. ASSUME NEW q \in Pipes, pipe'[q] # None
        PROVE  q = slot' \/ \E d \in Clients : local'[d] = q
    <2>1. q # local[c] /\ pipe[q] # None
      BY <1>9, DropFacts
    <2> QED  BY <2>1, <1>2 DEF NoOrphanPipeline
  <1> QED  BY <1>7, <1>8, <1>9 DEF NoOrphanPipeline

LEMMA BuildFailsInv == ASSUME Inv, NEW c \in Clients, BuildFails(c) PROVE Inv'
  <1> USE DEF BuildFails, displayVars, sessionVars
  <1>1. Moves(c, {"build", "preflight", "elements"}, {"play", "play_failed"})
    BY FailedMoves DEF Inv, Moves
  <1>2. pc' \in [Clients -> Steps] /\ LockInv'
    BY <1>1, MovesType
    DEF Inv, Steps, Acquired, Making, Early, Unlocking, Opening
  <1>3. mode' \in [Clients -> Modes] /\ attempt' = attempt
    BY FailedMoves DEF Inv
  <1>4. TypeInv'
    BY <1>2, <1>3, DropFacts, DisplayAssumption
    DEF Inv, TypeInv, PlaybackTypeOK, LockInv, Unlocking, Opening
  <1>5. PipeInv' /\ NoOrphanPipeline'
    BY <1>1, DropLocal DEF Making, Early
  <1>6. MasterInv'
    BY <1>1, MovesMaster, DropFacts DEF Inv, Acquired, Making, Early, Stopping
  <1> QED  BY <1>4, <1>5, <1>6 DEF Inv

LEMMA DropFailedInv == ASSUME Inv, NEW c \in Clients, DropFailed(c) PROVE Inv'
  <1> USE DEF DropFailed, displayVars, sessionVars
  <1>1. Moves(c, {"stop_failed", "not_negotiated"}, {"play", "play_failed"})
    BY FallBackMoves DEF Inv, Moves
  <1>2. pc' \in [Clients -> Steps] /\ LockInv'
    BY <1>1, MovesType
    DEF Inv, Steps, Acquired, Making, Early, Unlocking, Opening
  <1>3. mode' \in [Clients -> Modes] /\ attempt' = attempt
    BY FallBackMoves DEF Inv
  <1>4. TypeInv'
    BY <1>2, <1>3, DropFacts, DisplayAssumption
    DEF Inv, TypeInv, PlaybackTypeOK, LockInv, Unlocking, Opening
  <1>5. PipeInv' /\ NoOrphanPipeline'
    BY <1>1, DropLocal DEF Making, Early
  <1>6. MasterInv'
    BY <1>1, MovesMaster, DropFacts DEF Inv, Acquired, Making, Early, Stopping
  <1> QED  BY <1>4, <1>5, <1>6 DEF Inv

\* The lock is taken, and let go of.
LEMMA StopFailedInv == ASSUME Inv, NEW c \in Clients, StopFailed(c) PROVE Inv'
  <1> USE DEF StopFailed, Goto, displayVars, callVars, sessionVars
  <1>1. Moves(c, {"stop_failed", "not_negotiated"}, {"unlock", "unlock_negotiation"})
    BY DEF Moves
  <1>2. pc' \in [Clients -> Steps]
    BY DEF Inv, TypeInv, Steps, Acquired, Unlocking
  <1>3. LockInv'
    <2>1. pc'[c] \in Unlocking /\ pc'[c] \notin Opening /\ pc[c] \notin Opening
      BY DEF Inv, TypeInv, Unlocking, Opening
    <2>2. \A d \in Clients \ {c} : pc'[d] = pc[d]
      BY DEF Inv, TypeInv
    <2> QED
      BY <2>1, <2>2, DisplayAssumption DEF Inv, TypeInv, LockInv
  <1>4. TypeInv'
    BY <1>2, <1>3, DropFacts, DisplayAssumption
    DEF Inv, TypeInv, PlaybackTypeOK, LockInv, Unlocking, Opening
  <1>5. PipeInv' /\ NoOrphanPipeline'
    BY <1>1, DropLocal DEF Making, Early
  <1>6. MasterInv'
    BY <1>1, MovesMaster, DropFacts DEF Inv, Acquired, Making, Early, Stopping
  <1> QED  BY <1>4, <1>5, <1>6 DEF Inv

LEMMA UnlockInv == ASSUME Inv, NEW c \in Clients, Unlock(c) PROVE Inv'
  <1> USE DEF Unlock, displayVars, sessionVars
  <1>1. pc' = [pc EXCEPT ![c] = "play"] \/ pc' = [pc EXCEPT ![c] = "play_failed"]
    BY FallBackMoves DEF Inv
  <1>2. pc' \in [Clients -> Steps]
    BY <1>1 DEF Inv, TypeInv, Steps, Acquired
  <1>3. LockInv'
    <2>1. pc'[c] \notin Unlocking \cup Opening /\ pc[c] \notin Opening /\ pc[c] \in Unlocking
      BY <1>1 DEF Inv, TypeInv, Unlocking, Opening
    <2>2. \A d \in Clients \ {c} : pc'[d] = pc[d]
      BY <1>1 DEF Inv, TypeInv
    <2> QED
      BY <2>1, <2>2, DisplayAssumption DEF Inv, TypeInv, LockInv
  <1>4. mode' \in [Clients -> Modes] /\ attempt' = attempt
    BY FallBackMoves DEF Inv
  <1>5. TypeInv'
    BY <1>2, <1>3, <1>4, DisplayAssumption
    DEF Inv, TypeInv, PlaybackTypeOK, LockInv, Unlocking, Opening
  <1>6. Moves(c, Unlocking, {"play", "play_failed"})
    BY <1>1 DEF Moves, Unlocking
  <1>7. PipeInv' /\ NoOrphanPipeline'
    BY <1>6, MovesPipes DEF Inv, Making, Early, Unlocking
  <1>8. MasterInv'
    BY <1>6, MovesMaster DEF Inv, Acquired, Unlocking, Stopping
  <1> QED  BY <1>5, <1>7, <1>8 DEF Inv

\* The sink becomes master if there is none.
LEMMA PrerollInv == ASSUME Inv, NEW c \in Clients, Preroll(c) PROVE Inv'
  <1> USE DEF Preroll, Goto, displayVars, engineVars, callVars, sessionVars
  <1>1. Moves(c, {"preroll"}, {"store", "stop_failed", "not_negotiated"})
    BY DEF Moves
  <1>2. pc' \in [Clients -> Steps] /\ LockInv'
    BY <1>1, MovesType
    DEF Inv, Steps, Acquired, Making, Early, Unlocking, Opening
  <1>3. /\ local[c] \in Pipes /\ local[c] # None
        /\ master' \in {master, local[c]}
    BY DisplayAssumption DEF Inv, TypeInv, PlaybackTypeOK, PipeInv, Making, Early, Opened
  <1>4. TypeInv'
    BY <1>2, <1>3, DisplayAssumption
    DEF Inv, TypeInv, PlaybackTypeOK, LockInv, Unlocking, Opening, Holders
  <1>5. ASSUME NEW d \in Clients
        PROVE  /\ local[d] # None <=> pc'[d] \in Making
               /\ pc'[d] \in Early => master' # local[d]
    <2>1. CASE d = c
      BY <2>1, <1>3 DEF Inv, TypeInv, Making, Early
    <2>2. CASE d # c
      BY <2>2, <1>3 DEF Inv, TypeInv, PipeInv, Making
    <2> QED  BY <2>1, <2>2
  <1>6. PipeInv' /\ NoOrphanPipeline'
    BY <1>3, <1>5 DEF Inv, PipeInv, NoOrphanPipeline
  <1>7. MasterInv'
    BY <1>1, <1>3, MovesMaster DEF Inv, Acquired, Making, Early, Stopping
  <1> QED  BY <1>4, <1>6, <1>7 DEF Inv

\* What is stored drops what another play has stored.
LEMMA StoreInv == ASSUME Inv, NEW c \in Clients, Store(c) PROVE Inv'
  <1> USE DEF Store, Goto, displayVars, callVars, sessionVars
  <1>1. Moves(c, {"store"}, {"played"})
    BY DEF Moves
  <1>2. pc' \in [Clients -> Steps] /\ LockInv'
    BY <1>1, MovesType
    DEF Inv, Steps, Acquired, Making, Early, Unlocking, Opening
  <1>3. local[c] \in Pipes /\ local[c] # None /\ local[c] # slot /\ pipe[local[c]] # None
    BY DisplayAssumption DEF Inv, TypeInv, PlaybackTypeOK, PipeInv, Making
  <1>4. TypeInv'
    BY <1>2, <1>3, DropFacts, DisplayAssumption
    DEF Inv, TypeInv, PlaybackTypeOK, LockInv, Unlocking, Opening
  <1>5. /\ pc'[c] = "played" /\ local'[c] = None
        /\ \A d \in Clients \ {c} : pc'[d] = pc[d] /\ local'[d] = local[d]
    BY DEF Inv, TypeInv, PlaybackTypeOK
  <1>6. ASSUME NEW d \in Clients, d # c, local[d] # None
        PROVE  /\ local[d] \in Pipes /\ pipe'[local[d]] # None
               /\ local[d] # local[c]
    BY <1>6, DropFacts DEF Inv, PipeInv, TypeInv, PlaybackTypeOK
  <1>7. slot' # None /\ pipe'[slot'] # None
    BY <1>3, DropFacts DEF Inv
  <1>8. ASSUME NEW d \in Clients
        PROVE  /\ local'[d] # None <=> pc'[d] \in Making
               /\ local'[d] # None => pipe'[local'[d]] # None /\ local'[d] # slot'
               /\ pc'[d] \in Early => master' # local'[d]
    <2>1. CASE d = c
      BY <2>1, <1>5 DEF Making, Early
    <2>2. CASE d # c
      BY <2>2, <1>5, <1>6, DropFacts DEF Inv, PipeInv, Making
    <2> QED  BY <2>1, <2>2
  <1>9. ASSUME NEW d \in Clients, NEW e \in Clients,
               local'[d] # None, local'[d] = local'[e]
        PROVE  d = e
    BY <1>9, <1>5 DEF Inv, PipeInv
  <1>10. PipeInv'
    BY <1>7, <1>8, <1>9 DEF PipeInv
  <1>11. master' \in Pipes => pipe'[master'] # None
    BY DropFacts, DisplayAssumption DEF Inv, NoOrphanPipeline
  <1>12. ASSUME NEW q \in Pipes, pipe'[q] # None
         PROVE  q = slot' \/ \E d \in Clients : local'[d] = q
    <2>1. q # slot /\ pipe[q] # None
      BY <1>12, DropFacts DEF Inv
    <2> QED  BY <2>1, <1>5 DEF Inv, NoOrphanPipeline
  <1>13. MasterInv'
    BY <1>1, MovesMaster, DropFacts DEF Inv, Acquired, Making, Early, Stopping
  <1> QED  BY <1>4, <1>10, <1>11, <1>12, <1>13 DEF Inv, NoOrphanPipeline

-----------------------------------------------------------------------------
(***************************************************************************)
(* The display and the renderer.                                           *)
(***************************************************************************)
\* A step of acquire or of release moves one task, and may give the device to
\* the manager or to GBM.
LEMMA DisplayMoves ==
  ASSUME Inv, NEW c \in Clients, Display(c)
  PROVE  /\ \E from, to \in SUBSET Steps :
                /\ Moves(c, from, to)
                /\ (from \cup to) \cap Making = {}
         /\ master' \in {master, None, "display", "gbm"}
         /\ {opened', crtc', saved', gbm'} \subseteq BOOLEAN
         /\ UNCHANGED <<renderer, config, engineVars, callVars, sessionVars>>
  <1> USE DEF Display, Goto
  <1>1. CASE Acquire(c)
    <2>1. Moves(c, {"acquire"} \cup Opening,
                {"acquired", "set_master", "acquire_failed", "enumerate"})
      BY <1>1 DEF Acquire, AcquireSkip, AcquireOpen, AcquireOpenFails, SetMaster,
                  SetMasterFails, EnumerateFails, Enumerate, Moves, Opening
    <2>2. master' \in {master, None, "display", "gbm"}
      BY <1>1 DEF Acquire, AcquireSkip, AcquireOpen, AcquireOpenFails, SetMaster,
                  SetMasterFails, EnumerateFails, Enumerate, InitGbm, Opened,
                  Closed, displayVars
    <2>3. {opened', crtc', saved', gbm'} \subseteq BOOLEAN
      BY <1>1 DEF Acquire, AcquireSkip, AcquireOpen, AcquireOpenFails, SetMaster,
                  SetMasterFails, EnumerateFails, Enumerate, InitGbm, displayVars,
                  Inv, TypeInv, PlaybackTypeOK
    <2> QED
      BY <2>1, <2>2, <2>3 DEF Steps, Acquired, Making, Early, Opening
  <1>2. CASE ReleaseDisplay(c)
    <2>1. Moves(c, {"release"}, {"released"})
      BY <1>2 DEF ReleaseDisplay, ReleaseUnsaved, Release, ReleaseOpenFails, Moves
    <2>2. master' \in {master, None}
      BY <1>2 DEF ReleaseDisplay, ReleaseUnsaved, Release, ReleaseOpenFails, Closed,
                  displayVars
    <2>3. {opened', crtc', saved', gbm'} \subseteq BOOLEAN
      BY <1>2 DEF ReleaseDisplay, ReleaseUnsaved, Release, ReleaseOpenFails, Forget,
                  displayVars, Inv, TypeInv, PlaybackTypeOK
    <2> QED
      BY <2>1, <2>2, <2>3 DEF Steps, Stopping, Making, Early
  <1> QED  BY <1>1, <1>2

\* The mutex is taken and let go of inside acquire.
LEMMA DisplayType == ASSUME Inv, NEW c \in Clients, Display(c) PROVE TypeInv'
  <1> USE DEF Display, Goto
  <1>1. pc' \in [Clients -> Steps] /\ LockInv'
    <2>1. CASE AcquireOpen(c)
      BY <2>1, DisplayAssumption
      DEF AcquireOpen, Inv, TypeInv, LockInv, Steps, Opening, Unlocking, engineVars
    <2>2. CASE SetMaster(c) \/ SetMasterFails(c)
      BY <2>2, DisplayAssumption
      DEF SetMaster, SetMasterFails, Inv, TypeInv, LockInv, Steps, Opening, Unlocking,
          engineVars, displayVars
    <2>3. CASE EnumerateFails(c) \/ Enumerate(c)
      BY <2>3, DisplayAssumption
      DEF EnumerateFails, Enumerate, Inv, TypeInv, LockInv, Steps, Acquired, Opening,
          Unlocking, engineVars
    <2>4. CASE AcquireSkip(c) \/ AcquireOpenFails(c)
      <3>1. Moves(c, {"acquire"}, {"acquired", "acquire_failed"})
        BY <2>4 DEF AcquireSkip, AcquireOpenFails, Moves
      <3> QED
        BY <2>4, <3>1, MovesType
        DEF AcquireSkip, AcquireOpenFails, Inv, Steps, Acquired, Unlocking, Opening,
            engineVars, displayVars
    <2>5. CASE ReleaseDisplay(c)
      <3>1. Moves(c, {"release"}, {"released"})
        BY <2>5 DEF ReleaseDisplay, ReleaseUnsaved, Release, ReleaseOpenFails, Moves
      <3>2. UNCHANGED <<lock, busy>>
        BY <2>5 DEF ReleaseDisplay, ReleaseUnsaved, Release, ReleaseOpenFails,
                    displayVars, engineVars
      <3> QED
        BY <3>1, <3>2, MovesType DEF Inv, Steps, Stopping, Unlocking, Opening
    <2> QED  BY <2>1, <2>2, <2>3, <2>4, <2>5 DEF Acquire
  <1>2. master' \in Holders /\ {opened', crtc', saved', gbm'} \subseteq BOOLEAN
    BY DisplayMoves DEF Inv, TypeInv, PlaybackTypeOK, Holders
  <1> QED
    BY <1>1, <1>2, DisplayAssumption
    DEF Inv, TypeInv, PlaybackTypeOK, LockInv, Unlocking, Opening, engineVars,
        callVars, sessionVars

\* Only Enumerate makes the display acquired, and leaves it to nobody; a task
\* inside acquire has not done so, and a stop that releases it is stopping.
LEMMA DisplayMaster == ASSUME Inv, NEW c \in Clients, Display(c) PROVE MasterInv'
  <1> USE DisplayAssumption DEF Inv, Display, Goto, sessionVars
  <1>1. \A d \in Clients \ {c} : pc'[d] = pc[d]
    BY DisplayMoves DEF Moves, TypeInv
  <1>2. CASE AcquireSkip(c) \/ Enumerate(c)
    <2>1. /\ crtc' = TRUE /\ busy' = None
          /\ master' = "renderer" => renderer'
          /\ master' = "gbm" => gbm'
          /\ gbm' => "card" \in GbmNodes
          /\ master' # "display"
      <3>1. CASE AcquireSkip(c)
        BY <3>1 DEF AcquireSkip, displayVars, MasterInv, TypeInv, PlaybackTypeOK
      <3>2. CASE Enumerate(c)
        <4>1. ~crtc
          BY <3>2 DEF Enumerate, MasterInv, TypeInv, LockInv, Opening
        <4> QED  BY <3>2, <4>1 DEF Enumerate, InitGbm, Opened, Closed, MasterInv
      <3> QED  BY <1>2, <3>1, <3>2
    <2> QED  BY <2>1 DEF MasterInv
  <1>3. CASE AcquireOpen(c) \/ AcquireOpenFails(c) \/ SetMaster(c)
               \/ SetMasterFails(c) \/ EnumerateFails(c)
    <2>1. ~crtc /\ crtc' = crtc /\ gbm' = gbm
      BY <1>3 DEF AcquireOpen, AcquireOpenFails, SetMaster, SetMasterFails,
                  EnumerateFails, displayVars, MasterInv, TypeInv, LockInv, Opening
    <2>2. master' \in {master, "display"}
      BY <1>3 DEF AcquireOpen, AcquireOpenFails, SetMaster, SetMasterFails,
                  EnumerateFails, Opened
    <2>3. pc[c] \notin Stopping /\ pc'[c] \notin Acquired
      BY <1>3 DEF AcquireOpen, AcquireOpenFails, SetMaster, SetMasterFails,
                  EnumerateFails, Acquired, Making, Early, Unlocking, Stopping,
                  TypeInv
    <2>4. ASSUME NEW d \in Clients, session' = d, pc'[d] \in Acquired,
                 \A e \in Clients : pc'[e] \notin Stopping
          PROVE  crtc'
      BY <2>1, <2>3, <2>4, <1>1 DEF MasterInv
    <2> QED  BY <2>1, <2>2, <2>4 DEF MasterInv
  <1>4. CASE ReleaseDisplay(c)
    <2>1. pc'[c] \in Stopping
      BY <1>4 DEF ReleaseDisplay, ReleaseUnsaved, Release, ReleaseOpenFails, Stopping,
                  TypeInv
    <2>2. /\ master' = "renderer" => renderer'
          /\ master' = "gbm" => gbm'
          /\ gbm' => crtc' /\ "card" \in GbmNodes
          /\ crtc' => master' # "display" /\ busy' = None
      BY <1>4 DEF ReleaseDisplay, ReleaseUnsaved, Release, ReleaseOpenFails, Forget,
                  Closed, displayVars, MasterInv
    <2> QED  BY <2>1, <2>2 DEF MasterInv
  <1> QED  BY <1>2, <1>3, <1>4 DEF Acquire

LEMMA DisplayInv == ASSUME Inv, NEW c \in Clients, Display(c) PROVE Inv'
  <1>1. PipeInv' /\ NoOrphanPipeline'
    BY DisplayMoves, MovesPipes DEF Inv, engineVars
  <1> QED  BY <1>1, DisplayType, DisplayMaster DEF Inv

LEMMA RendererInv == ASSUME Inv, Renderer PROVE Inv'
  <1> USE DisplayAssumption
          DEF Inv, Renderer, RendererStarts, RendererStops, Opened, Closed,
              displayVars, engineVars, callVars, sessionVars
  <1>1. TypeInv'
    BY DEF TypeInv, PlaybackTypeOK, LockInv, Holders
  <1>2. PipeInv' /\ NoOrphanPipeline'
    <2>1. master' \in {master, None, "renderer"}
      OBVIOUS
    <2>2. ASSUME NEW d \in Clients, pc'[d] \in Early PROVE master' # local'[d]
      BY <2>1, <2>2 DEF PipeInv, TypeInv, PlaybackTypeOK, Making
    <2> QED  BY <2>1, <2>2 DEF PipeInv, NoOrphanPipeline
  <1>3. MasterInv'
    BY DEF MasterInv
  <1> QED  BY <1>1, <1>2, <1>3

-----------------------------------------------------------------------------
(***************************************************************************)
(* The theorems.                                                           *)
(***************************************************************************)
LEMMA NextInv == Inv /\ [Next]_vars => Inv'
  <1> SUFFICES ASSUME Inv, [Next]_vars PROVE Inv'
    OBVIOUS
  <1>1. ASSUME NEW c \in Clients, LoadBegin(c) \/ StopBegin(c) PROVE Inv'
    BY <1>1, LoadBeginInv, StopBeginInv
  <1>2. ASSUME NEW c \in Clients, Load(c) PROVE Inv'
    BY <1>2, PlainSteps, StopExistingInv, StartSourceInv, BuildFailsInv, PrerollInv,
       StoreInv, StopFailedInv, UnlockInv, DropFailedInv DEF Load
  <1>3. ASSUME NEW c \in Clients, Stop(c) PROVE Inv'
    BY <1>3, StopEngineInv, PlainSteps, StopClearInv DEF Stop
  <1>4. CASE UNCHANGED vars
    BY <1>4 DEF vars, displayVars, engineVars, callVars, sessionVars, Inv, TypeInv,
                PlaybackTypeOK, LockInv, PipeInv, NoOrphanPipeline, MasterInv
  <1> QED
    BY <1>1, <1>2, <1>3, <1>4, DisplayInv, RendererInv DEF Next, Proceed

LEMMA Invariance == Spec => []Inv
  BY InitInv, NextInv, PTL DEF Spec

\* The variables have their types, and both locks are held by a task that will
\* let go of them.
THEOREM PlaybackTypeCorrect == Spec => []PlaybackTypeOK
  <1>1. Inv => PlaybackTypeOK
    BY DEF Inv, TypeInv
  <1> QED  BY <1>1, Invariance, PTL

\* Every pipeline is the stored one or a running play's, and who is DRM master
\* exists: play, stop and Store with any number of tasks.
THEOREM NoPipelineIsLost == Spec => []NoOrphanPipeline
  <1>1. Inv => NoOrphanPipeline
    BY DEF Inv
  <1> QED  BY <1>1, Invariance, PTL

\* Unless GBM has had to open the card itself, the device has no master when the
\* sink of an undisturbed load opens it.
THEOREM SinkIsMasterOrGbm == Spec => [](gbm \/ SinkBecomesMaster)
  <1>1. Inv => gbm \/ SinkBecomesMaster
    <2> SUFFICES ASSUME Inv, ~gbm, NEW c \in Clients,
                        pc[c] = "preroll", session = c,
                        \A d \in Clients \ {c} : pc[d] = "idle",
                        slot = None, ~renderer
                 PROVE  master = None
      BY DEF SinkBecomesMaster
    <2>1. crtc
      BY DEF Inv, MasterInv, Acquired, Making, Early, Stopping
    <2>2. master \notin {"display", "gbm", "renderer"}
      BY <2>1 DEF Inv, MasterInv
    <2>3. master \notin Pipes
      <3>1. ASSUME master \in Pipes PROVE FALSE
        <4>1. master # None /\ \E d \in Clients : local[d] = master
          BY <3>1, DisplayAssumption DEF Inv, NoOrphanPipeline
        <4>2. local[c] # master
          BY DEF Inv, PipeInv, Early
        <4>3. \A d \in Clients \ {c} : local[d] = None
          BY DEF Inv, PipeInv, Making, Early
        <4> QED  BY <4>1, <4>2, <4>3
      <3> QED  BY <3>1
    <2> QED  BY <2>2, <2>3 DEF Inv, TypeInv, PlaybackTypeOK, Holders
  <1> QED  BY <1>1, Invariance, PTL

\* With a render node GBM never opens the card.
THEOREM SinkIsMaster ==
  ASSUME GbmNodes = {"render"} PROVE Spec => []SinkBecomesMaster
  <1>1. Inv => ~gbm
    BY DEF Inv, MasterInv
  <1> QED  BY <1>1, Invariance, SinkIsMasterOrGbm, PTL

-----------------------------------------------------------------------------
(***************************************************************************)
(* The engine keeps the promise of EngineSlot.                             *)
(*                                                                         *)
(* Who is inside play shows in the step and in the mode, so the mode must  *)
(* be back where it began once play has returned; and what is stored must  *)
(* be the pipeline that this play has built (OwnerInv).                    *)
(***************************************************************************)
Trying == {"play", "build", "played", "play_failed"} \cup Making \cup Unlocking

ModeInv == \A c \in Clients : pc[c] \notin Trying => mode[c] = "primary"

OwnerInv == \A c \in Clients : pc[c] \in Making => pipe[local[c]].load = c

EngineInv == Inv /\ ModeInv /\ OwnerInv

Held == IF slot = None THEN None ELSE pipe[slot].load

\* c goes to the step s in mode m; the other tasks stay, and so does what they
\* have built.
Turns(c, s, m) ==
    /\ pc' = [pc EXCEPT ![c] = s]
    /\ mode' = [mode EXCEPT ![c] = m]
    /\ s \notin Trying => m = "primary"
    /\ \A d \in Clients \ {c} :
         /\ local'[d] = local[d]
         /\ local[d] # None => pipe'[local[d]] = pipe[local[d]]
    /\ s \in Making => pipe'[local'[c]].load = c

LEMMA TurnInv ==
  ASSUME EngineInv, NEW c \in Clients, NEW s, NEW m, Turns(c, s, m)
  PROVE  ModeInv' /\ OwnerInv'
  <1>1. pc \in [Clients -> Steps] /\ mode \in [Clients -> Modes]
    BY DEF EngineInv, Inv, TypeInv, PlaybackTypeOK
  <1>2. pc'[c] = s /\ mode'[c] = m
    BY <1>1 DEF Turns
  <1>3. \A d \in Clients \ {c} : pc'[d] = pc[d] /\ mode'[d] = mode[d]
    BY <1>1 DEF Turns
  <1>4. \A d \in Clients : pc[d] \in Making => local[d] # None
    BY DEF EngineInv, Inv, PipeInv
  <1>5. ModeInv'
    BY <1>2, <1>3 DEF EngineInv, ModeInv, Turns
  <1>6. OwnerInv'
    BY <1>2, <1>3, <1>4 DEF EngineInv, OwnerInv, Turns
  <1> QED  BY <1>5, <1>6

LEMMA TurnPlaying ==
  ASSUME EngineInv, NEW c \in Clients, NEW s, NEW m, Turns(c, s, m)
  PROVE  Playing' = IF Plays(s, m) THEN Playing \cup {c} ELSE Playing \ {c}
  <1>1. pc \in [Clients -> Steps] /\ mode \in [Clients -> Modes]
    BY DEF EngineInv, Inv, TypeInv, PlaybackTypeOK
  <1>2. pc'[c] = s /\ mode'[c] = m
    BY <1>1 DEF Turns
  <1>3. \A d \in Clients \ {c} : pc'[d] = pc[d] /\ mode'[d] = mode[d]
    BY <1>1 DEF Turns
  <1>4. Playing' = {d \in Clients : Plays(pc'[d], mode'[d])}
    BY DEF Playing
  <1> QED  BY <1>2, <1>3, <1>4 DEF Playing

\* A turn that neither stores nor takes away: inside play it goes on or fails,
\* outside nothing happens.
LEMMA QuietTurn ==
  ASSUME EngineInv, NEW c \in Clients, NEW s, NEW m, Turns(c, s, m),
         Plays(s, m) => Plays(pc[c], mode[c]),
         Held' = Held
  PROVE  [Engine!Next]_(Engine!vars) /\ ModeInv' /\ OwnerInv'
  <1>1. Playing' = Playing \/ (c \in Playing /\ Playing' = Playing \ {c})
    BY TurnPlaying DEF Playing
  <1>2. CASE Playing' = Playing
    BY <1>2, TurnInv DEF Engine!vars, Held
  <1>3. CASE c \in Playing /\ Playing' = Playing \ {c}
    <2>1. Engine!Fail(c)
      BY <1>3 DEF Engine!Fail, Held
    <2> QED  BY <2>1, TurnInv DEF Engine!Next
  <1> QED  BY <1>1, <1>2, <1>3, TurnInv

\* Taking away what is stored, or what c has built, is nobody else's business.
LEMMA OthersKeep ==
  ASSUME EngineInv, NEW c \in Clients, NEW d \in Clients \ {c}, local[d] # None,
         UNCHANGED pipe \/ DropPipes({slot}) \/ DropPipes({local[c]})
  PROVE  pipe'[local[d]] = pipe[local[d]]
  <1>1. local[d] \in Pipes /\ local[d] # slot /\ local[d] # local[c]
    BY DEF EngineInv, Inv, TypeInv, PlaybackTypeOK, PipeInv
  <1> QED  BY <1>1 DEF DropPipes

\* A step that leaves the pipelines alone.
PlainTo(c, s, m) ==
    /\ pc' = [pc EXCEPT ![c] = s] /\ mode' = [mode EXCEPT ![c] = m]
    /\ UNCHANGED <<pipe, slot, local>>
    /\ s \notin Trying => m = "primary"
    /\ s \in Making => pc[c] \in Making
    /\ Plays(s, m) => Plays(pc[c], mode[c])

LEMMA PlainTurn ==
  ASSUME EngineInv, NEW c \in Clients, NEW s, NEW m, PlainTo(c, s, m)
  PROVE  [Engine!Next]_(Engine!vars) /\ ModeInv' /\ OwnerInv'
  <1>1. Turns(c, s, m)
    BY DEF PlainTo, Turns, EngineInv, OwnerInv
  <1>2. Held' = Held
    BY DEF PlainTo, Held
  <1> QED  BY <1>1, <1>2, QuietTurn DEF PlainTo

LEMMA FallBackTurn ==
  ASSUME EngineInv, NEW c \in Clients, NEW n, FallBack(c, n), Plays(pc[c], mode[c])
  PROVE  \E s \in {"play", "play_failed"}, m \in Modes :
           /\ pc' = [pc EXCEPT ![c] = s] /\ mode' = [mode EXCEPT ![c] = m]
  <1>1. mode \in [Clients -> Modes]
    BY DEF EngineInv, Inv, TypeInv, PlaybackTypeOK
  <1>2. mode = [mode EXCEPT ![c] = mode[c]]
    BY <1>1
  <1> QED  BY <1>1, <1>2 DEF FallBack, NextMode, Modes, Goto

LEMMA FailedTurn ==
  ASSUME EngineInv, NEW c \in Clients, Failed(c), Plays(pc[c], mode[c])
  PROVE  \E s \in {"play", "play_failed"}, m \in Modes :
           /\ pc' = [pc EXCEPT ![c] = s] /\ mode' = [mode EXCEPT ![c] = m]
  <1>1. mode \in [Clients -> Modes]
    BY DEF EngineInv, Inv, TypeInv, PlaybackTypeOK
  <1>2. mode = [mode EXCEPT ![c] = mode[c]]
    BY <1>1
  <1> QED  BY <1>1, <1>2, FallBackTurn DEF Failed, callVars, Modes, Goto

LEMMA PlainEngine ==
  ASSUME EngineInv, NEW c \in Clients,
         \/ LoadBegin(c) \/ BeginBuffer(c) \/ LoadFails(c) \/ Retry(c)
         \/ MarkPlaying(c) \/ CheckExit(c) \/ Preflight(c) \/ Elements(c)
         \/ Preroll(c) \/ Unlock(c) \/ StopBegin(c) \/ StopEngineFails(c)
         \/ StopClear(c)
  PROVE  [Engine!Next]_(Engine!vars) /\ ModeInv' /\ OwnerInv'
  <1>m. mode = [mode EXCEPT ![c] = mode[c]]
    BY DEF EngineInv, Inv, TypeInv, PlaybackTypeOK
  <1>p. pc[c] \notin Trying => mode[c] = "primary"
    BY DEF EngineInv, ModeInv
  <1> USE DEF Goto, Return, callVars, sessionVars, engineVars
  <1>1. CASE LoadBegin(c)
    <2>1. PlainTo(c, "acquire", mode[c])
      BY <1>m, <1>p, <1>1 DEF LoadBegin, PlainTo, Trying, Making, Early,
                       Unlocking, Plays, InPlay
    <2> QED  BY <2>1, PlainTurn
  <1>2. CASE BeginBuffer(c)
    <2>1. PlainTo(c, "play", mode[c]) \/ PlainTo(c, "idle", "primary")
      BY <1>m, <1>p, <1>2 DEF BeginBuffer, PlainTo, Trying, Making, Early,
                       Unlocking, Plays, InPlay
    <2> QED  BY <2>1, PlainTurn
  <1>3. CASE LoadFails(c)
    <2>1. PlainTo(c, "idle", "primary")
      BY <1>3 DEF LoadFails, PlainTo, Trying, Making, Early,
                       Unlocking, Plays, InPlay
    <2> QED  BY <2>1, PlainTurn
  <1>4. CASE Retry(c)
    <2>1. PlainTo(c, "play", "primary")
      BY <1>4 DEF Retry, PlainTo, Trying, Making, Early,
                       Unlocking, Plays, InPlay
    <2> QED  BY <2>1, PlainTurn
  <1>5. CASE MarkPlaying(c)
    <2>1. PlainTo(c, "idle", "primary")
      BY <1>5 DEF MarkPlaying, PlainTo, Trying, Making, Early,
                       Unlocking, Plays, InPlay
    <2> QED  BY <2>1, PlainTurn
  <1>6. CASE CheckExit(c)
    <2>1. PlainTo(c, "play_failed", mode[c]) \/ PlainTo(c, "build", mode[c])
      BY <1>m, <1>p, <1>6 DEF CheckExit, PlainTo, Trying, Making, Early,
                       Unlocking, Plays, InPlay
    <2> QED  BY <2>1, PlainTurn
  <1>7. CASE Preflight(c)
    <2>1. PlainTo(c, "elements", mode[c])
      BY <1>m, <1>7 DEF Preflight, PlainTo, Trying, Making, Early,
                       Unlocking, Plays, InPlay
    <2> QED  BY <2>1, PlainTurn
  <1>8. CASE Elements(c)
    <2>1. PlainTo(c, "preroll", mode[c])
      BY <1>m, <1>8 DEF Elements, PlainTo, Trying, Making, Early,
                       Unlocking, Plays, InPlay
    <2> QED  BY <2>1, PlainTurn
  <1>9. CASE Preroll(c)
    <2>1. \E s \in {"store", "stop_failed", "not_negotiated"} : PlainTo(c, s, mode[c])
      BY <1>m, <1>9 DEF Preroll, PlainTo, Trying, Making, Early,
                       Unlocking, Plays, InPlay
    <2> QED  BY <2>1, PlainTurn
  <1>10. CASE Unlock(c)
    <2>1. PICK s \in {"play", "play_failed"}, m \in Modes :
            pc' = [pc EXCEPT ![c] = s] /\ mode' = [mode EXCEPT ![c] = m]
      <3>1. FallBack(c, pc[c] = "unlock_negotiation") /\ Plays(pc[c], mode[c])
        BY <1>10 DEF Unlock, Plays, InPlay
      <3> QED  BY <3>1, FallBackTurn
    <2>2. PlainTo(c, s, m)
      BY <1>10, <2>1 DEF Unlock, PlainTo, Trying, Making, Early,
                       Unlocking, Plays, InPlay
    <2> QED  BY <2>2, PlainTurn
  <1>11. CASE StopBegin(c)
    <2>1. PlainTo(c, "stop_engine", mode[c]) \/ PlainTo(c, "release", mode[c])
      BY <1>m, <1>p, <1>11 DEF StopBegin, PlainTo, Trying, Making, Early,
                       Unlocking, Plays, InPlay
    <2> QED  BY <2>1, PlainTurn
  <1>12. CASE StopEngineFails(c)
    <2>1. PlainTo(c, "release", mode[c])
      BY <1>m, <1>p, <1>12 DEF StopEngineFails, PlainTo, Trying, Making, Early,
                       Unlocking, Plays, InPlay
    <2> QED  BY <2>1, PlainTurn
  <1>13. CASE StopClear(c)
    <2>1. PlainTo(c, "idle", mode[c])
      BY <1>m, <1>p, <1>13 DEF StopClear, PlainTo, Trying, Making, Early,
                       Unlocking, Plays, InPlay
    <2> QED  BY <2>1, PlainTurn
  <1> QED  BY <1>1, <1>2, <1>3, <1>4, <1>5, <1>6, <1>7, <1>8, <1>9, <1>10, <1>11,
              <1>12, <1>13

\* What a play has built and gives up was not stored.
LEMMA GivenUp ==
  ASSUME EngineInv, NEW c \in Clients, NEW s, NEW m,
         pc' = [pc EXCEPT ![c] = s], mode' = [mode EXCEPT ![c] = m],
         DropPipes({local[c]}), local' = [local EXCEPT ![c] = None], UNCHANGED slot,
         s \in Trying, s \notin Making, Plays(s, m) => Plays(pc[c], mode[c])
  PROVE  [Engine!Next]_(Engine!vars) /\ ModeInv' /\ OwnerInv'
  <1>1. local \in [Clients -> Pipes \cup {None}] /\ slot \in Pipes \cup {None}
    BY DEF EngineInv, Inv, TypeInv, PlaybackTypeOK
  <1>2. slot # None => slot # local[c]
    BY <1>1 DEF EngineInv, Inv, PipeInv
  <1>3. Turns(c, s, m)
    BY <1>1, OthersKeep DEF Turns
  <1>4. Held' = Held
    BY <1>1, <1>2 DEF Held, DropPipes
  <1> QED  BY <1>3, <1>4, QuietTurn

LEMMA FailEngine ==
  ASSUME EngineInv, NEW c \in Clients, BuildFails(c) \/ StopFailed(c) \/ DropFailed(c)
  PROVE  [Engine!Next]_(Engine!vars) /\ ModeInv' /\ OwnerInv'
  <1>m. mode = [mode EXCEPT ![c] = mode[c]] /\ mode[c] \in Modes
    BY DEF EngineInv, Inv, TypeInv, PlaybackTypeOK
  <1>p. Plays(pc[c], mode[c])
    BY DEF BuildFails, StopFailed, DropFailed, Plays, InPlay
  <1>1. \E s \in {"play", "play_failed", "unlock", "unlock_negotiation"}, m \in Modes :
          pc' = [pc EXCEPT ![c] = s] /\ mode' = [mode EXCEPT ![c] = m]
    <2>1. CASE BuildFails(c)
      BY <1>p, <2>1, FailedTurn DEF BuildFails
    <2>2. CASE StopFailed(c)
      BY <1>m, <2>2 DEF StopFailed, Goto, callVars
    <2>3. CASE DropFailed(c)
      BY <1>p, <2>3, FallBackTurn DEF DropFailed
    <2> QED  BY <2>1, <2>2, <2>3
  <1>2. /\ DropPipes({local[c]}) /\ local' = [local EXCEPT ![c] = None]
        /\ UNCHANGED slot
    BY DEF BuildFails, StopFailed, DropFailed
  <1>3. \A s \in {"play", "play_failed", "unlock", "unlock_negotiation"} :
          s \in Trying /\ s \notin Making
    BY DEF Trying, Making, Early, Unlocking
  <1> QED  BY <1>1, <1>2, <1>3, <1>p, GivenUp

LEMMA BuildEngine ==
  ASSUME EngineInv, NEW c \in Clients, StartSource(c)
  PROVE  [Engine!Next]_(Engine!vars) /\ ModeInv' /\ OwnerInv'
  <1> USE DEF StartSource, Goto, callVars
  <1>1. /\ mode = [mode EXCEPT ![c] = mode[c]]
        /\ local \in [Clients -> Pipes \cup {None}] /\ slot \in Pipes \cup {None}
        /\ pipe \in [Pipes -> Built \cup {None}]
    BY DEF EngineInv, Inv, TypeInv, PlaybackTypeOK
  <1>2. PICK p \in Pipes : /\ pipe[p] = None
                           /\ pipe' = [pipe EXCEPT ![p] = Configured(c)]
                           /\ local' = [local EXCEPT ![c] = p]
    OBVIOUS
  <1>3. \A q \in Pipes : pipe[q] # None => pipe'[q] = pipe[q]
    BY <1>1, <1>2
  <1>4. pipe'[local'[c]].load = c
    BY <1>1, <1>2 DEF Configured
  <1>5. /\ \A d \in Clients : local[d] # None => pipe[local[d]] # None
        /\ slot # None => pipe[slot] # None
    BY DEF EngineInv, Inv, PipeInv
  <1>6. /\ pc' = [pc EXCEPT ![c] = "preflight"] /\ mode' = [mode EXCEPT ![c] = mode[c]]
        /\ UNCHANGED slot
    BY <1>1
  <1>7. Turns(c, "preflight", mode[c])
    BY <1>1, <1>2, <1>3, <1>4, <1>5, <1>6 DEF Turns, Trying, Making, Early
  <1>8. Held' = Held
    BY <1>1, <1>3, <1>5, <1>6 DEF Held
  <1>9. Plays(pc[c], mode[c])
    BY DEF Plays, InPlay
  <1> QED  BY <1>7, <1>8, <1>9, QuietTurn

\* The three steps at which what is stored changes.
LEMMA SlotEngine ==
  ASSUME EngineInv, NEW c \in Clients, StopExisting(c) \/ StopEngine(c) \/ Store(c)
  PROVE  [Engine!Next]_(Engine!vars) /\ ModeInv' /\ OwnerInv'
  <1> USE DEF Goto, callVars
  <1>1. /\ mode = [mode EXCEPT ![c] = mode[c]]
        /\ local \in [Clients -> Pipes \cup {None}] /\ slot \in Pipes \cup {None}
    BY DEF EngineInv, Inv, TypeInv, PlaybackTypeOK
  <1>2. CASE StopExisting(c)
    <2> DEFINE s == IF mode[c] = "primary" THEN "check_exit" ELSE "build"
    <2>1. Turns(c, s, mode[c])
      BY <1>1, <1>2, OthersKeep
      DEF StopExisting, Turns, Trying, Making, Early, Unlocking
    <2>2. Playing' = Playing \cup {c}
      <3>1. Plays(s, mode[c])
        BY DEF Plays, InPlay
      <3> HIDE DEF s
      <3> QED  BY <2>1, <3>1, TurnPlaying
    <2>3. Held' = None
      BY <1>2 DEF StopExisting, Held
    <2>4. c \in Playing \/ c \notin Playing
      OBVIOUS
    <2>5. CASE c \in Playing
      <3>1. Engine!TakeAway
        BY <2>2, <2>3, <2>5 DEF Engine!TakeAway, Held
      <3> QED  BY <2>1, <3>1, TurnInv DEF Engine!Next
    <2>6. CASE c \notin Playing
      <3>1. Engine!Begin(c)
        BY <2>2, <2>3, <2>6 DEF Engine!Begin, Held
      <3> QED  BY <2>1, <3>1, TurnInv DEF Engine!Next
    <2> QED  BY <2>5, <2>6
  <1>3. CASE StopEngine(c)
    <2>1. Turns(c, "release", mode[c])
      BY <1>1, <1>3, OthersKeep
      DEF StopEngine, Turns, Trying, Making, Early, Unlocking, EngineInv, ModeInv
    <2>2. Playing' = Playing
      <3>1. ~Plays("release", mode[c]) /\ c \notin Playing
        BY <1>3 DEF StopEngine, Plays, InPlay, Playing
      <3> QED  BY <2>1, <3>1, TurnPlaying
    <2>3. Held' = None
      BY <1>3 DEF StopEngine, Held
    <2>4. Engine!TakeAway
      BY <2>2, <2>3 DEF Engine!TakeAway, Held
    <2> QED  BY <2>1, <2>4, TurnInv DEF Engine!Next
  <1>4. CASE Store(c)
    <2>1. Turns(c, "played", mode[c])
      BY <1>1, <1>4, OthersKeep DEF Store, Turns, Trying, Making, Early, Unlocking
    <2>2. Playing' = Playing \ {c} /\ c \in Playing
      <3>1. ~Plays("played", mode[c]) /\ c \in Playing
        BY <1>4 DEF Store, Plays, InPlay, Playing
      <3> QED  BY <2>1, <3>1, TurnPlaying
    <2>3. Held' = c
      <3>1. local[c] \in Pipes /\ local[c] # slot /\ local[c] # None
        BY <1>1, <1>4 DEF Store, EngineInv, Inv, PipeInv, Making
      <3>2. pipe'[local[c]] = pipe[local[c]] /\ slot' = local[c]
        BY <1>4, <3>1 DEF Store, DropPipes
      <3>3. pipe[local[c]].load = c
        BY <1>4 DEF Store, EngineInv, OwnerInv, Making
      <3> QED  BY <3>1, <3>2, <3>3 DEF Held
    <2>4. Engine!Succeed(c)
      BY <2>2, <2>3 DEF Engine!Succeed, Held
    <2> QED  BY <2>1, <2>4, TurnInv DEF Engine!Next
  <1> QED  BY <1>2, <1>3, <1>4

LEMMA DisplayEngine ==
  ASSUME EngineInv, NEW c \in Clients, Display(c)
  PROVE  [Engine!Next]_(Engine!vars) /\ ModeInv' /\ OwnerInv'
  <1> DEFINE Before == {"acquire", "set_master", "enumerate", "release"}
             After == {"acquired", "set_master", "acquire_failed", "enumerate", "released"}
  <1>1. pc[c] \in Before /\ \E s \in After : pc' = [pc EXCEPT ![c] = s]
    BY DEF Display, Acquire, AcquireSkip, AcquireOpen, AcquireOpenFails, SetMaster,
           SetMasterFails, EnumerateFails, Enumerate, ReleaseDisplay, ReleaseUnsaved,
           Release, ReleaseOpenFails, Forget, Goto
  <1>2. mode = [mode EXCEPT ![c] = mode[c]]
    BY DEF EngineInv, Inv, TypeInv, PlaybackTypeOK
  <1>3. mode[c] = "primary"
    BY <1>1 DEF EngineInv, ModeInv, Trying, Making, Early, Unlocking
  <1>4. \A s \in After : s \notin Making /\ ~Plays(s, mode[c])
    BY DEF Making, Early, Plays, InPlay
  <1>5. UNCHANGED <<pipe, slot, local, mode>>
    BY DEF Display, engineVars, callVars
  <1>6. PICK s \in After : pc' = [pc EXCEPT ![c] = s]
    BY <1>1
  <1>7. PlainTo(c, s, mode[c])
    BY <1>2, <1>3, <1>4, <1>5, <1>6 DEF PlainTo
  <1> QED  BY <1>7, PlainTurn

LEMMA EngineStill ==
  ASSUME EngineInv, UNCHANGED <<pipe, slot, local, pc, mode>>
  PROVE  [Engine!Next]_(Engine!vars) /\ ModeInv' /\ OwnerInv'
  BY DEF Engine!vars, Playing, EngineInv, ModeInv, OwnerInv

LEMMA EngineStep ==
  ASSUME EngineInv, [Next]_vars
  PROVE  [Engine!Next]_(Engine!vars) /\ EngineInv'
  <1>1. Inv'
    BY NextInv DEF EngineInv
  <1>2. ASSUME NEW c \in Clients, LoadBegin(c) \/ StopBegin(c) \/ Load(c) \/ Stop(c)
        PROVE  [Engine!Next]_(Engine!vars) /\ ModeInv' /\ OwnerInv'
    BY <1>2, PlainEngine, FailEngine, BuildEngine, SlotEngine DEF Load, Stop
  <1>3. CASE Renderer \/ UNCHANGED vars
    <2>1. UNCHANGED <<pipe, slot, local, pc, mode>>
      BY <1>3 DEF Renderer, vars, engineVars, callVars
    <2> QED  BY <1>1, <2>1, EngineStill DEF EngineInv
  <1> QED  BY <1>1, <1>2, <1>3, DisplayEngine DEF Next, Proceed, EngineInv

\* The engine keeps its promise (play, its fallbacks, and stop): a play first
\* takes away what is stored and in the end stores its own pipeline or nothing,
\* whatever fails in it and whoever else plays or stops meanwhile.
THEOREM EngineKeepsPromise == Spec => EngineSpec
  <1>1. Init => ModeInv /\ OwnerInv
    BY DEF Init, ModeInv, OwnerInv, Making, Early
  <1>2. Init => Engine!Init
    BY DEF Init, Engine!Init, Playing, Plays, InPlay
  <1>3. Init => EngineInv
    BY <1>1, InitInv DEF EngineInv
  <1>4. EngineInv /\ [Next]_vars => [Engine!Next]_(Engine!vars) /\ EngineInv'
    BY EngineStep
  <1> QED  BY <1>2, <1>3, <1>4, PTL DEF Spec, EngineSpec, Engine!Spec
=============================================================================
