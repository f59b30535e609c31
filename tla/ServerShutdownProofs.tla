------------------------ MODULE ServerShutdownProofs ------------------------
(***************************************************************************)
(* Proofs about ServerShutdown, for any set of Tor processes and callers:  *)
(* the types, and that no Tor process is lost.                             *)
(***************************************************************************)
EXTENDS ServerShutdown, TLAPS

\* Before the last stage nobody has asked the manager to shut down.
Early == {"tor", "build", "run", "position", "servers", "engine", "display",
          "renderer"}

\* main has returned.
Last == {"leaving", "dropped", "exit"}

\* What NoTorOutlives takes for granted: a monitor that is about to replace the
\* child has forgotten it, shutdown holds the mutex for a child, main returns
\* with nobody inside shutdown, and unless it has caught the monitor inside a
\* round, the destructor has found the child and nothing changes any more.
SlotInv ==
    /\ monitor \in {"decide", "spawn", "store"} => child = None
    /\ fresh # None => monitor = "store" \/ caught
    /\ lock => child # None
    /\ stage \in Early => down = "idle"
    /\ stage \in Last => ~lock
    /\ stage \in Last /\ ~caught => monitor \notin Round
    /\ caught => stage \in Last
    /\ stage = "dropped" /\ ~caught => Untold = {}

Inv == TypeOK /\ SlotInv /\ NoTorOutlives

-----------------------------------------------------------------------------
\* At the start there is at most the process of somebody else.
LEMMA InitInv == Init => Inv
  <1> USE TorAssumption
  <1>1. Init => TypeOK
    BY DEF Init, TypeOK, TorInit, TorTypeOK, Reads
  <1>2. Init => SlotInv
    BY DEF Init, SlotInv, TorInit, Early, Last
  <1>3. Init => NoTorOutlives
    BY DEF Init, NoTorOutlives, TorInit, Untold, Alive, Serving
  <1> QED  BY <1>1, <1>2, <1>3 DEF Inv

-----------------------------------------------------------------------------
\* The steps that leave everything of Tor alone, and do not end the server.
Quiet ==
    /\ UNCHANGED torVars
    /\ TypeOK => TypeOK'
    /\ stage \notin Last /\ stage' \notin Last
    /\ stage' \in Early => stage \in Early
    /\ UNCHANGED caught

LEMMA QuietSteps ==
  ASSUME Build \/ ServerFails \/ Signal \/ Work \/ AwaitPosition \/ AwaitServers
            \/ StopEngine \/ ReleaseDisplay
  PROVE  Quiet
  <1>1. CASE Build
    BY <1>1 DEF Build, Quiet, TypeOK, TorTypeOK, torVars, Tasks, Early, Last, Over, Ended, Leaving
  <1>2. CASE ServerFails
    BY <1>2 DEF ServerFails, Quiet, TypeOK, TorTypeOK, torVars, Tasks, Early, Last, Over, Ended, Leaving
  <1>3. CASE Signal
    BY <1>3 DEF Signal, Quiet, TypeOK, TorTypeOK, torVars, Early, Last, Over,
                Ended, Leaving
  <1>4. CASE Command \/ PositionTick \/ PositionDone \/ PositionEnds
    BY <1>4 DEF Command, PositionTick, PositionDone, PositionEnds, Quiet,
                TypeOK, TorTypeOK, torVars, Early, Last, Over,
                Ended, Leaving
  <1>5. CASE StartRenderer \/ SyncRenderer \/ ServerEnds
    <2>1. TypeOK => renderer' \in BOOLEAN
      BY <1>5 DEF StartRenderer, SyncRenderer, ServerEnds, TypeOK
    <2>2. TypeOK => serving' \subseteq Tasks /\ news' \in {"stop", "start", None}
      BY <1>5 DEF StartRenderer, SyncRenderer, ServerEnds, TypeOK
    <2>3. UNCHANGED <<torVars, stage, position, caught>> /\ stage \notin Last
      BY <1>5 DEF StartRenderer, SyncRenderer, ServerEnds, Last, Over, Ended, Leaving
    <2> QED  BY <2>1, <2>2, <2>3 DEF Quiet, TypeOK, TorTypeOK, torVars, Early, Last, Over,
                Ended, Leaving
  <1>6. CASE AwaitPosition \/ AwaitServers \/ StopEngine \/ ReleaseDisplay
    BY <1>6 DEF AwaitPosition, AwaitServers, StopEngine, ReleaseDisplay, Quiet,
                TypeOK, TorTypeOK, torVars, Early, Last, Over,
                Ended, Leaving
  <1> QED  BY <1>1, <1>2, <1>3, <1>4, <1>5, <1>6 DEF Work

LEMMA QuietInv == ASSUME Inv, Quiet PROVE Inv'
  <1> USE DEF Inv, Quiet, torVars
  <1>1. Untold' = Untold
    BY DEF Untold, Alive
  <1>2. SlotInv'
    BY <1>1 DEF SlotInv, Last
  <1>3. NoTorOutlives'
    BY <1>1 DEF NoTorOutlives, Last
  <1> QED  BY <1>2, <1>3

-----------------------------------------------------------------------------
\* What the manager's own steps do, with main where it is: those that leave the
\* processes and where they are kept alone.
LEMMA SameProcesses ==
  ASSUME Inv, TypeOK',
         UNCHANGED <<proc, child, fresh, lock, stage, caught>>,
         monitor' = monitor \/ stage \notin Last \/ caught,
         monitor' \in {"decide", "spawn", "store"} => child = None,
         fresh # None => monitor' = "store" \/ caught,
         stage \in Early => down' = "idle"
  PROVE  Inv'
  <1> USE DEF Inv
  <1>1. Untold' = Untold
    BY DEF Untold, Alive
  <1>2. SlotInv'
    BY <1>1 DEF SlotInv
  <1>3. NoTorOutlives'
    BY <1>1 DEF NoTorOutlives
  <1> QED  BY <1>2, <1>3

\* p is spawned: it is the only process of ours that there is now.
LEMMA SpawnOne ==
  ASSUME TypeOK, NEW p \in Pids, Spawned(p)
  PROVE  /\ p # None
         /\ proc' \in [Pids -> {"none", "starting", "serving", "told", "exited"}]
         /\ Untold' \subseteq Untold \cup {p}
  BY TorAssumption DEF TypeOK, TorTypeOK, Spawned, Becomes, Untold, Alive

LEMMA StartInv == ASSUME Inv, StartTor PROVE Inv'
  <1> USE DEF Inv, StartTor, StartMonitor
  <1>1. TypeOK'
    BY DEF TypeOK, TorTypeOK
  <1>2. SlotInv'
    BY DEF SlotInv, Early, Last, TypeOK, TorTypeOK
  <1>3. NoTorOutlives'
    BY DEF NoTorOutlives, Untold, Alive, TypeOK, TorTypeOK
  <1> QED  BY <1>1, <1>2, <1>3

LEMMA EnsureInv == ASSUME Inv, Manager(EnsureRunning) PROVE Inv'
  <1> USE TorAssumption DEF Inv, Manager, EnsureRunning, serverVars
  <1>1. PICK p \in Pids : Spawned(p) /\ child' = p
    OBVIOUS
  <1>2. /\ p # None
        /\ proc' \in [Pids -> {"none", "starting", "serving", "told", "exited"}]
        /\ Untold' \subseteq Untold \cup {p}
    BY <1>1, SpawnOne
  <1>3. TypeOK'
    BY <1>1, <1>2 DEF TypeOK, TorTypeOK
  <1>4. fresh = None /\ stage \notin Last
    BY DEF TypeOK, TorTypeOK, Last, Over, Ended, Leaving
  <1>5. SlotInv'
    BY <1>1, <1>2, <1>4 DEF SlotInv, TypeOK, TorTypeOK, Last
  <1>6. NoTorOutlives'
    <2>1. None \notin Untold
      BY DEF Untold, Alive
    <2> QED  BY <1>1, <1>2, <1>4, <2>1 DEF NoTorOutlives, Last
  <1> QED  BY <1>3, <1>5, <1>6

\* A step of the monitor finds main not yet returned, or caught it.
LEMMA MonitorRuns ==
  ASSUME Inv, MonitorStep
  PROVE  /\ Monitor /\ UNCHANGED serverVars
         /\ stage \notin Last \/ caught
         /\ stage # "exit"
         /\ monitor # "ended"
  BY DEF Inv, SlotInv, MonitorStep, Manager, LastRound, Over, Ended, Leaving, Last,
         Monitor, MonitorFires, MonitorTick, MonitorDecide, MonitorSpawn,
         MonitorStore, MonitorConnect, MonitorAuth, MonitorCircuits

LEMMA MonitorInv == ASSUME Inv, MonitorStep PROVE Inv'
  <1> USE TorAssumption DEF Inv, serverVars
  <1>1. /\ UNCHANGED <<stage, serving, position, renderer, news, caught>>
        /\ stage \notin Last \/ caught
        /\ stage # "exit" /\ monitor # "ended"
        /\ Monitor
    BY MonitorRuns
  <1>2. CASE MonitorTick
    <2>1. CASE child' = None /\ owns' = FALSE /\ monitor' = "decide"
      <3>1. child # None /\ proc[child] = "exited" /\ UNCHANGED proc /\ fresh = None
            /\ UNCHANGED <<auto, lock, fresh, peer, talk, down>> /\ ~lock
            /\ monitor = "check"
        BY <1>2, <2>1 DEF MonitorTick, TypeOK, TorTypeOK, SlotInv, NoTorOutlives
      <3>2. TypeOK'
        <4>1. (owns <=> child # None)' /\ ({owns, auto, lock} \subseteq BOOLEAN)'
          BY <2>1, <3>1 DEF TypeOK, TorTypeOK
        <4>2. (monitor \in Round)' /\ monitor' # "store" /\ fresh' = None
          BY <2>1, <3>1 DEF Round
        <4> QED  BY <1>1, <2>1, <3>1, <4>1, <4>2 DEF TypeOK, TorTypeOK
      <3>3. Untold' = Untold /\ child \notin Untold
        BY <3>1 DEF Untold, Alive
      <3>4. SlotInv'
        BY <1>1, <2>1, <3>1, <3>3 DEF SlotInv
      <3>5. NoTorOutlives'
        BY <1>1, <2>1, <3>1, <3>3 DEF NoTorOutlives
      <3> QED  BY <3>2, <3>4, <3>5
    <2>2. CASE monitor' = "connect" /\ UNCHANGED <<child, owns>>
      <3>1. TypeOK'
        BY <1>1, <1>2, <2>2 DEF MonitorTick, TypeOK, TorTypeOK, Round
      <3>2. fresh = None
        BY <1>2 DEF MonitorTick, TypeOK, TorTypeOK
      <3> QED  BY <1>1, <1>2, <2>2, <3>1, <3>2, SameProcesses DEF MonitorTick, SlotInv
    <2> QED  BY <1>2, <2>1, <2>2 DEF MonitorTick
  <1>3. CASE MonitorDecide
    <2>1. TypeOK'
      BY <1>1, <1>3 DEF MonitorDecide, TypeOK, TorTypeOK, Round
    <2>2. fresh = None
      BY <1>3 DEF MonitorDecide, TypeOK, TorTypeOK
    <2> QED  BY <1>1, <1>3, <2>1, <2>2, SameProcesses DEF MonitorDecide, SlotInv
  <1>4. CASE MonitorSpawn
    <2>1. fresh = None /\ child = None /\ UNCHANGED <<child, owns, auto, lock, peer, talk, down>>
      BY <1>4 DEF MonitorSpawn, TypeOK, TorTypeOK, SlotInv
    <2>2. CASE monitor' = "connect" /\ UNCHANGED <<proc, fresh>>
      <3>1. TypeOK'
        BY <1>1, <2>1, <2>2 DEF TypeOK, TorTypeOK
      <3> QED  BY <1>1, <2>1, <2>2, <3>1, SameProcesses DEF SlotInv
    <2>3. ASSUME NEW p \in Pids, Spawned(p), fresh' = p, monitor' = "store"
          PROVE  Inv'
      <3>1. /\ p # None
            /\ proc' \in [Pids -> {"none", "starting", "serving", "told", "exited"}]
            /\ Untold' \subseteq Untold \cup {p}
        BY <2>3, SpawnOne
      <3>2. TypeOK'
        BY <1>1, <2>1, <2>3, <3>1 DEF TypeOK, TorTypeOK, Round
      <3>3. SlotInv'
        BY <1>1, <2>1, <2>3 DEF SlotInv, Last
      <3>4. NoTorOutlives'
        <4>1. None \notin Untold
          BY DEF Untold, Alive
        <4> QED  BY <1>1, <2>1, <2>3, <3>1, <4>1 DEF NoTorOutlives
      <3> QED  BY <3>2, <3>3, <3>4
    <2> QED  BY <1>4, <2>2, <2>3 DEF MonitorSpawn
  <1>5. CASE MonitorStore
    <2>1. /\ monitor = "store" /\ ~lock /\ child' = fresh /\ owns' = TRUE
          /\ fresh' = None /\ monitor' = "connect"
          /\ UNCHANGED <<proc, auto, lock, peer, talk, down>>
      BY <1>5 DEF MonitorStore
    <2>2. child = None /\ fresh # None /\ fresh \in Pids \cup {None}
      BY <2>1 DEF SlotInv, TypeOK, TorTypeOK
    <2>3. TypeOK'
      BY <1>1, <2>1, <2>2 DEF TypeOK, TorTypeOK
    <2>4. Untold' = Untold /\ None \notin Untold
      BY <2>1 DEF Untold, Alive
    <2>5. SlotInv'
      BY <1>1, <2>1, <2>2, <2>4 DEF SlotInv
    <2>6. NoTorOutlives'
      BY <1>1, <2>1, <2>2, <2>4 DEF NoTorOutlives
    <2> QED  BY <2>3, <2>5, <2>6
  <1>6. CASE MonitorFires \/ MonitorConnect \/ MonitorAuth \/ MonitorCircuits
    <2>1. TypeOK'
      BY <1>1, <1>6 DEF MonitorFires, MonitorConnect, MonitorAuth, MonitorCircuits,
                        TypeOK, TorTypeOK, Serving, Round
    <2>2. fresh = None /\ monitor' \notin {"decide", "spawn", "store"}
      BY <1>6 DEF MonitorFires, MonitorConnect, MonitorAuth, MonitorCircuits, TypeOK,
                  TorTypeOK
    <2>3. UNCHANGED <<proc, child, fresh, lock, down>>
      BY <1>6 DEF MonitorFires, MonitorConnect, MonitorAuth, MonitorCircuits
    <2> QED  BY <1>1, <2>1, <2>2, <2>3, SameProcesses DEF SlotInv
  <1> QED  BY <1>1, <1>2, <1>3, <1>4, <1>5, <1>6 DEF Monitor

\* The conversations touch nothing that the invariant speaks of.
LEMMA TalkInv ==
  ASSUME Inv, NEW c \in Callers,
         Manager(Call(c)) \/ Manager(Answered(c)) \/ GivesUp(c)
  PROVE  Inv'
  <1> USE DEF Inv, Manager, GivesUp, serverVars
  <1>1. talk' \in [Callers -> Reads \cup {"idle"}]
    <2>1. After(talk[c]) \subseteq Reads \cup {"idle"}
      BY DEF After, Reads
    <2> QED
      BY <2>1 DEF Call, Answered, Unanswered, TypeOK, TorTypeOK, Reads
  <1>2. UNCHANGED <<proc, child, owns, auto, lock, monitor, fresh, peer, down,
                    stage, serving, position, renderer, news, caught>>
    BY DEF Call, Answered, Unanswered
  <1>3. TypeOK'
    BY <1>1, <1>2 DEF TypeOK, TorTypeOK
  <1> QED
    BY <1>2, <1>3, SameProcesses DEF SlotInv

-----------------------------------------------------------------------------
\* Sending SIGTERM keeps the types, and leaves one process less to be told.
LEMMA TerminateKeeps ==
  ASSUME TypeOK, NEW p \in Pids, Terminate(p)
  PROVE  /\ proc' \in [Pids -> {"none", "starting", "serving", "told", "exited"}]
         /\ Untold' = Untold \ {p}
  BY DEF TypeOK, TorTypeOK, Terminate, Becomes, Untold, Alive

LEMMA ShutdownInv == ASSUME Inv, ShutdownStep PROVE Inv'
  <1> USE TorAssumption DEF Inv, ShutdownStep, Manager, serverVars
  <1>1. /\ UNCHANGED <<stage, serving, position, renderer, news, caught>>
        /\ stage \notin Last
    BY DEF Over, Ended, Leaving, Last
  <1>2. CASE Notify
    <2>1. /\ monitor' = monitor \/ (monitor = "wait" /\ monitor' = "ended")
          /\ down = "notify" /\ down' = "auto"
          /\ UNCHANGED <<proc, child, owns, auto, lock, fresh, peer, talk>>
      BY <1>2 DEF Notify
    <2>2. TypeOK'
      BY <1>1, <2>1 DEF TypeOK, TorTypeOK
    <2>3. monitor' = "ended" => fresh = None \/ monitor = "ended"
      BY <2>1 DEF TypeOK, TorTypeOK
    <2>4. stage \notin Early
      BY <2>1 DEF SlotInv
    <2> QED  BY <1>1, <2>1, <2>2, <2>3, <2>4, SameProcesses DEF SlotInv
  <1>3. CASE DisableRestart \/ CheckOwner
    <2>1. /\ down \in {"auto", "owns"} /\ down' \in {"owns", "lock", "done"}
          /\ auto' \in BOOLEAN
          /\ UNCHANGED <<proc, child, owns, lock, monitor, fresh, peer, talk>>
      BY <1>3 DEF DisableRestart, CheckOwner, TypeOK, TorTypeOK
    <2>2. TypeOK'
      BY <1>1, <2>1 DEF TypeOK, TorTypeOK
    <2> QED  BY <1>1, <2>1, <2>2, SameProcesses DEF SlotInv
  <1>4. CASE SendTerm
    <2>1. CASE child = None
      <3>1. /\ down = "lock" /\ down' = "done"
            /\ UNCHANGED <<proc, lock, child, owns, auto, monitor, fresh, peer, talk>>
        BY <1>4, <2>1 DEF SendTerm
      <3>2. TypeOK'
        BY <1>1, <3>1 DEF TypeOK, TorTypeOK
      <3> QED  BY <1>1, <3>1, <3>2, SameProcesses DEF SlotInv
    <2>2. CASE child # None
      <3>1. /\ child \in Pids /\ Terminate(child) /\ lock' = TRUE
            /\ down = "lock" /\ down' = "wait"
            /\ UNCHANGED <<child, owns, auto, monitor, fresh, peer, talk>>
        BY <1>4, <2>2 DEF SendTerm, TypeOK, TorTypeOK
      <3>2. /\ proc' \in [Pids -> {"none", "starting", "serving", "told", "exited"}]
            /\ Untold' = Untold \ {child}
        BY <3>1, TerminateKeeps
      <3>3. TypeOK'
        BY <1>1, <3>1, <3>2 DEF TypeOK, TorTypeOK
      <3>4. SlotInv'
        BY <1>1, <2>2, <3>1, <3>2 DEF SlotInv, Last
      <3>5. NoTorOutlives'
        BY <1>1, <3>1, <3>2 DEF NoTorOutlives, Last
      <3> QED  BY <3>3, <3>4, <3>5
    <2> QED  BY <2>1, <2>2
  <1>5. CASE AwaitExit
    <2>1. /\ down = "wait" /\ proc' = [proc EXCEPT ![child] = "exited"]
          /\ child' = None /\ owns' = FALSE /\ lock' = FALSE /\ down' = "done"
          /\ UNCHANGED <<auto, monitor, fresh, peer, talk>>
      BY <1>5 DEF AwaitExit, Becomes
    <2>2. child \in Pids /\ fresh = None
      BY <2>1 DEF TypeOK, TorTypeOK, SlotInv, NoTorOutlives
    <2>3. proc' \in [Pids -> {"none", "starting", "serving", "told", "exited"}]
      BY <2>1 DEF TypeOK, TorTypeOK
    <2>4. TypeOK'
      <3>1. (owns <=> child # None)' /\ (lock <=> down = "wait")'
        BY <2>1
      <3>2. ({owns, auto, lock} \subseteq BOOLEAN)'
        BY <2>1 DEF TypeOK, TorTypeOK
      <3> QED  BY <1>1, <2>1, <2>3, <3>1, <3>2 DEF TypeOK, TorTypeOK
    <2>5. Untold' \subseteq Untold \ {child}
      BY <2>1, <2>2 DEF Untold, Alive, TypeOK, TorTypeOK
    <2>6. stage \notin Early
      BY <2>1 DEF SlotInv
    <2>7. SlotInv'
      BY <1>1, <2>1, <2>2, <2>6 DEF SlotInv, Last
    <2>8. NoTorOutlives'
      BY <1>1, <2>1, <2>2, <2>5 DEF NoTorOutlives, Last
    <2> QED  BY <2>4, <2>7, <2>8
  <1> QED  BY <1>2, <1>3, <1>4, <1>5 DEF Shutdown

-----------------------------------------------------------------------------
\* main returns with nobody inside shutdown.
LEMMA ReturnInv ==
  ASSUME Inv, Returns, stage \notin Last, stage = "build" \/ down = "done"
  PROVE  Inv'
  <1> USE DEF Inv, Returns
  <1>1. ~lock
    BY DEF TypeOK, TorTypeOK, SlotInv, Early
  <1>2. TypeOK'
    BY DEF TypeOK, TorTypeOK
  <1>3. Untold' = Untold
    BY DEF Untold, Alive
  <1>4. SlotInv'
    <2>1. fresh # None => monitor = "store"
      BY DEF SlotInv
    <2> QED  BY <1>1, <2>1 DEF SlotInv, Last, Early, Round
  <1>5. NoTorOutlives'
    BY <1>3 DEF NoTorOutlives
  <1> QED  BY <1>2, <1>4, <1>5

\* If main has not caught the monitor, the destructor finds the child, and there
\* is no other.
LEMMA DestroyInv == ASSUME Inv, Destroy PROVE Inv'
  <1> USE TorAssumption DEF Inv, Destroy
  <1>1. ~lock
    BY DEF SlotInv, Last
  <1>2. ~caught => fresh = None /\ monitor \notin {"check", "store"}
    BY DEF SlotInv, Last, Round
  <1>3. None \notin Untold
    BY DEF Untold, Alive
  <1>4. /\ proc' \in [Pids -> {"none", "starting", "serving", "told", "exited"}]
        /\ Untold' \subseteq Untold
        /\ ~caught => Untold' = {}
    <2>1. CASE UNCHANGED proc /\ (caught \/ child = None)
      <3>1. Untold' = Untold
        BY <2>1 DEF Untold, Alive
      <3> QED  BY <1>2, <1>3, <2>1, <3>1 DEF NoTorOutlives, TypeOK, TorTypeOK
    <2>2. CASE child # None /\ Terminate(child)
      <3>1. child \in Pids
        BY <2>2 DEF TypeOK, TorTypeOK
      <3>2. /\ proc' \in [Pids -> {"none", "starting", "serving", "told", "exited"}]
            /\ Untold' = Untold \ {child}
        BY <2>2, <3>1, TerminateKeeps
      <3> QED  BY <1>2, <1>3, <3>2 DEF NoTorOutlives
    <2>3. owns <=> child # None
      BY DEF TypeOK, TorTypeOK
    <2> QED  BY <1>1, <1>2, <2>1, <2>2, <2>3 DEF Drop
  <1>5. TypeOK'
    BY <1>4 DEF TypeOK, TorTypeOK
  <1>6. SlotInv'
    BY <1>4 DEF SlotInv, Last, Early
  <1>7. NoTorOutlives'
    BY <1>4 DEF NoTorOutlives
  <1> QED  BY <1>5, <1>6, <1>7

LEMMA EndInv ==
  ASSUME Inv, BuildFails \/ Exit \/ StopRenderer \/ DropMonitor \/ ProcessEnds
  PROVE  Inv'
  <1>1. CASE BuildFails
    BY <1>1, ReturnInv DEF BuildFails, Last
  <1>2. CASE Exit
    BY <1>2, ReturnInv DEF Exit, Last
  <1>3. CASE StopRenderer
    <2> USE DEF Inv, StopRenderer
    <2>1. down = "idle"
      BY <1>3 DEF SlotInv, Early
    <2>2. TypeOK'
      BY <1>3, <2>1 DEF TypeOK, TorTypeOK
    <2>3. Untold' = Untold
      BY <1>3 DEF Untold, Alive
    <2>4. SlotInv' /\ NoTorOutlives'
      BY <1>3, <2>3 DEF SlotInv, Early, Last, NoTorOutlives
    <2> QED  BY <2>2, <2>4
  <1>4. CASE DropMonitor
    <2> USE DEF Inv, DropMonitor, serverVars
    <2>1. TypeOK'
      BY <1>4 DEF TypeOK, TorTypeOK
    <2>2. Untold' = Untold
      BY <1>4 DEF Untold, Alive
    <2>3. SlotInv'
      BY <1>4, <2>2 DEF SlotInv, Leaving, Last, Early, Round
    <2>4. NoTorOutlives'
      BY <1>4, <2>2 DEF NoTorOutlives
    <2> QED  BY <2>1, <2>3, <2>4
  <1>5. CASE ProcessEnds
    <2> USE DEF Inv, ProcessEnds, torVars
    <2>1. TypeOK'
      BY <1>5 DEF TypeOK, TorTypeOK
    <2>2. Untold' = Untold
      BY <1>5 DEF Untold, Alive
    <2>3. SlotInv' /\ NoTorOutlives'
      BY <1>5, <2>2 DEF SlotInv, Last, Early, NoTorOutlives
    <2> QED  BY <2>1, <2>3
  <1> QED  BY <1>1, <1>2, <1>3, <1>4, <1>5

\* A process that comes up or ends is none that was not there before; one that
\* has been told does not come up.
LEMMA ProcessInv == ASSUME Inv, TorProcess PROVE Inv'
  <1> USE DEF Inv, TorProcess, serverVars
  <1>1. PICK p \in Pids : Bootstraps(p) \/ Exits(p)
    OBVIOUS
  <1>2. PICK s \in {"serving", "exited"} :
          /\ proc' = [proc EXCEPT ![p] = s]
          /\ p \in Alive
          /\ s = "serving" => proc[p] = "starting"
    BY <1>1 DEF Bootstraps, Exits, Becomes, Alive
  <1>3. UNCHANGED <<child, owns, auto, lock, monitor, fresh, peer, talk, down,
                    stage, serving, position, renderer, news, caught>>
    BY <1>1 DEF Bootstraps, Exits
  <1>4. TypeOK'
    BY <1>2, <1>3 DEF TypeOK, TorTypeOK
  <1>5. Untold' \subseteq Untold
    BY <1>2 DEF Untold, Alive, TypeOK, TorTypeOK
  <1>6. SlotInv' /\ NoTorOutlives'
    BY <1>3, <1>5 DEF SlotInv, NoTorOutlives
  <1> QED  BY <1>4, <1>6

-----------------------------------------------------------------------------
\* Every step of the server and of the processes keeps the invariant.
LEMMA NextInv == ASSUME Inv, [Next]_vars PROVE Inv'
  <1>1. CASE UNCHANGED vars
    <2>1. Untold' = Untold
      BY <1>1 DEF vars, torVars, Untold, Alive
    <2> QED
      BY <1>1, <2>1 DEF vars, torVars, serverVars, Inv, TypeOK, TorTypeOK, SlotInv,
                        NoTorOutlives
  <1>2. CASE WindDown
    BY <1>2, StartInv, EndInv, DestroyInv, QuietSteps, QuietInv DEF WindDown
  <1>3. CASE BuildFails
    BY <1>3, EndInv
  <1>4. CASE ServerFails \/ Signal \/ Work
    BY <1>4, QuietSteps, QuietInv
  <1>5. CASE TorStep
    BY <1>5, EnsureInv, MonitorInv, ShutdownInv, TalkInv DEF TorStep
  <1>6. CASE TorProcess
    BY <1>6, ProcessInv
  <1> QED  BY <1>1, <1>2, <1>3, <1>4, <1>5, <1>6 DEF Next

\* The manager of the Tor process never has more than one that it has not told
\* to stop, and the process of the server does not end before that one has been
\* told, unless main returned while the monitor was inside a round, whatever
\* main, the monitor, the shutdown and Tor do in whatever order (shutdown, Drop,
\* start_monitor).
THEOREM TorIsNotLost == Spec => []NoTorOutlives
  <1>1. Inv => NoTorOutlives
    BY DEF Inv
  <1> QED  BY <1>1, InitInv, NextInv, PTL DEF Spec

\* The variables keep their types, the owner flag says whether there is a child,
\* and the mutex is held across a step by shutdown alone (owns_process, child).
THEOREM ShutdownTypeCorrect == Spec => []TypeOK
  <1>1. Inv => TypeOK
    BY DEF Inv
  <1> QED  BY <1>1, InitInv, NextInv, PTL DEF Spec
=============================================================================
