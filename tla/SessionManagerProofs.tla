------------------------ MODULE SessionManagerProofs ------------------------
(***************************************************************************)
(* Proofs about the session manager, for any sets of clients and sessions  *)
(* and any number of retries: its types, then its safety, then that it     *)
(* implements the abstract life of a session and asks of the engine what   *)
(* EngineSlot promises; for one client that is not                         *)
(* cancelled, that slot, table, pipeline, display and watch channel agree  *)
(* between its commands; and that the two systems built around it, the     *)
(* DLNA renderer and the stall task, are session managers themselves, with *)
(* what follows for them.                                                  *)
(*                                                                         *)
(* TypeOK is not inductive: that load's counter stays within its bound     *)
(* needs to know where load is (AttemptOK), and that what a command writes *)
(* is well-typed needs to know that a command in progress has a session    *)
(* (Busy) and that a row it is about to publish has been read (SeenOK).    *)
(***************************************************************************)
EXTENDS DlnaSync, StallMonitor, TLAPS

\* The slot names a UUID that has been drawn.
SlotOK == active # None => active \in used

\* A command in progress works on a session.
Busy == \A c \in Clients : pc[c] # "idle" => sid[c] \in used

\* load counts its attempts from 0 and gives up after the last retry.
AttemptOK == \A c \in Clients :
    /\ pc[c] \in {"idle", "insert", "begin_resolve", "resolve", "store",
                  "acquire", "begin_buffer"} => attempt[c] = 0
    /\ pc[c] \in {"play", "reresolve"} => attempt[c] <= MaxRetries

\* A command that is about to publish a row has loaded it.
SeenOK == \A c \in Clients :
    pc[c] \in {"refresh_send", "final_send"} => seen[c] \in PlayerStates
TypeInv == TypeOK /\ SlotOK /\ Busy /\ AttemptOK /\ SeenOK

\* The sid of a client that executes a command is a UUID.
LEMMA BusySid == ASSUME TypeInv, NEW c \in Clients, pc[c] # "idle"
                 PROVE  sid[c] \in Sessions
BY DEF TypeInv, TypeOK, Busy

\* The writes to the table keep its type.
LEMMA RowTyped ==
    ASSUME TypeInv, NEW s \in Sessions
    PROVE  /\ \A t \in PlayerStates : SetState(s, t) => db' \in [Sessions -> Row]
           /\ UpdateResolved(s) => db' \in [Sessions -> Row]
           /\ \A r \in Row : db' = [db EXCEPT ![s] = r] => db' \in [Sessions -> Row]
BY DEF TypeInv, TypeOK, Row, SetState, UpdateResolved

\* try_transition writes a state, or nothing.
LEMMA TransitionTyped ==
    ASSUME TypeInv, NEW c \in Clients, pc[c] # "idle", NEW to \in PlayerStates
    PROVE  /\ \A step : TryTransition(c, to, step) => db' \in [Sessions -> Row]
           /\ AttemptTransition(c, to) => db' \in [Sessions -> Row]
BY BusySid, RowTyped DEF TryTransition, AttemptTransition, TypeInv, TypeOK

\* A command that goes on or returns keeps the types of the clients' variables.
LEMMA LocalsTyped ==
    ASSUME TypeInv, NEW c \in Clients, NEW step \in Steps, Goto(c, step) \/ Return(c)
    PROVE  /\ pc' \in [Clients -> Steps]
           /\ sid' \in [Clients -> Sessions \cup {None}]
           /\ attempt' \in [Clients -> 0 .. MaxRetries + 1]
           /\ seen' \in [Clients -> PlayerStates \cup {None}]
<1>1. CASE Goto(c, step)
  BY <1>1 DEF Goto, TypeInv, TypeOK
<1>2. CASE Return(c)
  BY <1>2, ConstantsAssumption DEF Return, TypeInv, TypeOK, Steps
<1> QED BY <1>1, <1>2

\* The initial state is well-typed.
LEMMA TypeInvInit == Init => TypeInv
<1> USE ConstantsAssumption
<1> SUFFICES ASSUME Init PROVE TypeInv
  OBVIOUS
<1>1. db \in [Sessions -> Row]
  BY DEF Init, Row, NoRow
<1>2. pc \in [Clients -> Steps] /\ attempt \in [Clients -> 0 .. MaxRetries + 1]
  BY DEF Init, Steps
<1>3. TypeOK
  BY <1>1, <1>2 DEF Init, TypeOK
<1> QED BY <1>3 DEF Init, TypeInv, SlotOK, Busy, AttemptOK, SeenOK

\* Every step keeps the invariant: one case per action.
LEMMA TypeInvStep == TypeInv /\ [Next]_vars => TypeInv'
<1> SUFFICES ASSUME TypeInv, [Next]_vars PROVE TypeInv'
  OBVIOUS
<1> USE ConstantsAssumption DEF TypeInv, TypeOK, SlotOK, Busy, AttemptOK, SeenOK, Row, Steps, LoadSteps, StopSteps, SeekSteps, OtherSteps, PublishSteps, slotVars, engineVars

<1>1. ASSUME NEW c \in Clients, Begin(c) PROVE TypeInv'
  <2>1. CASE LoadReserve(c)
    BY <2>1 DEF LoadReserve
  <2>2. CASE PauseBegin(c)
    BY <2>2 DEF PauseBegin, Enter
  <2>3. CASE ResumeBegin(c)
    BY <2>3 DEF ResumeBegin, Enter
  <2>4. CASE StopBegin(c)
    BY <2>4 DEF StopBegin, Enter
  <2>5. CASE SeekBegin(c)
    BY <2>5 DEF SeekBegin, Enter
  <2>6. CASE VolumeBegin(c)
    BY <2>6 DEF VolumeBegin, Enter
  <2>7. CASE PollBegin(c)
    BY <2>7 DEF PollBegin, Enter
  <2> QED BY <1>1, <2>1, <2>2, <2>3, <2>4, <2>5, <2>6, <2>7 DEF Begin
<1>2. ASSUME NEW c \in Clients, Load(c) PROVE TypeInv'
  <2>1. CASE InsertRow(c)
    <3>1. db' \in [Sessions -> Row]
      BY <2>1, BusySid, RowTyped DEF InsertRow, PlayerStates
    <3> QED BY <2>1, <3>1 DEF InsertRow, Goto, Return
  <2>2. CASE BeginResolve(c)
    <3>1. db' \in [Sessions -> Row]
      BY <2>2, TransitionTyped DEF BeginResolve, PlayerStates
    <3>2. pc[c] # "idle" /\ attempt[c] = 0
      BY <2>2 DEF BeginResolve
    <3>3. AttemptOK'
      BY <2>2, <3>2 DEF BeginResolve, TryTransition, Goto, Return
    <3> QED BY <2>2, <3>1, <3>2, <3>3 DEF BeginResolve, TryTransition, Goto, Return
  <2>3. CASE Resolve(c)
    BY <2>3 DEF Resolve, Goto
  <2>4. CASE StoreResolved(c)
    <3>1. db' \in [Sessions -> Row]
      BY <2>4, BusySid, RowTyped DEF StoreResolved, PlayerStates
    <3> QED BY <2>4, <3>1 DEF StoreResolved, Goto
  <2>5. CASE AcquireDisplay(c)
    BY <2>5 DEF AcquireDisplay, Goto
  <2>6. CASE BeginBuffer(c)
    <3>1. db' \in [Sessions -> Row]
      BY <2>6, TransitionTyped DEF BeginBuffer, PlayerStates
    <3>2. pc[c] # "idle" /\ attempt[c] = 0
      BY <2>6 DEF BeginBuffer
    <3>3. AttemptOK'
      BY <2>6, <3>2 DEF BeginBuffer, TryTransition, Goto, Return
    <3> QED BY <2>6, <3>1, <3>2, <3>3 DEF BeginBuffer, TryTransition, Goto, Return
  <2>7. CASE PlayBegin(c)
    <3>1. attempt[c] \in 0 .. MaxRetries /\ pc[c] = "play"
      BY <2>7 DEF PlayBegin
    <3>2. attempt' \in [Clients -> 0 .. MaxRetries + 1]
      BY <2>7, <3>1 DEF PlayBegin
    <3> QED BY <2>7, <3>1, <3>2 DEF PlayBegin
  <2>8. CASE PlayOk(c)
    BY <2>8 DEF PlayOk, Goto
  <2>9. CASE PlayRetryable(c)
    BY <2>9 DEF PlayRetryable, Goto
  <2>10. CASE PlayFailed(c)
    BY <2>10 DEF PlayFailed, Goto
  <2>11. CASE ReResolve(c)
    <3>1. db' \in [Sessions -> Row]
      BY <2>11, BusySid, RowTyped DEF ReResolve, PlayerStates
    <3> QED BY <2>11, <3>1 DEF ReResolve, Goto
  <2>12. CASE MarkPlaying(c)
    <3>1. db' \in [Sessions -> Row]
      BY <2>12, TransitionTyped DEF MarkPlaying, PlayerStates
    <3> QED BY <2>12, <3>1 DEF MarkPlaying, TryTransition, Goto, Return
  <2>13. CASE MarkFailed(c)
    <3>1. db' \in [Sessions -> Row]
      BY <2>13, TransitionTyped DEF MarkFailed, PlayerStates
    <3> QED BY <2>13, <3>1 DEF MarkFailed, Goto
  <2>14. CASE ClearFailed(c)
    BY <2>14 DEF ClearFailed, Return
  <2>15. CASE FallBack(c)
    BY <2>15 DEF FallBack, clientVars, slotVars
  <2> QED BY <1>2, <2>1, <2>2, <2>3, <2>4, <2>5, <2>6, <2>7, <2>8, <2>9, <2>10, <2>11, <2>12, <2>13, <2>14, <2>15 DEF Load
<1>3. ASSUME NEW c \in Clients, Stop(c) PROVE TypeInv'
  <2>1. CASE StopLoad(c)
    BY <2>1 DEF StopLoad, SeeRow, Stored, Return
  <2>2. CASE StopEngine(c)
    BY <2>2 DEF StopEngine, Goto
  <2>3. CASE ReleaseDisplay(c)
    BY <2>3 DEF ReleaseDisplay, Goto
  <2>4. CASE StopMark(c)
    <3>1. db' \in [Sessions -> Row]
      BY <2>4, TransitionTyped DEF StopMark, PlayerStates
    <3> QED BY <2>4, <3>1 DEF StopMark, Goto
  <2>5. CASE StopClear(c)
    BY <2>5 DEF StopClear, Goto
  <2>6. CASE StopDelete(c)
    <3>1. db' \in [Sessions -> Row]
      BY <2>6, BusySid, RowTyped DEF StopDelete, NoRow, PlayerStates
    <3> QED BY <2>6, <3>1 DEF StopDelete, Goto
  <2>7. CASE StopPublish(c)
    BY <2>7 DEF StopPublish, Return
  <2> QED BY <1>3, <2>1, <2>2, <2>3, <2>4, <2>5, <2>6, <2>7 DEF Stop
<1>4. ASSUME NEW c \in Clients, Other(c) PROVE TypeInv'
  <2>1. CASE PauseEngine(c)
    <3>1. paused' \in BOOLEAN
      BY <2>1, Zenon DEF PauseEngine
    <3>2. Goto(c, "mark_paused") \/ Return(c)
      BY <2>1, Zenon DEF PauseEngine
    <3>3. active' = active /\ used' = used /\ db' = db /\ watch' = watch
          /\ pipeline' = pipeline /\ display' = display /\ pc[c] = "pause_engine"
      BY <2>1, Zenon DEF PauseEngine
    <3>4. TypeOK'
      BY <3>1, <3>2, <3>3, LocalsTyped
    <3> QED BY <3>2, <3>3, <3>4 DEF Goto, Return
  <2>2. CASE MarkPaused(c)
    <3>1. db' \in [Sessions -> Row]
      BY <2>2, TransitionTyped DEF MarkPaused, PlayerStates
    <3> QED BY <2>2, <3>1 DEF MarkPaused, TryTransition, Goto, Return
  <2>3. CASE ResumeEngine(c)
    <3>1. paused' \in BOOLEAN
      BY <2>3, Zenon DEF ResumeEngine
    <3>2. Goto(c, "mark_playing") \/ Return(c)
      BY <2>3, Zenon DEF ResumeEngine
    <3>3. active' = active /\ used' = used /\ db' = db /\ watch' = watch
          /\ pipeline' = pipeline /\ display' = display /\ pc[c] = "resume_engine"
      BY <2>3, Zenon DEF ResumeEngine
    <3>4. TypeOK'
      BY <3>1, <3>2, <3>3, LocalsTyped
    <3> QED BY <3>2, <3>3, <3>4 DEF Goto, Return
  <2>4. CASE SeekLoad(c)
    BY <2>4 DEF SeekLoad, SeeRow, Stored, Return
  <2>5. CASE BeginSeek(c)
    <3>1. db' \in [Sessions -> Row]
      BY <2>5, TransitionTyped DEF BeginSeek, PlayerStates
    <3> QED BY <2>5, <3>1 DEF BeginSeek, TryTransition, Goto, Return
  <2>6. CASE SeekEngine(c)
    BY <2>6 DEF SeekEngine, Goto, Return
  <2>7. CASE SeekDone(c)
    <3>1. db' \in [Sessions -> Row]
      BY <2>7, TransitionTyped DEF SeekDone, PlayerStates
    <3> QED BY <2>7, <3>1 DEF SeekDone, TryTransition, Goto, Return
  <2>8. CASE VolumeStore(c)
    BY <2>8 DEF VolumeStore, Goto
  <2>9. CASE VolumeEngine(c)
    BY <2>9 DEF VolumeEngine, Goto, Return
  <2>10. CASE Refresh(c)
    BY <2>10 DEF Refresh, Goto
  <2>11. CASE Poll(c)
    BY <2>11 DEF Poll, Goto, Return
  <2>12. CASE ReadSnapshot(c)
    BY <2>12 DEF ReadSnapshot, SeeRow, Stored, Goto, Return
  <2>13. CASE SendSnapshot(c)
    BY <2>13 DEF SendSnapshot, Goto, Return, Snapshot
  <2> QED BY <1>4, <2>1, <2>2, <2>3, <2>4, <2>5, <2>6, <2>7, <2>8, <2>9, <2>10, <2>11, <2>12, <2>13 DEF Other
<1>5. ASSUME NEW c \in Clients, Cancel(c) PROVE TypeInv'
  BY <1>5 DEF Cancel, Return
<1>6. CASE Restart
  <2>1. ASSUME NEW stale PROVE Recovered(stale) \in [Sessions -> Row]
    BY DEF Recovered, NoRow, PlayerStates
  <2>2. db' \in [Sessions -> Row]
    BY <1>6, <2>1 DEF Restart
  <2>3. /\ pc' \in [Clients -> Steps]
        /\ attempt' \in [Clients -> 0 .. MaxRetries + 1]
    BY <1>6 DEF Restart
  <2>4. TypeOK'
    BY <1>6, <2>2, <2>3 DEF Restart
  <2> QED BY <1>6, <2>4 DEF Restart
<1>7. CASE UNCHANGED vars
  BY <1>7 DEF vars, clientVars
<1> QED BY <1>1, <1>2, <1>3, <1>4, <1>5, <1>6, <1>7 DEF Next, Step

\* The state of every command, row, slot and subsystem stays in its range;
\* load in particular never makes more than MaxRetries + 1 attempts.
THEOREM TypeCorrect == Spec => []TypeOK
<1>1. Init => TypeInv
  BY TypeInvInit
<1>2. TypeInv /\ [Next]_vars => TypeInv'
  BY TypeInvStep
<1>3. TypeInv => TypeOK
  BY DEF TypeInv
<1> QED BY <1>1, <1>2, <1>3, PTL DEF Spec

\* The strengthening itself, for the proofs that build on it.
LEMMA TypeInvariant == Spec => []TypeInv
<1> QED BY TypeInvInit, TypeInvStep, PTL DEF Spec

-----------------------------------------------------------------------------
(***************************************************************************)
(* Safety of the session manager, for any number of concurrent clients:    *)
(* the session in the slot has its row, a session that buffers or plays    *)
(* has been resolved, and what happens to a session is the abstract life   *)
(* of SessionLifecycle.                                                    *)
(*                                                                         *)
(* The first two are not inductive. RowInv adds what the code takes for    *)
(* granted about the commands in flight: only the load that drew a UUID    *)
(* inserts its row, nobody works on the row before, and stop deletes a row *)
(* only after the slot has been cleared. Most actions are Quiet for        *)
(* RowInv, so the proof first sorts the actions (QuietSteps), then treats  *)
(* the quiet ones together and the five others one by one.                 *)
(***************************************************************************)

\* The steps that a command takes only on a row that has been inserted.
PastInsert ==
    {"begin_resolve", "resolve", "store", "acquire", "begin_buffer"}
        \cup (StopSteps \ {"stop_load"})

\* A row is the row of a UUID that was drawn.
StoredUsed == \A s \in Sessions : Stored(s) => s \in used

\* Before its insertion a row does not exist, and no other command can have
\* got past the point where it needs the row.
InsertInv == \A c \in Clients : pc[c] = "insert" =>
    /\ ~Stored(sid[c])
    /\ \A d \in Clients \ {c} :
         pc[d] \in {"insert"} \cup PastInsert => sid[d] # sid[c]

\* stop deletes a session that has left the slot.
DeleteInv == \A c \in Clients : pc[c] = "stop_delete" => active # sid[c]

RowInv == TypeInv /\ StoredUsed /\ InsertInv /\ DeleteInv /\ ActiveHasRow

-----------------------------------------------------------------------------
\* A step of c that touches neither the slot nor the set of rows.
Quiet(c) ==
    /\ UNCHANGED slotVars
    /\ \A s \in Sessions : Stored(s)' = Stored(s)
    /\ \A d \in Clients \ {c} : pc'[d] = pc[d] /\ sid'[d] = sid[d]
    /\ pc[c] # "insert" /\ pc'[c] # "insert"
    /\ pc'[c] # "stop_delete"
    /\ pc'[c] \in PastInsert =>
         /\ sid'[c] = sid[c]
         /\ pc[c] \in PastInsert \/ Stored(sid[c])

\* An UPDATE neither creates nor deletes a row.
LEMMA QuietRows ==
    ASSUME TypeInv, NEW s \in Sessions
    PROVE  /\ \A to \in PlayerStates :
                 db[s].state \in PlayerStates /\ SetState(s, to)
                     => \A t \in Sessions : Stored(t)' = Stored(t)
           /\ UpdateResolved(s) => \A t \in Sessions : Stored(t)' = Stored(t)
BY DEF TypeInv, TypeOK, Row, SetState, UpdateResolved, Stored, PlayerStates,
   Absent

\* Nor does try_transition.
LEMMA QuietTransition ==
    ASSUME TypeInv, NEW c \in Clients, pc[c] # "idle", NEW to \in PlayerStates
    PROVE  /\ \A step : TryTransition(c, to, step)
                 => \A t \in Sessions : Stored(t)' = Stored(t)
           /\ AttemptTransition(c, to)
                 => \A t \in Sessions : Stored(t)' = Stored(t)
BY BusySid, QuietRows DEF TryTransition, AttemptTransition, CanTransition,
   Stored

\* All but five actions are quiet.
LEMMA QuietSteps ==
    ASSUME TypeInv, NEW c \in Clients,
           Begin(c) \/ Step(c) \/ Cancel(c)
    PROVE  \/ LoadReserve(c) \/ InsertRow(c) \/ ClearFailed(c)
           \/ StopClear(c) \/ StopDelete(c) \/ Quiet(c)
<1> USE DEF TypeInv, TypeOK, Quiet, PastInsert, StopSteps, slotVars
<1>1. CASE Begin(c)
  <2>1. CASE PauseBegin(c)
    BY <2>1 DEF PauseBegin, Stored, Enter
  <2>2. CASE ResumeBegin(c)
    BY <2>2 DEF ResumeBegin, Stored, Enter
  <2>3. CASE StopBegin(c)
    BY <2>3 DEF StopBegin, Stored, Enter
  <2>4. CASE SeekBegin(c)
    BY <2>4 DEF SeekBegin, Stored, Enter
  <2>5. CASE VolumeBegin(c)
    BY <2>5 DEF VolumeBegin, Stored, Enter
  <2>6. CASE PollBegin(c)
    BY <2>6 DEF PollBegin, Stored, Enter
  <2> QED BY <1>1, <2>1, <2>2, <2>3, <2>4, <2>5, <2>6 DEF Begin
<1>2. CASE Load(c)
  <2>1. CASE BeginResolve(c)
    BY <2>1, QuietTransition DEF BeginResolve, PlayerStates, TryTransition,
       Goto, Return
  <2>2. CASE Resolve(c)
    BY <2>2 DEF Resolve, Stored, Goto
  <2>3. CASE StoreResolved(c)
    BY <2>3, BusySid, QuietRows DEF StoreResolved, Stored, Goto
  <2>4. CASE AcquireDisplay(c)
    BY <2>4 DEF AcquireDisplay, Stored, Goto
  <2>5. CASE BeginBuffer(c)
    BY <2>5, QuietTransition DEF BeginBuffer, PlayerStates, TryTransition,
       Goto, Return
  <2>6. CASE PlayBegin(c)
    BY <2>6 DEF PlayBegin, Stored
  <2>7. CASE PlayOk(c)
    BY <2>7 DEF PlayOk, Stored, Goto
  <2>8. CASE PlayRetryable(c)
    BY <2>8 DEF PlayRetryable, Stored, Goto
  <2>9. CASE PlayFailed(c)
    BY <2>9 DEF PlayFailed, Stored, Goto
  <2>10. CASE ReResolve(c)
    BY <2>10, BusySid, QuietRows DEF ReResolve, Stored, Goto
  <2>11. CASE MarkPlaying(c)
    BY <2>11, QuietTransition DEF MarkPlaying, PlayerStates, TryTransition,
       Goto, Return
  <2>12. CASE MarkFailed(c)
    BY <2>12, QuietTransition DEF MarkFailed, PlayerStates, Goto
  <2>13. CASE FallBack(c)
    BY <2>13 DEF FallBack, Stored, clientVars, slotVars
  <2> QED BY <1>2, <2>1, <2>2, <2>3, <2>4, <2>5, <2>6, <2>7, <2>8, <2>9, <2>10,
     <2>11, <2>12, <2>13 DEF Load
<1>3. CASE Stop(c)
  <2>1. CASE StopLoad(c)
    BY <2>1 DEF StopLoad, Stored, SeeRow, Return
  <2>2. CASE StopEngine(c)
    BY <2>2 DEF StopEngine, Stored, Goto
  <2>3. CASE ReleaseDisplay(c)
    BY <2>3 DEF ReleaseDisplay, Stored, Goto
  <2>4. CASE StopMark(c)
    <3>1. \A t \in Sessions : Stored(t)' = Stored(t)
      BY <2>4, QuietTransition DEF StopMark, PlayerStates, Stored
    <3> QED BY <2>4, <3>1 DEF StopMark, Goto
  <2>5. CASE StopPublish(c)
    BY <2>5 DEF StopPublish, Stored, Return
  <2> QED BY <1>3, <2>1, <2>2, <2>3, <2>4, <2>5 DEF Stop
<1>4. CASE Other(c)
  <2>1. CASE PauseEngine(c)
    BY <2>1 DEF PauseEngine, Stored, Goto, Return
  <2>2. CASE MarkPaused(c)
    BY <2>2, QuietTransition DEF MarkPaused, PlayerStates, TryTransition, Goto,
       Return
  <2>3. CASE ResumeEngine(c)
    BY <2>3 DEF ResumeEngine, Stored, Goto, Return
  <2>4. CASE SeekLoad(c)
    BY <2>4 DEF SeekLoad, Stored, SeeRow, Return
  <2>5. CASE BeginSeek(c)
    BY <2>5, QuietTransition DEF BeginSeek, PlayerStates, TryTransition, Goto,
       Return
  <2>6. CASE SeekEngine(c)
    BY <2>6 DEF SeekEngine, Stored, Goto, Return
  <2>7. CASE SeekDone(c)
    BY <2>7, QuietTransition DEF SeekDone, PlayerStates, TryTransition, Goto,
       Return
  <2>8. CASE VolumeStore(c)
    BY <2>8 DEF VolumeStore, Stored, Goto
  <2>9. CASE VolumeEngine(c)
    BY <2>9 DEF VolumeEngine, Stored, Goto, Return
  <2>10. CASE Refresh(c)
    BY <2>10 DEF Refresh, Stored, Goto
  <2>11. CASE Poll(c)
    BY <2>11 DEF Poll, Stored, Goto, Return
  <2>12. CASE ReadSnapshot(c)
    BY <2>12 DEF ReadSnapshot, Stored, SeeRow, Goto, Return
  <2>13. CASE SendSnapshot(c)
    BY <2>13 DEF SendSnapshot, Stored, Goto, Return, Snapshot
  <2> QED BY <1>4, <2>1, <2>2, <2>3, <2>4, <2>5, <2>6, <2>7, <2>8, <2>9, <2>10,
     <2>11, <2>12, <2>13 DEF Other
<1>5. CASE Cancel(c)
  BY <1>5 DEF Cancel, AwaitSteps, Return, Stored
<1> QED BY <1>1, <1>2, <1>3, <1>4, <1>5 DEF Step

-----------------------------------------------------------------------------
\* A quiet step keeps RowInv.
LEMMA RowInvQuiet ==
    ASSUME RowInv, TypeInv', NEW c \in Clients, Quiet(c)
    PROVE  RowInv'
<1> USE DEF RowInv, TypeInv, TypeOK
<1>1. StoredUsed'
  BY DEF StoredUsed, Quiet, slotVars
<1>2. InsertInv'
  <2> SUFFICES ASSUME NEW d \in Clients, pc'[d] = "insert"
               PROVE  /\ ~Stored(sid[d])'
                      /\ \A e \in Clients \ {d} :
                           pc'[e] \in {"insert"} \cup PastInsert => sid'[e] # sid'[d]
    BY DEF InsertInv
  <2>1. d # c /\ pc[d] = "insert" /\ sid'[d] = sid[d] /\ sid[d] \in Sessions
    BY BusySid DEF Quiet
  <2>2. ~Stored(sid[d])'
    BY <2>1 DEF Quiet, InsertInv, Stored
  <2>3. ASSUME NEW e \in Clients \ {d}, pc'[e] \in {"insert"} \cup PastInsert
        PROVE  sid'[e] # sid'[d]
    BY <2>1, <2>3 DEF Quiet, InsertInv
  <2> QED BY <2>2, <2>3
<1>3. DeleteInv'
  BY DEF DeleteInv, Quiet, slotVars
<1>4. ActiveHasRow'
  BY DEF ActiveHasRow, Inserting, Quiet, slotVars
<1> QED BY <1>1, <1>2, <1>3, <1>4

\* Every step keeps RowInv.
LEMMA RowInvStep == RowInv /\ [Next]_vars => RowInv'
<1> SUFFICES ASSUME RowInv, [Next]_vars PROVE RowInv'
  OBVIOUS
<1>t. TypeInv /\ TypeInv'
  BY TypeInvStep DEF RowInv
<1> USE <1>t, ConstantsAssumption DEF TypeInv, TypeOK
<1>1. ASSUME NEW c \in Clients, LoadReserve(c) PROVE RowInv'
  <2>1. StoredUsed'
    BY <1>1 DEF LoadReserve, RowInv, StoredUsed, Stored
  <2>2. InsertInv'
    BY <1>1 DEF LoadReserve, RowInv, StoredUsed, InsertInv, Stored, Busy,
       PastInsert, StopSteps
  <2>3. DeleteInv'
    BY <1>1 DEF LoadReserve, RowInv, DeleteInv, Busy
  <2>4. ActiveHasRow'
    BY <1>1 DEF LoadReserve, ActiveHasRow, Inserting
  <2> QED BY <2>1, <2>2, <2>3, <2>4 DEF RowInv
<1>2. ASSUME NEW c \in Clients, InsertRow(c) PROVE RowInv'
  <2>1. sid[c] \in Sessions /\ sid[c] \in used /\ pc[c] = "insert"
    BY <1>2, BusySid DEF InsertRow, Busy
  <2>2. used' = used /\ \A t \in Sessions : t # sid[c] => db'[t] = db[t]
    BY <1>2, <2>1 DEF InsertRow
  <2>3. /\ pc'[c] # "insert" /\ pc'[c] # "stop_delete"
        /\ pc'[c] \in PastInsert => sid'[c] = sid[c]
        /\ \A d \in Clients \ {c} : pc'[d] = pc[d] /\ sid'[d] = sid[d]
    BY <1>2, <2>1 DEF InsertRow, Goto, Return, PastInsert, StopSteps
  <2>4. StoredUsed'
    BY <2>1, <2>2 DEF RowInv, StoredUsed, Stored
  <2>5. InsertInv'
    BY <2>1, <2>2, <2>3, BusySid DEF RowInv, InsertInv, Stored
  <2>6. DeleteInv'
    BY <1>2, <2>1, <2>3, BusySid DEF InsertRow, RowInv, DeleteInv
  <2>7. ActiveHasRow'
    BY <1>2, <2>1 DEF InsertRow, RowInv, ActiveHasRow, Inserting, Stored,
       Absent, Goto, Return
  <2> QED BY <2>4, <2>5, <2>6, <2>7 DEF RowInv
<1>3. ASSUME NEW c \in Clients, ClearFailed(c) \/ StopClear(c) PROVE RowInv'
  <2>1. StoredUsed'
    BY <1>3 DEF ClearFailed, StopClear, RowInv, StoredUsed, Stored
  <2>2. InsertInv'
    BY <1>3 DEF ClearFailed, StopClear, RowInv, InsertInv, Stored, PastInsert,
       StopSteps, Goto, Return
  <2>3. DeleteInv' /\ ActiveHasRow'
    BY <1>3, BusySid DEF ClearFailed, StopClear, RowInv, DeleteInv,
       ActiveHasRow, Goto, Return
  <2> QED BY <2>1, <2>2, <2>3 DEF RowInv
<1>4. ASSUME NEW c \in Clients, StopDelete(c) PROVE RowInv'
  <2>1. sid[c] \in Sessions /\ active # sid[c]
    BY <1>4, BusySid DEF StopDelete, RowInv, DeleteInv
  <2>2. \A t \in Sessions : t # sid[c] => db'[t] = db[t]
    BY <1>4, <2>1 DEF StopDelete
  <2>3. StoredUsed'
    BY <1>4, <2>1, <2>2 DEF StopDelete, RowInv, StoredUsed, Stored, NoRow,
       slotVars
  <2>4. InsertInv'
    BY <1>4, <2>1 DEF StopDelete, RowInv, InsertInv, Stored, NoRow, PastInsert,
       StopSteps, Goto
  <2>5. DeleteInv'
    BY <1>4 DEF StopDelete, RowInv, DeleteInv, Goto, slotVars
  <2>6. ActiveHasRow'
    BY <1>4, <2>1 DEF StopDelete, RowInv, ActiveHasRow, Inserting, Stored,
       Goto, slotVars
  <2> QED BY <2>3, <2>4, <2>5, <2>6 DEF RowInv
<1>5. CASE Restart
  <2>1. StoredUsed'
    <3>1. \A stale : \A t \in Sessions :
             Recovered(stale)[t].state # Absent => Stored(t)
      BY DEF Recovered, NoRow, Stored, LiveStates, PlayerStates, Absent
    <3>2. \A t \in Sessions : db'[t].state # Absent => Stored(t)
      BY <1>5, <3>1 DEF Restart
    <3> QED BY <1>5, <3>2 DEF Restart, RowInv, StoredUsed, Stored
  <2> QED BY <1>5, <2>1 DEF Restart, RowInv, InsertInv, DeleteInv, ActiveHasRow
<1>6. CASE UNCHANGED vars
  BY <1>6 DEF vars, slotVars, clientVars, RowInv, StoredUsed, InsertInv,
     DeleteInv, ActiveHasRow, Inserting, Stored
<1>7. ASSUME NEW c \in Clients, Begin(c) \/ Step(c) \/ Cancel(c) PROVE RowInv'
  BY <1>1, <1>2, <1>3, <1>4, <1>7, QuietSteps, RowInvQuiet
<1> QED BY <1>5, <1>6, <1>7 DEF Next

\* RowInv holds in every reachable state.
LEMMA RowInvariant == Spec => []RowInv
<1>1. Init => RowInv
  <2> SUFFICES ASSUME Init PROVE RowInv
    OBVIOUS
  <2>1. StoredUsed
    BY DEF Init, StoredUsed, Stored, NoRow
  <2> QED BY <2>1, TypeInvInit DEF Init, RowInv, InsertInv, DeleteInv,
     ActiveHasRow
<1> QED BY <1>1, RowInvStep, PTL DEF Spec

\* The slot never names a session that current_status and stop would not find,
\* except while the load that reserved it is inserting the row.
THEOREM SlotHasRow == Spec => []ActiveHasRow
<1>1. RowInv => ActiveHasRow
  BY DEF RowInv
<1> QED BY <1>1, RowInvariant, PTL

-----------------------------------------------------------------------------
\* Between the UPDATE of its resolved URL and the transition to Buffering, a
\* load's row is resolved, if a stop has not deleted it.
AcquireInv == \A c \in Clients :
    pc[c] \in {"acquire", "begin_buffer"} /\ Stored(sid[c])
        => db[sid[c]].resolved

ResolvedInv == RowInv /\ AcquireInv /\ BufferedIsResolved

\* The targets of the transitions other than load's transition to Buffering.
OtherTargets == {"Playing", "Paused", "Seeking", "Error", "Idle", "Resolving"}

\* Only the transition to Buffering enters the pipeline states from outside.
LEMMA OnlyBuffering ==
    ASSUME NEW from, NEW to \in OtherTargets,
           CanTransition(from, to), to \in PipelineStates
    PROVE  from \in PipelineStates
BY DEF CanTransition, Targets, PlayerStates, PipelineStates, OtherTargets

\* A step that creates no row, unresolves none and starts to buffer none.
RowsKept ==
    \A s \in Sessions :
        /\ Stored(s)' => Stored(s)
        /\ Stored(s)' /\ db[s].resolved => db'[s].resolved
        /\ db'[s].state \in PipelineStates => db[s].state \in PipelineStates

LEMMA SameRows == UNCHANGED db => RowsKept
BY DEF RowsKept, Stored

LEMMA TransitionKept ==
    ASSUME TypeInv, NEW c \in Clients, pc[c] # "idle", NEW to \in OtherTargets
    PROVE  /\ \A step : TryTransition(c, to, step) => RowsKept
           /\ AttemptTransition(c, to) => RowsKept
<1>1. CanTransition(db[sid[c]].state, to) /\ SetState(sid[c], to) => RowsKept
  <2> SUFFICES ASSUME CanTransition(db[sid[c]].state, to), SetState(sid[c], to)
               PROVE  RowsKept
    OBVIOUS
  <2>1. /\ \A s \in Sessions \ {sid[c]} : db'[s] = db[s]
        /\ db'[sid[c]].state = to /\ db'[sid[c]].resolved = db[sid[c]].resolved
    BY BusySid DEF SetState, TypeInv, TypeOK, Row
  <2>2. Stored(sid[c])
    BY DEF CanTransition, Stored, PlayerStates, Absent
  <2> QED BY <2>1, <2>2, OnlyBuffering, BusySid DEF RowsKept, Stored
<1> QED BY <1>1, SameRows DEF TryTransition, AttemptTransition

\* Such a step keeps ResolvedInv if it does not bring c to the display.
LEMMA ResolvedQuiet ==
    ASSUME ResolvedInv, TypeInv', NEW c \in Clients,
           \A d \in Clients \ {c} : pc'[d] = pc[d] /\ sid'[d] = sid[d],
           pc'[c] \in {"acquire", "begin_buffer"} =>
               pc[c] \in {"acquire", "begin_buffer"} /\ sid'[c] = sid[c],
           RowsKept
    PROVE  AcquireInv' /\ BufferedIsResolved'
<1> USE DEF ResolvedInv, RowInv
<1>1. \A s \in Sessions : db'[s].state \in PipelineStates => Stored(s)'
  BY DEF PipelineStates, Stored, Absent
<1>2. BufferedIsResolved'
  BY <1>1 DEF BufferedIsResolved, RowsKept
<1>3. AcquireInv'
  <2> SUFFICES ASSUME NEW d \in Clients,
                      pc'[d] \in {"acquire", "begin_buffer"}, Stored(sid[d])'
               PROVE  db'[sid'[d]].resolved
    BY DEF AcquireInv
  <2>1. /\ pc[d] \in {"acquire", "begin_buffer"}
        /\ sid'[d] = sid[d] /\ sid[d] \in Sessions
    BY BusySid
  <2> QED BY <2>1 DEF AcquireInv, Stored, RowsKept
<1> QED BY <1>2, <1>3

\* Every step keeps ResolvedInv.
LEMMA ResolvedStep == ResolvedInv /\ [Next]_vars => ResolvedInv'
<1> SUFFICES ASSUME ResolvedInv, [Next]_vars PROVE AcquireInv' /\ BufferedIsResolved'
  BY RowInvStep DEF ResolvedInv
<1>t. TypeInv /\ TypeInv'
  BY TypeInvStep DEF ResolvedInv, RowInv
<1> USE <1>t DEF TypeInv, TypeOK, OtherTargets
<1>1. ASSUME NEW c \in Clients, Begin(c)
      PROVE  AcquireInv' /\ BufferedIsResolved'
  <2>1. CASE LoadReserve(c)
    BY <2>1, SameRows, ResolvedQuiet DEF LoadReserve
  <2>2. CASE PauseBegin(c)
    BY <2>2, SameRows, ResolvedQuiet DEF PauseBegin, Enter
  <2>3. CASE ResumeBegin(c)
    BY <2>3, SameRows, ResolvedQuiet DEF ResumeBegin, Enter
  <2>4. CASE StopBegin(c)
    BY <2>4, SameRows, ResolvedQuiet DEF StopBegin, Enter
  <2>5. CASE SeekBegin(c)
    BY <2>5, SameRows, ResolvedQuiet DEF SeekBegin, Enter
  <2>6. CASE VolumeBegin(c)
    BY <2>6, SameRows, ResolvedQuiet DEF VolumeBegin, Enter
  <2>7. CASE PollBegin(c)
    BY <2>7, SameRows, ResolvedQuiet DEF PollBegin, Enter
  <2> QED BY <1>1, <2>1, <2>2, <2>3, <2>4, <2>5, <2>6, <2>7 DEF Begin
<1>2. ASSUME NEW c \in Clients, Load(c)
      PROVE  AcquireInv' /\ BufferedIsResolved'
  <2>1. CASE InsertRow(c)
    <3>1. /\ sid[c] \in Sessions /\ pc[c] = "insert"
          /\ \A t \in Sessions : t # sid[c] => db'[t] = db[t]
          /\ db'[sid[c]] = db[sid[c]] \/ db'[sid[c]].state = "Idle"
      BY <2>1, BusySid DEF InsertRow
    <3>2. \A d \in Clients :
             pc'[d] \in {"acquire", "begin_buffer"}
               => /\ pc[d] = pc'[d] /\ sid'[d] = sid[d]
                  /\ sid[d] # sid[c] /\ sid[d] \in Sessions
      BY <2>1, <3>1, BusySid DEF InsertRow, Goto, Return, ResolvedInv, RowInv,
         InsertInv,
         PastInsert
    <3>3. AcquireInv'
      BY <3>1, <3>2 DEF ResolvedInv, AcquireInv, Stored
    <3>4. BufferedIsResolved'
      BY <3>1 DEF ResolvedInv, BufferedIsResolved, PipelineStates
    <3> QED BY <3>3, <3>4
  <2>2. CASE BeginResolve(c)
    BY <2>2, TransitionKept, ResolvedQuiet DEF BeginResolve, TryTransition,
       Goto, Return
  <2>3. CASE Resolve(c)
    BY <2>3, SameRows, ResolvedQuiet DEF Resolve, Goto
  <2>4. CASE StoreResolved(c)
    <3>1. /\ sid[c] \in Sessions
          /\ \A t \in Sessions : t # sid[c] => db'[t] = db[t]
          /\ db'[sid[c]].state = db[sid[c]].state
          /\ Stored(sid[c]) => db'[sid[c]].resolved
          /\ db[sid[c]].resolved => db'[sid[c]].resolved
      BY <2>4, BusySid DEF StoreResolved, UpdateResolved, Row
    <3>2. AcquireInv'
      BY <2>4, <3>1, BusySid DEF StoreResolved, Goto, ResolvedInv, AcquireInv,
         Stored
    <3>3. BufferedIsResolved'
      BY <3>1 DEF ResolvedInv, BufferedIsResolved
    <3> QED BY <3>2, <3>3
  <2>5. CASE AcquireDisplay(c)
    BY <2>5, SameRows, ResolvedQuiet DEF AcquireDisplay, Goto
  <2>6. CASE BeginBuffer(c)
    <3>1. CASE UNCHANGED db
      BY <2>6, <3>1, SameRows, ResolvedQuiet DEF BeginBuffer, TryTransition,
         Goto, Return
    <3>2. CASE /\ CanTransition(db[sid[c]].state, "Buffering")
               /\ SetState(sid[c], "Buffering")
               /\ Goto(c, "play")
      <4>1. sid[c] \in Sessions /\ Stored(sid[c])
        BY <2>6, <3>2, BusySid DEF BeginBuffer, CanTransition, Stored,
           PlayerStates, Absent
      <4>2. db[sid[c]].resolved
        BY <2>6, <4>1 DEF BeginBuffer, ResolvedInv, AcquireInv
      <4>3. /\ \A t \in Sessions : t # sid[c] => db'[t] = db[t]
            /\ db'[sid[c]].resolved
        BY <3>2, <4>1, <4>2 DEF SetState, Row
      <4>4. BufferedIsResolved'
        BY <4>3 DEF ResolvedInv, BufferedIsResolved
      <4>5. \A d \in Clients : pc'[d] \in {"acquire", "begin_buffer"}
               => pc[d] = pc'[d] /\ sid'[d] = sid[d] /\ sid[d] \in Sessions
        BY <3>2, BusySid DEF Goto
      <4>6. AcquireInv'
        BY <4>3, <4>5 DEF ResolvedInv, AcquireInv, Stored
      <4> QED BY <4>4, <4>6
    <3> QED BY <2>6, <3>1, <3>2 DEF BeginBuffer, TryTransition
  <2>7. CASE PlayBegin(c)
    BY <2>7, SameRows, ResolvedQuiet DEF PlayBegin
  <2>8. CASE PlayOk(c)
    BY <2>8, SameRows, ResolvedQuiet DEF PlayOk, Goto
  <2>9. CASE PlayRetryable(c)
    BY <2>9, SameRows, ResolvedQuiet DEF PlayRetryable, Goto
  <2>10. CASE PlayFailed(c)
    BY <2>10, SameRows, ResolvedQuiet DEF PlayFailed, Goto
  <2>11. CASE ReResolve(c)
    <3>1. UpdateResolved(sid[c]) => RowsKept
      BY <2>11, BusySid DEF ReResolve, UpdateResolved, RowsKept, Stored, Row
    <3> QED BY <2>11, <3>1, SameRows, ResolvedQuiet DEF ReResolve, Goto
  <2>12. CASE MarkPlaying(c)
    BY <2>12, TransitionKept, ResolvedQuiet DEF MarkPlaying, TryTransition,
       Goto, Return
  <2>13. CASE MarkFailed(c)
    BY <2>13, TransitionKept, ResolvedQuiet DEF MarkFailed, Goto
  <2>14. CASE ClearFailed(c)
    BY <2>14, SameRows, ResolvedQuiet DEF ClearFailed, Return
  <2>15. CASE FallBack(c)
    BY <2>15, SameRows, ResolvedQuiet DEF FallBack, clientVars, slotVars
  <2> QED BY <1>2, <2>1, <2>2, <2>3, <2>4, <2>5, <2>6, <2>7, <2>8, <2>9, <2>10,
     <2>11, <2>12, <2>13, <2>14, <2>15 DEF Load
<1>3. ASSUME NEW c \in Clients, Stop(c)
      PROVE  AcquireInv' /\ BufferedIsResolved'
  <2>1. CASE StopLoad(c)
    BY <2>1, SameRows, ResolvedQuiet DEF StopLoad, SeeRow, Stored, Return
  <2>2. CASE StopEngine(c)
    BY <2>2, SameRows, ResolvedQuiet DEF StopEngine, Goto
  <2>3. CASE ReleaseDisplay(c)
    BY <2>3, SameRows, ResolvedQuiet DEF ReleaseDisplay, Goto
  <2>4. CASE StopMark(c)
    <3>1. RowsKept
      BY <2>4, TransitionKept, SameRows DEF StopMark
    <3> QED BY <2>4, <3>1, ResolvedQuiet DEF StopMark, Goto
  <2>5. CASE StopClear(c)
    BY <2>5, SameRows, ResolvedQuiet DEF StopClear, Goto
  <2>6. CASE StopDelete(c)
    <3>1. RowsKept
      BY <2>6, BusySid DEF StopDelete, NoRow, RowsKept, Stored, PipelineStates,
         Absent
    <3> QED BY <2>6, <3>1, ResolvedQuiet DEF StopDelete, Goto
  <2>7. CASE StopPublish(c)
    BY <2>7, SameRows, ResolvedQuiet DEF StopPublish, Return
  <2> QED BY <1>3, <2>1, <2>2, <2>3, <2>4, <2>5, <2>6, <2>7 DEF Stop
<1>4. ASSUME NEW c \in Clients, Other(c)
      PROVE  AcquireInv' /\ BufferedIsResolved'
  <2>1. CASE PauseEngine(c)
    BY <2>1, SameRows, ResolvedQuiet DEF PauseEngine, Goto, Return
  <2>2. CASE MarkPaused(c)
    BY <2>2, TransitionKept, ResolvedQuiet DEF MarkPaused, TryTransition, Goto,
       Return
  <2>3. CASE ResumeEngine(c)
    BY <2>3, SameRows, ResolvedQuiet DEF ResumeEngine, Goto, Return
  <2>4. CASE SeekLoad(c)
    BY <2>4, SameRows, ResolvedQuiet DEF SeekLoad, SeeRow, Stored, Return
  <2>5. CASE BeginSeek(c)
    BY <2>5, TransitionKept, ResolvedQuiet DEF BeginSeek, TryTransition, Goto,
       Return
  <2>6. CASE SeekEngine(c)
    BY <2>6, SameRows, ResolvedQuiet DEF SeekEngine, Goto, Return
  <2>7. CASE SeekDone(c)
    BY <2>7, TransitionKept, ResolvedQuiet DEF SeekDone, TryTransition, Goto,
       Return
  <2>8. CASE VolumeStore(c)
    BY <2>8, SameRows, ResolvedQuiet DEF VolumeStore, Goto
  <2>9. CASE VolumeEngine(c)
    BY <2>9, SameRows, ResolvedQuiet DEF VolumeEngine, Goto, Return
  <2>10. CASE Refresh(c)
    BY <2>10, SameRows, ResolvedQuiet DEF Refresh, Goto
  <2>11. CASE Poll(c)
    BY <2>11, SameRows, ResolvedQuiet DEF Poll, Goto, Return
  <2>12. CASE ReadSnapshot(c)
    BY <2>12, SameRows, ResolvedQuiet DEF ReadSnapshot, SeeRow, Stored, Goto,
       Return
  <2>13. CASE SendSnapshot(c)
    BY <2>13, SameRows, ResolvedQuiet DEF SendSnapshot, Goto, Return, Snapshot
  <2> QED BY <1>4, <2>1, <2>2, <2>3, <2>4, <2>5, <2>6, <2>7, <2>8, <2>9, <2>10,
     <2>11, <2>12, <2>13 DEF Other
<1>5. ASSUME NEW c \in Clients, Cancel(c)
      PROVE  AcquireInv' /\ BufferedIsResolved'
  BY <1>5, SameRows, ResolvedQuiet DEF Cancel, Return
<1>6. CASE Restart
  <2>1. \A stale : \A t \in Sessions :
           Recovered(stale)[t].state \notin PipelineStates
    BY DEF Recovered, NoRow, LiveStates, PlayerStates, PipelineStates, Absent,
       Row
  <2>2. \A t \in Sessions : db'[t].state \notin PipelineStates
    BY <1>6, <2>1 DEF Restart
  <2>3. AcquireInv'
    BY <1>6 DEF Restart, AcquireInv
  <2> QED BY <2>2, <2>3 DEF BufferedIsResolved
<1>7. CASE UNCHANGED vars
  BY <1>7 DEF vars, clientVars, ResolvedInv, AcquireInv, BufferedIsResolved,
     Stored
<1> QED BY <1>1, <1>2, <1>3, <1>4, <1>5, <1>6, <1>7 DEF Next, Step

\* A session that clients can see buffering, playing, paused or seeking has
\* had the resolver's answer written to its row, whatever ran concurrently.
THEOREM ResolvedBeforeBuffering == Spec => []BufferedIsResolved
<1>1. Init => AcquireInv /\ BufferedIsResolved
  BY DEF Init, AcquireInv, BufferedIsResolved, NoRow, PipelineStates, Absent
<1>2. RowInv /\ AcquireInv /\ BufferedIsResolved /\ [Next]_vars
        => (AcquireInv /\ BufferedIsResolved)'
  BY ResolvedStep DEF ResolvedInv
<1> QED BY <1>1, <1>2, RowInvariant, PTL DEF Spec

-----------------------------------------------------------------------------
(***************************************************************************)
(* The session manager implements the session lifecycle of                 *)
(* SessionLifecycle: every step of the detailed specification is a step of *)
(* the abstract one or leaves the slot and every session's phase alone.    *)
(* RowInv says which rows the steps in flight can touch; the quiet actions *)
(* stutter, and the five others and the restart are the abstract actions.  *)
(***************************************************************************)
\* A step stutters if it moves neither the slot nor any session's phase.
Stutters == UNCHANGED active /\ \A s \in Sessions : Phase(s)' = Phase(s)

LEMMA StutterStep == Stutters => UNCHANGED Lifecycle!vars
BY DEF Stutters, Lifecycle!vars

\* How one session moves to another phase while the others stay.
LEMMA MoveStep ==
    ASSUME NEW s \in Sessions, NEW from, NEW to,
           Phase(s) = from, Phase(s)' = to,
           \A t \in Sessions \ {s} : Phase(t)' = Phase(t)
    PROVE  Lifecycle!Move(s, from, to)
BY DEF Lifecycle!Move

LEMMA QuietStutters ==
    ASSUME RowInv, NEW c \in Clients, Quiet(c)
    PROVE  Stutters
<1>1. \A s \in Sessions : Inserting(s)' = Inserting(s)
  BY DEF Inserting, Quiet
<1>2. \A s \in Sessions : Stored(s)' = Stored(s)
  BY DEF Quiet
<1> QED BY <1>1, <1>2 DEF Phase, Stutters, Quiet, slotVars

LEMMA LifecycleStep ==
    ASSUME RowInv, [Next]_vars
    PROVE  [Lifecycle!Next]_(Lifecycle!vars)
<1> USE DEF RowInv, TypeInv, TypeOK
<1>1. ASSUME NEW c \in Clients, LoadReserve(c) PROVE Lifecycle!Next
  <2> PICK s \in Sessions \ used : /\ active' = s /\ used' = used \cup {s}
                                   /\ sid' = [sid EXCEPT ![c] = s]
    BY <1>1 DEF LoadReserve
  <2>1. Phase(s) = "fresh" /\ Phase(s)' = "reserved"
    BY <1>1 DEF LoadReserve, Phase, Inserting
  <2>2. ASSUME NEW t \in Sessions \ {s} PROVE Phase(t)' = Phase(t)
    <3>1. Inserting(t)' = Inserting(t)
      BY <1>1 DEF LoadReserve, Inserting
    <3> QED BY <1>1, <3>1 DEF LoadReserve, Phase, Stored
  <2> QED BY <1>1, <2>1, <2>2, MoveStep DEF LoadReserve, Lifecycle!Reserve, Lifecycle!Next
<1>2. ASSUME NEW c \in Clients, InsertRow(c) PROVE Lifecycle!Next
  <2> PICK s \in Sessions : s = sid[c]
    BY <1>2, BusySid DEF InsertRow
  <2>1. s \in used /\ pc[c] = "insert" /\ ~Stored(s)
    BY <1>2 DEF InsertRow, Busy, InsertInv
  <2>2. Phase(s) = "reserved"
    BY <2>1 DEF Phase, Inserting
  <2>3. ~Inserting(s)'
    BY <1>2, <2>1 DEF InsertRow, Inserting, InsertInv, Goto, Return
  <2>4. ASSUME NEW t \in Sessions \ {s} PROVE Phase(t)' = Phase(t)
    <3>1. Inserting(t)' = Inserting(t)
      BY <1>2, <2>1 DEF InsertRow, Inserting, Goto, Return
    <3>2. Stored(t)' = Stored(t)
      BY <1>2, <2>1 DEF InsertRow, Stored
    <3> QED BY <1>2, <3>1, <3>2 DEF InsertRow, Phase
  <2>5. CASE db' = [db EXCEPT ![s] = [state |-> "Idle", resolved |-> FALSE]]
             /\ UNCHANGED active
    <3>1. Stored(s)'
      BY <2>5 DEF Stored, Absent
    <3>2. Phase(s)' = "stored"
      BY <1>2, <2>1, <2>3, <3>1 DEF InsertRow, Phase
    <3> QED BY <2>2, <2>4, <2>5, <3>2, MoveStep DEF Lifecycle!Store, Lifecycle!Next
  <2>6. CASE active' = None /\ UNCHANGED db
    <3>1. Phase(s)' = "gone"
      BY <1>2, <2>1, <2>3, <2>6 DEF InsertRow, Phase, Stored
    <3> QED BY <2>2, <2>4, <2>6, <3>1, MoveStep DEF Lifecycle!Abandon, Lifecycle!Next
  <2> QED BY <1>2, <2>5, <2>6 DEF InsertRow
<1>3. ASSUME NEW c \in Clients, ClearFailed(c) \/ StopClear(c) PROVE Lifecycle!Next
  <2>1. \A s \in Sessions : Inserting(s)' = Inserting(s)
    BY <1>3 DEF ClearFailed, StopClear, Inserting, Goto, Return
  <2>2. \A s \in Sessions : Phase(s)' = Phase(s)
    BY <1>3, <2>1 DEF ClearFailed, StopClear, Phase, Stored
  <2> QED BY <1>3, <2>2 DEF ClearFailed, StopClear, Lifecycle!Free, Lifecycle!Next
<1>4. ASSUME NEW c \in Clients, StopDelete(c)
      PROVE  Lifecycle!Next \/ Stutters
  <2> PICK s \in Sessions : s = sid[c]
    BY <1>4, BusySid DEF StopDelete
  <2>1. active # s /\ s \in used
    BY <1>4 DEF StopDelete, DeleteInv, Busy
  <2>2. ~Inserting(s)
    BY <1>4, <2>1 DEF StopDelete, Inserting, InsertInv, PastInsert, StopSteps
  <2>3. \A t \in Sessions : Inserting(t)' = Inserting(t)
    BY <1>4 DEF StopDelete, Inserting, Goto
  <2>4. ~Stored(s)'
    BY <1>4 DEF StopDelete, Stored, NoRow
  <2>5. Phase(s)' = "gone"
    BY <1>4, <2>1, <2>2, <2>3, <2>4 DEF StopDelete, Phase, slotVars
  <2>6. \A t \in Sessions \ {s} : Phase(t)' = Phase(t)
    BY <1>4, <2>1, <2>3 DEF StopDelete, Phase, Stored, slotVars
  <2>7. CASE Stored(s)
    <3>1. Phase(s) = "stored"
      BY <2>1, <2>2, <2>7 DEF Phase
    <3> QED BY <1>4, <2>1, <2>5, <2>6, <3>1, MoveStep
            DEF StopDelete, slotVars, Lifecycle!Delete, Lifecycle!Next
  <2>8. CASE ~Stored(s)
    <3>1. Phase(s) = "gone"
      BY <2>1, <2>2, <2>8 DEF Phase
    <3> QED BY <1>4, <2>5, <2>6, <3>1 DEF Stutters, StopDelete, slotVars
  <2> QED BY <2>7, <2>8
<1>5. ASSUME Restart PROVE Lifecycle!Next
  <2> PICK stale \in SUBSET {s \in Sessions : Stored(s)} : db' = Recovered(stale)
    BY <1>5 DEF Restart
  <2>1. \A s \in Sessions : ~Inserting(s)'
    BY <1>5 DEF Restart, Inserting
  <2>2. \A s \in Sessions : Stored(s)' <=> Stored(s) /\ s \notin stale
    BY DEF Recovered, Stored, NoRow, LiveStates, PlayerStates, Absent, Row
  <2>3. \A s \in Sessions : Stored(s) => Phase(s) = "stored"
    BY BusySid DEF Phase, Inserting, StoredUsed, InsertInv
  <2>4. ASSUME NEW s \in Sessions
        PROVE  Phase(s)' = IF s \in stale \/ Phase(s) = "reserved" THEN "gone"
                           ELSE Phase(s)
    BY <1>5, <2>1, <2>2, <2>3 DEF Restart, Phase
  <2> QED BY <1>5, <2>3, <2>4 DEF Restart, Lifecycle!Crash, Lifecycle!Next
<1>6. CASE UNCHANGED vars
  BY <1>6, StutterStep DEF vars, slotVars, clientVars, Stutters, Phase, Inserting, Stored
<1>7. ASSUME NEW c \in Clients, Begin(c) \/ Step(c) \/ Cancel(c)
      PROVE  [Lifecycle!Next]_(Lifecycle!vars)
  BY <1>1, <1>2, <1>3, <1>4, <1>7, QuietSteps, QuietStutters, StutterStep
<1> QED BY <1>5, <1>6, <1>7 DEF Next

LEMMA LifecycleInit == Init => Lifecycle!Init
BY DEF Init, Lifecycle!Init, Phase

\* The lifecycle: a UUID is reserved once and only while the slot is free, its
\* row is written once and deleted once, never while it holds the slot, and no
\* late write of a load that was stopped brings a session back.
THEOREM ImplementsLifecycle == Spec => LifecycleSpec
<1> QED BY LifecycleInit, LifecycleStep, RowInvariant, PTL
        DEF Spec, LifecycleSpec, Lifecycle!Spec

-----------------------------------------------------------------------------
(***************************************************************************)
(* The manager asks of the engine only what the engine promises, so that   *)
(* the pipeline that this module keeps as one variable may be the engine   *)
(* of PlaybackEngine, which keeps the same promise.  A session must never  *)
(* be played twice at a time: loads of one session would be confused.      *)
(***************************************************************************)
\* The steps at which only a load can be.
Loading == LoadSteps \ {"mark_playing"}

LoadsDiffer == \A c, d \in Clients :
    c # d /\ pc[c] \in Loading /\ pc[d] \in Loading => sid[c] # sid[d]

\* The sessions that the engine is playing but has not answered for.
Starting == {sid[c] : c \in {d \in Clients : pc[d] = "starting"}}

Promise == INSTANCE EngineSlot WITH held <- pipeline, playing <- Starting

\* A step of a command other than the start of a load and the engine's answers.
LEMMA LoadGoesOn ==
    ASSUME TypeInv, NEW c \in Clients,
           Step(c) \/ Cancel(c) \/ Begin(c), ~LoadReserve(c)
    PROVE  /\ \A d \in Clients \ {c} : pc'[d] = pc[d] /\ sid'[d] = sid[d]
           /\ pc'[c] \in Loading => pc[c] \in Loading /\ sid'[c] = sid[c]
           /\ ~PlayBegin(c) /\ ~FallBack(c) => pc'[c] # "starting"
<1> USE DEF TypeInv, TypeOK, Loading, LoadSteps
<1>1. CASE Begin(c)
  BY <1>1 DEF Begin, PauseBegin, ResumeBegin, StopBegin, SeekBegin, VolumeBegin,
     PollBegin, Enter
<1>2. CASE Load(c)
  BY <1>2 DEF Load, InsertRow, BeginResolve, Resolve, StoreResolved,
     AcquireDisplay, BeginBuffer, PlayBegin, FallBack, PlayOk, PlayRetryable,
     PlayFailed, ReResolve, MarkPlaying, MarkFailed, ClearFailed,
     TryTransition, Goto, Return, clientVars
<1>3. CASE Stop(c)
  BY <1>3 DEF Stop, StopLoad, StopEngine, ReleaseDisplay, StopMark, StopClear,
     StopDelete, StopPublish, SeeRow, Goto, Return
<1>4. CASE Other(c)
  BY <1>4 DEF Other, PauseEngine, MarkPaused, ResumeEngine, SeekLoad, BeginSeek,
     SeekEngine, SeekDone, VolumeStore, VolumeEngine, Refresh, Poll,
     ReadSnapshot, SendSnapshot, SeeRow, TryTransition, Goto, Return
<1>5. CASE Cancel(c)
  BY <1>5 DEF Cancel, Return
<1> QED BY <1>1, <1>2, <1>3, <1>4, <1>5 DEF Step

\* A load draws a UUID that no command works on.
LEMMA LoadsDifferStep ==
    ASSUME TypeInv, LoadsDiffer, [Next]_vars
    PROVE  LoadsDiffer'
<1>1. ASSUME NEW c \in Clients, LoadReserve(c) PROVE LoadsDiffer'
  <2> PICK s \in Sessions \ used : sid' = [sid EXCEPT ![c] = s]
    BY <1>1 DEF LoadReserve
  <2>1. \A d \in Clients \ {c} : pc'[d] = pc[d] /\ sid'[d] = sid[d]
    BY <1>1 DEF LoadReserve, TypeInv, TypeOK
  <2>2. \A d \in Clients \ {c} : pc[d] \in Loading => sid[d] \in used
    BY DEF TypeInv, Busy, Loading, LoadSteps
  <2>3. sid'[c] \notin used
    BY DEF TypeInv, TypeOK
  <2> QED BY <2>1, <2>2, <2>3 DEF LoadsDiffer
<1>2. ASSUME NEW c \in Clients, Step(c) \/ Cancel(c) \/ Begin(c), ~LoadReserve(c)
      PROVE  LoadsDiffer'
  BY <1>2, LoadGoesOn DEF LoadsDiffer
<1>3. CASE Restart
  BY <1>3 DEF Restart, LoadsDiffer, Loading, LoadSteps
<1>4. CASE UNCHANGED vars
  BY <1>4 DEF vars, clientVars, LoadsDiffer
<1> QED BY <1>1, <1>2, <1>3, <1>4 DEF Next

\* Who is being played, after a step of c.
LEMMA StartingStep ==
    ASSUME TypeInv, LoadsDiffer, NEW c \in Clients,
           \A d \in Clients \ {c} : pc'[d] = pc[d] /\ sid'[d] = sid[d],
           pc[c] = "starting" \/ pc'[c] = "starting" => sid'[c] = sid[c]
    PROVE  /\ pc[c] # "starting" /\ pc'[c] # "starting" => Starting' = Starting
           /\ pc[c] = "starting" /\ pc'[c] = "starting" => Starting' = Starting
           /\ pc[c] = "play" /\ pc'[c] = "starting" =>
                sid[c] \notin Starting /\ Starting' = Starting \cup {sid[c]}
           /\ pc[c] = "starting" /\ pc'[c] # "starting" =>
                sid[c] \in Starting /\ Starting' = Starting \ {sid[c]}
<1> DEFINE Rest == {sid[d] : d \in {e \in Clients \ {c} : pc[e] = "starting"}}
<1>1. /\ pc[c] = "starting" => Starting = Rest \cup {sid[c]}
      /\ pc[c] # "starting" => Starting = Rest
  BY DEF Starting
<1>2. /\ pc'[c] = "starting" => Starting' = Rest \cup {sid[c]}
      /\ pc'[c] # "starting" => Starting' = Rest
  BY DEF Starting
<1>3. pc[c] \in {"play", "starting"} => sid[c] \notin Rest
  BY DEF LoadsDiffer, Loading, LoadSteps
<1> HIDE DEF Rest
<1> QED BY <1>1, <1>2, <1>3

\* A step of the manager is a step of the engine's promise, or none.
LEMMA EngineUsed ==
    ASSUME TypeInv, LoadsDiffer, [Next]_vars
    PROVE  [Promise!Next]_(Promise!vars)
<1> USE DEF TypeInv, TypeOK
<1>1. ASSUME NEW c \in Clients, PlayBegin(c) PROVE Promise!Next
  <2>1. Promise!Begin(sid[c]) /\ sid[c] \in Sessions
    BY <1>1, StartingStep, BusySid DEF PlayBegin, Promise!Begin
  <2> QED BY <2>1 DEF Promise!Next
<1>2. ASSUME NEW c \in Clients, PlayOk(c) PROVE Promise!Next
  <2>1. Promise!Succeed(sid[c]) /\ sid[c] \in Sessions
    BY <1>2, StartingStep, BusySid DEF PlayOk, Goto, Promise!Succeed
  <2> QED BY <2>1 DEF Promise!Next
<1>3. ASSUME NEW c \in Clients, PlayRetryable(c) \/ PlayFailed(c) PROVE Promise!Next
  <2>1. Promise!Fail(sid[c]) /\ sid[c] \in Sessions
    BY <1>3, StartingStep, BusySid
       DEF PlayRetryable, PlayFailed, Goto, engineVars, Promise!Fail
  <2> QED BY <2>1 DEF Promise!Next
<1>4. ASSUME NEW c \in Clients, FallBack(c) \/ StopEngine(c) PROVE Promise!Next
  <2>1. Promise!TakeAway
    BY <1>4, StartingStep DEF FallBack, StopEngine, Goto, clientVars, Promise!TakeAway
  <2> QED BY <2>1 DEF Promise!Next
<1>5. CASE Restart
  <2>1. Starting' = {}
    BY <1>5 DEF Restart, Starting
  <2> QED BY <1>5, <2>1 DEF Restart, Promise!Crash, Promise!Next
<1>6. CASE UNCHANGED vars
  BY <1>6 DEF vars, clientVars, engineVars, Promise!vars, Starting
<1>7. ASSUME NEW c \in Clients, LoadReserve(c) PROVE UNCHANGED Promise!vars
  BY <1>7, StartingStep DEF LoadReserve, engineVars, Promise!vars
<1>8. ASSUME NEW c \in Clients, Step(c) \/ Cancel(c) \/ Begin(c), ~LoadReserve(c),
             ~PlayBegin(c), ~PlayOk(c), ~PlayRetryable(c), ~PlayFailed(c),
             ~FallBack(c), ~StopEngine(c)
      PROVE  UNCHANGED Promise!vars
  <2>1. pc[c] # "starting" /\ UNCHANGED pipeline
    BY <1>8 DEF Step, Cancel, AwaitSteps, Begin, PauseBegin, ResumeBegin, StopBegin,
       SeekBegin, VolumeBegin, PollBegin, Enter, Load, InsertRow, BeginResolve,
       Resolve, StoreResolved, AcquireDisplay, BeginBuffer, ReResolve,
       MarkPlaying, MarkFailed, ClearFailed, Stop, StopLoad, ReleaseDisplay,
       StopMark, StopClear, StopDelete, StopPublish, Other, PauseEngine,
       MarkPaused, ResumeEngine, SeekLoad, BeginSeek, SeekEngine, SeekDone,
       VolumeStore, VolumeEngine, Refresh, Poll, ReadSnapshot, SendSnapshot,
       engineVars
  <2>2. /\ \A d \in Clients \ {c} : pc'[d] = pc[d] /\ sid'[d] = sid[d]
        /\ pc'[c] # "starting"
    BY <1>8, LoadGoesOn
  <2> QED BY <2>1, <2>2, StartingStep DEF Promise!vars
<1> QED BY <1>1, <1>2, <1>3, <1>4, <1>5, <1>6, <1>7, <1>8 DEF Next

\* What the manager expects of its pipeline is what the engine promises: every
\* play begins with nothing stored, and what is stored is the pipeline of the
\* last play to succeed, also while loads of several sessions overlap (lib.rs).
THEOREM EngineAsPromised == Spec => Promise!Spec
<1>1. Init => Promise!Init /\ LoadsDiffer
  BY DEF Init, Promise!Init, Starting, LoadsDiffer, Loading, LoadSteps
<1>2. TypeInv /\ LoadsDiffer /\ [Next]_vars => LoadsDiffer'
  BY LoadsDifferStep
<1>3. TypeInv /\ LoadsDiffer /\ [Next]_vars => [Promise!Next]_(Promise!vars)
  BY EngineUsed
<1> QED BY <1>1, <1>2, <1>3, TypeInvariant, PTL DEF Spec, Promise!Spec

-----------------------------------------------------------------------------
(***************************************************************************)
(* One client that is not cancelled.  The invariant says for every step of *)
(* a command what the client finds there, so that each way of returning    *)
(* leaves the rest state behind it.                                        *)
(***************************************************************************)
Started == {"Playing", "Paused", "Seeking"}

\* No session but s is live.
Alone(s) == \A t \in Sessions \ {s} : db[t].state \notin LiveStates

\* The session in the slot has the pipeline and the display.
Holds(s) == active = s /\ pipeline = s /\ display /\ Alone(s)

\* The row's state is the pipeline's.
Agrees(s) ==
    /\ db[s].state = "Playing" => ~paused
    /\ db[s].state = "Paused" => paused

\* Subscribers see it.
Shown(s) == db[s].state # "Seeking" => watch = [id |-> s, state |-> db[s].state]

AtRest(s) == Holds(s) /\ db[s].state \in Started /\ Agrees(s) /\ Shown(s)

Nothing ==
    /\ active = None /\ pipeline = None /\ watch = None
    /\ \A t \in Sessions : db[t].state \notin LiveStates

IdleInv(c) == pc[c] = "idle" => Nothing \/ (active \in Sessions /\ AtRest(active))

\* load holds the slot, and no pipeline until one has started.
LoadInv(c) ==
    /\ pc[c] \in LoadSteps \ {"mark_playing"} =>
         active = sid[c] /\ pipeline = None /\ watch = None /\ Alone(sid[c])
    /\ pc[c] = "insert" => db[sid[c]].state \notin LiveStates
    /\ pc[c] = "begin_resolve" => db[sid[c]].state = "Idle"
    /\ pc[c] \in {"resolve", "store", "acquire", "begin_buffer"} =>
         db[sid[c]].state = "Resolving"
    /\ pc[c] \in {"play", "starting", "reresolve"} => db[sid[c]].state = "Buffering"
    /\ pc[c] \in {"begin_buffer", "play", "starting", "reresolve"} => display
    /\ pc[c] = "fail_mark" => db[sid[c]].state \in {"Resolving", "Buffering"}
    /\ pc[c] = "fail_clear" => db[sid[c]].state = "Error"

\* A command that has only read finds the state at rest; one that has moved the
\* pipeline has yet to write the row, or the row is yet to be published.
PlayerInv(c) ==
    /\ pc[c] \in {"pause_engine", "resume_engine", "stop_load", "stop_engine",
                  "seek_load", "begin_seek", "volume_store", "volume_engine",
                  "poll"} => AtRest(sid[c])
    /\ pc[c] \in {"stop_engine", "begin_seek", "final_send"} =>
         seen[c] = db[sid[c]].state
    /\ pc[c] \in PublishSteps =>
         Holds(sid[c]) /\ db[sid[c]].state \in Started /\ Agrees(sid[c])
    /\ pc[c] = "mark_paused" =>
         /\ Holds(sid[c]) /\ db[sid[c]].state \in Started /\ paused
         /\ db[sid[c]].state # "Playing" => Shown(sid[c])
    /\ pc[c] = "mark_playing" =>
         /\ Holds(sid[c]) /\ db[sid[c]].state \in Started \cup {"Buffering"}
         /\ ~paused
         /\ db[sid[c]].state = "Playing" => Shown(sid[c])
    /\ pc[c] \in {"seek_engine", "seek_done"} =>
         /\ Holds(sid[c]) /\ db[sid[c]].state = "Seeking"
         /\ seen[c] = IF paused THEN "Paused" ELSE "Playing"

\* stop takes the pipeline away before the slot, and the slot before the row.
StopInv(c) ==
    /\ pc[c] \in {"stop_display", "stop_mark"} =>
         /\ active = sid[c] /\ pipeline = None /\ Alone(sid[c])
         /\ db[sid[c]].state \in Started /\ seen[c] = db[sid[c]].state
    /\ pc[c] \in {"stop_clear", "stop_delete"} =>
         pipeline = None /\ Alone(sid[c]) /\ db[sid[c]].state = "Idle"
    /\ pc[c] \in {"stop_delete", "stop_publish"} => active = None
    /\ pc[c] = "stop_publish" =>
         pipeline = None /\ \A t \in Sessions : db[t].state \notin LiveStates

SingleInv(c) == TypeInv /\ IdleInv(c) /\ LoadInv(c) /\ PlayerInv(c) /\ StopInv(c)

Parts(c) == IdleInv(c) /\ LoadInv(c) /\ PlayerInv(c) /\ StopInv(c)

-----------------------------------------------------------------------------
\* The transitions that a single client's commands rely on.
LEMMA Table ==
    /\ CanTransition("Idle", "Resolving") /\ CanTransition("Resolving", "Buffering")
    /\ CanTransition("Resolving", "Error") /\ CanTransition("Buffering", "Error")
    /\ \A from \in {"Buffering", "Paused", "Seeking"} : CanTransition(from, "Playing")
    /\ CanTransition("Playing", "Paused")
    /\ CanTransition("Playing", "Seeking") /\ CanTransition("Paused", "Seeking")
    /\ \A from \in Started : CanTransition(from, "Idle")
    /\ ~CanTransition("Playing", "Playing") /\ ~CanTransition("Paused", "Paused")
    /\ ~CanTransition("Seeking", "Paused") /\ ~CanTransition("Seeking", "Seeking")
BY DEF CanTransition, Targets, PlayerStates, Started

LEMMA Live ==
    /\ \A st \in Started \cup {"Resolving", "Buffering"} : st \in LiveStates
    /\ {"Idle", "Error", Absent} \cap LiveStates = {}
    /\ \A st \in Started : st \in PlayerStates /\ st \in PipelineStates
BY DEF LiveStates, PlayerStates, PipelineStates, Started, Absent

\* SetState writes one row.
LEMMA Moved ==
    ASSUME TypeInv, NEW s \in Sessions, NEW to, SetState(s, to)
    PROVE  db'[s].state = to /\ \A t \in Sessions \ {s} : db'[t] = db[t]
BY DEF SetState, TypeInv, TypeOK, Row

\* The UPDATE of the resolved URL leaves the states alone.
LEMMA Updated ==
    ASSUME TypeInv, NEW s \in Sessions, UpdateResolved(s)
    PROVE  \A t \in Sessions : db'[t].state = db[t].state
BY DEF UpdateResolved, TypeInv, TypeOK, Row

LEMMA SingleInit ==
    ASSUME NEW c, Clients = {c}, Init PROVE SingleInv(c)
<1>1. Nothing /\ pc[c] = "idle"
  BY Live DEF Init, Nothing, NoRow
<1> QED BY <1>1, TypeInvInit DEF SingleInv, IdleInv, LoadInv, PlayerInv, StopInv,
     LoadSteps, PublishSteps

LEMMA SingleStep ==
    ASSUME NEW c, Clients = {c}, HttpClients = {}, SingleInv(c), [Next]_vars
    PROVE  SingleInv(c)'
<1> SUFFICES Parts(c)'
  BY TypeInvStep DEF SingleInv, Parts
<1>t. TypeInv /\ TypeInv' /\ Parts(c)
  BY TypeInvStep DEF SingleInv, Parts
<1>s. pc[c] # "idle" => sid[c] \in Sessions /\ sid[c] # None
  BY <1>t, BusySid, ConstantsAssumption
<1>f. /\ pc = [d \in {c} |-> pc[c]] /\ DOMAIN pc = {c} /\ DOMAIN sid = {c}
      /\ DOMAIN seen = {c} /\ DOMAIN attempt = {c} /\ None \notin Sessions
  BY <1>t, ConstantsAssumption DEF TypeInv, TypeOK
<1> USE <1>t, <1>s, <1>f, Live DEF Parts, IdleInv, LoadInv, PlayerInv, StopInv, AtRest, Holds,
    Agrees, Shown, Alone, Nothing, LoadSteps, PublishSteps, Started, slotVars, engineVars
<1>1. CASE Begin(c)
  <2>1. CASE LoadReserve(c)
    BY <2>1 DEF LoadReserve
  <2>2. CASE PauseBegin(c)
    BY <2>2 DEF PauseBegin, Enter
  <2>3. CASE ResumeBegin(c)
    BY <2>3 DEF ResumeBegin, Enter
  <2>4. CASE StopBegin(c)
    BY <2>4 DEF StopBegin, Enter
  <2>5. CASE SeekBegin(c)
    BY <2>5 DEF SeekBegin, Enter
  <2>6. CASE VolumeBegin(c)
    BY <2>6 DEF VolumeBegin, Enter
  <2>7. CASE PollBegin(c)
    BY <2>7 DEF PollBegin, Enter
  <2> QED BY <1>1, <2>1, <2>2, <2>3, <2>4, <2>5, <2>6, <2>7 DEF Begin
<1>2. CASE Load(c)
  <2>1. CASE InsertRow(c)
    <3>1. CASE /\ db' = [db EXCEPT ![sid[c]] = [state |-> "Idle", resolved |-> FALSE]]
               /\ Goto(c, "begin_resolve") /\ UNCHANGED active
      <4>1. /\ db'[sid[c]].state = "Idle"
            /\ \A t \in Sessions \ {sid[c]} : db'[t] = db[t]
        BY <2>1, <3>1 DEF InsertRow, TypeInv, TypeOK
      <4> QED BY <2>1, <3>1, <4>1 DEF InsertRow, Goto
    <3>2. CASE active' = None /\ Return(c) /\ UNCHANGED db
      BY <2>1, <3>2 DEF InsertRow, Return
    <3> QED BY <2>1, <3>1, <3>2 DEF InsertRow
  <2>2. CASE BeginResolve(c)
    BY <2>2, Moved, Table DEF BeginResolve, TryTransition, Goto, Return
  <2>3. CASE Resolve(c)
    BY <2>3 DEF Resolve, Goto
  <2>4. CASE StoreResolved(c)
    BY <2>4, Updated DEF StoreResolved, Goto
  <2>5. CASE AcquireDisplay(c)
    BY <2>5 DEF AcquireDisplay, Goto
  <2>6. CASE BeginBuffer(c)
    BY <2>6, Moved, Table DEF BeginBuffer, TryTransition, Goto, Return
  <2>7. CASE PlayBegin(c)
    BY <2>7 DEF PlayBegin
  <2>8. CASE PlayOk(c)
    BY <2>8 DEF PlayOk, Goto
  <2>9. CASE PlayRetryable(c)
    BY <2>9 DEF PlayRetryable, Goto
  <2>10. CASE PlayFailed(c)
    BY <2>10 DEF PlayFailed, Goto
  <2>11. CASE ReResolve(c)
    BY <2>11, Updated DEF ReResolve, Goto
  <2>12. CASE MarkPlaying(c)
    BY <2>12, Moved, Table DEF MarkPlaying, TryTransition, Goto, Return
  <2>13. CASE MarkFailed(c)
    BY <2>13, Moved, Table DEF MarkFailed, AttemptTransition, Goto
  <2>14. CASE ClearFailed(c)
    BY <2>14 DEF ClearFailed, Return
  <2>15. CASE FallBack(c)
    BY <2>15 DEF FallBack, clientVars, slotVars
  <2> QED BY <1>2, <2>1, <2>2, <2>3, <2>4, <2>5, <2>6, <2>7, <2>8, <2>9, <2>10, <2>11, <2>12, <2>13, <2>14, <2>15 DEF Load
<1>3. CASE Stop(c)
  <2>1. CASE StopLoad(c)
    BY <2>1 DEF StopLoad, SeeRow, Stored, Return
  <2>2. CASE StopEngine(c)
    BY <2>2 DEF StopEngine, Goto
  <2>3. CASE ReleaseDisplay(c)
    BY <2>3 DEF ReleaseDisplay, Goto
  <2>4. CASE StopMark(c)
    BY <2>4, Moved, Table DEF StopMark, AttemptTransition, Goto
  <2>5. CASE StopClear(c)
    BY <2>5 DEF StopClear, Goto
  <2>6. CASE StopDelete(c)
    BY <2>6 DEF StopDelete, NoRow, Goto
  <2>7. CASE StopPublish(c)
    BY <2>7 DEF StopPublish, Return
  <2> QED BY <1>3, <2>1, <2>2, <2>3, <2>4, <2>5, <2>6, <2>7 DEF Stop
<1>4. CASE Other(c)
  <2>1. CASE PauseEngine(c)
    BY <2>1 DEF PauseEngine, Goto, Return
  <2>2. CASE MarkPaused(c)
    BY <2>2, Moved, Table DEF MarkPaused, TryTransition, Goto, Return
  <2>3. CASE ResumeEngine(c)
    BY <2>3 DEF ResumeEngine, Goto, Return
  <2>4. CASE SeekLoad(c)
    BY <2>4 DEF SeekLoad, SeeRow, Stored, Return
  <2>5. CASE BeginSeek(c)
    BY <2>5, Moved, Table DEF BeginSeek, TryTransition, Goto, Return
  <2>6. CASE SeekEngine(c)
    BY <2>6 DEF SeekEngine, Goto, Return
  <2>7. CASE SeekDone(c)
    BY <2>7, Moved, Table DEF SeekDone, TryTransition, Goto, Return
  <2>8. CASE VolumeStore(c)
    BY <2>8 DEF VolumeStore, Goto
  <2>9. CASE VolumeEngine(c)
    BY <2>9 DEF VolumeEngine, Goto, Return
  <2>10. CASE Refresh(c)
    BY <2>10 DEF Refresh, Goto
  <2>11. CASE Poll(c)
    BY <2>11 DEF Poll, Goto, Return
  <2>12. CASE ReadSnapshot(c)
    BY <2>12 DEF ReadSnapshot, SeeRow, Stored, Goto, Return
  <2>13. CASE SendSnapshot(c)
    BY <2>13 DEF SendSnapshot, Goto, Return
  <2> QED BY <1>4, <2>1, <2>2, <2>3, <2>4, <2>5, <2>6, <2>7, <2>8, <2>9, <2>10, <2>11, <2>12, <2>13 DEF Other
<1>5. CASE Restart
  <2>1. \A stale : \A t \in Sessions : Recovered(stale)[t].state \notin LiveStates
    BY DEF Recovered, NoRow, TypeInv, TypeOK, Row
  <2> QED BY <1>5, <2>1 DEF Restart
<1>6. CASE UNCHANGED vars
  BY <1>6 DEF vars, clientVars
<1> QED BY <1>1, <1>2, <1>3, <1>4, <1>5, <1>6 DEF Next, Step, Cancel

LEMMA SingleInvariance ==
    ASSUME NEW c, Clients = {c}, HttpClients = {} PROVE Spec => []SingleInv(c)
BY SingleInit, SingleStep, PTL DEF Spec

-----------------------------------------------------------------------------
\* Between the commands of a single client either nothing is active, no
\* pipeline runs and no row is live, or the active session is the one that is
\* playing: after any sequence of commands, failures and restarts.
THEOREM RestIsConsistent ==
    ASSUME NEW c, Clients = {c}, HttpClients = {}
    PROVE  Spec => []QuiescentSession
<1>1. SingleInv(c) => QuiescentSession
  BY ConstantsAssumption
  DEF SingleInv, IdleInv, QuiescentSession, Quiescent, AtRest, Holds, Alone,
      Nothing, Started
<1> QED BY <1>1, SingleInvariance, PTL

\* The row says Playing only of a running pipeline and Paused only of a paused
\* one, also after a seek, a rejected command or a failed one.
THEOREM RowAgreesWithEngine ==
    ASSUME NEW c, Clients = {c}, HttpClients = {}
    PROVE  Spec => []EngineModeAgrees
<1>1. SingleInv(c) => EngineModeAgrees
  BY DEF SingleInv, IdleInv, EngineModeAgrees, Quiescent, AtRest, Agrees, Nothing
<1> QED BY <1>1, SingleInvariance, PTL

\* Subscribers of the watch channel see the active session in its state, and
\* nothing when no session is active.
THEOREM WatchersSeeTheSession ==
    ASSUME NEW c, Clients = {c}, HttpClients = {}
    PROVE  Spec => []WatchAgrees
<1>1. SingleInv(c) => WatchAgrees
  BY ConstantsAssumption
  DEF SingleInv, IdleInv, WatchAgrees, Quiescent, AtRest, Shown, Nothing
<1> QED BY <1>1, SingleInvariance, PTL

-----------------------------------------------------------------------------
(***************************************************************************)
(* The DLNA renderer beside the session manager of any number of clients.  *)
(***************************************************************************)
\* A step of the system is one of the manager, or leaves the manager alone.
LEMMA DlnaStep == [DlnaNext]_allVars => [Next]_vars
<1>1. ASSUME NEW c \in Clients, SessionBegin(c) \/ SessionStep(c) \/ SessionCancel(c)
      PROVE  Next
  BY <1>1 DEF SessionBegin, SessionStep, SessionCancel, Next
<1>2. CASE ForwardAudioError \/ StartUp \/ Sync \/ Monitor \/ ChildExits \/ UNCHANGED allVars
  BY <1>2 DEF ForwardAudioError, StartUp, Sync, Receive, CheckRunning, SyncStop, SyncStart,
              Monitor, MonitorCheck, MonitorRestart, ChildExits, allVars
<1> QED BY <1>1, <1>2 DEF DlnaNext

\* The variables of the renderer's side; the rest is the session manager's.
RendererTypeOK ==
    /\ setting \in Settings
    /\ events \in Seq(Kinds) /\ Len(events) <= Capacity
    /\ told \in [id : Sessions, state : Announced] \cup {None}
    /\ lost \in BOOLEAN
    /\ child \in {"none", "running", "exited"}
    /\ starter \in {"ready", "done"}
    /\ sync \in {"recv", "check_stop", "stop", "check_start", "start"}
    /\ monitor \in {"off", "watch", "backoff"}
    /\ restarts \in 0 .. MaxRestarts

\* What is sent comes last; a full channel drops one event in front.
LEMMA Enqueued ==
    ASSUME events \in Seq(Kinds), Len(events) <= Capacity,
           NEW kind \in Kinds, Enqueue(kind)
    PROVE  /\ events' \in Seq(Kinds) /\ Len(events') <= Capacity
           /\ Len(events') \in Nat \ {0} /\ events'[Len(events')] = kind
           /\ \E d \in {0, 1} :
                /\ Len(events') = Len(events) + 1 - d
                /\ \A i \in 1 .. Len(events') - 1 : events'[i] = events[i + d]
<1> DEFINE queue == Append(events, kind)
<1>1. /\ queue \in Seq(Kinds) /\ Len(queue) = Len(events) + 1 /\ Len(events) \in Nat
      /\ queue[Len(queue)] = kind
      /\ \A i \in 1 .. Len(events) : queue[i] = events[i]
  OBVIOUS
<1>2. Capacity \in Nat \ {0}
  BY DlnaConstants
<1>3. events' = IF Len(queue) > Capacity THEN Tail(queue) ELSE queue
  BY DEF Enqueue
<1> HIDE DEF queue
<1>4. CASE Len(queue) > Capacity
  <2>1. Len(queue) \in Nat \ {0, 1} /\ Len(events) = Capacity
    BY <1>1, <1>2, <1>4
  <2>2. /\ Tail(queue) \in Seq(Kinds) /\ Len(Tail(queue)) = Len(queue) - 1
        /\ \A i \in 1 .. Len(queue) - 1 : Tail(queue)[i] = queue[i + 1]
    BY <1>1, <2>1
  <2>3. events' = Tail(queue) /\ Len(events') = Len(events)
    BY <1>1, <1>3, <1>4, <2>2
  <2>4. events'[Len(events')] = kind
    BY <1>1, <2>1, <2>2, <2>3
  <2>5. \A i \in 1 .. Len(events') - 1 : events'[i] = events[i + 1]
    BY <1>1, <2>1, <2>2, <2>3
  <2>6. /\ events' \in Seq(Kinds) /\ Len(events') <= Capacity
        /\ Len(events') \in Nat \ {0} /\ Len(events') = Len(events) + 1 - 1
    BY <1>1, <1>2, <2>1, <2>2, <2>3
  <2> QED BY <2>4, <2>5, <2>6
<1>5. CASE ~(Len(queue) > Capacity)
  <2>1. events' = queue /\ Len(events') = Len(events) + 1 - 0
    BY <1>1, <1>3, <1>5
  <2>2. \A i \in 1 .. Len(events') - 1 : events'[i] = events[i + 0]
    BY <1>1, <2>1
  <2> QED BY <1>1, <1>2, <1>5, <2>1, <2>2
<1> QED BY <1>4, <1>5

\* Every way to send keeps the types of the channel.
LEMMA ChannelTyped ==
    ASSUME RendererTypeOK,
           \/ UNCHANGED channel
           \/ SendOther
           \/ \E s \in Sessions, e \in Announced : Send(s, e)
    PROVE  /\ events' \in Seq(Kinds) /\ Len(events') <= Capacity
           /\ told' \in [id : Sessions, state : Announced] \cup {None}
           /\ lost' \in BOOLEAN
<1> USE DEF RendererTypeOK
<1>1. CASE UNCHANGED channel
  BY <1>1 DEF channel
<1>2. CASE SendOther
  <2>1. "Other" \in Kinds
    BY DEF Kinds
  <2> QED BY <1>2, <2>1, Enqueued DEF SendOther
<1>3. ASSUME NEW s \in Sessions, NEW e \in Announced, Send(s, e)
      PROVE  /\ events' \in Seq(Kinds) /\ Len(events') <= Capacity
             /\ told' \in [id : Sessions, state : Announced] \cup {None}
             /\ lost' \in BOOLEAN
  <2>1. e \in Kinds
    BY DEF Kinds
  <2> QED BY <1>3, <2>1, Enqueued DEF Send
<1> QED BY <1>1, <1>2, <1>3

\* A step of a command announces a state, sends something else, or nothing.
LEMMA Announces ==
    ASSUME TypeInv, NEW c \in Clients, pc[c] # "idle", Announce(c)
    PROVE  \/ UNCHANGED channel
           \/ SendOther
           \/ \E s \in Sessions, e \in Announced : Send(s, e)
<1>1. sid[c] \in Sessions
  BY BusySid
<1> QED BY <1>1 DEF Announce

\* A step of a command is taken by a client that executes one.
LEMMA StepBusy == ASSUME NEW c, Step(c) PROVE pc[c] # "idle"
BY DEF Step, Load, Stop, Other, InsertRow, BeginResolve, Resolve, StoreResolved,
       AcquireDisplay, BeginBuffer, PlayBegin, FallBack, PlayOk, PlayRetryable, PlayFailed,
       ReResolve, MarkPlaying, MarkFailed, ClearFailed, StopLoad, StopEngine,
       ReleaseDisplay, StopMark, StopClear, StopDelete, StopPublish, PauseEngine,
       MarkPaused, ResumeEngine, SeekLoad, BeginSeek, SeekEngine, SeekDone,
       VolumeStore, VolumeEngine, Refresh, Poll, ReadSnapshot, SendSnapshot

LEMMA RendererTyped ==
    ASSUME TypeInv, RendererTypeOK, [DlnaNext]_allVars PROVE RendererTypeOK'
<1> USE DlnaConstants DEF RendererTypeOK
<1>1. ASSUME NEW c \in Clients, SessionBegin(c) \/ SessionCancel(c) PROVE RendererTypeOK'
  BY <1>1 DEF SessionBegin, SessionCancel, channel, dlnaVars
<1>2. ASSUME NEW c \in Clients, SessionStep(c) PROVE RendererTypeOK'
  <2>1. pc[c] # "idle" /\ Announce(c)
    BY <1>2, StepBusy DEF SessionStep
  <2>2. /\ events' \in Seq(Kinds) /\ Len(events') <= Capacity
        /\ told' \in [id : Sessions, state : Announced] \cup {None}
        /\ lost' \in BOOLEAN
    BY <2>1, Announces, ChannelTyped
  <2> QED BY <1>2, <2>2 DEF SessionStep, dlnaVars
<1>12. CASE ForwardAudioError
  BY <1>12, ChannelTyped DEF ForwardAudioError, dlnaVars
<1>3. ASSUME Start PROVE child' \in {"none", "running", "exited"}
                         /\ restarts' \in 0 .. MaxRestarts
  BY <1>3 DEF Start
<1>4. CASE StartUp
  BY <1>3, <1>4 DEF StartUp, channel
<1>5. CASE Receive
  <2>1. Len(events) \in Nat \ {0} /\ Len(events) <= Capacity
    BY <1>5 DEF Receive
  <2>2. Tail(events) \in Seq(Kinds) /\ Len(Tail(events)) = Len(events) - 1
    BY <1>5 DEF Receive
  <2> QED BY <1>5, <2>1, <2>2 DEF Receive, Handle
<1>6. CASE CheckRunning \/ SyncStop
  BY <1>6 DEF CheckRunning, Reaped, SyncStop, StopChild, channel
<1>7. CASE SyncStart
  BY <1>3, <1>7 DEF SyncStart, channel
<1>8. CASE MonitorCheck
  BY <1>8 DEF MonitorCheck, Reaped, channel
<1>9. CASE MonitorRestart
  BY <1>3, <1>9 DEF MonitorRestart, channel
<1>10. CASE ChildExits
  BY <1>10 DEF ChildExits, channel
<1>11. CASE UNCHANGED allVars
  BY <1>11 DEF allVars, channel, dlnaVars
<1> QED BY <1>1, <1>2, <1>4, <1>5, <1>6, <1>7, <1>8, <1>9, <1>10, <1>11, <1>12
        DEF DlnaNext, Sync, Monitor

LEMMA RendererTypedInit == DlnaInit => RendererTypeOK
<1> SUFFICES ASSUME DlnaInit PROVE RendererTypeOK
  OBVIOUS
<1>1. Capacity \in Nat \ {0} /\ MaxRestarts \in Nat
  BY DlnaConstants
<1>2. events \in Seq(Kinds) /\ Len(events) <= Capacity
  BY <1>1 DEF DlnaInit
<1>3. monitor \in {"off", "watch", "backoff"} /\ restarts \in 0 .. MaxRestarts
  BY <1>1 DEF DlnaInit
<1> QED BY <1>2, <1>3 DEF DlnaInit, RendererTypeOK

-----------------------------------------------------------------------------
(***************************************************************************)
(* The renderer of the server as it is wired, without the health monitor   *)
(* and started before the first command, follows the announcements.        *)
(***************************************************************************)
Starts == {"Resolving", "Playing"}

\* The newest event in the queue that the task reacts to is one of a start.
StartIsNewest(queue) ==
    \E i \in DOMAIN queue : /\ queue[i] \in Starts
                            /\ \A j \in DOMAIN queue : j > i => queue[j] = "Other"

\* The renderer is stopped, or its task has an event or a decision before it
\* that will stop it, and none after that one.
WillStop ==
    \/ StartIsNewest(events)
    \/ ~Reacted(events) /\ sync \in {"check_stop", "stop"}
    \/ ~Reacted(events) /\ sync = "recv" /\ child # "running"

RendererInv ==
    /\ RendererTypeOK
    /\ told # None => (db[told.id].state \in LiveStates => told.state \in Starts)
    /\ setting.inTime /\ ~setting.monitored =>
         /\ monitor = "off"
         /\ starter # "done" => told = None /\ \A c \in Clients : pc[c] = "idle"
         /\ (told # None /\ ~lost) => (told.state \in Starts => WillStop)

\* What a step of a command does to the row of its session: the row becomes
\* live only with an announcement that stops the renderer.
RowMoves(s) ==
    \/ db'[s].state = db[s].state
    \/ db'[s].state \notin LiveStates
    \/ Stored(s) /\ db'[s].state \in Starts
    \/ db[s].state \in LiveStates /\ db'[s].state \notin Announced

LEMMA Transitions ==
    ASSUME TypeInv, NEW s \in Sessions, NEW to,
           CanTransition(db[s].state, to), SetState(s, to)
    PROVE  RowMoves(s)
<1>1. db'[s].state = to /\ Stored(s)
  BY Moved DEF CanTransition, PlayerStates, Stored, Absent
<1>2. to \in {"Buffering", "Paused", "Seeking"} =>
        db[s].state \in LiveStates /\ to \notin Announced
  BY DEF CanTransition, Targets, PlayerStates, LiveStates, Announced
<1>3. to \in {"Idle", "Error"} => to \notin LiveStates
  BY DEF LiveStates
<1>4. to \in Starts \cup {"Buffering", "Paused", "Seeking"} \cup {"Idle", "Error"}
  BY DEF CanTransition, Targets, PlayerStates, Starts
<1> QED BY <1>1, <1>2, <1>3, <1>4 DEF RowMoves

LEMMA TryMoves ==
    ASSUME TypeInv, NEW c, sid[c] \in Sessions, NEW to,
           \/ \E step : TryTransition(c, to, step)
           \/ AttemptTransition(c, to)
    PROVE  /\ RowMoves(sid[c])
           /\ \A t \in Sessions \ {sid[c]} : db'[t].state = db[t].state
<1>1. CASE UNCHANGED db
  BY <1>1 DEF RowMoves
<1>2. CASE CanTransition(db[sid[c]].state, to) /\ SetState(sid[c], to)
  BY <1>2, Transitions, Moved
<1> QED BY <1>1, <1>2 DEF TryTransition, AttemptTransition

LEMMA StepMoves ==
    ASSUME TypeInv, NEW c \in Clients, Step(c)
    PROVE  /\ sid[c] \in Sessions
           /\ RowMoves(sid[c])
           /\ \A t \in Sessions \ {sid[c]} : db'[t].state = db[t].state
<1>1. pc[c] # "idle"
  BY StepBusy
<1>2. sid[c] \in Sessions
  BY <1>1, BusySid
<1> DEFINE Goal == /\ RowMoves(sid[c])
                   /\ \A t \in Sessions \ {sid[c]} : db'[t].state = db[t].state
<1> SUFFICES Goal
  BY <1>2
<1>3. ASSUME UNCHANGED db PROVE Goal
  BY <1>3 DEF RowMoves
<1>4. ASSUME UpdateResolved(sid[c]) PROVE Goal
  BY <1>1, <1>2, <1>4, Updated DEF RowMoves
<1>5. ASSUME NEW to, (\E step : TryTransition(c, to, step)) \/ AttemptTransition(c, to)
      PROVE  Goal
  BY <1>1, <1>2, <1>5, TryMoves
<1>6. ASSUME NEW state, state \notin LiveStates, NEW b,
             db' = [db EXCEPT ![sid[c]] = [state |-> state, resolved |-> b]]
      PROVE  Goal
  <2>1. db'[sid[c]].state = state /\ \A t \in Sessions \ {sid[c]} : db'[t] = db[t]
    BY <1>1, <1>2, <1>6 DEF TypeInv, TypeOK
  <2> QED BY <2>1, <1>6 DEF RowMoves
<1>7. CASE Load(c)
  <2>1. CASE InsertRow(c)
    BY <1>3, <1>6, <2>1, Live DEF InsertRow
  <2>2. CASE BeginResolve(c) \/ BeginBuffer(c) \/ MarkPlaying(c) \/ MarkFailed(c)
    BY <1>5, <2>2 DEF BeginResolve, BeginBuffer, MarkPlaying, MarkFailed
  <2>3. CASE StoreResolved(c) \/ ReResolve(c)
    BY <1>3, <1>4, <2>3 DEF StoreResolved, ReResolve
  <2> QED BY <1>3, <1>7, <2>1, <2>2, <2>3
          DEF Load, Resolve, AcquireDisplay, PlayBegin, FallBack, PlayOk, PlayRetryable,
              PlayFailed, ClearFailed
<1>8. CASE Stop(c)
  <2>1. CASE StopMark(c)
    BY <1>3, <1>5, <2>1 DEF StopMark
  <2>2. CASE StopDelete(c)
    BY <1>6, <2>2, Live DEF StopDelete, NoRow
  <2> QED BY <1>3, <1>8, <2>1, <2>2
          DEF Stop, StopLoad, StopEngine, ReleaseDisplay, StopClear, StopPublish
<1>9. CASE Other(c)
  <2>1. CASE MarkPaused(c) \/ BeginSeek(c) \/ SeekDone(c)
    BY <1>5, <2>1 DEF MarkPaused, BeginSeek, SeekDone
  <2> QED BY <1>3, <1>9, <2>1
          DEF Other, PauseEngine, ResumeEngine, SeekLoad, SeekEngine, VolumeStore,
              VolumeEngine, Refresh, Poll, ReadSnapshot, SendSnapshot
<1> QED BY <1>7, <1>8, <1>9 DEF Step

\* What the sends and the receives do to the newest event that matters.
LEMMA OtherKeeps ==
    ASSUME RendererTypeOK, SendOther
    PROVE  /\ StartIsNewest(events) /\ ~lost' => StartIsNewest(events')
           /\ ~Reacted(events) => ~Reacted(events')
<1>1. /\ events \in Seq(Kinds) /\ Len(events) <= Capacity /\ "Other" \in Kinds
      /\ "Other" \notin Announced /\ Starts \subseteq Announced
  BY DEF RendererTypeOK, Kinds, Announced, Starts
<1>2. Enqueue("Other") /\ lost' = (lost \/ (Reacted(events) /\ ~Reacted(events')))
  BY DEF SendOther
<1>3. /\ events' \in Seq(Kinds) /\ Len(events') \in Nat \ {0}
      /\ events'[Len(events')] = "Other"
  BY <1>1, <1>2, Enqueued
<1>4. PICK d \in {0, 1} :
        /\ Len(events') = Len(events) + 1 - d
        /\ \A i \in 1 .. Len(events') - 1 : events'[i] = events[i + d]
  BY <1>1, <1>2, Enqueued
<1>5. DOMAIN events = 1 .. Len(events) /\ DOMAIN events' = 1 .. Len(events')
      /\ Len(events) \in Nat
  BY <1>1, <1>3
<1>6. \A j \in DOMAIN events' : events'[j] # "Other" =>
        j + d \in DOMAIN events /\ events'[j] = events[j + d]
  <2> SUFFICES ASSUME NEW j \in DOMAIN events', events'[j] # "Other"
               PROVE  j + d \in DOMAIN events /\ events'[j] = events[j + d]
    OBVIOUS
  <2>1. j \in 1 .. Len(events') /\ j # Len(events')
    BY <1>3, <1>5
  <2>2. j \in 1 .. Len(events') - 1 /\ j + d \in 1 .. Len(events)
    BY <1>3, <1>4, <1>5, <2>1
  <2> QED BY <1>4, <1>5, <2>2
<1>7. ~Reacted(events) => ~Reacted(events')
  BY <1>1, <1>6 DEF Reacted
<1>8. ASSUME StartIsNewest(events), ~lost' PROVE StartIsNewest(events')
  <2>1. PICK i \in DOMAIN events :
          /\ events[i] \in Starts
          /\ \A j \in DOMAIN events : j > i => events[j] = "Other"
    BY <1>8 DEF StartIsNewest
  <2>2. Reacted(events)
    BY <1>1, <2>1 DEF Reacted
  <2>3. PICK k \in DOMAIN events' : events'[k] \in Announced
    BY <1>2, <1>8, <2>2 DEF Reacted
  <2>4. k + d \in DOMAIN events /\ events'[k] = events[k + d]
    BY <1>1, <1>6, <2>3
  <2>5. ~(k + d > i)
    BY <1>1, <2>1, <2>3, <2>4
  <2>6. i - d \in DOMAIN events' /\ i - d <= Len(events') - 1
    BY <1>3, <1>4, <1>5, <2>1, <2>3, <2>5
  <2>7. events'[i - d] = events[i]
    BY <1>4, <1>5, <2>1, <2>6
  <2>8. \A j \in DOMAIN events' : j > i - d => events'[j] = "Other"
    <3> SUFFICES ASSUME NEW j \in DOMAIN events', j > i - d, events'[j] # "Other"
                 PROVE  FALSE
      OBVIOUS
    <3>1. j + d \in DOMAIN events /\ events'[j] = events[j + d]
      BY <1>6
    <3>2. j + d > i
      BY <1>5, <2>1
    <3> QED BY <2>1, <3>1, <3>2
  <2> QED BY <2>1, <2>6, <2>7, <2>8 DEF StartIsNewest
<1> QED BY <1>7, <1>8

LEMMA StartQueued ==
    ASSUME RendererTypeOK, NEW s \in Sessions, NEW e \in Starts, Send(s, e)
    PROVE  StartIsNewest(events')
<1>1. /\ events \in Seq(Kinds) /\ Len(events) <= Capacity
      /\ e \in Kinds /\ Enqueue(e)
  BY DEF RendererTypeOK, Kinds, Announced, Starts, Send
<1>2. /\ events' \in Seq(Kinds) /\ Len(events') \in Nat \ {0}
      /\ events'[Len(events')] = e
  BY <1>1, Enqueued
<1>3. Len(events') \in DOMAIN events' /\ \A j \in DOMAIN events' : ~(j > Len(events'))
  BY <1>2
<1> QED BY <1>2, <1>3 DEF StartIsNewest

LEMMA ReceiveKeeps ==
    ASSUME RendererTypeOK, events # <<>>, events' = Tail(events)
    PROVE  /\ StartIsNewest(events) =>
                StartIsNewest(events') \/ (Head(events) \in Starts /\ ~Reacted(events'))
           /\ ~Reacted(events) => Head(events) = "Other" /\ ~Reacted(events')
<1>1. /\ events' \in Seq(Kinds) /\ Len(events') = Len(events) - 1
      /\ \A i \in 1 .. Len(events') : events'[i] = events[i + 1]
      /\ events \in Seq(Kinds) /\ Len(events) \in Nat \ {0} /\ Head(events) = events[1]
  BY DEF RendererTypeOK
<1>2. /\ DOMAIN events = 1 .. Len(events) /\ DOMAIN events' = 1 .. Len(events) - 1
      /\ \A j \in DOMAIN events' : j + 1 \in DOMAIN events /\ events'[j] = events[j + 1]
  BY <1>1
<1>3. "Other" \notin Announced
  BY DEF Announced
<1>4. ASSUME StartIsNewest(events)
      PROVE  StartIsNewest(events') \/ (Head(events) \in Starts /\ ~Reacted(events'))
  <2>1. PICK i \in DOMAIN events :
          /\ events[i] \in Starts
          /\ \A j \in DOMAIN events : j > i => events[j] = "Other"
    BY <1>4 DEF StartIsNewest
  <2>2. CASE i = 1
    <3>1. \A j \in DOMAIN events' : events'[j] = "Other"
      <4> SUFFICES ASSUME NEW j \in DOMAIN events' PROVE events'[j] = "Other"
        OBVIOUS
      <4>1. j + 1 \in DOMAIN events /\ events'[j] = events[j + 1] /\ j + 1 > i
        BY <1>1, <1>2, <2>2
      <4> QED BY <2>1, <4>1
    <3> QED BY <1>1, <1>3, <2>1, <2>2, <3>1 DEF Reacted
  <2>3. CASE i # 1
    <3>1. i - 1 \in DOMAIN events' /\ events'[i - 1] = events[i]
      BY <1>1, <1>2, <2>1, <2>3
    <3>2. \A j \in DOMAIN events' : j > i - 1 => events'[j] = "Other"
      <4> SUFFICES ASSUME NEW j \in DOMAIN events', j > i - 1 PROVE events'[j] = "Other"
        OBVIOUS
      <4>1. j + 1 \in DOMAIN events /\ events'[j] = events[j + 1] /\ j + 1 > i
        BY <1>1, <1>2, <2>1
      <4> QED BY <2>1, <4>1
    <3> QED BY <2>1, <3>1, <3>2 DEF StartIsNewest
  <2> QED BY <2>2, <2>3
<1>5. ASSUME ~Reacted(events) PROVE Head(events) = "Other" /\ ~Reacted(events')
  <2>1. Head(events) \in Kinds /\ Head(events) \notin Announced
    BY <1>1, <1>2, <1>5 DEF Reacted
  <2> QED BY <1>2, <1>5, <2>1 DEF Reacted, Kinds
<1> QED BY <1>4, <1>5

\* The steps of the commands.
LEMMA ClientStep ==
    ASSUME TypeInv, RendererInv, RendererTypeOK', NEW c \in Clients,
           SessionBegin(c) \/ SessionStep(c) \/ SessionCancel(c)
    PROVE  RendererInv'
<1> USE DEF RendererInv
<1>1. UNCHANGED <<setting, child, starter, sync, monitor>>
  BY DEF SessionBegin, SessionStep, SessionCancel, dlnaVars
<1>2. CASE SessionBegin(c)
  <2>1. UNCHANGED <<events, told, lost, db>> /\ (setting.inTime => starter = "done")
    BY <1>2 DEF SessionBegin, channel, Begin, LoadReserve, PauseBegin, ResumeBegin, StopBegin,
                SeekBegin, VolumeBegin, PollBegin, Enter
  <2>2. WillStop' = WillStop
    BY <1>1, <2>1 DEF WillStop, StartIsNewest, Reacted
  <2> QED BY <1>1, <2>1, <2>2
<1>3. CASE SessionCancel(c)
  <2>1. UNCHANGED <<events, told, lost, db>> /\ pc' = [pc EXCEPT ![c] = "idle"]
    BY <1>3 DEF SessionCancel, channel, Cancel, Return
  <2>2. WillStop' = WillStop
    BY <1>1, <2>1 DEF WillStop, StartIsNewest, Reacted
  <2>3. (\A k \in Clients : pc[k] = "idle") => \A k \in Clients : pc'[k] = "idle"
    BY <2>1 DEF TypeInv, TypeOK
  <2> QED BY <1>1, <2>1, <2>2, <2>3
<1>4. CASE SessionStep(c)
  <2> DEFINE s == sid[c]
             new == db'[s].state
             moved == Stored(s) /\ new \notin {db[s].state, Absent}
  <2>1. Step(c) /\ Announce(c)
    BY <1>4 DEF SessionStep
  <2>2. pc[c] # "idle"
    BY <2>1, StepBusy
  <2>3. /\ s \in Sessions /\ RowMoves(s)
        /\ \A t \in Sessions \ {s} : db'[t].state = db[t].state
    BY <2>1, StepMoves
  <2>4. \/ moved /\ new \in Announced /\ Send(s, new)
        \/ moved /\ new \notin Announced /\ SendOther
        \/ ~moved /\ (SendOther \/ UNCHANGED channel)
    BY <2>1 DEF Announce
  <2>5. (told # None => told.id \in Sessions) /\ (told' # None => told'.id \in Sessions)
    BY DEF RendererTypeOK
  <2>6. setting.inTime /\ ~setting.monitored => starter' = "done" /\ monitor' = "off"
    BY <1>1, <2>2 DEF RendererTypeOK
  <2>7. CASE new \in Announced /\ Send(s, new)
    <3>1. told' = [id |-> s, state |-> new] /\ lost' = FALSE
      BY <2>7 DEF Send
    <3>2. new \in Starts \/ new \notin LiveStates
      BY <2>7 DEF Announced, Starts, LiveStates
    <3>3. new \in Starts => WillStop'
      BY <2>3, <2>7, StartQueued DEF WillStop
    <3>4. told'.id = s /\ told'.state = new
      BY <3>1
    <3>5. told' # None => (db'[told'.id].state \in LiveStates => told'.state \in Starts)
      BY <3>2, <3>4
    <3>6. (told' # None /\ ~lost') => (told'.state \in Starts => WillStop')
      BY <3>3, <3>4
    <3> QED BY <1>1, <2>6, <3>5, <3>6
  <2>8. CASE (SendOther \/ UNCHANGED channel) /\ (moved => new \notin Announced)
    <3>1. told' = told /\ (lost => lost')
      BY <2>8 DEF SendOther, channel, RendererTypeOK
    <3>2. ASSUME told # None, db'[told.id].state \in LiveStates PROVE told.state \in Starts
      <4>1. CASE told.id # s
        BY <2>3, <2>5, <3>2, <4>1
      <4>2. CASE told.id = s
        <5>1. new # Absent
          BY <3>2, <4>2, Live
        <5>2. db[s].state \in LiveStates
          BY <2>3, <2>8, <3>2, <4>2, <5>1 DEF RowMoves, Starts, Announced
        <5> QED BY <3>2, <4>2, <5>2
      <4> QED BY <4>1, <4>2
    <3>3. ASSUME WillStop, ~lost' PROVE WillStop'
      <4>1. CASE UNCHANGED channel
        BY <1>1, <3>3, <4>1 DEF WillStop, StartIsNewest, Reacted, channel
      <4>2. CASE SendOther
        BY <1>1, <3>3, <4>2, OtherKeeps DEF WillStop
      <4> QED BY <2>8, <4>1, <4>2
    <3> QED BY <1>1, <2>6, <3>1, <3>2, <3>3
  <2> QED BY <2>4, <2>7, <2>8
<1> QED BY <1>2, <1>3, <1>4

\* The steps of the renderer's tasks, of the renderer and of the engine.
LEMMA RendererStep ==
    ASSUME RendererInv, RendererTypeOK',
           \/ ForwardAudioError \/ StartUp \/ Sync \/ Monitor \/ ChildExits
           \/ UNCHANGED allVars
    PROVE  RendererInv'
<1> USE DEF RendererInv
<1>1. UNCHANGED <<db, pc, setting>>
  BY DEF ForwardAudioError, StartUp, Sync, Receive, CheckRunning, SyncStop, SyncStart,
         Monitor, MonitorCheck, MonitorRestart, ChildExits, allVars, vars, clientVars
<1> DEFINE Same == UNCHANGED <<events, told, lost>>
<1>2. ASSUME Same PROVE StartIsNewest(events') = StartIsNewest(events)
                        /\ Reacted(events') = Reacted(events)
  BY <1>2
<1>3. CASE StartUp
  <2>1. Same /\ UNCHANGED <<sync, monitor>> /\ starter = "ready" /\ starter' = "done"
    BY <1>3 DEF StartUp, channel
  <2> QED BY <1>1, <2>1
<1>4. CASE Receive
  <2>1. /\ UNCHANGED <<told, lost, child, starter, monitor>>
        /\ sync = "recv" /\ sync' = Handle(Head(events))
        /\ events # <<>> /\ events' = Tail(events)
    BY <1>4 DEF Receive
  <2>2. ASSUME WillStop PROVE WillStop'
    <3>1. CASE StartIsNewest(events)
      BY <2>1, <3>1, ReceiveKeeps DEF WillStop, Handle, Starts
    <3>2. CASE ~Reacted(events) /\ child # "running"
      BY <2>1, <3>2, ReceiveKeeps DEF WillStop, Handle
    <3> QED BY <2>1, <2>2, <3>1, <3>2 DEF WillStop
  <2> QED BY <1>1, <2>1, <2>2
<1>5. CASE CheckRunning
  <2>1. Same /\ UNCHANGED <<starter, monitor>>
    BY <1>5 DEF CheckRunning, channel
  <2>2. WillStop => WillStop'
    BY <1>2, <1>5, <2>1 DEF CheckRunning, Reaped, WillStop
  <2> QED BY <1>1, <2>1, <2>2
<1>6. CASE SyncStop
  <2>1. Same /\ UNCHANGED <<starter, monitor>>
    BY <1>6 DEF SyncStop, channel
  <2>2. WillStop => WillStop'
    BY <1>2, <1>6, <2>1 DEF SyncStop, StopChild, WillStop
  <2> QED BY <1>1, <2>1, <2>2
<1>7. CASE SyncStart
  <2>1. Same /\ UNCHANGED <<starter, monitor>>
    BY <1>7 DEF SyncStart, channel
  <2>2. WillStop => WillStop'
    BY <1>2, <1>7, <2>1 DEF SyncStart, WillStop
  <2> QED BY <1>1, <2>1, <2>2
<1>8. CASE Monitor
  <2>1. Same /\ monitor # "off"
    BY <1>8 DEF Monitor, MonitorCheck, MonitorRestart, channel
  <2> QED BY <1>1, <2>1
<1>9. CASE ChildExits
  <2>1. Same /\ UNCHANGED <<starter, sync, monitor>> /\ child' = "exited"
    BY <1>9 DEF ChildExits, channel
  <2>2. WillStop => WillStop'
    BY <1>2, <2>1 DEF WillStop
  <2> QED BY <1>1, <2>1, <2>2
<1>10. CASE ForwardAudioError
  <2>1. /\ SendOther /\ UNCHANGED <<told, child, starter, sync, monitor>>
        /\ (lost => lost')
    BY <1>10 DEF ForwardAudioError, SendOther, dlnaVars, RendererTypeOK
  <2>2. WillStop /\ ~lost' => WillStop'
    BY <2>1, OtherKeeps DEF WillStop
  <2> QED BY <1>1, <2>1, <2>2
<1>11. CASE UNCHANGED allVars
  <2>1. Same /\ UNCHANGED <<child, starter, sync, monitor>>
    BY <1>11 DEF allVars, channel, dlnaVars
  <2>2. WillStop => WillStop'
    BY <1>2, <2>1 DEF WillStop
  <2> QED BY <1>1, <2>1, <2>2
<1> QED BY <1>3, <1>4, <1>5, <1>6, <1>7, <1>8, <1>9, <1>10, <1>11 DEF Sync

LEMMA RendererInvariance == DlnaSpec => [](TypeInv /\ RendererInv)
<1>1. DlnaInit => TypeInv /\ RendererInv
  <2> SUFFICES ASSUME DlnaInit PROVE TypeInv /\ RendererInv
    OBVIOUS
  <2>1. Init /\ told = None
    BY DEF DlnaInit
  <2>2. \A c \in Clients : pc[c] = "idle"
    BY <2>1 DEF Init
  <2>3. monitor = IF setting.monitored THEN "watch" ELSE "off"
    BY DEF DlnaInit
  <2> QED BY <2>1, <2>2, <2>3, TypeInvInit, RendererTypedInit DEF RendererInv
<1>2. ASSUME TypeInv, RendererInv, [DlnaNext]_allVars
      PROVE  TypeInv' /\ RendererInv'
  <2>1. TypeInv'
    BY <1>2, DlnaStep, TypeInvStep
  <2>2. RendererTypeOK'
    BY <1>2, RendererTyped DEF RendererInv
  <2>3. ASSUME NEW c \in Clients, SessionBegin(c) \/ SessionStep(c) \/ SessionCancel(c)
        PROVE  RendererInv'
    BY <1>2, <2>2, <2>3, ClientStep
  <2>4. CASE \/ ForwardAudioError \/ StartUp \/ Sync \/ Monitor \/ ChildExits
             \/ UNCHANGED allVars
    BY <1>2, <2>1, <2>2, <2>4, RendererStep
  <2>5. DlnaNext \/ UNCHANGED allVars
    BY <1>2
  <2>6. CASE \E c \in Clients : SessionBegin(c) \/ SessionStep(c) \/ SessionCancel(c)
    BY <2>1, <2>3, <2>6
  <2>7. RendererInv'
    BY <2>4, <2>5, <2>6 DEF DlnaNext
  <2> QED BY <2>1, <2>7
<1> QED BY <1>1, <1>2, PTL DEF DlnaSpec

\* "When boGDan is playing, gmediarender must be stopped" (dlna.rs): for any
\* number of clients whose commands interleave, HTTP clients that go away
\* included, and a channel of any capacity that carries and drops events of
\* every kind, once the events have been handled no renderer runs beside the
\* session announced last while that session is live, unless its announcement
\* was itself dropped.
THEOREM RendererGivesWay == DlnaSpec => []PlayingExcludesRenderer
<1>1. RendererInv => PlayingExcludesRenderer
  <2> SUFFICES ASSUME RendererInv, setting.inTime, ~setting.monitored, Handled,
                      told # None, ~lost, db[told.id].state \in LiveStates
               PROVE  child # "running"
    BY DEF PlayingExcludesRenderer
  <2>1. WillStop
    BY DEF RendererInv
  <2>2. ~StartIsNewest(events)
    BY DEF Handled, StartIsNewest
  <2> QED BY <2>1, <2>2 DEF WillStop, Handled
<1> QED BY <1>1, RendererInvariance, PTL

-----------------------------------------------------------------------------
(***************************************************************************)
(* The systems built around the session manager, with any number of        *)
(* clients: each of their steps is a step of the session manager or leaves *)
(* it alone, so everything proved above of all clients holds of them.      *)
(***************************************************************************)
\* What holds of a session manager, whoever gives its commands.
ManagerSafe == TypeOK /\ ActiveHasRow /\ BufferedIsResolved

LEMMA ManagerIsSafe == Spec => []ManagerSafe
BY TypeCorrect, SlotHasRow, ResolvedBeforeBuffering, PTL DEF ManagerSafe

LEMMA DlnaIsManager == DlnaSpec => Spec
<1>1. DlnaInit => Init
  BY DEF DlnaInit
<1> QED BY <1>1, DlnaStep, PTL DEF DlnaSpec, Spec

\* The session manager beside the renderer: for any number of clients the slot
\* has its row, what buffers has been resolved and a session's life is that of
\* SessionLifecycle; the channel never holds more than Capacity events, and
\* restart_count never passes MAX_RESTART_ATTEMPTS (dlna.rs).
THEOREM RendererKeepsManager ==
    DlnaSpec => [](DlnaTypeOK /\ ManagerSafe) /\ LifecycleSpec
<1>1. ManagerSafe /\ RendererInv => DlnaTypeOK
  BY DEF ManagerSafe, RendererInv, RendererTypeOK, DlnaTypeOK
<1> QED BY <1>1, RendererInvariance, DlnaIsManager, ManagerIsSafe, ImplementsLifecycle, PTL

-----------------------------------------------------------------------------
(***************************************************************************)
(* The stall task is a client of the session manager among others.         *)
(***************************************************************************)
LEMMA StallStep == [StallNext]_stallVars => [Next]_vars
<1>1. Task \in Clients /\ Users \subseteq Clients
  BY StallAssumption DEF Users
<1>2. ASSUME NEW c \in Clients, Begin(c) \/ Step(c) PROVE Next
  BY <1>2 DEF Next
<1>3. ASSUME NEW c \in Users, UserBegins(c) PROVE Next
  BY <1>1, <1>2, <1>3 DEF UserBegins, LoadUrl, Begin
<1>4. ASSUME NEW c \in Clients, CommandStep(c) PROVE Next
  BY <1>2, <1>4 DEF CommandStep
<1>5. CASE Tick
  BY <1>1, <1>2, <1>5 DEF Tick, Begin
<1>6. CASE StopStalled
  BY <1>1, <1>2, <1>6 DEF StopStalled, Begin
<1>7. CASE Recast
  BY <1>1, <1>2, <1>7 DEF Recast, LoadUrl, Begin
<1>8. CASE CheckActive \/ CheckStalled \/ ReadId \/ ReadUrl \/ DownloadDies
             \/ PlayingChanges \/ UNCHANGED stallVars
  BY <1>8 DEF CheckActive, CheckStalled, ReadId, ReadUrl, DownloadDies,
              PlayingChanges, stallVars
<1> QED BY <1>3, <1>4, <1>5, <1>6, <1>7, <1>8 DEF StallNext, TaskStep

LEMMA StallIsManager == StallSpec => Spec
<1>1. StallInit => Init
  BY DEF StallInit
<1> QED BY <1>1, StallStep, PTL DEF StallSpec, Spec

\* The task's own state.  It counts on only as long as the count is below the
\* third strike; and it casts only what somebody has cast before, because
\* every session that was drawn has its URL and a row is one that was drawn.
TaskInv ==
    /\ url \in [Sessions -> Urls \cup {None}]
    /\ {errored, playing} \subseteq BOOLEAN
    /\ task \in {"tick", "active", "stalled", "read_id", "read_url", "stop",
                 "recast"}
    /\ count \in 0 .. Strikes
    /\ task \in {"tick", "active", "stalled"} => count < Strikes /\ cast = None
    /\ task \in {"read_id", "read_url", "stop", "recast"} => count = Strikes
    /\ target \in Sessions \cup {None}
    /\ cast \in Urls \cup {None}
    /\ \A s \in Sessions : url[s] # None <=> s \in used
    /\ cast # None => \E s \in used : url[s] = cast

\* Only the start of a load draws a UUID.
LEMMA UsedKept ==
    ASSUME NEW c, Step(c) \/ PauseBegin(c) \/ ResumeBegin(c) \/ StopBegin(c) \/ PollBegin(c)
    PROVE  UNCHANGED used
BY DEF Step, Load, Stop, Other, InsertRow, BeginResolve, Resolve, StoreResolved,
       AcquireDisplay, BeginBuffer, PlayBegin, FallBack, PlayOk, PlayRetryable, PlayFailed,
       ReResolve, MarkPlaying, MarkFailed, ClearFailed, StopLoad, StopEngine,
       ReleaseDisplay, StopMark, StopClear, StopDelete, StopPublish, PauseEngine,
       MarkPaused, ResumeEngine, SeekLoad, BeginSeek, SeekEngine, SeekDone,
       VolumeStore, VolumeEngine, Refresh, Poll, ReadSnapshot, SendSnapshot, slotVars,
       PauseBegin, ResumeBegin, StopBegin, PollBegin, Enter

\* The session that a load draws gets the URL it was given, the others keep theirs.
LEMMA UrlWritten ==
    ASSUME TaskInv, NEW c, NEW u \in Urls, LoadUrl(c, u)
    PROVE  \E s \in Sessions \ used :
             used' = used \cup {s} /\ url' = [url EXCEPT ![s] = u]
BY DEF LoadUrl, LoadReserve

LEMMA UrlsKnown ==
    ASSUME TaskInv, NEW c, NEW u \in Urls, LoadUrl(c, u)
    PROVE  /\ url' \in [Sessions -> Urls \cup {None}]
           /\ \A s \in Sessions : url'[s] # None <=> s \in used'
           /\ \A s \in used : s \in used' /\ url'[s] = url[s]
<1> PICK s \in Sessions \ used : used' = used \cup {s} /\ url' = [url EXCEPT ![s] = u]
  BY UrlWritten
<1> QED BY StallAssumption DEF TaskInv

LEMMA TaskTyped ==
    ASSUME RowInv, TaskInv, [StallNext]_stallVars PROVE TaskInv'
<1> USE StallAssumption DEF TaskInv
<1>1. ASSUME NEW c \in Users, UserBegins(c) PROVE TaskInv'
  <2>1. CASE UNCHANGED <<used, url>>
    BY <1>1, <2>1 DEF UserBegins, LoadUrl, taskVars
  <2>2. CASE \E u \in Urls : LoadUrl(c, u)
    BY <1>1, <2>2, UrlsKnown DEF UserBegins, LoadUrl, taskVars
  <2> QED BY <1>1, <2>1, <2>2, UsedKept DEF UserBegins
<1>2. ASSUME NEW c \in Clients, CommandStep(c) PROVE TaskInv'
  BY <1>2, UsedKept DEF CommandStep, Engine, taskVars
<1>3. CASE Tick
  BY <1>3, UsedKept DEF Tick, TaskAt, vars, slotVars
<1>4. CASE CheckActive
  BY <1>4 DEF CheckActive, TaskAt, vars, slotVars
<1>5. CASE CheckStalled
  BY <1>5 DEF CheckStalled, TaskAt, vars, slotVars
<1>6. CASE ReadId
  BY <1>6 DEF ReadId, TaskAt, vars, slotVars, RowInv, TypeInv, TypeOK
<1>7. CASE ReadUrl
  BY <1>7 DEF ReadUrl, TaskAt, vars, slotVars, RowInv, StoredUsed
<1>8. CASE StopStalled
  BY <1>8, UsedKept DEF StopStalled, TaskAt, vars, slotVars
<1>9. CASE Recast
  <2>1. CASE UNCHANGED <<vars, url, errored, playing>>
    BY <1>9, <2>1 DEF Recast, TaskAt, vars, slotVars
  <2>2. CASE cast # None /\ LoadUrl(Task, cast)
    <3>1. cast \in Urls
      BY <2>2
    <3>2. /\ url' \in [Sessions -> Urls \cup {None}]
          /\ \A s \in Sessions : url'[s] # None <=> s \in used'
      BY <2>2, <3>1, UrlsKnown
    <3>3. UNCHANGED <<errored, playing>>
      BY <2>2 DEF LoadUrl
    <3>4. task' = "tick" /\ count' = 0 /\ cast' = None /\ target' = None
      BY <1>9 DEF Recast
    <3> QED BY <3>2, <3>3, <3>4
  <2> QED BY <1>9, <2>1, <2>2 DEF Recast
<1>10. CASE DownloadDies \/ PlayingChanges \/ UNCHANGED stallVars
  BY <1>10 DEF DownloadDies, PlayingChanges, stallVars, taskVars, vars, slotVars
<1> QED BY <1>1, <1>2, <1>3, <1>4, <1>5, <1>6, <1>7, <1>8, <1>9, <1>10
        DEF StallNext, TaskStep

\* The task casts a URL again only when somebody cast it before, and stops a
\* session for a stall only after three strikes in a row (main.rs), however the
\* users' commands come between its reads.
RecastsOnly ==
    /\ cast # None => \E s \in used : url[s] = cast
    /\ task \in {"read_id", "read_url", "stop", "recast"} => count = Strikes

\* The session manager with the stall task among its clients, however many
\* users there are: it is a session manager as before, of which the task asks
\* only what it may.
THEOREM StallTaskKeepsManager ==
    StallSpec => [](StallTypeOK /\ ManagerSafe /\ RecastsOnly) /\ LifecycleSpec
<1>1. ASSUME StallInit PROVE TaskInv
  <2>1. task = "tick" /\ count = 0 /\ target = None /\ cast = None
    BY <1>1 DEF StallInit
  <2>2. url = [s \in Sessions |-> None] /\ {errored, playing} \subseteq BOOLEAN
    BY <1>1 DEF StallInit
  <2>3. used = {}
    BY <1>1 DEF StallInit, Init
  <2>4. url \in [Sessions -> Urls \cup {None}] /\ \A s \in Sessions : url[s] = None
    BY <2>2
  <2>5. count \in 0 .. Strikes /\ count < Strikes
    BY <2>1, StallAssumption
  <2> QED BY <2>1, <2>2, <2>3, <2>4, <2>5 DEF TaskInv
<1>2. RowInv /\ TaskInv /\ [StallNext]_stallVars => TaskInv'
  BY TaskTyped
<1>3. ManagerSafe /\ TaskInv => StallTypeOK /\ RecastsOnly
  BY DEF ManagerSafe, TaskInv, StallTypeOK, RecastsOnly
<1> QED BY <1>1, <1>2, <1>3, StallIsManager, ManagerIsSafe, RowInvariant,
           ImplementsLifecycle, PTL DEF StallSpec
=============================================================================
