------------------------ MODULE PipelineWatchProofs -------------------------
(***************************************************************************)
(* is_playing follows the pipeline, for any kinds of pipeline and a bus of *)
(* any length.                                                             *)
(*                                                                         *)
(* What is_playing says is settled by the last message about the state     *)
(* that still waits on the bus: whatever the watch does before it reads    *)
(* that one, and whatever the flags are then, it sets is_playing to what   *)
(* the pipeline does.                                                      *)
(***************************************************************************)
EXTENDS PipelineWatch, TLAPS

StateChanges == {"paused", "playing"}

\* No message about the state waits on the bus.
NoNews == \A i \in 1 .. Len(bus) : bus[i].type \notin StateChanges

\* The last one that waits says type.
News(type) == \E i \in 1 .. Len(bus) :
    /\ bus[i].type = type
    /\ \A j \in i + 1 .. Len(bus) : bus[j].type \notin StateChanges

TypeInv ==
    /\ kind \in Kinds
    /\ gst \in {"Ready", "Paused", "Playing"}
    /\ target \in {"Paused", "Playing"}
    /\ bus \in Seq(Messages)
    /\ level \in Levels
    /\ autoPlay \in BOOLEAN /\ initial \in BOOLEAN /\ isPlaying \in BOOLEAN
    /\ told \in BOOLEAN /\ failed \in BOOLEAN

\* Without a fatal error none waits to be read.
FatalInv == ~failed => \A i \in 1 .. Len(bus) : bus[i].type # "fatal"

\* A pipeline that plays has said so, to a watch that has told it to pause
\* meanwhile, or that knows.
PlayingInv == gst = "Playing" /\ ~failed =>
    \/ News("playing")
    \/ NoNews /\ (isPlaying \/ target = "Paused")

\* A pipeline that does not play has said so, or has not started up.
PausedInv == gst # "Playing" /\ ~failed =>
    \/ gst = "Paused" /\ News("paused")
    \/ NoNews /\ (autoPlay \/ ~isPlaying)

Inv == TypeInv /\ FatalInv /\ PlayingInv /\ PausedInv

-----------------------------------------------------------------------------
LEMMA AppendBus ==
    ASSUME bus \in Seq(Messages), NEW m \in Messages, bus' = Append(bus, m)
    PROVE  /\ bus' \in Seq(Messages)
           /\ Len(bus') = Len(bus) + 1 /\ Len(bus) \in Nat
           /\ \A i \in 1 .. Len(bus) : bus'[i] = bus[i]
           /\ bus'[Len(bus) + 1] = m
OBVIOUS

LEMMA TailBus ==
    ASSUME bus \in Seq(Messages), bus # <<>>, bus' = Tail(bus)
    PROVE  /\ bus' \in Seq(Messages)
           /\ Len(bus') = Len(bus) - 1 /\ Len(bus) \in Nat \ {0}
           /\ \A i \in 1 .. Len(bus') : bus'[i] = bus[i + 1]
           /\ Head(bus) = bus[1] /\ Head(bus) \in Messages
OBVIOUS

\* A message that is posted: the last about the state, or not about it.
LEMMA PostedNews ==
    ASSUME bus \in Seq(Messages), NEW m \in Messages, bus' = Append(bus, m)
    PROVE  /\ m.type \in StateChanges => News(m.type)'
           /\ m.type \notin StateChanges =>
                /\ NoNews => NoNews'
                /\ \A type : News(type) => News(type)'
<1> USE AppendBus
<1>1. ASSUME m.type \in StateChanges PROVE News(m.type)'
  <2>1. \A j \in Len(bus') + 1 .. Len(bus') : bus'[j].type \notin StateChanges
    OBVIOUS
  <2> QED BY <2>1 DEF News
<1>2. ASSUME m.type \notin StateChanges, NoNews PROVE NoNews'
  BY <1>2 DEF NoNews
<1>3. ASSUME m.type \notin StateChanges, NEW type, News(type) PROVE News(type)'
  <2> PICK i \in 1 .. Len(bus) :
        /\ bus[i].type = type
        /\ \A j \in i + 1 .. Len(bus) : bus[j].type \notin StateChanges
    BY <1>3 DEF News
  <2>1. \A j \in i + 1 .. Len(bus') : bus'[j].type \notin StateChanges
    BY <1>3
  <2>2. i \in 1 .. Len(bus') /\ bus'[i].type = type
    OBVIOUS
  <2> QED BY <2>1, <2>2 DEF News
<1> QED BY <1>1, <1>2, <1>3

\* The message that the watch has read.
LEMMA ReadNews ==
    ASSUME bus \in Seq(Messages), bus # <<>>, bus' = Tail(bus)
    PROVE  /\ NoNews => NoNews' /\ Head(bus).type \notin StateChanges
           /\ \A type : News(type) =>
                \/ News(type)'
                \/ NoNews' /\ Head(bus).type = type
<1> USE TailBus
<1>1. ASSUME NoNews PROVE NoNews' /\ Head(bus).type \notin StateChanges
  BY <1>1 DEF NoNews
<1>2. ASSUME NEW type, News(type)
      PROVE  News(type)' \/ (NoNews' /\ Head(bus).type = type)
  <2> PICK i \in 1 .. Len(bus) :
        /\ bus[i].type = type
        /\ \A j \in i + 1 .. Len(bus) : bus[j].type \notin StateChanges
    BY <1>2 DEF News
  <2>1. CASE i = 1
    BY <2>1 DEF NoNews
  <2>2. CASE i > 1
    <3>1. i - 1 \in 1 .. Len(bus') /\ bus'[i - 1].type = type
      BY <2>2
    <3>2. \A j \in (i - 1) + 1 .. Len(bus') : bus'[j].type \notin StateChanges
      BY <2>2
    <3> QED BY <3>1, <3>2 DEF News
  <2> QED BY <2>1, <2>2
<1> QED BY <1>1, <1>2

LEMMA NewsApart ==
    ASSUME bus \in Seq(Messages)
    PROVE  ~(News("playing") /\ News("paused"))
           /\ \A type \in StateChanges : ~(News(type) /\ NoNews)
BY DEF News, NoNews, StateChanges

-----------------------------------------------------------------------------
LEMMA InvInit == Init => Inv
<1> SUFFICES ASSUME Init PROVE Inv
  OBVIOUS
<1>1. TypeInv
  <2>1. bus \in Seq(Messages) /\ kind \in Kinds /\ level \in Levels
    BY DEF Init, Levels
  <2>2. initial \in BOOLEAN
    BY DEF Init
  <2> QED BY <2>1, <2>2 DEF Init, TypeInv
<1>2. Len(bus) = 0
  BY DEF Init
<1> QED BY <1>1, <1>2 DEF Init, Inv, FatalInv, PlayingInv, PausedInv, NoNews

\* What the watch does with a message, apart from taking it from the bus.
Reaction(message) ==
    \/ message.type = "playing" /\ OnPlaying
    \/ message.type = "paused" /\ OnPaused
    \/ message.type = "fatal" /\ OnFatal
    \/ message.type = "buffering" /\ OnBuffering(message.level)

LEMMA HandleReaction ==
    ASSUME Inv, Handle
    PROVE  /\ Reaction(Head(bus)) /\ Calm /\ bus # <<>> /\ bus' = Tail(bus)
           /\ UNCHANGED <<kind, gst, level, failed>>
<1>1. Head(bus) \in Messages
  BY TailBus DEF Handle, Inv, TypeInv
<1>2. Head(bus).type \in {"playing", "paused", "fatal", "buffering"}
  BY <1>1 DEF Messages
<1> QED BY <1>2 DEF Handle, Reaction

\* A BUFFERING message: is_playing is cleared only together with autoPlay, and
\* for a pipeline that plays only together with a call to pause.
LEMMA BufferingEffect ==
    ASSUME TypeInv, NEW l \in Levels, OnBuffering(l), Calm
    PROVE  /\ target' \in {"Paused", "Playing"}
           /\ autoPlay' \in BOOLEAN /\ initial' \in BOOLEAN
           /\ isPlaying' \in BOOLEAN /\ told' \in BOOLEAN
           /\ (autoPlay \/ ~isPlaying) => (autoPlay' \/ ~isPlaying')
           /\ gst = "Playing" /\ isPlaying => isPlaying' \/ target' = "Paused"
<1> USE DEF TypeInv, flags
<1>1. CASE OnFull
  BY <1>1 DEF OnFull
<1>2. CASE OnLow(l)
  <2>1. /\ \/ isPlaying' = isPlaying /\ autoPlay' = autoPlay
           \/ isPlaying' = FALSE /\ autoPlay' = FALSE
        /\ target' = IF gst = "Playing" THEN "Paused" ELSE target
        /\ told' \in BOOLEAN /\ initial' = initial
    BY <1>2 DEF OnLow
  <2>2. CASE isPlaying' = isPlaying /\ autoPlay' = autoPlay
    BY <2>1, <2>2
  <2>3. CASE isPlaying' = FALSE /\ autoPlay' = FALSE
    BY <2>1, <2>3
  <2> QED BY <2>1, <2>2, <2>3
<1>3. CASE OnRecovering(l)
  BY <1>3 DEF OnRecovering
<1>4. CASE UNCHANGED flags /\ (target' = target \/ target' = "Playing")
  BY <1>4
<1>5. kind = "primary" =>
        \/ OnFull \/ OnLow(l) \/ OnRecovering(l)
        \/ UNCHANGED flags /\ target' = target
  BY DEF OnBuffering, Levels
<1>6. kind # "primary" => UNCHANGED flags /\ (target' = target \/ target' = "Playing")
  BY DEF OnBuffering
<1> QED BY <1>1, <1>2, <1>3, <1>4, <1>5, <1>6

LEMMA HandleStep ==
    ASSUME Inv, Handle
    PROVE  Inv'
<1>1. /\ Reaction(Head(bus)) /\ Calm /\ bus # <<>> /\ bus' = Tail(bus)
      /\ UNCHANGED <<kind, gst, level, failed>>
  BY HandleReaction
<1>2. bus \in Seq(Messages) /\ TypeInv /\ FatalInv /\ PlayingInv /\ PausedInv
  BY DEF Inv, TypeInv
<1>3. ~failed => Head(bus).type # "fatal"
  BY <1>1, <1>2, TailBus DEF FatalInv
<1>4. Head(bus).type = "buffering" => OnBuffering(Head(bus).level) /\ Head(bus).level \in Levels
  BY <1>1, <1>2, TailBus DEF Reaction, Messages
<1>5. TypeInv'
  <2>1. bus' \in Seq(Messages) /\ kind' \in Kinds /\ level' \in Levels
    BY <1>1, <1>2, TailBus DEF TypeInv
  <2>2. /\ target' \in {"Paused", "Playing"}
        /\ autoPlay' \in BOOLEAN /\ initial' \in BOOLEAN
        /\ isPlaying' \in BOOLEAN /\ told' \in BOOLEAN
    <3>1. CASE OnPlaying
      BY <1>2, <3>1 DEF TypeInv, OnPlaying
    <3>2. CASE OnPaused
      BY <1>2, <3>2 DEF TypeInv, OnPaused
    <3>3. CASE OnFatal
      BY <1>2, <3>3 DEF TypeInv, OnFatal
    <3>4. CASE Head(bus).type = "buffering"
      BY <1>1, <1>2, <1>4, <3>4, BufferingEffect
    <3> QED BY <1>1, <3>1, <3>2, <3>3, <3>4 DEF Reaction
  <2> QED BY <1>1, <1>2, <2>1, <2>2 DEF TypeInv
<1>6. FatalInv'
  BY <1>1, <1>2, TailBus DEF FatalInv
<1>7. PlayingInv'
  <2> SUFFICES ASSUME gst = "Playing", ~failed
               PROVE  (News("playing") \/ (NoNews /\ (isPlaying \/ target = "Paused")))'
    BY <1>1 DEF PlayingInv
  <2>1. CASE News("playing")
    <3>1. Head(bus).type = "playing" => isPlaying'
      BY <1>1 DEF Reaction, OnPlaying
    <3> QED BY <1>1, <1>2, <2>1, <3>1, ReadNews
  <2>2. CASE NoNews /\ isPlaying
    <3>1. NoNews' /\ Head(bus).type = "buffering"
      BY <1>1, <1>2, <1>3, <2>2, ReadNews DEF Reaction, StateChanges
    <3>2. isPlaying' \/ target' = "Paused"
      BY <1>1, <1>2, <1>4, <2>2, <3>1, BufferingEffect
    <3> QED BY <3>1, <3>2
  <2> QED BY <1>1, <1>2, <2>1, <2>2 DEF PlayingInv, Calm
<1>8. PausedInv'
  <2> SUFFICES ASSUME gst # "Playing", ~failed
               PROVE  \/ gst = "Paused" /\ News("paused")'
                      \/ NoNews' /\ (autoPlay' \/ ~isPlaying')
    BY <1>1 DEF PausedInv
  <2>1. CASE gst = "Paused" /\ News("paused")
    <3>1. Head(bus).type = "paused" => autoPlay' \/ ~isPlaying'
      BY <1>1 DEF Reaction, OnPaused
    <3> QED BY <1>1, <1>2, <2>1, <3>1, ReadNews
  <2>2. CASE NoNews /\ (autoPlay \/ ~isPlaying)
    <3>1. NoNews' /\ Head(bus).type = "buffering"
      BY <1>1, <1>2, <1>3, <2>2, ReadNews DEF Reaction, StateChanges
    <3>2. autoPlay' \/ ~isPlaying'
      BY <1>1, <1>2, <1>4, <2>2, <3>1, BufferingEffect
    <3> QED BY <3>1, <3>2
  <2> QED BY <1>1, <1>2, <2>1, <2>2 DEF PausedInv
<1> QED BY <1>5, <1>6, <1>7, <1>8 DEF Inv

\* A message that is not about the state is posted, or none is.
LEMMA QuietStep ==
    ASSUME Inv, TypeInv', UNCHANGED <<gst, isPlaying, autoPlay>>,
           target' = target \/ gst # "Playing" \/ target' = "Paused",
           failed => failed',
           \/ UNCHANGED bus
           \/ \E m \in Messages : /\ bus' = Append(bus, m)
                                  /\ m.type \notin StateChanges
                                  /\ m.type = "fatal" => failed'
    PROVE  Inv'
<1>1. bus \in Seq(Messages)
  BY DEF Inv, TypeInv
<1>2. (NoNews => NoNews') /\ (\A type : News(type) => News(type)')
  BY <1>1, PostedNews DEF NoNews, News
<1>3. FatalInv'
  <2>1. CASE UNCHANGED bus
    BY <2>1 DEF Inv, FatalInv
  <2>2. ASSUME NEW m \in Messages, bus' = Append(bus, m), m.type = "fatal" => failed'
        PROVE  FatalInv'
    BY <1>1, <2>2, AppendBus DEF Inv, FatalInv
  <2> QED BY <2>1, <2>2
<1>4. PlayingInv' /\ PausedInv'
  BY <1>2 DEF Inv, PlayingInv, PausedInv
<1> QED BY <1>3, <1>4 DEF Inv

LEMMA PostTyped ==
    /\ \A type \in {"paused", "playing", "fatal"} : [type |-> type] \in Messages
    /\ \A l \in Levels : [type |-> "buffering", level |-> l] \in Messages
BY DEF Messages

LEMMA ReachStep ==
    ASSUME Inv, Reach
    PROVE  Inv'
<1>1. /\ UNCHANGED <<kind, target, level, flags, failed>>
      /\ TypeInv /\ bus \in Seq(Messages) /\ PlayingInv /\ PausedInv
  BY DEF Reach, Inv, TypeInv
<1>2. ASSUME NEW type \in StateChanges, bus' = Append(bus, [type |-> type]),
             gst' = IF type = "playing" THEN "Playing" ELSE "Paused"
      PROVE  Inv'
  <2>1. [type |-> type] \in Messages /\ [type |-> type].type = type
    BY PostTyped DEF StateChanges
  <2>2. News(type)' /\ bus' \in Seq(Messages)
    BY <1>1, <1>2, <2>1, PostedNews, AppendBus
  <2>3. FatalInv'
    BY <1>1, <1>2, <2>1, AppendBus DEF Inv, FatalInv, StateChanges
  <2>4. TypeInv'
    BY <1>1, <1>2, <2>2 DEF TypeInv, flags
  <2>5. PlayingInv' /\ PausedInv'
    BY <1>2, <2>2 DEF PlayingInv, PausedInv, StateChanges
  <2> QED BY <2>3, <2>4, <2>5 DEF Inv
<1>3. CASE gst = "Ready" /\ gst' = "Paused" /\ UNCHANGED bus
  <2>1. TypeInv' /\ FatalInv' /\ NoNews' = NoNews
    BY <1>1, <1>3 DEF Inv, TypeInv, FatalInv, flags, NoNews
  <2>2. PlayingInv' /\ PausedInv'
    BY <1>1, <1>3, <2>1 DEF PlayingInv, PausedInv, flags
  <2> QED BY <2>1, <2>2 DEF Inv
<1>4. \/ gst = "Ready" /\ gst' = "Paused" /\ UNCHANGED bus
      \/ gst' = "Paused" /\ bus' = Append(bus, [type |-> "paused"])
      \/ gst' = "Playing" /\ bus' = Append(bus, [type |-> "playing"])
  BY DEF Reach, Post
<1> QED BY <1>2, <1>3, <1>4 DEF StateChanges

LEMMA InvStep == Inv /\ [Next]_vars => Inv'
<1> SUFFICES ASSUME Inv, [Next]_vars PROVE Inv'
  OBVIOUS
<1>0. bus \in Seq(Messages) /\ TypeInv
  BY DEF Inv, TypeInv
<1> USE DEF flags
<1>1. CASE Reach
  BY <1>1, ReachStep
<1>2. CASE Handle
  BY <1>2, HandleStep
<1>3. ASSUME NEW l \in Levels, PostLevel(l),
             UNCHANGED <<kind, gst, target, flags, failed>>
      PROVE  Inv'
  <2>1. LET m == [type |-> "buffering", level |-> l]
        IN  m \in Messages /\ m.type = "buffering" /\ bus' = Append(bus, m)
    BY <1>3, PostTyped DEF PostLevel
  <2>2. bus' \in Seq(Messages)
    BY <1>0, <2>1, AppendBus
  <2>3. TypeInv'
    BY <1>0, <1>3, <2>2 DEF TypeInv, PostLevel
  <2> QED BY <1>3, <2>1, <2>3, QuietStep DEF StateChanges
<1>4. CASE Fill \/ Drain
  BY <1>3, <1>4 DEF Fill, Drain
<1>5. CASE PostFatal
  <2>1. LET m == [type |-> "fatal"]
        IN  m \in Messages /\ m.type = "fatal" /\ bus' = Append(bus, m)
    BY <1>5, PostTyped DEF PostFatal, Post
  <2>2. bus' \in Seq(Messages)
    BY <1>0, <2>1, AppendBus
  <2>3. TypeInv'
    BY <1>0, <1>5, <2>2 DEF TypeInv, PostFatal
  <2> QED BY <1>5, <2>1, <2>3, QuietStep DEF StateChanges, PostFatal
<1>6. CASE DownloadDies \/ TimeoutPasses
  <2>1. TypeInv' /\ UNCHANGED <<kind, gst, target, bus, autoPlay, isPlaying, failed>>
    BY <1>0, <1>6 DEF TypeInv, DownloadDies, TimeoutPasses
  <2> QED BY <2>1, QuietStep
<1>7. CASE Pause \/ Resume \/ Diagnose
  <2>1. TypeInv'
    BY <1>0, <1>7 DEF TypeInv, Pause, Resume, Diagnose
  <2>2. target' = target \/ gst # "Playing" \/ target' = "Paused"
    BY <1>0, <1>7 DEF TypeInv, Pause, Resume, Diagnose, Calm
  <2>3. UNCHANGED <<gst, bus, autoPlay, isPlaying, failed>>
    BY <1>7 DEF Pause, Resume, Diagnose
  <2> QED BY <2>1, <2>2, <2>3, QuietStep
<1>8. CASE UNCHANGED vars
  <2>1. TypeInv' /\ UNCHANGED <<gst, target, bus, autoPlay, isPlaying, failed>>
    BY <1>0, <1>8 DEF TypeInv, vars
  <2> QED BY <2>1, QuietStep
<1> QED BY <1>1, <1>2, <1>4, <1>5, <1>6, <1>7, <1>8 DEF Next

\* Once the pipeline has started up and nothing is under way, is_playing says
\* whether it plays, whichever pauses, resumes and pauses for the buffer have
\* overtaken each other (start_bus_watch, GstPipeline::pause and resume).
THEOREM IsPlayingIsTrue == Spec => []IsPlayingTracks
<1>1. Inv => IsPlayingTracks
  <2> SUFFICES ASSUME Inv, bus = <<>>, gst = target, ~autoPlay, ~failed
               PROVE  isPlaying <=> gst = "Playing"
    BY DEF IsPlayingTracks, Settled
  <2>1. \A type : ~News(type)
    BY DEF News
  <2> QED BY <2>1 DEF Inv, PlayingInv, PausedInv
<1> QED BY <1>1, InvInit, InvStep, PTL DEF Spec
=============================================================================
