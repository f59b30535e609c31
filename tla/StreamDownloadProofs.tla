------------------------ MODULE StreamDownloadProofs ------------------------
(***************************************************************************)
(* Proofs about StreamDownload, for a file of any size in any segments,    *)
(* any capacity of the channel and any number of reconnections: the types, *)
(* the order of what is delivered, and that a short download is marked.    *)
(***************************************************************************)
EXTENDS StreamDownload, SequenceTheorems, TLAPS

Active == {"preflight", "request", "body", "send"}
Body == step \in {"body", "send"}

\* The end of the last segment that is finished.
Finished == IF part = 0 THEN 0 ELSE Ends[part]

\* StreamTypeOK by parts: the download task, the flags, the push thread.
TaskTypes ==
    /\ mode \in {"mp4", "hls"}
    /\ step \in {"preflight", "request", "body", "send", "done", "dropped"}
    /\ next \in 0 .. Size + 1 /\ last \in 0 .. Size
    /\ offset \in Nat
    /\ attempt \in 0 .. MaxReconnects + 1
    /\ part \in 0 .. Len(Ends)
    /\ expected \in 0 .. Size \cup {Unknown}

FlagTypes ==
    /\ honest \in BOOLEAN /\ hadError \in BOOLEAN /\ errored \in BOOLEAN
    /\ forbidden \in BOOLEAN /\ eos \in BOOLEAN /\ stopped \in BOOLEAN

ThreadTypes ==
    /\ channel \in Seq(Chunks) /\ Len(channel) <= Capacity
    /\ pusher \in {"recv", "push", "gone"}
    /\ hand \in Chunks
    /\ pushed \in Seq(Chunks)

\* What the task relies on: an attempt and a segment are left where a request
\* is made, and a body yields chunks up to its last.
Bounds ==
    /\ mode = "mp4" /\ step \in {"preflight", "request"} => attempt <= MaxReconnects
    /\ mode = "hls" /\ step \in Active => part < Len(Ends)
    /\ step = "send" => next <= last
    /\ Body => next <= last + 1
    /\ mode = "hls" /\ Body => last = Ends[part + 1] /\ Finished < next

TypeInv ==
    mode \in Modes /\ TaskTypes /\ FlagTypes /\ ThreadTypes /\ Bounds

\* The file from its first chunk, and after it only pages that say so.
InFile(seq) == \A j \in 1 .. Len(seq) : seq[j] = IF j <= Size THEN j ELSE 0

\* Nothing is sent before the preflight is over.
Fresh ==
    step = "preflight" => pushed = <<>> /\ channel = <<>> /\ pusher = "recv"

\* An MP4 whose CDN heeds the Range header: what was sent is the file up to
\* total_offset, where every body begins; a single request with no length is
\* complete because it came to its end.
Mp4Parts ==
    /\ InFile(Delivered)
    /\ pusher # "gone" => Len(Delivered) = offset
    /\ attempt = 0 => offset = 0
    /\ Body => attempt > 0
    /\ Body => \/ next = offset + 1 /\ last = Size
               \/ last = 0 /\ offset >= Size
    /\ expected \in {Size, Unknown} \/ (step = "done" /\ offset = 0)
    /\ step = "done" /\ ~errored => offset = 0 \/ offset >= Size

Mp4Inv == honest /\ mode = "mp4" => Mp4Parts

\* How far the segments have come.
Reached == IF Body THEN next - 1 ELSE Finished

\* HLS: the segments are sent one after the other, and without a gap unless an
\* error is noted.
HlsParts ==
    /\ \A j \in 1 .. Len(Delivered) : Delivered[j] > 0
    /\ step # "dropped" =>
          \A j \in 1 .. Len(Delivered) : Delivered[j] <= Reached
    /\ \A i, j \in 1 .. Len(Delivered) : i < j => Delivered[i] < Delivered[j]
    /\ pusher # "gone" /\ ~hadError =>
          /\ Len(Delivered) = Reached
          /\ \A j \in 1 .. Len(Delivered) : Delivered[j] = j
    /\ step = "done" /\ ~errored => ~hadError /\ part = Len(Ends)

HlsInv == mode = "hls" => HlsParts

Inv == TypeInv /\ Fresh /\ Mp4Inv /\ HlsInv

-----------------------------------------------------------------------------
(***************************************************************************)
(* The segments, and what is delivered.                                    *)
(***************************************************************************)
LEMMA EndsFacts ==
  /\ Size \in Nat \ {0}
  /\ Len(Ends) \in Nat \ {0}
  /\ \A i \in 1 .. Len(Ends) : Ends[i] \in 1 .. Size
  /\ \A i, j \in 1 .. Len(Ends) : i < j => Ends[i] < Ends[j]
  /\ Capacity \in Nat \ {0} /\ MaxReconnects \in Nat \ {0}
  /\ Unknown \notin 0 .. Size
  <1>1. Len(Ends) \in Nat \ {0} /\ \A i \in 1 .. Len(Ends) : Ends[i] \in Nat \ {0}
    BY StreamAssumption
  <1>2. Size \in Nat \ {0}
    BY <1>1 DEF Size
  <1>3. ASSUME NEW i \in 1 .. Len(Ends) PROVE Ends[i] \in 1 .. Size
    BY <1>1, <1>2, <1>3, StreamAssumption DEF Size
  <1> QED  BY <1>1, <1>2, <1>3, StreamAssumption

LEMMA DeliveredSeq ==
  ASSUME StreamTypeOK PROVE Delivered \in Seq(Chunks) /\ Len(Delivered) \in Nat
  BY DEF StreamTypeOK, Delivered

\* What is delivered before the channel.
Ahead == pushed \o (IF pusher = "push" THEN <<hand>> ELSE <<>>)

LEMMA DeliveredParts ==
  ASSUME StreamTypeOK
  PROVE  /\ pushed \in Seq(Chunks) /\ hand \in Chunks /\ <<hand>> \in Seq(Chunks)
         /\ channel \in Seq(Chunks) /\ Ahead \in Seq(Chunks)
         /\ pusher = "push" => Ahead = pushed \o <<hand>>
         /\ pusher # "push" => Ahead = pushed
  <1>1. /\ pushed \in Seq(Chunks) /\ hand \in Chunks /\ <<hand>> \in Seq(Chunks)
        /\ channel \in Seq(Chunks)
    BY DEF StreamTypeOK
  <1>2. pushed \o <<hand>> \in Seq(Chunks) /\ pushed \o <<>> = pushed
    BY <1>1, ConcatProperties, ConcatEmptySeq
  <1> QED  BY <1>1, <1>2 DEF Ahead

LEMMA SendDelivers ==
  ASSUME StreamTypeOK, next \in Chunks, channel' = Append(channel, next),
         UNCHANGED <<pushed, pusher, hand>>
  PROVE  Delivered' = Append(Delivered, next)
  <1>1. /\ pushed \in Seq(Chunks) /\ channel \in Seq(Chunks)
        /\ Ahead \in Seq(Chunks) /\ Delivered = Ahead \o channel
        /\ <<next>> \in Seq(Chunks)
    BY DeliveredParts DEF Ahead, Delivered
  <1>2. Append(channel, next) = channel \o <<next>>
    BY <1>1, AppendIsConcat
  <1>3. Append(Ahead \o channel, next) = (Ahead \o channel) \o <<next>>
    BY <1>1, AppendIsConcat, ConcatProperties
  <1>4. (Ahead \o channel) \o <<next>> = Ahead \o (channel \o <<next>>)
    BY <1>1, ConcatAssociative
  <1>5. Delivered' = Ahead \o Append(channel, next)
    BY DEF Ahead, Delivered
  <1> QED  BY <1>1, <1>2, <1>3, <1>4, <1>5

LEMMA ReceiveDelivers == ASSUME StreamTypeOK, Receive PROVE Delivered' = Delivered
  <1>1. CASE channel # <<>>
    <2>1. channel = <<Head(channel)>> \o Tail(channel)
      <3>1. Len(channel) \in Nat \ {0}
        BY <1>1, DeliveredParts, EmptySeq
      <3>2. SubSeq(channel, 1, Len(channel))
              = <<channel[1]>> \o SubSeq(channel, 2, Len(channel))
        BY <3>1, DeliveredParts, SubSeqRecursiveFirst
      <3>3. SubSeq(channel, 1, Len(channel)) = channel
        BY DeliveredParts, SubSeqFull
      <3>4. Tail(channel) = SubSeq(channel, 2, Len(channel))
        BY <1>1, DeliveredParts, TailIsSubSeq
      <3> QED  BY <3>2, <3>3, <3>4
    <2>2. Delivered' = (pushed \o <<Head(channel)>>) \o Tail(channel)
      BY <1>1 DEF Receive, Delivered
    <2>3. Delivered = pushed \o channel
      BY DeliveredParts DEF Receive, Ahead, Delivered
    <2>4. (pushed \o <<Head(channel)>>) \o Tail(channel)
            = pushed \o (<<Head(channel)>> \o Tail(channel))
      <3>1. <<Head(channel)>> \in Seq(Chunks) /\ Tail(channel) \in Seq(Chunks)
        BY <1>1, DeliveredParts, HeadTailProperties
      <3> QED  BY <3>1, DeliveredParts, ConcatAssociative
    <2> QED  BY <2>1, <2>2, <2>3, <2>4
  <1>2. CASE channel = <<>>
    BY <1>2 DEF StreamTypeOK, Receive, Delivered
  <1> QED  BY <1>1, <1>2

LEMMA PushDelivers == ASSUME StreamTypeOK, Push PROVE Delivered' = Delivered
  <1>1. Delivered = (pushed \o <<hand>>) \o channel
    BY DEF Push, Delivered
  <1>2. Delivered' = (Append(pushed, hand) \o <<>>) \o channel
    BY DEF Push, Delivered
  <1>3. Append(pushed, hand) = pushed \o <<hand>>
    BY DeliveredParts, AppendIsConcat
  <1>4. (pushed \o <<hand>>) \o <<>> = pushed \o <<hand>>
    BY DeliveredParts, ConcatEmptySeq, ConcatProperties
  <1> QED  BY <1>1, <1>2, <1>3, <1>4

\* What is in hand and in the channel is lost when the thread leaves.
LEMMA LeaveDelivers ==
  ASSUME StreamTypeOK, Leave
  PROVE  /\ Delivered' \in Seq(Chunks) /\ Len(Delivered') <= Len(Delivered)
         /\ \A j \in 1 .. Len(Delivered') : Delivered'[j] = Delivered[j]
  <1>1. pushed \in Seq(Chunks) /\ hand \in Chunks /\ channel \in Seq(Chunks)
    BY DEF StreamTypeOK
  <1>2. Delivered = (pushed \o <<hand>>) \o channel
    BY DEF Leave, Delivered
  <1>3. Delivered' = pushed
    BY <1>1 DEF Leave, Delivered
  <1> QED  BY <1>1, <1>2, <1>3

-----------------------------------------------------------------------------
(***************************************************************************)
(* The types.                                                              *)
(***************************************************************************)
LEMMA TypeInvParts == TypeInv <=> StreamTypeOK /\ Bounds
  <1>1. TypeInv => StreamTypeOK
    BY DEF TypeInv, TaskTypes, FlagTypes, ThreadTypes, StreamTypeOK, Chunks
  <1>2. StreamTypeOK => mode \in Modes /\ TaskTypes
    BY StreamAssumption DEF TaskTypes, StreamTypeOK, Chunks
  <1>3. StreamTypeOK => FlagTypes
    BY DEF FlagTypes, StreamTypeOK
  <1>4. StreamTypeOK => ThreadTypes
    BY DEF ThreadTypes, StreamTypeOK
  <1> QED  BY <1>1, <1>2, <1>3, <1>4 DEF TypeInv

LEMMA TypeInit == Init => TypeInv
  <1> SUFFICES ASSUME Init PROVE TypeInv
    OBVIOUS
  <1> USE DEF Init
  <1>1. mode \in Modes /\ TaskTypes
    BY EndsFacts, StreamAssumption DEF TaskTypes
  <1>2. FlagTypes
    BY DEF FlagTypes
  <1>3. ThreadTypes
    BY EndsFacts, EmptySeq DEF ThreadTypes, Chunks
  <1>4. Bounds
    BY EndsFacts DEF Bounds, Active, Body
  <1> QED  BY <1>1, <1>2, <1>3, <1>4 DEF TypeInv

LEMMA TypeStep == ASSUME TypeInv, [Next]_vars PROVE TypeInv'
  <1> USE EndsFacts DEF TypeInv, setting, bodyVars, counters, progress, pushVars
  <1>1. CASE Preflight
    <2> USE <1>1 DEF Preflight, PreflightMp4, PreflightHls
    <2>1. (mode \in Modes)' /\ TaskTypes'
      BY DEF TaskTypes
    <2>2. FlagTypes'
      BY DEF FlagTypes
    <2>3. ThreadTypes'
      BY DEF ThreadTypes, Chunks
    <2>4. Bounds'
      BY DEF TaskTypes, Bounds, Active, Body, Finished
    <2> QED  BY <2>1, <2>2, <2>3, <2>4
  <1>2. CASE PreflightFails
    <2> USE <1>2 DEF PreflightFails
    <2>1. (mode \in Modes)' /\ TaskTypes'
      BY DEF TaskTypes
    <2>2. FlagTypes'
      BY DEF FlagTypes
    <2>3. ThreadTypes'
      BY DEF ThreadTypes, Chunks
    <2>4. Bounds'
      BY DEF TaskTypes, Bounds, Active, Body, Finished
    <2> QED  BY <2>1, <2>2, <2>3, <2>4
  <1>3. CASE Mp4Request
    <2> USE <1>3 DEF Mp4Request, Resumed, Learn, Answered, Reconnect, Finish
    <2>1. (mode \in Modes)' /\ TaskTypes'
      BY DEF TaskTypes, Finished, Bounds, Active, Body
    <2>2. FlagTypes'
      BY DEF FlagTypes
    <2>3. ThreadTypes'
      BY DEF ThreadTypes, Chunks
    <2>4. Bounds'
      BY DEF TaskTypes, Bounds, Active, Body, Finished
    <2> QED  BY <2>1, <2>2, <2>3, <2>4
  <1>4. CASE HlsRequest
    <2> USE <1>4 DEF HlsRequest, Answered, Finish, Drop
    <2>1. (mode \in Modes)' /\ TaskTypes'
      BY DEF TaskTypes, Finished, Bounds, Active, Body
    <2>2. FlagTypes'
      BY DEF FlagTypes
    <2>3. ThreadTypes'
      BY DEF ThreadTypes, Chunks
    <2>4. Bounds'
      BY DEF TaskTypes, Bounds, Active, Body, Finished
    <2> QED  BY <2>1, <2>2, <2>3, <2>4
  <1>5. CASE Chunk
    <2> USE <1>5 DEF Chunk, Drop
    <2>1. (mode \in Modes)' /\ TaskTypes'
      BY DEF TaskTypes
    <2>2. FlagTypes'
      BY DEF FlagTypes
    <2>3. ThreadTypes'
      BY DEF ThreadTypes, Chunks
    <2>4. Bounds'
      BY DEF TaskTypes, Bounds, Active, Body, Finished
    <2> QED  BY <2>1, <2>2, <2>3, <2>4
  <1>6. CASE Send
    <2> USE <1>6 DEF Send, Drop
    <2>1. (mode \in Modes)' /\ TaskTypes'
      BY DEF TaskTypes, Finished, Bounds, Active, Body
    <2>2. FlagTypes'
      BY DEF FlagTypes
    <2>3. ThreadTypes'
      <3>1. step = "send" /\ next \in Chunks
        BY DEF TaskTypes, Bounds, Chunks
      <3> QED  BY <3>1, AppendProperties DEF ThreadTypes
    <2>4. Bounds'
      BY DEF TaskTypes, Bounds, Active, Body, Finished
    <2> QED  BY <2>1, <2>2, <2>3, <2>4
  <1>7. CASE BodyEnds
    <2> USE <1>7 DEF BodyEnds, HlsNext, Finish
    <2>1. (mode \in Modes)' /\ TaskTypes'
      BY DEF TaskTypes, Finished, Bounds, Active, Body
    <2>2. FlagTypes'
      BY DEF FlagTypes
    <2>3. ThreadTypes'
      BY DEF ThreadTypes, Chunks
    <2>4. Bounds'
      BY DEF TaskTypes, Bounds, Active, Body, Finished
    <2> QED  BY <2>1, <2>2, <2>3, <2>4
  <1>8. CASE BodyFails
    <2> USE <1>8 DEF BodyFails, HlsNext, Finish, Drop, Reconnect
    <2>1. (mode \in Modes)' /\ TaskTypes'
      BY DEF TaskTypes, Finished, Bounds, Active, Body
    <2>2. FlagTypes'
      BY DEF FlagTypes
    <2>3. ThreadTypes'
      BY DEF ThreadTypes, Chunks
    <2>4. Bounds'
      BY DEF TaskTypes, Bounds, Active, Body, Finished
    <2> QED  BY <2>1, <2>2, <2>3, <2>4
  <1>9. CASE Receive
    <2> USE <1>9 DEF Receive
    <2>1. (mode \in Modes)' /\ TaskTypes'
      BY DEF TaskTypes
    <2>2. FlagTypes'
      BY DEF FlagTypes
    <2>3. ThreadTypes'
      <3>1. channel # <<>> => /\ Head(channel) \in Chunks
                              /\ Tail(channel) \in Seq(Chunks)
                              /\ Len(Tail(channel)) = Len(channel) - 1
        BY HeadTailProperties DEF ThreadTypes
      <3>2. Len(channel) \in Nat /\ Capacity \in Nat
        BY LenProperties DEF ThreadTypes
      <3>3. channel' \in Seq(Chunks) /\ Len(channel') <= Capacity
        BY <3>1, <3>2 DEF ThreadTypes
      <3>4. hand' \in Chunks /\ pusher' \in {"push", "gone"} /\ pushed' = pushed
        BY <3>1 DEF ThreadTypes
      <3> QED  BY <3>3, <3>4 DEF ThreadTypes
    <2>4. Bounds'
      BY DEF TaskTypes, Bounds, Active, Body, Finished
    <2> QED  BY <2>1, <2>2, <2>3, <2>4
  <1>10. CASE Push
    <2> USE <1>10 DEF Push
    <2>1. (mode \in Modes)' /\ TaskTypes'
      BY DEF TaskTypes
    <2>2. FlagTypes'
      BY DEF FlagTypes
    <2>3. ThreadTypes'
      BY DEF ThreadTypes, Chunks
    <2>4. Bounds'
      BY DEF TaskTypes, Bounds, Active, Body, Finished
    <2> QED  BY <2>1, <2>2, <2>3, <2>4
  <1>11. CASE Leave
    <2> USE <1>11 DEF Leave
    <2>1. (mode \in Modes)' /\ TaskTypes'
      BY DEF TaskTypes
    <2>2. FlagTypes'
      BY DEF FlagTypes
    <2>3. ThreadTypes'
      BY DEF ThreadTypes, Chunks
    <2>4. Bounds'
      BY DEF TaskTypes, Bounds, Active, Body, Finished
    <2> QED  BY <2>1, <2>2, <2>3, <2>4
  <1>12. CASE Stop
    <2> USE <1>12 DEF Stop
    <2>1. (mode \in Modes)' /\ TaskTypes'
      BY DEF TaskTypes
    <2>2. FlagTypes'
      BY DEF FlagTypes
    <2>3. ThreadTypes'
      BY DEF ThreadTypes, Chunks
    <2>4. Bounds'
      BY DEF TaskTypes, Bounds, Active, Body, Finished
    <2> QED  BY <2>1, <2>2, <2>3, <2>4
  <1>13. CASE UNCHANGED vars
    <2> USE <1>13 DEF vars
    <2>1. (mode \in Modes)' /\ TaskTypes'
      BY DEF TaskTypes
    <2>2. FlagTypes'
      BY DEF FlagTypes
    <2>3. ThreadTypes'
      BY DEF ThreadTypes, Chunks
    <2>4. Bounds'
      BY DEF TaskTypes, Bounds, Active, Body, Finished
    <2> QED  BY <2>1, <2>2, <2>3, <2>4
  <1> QED
    BY <1>1, <1>2, <1>3, <1>4, <1>5, <1>6, <1>7, <1>8, <1>9, <1>10, <1>11,
       <1>12, <1>13 DEF Next, Download

LEMMA FreshStep == ASSUME TypeInv, Fresh, [Next]_vars PROVE Fresh'
  BY DEF TypeInv, TaskTypes, Fresh, Next, Download, Preflight, PreflightFails,
     Mp4Request, HlsRequest, Chunk, Send, BodyEnds, BodyFails, Receive, Push,
     Leave, Stop, Answered, Reconnect, Finish, Drop, HlsNext, ChannelOpen,
     setting, bodyVars, counters, progress, pushVars, vars

\* What a step does to what is delivered.
LEMMA DeliveredStep ==
  ASSUME TypeInv, Fresh, [Next]_vars
  PROVE  \/ Delivered' = Delivered
         \/ Send /\ pusher # "gone" /\ Delivered' = Append(Delivered, next)
         \/ Leave
  <1> USE TypeInvParts DEF setting, bodyVars, counters, progress, pushVars
  <1>1. CASE PreflightFails
    BY <1>1 DEF PreflightFails, Fresh, Delivered
  <1>2. CASE Send
    <2>1. next \in Chunks
      BY <1>2, EndsFacts DEF Send, TypeInv, TaskTypes, Bounds, Chunks
    <2> QED  BY <1>2, <2>1, SendDelivers DEF Send, Delivered
  <1>3. CASE Receive
    BY <1>3, ReceiveDelivers
  <1>4. CASE Push
    BY <1>4, PushDelivers
  <1>5. CASE UNCHANGED <<channel, pushVars>>
    BY <1>5 DEF Delivered
  <1>6. Preflight \/ Mp4Request \/ HlsRequest \/ Chunk \/ BodyEnds \/ BodyFails
          \/ Stop \/ UNCHANGED vars
        => UNCHANGED <<channel, pushVars>>
    BY DEF Preflight, Mp4Request, HlsRequest, Chunk, BodyEnds, BodyFails, Stop, vars
  <1> QED  BY <1>1, <1>2, <1>3, <1>4, <1>5, <1>6 DEF Next, Download

-----------------------------------------------------------------------------
(***************************************************************************)
(* The invariant of an MP4.                                                *)
(***************************************************************************)
LEMMA Mp4Step == ASSUME Inv, [Next]_vars PROVE Mp4Inv'
  <1> USE DEF setting, bodyVars, counters, progress, pushVars
  <1> SUFFICES ASSUME honest', mode' = "mp4" PROVE Mp4Parts'
    BY DEF Mp4Inv
  <1>0. honest /\ mode = "mp4" /\ Mp4Parts
    BY DEF Inv, Mp4Inv, Next, Download, Preflight, PreflightFails, Mp4Request,
       HlsRequest, Chunk, Send, BodyEnds, BodyFails, Receive, Push, Leave, Stop,
       vars
  <1>1. CASE Preflight
    <2>1. Delivered' = Delivered
      BY <1>1, DeliveredStep DEF Inv, Preflight, Send, Leave
    <2> QED
      BY <1>0, <1>1, <2>1, EndsFacts
      DEF Inv, TypeInv, TaskTypes, Bounds, Mp4Parts, InFile, Body,
          Preflight, PreflightMp4
  <1>2. CASE PreflightFails
    <2>1. Delivered' = Delivered
      BY <1>2, DeliveredStep DEF Inv, PreflightFails, Send, Leave
    <2> QED
      BY <1>0, <1>2, <2>1, EndsFacts
      DEF Inv, TypeInv, TaskTypes, Bounds, Mp4Parts, InFile, Body,
          PreflightFails
  <1>3. CASE Mp4Request
    <2>1. Delivered' = Delivered
      BY <1>3, DeliveredStep DEF Inv, Mp4Request, Send, Leave
    <2>2. InFile(Delivered)' /\ (pusher' # "gone" => Len(Delivered)' = offset')
      BY <1>0, <1>3, <2>1 DEF Mp4Request, Mp4Parts, InFile
    <2>3. /\ offset' = offset /\ attempt' = attempt + 1
          /\ offset \in Nat /\ attempt \in Nat /\ attempt <= MaxReconnects
          /\ expected \in {Size, Unknown} /\ (attempt = 0 => offset = 0)
      BY <1>0, <1>3 DEF Inv, TypeInv, TaskTypes, Bounds, Mp4Parts, Mp4Request
    <2> USE EndsFacts DEF Mp4Parts, Body, Answered, Learn, Resumed
    <2>4. CASE Resumed <= Size /\ Learn(Size) /\ Answered(Resumed, Size)
      BY <2>2, <2>3, <2>4
    <2>5. CASE Resumed > Size /\ Learn(1) /\ Answered(0, 0)
      BY <2>2, <2>3, <2>5
    <2>6. CASE /\ \E length \in {0, 1} : Learn(length)
               /\ Finish /\ UNCHANGED bodyVars
      <3>1. step' = "done" /\ (~errored' => Complete)
        BY <2>6 DEF Finish
      <3>2. expected' \in {Size, Unknown} \/ offset = 0
        BY <2>3, <2>6
      <3>3. ~errored' => offset = 0 \/ offset >= Size
        BY <1>0, <2>3, <3>1, <3>2 DEF Complete
      <3> QED  BY <2>2, <2>3, <3>1, <3>2, <3>3
    <2>7. CASE UNCHANGED <<bodyVars, expected>> /\ Reconnect
      <3>1. CASE step' = "request"
        BY <2>2, <2>3, <2>7, <3>1
      <3>2. CASE Finish /\ ~(offset > 0 /\ attempt' <= MaxReconnects)
        <4>1. step' = "done" /\ (~errored' => Complete)
          BY <3>2 DEF Finish
        <4>2. ~errored' => offset = 0 \/ offset >= Size
          BY <1>0, <2>3, <2>7, <3>2, <4>1 DEF Complete
        <4> QED  BY <2>2, <2>3, <2>7, <4>1, <4>2
      <3> QED  BY <2>7, <3>1, <3>2 DEF Reconnect
    <2> QED  BY <1>0, <1>3, <2>4, <2>5, <2>6, <2>7 DEF Mp4Request
  <1>4. CASE HlsRequest
    BY <1>0, <1>4 DEF HlsRequest
  <1>5. CASE Chunk
    <2>1. Delivered' = Delivered
      BY <1>5, DeliveredStep DEF Inv, Chunk, Send, Leave
    <2> QED
      BY <1>0, <1>5, <2>1, EndsFacts
      DEF Inv, TypeInv, TaskTypes, Bounds, Mp4Parts, InFile, Body,
          Chunk, Drop
  <1>6. CASE Send
    <2>1. Delivered \in Seq(Chunks) /\ next \in Chunks
      BY <1>6, EndsFacts, DeliveredSeq, TypeInvParts
      DEF Inv, TypeInv, TaskTypes, Bounds, Send, Chunks
    <2>2. CASE pusher = "gone"
      <3>1. Delivered' = Delivered
        BY <1>6, <2>2, DeliveredStep DEF Inv, Send, Leave
      <3> QED
        BY <1>0, <1>6, <2>2, <3>1 DEF Mp4Parts, InFile, Body, Send, Drop
    <2>3. CASE pusher # "gone"
      <3>1. Delivered' = Append(Delivered, next)
        BY <1>6, <2>3, DeliveredStep, DeliveredSeq DEF Inv, Send, Leave, Delivered
      <3>2. /\ Len(Delivered') = offset + 1 /\ Delivered'[offset + 1] = next
            /\ \A j \in 1 .. offset : Delivered'[j] = Delivered[j]
        BY <1>0, <2>1, <2>3, <3>1, AppendProperties DEF Mp4Parts
      <3>3. /\ offset \in Nat /\ next <= last /\ next' = next + 1
            /\ last' = last /\ step' = "body" /\ offset' = offset + 1
            /\ attempt' = attempt /\ attempt \in Nat /\ expected' = expected
        BY <1>6, <2>3 DEF Inv, TypeInv, TaskTypes, Bounds, Send
      <3>4. \/ next = offset + 1 /\ last = Size
            \/ last = 0 /\ next = 0 /\ offset >= Size
        <4>1. \/ next = offset + 1 /\ last = Size
              \/ last = 0 /\ offset >= Size
          <5>1. Body
            BY <1>6 DEF Body, Send
          <5> QED  BY <1>0, <5>1 DEF Mp4Parts
        <4> QED  BY <2>1, <3>3, <4>1, EndsFacts DEF Chunks
      <3>5. InFile(Delivered)'
        <4>1. \A j \in 1 .. offset : Delivered[j] = IF j <= Size THEN j ELSE 0
          BY <1>0, <2>3 DEF Mp4Parts, InFile
        <4>2. next = IF offset + 1 <= Size THEN offset + 1 ELSE 0
          BY <3>3, <3>4, EndsFacts
        <4> QED  BY <3>2, <3>3, <4>1, <4>2 DEF InFile
      <3> QED
        BY <1>0, <1>6, <2>3, <3>2, <3>3, <3>4, <3>5, EndsFacts
        DEF Mp4Parts, Body, Send
    <2> QED  BY <2>2, <2>3
  <1>7. CASE BodyEnds
    <2>1. Delivered' = Delivered
      BY <1>7, DeliveredStep DEF Inv, BodyEnds, Send, Leave
    <2> QED
      BY <1>0, <1>7, <2>1, EndsFacts
      DEF Inv, TypeInv, TaskTypes, Bounds, Mp4Parts, InFile, Body,
          BodyEnds, HlsNext, Finish, Complete
  <1>8. CASE BodyFails
    <2>1. Delivered' = Delivered
      BY <1>8, DeliveredStep DEF Inv, BodyFails, Send, Leave
    <2>2. InFile(Delivered)' /\ (pusher' # "gone" => Len(Delivered)' = offset')
      BY <1>0, <1>8, <2>1 DEF BodyFails, Mp4Parts, InFile
    <2>3. /\ offset' = offset /\ attempt' = attempt /\ expected' = expected
          /\ bodyVars' = bodyVars /\ step = "body"
          /\ offset \in Nat /\ attempt \in Nat \ {0}
          /\ expected \in {Size, Unknown} /\ (Drop \/ Reconnect)
      BY <1>0, <1>8 DEF Inv, TypeInv, TaskTypes, Mp4Parts, Body, BodyFails
    <2> USE EndsFacts DEF Mp4Parts, Body
    <2>4. CASE step' = "request" \/ Drop
      BY <1>0, <2>2, <2>3, <2>4 DEF Drop
    <2>5. CASE Finish /\ ~(offset > 0 /\ attempt' <= MaxReconnects)
      <3>1. step' = "done" /\ (~errored' => Complete)
        BY <2>5 DEF Finish
      <3>2. ~errored' => offset = 0 \/ offset >= Size
        BY <1>0, <2>3, <2>5, <3>1 DEF Complete
      <3> QED  BY <1>0, <2>2, <2>3, <3>1, <3>2
    <2> QED  BY <2>3, <2>4, <2>5 DEF Reconnect
  <1>9. CASE Receive
    <2>1. Delivered' = Delivered
      BY <1>9, DeliveredStep DEF Inv, Receive, Send, Leave
    <2> QED
      BY <1>0, <1>9, <2>1, EndsFacts
      DEF Inv, TypeInv, TaskTypes, Bounds, Mp4Parts, InFile, Body,
          Receive
  <1>10. CASE Push
    <2>1. Delivered' = Delivered
      BY <1>10, DeliveredStep DEF Inv, Push, Send, Leave
    <2> QED
      BY <1>0, <1>10, <2>1, EndsFacts
      DEF Inv, TypeInv, TaskTypes, Bounds, Mp4Parts, InFile, Body,
          Push
  <1>11. CASE Leave
    <2>1. /\ Len(Delivered') <= Len(Delivered) /\ Len(Delivered') \in Nat
          /\ Len(Delivered) \in Nat
          /\ \A j \in 1 .. Len(Delivered') : Delivered'[j] = Delivered[j]
      BY <1>11, LeaveDelivers, DeliveredSeq, TypeInvParts DEF Inv
    <2>2. InFile(Delivered)'
      BY <1>0, <2>1 DEF Mp4Parts, InFile
    <2> QED  BY <1>0, <1>11, <2>2 DEF Mp4Parts, Body, Leave
  <1>12. CASE Stop
    <2>1. Delivered' = Delivered
      BY <1>12, DeliveredStep DEF Inv, Stop, Send, Leave
    <2> QED
      BY <1>0, <1>12, <2>1, EndsFacts
      DEF Inv, TypeInv, TaskTypes, Bounds, Mp4Parts, InFile, Body,
          Stop
  <1>13. CASE UNCHANGED vars
    <2>1. Delivered' = Delivered
      BY <1>13, DeliveredStep DEF Inv, vars, Send, Leave
    <2> QED
      BY <1>0, <1>13, <2>1, EndsFacts
      DEF Inv, TypeInv, TaskTypes, Bounds, Mp4Parts, InFile, Body,
          vars
  <1> QED
    BY <1>1, <1>2, <1>3, <1>4, <1>5, <1>6, <1>7, <1>8, <1>9, <1>10, <1>11,
       <1>12, <1>13 DEF Inv, Next, Download

-----------------------------------------------------------------------------
(***************************************************************************)
(* The invariant of an HLS stream.                                         *)
(***************************************************************************)
LEMMA HlsStep == ASSUME Inv, [Next]_vars PROVE HlsInv'
  <1> USE DEF setting, bodyVars, counters, progress, pushVars
  <1> SUFFICES ASSUME mode' = "hls" PROVE HlsParts'
    BY DEF HlsInv
  <1>0. mode = "hls" /\ HlsParts /\ TypeInv /\ Fresh
    BY DEF Inv, HlsInv, Next, Download, Preflight, PreflightFails, Mp4Request,
       HlsRequest, Chunk, Send, BodyEnds, BodyFails, Receive, Push, Leave, Stop,
       vars
  <1>1. /\ Delivered \in Seq(Chunks) /\ Len(Delivered) \in Nat
        /\ next \in Nat /\ last \in Nat /\ part \in 0 .. Len(Ends)
        /\ Finished \in Nat
    BY <1>0, EndsFacts, DeliveredSeq, TypeInvParts DEF TypeInv, TaskTypes, Finished
  <1>a. \A j \in 1 .. Len(Delivered) : Delivered[j] \in Nat
    BY <1>1, ElementOfSeq, EndsFacts DEF Chunks
  <1>2. CASE Mp4Request
    BY <1>0, <1>2 DEF Mp4Request
  <1>3. CASE Preflight
    <2>1. Delivered' = Delivered
      BY <1>0, <1>3, DeliveredStep DEF Preflight, Send, Leave
    <2> QED
      BY <1>0, <1>1, <1>3, <2>1, EndsFacts
      DEF TypeInv, TaskTypes, Bounds, HlsParts, Reached, Finished, Body, Active,
          Preflight
  <1>4. CASE PreflightFails
    <2>1. Delivered' = Delivered
      BY <1>0, <1>4, DeliveredStep DEF PreflightFails, Send, Leave
    <2> QED
      BY <1>0, <1>1, <1>4, <2>1, EndsFacts
      DEF TypeInv, TaskTypes, Bounds, HlsParts, Reached, Finished, Body, Active,
          PreflightFails
  <1>5. CASE HlsRequest
    <2>1. Delivered' = Delivered
      BY <1>0, <1>5, DeliveredStep DEF HlsRequest, Send, Leave
    <2>2. /\ part' = part /\ pusher' = pusher /\ Finished' = Finished
          /\ Reached = Finished /\ step = "request"
      BY <1>5 DEF HlsRequest, Reached, Finished, Body
    <2>3. CASE Drop /\ pusher = "gone"
      BY <1>0, <2>1, <2>2, <2>3 DEF HlsParts, Drop
    <2>4. CASE next' = Finished + 1 /\ step' = "body" /\ hadError' = hadError
      <3>1. Reached' = Finished
        BY <1>1, <2>4 DEF Reached, Body
      <3> QED  BY <1>0, <2>1, <2>2, <2>4, <3>1 DEF HlsParts
    <2>5. CASE hadError' = TRUE /\ Finish
      <3>1. step' = "done" /\ errored'
        BY <1>0, <2>5 DEF Finish, Complete, HlsRequest
      <3>2. Reached' = Finished
        BY <2>2, <3>1 DEF Reached, Body
      <3> QED  BY <1>0, <2>1, <2>2, <2>5, <3>1, <3>2 DEF HlsParts
    <2>6. next' = (IF part = 0 THEN 1 ELSE Ends[part] + 1) => next' = Finished + 1
      BY DEF Finished
    <2>7. \/ pusher = "gone" /\ Drop
          \/ /\ next' = IF part = 0 THEN 1 ELSE Ends[part] + 1
             /\ step' = "body" /\ hadError' = hadError
          \/ hadError' = TRUE /\ Finish
      BY <1>5 DEF HlsRequest, Answered
    <2> QED  BY <2>3, <2>4, <2>5, <2>6, <2>7
  <1>6. CASE Chunk
    <2>1. Delivered' = Delivered
      BY <1>0, <1>6, DeliveredStep DEF Chunk, Send, Leave
    <2> QED
      BY <1>0, <1>1, <1>6, <2>1, EndsFacts
      DEF TypeInv, TaskTypes, Bounds, HlsParts, Reached, Finished, Body, Active,
          Chunk, Drop
  <1>7. CASE BodyEnds
    <2>1. Delivered' = Delivered
      BY <1>0, <1>7, DeliveredStep DEF BodyEnds, Send, Leave
    <2>2. /\ HlsNext /\ hadError' = hadError /\ pusher' = pusher
          /\ Reached = last /\ last = Ends[part + 1] /\ step = "body"
      BY <1>0, <1>1, <1>7
      DEF TypeInv, TaskTypes, Bounds, Reached, Body, BodyEnds
    <2>3. /\ step' \in {"request", "done"} /\ part' = part + 1
          /\ step' = "done" => (~errored' => Complete)
      BY <2>2 DEF HlsNext, Finish
    <2>4. Reached' = Reached
      BY <1>1, <2>2, <2>3 DEF Reached, Finished, Body
    <2> QED  BY <1>0, <2>1, <2>2, <2>3, <2>4 DEF HlsParts, Complete
  <1>8. CASE BodyFails
    <2>1. Delivered' = Delivered
      BY <1>0, <1>8, DeliveredStep DEF BodyFails, Send, Leave
    <2>2. CASE Drop /\ pusher = "gone" /\ pusher' = pusher
      BY <1>0, <2>1, <2>2 DEF HlsParts, Drop
    <2>3. CASE HlsNext /\ hadError' = TRUE
      <3>1. Reached <= last /\ last = Ends[part + 1] /\ step = "body"
        BY <1>0, <1>1, <1>8
        DEF TypeInv, TaskTypes, Bounds, Reached, Body, BodyFails
      <3>2. /\ step' \in {"request", "done"} /\ part' = part + 1
            /\ step' = "done" => (~errored' => Complete)
        BY <2>3 DEF HlsNext, Finish
      <3>3. Reached' = last
        BY <1>1, <3>1, <3>2 DEF Reached, Finished, Body
      <3>4. Reached \in Int
        BY <1>1 DEF Reached
      <3>5. \A j \in 1 .. Len(Delivered) : Delivered[j] <= last
        BY <1>0, <1>1, <1>a, <3>1, <3>4 DEF HlsParts
      <3> QED  BY <1>0, <2>1, <2>3, <3>2, <3>3, <3>5 DEF HlsParts, Complete
    <2> QED  BY <1>0, <1>8, <2>2, <2>3 DEF BodyFails
  <1>9. CASE Receive
    <2>1. Delivered' = Delivered
      BY <1>0, <1>9, DeliveredStep DEF Receive, Send, Leave
    <2> QED
      BY <1>0, <1>1, <1>9, <2>1, EndsFacts
      DEF TypeInv, TaskTypes, Bounds, HlsParts, Reached, Finished, Body, Active,
          Receive
  <1>10. CASE Push
    <2>1. Delivered' = Delivered
      BY <1>0, <1>10, DeliveredStep DEF Push, Send, Leave
    <2> QED
      BY <1>0, <1>1, <1>10, <2>1, EndsFacts
      DEF TypeInv, TaskTypes, Bounds, HlsParts, Reached, Finished, Body, Active,
          Push
  <1>11. CASE Stop
    <2>1. Delivered' = Delivered
      BY <1>0, <1>11, DeliveredStep DEF Stop, Send, Leave
    <2> QED
      BY <1>0, <1>1, <1>11, <2>1, EndsFacts
      DEF TypeInv, TaskTypes, Bounds, HlsParts, Reached, Finished, Body, Active,
          Stop
  <1>12. CASE UNCHANGED vars
    <2>1. Delivered' = Delivered
      BY <1>0, <1>12, DeliveredStep DEF vars, Send, Leave
    <2> QED
      BY <1>0, <1>1, <1>12, <2>1, EndsFacts
      DEF TypeInv, TaskTypes, Bounds, HlsParts, Reached, Finished, Body, Active,
          vars
  <1>13. CASE Leave
    <2>1. /\ Len(Delivered') <= Len(Delivered) /\ Len(Delivered') \in Nat
          /\ \A j \in 1 .. Len(Delivered') : Delivered'[j] = Delivered[j]
      BY <1>0, <1>13, LeaveDelivers, DeliveredSeq, TypeInvParts
    <2>2. \A j \in 1 .. Len(Delivered') : j \in 1 .. Len(Delivered)
      BY <1>1, <2>1
    <2>3. Reached' = Reached
      BY <1>13 DEF Reached, Finished, Body, Leave
    <2> QED  BY <1>0, <1>13, <2>1, <2>2, <2>3 DEF HlsParts, Leave
  <1>14. CASE Send
    <2>1. next \in Chunks /\ next > Finished /\ Body
      BY <1>0, <1>14, <1>1, EndsFacts
      DEF TypeInv, TaskTypes, Bounds, Send, Body, Chunks
    <2>2. CASE pusher = "gone"
      <3>1. Delivered' = Delivered
        BY <1>0, <1>14, <2>2, DeliveredStep DEF Send, Leave
      <3> QED
        BY <1>0, <1>14, <2>2, <3>1 DEF HlsParts, Send, Drop
    <2>3. CASE pusher # "gone"
      <3>1. Delivered' = Append(Delivered, next)
        BY <1>0, <1>14, <2>3, DeliveredStep, SendDelivers, TypeInvParts, <2>1 DEF Send
      <3>2. /\ Len(Delivered') = Len(Delivered) + 1
            /\ Delivered'[Len(Delivered) + 1] = next
            /\ \A j \in 1 .. Len(Delivered) : Delivered'[j] = Delivered[j]
        BY <1>1, <2>1, <3>1, AppendProperties
      <3>3. /\ Reached = next - 1 /\ Reached' = next
            /\ step = "send" /\ step' = "body" /\ hadError' = hadError
        BY <1>1, <1>14, <2>1, <2>3 DEF Reached, Body, Send
      <3>4. \A j \in 1 .. Len(Delivered) : Delivered[j] > 0 /\ Delivered[j] < next
        BY <1>0, <1>1, <1>a, <3>3 DEF HlsParts
      <3>5. \A j \in 1 .. Len(Delivered') :
               j \in 1 .. Len(Delivered) \/ j = Len(Delivered) + 1
        BY <1>1, <3>2
      <3>6. \A j \in 1 .. Len(Delivered') : Delivered'[j] > 0 /\ Delivered'[j] <= next
        BY <1>1, <1>a, <2>1, <3>2, <3>4, <3>5
      <3>7. \A k, j \in 1 .. Len(Delivered') : k < j => Delivered'[k] < Delivered'[j]
        BY <1>0, <1>1, <3>2, <3>4, <3>5 DEF HlsParts
      <3>8. ~hadError =>
              /\ Len(Delivered') = next
              /\ \A j \in 1 .. Len(Delivered') : Delivered'[j] = j
        BY <1>0, <1>1, <2>3, <3>2, <3>3, <3>5 DEF HlsParts
      <3> QED  BY <3>3, <3>6, <3>7, <3>8 DEF HlsParts
    <2> QED  BY <2>2, <2>3
  <1> QED
    BY <1>2, <1>3, <1>4, <1>5, <1>6, <1>7, <1>8, <1>9, <1>10, <1>11, <1>12,
       <1>13, <1>14 DEF Next, Download

-----------------------------------------------------------------------------
(***************************************************************************)
(* The theorems.                                                           *)
(***************************************************************************)
LEMMA InvInit == Init => Inv
  <1> SUFFICES ASSUME Init PROVE Inv
    OBVIOUS
  <1>1. TypeInv /\ Fresh
    BY TypeInit DEF Init, Fresh
  <1>2. Len(Delivered) = 0
    BY DEF Init, Delivered
  <1>3. Mp4Inv
    BY <1>2 DEF Init, Mp4Inv, Mp4Parts, InFile, Body
  <1>4. HlsInv
    BY <1>2 DEF Init, HlsInv, HlsParts, Reached, Finished, Body
  <1> QED  BY <1>1, <1>3, <1>4 DEF Inv

LEMMA InvStep == Inv /\ [Next]_vars => Inv'
  BY TypeStep, FreshStep, Mp4Step, HlsStep DEF Inv

LEMMA Invariance == Spec => []Inv
  BY InvInit, InvStep, PTL DEF Spec

\* The types, the room in the channel and the number of attempts, however long
\* the file, its segments and the channel are.
THEOREM StreamTypeCorrect == Spec => []StreamTypeOK
  <1>1. Inv => StreamTypeOK
    BY TypeInvParts DEF Inv
  <1> QED  BY <1>1, Invariance, PTL

\* Range resume and the row of segments: from a CDN that heeds the Range header
\* the pipeline gets the chunks of the file in order and once each, and an MP4
\* without a gap, however often the connection breaks off.
THEOREM InOrder == Spec => []DeliveredInOrder
  <1>1. Inv => DeliveredInOrder
    <2> SUFFICES ASSUME Inv, honest, NEW j \in DOMAIN Delivered, Delivered[j] # 0
                 PROVE  /\ \A i \in 1 .. j - 1 : Delivered[i] < Delivered[j]
                        /\ mode = "mp4" => Delivered[j] = j
      BY DEF DeliveredInOrder
    <2>1. Len(Delivered) \in Nat /\ j \in 1 .. Len(Delivered)
      BY DeliveredSeq, TypeInvParts, LenProperties DEF Inv
    <2>2. mode \in {"mp4", "hls"} /\ Size \in Nat
      BY EndsFacts DEF Inv, TypeInv, TaskTypes
    <2>3. CASE mode = "mp4"
      BY <2>1, <2>2, <2>3 DEF Inv, Mp4Inv, Mp4Parts, InFile
    <2>4. CASE mode = "hls"
      BY <2>1, <2>2, <2>4 DEF Inv, HlsInv, HlsParts
    <2> QED  BY <2>2, <2>3, <2>4
  <1> QED  BY <1>1, Invariance, PTL

\* A download that has begun to deliver and ends short of the file is marked as
\* failed, whether or not its length is known.
THEOREM ShortDownloadIsMarked == Spec => []ShortIsMarked
  <1>1. Inv => ShortIsMarked
    <2> SUFFICES ASSUME Inv, honest, step = "done", pusher # "gone",
                        Delivered # <<>>, ~errored, NEW k \in 1 .. Size
                 PROVE  \E i \in DOMAIN Delivered : Delivered[i] = k
      BY DEF ShortIsMarked
    <2>1. /\ Delivered \in Seq(Chunks) /\ Len(Delivered) \in Nat \ {0}
          /\ DOMAIN Delivered = 1 .. Len(Delivered)
      BY DeliveredSeq, TypeInvParts, LenProperties, EmptySeq DEF Inv
    <2>2. mode \in {"mp4", "hls"} /\ Size \in Nat
      BY EndsFacts DEF Inv, TypeInv, TaskTypes
    <2>3. CASE mode = "mp4"
      <3>1. Len(Delivered) >= Size
        BY <2>1, <2>3 DEF Inv, Mp4Inv, Mp4Parts
      <3>2. k \in 1 .. Len(Delivered) /\ Delivered[k] = k
        BY <2>1, <2>2, <2>3, <3>1 DEF Inv, Mp4Inv, Mp4Parts, InFile
      <3> QED  BY <2>1, <3>2
    <2>4. CASE mode = "hls"
      <3>1. /\ ~hadError /\ part = Len(Ends) /\ Len(Delivered) = Reached
            /\ \A j \in 1 .. Len(Delivered) : Delivered[j] = j
        BY <2>4 DEF Inv, HlsInv, HlsParts
      <3>2. Reached = Size
        BY <3>1, EndsFacts DEF Reached, Finished, Body, Size
      <3> QED  BY <2>1, <2>2, <3>1, <3>2
    <2> QED  BY <2>2, <2>3, <2>4
  <1> QED  BY <1>1, Invariance, PTL
=============================================================================
