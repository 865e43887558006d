-------------------------- MODULE Pipeline_proofs --------------------------
(***************************************************************************)
(* Theorems about Pipeline: types, the alignment of the published chunks,  *)
(* the completeness of the readable dump files, the account of every       *)
(* WebSocket client, and that what the clients see is a LossyStream.       *)
(***************************************************************************)
EXTENDS Pipeline, SequenceTheorems, TLAPS

-----------------------------------------------------------------------------
(***************************************************************************)
(* The parts of the inductive invariant.                                   *)
(***************************************************************************)
\* A tail follows its head at once; while the board is within a frame the head is the
\* last thing on the line; without a link it is not within one.
LineShape ==
  /\ \A k \in 1..Len(sent) : sent[k] = "tail" => k > 1 /\ sent[k - 1] = "head"
  /\ mid => sent # <<>> /\ sent[Len(sent)] = "head"
  /\ mid => link

\* What read_until has left in buf has no delimiter, and its next chunk is either dropped
\* or begins where no frame is under way.
BufferClean ==
  /\ \A k \in from..(at - 1) : ~Delimited(k)
  /\ pc = "exchange" => drop_next_chunk
  /\ \/ drop_next_chunk
     \/ from <= Len(sent) /\ sent[from] # "tail"
     \/ from = Len(sent) + 1 /\ ~mid

\* A published chunk is a stretch of the line that has been sent.
PublishedSent ==
  \A n \in 1..Len(published) :
    /\ published[n].first \in 1..Len(sent)
    /\ published[n].last \in published[n].first..Len(sent)

\* A sink has written or buffers every row that was pushed to it.
SinkSound == sink.pushed = sink.written \o sink.buffer

\* A loop's cursor lies within the ring's history, beyond everything it has sent.
CursorOf(c) ==
  /\ sock[c] \in {"none", "admitted"} => start[c] = 0 /\ got[c] = <<>> /\ lost[c] = 0
  /\ sock[c] \in {"open", "sending", "closing"} =>
       /\ start[c] >= 1 /\ next[c] >= 1 /\ next[c] <= Len(published) + 1
       /\ Stream!Mark(c) < next[c]
       /\ sock[c] = "sending" => Stream!Mark(c) < next[c] - 1

Cursors == \A c \in Clients : CursorOf(c)

\* Accounted, of one client.
AccountOf(c) ==
  sock[c] \in {"open", "sending", "closing"} =>
    next[c] - start[c] = Len(got[c]) + lost[c] + IF sock[c] = "sending" THEN 1 ELSE 0

\* The inductive invariant, by the state its parts speak of.
LineInv  == LineOK /\ LineShape
BufInv   == BufOK /\ BufferClean
DumpInv  == DumpOK /\ SinkSound /\ ReadableIsComplete
RingInv  == SocketsOK /\ Cursors /\ Accounted
ChunkInv == PublishedSent /\ FramesAligned

IInv == LineInv /\ BufInv /\ LoopOK /\ HandleOK /\ DumpInv /\ RingInv /\ ChunkInv

-----------------------------------------------------------------------------
(***************************************************************************)
(* Lemmas about the operators of the model.                                *)
(***************************************************************************)
Sink == [path : {0} \cup Files, buffer : Seq(Nat), written : Seq(Nat), pushed : Seq(Nat)]

\* SinkSound of a given sink, and ReadableIsComplete of given files.
Sound(s)    == s.pushed = s.written \o s.buffer
Complete(d) == \A n \in Files : d[n].footer => d[n].rows = d[n].pushed

\* Appending to a sequence keeps its type and its elements.
LEMMA SeqTyped ==
  ASSUME NEW S, NEW s \in Seq(S)
  PROVE  /\ Len(s) \in Nat
         /\ \A x \in S : /\ Append(s, x) \in Seq(S) /\ Len(Append(s, x)) = Len(s) + 1
                         /\ \A k \in 1..Len(s) : Append(s, x)[k] = s[k]
                         /\ Append(s, x)[Len(s) + 1] = x
         /\ s # <<>> => Tail(s) \in Seq(S)
         /\ \A k \in 1..Len(s) : s[k] \in S
  OBVIOUS

\* Concatenation is associative.
LEMMA Associative ==
  ASSUME NEW a \in Seq(Nat), NEW b \in Seq(Nat), NEW c \in Seq(Nat)
  PROVE  (a \o b) \o c = a \o (b \o c)
<1>1. /\ a \o b \in Seq(Nat) /\ b \o c \in Seq(Nat)
      /\ Len(a \o b) = Len(a) + Len(b) /\ Len(b \o c) = Len(b) + Len(c)
  BY ConcatProperties
<1>2. /\ (a \o b) \o c \in Seq(Nat) /\ a \o (b \o c) \in Seq(Nat)
      /\ Len((a \o b) \o c) = Len(a) + Len(b) + Len(c)
      /\ Len(a \o (b \o c)) = Len(a) + Len(b) + Len(c)
  BY <1>1, ConcatProperties
<1>3. ASSUME NEW i \in 1..(Len(a) + Len(b) + Len(c))
      PROVE  ((a \o b) \o c)[i] = (a \o (b \o c))[i]
  <2>1. CASE i <= Len(a)
    BY <1>1, <2>1
  <2>2. CASE Len(a) < i /\ i <= Len(a) + Len(b)
    BY <1>1, <2>2
  <2>3. CASE Len(a) + Len(b) < i
    BY <1>1, <2>3
  <2> QED BY <2>1, <2>2, <2>3
<1> QED BY <1>2, <1>3, SeqEqual

\* A sink that is opened is empty.
LEMMA OpenedTyped ==
  ASSUME NEW p \in {0} \cup Files
  PROVE  /\ Opened(p) \in Sink /\ Sound(Opened(p)) /\ Opened(p).path = p
         /\ NoSink \in Sink /\ Sound(NoSink)
         /\ Blank \in File /\ ~Blank.footer
<1>1. <<>> \in Seq(Nat)
  OBVIOUS
<1>2. <<>> \o <<>> = <<>>
  BY <1>1, ConcatEmptySeq
<1> QED BY <1>1, <1>2 DEF Opened, NoSink, Blank, Sink, Sound, File

\* A flush, whether the disk takes it or not, keeps every row of the sink.
LEMMA FlushTyped ==
  ASSUME NEW s \in Sink, Sound(s), NEW ok \in BOOLEAN
  PROVE  /\ Flush(s, ok) \in Sink /\ Sound(Flush(s, ok))
         /\ ok => Flush(s, ok).written = s.pushed
<1>1. /\ s.buffer \in Seq(Nat) /\ s.written \in Seq(Nat) /\ s.pushed \in Seq(Nat)
      /\ s.path \in {0} \cup Files
  BY DEF Sink
<1>2. /\ s.written \o s.buffer \in Seq(Nat)
      /\ (s.written \o s.buffer) \o <<>> = s.written \o s.buffer
  BY <1>1, ConcatProperties, ConcatEmptySeq
<1> DEFINE all == s.written \o s.buffer
           f   == [s EXCEPT !.written = all, !.buffer = <<>>]
<1>3. f \in Sink /\ f.pushed = s.pushed /\ f.written = all /\ f.buffer = <<>>
  <2>1. all \in Seq(Nat)
    BY <1>2
  <2>2. <<>> \in Seq(Nat)
    OBVIOUS
  <2> HIDE DEF all
  <2> QED BY <1>1, <2>1, <2>2 DEF Sink
<1>4. Flush(s, ok) = IF ok THEN f ELSE s
  BY DEF Flush
<1> HIDE DEF f
<1> QED BY <1>2, <1>3, <1>4 DEF Sound

\* push keeps every row, the new one included.
LEMMA PushTyped ==
  ASSUME NEW s \in Sink, Sound(s), NEW row \in Nat, NEW ok \in BOOLEAN
  PROVE  Push(s, row, ok) \in Sink /\ Sound(Push(s, row, ok))
<1> DEFINE f == [s EXCEPT !.buffer = Append(@, row), !.pushed = Append(@, row)]
<1>1. /\ s.buffer \in Seq(Nat) /\ s.written \in Seq(Nat) /\ s.pushed \in Seq(Nat)
      /\ s.path \in {0} \cup Files
  BY DEF Sink
<1>2. /\ Append(s.buffer, row) \in Seq(Nat) /\ Append(s.pushed, row) \in Seq(Nat)
      /\ Append(s.buffer, row) = s.buffer \o <<row>>
      /\ Append(s.pushed, row) = s.pushed \o <<row>>
  BY <1>1, AppendProperties, AppendIsConcat
<1>3. /\ f \in Sink /\ f.buffer = Append(s.buffer, row) /\ f.pushed = Append(s.pushed, row)
      /\ f.written = s.written
  BY <1>1, <1>2 DEF Sink
<1>4. (s.written \o s.buffer) \o <<row>> = s.written \o (s.buffer \o <<row>>)
  <2>1. <<row>> \in Seq(Nat)
    OBVIOUS
  <2> QED BY <1>1, <2>1, Associative
<1>5. Sound(f)
  BY <1>2, <1>3, <1>4 DEF Sound
<1>6. Push(s, row, ok) = f \/ Push(s, row, ok) = Flush(f, ok)
  BY DEF Push
<1> HIDE DEF f
<1> QED BY <1>3, <1>5, <1>6, FlushTyped

\* finish leaves a file whose footer, if it is there, stands under every row.
LEMMA FinishTyped ==
  ASSUME NEW s \in Sink, Sound(s), NEW ok \in BOOLEAN
  PROVE  /\ Finish(s, ok) \in File
         /\ Finish(s, ok).footer => Finish(s, ok).rows = Finish(s, ok).pushed
<1>1. Flush(s, ok) \in Sink /\ (ok => Flush(s, ok).written = s.pushed)
  BY FlushTyped
<1>2. Flush(s, ok).written \in Seq(Nat) /\ s.pushed \in Seq(Nat)
  BY <1>1 DEF Sink
<1> QED BY <1>1, <1>2 DEF Finish, File

\* What the disk does in a step stays within its bound.
LEMMA DiskTyped ==
  ASSUME NEW ok \in BOOLEAN, fails \in 0..MaxFails, Disk(ok)
  PROVE  fails' \in 0..MaxFails
BY SinkAssumption DEF Disk

\* sync_parquet_sink keeps the sink and the files sound.
LEMMA SyncSinkSound ==
  ASSUME DumpOK, SinkSound, ReadableIsComplete,
         NEW mode, NEW path \in {0} \cup Files, NEW changed, NEW ended, NEW known,
         NEW ok \in BOOLEAN, SyncSink(mode, path, changed, ended, known, ok)
  PROVE  DumpOK' /\ SinkSound' /\ ReadableIsComplete'
<1> DEFINE closes == sink.path # 0 /\ (ended \/ (changed /\ mode = "stream"))
           opens  == sink.path = 0 /\ changed /\ mode # "stream" /\ path # 0 /\ known
<1>0. /\ sink \in Sink /\ Sound(sink) /\ Complete(disk) /\ disk \in [Files -> File]
      /\ fails \in 0..MaxFails /\ sink.path \in {0} \cup Files
  BY DEF DumpOK, SinkSound, Sound, ReadableIsComplete, Complete, Sink
<1>1. SUFFICES sink' \in Sink /\ Sound(sink') /\ disk' \in [Files -> File]
               /\ Complete(disk') /\ fails' \in 0..MaxFails
  BY DEF DumpOK, SinkSound, Sound, ReadableIsComplete, Complete, Sink
<1>2. CASE closes
  <2>1. /\ sink' = NoSink /\ disk' = [disk EXCEPT ![sink.path] = Finish(sink, ok)]
        /\ Disk(ok)
    BY <1>2, Zenon DEF SyncSink
  <2>2. sink.path \in Files
    BY <1>0, <1>2
  <2> QED BY <1>0, <2>1, <2>2, FinishTyped, OpenedTyped, DiskTyped DEF Complete
<1>3. CASE ~closes /\ opens
  <2>1. /\ sink' = Opened(path) /\ disk' = [disk EXCEPT ![path] = Blank] /\ fails' = fails
    BY <1>3, Zenon DEF SyncSink
  <2>2. path \in Files
    BY <1>3
  <2> QED BY <1>0, <2>1, <2>2, OpenedTyped DEF Complete
<1>4. CASE ~closes /\ ~opens
  <2>1. sink' = sink /\ disk' = disk /\ fails' = fails
    BY <1>4, Zenon DEF SyncSink
  <2> QED BY <1>0, <2>1
<1> QED BY <1>2, <1>3, <1>4

-----------------------------------------------------------------------------
(***************************************************************************)
(* What a step that leaves a group of variables alone keeps.               *)
(***************************************************************************)
\* Each part of the invariant depends on one group of variables only.
LEMMA Kept ==
  /\ LineInv /\ UNCHANGED lineVars => LineInv'
  /\ BufInv /\ UNCHANGED <<lineVars, bufVars, pc>> => BufInv'
  /\ LoopOK /\ UNCHANGED loopVars => LoopOK'
  /\ HandleOK /\ UNCHANGED <<cellVars, flagVars, events>> => HandleOK'
  /\ DumpInv /\ UNCHANGED dumpVars => DumpInv'
  /\ RingInv /\ UNCHANGED <<ringVars, senders_gone>> => RingInv'
  /\ ChunkInv /\ UNCHANGED <<sent, published>> => ChunkInv'
<1>1. LineInv /\ UNCHANGED lineVars => LineInv'
  BY DEF LineInv, LineOK, LineShape, lineVars
<1>2. BufInv /\ UNCHANGED <<lineVars, bufVars, pc>> => BufInv'
  BY DEF BufInv, BufOK, BufferClean, Delimited, lineVars, bufVars
<1>3. LoopOK /\ UNCHANGED loopVars => LoopOK'
  BY DEF LoopOK, loopVars
<1>4. HandleOK /\ UNCHANGED <<cellVars, flagVars, events>> => HandleOK'
  BY DEF HandleOK, cellVars, flagVars
<1>5. DumpInv /\ UNCHANGED dumpVars => DumpInv'
  BY DEF DumpInv, DumpOK, SinkSound, ReadableIsComplete, dumpVars
<1>6. RingInv /\ UNCHANGED <<ringVars, senders_gone>> => RingInv'
  BY DEF RingInv, SocketsOK, Cursors, CursorOf, Accounted, Stream!Mark, ringVars, socketVars
<1>7. ChunkInv /\ UNCHANGED <<sent, published>> => ChunkInv'
  BY DEF ChunkInv, PublishedSent, FramesAligned, Delimited
<1> QED BY <1>1, <1>2, <1>3, <1>4, <1>5, <1>6, <1>7

\* A chunk that is a stretch of the line, begins outside a frame and has no delimiter
\* before its end may be published; the clients' cursors stay where they are.
LEMMA PublishStep ==
  ASSUME IInv, NEW chunk \in Chunk,
         chunk.first \in 1..Len(sent), chunk.last \in chunk.first..Len(sent),
         sent[chunk.first] # "tail",
         \A k \in chunk.first..(chunk.last - 1) : ~Delimited(k),
         Publish(chunk), UNCHANGED <<sent, socketVars, senders_gone>>
  PROVE  RingInv' /\ ChunkInv'
<1>1. CASE published' = published
  BY <1>1, Kept DEF IInv, ringVars
<1>2. CASE published' = Append(published, chunk)
  <2>1. published \in Seq(Chunk)
    BY DEF IInv, RingInv, SocketsOK
  <2>2. /\ published' \in Seq(Chunk) /\ Len(published) \in Nat
        /\ Len(published') = Len(published) + 1
        /\ \A n \in 1..Len(published) : published'[n] = published[n]
        /\ published'[Len(published) + 1] = chunk
    BY <1>2, <2>1, SeqTyped
  <2>3. \A n \in 1..Len(published') : published'[n] = chunk \/ n \in 1..Len(published)
    BY <2>2
  <2>4. ChunkInv'
    BY <2>2, <2>3 DEF IInv, ChunkInv, PublishedSent, FramesAligned, Delimited
  <2>5. SocketsOK'
    BY <2>2 DEF IInv, RingInv, SocketsOK, socketVars
  <2>6. Cursors'
    BY <2>2 DEF IInv, RingInv, SocketsOK, Cursors, CursorOf, Stream!Mark, socketVars
  <2>7. Accounted'
    BY DEF IInv, RingInv, Accounted, socketVars
  <2> QED BY <2>4, <2>5, <2>6, <2>7 DEF RingInv
<1> QED BY <1>1, <1>2 DEF Publish

-----------------------------------------------------------------------------
(***************************************************************************)
(* The board, the link, the handlers.                                      *)
(***************************************************************************)
\* The board sends a piece that continues the line: a tail only within a frame, anything
\* else only outside of one.
LEMMA SayStep ==
  ASSUME IInv, NEW piece \in Pieces, NEW midway \in BOOLEAN, Say(piece, midway),
         piece = "tail" <=> mid, piece = "head" <=> midway, UNCHANGED <<bufVars, pc, published>>
  PROVE  LineInv' /\ BufInv' /\ ChunkInv'
<1>1. /\ sent \in Seq(Pieces) /\ mid \in BOOLEAN /\ link
  BY DEF IInv, LineInv, LineOK, Say
<1>2. /\ sent' \in Seq(Pieces) /\ Len(sent) \in Nat /\ Len(sent') = Len(sent) + 1
      /\ \A k \in 1..Len(sent) : sent'[k] = sent[k]
      /\ sent'[Len(sent) + 1] = piece
  BY <1>1, SeqTyped DEF Say
<1>3. mid' = midway /\ link' = link /\ collecting' = collecting
  BY DEF Say
<1>4. LineOK'
  BY <1>2, <1>3 DEF IInv, LineInv, LineOK
<1>5. LineShape'
  <2>1. ASSUME NEW k \in 1..Len(sent'), sent'[k] = "tail"
        PROVE  k > 1 /\ sent'[k - 1] = "head"
    <3>1. CASE k \in 1..Len(sent)
      BY <1>2, <2>1, <3>1 DEF IInv, LineInv, LineShape
    <3>2. CASE k = Len(sent) + 1
      <4>1. mid /\ sent # <<>> /\ sent[Len(sent)] = "head"
        BY <1>2, <2>1, <3>2 DEF IInv, LineInv, LineShape
      <4>2. Len(sent) > 0
        BY <1>1, <4>1
      <4> QED BY <1>2, <3>2, <4>1, <4>2
    <3> QED BY <1>2, <3>1, <3>2
  <2>2. sent' # <<>>
    BY <1>2
  <2>3. mid' => sent'[Len(sent')] = "head"
    BY <1>2, <1>3
  <2> QED BY <1>1, <1>3, <2>1, <2>2, <2>3 DEF LineShape
<1>6. BufOK'
  BY <1>2 DEF IInv, BufInv, BufOK, bufVars
<1>7. BufferClean'
  <2>1. \A k \in from..(at - 1) : k \in 1..Len(sent)
    BY <1>2 DEF IInv, BufInv, BufOK
  <2>2. \A k \in from'..(at' - 1) : ~Delimited(k)'
    BY <1>2, <2>1 DEF IInv, BufInv, BufferClean, Delimited, bufVars
  <2>3. \/ drop_next_chunk'
        \/ from' <= Len(sent') /\ sent'[from'] # "tail"
    BY <1>1, <1>2 DEF IInv, BufInv, BufOK, BufferClean, bufVars
  <2> QED BY <2>2, <2>3 DEF IInv, BufInv, BufferClean, bufVars
<1>8. ChunkInv'
  <2> SUFFICES ASSUME NEW n \in 1..Len(published)
               PROVE  /\ published[n].first \in 1..Len(sent')
                      /\ published[n].last \in published[n].first..Len(sent')
                      /\ sent'[published[n].first] # "tail"
                      /\ \A k \in published[n].first..(published[n].last - 1) : ~Delimited(k)'
    BY DEF ChunkInv, PublishedSent, FramesAligned
  <2>1. /\ published[n].first \in 1..Len(sent)
        /\ published[n].last \in published[n].first..Len(sent)
        /\ sent[published[n].first] # "tail"
        /\ \A k \in published[n].first..(published[n].last - 1) : ~Delimited(k)
    BY DEF IInv, ChunkInv, PublishedSent, FramesAligned
  <2>2. \A k \in published[n].first..(published[n].last - 1) : k \in 1..Len(sent)
    BY <1>2, <2>1
  <2> QED BY <1>2, <2>1, <2>2 DEF Delimited
<1> QED BY <1>4, <1>5, <1>6, <1>7, <1>8 DEF LineInv, BufInv

\* A frame that is cut off, and a change of the link, leave what was sent.
LEMMA CutStep ==
  ASSUME IInv, UNCHANGED <<sent, bufVars, pc, published>>,
         mid' = FALSE \/ (mid' = mid /\ link'), collecting' \in BOOLEAN, link' \in BOOLEAN
  PROVE  LineInv' /\ BufInv' /\ ChunkInv'
<1>1. LineInv'
  <2>1. LineOK'
    BY DEF IInv, LineInv, LineOK
  <2>2. \A k \in 1..Len(sent') : sent'[k] = "tail" => k > 1 /\ sent'[k - 1] = "head"
    BY DEF IInv, LineInv, LineShape
  <2>3. mid' => mid /\ link'
    OBVIOUS
  <2>4. mid' => sent' # <<>> /\ sent'[Len(sent')] = "head"
    BY <2>3 DEF IInv, LineInv, LineShape
  <2> QED BY <2>1, <2>2, <2>3, <2>4 DEF LineInv, LineShape
<1>2. BufInv'
  BY DEF IInv, BufInv, BufOK, BufferClean, Delimited, bufVars
<1>3. ChunkInv'
  BY DEF IInv, ChunkInv, PublishedSent, FramesAligned, Delimited
<1> QED BY <1>1, <1>2, <1>3

\* The board and the link.
LEMMA EnvironmentStep ==
  ASSUME IInv, Environment
  PROVE  IInv'
<1>1. UNCHANGED <<bufVars, loopVars, cellVars, flagVars, dumpVars, ringVars, senders_gone>>
  BY DEF Environment
<1>2. UNCHANGED <<pc, published>>
  BY <1>1 DEF loopVars, ringVars
<1>3. LoopOK' /\ DumpInv' /\ RingInv'
  BY <1>1, Kept DEF IInv
<1>4. HandleOK'
  BY <1>1, FramerAssumption DEF Environment, IInv, HandleOK, cellVars, flagVars
<1>5. CASE BoardStep
  <2>1. SUFFICES LineInv' /\ BufInv' /\ ChunkInv'
    BY <1>3, <1>4 DEF IInv
  <2>2. mid \in BOOLEAN
    BY DEF IInv, LineInv, LineOK
  <2>3. CASE ~mid /\ Say("head", TRUE)
    BY <1>1, <1>2, <2>2, <2>3, SayStep DEF Pieces
  <2>4. CASE mid /\ Say("tail", FALSE)
    BY <1>1, <1>2, <2>2, <2>4, SayStep DEF Pieces
  <2>5. ASSUME NEW piece \in {"text", "mark"}, ~mid, Say(piece, FALSE)
        PROVE  LineInv' /\ BufInv' /\ ChunkInv'
    BY <1>1, <1>2, <2>2, <2>5, SayStep DEF Pieces
  <2> QED BY <1>5, <2>3, <2>4, <2>5 DEF BoardStep
<1>6. CASE BoardResets \/ Unplug \/ Replug
  <2>1. /\ sent' = sent /\ collecting' \in BOOLEAN /\ link' \in BOOLEAN
        /\ mid' = FALSE \/ (mid' = mid /\ link')
    BY <1>6 DEF BoardResets, Unplug, Replug, IInv, LineInv, LineOK
  <2> QED BY <1>1, <1>2, <1>3, <1>4, <2>1, CutStep DEF IInv
<1> QED BY <1>5, <1>6 DEF Environment

\* The handlers and the supervisor write to the handle only.
LEMMA HandlerStep ==
  ASSUME IInv, HandlerWrite
  PROVE  IInv'
<1>1. UNCHANGED <<lineVars, bufVars, loopVars, dumpVars, ringVars, senders_gone>>
  BY DEF HandlerWrite
<1>2. UNCHANGED <<pc, sent, published>>
  BY <1>1 DEF loopVars, lineVars, ringVars
<1>3. LineInv' /\ BufInv' /\ LoopOK' /\ DumpInv' /\ RingInv' /\ ChunkInv'
  BY <1>1, <1>2, Kept DEF IInv
<1>4. HandleOK /\ events' \in 0..MaxEvents
  BY FramerAssumption DEF HandlerWrite, IInv, HandleOK
<1> USE DEF cellVars, flagVars
<1>5. HandleOK'
  <2>1. CASE SetRunning
    BY <1>4, <2>1 DEF SetRunning, HandleOK
  <2>2. CASE SetMode
    BY <1>4, <2>2 DEF SetMode, HandleOK
  <2>3. CASE SetSession
    BY <1>4, <2>3 DEF SetSession, HandleOK
  <2>4. ASSUME NEW command \in {"start", "q"}, commands' = Append(commands, command),
               UNCHANGED <<cellVars, collection_running, info_request, shutdown>>
        PROVE  HandleOK'
    <3>1. commands' \in Seq({"start", "q"})
      BY <1>4, <2>4 DEF HandleOK
    <3> QED BY <1>4, <2>4, <3>1 DEF HandleOK
  <2>5. CASE AskInfo
    BY <1>4, <2>5 DEF AskInfo, HandleOK
  <2>6. CASE Cancel
    BY <1>4, <2>6 DEF Cancel, HandleOK
  <2> QED BY <2>1, <2>2, <2>3, <2>4, <2>5, <2>6 DEF HandlerWrite, QueueCommand
<1> QED BY <1>3, <1>5 DEF IInv

-----------------------------------------------------------------------------
(***************************************************************************)
(* The loop.                                                               *)
(***************************************************************************)
\* What is done with a chunk of the buffer keeps the dump, the channel and the alignment of
\* what is published: a chunk that is not to be dropped begins outside a frame.
LEMMA ConsumeStep ==
  ASSUME IInv, NEW last \in Nat, from <= last + 1, last <= Len(sent),
         \A k \in from..(last - 1) : ~Delimited(k),
         Consume([first |-> from, last |-> last]), UNCHANGED <<sent, socketVars, senders_gone>>
  PROVE  drop_next_chunk' = FALSE /\ DumpInv' /\ RingInv' /\ ChunkInv'
<1> DEFINE chunk == [first |-> from, last |-> last]
           frame == ~drop_next_chunk /\ collection_running /\ ~TextOnly(chunk)
<1>1. /\ from \in Nat /\ 1 <= from /\ chunk \in Chunk /\ chunk.first = from /\ chunk.last = last
      /\ sink \in Sink /\ disk \in [Files -> File] /\ fails \in 0..MaxFails
      /\ Len(sent) \in Nat
  <2>1. sent \in Seq(Pieces)
    BY DEF IInv, LineInv, LineOK
  <2>2. from \in Nat /\ 1 <= from
    BY DEF IInv, BufInv, BufOK
  <2>3. sink \in Sink /\ disk \in [Files -> File] /\ fails \in 0..MaxFails
    BY DEF IInv, DumpInv, DumpOK, Sink
  <2> QED BY <2>1, <2>2, <2>3, SeqTyped DEF Chunk
<1>2. drop_next_chunk' = FALSE
  BY DEF Consume
<1>3. DumpInv'
  <2>1. CASE UNCHANGED dumpVars
    BY <2>1, Kept DEF IInv
  <2>2. ASSUME NEW ok \in BOOLEAN, sink' = Push(sink, chunk.first, ok), UNCHANGED disk,
               Disk(ok) \/ UNCHANGED fails
        PROVE  DumpInv'
    <3>1. Sound(sink)
      BY DEF IInv, DumpInv, SinkSound, Sound
    <3>2. sink' \in Sink /\ Sound(sink')
      BY <1>1, <2>2, <3>1, PushTyped
    <3>3. fails' \in 0..MaxFails
      BY <1>1, <2>2, DiskTyped
    <3> QED BY <1>1, <2>2, <3>2, <3>3
            DEF IInv, DumpInv, DumpOK, SinkSound, Sound, Sink, ReadableIsComplete
  <2>3. \/ UNCHANGED dumpVars
        \/ \E ok \in BOOLEAN : /\ sink' = Push(sink, chunk.first, ok) /\ UNCHANGED disk
                               /\ Disk(ok) \/ UNCHANGED fails
    BY DEF Consume
  <2> HIDE DEF chunk
  <2> QED BY <2>1, <2>2, <2>3
<1>4. RingInv' /\ ChunkInv'
  <2>1. CASE published' = published
    BY <2>1, Kept DEF IInv, ringVars
  <2>2. CASE frame /\ Publish(chunk)
    <3>1. \E k \in from..last : TRUE
      BY <1>1, <2>2 DEF TextOnly
    <3>2. from \in 1..Len(sent) /\ last \in from..Len(sent)
      BY <1>1, <3>1
    <3>3. sent[from] # "tail"
      BY <1>1, <2>2, <3>2 DEF IInv, BufInv, BufferClean
    <3> HIDE DEF chunk
    <3> QED BY <1>1, <2>2, <3>2, <3>3, PublishStep
  <2>3. published' = published \/ (frame /\ Publish(chunk))
    BY DEF Consume
  <2> QED BY <2>1, <2>2, <2>3
<1> QED BY <1>2, <1>3, <1>4

\* A read takes a piece; at a delimiter what comes next on the line is not a tail.
LEMMA ReadStep ==
  ASSUME IInv, Read
  PROVE  IInv'
<1>1. /\ UNCHANGED <<armed, current_mode, current_session, lineVars, cellVars, flagVars,
                     socketVars, senders_gone, events>>
      /\ at <= Len(sent) /\ at' = at + 1 /\ pc = "select"
  BY DEF Read
<1>2. LineInv' /\ HandleOK' /\ sent' = sent /\ mid' = mid
  BY <1>1, Kept DEF IInv, lineVars
<1>3. /\ from \in Nat /\ at \in Nat /\ 1 <= from /\ from <= at /\ Len(sent) \in Nat
  <2>1. sent \in Seq(Pieces)
    BY DEF IInv, LineInv, LineOK
  <2> QED BY <2>1, SeqTyped DEF IInv, BufInv, BufOK
<1>4. \A k \in from..(at - 1) : ~Delimited(k)
  BY DEF IInv, BufInv, BufferClean
<1>5. CASE Delimited(at)
  <2>1. /\ Consume([first |-> from, last |-> at])
        /\ from' = at + 1 /\ fresh' = FALSE /\ pc' = "top"
    BY <1>5 DEF Read
  <2>2. drop_next_chunk' = FALSE /\ DumpInv' /\ RingInv' /\ ChunkInv'
    <3>1. UNCHANGED <<sent, socketVars, senders_gone>> /\ from <= at + 1
      BY <1>1, <1>2, <1>3
    <3> QED BY <1>1, <1>3, <1>4, <2>1, <3>1, ConsumeStep, Zenon
  <2>3. LoopOK'
    BY <1>1, <2>1 DEF IInv, LoopOK
  <2>4. BufOK'
    <3>1. drop_next_chunk' \in BOOLEAN /\ fresh' \in BOOLEAN
      BY <2>1, <2>2
    <3>2. /\ from' \in Nat /\ at' \in Nat /\ 1 <= from' /\ from' <= at'
          /\ at' <= Len(sent') + 1
      BY <1>1, <1>2, <1>3, <2>1
    <3> QED BY <3>1, <3>2 DEF BufOK
  <2>5. ~Delimited(at) \/ sent[at] # "head"
    BY DEF Delimited
  <2>6. CASE at + 1 <= Len(sent)
    <3>1. sent[at + 1] # "tail"
      BY <1>3, <1>5, <2>5, <2>6 DEF IInv, LineInv, LineShape
    <3> QED BY <1>1, <1>2, <1>3, <2>1, <2>2, <2>3, <2>4, <2>6, <3>1 DEF IInv, BufInv, BufferClean
  <2>7. CASE at + 1 = Len(sent) + 1
    <3>1. ~mid
      BY <1>3, <1>5, <2>5, <2>7 DEF IInv, LineInv, LineShape
    <3> QED BY <1>1, <1>2, <1>3, <2>1, <2>2, <2>3, <2>4, <2>7, <3>1 DEF IInv, BufInv, BufferClean
  <2> QED BY <1>1, <1>3, <2>6, <2>7
<1>6. CASE ~Delimited(at)
  <2>1. fresh' = TRUE /\ UNCHANGED <<from, pc, drop_next_chunk, dumpVars, published>>
    BY <1>6 DEF Read
  <2>2. LoopOK' /\ DumpInv' /\ RingInv' /\ ChunkInv'
    BY <1>1, <1>2, <2>1, Kept DEF IInv, loopVars, ringVars
  <2>3. BufOK'
    BY <1>1, <1>2, <1>3, <2>1 DEF IInv, BufInv, BufOK
  <2>4. \A k \in from'..(at' - 1) : ~Delimited(k)'
    BY <1>1, <1>2, <1>3, <1>4, <1>6, <2>1 DEF Delimited
  <2>5. BufferClean'
    BY <1>1, <1>2, <2>1, <2>4 DEF IInv, BufInv, BufferClean
  <2> QED BY <1>2, <2>2, <2>3, <2>5 DEF IInv, BufInv
<1> QED BY <1>5, <1>6

\* At the end of the input nothing follows the chunk, and the board is not within a frame.
LEMMA ReadCutStep ==
  ASSUME IInv, ReadCut
  PROVE  IInv'
<1>1. /\ UNCHANGED <<at, armed, current_mode, current_session, lineVars, cellVars, flagVars,
                     socketVars, senders_gone, events>>
      /\ at > Len(sent) /\ ~link /\ from' = at /\ fresh' = FALSE /\ pc' = "top"
      /\ Consume([first |-> from, last |-> at - 1])
  BY DEF ReadCut
<1>2. LineInv' /\ HandleOK' /\ sent' = sent /\ mid' = mid
  BY <1>1, Kept DEF IInv, lineVars
<1>3. /\ from \in Nat /\ at \in Nat /\ 1 <= from /\ from <= at /\ Len(sent) \in Nat
      /\ at <= Len(sent) + 1
  <2>1. sent \in Seq(Pieces)
    BY DEF IInv, LineInv, LineOK
  <2> QED BY <2>1, SeqTyped DEF IInv, BufInv, BufOK
<1>4. \A k \in from..((at - 1) - 1) : ~Delimited(k)
  BY <1>3 DEF IInv, BufInv, BufferClean
<1>5. drop_next_chunk' = FALSE /\ DumpInv' /\ RingInv' /\ ChunkInv'
  <2>1. /\ UNCHANGED <<sent, socketVars, senders_gone>> /\ at - 1 \in Nat
        /\ from <= (at - 1) + 1 /\ at - 1 <= Len(sent)
    BY <1>1, <1>2, <1>3
  <2> QED BY <1>1, <1>4, <2>1, ConsumeStep, Zenon
<1>6. LoopOK'
  BY <1>1 DEF IInv, LoopOK
<1>7. ~mid
  BY <1>1 DEF IInv, LineInv, LineShape
<1>8. BufInv'
  <2>1. drop_next_chunk' \in BOOLEAN /\ fresh' \in BOOLEAN
    BY <1>1, <1>5
  <2>2. /\ from' = Len(sent') + 1 /\ at' = Len(sent') + 1 /\ ~mid' /\ Len(sent') \in Nat
    BY <1>1, <1>2, <1>3, <1>7
  <2> QED BY <1>1, <2>1, <2>2 DEF BufInv, BufOK, BufferClean
<1> QED BY <1>2, <1>5, <1>6, <1>8 DEF IInv

\* An empty buffer whose next chunk is dropped is clean, wherever on the line it starts.
LEMMA BufferEmpty ==
  ASSUME IInv, sent' = sent, at' \in at..(Len(sent) + 1), from' = at',
         fresh' \in BOOLEAN, drop_next_chunk' = TRUE
  PROVE  BufInv'
<1>1. /\ from \in Nat /\ at \in Nat /\ 1 <= from /\ from <= at /\ Len(sent) \in Nat
  <2>1. sent \in Seq(Pieces)
    BY DEF IInv, LineInv, LineOK
  <2> QED BY <2>1, SeqTyped DEF IInv, BufInv, BufOK
<1>2. BufOK'
  BY <1>1 DEF BufOK
<1>3. \A k \in from'..(at' - 1) : FALSE
  <2>1. at' \in Nat /\ from' = at'
    BY <1>1
  <2>2. \A n \in Nat : \A k \in n..(n - 1) : FALSE
    OBVIOUS
  <2> QED BY <2>1, <2>2
<1> QED BY <1>2, <1>3 DEF BufInv, BufferClean

\* The head of the loop applies the watch cells and synchronises the sink with them.
LEMMA LoopTopStep ==
  ASSUME IInv, LoopTop
  PROVE  IInv'
<1>1. /\ UNCHANGED <<from, at, drop_next_chunk, output_mode, session_file, lineVars, flagVars,
                     ringVars, senders_gone, events>>
      /\ pc' = "select" /\ mode_changed' = FALSE /\ session_changed' = FALSE /\ fresh' = FALSE
      /\ armed' = ~collection_running
      /\ current_mode' = IF mode_changed THEN output_mode ELSE current_mode
      /\ current_session' = IF session_changed THEN session_file ELSE current_session
  BY DEF LoopTop
<1>2. HandleOK /\ LoopOK
  BY DEF IInv
<1>3. current_mode' \in Modes /\ current_session' \in {0} \cup Files
  BY <1>1, <1>2 DEF HandleOK, LoopOK
<1>4. DumpInv'
  BY <1>3, SyncSinkSound DEF LoopTop, IInv, DumpInv
<1>5. HandleOK'
  BY <1>1, <1>2 DEF HandleOK, flagVars
<1>6. LoopOK'
  <2>1. armed' \in BOOLEAN
    BY <1>1
  <2> QED BY <1>1, <1>3, <2>1 DEF LoopOK
<1>7. LineInv' /\ RingInv' /\ ChunkInv'
  BY <1>1, Kept DEF IInv, lineVars, ringVars
<1>8. BufInv'
  BY <1>1 DEF IInv, BufInv, BufOK, BufferClean, Delimited, lineVars
<1> QED BY <1>4, <1>5, <1>6, <1>7, <1>8 DEF IInv

\* The end of a connection drops the sink and touches neither the line nor the buffer.
LEMMA LeaveStep ==
  ASSUME IInv, NEW where \in {"off", "gone"}, Leave(where),
         commands' = commands \/ (commands # <<>> /\ commands' = Tail(commands))
  PROVE  IInv'
<1>1. /\ pc' = where /\ collection_running' = FALSE
      /\ UNCHANGED <<armed, current_mode, current_session, lineVars, bufVars, cellVars,
                     info_request, shutdown, ringVars, senders_gone, events>>
  BY DEF Leave
<1>2. DumpInv'
  BY SyncSinkSound DEF Leave, IInv, DumpInv
<1>3. HandleOK'
  <2>1. commands' \in Seq({"start", "q"})
    BY SeqTyped DEF IInv, HandleOK
  <2> QED BY <1>1, <2>1 DEF IInv, HandleOK, cellVars
<1>4. LoopOK'
  BY <1>1 DEF IInv, LoopOK
<1>5. LineInv' /\ RingInv' /\ ChunkInv'
  BY <1>1, Kept DEF IInv, lineVars, ringVars
<1>6. BufInv'
  BY <1>1 DEF IInv, BufInv, BufOK, BufferClean, Delimited, lineVars, bufVars
<1> QED BY <1>2, <1>3, <1>4, <1>5, <1>6 DEF IInv

\* An arm that only brings the loop round, to the top or into an exchange, with the buffer
\* as it was or empty.
LEMMA ArmStep ==
  ASSUME IInv, Untouched, UNCHANGED <<armed, sent, mid, link>>, collecting' \in BOOLEAN,
         info_request' \in BOOLEAN,
         commands' = commands \/ (commands # <<>> /\ commands' = Tail(commands)),
         pc' \in {"top", "exchange"}, pc' = "exchange" => drop_next_chunk',
         \/ at' = at /\ from' = from /\ (drop_next_chunk' = drop_next_chunk \/ drop_next_chunk' = TRUE)
         \/ at' \in at..(Len(sent) + 1) /\ from' = at' /\ drop_next_chunk' = TRUE,
         fresh' \in BOOLEAN
  PROVE  IInv'
<1>1. UNCHANGED <<current_mode, current_session, cellVars, collection_running, shutdown,
                  dumpVars, ringVars, senders_gone, events>>
  BY DEF Untouched
<1>2. LineInv'
  BY DEF IInv, LineInv, LineOK, LineShape
<1>3. DumpInv' /\ RingInv' /\ ChunkInv'
  BY <1>1, Kept DEF IInv, ringVars
<1>4. LoopOK'
  BY <1>1 DEF IInv, LoopOK
<1>5. HandleOK'
  <2>1. commands' \in Seq({"start", "q"})
    BY SeqTyped DEF IInv, HandleOK
  <2> QED BY <1>1, <2>1 DEF IInv, HandleOK, cellVars
<1>6. BufInv'
  <2>1. CASE at' = at /\ from' = from /\ (drop_next_chunk' = drop_next_chunk \/ drop_next_chunk' = TRUE)
    <3>1. BufOK'
      BY <2>1 DEF IInv, BufInv, BufOK
    <3>2. BufferClean'
      BY <2>1 DEF IInv, BufInv, BufferClean, Delimited
    <3> QED BY <3>1, <3>2 DEF BufInv
  <2>2. CASE at' \in at..(Len(sent) + 1) /\ from' = at' /\ drop_next_chunk' = TRUE
    BY <2>2, BufferEmpty
  <2> QED BY <2>1, <2>2
<1> QED BY <1>2, <1>3, <1>4, <1>5, <1>6 DEF IInv

\* Every step of the loop keeps the invariant.
LEMMA TaskInv ==
  ASSUME IInv, TaskStep
  PROVE  IInv'
<1>0. /\ info_request \in BOOLEAN /\ collecting \in BOOLEAN /\ fresh \in BOOLEAN
      /\ at \in Nat /\ Len(sent) \in Nat /\ at <= Len(sent) + 1
  <2>1. sent \in Seq(Pieces)
    BY DEF IInv, LineInv, LineOK
  <2> QED BY <2>1, SeqTyped DEF IInv, LineInv, LineOK, BufInv, BufOK, HandleOK
<1>1. CASE LoopTop
  BY <1>1, LoopTopStep
<1>2. CASE Read
  BY <1>2, ReadStep
<1>3. CASE ReadCut
  BY <1>3, ReadCutStep
<1>4. CASE Disconnect
  BY <1>4, LeaveStep DEF Disconnect
<1>5. CASE ShutdownSeen
  BY <1>5, LeaveStep DEF ShutdownSeen
<1>6. CASE MetricsTick
  <2>1. /\ Untouched /\ UNCHANGED <<armed, sent, mid, link>> /\ collecting' = collecting
        /\ pc' = "top" /\ at' = at /\ from' = from /\ drop_next_chunk' = drop_next_chunk
        /\ fresh' = FALSE /\ commands' = commands /\ info_request' = info_request
    BY <1>6 DEF MetricsTick, lineVars
  <2> QED BY <1>0, <2>1, ArmStep
<1>7. CASE WriteCommand
  <2>1. /\ Untouched /\ UNCHANGED <<armed, sent, mid, link>> /\ collecting' \in BOOLEAN
        /\ pc' = "top" /\ at' = at /\ from' = from /\ drop_next_chunk' = TRUE
        /\ fresh' = FALSE /\ info_request' = info_request
        /\ commands # <<>> /\ commands' = Tail(commands)
    BY <1>0, <1>7 DEF WriteCommand
  <2> QED BY <1>0, <2>1, ArmStep
<1>8. ASSUME BeginExchange, info_request' \in BOOLEAN
      PROVE  IInv'
  <2>1. /\ Untouched /\ UNCHANGED <<armed, sent, mid, link>> /\ collecting' = collecting
        /\ pc' = "exchange" /\ at' = at /\ from' = at /\ drop_next_chunk' = TRUE
        /\ fresh' = FALSE /\ commands' = commands
    BY <1>8 DEF BeginExchange, lineVars
  <2>2. at' \in at..(Len(sent) + 1) /\ from' = at'
    BY <1>0, <2>1
  <2> QED BY <1>0, <1>8, <2>1, <2>2, ArmStep
<1>9. CASE Reverify
  BY <1>0, <1>8, <1>9 DEF Reverify
<1>10. CASE AnswerInfo
  <2>1. CASE collection_running
    <3>1. /\ Untouched /\ UNCHANGED <<armed, sent, mid, link>> /\ collecting' = collecting
          /\ pc' = "top" /\ at' = at /\ from' = from /\ drop_next_chunk' = drop_next_chunk
          /\ fresh' = FALSE /\ commands' = commands /\ info_request' = FALSE
      BY <1>10, <2>1 DEF AnswerInfo, lineVars
    <3> QED BY <1>0, <3>1, ArmStep
  <2>2. CASE ~collection_running
    BY <1>8, <1>10, <2>2 DEF AnswerInfo
  <2> QED BY <2>1, <2>2
<1>11. CASE Exchange
  <2>1. /\ Untouched /\ UNCHANGED <<armed, sent, mid, link>> /\ collecting' = collecting
        /\ pc' = "top" /\ at' \in at..(Len(sent) + 1) /\ from' = at'
        /\ drop_next_chunk' = drop_next_chunk /\ pc = "exchange"
        /\ fresh' = fresh /\ commands' = commands /\ info_request' = info_request
    BY <1>11 DEF Exchange, lineVars
  <2>2. drop_next_chunk' = TRUE
    BY <2>1 DEF IInv, BufInv, BufOK, BufferClean
  <2> QED BY <1>0, <2>1, <2>2, ArmStep
<1>12. CASE Connect
  <2>1. /\ UNCHANGED <<armed, lineVars, cellVars, flagVars, ringVars, senders_gone, events>>
        /\ pc' = "top" /\ at' \in at..(Len(sent) + 1) /\ from' = at' /\ fresh' = FALSE
        /\ drop_next_chunk' = TRUE /\ current_mode' = output_mode
        /\ current_session' = session_file
    BY <1>12 DEF Connect
  <2>2. output_mode \in Modes /\ session_file \in {0} \cup Files
    BY DEF IInv, HandleOK
  <2>3. DumpInv'
    BY <1>12, <2>2, SyncSinkSound DEF Connect, IInv, DumpInv
  <2>4. LoopOK'
    BY <2>1, <2>2 DEF IInv, LoopOK
  <2>5. LineInv' /\ HandleOK' /\ RingInv' /\ ChunkInv'
    BY <2>1, Kept DEF IInv, lineVars, ringVars
  <2>6. BufInv'
    BY <2>1, BufferEmpty DEF lineVars
  <2> QED BY <2>3, <2>4, <2>5, <2>6 DEF IInv
<1>13. CASE NeverOpened
  <2>1. /\ pc' = "gone" /\ UNCHANGED <<armed, current_mode, current_session, lineVars, bufVars>>
        /\ UNCHANGED <<cellVars, flagVars, dumpVars, ringVars, senders_gone, events>>
    BY <1>13 DEF NeverOpened
  <2>2. LoopOK'
    BY <2>1 DEF IInv, LoopOK
  <2>3. LineInv' /\ HandleOK' /\ DumpInv' /\ RingInv' /\ ChunkInv'
    BY <2>1, Kept DEF IInv, lineVars, ringVars
  <2>4. BufInv'
    BY <2>1 DEF IInv, BufInv, BufOK, BufferClean, Delimited, lineVars, bufVars
  <2> QED BY <2>2, <2>3, <2>4 DEF IInv
<1> QED BY <1>1, <1>2, <1>3, <1>4, <1>5, <1>6, <1>7, <1>9, <1>10, <1>11, <1>12, <1>13
        DEF TaskStep

-----------------------------------------------------------------------------
(***************************************************************************)
(* The clients.                                                            *)
(***************************************************************************)
SocketStates == {"none", "refused", "admitted", "open", "sending", "closing", "closed"}

\* The types of the clients' variables, and of the oldest frame of the ring.
LEMMA RingTypes ==
  ASSUME IInv
  PROVE  /\ sock \in [Clients -> SocketStates] /\ start \in [Clients -> Nat]
         /\ next \in [Clients -> Nat] /\ lost \in [Clients -> Nat] /\ got \in [Clients -> Seq(Nat)]
         /\ Len(published) \in Nat /\ Oldest \in 1..(Len(published) + 1)
<1>1. published \in Seq(Chunk) /\ Len(published) \in Nat
  BY SeqTyped DEF IInv, RingInv, SocketsOK
<1>2. Oldest \in 1..(Len(published) + 1)
  BY <1>1, RingAssumption DEF Oldest
<1> QED BY <1>1, <1>2 DEF IInv, RingInv, SocketsOK, SocketStates

\* A step of client c: the variables stay typed and the other clients where they are.
Others(c) ==
  /\ sock' \in [Clients -> SocketStates] /\ start' \in [Clients -> Nat]
  /\ next' \in [Clients -> Nat] /\ lost' \in [Clients -> Nat] /\ got' \in [Clients -> Seq(Nat)]
  /\ \A d \in Clients \ {c} : /\ sock'[d] = sock[d] /\ start'[d] = start[d] /\ next'[d] = next[d]
                            /\ got'[d] = got[d] /\ lost'[d] = lost[d]

\* Only the cursor and the account of the client that steps are at stake.
LEMMA OneClient ==
  ASSUME IInv, NEW c \in Clients, UNCHANGED <<published, senders_gone>>,
         Others(c), CursorOf(c)', AccountOf(c)'
  PROVE  RingInv'
<1>1. SocketsOK'
  BY DEF Others, IInv, RingInv, SocketsOK, SocketStates
<1>2. ASSUME NEW d \in Clients \ {c}
      PROVE  CursorOf(d)' /\ AccountOf(d)'
  <2>1. /\ sock'[d] = sock[d] /\ start'[d] = start[d] /\ next'[d] = next[d]
        /\ got'[d] = got[d] /\ lost'[d] = lost[d]
    BY DEF Others
  <2>2. CursorOf(d) /\ AccountOf(d)
    BY DEF IInv, RingInv, Cursors, Accounted, AccountOf
  <2>3. CursorOf(d)'
    BY <2>1, <2>2 DEF CursorOf, Stream!Mark
  <2> QED BY <2>1, <2>2, <2>3 DEF AccountOf
<1>3. Cursors'
  BY <1>2 DEF Cursors
<1>4. Accounted'
  BY <1>2 DEF Accounted, AccountOf
<1> QED BY <1>1, <1>3, <1>4 DEF RingInv

\* Every step of a client, or of the loop that serves it, keeps cursors and accounts.
LEMMA ClientStep ==
  ASSUME IInv, NEW c \in Clients, SocketStep(c), UNCHANGED <<published, senders_gone>>
  PROVE  RingInv'
<1>1. /\ sock \in [Clients -> SocketStates] /\ start \in [Clients -> Nat]
      /\ next \in [Clients -> Nat] /\ lost \in [Clients -> Nat] /\ got \in [Clients -> Seq(Nat)]
      /\ Len(published) \in Nat /\ Oldest \in 1..(Len(published) + 1)
  BY RingTypes
<1>2. /\ sock[c] \in SocketStates /\ start[c] \in Nat /\ next[c] \in Nat /\ lost[c] \in Nat
      /\ got[c] \in Seq(Nat) /\ Len(got[c]) \in Nat /\ senders_gone' \in BOOLEAN
  BY <1>1, SeqTyped DEF IInv, RingInv, SocketsOK
<1>3. CursorOf(c) /\ AccountOf(c)
  BY DEF IInv, RingInv, Cursors, Accounted, AccountOf
<1>4. ASSUME NEW k \in {"refused", "closing", "closed"},
             sock' = [sock EXCEPT ![c] = k], UNCHANGED <<start, next, got, lost>>,
             k = "closing" => sock[c] = "open"
      PROVE  RingInv'
  <2>1. sock'[c] = k /\ Others(c)
    BY <1>1, <1>4 DEF Others, SocketStates
  <2>2. CursorOf(c)' /\ AccountOf(c)'
    BY <1>2, <1>3, <1>4, <2>1 DEF CursorOf, AccountOf, Stream!Mark
  <2> QED BY <2>1, <2>2, OneClient
<1>5. CASE Admit(c)
  <2>1. CASE output_mode = "dump"
    BY <1>4, <1>5, <2>1 DEF Admit
  <2>2. CASE output_mode # "dump"
    <3>1. /\ sock[c] = "none" /\ sock' = [sock EXCEPT ![c] = "admitted"]
          /\ UNCHANGED <<start, next, got, lost>>
      BY <1>5, <2>2 DEF Admit
    <3>2. sock'[c] = "admitted" /\ Others(c)
      BY <1>1, <3>1 DEF Others, SocketStates
    <3>3. CursorOf(c)' /\ AccountOf(c)'
      BY <1>3, <3>1, <3>2 DEF CursorOf, AccountOf
    <3> QED BY <3>2, <3>3, OneClient
  <2> QED BY <2>1, <2>2
<1>6. CASE Subscribe(c)
  <2>1. /\ sock[c] = "admitted" /\ sock' = [sock EXCEPT ![c] = "open"]
        /\ start' = [start EXCEPT ![c] = Len(published) + 1]
        /\ next' = [next EXCEPT ![c] = Len(published) + 1]
        /\ got' = got /\ lost' = lost
    BY <1>6 DEF Subscribe
  <2>2. /\ sock'[c] = "open" /\ start'[c] = Len(published) + 1 /\ next'[c] = Len(published) + 1
        /\ Others(c)
    BY <1>1, <2>1 DEF Others, SocketStates
  <2>3. CursorOf(c)' /\ AccountOf(c)'
    BY <1>1, <1>3, <2>1, <2>2 DEF CursorOf, AccountOf, Stream!Mark
  <2> QED BY <2>2, <2>3, OneClient
<1>7. CASE Receive(c)
  <2>1. /\ sock[c] = "open" /\ next[c] \in Oldest..Len(published)
        /\ sock' = [sock EXCEPT ![c] = "sending"] /\ next' = [next EXCEPT ![c] = next[c] + 1]
        /\ start' = start /\ got' = got /\ lost' = lost
    BY <1>7 DEF Receive
  <2>2. sock'[c] = "sending" /\ next'[c] = next[c] + 1 /\ Others(c)
    BY <1>1, <1>2, <2>1 DEF Others, SocketStates
  <2>3. CursorOf(c)' /\ AccountOf(c)'
    BY <1>1, <1>2, <1>3, <2>1, <2>2 DEF CursorOf, AccountOf, Stream!Mark
  <2> QED BY <2>2, <2>3, OneClient
<1>8. CASE Lagged(c)
  <2>1. /\ sock[c] = "open" /\ next[c] < Oldest /\ next' = [next EXCEPT ![c] = Oldest]
        /\ lost' = [lost EXCEPT ![c] = lost[c] + Oldest - next[c]]
        /\ sock' = sock /\ start' = start /\ got' = got
    BY <1>8 DEF Lagged
  <2>2. Oldest \in Nat /\ lost[c] + Oldest - next[c] \in Nat
    BY <1>1, <1>2, <2>1
  <2>3. next'[c] = Oldest /\ lost'[c] = lost[c] + Oldest - next[c] /\ Others(c)
    BY <1>1, <2>1, <2>2 DEF Others
  <2>4. CursorOf(c)'
    <3>1. Stream!Mark(c)' = Stream!Mark(c) /\ Stream!Mark(c) \in Int
      BY <1>2, <2>1 DEF Stream!Mark
    <3>2. Stream!Mark(c) < next[c] /\ start[c] >= 1
      BY <1>3, <2>1 DEF CursorOf
    <3> QED BY <1>1, <1>2, <2>1, <2>3, <3>1, <3>2 DEF CursorOf
  <2>5. AccountOf(c)'
    <3>1. next[c] - start[c] = Len(got[c]) + lost[c]
      BY <1>2, <1>3, <2>1 DEF AccountOf
    <3>2. next[c] \in Int /\ start[c] \in Int /\ lost[c] \in Int /\ Len(got[c]) \in Int /\ Oldest \in Int
      BY <1>2, <2>2
    <3>3. PICK o \in Int, n \in Int, s \in Int, g \in Int, l \in Int :
            o = Oldest /\ n = next[c] /\ s = start[c] /\ g = Len(got[c]) /\ l = lost[c]
      BY <3>2
    <3>4. n - s = g + l
      BY <3>1, <3>3
    <3>5. o - s = g + (l + o - n)
      BY <3>4
    <3>6. Oldest - start[c] = Len(got[c]) + (lost[c] + Oldest - next[c])
      BY <3>3, <3>5
    <3> QED BY <1>2, <2>1, <2>2, <2>3, <3>6 DEF AccountOf
  <2> QED BY <2>3, <2>4, <2>5, OneClient
<1>9. CASE Sent(c)
  <2>1. /\ sock[c] = "sending" /\ sock' = [sock EXCEPT ![c] = "open"]
        /\ got' = [got EXCEPT ![c] = Append(got[c], next[c] - 1)]
        /\ start' = start /\ next' = next /\ lost' = lost
    BY <1>9 DEF Sent
  <2>2. next[c] - 1 \in Nat
    BY <1>2, <1>3, <2>1 DEF CursorOf
  <2>3. /\ Append(got[c], next[c] - 1) \in Seq(Nat)
        /\ Len(Append(got[c], next[c] - 1)) = Len(got[c]) + 1
        /\ Append(got[c], next[c] - 1)[Len(got[c]) + 1] = next[c] - 1
        /\ Append(got[c], next[c] - 1) # <<>>
    BY <1>2, <2>2, AppendProperties
  <2>4. /\ sock'[c] = "open" /\ got'[c] = Append(got[c], next[c] - 1)
        /\ Others(c)
    BY <1>1, <2>1, <2>3 DEF Others, SocketStates
  <2>5. CursorOf(c)'
    <3>1. Stream!Mark(c)' = next[c] - 1
      BY <2>3, <2>4, <1>2 DEF Stream!Mark
    <3> QED BY <1>2, <1>3, <2>1, <2>4, <3>1 DEF CursorOf
  <2>6. AccountOf(c)'
    <3>1. next[c] - start[c] = Len(got[c]) + lost[c] + 1
      BY <1>2, <1>3, <2>1 DEF AccountOf
    <3>2. Len(got[c])' = Len(got[c]) + 1
      BY <2>3, <2>4
    <3>3. next[c] - start[c] = Len(got[c])' + lost[c]
      <4>1. next[c] \in Int /\ start[c] \in Int /\ lost[c] \in Int /\ Len(got[c]) \in Int
        BY <1>2
      <4> QED BY <3>1, <3>2, <4>1
    <3> QED BY <1>2, <2>1, <2>4, <3>2, <3>3 DEF AccountOf
  <2> QED BY <2>4, <2>5, <2>6, OneClient
<1>10. CASE ClientLeaves(c) \/ ChannelClosed(c) \/ ShutdownArm(c) \/ CloseSent(c)
  BY <1>4, <1>10 DEF ClientLeaves, ChannelClosed, ShutdownArm, CloseSent, SocketStates
<1> QED BY <1>5, <1>6, <1>7, <1>8, <1>9, <1>10 DEF SocketStep

-----------------------------------------------------------------------------
(***************************************************************************)
(* The theorems.                                                           *)
(***************************************************************************)
\* The inductive invariant holds in every reachable state: of the board and the link, the
\* handlers, the select! loop of the serial task, and the loops of the WebSockets.
THEOREM IInvHolds == Spec => []IInv
<1>1. Init => IInv
  <2> SUFFICES ASSUME Init PROVE IInv
    OBVIOUS
  <2> USE SinkAssumption, RingAssumption, FramerAssumption DEF Init
  <2>1. sent \in Seq(Pieces) /\ Len(sent) = 0 /\ published \in Seq(Chunk) /\ Len(published) = 0
    OBVIOUS
  <2>2. LineInv /\ BufInv
    <3>1. LineInv
      <4>1. \A k \in 1..0 : FALSE
        OBVIOUS
      <4>2. LineShape
        BY <2>1, <4>1 DEF LineShape
      <4> QED BY <2>1, <4>2 DEF LineInv, LineOK
    <3>2. BufOK
      <4>1. from = 1 /\ at = 1 /\ fresh \in BOOLEAN /\ drop_next_chunk \in BOOLEAN
        OBVIOUS
      <4>2. Len(sent) = 0
        BY <2>1
      <4> HIDE DEF Init
      <4> QED BY <4>1, <4>2 DEF BufOK
    <3>3. \A k \in 1..0 : FALSE
      OBVIOUS
    <3>4. BufferClean
      BY <3>3 DEF BufferClean
    <3> QED BY <3>1, <3>2, <3>4 DEF BufInv
  <2>3. LoopOK /\ HandleOK
    <3>1. commands \in Seq({"start", "q"})
      OBVIOUS
    <3>2. 1 \in Files /\ 0 \in 0..MaxEvents
      BY DEF Files
    <3>3. output_mode \in Modes /\ current_mode \in Modes
      OBVIOUS
    <3> QED BY <3>1, <3>2, <3>3 DEF LoopOK, HandleOK
  <2>4. DumpInv
    <3>1. sink \in Sink /\ Sound(sink) /\ disk \in [Files -> File] /\ fails \in 0..MaxFails
          /\ \A n \in Files : ~disk[n].footer
      BY OpenedTyped
    <3> QED BY <3>1 DEF DumpInv, DumpOK, SinkSound, Sound, Sink, ReadableIsComplete
  <2>5. RingInv
    <3>1. \A c \in Clients : sock[c] = "none" /\ start[c] = 0 /\ got[c] = <<>> /\ lost[c] = 0
      OBVIOUS
    <3>2. SocketsOK
      <4>1. <<>> \in Seq(Nat)
        OBVIOUS
      <4> QED BY <2>1, <4>1 DEF SocketsOK
    <3> QED BY <3>1, <3>2 DEF RingInv, Cursors, CursorOf, Accounted
  <2>6. ChunkInv
    BY <2>1 DEF ChunkInv, PublishedSent, FramesAligned
  <2> QED BY <2>2, <2>3, <2>4, <2>5, <2>6 DEF IInv
<1>2. IInv /\ [Next]_vars => IInv'
  <2> SUFFICES ASSUME IInv, [Next]_vars PROVE IInv'
    OBVIOUS
  <2>1. CASE Environment \/ HandlerWrite \/ TaskStep
    BY <2>1, EnvironmentStep, HandlerStep, TaskInv, Zenon
  <2>2. CASE SocketsStep
    <3>1. UNCHANGED <<published, lineVars, bufVars, loopVars, cellVars, flagVars, dumpVars, events>>
      BY <2>2 DEF SocketsStep
    <3>2. LineInv' /\ BufInv' /\ LoopOK' /\ HandleOK' /\ DumpInv' /\ ChunkInv'
      <4>1. UNCHANGED <<pc, sent>>
        BY <3>1 DEF loopVars, lineVars
      <4> QED BY <3>1, <4>1, Kept DEF IInv
    <3>3. ASSUME NEW c \in Clients, SocketStep(c), UNCHANGED senders_gone
          PROVE  RingInv'
      BY <3>1, <3>3, ClientStep
    <3>4. ASSUME senders_gone' = TRUE, UNCHANGED socketVars
          PROVE  RingInv'
      <4>1. SocketsOK'
        BY <3>1, <3>4 DEF IInv, RingInv, SocketsOK, socketVars
      <4>2. Cursors' /\ Accounted'
        BY <3>1, <3>4 DEF IInv, RingInv, Cursors, CursorOf, Accounted, Stream!Mark, socketVars
      <4> QED BY <4>1, <4>2 DEF RingInv
    <3>5. RingInv'
      BY <2>2, <3>3, <3>4 DEF SocketsStep
    <3> QED BY <3>2, <3>5 DEF IInv
  <2>3. CASE UNCHANGED vars
    <3>1. UNCHANGED <<lineVars, bufVars, loopVars, cellVars, flagVars, dumpVars, ringVars,
                      senders_gone, events, pc, sent, published>>
      BY <2>3 DEF vars, loopVars, lineVars, ringVars
    <3> QED BY <3>1, Kept DEF IInv
  <2> QED BY <2>1, <2>2, <2>3 DEF Next
<1> QED BY <1>1, <1>2, PTL DEF Spec

\* Every variable keeps its type; in particular the buffer is always a stretch of the line,
\* and the loops' cursors stay numbers although they are moved back and forth by the ring.
THEOREM TypeCorrect == Spec => []PipelineTypeOK
<1>1. IInv => PipelineTypeOK
  BY DEF IInv, PipelineTypeOK, LineInv, BufInv, DumpInv, RingInv
<1> QED BY <1>1, IInvHolds, PTL

\* No published chunk begins within a frame or runs past a delimiter, whichever arm of the
\* select! interrupts the read, on every line the board can send (src/src/serial.rs:752-868).
THEOREM ChunksAreAligned == Spec => []FramesAligned
<1>1. IInv => FramesAligned
  BY DEF IInv, ChunkInv
<1> QED BY <1>1, IInvHolds, PTL

\* A dump file with a footer has every row that was pushed to its sink, in order, however
\* many writes fail (src/src/parquet_sink.rs:105-138).
THEOREM ReadableFilesComplete == Spec => []ReadableIsComplete
<1>1. IInv => ReadableIsComplete
  BY DEF IInv, DumpInv
<1> QED BY <1>1, IInvHolds, PTL

\* Every frame since a client's subscribe was sent to it, reported to it as lagged, is being
\* sent, or is ahead of it, for every capacity of the ring (src/src/routes/ws.rs:94-122).
THEOREM ClientsAreAccounted == Spec => []Accounted
<1>1. IInv => Accounted
  BY DEF IInv, RingInv
<1> QED BY <1>1, IInvHolds, PTL

-----------------------------------------------------------------------------
(***************************************************************************)
(* The refinement.                                                         *)
(***************************************************************************)
\* A step that leaves the clients and the channel alone is a stutter for the clients.
LEMMA Stutters ==
  ASSUME UNCHANGED ringVars
  PROVE  UNCHANGED Stream!vars
BY DEF Stream!vars, Receivers, ringVars, socketVars

\* A chunk that the loop publishes is a broadcast.
LEMMA Broadcasts ==
  ASSUME IInv, UNCHANGED socketVars, NEW chunk, Publish(chunk)
  PROVE  [Stream!Next]_(Stream!vars)
<1>1. CASE published' = published
  BY <1>1, Stutters DEF ringVars
<1>2. CASE published' = Append(published, chunk)
  <2>1. published \in Seq(Chunk)
    BY DEF IInv, RingInv, SocketsOK
  <2>2. /\ Len(published') = Len(published) + 1
        /\ \A k \in 1..Len(published) : published'[k] = published[k]
    BY <1>2, <2>1
  <2>3. UNCHANGED <<start, got, Receivers>>
    BY DEF socketVars, Receivers
  <2> QED BY <2>2, <2>3 DEF Stream!Next, Stream!Broadcast
<1> QED BY <1>1, <1>2 DEF Publish

\* The loop of the serial task only ever broadcasts.
LEMMA TaskRefines ==
  ASSUME IInv, TaskStep
  PROVE  [Stream!Next]_(Stream!vars)
<1>1. CASE UNCHANGED ringVars
  BY <1>1, Stutters
<1>2. ASSUME NEW chunk, Consume(chunk), UNCHANGED socketVars
      PROVE  [Stream!Next]_(Stream!vars)
  <2>1. CASE Publish(chunk)
    BY <1>2, <2>1, Broadcasts
  <2>2. CASE UNCHANGED published
    BY <1>2, <2>2, Stutters DEF ringVars
  <2> QED BY <1>2, <2>1, <2>2 DEF Consume
<1>3. CASE Read
  <2>1. UNCHANGED socketVars
    BY <1>3 DEF Read
  <2>2. CASE Delimited(at)
    BY <1>2, <1>3, <2>1, <2>2 DEF Read
  <2>3. CASE ~Delimited(at)
    BY <1>1, <1>3, <2>1, <2>3 DEF Read, ringVars
  <2> QED BY <2>2, <2>3
<1>4. CASE ReadCut
  BY <1>2, <1>4 DEF ReadCut
<1>5. CASE LoopTop \/ Connect \/ NeverOpened \/ Disconnect \/ ShutdownSeen
  BY <1>1, <1>5 DEF LoopTop, Connect, NeverOpened, Disconnect, ShutdownSeen, Leave
<1>6. CASE MetricsTick \/ WriteCommand \/ Reverify \/ AnswerInfo \/ Exchange
  BY <1>1, <1>6 DEF MetricsTick, WriteCommand, Reverify, AnswerInfo, Exchange, BeginExchange, Untouched
<1> QED BY <1>3, <1>4, <1>5, <1>6 DEF TaskStep

\* The steps of a client are a join, a delivery of a later frame, a leave, or invisible.
LEMMA ClientRefines ==
  ASSUME IInv, NEW c \in Clients, SocketStep(c), UNCHANGED published
  PROVE  [Stream!Next]_(Stream!vars)
<1> DEFINE In == {"open", "sending", "closing"}
<1>1. /\ sock \in [Clients -> SocketStates] /\ start \in [Clients -> Nat]
      /\ next \in [Clients -> Nat] /\ got \in [Clients -> Seq(Nat)] /\ Len(published) \in Nat
  BY RingTypes
<1>2. CursorOf(c)
  BY DEF IInv, RingInv, Cursors
<1>3. ASSUME NEW k \in SocketStates, sock' = [sock EXCEPT ![c] = k],
             k \in In <=> sock[c] \in In, UNCHANGED <<start, got>>
      PROVE  [Stream!Next]_(Stream!vars)
  <2>1. Receivers' = Receivers
    BY <1>1, <1>3 DEF Receivers
  <2> QED BY <1>3, <2>1 DEF Stream!vars
<1>4. ASSUME sock[c] \in In, sock' = [sock EXCEPT ![c] = "closed"], UNCHANGED <<start, got>>
      PROVE  [Stream!Next]_(Stream!vars)
  <2>1. c \in Receivers /\ Receivers' = Receivers \ {c}
    BY <1>1, <1>4 DEF Receivers
  <2>2. Stream!Leave(c)
    BY <1>4, <2>1 DEF Stream!Leave
  <2> QED BY <2>2 DEF Stream!Next
<1>5. CASE Admit(c)
  <2>1. sock[c] = "none" /\ UNCHANGED <<start, got>>
    BY <1>5 DEF Admit
  <2>2. \E k \in {"refused", "admitted"} : sock' = [sock EXCEPT ![c] = k]
    BY <1>5 DEF Admit
  <2> QED BY <1>3, <2>1, <2>2 DEF SocketStates
<1>6. CASE Subscribe(c)
  <2>1. Receivers' = Receivers \cup {c}
    BY <1>1, <1>6 DEF Subscribe, Receivers
  <2>2. Stream!Join(c)
    BY <1>2, <1>6, <2>1 DEF Subscribe, CursorOf, Stream!Join
  <2> QED BY <2>2 DEF Stream!Next
<1>7. CASE Receive(c)
  BY <1>3, <1>7 DEF Receive, SocketStates
<1>8. CASE Lagged(c)
  BY <1>8 DEF Lagged, Stream!vars, Receivers
<1>9. CASE Sent(c)
  <2>1. /\ sock[c] = "sending" /\ sock' = [sock EXCEPT ![c] = "open"] /\ start' = start
        /\ got' = [got EXCEPT ![c] = Append(@, next[c] - 1)]
    BY <1>9 DEF Sent
  <2>2. Receivers' = Receivers /\ c \in Receivers
    BY <1>1, <2>1 DEF Receivers
  <2>3. Stream!Mark(c) \in Nat
    BY <1>1, <1>2, <2>1 DEF CursorOf, Stream!Mark
  <2>4. next[c] - 1 \in 1..Len(published) /\ next[c] - 1 > Stream!Mark(c)
    BY <1>1, <1>2, <2>1, <2>3 DEF CursorOf
  <2>5. Stream!Deliver(c)
    BY <2>1, <2>2, <2>4 DEF Stream!Deliver
  <2> QED BY <2>5 DEF Stream!Next
<1>10. CASE ShutdownArm(c)
  BY <1>3, <1>10 DEF ShutdownArm, SocketStates
<1>11. CASE ClientLeaves(c) \/ ChannelClosed(c) \/ CloseSent(c)
  BY <1>4, <1>11 DEF ClientLeaves, ChannelClosed, CloseSent
<1> QED BY <1>5, <1>6, <1>7, <1>8, <1>9, <1>10, <1>11 DEF SocketStep

\* What the clients see is a LossyStream: after it joined a client receives frames each at
\* most once and in order, and after it left nothing (src/src/routes/ws.rs:57-136).
THEOREM ImplementsLossyStream == Spec => Lossy
<1>1. Init => Stream!Init
  BY DEF Init, Stream!Init, Receivers
<1>2. IInv /\ [Next]_vars => [Stream!Next]_(Stream!vars)
  <2> SUFFICES ASSUME IInv, [Next]_vars PROVE [Stream!Next]_(Stream!vars)
    OBVIOUS
  <2>1. CASE Environment \/ HandlerWrite
    BY <2>1, Stutters DEF Environment, HandlerWrite
  <2>2. CASE TaskStep
    BY <2>2, TaskRefines
  <2>3. CASE SocketsStep
    <3>1. published' = published
      BY <2>3 DEF SocketsStep
    <3>2. CASE UNCHANGED socketVars
      BY <3>1, <3>2, Stutters DEF ringVars
    <3> QED BY <2>3, <3>1, <3>2, ClientRefines DEF SocketsStep
  <2>4. CASE UNCHANGED vars
    BY <2>4, Stutters DEF vars
  <2> QED BY <2>1, <2>2, <2>3, <2>4 DEF Next
<1> QED BY <1>1, <1>2, IInvHolds, PTL DEF Spec, Lossy, Stream!Spec

=============================================================================
