----------------------------- MODULE EventStream -----------------------------
(***************************************************************************)
(* One dispatch.run call from both ends: the run that emits events         *)
(* (EventRing), the frames its notifications become, large ones in chunks, *)
(* the HTTP response they travel in, and the client that puts them         *)
(* together again (src/internal/broker/rpc.go, server.go, client.go).      *)
(***************************************************************************)
EXTENDS EventRing

CONSTANTS
  Sizes,           \* payload sizes of a codex event; a task.* event is small
  SmallSize,
  MaxMessageSize,
  ChunkPayload,    \* maxTaskEventChunkPayloadBytes
  Envelope,        \* bytes of a frame around its payload
  Digits(_),       \* bytes a chunk's index or total adds to them
  PipeCap,         \* bound: frames under way
  MaxFaults        \* bound: frames lost, repeated or swapped on the way

ASSUME StreamAssumption ==
  /\ Sizes \subseteq Nat \ {0} /\ SmallSize \in Sizes /\ PipeCap \in Nat \ {0} /\ MaxFaults \in Nat
  /\ ChunkPayload \in Nat \ {0} /\ Envelope \in Nat /\ MaxMessageSize \in Nat

(* There is room for a chunk of one byte, wherever it comes: in the code   *)
(* 4 MiB for a few hundred bytes.                                          *)
ASSUME RoomAssumption ==
  \A z \in Sizes : \A i, t \in 0 .. z :
    Digits(i) \in Nat /\ Envelope + Digits(i) + Digits(t) + 4 <= MaxMessageSize

VARIABLES
  cut,        \* the loop of marshalTaskEventChunks over the event at hand
  outgoing,   \* frames the handler has still to write
  pipe,       \* the response body: frames written and not yet read
  open,       \* may the body still grow?
  call,       \* the client: "posting", "reading", or how the call ended
  chunks,     \* taskEventReassembler.chunks
  delivered,  \* what onEvent was given
  sizes,      \* history: payload sizes of the events, in order of emission
  faults,
  server      \* the handler: "handling", "refusing", "crashed"

streamVars == <<cut, outgoing, pipe, open, call, chunks, delivered, sizes, faults, server>>
allVars == <<vars, streamVars>>

Least(a, b) == IF a < b THEN a ELSE b
Ceiling(a, b) == (a + b - 1) \div b

(* No loop is under way. *)
NoCut == [size |-> 0, total |-> 0, index |-> 0, start |-> 0, frames |-> <<>>]

StreamInit ==
  /\ Init
  /\ cut = NoCut /\ outgoing = <<>> /\ pipe = <<>> /\ open = TRUE
  /\ call = "posting"
  /\ chunks = <<>> /\ delivered = <<>>
  /\ sizes = <<>>
  /\ faults = 0 /\ server = "handling"

-----------------------------------------------------------------------------
(* Byte k of event n, and the payload of the event at hand. *)
Payload(n) == [k \in 1 .. sizes[n] |-> <<n, k>>]
AtHand == Payload(Len(sizes))

(* What a frame takes of the limit: an event's payload travels as it is, a *)
(* chunk's in base64.  An answer or an error is not cut, whatever its      *)
(* size, and taken to be short.                                            *)
FrameSize(f) ==
  IF f.is = "event" THEN Envelope + Len(f.payload)
  ELSE Envelope + Digits(f.index) + Digits(f.total) + 4 * Ceiling(Len(f.payload), 3)

TooLarge(f) == f.is \in {"event", "chunk"} /\ FrameSize(f) > MaxMessageSize

(* MarshalNotificationFrames: a frame of the whole event, if it fits. *)
EventFrame == [is |-> "event", seq |-> event.seq, kind |-> event.kind, payload |-> AtHand]

(* Otherwise marshalTaskEventChunks goes over the payload in pieces of one *)
(* size.                                                                   *)
CutFrom(size) ==
  [size |-> size, total |-> Ceiling(Len(AtHand), size), index |-> 0, start |-> 0, frames |-> <<>>]

Cutting == cut.size > 0
More == Cutting /\ cut.start < Len(AtHand)

ChunkFrame ==
  [is |-> "chunk", seq |-> event.seq, kind |-> event.kind, index |-> cut.index, total |-> cut.total,
   payload |-> SubSeq(AtHand, cut.start + 1, Least(cut.start + cut.size, Len(AtHand)))]

(* Mutant: the frames count the pieces of the size before. *)
HalvedTotalKept == [CutFrom(cut.size \div 2) EXCEPT !.total = cut.total]
(* A frame is too large: half the size, and from the start again. *)
Halved == CutFrom(cut.size \div 2)

-----------------------------------------------------------------------------
(* ServeHTTP admits the request, or turns it away: wrong credential, host  *)
(* or type, a body over MaxMessageSize, a broker that is gone.             *)
Post ==
  /\ call = "posting"
  /\ call' = "reading"
  /\ UNCHANGED <<vars, cut, outgoing, pipe, open, chunks, delivered, sizes, faults, server>>

PostRefused ==
  /\ call = "posting"
  /\ call' = "refused"
  /\ UNCHANGED <<vars, cut, outgoing, pipe, open, chunks, delivered, sizes, faults, server>>

(* The handler is at work: not before the call, not during a write.        *)
Handling == call \notin {"posting", "refused"} /\ outgoing = <<>> /\ server = "handling"

EmitEvent ==
  /\ Handling
  /\ \E k \in Kinds, n \in Sizes :
       /\ k = "task" => n = SmallSize
       /\ Produce(k)
       /\ sizes' = Append(sizes, n)
  /\ UNCHANGED <<cut, outgoing, pipe, open, call, chunks, delivered, faults, server>>

RecordEvent == Handling /\ AppendEvent /\ UNCHANGED streamVars

(* The notifier makes the frames, from a loop where need be: each step     *)
(* adds a frame or starts over.  A size of 1 is never halved, which would  *)
(* be an error: RoomAssumption.                                            *)
BeginCut ==
  /\ Handling /\ step = "notify" /\ ~Cutting
  /\ TooLarge(EventFrame)
  /\ cut' = CutFrom(ChunkPayload)
  /\ UNCHANGED <<vars, outgoing, pipe, open, call, chunks, delivered, sizes, faults, server>>

AddChunk ==
  /\ More /\ ~TooLarge(ChunkFrame)
  /\ cut' = [cut EXCEPT !.index = @ + 1, !.start = @ + cut.size, !.frames = Append(@, ChunkFrame)]
  /\ UNCHANGED <<vars, outgoing, pipe, open, call, chunks, delivered, sizes, faults, server>>

Halve ==
  /\ More /\ TooLarge(ChunkFrame) /\ cut.size > 1
  /\ cut' = Halved
  /\ UNCHANGED <<vars, outgoing, pipe, open, call, chunks, delivered, sizes, faults, server>>

(* It writes them one by one. *)
NotifyFrames ==
  /\ Handling /\ Notify
  /\ \/ ~Cutting /\ ~TooLarge(EventFrame) /\ outgoing' = <<EventFrame>>
     \/ Cutting /\ ~More /\ outgoing' = cut.frames
  /\ cut' = NoCut
  /\ UNCHANGED <<pipe, open, call, chunks, delivered, sizes, faults, server>>

WriteFrame ==
  /\ outgoing # <<>> /\ open /\ Len(pipe) < PipeCap
  /\ pipe' = Append(pipe, Head(outgoing))
  /\ outgoing' = Tail(outgoing)
  /\ UNCHANGED <<vars, cut, open, call, chunks, delivered, sizes, faults, server>>

(* The client has left: the error of the notifier is dropped, and the rest *)
(* of the frames with it.                                                  *)
WriteFails ==
  /\ outgoing # <<>> /\ ~open
  /\ outgoing' = <<>>
  /\ UNCHANGED <<vars, cut, pipe, open, call, chunks, delivered, sizes, faults, server>>

EndTask == Handling /\ (Finish \/ Evict) /\ UNCHANGED streamVars

(* The handler returns and dispatch writes its answer, as one frame.       *)
AnswerCall ==
  /\ Handling /\ Return
  /\ outgoing' = <<[is |-> "answer"]>>
  /\ UNCHANGED <<cut, pipe, open, call, chunks, delivered, sizes, faults, server>>

(* It may refuse the request before any run: bad parameters, a full table. *)
AnswerError ==
  /\ Handling /\ sizes = <<>> /\ step = "idle"
  /\ server' = "refusing"
  /\ outgoing' = <<[is |-> "error"]>>
  /\ UNCHANGED <<vars, cut, pipe, open, call, chunks, delivered, sizes, faults>>

EndBody ==
  /\ outgoing = <<>> /\ open
  /\ step = "over" \/ server = "refusing"
  /\ open' = FALSE
  /\ UNCHANGED <<vars, cut, outgoing, pipe, call, chunks, delivered, sizes, faults, server>>

(* The broker dies: of what it wrote a part arrives, and the last line of  *)
(* it may be cut.                                                          *)
Crash ==
  /\ server # "crashed" /\ open
  /\ server' = "crashed" /\ open' = FALSE
  /\ cut' = NoCut /\ outgoing' = <<>>
  /\ \E arrives \in 0 .. Len(pipe) :
       \/ pipe' = SubSeq(pipe, 1, arrives)
       \/ pipe' = Append(SubSeq(pipe, 1, arrives), [is |-> "cut"])
  /\ UNCHANGED <<vars, call, chunks, delivered, sizes, faults>>

(* What TCP does not do but the reassembler guards against. *)
WireFault ==
  /\ faults < MaxFaults
  /\ faults' = faults + 1
  /\ \E i \in 1 .. Len(pipe) :
       \/ pipe' = SubSeq(pipe, 1, i - 1) \o SubSeq(pipe, i + 1, Len(pipe))
       \/ pipe' = SubSeq(pipe, 1, i) \o SubSeq(pipe, i, Len(pipe))
       \/ i < Len(pipe) /\ pipe' = [pipe EXCEPT ![i] = pipe[i + 1], ![i + 1] = pipe[i]]
  /\ UNCHANGED <<vars, cut, outgoing, open, call, chunks, delivered, sizes, server>>

-----------------------------------------------------------------------------
(* The client's loop.  A call that ends closes the body; a line over the   *)
(* limit ends it, in ReadLine.                                             *)
EndCall(how) == call' = how /\ open' = FALSE /\ pipe' = <<>>

Line == Head(pipe)
Reads(kind) == call = "reading" /\ pipe # <<>> /\ Line.is = kind /\ ~TooLarge(Line)

ReadEvent ==
  /\ Reads("event")
  /\ pipe' = Tail(pipe)
  /\ delivered' = Append(delivered, [seq |-> Line.seq, kind |-> Line.kind, payload |-> Line.payload])
  /\ UNCHANGED <<vars, cut, outgoing, open, call, chunks, sizes, faults, server>>

(* addChunk.  The chunk_id is made of the task and the seq.  Of the parts  *)
(* of an assembly their number is kept, and what they join to.             *)
Known(c) == c.seq \in DOMAIN chunks
Received(c) == IF Known(c) THEN chunks[c.seq].parts ELSE 0
Joined(c) == (IF Known(c) THEN chunks[c.seq].payload ELSE <<>>) \o c.payload

(* Mutant: a chunk that came already is taken again. *)
RejectsGaps(c) ==
  \/ c.index > Received(c)
  \/ Known(c) /\ (chunks[c.seq].kind # c.kind \/ chunks[c.seq].total # c.total)
(* A gap, a duplicate, or other metadata than the first chunk had.         *)
Rejects(c) ==
  \/ c.index # Received(c)
  \/ Known(c) /\ (chunks[c.seq].kind # c.kind \/ chunks[c.seq].total # c.total)

Without(id) == [s \in DOMAIN chunks \ {id} |-> chunks[s]]
With(id, assembly) == [s \in DOMAIN chunks \cup {id} |-> IF s = id THEN assembly ELSE chunks[s]]

Forget(c) == Without(c.seq)

ReadChunk ==
  /\ Reads("chunk")
  /\ ~Rejects(Line)
  /\ pipe' = Tail(pipe)
  /\ IF Received(Line) + 1 = Line.total
     THEN /\ chunks' = Forget(Line)
          /\ delivered' = Append(delivered, [seq |-> Line.seq, kind |-> Line.kind,
                                             payload |-> Joined(Line)])
     ELSE /\ chunks' = With(Line.seq, [kind |-> Line.kind, total |-> Line.total,
                                       parts |-> Received(Line) + 1, payload |-> Joined(Line)])
          /\ UNCHANGED delivered
  /\ UNCHANGED <<vars, cut, outgoing, open, call, sizes, faults, server>>

ReadBadLine ==
  /\ call = "reading" /\ pipe # <<>>
  /\ TooLarge(Line) \/ (Line.is = "chunk" /\ Rejects(Line))
  /\ EndCall("error")
  /\ UNCHANGED <<vars, cut, outgoing, chunks, delivered, sizes, faults, server>>

(* A response bears the id of the call: an HTTP body has no other.  A line *)
(* that is cut does not decode.                                            *)
ReadAnswer ==
  /\ \/ Reads("answer") /\ EndCall("ok")
     \/ Reads("error") /\ EndCall("rpcerror")
     \/ Reads("cut") /\ EndCall("error")
  /\ UNCHANGED <<vars, cut, outgoing, chunks, delivered, sizes, faults, server>>

(* Mutant: the end of the body is taken for a pause. *)
AtEndNever == FALSE
AtEnd == pipe = <<>> /\ ~open

(* "broker closed response" *)
ReadEnd ==
  /\ call = "reading" /\ AtEnd
  /\ EndCall("closed")
  /\ UNCHANGED <<vars, cut, outgoing, chunks, delivered, sizes, faults, server>>

CtxEnds ==
  /\ call = "reading"
  /\ EndCall("cancelled")
  /\ UNCHANGED <<vars, cut, outgoing, chunks, delivered, sizes, faults, server>>

-----------------------------------------------------------------------------
Client == ReadEvent \/ ReadChunk \/ ReadBadLine \/ ReadAnswer \/ ReadEnd
Writer == WriteFrame \/ WriteFails
Handler == RecordEvent \/ BeginCut \/ AddChunk \/ Halve \/ NotifyFrames \/ AnswerCall \/ EndBody

StreamNext ==
  \/ Post \/ PostRefused \/ Client \/ CtxEnds
  \/ Writer \/ Handler \/ EmitEvent \/ EndTask \/ AnswerError
  \/ Crash \/ WireFault

(* Both loops go on; a run need not end, but does return when its task     *)
(* has (Dispatch, CancelledRunReturns).                                    *)
StreamSpec == StreamInit /\ [][StreamNext]_allVars
StreamFairSpec == StreamSpec /\ WF_allVars(Client) /\ WF_allVars(Writer) /\ WF_allVars(Handler)

-----------------------------------------------------------------------------
(* The type invariant.                                                     *)
StreamTypeOK ==
  /\ open \in BOOLEAN /\ server \in {"handling", "refusing", "crashed"}
  /\ call \in {"posting", "refused", "reading", "ok", "rpcerror", "error", "closed", "cancelled"}
  /\ sizes \in Seq(Sizes)
  /\ faults \in 0 .. MaxFaults
  /\ DOMAIN chunks \subseteq Nat
  /\ \A s \in DOMAIN chunks : chunks[s].parts \in 1 .. chunks[s].total - 1

(* No event reaches the callback in pieces, mixed or altered, even when    *)
(* frames are lost, repeated or swapped: it is as it was emitted.  Events  *)
(* of an evicted record share the seq 0, hence a chunk_id, and are safe    *)
(* only on a wire that keeps its order (client.go:253-303).                *)
WholeEvents ==
  \A i \in 1 .. Len(delivered) :
    delivered[i].seq # 0 \/ faults = 0 =>
      \E n \in 1 .. Len(sizes) :
        /\ delivered[i].payload = Payload(n)
        /\ n \in DOMAIN wire => delivered[i].seq = wire[n]

(* Unless the wire fails, the callback is given the events in the order of *)
(* emission without a gap, the broker's own frames are never rejected, and *)
(* a call that returns its result has been given every event: the answer   *)
(* does not overtake them (client.go:559-621, server.go:340-360).          *)
FaithfulWire ==
  faults = 0 =>
    /\ \A i \in 1 .. Len(delivered) : i <= Len(sizes) /\ delivered[i].payload = Payload(i)
    /\ call = "ok" => Len(delivered) = Len(sizes)
    /\ call = "error" => server = "crashed"

(* What one call shows of its task, from the record to the callback: the   *)
(* seqs sent are in order, events are whole, and on a sound wire complete. *)
StreamFaithful == TypeOK /\ StreamTypeOK /\ WireInOrder /\ WholeEvents /\ FaithfulWire

(* What the loop hands to the writer: no frame over the limit at which the *)
(* client's ReadLine gives the whole call up, and chunks numbered without  *)
(* a gap up to the total each of them names, none of them empty, however   *)
(* often and however late the size was halved.  And the loop never comes   *)
(* to a piece of one byte that is too large (rpc.go:158-209, 211-219).     *)
ChunksAgree ==
  /\ \A i \in 1 .. Len(outgoing) : LET f == outgoing[i] IN
       /\ ~TooLarge(f)
       /\ f.is = "chunk" =>
            /\ f.payload # <<>>
            /\ f.total = outgoing[Len(outgoing)].total
            /\ f.index + 1 + Len(outgoing) - i = f.total
  /\ More /\ TooLarge(ChunkFrame) => cut.size > 1

(* A call ends once its handler has answered or the broker has died.       *)
CallEnds == call = "reading" /\ (step = "over" \/ server # "handling") ~> call # "reading"

=============================================================================
