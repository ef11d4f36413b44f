---------------------------- MODULE StreamBuffer ----------------------------
(***************************************************************************)
(* One stream of one request on the worker that consumes it:               *)
(* mstar/streaming/stream_buffer.py and chunk_policy.py, the calls of      *)
(* worker/stream_buffers.py, and the consumer node's input slots           *)
(* (rust/src/graph/state.rs).                                              *)
(*                                                                         *)
(* Items are numbered in the producer's order.  They are registered as     *)
(* their messages come and put as their reads end; the producer's end      *)
(* comes by way of the conductor, and may be first.  A policy cuts the     *)
(* stream into chunks.  A chunk goes into the consumer's current slot or,  *)
(* for a step that is speculated while the last one runs, into the next    *)
(* one; a chunk nobody takes waits, and is offered again first.            *)
(*                                                                         *)
(* A consumer with no other input runs once a chunk.  One in a loop also   *)
(* takes its own last output, and its steps are speculated.                *)
(***************************************************************************)
EXTENDS Integers, Sequences, FiniteSets, SequencesExt

CONSTANTS
    Streams,    \* the streams an instance starts from
    None

Positive == Nat \ {0}

\* The parameters that policies are built with.  The ramp and the schedule check
\* theirs; a window is no shorter than its stride, and a chunk no shorter than what it
\* leaves as context, wherever one is built.  Bounds of the model: a ramp grows by whole
\* numbers, and one without a maximum has one above the stream's length.
IsPolicy(p) ==
    /\ p.kind \in {"fixed", "sliding", "left", "ramp", "scheduled"}
    /\ p.lead \in Nat /\ (p.kind # "scheduled" => p.lead = 0)
    /\ p.kind # "sliding" => p.chunk \in Positive
    /\ p.kind = "sliding" => p.stride \in Positive /\ p.window \in Positive /\ p.stride <= p.window
    /\ p.kind = "left" => p.context \in 0..p.chunk
    /\ p.kind = "ramp" => {p.first, p.growth, p.max} \subseteq Positive /\ p.chunk <= p.max
    /\ p.kind = "scheduled" => p.schedule \in Seq(Positive) /\ p.context \in Nat

\* An item has a piece at least.  What a stream is primed with is its first items, in
\* one walk, which the producer puts.
IsStream(s) ==
    /\ IsPolicy(s.policy) /\ s.pieces \in Seq(Positive) /\ s.loop \in BOOLEAN
    /\ s.policy.lead <= Len(s.pieces)
    /\ s.walks # <<>> =>
          /\ DOMAIN s.walks = DOMAIN s.pieces
          /\ \A i \in 1..s.policy.lead : s.walks[i] = s.walks[1]

ChunksOf(s) == [first : Nat, n : Nat, context : Nat, walk : {None} \cup ToSet(s.walks), final : BOOLEAN]

ASSUME StreamBufferAssumption ==
    \A s \in Streams :
        /\ IsStream(s)
        /\ None \notin ToSet(s.walks) /\ None \notin ChunksOf(s)
        /\ None \notin [chunk : ChunksOf(s), info : ChunksOf(s)]

VARIABLES
    stream,     \* [policy, pieces, walks, loop]
    \* StreamBuffer
    registered, \* items registered
    put,        \* pieces whose read has ended
    done,       \* producer_done
    start,      \* _consumed: items before the buffer's first
    end,        \* _delivered_end
    popped,     \* chunks the policy has counted
    closed,     \* _final_chunk_emitted
    maybe,      \* maybe_ready
    waiting,    \* _waiting_graph_edges
    ingested,   \* ingested_chunk
    refs,       \* references to an item's tensor
    \* the consumer node
    cur, next,  \* the chunk in its current and its next slot
    back,       \* is its own last output in the current slot?
    open,       \* ready_streaming: may it take a chunk?
    ready,      \* is it queued to run?
    flying,     \* in_flight
    walk,       \* the walk its partition is in
    stopped,    \* its loop has finished
    \* the worker's loop
    step,       \* the step that runs
    spec,       \* the chunk staged for a speculated step
    \* history
    eaten       \* the chunks of the steps that ran

bufVars == <<start, end, popped, closed>>
arrVars == <<registered, put, done>>
nodeVars == <<cur, next, back, open, ready, flying, stopped>>
vars == <<stream, bufVars, arrVars, maybe, waiting, ingested, refs, nodeVars, walk, step, spec, eaten>>

Policy == stream.policy
Total == Len(stream.pieces)
Items == 1..Total
\* Does the producer assign the consumer's walks?
Tagged == stream.walks # <<>>
Lead == Policy.lead

Init ==
    /\ stream \in Streams
    /\ registered = 0 /\ put = {} /\ done = FALSE
    /\ start = 0 /\ end = Lead /\ popped = 0 /\ closed = FALSE
    /\ maybe = TRUE /\ waiting = <<>> /\ ingested = None
    /\ refs = [i \in Items |-> 0]
    /\ cur = None /\ next = None /\ back = stream.loop /\ open = TRUE
    /\ ready = FALSE /\ flying = FALSE /\ stopped = FALSE
    /\ walk = IF Tagged THEN Policy.walk ELSE None
    /\ step = None /\ spec = None /\ eaten = <<>>

-----------------------------------------------------------------------------
(* chunk_policy.py.  A policy is a record with its kind and parameters; what *)
(* it remembers is how many chunks it has counted.                           *)

Least(a, b) == IF a < b THEN a ELSE b
Most(a, b) == IF a < b THEN b ELSE a
Sum(s) == FoldLeft(+, 0, s)

\* ScheduledLeftContextChunkPolicy: _new_items, _delivered and _context
NewItems(k) == IF k < Len(Policy.schedule) THEN Policy.schedule[k + 1] ELSE Policy.chunk
Delivered(k) == Lead + Sum([j \in 1..k |-> NewItems(j - 1)])
Context(k) == IF k = 0 THEN Lead ELSE Least(Policy.context, Delivered(k))

\* RampChunkPolicy: _size once k chunks are registered, and _current
RampSize[k \in Nat] == IF k <= 1 THEN Policy.chunk ELSE Least(Policy.max, RampSize[k - 1] * Policy.growth)
Ramp(k) == IF k = 0 THEN Policy.first ELSE RampSize[k]

\* window_size and next_chunk_size
WindowSize(k) ==
    CASE Policy.kind = "fixed" -> Policy.chunk
      [] Policy.kind = "sliding" -> Policy.window
      [] Policy.kind = "left" -> IF k = 0 THEN Policy.chunk ELSE Policy.chunk + Policy.context
      [] Policy.kind = "ramp" -> Ramp(k)
      [] Policy.kind = "scheduled" -> Context(k) + NewItems(k)
\* Fault: the first chunk's last items are not kept as context.
FaultyNextChunkSize(k) ==
    CASE Policy.kind = "sliding" -> Policy.stride
      [] Policy.kind = "ramp" -> Ramp(k)
      [] OTHER -> Policy.chunk

NextChunkSize(k) ==
    CASE Policy.kind = "fixed" -> Policy.chunk
      [] Policy.kind = "sliding" -> Policy.stride
      [] Policy.kind = "left" -> IF k = 0 THEN Policy.chunk - Policy.context ELSE Policy.chunk
      [] Policy.kind = "ramp" -> Ramp(k)
      [] Policy.kind = "scheduled" ->
            LET after == Delivered(k) + NewItems(k)
            IN  (after - Least(Policy.context, after)) - (Delivered(k) - Context(k))

IsReady(n) == n >= WindowSize(popped)
\* register_chunk: fixed and sliding windows remember nothing that they read.
RegisterChunk == IF Policy.kind \in {"fixed", "sliding"} THEN popped ELSE popped + 1

Continues == Policy.continues # {}
ContinuesIn(w) == w \in Policy.continues

-----------------------------------------------------------------------------
(* stream_buffer.py *)

\* Items count in pieces, as the producer counts them.
PiecesOf(k) == Sum(SubSeq(stream.pieces, 1, k))
Complete(i) == \A j \in 1..stream.pieces[i] : <<i, j>> \in put

\* _update_buffer: items enter in the order they were registered.
Entered == CHOOSE k \in 0..registered :
              /\ \A i \in 1..k : Complete(i)
              /\ k < registered => ~Complete(k + 1)
BufLen == Entered - start
\* _walk_run_len
RunLen == IF ~Tagged THEN BufLen
          ELSE Cardinality({i \in (start + 1)..Entered :
                              \A j \in (start + 1)..i : stream.walks[j] = stream.walks[start + 1]})

\* _producer_done_and_all_read
AllRead ==
    /\ done
    /\ PiecesOf(registered) >= PiecesOf(Total)
    /\ PiecesOf(Entered) >= PiecesOf(registered)

HasChunkReady ==
    \/ RunLen < BufLen
    \/ ~AllRead /\ IsReady(BufLen)
    \/ AllRead /\ BufLen > 0
    \/ AllRead /\ IF Continues THEN ContinuesIn(walk) ELSE ~closed

\* pop_chunk: how many items the chunk shows, and how many leave the buffer.
EndsRun == RunLen < BufLen /\ ~IsReady(RunLen)
EndsStream == AllRead /\ ~IsReady(BufLen)
Shown == IF EndsRun THEN RunLen ELSE IF EndsStream THEN BufLen ELSE Least(WindowSize(popped), BufLen)
Stride == IF EndsRun THEN RunLen ELSE IF EndsStream THEN BufLen ELSE NextChunkSize(popped)

\* peek_walk
PeekWalk == IF Tagged /\ BufLen > 0 THEN stream.walks[start + 1] ELSE None

NextChunk ==
    [first |-> start, n |-> Shown, context |-> Least(Most(end - start, 0), Shown), walk |-> PeekWalk,
     final |-> AllRead /\ start + Stride = Entered /\ ~Continues]
ItemsOf(c) == (c.first + 1)..(c.first + c.n)

\* The chunk's own references, and the buffer's to what it advanced past.
PopRefs == [i \in Items |-> refs[i] + (IF i \in ItemsOf(NextChunk) THEN 1 ELSE 0)
                                    - (IF i \in (start + 1)..(start + Stride) THEN 1 ELSE 0)]
\* Fault: the items a chunk shows and keeps count as not shown.
FaultyPopChunk ==
    /\ start' = start + Stride
    /\ end' = start + Stride
    /\ popped' = RegisterChunk
    /\ closed' = (closed \/ NextChunk.final)
    /\ refs' = PopRefs

PopChunk ==
    /\ start' = start + Stride
    /\ end' = Most(end, start + Shown)
    /\ popped' = RegisterChunk
    /\ closed' = (closed \/ NextChunk.final)
    /\ refs' = PopRefs

Chunks == ChunksOf(stream)

-----------------------------------------------------------------------------
(* The producer's messages *)

\* One thread takes messages, polls and speculates.  Once it has staged a step it
\* waits for the one that runs, and settles the staged step before it polls again.
AtTop == spec = None

\* _process_new_inputs and _process_edge_items
Register ==
    /\ AtTop /\ registered < Total /\ registered' = registered + 1
    /\ UNCHANGED <<stream, bufVars, put, done, maybe, waiting, ingested, refs, nodeVars, walk, step, spec, eaten>>

\* route_tensor: the read of a piece has ended.  With an item's last piece the
\* buffer has its reference.
Put(i, j) ==
    /\ AtTop /\ i <= registered /\ j <= stream.pieces[i] /\ <<i, j>> \notin put
    /\ put' = put \cup {<<i, j>>}
    /\ maybe' = TRUE
    /\ refs' = [refs EXCEPT ![i] = IF \A l \in 1..stream.pieces[i] : <<i, l>> \in put' THEN 1 ELSE 0]
    /\ UNCHANGED <<stream, bufVars, registered, done, waiting, ingested, nodeVars, walk, step, spec, eaten>>

\* Fault: the end of the producer does not wake the poll.
FaultySignalDone ==
    /\ AtTop /\ ~done /\ done' = TRUE
    /\ UNCHANGED <<stream, bufVars, registered, put, maybe, waiting, ingested, refs, nodeVars, walk, step, spec, eaten>>

SignalDone ==
    /\ AtTop /\ ~done /\ done' = TRUE /\ maybe' = TRUE
    /\ UNCHANGED <<stream, bufVars, registered, put, waiting, ingested, refs, nodeVars, walk, step, spec, eaten>>

-----------------------------------------------------------------------------
(* worker/stream_buffers.py and the node's slots *)

\* is_partition_idle: no chunk is held, and no loop runs
Idle == cur = None /\ ~stream.loop

\* pop_edge, when it finds nothing: a poll skips the buffer until something
\* changes, unless its readiness also depends on the consumer's walk.
MayEnter(change) == PeekWalk \in {None, walk} \/ (change /\ Idle)
PopNothing(change) ==
    /\ waiting = <<>> /\ ~(HasChunkReady /\ MayEnter(change))
    /\ maybe' = IF HasChunkReady \/ Tagged THEN maybe ELSE FALSE
    /\ UNCHANGED <<stream, bufVars, arrVars, waiting, ingested, refs, nodeVars, walk, step, spec, eaten>>

\* pop_edge, when it finds the chunk c: one that waits, else a new one in its
\* walk.  rest is what goes on waiting.
PopEdge(c, rest, change) ==
    \/ /\ waiting # <<>> /\ c = Head(waiting) /\ rest = Tail(waiting)
       /\ UNCHANGED <<bufVars, refs, walk>>
    \/ /\ waiting = <<>> /\ rest = <<>> /\ HasChunkReady /\ MayEnter(change)
       /\ c = NextChunk /\ PopChunk
       /\ walk' = IF PeekWalk = None THEN walk ELSE PeekWalk
Offered == IF waiting # <<>> THEN Head(waiting) ELSE NextChunk
Behind == IF waiting # <<>> THEN Tail(waiting) ELSE <<>>

\* return_edge
ReturnEdge(c, rest) == waiting' = Append(rest, c) /\ maybe' = TRUE

\* _poll_stream_buffers with ingest_inputs_batch(can_buffer=False): the node
\* takes the chunk if it has everything else and no chunk.
PollTakes ==
    /\ AtTop /\ maybe /\ open /\ cur = None
    /\ PopEdge(Offered, Behind, TRUE)
    /\ waiting' = Behind /\ UNCHANGED maybe
    /\ cur' = Offered /\ ingested' = Offered
    /\ open' = FALSE /\ ready' = ~flying
    /\ UNCHANGED <<stream, arrVars, next, back, flying, stopped, step, spec, eaten>>

\* Fault: a chunk is noted as ingested before the node has taken it.
FaultyPollRefused ==
    /\ AtTop /\ maybe /\ ~(open /\ cur = None)
    /\ PopEdge(Offered, Behind, TRUE) /\ ReturnEdge(Offered, Behind) /\ ingested' = Offered
    /\ UNCHANGED <<stream, arrVars, nodeVars, step, spec, eaten>>

PollRefused ==
    /\ AtTop /\ maybe /\ ~(open /\ cur = None)
    /\ PopEdge(Offered, Behind, TRUE) /\ ReturnEdge(Offered, Behind)
    /\ UNCHANGED <<stream, arrVars, ingested, nodeVars, step, spec, eaten>>
PollNothing == AtTop /\ maybe /\ PopNothing(TRUE)

\* The scheduler takes the node (take_for_schedule) and builds its batch, with
\* the chunk's place in the stream as the buffer last noted it (chunks_for).
Schedule ==
    /\ AtTop /\ step = None /\ ready
    /\ step' = [chunk |-> cur, info |-> ingested, st |-> "submitted"]
    /\ ready' = FALSE
    /\ UNCHANGED <<stream, bufVars, arrVars, maybe, waiting, ingested, refs, cur, next, back, open, flying,
                   stopped, walk, spec, eaten>>

Running == step # None /\ step.st = "running"

\* The admit fence: nothing is speculated on a step before its admit is known.
Admit ==
    /\ step # None /\ step.st = "submitted" /\ step' = [step EXCEPT !.st = "running"]
    /\ UNCHANGED <<stream, bufVars, arrVars, maybe, waiting, ingested, refs, nodeVars, walk, spec, eaten>>
\* _handle_admit_failure: _clear_in_flight_flag and push_back_node
AdmitRefused ==
    /\ step # None /\ step.st = "submitted" /\ step' = None
    /\ ready' = TRUE /\ flying' = FALSE
    /\ UNCHANGED <<stream, bufVars, arrVars, maybe, waiting, ingested, refs, cur, next, back, open, stopped,
                   walk, spec, eaten>>

\* _prepare_dicts: the chunk for the iteration after the one that runs is staged
\* in the next slot.
Speculate ==
    /\ AtTop /\ Running /\ stream.loop /\ next = None
    /\ PopEdge(Offered, Behind, FALSE)
    /\ waiting' = Behind /\ UNCHANGED maybe
    /\ next' = Offered /\ ingested' = Offered /\ spec' = [chunk |-> Offered, info |-> ingested']
    /\ UNCHANGED <<stream, arrVars, cur, back, open, ready, flying, stopped, step, eaten>>
\* The loop may end with this iteration, or other rows take the room.
SpeculateRefused ==
    /\ AtTop /\ Running /\ stream.loop
    /\ PopEdge(Offered, Behind, FALSE) /\ ReturnEdge(Offered, Behind)
    /\ UNCHANGED <<stream, arrVars, ingested, nodeVars, step, spec, eaten>>
SpeculateNothing == AtTop /\ Running /\ stream.loop /\ PopNothing(FALSE)

-----------------------------------------------------------------------------
(* A step ends: _settle_speculation, then _finish_step with                  *)
(* RequestState.complete.                                                    *)

Ran == IF step.chunk.n = 0 /\ ~step.chunk.final THEN eaten ELSE Append(eaten, step.chunk)

\* Fault: a chunk staged in the next slot keeps its references.
FaultyReleased(C) == [i \in Items |-> refs[i] - (IF C[1] # None /\ i \in ItemsOf(C[1]) THEN 1 ELSE 0)]

\* release_slot
Released(C) == [i \in Items |-> refs[i] - Cardinality({s \in DOMAIN C : C[s] # None /\ i \in ItemsOf(C[s])})]

\* The speculated step is submitted.  The loop goes on: the next slot becomes
\* the current one, where the node's output joins it.
StepChains ==
    /\ Running /\ spec # None
    /\ step' = [chunk |-> spec.chunk, info |-> spec.info, st |-> "submitted"] /\ spec' = None
    /\ flying' = TRUE
    /\ eaten' = Ran /\ refs' = Released(<<cur>>)
    /\ cur' = next /\ next' = None /\ back' = TRUE
    /\ open' = FALSE /\ ready' = FALSE
    /\ UNCHANGED <<stream, bufVars, arrVars, maybe, waiting, ingested, stopped, walk>>

\* Nothing was speculated, or it is dropped: its chunk is taken out of the slot
\* and goes back to the buffer.
StepEnds ==
    /\ Running
    /\ step' = None /\ spec' = None /\ flying' = FALSE
    /\ IF spec = None THEN UNCHANGED <<waiting, maybe>> ELSE ReturnEdge(spec.chunk, waiting)
    /\ eaten' = Ran /\ refs' = Released(<<cur>>)
    /\ cur' = None /\ next' = None /\ back' = stream.loop
    /\ open' = TRUE /\ ready' = FALSE
    /\ UNCHANGED <<stream, bufVars, arrVars, ingested, stopped, walk>>

\* The node stopped its loop (finish_loop): its slots are cleared, with the chunk
\* of a step speculated after it unless that step was dropped.
StepStops ==
    /\ Running /\ stream.loop
    /\ step' = None /\ spec' = None /\ flying' = FALSE /\ stopped' = TRUE
    /\ eaten' = Ran
    /\ \/ refs' = Released(<<cur, next>>) /\ UNCHANGED <<waiting, maybe>>
       \/ spec # None /\ refs' = Released(<<cur>>) /\ ReturnEdge(spec.chunk, waiting)
    /\ cur' = None /\ next' = None /\ back' = FALSE /\ open' = FALSE /\ ready' = FALSE
    /\ UNCHANGED <<stream, bufVars, arrVars, ingested, walk>>

-----------------------------------------------------------------------------

Puts == \E i \in Items : \E j \in 1..stream.pieces[i] : Put(i, j)
Arrives == Register \/ Puts \/ SignalDone
Polls == PollTakes \/ PollRefused \/ PollNothing
Speculates == Speculate \/ SpeculateRefused \/ SpeculateNothing
Ends == StepChains \/ StepEnds \/ StepStops

Next ==
    \/ Register \/ Puts \/ SignalDone
    \/ PollTakes \/ PollRefused \/ PollNothing
    \/ Schedule \/ Admit \/ AdmitRefused
    \/ Speculate \/ SpeculateRefused \/ SpeculateNothing
    \/ StepChains \/ StepEnds \/ StepStops

Spec == Init /\ [][Next]_vars

-----------------------------------------------------------------------------
(* Properties *)

Steps == [chunk : Chunks, info : Chunks, st : {"submitted", "running"}]
TypeOK ==
    /\ registered \in 0..Total /\ put \subseteq Items \X Nat
    /\ start \in 0..Entered /\ end \in 0..Most(Entered, Lead) /\ popped \in Nat
    /\ \A b \in {done, closed, maybe, back, open, ready, flying, stopped} : b \in BOOLEAN
    /\ \A i \in DOMAIN waiting : waiting[i] \in Chunks
    /\ \A i \in DOMAIN eaten : eaten[i] \in Chunks
    /\ \A c \in {ingested, cur, next} : c = None \/ c \in Chunks
    /\ step = None \/ step \in Steps
    /\ spec = None \/ spec \in [chunk : Chunks, info : Chunks]
    /\ refs \in [Items -> Nat]

\* The chunks from the first to run to the last popped, in the order in which
\* the consumer comes to them.
NewFrom(c) == c.first + c.context
NewTo(c) == c.first + c.n
Some(c) == IF c = None THEN <<>> ELSE <<c>>
Out == Some(cur) \o Some(next) \o waiting
Pipeline == IF stopped THEN eaten ELSE eaten \o Out

\* Every item reaches the consumer once as new, in the producer's order, however
\* reads overtake each other, chunks are refused and speculated steps dropped:
\* each chunk's new items begin where those of the chunk before end.  The one
\* final chunk comes after every item, also when the producer's end overtakes some.
InOrder ==
    /\ Pipeline # <<>> => NewFrom(Pipeline[1]) = Lead
    /\ \A i \in 1..(Len(Pipeline) - 1) : NewFrom(Pipeline[i + 1]) = NewTo(Pipeline[i])
    /\ ~stopped /\ Pipeline # <<>> => NewTo(Last(Pipeline)) = end
    /\ \A i \in DOMAIN Pipeline : Pipeline[i].final =>
          i = Len(Pipeline) /\ ~Continues /\ NewTo(Pipeline[i]) = Total

\* A step is told the place in the stream of the very chunk it takes, though the
\* buffer notes only the last chunk that was ingested, a later one may have been
\* staged, and a refused step is built again.  It runs in the walk the producer
\* assigned to its items, all of them.
StepIsOfChunk ==
    step # None =>
        /\ step.info = step.chunk /\ (step.chunk = cur \/ stopped)
        /\ Tagged => \A i \in ItemsOf(step.chunk) : stream.walks[i] = walk

\* An item's tensor is referenced once by the buffer and once by each chunk on
\* its way that shows it: it is not freed under a chunk, nor kept after the last.
RefsExact ==
    \A i \in Items :
        refs[i] = (IF i \in (start + 1)..Entered THEN 1 ELSE IF i > Entered /\ Complete(i) THEN 1 ELSE 0)
                  + Cardinality({k \in DOMAIN Out : i \in ItemsOf(Out[k])})

\* The window of chunk k as the policies document it, cut where the stream ends.
Documented(k) ==
    LET Cut(a, b) == <<Least(a, Total), Least(b, Total)>>
        Before(n) == Sum([j \in 1..n |-> NewItems(j - 1)])
    IN  CASE Policy.kind = "fixed" -> Cut((k - 1) * Policy.chunk, k * Policy.chunk)
          [] Policy.kind = "sliding" -> Cut((k - 1) * Policy.stride, (k - 1) * Policy.stride + Policy.window)
          [] Policy.kind = "left" -> Cut(Most(0, (k - 1) * Policy.chunk - Policy.context), k * Policy.chunk)
          [] Policy.kind = "ramp" -> Cut(Sum([j \in 1..(k - 1) |-> Ramp(j - 1)]), Sum([j \in 1..k |-> Ramp(j - 1)]))
          [] Policy.kind = "scheduled" ->
                Cut(IF k = 1 THEN 0 ELSE Most(0, Lead + Before(k - 1) - Policy.context), Lead + Before(k))

\* Whenever items and the end arrive, the chunks a consumer sees are those that
\* the policies' docstrings give, up to the remainder at the end.
ChunksAsDocumented ==
    ~Tagged => \A k \in DOMAIN eaten : eaten[k].n > 0 => <<eaten[k].first, NewTo(eaten[k])>> = Documented(k)

-----------------------------------------------------------------------------
(* Liveness: messages arrive, reads end, the worker's loop polls and schedules, *)
(* and a step that is refused again and again is admitted at last.              *)

Fairness ==
    /\ WF_vars(Arrives) /\ WF_vars(Polls) /\ WF_vars(Schedule) /\ WF_vars(Ends)
    /\ SF_vars(Admit)
FairSpec == Spec /\ Fairness

\* Unless the consumer stops, every item reaches it, and the end too.
EndReached ==
    <>(stopped \/ (IF Continues THEN Total = 0 \/ (eaten # <<>> /\ NewTo(Last(eaten)) = Total)
                   ELSE \E i \in DOMAIN eaten : eaten[i].final))

=============================================================================
