------------------------------- MODULE Teardown -------------------------------
(***************************************************************************)
(* The life of a request across processes and, above all, its end: the API *)
(* server (mstar/api_server/entrypoint.py), the data worker, which prepares *)
(* a request's input and reads its outputs (api_server/data_worker.py), the *)
(* conductor (conductor/conductor.py) and the workers (worker/worker.py).   *)
(*                                                                         *)
(* A participant keeps tensors that the others read.  The conductor tells  *)
(* the participants to drain, waits until each has said that its reads are *)
(* done (READS_DONE), and then tells all of them to remove the request,    *)
(* which frees its tensors whoever still refers to them.                   *)
(*                                                                         *)
(* Every pair of processes has one FIFO socket in each direction.  An      *)
(* action is one message handled or one turn of a loop.  A request has one *)
(* partition that runs on every worker and one output; a worker leads      *)
(* itself or follows the rank 0 of its tensor-parallel group, which sends  *)
(* it the steps, drains and removals.  A submission's key is never reused. *)
(***************************************************************************)
EXTENDS Integers, Sequences, FiniteSets, Functions

CONSTANTS
    Rids,           \* submission keys
    Workers,
    Leader,         \* Leader[w]: rank 0 of w's group, w itself where it leads
    Data,           \* the data worker (the conductor's PREPROCESS_WORKER)
    Capacity,       \* max_concurrent_requests
    ClientStreams,  \* does the model take input while it runs?
    Pool,           \* does the data worker prepare on a pool?
    MaxPasses,      \* bound on the forward passes of a request
    Speculates,     \* does a worker start a next step before it knows the last one's end?
    Collective,     \* do a step's ranks wait for each other?
    Faults          \* the kinds of failure an instance may see

Entities == Workers \cup {Data}

ASSUME TeardownAssumption ==
    /\ IsFiniteSet(Rids) /\ IsFiniteSet(Workers) /\ Data \notin Workers
    /\ Leader \in [Workers -> Workers] /\ \A w \in Workers : Leader[Leader[w]] = Leader[w]
    /\ Capacity \in Nat \ {0} /\ MaxPasses \in Nat
    /\ ClientStreams \in BOOLEAN /\ Pool \in BOOLEAN /\ Speculates \in BOOLEAN
    /\ Collective \in BOOLEAN
    /\ ~(ClientStreams /\ Pool)

VARIABLES
    \* the API server
    fresh,      \* keys not submitted yet
    pend,       \* pending_requests
    done,       \* those whose event is set: the client has its answer
    recent,     \* recently_completed
    counts,     \* the keys of received_chunk_counts
    chunk,      \* where the request's output is
    errors,     \* requests with an error chunk in the data worker's out_queue
    \* the data worker
    inq,        \* request_input_queue
    prep,       \* _preparing
    aborts,     \* abort_request_queue: how many for each request
    releases,   \* reads_done_queue: for each request, whether it was drained
    live,       \* _live_requests and in_flight_requests
    routed,     \* calls whose client streams have a route (ClientCall.route)
    items,      \* for each worker, calls with a stream item on their way to it
    \* every participant
    drain,      \* _draining_rids
    acked,      \* _reads_done_sent
    reads,      \* requests with a read in flight
    torn,       \* _removed_rids: requests removed here
    \* the conductor
    requests, waiting, draining,
    expected,   \* DrainingRequest.expected_acks
    failing,    \* those with a failure_error
    completed,  \* completion_sent
    reported,   \* wg_rank_completions of the pass
    passes,     \* fwd_pass_number
    ended,      \* done_partition_forwards of the cycle
    admitting,  \* in _try_admit_waiting
    earlyAbort, earlyDone,
    up,         \* the deployment has not lost a worker
    \* the workers
    held,       \* requests with a handle
    work,       \* what the worker has of the pass
    spec,       \* requests in a step that was speculated past their pass
    failed,     \* scheduler.failed_rids
    pendDrain, pendRemove,
    tpq,        \* steps and removals rank 0 sent, in its order
    parked,     \* rank 0's removals for a request with no handle yet
    freed,      \* history: what was torn down, in order
    \* the sockets
    toC, fromC, toApi, fwd,
    \* history
    forced,     \* requests whose barrier a deadline pushed through
    verdicts    \* how often the conductor told the client the end of a request

apiVars == <<fresh, pend, done, recent, counts>>
outVars == <<chunk, errors>>
streamVars == <<routed, items>>
dataVars == <<inq, prep, aborts, releases, live, streamVars>>
partVars == <<drain, acked, reads, torn>>
condVars == <<requests, waiting, draining, expected, failing, completed, reported, passes,
              ended, admitting, earlyAbort, earlyDone, up>>
workVars == <<held, work, spec, failed, pendDrain, pendRemove, tpq, parked, freed>>
hist == <<forced, verdicts>>
vars == <<apiVars, outVars, dataVars, partVars, condVars, workVars,
          toC, fromC, toApi, fwd, hist>>

Msg(k, r) == [kind |-> k, rid |-> r]
Add(f, e, r) == [f EXCEPT ![e] = @ \cup {r}]
Del(f, e, r) == [f EXCEPT ![e] = @ \ {r}]

May(kind) == kind \in Faults
Leads(w) == Leader[w] = w
Followers(w) == {f \in Workers : Leader[f] = w /\ f # w}

\* One FIFO per sender and receiver.
Tell(e, k, r) == toC' = [toC EXCEPT ![e] = Append(@, Msg(k, r))]
Forward(w, k, r) ==
    fwd' = [f \in Workers |-> IF f \in Followers(w) THEN Append(fwd[f], Msg(k, r)) ELSE fwd[f]]

-----------------------------------------------------------------------------
(* The API server *)

Submit(r) ==
    /\ r \in fresh
    /\ fresh' = fresh \ {r}
    /\ pend' = pend \cup {r} /\ counts' = counts \cup {r}
    /\ inq' = Append(inq, r)
    /\ UNCHANGED <<done, recent, outVars, prep, aborts, releases, live, streamVars, partVars, condVars,
                   workVars, toC, fromC, toApi, fwd, hist>>

\* is_pending
IsPending(r) == r \in pend \ done

\* abort_submission: the client left, or its time ran out.
ClientAborts(r) ==
    /\ May("abort") /\ r \in pend \cup recent
    /\ pend' = pend \ {r} /\ recent' = recent \ {r} /\ counts' = counts \ {r}
    /\ aborts' = [aborts EXCEPT ![r] = @ + 1]
    /\ UNCHANGED <<fresh, done, outVars, inq, prep, releases, live, streamVars, partVars, condVars,
                   workVars, toC, fromC, toApi, fwd, hist>>

\* _fail_request and reject_input: the client is told, and the engine's request aborted.
ServerFails(r) ==
    /\ May("server") /\ IsPending(r)
    /\ done' = done \cup {r} /\ recent' = recent \cup {r}
    /\ aborts' = [aborts EXCEPT ![r] = @ + 1]
    /\ UNCHANGED <<fresh, pend, counts, outVars, inq, prep, releases, live, streamVars, partVars, condVars,
                   workVars, toC, fromC, toApi, fwd, hist>>

\* The client's handler has sent the answer and lets go of the request.
ClientLeaves(r) ==
    /\ r \in pend \cap done
    /\ pend' = pend \ {r}
    /\ UNCHANGED <<fresh, done, recent, counts, outVars, dataVars, partVars, condVars,
                   workVars, toC, fromC, toApi, fwd, hist>>

\* result_tensors of a worker: to the data worker, or acknowledged unread.
ApiResult(r) ==
    /\ chunk[r] = "sent"
    /\ chunk' = [chunk EXCEPT ![r] = IF r \in pend \cap counts THEN "queued" ELSE "lost"]
    /\ UNCHANGED <<apiVars, errors, dataVars, partVars, condVars, workVars,
                   toC, fromC, toApi, fwd, hist>>

\* request_complete and request_failed.
ApiVerdict ==
    /\ toApi # <<>>
    /\ LET m == Head(toApi) IN
         /\ recent' = IF m.rid \in pend THEN recent \cup {m.rid} ELSE recent
         /\ done' = IF m.rid \in pend /\ m.kind = "failed" THEN done \cup {m.rid} ELSE done
    /\ toApi' = Tail(toApi)
    /\ UNCHANGED <<fresh, pend, counts, outVars, dataVars, partVars, condVars, workVars,
                   toC, fromC, fwd, hist>>

\* An error chunk of the data worker.
ApiError(r) ==
    /\ r \in errors
    /\ errors' = errors \ {r}
    /\ recent' = IF r \in pend THEN recent \cup {r} ELSE recent
    /\ done' = IF r \in pend THEN done \cup {r} ELSE done
    /\ UNCHANGED <<fresh, pend, counts, chunk, dataVars, partVars, condVars, workVars,
                   toC, fromC, toApi, fwd, hist>>

\* request_complete has said how many outputs there are (output_chunk_counts).
Counted(r) == r \in completed /\ Msg("complete", r) \notin Range(toApi)

\* Fault: the client of a finished request is not woken.
FaultyPrune(r) ==
    /\ r \in recent
    /\ recent' = recent \ {r} /\ counts' = counts \ {r}
    /\ releases' = [releases EXCEPT ![r] = Append(@, r \in pend /\ chunk[r] = "got" /\ Counted(r))]
    /\ UNCHANGED <<fresh, pend, done, outVars, inq, prep, aborts, live, streamVars, partVars, condVars,
                   workVars, toC, fromC, toApi, fwd, hist>>

(***************************************************************************)
(* _prune_recently_completed and finished_reading: every output is in, the *)
(* client let go of the request, or the delivery's time ran out.           *)
(***************************************************************************)
Prune(r) ==
    /\ r \in recent
    /\ recent' = recent \ {r} /\ counts' = counts \ {r}
    /\ done' = IF r \in pend THEN done \cup {r} ELSE done
    /\ releases' = [releases EXCEPT ![r] = Append(@, r \in pend /\ chunk[r] = "got" /\ Counted(r))]
    /\ UNCHANGED <<fresh, pend, outVars, inq, prep, aborts, live, streamVars, partVars, condVars,
                   workVars, toC, fromC, toApi, fwd, hist>>

\* _fail_pending_for_dead_conductor
ConductorExited ==
    /\ ~up /\ pend \ done # {}
    /\ done' = done \cup pend
    /\ UNCHANGED <<fresh, pend, recent, counts, outVars, dataVars, partVars, condVars,
                   workVars, toC, fromC, toApi, fwd, hist>>

-----------------------------------------------------------------------------
(* The data worker *)

\* _begin_drain and _complete_drain_if_ready: READS_DONE once no read is in flight.
DataDrain(r) ==
    /\ drain' = Add(drain, Data, r)
    /\ acked' = IF r \in reads[Data] THEN acked ELSE Add(acked, Data, r)

\* What goes to the conductor first, then READS_DONE where DataDrain sends it.
DataTell(r, first) ==
    toC' = [toC EXCEPT ![Data] = @ \o first \o
              IF r \in reads[Data] \/ r \in acked[Data] THEN <<>> ELSE <<Msg("reads_done", r)>>]

\* _send_abort
SendAbort(r) ==
    IF r \in live THEN DataDrain(r) /\ DataTell(r, <<Msg("abort", r)>>)
    ELSE Tell(Data, "abort", r) /\ UNCHANGED <<drain, acked>>

\* _process_releases: an abort.
DataAbort(r) ==
    /\ aborts[r] > 0
    /\ aborts' = [aborts EXCEPT ![r] = @ - 1]
    /\ SendAbort(r)
    /\ UNCHANGED <<apiVars, outVars, inq, prep, releases, live, streamVars, reads, torn, condVars,
                   workVars, fromC, toApi, fwd, hist>>

\* _finish_reading of a live request; drained: every output was delivered.
Released(r, drained) ==
    IF drained /\ r \notin drain[Data] /\ r \notin reads[Data]
      THEN acked' = Add(acked, Data, r) /\ UNCHANGED drain
      ELSE DataDrain(r)

\* _process_releases: a release.
DataRelease(r) ==
    /\ releases[r] # <<>>
    /\ releases' = [releases EXCEPT ![r] = Tail(@)]
    /\ IF r \in live THEN Released(r, Head(releases[r])) /\ DataTell(r, <<>>)
                     ELSE UNCHANGED <<drain, acked, toC>>
    /\ UNCHANGED <<apiVars, outVars, inq, prep, aborts, live, streamVars, reads, torn, condVars,
                   workVars, fromC, toApi, fwd, hist>>

\* _removed, with the per-request state dropped.
DataForget(r) ==
    /\ live' = live \ {r} /\ routed' = routed \ {r}
    /\ drain' = Del(drain, Data, r) /\ acked' = Del(acked, Data, r)

\* _finish_input: the tensors are stored, and the conductor hears of the request.
FinishInput(r) ==
    /\ Tell(Data, "new", r)
    /\ UNCHANGED <<errors, routed, drain, acked>>

\* _input_failed: the conductor never hears of it.
InputFailed(r) ==
    /\ May("input")
    /\ errors' = errors \cup {r}
    /\ DataForget(r)
    /\ UNCHANGED toC

\* _process_waiting_input: dropped where the API server let go of it while it waited.
DataInput ==
    /\ inq # <<>>
    /\ inq' = Tail(inq)
    /\ LET r == Head(inq) IN
         \/ ~IsPending(r) /\ UNCHANGED <<prep, live, toC, errors, routed, drain, acked>>
         \/ IsPending(r) /\ Pool /\ prep' = Append(prep, r) /\ live' = live \cup {r}
              /\ UNCHANGED <<toC, errors, routed, drain, acked>>
         \/ IsPending(r) /\ ~Pool /\ FinishInput(r) /\ live' = live \cup {r} /\ UNCHANGED prep
         \/ IsPending(r) /\ ~Pool /\ InputFailed(r) /\ UNCHANGED prep
    /\ UNCHANGED <<apiVars, chunk, aborts, releases, items, reads, torn, condVars, workVars,
                   fromC, toApi, fwd, hist>>

\* Fault: the request may have been let go of while the pool prepared it.
FaultyDataPrepared ==
    /\ prep # <<>>
    /\ prep' = Tail(prep)
    /\ \/ FinishInput(Head(prep)) /\ UNCHANGED live
       \/ InputFailed(Head(prep))
    /\ UNCHANGED <<apiVars, chunk, inq, aborts, releases, items, reads, torn, condVars, workVars,
                   fromC, toApi, fwd, hist>>

\* _release_prepared: the oldest prepared request.
DataPrepared ==
    /\ prep # <<>>
    /\ prep' = Tail(prep)
    /\ LET r == Head(prep) IN
         \/ IsPending(r) /\ FinishInput(r) /\ UNCHANGED live
         \/ ~IsPending(r) /\ DataForget(r) /\ UNCHANGED <<toC, errors>>
         \/ InputFailed(r)
    /\ UNCHANGED <<apiVars, chunk, inq, aborts, releases, items, reads, torn, condVars, workVars,
                   fromC, toApi, fwd, hist>>

\* _torn_down: the thread starts no more work for it.
TornDown(r) == r \in drain[Data] \cup acked[Data] \/ r \notin live

\* _fail_request: an error chunk, and an abort unless the request is going already.
DataFails(r) ==
    /\ errors' = errors \cup {r}
    /\ IF TornDown(r) THEN UNCHANGED <<drain, acked, toC>> ELSE SendAbort(r)

\* Fault: an output that comes while the request drains is read.
FaultyDataResult(r) ==
    /\ chunk[r] = "queued"
    /\ chunk' = [chunk EXCEPT ![r] = "reading"] /\ reads' = Add(reads, Data, r)
    /\ UNCHANGED <<apiVars, errors, dataVars, drain, acked, torn, condVars, workVars,
                   toC, fromC, toApi, fwd, hist>>

\* An output for the data worker: read, or acknowledged unread while it drains.
DataResult(r) ==
    /\ chunk[r] = "queued"
    /\ IF r \in drain[Data]
         THEN chunk' = [chunk EXCEPT ![r] = "lost"] /\ UNCHANGED reads
         ELSE chunk' = [chunk EXCEPT ![r] = "reading"] /\ reads' = Add(reads, Data, r)
    /\ UNCHANGED <<apiVars, errors, dataVars, drain, acked, torn, condVars, workVars,
                   toC, fromC, toApi, fwd, hist>>

\* The output's transfer cannot start.
DataResultFails(r) ==
    /\ May("output") /\ chunk[r] = "queued" /\ r \notin drain[Data]
    /\ chunk' = [chunk EXCEPT ![r] = "got"]
    /\ DataFails(r)
    /\ UNCHANGED <<apiVars, dataVars, reads, torn, condVars, workVars, fromC, toApi, fwd, hist>>

(***************************************************************************)
(* A read that ended; a drain that waited for it is acknowledged in the    *)
(* same pass (_process_read_tensors, then _complete_drain_if_ready).       *)
(***************************************************************************)
DataReadEnds(r) ==
    /\ r \in reads[Data]
    /\ reads' = Del(reads, Data, r)
    /\ chunk' = [chunk EXCEPT ![r] = "got"]
    /\ IF r \in drain[Data] \ acked[Data]
         THEN acked' = Add(acked, Data, r) /\ Tell(Data, "reads_done", r)
         ELSE UNCHANGED <<acked, toC>>
    /\ UNCHANGED <<apiVars, errors, dataVars, drain, torn, condVars, workVars,
                   fromC, toApi, fwd, hist>>

\* _fail_unread_outputs: the read failed, and its transfers may still be running.
DataReadFails(r) ==
    /\ May("output") /\ r \in reads[Data] /\ chunk[r] = "reading"
    /\ chunk' = [chunk EXCEPT ![r] = "got"]
    /\ DataFails(r)
    /\ UNCHANGED <<apiVars, dataVars, reads, torn, condVars, workVars, fromC, toApi, fwd, hist>>

\* An append of the client, to every rank that takes it (_send_stream_items).
DataAppend(r) ==
    /\ ClientStreams /\ r \in routed /\ ~TornDown(r)
    /\ \E w \in Workers : r \notin items[w]
    /\ items' = [w \in Workers |-> items[w] \cup {r}]
    /\ UNCHANGED <<apiVars, outVars, inq, prep, aborts, releases, live, routed, partVars, condVars,
                   workVars, toC, fromC, toApi, fwd, hist>>

(***************************************************************************)
(* _process_messages.  A pass handles the outputs in its queue before the  *)
(* next pass's messages; only the calls that take client streams have it   *)
(* look at messages in between.  _hard_cleanup drops the request's         *)
(* tensors, whoever still refers to them.                                  *)
(***************************************************************************)
DataReceive ==
    /\ fromC[Data] # <<>>
    /\ ClientStreams \/ \A r \in Rids : chunk[r] # "queued"
    /\ fromC' = [fromC EXCEPT ![Data] = Tail(@)]
    /\ LET m == Head(fromC[Data])
           r == m.rid
       IN \/ m.kind = "drain" /\ DataDrain(r) /\ DataTell(r, <<>>)
               /\ UNCHANGED <<live, routed, torn>>
          \/ m.kind = "remove" /\ DataForget(r) /\ torn' = Add(torn, Data, r) /\ UNCHANGED toC
          \/ m.kind = "route" /\ routed' = (IF r \in live THEN routed \cup {r} ELSE routed)
               /\ UNCHANGED <<live, drain, acked, torn, toC>>
          \/ m.kind = "unroute" /\ routed' = routed \ {r}
               /\ UNCHANGED <<live, drain, acked, torn, toC>>
    /\ UNCHANGED <<apiVars, outVars, inq, prep, aborts, releases, items, reads, condVars, workVars,
                   toApi, fwd, hist>>

-----------------------------------------------------------------------------
(* The conductor *)

\* sent[e]: what a handler sends e.
Post(sent) == fromC' = [e \in Entities |-> fromC[e] \o sent[e]]
Nothing == [e \in Entities |-> <<>>]
ToAll(k, r) == [e \in Entities |-> <<Msg(k, r)>>]
ToWorkers(k, r) == [e \in Entities |-> IF e = Data THEN <<>> ELSE <<Msg(k, r)>>]
ToData(k, r) == [Nothing EXCEPT ![Data] = <<Msg(k, r)>>]
Then(a, b) == [e \in Entities |-> a[e] \o b[e]]

Say(said) ==
    /\ toApi' = toApi \o said
    /\ verdicts' = [r \in Rids |-> verdicts[r] + Cardinality({i \in DOMAIN said : said[i].rid = r})]

\* In the operators below, sent and said are what the handler has sent the participants
\* and the API server so far.

\* Fault: the waiting requests are not looked at.
FaultyFinalizeSlot(r, fails, sent, said) ==
    /\ Post(Then(sent, ToAll("remove", r)))
    /\ Say(IF fails THEN Append(said, Msg("failed", r)) ELSE said)
    /\ requests' = requests \ {r} /\ draining' = draining \ {r} /\ failing' = failing \ {r}
    /\ expected' = [expected EXCEPT ![r] = {}]
    /\ UNCHANGED admitting

(***************************************************************************)
(* _finalize_draining: every participant removes the request, a failure is *)
(* answered, the slot is free, and the waiting requests get their turn.    *)
(***************************************************************************)
Finalize(r, fails, sent, said) ==
    /\ Post(Then(sent, ToAll("remove", r)))
    /\ Say(IF fails THEN Append(said, Msg("failed", r)) ELSE said)
    /\ requests' = requests \ {r} /\ draining' = draining \ {r} /\ failing' = failing \ {r}
    /\ expected' = [expected EXCEPT ![r] = {}]
    /\ admitting' = TRUE

\* Fault: a READS_DONE that came before the barrier is not counted.
FaultyRegisterDraining(r, acks, fails, sent, said) ==
    /\ earlyDone' = [earlyDone EXCEPT ![r] = {}]
    /\ draining' = draining \cup {r}
    /\ failing' = IF fails THEN failing \cup {r} ELSE failing
    /\ expected' = [expected EXCEPT ![r] = acks]
    /\ requests' = requests \cup {r}
    /\ Post(sent) /\ Say(said)
    /\ UNCHANGED admitting

(***************************************************************************)
(* _register_draining: the barrier, less the READS_DONE that came before   *)
(* it, and finished at once where those were all.                          *)
(***************************************************************************)
RegisterDraining(r, acks, fails, sent, said) ==
    LET left == acks \ earlyDone[r]
    IN /\ earlyDone' = [earlyDone EXCEPT ![r] = {}]
       /\ IF left = {} THEN Finalize(r, fails, sent, said)
          ELSE /\ draining' = draining \cup {r}
               /\ failing' = IF fails THEN failing \cup {r} ELSE failing
               /\ expected' = [expected EXCEPT ![r] = left]
               /\ requests' = requests \cup {r}
               /\ Post(sent) /\ Say(said)
               /\ UNCHANGED admitting

\* _remove_request: every participant drains.
RemoveRequest(r, fails, sent, said) ==
    RegisterDraining(r, Entities, fails, Then(sent, ToAll("drain", r)), said)

\* _reject_request: only the data worker holds anything of it.
Reject(r) ==
    /\ earlyDone' = [earlyDone EXCEPT ![r] = {}]
    /\ Post(ToData("remove", r))
    /\ Say(<<Msg("failed", r)>>)

(***************************************************************************)
(* _admit_request and _do_ingest_request: dispatched to every worker;      *)
(* refused before any heard of it; or failed after some heard of it, in    *)
(* the order of the ranks.                                                 *)
(***************************************************************************)
Dispatch(r) ==
    /\ requests' = requests \cup {r}
    /\ Post(IF ClientStreams THEN Then(ToWorkers("new", r), ToData("route", r))
            ELSE ToWorkers("new", r))
    /\ UNCHANGED <<draining, expected, failing, admitting, earlyDone, toApi, verdicts>>

DispatchRefused(r) ==
    /\ May("dispatch")
    /\ Reject(r)
    /\ UNCHANGED <<requests, draining, expected, failing, admitting>>

DispatchFails(r) ==
    /\ May("dispatch")
    /\ \E heard \in SUBSET Workers :
         /\ heard # Workers /\ \A w \in heard : Leader[w] \in heard
         /\ RemoveRequest(r, TRUE, [e \in Entities |->
                IF e \in heard THEN <<Msg("new", r)>> ELSE <<>>], <<>>)

Admit(r) == Dispatch(r) \/ DispatchRefused(r) \/ DispatchFails(r)

Full == Cardinality(requests) >= Capacity

\* Between two messages of the conductor's cycle, and at the end of one.
Idle == up /\ ~admitting
CycleEnd == Idle /\ ended = {}

Take(e) == toC' = [toC EXCEPT ![e] = Tail(@)]

(***************************************************************************)
(* _ingest_request: dropped where its abort came first; rejected for its   *)
(* seed, or where it takes input as it runs and would have to wait; left   *)
(* to wait; or admitted.                                                   *)
(***************************************************************************)
IngestRequest(r) ==
    IF r \in earlyAbort
      THEN /\ earlyAbort' = earlyAbort \ {r} /\ earlyDone' = [earlyDone EXCEPT ![r] = {}]
           /\ Post(ToData("remove", r))
           /\ UNCHANGED <<requests, waiting, draining, expected, failing, admitting, toApi, verdicts>>
      ELSE /\ UNCHANGED earlyAbort
           /\ \/ /\ Full /\ waiting' = Append(waiting, r)
                 /\ UNCHANGED <<requests, draining, expected, failing, admitting, earlyDone,
                                fromC, toApi, verdicts>>
              \/ /\ Full /\ (ClientStreams \/ May("dispatch")) /\ Reject(r)
                 /\ UNCHANGED <<requests, waiting, draining, expected, failing, admitting>>
              \/ ~Full /\ Admit(r) /\ UNCHANGED waiting

ReceiveNew ==
    /\ Idle /\ toC[Data] # <<>>
    /\ LET m == Head(toC[Data]) IN
         /\ m.kind = "new"
         /\ IngestRequest(m.rid)
    /\ Take(Data)
    /\ UNCHANGED <<apiVars, outVars, dataVars, partVars, completed, reported, passes, ended,
                   up, workVars, fwd, forced>>

\* _try_admit_waiting
AdmitWaiting ==
    /\ up /\ admitting
    /\ IF waiting = <<>> \/ Full
         THEN /\ admitting' = FALSE
              /\ UNCHANGED <<requests, waiting, draining, expected, failing, earlyDone,
                             fromC, toApi, verdicts>>
         ELSE waiting' = Tail(waiting) /\ Admit(Head(waiting))
    /\ UNCHANGED <<apiVars, outVars, dataVars, partVars, completed, reported, passes, ended,
                   earlyAbort, up, workVars, toC, fwd, forced>>

Running(r) == r \in requests \ draining

\* _abort_request: waiting, unknown, draining already, or running.
AbortRequest(r) ==
    \/ /\ \E i \in DOMAIN waiting :
            /\ waiting[i] = r
            /\ waiting' = SubSeq(waiting, 1, i - 1) \o SubSeq(waiting, i + 1, Len(waiting))
       /\ earlyDone' = [earlyDone EXCEPT ![r] = {}]
       /\ Post(ToData("remove", r))
       /\ UNCHANGED <<requests, draining, expected, failing, admitting, earlyAbort, toApi, verdicts>>
    \/ /\ r \notin requests /\ \A i \in DOMAIN waiting : waiting[i] # r
       /\ earlyAbort' = earlyAbort \cup {r}
       /\ UNCHANGED <<requests, waiting, draining, expected, failing, admitting, earlyDone,
                      fromC, toApi, verdicts>>
    \/ /\ r \in draining
       /\ UNCHANGED <<requests, waiting, draining, expected, failing, admitting, earlyAbort,
                      earlyDone, fromC, toApi, verdicts>>
    \/ /\ Running(r)
       /\ RemoveRequest(r, FALSE, Nothing, <<>>)
       /\ UNCHANGED <<waiting, earlyAbort>>

ReceiveAbort ==
    /\ Idle /\ toC[Data] # <<>>
    /\ LET m == Head(toC[Data]) IN m.kind = "abort" /\ AbortRequest(m.rid)
    /\ Take(Data)
    /\ UNCHANGED <<apiVars, outVars, dataVars, partVars, completed, reported, passes, ended,
                   up, workVars, fwd, forced>>

\* _handle_reads_done: early where no barrier is up.
ReadsDone(e, r) ==
    IF r \notin draining
      THEN /\ earlyDone' = [earlyDone EXCEPT ![r] = @ \cup {e}]
           /\ UNCHANGED <<requests, draining, expected, failing, admitting, fromC, toApi, verdicts>>
      ELSE /\ UNCHANGED earlyDone
           /\ IF expected[r] \subseteq {e} THEN Finalize(r, r \in failing, Nothing, <<>>)
              ELSE /\ expected' = [expected EXCEPT ![r] = @ \ {e}]
                   /\ UNCHANGED <<requests, draining, failing, admitting, fromC, toApi, verdicts>>

ReceiveReadsDone(e) ==
    /\ Idle /\ toC[e] # <<>>
    /\ LET m == Head(toC[e]) IN m.kind = "reads_done" /\ ReadsDone(e, m.rid)
    /\ Take(e)
    /\ UNCHANGED <<apiVars, outVars, dataVars, partVars, waiting, completed, reported, passes, ended,
                   earlyAbort, up, workVars, fwd, forced>>

\* _fail_requests: the first report of a running request counts.
ReceiveFail(w) ==
    /\ Idle /\ toC[w] # <<>>
    /\ LET m == Head(toC[w]) IN
         /\ m.kind = "fail"
         /\ IF Running(m.rid) THEN RemoveRequest(m.rid, TRUE, Nothing, <<>>)
            ELSE UNCHANGED <<requests, draining, expected, failing, admitting, earlyDone,
                             fromC, toApi, verdicts>>
    /\ Take(w)
    /\ UNCHANGED <<apiVars, outVars, dataVars, partVars, waiting, completed, reported, passes, ended,
                   earlyAbort, up, workVars, fwd, forced>>

\* _process_worker_graphs_done: the pass is over when every rank has reported.
ReceiveDone(w) ==
    /\ Idle /\ toC[w] # <<>>
    /\ LET m == Head(toC[w])
           all == reported[m.rid] \cup {w}
       IN /\ m.kind = "done"
          /\ IF Running(m.rid)
               THEN /\ reported' = [reported EXCEPT ![m.rid] = all]
                    /\ ended' = IF all = Workers THEN ended \cup {m.rid} ELSE ended
               ELSE UNCHANGED <<reported, ended>>
    /\ Take(w)
    /\ UNCHANGED <<apiVars, outVars, dataVars, partVars, requests, waiting, draining, expected,
                   failing, completed, passes, admitting, earlyAbort, earlyDone, up, workVars,
                   fromC, toApi, fwd, hist>>

(***************************************************************************)
(* The second half of the conductor's cycle, for a request whose pass is   *)
(* over: _process_done_forward sends the inputs of the next pass, or the   *)
(* request is done; either may raise (_fail_after_error).                  *)
(***************************************************************************)
NextPass(r) ==
    /\ passes[r] < MaxPasses
    /\ passes' = [passes EXCEPT ![r] = @ + 1]
    /\ Post(ToWorkers("inputs", r))
    /\ UNCHANGED <<requests, draining, expected, failing, completed, admitting, earlyDone,
                   toApi, verdicts>>

ForwardRaises(r) ==
    /\ May("advance")
    /\ RemoveRequest(r, TRUE, Nothing, <<>>)
    /\ UNCHANGED <<passes, completed>>

\* Who must have drained before a finished request is removed.
Readers == IF ClientStreams THEN Entities ELSE {Data}

\* The client streams' later items are answered as late.
Unroute(r) == IF ClientStreams THEN ToData("unroute", r) ELSE Nothing

\* _process_request_done: the client first, then the barrier.
RequestDone(r) ==
    /\ completed' = completed \cup {r}
    /\ RegisterDraining(r, Readers, FALSE,
           IF ClientStreams THEN Then(Unroute(r), ToWorkers("drain", r)) ELSE Nothing,
           <<Msg("complete", r)>>)
    /\ UNCHANGED passes

\* Fault: the client that has heard of the end is sent a failure too.
FaultyDoneRaises(r) ==
    /\ May("advance")
    /\ completed' = completed \cup {r}
    /\ RemoveRequest(r, TRUE, Unroute(r), <<Msg("complete", r)>>)
    /\ UNCHANGED passes

\* It raises once the client has heard: torn down, and not answered again.
DoneRaises(r) ==
    /\ May("advance")
    /\ completed' = completed \cup {r}
    /\ RemoveRequest(r, r \notin completed', Unroute(r), <<Msg("complete", r)>>)
    /\ UNCHANGED passes

\* Torn down since, by a message of the same cycle.
Skip(r) ==
    /\ ~Running(r)
    /\ UNCHANGED <<requests, draining, expected, failing, completed, passes, admitting, earlyDone,
                   fromC, toApi, verdicts>>

Advance(r) ==
    /\ Idle /\ r \in ended
    /\ ended' = ended \ {r}
    /\ reported' = [reported EXCEPT ![r] = {}]
    /\ \/ Skip(r)
       \/ Running(r) /\ (NextPass(r) \/ ForwardRaises(r) \/ RequestDone(r) \/ DoneRaises(r))
    /\ UNCHANGED <<apiVars, outVars, dataVars, partVars, waiting, earlyAbort, up, workVars,
                   toC, fwd, forced>>

-----------------------------------------------------------------------------
(* The conductor's deadlines (_sweep_expiry), and the death of a worker *)

\* A barrier that takes longer than _drain_ttl_s is pushed through.
ExpireDrain(r) ==
    /\ May("deadline") /\ CycleEnd /\ r \in draining
    /\ forced' = forced \cup {r}
    /\ Finalize(r, r \in failing, Nothing, <<>>)
    /\ UNCHANGED <<apiVars, outVars, dataVars, partVars, waiting, completed, reported, passes, ended,
                   earlyAbort, earlyDone, up, workVars, toC, fwd>>

(***************************************************************************)
(* What came early is dropped after as long: the entries of requests that  *)
(* the conductor does not have, or, where even messages take that long,    *)
(* any.                                                                    *)
(***************************************************************************)
ExpireEarly(r) ==
    /\ CycleEnd /\ (May("deadline") \/ r \notin requests \cup Range(waiting))
    /\ \/ r \in earlyAbort /\ earlyAbort' = earlyAbort \ {r} /\ UNCHANGED earlyDone
       \/ earlyDone[r] # {} /\ earlyDone' = [earlyDone EXCEPT ![r] = {}] /\ UNCHANGED earlyAbort
    /\ UNCHANGED <<apiVars, outVars, dataVars, partVars, requests, waiting, draining, expected,
                   failing, completed, reported, passes, ended, admitting, up, workVars,
                   toC, fromC, toApi, fwd, hist>>

\* Those still waiting for their answer: not the completed, nor the aborted.
Unanswered == Range(waiting) \cup {r \in requests : r \in draining => r \in failing}

\* _poll_worker_liveness and _fail_all_requests: the deployment goes down.
WorkerDies ==
    /\ May("death") /\ CycleEnd
    /\ up' = FALSE
    /\ \E order \in {s \in [1..Cardinality(Unanswered) -> Unanswered] : Range(s) = Unanswered} :
         Say([i \in DOMAIN order |-> Msg("failed", order[i])])
    /\ UNCHANGED <<apiVars, outVars, dataVars, partVars, requests, waiting, draining, expected,
                   failing, completed, reported, passes, ended, admitting, earlyAbort, earlyDone,
                   workVars, toC, fromC, fwd, forced>>

-----------------------------------------------------------------------------
(* The workers *)

\* pending_tp_follow_count: steps of r that rank 0 sent and w has not taken; a
\* removal clears the count (clear_wire_rid).
Awaits(w, r) == r \notin torn[w] /\ {Msg("step", r), Msg("spec", r)} \cap Range(tpq[w]) # {}

\* Fault: a step that rank 0 sent may still name the request.
FaultyQuiet(w, r) == ~(r \in held[w] /\ r \in reads[w])

\* Fault: a transfer may still run.
FaultyQuietReads(w, r) == ~Awaits(w, r)

\* What _complete_drain_if_ready waits for; of a request with no handle, only the steps.
Quiet(w, r) == ~(r \in held[w] /\ r \in reads[w]) /\ ~Awaits(w, r)

\* _complete_drain_if_ready
CompleteDrain(w, r) ==
    IF Quiet(w, r) /\ r \notin acked[w]
      THEN acked' = Add(acked, w, r) /\ Tell(w, "reads_done", r)
      ELSE UNCHANGED <<acked, toC>>

\* _begin_drain: no new work for r, and READS_DONE at once where nothing is in flight.
BeginDrain(w, r) ==
    /\ failed' = IF r \in held[w] THEN Add(failed, w, r) ELSE failed
    /\ drain' = Add(drain, w, r)
    /\ CompleteDrain(w, r)

\* _in_flight_rids
InStep(w, r) == work[w][r] = "step" \/ r \in spec[w]

\* _drain_request, once it is from the conductor to a leader or from rank 0.
DrainRequest(w, r) ==
    /\ IF InStep(w, r)
         THEN pendDrain' = Add(pendDrain, w, r) /\ UNCHANGED <<failed, drain, acked, toC>>
         ELSE BeginDrain(w, r) /\ UNCHANGED pendDrain
    /\ UNCHANGED <<reads, torn, held, work, spec, pendRemove, tpq, parked, freed>>

\* _pending_removes, a dict whose keys keep the order in which they came.
With(s, r) == IF r \in Range(s) THEN s ELSE Append(s, r)
Without(s, r) ==
    IF r \notin Range(s) THEN s
    ELSE LET i == CHOOSE i \in DOMAIN s : s[i] = r
         IN SubSeq(s, 1, i - 1) \o SubSeq(s, i + 1, Len(s))

\* _mark_removed
MarkRemoved(w, r) ==
    /\ torn' = Add(torn, w, r)
    /\ drain' = Del(drain, w, r) /\ acked' = Del(acked, w, r)
    /\ pendDrain' = Del(pendDrain, w, r)
    /\ parked' = Del(parked, w, r)

(***************************************************************************)
(* The hard removal of _remove_request: the request's tensors, pages and   *)
(* handle are freed, whoever still refers to them.                         *)
(***************************************************************************)
Removal(w, r) ==
    /\ MarkRemoved(w, r)
    /\ held' = Del(held, w, r)
    /\ work' = [work EXCEPT ![w][r] = "none"]
    /\ failed' = Del(failed, w, r)
    /\ pendRemove' = [pendRemove EXCEPT ![w] = Without(@, r)]
    /\ freed' = [freed EXCEPT ![w] = Append(@, r)]
    /\ UNCHANGED spec

\* Deferred while a step holds the request and, on a follower, behind one deferred earlier.
Behind(w, r) == ~Leads(w) /\ pendRemove[w] # <<>> /\ Head(pendRemove[w]) # r

RemoveHeld(w, r) ==
    IF InStep(w, r) \/ Behind(w, r)
      THEN /\ pendRemove' = [pendRemove EXCEPT ![w] = With(@, r)]
           /\ UNCHANGED <<torn, drain, acked, pendDrain, parked, held, work, spec, failed, freed>>
      ELSE Removal(w, r)

\* Fault: a follower removes on the conductor's word, ahead of the steps rank 0 sent it.
FaultyRemoveMessage(w, r) ==
    /\ \/ /\ r \notin held[w]
          /\ MarkRemoved(w, r)
          /\ UNCHANGED <<held, work, spec, failed, pendRemove, freed>>
       \/ r \in held[w] /\ RemoveHeld(w, r)
    /\ UNCHANGED <<reads, tpq, toC>>

\* _remove_request of the conductor's message: a follower waits for rank 0's.
RemoveMessage(w, r) ==
    /\ \/ /\ r \notin held[w]
          /\ MarkRemoved(w, r)
          /\ UNCHANGED <<held, work, spec, failed, pendRemove, freed>>
       \/ r \in held[w] /\ Leads(w) /\ RemoveHeld(w, r)
       \/ /\ r \in held[w] /\ ~Leads(w)
          /\ UNCHANGED <<torn, drain, acked, pendDrain, parked, held, work, spec, failed, pendRemove, freed>>
    /\ UNCHANGED <<reads, tpq, toC>>

\* A pass's inputs, some of them to be read from another participant.
TakeInputs(w, r) ==
    /\ work' = [work EXCEPT ![w][r] = "inputs"]
    /\ reads' = Add(reads, w, r)

\* _fail_requests
Fail(w, r) == Tell(w, "fail", r) /\ failed' = Add(failed, w, r)

(***************************************************************************)
(* _add_new_request: refused after READS_DONE; with no new work where it   *)
(* is draining; failed where the engine cannot take it (in a group every   *)
(* rank would fail alike, which is left out).  A removal of rank 0 that is *)
(* parked for it is handled after it.                                      *)
(***************************************************************************)
NewRefused(w, r) ==
    r \in acked[w] /\ UNCHANGED <<partVars, workVars, toC>>

NewTaken(w, r) ==
    /\ r \notin acked[w] /\ r \notin parked[w]
    /\ held' = Add(held, w, r)
    /\ TakeInputs(w, r)
    /\ failed' = IF r \in drain[w] THEN Add(failed, w, r) ELSE failed
    /\ UNCHANGED <<drain, acked, torn, spec, pendDrain, pendRemove, tpq, parked, freed, toC>>

NewFails(w, r) ==
    /\ May("ingest") /\ Followers(Leader[w]) = {} /\ r \notin acked[w]
    /\ held' = Add(held, w, r)
    /\ Fail(w, r)
    /\ UNCHANGED <<partVars, work, spec, pendDrain, pendRemove, tpq, parked, freed>>

NewParked(w, r) ==
    /\ r \notin acked[w] /\ r \in parked[w]
    /\ reads' = Add(reads, w, r)
    /\ IF tpq[w] = <<>> /\ ~Behind(w, r)
         THEN MarkRemoved(w, r) /\ UNCHANGED <<held, tpq>>
         ELSE /\ held' = Add(held, w, r) /\ parked' = Del(parked, w, r)
              /\ tpq' = [tpq EXCEPT ![w] = Append(@, Msg("remove", r))]
              /\ UNCHANGED <<torn, drain, acked, pendDrain>>
    /\ UNCHANGED <<work, spec, failed, pendRemove, freed, toC>>

NewRequest(w, r) == NewRefused(w, r) \/ NewTaken(w, r) \/ NewFails(w, r) \/ NewParked(w, r)

\* _process_new_inputs: nothing is read after READS_DONE (_takes_input).
NewInputs(w, r) ==
    /\ IF r \in held[w] \ acked[w] THEN TakeInputs(w, r) ELSE UNCHANGED <<work, reads>>
    /\ UNCHANGED <<drain, acked, torn, held, spec, failed, pendDrain, pendRemove, tpq, parked, freed, toC>>

(***************************************************************************)
(* The loop applies what a step held back before it does anything else:    *)
(* removals first (_apply_pending_removes_safe_to_drop), a follower's in   *)
(* their order, and then drains (_apply_pending_drains).                   *)
(***************************************************************************)
RemovesDue(w) ==
    LET free == {i \in DOMAIN pendRemove[w] : ~InStep(w, pendRemove[w][i])}
    IN {pendRemove[w][i] : i \in IF Leads(w) THEN free ELSE free \cap {1}}

DrainsDue(w) == {r \in pendDrain[w] : ~InStep(w, r)}

Settled(w) == up /\ RemovesDue(w) = {} /\ DrainsDue(w) = {}

\* What rank 0 tells its followers of the drain or the removal it has just begun.
PassOn(w, r) ==
    IF r \in held[w] \ held'[w] THEN Forward(w, "remove", r)
    ELSE IF r \in (drain'[w] \ drain[w]) \cap held[w] THEN Forward(w, "drain", r)
    ELSE UNCHANGED fwd

workerUnchanged == <<apiVars, dataVars, condVars, toApi, hist>>

ApplyRemove(w) ==
    /\ up
    /\ \E r \in RemovesDue(w) : Removal(w, r) /\ Forward(w, "remove", r)
    /\ UNCHANGED <<workerUnchanged, outVars, reads, tpq, toC, fromC>>

ApplyDrain(w) ==
    /\ up /\ RemovesDue(w) = {}
    /\ \E r \in DrainsDue(w) :
         BeginDrain(w, r) /\ pendDrain' = Del(pendDrain, w, r) /\ Forward(w, "drain", r)
    /\ UNCHANGED <<workerUnchanged, outVars, reads, torn, held, work, spec, pendRemove, tpq, parked,
                   freed, fromC>>

\* The loop looks again at the drains that wait for a read or for a step.
DrainTurn(w, r) ==
    /\ r \in drain[w] \ acked[w] /\ Settled(w) /\ Quiet(w, r)
    /\ CompleteDrain(w, r)
    /\ UNCHANGED <<workerUnchanged, outVars, drain, reads, torn, workVars, fromC, fwd>>

\* _process_message_list, for the conductor's messages.
WorkerReceive(w) ==
    /\ fromC[w] # <<>> /\ Settled(w)
    /\ fromC' = [fromC EXCEPT ![w] = Tail(@)]
    /\ LET m == Head(fromC[w]) IN
         /\ \/ m.kind = "new" /\ NewRequest(w, m.rid)
            \/ m.kind = "inputs" /\ NewInputs(w, m.rid)
            \/ m.kind = "drain" /\ Leads(w) /\ DrainRequest(w, m.rid)
            \/ m.kind = "drain" /\ ~Leads(w) /\ UNCHANGED <<partVars, workVars, toC>>
            \/ m.kind = "remove" /\ RemoveMessage(w, m.rid)
         /\ PassOn(w, m.rid)
    /\ UNCHANGED <<workerUnchanged, outVars>>

(***************************************************************************)
(* What rank 0 sends a follower: a step to queue, a drain, or a removal,   *)
(* which waits for the steps sent before it (_removal_step_reached).       *)
(***************************************************************************)
FollowRemove(w, r) ==
    \/ /\ r \notin held[w] /\ r \in torn[w]
       /\ UNCHANGED <<partVars, workVars, toC>>
    \/ /\ r \notin held[w] /\ r \notin torn[w]
       /\ parked' = Add(parked, w, r)
       /\ UNCHANGED <<partVars, held, work, spec, failed, pendDrain, pendRemove, tpq, freed, toC>>
    \/ /\ r \in held[w] /\ tpq[w] # <<>>
       /\ tpq' = [tpq EXCEPT ![w] = Append(@, Msg("remove", r))]
       /\ UNCHANGED <<partVars, held, work, spec, failed, pendDrain, pendRemove, parked, freed, toC>>
    \/ /\ r \in held[w] /\ tpq[w] = <<>>
       /\ RemoveHeld(w, r)
       /\ UNCHANGED <<reads, tpq, toC>>

FollowerReceive(w) ==
    /\ fwd[w] # <<>> /\ Settled(w)
    /\ fwd' = [fwd EXCEPT ![w] = Tail(@)]
    /\ LET m == Head(fwd[w]) IN
         \/ /\ m.kind \in {"step", "spec"}
            /\ tpq' = [tpq EXCEPT ![w] = Append(@, m)]
            /\ UNCHANGED <<partVars, held, work, spec, failed, pendDrain, pendRemove, parked, freed, toC>>
         \/ m.kind = "drain" /\ DrainRequest(w, m.rid)
         \/ m.kind = "remove" /\ FollowRemove(w, m.rid)
    /\ UNCHANGED <<workerUnchanged, outVars, fromC>>

\* _apply_removes_whose_step_landed
FollowerRemoves(w) ==
    /\ tpq[w] # <<>> /\ Head(tpq[w]).kind = "remove" /\ Settled(w)
    /\ RemoveHeld(w, Head(tpq[w]).rid)
    /\ tpq' = [tpq EXCEPT ![w] = Tail(@)]
    /\ UNCHANGED <<workerUnchanged, outVars, reads, toC, fromC, fwd>>

\* The inputs of the pass are here.
Ready(w, r) == r \in held[w] /\ work[w][r] = "inputs" /\ r \notin reads[w]

\* A leader takes a step, for no request it failed or drains, and sends it on.
StepStarts(w, r) ==
    /\ Leads(w) /\ Ready(w, r) /\ r \notin failed[w] \cup spec[w] /\ Settled(w)
    /\ work' = [work EXCEPT ![w][r] = "step"]
    /\ Forward(w, "step", r)
    /\ UNCHANGED <<workerUnchanged, outVars, partVars, held, spec, failed, pendDrain, pendRemove, tpq,
                   parked, freed, toC, fromC>>

(***************************************************************************)
(* _try_schedule_tp_follow: a follower takes rank 0's steps in rank 0's    *)
(* order, those of a request it drains too.  A step that names a request   *)
(* with no handle waits.                                                   *)
(***************************************************************************)
StepFollows(w, r) ==
    /\ tpq[w] # <<>> /\ Head(tpq[w]) = Msg("step", r) /\ Settled(w)
    /\ Ready(w, r)
    /\ tpq' = [tpq EXCEPT ![w] = Tail(@)]
    /\ work' = [work EXCEPT ![w][r] = "step"]
    /\ UNCHANGED <<workerUnchanged, outVars, partVars, held, spec, failed, pendDrain, pendRemove,
                   parked, freed, toC, fromC, fwd>>

\* Every rank of w's group has joined the step's collectives, if it has any.
Joined(w, m) == Collective => \A f \in Followers(Leader[w]) : m \notin Range(fwd[f]) \cup Range(tpq[f])

\* _is_tearing_down; a request that drains is among the failed.
TearingDown(w, r) == r \in failed[w] \cup pendDrain[w] \cup Range(pendRemove[w])

\* _try_speculate_next: a next step, built and sent on before the last one's end is known.
Speculate(w, r) ==
    /\ Speculates /\ Leads(w) /\ ~TearingDown(w, r)
    /\ spec' = Add(spec, w, r)
    /\ Forward(w, "spec", r)

(***************************************************************************)
(* The step ran: its outputs are sent, by rank 0, and the rank reports the *)
(* pass.  Rank 0 may be in the next step of the request by then.           *)
(***************************************************************************)
StepEnds(w, r) ==
    /\ up /\ work[w][r] = "step" /\ Joined(w, Msg("step", r))
    /\ work' = [work EXCEPT ![w][r] = "none"]
    /\ chunk' = IF Leads(w) /\ chunk[r] = "none" THEN [chunk EXCEPT ![r] = "sent"] ELSE chunk
    /\ Tell(w, "done", r)
    /\ UNCHANGED <<spec, fwd>> \/ Speculate(w, r)
    /\ UNCHANGED <<workerUnchanged, errors, partVars, held, failed, pendDrain, pendRemove, tpq,
                   parked, freed, fromC>>

\* _try_follow_speculation: of a request whose last step ended here.
SpecFollows(w, r) ==
    /\ tpq[w] # <<>> /\ Head(tpq[w]) = Msg("spec", r) /\ Settled(w)
    /\ r \in held[w] /\ work[w][r] # "step"
    /\ tpq' = [tpq EXCEPT ![w] = Tail(@)]
    /\ spec' = Add(spec, w, r)
    /\ UNCHANGED <<workerUnchanged, outVars, partVars, held, work, failed, pendDrain, pendRemove,
                   parked, freed, toC, fromC, fwd>>

\* The request's row of the speculated step is dropped.
SpecEnds(w, r) ==
    /\ up /\ r \in spec[w] /\ Joined(w, Msg("spec", r))
    /\ spec' = Del(spec, w, r)
    /\ UNCHANGED <<workerUnchanged, outVars, partVars, held, work, failed, pendDrain, pendRemove, tpq,
                   parked, freed, toC, fromC, fwd>>

\* _fail_step_rows
StepFails(w, r) ==
    /\ May("step") /\ up /\ work[w][r] = "step" /\ Joined(w, Msg("step", r))
    /\ work' = [work EXCEPT ![w][r] = "none"]
    /\ Fail(w, r)
    /\ UNCHANGED <<workerUnchanged, outVars, partVars, held, spec, pendDrain, pendRemove, tpq, parked,
                   freed, fromC, fwd>>

\* A transfer stopped.
ReadEnds(w, r) ==
    /\ up /\ r \in reads[w]
    /\ reads' = Del(reads, w, r)
    /\ UNCHANGED <<workerUnchanged, outVars, drain, acked, torn, workVars, toC, fromC, fwd>>

(***************************************************************************)
(* _check_ready_tensors: a read failed, and its transfers may still be     *)
(* running.  The check that makes the ranks of a group agree on a failed   *)
(* read is left out, and so are failed reads in a group.                   *)
(***************************************************************************)
ReadFails(w, r) ==
    /\ May("read") /\ Settled(w) /\ Followers(Leader[w]) = {}
    /\ r \in reads[w] \cap held[w] /\ work[w][r] = "inputs"
    /\ work' = [work EXCEPT ![w][r] = "none"]
    /\ IF r \in failed[w] THEN UNCHANGED <<failed, toC>> ELSE Fail(w, r)
    /\ UNCHANGED <<workerUnchanged, outVars, partVars, held, spec, pendDrain, pendRemove, tpq, parked,
                   freed, fromC, fwd>>

\* A stream's item: read, dropped after READS_DONE or the removal, or kept for the request.
WorkerItem(w, r) ==
    /\ r \in items[w] /\ r \in held[w] \cup torn[w] /\ Settled(w)
    /\ items' = Del(items, w, r)
    /\ reads' = IF r \in held[w] \ acked[w] THEN Add(reads, w, r) ELSE reads
    /\ UNCHANGED <<apiVars, outVars, inq, prep, aborts, releases, live, routed, drain, acked, torn,
                   condVars, workVars, toC, fromC, toApi, fwd, hist>>

-----------------------------------------------------------------------------
(* The specification *)

Init ==
    /\ fresh = Rids /\ pend = {} /\ done = {} /\ recent = {} /\ counts = {}
    /\ chunk = [r \in Rids |-> "none"] /\ errors = {}
    /\ inq = <<>> /\ prep = <<>>
    /\ aborts = [r \in Rids |-> 0] /\ releases = [r \in Rids |-> <<>>]
    /\ live = {} /\ routed = {} /\ items = [w \in Workers |-> {}]
    /\ drain = [e \in Entities |-> {}] /\ acked = [e \in Entities |-> {}]
    /\ reads = [e \in Entities |-> {}] /\ torn = [e \in Entities |-> {}]
    /\ requests = {} /\ waiting = <<>> /\ draining = {}
    /\ expected = [r \in Rids |-> {}] /\ failing = {} /\ completed = {}
    /\ reported = [r \in Rids |-> {}] /\ passes = [r \in Rids |-> 0]
    /\ ended = {} /\ admitting = FALSE /\ earlyAbort = {}
    /\ earlyDone = [r \in Rids |-> {}] /\ up = TRUE
    /\ held = [w \in Workers |-> {}] /\ work = [w \in Workers |-> [r \in Rids |-> "none"]]
    /\ spec = [w \in Workers |-> {}] /\ failed = [w \in Workers |-> {}] /\ pendDrain = [w \in Workers |-> {}]
    /\ pendRemove = [w \in Workers |-> <<>>] /\ tpq = [w \in Workers |-> <<>>]
    /\ parked = [w \in Workers |-> {}] /\ freed = [w \in Workers |-> <<>>]
    /\ toC = [e \in Entities |-> <<>>] /\ fromC = [e \in Entities |-> <<>>]
    /\ toApi = <<>> /\ fwd = [w \in Workers |-> <<>>]
    /\ forced = {} /\ verdicts = [r \in Rids |-> 0]

ApiNext ==
    \/ \E r \in Rids : ClientLeaves(r) \/ ApiResult(r) \/ ApiError(r) \/ Prune(r)
    \/ ApiVerdict \/ ConductorExited

DataNext ==
    \/ \E r \in Rids : DataAbort(r) \/ DataRelease(r) \/ DataResult(r) \/ DataReadEnds(r)
    \/ DataInput \/ DataPrepared \/ DataReceive

ConductorNext ==
    \/ ReceiveNew \/ AdmitWaiting \/ ReceiveAbort
    \/ \E e \in Entities : ReceiveReadsDone(e)
    \/ \E w \in Workers : ReceiveFail(w) \/ ReceiveDone(w)
    \/ \E r \in Rids : Advance(r) \/ ExpireEarly(r)

WorkerNext(w) ==
    \/ ApplyRemove(w) \/ ApplyDrain(w) \/ WorkerReceive(w) \/ FollowerReceive(w) \/ FollowerRemoves(w)
    \/ \E r \in Rids : \/ DrainTurn(w, r) \/ StepStarts(w, r) \/ StepFollows(w, r) \/ StepEnds(w, r)
                       \/ SpecFollows(w, r) \/ SpecEnds(w, r)
                       \/ ReadEnds(w, r) \/ WorkerItem(w, r)

\* What clients do, what fails, and when the conductor gives up on a barrier.
Environment ==
    \/ \E r \in Rids : \/ Submit(r) \/ ClientAborts(r) \/ ServerFails(r) \/ DataAppend(r)
                       \/ DataResultFails(r) \/ DataReadFails(r) \/ ExpireDrain(r)
                       \/ \E w \in Workers : StepFails(w, r) \/ ReadFails(w, r)
    \/ WorkerDies

Next == ApiNext \/ DataNext \/ ConductorNext \/ (\E w \in Workers : WorkerNext(w)) \/ Environment

Spec == Init /\ [][Next]_vars

(***************************************************************************)
(* Every loop keeps turning and serves all its sockets and queues (their   *)
(* polls are level-triggered and drain what is there), transfers and steps *)
(* end, clients collect their answers, and the deadlines of _prune_...     *)
(* and _sweep_expiry pass.  Clients and faults are under no fairness.      *)
(***************************************************************************)
Fairness ==
    /\ \A r \in Rids :
         /\ WF_vars(ClientLeaves(r)) /\ WF_vars(ApiResult(r)) /\ WF_vars(ApiError(r))
         /\ WF_vars(Prune(r)) /\ WF_vars(DataAbort(r)) /\ WF_vars(DataRelease(r))
         /\ WF_vars(DataResult(r)) /\ WF_vars(DataReadEnds(r))
         /\ WF_vars(Advance(r)) /\ WF_vars(ExpireEarly(r)) /\ WF_vars(ExpireDrain(r))
    /\ WF_vars(ApiVerdict) /\ WF_vars(ConductorExited)
    /\ WF_vars(DataInput) /\ WF_vars(DataPrepared) /\ WF_vars(DataReceive)
    /\ WF_vars(ReceiveNew) /\ WF_vars(AdmitWaiting) /\ WF_vars(ReceiveAbort)
    /\ \A e \in Entities : WF_vars(ReceiveReadsDone(e))
    /\ \A w \in Workers :
         /\ WF_vars(ReceiveFail(w)) /\ WF_vars(ReceiveDone(w))
         /\ WF_vars(WorkerReceive(w)) /\ WF_vars(FollowerReceive(w)) /\ WF_vars(FollowerRemoves(w))
         /\ WF_vars(ApplyRemove(w)) /\ WF_vars(ApplyDrain(w))
         /\ \A r \in Rids :
              /\ WF_vars(DrainTurn(w, r)) /\ WF_vars(StepStarts(w, r)) /\ WF_vars(StepFollows(w, r))
              /\ WF_vars(SpecFollows(w, r)) /\ WF_vars(SpecEnds(w, r))
              /\ WF_vars(StepEnds(w, r)) /\ WF_vars(ReadEnds(w, r)) /\ WF_vars(WorkerItem(w, r))

FairSpec == Spec /\ Fairness

-----------------------------------------------------------------------------
(* Properties *)

Messages(kinds) == Seq([kind : kinds, rid : Rids])

\* Every variable has its type.
TypeOK ==
    /\ fresh \subseteq Rids /\ pend \subseteq Rids /\ done \subseteq Rids
    /\ recent \subseteq Rids /\ counts \subseteq Rids /\ errors \subseteq Rids
    /\ chunk \in [Rids -> {"none", "sent", "queued", "reading", "got", "lost"}]
    /\ inq \in Seq(Rids) /\ prep \in Seq(Rids) /\ waiting \in Seq(Rids)
    /\ aborts \in [Rids -> Nat] /\ releases \in [Rids -> Seq(BOOLEAN)]
    /\ live \subseteq Rids /\ routed \subseteq Rids /\ items \in [Workers -> SUBSET Rids]
    /\ {drain, acked, reads, torn} \subseteq [Entities -> SUBSET Rids]
    /\ draining \subseteq requests /\ requests \subseteq Rids /\ failing \subseteq draining
    /\ expected \in [Rids -> SUBSET Entities] /\ completed \subseteq Rids
    /\ reported \in [Rids -> SUBSET Workers] /\ passes \in [Rids -> 0..MaxPasses]
    /\ ended \subseteq Rids /\ admitting \in BOOLEAN /\ up \in BOOLEAN
    /\ earlyAbort \subseteq Rids /\ earlyDone \in [Rids -> SUBSET Entities]
    /\ {held, spec, failed, pendDrain, parked} \subseteq [Workers -> SUBSET Rids]
    /\ work \in [Workers -> [Rids -> {"none", "inputs", "step"}]]
    /\ {pendRemove, freed} \subseteq [Workers -> Seq(Rids)]
    /\ tpq \in [Workers -> Messages({"step", "spec", "remove"})]
    /\ fwd \in [Workers -> Messages({"step", "spec", "drain", "remove"})]
    /\ toC \in [Entities -> Messages({"new", "abort", "reads_done", "fail", "done"})]
    /\ fromC \in [Entities -> Messages({"new", "inputs", "drain", "remove", "route", "unroute"})]
    /\ toApi \in Messages({"complete", "failed"})
    /\ forced \subseteq Rids /\ verdicts \in [Rids -> Nat]

(***************************************************************************)
(* The barrier (_handle_reads_done, force_cleanup_request): when a         *)
(* participant frees a request's tensors no other one that still has the   *)
(* request is reading, unless a deadline pushed the barrier through.       *)
(***************************************************************************)
RemovedUnread ==
    [][\A e \in Entities : \A r \in (torn'[e] \ torn[e]) \ forced :
         \A other \in Entities \ {e} : r \in reads[other] => r \in torn[other]]_vars

(***************************************************************************)
(* "Once every entity in expected_acks has sent READS_DONE it is safe to   *)
(* send the hard RemoveRequest" (DrainingRequest): nothing is read from a  *)
(* participant that has freed it, unless a deadline pushed it through.     *)
(***************************************************************************)
NothingFreedIsRead ==
    \A r \in Rids \ (forced \cup completed) : \A e \in Entities :
        r \in reads[e] => \A other \in Entities \ {e} : r \notin torn[other]

\* The conductor tells a client the end of its request at most once: a failure that
\* waits for the barrier, a completion that raised and the death of a worker included.
ToldOnce == \A r \in Rids : verdicts[r] <= 1

\* A request waits only for a slot (_try_admit_waiting): it is never left waiting
\* once the conductor is between messages with a slot free, and slots are never overrun.
NoIdleSlot ==
    /\ Cardinality(requests) <= Capacity
    /\ up /\ ~admitting /\ waiting # <<>> => Full

\* A request whose abort the conductor has seen never reaches it after that: the
\* data worker's is_pending checks and the FIFO keep an abort behind its request.
NewBeforeAbort ==
    \A r \in earlyAbort : Msg("new", r) \notin Range(toC[Data]) /\ r \notin requests \cup Range(waiting)

\* A step rank 0 sent never names a request that the follower has removed, on which
\* the follower would wait for good (pop_ready_rids), unless a deadline forced it.
StepsNameHeld ==
    \A w \in Workers : \A r \in torn[w] \ forced :
        {Msg("step", r), Msg("spec", r)} \cap (Range(tpq[w]) \cup Range(fwd[w])) = {}

\* x comes before y in s.
Precedes(s, x, y) == \E i, j \in DOMAIN s : i < j /\ s[i] = x /\ s[j] = y

\* A follower frees requests in rank 0's order (_remove_request, "behind"), none of
\* them ahead of rank 0, so that the ranks' free lists hand out the same pages.
SameOrder ==
    \A w \in Workers : \A r \in Range(freed[w]) \ forced :
        /\ r \in Range(freed[Leader[w]])
        /\ \A q \in Range(freed[w]) \ forced :
             Precedes(freed[w], q, r) => Precedes(freed[Leader[w]], q, r)

\* A request that a participant has said it no longer reads gets no read there
\* (_takes_input, _draining_rids), while its barrier is up.
AckedUnread ==
    \A e \in Entities : \A r \in (acked[e] \cap drain[e]) \cap draining : r \notin reads[e]

\* Every submitted request is answered: by its end, an error or an abort.
Answered == \A r \in Rids : r \in pend \ done ~> r \notin pend \ done

\* Nothing is kept of the request in any process.
Gone(r) ==
    /\ r \notin pend \cup recent \cup counts \cup errors \cup Range(inq) \cup Range(prep) \cup live \cup routed
    /\ r \notin requests \cup Range(waiting) \cup earlyAbort /\ earlyDone[r] = {}
    /\ \A e \in Entities : r \notin drain[e] \cup acked[e] \cup reads[e]
    /\ \A w \in Workers : /\ r \notin held[w] \cup spec[w] \cup failed[w] \cup pendDrain[w] \cup parked[w] \cup items[w]
                          /\ r \notin Range(pendRemove[w]) /\ work[w][r] = "none"
                          /\ \A m \in Range(tpq[w]) : m.rid # r

\* Every request is in the end forgotten, by every process.
Forgotten == \A r \in Rids : r \in pend ~> []Gone(r)

=============================================================================
