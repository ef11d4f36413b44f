# Verification of mstar

mstar serves multimodal models: a request is a walk over a graph of model nodes,
split into partitions that run on several worker processes.  This directory holds
TLA+ models of the parts that decide *who may run, with which memory, and when it
is given back*, of how tensors and streams travel between the processes, and of how a
request ends across the processes that share them, the TLC configurations that check
them, and TLAPS proofs.

## 1. The system

| Part | State it keeps | Operations | Talks to |
|---|---|---|---|
| API server (`api_server/entrypoint.py`) | pending and recently completed requests, chunk counts | submit, deliver, prune, abort, fail | conductor, data worker (a thread of its process), workers' results |
| Data worker (`api_server/data_worker.py`, the conductor's `PREPROCESS_WORKER`) | queued and prepared input, live requests, reads in flight, drains, client streams | prepare, send, read outputs, append, drain, remove | conductor, workers, API server by queues |
| Conductor (`mstar/conductor`) | queue, running requests, drain barriers, mirror of each pool's prefix index | ingest, route, admit, partition done, fail, abort, drain, sweep of timeouts | API server, data worker, workers |
| Worker (`mstar/worker`) | request table, ready queues, parked checks, step in flight | ingest, schedule, build batches, run, speculate, offload, remove | conductor, other workers, engine |
| Micro scheduler (`worker/micro_scheduler.py`) | backlog, parked and failed requests, holds | scan, check readiness, unpark, form batches | engine, admission |
| Engine (`mstar/engine`) | resources of its nodes | check ready, admit, plan, run, commit, roll back | resource runner |
| Admission (`engine/resources/admission.py`) | one queue per resource that asks, marks, arrivals | admit, admit_waiting, remove_request | resources |
| KV pool (`engine/resources/kv`) | page arena, prefix index, streams, allotments, leases, host pool | ask, reserve, lease, admit, commit, roll back, drop, offload, reload, remove | admission, engine, host copies |
| Other resources (`engine/resources/{recurrent,lora,sampler,...}`) | slots, adapters, sampler state | the same contract | admission, engine |
| Graph runtime (`mstar/graph`, `rust/src/graph`) | frames, ready nodes, loops | deliver, ready, finish | worker |
| Tensor store and communication (`mstar/communication`, `rust/src`) | tensors with reference counts, reads in flight, buffers kept for transfers that have not stopped | publish, read, deliver, acknowledge, un-persist, free | workers, data worker, conductor |
| Streaming (`mstar/streaming`, `worker/stream_buffers.py`) | items and chunks of a stream edge, the chunk policy | register, put, end, pop, give back | worker, graph runtime |

Where it is hard.  Inside a worker, the worker thread and the GPU thread share each
resource under its lock, and a decision often spans several critical sections.
Capacity is counted incrementally, in three places that must agree: the owner
counts of the arena, the evictable set of the prefix index, and the allotments of
admitted requests.  A request that waits is only looked at again when a counter
says so, so a counter that misses a change is a request that waits for ever.
Between processes, removal races the messages of the request that is removed: a
request is known to up to four kinds of process, each of which may fail it, and its
tensors may be freed only when none of them reads any more.  Transfers outlive the
reads that started them, acknowledgements and reader counts reach a producer over
different sockets, and the end of a stream overtakes its items.
`PROJECT.json` lists the hazards at their lines.

## 2. Modules

| Module | Code | What it is |
|---|---|---|
| `PrefixIndex` | `kv/prefix_index.py`, `kv/arena.py` | the index of cached prompt pages and the owner counts under it, one step per turn of each loop |
| `PrefixIndexProofs` | | its inductive invariants and seven theorems: of the index, of the forest as a whole and of the order of eviction |
| `KVPool` | `kv/manager.py`, `kv/cpu_page_pool.py` | allotments, leases, steps, offload and reload over the pages, one step per critical section |
| `KVPoolProofs` | | its inductive invariants, of the pages and of the budget, and six theorems |
| `Admission` | `admission.py`, `micro_scheduler.py`, `runner.py` | the queues, one step per call of a resource |
| `AdmissionProofs` | | its inductive invariant and five theorems |
| `Teardown` | `conductor.py`, `worker.py`, `data_worker.py`, `entrypoint.py`, the follow queue of `micro_scheduler.py` | the life of a request across the processes and its end, one step per message handled or turn of a loop |
| `TeardownProofs` | | inductive invariants about the way of a request into the conductor and about the barrier at its end, and six theorems |
| `TeardownOrderProofs` | | on top of it: the ranks of a group, by what rank 0 has sent a follower that has not done it, and three theorems |
| `ReadContract` | | what the reader of a tensor promises its producer and the conductor, as an abstract specification |
| `TensorReads` | `communication/tensors.py`, `tensor_store.py` | the reader: reads over a transfer engine, delivery, failures, drains, removal; implements `ReadContract` |
| `TensorReadsProofs` | | its inductive invariant, four theorems and the refinement of `ReadContract` |
| `TensorRefs` | `tensors.py`, `tensor_store.py`, `conductor.py` | the producer's counts and the conductor's count of passed-on tensors, composed with a reader that is `ReadContract` |
| `TensorRefsProofs` | | its inductive invariant and four theorems |
| `StreamBuffer` | `streaming/*.py`, `worker/stream_buffers.py`, `speculation.py`, `rust/src/graph/state.rs` | one stream from the messages of its items to the steps that consume its chunks |
| `StreamBufferProofs` | | its inductive invariants and five theorems |
| `MC...` | | instances for TLC |

`PrefixIndex`, `KVPool` and `Admission` stand on each other by what each shows of the one below.  `KVPool` takes
from `PrefixIndex` that the evictable set is exact and that eviction reaches all of
it, and replaces the incremental set by its definition (`EvictableOf`) and eviction
by a choice of evictable pages, closed under children.  `Admission` takes from
`KVPool` the resource contract: a request that does not fit leaves a mark, and as
long as the mark has not been passed it still does not fit (`MarkSound`).  These two
steps are argued here and not yet checked as refinements (section 8).  `Teardown` is
about the processes around them; the pages that a worker frees on a removal are the
`Remove` of `KVPool` and the `RemoveRequest` of `Admission`, and its reads, which end at
any time there, are those of `TensorReads`.  `TensorReads` and `TensorRefs` meet in
`ReadContract`: that the one implements it is checked and proved (`KeepsContract`), and the
other uses its actions for the reader.

### PrefixIndex

The variables are the fields of `PrefixIndex` (`_by_key`, `_key`, `_parent`,
`_children`, `_held_below`, `_evictable`, `_stamp`, `_leaves`, `_clock`) and
`PageArena.num_owners`; `refs` records how many owners are callers.  `op` is the
call in progress: every caller holds the pool's lock, so there is at most one.

| Code | Definition |
|---|---|
| `acquire`, `retain`, `release` (arena) | `Acquire`, `Retain`, `Release`, with `set_shared` as `SetShared` |
| `_pin_above`, `_unpin_above`, one turn | `PinAbove`, `UnpinAbove` |
| `insert` | `Insert`, `ParentFor` |
| `lookup`, `touch` | `Lookup`, `Run`, `Touch` |
| `evict`, `_pop_leaf`, `_remove` | `Evict`, `PopLeaf`, `EvictLeaf`, `EvictSpared`, `EvictEnd`, `Remove` |
| `drop` | `Drop` |

The pages below a page are those whose chain of parents (`Lineage`) it is in: `Lineage` is
the least set closed under `parent`, so that it can be reasoned about.  The heap is a bag of entries and a pop takes any entry with the least stamp: Python
breaks ties by page number, which is left open.  `touch` of a page that is not
indexed does nothing in the code and is no step here.  `drop` of a list is one
`Drop` per entry.  Two configurations exist in the code and are the constants
`UseSpare` and `UseDrop`: a worker's pool gives `evict` the keys whose host copy is
awaited and never drops, the conductor's mirror drops and never spares.  The index
of the host pool, which the arena does not report to, is a third one, not modelled.

### KVPool

A rank that decides admission (`_decides`), one stream per request, lengths in whole
pages.  `Chain[r]` is the sequence of keys of `r`'s prompt, one per page; `content`
records what has been written to a page, so that a page served under the wrong key
shows.  A key has one place in all prompts and one key before it, as it hashes the key before
its page (`page_key` of `keys.py`, `KVPoolAssumption`).  `stage` says where the stream is: `OffloadClaim` and `OffloadCommit` (or
`OffloadAbandon`), and `ReloadTake` and `ReloadLand`, are the two critical sections
of `offload` and `reload` around the copy, and other requests run between them.  A
request is not removed between them, because offload, reload and removal are all
called from the worker's thread.

| Code | Definition |
|---|---|
| `ask`, `reserve`, `unreserve`, `_need` | `Reserve`, `Unreserve`, `Need` |
| `_room`, `_allowance`, `_recount`, `_release` | `Room`, `Allowance`, `Recount`, `Remaining`, `ReleasePages` |
| `_lease`, `_retain_cached` | `Lease`, `Affordable` |
| `admit`, `_adopt`, `_alloc`, `_grant`, `_evict` | `Admit`, `AdmitRefused`, `Convert`, `Covered`, `GrantPages`, `Evictions` |
| `rollback_admit` | `Rollback` |
| `commit`, `_index_filled_pages`, `insert_run` | `Commit`, `File` |
| `drop` | `Drop` |
| `offload`: `_claim_for_offload`, `_offload_stream`, `_commit_offload`, `_abandon_claims` | `OffloadClaim`, `OffloadCommit`, `OffloadAbandon`, `HostFits`, `KeyedPages`, `Reusable` |
| `reload` | `ReloadTake`, `ReloadShort`, `ReloadLand` |
| `remove_request` | `Remove` |
| `RoomMark`, `_grew_since` | `mark`: the room at the failed `reserve`, and whether `filed` or `taken` has moved since |

### Admission

The variables are the fields of `Admission` and the scheduler's `parked` and
`failed_rids`.  A queue is the set of its members: the list is kept in arrival order
and arrival numbers are distinct.  `call` is the call in progress.  The worker's
thread makes one call at a time, but between two calls of `Resource.reserve` the
GPU thread may take capacity (`Grow`), give some back (`Shrink`) or file and take
cached pages (`Move`, which lowers what requests need and moves a counter).

| Code | Definition |
|---|---|
| `_check_ready` -> `admit` | `AdmitAtOnce`, `AdmitFails`, `AdmitAsks`, `ParkRequest` |
| `_reserve` | `ReserveKey`, `ReserveLast`, `ReserveShort` |
| `_unpark` -> `admit_waiting` | `AdmitWaiting`, `SweepTry`, `SweepSkip`, `SweepEnd` |
| `_leave`, `remove_request` | `Leave`, `Forget`, `RemoveRequest` |

The keys of a node and the queues of a sweep are taken in any order, where the code
takes them in the order of a dict.  `next(self._arrivals)` also uses a number up when
the request has one; numbers are only compared, so the gap is left out.

### Teardown

Four kinds of process and a FIFO for every pair that talks: `toC` and `fromC` to and
from the conductor, `toApi` its verdicts, `fwd` what rank 0 of a tensor-parallel group
sends its followers.  The queues between the API server and its data worker are
variables of their own (`inq`, `aborts`, `releases`, `chunk`, `errors`).  An action is
one message handled, with everything the handler sends, or one turn of a loop.
`drain`, `acked`, `reads` and `torn` are kept for every participant: `_draining_rids`,
`_reads_done_sent`, reads in flight, and what was removed.  `forced`, `verdicts` and
`freed` are history, for the properties.

| Code | Definition |
|---|---|
| `submit_request`, `abort_submission`, `_fail_request`, `is_pending` | `Submit`, `ClientAborts`, `ServerFails`, `IsPending` |
| `APIServer._process_messages`, `_prune_recently_completed` | `ApiResult`, `ApiVerdict`, `ApiError`, `Prune`, `ConductorExited` |
| `_process_waiting_input`, `_release_prepared`, `_finish_input`, `_input_failed` | `DataInput`, `DataPrepared`, `FinishInput`, `InputFailed` |
| the data worker's `_process_releases`, `_process_messages`, its reads and appends | `DataAbort`, `DataRelease`, `DataReceive`, `DataResult`, `DataReadEnds`, `DataAppend` |
| `_ingest_request`, `_admit_request`, `_try_admit_waiting` | `IngestRequest`, `Admit` (`Dispatch`, `DispatchRefused`, `DispatchFails`), `AdmitWaiting` |
| `_abort_request`, `_fail_requests`, `_remove_request`, `_register_draining`, `_handle_reads_done`, `_finalize_draining` | `AbortRequest`, `ReceiveFail`, `RemoveRequest`, `RegisterDraining`, `ReadsDone`, `Finalize` |
| `_process_worker_graphs_done`, `_process_done_forward`, `_process_request_done`, `_fail_after_error` | `ReceiveDone`, `NextPass`, `RequestDone`, `ForwardRaises`, `DoneRaises` |
| `_sweep_expiry`, `_poll_worker_liveness` | `ExpireDrain`, `ExpireEarly`, `WorkerDies` |
| the worker's `_add_new_request`, `_process_new_inputs`, `_drain_request`, `_remove_request` | `NewRequest`, `NewInputs`, `DrainRequest`, `RemoveMessage`, `RemoveHeld`, `Removal` |
| `_apply_pending_removes_safe_to_drop`, `_apply_pending_drains`, `_apply_removes_whose_step_landed` | `ApplyRemove`, `ApplyDrain`, `DrainTurn`, `FollowerRemoves` |
| scheduling, `maybe_send_zmq_to_tp_followers`, `_try_schedule_tp_follow`, `_try_speculate_next`, `_try_follow_speculation` | `StepStarts`, `StepFollows`, `Speculate`, `SpecFollows`, `StepEnds`, `SpecEnds` |

A request has one partition, which every worker runs, and one output; a step holds one
request.  The conductor's second half of a cycle (`Advance`) comes at any time after
the message that ended the pass, and `_sweep_expiry` only when no ended pass is left
(`CycleEnd`).  Which failures may happen is the constant `Faults`; a deadline, being a
failure of timing, is one of them, and a barrier it forces is excused from what it can
no longer promise.  Steps of a tensor-parallel group either wait for all ranks
(`Collective`) or let rank 0 run ahead.

### ReadContract, TensorReads and TensorRefs

`ReadContract` has three variables for one request at its reader: `owed`, how many edges
that name a tensor have come and are not acknowledged; `reading`, the tensors whose memory
at the producer a transfer may be reading; and `phase`.  It promises that an edge is
acknowledged once, not before its own transfer stopped, and that READS_DONE is said only
when nothing is read.

`TensorReads` is the Mooncake path of `tensors.py`, where the reader drives the transfer.
One handle, which goes from request to request.  A read's future is a record with the
buffers it fills, what it still polls (`running`) and what it lost track of (`unknown`);
`xfer` is the engine's view of the same buffers.  The two differ after a timeout, a refused
submit or an odd status, and that is where the code is hard.  The list of pending reads is
a set of reads that carry the number of their edge, and so are the edges that a node uses.

| Code | Definition |
|---|---|
| `start_read_tensors`, `_take_cached_read` | `StartRead`, `ReadInto` |
| `get_ready_tensors`, `_poll_read`, `_drop_failed_read`, `_collect_and_send_acks`, `take_failed_reads` | `CheckReady` (`Given`, `Bad`, `Dropped`, `Acked`) |
| `_keep_read_buffers`, `_take_over`, `_never_free` | `KeptOf`, `Learned`, `NeverFreedOf` |
| `_release_kept_reads`, `_free_kept_read` | `KeptAfter`, `Lost`, `Released` |
| `dereference_batch_uniform`, `_cleanup_by_uuid` | `Consume` |
| `has_inflight_reads`, `_complete_drain_if_ready` | `HasInflightReads`, `ReadsDone` |
| `cleanup_request` with force | `ConsumerRemoves`, `Disown` |
| `TrackedMooncakeReader._read` | `Submit`, `Poll`, `ReadTimesOut` |
| the engine and the allocator (external) | `TransferEnds`, `FreeBufs`, `Cleared` |

The refinement maps `reading` to the sources of the transfers that move, but for those
into `dead` buffers: where the engine will not say whether a transfer stopped, the code
gives the buffer up and goes on (`_never_free`), and READS_DONE does not wait, although
`has_inflight_reads` says that "a failed read's transfers" gate it.  So the promise is
about the transfers whose end can be learned.  One more thing seen while modelling: a
tensor that is read again while it is stored, through an edge that is passed on, keeps its
transit reference until its request goes.

`TensorRefs` has the producer (`at`, `refs`, `persist`), the conductor's `persist_signals`
and `persist_signal_ref_cnt` (`known`, `passed`), and three sockets: edges, acknowledgements
and the message that ends a persistence.  Edges and acknowledgements on their way are
counted for each tensor, as their order among themselves does not matter to a count.  The
reader is a worker.  What it does with an edge depends on where it stands: until READS_DONE it
reads it, between READS_DONE and the removal it drops it without a word (`_takes_input`), or
parks it if it never admitted the request, and after the removal it acknowledges it unread
(`_drop_for_removed`).  `dropped` counts the edges of the second kind.  The data worker differs: it
acknowledges unread while it drains, and after a removal it may read again, which is
what `late_result` shows (section 3).

| Code | Definition |
|---|---|
| `set_output_ref_counts`, `register_for_send_uuids` | `Produce` |
| TENSOR_RECEIVED: `dereference_batch`, `can_gc` | `TakeAck`, `CanGc`, `Place` |
| UNPERSIST_TENSORS: `increment_ref`, `set_persist` | `TakeUnpersist` |
| `_send_inputs`, `_update_persist_ref_counts`, `_un_persist_tensors` | `PassInput`, `Unpersist`, `GiveUp` |
| `_process_request_done`, the barrier | `Complete`, `Drain`, `CloseBarrier` |
| `_takes_input`, `_drop_for_removed` | `DropEdge`, `RefuseEdge` |
| the rest of the reader | `TakeEdge`, `BeginRead`, `SettleRead`, `TakeDrain`, `ReadsDone`, `ReaderRemoves` |

### StreamBuffer

Items are numbered in the producer's order, so the buffer's deque is the interval from
`start` to `Entered`, and a chunk is a record with where it begins, how much it shows and
how much of that is context.  `stream` is chosen once, in `Init`: a policy with its
parameters, the number of pieces of each item, the walk assigned to it, and whether the
consumer is in a loop.  `eaten` is the history of chunks that steps ran on.  A ramp grows by
whole numbers here, where the code rounds a float; a ramp without a maximum is one whose
maximum no stream reaches.

| Code | Definition |
|---|---|
| the policies' `window_size`, `next_chunk_size`, `is_ready`, `register_chunk`, `prime` | `WindowSize`, `NextChunkSize`, `IsReady`, `RegisterChunk`, `Lead` |
| `pre_read_register_joined`, `put`, `_update_buffer`, `signal_done` | `Register`, `Put`, `Entered`, `SignalDone` |
| `_producer_done_and_all_read`, `has_chunk_ready`, `pop_chunk` | `AllRead`, `HasChunkReady`, `PopChunk`, `NextChunk` |
| `pop_edge`, `_enter_chunk_walk`, `return_edge`, `mark_ingested` | `PopEdge`, `PopNothing`, `MayEnter`, `ReturnEdge` |
| `_poll_stream_buffers` | `PollTakes`, `PollRefused`, `PollNothing` |
| `chunks_for`, the scheduler, the admit | `Schedule`, `Admit`, `AdmitRefused` |
| `_prepare_dicts`, `prep_one`, `_settle_speculation` | `Speculate`, `SpeculateRefused`, `StepChains`, `StepEnds` |
| `complete_strided`, `advance_loop`, `finish_loop` | `StepChains`, `StepEnds`, `StepStops` |

## 3. Runs

| Run | Instance | Checks |
|---|---|---|
| `index_worker` | 3 pages, 3 keys in a fork, 2 holders a page, clock to 5, spared keys | `EvictableExact`, `EvictReachesAll`, `EvictsOldest`, `SparedGoLast` |
| `index_mirror` | 3 pages, 4 keys, drops, clock to 3 | `TypeOK`, `EvictableLocal`, `ForestOK`, `CallsReturn` |
| `kv_pool` | 2 requests on 4 pages, with prompts of 2 pages that fork after the first, one with a reply, 1 host page | `GrantsAreMet`, `PagesConserved`, `ReadsOwnPrefix`, `FrontierPrivate`, `MarkSound` |
| `admission` | 3 requests, 2 resources, 2 nodes | `FittingIsSeen`, `AllOrNothing`, `ParkedIsOwed`, `NoOvertaking` |
| `admission_live` | 2 of the requests | `WaitEnds` |
| `teardown_group` | 2 requests, 1 slot, 2 ranks that speculate, dispatches that fail | `SameOrder`, `NoIdleSlot`, `StepsNameHeld` |
| `teardown_faults` | 1 request, 1 worker, 2 passes, client streams, every fault of the conductor, worker and data worker, the death of a worker included | `AckedUnread`, `ToldOnce`, `RemovedUnread` |
| `teardown_live` | 1 request, preparation on a pool, 2 ranks with collectives, aborts, failures of the API server | `NewBeforeAbort`, `Answered`, `Forgotten` |
| `tensor_reads` | 2 tensors, 2 buffers, 2 reads, 2 edges, 2 requests on the handle, refused registrations, odd answers, failed transfers | `NoStrayWrite`, `DeliveredWhole`, `GateIsOwn`, `KeepsContract`, `DrainEnds`, `KeptAreReturned` |
| `tensor_refs` | 2 tensors, up to 3 edges that name each, refusals, deadlines | `SourceHeld`, `FreedWhenRead` |
| `stream` | 22 streams of 0 to 6 items: each policy, joined pieces, assigned walks, in and out of a loop | `InOrder`, `StepIsOfChunk`, `RefsExact`, `ChunksAsDocumented`, `EndReached` |
| `late_result` | 1 request, 2 workers, steps that fail | `NothingFreedIsRead`, which is violated |

Why the bounds are enough for the cases that matter.  A fork of two prompts with a
page between root and leaf is the smallest tree in which a walk up stops early at a
page another child keeps busy, and in which dropping one leaf makes a second.  Two
holders per page are needed for a page to be shared before it is filed.  Five ticks
of the clock let a hit reorder leaves after both were filed.  In `kv_pool` prompts that share one page and then differ, with a
reply, make grants evict, leases be lent and a page be filed by the other request first,
and one host page makes an offload both succeed and be refused; a span of one page lets
two requests interleave inside a prefill.  In `admission` the resources are of sizes 3 and 1 and the third request can
never have what one of them is asked for, so a request fails while it waits.
Symmetry is over pages, over the requests of `teardown_group` and over the tensors of
`tensor_refs`; the runs with symmetry check no liveness.
In the teardown runs two requests with one slot are the smallest instance in which a
request waits, and in which a follower has one removal deferred when the next comes.
Two ranks are enough for a follower, since followers do not talk to each other.  A
second pass (`MaxPasses = 1`) sends inputs to a worker that has already run.  One
request is enough for the barrier: barriers of different requests share only the slots.
In `tensor_reads` two edges over two tensors make one share the other's read in full or in
part, and two buffers for two requests make the second need what the first left behind.
In `tensor_refs` three edges let a tensor be routed, passed on and refused.  The streams
of `stream` are long enough for a full chunk, an overlap and a remainder under each policy,
and empty ones are there for the end that comes alone.

What the runs show.  `EvictableExact`: the walk up with its early exit computes the
evictable set.  `EvictReachesAll`: the count the pool relies on is of pages an
eviction really frees, whatever stale entries the heap holds.
`GrantsAreMet`: the unchecked grant within an allotment cannot fail, with or without
an offload, a drop or another request's lease in between.  `MarkSound`: the two
counters besides the room are enough for a waiting request to be noticed.
`FittingIsSeen`: given that, a pass of `admit_waiting` that returns at once overlooks
nobody.  `ParkedIsOwed`: a check that is not asked again is always answered by a pass.

`RemovedUnread` is the barrier's purpose, at the step that frees.  `StepsNameHeld` is
why the follower's drain counts the steps that it has not taken, under the name of a
request that it may not know yet: without that count (`FaultyQuiet`) TLC finds the drain
of rank 0 overtaking the request itself.  `SameOrder` is why a follower's removals queue
behind a deferred one.  `NewBeforeAbort` is what the two `is_pending` checks of the data
worker are for; it makes the conductor's branch for an abort that outran its request one
that this data worker never takes.  `Forgotten` covers the tombstones, early
acknowledgements and parked removals of every process.

`NoStrayWrite` is what `_kept_reads` and `_unreleasable_buffers` are for; were an
unlearned transfer taken for a stopped one (`FaultyLearned`), TLC has the memory allocated
again under it.  `DeliveredWhole` is why reads are delivered in the order they were started:
an edge that shares a tensor has nothing of its own to wait for.  `GateIsOwn` says that the
next owner of a handle does not wait for what the last one left.  `SourceHeld` and
`FreedWhenRead` together say that the counts are right, with acknowledgements of a
persisted tensor taking them below zero on the way; what a worker drops after READS_DONE is the one
thing that leaves a count over, and the removal clears it (`force_cleanup_request`).  `InOrder` and `RefsExact` cover the
undo of a speculated step, which the code comments as the place of an earlier error;
`ChunksAsDocumented` compares what a consumer sees with the windows that the policies'
docstrings describe, restated as a closed form (`Documented`).

One run finds a disagreement.  `DrainingRequest` says that once all have sent READS_DONE
"it is safe to send the hard RemoveRequest to all" (`conductor.py:400`).  In
`late_result` a worker's output is on its way to the API server when another worker
fails the request.  All participants drain and acknowledge, the data worker handles the
removal and forgets that the request was draining, and the API server, which has not
heard of the failure yet, hands it the output: the data worker starts to read
(`data_worker.py:2094`) what the worker has freed or is about to.  The client has an
error either way; what is lost is the guarantee that the reader finds the tensor there.
Completed requests are not affected, as the API server releases them itself.

Every property has a mutant, a plausible slip in the code (`Faulty...`, in the module
before the definition it replaces), under which TLC reports the property violated.

Deadlock is checked in the index and pool runs.  The admission runs allow it: with no
request left and no arrival number to hand out, nothing happens.  So do the teardown
runs, as a server whose requests have all ended stops; that none stops earlier is
`Answered` and `Forgotten`.  The tensor and stream runs end when the last request is
removed and the stream is read; `DrainEnds`, `KeptAreReturned` and `EndReached` say that
nothing stops before.

## 4. Fairness

`PrefixIndex`: weak fairness of the turns of a loop, since the thread that holds the
lock runs on.  `Admission`: weak fairness of the steps inside a call, for the same
reason.  Strong fairness of the start of a pass and of the end of a request that no
longer waits: the worker's loop begins every scan with `_unpark` and handles removals
every turn for as long as it lives, but other calls come between, which disable both
for a moment.  Nothing is assumed of the GPU thread or of clients.  The instance has
nested key sets (`llm` asks one resource, `talk` both): for nodes that each hold one
resource and wait for the other's, waiting could only end by one of them finishing,
which the assumption that requests end would hide, so such graphs are left out.

`Teardown`: weak fairness of every message handler and loop turn, of the ends of steps
and transfers, and of the deadlines of `_prune_recently_completed` and `_sweep_expiry`.
The loops poll level-triggered sockets and drain what is there, so a message that is in
a queue stays enabled until it is handled.  Clients, failures and appends are under no
fairness.  A call whose client appends without end could keep a worker from a step in
the model, where the code interleaves them, so liveness is not checked with client
streams.

`TensorReads`: weak fairness of the consumer's poll, as the worker calls `get_ready_tensors`
every turn, with an engine that answers; of the start of a queued read, as the pool's
threads take them; of the end of a transfer and of a read's deadline.  Nothing is assumed
about whether a transfer succeeds, and removals, consumption and new edges are under no
fairness.  `StreamBuffer`: weak fairness of the arrival of what was sent, of polling, of
scheduling and of the ends of steps; strong fairness of `Admit`, since a refused step is
pushed back and tried again, and a request refused for ever is failed or preempted by the
worker, which is not part of that module.

## 5. Proofs

`PrefixIndexProofs` proves, for every finite set of pages, every set of keys with any
parent function, any bounds and both configurations:

* `IndexTyped`: `Spec => []TypeOK`; no count goes below zero.
* `IndexForest`: `Spec => []ForestOK`.
* `IndexEvictable`: `Spec => []EvictableLocal`, at every step of every call.

`EvictableLocal` is what `EvictableExact` says, one level at a time: a page is busy if
it has another owner or a busy child, `heldBelow` counts busy children, and the set
holds the indexed pages that are not busy.  It also says where the counts stand in
the middle of a walk up, which `EvictableExact` cannot: all are right but that of the
page the walk stands at, which is out by one.  It is not inductive alone.  A drop
must remove a page without busy children, which needs `ForestOK` (a page with
`children = 0` has none), and a walk up must stand at an indexed page, evict's spared
entries must name leaves, and no page may be its own parent (`WalkOK`).  `Inv` is the
conjunction.  Each action makes at most one page busy or idle; `BusyUp` and `BusyDown`
say that then one count is out by one, the parent's, and the action leaves the walk
up standing there.  The assumptions are those of the module, `PrefixIndexAssumption`.

The second part of `PrefixIndexProofs` goes on from the first, under the same assumptions:

* `EvictableIsExact`: `Spec => []EvictableExact`.
* `EvictionReaches`: `Spec => []EvictReachesAll`.
* `OldestGoesFirst` and `SparedGoneLast`: `Spec => EvictsOldest` and `Spec => SparedGoLast`.

`EvictableLocal` speaks of one level at a time, `EvictableExact` of everything below a
page.  Between them lies an induction along the forest, which is done with a rank: the pages
can be numbered so that a child comes below its parent (`Ranked`; a page that is filed has no
children, so it takes the lowest number), and a non-empty set of pages has one of least rank
(`Lowest`), which the library's theorem on minimal elements gives.  The order of eviction needs that the
heap misses nobody (`HeapOK`): every leaf has an entry, in the heap or among those that the
evict in progress has set aside, under its stamp or an older one.

`TensorRefsProofs` proves, for every set of tensors, any bound on the edges, with and
without refused registrations and deadlines:

* `CountsExact`: `Spec => []RefsExact`; the producer's count, with what the conductor has
  yet to tell it, is the number of reads due and of edges dropped, and none is dropped before
  READS_DONE.
* `NothingReadIsFreed`: `Spec => []SourceHeld`.
* `NothingIsKept`: `Spec => []FreedWhenRead`.
* `RefsTyped`: `Spec => []TypeOK`.

`RefsExact` alone is not inductive.  A tensor that its count freed must not come back, so
nothing may name it any more (`StaysQuiet`, which also holds of one that does not exist yet
and of one that was never sent).  The conductor's count must be in one place at a time, or
a second message would overwrite the first (`CountsPlaced`).  `HeldIsCounted` says that a
count at zero was acted on.  A removal does not look at the counts: that it frees nothing
that is read rests on what it waited for (`RemovalWaits`) and on the reader's contract
(`ReadingOwed`).  The steps of the reader are proved through one lemma, `ReaderInv`:
edges become owed or dropped, and owed ones acknowledgements, and their sum stays.  The assumption is
`TensorRefsAssumption`.

`KVPoolProofs` proves, for every finite set of pages, any requests, prompts whose keys hash
what comes before them (`KVPoolAssumption`) and any sizes of the host pool:

* `NoPageIsLost`: `Spec => []PagesConserved`.
* `NoForeignWrite`: `Spec => []FrontierPrivate`.
* `OwnPrefixIsRead`: `Spec => []ReadsOwnPrefix`.
* `NoGrantFails`: `Spec => []GrantsAreMet`.
* `NoWakeupIsLost`: `Spec => []MarkSound`.
* `PoolTyped`: `Spec => []TypeOK`.

The first three hold together or not at all.  A page is written, evicted or granted by what its
count of owners says, so what is written is nobody else's only while the count is right
(`PagesConserved`), and the count stays right because the index has a page under one key
(`OneName`) and a stream or lease has it once.  `Inv` adds the types and the budget of what
is promised (`Budgeted`), that a key names a page with its content (`IndexReads`), and for each
request what its stage says of its pages (`Sound`): where the cursor stands in the stream
(`Streaming`), what a copy on the host is a copy of (`Copied`), what pages hold (`Reads`) and
which are its alone (`Private`).  The count of a page is a sum over streams, leases and the
index; a step changes one of them (`Balanced`).

The next two rest on `Inv` and on a second invariant, `Funded`, about what is promised.
`RoomCovered` is what `GrantsAreMet` needs: all promises together are no more than the pages
that are free or evictable.  It is not inductive alone, because a step that keeps part of its promise
must know how much of it is left.  So `Paid` says that an allotment has left what its stream
and lease, but for the pages they borrow, have not used, and `Counted` that `unused` is the sum
over the allotments, written as the size of a set of tokens, since a sum over requests
would be an induction.  Then each action balances: `reserve` promises only out of the room, a lease
that pins an evictable page takes it out of both sides, a step turns a promise into a page,
and a release that puts a promise back puts a page back too (`ReleaseFunds`).  That a page can
be evicted does not yet say that many can, one after the other.  `Forest` does: a page below another is the page of
the next key of some prompt, so pages are as deep as their keys, the deepest pages of a
set of evictable ones have none left below them, and any number up to all can be taken leaves first
(`StepIsMet`, `ReloadIsMet`).  This is where the proof uses that a key determines the key before
it, and it is why the assumption says so.  A mark is sound (`Marked`) because only a page that enters the index or
is taken makes a request need less, and both move every mark; a page that leaves the index, or that nobody keeps busy any
longer, only makes it need more.  `Funded` was checked with TLC, on the instance of the run and on
wider ones, before it was proved.

`AdmissionProofs` proves, for any requests, nodes and resources, whatever the requests ask:

* `NoLostWakeup`: `Spec => []FittingIsSeen`.
* `WaitingHoldsNothing`: `Spec => []AllOrNothing`.
* `ChecksAreAnswered`: `Spec => []ParkedIsOwed`.
* `FirstComeFirstServed`: `Spec => NoOvertaking`.
* `AdmissionTyped`: `Spec => []TypeOK`.

`Inv` has the bookkeeping of the queues (`QueueIsAsked`, `Numbered`, `NodesWait`), what holds in the
middle of a call (`CallKeeps`), and two that carry the argument: a mark
measures the request it holds back (`MarksMeasure`), and a request that no mark holds back
has a pass coming that looks at it, or is one the sweep in progress has still to try
(`NoneForgotten`).

`TeardownProofs` proves, for any requests, ranks, workers and slots and every set of faults:

* `EndsAreToldOnce`: `Spec => []ToldOnce`.
* `SlotsAreUsed`: `Spec => []NoIdleSlot`.
* `AbortsFollow`: `Spec => []NewBeforeAbort`.
* `SaidIsTrue`: `Spec => []AckedUnread`.
* `NoneReadsWhatGoes`: `Spec => RemovedUnread`.
* `BarrierHolds`: `Spec => [](Inv /\ Barrier)`, the invariant that the last two rest on.

A request is in one place on its way from the API server into the conductor: not submitted,
in the input queue, in preparation, in the message to the conductor, waiting, running or told
its end (`OnePlace`, `Distinct`, `Told`, `Unsubmitted`).  An abort is sent only behind it
(`AbortsLate`).  The queues are sequences; the lemmas about appending, taking the head and
filtering come first.

The barrier needs more than its own handlers, because a request may end without a READS_DONE
of the workers: at a regular end the conductor waits for the data worker alone (for the
workers too where clients stream), and a worker that was never told of a drain may still have
inputs on their way.  So `Barrier` says of each
request where its reads can come from.  While it runs, a pass is at each worker in one
place: its inputs on their way, in work, or reported (`Tokens`), and a worker that has reported
reads nothing unless a client's stream feeds it.  Nothing of a request exists before the
conductor takes it up (`Clean`), a worker reads only for a request it has (`ReadsHeld`), and
the data worker releases an output after it has read it (`Reading`).  READS_DONE, on its way or kept early,
is true (`Vouched`); whom the barrier does not wait for neither reads nor ever will
(`DrainSafe`); and once a removal is on its way, parked, deferred or done, this holds of
everyone, unless a deadline forced it (`EndSafe`, `RemovedLate`).  It is proved in two halves:
a step of a worker, of the data worker or of the API server changes one request at one participant
(`Works`, `Serves`), and one of the conductor takes the requests it touches from one stage to another
(`Conducts`, `Becomes`).  TLC checked `Barrier` first, on instances with and without
streams and with every fault.

`TeardownOrderProofs` goes on from `Barrier`, under the same assumptions:

* `NoStepIsLeft`: `Spec => []StepsNameHeld`.
* `RanksFreeAlike`: `Spec => []SameOrder`.
* `TeardownTyped`: `Spec => []TypeOK`.

A follower acts on the messages of rank 0 in order, but not at once: a removal waits behind the
steps that the follower has fetched, then for the step in progress and for the removals deferred
before it.  `Lined` relates the two ranks by what lies between them: the messages on their way
(`fwd`), those fetched and not yet done (`tpq`), and the follower's deferred removals.  For one
request at one worker, `Row` says that the worker is sent the request once, before its removal,
and that nobody counts on a worker for a request it has not met.  For one request at one follower,
`Following`: no step that rank 0 sent comes after the end of the request (`Overtaken`), and once
a follower has such an end (`Warned`) rank 0 starts no step of the request any more (`Shut`).
That gives `StepsNameHeld`.  For two requests at one follower, `Ordered`: everything in the line of removals that are
done, deferred, fetched and on their way (`InLine`, `Ahead`) is in the order in which rank 0
freed the requests; `SameOrder` is the part that is done.  The order is stated pairwise
(`Precedes`), which appending, taking the head and leaving one out preserve by one lemma each.
A step of a worker is one of a few changes to these queues (`Acts`), one of the conductor takes
the requests it touches from one stage to another (`Becomes`), and the others leave `Lined` alone.
TLC checked `Lined` first.  `TeardownTyped` adds what the other invariants leave open of the types: what
each process hears is of the kinds its sender sends (`Plain`, `Spoken`).

`TensorReadsProofs` proves, for every finite set of tensors and buffers, any bound on the
edges, any number of requests on the handle, and every set of failures:

* `NoWriteAstray`: `Spec => []NoStrayWrite`.
* `GivenIsWhole`: `Spec => []DeliveredWhole`.
* `DrainWaitsForOwn`: `Spec => []GateIsOwn`.
* `ReaderTyped`: `Spec => []TypeOK`.
* `ManagerKeepsContract`: `Spec => KeepsContract`, that is, `TensorReads` implements
  `ReadContract`.

The argument is about who has a buffer.  It is stored under one tensor, or kept for one read,
or given up (`StoreOK`, `KeptOK`).  A future is waited for by one pending read or kept for one
(`ReadOK`, `Held`), and what it says of its transfers is true (`Progress`).  So a transfer writes into
memory that is somebody's (`TransferOK`).  A stored tensor that no pending read is reading
is whole (`SharedOK`), and while no read has failed, its references are at least the edges
that name it (`RefsOK`): that is why consuming one edge does not free what another uses.  For
the contract, the edges that pending reads answer for and those of kept reads of the
request do not exceed what is owed (`OwedOK`, `KeptOK`), and what is kept of a former owner of the
handle reads no tensor of the present one (`Foreign`).  Then whatever the contract calls read is owed and holds
READS_DONE back (`Owes`).  Each action maps to one of the contract: `StartRead` to `Receive`,
the reader threads to `Begin`, the end of a transfer, `CheckReady` and `Consume` to `Settle`,
`ConsumerRemoves` to `Forget`, `ReuseHandle` to `Renew`; after READS_DONE or a removal the reader
threads' steps are stutters.  With `NothingReadIsFreed`, which takes the reader to be
`ReadContract`, the two sides of a transfer are proved against the same contract.

`StreamBufferProofs` proves, for streams of any number of items and pieces, every policy
with the parameters it is built with and every choice of walks, in and out of a loop:

* `InOrderHolds`: `Spec => []InOrder`.
* `ChunksAreDocumented`: `Spec => []ChunksAsDocumented`.
* `StepIsOfChunkHolds`: `Spec => []StepIsOfChunk`.
* `RefsExactHolds`: `Spec => []RefsExact`.
* `StreamTyped`: `Spec => []TypeOK`.

A chunk is in one of a few slots: waiting on offer, the consumer's next input, its present one, or
with a step that may be dropped; `SlotsOK` says which may be full together, so that a chunk given
back finds its place free, and `FlowOK` that each begins with the item after the one before
it.  `BufferOK` is about the cut: what the buffer keeps is what the next window
needs, and all of one walk, so the next chunk shows no less than what it has to repeat and
never an item twice as new.  `RefsOK` counts who refers to an item.  `ChunksAsDocumented`
compares a recursion with a closed form: `PlacedOK` has the k-th chunk at the k-th place
(`Place`) until the remainder, after which chunks are empty, and `RampIs` that the ramp's sizes
have values, by the least number for which they would not.  The same argument (`LeastOf`) gives
what the library's folds compute, as the provers cannot use its induction theorems.  The
assumption, `StreamBufferAssumption`, is that a policy's numbers are those of `IsPolicy`: the
ramp and the schedule raise an error otherwise, and the others are built with constants; that a stream's
lead is in one walk and not longer than what the producer puts; and that `None` is no chunk and no walk.

Every safety and every action property that the runs check is a theorem, and so is the type
invariant of every component.  Only model-checked is liveness (`CallsReturn`, `WaitEnds`,
`Answered`, `Forgotten`, `DrainEnds`, `KeptAreReturned`, `EndReached`): it holds by fairness, whose
`ENABLED` this prover does not expand.

## 6. What is not modelled

In the KV pool: copies from the host ahead of a step, corrected lengths, windows and
retention, forks and several labels, image-end partial pages, preplans, and ranks
that follow another's decisions.  In the scheduler: batching, holds, and which requests
are preempted.  Across the processes: several partitions and outputs of a request, the
check by which the ranks of a group agree that a read failed (reads and ingests fail only
on workers without followers), a partition that ends while others run, and replicas.
Of tensors: slices, a reader's own and empty tensors, and the shared-memory transport with
its arena.  Of streams: several into one node, whose finals are settled together, and the
buffers of a tensor-parallel follower.  Of the graph runtime: everything but the input
slots of the one node that consumes a stream.
A submission key carries a generation and is never
reused.  When a worker dies the deployment goes down, as in the code, and only the
API server goes on.
The other parts of section 1 are listed in `PROJECT.json` with the reason.  GPU
kernels, wire formats, HTTP and models are outside what a model checker says
anything about.

## 7. Running

    tlc -workers 2 -config MCKVPool.cfg MCKVPool
    tlapm PrefixIndexProofs.tla
    tlapm KVPoolProofs.tla
    tlapm AdmissionProofs.tla
    tlapm TeardownProofs.tla
    tlapm TeardownOrderProofs.tla
    tlapm TensorReadsProofs.tla
    tlapm TensorRefsProofs.tla
    tlapm StreamBufferProofs.tla

Every run ends within five minutes on two cores, and every module of proofs within fifteen.

## 8. Plan

1. Done: `PrefixIndex`, `KVPool`, `Admission`, `Teardown`, the proofs of the index; the
   tensors (`ReadContract`, `TensorReads`, `TensorRefs`) with the proofs of the counts, and
   the streams (`StreamBuffer`).
2. Proofs.  Done: the index and its eviction, the pages and the budget of the pool, admission, the way into
   the conductor, the barrier at the end and the ranks of a group, reads and the contract between
   reader and producer, the stream.  Left: the refinements of item 5.
3. KV pool: host copies and fetches, corrected lengths, forks.
4. Graph runtime: readiness, nested loops and the routing of outputs; several streams.
5. Refinements: `PrefixIndex` implements an abstract set of evictable pages, and
   `KVPool` the resource contract that `Admission` uses.
