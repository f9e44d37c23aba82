---------------------------- MODULE StreamManager ----------------------------
(***************************************************************************)
(* The two threads of the simulator (src/src/stream_manager.cc,            *)
(* src/src/gpgpusim_entrypoint.cc, and the calls of src/libcuda/           *)
(* cuda_runtime_api.cc that reach them).  The application's thread, the    *)
(* host, pushes operations to streams and waits for them; the simulation   *)
(* thread takes them off the streams, starts kernels and runs the GPU.     *)
(* They share the streams, m_lock, g_sim_lock and a few plain flags.       *)
(*                                                                         *)
(* A step is one critical section, or one test of a spinning loop.  Only   *)
(* destroy_stream keeps m_lock over several steps (it spins while holding  *)
(* it), so only there m_lock is a variable worth having.                   *)
(*                                                                         *)
(* Abstractions.  The GPU is the set of its running kernels and whether    *)
(* the memory system still has traffic; a cycle ends some of the kernels,  *)
(* or none.  The memory copies are one kind of operation.  There is one    *)
(* host thread, it makes no call after cudaThreadExit, and kernels launch  *)
(* no kernels (CDP).  Of the limits only those on cycles and instructions  *)
(* are kept: once hit they stay hit.  cudaEventSynchronize is no action:   *)
(* its loop is empty and reads plain fields of the other thread, so that   *)
(* an optimising build may wait, drop the loop or never leave it; all that *)
(* is certain of it is that the host changes nothing meanwhile.            *)
(***************************************************************************)
EXTENDS Integers, Sequences, FiniteSets, SequencesExt

CONSTANTS MaxStreams,          \* bound: streams the application creates
          Event,               \* the events it creates
          NoEvent,             \* no event
          Uses,                \* kind of operation -> streams it is issued to
          MaxOps,              \* bound: operations issued
          MaxConcurrentKernel, \* gpgpu_max_concurrent_kernel
          LaunchLatency,       \* m_launch_latency of a new kernel
          CanHitMax            \* is gpu_max_cycle_opt or gpu_max_insn_opt set?

Kind == {"memcpy", "kernel", "event", "wait_event"}

ASSUME StreamAssumption ==
    /\ NoEvent \notin Event
    /\ {MaxStreams, MaxOps, MaxConcurrentKernel} \subseteq Nat \ {0}
    /\ LaunchLatency \in Nat
    /\ CanHitMax \in BOOLEAN
    /\ Uses \in [Kind -> SUBSET (0 .. MaxStreams)]

VARIABLES
    m_cuda_launch_blocking, g_ptx_sim_mode,     \* from the environment
    ops,             \* the operations accepted so far; the index names them
    m_operations,    \* the queue of each stream
    m_pending,       \* the head of the stream has been started
    m_streams,       \* the concurrent streams
    m_last_stream,   \* position of the iterator in m_streams, 0 is end()
    m_grid_id_to_stream,
    m_lock,          \* is m_lock held by destroy_stream?
    m_issued, m_updates,                        \* of each event
    m_running_kernels, m_finished_kernel, m_functional_sim_kernel,
    traffic,         \* the memory system is busy after the last kernel
    max_hit,         \* cycle_insn_cta_max_hit()
    g_sim_active, g_sim_done, break_limit, g_sim_signal_exit,
    sim_pc, check,   \* simulation thread; check_finished_kernel's result
    host_pc,         \* what the host is doing
    calls,           \* the operations its current call has still to push
    target,          \* the stream its current call is about
    sm_next_stream_uid,
    done             \* history: the operations that have been carried out

config == <<m_cuda_launch_blocking, g_ptx_sim_mode>>
streamVars == <<ops, m_operations, m_pending, done>>
listVars == <<m_streams, m_last_stream, sm_next_stream_uid>>
gpuVars == <<m_running_kernels, m_finished_kernel, m_functional_sim_kernel,
             traffic, max_hit>>
flagVars == <<g_sim_active, g_sim_done, break_limit, g_sim_signal_exit>>
simVars == <<sim_pc, check>>
hostVars == <<host_pc, calls, target>>
eventVars == <<m_issued, m_updates>>
vars == <<config, streamVars, listVars, m_grid_id_to_stream, m_lock, eventVars,
          gpuVars, flagVars, simVars, hostVars>>

NoKernel == 0

OpId == 1 .. MaxOps

\* Streams are numbered as they are created; m_stream_zero, which stands for
\* the NULL of the API too, comes first.
Stream == 1 .. MaxStreams
Zero == 0
Queue == Stream \cup {Zero}

\* A null pointer in m_grid_id_to_stream.
NoStream == -1

Init == /\ m_cuda_launch_blocking \in BOOLEAN
        /\ g_ptx_sim_mode \in BOOLEAN
        /\ ops = <<>>
        /\ m_operations = [s \in Queue |-> <<>>]
        /\ m_pending = [s \in Queue |-> FALSE]
        /\ m_streams = <<>>
        /\ m_last_stream = 0
        /\ m_grid_id_to_stream = [k \in OpId |-> NoStream]
        /\ m_lock = FALSE
        /\ m_issued = [e \in Event |-> 0]
        /\ m_updates = [e \in Event |-> 0]
        /\ m_running_kernels = {}
        /\ m_finished_kernel = <<>>
        /\ m_functional_sim_kernel = NoKernel
        /\ traffic = FALSE
        /\ max_hit = FALSE
        /\ g_sim_active = FALSE
        /\ g_sim_done = TRUE
        /\ break_limit = FALSE
        /\ g_sim_signal_exit = 0
        /\ sim_pc = "none"
        /\ check = FALSE
        /\ host_pc = "init"
        /\ calls = <<>>
        /\ target = Zero
        /\ sm_next_stream_uid = 1
        /\ done = {}

-----------------------------------------------------------------------------
(* What both threads look at. *)

concurrent_streams_empty ==
    \A i \in DOMAIN m_streams : m_operations[m_streams[i]] = <<>>

empty == concurrent_streams_empty /\ m_operations[Zero] = <<>>

\* gpgpu_sim::active, after a step that leaves these kernels running.
ActiveWith(running, busy, hit) == ~hit /\ (running # {} \/ busy)

active == ActiveWith(m_running_kernels, traffic, max_hit)

-----------------------------------------------------------------------------
(* The host.  Its calls end with the process when the simulation thread     *)
(* calls exit(1).                                                           *)

HostAt(pc) == host_pc = pc /\ sim_pc # "dead"

\* Of the calls only start_sim_thread touches the simulation thread.
HostOnly == UNCHANGED <<config, m_grid_id_to_stream, gpuVars, simVars>>

\* The first call that needs the device creates the simulation thread.
start_sim_thread ==
    /\ HostAt("init")
    /\ g_sim_done
    /\ g_sim_done' = FALSE
    /\ sim_pc' = "spin"
    /\ host_pc' = "ready"
    /\ UNCHANGED <<config, streamVars, listVars, m_grid_id_to_stream, m_lock,
                   eventVars, gpuVars, g_sim_active, break_limit,
                   g_sim_signal_exit, check, calls, target>>

cudaStreamCreate ==
    /\ HostAt("ready")
    /\ sm_next_stream_uid <= MaxStreams
    /\ sm_next_stream_uid' = sm_next_stream_uid + 1
    /\ m_streams' = Append(m_streams, sm_next_stream_uid)
    /\ UNCHANGED <<streamVars, m_last_stream, m_lock, eventVars, flagVars,
                   hostVars>>
    /\ HostOnly

\* The application passes NULL or a stream that exists.
MayUse(kind, s) == s \in Uses[kind] \cap (Range(m_streams) \cup {Zero})

\* The call creates these operations and goes on to push them.
Push(new) == /\ HostAt("ready")
             /\ Len(ops) + Len(new) <= MaxOps
             /\ calls' = new
             /\ host_pc' = IF new = <<>> THEN "ready" ELSE "push"
             /\ UNCHANGED <<streamVars, listVars, m_lock, m_updates, flagVars,
                            target>>
             /\ HostOnly

OpOf(kind, s) == [kind |-> kind, stream |-> s, event |-> NoEvent, cnt |-> 0,
                  latency |-> 0, awaits |-> {}]

\* cudaMemcpy and cudaMemcpyAsync
cudaMemcpy(s) == /\ MayUse("memcpy", s)
                 /\ Push(<<OpOf("memcpy", s)>>)
                 /\ UNCHANGED m_issued

cudaLaunch(s) == /\ MayUse("kernel", s)
                 /\ Push(<<[OpOf("kernel", s) EXCEPT !.latency = LaunchLatency]>>)
                 /\ UNCHANGED m_issued

cudaEventRecord(e, s) ==
    /\ MayUse("event", s)
    /\ m_issued[e] < MaxOps
    /\ Push(<<[OpOf("event", s) EXCEPT !.event = e]>>)
    /\ m_issued' = [m_issued EXCEPT ![e] = @ + 1]

\* History: the operation that last recorded e, unless it was not accepted.
LastRecord(e) ==
    LET R == {i \in DOMAIN ops : ops[i].kind = "event" /\ ops[i].event = e}
    IN  {i \in R : \A j \in R : j <= i}

WaitOp(s, e) == [OpOf("wait_event", s) EXCEPT
                    !.event = e, !.cnt = m_issued[e], !.awaits = LastRecord(e)]

\* Without a stream every concurrent stream has to wait.
cudaStreamWaitEvent(s, e) ==
    /\ MayUse("wait_event", s)
    /\ m_issued[e] > 0
    /\ Push(IF s = Zero
            THEN [i \in DOMAIN m_streams |-> WaitOp(m_streams[i], e)]
            ELSE <<WaitOp(s, e)>>)
    /\ UNCHANGED m_issued

\* push waits for the concurrent streams before it uses stream zero.
UsesZero(op) == op.stream = Zero \/ m_cuda_launch_blocking

\* Mutant: stream zero does not wait for the concurrent streams.
MayPushEarly(op) == TRUE

MayPush(op) == UsesZero(op) => concurrent_streams_empty

\* push: accepted into its stream or ignored, once a limit has been hit.  The
\* wait for the concurrent streams takes m_lock on its own, but they stay empty
\* while the one host thread is here.
push ==
    /\ HostAt("push")
    /\ ~m_lock
    /\ LET op == Head(calls)
           s  == IF UsesZero(op) THEN Zero ELSE op.stream
       IN  /\ MayPush(op)
           /\ IF max_hit
              THEN UNCHANGED <<ops, m_operations>>
              ELSE /\ ops' = Append(ops, [op EXCEPT !.stream = s])
                   /\ m_operations' =
                         [m_operations EXCEPT ![s] = Append(@, Len(ops) + 1)]
           /\ calls' = Tail(calls)
           /\ host_pc' = CASE UsesZero(op) -> "drain"
                           [] ~UsesZero(op) /\ Len(calls) > 1 -> "push"
                           [] ~UsesZero(op) /\ Len(calls) = 1 -> "ready"
    /\ UNCHANGED <<m_pending, done, listVars, m_lock, eventVars, flagVars,
                   target>>
    /\ HostOnly

\* push, second half: an operation of stream zero is waited for.
push_drain ==
    /\ HostAt("drain")
    /\ empty
    /\ host_pc' = IF calls = <<>> THEN "ready" ELSE "push"
    /\ UNCHANGED <<streamVars, listVars, m_lock, eventVars, flagVars, calls,
                   target>>
    /\ HostOnly

\* The host goes on, and nothing else changes.
HostGoes(from, to) ==
    /\ HostAt(from)
    /\ host_pc' = to
    /\ UNCHANGED <<streamVars, listVars, m_lock, eventVars, flagVars, calls,
                   target>>
    /\ HostOnly

\* gpgpu_context::synchronize, for cudaDeviceSynchronize, cudaThreadSynchronize
\* and cudaStreamSynchronize(NULL).  With a stream cudaStreamSynchronize
\* returns at once: the call that would wait follows the return.
cudaDeviceSynchronize == HostGoes("ready", "synchronize")

\* Mutant: the simulation thread may still be active.
SynchronizedEarly == empty \/ g_sim_done

Synchronized == (empty /\ ~g_sim_active) \/ g_sim_done

synchronize == Synchronized /\ HostGoes("synchronize", "ready")

\* CUstream_st::synchronize, so that destroy_stream finds the stream empty.
cudaStreamDestroy(s) ==
    /\ HostAt("ready")
    /\ s \in Range(m_streams)
    /\ host_pc' = "destroy"
    /\ target' = s
    /\ UNCHANGED <<streamVars, listVars, m_lock, eventVars, flagVars, calls>>
    /\ HostOnly

\* Mutant: destroy_stream is called without waiting.
StreamNotSynchronized == TRUE

StreamSynchronized == m_operations[target] = <<>>

destroy_stream_lock ==
    /\ HostAt("destroy")
    /\ StreamSynchronized
    /\ ~m_lock
    /\ m_lock' = TRUE
    /\ host_pc' = "destroying"
    /\ UNCHANGED <<streamVars, listVars, eventVars, flagVars, calls, target>>
    /\ HostOnly

\* Mutant: the iterator is left where it was.
StaleIterator(list) == m_last_stream

\* m_last_stream = m_streams.begin()
Begin(list) == IF list = <<>> THEN 0 ELSE 1

destroy_stream ==
    /\ HostAt("destroying")
    /\ m_operations[target] = <<>>
    /\ \E i \in DOMAIN m_streams : /\ m_streams[i] = target
                                   /\ m_streams' = RemoveAt(m_streams, i)
    /\ m_last_stream' = Begin(m_streams')
    /\ m_lock' = FALSE
    /\ host_pc' = "ready"
    /\ target' = Zero
    /\ UNCHANGED <<streamVars, sm_next_stream_uid, eventVars, flagVars, calls>>
    /\ HostOnly

\* cudaThreadExit: exit_simulation and its wait for g_sim_signal_exit.
exit_simulation ==
    /\ HostAt("ready")
    /\ g_sim_done' = TRUE
    /\ host_pc' = "exit"
    /\ UNCHANGED <<streamVars, listVars, m_lock, eventVars, g_sim_active,
                   break_limit, g_sim_signal_exit, calls, target>>
    /\ HostOnly

exit_wait ==
    /\ HostAt("exit")
    /\ g_sim_signal_exit > 0
    /\ g_sim_signal_exit' = g_sim_signal_exit - 1
    /\ host_pc' = "exited"
    /\ UNCHANGED <<streamVars, listVars, m_lock, eventVars, g_sim_active,
                   g_sim_done, break_limit, calls, target>>
    /\ HostOnly

-----------------------------------------------------------------------------
(* The simulation thread.                                                   *)

\* Of the simulation thread's steps none touches the host or the list's length.
SimOnly == UNCHANGED <<config, m_streams, sm_next_stream_uid, m_lock, m_issued,
                       g_sim_signal_exit, hostVars>>

SimGoes(from, to) == sim_pc = from /\ sim_pc' = to

\* while (empty_protected() && !g_sim_done)
detect_work ==
    /\ SimGoes("spin", "start")
    /\ ~m_lock
    /\ ~empty \/ g_sim_done
    /\ UNCHANGED <<streamVars, m_last_stream, m_grid_id_to_stream, m_updates,
                   gpuVars, g_sim_active, g_sim_done, break_limit, check>>
    /\ SimOnly

\* g_sim_active is set, and gpgpu_sim::init resets the cores.
start_simulation ==
    /\ SimGoes("start", "check")
    /\ g_sim_active' = TRUE
    /\ UNCHANGED <<streamVars, m_last_stream, m_grid_id_to_stream, m_updates,
                   gpuVars, g_sim_done, break_limit, check>>
    /\ SimOnly

\* record_next_done for each of these streams.
Finish(ss) ==
    /\ m_operations' = [s \in Queue |-> IF s \in ss THEN Tail(m_operations[s])
                                        ELSE m_operations[s]]
    /\ m_pending' = [s \in Queue |-> m_pending[s] /\ s \notin ss]
    /\ done' = done \cup {Head(m_operations[s]) : s \in ss}

\* register_finished_kernel, for kernels that have run to their end.
Register(ids) ==
    /\ Finish({m_grid_id_to_stream[k] : k \in ids})
    /\ m_grid_id_to_stream' = [k \in OpId |-> IF k \in ids THEN NoStream
                                              ELSE m_grid_id_to_stream[k]]
    /\ UNCHANGED ops

\* The first half of operation(), which does not take m_lock.
check_finished_kernel ==
    /\ SimGoes("check", "operation")
    /\ \/ /\ m_finished_kernel = <<>>
          /\ check' = FALSE
          /\ UNCHANGED <<streamVars, m_grid_id_to_stream, m_finished_kernel>>
       \/ /\ m_finished_kernel # <<>>
          /\ check' = TRUE
          /\ Register({Head(m_finished_kernel)})
          /\ m_finished_kernel' = Tail(m_finished_kernel)
    /\ UNCHANGED <<m_last_stream, m_updates, m_running_kernels,
                   m_functional_sim_kernel, traffic, max_hit, g_sim_active,
                   g_sim_done, break_limit>>
    /\ SimOnly

Startable(s) == m_operations[s] # <<>> /\ ~m_pending[s]

\* front() looks at all concurrent streams, beginning after the last one.
Scan == LET n == Len(m_streams)
        IN  [i \in 1 .. n |-> ((m_last_stream + i - 1) % n) + 1]

Found == {i \in DOMAIN Scan : Startable(m_streams[Scan[i]])}

FirstFound == CHOOSE i \in Found : \A j \in Found : i <= j

\* The stream front() takes an operation from, if any: stream zero first.
front == CASE Startable(Zero) -> {Zero}
           [] ~Startable(Zero) /\ Found # {} -> {m_streams[Scan[FirstFound]]}
           [] ~Startable(Zero) /\ Found = {} -> {}

\* Where front() leaves the iterator.
ScanEnd == CASE Startable(Zero) \/ m_streams = <<>> -> m_last_stream
             [] ~Startable(Zero) /\ Found # {} -> Scan[FirstFound]
             [] ~Startable(Zero) /\ Found = {} /\ m_streams # <<>> ->
                   Scan[Len(m_streams)]

\* Nothing to start: front() returns a no-op.
no_op ==
    /\ front = {}
    /\ UNCHANGED <<streamVars, m_grid_id_to_stream, m_updates,
                   m_running_kernels, m_functional_sim_kernel>>

\* Mutant: an event counts as done when the record before it is.
ImmediateEarly(op) ==
    \/ op.kind \in {"memcpy", "event"}
    \/ op.kind = "wait_event" /\ m_updates[op.event] + 1 >= op.cnt

\* do_operation for what is done at once.
ImmediateReady(op) ==
    \/ op.kind \in {"memcpy", "event"}
    \/ op.kind = "wait_event" /\ m_updates[op.event] >= op.cnt

do_immediate(s, op) ==
    /\ ImmediateReady(op)
    /\ Finish({s})
    /\ m_updates' = IF op.kind = "event"
                    THEN [m_updates EXCEPT ![op.event] = @ + 1]
                    ELSE m_updates
    /\ UNCHANGED <<ops, m_grid_id_to_stream, m_running_kernels,
                   m_functional_sim_kernel>>

can_start_kernel == Cardinality(m_running_kernels) < MaxConcurrentKernel

KernelReady(op) == /\ op.kind = "kernel"
                   /\ g_ptx_sim_mode \/ (can_start_kernel /\ op.latency = 0)

\* do_operation for a kernel: it stays at the head of its stream, pending.
do_launch(s, op) ==
    /\ KernelReady(op)
    /\ m_pending' = [m_pending EXCEPT ![s] = TRUE]
    /\ LET k == Head(m_operations[s])
       IN  /\ m_grid_id_to_stream' = [m_grid_id_to_stream EXCEPT ![k] = s]
           /\ IF g_ptx_sim_mode
              THEN /\ m_functional_sim_kernel' = k
                   /\ UNCHANGED m_running_kernels
              ELSE /\ m_running_kernels' = m_running_kernels \cup {k}
                   /\ UNCHANGED m_functional_sim_kernel
    /\ UNCHANGED <<ops, m_operations, done, m_updates>>

\* Mutant: the entry stays.
LeakedMap(k, s) == [m_grid_id_to_stream EXCEPT ![k] = s]

\* Not ready: the entry made by front() is erased and the start is cancelled.
CancelledMap(k, s) == m_grid_id_to_stream

do_cancel(s, op) ==
    /\ ~ImmediateReady(op)
    /\ ~KernelReady(op)
    /\ LET k == Head(m_operations[s])
       IN  /\ m_grid_id_to_stream' = CancelledMap(k, s)
           /\ ops' = [ops EXCEPT ![k].latency = IF @ > 0 THEN @ - 1 ELSE 0]
    /\ UNCHANGED <<m_operations, m_pending, done, m_updates, m_running_kernels,
                   m_functional_sim_kernel>>

\* Mutant: another kernel may be running.
LeavesEarly == check

\* A kernel has ended and no other is running: the loop is left, so that the
\* next kernel finds a GPU that has been initialised again.
Leaves == check /\ ~ActiveWith(m_running_kernels', traffic, max_hit)

\* The second half of operation(): front(), do_operation() and the test of its
\* result, in one critical section of m_lock.
operation ==
    /\ sim_pc = "operation"
    /\ ~m_lock
    /\ \/ no_op
       \/ \E s \in front : LET op == ops[Head(m_operations[s])]
                           IN  \/ do_immediate(s, op)
                               \/ do_launch(s, op)
                               \/ do_cancel(s, op)
    /\ m_last_stream' = ScanEnd
    /\ sim_pc' = IF Leaves THEN "stop" ELSE "gpu"
    /\ check' = FALSE
    /\ UNCHANGED <<m_finished_kernel, traffic, max_hit, g_sim_active,
                   g_sim_done, break_limit>>
    /\ SimOnly

\* Functional simulation runs a kernel to its end and registers it.
functional_sim ==
    /\ SimGoes("gpu", "loop")
    /\ m_functional_sim_kernel # NoKernel
    /\ Register({m_functional_sim_kernel})
    /\ m_functional_sim_kernel' = NoKernel
    /\ UNCHANGED <<m_last_stream, m_updates, m_running_kernels,
                   m_finished_kernel, traffic, max_hit, g_sim_active,
                   g_sim_done, break_limit, check>>
    /\ SimOnly

\* One cycle of the GPU.  The kernels in F end (set_kernel_done, in any order),
\* the traffic of the last one may outlive it, and a limit may be hit.
cycle(F) ==
    /\ SimGoes("gpu", "loop")
    /\ m_functional_sim_kernel = NoKernel
    /\ active
    /\ m_running_kernels' = m_running_kernels \ F
    /\ \E order \in SetToSeqs(F) :
          m_finished_kernel' = m_finished_kernel \o order
    /\ traffic' \in IF m_running_kernels \ F = {} THEN BOOLEAN ELSE {FALSE}
    /\ max_hit' \in {FALSE, CanHitMax}
    /\ UNCHANGED <<streamVars, m_last_stream, m_grid_id_to_stream, m_updates,
                   m_functional_sim_kernel, g_sim_active, g_sim_done,
                   break_limit, check>>
    /\ SimOnly

\* The GPU is idle, or a limit has been hit: stop_all_running_kernels registers
\* the kernels that had ended (a stopped kernel is not done() and ends the
\* loop) and the simulation is over.
idle_or_limit ==
    /\ SimGoes("gpu", "loop")
    /\ m_functional_sim_kernel = NoKernel
    /\ ~active
    /\ \/ /\ ~max_hit
          /\ UNCHANGED <<streamVars, m_grid_id_to_stream, m_running_kernels,
                         m_finished_kernel, g_sim_done, break_limit>>
       \/ /\ max_hit
          /\ ~m_lock
          /\ Register(Range(m_finished_kernel))
          /\ m_running_kernels' = {}
          /\ \E order \in SetToSeqs(m_running_kernels) :
                m_finished_kernel' = IF order = <<>> THEN <<>> ELSE Tail(order)
          /\ g_sim_done' = TRUE
          /\ break_limit' = TRUE
    /\ UNCHANGED <<m_last_stream, m_updates, m_functional_sim_kernel, traffic,
                   max_hit, g_sim_active, check>>
    /\ SimOnly

\* while (active && !g_sim_done)
loop_test ==
    /\ sim_pc = "loop"
    /\ ~m_lock
    /\ sim_pc' = IF (active \/ ~empty) /\ ~g_sim_done THEN "check" ELSE "stop"
    /\ UNCHANGED <<streamVars, m_last_stream, m_grid_id_to_stream, m_updates,
                   gpuVars, g_sim_active, g_sim_done, break_limit, check>>
    /\ SimOnly

\* g_sim_active is cleared; then the next round, exit(1), or the end of the
\* thread, which it signals.
stop_simulation ==
    /\ sim_pc = "stop"
    /\ g_sim_active' = FALSE
    /\ sim_pc' = CASE ~g_sim_done -> "spin"
                   [] g_sim_done /\ break_limit -> "dead"
                   [] g_sim_done /\ ~break_limit -> "none"
    /\ g_sim_signal_exit' = g_sim_signal_exit
                            + IF g_sim_done /\ ~break_limit THEN 1 ELSE 0
    /\ UNCHANGED <<config, streamVars, listVars, m_grid_id_to_stream, m_lock,
                   eventVars, gpuVars, g_sim_done, break_limit, check, hostVars>>

-----------------------------------------------------------------------------
(* The specification. *)

HostCall ==
    \/ start_sim_thread
    \/ cudaStreamCreate
    \/ \E s \in Stream : cudaStreamDestroy(s)
    \/ \E s \in Queue : cudaMemcpy(s) \/ cudaLaunch(s)
    \/ \E s \in Queue, e \in Event : cudaEventRecord(e, s)
                                     \/ cudaStreamWaitEvent(s, e)
    \/ cudaDeviceSynchronize
    \/ exit_simulation

HostReturn == push \/ push_drain \/ synchronize \/ destroy_stream_lock
              \/ destroy_stream \/ exit_wait

Cycle == \E F \in SUBSET m_running_kernels : cycle(F)

Simulation == detect_work \/ start_simulation \/ check_finished_kernel
              \/ operation \/ functional_sim \/ Cycle \/ idle_or_limit
              \/ loop_test \/ stop_simulation

\* The application has left the device, or the process has ended.
Ended == /\ host_pc = "exited" \/ sim_pc = "dead"
         /\ UNCHANGED vars

Next == HostCall \/ HostReturn \/ Simulation \/ Ended

Spec == Init /\ [][Next]_vars

\* A cycle that brings the GPU closer to its end.
CycleProgress == /\ Cycle
                 /\ \/ m_running_kernels' # m_running_kernels
                    \/ m_running_kernels = {} /\ ~traffic'

\* The operating system runs both threads; kernels come to an end and the
\* memory system drains.
FairSpec == /\ Spec
            /\ WF_vars(HostReturn)
            /\ WF_vars(Simulation)
            /\ SF_vars(CycleProgress)

-----------------------------------------------------------------------------
(* Properties *)

Operation == [kind : Kind, stream : Queue, event : Event \cup {NoEvent}, cnt : 0 .. MaxOps,
              latency : 0 .. LaunchLatency, awaits : SUBSET OpId]

\* The queues hold accepted operations and the iterator m_last_stream points
\* into m_streams or at its end: destroy_stream leaves no iterator behind.
TypeOK ==
    /\ {m_cuda_launch_blocking, g_ptx_sim_mode, m_lock, traffic, max_hit,
        g_sim_active, g_sim_done, break_limit, check} \subseteq BOOLEAN
    /\ Len(ops) <= MaxOps /\ Range(ops) \subseteq Operation
    /\ Range(calls) \subseteq Operation
    /\ \A s \in Queue : Range(m_operations[s]) \subseteq DOMAIN ops
    /\ m_pending \in [Queue -> BOOLEAN]
    /\ Range(m_streams) \subseteq 1 .. sm_next_stream_uid - 1
    /\ m_last_stream \in 0 .. Len(m_streams)
    /\ m_grid_id_to_stream \in [OpId -> Queue \cup {NoStream}]
    /\ {m_issued, m_updates} \subseteq [Event -> 0 .. MaxOps]
    /\ m_running_kernels \cup Range(m_finished_kernel) \cup done \subseteq OpId
    /\ m_functional_sim_kernel \in OpId \cup {NoKernel}
    /\ g_sim_signal_exit \in {0, 1}
    /\ sim_pc \in {"none", "spin", "start", "check", "operation", "gpu", "loop",
                   "stop", "dead"}
    /\ host_pc \in {"init", "ready", "push", "drain", "synchronize",
                    "destroy", "destroying", "exit", "exited"}
    /\ target \in Queue

\* The kernels that the simulator has taken and not yet registered.
OnGpu == m_running_kernels \cup Range(m_finished_kernel)
         \cup ({m_functional_sim_kernel} \ {NoKernel})

\* The assertion of register_finished_kernel (stream_manager.cc:272) and the
\* look-up before it: whatever was launched, cancelled or destroyed meanwhile,
\* a kernel on the GPU is mapped to the stream at whose head it is, that stream
\* is busy, and nothing else is mapped.
KernelsAreMapped ==
    ~break_limit =>
        /\ OnGpu = {k \in OpId : m_grid_id_to_stream[k] # NoStream}
        /\ \A k \in OnGpu : LET s == m_grid_id_to_stream[k]
                            IN  /\ m_pending[s]
                                /\ m_operations[s] # <<>>
                                /\ Head(m_operations[s]) = k
        /\ \A s \in Queue : m_pending[s] => \E k \in OnGpu :
                                               m_grid_id_to_stream[k] = s

\* The application records its events in one stream only.  A record in another
\* stream may overtake the one that is waited for, and m_updates, which counts
\* records, cannot tell them apart.
RecordedInOneStream == \A s, t \in Uses["event"] : s = t

\* stream_wait_event "only allows next op to go if event is done"
\* (stream_manager.cc:185): a wait that has been passed has the record it was
\* made for behind it.
EventIsDone ==
    \A i \in done : ops[i].kind = "wait_event" => ops[i].awaits \subseteq done

\* What an application knows of its operations.
Issued == [i \in DOMAIN ops |-> [stream |-> ops[i].stream,
                                 awaits |-> ops[i].awaits]]

\* The streams keep the order an application may rely on: see StreamOrder.
Order == INSTANCE StreamOrder WITH issued <- Issued

OrderRefined == Order!OrderSpec

\* synchronize() returns only when every operation accepted so far has been
\* carried out and the GPU is idle, unless the simulation has ended: the host
\* cannot slip through between the end of an operation and the simulation
\* thread's own end of the round.
SynchronizeMeansIdle ==
    [][ (host_pc = "synchronize" /\ host_pc' = "ready" /\ ~g_sim_done)
          => done = DOMAIN ops /\ ~active ]_vars

\* gpgpu_sim::init resets the cores under no running kernel (the comment "bug
\* 147" in gpgpusim_entrypoint.cc), unless the run is about to be cut off.
InitOnIdle ==
    [][ (sim_pc = "start" /\ sim_pc' = "check" /\ ~max_hit)
          => m_running_kernels = {} /\ ~traffic ]_vars

\* Nobody waits for ever: not the host in push, in synchronize, in
\* destroy_stream, which spins with m_lock held, or in exit_simulation, and no
\* accepted operation behind a stream that waits for an event.  Again and again
\* the host's call has returned and all work is done, or the simulation is over.
ComesToRest ==
    []<>(\/ sim_pc = "dead"
         \/ host_pc = "exited"
         \/ host_pc \in {"init", "ready"} /\ done = DOMAIN ops)
=============================================================================
