------------------------------ MODULE SpawnBuild ------------------------------
(***************************************************************************)
(* spawn_blocking_build of src/src/runtime.rs: a task moves its module into *)
(* a future, the first poll moves it on into a closure on tokio's blocking  *)
(* pool, the closure drives the module (JitModule), and the await brings    *)
(* module and result back, or raises the closure's panic in the task.  The  *)
(* future may be dropped at any time.                                       *)
(*                                                                          *)
(* The pool also runs finished code: calls that reach a synchronous shim    *)
(* block their thread on a future, which itself may need a pool thread.     *)
(*                                                                          *)
(* tokio is external; the client follows the rules of src/src/lib.rs:75-137 *)
(* and tests/tokio_runtime.rs: it declares helpers before the build, keeps  *)
(* the module while its code is called, calls shims on the pool only; how   *)
(* many at a time, nobody tells it.                                         *)
(***************************************************************************)
EXTENDS JitModule

CONSTANTS
    Shim,       \* helpers that drive a future with block_on
    CallId,     \* bound: calls in flight at the same time
    Old,        \* a finished function of another module, which calls a shim
    PoolSize    \* max_blocking_threads

ASSUME SpawnAssumption ==
  /\ Shim \subseteq Helper /\ Old \notin Nat
  /\ IsFiniteSet(CallId)
  \* tokio refuses a pool without threads; nothing keeps the calls fewer
  /\ PoolSize \in Nat \ {0}

VARIABLES
    task,       \* the owner: "free", in a future not polled yet, "awaiting",
                \* "cancelled", "panicked" or "finished"
    holder,     \* where the module is
    job,        \* the closure: "none", "queued", "running", or its outcome
    queue,      \* jobs waiting for a thread: "build", <<"call", c>>, <<"wake", c>>
    calls,      \* calls[c]: what is called, and how far the call is
    ptrs        \* finalized function pointers the task has extracted

async  == <<task, holder, job>>
pool   == <<queue, calls>>
tvars  == <<vars, async, pool, ptrs>>

NoCall   == [of |-> Old, state |-> "idle"]
InFlight == { c \in CallId : calls[c].state # "idle" }
Set(c, s) == calls' = [calls EXCEPT ![c].state = s]

(***************************************************************************)
(* The blocking pool                                                        *)
(***************************************************************************)
Threads == (IF job = "running" THEN 1 ELSE 0)
           + Cardinality({ c \in CallId : calls[c].state \in {"running", "blocked", "waking", "served"} })
           + Cardinality({ c \in CallId : calls[c].state = "waking" })

\* Faulty variants: one thread is never used; one thread too many is started.
ThreadFree_short == Threads + 1 < PoolSize
ThreadFree_over  == Threads <= PoolSize

ThreadFree == Threads < PoolSize

Dispatch ==
  /\ queue # <<>> /\ ThreadFree
  /\ queue' = Tail(queue)
  /\ IF Head(queue) = <<"build">>
     THEN job' = "running" /\ UNCHANGED calls
     ELSE /\ Set(Head(queue)[2], IF Head(queue)[1] = "call" THEN "running" ELSE "waking")
          /\ UNCHANGED job
  /\ UNCHANGED <<vars, task, holder, ptrs>>

(***************************************************************************)
(* The owner of the module                                                  *)
(***************************************************************************)
\* What may end in the loss of the module (a panic of declare unwinds through
\* its owner) is done while none of its code is being called.
Quiet == \A c \in InFlight : calls[c].of = Old

\* Helpers are registered and declared on the async side.
Prepare ==
  /\ task = "free" /\ holder = "main" /\ Quiet
  /\ \/ \E h \in Helper : Register(h) \/ Declare(h)
     \/ NewModule
  /\ IF phase' \in {"builder", "module"} THEN UNCHANGED async
     ELSE task' = "panicked" /\ holder' = "dropped" /\ UNCHANGED job
  /\ UNCHANGED <<pool, ptrs>>

\* The call of the async fn: nothing runs before the first poll.
Spawn ==
  /\ task = "free" /\ holder = "main" /\ phase = "module" /\ Quiet
  /\ task' = "future"
  /\ holder' = "future"
  /\ UNCHANGED <<vars, job, pool, ptrs>>

\* tokio::task::spawn_blocking(move || ..)
Poll ==
  /\ task = "future"
  /\ task' = "awaiting"
  /\ holder' = "closure"
  /\ job' = "queued"
  /\ queue' = Append(queue, <<"build">>)
  /\ UNCHANGED <<vars, calls, ptrs>>

\* Faulty variant: the module goes with the future also when the closure has it.
Cancel_borrowed ==
  /\ task \in {"future", "awaiting"}
  /\ task' = "cancelled"
  /\ holder' = "dropped"
  /\ job' = IF job \in {"returned", "panicked"} THEN "none" ELSE job
  /\ UNCHANGED <<vars, pool, ptrs>>

\* The future is dropped.  The closure, once spawned, runs on; a result nobody
\* takes is dropped.
Cancel ==
  /\ task \in {"future", "awaiting"}
  /\ task' = "cancelled"
  /\ holder' = IF holder = "closure" THEN holder ELSE "dropped"
  /\ job' = IF job \in {"returned", "panicked"} THEN "none" ELSE job
  /\ UNCHANGED <<vars, pool, ptrs>>

\* Faulty variant: only a closure that returned wakes the task.
Resume_returned ==
  /\ task = "awaiting" /\ job = "returned"
  /\ job' = "none"
  /\ task' = "free" /\ holder' = "main" /\ ptrs' = DOMAIN links
  /\ UNCHANGED <<vars, pool>>

\* .await.expect("JIT build task panicked"): the task takes what the closure
\* handed back; pointers are extracted from what has been finalized.
Resume ==
  /\ task = "awaiting" /\ job \in {"returned", "panicked"}
  /\ job' = "none"
  /\ IF job = "returned"
     THEN /\ task' = "free" /\ ptrs' = DOMAIN links
          /\ holder' = IF holder = "result" THEN "main" ELSE holder
     ELSE task' = "panicked" /\ UNCHANGED <<holder, ptrs>>
  /\ UNCHANGED <<vars, pool>>

\* drop(module)
DropModule ==
  /\ task = "free" /\ holder = "main" /\ Quiet
  /\ task' = "finished"
  /\ holder' = "dropped"
  /\ UNCHANGED <<vars, job, pool, ptrs>>

(***************************************************************************)
(* The closure                                                              *)
(***************************************************************************)
Running == job = "running"

\* define_jit_fn!, that is define_function.
Define ==
  \/ \E name \in Name, linkage \in BuildLinkage, sig \in Sig : Begin(name, linkage, sig, FALSE)
  \/ \E valid \in BOOLEAN : End(valid, FALSE)

\* f(&mut module): whatever JitModule allows once the module exists.
ClosureStep ==
  /\ Running
  /\ \/ \E h \in Helper : TryDeclare(h) \/ Declare(h) \/ CallHelper(h)
     \/ \E id \in given : CallFunction(id)
     \/ Define \/ Finalize
  /\ UNCHANGED <<async, pool, ptrs>>

\* Faulty variants: the closure returns r alone, and the module goes with it;
\* its result is kept for a task that has gone away; a panic is caught and the
\* module handed back as it is.
ClosureReturns_alone ==
  /\ Running /\ phase = "module" /\ open = <<>>
  /\ job' = IF task = "awaiting" THEN "returned" ELSE "none"
  /\ holder' = "dropped"
  /\ UNCHANGED <<vars, task, pool, ptrs>>

ClosureReturns_kept ==
  /\ Running /\ phase = "module" /\ open = <<>>
  /\ job' = "returned"
  /\ holder' = "result"
  /\ UNCHANGED <<vars, task, pool, ptrs>>

ClosurePanics_caught ==
  /\ Running
  /\ job' = IF task = "awaiting" THEN "returned" ELSE "none"
  /\ holder' = IF task = "awaiting" THEN "result" ELSE "dropped"
  /\ UNCHANGED <<vars, task, pool, ptrs>>

\* (module, r)
ClosureReturns ==
  /\ Running /\ phase = "module" /\ open = <<>>
  /\ job' = IF task = "awaiting" THEN "returned" ELSE "none"
  /\ holder' = IF task = "awaiting" THEN "result" ELSE "dropped"
  /\ UNCHANGED <<vars, task, pool, ptrs>>

\* A panic of declare or finalize_definitions, or an unwrap of the client's:
\* the closure owns the module, unwinding drops it.
ClosurePanics ==
  /\ Running
  /\ job' = IF task = "awaiting" THEN "panicked" ELSE "none"
  /\ holder' = "dropped"
  /\ UNCHANGED <<vars, task, pool, ptrs>>

(***************************************************************************)
(* Calls of finished code                                                   *)
(***************************************************************************)
\* The functions id reaches, itself included.
Reached(id) ==
  LET calledBy(k, t) ==
        \E s \in DOMAIN links[k] : links[k][s].kind = "jit" /\ links[k][s].of = t
      after(S) == S \cup { t \in DOMAIN links : \E k \in S : calledBy(k, t) }
      grow[n \in Nat] == IF n = 0 THEN {id} ELSE after(grow[n - 1])
  IN  grow[Cardinality(DOMAIN links)]

CallsShim(id) ==
  \/ id = Old
  \/ \E k \in Reached(id) : \E s \in DOMAIN links[k] :
       links[k][s].kind = "host" /\ links[k][s].of \in Shim

Callable == {Old} \cup (IF task = "free" THEN ptrs ELSE {})

\* f(..) on a worker, across awaits; spawn_blocking(move || f(..)) for a shim.
Call(c) ==
  /\ calls[c].state = "idle"
  /\ \E id \in Callable :
       IF CallsShim(id)
       THEN /\ calls' = [calls EXCEPT ![c] = [of |-> id, state |-> "queued"]]
            /\ queue' = Append(queue, <<"call", c>>)
       ELSE /\ calls' = [calls EXCEPT ![c] = [of |-> id, state |-> "worker"]]
            /\ UNCHANGED queue
  /\ UNCHANGED <<vars, async, ptrs>>

\* Handle::block_on of a future that may spawn a blocking job of its own.
BlockOn(c) ==
  /\ calls[c].state = "running"
  /\ Set(c, "blocked")
  /\ queue' = Append(queue, <<"wake", c>>)
  /\ UNCHANGED <<vars, async, ptrs>>

Wake(c) ==
  /\ calls[c].state = "waking"
  /\ Set(c, "served")
  /\ UNCHANGED <<vars, async, queue, ptrs>>

CallReturns(c) ==
  /\ calls[c].state \in {"worker", "running", "served"}
  /\ calls' = [calls EXCEPT ![c] = NoCall]
  /\ UNCHANGED <<vars, async, queue, ptrs>>

SpawnInit ==
  /\ Init
  /\ task = "free" /\ holder = "main" /\ job = "none"
  /\ queue = <<>>
  /\ calls = [c \in CallId |-> NoCall]
  /\ ptrs = {}

Closure == ClosureStep \/ ClosureReturns \/ ClosurePanics
CallStep(c) == BlockOn(c) \/ Wake(c) \/ CallReturns(c)

SpawnNext ==
  \/ Prepare \/ Spawn \/ Poll \/ Cancel \/ Resume \/ DropModule
  \/ Dispatch \/ Closure
  \/ \E c \in CallId : Call(c) \/ CallStep(c)

\* Pool threads and the executor run what is runnable; a closure does
\* finitely much.  Nobody has to start a build, poll it or call a function.
SpawnSpec ==
  /\ SpawnInit /\ [][SpawnNext]_tvars
  /\ WF_tvars(Dispatch) /\ WF_tvars(Closure) /\ WF_tvars(Resume)
  /\ \A c \in CallId : WF_tvars(CallStep(c))

(***************************************************************************)
(* Properties                                                               *)
(***************************************************************************)
\* Every variable has its type, and the module is in one place.
SpawnTypeOK ==
  /\ task \in {"free", "future", "awaiting", "cancelled", "panicked", "finished"}
  /\ holder \in {"main", "future", "closure", "result", "dropped"}
  /\ job \in {"none", "queued", "running", "returned", "panicked"}
  /\ task = "free" => job = "none"
  /\ task = "awaiting" => job # "none"
  /\ holder = "closure" <=> job \in {"queued", "running"}
  /\ holder = "result" <=> job = "returned"
  /\ Threads <= PoolSize
  /\ DOMAIN calls = CallId
  /\ ptrs \subseteq DOMAIN links

\* The await hands back a whole module or none: whoever can use it outside of
\* the closure finds no build half way and no panic behind it, however the
\* closure ended and whatever was cancelled meanwhile.
HandedBackWhole ==
  holder \in {"main", "future", "result"} =>
    open = <<>> /\ phase \in {"builder", "module"}

\* The module outlives every call of its code: it waits with the task that
\* has the pointers, which the await gave it together with the module.
CodeOutlivesCalls ==
  \A c \in InFlight : calls[c].of # Old => holder = "main" /\ calls[c].of \in DOMAIN links

\* No module is left over: when the task that owned it is gone, by a panic, a
\* dropped future or its own end, the module is dropped, at once or by the
\* closure that still runs.
NoOrphan ==
  task \in {"cancelled", "panicked", "finished"} => holder \in {"closure", "dropped"}

\* Every thread of the pool is blocked in a shim (src/src/lib.rs:129) that
\* waits for a future no thread is left to serve.
Blocked   == { c \in CallId : calls[c].state = "blocked" }
Exhausted == Cardinality(Blocked) = PoolSize

\* Something can go on: a thread takes the next job, the closure runs, the task
\* takes the closure's outcome, or a call moves that waits for no thread.
CanGoOn ==
  \/ queue # <<>> /\ ThreadFree
  \/ Running
  \/ task = "awaiting" /\ job \in {"returned", "panicked"}
  \/ \E c \in CallId : calls[c].state \in {"worker", "running", "waking", "served"}

Waiting == task = "awaiting" \/ InFlight # {}

\* There is one way for the pool to wait for itself.  Whatever is built, called,
\* cancelled or panics, while a build is awaited or a call is in flight
\* something can go on, unless every thread is blocked in a shim.
NeverStuck == Waiting => CanGoOn \/ Exhausted

\* That way is a deadlock nothing resolves: the blocked shims never return, no
\* queued call starts, and a build in the queue stays there, also when the task
\* that awaits it gives up and drops the future.
ExhaustedForGood ==
  [][Exhausted =>
       /\ Exhausted'
       /\ job = "queued" => job' = "queued"
       /\ \A c \in CallId :
            calls[c].state \in {"queued", "blocked"} => calls'[c] = calls[c]]_tvars

\* A build that is awaited ends: with the module, with the panic of its
\* closure, or because the task gives up; also when every thread but one is
\* blocked in a shim.  Once the last one is, too, it may wait for ever.
BuildEnds == task = "awaiting" ~> (task # "awaiting" \/ Exhausted)

\* Every call ends, shims included, up to the exhausted pool.
CallsEnd == \A c \in CallId : c \in InFlight ~> (c \notin InFlight \/ Exhausted)
=============================================================================
