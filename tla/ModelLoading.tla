---------------------------- MODULE ModelLoading ----------------------------
(***************************************************************************)
(* ModelRegistry.get_session: coroutines of one event loop ask for ONNX    *)
(* models. The first caller of a model loads it outside the lock, later    *)
(* callers wait for its load future, and they wait for it while they hold  *)
(* the lock.                                                               *)
(*                                                                         *)
(* A step is what a task does between two suspensions. asyncio.Lock hands  *)
(* itself to its waiters in the order they came.                           *)
(***************************************************************************)
EXTENDS Integers, Sequences, FiniteSets

CONSTANTS
  Tasks,        \* the coroutines that call get_session
  Models,       \* the registered models
  LoadErrors,   \* what loading may raise: "missing", "other"
  MaxCancels,   \* bound: cancelled calls
  MaxCalls      \* bound: calls per task

ASSUME ModelLoadingAssumption ==
  /\ LoadErrors \subseteq {"missing", "other"}
  /\ MaxCancels \in Nat /\ MaxCalls \in Nat

VARIABLES
  state,     \* _ModelEntry.state
  future,    \* _ModelEntry.load_future: "none" or its condition
  holder,    \* the task that keeps the lock over a suspension, if any
  queue,     \* the tasks waiting for the lock
  pc,        \* where a task is, or how its last call ended
  want,      \* the model of its last call
  calls,     \* calls per task
  cancels

registryVars == <<state, future, holder, queue, pc, want, calls, cancels>>

States  == {"unloaded", "loading", "ready", "failed"}
Futures == {"none", "pending", "result", "exception", "cancelled"}
Ends    == {"session", "missing", "error", "cancelled"}
Busy    == {"queued", "loading", "waiting"}

RegistryTypeOK ==
  /\ state  \in [Models -> States]
  /\ future \in [Models -> Futures]
  /\ holder \in SUBSET Tasks
  /\ queue  \in Seq(Tasks)
  /\ pc     \in [Tasks -> {"idle"} \cup Busy \cup Ends]
  /\ want   \in [Tasks -> Models]
  /\ calls  \in [Tasks -> 0..MaxCalls]
  /\ cancels \in 0..MaxCancels

RegistryInit ==
  /\ state  = [m \in Models |-> "unloaded"]
  /\ future = [m \in Models |-> "none"]
  /\ holder = {}
  /\ queue  = << >>
  /\ pc     = [t \in Tasks |-> "idle"]
  /\ want   \in [Tasks -> Models]
  /\ calls  = [t \in Tasks |-> 0]
  /\ cancels = 0

Goes(t, place) == pc' = [pc EXCEPT ![t] = place]

(* The answer for a model whose fate is known. *)
Verdict(m) == IF state[m] = "ready" THEN "session" ELSE "missing"
Settled(m) == state[m] \in {"ready", "failed"}

----------------------------------------------------------------------------
(* The body of "async with self._lock", up to the next suspension. *)

AlreadySettled(t, m) ==
  /\ Settled(m)
  /\ Goes(t, Verdict(m))
  /\ UNCHANGED <<state, future, holder>>

(* MUTANT: the caller starts loading whatever others have begun. *)
StartsLoading_Always(t, m) ==
  /\ ~Settled(m)
  /\ state'  = [state  EXCEPT ![m] = "loading"]
  /\ future' = [future EXCEPT ![m] = "pending"]
  /\ Goes(t, "loading")
  /\ UNCHANGED holder

StartsLoading(t, m) ==
  /\ ~Settled(m)
  /\ future[m] = "none"
  /\ state'  = [state  EXCEPT ![m] = "loading"]
  /\ future' = [future EXCEPT ![m] = "pending"]
  /\ Goes(t, "loading")
  /\ UNCHANGED holder

(* The lock stays taken until the future is done. *)
WaitsForFuture(t, m) ==
  /\ ~Settled(m)
  /\ future[m] = "pending"
  /\ Goes(t, "waiting")
  /\ holder' = {t}
  /\ UNCHANGED <<state, future>>

FindsCancelledFuture(t, m) ==
  /\ ~Settled(m)
  /\ future[m] = "cancelled"
  /\ Goes(t, "cancelled")
  /\ UNCHANGED <<state, future, holder>>

Locked(t, m) ==
  \/ AlreadySettled(t, m)
  \/ StartsLoading(t, m)
  \/ WaitsForFuture(t, m)
  \/ FindsCancelledFuture(t, m)

----------------------------------------------------------------------------
LockIsFree == holder = {} /\ queue = << >>

(* A call: answered at once for a settled model, else through the lock. *)
Call(t, m) ==
  /\ pc[t] \notin Busy
  /\ calls[t] < MaxCalls
  /\ calls' = [calls EXCEPT ![t] = @ + 1]
  /\ want'  = [want EXCEPT ![t] = m]
  /\ \/ /\ Settled(m) \/ LockIsFree
        /\ Locked(t, m)
        /\ UNCHANGED queue
     \/ /\ ~Settled(m) /\ ~LockIsFree
        /\ Goes(t, "queued")
        /\ queue' = Append(queue, t)
        /\ UNCHANGED <<state, future, holder>>
  /\ UNCHANGED cancels

Acquire(t) ==
  /\ pc[t] = "queued"
  /\ holder = {}
  /\ queue # << >> /\ Head(queue) = t
  /\ queue' = Tail(queue)
  /\ Locked(t, want[t])
  /\ UNCHANGED <<want, calls, cancels>>

(* MUTANT: the state changes before the session is there. *)
LoadSucceeds_NotReady(t) ==
  /\ pc[t] = "loading"
  /\ future' = [future EXCEPT ![want[t]] = "result"]
  /\ Goes(t, "session")
  /\ UNCHANGED <<state, holder, queue, want, calls, cancels>>

(* set_result of a future that a waiter's cancellation has cancelled       *)
(* raises InvalidStateError: the model is ready, its loader's call fails.  *)
LoadSucceeds(t) ==
  /\ pc[t] = "loading"
  /\ state' = [state EXCEPT ![want[t]] = "ready"]
  /\ IF future[want[t]] = "pending"
       THEN /\ future' = [future EXCEPT ![want[t]] = "result"]
            /\ Goes(t, "session")
       ELSE /\ Goes(t, "error")
            /\ UNCHANGED future
  /\ UNCHANGED <<holder, queue, want, calls, cancels>>

(* MUTANT: those who wait are not told. *)
LoadFails_Silently(t) ==
  /\ pc[t] = "loading"
  /\ "missing" \in LoadErrors
  /\ state' = [state EXCEPT ![want[t]] = "failed"]
  /\ Goes(t, "missing")
  /\ UNCHANGED <<future, holder, queue, want, calls, cancels>>

(* MissingDependencyError: no such file, wrong checksum, no onnxruntime. *)
LoadFails(t) ==
  /\ pc[t] = "loading"
  /\ "missing" \in LoadErrors
  /\ state'  = [state EXCEPT ![want[t]] = "failed"]
  /\ future' = [future EXCEPT ![want[t]] = IF @ = "pending" THEN "exception" ELSE @]
  /\ Goes(t, "missing")
  /\ UNCHANGED <<holder, queue, want, calls, cancels>>

(* Any other exception (of read_bytes, the callback, the ONNX runtime)     *)
(* leaves the entry as it is: loading, with a pending future.              *)
LoadRaises(t) ==
  /\ pc[t] = "loading"
  /\ "other" \in LoadErrors
  /\ Goes(t, "error")
  /\ UNCHANGED <<state, future, holder, queue, want, calls, cancels>>

(* The future a task waits for is done: it leaves the locked section. *)
Resume(t) ==
  /\ pc[t] = "waiting"
  /\ future[want[t]] \in {"result", "exception"}
  /\ Goes(t, IF future[want[t]] = "result" THEN "session" ELSE "missing")
  /\ holder' = {}
  /\ UNCHANGED <<state, future, queue, want, calls, cancels>>

----------------------------------------------------------------------------
(* Task.cancel() of a call that is suspended. *)

Cancelled(t) ==
  /\ cancels < MaxCancels
  /\ cancels' = cancels + 1
  /\ Goes(t, "cancelled")
  /\ UNCHANGED <<state, want, calls>>

CancelQueued(t) ==
  /\ pc[t] = "queued"
  /\ Cancelled(t)
  /\ \E i \in DOMAIN queue :
       /\ queue[i] = t
       /\ queue' = SubSeq(queue, 1, i - 1) \o SubSeq(queue, i + 1, Len(queue))
  /\ UNCHANGED <<future, holder>>

(* Cancelling a task cancels the future it awaits, here everybody's. *)
CancelWaiting(t) ==
  /\ pc[t] = "waiting"
  /\ Cancelled(t)
  /\ future' = [future EXCEPT ![want[t]] = IF @ = "pending" THEN "cancelled" ELSE @]
  /\ holder' = {}
  /\ UNCHANGED queue

CancelLoading(t) ==
  /\ pc[t] = "loading"
  /\ Cancelled(t)
  /\ UNCHANGED <<future, holder, queue>>

Proceeds(t) ==
  Acquire(t) \/ LoadSucceeds(t) \/ LoadFails(t) \/ LoadRaises(t) \/ Resume(t)

RegistryNext ==
  \E t \in Tasks :
    \/ \E m \in Models : Call(t, m)
    \/ Proceeds(t)
    \/ CancelQueued(t) \/ CancelWaiting(t) \/ CancelLoading(t)

(* The event loop runs every task that can run, and a load comes to an     *)
(* end: nothing asks for callers or for cancellations.                     *)
Fairness == \A t \in Tasks : WF_registryVars(Proceeds(t))

RegistrySpec == RegistryInit /\ [][RegistryNext]_registryVars /\ Fairness

----------------------------------------------------------------------------
Loaders(m) == {t \in Tasks : pc[t] = "loading" /\ want[t] = m}

(* "Concurrent requests for the same model share a single load future to   *)
(* prevent duplicate loading": although the lock is released before the    *)
(* load, two tasks never load one model, and a model that is being loaded  *)
(* is neither ready nor failed yet.                                        *)
LoadedByOne ==
  \A t, u \in Tasks :
    pc[t] = "loading" /\ pc[u] = "loading" /\ want[t] = want[u] => t = u
LoadedInTheOpen ==
  \A t \in Tasks : pc[t] = "loading" =>
    /\ state[want[t]] = "loading"
    /\ future[want[t]] \in {"pending", "cancelled"}

SingleLoader == LoadedByOne /\ LoadedInTheOpen

(* The future and the state of a model tell the same story: no future for  *)
(* an unloaded model, a pending one only while it loads, a result only     *)
(* once it is ready, an exception only once it failed. A future that was   *)
(* cancelled tells nothing.                                                *)
FutureTellsState ==
  \A m \in Models :
    /\ future[m] = "none"      <=> state[m] = "unloaded"
    /\ future[m] = "pending"   => state[m] = "loading"
    /\ future[m] = "result"    => state[m] = "ready"
    /\ future[m] = "exception" => state[m] = "failed"

(* What a caller is told is true: a session only of a model that is ready, *)
(* MissingDependencyError only of a model that failed, whether it loaded   *)
(* itself, waited for the future or came later.                            *)
AnswersMatchState ==
  \A t \in Tasks :
    /\ pc[t] = "session" => state[want[t]] = "ready"
    /\ pc[t] = "missing" => state[want[t]] = "failed"

(* "unloaded -> loading -> ready | failed": no step goes back or skips a   *)
(* state, whatever is cancelled.                                           *)
StateMachine ==
  [][\A m \in Models :
       \/ state'[m] = state[m]
       \/ state[m] = "unloaded" /\ state'[m] = "loading"
       \/ state[m] = "loading"  /\ state'[m] \in {"ready", "failed"}]_registryVars

(* Every call returns, although a task that waits for the future blocks    *)
(* the callers of every other model: as long as no load is abandoned (by   *)
(* an unexpected exception or a cancellation) the wait is only for its end.*)
NoLoadAbandoned == \A m \in Models : state[m] = "loading" => Loaders(m) # {}

EveryCallReturns ==
  []NoLoadAbandoned => \A t \in Tasks : pc[t] \in Busy ~> pc[t] \notin Busy

============================================================================
