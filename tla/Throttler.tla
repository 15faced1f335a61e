------------------------------ MODULE Throttler ------------------------------
(***************************************************************************)
(* The rate limit of the batch pipeline: the workers of the pool share one *)
(* Throttler (src/proxion/Throttler.py), whose lock and last_refill live   *)
(* in a multiprocessing manager, and enter it before every request that    *)
(* SourceCrawler.get_source_code_etherscan makes or retries.  A worker     *)
(* calls the manager over one connection; a thread of the manager serves   *)
(* the connection's calls in order and blocks in acquire.  SIGALRM may     *)
(* raise TimeoutError while a worker waits for a reply, and the reply then *)
(* stays in the connection for the next call to read.                      *)
(* All times are relative to the present, so that passing time makes them  *)
(* smaller: time.time() is 0.                                              *)
(***************************************************************************)
EXTENDS Integers, Sequences, FiniteSets

CONSTANTS
    Workers,    \* the processes of the pool
    Nobody,     \* the holder of a free lock
    Interval,   \* 1 / request_per_second, in ticks of the clock
    Rate,       \* request_per_second
    FetchRetry, \* fetch_source_retry
    AlarmsAt,   \* where the alarm may interrupt a worker
    Downloads,  \* bound: the downloads of each worker
    MaxAlarms,  \* bound: the alarms in all
    MaxLag      \* bound: how far the clock runs ahead of last_refill without a sleeper

Places == {"acquire", "elapsed", "logged", "set", "sleep", "release", "request"}

ASSUME RateAssumption == Interval \in Nat \ {0} /\ Rate \in Nat \ {0} /\ FetchRetry \in Nat \ {0}
ASSUME AlarmAssumption == AlarmsAt \subseteq Places /\ Nobody \notin Workers
ASSUME ThrottlerBounds ==
    Downloads \in [Workers -> Nat] /\ MaxAlarms \in Nat /\ MaxLag \in Nat /\ MaxLag >= Interval

VARIABLES
    lock,       \* whose call holds the manager's lock
    refill,     \* last_refill.value
    refilled,   \* last_refill has been set since it was made with 0.0
    calls,      \* per worker, the calls the manager has not served
    replies,    \* per worker, the replies the worker has not read
    worker,     \* per worker, where it is and its local variables
    grants,     \* history: the requests __enter__ let through in the last second, with
                \* the time they took their turn and how much later it returned
    alarms,     \* counter for the bound
    torn        \* history: the manager calls an alarm interrupted

vars == <<lock, refill, refilled, calls, replies, worker, grants, alarms, torn>>
managerVars == <<lock, refill, refilled>>

Second == Rate * Interval

(* then: how the with block of the lock is left, by return, by another round
   of the loop or by an exception; tries: requests of this download so far. *)
Resting(left) ==
    [pc |-> "idle", now |-> 0, elapsed |-> 0, wake |-> 0, then |-> "loop",
     tries |-> 0, left |-> left]

\* __enter__ begins and ends without local variables.
Fresh(j) == [Resting(j.left) EXCEPT !.tries = j.tries]

At(w, pc) == worker[w].pc = pc

Becomes(w, j) == worker' = [worker EXCEPT ![w] = j]

\* The rest of a proxy call: the method goes out on w's connection, and its
\* caller waits in place pc.
Calls(w, j, pc, call) ==
    /\ Becomes(w, [j EXCEPT !.pc = pc])
    /\ calls' = [calls EXCEPT ![w] = Append(@, call)]

Call(m, t) == [method |-> m, time |-> t]
None == [kind |-> "none", time |-> 0]
True == [kind |-> "true", time |-> 0]

\* What a get returns: 0.0, which is false and long ago, or a time.
LastRefill == [kind |-> IF refilled THEN "time" ELSE "zero", time |-> refill]

Timed(reply) == reply.kind \in {"zero", "time"}

\* bool(reply)
Truthy(reply) == reply.kind \in {"true", "time"}

----------------------------------------------------------------------------
(* The manager *)

\* The thread of w's connection serves one call.  Any thread may release the
\* lock, and the lock is not reentrant.
Serve(w) ==
    /\ calls[w] # <<>>
    /\ LET call == Head(calls[w])
           Reply(r) == replies' = [replies EXCEPT ![w] = Append(@, r)]
       IN  \/ /\ call.method = "acquire" /\ lock = Nobody
              /\ lock' = w /\ Reply(True) /\ UNCHANGED <<refill, refilled>>
           \/ /\ call.method = "release"
              /\ lock' = Nobody /\ Reply(None) /\ UNCHANGED <<refill, refilled>>
           \/ /\ call.method = "get"
              /\ Reply(LastRefill) /\ UNCHANGED managerVars
           \/ /\ call.method = "set"
              /\ refill' = call.time /\ refilled' = TRUE /\ Reply(None) /\ UNCHANGED lock
    /\ calls' = [calls EXCEPT ![w] = Tail(@)]
    /\ UNCHANGED <<worker, grants, alarms, torn>>

----------------------------------------------------------------------------
(* The worker *)

LocalUnchanged == UNCHANGED <<managerVars, grants, alarms, torn>>

Acquire(w, j) == Calls(w, Fresh(j), "acquire", Call("acquire", 0))
Release(w, j, then) == Calls(w, [j EXCEPT !.then = then, !.elapsed = 0, !.wake = 0], "release", Call("release", 0))

\* The next download begins.
Download(w) ==
    /\ At(w, "idle") /\ worker[w].left > 0
    /\ Acquire(w, [worker[w] EXCEPT !.tries = 1])
    /\ UNCHANGED replies /\ LocalUnchanged

\* The exception ends the download (and the row it is part of).
GiveUp(w) == Becomes(w, Resting(worker[w].left - 1))

\* A reply is read from w's connection, whatever call it belongs to.
Reads(w, pc) ==
    /\ At(w, pc) /\ replies[w] # <<>>
    /\ replies' = [replies EXCEPT ![w] = Tail(@)]

Reply(w) == Head(replies[w])

\* The lock is taken, as far as the worker knows.
Locked(w) ==
    /\ Reads(w, "acquire")
    /\ Calls(w, [worker[w] EXCEPT !.now = 0], "elapsed", Call("get", 0))
    /\ LocalUnchanged

\* elapsed = now - last_refill.value: True counts as 1, long ago, and None
\* raises TypeError.
Elapsed(w) ==
    /\ Reads(w, "elapsed")
    /\ IF Reply(w).kind = "none" THEN Release(w, worker[w], "raise")
       ELSE Calls(w, [worker[w] EXCEPT !.elapsed = IF Reply(w).kind = "true" THEN MaxLag
                                                   ELSE worker[w].now - Reply(w).time],
                  "logged", Call("get", 0))
    /\ LocalUnchanged

\* Mistake: half the time is enough.
HalfElapsed(elapsed) == 2 * elapsed >= Interval

\* self.rate * elapsed >= 1
EnoughElapsed(elapsed) == elapsed >= Interval

\* The second read of last_refill, for the log, whose value does not matter;
\* then the request is granted or the worker sleeps, with the lock.
Logged(w) ==
    /\ Reads(w, "logged")
    /\ LET j == worker[w]
       IN  IF EnoughElapsed(j.elapsed)
           THEN Calls(w, [j EXCEPT !.elapsed = 0], "set", Call("set", j.now))
           ELSE /\ Becomes(w, [Fresh(j) EXCEPT !.pc = "sleep", !.wake = Interval])
                /\ UNCHANGED calls
    /\ LocalUnchanged

WakeUp(w) ==
    /\ At(w, "sleep") /\ worker[w].wake <= 0
    /\ Release(w, worker[w], "loop")
    /\ UNCHANGED replies /\ LocalUnchanged

\* last_refill is set, and __enter__ returns through the with block.
Granted(w) ==
    /\ Reads(w, "set")
    /\ Release(w, worker[w], "return")
    /\ LocalUnchanged

\* The with block has been left, without an exception.
Released(w) ==
    /\ Reads(w, "release")
    /\ LET j == worker[w]
       IN  \/ /\ j.then = "loop"
              /\ Acquire(w, j)
              /\ UNCHANGED grants
           \/ /\ j.then = "return"
              /\ Becomes(w, [Fresh(j) EXCEPT !.pc = "request"])
              /\ grants' = grants \cup {[request |-> <<w, j.left, j.tries>>,
                                         time |-> j.now, delay |-> -j.now]}
              /\ UNCHANGED calls
    /\ UNCHANGED <<managerVars, alarms, torn>>

\* It is left with an exception, which __exit__ swallows if what it returns is
\* true: the reply that it takes for the one of release.
Reraises(w) ==
    /\ Reads(w, "release") /\ worker[w].then = "raise" /\ ~ Truthy(Reply(w))
    /\ GiveUp(w)
    /\ UNCHANGED calls /\ LocalUnchanged

\* The loop in __enter__ goes on as if nothing had been raised.
Swallows(w) ==
    /\ Reads(w, "release") /\ worker[w].then = "raise" /\ Truthy(Reply(w))
    /\ Acquire(w, worker[w])
    /\ LocalUnchanged

\* Etherscan's answer is used, or no retry helps (a lost connection, no JSON).
Answered(w) ==
    /\ At(w, "request")
    /\ GiveUp(w)
    /\ UNCHANGED <<calls, replies>> /\ LocalUnchanged

\* Mistake: the first request is not counted.
LastRetry(j) == j.tries > FetchRetry

\* range(fetch_source_retry) is used up.
LastTry(j) == j.tries = FetchRetry

\* A timeout, an HTTP error or an answer without a result: the request is
\* retried through the throttler, fetch_source_retry times in all.
FailsOnce(w) ==
    LET j == worker[w]
    IN  IF LastTry(j) THEN GiveUp(w) /\ UNCHANGED calls
        ELSE Acquire(w, [j EXCEPT !.tries = @ + 1])

Retry(w) ==
    /\ At(w, "request")
    /\ FailsOnce(w)
    /\ UNCHANGED replies /\ LocalUnchanged

----------------------------------------------------------------------------
(* Time *)

\* When __enter__ returned for a request.
Passed(g) == g.time + g.delay

Older(record) == [record EXCEPT !.time = @ - 1]

\* The locals that hold a time: now until it is granted, wake in sleep.
Aged(j) ==
    CASE j.pc \in {"elapsed", "logged", "set", "release"} -> [j EXCEPT !.now = @ - 1]
      [] j.pc = "sleep" -> [j EXCEPT !.wake = @ - 1]
      [] OTHER -> j

Sleeping(w) == At(w, "sleep") /\ worker[w].wake > 0

\* Time passes, a tick at a time.  MaxLag after last_refill only sleepers
\* depend on it.
Tick ==
    /\ refill > -MaxLag \/ \E w \in Workers : Sleeping(w)
    /\ refill' = refill - 1
    /\ calls' = [w \in Workers |->
         [i \in DOMAIN calls[w] |->
            IF calls[w][i].method = "set" THEN Older(calls[w][i]) ELSE calls[w][i]]]
    /\ replies' = [w \in Workers |->
         [i \in DOMAIN replies[w] |->
            IF Timed(replies[w][i]) THEN Older(replies[w][i]) ELSE replies[w][i]]]
    /\ worker' = [w \in Workers |-> Aged(worker[w])]
    /\ grants' = {g \in {Older(h) : h \in grants} : Passed(g) > -Second}
    /\ UNCHANGED <<lock, refilled, alarms, torn>>

\* Mistake: the lock is not released when its holder is interrupted.
StaysLocked(w) == GiveUp(w) /\ UNCHANGED calls

\* TimeoutError where the lock is held goes through the with block.
Unlocks(w) == Release(w, worker[w], "raise")

\* Mistake: a handler that releases again what is being released.
BeforeWith == {"acquire"}

\* The calls of the lock's own __enter__ and __exit__.
OutsideWith == {"acquire", "release"}

\* SIGALRM raises TimeoutError.  Outside the with block of the lock, or while
\* the lock is being taken or released, nothing is done about the call that
\* is under way.  During a request urllib3 takes it for a socket timeout, so
\* the request is retried and the row goes on without a limit.
Alarm(w) ==
    /\ worker[w].pc \in AlarmsAt
    /\ alarms < MaxAlarms
    /\ alarms' = alarms + 1
    /\ torn' = torn \cup ({worker[w].pc} \ {"sleep", "request"})
    /\ CASE worker[w].pc \in OutsideWith -> GiveUp(w) /\ UNCHANGED calls
         [] worker[w].pc = "request" -> FailsOnce(w)
         [] OTHER -> Unlocks(w)
    /\ UNCHANGED <<managerVars, replies, grants>>

WorkerStep(w) ==
    \/ Download(w) \/ Locked(w) \/ Elapsed(w) \/ Logged(w) \/ WakeUp(w)
    \/ Granted(w) \/ Released(w) \/ Reraises(w) \/ Swallows(w)
    \/ Answered(w) \/ Retry(w)

\* last_refill is 0.0 at first, long ago.
Init ==
    /\ lock = Nobody
    /\ refill = -MaxLag /\ refilled = FALSE
    /\ calls = [w \in Workers |-> <<>>]
    /\ replies = [w \in Workers |-> <<>>]
    /\ worker = [w \in Workers |-> Resting(Downloads[w])]
    /\ grants = {}
    /\ alarms = 0 /\ torn = {}

Next ==
    \/ \E w \in Workers : WorkerStep(w) \/ Serve(w) \/ Alarm(w)
    \/ Tick

\* Workers and the manager's threads run, and time passes.  The lock is not
\* fair: a worker that waits for it may be overtaken.
Spec ==
    /\ Init /\ [][Next]_vars
    /\ WF_vars(Tick)
    /\ \A w \in Workers : WF_vars(WorkerStep(w)) /\ WF_vars(Serve(w))

----------------------------------------------------------------------------
(* Properties *)

Methods == {"acquire", "get", "set", "release"}

\* Type invariant: also, there is one call or reply more on a connection than
\* interruptions left there when its worker waits for a reply.
TypeOK ==
    /\ refill \in Int /\ refill <= 0 /\ refilled \in BOOLEAN
    /\ lock \in Workers \cup {Nobody}
    /\ alarms \in 0..MaxAlarms /\ torn \subseteq Places
    /\ \A w \in Workers :
        /\ \A i \in DOMAIN calls[w] : calls[w][i].method \in Methods
        /\ worker[w].pc \in Places \cup {"idle"}
        /\ worker[w].left \in 0..Downloads[w] /\ worker[w].tries \in 0..FetchRetry
        /\ Len(calls[w]) + Len(replies[w]) <=
              alarms + (IF worker[w].pc \in Places \ {"sleep", "request"} THEN 1 ELSE 0)

\* last_refill is read and set, and the lock released, only by the thread that
\* holds the lock, although a connection may be several calls behind its
\* worker: hence no release fails, and no time is set between another
\* worker's reading and its decision.
AccessLocked ==
    \A w \in Workers :
        calls[w] # <<>> /\ Head(calls[w]).method \in Methods \ {"acquire"} => lock = w

\* Requests take their turns at least 1 / request_per_second apart, so that they
\* are let through as far apart, less what the earlier one is held up between its
\* turn and the return of __enter__; unless a call of the manager was interrupted:
\* the alarms that interrupt sleepers and requests do no harm.
Spacing ==
    torn = {} =>
        \A g, h \in grants :
            g # h /\ g.time <= h.time =>
                /\ h.time - g.time >= Interval
                /\ Passed(h) - Passed(g) >= Interval - g.delay

\* The lock is lost only through an interrupted acquire, which is served when
\* its worker has gone on (Throttler.py:21).  After any other interruption a
\* worker that is idle or busy with a request has the lock no longer than it
\* takes to serve the release it has already sent.
LockReturned ==
    "acquire" \notin torn =>
        \A w \in Workers : lock = w /\ worker[w].pc \in {"idle", "request"} =>
            \E i \in DOMAIN calls[w] : calls[w][i].method = "release"

\* The lock is used by its holder and given back.
LockUsedRight == AccessLocked /\ LockReturned

\* Every worker gets through with its downloads, failing requests and alarms
\* that interrupt anything but the taking of the lock included, unless the loop
\* in __enter__ swallows exceptions for ever.
AllServed ==
    \/ <>(("acquire" \in torn) \/ (\A w \in Workers : worker[w].left = 0))
    \/ \E w \in Workers : []<><<Swallows(w)>>_vars

\* The requests held up for d at most that are let through within a second of g.
LetThrough(g, d) ==
    {h \in grants : h.delay <= d /\ Passed(h) \in Passed(g)..(Passed(g) + Second - 1)}

\* src/proxion/SourceCrawler.py:102: "Since Etherscan free-tier API has a rate
\* limit of 5 requests per second, we have to throttle request rate."  Of the
\* requests that are not held up after their turn, at most request_per_second are
\* let through in a second.
RateLimited ==
    \A g \in grants : Cardinality(LetThrough(g, 0)) <= Rate

============================================================================
