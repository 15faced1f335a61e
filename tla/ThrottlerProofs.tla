--------------------------- MODULE ThrottlerProofs ---------------------------
(***************************************************************************)
(* Proofs about Throttler for any workers, rate and number of downloads    *)
(* and alarms: the lock is used only by its holder and given back, and     *)
(* requests are spaced unless an alarm tears a call of the manager.        *)
(***************************************************************************)
EXTENDS Throttler, SequenceTheorems, FiniteSetTheorems, TLAPS

Past == {t \in Int : t <= 0}
CallRecord == [method : Methods, time : Past]
ReplyRecord == [kind : {"none", "true", "zero", "time"}, time : Past]
GrantRecord == [request : Workers \X Nat \X Nat, time : Int, delay : Nat]
WorkerRecord ==
    [pc : Places \cup {"idle"}, now : Past, elapsed : Int, wake : Int,
     then : {"loop", "return", "raise"}, tries : Nat, left : Nat]

Waiting(w) == worker[w].pc \in Places \ {"sleep", "request"}

TypesHold ==
    /\ refill \in Past /\ refilled \in BOOLEAN /\ lock \in Workers \cup {Nobody}
    /\ calls \in [Workers -> Seq(CallRecord)]
    /\ replies \in [Workers -> Seq(ReplyRecord)]
    /\ worker \in [Workers -> WorkerRecord]
    /\ grants \subseteq GrantRecord
    /\ alarms \in 0..MaxAlarms /\ torn \subseteq Places

\* A worker that is not idle has a download left, and has begun to try it.
TriesCounted ==
    \A w \in Workers :
        /\ worker[w].left <= Downloads[w] /\ worker[w].tries <= FetchRetry
        /\ worker[w].pc # "idle" => worker[w].left > 0 /\ worker[w].tries > 0

\* One call or reply more than interruptions left on a connection.
BacklogBounded ==
    \A w \in Workers :
        Len(calls[w]) + Len(replies[w]) <= alarms + (IF Waiting(w) THEN 1 ELSE 0)

----------------------------------------------------------------------------
(* The order of calls on a connection; held says whether its worker's calls
   hold the lock before the first one. *)

\* Nothing but an acquire is first without the lock, or follows a release.
InOrder(cs, held) ==
    \A i \in DOMAIN cs :
        cs[i].method # "acquire" => IF i = 1 THEN held ELSE cs[i - 1].method # "release"

\* The lock is held when the calls have been served.
Ready(cs, held) == IF cs = <<>> THEN held ELSE cs[Len(cs)].method # "release"

Within == {"acquire", "elapsed", "logged", "set", "sleep"}

\* Each connection's calls are in order, and stay so when a worker between
\* acquire and release makes another one.
CallsOrdered ==
    \A w \in Workers :
        /\ InOrder(calls[w], lock = w)
        /\ worker[w].pc \in Within => Ready(calls[w], lock = w)

\* Behind an interrupted acquire only, a connection holds the lock although its
\* worker is not between acquire and release.
LockGivenBack ==
    "acquire" \notin torn =>
        \A w \in Workers : worker[w].pc \notin Within => ~ Ready(calls[w], lock = w)

LockInvariant == TypesHold /\ TriesCounted /\ BacklogBounded /\ CallsOrdered /\ LockGivenBack

----------------------------------------------------------------------------
(* Without torn calls *)

\* The call is under way, or its reply.
Pending(w, call, reply) ==
    \/ calls[w] = <<call>> /\ replies[w] = <<>>
    \/ calls[w] = <<>> /\ replies[w] = <<reply>>

\* The one call or reply on w's connection belongs to where w is.
Synchronous(w) ==
    LET pc == worker[w].pc
    IN  CASE pc = "acquire" -> Pending(w, Call("acquire", 0), True)
          [] pc \in {"elapsed", "logged"} -> Pending(w, Call("get", 0), LastRefill)
          [] pc = "set" -> Pending(w, Call("set", worker[w].now), None)
          [] pc = "release" -> Pending(w, Call("release", 0), None)
          [] OTHER -> calls[w] = <<>> /\ replies[w] = <<>>

\* What w knows of last_refill between reading and setting it.
RefillKnown(w) ==
    /\ worker[w].pc = "logged" => worker[w].elapsed = worker[w].now - refill
    /\ worker[w].pc = "set" =>
            IF calls[w] = <<>> THEN worker[w].now = refill ELSE worker[w].now - refill >= Interval

\* last_refill has been set for a request that has not been let through yet.
Awarded(w) ==
    \/ worker[w].pc = "set" /\ calls[w] = <<>>
    \/ worker[w].pc = "release" /\ worker[w].then = "return"

Apart(s, t) == s - t >= Interval \/ t - s >= Interval

\* The requests that are let through, or will be, are apart, and not later than
\* last_refill says.
AwardsApart ==
    /\ \A g \in grants : g.time <= refill
    /\ \A w \in Workers : Awarded(w) => worker[w].now <= refill
    /\ \A g, h \in grants : g # h => Apart(g.time, h.time)
    /\ \A w \in Workers, g \in grants : Awarded(w) => Apart(worker[w].now, g.time)
    /\ \A w, v \in Workers :
            w # v /\ Awarded(w) /\ Awarded(v) => Apart(worker[w].now, worker[v].now)

SpacingInvariant ==
    torn = {} => (\A w \in Workers : Synchronous(w) /\ RefillKnown(w)) /\ AwardsApart

----------------------------------------------------------------------------
(* Calls in order *)

\* An acquire may be called at any time.
LEMMA AcquireInOrder ==
    ASSUME NEW cs \in Seq(CallRecord), NEW held \in BOOLEAN, InOrder(cs, held),
           NEW c \in CallRecord, c.method = "acquire"
    PROVE  InOrder(Append(cs, c), held) /\ Ready(Append(cs, c), held)
<1>1. /\ Append(cs, c) # <<>> /\ Len(Append(cs, c)) = Len(cs) + 1
      /\ Append(cs, c) \in Seq(CallRecord) /\ Len(cs) \in Nat
      /\ \A i \in 1..Len(cs) : Append(cs, c)[i] = cs[i]
      /\ Append(cs, c)[Len(cs) + 1] = c
    BY AppendProperties, LenProperties
<1>2. DOMAIN cs = 1..Len(cs) /\ DOMAIN Append(cs, c) = 1..(Len(cs) + 1)
    BY <1>1, LenProperties
<1>3. Ready(Append(cs, c), held)
    BY <1>1 DEF Ready
<1>4. ASSUME NEW i \in DOMAIN Append(cs, c), Append(cs, c)[i].method # "acquire"
      PROVE  IF i = 1 THEN held ELSE Append(cs, c)[i - 1].method # "release"
    <2>1. i \in 1..Len(cs)
        BY <1>1, <1>2, <1>4
    <2>2. i - 1 \in 1..Len(cs) \/ i = 1
        BY <2>1, <1>1
    <2> QED
        BY <1>1, <1>2, <1>4, <2>1, <2>2 DEF InOrder
<1> QED
    BY <1>3, <1>4 DEF InOrder

\* Another call may be made with the lock, which a release gives back.
LEMMA OtherInOrder ==
    ASSUME NEW cs \in Seq(CallRecord), NEW held \in BOOLEAN, InOrder(cs, held), Ready(cs, held),
           NEW c \in CallRecord
    PROVE  /\ InOrder(Append(cs, c), held)
           /\ Ready(Append(cs, c), held) <=> c.method # "release"
<1>1. /\ Append(cs, c) # <<>> /\ Len(Append(cs, c)) = Len(cs) + 1
      /\ Append(cs, c) \in Seq(CallRecord) /\ Len(cs) \in Nat
      /\ \A i \in 1..Len(cs) : Append(cs, c)[i] = cs[i]
      /\ Append(cs, c)[Len(cs) + 1] = c
    BY AppendProperties, LenProperties
<1>2. DOMAIN cs = 1..Len(cs) /\ DOMAIN Append(cs, c) = 1..(Len(cs) + 1)
    BY <1>1, LenProperties
<1>3. Ready(Append(cs, c), held) <=> c.method # "release"
    BY <1>1 DEF Ready
<1>4. ASSUME NEW i \in DOMAIN Append(cs, c), Append(cs, c)[i].method # "acquire"
      PROVE  IF i = 1 THEN held ELSE Append(cs, c)[i - 1].method # "release"
    <2>1. CASE i \in 1..Len(cs)
        <3>1. i - 1 \in 1..Len(cs) \/ i = 1
            BY <2>1, <1>1
        <3> QED
            BY <1>1, <1>2, <1>4, <2>1, <3>1 DEF InOrder
    <2>2. CASE i = Len(cs) + 1
        <3>1. cs # <<>> => Len(cs) > 0
            BY EmptySeq
        <3>2. cs = <<>> => Len(cs) = 0
            BY EmptySeq
        <3> QED
            BY <1>1, <2>2, <3>1, <3>2 DEF Ready
    <2> QED
        BY <1>1, <1>2, <2>1, <2>2
<1> QED
    BY <1>3, <1>4 DEF InOrder

\* Whether the lock is held when the first call has been served.
HeldBehind(call, held) ==
    CASE call.method = "acquire" -> TRUE
      [] call.method = "release" -> FALSE
      [] OTHER -> held

LEMMA TailInOrder ==
    ASSUME NEW cs \in Seq(CallRecord), NEW held \in BOOLEAN, InOrder(cs, held), cs # <<>>
    PROVE  /\ Head(cs).method # "acquire" => held
           /\ InOrder(Tail(cs), HeldBehind(Head(cs), held))
           /\ Ready(Tail(cs), HeldBehind(Head(cs), held)) <=> Ready(cs, held)
<1>1. /\ Tail(cs) \in Seq(CallRecord) /\ Len(cs) \in Nat /\ Len(cs) >= 1
      /\ Len(Tail(cs)) = Len(cs) - 1
      /\ \A i \in 1..(Len(cs) - 1) : Tail(cs)[i] = cs[i + 1]
    BY HeadTailProperties, LenProperties, EmptySeq
<1>0. /\ Len(<<>>) = 0
      /\ \A s \in Seq(CallRecord) : s # <<>> => Len(s) # 0
    BY EmptySeq
<1>2. DOMAIN cs = 1..Len(cs) /\ DOMAIN Tail(cs) = 1..(Len(cs) - 1)
    BY <1>1, LenProperties
<1>3. Head(cs) = cs[1] /\ 1 \in DOMAIN cs
    BY <1>1, <1>2
<1>4. Head(cs).method # "acquire" => held
    BY <1>3 DEF InOrder
<1>5. ASSUME NEW i \in DOMAIN Tail(cs), Tail(cs)[i].method # "acquire"
      PROVE  IF i = 1 THEN HeldBehind(Head(cs), held) ELSE Tail(cs)[i - 1].method # "release"
    <2>1. i + 1 \in DOMAIN cs /\ i + 1 # 1 /\ cs[i + 1] = Tail(cs)[i] /\ (i + 1) - 1 = i
        BY <1>1, <1>2
    <2>2. cs[i].method # "release"
        BY <1>5, <2>1 DEF InOrder
    <2>3. i # 1 => i - 1 \in 1..(Len(cs) - 1) /\ (i - 1) + 1 = i
        BY <1>1, <1>2
    <2> QED
        BY <1>1, <1>3, <1>4, <2>2, <2>3 DEF HeldBehind
<1>6. Ready(Tail(cs), HeldBehind(Head(cs), held)) <=> Ready(cs, held)
    <2>1. CASE Len(cs) = 1
        <3>0. Len(Tail(cs)) = 0
            BY <1>1, <2>1
        <3>1. Tail(cs) = <<>>
            BY <1>0, <1>1, <3>0, Zenon
        <3> QED
            BY <1>3, <1>4, <2>1, <3>1 DEF Ready, HeldBehind
    <2>2. CASE Len(cs) > 1
        <3>1. Tail(cs) # <<>> /\ Tail(cs)[Len(Tail(cs))] = cs[Len(cs)]
            <4>1. Len(Tail(cs)) # 0 /\ Len(cs) - 1 \in 1..(Len(cs) - 1)
                BY <1>1, <2>2
            <4>2. Tail(cs) # <<>>
                BY <1>0, <4>1, Zenon
            <4>3. Tail(cs)[Len(cs) - 1] = cs[(Len(cs) - 1) + 1] /\ (Len(cs) - 1) + 1 = Len(cs)
                BY <1>1, <4>1
            <4> QED
                BY <1>1, <4>2, <4>3
        <3> QED
            BY <3>1 DEF Ready
    <2> QED
        BY <1>1, <2>1, <2>2
<1> QED
    BY <1>4, <1>5, <1>6 DEF InOrder

----------------------------------------------------------------------------
(* What the steps do *)

Busy == {"acquire", "elapsed", "logged", "set", "release"}

LEMMA BusyWaits == \A w \in Workers : Waiting(w) <=> worker[w].pc \in Busy
BY DEF Waiting, Places, Busy

\* A worker makes one call, which holds the lock as long as it should, or none.
Sends(w, j) ==
    \/ /\ calls' = calls /\ j.pc \notin Busy
       /\ j.pc = "sleep" => worker[w].pc \in Within
       /\ worker[w].pc \in Within => j.pc = "sleep" \/ "acquire" \in torn'
    \/ /\ j.pc \in Busy
       /\ \E c \in CallRecord :
            /\ calls' = [calls EXCEPT ![w] = Append(@, c)]
            /\ \/ j.pc = "acquire" /\ c.method = "acquire"
               \/ /\ worker[w].pc \in Within /\ c.method # "acquire"
                  /\ j.pc = "release" <=> c.method = "release"
                  /\ j.pc # "acquire"

\* It reads one reply when it waits for one and is not interrupted.
Hears(w) ==
    IF Waiting(w) /\ alarms' = alarms
    THEN replies[w] # <<>> /\ replies' = [replies EXCEPT ![w] = Tail(@)]
    ELSE replies' = replies

Counts(w) ==
    \/ alarms' = alarms /\ torn' = torn
    \/ alarms < MaxAlarms /\ alarms' = alarms + 1 /\ worker[w].pc \in Places
       /\ torn' = torn \cup ({worker[w].pc} \ {"sleep", "request"})

\* A step of w that makes it j.
Moves(w, j) ==
    /\ j \in WorkerRecord /\ worker' = [worker EXCEPT ![w] = j]
    /\ j.left <= worker[w].left /\ j.tries <= FetchRetry
    /\ j.pc # "idle" => j.left > 0 /\ j.tries > 0
    /\ Sends(w, j) /\ Hears(w) /\ Counts(w)
    /\ UNCHANGED managerVars
    /\ grants' \subseteq GrantRecord

LEMMA PlacesTyped ==
    ASSUME TypesHold, NEW w \in Workers
    PROVE  /\ worker[w] \in WorkerRecord /\ calls[w] \in Seq(CallRecord)
           /\ replies[w] \in Seq(ReplyRecord)
           /\ replies[w] # <<>> => Reply(w) \in ReplyRecord
BY HeadTailProperties DEF TypesHold, Reply

LEMMA GrantsTyped ==
    ASSUME LockInvariant
    PROVE  \A g \in grants : g.time \in Int /\ g.delay \in Nat
BY DEF LockInvariant, TypesHold, GrantRecord

LEMMA CallsTyped ==
    /\ \A t \in Past : Call("set", t) \in CallRecord
    /\ Call("acquire", 0) \in CallRecord /\ Call("get", 0) \in CallRecord
    /\ Call("release", 0) \in CallRecord
BY DEF Call, CallRecord, Methods, Past

\* What becomes of a worker's local variables, field by field.
LEMMA TriesTyped ==
    ASSUME NEW j \in WorkerRecord, NEW k \in Nat
    PROVE  /\ [j EXCEPT !.tries = k] \in WorkerRecord
           /\ [j EXCEPT !.tries = k].tries = k
           /\ [j EXCEPT !.tries = k].left = j.left
BY DEF WorkerRecord

LEMMA FreshTyped ==
    ASSUME NEW j \in WorkerRecord, NEW pc \in Places \cup {"idle"}, NEW k \in Nat
    PROVE  /\ [Fresh(j) EXCEPT !.pc = pc] \in WorkerRecord
           /\ [Fresh(j) EXCEPT !.pc = pc].pc = pc
           /\ [Fresh(j) EXCEPT !.pc = pc].left = j.left
           /\ [Fresh(j) EXCEPT !.pc = pc].tries = j.tries
           /\ [j EXCEPT !.tries = k] \in WorkerRecord
           /\ [j EXCEPT !.tries = k].tries = k
           /\ [j EXCEPT !.tries = k].left = j.left
<1>1. 0 \in Past
    BY DEF Past
<1>2. Fresh(j) = [pc |-> "idle", now |-> 0, elapsed |-> 0, wake |-> 0, then |-> "loop",
                  tries |-> j.tries, left |-> j.left]
    BY DEF Fresh, Resting
<1>3. [Fresh(j) EXCEPT !.pc = pc] =
          [pc |-> pc, now |-> 0, elapsed |-> 0, wake |-> 0, then |-> "loop",
           tries |-> j.tries, left |-> j.left]
    BY <1>2
<1>4. [Fresh(j) EXCEPT !.pc = pc] \in WorkerRecord
    BY <1>1, <1>3 DEF WorkerRecord
<1>5. [j EXCEPT !.tries = k] \in WorkerRecord
    BY DEF WorkerRecord
<1> QED
    BY <1>3, <1>4, <1>5 DEF WorkerRecord

\* A worker is the record of its fields.
LEMMA WorkerIs ==
    ASSUME NEW j \in WorkerRecord
    PROVE  j = [pc |-> j.pc, now |-> j.now, elapsed |-> j.elapsed, wake |-> j.wake,
                then |-> j.then, tries |-> j.tries, left |-> j.left]
BY DEF WorkerRecord

\* One of the variables is set.
LEMMA PcSet ==
    ASSUME NEW j \in WorkerRecord, NEW x \in Places \cup {"idle"}
    PROVE  /\ [j EXCEPT !.pc = x] \in WorkerRecord
           /\ [j EXCEPT !.pc = x].pc = x
           /\ [j EXCEPT !.pc = x].now = j.now
           /\ [j EXCEPT !.pc = x].elapsed = j.elapsed
           /\ [j EXCEPT !.pc = x].wake = j.wake
           /\ [j EXCEPT !.pc = x].then = j.then
           /\ [j EXCEPT !.pc = x].tries = j.tries
           /\ [j EXCEPT !.pc = x].left = j.left
BY DEF WorkerRecord

LEMMA NowSet ==
    ASSUME NEW j \in WorkerRecord, NEW x \in Past
    PROVE  /\ [j EXCEPT !.now = x] \in WorkerRecord
           /\ [j EXCEPT !.now = x].pc = j.pc
           /\ [j EXCEPT !.now = x].now = x
           /\ [j EXCEPT !.now = x].elapsed = j.elapsed
           /\ [j EXCEPT !.now = x].wake = j.wake
           /\ [j EXCEPT !.now = x].then = j.then
           /\ [j EXCEPT !.now = x].tries = j.tries
           /\ [j EXCEPT !.now = x].left = j.left
BY DEF WorkerRecord

LEMMA ElapsedSet ==
    ASSUME NEW j \in WorkerRecord, NEW x \in Int
    PROVE  /\ [j EXCEPT !.elapsed = x] \in WorkerRecord
           /\ [j EXCEPT !.elapsed = x].pc = j.pc
           /\ [j EXCEPT !.elapsed = x].now = j.now
           /\ [j EXCEPT !.elapsed = x].elapsed = x
           /\ [j EXCEPT !.elapsed = x].wake = j.wake
           /\ [j EXCEPT !.elapsed = x].then = j.then
           /\ [j EXCEPT !.elapsed = x].tries = j.tries
           /\ [j EXCEPT !.elapsed = x].left = j.left
BY DEF WorkerRecord

LEMMA WakeSet ==
    ASSUME NEW j \in WorkerRecord, NEW x \in Int
    PROVE  /\ [j EXCEPT !.wake = x] \in WorkerRecord
           /\ [j EXCEPT !.wake = x].pc = j.pc
           /\ [j EXCEPT !.wake = x].now = j.now
           /\ [j EXCEPT !.wake = x].elapsed = j.elapsed
           /\ [j EXCEPT !.wake = x].wake = x
           /\ [j EXCEPT !.wake = x].then = j.then
           /\ [j EXCEPT !.wake = x].tries = j.tries
           /\ [j EXCEPT !.wake = x].left = j.left
BY DEF WorkerRecord

LEMMA ThenSet ==
    ASSUME NEW j \in WorkerRecord, NEW x \in {"loop", "return", "raise"}
    PROVE  /\ [j EXCEPT !.then = x] \in WorkerRecord
           /\ [j EXCEPT !.then = x].pc = j.pc
           /\ [j EXCEPT !.then = x].now = j.now
           /\ [j EXCEPT !.then = x].elapsed = j.elapsed
           /\ [j EXCEPT !.then = x].wake = j.wake
           /\ [j EXCEPT !.then = x].then = x
           /\ [j EXCEPT !.then = x].tries = j.tries
           /\ [j EXCEPT !.then = x].left = j.left
BY DEF WorkerRecord

LEMMA ReleaseTyped ==
    ASSUME NEW j \in WorkerRecord, NEW then \in {"loop", "return", "raise"}
    PROVE  LET q == [j EXCEPT !.then = then, !.elapsed = 0, !.wake = 0]
               r == [[j EXCEPT !.then = then, !.elapsed = 0, !.wake = 0] EXCEPT !.pc = "release"]
           IN  /\ q \in WorkerRecord /\ q.left = j.left /\ q.tries = j.tries
               /\ r \in WorkerRecord /\ r.pc = "release" /\ r.then = then
               /\ r.left = j.left /\ r.tries = j.tries /\ r.now = j.now
<1> DEFINE a == [j EXCEPT !.then = then]
           b == [a EXCEPT !.elapsed = 0]
           c == [b EXCEPT !.wake = 0]
           d == [c EXCEPT !.pc = "release"]
<1>0. 0 \in Int /\ "release" \in Places \cup {"idle"}
    BY DEF Places
<1>1. a \in WorkerRecord /\ a.then = then /\ a.left = j.left /\ a.tries = j.tries /\ a.now = j.now
    BY ThenSet
<1> HIDE DEF a
<1>2. b \in WorkerRecord /\ b.then = then /\ b.left = j.left /\ b.tries = j.tries /\ b.now = j.now
    BY <1>0, <1>1, ElapsedSet, Zenon
<1> HIDE DEF b
<1>3. c \in WorkerRecord /\ c.then = then /\ c.left = j.left /\ c.tries = j.tries /\ c.now = j.now
    BY <1>0, <1>2, WakeSet, Zenon
<1> HIDE DEF c
<1>4. /\ d \in WorkerRecord /\ d.pc = "release" /\ d.then = then
      /\ d.left = j.left /\ d.tries = j.tries /\ d.now = j.now
    BY <1>0, <1>3 DEF WorkerRecord
<1>5. /\ [j EXCEPT !.then = then, !.elapsed = 0, !.wake = 0] = c
      /\ [[j EXCEPT !.then = then, !.elapsed = 0, !.wake = 0] EXCEPT !.pc = "release"] = d
    BY Zenon DEF a, b, c, d
<1> QED
    BY <1>3, <1>4, <1>5, Zenon

LEMMA RestingTyped ==
    ASSUME NEW left \in Nat
    PROVE  /\ Resting(left) \in WorkerRecord /\ Resting(left).pc = "idle"
           /\ Resting(left).left = left /\ Resting(left).tries = 0
<1>1. 0 \in Past
    BY DEF Past
<1> QED
    BY <1>1 DEF Resting, WorkerRecord

\* A worker acquires the lock for a request.
LEMMA AcquireMoves ==
    ASSUME LockInvariant, NEW w \in Workers, NEW j \in WorkerRecord,
           Acquire(w, j), j.left = worker[w].left, j.left > 0, j.tries \in 1..FetchRetry,
           worker[w].pc \in {"idle", "release", "request"},
           Hears(w), Counts(w), UNCHANGED managerVars, grants' \subseteq GrantRecord
    PROVE  \E k : Moves(w, k)
<1> DEFINE k == [Fresh(j) EXCEPT !.pc = "acquire"]
<1>1. /\ worker' = [worker EXCEPT ![w] = k]
      /\ calls' = [calls EXCEPT ![w] = Append(@, Call("acquire", 0))]
    BY DEF Acquire, Calls, Becomes
<1>2. "acquire" \in Places \cup {"idle"}
    BY DEF Places
<1>3. k \in WorkerRecord /\ k.left = j.left /\ k.tries = j.tries /\ k.pc = "acquire"
    BY <1>2, FreshTyped DEF WorkerRecord
<1> HIDE DEF k
<1>4. Sends(w, k)
    BY <1>1, <1>3, CallsTyped DEF Sends, Busy, Call
<1>5. k.left <= worker[w].left /\ k.tries <= FetchRetry /\ k.left > 0 /\ k.tries > 0
    BY <1>3, RateAssumption DEF WorkerRecord
<1>6. Moves(w, k)
    BY <1>1, <1>3, <1>4, <1>5 DEF Moves
<1> QED
    BY <1>6

LEMMA DownloadMoves ==
    ASSUME LockInvariant, NEW w \in Workers, Download(w)
    PROVE  \E j : Moves(w, j)
<1> DEFINE j == [worker[w] EXCEPT !.tries = 1]
<1>1. worker[w] \in WorkerRecord
    BY PlacesTyped DEF LockInvariant
<1>2. j \in WorkerRecord /\ j.left = worker[w].left /\ j.tries = 1
    BY <1>1, FreshTyped DEF WorkerRecord
<1>3. /\ Acquire(w, j) /\ worker[w].pc = "idle" /\ worker[w].left > 0
      /\ UNCHANGED <<replies, alarms, torn, grants>> /\ UNCHANGED managerVars
    BY DEF Download, At, LocalUnchanged
<1>4. Hears(w) /\ Counts(w)
    BY <1>3, BusyWaits DEF Hears, Counts, Busy
<1>5. grants' \subseteq GrantRecord
    BY <1>3 DEF LockInvariant, TypesHold
<1> HIDE DEF j
<1> QED
    BY <1>2, <1>3, <1>4, <1>5, AcquireMoves, RateAssumption

\* A worker between acquire and release calls.
LEMMA CallMoves ==
    ASSUME LockInvariant, NEW w \in Workers, NEW j \in WorkerRecord, NEW pc \in Busy \ {"acquire"},
           NEW c \in CallRecord, Calls(w, j, pc, c), j.left = worker[w].left, j.tries = worker[w].tries,
           worker[w].pc \in Within, c.method # "acquire", pc = "release" <=> c.method = "release",
           Hears(w), Counts(w), UNCHANGED managerVars, grants' = grants
    PROVE  \E k : Moves(w, k)
<1> DEFINE k == [j EXCEPT !.pc = pc]
<1>1. /\ worker' = [worker EXCEPT ![w] = k]
      /\ calls' = [calls EXCEPT ![w] = Append(@, c)]
    BY DEF Calls, Becomes
<1>0. pc \in Places \cup {"idle"}
    BY DEF Busy, Places
<1>2. k \in WorkerRecord /\ k.pc = pc /\ k.left = j.left /\ k.tries = j.tries
    BY <1>0, PcSet, Zenon
<1> HIDE DEF k
<1>3. Sends(w, k)
    BY <1>1, <1>2 DEF Sends
<1>4. worker[w].left > 0 /\ worker[w].tries > 0 /\ worker[w].tries <= FetchRetry
    BY DEF LockInvariant, TriesCounted, Within
<1>5. k.left <= worker[w].left /\ k.tries <= FetchRetry /\ k.left > 0 /\ k.tries > 0
    BY <1>2, <1>4 DEF WorkerRecord
<1>6. grants' \subseteq GrantRecord
    BY DEF LockInvariant, TypesHold
<1>7. Moves(w, k)
    BY <1>1, <1>2, <1>3, <1>5, <1>6 DEF Moves
<1> QED
    BY <1>7

LEMMA ReleaseMoves ==
    ASSUME LockInvariant, NEW w \in Workers, NEW then \in {"loop", "return", "raise"},
           Release(w, worker[w], then), worker[w].pc \in Within,
           Hears(w), Counts(w), UNCHANGED managerVars, grants' = grants
    PROVE  \E k : Moves(w, k)
<1> DEFINE j == [worker[w] EXCEPT !.then = then, !.elapsed = 0, !.wake = 0]
<1>1. worker[w] \in WorkerRecord
    BY PlacesTyped DEF LockInvariant
<1>2. j \in WorkerRecord /\ j.left = worker[w].left /\ j.tries = worker[w].tries
    BY <1>1, ReleaseTyped
<1>3. Calls(w, j, "release", Call("release", 0))
    BY DEF Release
<1> HIDE DEF j
<1>4. /\ Call("release", 0) \in CallRecord /\ Call("release", 0).method = "release"
      /\ "release" \in Busy \ {"acquire"}
    BY CallsTyped DEF Call, Busy
<1> QED
    BY <1>2, <1>3, <1>4, CallMoves

\* A download ends.
LEMMA RestingMoves ==
    ASSUME LockInvariant, NEW w \in Workers, GiveUp(w), calls' = calls, worker[w].pc # "idle",
           worker[w].pc \in Within => "acquire" \in torn',
           Hears(w), Counts(w), UNCHANGED managerVars, grants' = grants
    PROVE  \E k : Moves(w, k)
<1> DEFINE k == Resting(worker[w].left - 1)
<1>1. worker[w] \in WorkerRecord
    BY PlacesTyped DEF LockInvariant
<1>2. worker[w].left \in Nat /\ worker[w].left > 0
    BY <1>1 DEF LockInvariant, TriesCounted, WorkerRecord
<1>3. k \in WorkerRecord /\ k.pc = "idle" /\ k.left = worker[w].left - 1 /\ k.tries = 0
    BY <1>2, RestingTyped
<1>4. worker' = [worker EXCEPT ![w] = k]
    BY DEF GiveUp, Becomes
<1> HIDE DEF k
<1>5. Sends(w, k)
    BY <1>3 DEF Sends, Busy
<1>6. k.left <= worker[w].left /\ k.tries <= FetchRetry
    BY <1>2, <1>3, RateAssumption
<1>7. grants' \subseteq GrantRecord
    BY DEF LockInvariant, TypesHold
<1>8. Moves(w, k)
    BY <1>3, <1>4, <1>5, <1>6, <1>7 DEF Moves
<1> QED
    BY <1>8

\* A worker that waits for a reply reads one.
LEMMA ReadsHeard ==
    ASSUME NEW w \in Workers, NEW pc \in Busy, Reads(w, pc), UNCHANGED <<alarms, torn>>
    PROVE  Hears(w) /\ Counts(w) /\ worker[w].pc = pc
BY BusyWaits DEF Reads, At, Hears, Counts

LEMMA LockedMoves ==
    ASSUME LockInvariant, NEW w \in Workers, Locked(w)
    PROVE  \E j : Moves(w, j)
<1> DEFINE j == [worker[w] EXCEPT !.now = 0]
<1>1. worker[w] \in WorkerRecord /\ 0 \in Past
    BY PlacesTyped DEF LockInvariant, Past
<1>2. /\ Hears(w) /\ Counts(w) /\ worker[w].pc \in Within
    BY ReadsHeard DEF Locked, Busy, Within, LocalUnchanged
<1>3. j \in WorkerRecord /\ j.left = worker[w].left /\ j.tries = worker[w].tries
    BY <1>1, NowSet
<1> HIDE DEF j
<1>6. Calls(w, j, "elapsed", Call("get", 0)) /\ UNCHANGED managerVars /\ grants' = grants
    BY DEF Locked, LocalUnchanged, j
<1>7. /\ Call("get", 0) \in CallRecord /\ Call("get", 0).method = "get"
      /\ "elapsed" \in Busy \ {"acquire"}
    BY CallsTyped DEF Call, Busy
<1> QED
    BY <1>2, <1>3, <1>6, <1>7, CallMoves

LEMMA ElapsedMoves ==
    ASSUME LockInvariant, NEW w \in Workers, Elapsed(w)
    PROVE  \E j : Moves(w, j)
<1>1. worker[w] \in WorkerRecord /\ worker[w].now \in Int
    BY PlacesTyped DEF LockInvariant, WorkerRecord, Past
<1>2. /\ Hears(w) /\ Counts(w) /\ worker[w].pc \in Within
      /\ UNCHANGED managerVars /\ grants' = grants /\ replies[w] # <<>>
    BY ReadsHeard DEF Elapsed, Busy, Within, LocalUnchanged, Reads
<1>3. CASE Reply(w).kind = "none"
    <2>1. Release(w, worker[w], "raise")
        BY <1>3 DEF Elapsed
    <2> QED
        BY <1>2, <2>1, ReleaseMoves
<1>4. CASE Reply(w).kind # "none"
    <2> DEFINE e == IF Reply(w).kind = "true" THEN MaxLag ELSE worker[w].now - Reply(w).time
               j == [worker[w] EXCEPT !.elapsed = e]
    <2>1. Reply(w) \in ReplyRecord
        BY <1>2, PlacesTyped DEF LockInvariant
    <2>2. e \in Int
        BY <1>1, <2>1, ThrottlerBounds DEF ReplyRecord, Past
    <2>3. Calls(w, j, "logged", Call("get", 0))
        BY <1>4 DEF Elapsed
    <2> HIDE DEF e
    <2>4. j \in WorkerRecord /\ j.left = worker[w].left /\ j.tries = worker[w].tries
        BY <1>1, <2>2, ElapsedSet, Zenon
    <2>5. /\ Call("get", 0) \in CallRecord /\ Call("get", 0).method = "get"
          /\ "logged" \in Busy \ {"acquire"}
        BY CallsTyped DEF Call, Busy
    <2> HIDE DEF j
    <2> QED
        BY <1>2, <2>3, <2>4, <2>5, CallMoves
<1> QED
    BY <1>3, <1>4

LEMMA LoggedMoves ==
    ASSUME LockInvariant, NEW w \in Workers, Logged(w)
    PROVE  \E j : Moves(w, j)
<1>1. worker[w] \in WorkerRecord /\ worker[w].now \in Past
    BY PlacesTyped DEF LockInvariant, WorkerRecord
<1>2. /\ Hears(w) /\ Counts(w) /\ worker[w].pc = "logged" /\ worker[w].pc \in Within
      /\ UNCHANGED managerVars /\ grants' = grants
    BY ReadsHeard DEF Logged, Busy, Within, LocalUnchanged
<1>3. CASE EnoughElapsed(worker[w].elapsed)
    <2> DEFINE j == [worker[w] EXCEPT !.elapsed = 0]
    <2>1. Calls(w, j, "set", Call("set", worker[w].now))
        BY <1>3 DEF Logged
    <2>2. 0 \in Int
        OBVIOUS
    <2>3. j \in WorkerRecord /\ j.left = worker[w].left /\ j.tries = worker[w].tries
        BY <1>1, <2>2, ElapsedSet, Zenon
    <2>4. /\ Call("set", worker[w].now) \in CallRecord /\ Call("set", worker[w].now).method = "set"
          /\ "set" \in Busy \ {"acquire"}
        BY <1>1, CallsTyped DEF Call, Busy
    <2> HIDE DEF j
    <2> QED
        BY <1>2, <2>1, <2>3, <2>4, CallMoves
<1>4. CASE ~ EnoughElapsed(worker[w].elapsed)
    <2> DEFINE k == [Fresh(worker[w]) EXCEPT !.pc = "sleep"]
               j == [k EXCEPT !.wake = Interval]
    <2>1. "sleep" \in Places \cup {"idle"} /\ Interval \in Int
        BY RateAssumption DEF Places
    <2>2. k \in WorkerRecord /\ k.pc = "sleep" /\ k.left = worker[w].left /\ k.tries = worker[w].tries
        BY <1>1, <2>1, FreshTyped DEF WorkerRecord
    <2>3. j = [Fresh(worker[w]) EXCEPT !.pc = "sleep", !.wake = Interval]
        BY Zenon
    <2>4. worker' = [worker EXCEPT ![w] = j] /\ calls' = calls
        BY <1>4, <2>3 DEF Logged, Becomes
    <2> HIDE DEF k
    <2>5. j \in WorkerRecord /\ j.pc = "sleep" /\ j.left = worker[w].left /\ j.tries = worker[w].tries
        BY <2>1, <2>2, WakeSet, Zenon
    <2> HIDE DEF j
    <2>6. Sends(w, j)
        BY <1>2, <2>4, <2>5 DEF Sends, Busy
    <2>7. worker[w].left > 0 /\ worker[w].tries > 0 /\ worker[w].tries <= FetchRetry
        BY <1>2 DEF LockInvariant, TriesCounted
    <2>8. j.left <= worker[w].left /\ j.tries <= FetchRetry /\ j.left > 0 /\ j.tries > 0
        BY <1>1, <2>5, <2>7 DEF WorkerRecord
    <2>9. grants' \subseteq GrantRecord
        BY <1>2 DEF LockInvariant, TypesHold
    <2>10. Moves(w, j)
        BY <1>2, <2>4, <2>5, <2>6, <2>8, <2>9 DEF Moves
    <2> QED
        BY <2>10
<1> QED
    BY <1>3, <1>4

LEMMA WakeUpMoves ==
    ASSUME LockInvariant, NEW w \in Workers, WakeUp(w)
    PROVE  \E j : Moves(w, j)
<1>1. /\ worker[w].pc = "sleep" /\ Release(w, worker[w], "loop")
      /\ UNCHANGED <<replies, alarms, torn, grants>> /\ UNCHANGED managerVars
    BY DEF WakeUp, At, LocalUnchanged
<1>2. Hears(w) /\ Counts(w) /\ worker[w].pc \in Within
    BY <1>1, BusyWaits DEF Hears, Counts, Busy, Within
<1> QED
    BY <1>1, <1>2, ReleaseMoves

LEMMA GrantedMoves ==
    ASSUME LockInvariant, NEW w \in Workers, Granted(w)
    PROVE  \E j : Moves(w, j)
<1>1. /\ Hears(w) /\ Counts(w) /\ worker[w].pc \in Within
      /\ UNCHANGED managerVars /\ grants' = grants
    BY ReadsHeard DEF Granted, Busy, Within, LocalUnchanged
<1>2. Release(w, worker[w], "return")
    BY DEF Granted
<1> QED
    BY <1>1, <1>2, ReleaseMoves

LEMMA ReleasedMoves ==
    ASSUME LockInvariant, NEW w \in Workers, Released(w)
    PROVE  \E j : Moves(w, j)
<1>1. worker[w] \in WorkerRecord /\ worker[w].left \in Nat /\ worker[w].tries \in Nat
    BY PlacesTyped DEF LockInvariant, WorkerRecord
<1>2. Reads(w, "release") /\ UNCHANGED <<alarms, torn>> /\ UNCHANGED managerVars
    BY DEF Released
<1>3. Hears(w) /\ Counts(w) /\ worker[w].pc = "release"
    BY <1>2, ReadsHeard DEF Busy
<1>4. worker[w].left > 0 /\ worker[w].tries \in 1..FetchRetry
    BY <1>1, <1>3, RateAssumption DEF LockInvariant, TriesCounted
<1>5. CASE worker[w].then = "loop"
    <2>1. Acquire(w, worker[w]) /\ grants' = grants
        BY <1>5 DEF Released
    <2>2. grants' \subseteq GrantRecord
        BY <2>1 DEF LockInvariant, TypesHold
    <2> QED
        BY <1>1, <1>2, <1>3, <1>4, <2>1, <2>2, AcquireMoves
<1>6. CASE worker[w].then = "return"
    <2> DEFINE j == [Fresh(worker[w]) EXCEPT !.pc = "request"]
               g0 == [request |-> <<w, worker[w].left, worker[w].tries>>,
                      time |-> worker[w].now, delay |-> -worker[w].now]
    <2>1. worker' = [worker EXCEPT ![w] = j] /\ calls' = calls /\ grants' = grants \cup {g0}
        BY <1>6 DEF Released, Becomes
    <2>2. "request" \in Places \cup {"idle"}
        BY DEF Places
    <2>3. j \in WorkerRecord /\ j.pc = "request" /\ j.left = worker[w].left /\ j.tries = worker[w].tries
        BY <1>1, <2>2, FreshTyped
    <2>4. g0 \in GrantRecord
        <3>1. worker[w].now \in Int /\ -worker[w].now \in Nat
            BY <1>1 DEF WorkerRecord, Past
        <3> QED
            BY <1>1, <3>1 DEF GrantRecord
    <2> HIDE DEF j, g0
    <2>5. grants' \subseteq GrantRecord
        BY <2>1, <2>4 DEF LockInvariant, TypesHold
    <2>6. Sends(w, j)
        BY <1>3, <2>1, <2>3 DEF Sends, Busy, Within
    <2>7. Moves(w, j)
        BY <1>1, <1>2, <1>3, <1>4, <2>1, <2>3, <2>5, <2>6, RateAssumption DEF Moves
    <2> QED
        BY <2>7
<1> QED
    BY <1>5, <1>6 DEF Released

LEMMA ReraisesMoves ==
    ASSUME LockInvariant, NEW w \in Workers, Reraises(w)
    PROVE  \E j : Moves(w, j)
<1>1. /\ Hears(w) /\ Counts(w) /\ worker[w].pc = "release"
      /\ UNCHANGED managerVars /\ grants' = grants
    BY ReadsHeard DEF Reraises, LocalUnchanged, Busy
<1>2. GiveUp(w) /\ calls' = calls
    BY DEF Reraises
<1> QED
    BY <1>1, <1>2, RestingMoves DEF Within

LEMMA SwallowsMoves ==
    ASSUME LockInvariant, NEW w \in Workers, Swallows(w)
    PROVE  \E j : Moves(w, j)
<1>1. worker[w] \in WorkerRecord /\ worker[w].left \in Nat /\ worker[w].tries \in Nat
    BY PlacesTyped DEF LockInvariant, WorkerRecord
<1>2. /\ Hears(w) /\ Counts(w) /\ worker[w].pc = "release"
      /\ UNCHANGED managerVars /\ grants' = grants
    BY ReadsHeard DEF Swallows, LocalUnchanged, Busy
<1>3. worker[w].left > 0 /\ worker[w].tries \in 1..FetchRetry
    BY <1>1, <1>2, RateAssumption DEF LockInvariant, TriesCounted
<1>4. Acquire(w, worker[w]) /\ grants' \subseteq GrantRecord
    BY <1>2 DEF Swallows, LockInvariant, TypesHold
<1> QED
    BY <1>1, <1>2, <1>3, <1>4, AcquireMoves

LEMMA AnsweredMoves ==
    ASSUME LockInvariant, NEW w \in Workers, Answered(w)
    PROVE  \E j : Moves(w, j)
<1>1. /\ worker[w].pc = "request" /\ GiveUp(w)
      /\ UNCHANGED <<calls, replies, alarms, torn, grants>> /\ UNCHANGED managerVars
    BY DEF Answered, At, LocalUnchanged
<1>2. Hears(w) /\ Counts(w)
    BY <1>1, BusyWaits DEF Hears, Counts, Busy
<1> QED
    BY <1>1, <1>2, RestingMoves DEF Within

\* A request fails, for the last time or not.
LEMMA FailsMoves ==
    ASSUME LockInvariant, NEW w \in Workers, FailsOnce(w), worker[w].pc = "request",
           Hears(w), Counts(w), UNCHANGED managerVars, grants' = grants
    PROVE  \E j : Moves(w, j)
<1>1. worker[w] \in WorkerRecord /\ worker[w].left \in Nat /\ worker[w].tries \in Nat
    BY PlacesTyped DEF LockInvariant, WorkerRecord
<1>2. worker[w].left > 0 /\ worker[w].tries \in 1..FetchRetry
    BY <1>1, RateAssumption DEF LockInvariant, TriesCounted
<1>3. CASE LastTry(worker[w])
    <2>1. GiveUp(w) /\ calls' = calls
        BY <1>3 DEF FailsOnce
    <2> QED
        BY <2>1, RestingMoves DEF Within
<1>4. CASE ~ LastTry(worker[w])
    <2> DEFINE k == worker[w].tries + 1
               j == [worker[w] EXCEPT !.tries = k]
    <2>1. [worker[w] EXCEPT !.tries = @ + 1] = j
        OBVIOUS
    <2>2. Acquire(w, j)
        BY <1>4, <2>1 DEF FailsOnce
    <2>3. k \in Nat /\ k \in 1..FetchRetry
        BY <1>2, <1>4, RateAssumption DEF LastTry
    <2> HIDE DEF k
    <2>4. "idle" \in Places \cup {"idle"}
        OBVIOUS
    <2>5. j \in WorkerRecord /\ j.left = worker[w].left /\ j.tries = k
        BY <1>1, <2>3, TriesTyped, Zenon
    <2>6. grants' \subseteq GrantRecord
        BY DEF LockInvariant, TypesHold
    <2> HIDE DEF j
    <2> QED
        BY <1>2, <2>2, <2>3, <2>5, <2>6, AcquireMoves
<1> QED
    BY <1>3, <1>4

LEMMA RetryMoves ==
    ASSUME LockInvariant, NEW w \in Workers, Retry(w)
    PROVE  \E j : Moves(w, j)
<1>1. /\ worker[w].pc = "request" /\ FailsOnce(w)
      /\ UNCHANGED <<replies, alarms, torn, grants>> /\ UNCHANGED managerVars
    BY DEF Retry, At, LocalUnchanged
<1>2. Hears(w) /\ Counts(w)
    BY <1>1, BusyWaits DEF Hears, Counts, Busy
<1> QED
    BY <1>1, <1>2, FailsMoves

LEMMA AlarmMoves ==
    ASSUME LockInvariant, NEW w \in Workers, Alarm(w)
    PROVE  \E j : Moves(w, j)
<1>1. /\ worker[w].pc \in Places /\ alarms < MaxAlarms /\ alarms' = alarms + 1
      /\ torn' = torn \cup ({worker[w].pc} \ {"sleep", "request"})
      /\ UNCHANGED <<replies, grants>> /\ UNCHANGED managerVars
    BY AlarmAssumption DEF Alarm
<1>2. alarms' # alarms
    BY <1>1, ThrottlerBounds DEF LockInvariant, TypesHold
<1>3. Hears(w) /\ Counts(w)
    BY <1>1, <1>2 DEF Hears, Counts
<1>4. CASE worker[w].pc \in OutsideWith
    <2>1. GiveUp(w) /\ calls' = calls
        BY <1>4 DEF Alarm, OutsideWith
    <2>2. worker[w].pc # "idle" /\ (worker[w].pc \in Within => "acquire" \in torn')
        BY <1>1, <1>4 DEF OutsideWith, Within
    <2> QED
        BY <1>1, <1>3, <2>1, <2>2, RestingMoves
<1>5. CASE worker[w].pc = "request"
    <2>1. FailsOnce(w)
        BY <1>5 DEF Alarm, OutsideWith
    <2> QED
        BY <1>1, <1>3, <1>5, <2>1, FailsMoves
<1>6. CASE worker[w].pc \notin OutsideWith \cup {"request"}
    <2>1. Release(w, worker[w], "raise")
        BY <1>6 DEF Alarm, Unlocks
    <2>2. worker[w].pc \in Within
        BY <1>1, <1>6 DEF Within, Places, OutsideWith
    <2> QED
        BY <1>1, <1>3, <2>1, <2>2, ReleaseMoves
<1> QED
    BY <1>4, <1>5, <1>6

----------------------------------------------------------------------------
(* The lock *)

LEMMA InitLock == Init => LockInvariant
<1> SUFFICES ASSUME Init
             PROVE  LockInvariant
    OBVIOUS
<1>1. /\ <<>> \in Seq(CallRecord) /\ <<>> \in Seq(ReplyRecord) /\ Len(<<>>) = 0
    BY EmptySeq
<1>2. \A w \in Workers : Downloads[w] \in Nat
    BY ThrottlerBounds
<1>3. \A w \in Workers :
          /\ worker[w] \in WorkerRecord /\ worker[w].pc = "idle"
          /\ worker[w].left = Downloads[w] /\ worker[w].tries = 0
    BY <1>2, RestingTyped DEF Init
<1>4. TypesHold
    <2>1. worker \in [Workers -> WorkerRecord]
        BY <1>3 DEF Init
    <2>2. refill \in Past /\ grants \subseteq GrantRecord
        BY ThrottlerBounds DEF Init, Past
    <2>5. refilled \in BOOLEAN
        BY Zenon DEF Init
    <2>3. calls \in [Workers -> Seq(CallRecord)] /\ replies \in [Workers -> Seq(ReplyRecord)]
        BY <1>1 DEF Init
    <2>4. alarms \in 0..MaxAlarms
        BY ThrottlerBounds DEF Init
    <2> QED
        BY <2>1, <2>2, <2>3, <2>4, <2>5 DEF Init, TypesHold
<1>5. TriesCounted
    BY <1>2, <1>3, RateAssumption DEF TriesCounted
<1>6. BacklogBounded
    <2>1. \A w \in Workers : calls[w] = <<>> /\ replies[w] = <<>> /\ alarms = 0
        BY DEF Init
    <2>2. \A w \in Workers : ~ Waiting(w)
        BY <1>3, BusyWaits DEF Busy
    <2> SUFFICES ASSUME NEW w \in Workers
                 PROVE  Len(calls[w]) + Len(replies[w]) <= alarms + (IF Waiting(w) THEN 1 ELSE 0)
        BY DEF BacklogBounded
    <2>3. Len(calls[w]) = 0 /\ Len(replies[w]) = 0
        BY <1>1, <2>1
    <2>4. (IF Waiting(w) THEN 1 ELSE 0) = 0 /\ alarms = 0
        BY <2>1, <2>2
    <2> QED
        BY <2>3, <2>4
<1>7. \A w \in Workers : InOrder(calls[w], lock = w) /\ ~ Ready(calls[w], lock = w)
    <2>1. \A w \in Workers : lock # w /\ calls[w] = <<>>
        BY AlarmAssumption DEF Init
    <2>2. DOMAIN <<>> = {}
        OBVIOUS
    <2> QED
        BY <2>1, <2>2 DEF InOrder, Ready
<1> QED
    BY <1>3, <1>4, <1>5, <1>6, <1>7 DEF LockInvariant, CallsOrdered, LockGivenBack, Within

LEMMA MovesKeepTypes ==
    ASSUME LockInvariant, NEW w \in Workers, NEW j, Moves(w, j)
    PROVE  TypesHold' /\ TriesCounted'
<1>1. worker' \in [Workers -> WorkerRecord]
    BY DEF Moves, LockInvariant, TypesHold
<1>2. refill' \in Past /\ refilled' \in BOOLEAN /\ lock' \in Workers \cup {Nobody}
    BY DEF Moves, LockInvariant, TypesHold, managerVars
<1>3. calls' \in [Workers -> Seq(CallRecord)]
    <2>1. \A c \in CallRecord : Append(calls[w], c) \in Seq(CallRecord)
        BY PlacesTyped, AppendProperties DEF LockInvariant
    <2> QED
        BY <2>1 DEF Moves, Sends, LockInvariant, TypesHold
<1>4. replies' \in [Workers -> Seq(ReplyRecord)]
    <2>1. replies[w] # <<>> => Tail(replies[w]) \in Seq(ReplyRecord)
        BY PlacesTyped, HeadTailProperties DEF LockInvariant
    <2> QED
        BY <2>1 DEF Moves, Hears, LockInvariant, TypesHold
<1>5. alarms' \in 0..MaxAlarms /\ torn' \subseteq Places
    <2>1. alarms' \in 0..MaxAlarms
        BY ThrottlerBounds DEF Moves, Counts, LockInvariant, TypesHold
    <2>2. torn' \subseteq Places
        BY DEF Moves, Counts, LockInvariant, TypesHold
    <2> QED
        BY <2>1, <2>2
<1>6. TypesHold'
    BY <1>1, <1>2, <1>3, <1>4, <1>5 DEF TypesHold, Moves
<1>7. TriesCounted'
    <2> SUFFICES ASSUME NEW v \in Workers
                 PROVE  /\ worker'[v].left <= Downloads[v] /\ worker'[v].tries <= FetchRetry
                        /\ worker'[v].pc # "idle" => worker'[v].left > 0 /\ worker'[v].tries > 0
        BY DEF TriesCounted
    <2>1. worker[v] \in WorkerRecord /\ worker'[v] = IF v = w THEN j ELSE worker[v]
        BY DEF Moves, LockInvariant, TypesHold
    <2>2. CASE v = w
        <3>1. j.left \in Nat /\ worker[w].left \in Nat /\ Downloads[w] \in Nat
            BY <2>1, <2>2, ThrottlerBounds DEF Moves, WorkerRecord
        <3> QED
            BY <2>1, <2>2, <3>1 DEF Moves, LockInvariant, TriesCounted
    <2>3. CASE v # w
        BY <2>1, <2>3 DEF LockInvariant, TriesCounted
    <2> QED
        BY <2>2, <2>3
<1> QED
    BY <1>6, <1>7

LEMMA MovesKeepBacklog ==
    ASSUME LockInvariant, NEW w \in Workers, NEW j, Moves(w, j)
    PROVE  BacklogBounded'
<1> SUFFICES ASSUME NEW v \in Workers
             PROVE  Len(calls'[v]) + Len(replies'[v]) <= alarms' + (IF Waiting(v)' THEN 1 ELSE 0)
    BY DEF BacklogBounded
<1>1. /\ calls[v] \in Seq(CallRecord) /\ replies[v] \in Seq(ReplyRecord)
      /\ Len(calls[v]) \in Nat /\ Len(replies[v]) \in Nat /\ alarms \in Nat
    BY PlacesTyped, LenProperties, ThrottlerBounds DEF LockInvariant, TypesHold
<1>2. alarms' \in {alarms, alarms + 1}
    BY DEF Moves, Counts
<1>3. Len(calls[v]) + Len(replies[v]) <= alarms + (IF Waiting(v) THEN 1 ELSE 0)
    BY DEF LockInvariant, BacklogBounded
<1> DEFINE n == IF Waiting(v) THEN 1 ELSE 0
           m == IF Waiting(v)' THEN 1 ELSE 0
           c == Len(calls[v])
           d == Len(calls'[v])
           r == Len(replies[v])
           s == Len(replies'[v])
<1>4. /\ c \in Nat /\ r \in Nat /\ n \in {0, 1} /\ m \in {0, 1} /\ c + r <= alarms + n
      /\ alarms \in Nat /\ alarms' \in {alarms, alarms + 1}
    BY <1>1, <1>2, <1>3
<1>5. CASE v = w
    <2>1. m = IF j.pc \in Busy THEN 1 ELSE 0
        BY <1>5, BusyWaits DEF Moves, Waiting, Busy, Places, LockInvariant, TypesHold
    <2>2. calls'[w] = calls[w] \/ Len(calls'[w]) = Len(calls[w]) + 1
        BY <1>1, <1>5, AppendProperties DEF Moves, Sends, LockInvariant, TypesHold
    <2>3. j.pc \notin Busy => calls'[w] = calls[w]
        BY DEF Moves, Sends
    <2>4. d = c \/ (d = c + 1 /\ m = 1)
        BY <1>5, <2>1, <2>2, <2>3
    <2>5. n = 1 /\ alarms' = alarms => s = r - 1
        <3>1. replies[w] # <<>> => Len(Tail(replies[w])) = Len(replies[w]) - 1
            BY <1>1, <1>5, HeadTailProperties
        <3> QED
            BY <1>5, <3>1 DEF Moves, Hears, LockInvariant, TypesHold
    <2>6. ~ (n = 1 /\ alarms' = alarms) => s = r
        BY <1>5 DEF Moves, Hears
    <2> HIDE DEF n, m, c, d, r, s
    <2>7. d + s <= alarms' + m
        BY <1>4, <2>4, <2>5, <2>6
    <2> QED
        BY <2>7 DEF m, d, s
<1>6. CASE v # w
    <2>1. worker'[v] = worker[v] /\ calls'[v] = calls[v] /\ replies'[v] = replies[v]
        BY <1>6 DEF Moves, Sends, Hears, LockInvariant, TypesHold
    <2>2. m = n /\ d = c /\ s = r
        BY <2>1 DEF Waiting
    <2> HIDE DEF n, m, c, d, r, s
    <2>3. c + r <= alarms' + n
        <3>1. CASE alarms' = alarms
            BY <1>4, <3>1
        <3>2. CASE alarms' = alarms + 1
            BY <1>4, <3>2
        <3> QED
            BY <1>4, <3>1, <3>2
    <2>4. d + s <= alarms' + m
        BY <2>2, <2>3
    <2> QED
        BY <2>4 DEF m, d, s
<1> QED
    BY <1>5, <1>6

LEMMA MovesKeepOrder ==
    ASSUME LockInvariant, NEW w \in Workers, NEW j, Moves(w, j)
    PROVE  CallsOrdered' /\ LockGivenBack'
<1>1. lock' = lock /\ torn \subseteq torn'
    BY DEF Moves, Counts, managerVars
<1>2. ASSUME NEW v \in Workers, v # w
      PROVE  worker'[v] = worker[v] /\ calls'[v] = calls[v]
    BY <1>2 DEF Moves, Sends, LockInvariant, TypesHold
<1>3. worker'[w] = j /\ calls[w] \in Seq(CallRecord) /\ (lock = w) \in BOOLEAN
    BY DEF Moves, LockInvariant, TypesHold
<1>4. /\ InOrder(calls[w], lock = w)
      /\ worker[w].pc \in Within => Ready(calls[w], lock = w)
      /\ "acquire" \notin torn /\ worker[w].pc \notin Within => ~ Ready(calls[w], lock = w)
    BY DEF LockInvariant, CallsOrdered, LockGivenBack
<1>5. /\ InOrder(calls'[w], lock = w)
      /\ j.pc \in Within => Ready(calls'[w], lock = w)
      /\ "acquire" \notin torn' /\ j.pc \notin Within => ~ Ready(calls'[w], lock = w)
    <2>1. CASE calls' = calls /\ j.pc \notin Busy
        BY <1>1, <1>4, <2>1 DEF Moves, Sends, Within, Busy
    <2>2. CASE /\ j.pc \in Busy
               /\ \E c \in CallRecord :
                    /\ calls' = [calls EXCEPT ![w] = Append(@, c)]
                    /\ \/ j.pc = "acquire" /\ c.method = "acquire"
                       \/ /\ worker[w].pc \in Within /\ c.method # "acquire"
                          /\ j.pc = "release" <=> c.method = "release"
                          /\ j.pc # "acquire"
        <3>1. PICK c \in CallRecord :
                    /\ calls' = [calls EXCEPT ![w] = Append(@, c)]
                    /\ \/ j.pc = "acquire" /\ c.method = "acquire"
                       \/ /\ worker[w].pc \in Within /\ c.method # "acquire"
                          /\ j.pc = "release" <=> c.method = "release"
                          /\ j.pc # "acquire"
            BY <2>2
        <3>2. calls'[w] = Append(calls[w], c)
            BY <3>1 DEF LockInvariant, TypesHold
        <3>3. CASE c.method = "acquire"
            <4>1. InOrder(calls'[w], lock = w) /\ Ready(calls'[w], lock = w)
                BY <1>3, <1>4, <3>2, <3>3, AcquireInOrder
            <4> QED
                BY <3>1, <3>3, <4>1 DEF Within
        <3>4. CASE c.method # "acquire"
            <4>1. /\ InOrder(calls'[w], lock = w)
                  /\ Ready(calls'[w], lock = w) <=> c.method # "release"
                BY <1>3, <1>4, <3>1, <3>2, <3>4, OtherInOrder
            <4> QED
                BY <2>2, <3>1, <3>4, <4>1 DEF Within, Busy
        <3> QED
            BY <3>3, <3>4
    <2> QED
        BY <2>1, <2>2 DEF Moves, Sends
<1>6. CallsOrdered'
    BY <1>1, <1>2, <1>3, <1>5 DEF CallsOrdered, LockInvariant
<1>7. LockGivenBack'
    BY <1>1, <1>2, <1>3, <1>5 DEF LockGivenBack, LockInvariant
<1> QED
    BY <1>6, <1>7

\* What serving a call of w changes.
LEMMA ServeEffect ==
    ASSUME LockInvariant, NEW w \in Workers, Serve(w)
    PROVE  /\ calls[w] # <<>> /\ Head(calls[w]) \in CallRecord
           /\ calls' = [calls EXCEPT ![w] = Tail(@)]
           /\ \E r \in ReplyRecord : replies' = [replies EXCEPT ![w] = Append(@, r)]
           /\ Head(calls[w]).method # "acquire" => lock = w
           /\ Head(calls[w]).method = "acquire" => lock = Nobody /\ lock' = w
           /\ Head(calls[w]).method = "release" => lock' = Nobody
           /\ Head(calls[w]).method \notin {"acquire", "release"} => lock' = lock
           /\ Head(calls[w]).method \in Methods
           /\ refill' \in Past /\ refilled' \in BOOLEAN
           /\ UNCHANGED <<worker, grants, alarms, torn>>
<1> DEFINE call == Head(calls[w])
<1>1. /\ calls[w] \in Seq(CallRecord) /\ calls[w] # <<>> /\ InOrder(calls[w], lock = w)
      /\ (lock = w) \in BOOLEAN
    BY PlacesTyped DEF Serve, LockInvariant, CallsOrdered
<1>2. call \in CallRecord
    BY <1>1, HeadTailProperties
<1>3. call.method # "acquire" => lock = w
    BY <1>1, TailInOrder
<1>4. call.method \in Methods /\ call.time \in Past
    BY <1>2 DEF CallRecord
<1>5. True \in ReplyRecord /\ None \in ReplyRecord /\ LastRefill \in ReplyRecord
    <2>1. 0 \in Past
        BY DEF Past
    <2> QED
        BY <2>1 DEF LockInvariant, TypesHold, True, None, LastRefill, ReplyRecord
<1>6. \E r \in ReplyRecord : replies' = [replies EXCEPT ![w] = Append(@, r)]
    BY <1>5 DEF Serve
<1>7. refill' \in Past /\ refilled' \in BOOLEAN
    BY <1>4 DEF Serve, LockInvariant, TypesHold, managerVars
<1>8. /\ call.method = "acquire" => lock = Nobody /\ lock' = w
      /\ call.method = "release" => lock' = Nobody
      /\ call.method \notin {"acquire", "release"} => lock' = lock
    BY <1>4 DEF Serve, Methods, managerVars
<1> QED
    BY <1>1, <1>2, <1>3, <1>4, <1>6, <1>7, <1>8 DEF Serve

LEMMA ServeKeepsTypes ==
    ASSUME LockInvariant, NEW w \in Workers, Serve(w)
    PROVE  TypesHold' /\ TriesCounted' /\ BacklogBounded'
<1>1. PICK r \in ReplyRecord : replies' = [replies EXCEPT ![w] = Append(@, r)]
    BY ServeEffect
<1>2. calls[w] # <<>> /\ calls' = [calls EXCEPT ![w] = Tail(@)]
    BY ServeEffect
<1>3. /\ calls[w] \in Seq(CallRecord) /\ replies[w] \in Seq(ReplyRecord)
      /\ Tail(calls[w]) \in Seq(CallRecord) /\ Append(replies[w], r) \in Seq(ReplyRecord)
      /\ Len(Tail(calls[w])) = Len(calls[w]) - 1
      /\ Len(Append(replies[w], r)) = Len(replies[w]) + 1
      /\ Len(calls[w]) \in Nat /\ Len(replies[w]) \in Nat
    BY <1>2, PlacesTyped, HeadTailProperties, AppendProperties, LenProperties DEF LockInvariant
<1>4. lock' \in {lock, w, Nobody} /\ refill' \in Past /\ refilled' \in BOOLEAN
    BY ServeEffect DEF Methods
<1>5. UNCHANGED <<worker, grants, alarms, torn>>
    BY ServeEffect
<1>6. TypesHold'
    BY <1>1, <1>2, <1>3, <1>4, <1>5 DEF LockInvariant, TypesHold
<1>7. TriesCounted'
    BY <1>5 DEF LockInvariant, TriesCounted
<1>8. ASSUME NEW v \in Workers
      PROVE  Len(calls'[v]) + Len(replies'[v]) = Len(calls[v]) + Len(replies[v])
    <2>1. CASE v = w
        <3>1. calls'[v] = Tail(calls[v]) /\ replies'[v] = Append(replies[v], r)
            BY <1>1, <1>2, <2>1 DEF LockInvariant, TypesHold
        <3>2. Len(calls'[v]) = Len(calls[v]) - 1 /\ Len(replies'[v]) = Len(replies[v]) + 1
            BY <1>3, <2>1, <3>1
        <3> DEFINE c == Len(calls[v])
                   s == Len(replies[v])
        <3>3. c \in Nat /\ s \in Nat /\ Len(calls'[v]) = c - 1 /\ Len(replies'[v]) = s + 1
            BY <1>3, <2>1, <3>2
        <3> HIDE DEF c, s
        <3>4. Len(calls'[v]) + Len(replies'[v]) = c + s
            BY <3>3
        <3> QED
            BY <3>4 DEF c, s
    <2>2. CASE v # w
        BY <1>1, <1>2, <2>2 DEF LockInvariant, TypesHold
    <2> QED
        BY <2>1, <2>2
<1>9. \A v \in Workers : Waiting(v)' <=> Waiting(v)
    BY <1>5 DEF Waiting
<1>10. BacklogBounded'
    BY <1>5, <1>8, <1>9 DEF LockInvariant, BacklogBounded
<1> QED
    BY <1>6, <1>7, <1>10

LEMMA ServeKeepsOrder ==
    ASSUME LockInvariant, NEW w \in Workers, Serve(w)
    PROVE  CallsOrdered' /\ LockGivenBack'
<1> DEFINE call == Head(calls[w])
<1>1. UNCHANGED <<worker, grants, alarms, torn>> /\ calls'[w] = Tail(calls[w])
    BY ServeEffect DEF LockInvariant, TypesHold
<1>2. (lock' = w) <=> HeldBehind(call, lock = w)
    <2>1. CASE call.method = "acquire"
        BY <2>1, ServeEffect DEF HeldBehind
    <2>2. CASE call.method = "release"
        BY <2>2, ServeEffect, AlarmAssumption DEF HeldBehind
    <2>3. CASE call.method \notin {"acquire", "release"}
        BY <2>3, ServeEffect DEF HeldBehind
    <2> QED
        BY <2>1, <2>2, <2>3
<1>3. /\ calls[w] \in Seq(CallRecord) /\ calls[w] # <<>> /\ InOrder(calls[w], lock = w)
      /\ (lock = w) \in BOOLEAN
    BY PlacesTyped DEF Serve, LockInvariant, CallsOrdered
<1>4. /\ InOrder(calls'[w], lock' = w)
      /\ Ready(calls'[w], lock' = w) <=> Ready(calls[w], lock = w)
    <2>1. (lock' = w) = HeldBehind(call, lock = w)
        BY <1>2 DEF HeldBehind
    <2> QED
        BY <1>1, <1>3, <2>1, TailInOrder
<1>5. ASSUME NEW v \in Workers, v # w
      PROVE  /\ calls'[v] = calls[v]
             /\ InOrder(calls[v], lock = v) => InOrder(calls[v], lock' = v)
             /\ Ready(calls[v], lock' = v) <=> Ready(calls[v], lock = v)
    <2>1. (lock' = v) <=> (lock = v)
        BY <1>5, ServeEffect, AlarmAssumption DEF Methods
    <2>2. (lock' = v) = (lock = v)
        BY <2>1
    <2> QED
        BY <1>5, <2>2, ServeEffect DEF LockInvariant, TypesHold
<1>6. CallsOrdered'
    BY <1>1, <1>4, <1>5 DEF CallsOrdered, LockInvariant
<1>7. LockGivenBack'
    BY <1>1, <1>4, <1>5 DEF LockGivenBack, LockInvariant
<1> QED
    BY <1>6, <1>7

\* Time passes: everything stays where it is.
LEMMA OlderTyped ==
    /\ \A c \in CallRecord :
            Older(c) \in CallRecord /\ Older(c).method = c.method /\ Older(c).time = c.time - 1
    /\ \A r \in ReplyRecord :
            Older(r) \in ReplyRecord /\ Older(r).kind = r.kind /\ Older(r).time = r.time - 1
    /\ \A g \in GrantRecord :
            Older(g) \in GrantRecord /\ Older(g).time = g.time - 1 /\ Older(g).delay = g.delay
    /\ \A t \in Past : t - 1 \in Past
<1>1. \A t \in Past : t - 1 \in Past
    BY DEF Past
<1>2. ASSUME NEW c \in CallRecord
      PROVE  Older(c) \in CallRecord /\ Older(c).method = c.method /\ Older(c).time = c.time - 1
    <2>1. c.time - 1 \in Past
        BY <1>1 DEF CallRecord
    <2> QED
        BY <2>1 DEF Older, CallRecord
<1>3. ASSUME NEW r \in ReplyRecord
      PROVE  Older(r) \in ReplyRecord /\ Older(r).kind = r.kind /\ Older(r).time = r.time - 1
    <2>1. r.time - 1 \in Past
        BY <1>1 DEF ReplyRecord
    <2> QED
        BY <2>1 DEF Older, ReplyRecord
<1>4. ASSUME NEW g \in GrantRecord
      PROVE  Older(g) \in GrantRecord /\ Older(g).time = g.time - 1 /\ Older(g).delay = g.delay
    BY DEF Older, GrantRecord
<1> QED
    BY <1>1, <1>2, <1>3, <1>4

LEMMA AgedTyped ==
    ASSUME NEW j \in WorkerRecord
    PROVE  /\ Aged(j) \in WorkerRecord /\ Aged(j).pc = j.pc /\ Aged(j).then = j.then
           /\ Aged(j).tries = j.tries /\ Aged(j).left = j.left /\ Aged(j).elapsed = j.elapsed
           /\ j.pc \in {"elapsed", "logged", "set", "release"} => Aged(j).now = j.now - 1
<1> DEFINE n == j.now - 1
           k == j.wake - 1
<1>1. n \in Past /\ k \in Int
    BY OlderTyped DEF WorkerRecord
<1>2. CASE j.pc \in {"elapsed", "logged", "set", "release"}
    <2>1. Aged(j) = [j EXCEPT !.now = n]
        BY <1>2 DEF Aged
    <2> HIDE DEF n
    <2>2. /\ [j EXCEPT !.now = n] \in WorkerRecord /\ [j EXCEPT !.now = n].pc = j.pc
          /\ [j EXCEPT !.now = n].then = j.then /\ [j EXCEPT !.now = n].tries = j.tries
          /\ [j EXCEPT !.now = n].left = j.left /\ [j EXCEPT !.now = n].elapsed = j.elapsed
          /\ [j EXCEPT !.now = n].now = n
        BY <1>1, NowSet, Zenon
    <2>3. n = j.now - 1
        BY DEF n
    <2> QED
        BY <2>1, <2>2, <2>3, Zenon
<1>3. CASE j.pc = "sleep"
    <2>1. Aged(j) = [j EXCEPT !.wake = k]
        BY <1>3 DEF Aged
    <2>2. j.pc \notin {"elapsed", "logged", "set", "release"}
        BY <1>3
    <2> HIDE DEF k
    <2>3. /\ [j EXCEPT !.wake = k] \in WorkerRecord /\ [j EXCEPT !.wake = k].pc = j.pc
          /\ [j EXCEPT !.wake = k].then = j.then /\ [j EXCEPT !.wake = k].tries = j.tries
          /\ [j EXCEPT !.wake = k].left = j.left /\ [j EXCEPT !.wake = k].elapsed = j.elapsed
        BY <1>1, WakeSet, Zenon
    <2> QED
        BY <2>1, <2>2, <2>3, Zenon
<1>4. CASE j.pc \notin {"elapsed", "logged", "set", "release", "sleep"}
    BY <1>4 DEF Aged
<1> QED
    BY <1>2, <1>3, <1>4

LEMMA TickEffect ==
    ASSUME LockInvariant, Tick, NEW w \in Workers
    PROVE  /\ calls'[w] \in Seq(CallRecord) /\ Len(calls'[w]) = Len(calls[w])
           /\ DOMAIN calls'[w] = DOMAIN calls[w]
           /\ \A i \in DOMAIN calls[w] :
                /\ calls'[w][i].method = calls[w][i].method
                /\ calls'[w][i] = IF calls[w][i].method = "set" THEN Older(calls[w][i]) ELSE calls[w][i]
           /\ replies'[w] \in Seq(ReplyRecord) /\ Len(replies'[w]) = Len(replies[w])
           /\ DOMAIN replies'[w] = DOMAIN replies[w]
           /\ \A i \in DOMAIN replies[w] :
                replies'[w][i] = IF Timed(replies[w][i]) THEN Older(replies[w][i]) ELSE replies[w][i]
           /\ worker'[w] = Aged(worker[w])
<1>1. /\ calls[w] \in Seq(CallRecord) /\ replies[w] \in Seq(ReplyRecord)
      /\ Len(calls[w]) \in Nat /\ Len(replies[w]) \in Nat
      /\ DOMAIN calls[w] = 1..Len(calls[w]) /\ DOMAIN replies[w] = 1..Len(replies[w])
      /\ \A i \in DOMAIN calls[w] : calls[w][i] \in CallRecord
      /\ \A i \in DOMAIN replies[w] : replies[w][i] \in ReplyRecord
    BY PlacesTyped, LenProperties, ElementOfSeq DEF LockInvariant
<1>2. calls'[w] = [i \in DOMAIN calls[w] |->
            IF calls[w][i].method = "set" THEN Older(calls[w][i]) ELSE calls[w][i]]
    BY DEF Tick
<1>3. replies'[w] = [i \in DOMAIN replies[w] |->
            IF Timed(replies[w][i]) THEN Older(replies[w][i]) ELSE replies[w][i]]
    BY DEF Tick
<1>4. /\ DOMAIN calls'[w] = 1..Len(calls[w])
      /\ \A i \in 1..Len(calls[w]) :
            /\ calls'[w][i] \in CallRecord /\ calls'[w][i].method = calls[w][i].method
            /\ calls'[w][i] = IF calls[w][i].method = "set" THEN Older(calls[w][i]) ELSE calls[w][i]
    BY <1>1, <1>2, OlderTyped
<1>5. /\ DOMAIN replies'[w] = 1..Len(replies[w])
      /\ \A i \in 1..Len(replies[w]) :
            /\ replies'[w][i] \in ReplyRecord
            /\ replies'[w][i] = IF Timed(replies[w][i]) THEN Older(replies[w][i])
                                ELSE replies[w][i]
    BY <1>1, <1>3, OlderTyped
<1>6. calls'[w] \in [1..Len(calls[w]) -> CallRecord]
    BY <1>2, <1>4, <1>1
<1>7. replies'[w] \in [1..Len(replies[w]) -> ReplyRecord]
    BY <1>3, <1>5, <1>1
<1>8. calls'[w] \in Seq(CallRecord) /\ replies'[w] \in Seq(ReplyRecord)
    <2>0. Seq(CallRecord) = UNION {[1..n -> CallRecord] : n \in Nat} /\ Len(calls[w]) \in Nat
        BY <1>1, SeqDef, Zenon
    <2>1. calls'[w] \in Seq(CallRecord)
        BY <2>0, <1>6, Zenon
    <2>2. Seq(ReplyRecord) = UNION {[1..n -> ReplyRecord] : n \in Nat} /\ Len(replies[w]) \in Nat
        BY <1>1, SeqDef, Zenon
    <2>3. replies'[w] \in Seq(ReplyRecord)
        BY <2>2, <1>7, Zenon
    <2> QED
        BY <2>1, <2>3
<1>9. Len(calls'[w]) = Len(calls[w]) /\ Len(replies'[w]) = Len(replies[w])
    BY <1>1, <1>4, <1>5, <1>8, LenProperties
<1>10. worker'[w] = Aged(worker[w])
    BY DEF Tick
<1> QED
    BY <1>1, <1>4, <1>5, <1>8, <1>9, <1>10

LEMMA TickKeepsLock ==
    ASSUME LockInvariant, Tick
    PROVE  LockInvariant'
<1>1. /\ lock' = lock /\ alarms' = alarms /\ torn' = torn /\ refill' = refill - 1
      /\ refilled' = refilled
    BY DEF Tick
<1>2. ASSUME NEW w \in Workers
      PROVE  /\ worker[w] \in WorkerRecord /\ worker'[w] \in WorkerRecord
             /\ worker'[w].pc = worker[w].pc /\ worker'[w].left = worker[w].left
             /\ worker'[w].tries = worker[w].tries
             /\ calls'[w] \in Seq(CallRecord) /\ replies'[w] \in Seq(ReplyRecord)
             /\ Len(calls'[w]) = Len(calls[w]) /\ Len(replies'[w]) = Len(replies[w])
    <2>1. worker[w] \in WorkerRecord
        BY PlacesTyped DEF LockInvariant
    <2> QED
        BY <2>1, TickEffect, AgedTyped
<1>3. ASSUME NEW w \in Workers, NEW held \in BOOLEAN
      PROVE  /\ InOrder(calls'[w], held) <=> InOrder(calls[w], held)
             /\ Ready(calls'[w], held) <=> Ready(calls[w], held)
    <2>1. /\ calls[w] \in Seq(CallRecord) /\ calls'[w] \in Seq(CallRecord)
          /\ DOMAIN calls[w] = 1..Len(calls[w]) /\ Len(calls[w]) \in Nat
          /\ DOMAIN calls'[w] = DOMAIN calls[w] /\ Len(calls'[w]) = Len(calls[w])
          /\ \A i \in DOMAIN calls[w] : calls'[w][i].method = calls[w][i].method
        BY PlacesTyped, TickEffect, LenProperties DEF LockInvariant
    <2>2. \A i \in DOMAIN calls[w] : i = 1 \/ i - 1 \in DOMAIN calls[w]
        BY <2>1
    <2>3. InOrder(calls'[w], held) <=> InOrder(calls[w], held)
        BY <2>1, <2>2 DEF InOrder
    <2>4. /\ Len(<<>>) = 0 /\ \A s \in Seq(CallRecord) : s # <<>> => Len(s) # 0
        BY EmptySeq
    <2>5. calls'[w] = <<>> <=> calls[w] = <<>>
        BY <2>1, <2>4, Zenon
    <2>6. calls[w] # <<>> => Len(calls[w]) \in DOMAIN calls[w]
        <3>1. calls[w] # <<>> => Len(calls[w]) # 0
            BY <2>1, <2>4, Zenon
        <3> QED
            BY <2>1, <3>1
    <2>7. Ready(calls'[w], held) <=> Ready(calls[w], held)
        BY <2>1, <2>5, <2>6 DEF Ready
    <2> QED
        BY <2>3, <2>7
<1>4. TypesHold'
    <2>1. /\ calls' \in [Workers -> Seq(CallRecord)] /\ replies' \in [Workers -> Seq(ReplyRecord)]
          /\ worker' \in [Workers -> WorkerRecord]
        <3>1. /\ DOMAIN calls' = Workers /\ calls' = [w \in Workers |-> calls'[w]]
              /\ DOMAIN replies' = Workers /\ replies' = [w \in Workers |-> replies'[w]]
              /\ DOMAIN worker' = Workers /\ worker' = [w \in Workers |-> worker'[w]]
            BY DEF Tick
        <3> QED
            BY <1>2, <3>1
    <2>2. refill' \in Past
        BY <1>1, OlderTyped DEF LockInvariant, TypesHold
    <2>3. ASSUME NEW g \in grants'
          PROVE  g \in GrantRecord
        <3>1. PICK h \in grants : g = Older(h)
            BY DEF Tick
        <3> QED
            BY <3>1, OlderTyped DEF LockInvariant, TypesHold
    <2>4. grants' \subseteq GrantRecord
        BY <2>3
    <2> QED
        BY <1>1, <2>1, <2>2, <2>4 DEF LockInvariant, TypesHold
<1>5. TriesCounted'
    BY <1>2 DEF LockInvariant, TriesCounted
<1>6. BacklogBounded'
    <2>1. \A w \in Workers : Waiting(w)' <=> Waiting(w)
        BY <1>2 DEF Waiting
    <2> QED
        BY <1>1, <1>2, <2>1 DEF LockInvariant, BacklogBounded
<1>7. CallsOrdered'
    <2>1. \A w \in Workers : (lock = w) \in BOOLEAN
        OBVIOUS
    <2> QED
        BY <1>1, <1>2, <1>3, <2>1 DEF LockInvariant, CallsOrdered
<1>8. LockGivenBack'
    <2>1. \A w \in Workers : (lock = w) \in BOOLEAN
        OBVIOUS
    <2> QED
        BY <1>1, <1>2, <1>3, <2>1 DEF LockInvariant, LockGivenBack
<1> QED
    BY <1>4, <1>5, <1>6, <1>7, <1>8 DEF LockInvariant

LEMMA NextKeepsLock ==
    ASSUME LockInvariant, [Next]_vars
    PROVE  LockInvariant'
<1>1. ASSUME NEW w \in Workers, NEW j, Moves(w, j)
      PROVE  LockInvariant'
    BY <1>1, MovesKeepTypes, MovesKeepBacklog, MovesKeepOrder DEF LockInvariant
<1>2. ASSUME NEW w \in Workers, WorkerStep(w) \/ Alarm(w)
      PROVE  LockInvariant'
    BY <1>1, <1>2, DownloadMoves, LockedMoves, ElapsedMoves, LoggedMoves, WakeUpMoves, GrantedMoves,
       ReleasedMoves, ReraisesMoves, SwallowsMoves, AnsweredMoves, RetryMoves, AlarmMoves DEF WorkerStep
<1>3. ASSUME NEW w \in Workers, Serve(w)
      PROVE  LockInvariant'
    BY <1>3, ServeKeepsTypes, ServeKeepsOrder DEF LockInvariant
<1>4. CASE UNCHANGED vars
    BY <1>4 DEF vars, LockInvariant, TypesHold, TriesCounted, BacklogBounded, CallsOrdered, LockGivenBack,
       Waiting
<1> QED
    BY <1>2, <1>3, <1>4, TickKeepsLock DEF Next

\* The invariant the properties of the lock follow from.
THEOREM LockAlways == Spec => []LockInvariant
BY InitLock, NextKeepsLock, PTL DEF Spec

\* Throttler.py and SourceCrawler.py: values are of their types, a connection is
\* never more behind its worker than alarms interrupted it, and retries end.
THEOREM TypeCorrect == Spec => []TypeOK
<1>1. LockInvariant => TypeOK
    <2> SUFFICES ASSUME LockInvariant
                 PROVE  TypeOK
        OBVIOUS
    <2>1. refill \in Int /\ refill <= 0 /\ refilled \in BOOLEAN /\ lock \in Workers \cup {Nobody}
          /\ alarms \in 0..MaxAlarms /\ torn \subseteq Places
        BY DEF LockInvariant, TypesHold, Past
    <2>2. ASSUME NEW w \in Workers
          PROVE  /\ \A i \in DOMAIN calls[w] : calls[w][i].method \in Methods
                 /\ worker[w].pc \in Places \cup {"idle"}
                 /\ worker[w].left \in 0..Downloads[w] /\ worker[w].tries \in 0..FetchRetry
        <3>1. worker[w] \in WorkerRecord /\ calls[w] \in Seq(CallRecord)
              /\ DOMAIN calls[w] = 1..Len(calls[w])
            BY PlacesTyped, LenProperties DEF LockInvariant
        <3>2. \A i \in DOMAIN calls[w] : calls[w][i] \in CallRecord
            BY <3>1, ElementOfSeq
        <3>3. /\ worker[w].left \in Nat /\ worker[w].tries \in Nat /\ worker[w].pc \in Places \cup {"idle"}
              /\ worker[w].left <= Downloads[w] /\ worker[w].tries <= FetchRetry
              /\ Downloads[w] \in Nat /\ FetchRetry \in Nat
            BY <3>1, ThrottlerBounds, RateAssumption DEF WorkerRecord, LockInvariant, TriesCounted
        <3> QED
            BY <3>2, <3>3 DEF CallRecord
    <2>3. ASSUME NEW w \in Workers
          PROVE  Len(calls[w]) + Len(replies[w]) <=
                    alarms + (IF worker[w].pc \in Places \ {"sleep", "request"} THEN 1 ELSE 0)
        BY DEF LockInvariant, BacklogBounded, Waiting
    <2> QED
        BY <2>1, <2>2, <2>3 DEF TypeOK
<1> QED
    BY <1>1, LockAlways, PTL

\* Throttler.py:19: last_refill is read and set, and the lock released, only by
\* the thread that holds the lock; and the lock is lost only through an
\* interrupted acquire.
THEOREM LockCorrect == Spec => []LockUsedRight
<1>1. LockInvariant => LockUsedRight
    <2> SUFFICES ASSUME LockInvariant
                 PROVE  LockUsedRight
        OBVIOUS
    <2>1. ASSUME NEW w \in Workers, calls[w] # <<>>, Head(calls[w]).method \in Methods \ {"acquire"}
          PROVE  lock = w
        <3>1. calls[w] \in Seq(CallRecord) /\ InOrder(calls[w], lock = w) /\ (lock = w) \in BOOLEAN
            BY PlacesTyped DEF LockInvariant, CallsOrdered
        <3> QED
            BY <2>1, <3>1, TailInOrder
    <2>2. ASSUME "acquire" \notin torn, NEW w \in Workers, lock = w, worker[w].pc \in {"idle", "request"}
          PROVE  \E i \in DOMAIN calls[w] : calls[w][i].method = "release"
        <3>1. ~ Ready(calls[w], lock = w)
            BY <2>2 DEF LockInvariant, LockGivenBack, Within
        <3>2. calls[w] # <<>> /\ calls[w][Len(calls[w])].method = "release"
            BY <2>2, <3>1 DEF Ready
        <3>3. calls[w] \in Seq(CallRecord) /\ DOMAIN calls[w] = 1..Len(calls[w]) /\ Len(calls[w]) \in Nat
            BY PlacesTyped, LenProperties DEF LockInvariant
        <3>4. Len(calls[w]) # 0
            BY <3>2, <3>3, EmptySeq
        <3> QED
            BY <3>2, <3>3, <3>4
    <2> QED
        BY <2>1, <2>2 DEF LockUsedRight, AccessLocked, LockReturned
<1> QED
    BY <1>1, LockAlways, PTL

----------------------------------------------------------------------------
(* The spacing of the requests *)

LEMMA PendingIs ==
    ASSUME NEW w \in Workers, NEW c, NEW r, Pending(w, c, r)
    PROVE  /\ replies[w] # <<>> => calls[w] = <<>> /\ Tail(replies[w]) = <<>> /\ Reply(w) = r
           /\ calls[w] # <<>> =>
                replies[w] = <<>> /\ Tail(calls[w]) = <<>> /\ Head(calls[w]) = c /\ calls[w] = <<c>>
<1>1. /\ <<c>> # <<>> /\ <<r>> # <<>> /\ Tail(<<c>>) = <<>> /\ Tail(<<r>>) = <<>>
      /\ Head(<<c>>) = c /\ Head(<<r>>) = r
    OBVIOUS
<1> QED
    BY <1>1, Zenon DEF Pending, Reply

\* Where w is, by its connection.
LEMMA SynchronousIs ==
    ASSUME NEW w \in Workers, Synchronous(w)
    PROVE  /\ worker[w].pc = "acquire" => Pending(w, Call("acquire", 0), True)
           /\ worker[w].pc \in {"elapsed", "logged"} => Pending(w, Call("get", 0), LastRefill)
           /\ worker[w].pc = "set" => Pending(w, Call("set", worker[w].now), None)
           /\ worker[w].pc = "release" => Pending(w, Call("release", 0), None)
           /\ worker[w].pc \notin Busy => calls[w] = <<>> /\ replies[w] = <<>>
BY DEF Synchronous, Busy

LEMMA AnswerIs ==
    ASSUME NEW w \in Workers, Synchronous(w)
    PROVE  /\ replies[w] # <<>> =>
                /\ calls[w] = <<>> /\ Tail(replies[w]) = <<>>
                /\ worker[w].pc \in {"elapsed", "logged"} => Reply(w) = LastRefill
           /\ worker[w].pc \notin Busy => calls[w] = <<>> /\ replies[w] = <<>>
BY SynchronousIs, PendingIs, Zenon DEF Busy

\* Only w takes part in the step.
Only(w) ==
    /\ refill' = refill /\ refilled' = refilled
    /\ \A v \in Workers \ {w} :
            worker'[v] = worker[v] /\ calls'[v] = calls[v] /\ replies'[v] = replies[v]

LEMMA MovesOnly ==
    ASSUME LockInvariant, NEW w \in Workers, NEW j, Moves(w, j)
    PROVE  Only(w) /\ worker'[w] = j
BY DEF Moves, Sends, Hears, Only, managerVars, LockInvariant, TypesHold

LEMMA OnlyKeepsSpacing ==
    ASSUME LockInvariant, SpacingInvariant, torn = {}, NEW w \in Workers, Only(w),
           Synchronous(w)', RefillKnown(w)',
           \/ /\ grants' = grants
              /\ Awarded(w)' => Awarded(w) /\ worker'[w].now = worker[w].now
           \/ /\ Awarded(w) /\ ~ Awarded(w)'
              /\ \E r : grants' = grants \cup {[request |-> r, time |-> worker[w].now, delay |-> -worker[w].now]}
    PROVE  SpacingInvariant'
<1>1. AwardsApart /\ \A v \in Workers : Synchronous(v) /\ RefillKnown(v)
    BY DEF SpacingInvariant
<1>2. ASSUME NEW v \in Workers, v # w
      PROVE  /\ Synchronous(v)' /\ RefillKnown(v)'
             /\ Awarded(v)' <=> Awarded(v)
             /\ worker'[v].now = worker[v].now
    <2>0. LastRefill' = LastRefill
        BY DEF Only, LastRefill
    <2>1. /\ refill' = refill /\ worker'[v] = worker[v]
          /\ calls'[v] = calls[v] /\ replies'[v] = replies[v]
        BY <1>2 DEF Only
    <2>2. \A c, r : Pending(v, c, r)' <=> Pending(v, c, r)
        BY <2>1 DEF Pending
    <2>3. Synchronous(v)'
        BY <1>1, <2>0, <2>1, <2>2 DEF Synchronous
    <2>4. RefillKnown(v)' /\ (Awarded(v)' <=> Awarded(v))
        BY <1>1, <2>1 DEF RefillKnown, Awarded
    <2> QED
        BY <2>1, <2>3, <2>4
<1>3. CASE /\ grants' = grants
           /\ Awarded(w)' => Awarded(w) /\ worker'[w].now = worker[w].now
    <2>1. \A v \in Workers : Awarded(v)' => Awarded(v) /\ worker'[v].now = worker[v].now
        BY <1>2, <1>3
    <2>2. AwardsApart'
        BY <1>1, <1>3, <2>1 DEF AwardsApart, Only
    <2> QED
        BY <1>1, <1>2, <2>2 DEF SpacingInvariant
<1>4. CASE /\ Awarded(w) /\ ~ Awarded(w)'
           /\ \E r : grants' = grants \cup {[request |-> r, time |-> worker[w].now, delay |-> -worker[w].now]}
    <2>1. PICK r : grants' = grants \cup {[request |-> r, time |-> worker[w].now, delay |-> -worker[w].now]}
        BY <1>4
    <2> DEFINE g0 == [request |-> r, time |-> worker[w].now, delay |-> -worker[w].now]
    <2>2. g0.time = worker[w].now /\ grants' = grants \cup {g0}
        BY <2>1
    <2> HIDE DEF g0
    <2>3. \A v \in Workers : Awarded(v)' => v # w /\ Awarded(v) /\ worker'[v].now = worker[v].now
        BY <1>2, <1>4
    <2>4. \A x, y : Apart(x, y) => Apart(y, x)
        BY DEF Apart
    <2>5. /\ \A g \in grants' : g.time <= refill'
          /\ \A v \in Workers : Awarded(v)' => worker'[v].now <= refill'
        BY <1>1, <1>4, <2>2, <2>3 DEF AwardsApart, Only
    <2>6. \A g, h \in grants' : g # h => Apart(g.time, h.time)
        BY <1>1, <1>4, <2>2, <2>4 DEF AwardsApart
    <2>7. \A v \in Workers, g \in grants' : Awarded(v)' => Apart(worker'[v].now, g.time)
        BY <1>1, <1>4, <2>2, <2>3 DEF AwardsApart
    <2>8. \A u, v \in Workers :
            u # v /\ Awarded(u)' /\ Awarded(v)' => Apart(worker'[u].now, worker'[v].now)
        BY <1>1, <2>3 DEF AwardsApart
    <2>9. AwardsApart'
        BY <2>5, <2>6, <2>7, <2>8 DEF AwardsApart, Apart
    <2> QED
        BY <1>1, <1>2, <2>9 DEF SpacingInvariant
<1> QED
    BY <1>3, <1>4

LEMMA StepOnly ==
    ASSUME LockInvariant, NEW w \in Workers, WorkerStep(w) \/ Alarm(w)
    PROVE  Only(w)
BY MovesOnly, DownloadMoves, LockedMoves, ElapsedMoves, LoggedMoves, WakeUpMoves, GrantedMoves,
   ReleasedMoves, ReraisesMoves, SwallowsMoves, AnsweredMoves, RetryMoves, AlarmMoves DEF WorkerStep

\* A call is made on a connection that is empty.
LEMMA CallPending ==
    ASSUME LockInvariant, NEW w \in Workers, NEW j \in WorkerRecord, NEW pc \in Places, NEW c,
           Calls(w, j, pc, c), calls[w] = <<>>, replies'[w] = <<>>
    PROVE  /\ calls'[w] = <<c>> /\ calls'[w] # <<>>
           /\ worker'[w].pc = pc /\ worker'[w].now = j.now /\ worker'[w].elapsed = j.elapsed
           /\ worker'[w].then = j.then
<1>1. worker'[w] = [j EXCEPT !.pc = pc] /\ calls'[w] = Append(calls[w], c)
    BY DEF Calls, Becomes, LockInvariant, TypesHold
<1>2. Append(<<>>, c) = <<c>> /\ <<c>> # <<>>
    OBVIOUS
<1>3. calls'[w] = <<c>> /\ calls'[w] # <<>>
    BY <1>1, <1>2
<1>5. pc \in Places \cup {"idle"}
    OBVIOUS
<1>6. /\ worker'[w].pc = pc /\ worker'[w].now = j.now /\ worker'[w].elapsed = j.elapsed
      /\ worker'[w].then = j.then
    <2> DEFINE k == [j EXCEPT !.pc = pc]
    <2>1. k.pc = pc /\ k.now = j.now /\ k.elapsed = j.elapsed /\ k.then = j.then
        BY <1>5, PcSet, Zenon
    <2>2. worker'[w] = k
        BY <1>1
    <2> HIDE DEF k
    <2> QED
        BY <2>1, <2>2
<1> QED
    BY <1>3, <1>6

LEMMA AcquireKeepsSpacing ==
    ASSUME LockInvariant, SpacingInvariant, torn = {}, NEW w \in Workers, Only(w),
           NEW j \in WorkerRecord, Acquire(w, j), calls[w] = <<>>, replies'[w] = <<>>,
           grants' = grants
    PROVE  SpacingInvariant'
<1>1. Fresh(j) \in WorkerRecord
    <2>2. 0 \in Past
        BY DEF Past
    <2>3. Fresh(j) = [pc |-> "idle", now |-> 0, elapsed |-> 0, wake |-> 0, then |-> "loop",
                      tries |-> j.tries, left |-> j.left]
        BY DEF Fresh, Resting
    <2> QED
        BY <2>2, <2>3 DEF WorkerRecord
<1>2. "acquire" \in Places
    BY DEF Places
<1>3. worker'[w].pc = "acquire" /\ calls'[w] = <<Call("acquire", 0)>>
    BY <1>1, <1>2, CallPending DEF Acquire
<1>4. Synchronous(w)' /\ RefillKnown(w)' /\ ~ Awarded(w)'
    BY <1>3 DEF Synchronous, RefillKnown, Awarded, Pending
<1> QED
    BY <1>4, OnlyKeepsSpacing

LEMMA ReleaseKeepsSpacing ==
    ASSUME LockInvariant, SpacingInvariant, torn = {}, NEW w \in Workers, Only(w),
           NEW then \in {"loop", "return", "raise"}, then = "return" => Awarded(w),
           Release(w, worker[w], then), calls[w] = <<>>, replies'[w] = <<>>, grants' = grants
    PROVE  SpacingInvariant'
<1> DEFINE q == [worker[w] EXCEPT !.then = then, !.elapsed = 0, !.wake = 0]
           r == [q EXCEPT !.pc = "release"]
<1>1. worker[w] \in WorkerRecord
    BY PlacesTyped DEF LockInvariant
<1>2. q \in WorkerRecord /\ r.now = worker[w].now /\ r.then = then /\ r.pc = "release"
    BY <1>1, ReleaseTyped, Zenon
<1>3. "release" \in Places
    BY DEF Places
<1>5. Calls(w, q, "release", Call("release", 0))
    BY DEF Release
<1>4. worker'[w] = r
    <2>1. worker \in [Workers -> WorkerRecord]
        BY DEF LockInvariant, TypesHold
    <2>2. worker' = [worker EXCEPT ![w] = r]
        BY <1>5 DEF Calls, Becomes
    <2> HIDE DEF q, r
    <2> QED
        BY <2>1, <2>2
<1> HIDE DEF q, r
<1>6. calls'[w] = <<Call("release", 0)>>
    BY <1>2, <1>3, <1>5, CallPending
<1>7. Synchronous(w)' /\ RefillKnown(w)'
    BY <1>2, <1>4, <1>6 DEF Synchronous, RefillKnown, Pending
<1>8. Awarded(w)' => Awarded(w) /\ worker'[w].now = worker[w].now
    BY <1>2, <1>4 DEF Awarded
<1> QED
    BY <1>7, <1>8, OnlyKeepsSpacing

\* A worker that waits for no reply and has called nothing.
LEMMA QuietKeepsSpacing ==
    ASSUME LockInvariant, SpacingInvariant, torn = {}, NEW w \in Workers, Only(w),
           worker'[w].pc \notin Busy, calls'[w] = <<>>, replies'[w] = <<>>,
           \/ grants' = grants
           \/ Awarded(w) /\ \E r : grants' = grants \cup {[request |-> r, time |-> worker[w].now, delay |-> -worker[w].now]}
    PROVE  SpacingInvariant'
<1>1. Synchronous(w)' /\ RefillKnown(w)' /\ ~ Awarded(w)'
    BY DEF Synchronous, RefillKnown, Awarded, Busy
<1> QED
    BY <1>1, OnlyKeepsSpacing

LEMMA RestingKeepsSpacing ==
    ASSUME LockInvariant, SpacingInvariant, torn = {}, NEW w \in Workers, Only(w),
           GiveUp(w), calls'[w] = <<>>, replies'[w] = <<>>, grants' = grants
    PROVE  SpacingInvariant'
<1>1. worker'[w] = Resting(worker[w].left - 1)
    BY DEF GiveUp, Becomes, LockInvariant, TypesHold
<1>2. worker'[w].pc \notin Busy
    BY <1>1 DEF Resting, Busy
<1> QED
    BY <1>2, QuietKeepsSpacing

LEMMA LockedKeepsSpacing ==
    ASSUME LockInvariant, SpacingInvariant, torn = {}, NEW w \in Workers, Only(w), Locked(w)
    PROVE  SpacingInvariant'
<1> DEFINE j == [worker[w] EXCEPT !.now = 0]
<1>1. worker[w] \in WorkerRecord /\ 0 \in Past
    BY PlacesTyped DEF LockInvariant, Past
<1>2. replies[w] # <<>> /\ replies'[w] = Tail(replies[w]) /\ grants' = grants
    BY DEF Locked, Reads, LocalUnchanged, LockInvariant, TypesHold
<1>3. calls[w] = <<>> /\ replies'[w] = <<>>
    BY <1>2, AnswerIs DEF SpacingInvariant
<1>4. j \in WorkerRecord
    BY <1>1, NowSet, Zenon
<1>5. Calls(w, j, "elapsed", Call("get", 0))
    BY DEF Locked
<1>6. "elapsed" \in Places
    BY DEF Places
<1> HIDE DEF j
<1>7. worker'[w].pc = "elapsed" /\ calls'[w] = <<Call("get", 0)>>
    BY <1>3, <1>4, <1>5, <1>6, CallPending
<1>8. Synchronous(w)' /\ RefillKnown(w)' /\ ~ Awarded(w)'
    BY <1>3, <1>7 DEF Synchronous, RefillKnown, Awarded, Pending
<1> QED
    BY <1>2, <1>8, OnlyKeepsSpacing

LEMMA ElapsedKeepsSpacing ==
    ASSUME LockInvariant, SpacingInvariant, torn = {}, NEW w \in Workers, Only(w), Elapsed(w)
    PROVE  SpacingInvariant'
<1>1. worker[w] \in WorkerRecord /\ worker[w].now \in Int /\ refill \in Int
    BY PlacesTyped DEF LockInvariant, TypesHold, WorkerRecord, Past
<1>2. /\ replies[w] # <<>> /\ replies'[w] = Tail(replies[w]) /\ grants' = grants
      /\ worker[w].pc = "elapsed"
    BY DEF Elapsed, Reads, At, LocalUnchanged, LockInvariant, TypesHold
<1>3. calls[w] = <<>> /\ replies'[w] = <<>> /\ Reply(w) = LastRefill
    BY <1>2, AnswerIs DEF SpacingInvariant
<1> DEFINE e == worker[w].now - refill
           j == [worker[w] EXCEPT !.elapsed = e]
<1>4. Calls(w, j, "logged", Call("get", 0))
    <2>1. Reply(w).kind \notin {"none", "true"} /\ Reply(w).time = refill
        BY <1>3 DEF LastRefill
    <2> QED
        BY <2>1 DEF Elapsed
<1>5. e \in Int
    BY <1>1
<1>6. e = worker[w].now - refill'
    BY DEF Only
<1> HIDE DEF e
<1>7. j \in WorkerRecord /\ j.elapsed = e /\ j.now = worker[w].now
    <2> DEFINE k == worker[w]
    <2> HIDE DEF k
    <2>1. [k EXCEPT !.elapsed = e] \in WorkerRecord
        BY <1>1, <1>5, ElapsedSet DEF k
    <2>2. [k EXCEPT !.elapsed = e].elapsed = e /\ [k EXCEPT !.elapsed = e].now = k.now
        BY <1>1, <1>5, ElapsedSet DEF k
    <2> QED
        BY <2>1, <2>2 DEF k
<1>8. "logged" \in Places
    BY DEF Places
<1> HIDE DEF j
<1>9. /\ worker'[w].pc = "logged" /\ calls'[w] = <<Call("get", 0)>>
      /\ worker'[w].elapsed = e /\ worker'[w].now = worker[w].now
    BY <1>3, <1>4, <1>7, <1>8, CallPending
<1>10. Synchronous(w)' /\ RefillKnown(w)' /\ ~ Awarded(w)'
    BY <1>3, <1>6, <1>9 DEF Synchronous, RefillKnown, Awarded, Pending
<1> QED
    BY <1>2, <1>10, OnlyKeepsSpacing

LEMMA LoggedKeepsSpacing ==
    ASSUME LockInvariant, SpacingInvariant, torn = {}, NEW w \in Workers, Only(w), Logged(w)
    PROVE  SpacingInvariant'
<1>1. worker[w] \in WorkerRecord /\ worker[w].now \in Int /\ refill \in Int
    BY PlacesTyped DEF LockInvariant, TypesHold, WorkerRecord, Past
<1>2. /\ replies[w] # <<>> /\ replies'[w] = Tail(replies[w]) /\ grants' = grants
      /\ worker[w].pc = "logged" /\ refill' = refill
    BY DEF Logged, Reads, At, Only, LocalUnchanged, LockInvariant, TypesHold
<1>3. /\ calls[w] = <<>> /\ replies'[w] = <<>>
      /\ worker[w].elapsed = worker[w].now - refill
    BY <1>2, AnswerIs DEF SpacingInvariant, RefillKnown
<1>4. CASE EnoughElapsed(worker[w].elapsed)
    <2> DEFINE j == [worker[w] EXCEPT !.elapsed = 0]
    <2>1. Calls(w, j, "set", Call("set", worker[w].now))
        BY <1>4 DEF Logged
    <2>2. 0 \in Int /\ "set" \in Places
        BY DEF Places
    <2>3. j \in WorkerRecord /\ j.now = worker[w].now
        BY <1>1, <2>2, ElapsedSet, Zenon
    <2> HIDE DEF j
    <2>4. /\ worker'[w].pc = "set" /\ calls'[w] = <<Call("set", worker[w].now)>>
          /\ worker'[w].now = worker[w].now /\ calls'[w] # <<>>
        BY <1>3, <2>1, <2>2, <2>3, CallPending
    <2>5. calls'[w] = <<Call("set", worker'[w].now)>>
        BY <2>4
    <2>6. worker'[w].now - refill' >= Interval
        BY <1>2, <1>3, <1>4, <2>4 DEF EnoughElapsed
    <2>7. Synchronous(w)' /\ RefillKnown(w)' /\ ~ Awarded(w)'
        BY <1>3, <2>4, <2>5, <2>6 DEF Synchronous, RefillKnown, Awarded, Pending
    <2> QED
        BY <1>2, <2>7, OnlyKeepsSpacing
<1>5. CASE ~ EnoughElapsed(worker[w].elapsed)
    <2>1. worker'[w] = [Fresh(worker[w]) EXCEPT !.pc = "sleep", !.wake = Interval] /\ calls' = calls
        BY <1>5 DEF Logged, Becomes, LockInvariant, TypesHold
    <2>2. worker'[w].pc = "sleep"
        BY <2>1 DEF Fresh, Resting
    <2> QED
        BY <1>2, <1>3, <2>1, <2>2, QuietKeepsSpacing DEF Busy
<1> QED
    BY <1>4, <1>5

LEMMA GrantedKeepsSpacing ==
    ASSUME LockInvariant, SpacingInvariant, torn = {}, NEW w \in Workers, Only(w), Granted(w)
    PROVE  SpacingInvariant'
<1>1. /\ replies[w] # <<>> /\ replies'[w] = Tail(replies[w]) /\ grants' = grants
      /\ worker[w].pc = "set"
    BY DEF Granted, Reads, At, LocalUnchanged, LockInvariant, TypesHold
<1>2. calls[w] = <<>> /\ replies'[w] = <<>>
    BY <1>1, AnswerIs DEF SpacingInvariant
<1>3. Awarded(w) /\ Release(w, worker[w], "return")
    BY <1>1, <1>2 DEF Granted, Awarded
<1> QED
    BY <1>1, <1>2, <1>3, ReleaseKeepsSpacing

LEMMA ReleasedKeepsSpacing ==
    ASSUME LockInvariant, SpacingInvariant, torn = {}, NEW w \in Workers, Only(w), Released(w)
    PROVE  SpacingInvariant'
<1>1. /\ replies[w] # <<>> /\ replies'[w] = Tail(replies[w]) /\ worker[w].pc = "release"
      /\ worker[w] \in WorkerRecord
    BY PlacesTyped DEF Released, Reads, At, LockInvariant, TypesHold
<1>2. calls[w] = <<>> /\ replies'[w] = <<>>
    BY <1>1, AnswerIs DEF SpacingInvariant
<1>3. CASE worker[w].then = "loop"
    BY <1>1, <1>2, <1>3, AcquireKeepsSpacing DEF Released
<1>4. CASE worker[w].then = "return"
    <2>1. /\ worker'[w] = [Fresh(worker[w]) EXCEPT !.pc = "request"] /\ calls' = calls
          /\ \E r : grants' = grants \cup {[request |-> r, time |-> worker[w].now, delay |-> -worker[w].now]}
        BY <1>4 DEF Released, Becomes, LockInvariant, TypesHold
    <2>2. worker'[w].pc = "request"
        BY <2>1 DEF Fresh, Resting
    <2>3. Awarded(w)
        BY <1>1, <1>4 DEF Awarded
    <2> QED
        BY <1>2, <2>1, <2>2, <2>3, QuietKeepsSpacing DEF Busy
<1> QED
    BY <1>3, <1>4 DEF Released

\* With an exception, which a connection that is in step does not swallow.
LEMMA RaisedKeepsSpacing ==
    ASSUME LockInvariant, SpacingInvariant, torn = {}, NEW w \in Workers, Only(w),
           Reraises(w) \/ Swallows(w)
    PROVE  SpacingInvariant'
<1>1. /\ replies[w] # <<>> /\ replies'[w] = Tail(replies[w]) /\ worker[w] \in WorkerRecord
      /\ grants' = grants
    BY PlacesTyped DEF Reraises, Swallows, Reads, LocalUnchanged, LockInvariant, TypesHold
<1>2. calls[w] = <<>> /\ replies'[w] = <<>>
    BY <1>1, AnswerIs DEF SpacingInvariant
<1>3. CASE Reraises(w)
    <2>1. GiveUp(w) /\ calls'[w] = <<>>
        BY <1>2, <1>3 DEF Reraises
    <2> QED
        BY <1>1, <1>2, <2>1, RestingKeepsSpacing
<1>4. CASE Swallows(w)
    BY <1>1, <1>2, <1>4, AcquireKeepsSpacing DEF Swallows
<1> QED
    BY <1>3, <1>4

LEMMA FailsKeepsSpacing ==
    ASSUME LockInvariant, SpacingInvariant, torn = {}, NEW w \in Workers, Only(w), FailsOnce(w),
           calls[w] = <<>>, replies'[w] = <<>>, grants' = grants
    PROVE  SpacingInvariant'
<1>1. worker[w] \in WorkerRecord /\ worker[w].tries \in Nat
    BY PlacesTyped DEF LockInvariant, WorkerRecord
<1>2. CASE LastTry(worker[w])
    BY <1>2, RestingKeepsSpacing DEF FailsOnce
<1>3. CASE ~ LastTry(worker[w])
    <2> DEFINE k == worker[w].tries + 1
               j == [worker[w] EXCEPT !.tries = k]
    <2>1. [worker[w] EXCEPT !.tries = @ + 1] = j
        OBVIOUS
    <2>2. Acquire(w, j)
        BY <1>3, <2>1 DEF FailsOnce
    <2>3. k \in Nat /\ "idle" \in Places \cup {"idle"}
        BY <1>1
    <2> HIDE DEF k
    <2>4. j \in WorkerRecord
        BY <1>1, <2>3, FreshTyped, Zenon
    <2> HIDE DEF j
    <2> QED
        BY <2>2, <2>4, AcquireKeepsSpacing
<1> QED
    BY <1>2, <1>3

LEMMA StepKeepsSpacing ==
    ASSUME LockInvariant, SpacingInvariant, torn = {}, NEW w \in Workers, WorkerStep(w)
    PROVE  SpacingInvariant'
<1>1. Only(w)
    BY StepOnly
<1>2. worker[w].pc \notin Busy => calls[w] = <<>> /\ replies[w] = <<>>
    BY AnswerIs DEF SpacingInvariant
<1>3. CASE Download(w)
    <2>1. worker[w] \in WorkerRecord /\ 1 \in Nat /\ "idle" \in Places \cup {"idle"}
        BY PlacesTyped DEF LockInvariant
    <2> DEFINE j == [worker[w] EXCEPT !.tries = 1]
    <2>2. j \in WorkerRecord
        BY <2>1, FreshTyped, Zenon
    <2>3. /\ worker[w].pc = "idle" /\ Acquire(w, j) /\ replies' = replies /\ grants' = grants
        BY <1>3 DEF Download, At, LocalUnchanged
    <2> HIDE DEF j
    <2> QED
        BY <1>1, <1>2, <2>2, <2>3, AcquireKeepsSpacing DEF Busy
<1>4. CASE WakeUp(w)
    <2>1. /\ worker[w].pc = "sleep" /\ Release(w, worker[w], "loop")
          /\ replies' = replies /\ grants' = grants
        BY <1>4 DEF WakeUp, At, LocalUnchanged
    <2> QED
        BY <1>1, <1>2, <2>1, ReleaseKeepsSpacing DEF Busy
<1>5. CASE Answered(w)
    <2>1. /\ worker[w].pc = "request" /\ GiveUp(w) /\ calls' = calls
          /\ replies' = replies /\ grants' = grants
        BY <1>5 DEF Answered, At, LocalUnchanged
    <2> QED
        BY <1>1, <1>2, <2>1, RestingKeepsSpacing DEF Busy
<1>6. CASE Retry(w)
    <2>1. /\ worker[w].pc = "request" /\ FailsOnce(w)
          /\ replies' = replies /\ grants' = grants
        BY <1>6 DEF Retry, At, LocalUnchanged
    <2> QED
        BY <1>1, <1>2, <2>1, FailsKeepsSpacing DEF Busy
<1> QED
    BY <1>1, <1>3, <1>4, <1>5, <1>6, LockedKeepsSpacing, ElapsedKeepsSpacing, LoggedKeepsSpacing,
       GrantedKeepsSpacing, ReleasedKeepsSpacing, RaisedKeepsSpacing DEF WorkerStep

LEMMA AlarmKeepsSpacing ==
    ASSUME LockInvariant, SpacingInvariant, NEW w \in Workers, Alarm(w)
    PROVE  SpacingInvariant'
<1> SUFFICES ASSUME torn' = {}
             PROVE  SpacingInvariant'
    BY DEF SpacingInvariant
<1>1. Only(w) /\ replies' = replies /\ grants' = grants
    BY StepOnly DEF Alarm
<1>2. torn = {} /\ worker[w].pc \in {"sleep", "request"}
    BY DEF Alarm
<1>3. calls[w] = <<>> /\ replies'[w] = <<>>
    BY <1>1, <1>2, AnswerIs DEF SpacingInvariant, Busy
<1>4. CASE worker[w].pc = "request"
    <2>1. FailsOnce(w)
        BY <1>4 DEF Alarm, OutsideWith
    <2> QED
        BY <1>1, <1>2, <1>3, <2>1, FailsKeepsSpacing
<1>5. CASE worker[w].pc = "sleep"
    <2>1. Release(w, worker[w], "raise")
        BY <1>5 DEF Alarm, Unlocks, OutsideWith
    <2> QED
        BY <1>1, <1>2, <1>3, <2>1, ReleaseKeepsSpacing
<1> QED
    BY <1>2, <1>4, <1>5

\* Only the worker that has the lock is between reading and setting last_refill.
LEMMA ReaderHasLock ==
    ASSUME LockInvariant, NEW v \in Workers, Synchronous(v), worker[v].pc \in {"elapsed", "logged", "set"}
    PROVE  lock = v
<1>1. /\ calls[v] \in Seq(CallRecord) /\ InOrder(calls[v], lock = v) /\ (lock = v) \in BOOLEAN
      /\ Ready(calls[v], lock = v)
    BY PlacesTyped DEF LockInvariant, CallsOrdered, Within
<1>2. CASE calls[v] = <<>>
    BY <1>1, <1>2 DEF Ready
<1>3. CASE calls[v] # <<>>
    <2>1. Head(calls[v]) \in {Call("get", 0), Call("set", worker[v].now)}
        BY <1>3, SynchronousIs, PendingIs
    <2>2. Head(calls[v]).method # "acquire"
        BY <2>1 DEF Call
    <2> QED
        BY <1>1, <1>3, <2>2, TailInOrder
<1> QED
    BY <1>2, <1>3

\* Serving any call but a set.
LEMMA ServeOtherKeepsSpacing ==
    ASSUME LockInvariant, SpacingInvariant, torn = {}, NEW w \in Workers, Serve(w),
           Head(calls[w]).method # "set"
    PROVE  SpacingInvariant'
<1>1. /\ calls[w] # <<>> /\ calls' = [calls EXCEPT ![w] = Tail(@)]
      /\ UNCHANGED <<worker, grants, alarms, torn>> /\ Synchronous(w)
    BY ServeEffect DEF SpacingInvariant
<1>2. refill' = refill /\ refilled' = refilled
    BY ServeEffect DEF Serve, managerVars
<1>3. /\ \A v \in Workers \ {w} : calls'[v] = calls[v] /\ replies'[v] = replies[v]
      /\ calls'[w] = Tail(calls[w])
    BY <1>1 DEF Serve, LockInvariant, TypesHold
<1>4. Only(w)
    BY <1>1, <1>2, <1>3 DEF Only
<1>5. ASSUME NEW c, NEW r, Pending(w, c, r), c.method \in {"acquire", "get", "release"},
             r = CASE c.method = "acquire" -> True
                   [] c.method = "get" -> LastRefill
                   [] c.method = "release" -> None
      PROVE  calls'[w] = <<>> /\ replies'[w] = <<r>>
    <2>1. replies[w] = <<>> /\ Tail(calls[w]) = <<>> /\ Head(calls[w]) = c
        BY <1>1, <1>5, PendingIs
    <2>2. replies'[w] = Append(replies[w], r)
        BY <1>5, <2>1 DEF Serve, LockInvariant, TypesHold
    <2>3. Append(<<>>, r) = <<r>>
        OBVIOUS
    <2> QED
        BY <1>3, <2>1, <2>2, <2>3
<1>6. worker[w].pc \in Busy
    BY <1>1, SynchronousIs
<1>7. worker[w].pc # "set"
    <2>1. worker[w].pc = "set" => Head(calls[w]) = Call("set", worker[w].now)
        BY <1>1, SynchronousIs, PendingIs
    <2> QED
        BY <2>1 DEF Call
<1>8. Synchronous(w)'
    <2>1. CASE worker[w].pc = "acquire"
        <3>1. calls'[w] = <<>> /\ replies'[w] = <<True>>
            BY <1>1, <1>5, <2>1, SynchronousIs DEF Call
        <3> QED
            BY <1>1, <2>1, <3>1 DEF Synchronous, Pending, True
    <2>2. CASE worker[w].pc \in {"elapsed", "logged"}
        <3>1. calls'[w] = <<>> /\ replies'[w] = <<LastRefill>>
            BY <1>1, <1>5, <2>2, SynchronousIs DEF Call
        <3> QED
            BY <1>1, <1>2, <2>2, <3>1 DEF Synchronous, Pending, LastRefill
    <2>3. CASE worker[w].pc = "release"
        <3>1. calls'[w] = <<>> /\ replies'[w] = <<None>>
            BY <1>1, <1>5, <2>3, SynchronousIs DEF Call
        <3> QED
            BY <1>1, <2>3, <3>1 DEF Synchronous, Pending, None
    <2> QED
        BY <1>6, <1>7, <2>1, <2>2, <2>3 DEF Busy
<1>9. RefillKnown(w)' /\ (Awarded(w)' <=> Awarded(w))
    BY <1>1, <1>2, <1>7 DEF RefillKnown, Awarded, SpacingInvariant
<1> QED
    BY <1>1, <1>4, <1>8, <1>9, OnlyKeepsSpacing

\* Setting last_refill.
LEMMA ServeSetKeepsSpacing ==
    ASSUME LockInvariant, SpacingInvariant, torn = {}, NEW w \in Workers, Serve(w),
           Head(calls[w]).method = "set"
    PROVE  SpacingInvariant'
<1>1. /\ calls[w] # <<>> /\ calls' = [calls EXCEPT ![w] = Tail(@)]
      /\ UNCHANGED <<worker, grants, alarms, torn>> /\ lock = w
    BY ServeEffect
<1>2. AwardsApart /\ \A v \in Workers : Synchronous(v) /\ RefillKnown(v)
    BY DEF SpacingInvariant
<1>3. worker[w].pc = "set"
    <2>1. worker[w].pc = "acquire" => Head(calls[w]) = Call("acquire", 0)
        BY <1>1, <1>2, SynchronousIs, PendingIs
    <2>2. worker[w].pc \in {"elapsed", "logged"} => Head(calls[w]) = Call("get", 0)
        BY <1>1, <1>2, SynchronousIs, PendingIs
    <2>3. worker[w].pc = "release" => Head(calls[w]) = Call("release", 0)
        BY <1>1, <1>2, SynchronousIs, PendingIs
    <2>4. worker[w].pc \in Busy
        BY <1>1, <1>2, SynchronousIs
    <2> QED
        BY <2>1, <2>2, <2>3, <2>4 DEF Busy, Call
<1>4. /\ replies[w] = <<>> /\ Tail(calls[w]) = <<>> /\ Head(calls[w]) = Call("set", worker[w].now)
    BY <1>1, <1>2, <1>3, SynchronousIs, PendingIs
<1>5. refill' = worker[w].now /\ calls'[w] = <<>> /\ replies'[w] = <<None>>
    <2>1. refill' = worker[w].now /\ replies' = [replies EXCEPT ![w] = Append(@, None)]
        BY <1>4 DEF Serve, Call
    <2>2. Append(<<>>, None) = <<None>>
        OBVIOUS
    <2> QED
        BY <1>1, <1>4, <2>1, <2>2 DEF LockInvariant, TypesHold
<1>6. \A v \in Workers \ {w} : calls'[v] = calls[v] /\ replies'[v] = replies[v]
    BY <1>1 DEF Serve, LockInvariant, TypesHold
<1>7. \A v \in Workers \ {w} : worker[v].pc \notin {"elapsed", "logged", "set"}
    BY <1>1, <1>2, ReaderHasLock
<1>8. \A v \in Workers : worker[v].now \in Int
    BY PlacesTyped DEF LockInvariant, WorkerRecord, Past
<1>9. worker[w].now - refill >= Interval /\ refill \in Int /\ Interval \in Nat \ {0}
    BY <1>1, <1>2, <1>3, RateAssumption DEF RefillKnown, LockInvariant, TypesHold, Past
<1>10. ASSUME NEW v \in Workers
       PROVE  Synchronous(v)' /\ RefillKnown(v)'
    <2>1. CASE v = w
        <3>1. Pending(w, Call("set", worker[w].now), None)'
            BY <1>1, <1>5 DEF Pending
        <3> QED
            BY <1>1, <1>3, <1>5, <2>1, <3>1 DEF Synchronous, RefillKnown, Pending
    <2>2. CASE v # w
        <3>1. /\ worker'[v] = worker[v] /\ worker[v].pc \notin {"elapsed", "logged", "set"}
              /\ calls'[v] = calls[v] /\ replies'[v] = replies[v]
            BY <1>1, <1>6, <1>7, <2>2
        <3>2. \A c, r : Pending(v, c, r)' <=> Pending(v, c, r)
            BY <3>1 DEF Pending
        <3> QED
            BY <1>2, <3>1, <3>2 DEF Synchronous, RefillKnown
    <2> QED
        BY <2>1, <2>2
<1>11. \A v \in Workers : Awarded(v)' => v = w \/ Awarded(v)
    BY <1>1, <1>6 DEF Awarded
<1>12. ~ Awarded(w) /\ worker' = worker /\ grants' = grants
    BY <1>1, <1>3 DEF Awarded
<1>13. AwardsApart'
    <2>1. \A g \in grants : g.time \in Int /\ g.time <= refill
        BY <1>2, GrantsTyped DEF AwardsApart
    <2>2. \A g \in grants : g.time <= refill' /\ Apart(worker[w].now, g.time)
        BY <1>5, <1>8, <1>9, <2>1 DEF Apart
    <2>3. \A v \in Workers \ {w} : Awarded(v) =>
              worker[v].now <= refill' /\ Apart(worker[w].now, worker[v].now)
                /\ Apart(worker[v].now, worker[w].now)
        BY <1>2, <1>5, <1>8, <1>9 DEF AwardsApart, Apart
    <2>4. \A v \in Workers : Awarded(v)' => worker[v].now <= refill'
        BY <1>5, <1>8, <1>11, <2>3
    <2>5. \A v \in Workers, g \in grants : Awarded(v)' => Apart(worker[v].now, g.time)
        BY <1>2, <1>11, <2>2 DEF AwardsApart
    <2>6. \A u, v \in Workers :
            u # v /\ Awarded(u)' /\ Awarded(v)' => Apart(worker[u].now, worker[v].now)
        BY <1>2, <1>11, <2>3 DEF AwardsApart
    <2>7. \A g, h \in grants : g # h => Apart(g.time, h.time)
        BY <1>2 DEF AwardsApart
    <2> QED
        BY <1>12, <2>2, <2>4, <2>5, <2>6, <2>7 DEF AwardsApart, Apart
<1> QED
    BY <1>10, <1>13 DEF SpacingInvariant

\* Time passes for every worker and for what is under way alike.
LEMMA TickKeepsSpacing ==
    ASSUME LockInvariant, SpacingInvariant, torn = {}, Tick
    PROVE  SpacingInvariant'
<1>1. AwardsApart /\ \A v \in Workers : Synchronous(v) /\ RefillKnown(v)
    BY DEF SpacingInvariant
<1>2. refill' = refill - 1 /\ refill \in Int /\ refilled' = refilled
    BY DEF Tick, LockInvariant, TypesHold, Past
<1>3. ASSUME NEW v \in Workers
      PROVE  /\ worker'[v].pc = worker[v].pc /\ worker'[v].then = worker[v].then
             /\ worker'[v].elapsed = worker[v].elapsed /\ worker[v].elapsed \in Int
             /\ worker[v].now \in Int
             /\ worker[v].pc \in {"elapsed", "logged", "set", "release"} =>
                    worker'[v].now = worker[v].now - 1
    <2>1. worker[v] \in WorkerRecord /\ worker'[v] = Aged(worker[v])
        BY PlacesTyped, TickEffect DEF LockInvariant
    <2> QED
        BY <2>1, AgedTyped DEF WorkerRecord, Past
<1>4. ASSUME NEW v \in Workers
      PROVE  /\ calls'[v] = <<>> <=> calls[v] = <<>>
             /\ replies'[v] = <<>> <=> replies[v] = <<>>
    <2>1. /\ Len(<<>>) = 0 /\ \A s \in Seq(CallRecord) : s # <<>> => Len(s) # 0
          /\ \A s \in Seq(ReplyRecord) : s # <<>> => Len(s) # 0
        BY EmptySeq
    <2>2. /\ calls[v] \in Seq(CallRecord) /\ calls'[v] \in Seq(CallRecord)
          /\ replies[v] \in Seq(ReplyRecord) /\ replies'[v] \in Seq(ReplyRecord)
          /\ Len(calls'[v]) = Len(calls[v]) /\ Len(replies'[v]) = Len(replies[v])
        BY PlacesTyped, TickEffect DEF LockInvariant
    <2> QED
        BY <2>1, <2>2, Zenon
<1>5. ASSUME NEW v \in Workers, NEW c \in CallRecord, calls[v] = <<c>>
      PROVE  calls'[v] = <<IF c.method = "set" THEN Older(c) ELSE c>>
    <2>1. calls'[v] = [i \in DOMAIN calls[v] |->
            IF calls[v][i].method = "set" THEN Older(calls[v][i]) ELSE calls[v][i]]
        BY DEF Tick
    <2>2. DOMAIN <<c>> = 1..1 /\ <<c>>[1] = c
        OBVIOUS
    <2> DEFINE d == IF c.method = "set" THEN Older(c) ELSE c
    <2>3. calls'[v] = [i \in 1..1 |-> d]
        BY <1>5, <2>1, <2>2
    <2> HIDE DEF d
    <2>4. [i \in 1..1 |-> d] = <<d>>
        OBVIOUS
    <2> QED
        BY <2>3, <2>4 DEF d
<1>6. ASSUME NEW v \in Workers, NEW r \in ReplyRecord, replies[v] = <<r>>
      PROVE  replies'[v] = <<IF Timed(r) THEN Older(r) ELSE r>>
    <2>1. replies'[v] = [i \in DOMAIN replies[v] |->
            IF Timed(replies[v][i]) THEN Older(replies[v][i]) ELSE replies[v][i]]
        BY DEF Tick
    <2>2. DOMAIN <<r>> = 1..1 /\ <<r>>[1] = r
        OBVIOUS
    <2> DEFINE d == IF Timed(r) THEN Older(r) ELSE r
    <2>3. replies'[v] = [i \in 1..1 |-> d]
        BY <1>6, <2>1, <2>2
    <2> HIDE DEF d
    <2>4. [i \in 1..1 |-> d] = <<d>>
        OBVIOUS
    <2> QED
        BY <2>3, <2>4 DEF d
<1>7. /\ Older(LastRefill) = LastRefill' /\ Timed(LastRefill) /\ ~ Timed(True) /\ ~ Timed(None)
      /\ \A t \in Int : Older(Call("set", t)) = Call("set", t - 1)
    BY <1>2 DEF Older, LastRefill, Timed, Call, True, None
<1>8. ASSUME NEW v \in Workers
      PROVE  Synchronous(v)'
    <2>1. /\ worker[v] \in WorkerRecord /\ worker[v].now \in Past
          /\ True \in ReplyRecord /\ None \in ReplyRecord /\ LastRefill \in ReplyRecord
        <3>1. 0 \in Past
            BY DEF Past
        <3> QED
            BY <3>1, PlacesTyped DEF LockInvariant, TypesHold, WorkerRecord, True, None, LastRefill, ReplyRecord
    <2>2. CASE worker[v].pc = "acquire"
        <3>1. Pending(v, Call("acquire", 0), True)
            BY <1>1, <2>2, SynchronousIs
        <3>2. CASE calls[v] = <<Call("acquire", 0)>> /\ replies[v] = <<>>
            <4>1. calls'[v] = <<Call("acquire", 0)>> /\ replies'[v] = <<>>
                BY <1>4, <1>5, <3>2, CallsTyped DEF Call
            <4> QED
                BY <1>3, <2>2, <4>1 DEF Synchronous, Pending
        <3>3. CASE calls[v] = <<>> /\ replies[v] = <<True>>
            <4>1. calls'[v] = <<>> /\ replies'[v] = <<True>>
                BY <1>4, <1>6, <1>7, <2>1, <3>3
            <4> QED
                BY <1>3, <2>2, <4>1 DEF Synchronous, Pending, True
        <3> QED
            BY <3>1, <3>2, <3>3 DEF Pending
    <2>3. CASE worker[v].pc \in {"elapsed", "logged"}
        <3>1. Pending(v, Call("get", 0), LastRefill)
            BY <1>1, <2>3, SynchronousIs
        <3>2. CASE calls[v] = <<Call("get", 0)>> /\ replies[v] = <<>>
            <4>1. calls'[v] = <<Call("get", 0)>> /\ replies'[v] = <<>>
                BY <1>4, <1>5, <3>2, CallsTyped DEF Call
            <4> QED
                BY <1>3, <2>3, <4>1 DEF Synchronous, Pending
        <3>3. CASE calls[v] = <<>> /\ replies[v] = <<LastRefill>>
            <4>1. replies'[v] = <<Older(LastRefill)>>
                BY <1>6, <1>7, <2>1, <3>3
            <4>2. calls'[v] = <<>> /\ replies'[v] = <<LastRefill'>>
                BY <1>4, <1>7, <3>3, <4>1
            <4> QED
                BY <1>3, <2>3, <4>2 DEF Synchronous, Pending, LastRefill
        <3> QED
            BY <3>1, <3>2, <3>3 DEF Pending
    <2>4. CASE worker[v].pc = "set"
        <3>1. Pending(v, Call("set", worker[v].now), None)
            BY <1>1, <2>4, SynchronousIs
        <3>2. CASE calls[v] = <<Call("set", worker[v].now)>> /\ replies[v] = <<>>
            <4>1. calls'[v] = <<Older(Call("set", worker[v].now))>>
                BY <1>5, <2>1, <3>2, CallsTyped DEF Call
            <4>2. calls'[v] = <<Call("set", worker'[v].now)>> /\ replies'[v] = <<>>
                BY <1>3, <1>4, <1>7, <2>4, <3>2, <4>1
            <4> QED
                BY <1>3, <2>4, <4>2 DEF Synchronous, Pending
        <3>3. CASE calls[v] = <<>> /\ replies[v] = <<None>>
            <4>1. calls'[v] = <<>> /\ replies'[v] = <<None>>
                BY <1>4, <1>6, <1>7, <2>1, <3>3
            <4> QED
                BY <1>3, <2>4, <4>1 DEF Synchronous, Pending, None
        <3> QED
            BY <3>1, <3>2, <3>3 DEF Pending
    <2>5. CASE worker[v].pc = "release"
        <3>1. Pending(v, Call("release", 0), None)
            BY <1>1, <2>5, SynchronousIs
        <3>2. CASE calls[v] = <<Call("release", 0)>> /\ replies[v] = <<>>
            <4>1. calls'[v] = <<Call("release", 0)>> /\ replies'[v] = <<>>
                BY <1>4, <1>5, <3>2, CallsTyped DEF Call
            <4> QED
                BY <1>3, <2>5, <4>1 DEF Synchronous, Pending
        <3>3. CASE calls[v] = <<>> /\ replies[v] = <<None>>
            <4>1. calls'[v] = <<>> /\ replies'[v] = <<None>>
                BY <1>4, <1>6, <1>7, <2>1, <3>3
            <4> QED
                BY <1>3, <2>5, <4>1 DEF Synchronous, Pending, None
        <3> QED
            BY <3>1, <3>2, <3>3 DEF Pending
    <2>6. CASE worker[v].pc \notin Busy
        <3>1. calls'[v] = <<>> /\ replies'[v] = <<>>
            BY <1>1, <1>4, <2>6, SynchronousIs
        <3> QED
            BY <1>3, <2>6, <3>1 DEF Synchronous, Busy
    <2> QED
        BY <2>2, <2>3, <2>4, <2>5, <2>6 DEF Busy
<1>9. ASSUME NEW v \in Workers
      PROVE  RefillKnown(v)'
    <2>1. worker[v].pc = "logged" => worker[v].elapsed = worker[v].now - refill
        BY <1>1 DEF RefillKnown
    <2>2. worker[v].pc = "set" =>
            IF calls[v] = <<>> THEN worker[v].now = refill ELSE worker[v].now - refill >= Interval
        BY <1>1 DEF RefillKnown
    <2>3. worker'[v].pc = "logged" => worker'[v].elapsed = worker'[v].now - refill'
        BY <1>2, <1>3, <2>1
    <2>4. worker'[v].pc = "set" =>
            IF calls'[v] = <<>> THEN worker'[v].now = refill' ELSE worker'[v].now - refill' >= Interval
        BY <1>2, <1>3, <1>4, <2>2, RateAssumption
    <2> QED
        BY <2>3, <2>4 DEF RefillKnown
<1>10. ASSUME NEW v \in Workers
       PROVE  Awarded(v)' => Awarded(v) /\ worker'[v].now = worker[v].now - 1
    BY <1>3, <1>4 DEF Awarded
<1>11. ASSUME NEW g \in grants'
       PROVE  \E h \in grants : g = Older(h) /\ g.time = h.time - 1
    <2>1. PICK h \in grants : g = Older(h)
        BY <1>11 DEF Tick
    <2>2. h \in GrantRecord
        BY DEF LockInvariant, TypesHold
    <2> QED
        BY <2>1, <2>2, OlderTyped
<1>12. /\ \A g \in grants : g.time \in Int
       /\ \A s, t \in Int : Apart(s, t) => Apart(s - 1, t - 1)
    BY RateAssumption, GrantsTyped DEF Apart
<1>13. AwardsApart'
    <2>1. \A g \in grants' : g.time <= refill'
        BY <1>1, <1>2, <1>11, <1>12 DEF AwardsApart
    <2>2. \A v \in Workers : Awarded(v)' => worker'[v].now <= refill'
        BY <1>1, <1>2, <1>3, <1>10 DEF AwardsApart
    <2>3. \A g, h \in grants' : g # h => Apart(g.time, h.time)
        BY <1>1, <1>11, <1>12 DEF AwardsApart
    <2>4. \A v \in Workers, g \in grants' : Awarded(v)' => Apart(worker'[v].now, g.time)
        BY <1>1, <1>3, <1>10, <1>11, <1>12 DEF AwardsApart
    <2>5. \A u, v \in Workers :
            u # v /\ Awarded(u)' /\ Awarded(v)' => Apart(worker'[u].now, worker'[v].now)
        BY <1>1, <1>3, <1>10, <1>12 DEF AwardsApart
    <2> QED
        BY <2>1, <2>2, <2>3, <2>4, <2>5 DEF AwardsApart, Apart
<1> QED
    BY <1>8, <1>9, <1>13 DEF SpacingInvariant

LEMMA NextKeepsSpacing ==
    ASSUME LockInvariant, SpacingInvariant, [Next]_vars
    PROVE  SpacingInvariant'
<1> SUFFICES ASSUME torn' = {}
             PROVE  SpacingInvariant'
    BY DEF SpacingInvariant
<1>1. CASE UNCHANGED vars
    <2>1. LastRefill' = LastRefill
        BY <1>1 DEF vars, LastRefill
    <2> QED
        BY <1>1, <2>1 DEF vars, SpacingInvariant, Synchronous, Pending, RefillKnown, AwardsApart, Awarded, Apart
<1>2. ASSUME NEW w \in Workers, WorkerStep(w)
      PROVE  SpacingInvariant'
    <2>1. torn = {}
        BY <1>2 DEF WorkerStep, Download, Locked, Elapsed, Logged, WakeUp, Granted, Released, Reraises,
                    Swallows, Answered, Retry, LocalUnchanged
    <2> QED
        BY <1>2, <2>1, StepKeepsSpacing
<1>3. ASSUME NEW w \in Workers, Serve(w)
      PROVE  SpacingInvariant'
    BY <1>3, ServeOtherKeepsSpacing, ServeSetKeepsSpacing DEF Serve
<1>4. CASE Tick
    BY <1>4, TickKeepsSpacing DEF Tick
<1> QED
    BY <1>1, <1>2, <1>3, <1>4, AlarmKeepsSpacing DEF Next

LEMMA InitSpacing == Init => SpacingInvariant
<1> SUFFICES ASSUME Init
             PROVE  SpacingInvariant
    OBVIOUS
<1>1. \A w \in Workers : worker[w].pc = "idle" /\ calls[w] = <<>> /\ replies[w] = <<>>
    BY DEF Init, Resting
<1>2. \A w \in Workers : Synchronous(w) /\ RefillKnown(w) /\ ~ Awarded(w)
    BY <1>1 DEF Synchronous, RefillKnown, Awarded
<1>3. grants = {}
    BY DEF Init
<1> QED
    BY <1>2, <1>3 DEF SpacingInvariant, AwardsApart

LEMMA SpacingAlways == Spec => [](LockInvariant /\ SpacingInvariant)
<1>1. Init => LockInvariant /\ SpacingInvariant
    BY InitLock, InitSpacing
<1>2. LockInvariant /\ SpacingInvariant /\ [Next]_vars => LockInvariant' /\ SpacingInvariant'
    BY NextKeepsLock, NextKeepsSpacing
<1> QED
    BY <1>1, <1>2, PTL DEF Spec

\* Throttler.py:17-29: requests take their turns 1 / request_per_second apart,
\* whatever the order in which workers come and the manager serves them, and are
\* let through as far apart, less what the earlier one is held up, unless an alarm
\* interrupts a call of the manager.
THEOREM SpacingCorrect == Spec => []Spacing
<1>1. LockInvariant /\ SpacingInvariant => Spacing
    <2> SUFFICES ASSUME LockInvariant, SpacingInvariant, torn = {},
                        NEW g \in grants, NEW h \in grants, g # h, g.time <= h.time
                 PROVE  /\ h.time - g.time >= Interval
                        /\ Passed(h) - Passed(g) >= Interval - g.delay
        BY DEF Spacing
    <2>1. /\ g.time \in Int /\ h.time \in Int /\ g.delay \in Nat /\ h.delay \in Nat
          /\ Interval \in Nat \ {0}
        BY GrantsTyped, RateAssumption
    <2>2. Apart(g.time, h.time)
        BY DEF SpacingInvariant, AwardsApart
    <2> QED
        BY <2>1, <2>2 DEF Apart, Passed
<1> QED
    BY <1>1, SpacingAlways, PTL

----------------------------------------------------------------------------
(* From distances to the rate *)

\* A time of a window of m intervals of n ticks falls into one of them.
LEMMA QuotientInRange ==
    ASSUME NEW n \in Nat \ {0}, NEW m \in Nat, NEW x \in 0..(m * n - 1)
    PROVE  x \div n \in 0..(m - 1)
<1> DEFINE q == x \div n
<1>1. q \in Int /\ n * q <= x /\ x < n * q + n
    OBVIOUS
<1> HIDE DEF q
<1>2. n * q < m * n
    BY <1>1
<1>3. q < m
    <2> SUFFICES ASSUME q >= m PROVE FALSE
        BY <1>1
    <2>1. n * q >= n * m
        BY <1>1
    <2> QED
        BY <1>1, <1>2, <2>1
<1>4. q >= 0
    <2> SUFFICES ASSUME q <= -1 PROVE FALSE
        BY <1>1
    <2>1. n * q <= n * (-1)
        BY <1>1
    <2> QED
        BY <1>1, <2>1
<1> QED
    BY <1>1, <1>3, <1>4 DEF q

\* Two times that are an interval apart fall into different ones.
LEMMA QuotientsDiffer ==
    ASSUME NEW n \in Nat \ {0}, NEW x \in Nat, NEW y \in Nat, x - y >= n
    PROVE  x \div n # y \div n
<1> DEFINE q == x \div n
           p == y \div n
<1>1. q \in Int /\ n * q <= x /\ x < n * q + n
    OBVIOUS
<1>2. p \in Int /\ n * p <= y /\ y < n * p + n
    OBVIOUS
<1> HIDE DEF q, p
<1> QED
    BY <1>1, <1>2 DEF q, p

\* Requests that are held up for d at most take their turns in a window of a
\* second and d, which has room for k of them.
LEMMA WindowFilled ==
    ASSUME LockInvariant, SpacingInvariant, torn = {}, NEW g \in grants,
           NEW d \in Nat, NEW k \in Nat, Second + d <= k * Interval
    PROVE  Cardinality(LetThrough(g, d)) <= k
<1> DEFINE first == Passed(g) - d
           window == LetThrough(g, d)
           place == [h \in window |-> (h.time - first) \div Interval]
<1>1. /\ Interval \in Nat \ {0} /\ Rate \in Nat \ {0} /\ Second \in Int
      /\ Passed(g) \in Int /\ first \in Int
      /\ \A h, l \in grants : h # l => Apart(h.time, l.time)
    BY GrantsTyped, RateAssumption DEF SpacingInvariant, AwardsApart, Second, Passed
<1>2. ASSUME NEW h \in window
      PROVE  h \in grants /\ h.time \in Int /\ h.time - first \in 0..(Second + d - 1)
    <2>1. /\ h \in grants /\ h.delay <= d /\ Passed(h) \in Passed(g)..(Passed(g) + Second - 1)
          /\ h.time \in Int /\ h.delay \in Nat /\ Passed(h) = h.time + h.delay
        BY GrantsTyped DEF LetThrough, Passed
    <2> QED
        BY <1>1, <2>1
<1> HIDE DEF first, window
<1>3. ASSUME NEW h \in window
      PROVE  (h.time - first) \div Interval \in 0..(k - 1)
    <2> DEFINE x == h.time - first
    <2>1. x \in 0..(k * Interval - 1)
        BY <1>1, <1>2
    <2> HIDE DEF x
    <2>2. x \div Interval \in 0..(k - 1)
        BY <1>1, <2>1, QuotientInRange
    <2> QED
        BY <2>2 DEF x
<1>4. ASSUME NEW h \in window, NEW l \in window, h # l
      PROVE  (h.time - first) \div Interval # (l.time - first) \div Interval
    <2> DEFINE x == h.time - first
               y == l.time - first
    <2>1. x \in Nat /\ y \in Nat
        BY <1>1, <1>2
    <2>2. x - y >= Interval \/ y - x >= Interval
        <3>1. Apart(h.time, l.time)
            BY <1>1, <1>2, <1>4
        <3> QED
            BY <1>1, <1>2, <3>1 DEF Apart
    <2> HIDE DEF x, y
    <2>3. x \div Interval # y \div Interval
        BY <1>1, <2>1, <2>2, QuotientsDiffer
    <2> QED
        BY <2>3 DEF x, y
<1>5. place \in Injection(window, 0..(k - 1))
    <2>1. place \in [window -> 0..(k - 1)]
        BY <1>3
    <2>2. \A h, l \in window : place[h] = place[l] => h = l
        BY <1>4
    <2> HIDE DEF place
    <2> QED
        BY <2>1, <2>2 DEF Injection, IsInjective
<1>6. IsFiniteSet(0..(k - 1)) /\ Cardinality(0..(k - 1)) = k
    <2> DEFINE l == k - 1
    <2>1. 0 \in Int /\ l \in Int /\ l - 0 + 1 = k /\ (0 > l => k = 0)
        OBVIOUS
    <2> HIDE DEF l
    <2>2. IsFiniteSet(0..l) /\ Cardinality(0..l) = IF 0 > l THEN 0 ELSE l - 0 + 1
        BY <2>1, FS_Interval
    <2> QED
        BY <2>1, <2>2 DEF l
<1> HIDE DEF place
<1>7. Cardinality(window) <= Cardinality(0..(k - 1))
    BY <1>5, <1>6, FS_Injection
<1> QED
    BY <1>6, <1>7 DEF window

\* src/proxion/SourceCrawler.py:102: unless an alarm interrupts a call of the
\* manager, no more than request_per_second requests that are not held up after
\* their turn are let through in any second, and of those held up for d at most no
\* more than turns fit into a second and d, however many workers there are and
\* however often they retry.
THEOREM RateCorrect ==
    Spec => [](torn = {} =>
                  /\ RateLimited
                  /\ \A d, k \in Nat : Second + d <= k * Interval =>
                        \A g \in grants : Cardinality(LetThrough(g, d)) <= k)
<1>1. LockInvariant /\ SpacingInvariant =>
        (torn = {} =>
            /\ RateLimited
            /\ \A d, k \in Nat : Second + d <= k * Interval =>
                  \A g \in grants : Cardinality(LetThrough(g, d)) <= k)
    <2> SUFFICES ASSUME LockInvariant, SpacingInvariant, torn = {}
                 PROVE  /\ RateLimited
                        /\ \A d, k \in Nat : Second + d <= k * Interval =>
                              \A g \in grants : Cardinality(LetThrough(g, d)) <= k
        OBVIOUS
    <2>1. \A d, k \in Nat : Second + d <= k * Interval =>
              \A g \in grants : Cardinality(LetThrough(g, d)) <= k
        BY WindowFilled
    <2>2. 0 \in Nat /\ Rate \in Nat /\ Second + 0 <= Rate * Interval
        BY RateAssumption DEF Second
    <2>3. RateLimited
        BY <2>1, <2>2 DEF RateLimited
    <2> QED
        BY <2>1, <2>3
<1> QED
    BY <1>1, SpacingAlways, PTL

=============================================================================
