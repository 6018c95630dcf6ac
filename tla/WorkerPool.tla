----------------------------- MODULE WorkerPool -----------------------------
(***************************************************************************)
(* The sidecar's one geometry worker (src/sidecar/server.py): a process    *)
(* pool of one, used by the operations of several connections, thrown away *)
(* and made anew when an operation is cancelled, stalls or times out, when *)
(* the worker crashes, and when it does not come up at all.                *)
(*                                                                         *)
(* Three kinds of actors step here: the asyncio loop (one handler at a     *)
(* time), the executor's manager thread, which fails the futures of a dead *)
(* worker and posts what became of each to the loop, and the worker.       *)
(***************************************************************************)
EXTENDS Integers, Sequences, FiniteSets

CONSTANTS
    Conn,         \* connections; each serializes its own operations
    Kinds,        \* the kinds of operations asked for
    MaxAttempts,  \* MAX_INIT_ATTEMPTS: bring-ups that fail before giving up
    MaxOps,       \* bound: operations asked for
    MaxTicks,     \* bound: progress a job reports, and then ends or hangs
    MaxDeaths,    \* bound: workers that do not come up, or crash
    MaxCancels,   \* bound: cancels and disconnections
    Null

\* "rebuild" is supervised by progress, "quick" by a deadline; an "import" is
\* supervised by progress and, when the worker crashes, tried once more in a
\* simpler way.
Kind == {"rebuild", "import", "quick"}

Outcome == {"result", "cancelled", "crashed", "stopped", "unavailable", "stalled"}

Id == 1 .. MaxOps

\* Pools are numbered from one.
Gen == Nat \ {0}

Operation == [id : Id, kind : Kind, attempt : {1, 2}, gen : Gen, cancelled : BOOLEAN,
              moved : BOOLEAN, phase : {"waiting", "retry", "sending"}, outcome : Outcome \cup {Null},
              died : BOOLEAN]

\* A ProcessPoolExecutor: its worker, whether its manager has found the worker
\* dead, the future of its warm-up, and the jobs submitted.  The first one runs
\* once it has reported progress.
Executor == [gen : Gen, worker : {"starting", "up", "dead"}, broken : BOOLEAN,
             warm : {"pending", "ok", "failed"}, jobs : Seq(Id), ticks : 0 .. MaxTicks]

Event == [on : {"warm"}, gen : Gen, ok : BOOLEAN] \cup [on : {"job"}, id : Id, ok : BOOLEAN]

ASSUME PoolAssumption ==
    /\ Kinds \subseteq Kind
    /\ MaxAttempts \in Nat \ {0}
    /\ MaxOps \in Nat
    /\ MaxTicks \in Nat \ {0}
    /\ MaxDeaths \in Nat
    /\ MaxCancels \in Nat
    /\ Null \notin Operation
    /\ Null \notin Executor
    /\ Null \notin Outcome

VARIABLES
    gen,        \* _pool_gen
    ex,         \* _pool
    dying,      \* executors replaced before their manager failed their futures
    failed,     \* _failed_gens: consecutive bring-ups that failed
    reaped,     \* _reaped_gens: pools that were killed on purpose
    envBroken,  \* _env_broken: the engine is given up for the session
    everUp,     \* _ever_came_up
    events,     \* futures that resolved and whose waiters have not run yet
    op,         \* the operation each connection has in flight, or Null
    nextId,     \* operations asked for so far, plus one
    cancels,    \* cancels and disconnections so far
    deaths      \* history: generations whose worker died of itself

vars == <<gen, ex, dying, failed, reaped, envBroken, everUp, events, op, nextId,
           cancels, deaths>>

poolVars == <<gen, ex, dying>>
initVars == <<failed, envBroken, everUp>>

TypeOK ==
    /\ gen \in Gen
    /\ ex \in Executor \cup {Null}
    /\ dying \subseteq Executor
    /\ failed \subseteq Gen
    /\ reaped \subseteq Gen
    /\ envBroken \in BOOLEAN
    /\ everUp \in BOOLEAN
    /\ events \in Seq(Event)
    /\ op \in [Conn -> Operation \cup {Null}]
    /\ nextId \in 1 .. MaxOps + 1
    /\ cancels \in 0 .. MaxCancels
    /\ deaths \subseteq Gen

-----------------------------------------------------------------------------
(* Replacing the pool.                                                     *)

Fresh(g) == [gen |-> g, worker |-> "starting", broken |-> FALSE, warm |-> "pending",
             jobs |-> <<>>, ticks |-> 0]

\* Mutant of NewPool: the generation is not counted.
NewPoolSameGeneration(latched) ==
    /\ dying' = IF ex # Null /\ ~ex.broken
                THEN dying \cup {[ex EXCEPT !.worker = "dead"]} ELSE dying
    /\ ex' = IF latched THEN Null ELSE Fresh(gen)
    /\ gen' = gen

\* _new_pool, assigned to _pool: none once the environment is given up.
NewPool(latched) ==
    /\ dying' = IF ex # Null /\ ~ex.broken
                THEN dying \cup {[ex EXCEPT !.worker = "dead"]} ELSE dying
    /\ ex' = IF latched THEN Null ELSE Fresh(gen + 1)
    /\ gen' = IF latched THEN gen ELSE gen + 1

\* Mutant of Kill: the generation is not marked as killed on purpose.
KillUnmarked ==
    /\ UNCHANGED reaped
    /\ NewPool(envBroken)

\* Mutant of Kill: jobs past the first are cancelled, and nobody is told
\* (shutdown(cancel_futures=True)).
KillCancelsQueued ==
    /\ reaped' = reaped \cup {gen}
    /\ dying' = IF ex # Null /\ ~ex.broken
                THEN dying \cup {[ex EXCEPT !.worker = "dead",
                                           !.jobs = IF @ = <<>> THEN @ ELSE <<Head(@)>>]}
                ELSE dying
    /\ ex' = IF envBroken THEN Null ELSE Fresh(gen + 1)
    /\ gen' = IF envBroken THEN gen ELSE gen + 1

\* _kill_pool and the new pool behind it.
Kill ==
    /\ reaped' = reaped \cup {gen}
    /\ NewPool(envBroken)

\* Mutant of NoteInitFailure: a pool killed during its warm-up counts.
NoteInitFailureOfKilled(g) ==
    IF g \in failed
    THEN UNCHANGED <<failed, envBroken>>
    ELSE /\ failed' = failed \cup {g}
         /\ envBroken' = (envBroken \/ (Cardinality(failed') >= MaxAttempts /\ ~everUp))

\* _note_init_failure.
NoteInitFailure(g) ==
    IF g \in failed \cup reaped
    THEN UNCHANGED <<failed, envBroken>>
    ELSE /\ failed' = failed \cup {g}
         /\ envBroken' = (envBroken \/ (Cardinality(failed') >= MaxAttempts /\ ~everUp))

\* _worker_came_up: only the current generation's warm-up is known.
CameUp(g) == ex # Null /\ ex.gen = g /\ ex.warm = "ok"

\* _on_broken: what an operation of generation g is told when its future broke.
OnBroken(g, o) ==
    \/ /\ g \in reaped
       /\ o = "stopped"
       /\ UNCHANGED <<poolVars, failed, envBroken>>
    \/ /\ g \notin reaped
       /\ CameUp(g)
       /\ o = "crashed"
       /\ NewPool(envBroken)
       /\ UNCHANGED <<failed, envBroken>>
    \/ /\ g \notin reaped
       /\ ~CameUp(g)
       /\ g # gen
       /\ o = "crashed"
       /\ UNCHANGED <<poolVars, failed, envBroken>>
    \/ /\ g \notin reaped
       /\ ~CameUp(g)
       /\ g = gen
       /\ o = "unavailable"
       /\ NoteInitFailure(g)
       /\ NewPool(envBroken')

-----------------------------------------------------------------------------
(* The loop: an operation from its start to its reply.                     *)

\* Between a try that crashed and the next there is no await.
LoopFree == ~\E c \in Conn : op[c] # Null /\ op[c].phase = "retry"

Waiting(c) == op[c] # Null /\ op[c].phase = "waiting"

\* What follows an outcome: the reply, or an import's second try.
After(o, outcome) ==
    IF outcome = "crashed" /\ o.kind = "import" /\ o.attempt = 1
    THEN [o EXCEPT !.phase = "retry", !.moved = FALSE]
    ELSE [o EXCEPT !.phase = "sending", !.outcome = outcome, !.moved = FALSE]

Settle(c, o, outcome) == op' = [op EXCEPT ![c] = After(o, outcome)]

\* _run and _run_stall, up to the first await.
Submit(c, o) ==
    \/ /\ envBroken
       /\ Settle(c, o, "unavailable")
       /\ UNCHANGED <<poolVars, initVars>>
    \/ /\ ~envBroken
       /\ ex.broken
       /\ \E outcome \in Outcome :
             OnBroken(gen, outcome) /\ Settle(c, [o EXCEPT !.gen = gen], outcome)
       /\ UNCHANGED everUp
    \/ /\ ~envBroken
       /\ ~ex.broken
       /\ ex' = [ex EXCEPT !.jobs = Append(@, o.id)]
       /\ op' = [op EXCEPT ![c] = [o EXCEPT !.gen = gen, !.phase = "waiting"]]
       /\ UNCHANGED <<gen, dying, initVars>>

\* _dispatch, under the connection's lock.
Start(c, kind) ==
    /\ LoopFree
    /\ op[c] = Null
    /\ nextId <= MaxOps
    /\ nextId' = nextId + 1
    /\ Submit(c, [id |-> nextId, kind |-> kind, attempt |-> 1, gen |-> gen,
                  cancelled |-> FALSE, phase |-> "waiting", moved |-> FALSE,
                  outcome |-> Null, died |-> FALSE])
    /\ UNCHANGED <<reaped, events, cancels, deaths>>

Retry(c) ==
    /\ op[c] # Null
    /\ op[c].phase = "retry"
    /\ Submit(c, [op[c] EXCEPT !.attempt = 2, !.died = FALSE])
    /\ UNCHANGED <<reaped, events, nextId, cancels, deaths>>

Send(c) ==
    /\ LoopFree
    /\ op[c] # Null
    /\ op[c].phase = "sending"
    /\ op' = [op EXCEPT ![c] = Null]
    /\ UNCHANGED <<poolVars, initVars, reaped, events, nextId, cancels, deaths>>

\* A poll of an operation supervised by progress: the clock starts anew.
Look(c) ==
    /\ LoopFree
    /\ Waiting(c)
    /\ op[c].moved
    /\ ~op[c].cancelled
    /\ op' = [op EXCEPT ![c].moved = FALSE]
    /\ UNCHANGED <<poolVars, initVars, reaped, events, nextId, cancels, deaths>>

\* A poll, or a deadline, that finds the operation cancelled.
SeeCancel(c) ==
    /\ LoopFree
    /\ Waiting(c)
    /\ op[c].cancelled
    /\ Settle(c, op[c], "cancelled")
    /\ UNCHANGED <<poolVars, initVars, reaped, events, nextId, cancels, deaths>>

\* The warm-up ahead of the operation's job holds its clock.
WarmPending(g) == \E e \in dying \cup ({ex} \ {Null}) : e.gen = g /\ e.warm = "pending"

\* Mutant of Overdue: a job that has not started cannot have stalled.
OverdueStarted(c) ==
    \/ op[c].kind = "quick"
    \/ /\ ~op[c].moved
       /\ ~WarmPending(op[c].gen)
       /\ ex # Null /\ ex.jobs # <<>> /\ Head(ex.jobs) = op[c].id /\ ex.ticks > 0

\* No progress for the length of the stall budget, or the deadline passed.
Overdue(c) ==
    \/ op[c].kind = "quick"
    \/ ~op[c].moved /\ ~WarmPending(op[c].gen)

\* The reaper kills the CURRENT pool, and whatever runs in it.
Reap(c) ==
    /\ LoopFree
    /\ Waiting(c)
    /\ ~op[c].cancelled
    /\ Overdue(c)
    /\ Kill
    /\ Settle(c, op[c], "stalled")
    /\ UNCHANGED <<initVars, events, nextId, cancels, deaths>>

\* A cancel is heard while the operation runs and while its reply is sent: the
\* stream of a rebuild stops, if it has not just ended.
Cancel(c) ==
    /\ LoopFree
    /\ op[c] # Null
    /\ cancels < MaxCancels
    /\ cancels' = cancels + 1
    /\ \/ ex # Null /\ Kill
       \/ ex = Null /\ UNCHANGED <<poolVars, reaped>>
    /\ \E outcome \in {op[c].outcome, "cancelled"} :
          /\ outcome # op[c].outcome => op[c].kind = "rebuild" /\ op[c].outcome = "result"
          /\ op' = [op EXCEPT ![c].cancelled = TRUE, ![c].outcome = outcome]
    /\ UNCHANGED <<initVars, events, nextId, deaths>>

\* The socket closed: the task is cancelled and the job is nobody's.  A job with
\* a deadline that is still in the executor's hands is taken back.
Disconnect(c) ==
    /\ LoopFree
    /\ op[c] # Null
    /\ cancels < MaxCancels
    /\ cancels' = cancels + 1
    /\ op' = [op EXCEPT ![c] = Null]
    /\ \/ UNCHANGED ex
       \/ /\ Waiting(c) /\ op[c].kind = "quick"
          /\ ex # Null
          /\ \E i \in 2 .. Len(ex.jobs) :
                /\ ex.jobs[i] = op[c].id
                /\ ex' = [ex EXCEPT !.jobs = SubSeq(@, 1, i - 1) \o SubSeq(@, i + 1, Len(@))]
    /\ UNCHANGED <<gen, dying, initVars, reaped, events, nextId, deaths>>

-----------------------------------------------------------------------------
(* The loop: futures that resolved.                                        *)

\* _watch_warmup.
WarmupSeen ==
    /\ LoopFree
    /\ events # <<>>
    /\ Head(events).on = "warm"
    /\ events' = Tail(events)
    /\ \/ /\ Head(events).ok
          /\ everUp' = TRUE
          /\ failed' = {}
          /\ UNCHANGED envBroken
       \/ /\ ~Head(events).ok
          /\ NoteInitFailure(Head(events).gen)
          /\ UNCHANGED everUp
    /\ UNCHANGED <<poolVars, reaped, op, nextId, cancels, deaths>>

\* Mutant of JobOutcome: a broken future is looked into before the token is.
JobOutcomeBlind(o, ok, outcome) ==
    \/ /\ ok
       /\ outcome = IF o.cancelled THEN "cancelled" ELSE "result"
       /\ UNCHANGED <<poolVars, failed, envBroken>>
    \/ /\ ~ok
       /\ OnBroken(o.gen, outcome)

\* The cancel token is asked first, on every way out.
JobOutcome(o, ok, outcome) ==
    \/ /\ ok \/ o.cancelled
       /\ outcome = IF o.cancelled THEN "cancelled" ELSE "result"
       /\ UNCHANGED <<poolVars, failed, envBroken>>
    \/ /\ ~ok /\ ~o.cancelled
       /\ OnBroken(o.gen, outcome)

JobSeen ==
    /\ LoopFree
    /\ events # <<>>
    /\ Head(events).on = "job"
    /\ events' = Tail(events)
    /\ \/ \E c \in Conn, outcome \in Outcome :
             /\ Waiting(c)
             /\ op[c].id = Head(events).id
             /\ JobOutcome(op[c], Head(events).ok, outcome)
             /\ Settle(c, op[c], outcome)
       \/ /\ ~\E c \in Conn : Waiting(c) /\ op[c].id = Head(events).id
          /\ UNCHANGED <<poolVars, failed, envBroken, op>>
    /\ UNCHANGED <<everUp, reaped, nextId, cancels, deaths>>

-----------------------------------------------------------------------------
(* The worker, and the executor's manager thread.                          *)

\* Starting a process takes far longer than the loop takes to run the callbacks
\* that are due.
WorkerStarts ==
    /\ events = <<>>
    /\ ex # Null
    /\ ex.worker = "starting"
    /\ ex' = [ex EXCEPT !.worker = "up", !.warm = "ok"]
    /\ events' = <<[on |-> "warm", gen |-> ex.gen, ok |-> TRUE]>>
    /\ UNCHANGED <<gen, dying, initVars, reaped, op, nextId, cancels, deaths>>

BringUpFails ==
    /\ events = <<>>
    /\ ex # Null
    /\ ex.worker = "starting"
    /\ Cardinality(deaths) < MaxDeaths
    /\ ex' = [ex EXCEPT !.worker = "dead"]
    /\ deaths' = deaths \cup {ex.gen}
    /\ UNCHANGED <<gen, dying, initVars, reaped, events, op, nextId, cancels>>

\* _job_entry, and then the ticks of the job itself.
Tick ==
    /\ ex # Null
    /\ ex.worker = "up"
    /\ ex.jobs # <<>>
    /\ ex.ticks < MaxTicks
    /\ ex' = [ex EXCEPT !.ticks = @ + 1]
    /\ op' = [c \in Conn |-> IF Waiting(c) /\ op[c].kind # "quick"
                             THEN [op[c] EXCEPT !.moved = TRUE] ELSE op[c]]
    /\ UNCHANGED <<gen, dying, initVars, reaped, events, nextId, cancels, deaths>>

JobEnds ==
    /\ ex # Null
    /\ ex.worker = "up"
    /\ ex.ticks > 0
    /\ ex' = [ex EXCEPT !.jobs = Tail(@), !.ticks = 0]
    /\ events' = Append(events, [on |-> "job", id |-> Head(ex.jobs), ok |-> TRUE])
    /\ UNCHANGED <<gen, dying, initVars, reaped, op, nextId, cancels, deaths>>

\* OCCT crashes, or the system kills the worker, at work or idle.
Crash ==
    /\ ex # Null
    /\ ex.worker = "up"
    /\ Cardinality(deaths) < MaxDeaths
    /\ ex' = [ex EXCEPT !.worker = "dead"]
    /\ deaths' = deaths \cup {ex.gen}
    /\ op' = [c \in Conn |->
                IF Waiting(c) /\ ex.ticks > 0 /\ Head(ex.jobs) = op[c].id
                THEN [op[c] EXCEPT !.died = TRUE] ELSE op[c]]
    /\ UNCHANGED <<gen, dying, initVars, reaped, events, nextId, cancels>>

\* The pending futures of a dead worker, in the order they were submitted.
Broken(e) ==
    (IF e.warm = "pending" THEN <<[on |-> "warm", gen |-> e.gen, ok |-> FALSE]>> ELSE <<>>)
        \o [i \in DOMAIN e.jobs |-> [on |-> "job", id |-> e.jobs[i], ok |-> FALSE]]

\* The manager of the current pool finds its worker dead.
PoolBreaks ==
    /\ ex # Null
    /\ ex.worker = "dead"
    /\ ~ex.broken
    /\ events' = events \o Broken(ex)
    /\ ex' = [ex EXCEPT !.broken = TRUE, !.jobs = <<>>, !.ticks = 0,
                        !.warm = IF @ = "pending" THEN "failed" ELSE @]
    /\ UNCHANGED <<gen, dying, initVars, reaped, op, nextId, cancels, deaths>>

\* The manager of a pool that was replaced does.
OldPoolBreaks ==
    /\ \E e \in dying :
          /\ dying' = dying \ {e}
          /\ events' = events \o Broken(e)
    /\ UNCHANGED <<gen, ex, initVars, reaped, op, nextId, cancels, deaths>>

-----------------------------------------------------------------------------
Init ==
    /\ gen = 1
    /\ ex = Fresh(1)
    /\ dying = {}
    /\ failed = {}
    /\ reaped = {}
    /\ envBroken = FALSE
    /\ everUp = FALSE
    /\ events = <<>>
    /\ op = [c \in Conn |-> Null]
    /\ nextId = 1
    /\ cancels = 0
    /\ deaths = {}

Supervise(c) == Look(c) \/ SeeCancel(c) \/ Reap(c)

Next ==
    \/ \E c \in Conn, kind \in Kinds : Start(c, kind)
    \/ \E c \in Conn : Retry(c) \/ Send(c) \/ Supervise(c) \/ Cancel(c) \/ Disconnect(c)
    \/ WarmupSeen
    \/ JobSeen
    \/ WorkerStarts
    \/ BringUpFails
    \/ Tick
    \/ JobEnds
    \/ Crash
    \/ PoolBreaks
    \/ OldPoolBreaks

Spec == Init /\ [][Next]_vars

\* The loop runs, polls and sends; managers notice a dead worker; a worker that
\* is started comes up or dies.  Nothing makes a job end.
Fairness ==
    /\ WF_vars(WarmupSeen \/ JobSeen)
    /\ WF_vars(PoolBreaks)
    /\ WF_vars(OldPoolBreaks)
    /\ WF_vars(WorkerStarts \/ BringUpFails)
    /\ \A c \in Conn : WF_vars(Retry(c)) /\ WF_vars(Send(c)) /\ WF_vars(Supervise(c))

FairSpec == Spec /\ Fairness

-----------------------------------------------------------------------------
(* Properties.                                                             *)

\* Generations tell the pools apart, and there is a pool unless the engine was
\* given up.
PoolsInOrder ==
    /\ ex = Null => envBroken
    /\ ex # Null => ex.gen = gen
    /\ \A e \in dying : e.gen <= gen /\ (ex # Null => e.gen # gen)
    /\ \A e, f \in dying : e.gen = f.gen => e = f
    /\ \A c \in Conn : Waiting(c) => op[c].gen <= gen

IInv == TypeOK /\ PoolsInOrder

Jobs(e) == {e.jobs[i] : i \in DOMAIN e.jobs}

\* The future of every operation that waits is pending in some executor or has
\* resolved: none is lost when its pool is thrown away under it.
NoOpIsStranded ==
    \A c \in Conn : Waiting(c) =>
        \/ \E e \in dying \cup ({ex} \ {Null}) : op[c].id \in Jobs(e)
        \/ \E i \in DOMAIN events : events[i].on = "job" /\ events[i].id = op[c].id

\* Whoever is told of a crash, or tried again because of one, used a worker that
\* died of itself; so did whoever is told that the engine cannot start, unless it
\* is given up: a kill on another operation's account is never blamed on the
\* kernel or on the installation.
KillsAreNotBlamed ==
    \A c \in Conn : op[c] # Null =>
        /\ op[c].phase = "retry" \/ op[c].outcome = "crashed" => op[c].gen \in deaths
        /\ op[c].outcome = "unavailable" => envBroken \/ op[c].gen \in deaths

\* The engine is given up only when its last bring-ups all failed of themselves
\* and none ever succeeded.
HealthyIsNeverGivenUp ==
    /\ failed \subseteq deaths
    /\ envBroken => ~everUp /\ Cardinality(failed) >= MaxAttempts

\* A cancelled operation is told that it was cancelled, whichever way its pool
\* went down.
CancelIsHonoured ==
    [][\A c \in Conn : (Waiting(c) /\ op[c].cancelled /\ op'[c] # Null)
          => Waiting(c)' \/ op'[c].outcome = "cancelled"]_vars

\* Every operation is answered: behind a job that hangs, behind one nobody waits
\* for any more, in a pool that was killed, crashed or never came up.
EveryOpIsAnswered == \A c \in Conn : Waiting(c) ~> ~Waiting(c)
=============================================================================
