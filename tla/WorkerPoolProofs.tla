-------------------------- MODULE WorkerPoolProofs --------------------------
(***************************************************************************)
(* WorkerPool, proved for any number of connections, operations, deaths    *)
(* and cancels: wherever a pool is thrown away, no operation is stranded,  *)
(* none is told of a crash that was not one, and the engine is given up    *)
(* only when its last bring-ups failed of themselves.                      *)
(***************************************************************************)
EXTENDS WorkerPool, FiniteSetTheorems, SequenceTheorems, TLAPS

Pools == dying \cup ({ex} \ {Null})

\* The pool of generation g has not resolved the future of this operation.
Holds(g, id) == \E e \in Pools : e.gen = g /\ id \in Jobs(e)

\* The future of this operation has resolved, or has failed, and its waiter has
\* not run.
Posted(id) == \E i \in DOMAIN events : events[i].on = "job" /\ events[i].id = id
Failed(id) ==
    \E i \in DOMAIN events : events[i].on = "job" /\ events[i].id = id /\ ~events[i].ok

\* A pool whose jobs may fail: it was killed, or died and is known to be broken.
Gone(g) ==
    \/ g \in reaped
    \/ g \in deaths /\ ~(ex # Null /\ ex.gen = g /\ ~ex.broken)

(* What the phases of a worker's life have to do with each other.          *)
WorkersInOrder ==
    /\ \A e \in dying : e.gen \in reaped
    /\ ex # Null =>
        /\ ex.ticks > 0 => ex.jobs # <<>>
        /\ ex.broken => ex.worker = "dead" /\ ex.jobs = <<>> /\ ex.warm # "pending"
        /\ ex.worker = "dead" => ex.gen \in deaths
        /\ ex.worker = "starting" => ex.warm = "pending"
        /\ ex.worker = "up" => ex.warm = "ok"
        /\ ex.warm = "failed" => ex.broken

Distinct(jobs) == \A i, j \in DOMAIN jobs : jobs[i] = jobs[j] => i = j

(* The generation tells the pools apart.                                   *)
GensInOrder ==
    /\ ex = Null => envBroken
    /\ ex # Null => ex.gen = gen
    /\ \A e \in dying : e.gen <= gen /\ (ex # Null => e.gen # gen)
    /\ \A e, f \in dying : e.gen = f.gen => e = f

\* No executor has a job twice; no two futures of an operation are due.
SubmittedOnce == \A e \in Pools : Distinct(e.jobs)
PostedOnce ==
    \A i, j \in DOMAIN events :
        events[i].on = "job" /\ events[j].on = "job" /\ events[i].id = events[j].id => i = j

(* A future is in one place.                                               *)
OnePlace ==
    /\ SubmittedOnce
    /\ PostedOnce
    /\ \A g \in Gen, id \in Id : Holds(g, id) =>
          /\ id < nextId
          /\ ~Posted(id)
          /\ \A h \in Gen : Holds(h, id) => h = g
    /\ \A id \in Id : Posted(id) => id < nextId

(* What an operation may rely on: its future is somewhere and belongs to   *)
(* the pool it was submitted to; between two tries there is none.          *)
Fits(o) ==
    /\ o.id < nextId
    /\ o.gen <= gen
    /\ o.phase = "waiting" =>
          /\ Posted(o.id) \/ \E g \in Gen : Holds(g, o.id)
          /\ \A g \in Gen : Holds(g, o.id) => g = o.gen
          /\ Failed(o.id) => Gone(o.gen)
    /\ o.phase = "retry" => ~Posted(o.id) /\ \A g \in Gen : ~Holds(g, o.id)
    /\ o.phase # "sending" => o.outcome = Null
    /\ o.phase = "retry" \/ o.outcome = "crashed" => o.gen \in deaths
    /\ o.outcome = "unavailable" => envBroken \/ o.gen \in deaths

OpsFit ==
    /\ \A c \in Conn : op[c] # Null => Fits(op[c])
    /\ \A c, d \in Conn : op[c] # Null /\ op[d] # Null /\ op[c].id = op[d].id => c = d

WarmEvent(i, ok) == events[i].on = "warm" /\ events[i].ok = ok

(* A warm-up that succeeded is the first thing the loop sees; one that     *)
(* failed was killed, or counts already, or is the current pool's.         *)
WarmUpsInOrder ==
    /\ envBroken /\ ex # Null => ex.worker # "starting"
    /\ \A i \in DOMAIN events : WarmEvent(i, TRUE) =>
          /\ i = 1
          /\ ~envBroken
          /\ ex # Null /\ ex.warm # "failed"
          /\ ex.worker = "dead" => ex.warm = "ok"
    /\ \A i \in DOMAIN events : WarmEvent(i, FALSE) =>
          \/ events[i].gen \in reaped
          \/ /\ ~WarmEvent(1, TRUE)
             /\ \/ events[i].gen \in failed
                \/ ex # Null /\ ex.gen = events[i].gen /\ ex.warm = "failed"

Strong == /\ TypeOK
          /\ GensInOrder
          /\ WorkersInOrder
          /\ OnePlace
          /\ OpsFit
          /\ WarmUpsInOrder
          /\ HealthyIsNeverGivenUp
          /\ IsFiniteSet(failed)

-----------------------------------------------------------------------------
(* Types.                                                                  *)

LEMMA NullIsNoRecord ==
    /\ \A o \in Operation : o # Null
    /\ \A e \in Executor : e # Null
BY PoolAssumption

LEMMA FreshType == ASSUME NEW g \in Gen PROVE Fresh(g) \in Executor /\ Fresh(g) # Null
<1>1. 0 \in 0 .. MaxTicks
    BY PoolAssumption
<1>2. Fresh(g) \in Executor
    BY <1>1 DEF Fresh, Executor
<1>. QED
    BY <1>2, NullIsNoRecord

LEMMA AfterIs ==
    ASSUME NEW o \in Operation, NEW outcome \in Outcome
    PROVE  /\ After(o, outcome) \in Operation
           /\ After(o, outcome) # Null
           /\ After(o, outcome).id = o.id
           /\ After(o, outcome).gen = o.gen
           /\ \/ /\ outcome = "crashed"
                 /\ After(o, outcome).phase = "retry"
                 /\ After(o, outcome).outcome = o.outcome
              \/ /\ After(o, outcome).phase = "sending"
                 /\ After(o, outcome).outcome = outcome
<1>1. After(o, outcome) \in Operation
    BY DEF After, Operation
<1>2. After(o, outcome) # Null
    BY <1>1, NullIsNoRecord
<1>. QED
    BY <1>1, <1>2 DEF After, Operation

LEMMA NewPoolType ==
    ASSUME TypeOK, NEW latched, NewPool(latched)
    PROVE  gen' \in Gen /\ ex' \in Executor \cup {Null} /\ dying' \subseteq Executor
<1>1. gen + 1 \in Gen
    BY DEF TypeOK, Gen
<1>2. gen' \in Gen /\ ex' \in Executor \cup {Null}
    BY <1>1, FreshType DEF NewPool, TypeOK
<1>3. ex # Null => [ex EXCEPT !.worker = "dead"] \in Executor
    BY DEF TypeOK, Executor
<1>. QED
    BY <1>2, <1>3 DEF NewPool, TypeOK

LEMMA NoteType ==
    ASSUME TypeOK, NEW g \in Gen, NoteInitFailure(g)
    PROVE  failed' \subseteq Gen /\ envBroken' \in BOOLEAN
<1>1. CASE g \in failed \cup reaped
    BY <1>1 DEF NoteInitFailure, TypeOK
<1>2. CASE g \notin failed \cup reaped
    <2>1. failed' = failed \cup {g}
        BY <1>2 DEF NoteInitFailure
    <2>2. envBroken' \in BOOLEAN
        BY <1>2, Zenon DEF NoteInitFailure
    <2>. QED
        BY <2>1, <2>2 DEF TypeOK
<1>. QED
    BY <1>1, <1>2

LEMMA OnBrokenType ==
    ASSUME TypeOK, NEW g \in Gen, NEW o, OnBroken(g, o)
    PROVE  /\ gen' \in Gen /\ ex' \in Executor \cup {Null} /\ dying' \subseteq Executor
           /\ failed' \subseteq Gen /\ envBroken' \in BOOLEAN
           /\ o \in Outcome
<1>1. CASE UNCHANGED <<poolVars, failed, envBroken>> /\ o \in Outcome
    BY <1>1 DEF TypeOK, poolVars
<1>2. CASE NewPool(envBroken) /\ UNCHANGED <<failed, envBroken>> /\ o = "crashed"
    BY <1>2, NewPoolType DEF TypeOK, Outcome
<1>3. CASE NoteInitFailure(g) /\ NewPool(envBroken') /\ o = "unavailable"
    BY <1>3, NewPoolType, NoteType, Zenon DEF Outcome
<1>. QED
    BY <1>1, <1>2, <1>3, Zenon DEF OnBroken, Outcome

LEMMA SettleType ==
    ASSUME TypeOK, NEW c \in Conn, NEW o \in Operation, NEW outcome \in Outcome,
           Settle(c, o, outcome)
    PROVE  op' \in [Conn -> Operation \cup {Null}]
<1>1. After(o, outcome) \in Operation
    BY AfterIs
<1>. QED
    BY <1>1 DEF Settle, TypeOK

LEMMA SubmitType ==
    ASSUME TypeOK, GensInOrder, NEW c \in Conn, NEW o \in Operation, Submit(c, o)
    PROVE  /\ gen' \in Gen /\ ex' \in Executor \cup {Null} /\ dying' \subseteq Executor
           /\ failed' \subseteq Gen /\ envBroken' \in BOOLEAN /\ everUp' \in BOOLEAN
           /\ op' \in [Conn -> Operation \cup {Null}]
<1>1. CASE envBroken /\ Settle(c, o, "unavailable") /\ UNCHANGED <<poolVars, initVars>>
    <2>1. op' \in [Conn -> Operation \cup {Null}]
        BY <1>1, SettleType DEF Outcome
    <2>. QED
        BY <1>1, <2>1 DEF TypeOK, poolVars, initVars
<1>2. ASSUME NEW outcome \in Outcome, OnBroken(gen, outcome),
             Settle(c, [o EXCEPT !.gen = gen], outcome), UNCHANGED everUp
      PROVE  /\ gen' \in Gen /\ ex' \in Executor \cup {Null} /\ dying' \subseteq Executor
             /\ failed' \subseteq Gen /\ envBroken' \in BOOLEAN /\ everUp' \in BOOLEAN
             /\ op' \in [Conn -> Operation \cup {Null}]
    <2>1. [o EXCEPT !.gen = gen] \in Operation
        BY DEF Operation, TypeOK
    <2>2. op' \in [Conn -> Operation \cup {Null}]
        BY <1>2, <2>1, SettleType
    <2>3. gen \in Gen /\ everUp' \in BOOLEAN
        BY <1>2 DEF TypeOK
    <2>. QED
        BY <1>2, <2>2, <2>3, OnBrokenType, Zenon
<1>3. CASE /\ ~envBroken
           /\ ex' = [ex EXCEPT !.jobs = Append(@, o.id)]
           /\ op' = [op EXCEPT ![c] = [o EXCEPT !.gen = gen, !.phase = "waiting"]]
           /\ UNCHANGED <<gen, dying, initVars>>
    <2>1. [o EXCEPT !.gen = gen, !.phase = "waiting"] \in Operation
        BY DEF Operation, TypeOK
    <2>2. op' \in [Conn -> Operation \cup {Null}]
        BY <1>3, <2>1 DEF TypeOK
    <2>3. ex # Null /\ ex \in Executor
        BY <1>3 DEF GensInOrder, TypeOK
    <2>4. o.id \in Id
        BY DEF Operation
    <2>5. ex' \in Executor
        <3>1. Append(ex.jobs, o.id) \in Seq(Id)
            BY <2>3, <2>4 DEF Executor
        <3>. QED
            BY <1>3, <2>3, <3>1 DEF Executor
    <2>. QED
        BY <1>3, <2>2, <2>5 DEF TypeOK, initVars
<1>. QED
    BY <1>1, <1>2, <1>3, Zenon DEF Submit

LEMMA AskedType ==
    ASSUME TypeOK, NEW kind \in Kinds, nextId <= MaxOps
    PROVE  [id |-> nextId, kind |-> kind, attempt |-> 1, gen |-> gen,
            cancelled |-> FALSE, phase |-> "waiting", moved |-> FALSE,
            outcome |-> Null, died |-> FALSE] \in Operation
<1>1. nextId \in Id /\ gen \in Gen /\ kind \in Kind
    BY PoolAssumption DEF TypeOK, Id
<1>. QED
    BY <1>1 DEF Operation

LEMMA LoopTypes ==
    ASSUME Strong, NEW c \in Conn
    PROVE  /\ \A kind \in Kinds : Start(c, kind) => TypeOK'
           /\ Retry(c) \/ Send(c) \/ Look(c) \/ SeeCancel(c) => TypeOK'
<1>. USE DEF Strong
<1>1. ASSUME NEW kind \in Kinds, Start(c, kind) PROVE TypeOK'
    <2>1. nextId' \in 1 .. MaxOps + 1
        BY <1>1, PoolAssumption DEF Start, TypeOK
    <2>. QED
        BY <1>1, <2>1, AskedType, SubmitType, Zenon DEF Start, TypeOK
<1>2. CASE Retry(c)
    <2>1. op[c] \in Operation /\ 2 \in {1, 2}
        BY <1>2 DEF Retry, TypeOK
    <2>2. [op[c] EXCEPT !.attempt = 2, !.died = FALSE] \in Operation
        BY <2>1 DEF Operation
    <2>. QED
        BY <1>2, <2>2, SubmitType, Zenon DEF Retry, TypeOK
<1>3. CASE Send(c)
    BY <1>3 DEF Send, TypeOK, poolVars, initVars
<1>4. CASE Look(c)
    <2>1. op[c] \in Operation
        BY <1>4 DEF Look, Waiting, TypeOK
    <2>2. [op[c] EXCEPT !.moved = FALSE] \in Operation
        BY <2>1 DEF Operation
    <2>3. op' = [op EXCEPT ![c] = [op[c] EXCEPT !.moved = FALSE]]
        BY <1>4 DEF Look
    <2>. QED
        BY <1>4, <2>2, <2>3 DEF Look, TypeOK, poolVars, initVars
<1>5. CASE SeeCancel(c)
    <2>1. op[c] \in Operation
        BY <1>5 DEF SeeCancel, Waiting, TypeOK
    <2>2. op' \in [Conn -> Operation \cup {Null}]
        BY <1>5, <2>1, SettleType DEF SeeCancel, Outcome
    <2>. QED
        BY <1>5, <2>2 DEF SeeCancel, TypeOK, poolVars, initVars
<1>. QED
    BY <1>1, <1>2, <1>3, <1>4, <1>5, Zenon

LEMMA KillTypes ==
    ASSUME Strong, NEW c \in Conn, Reap(c) \/ Cancel(c) \/ Disconnect(c)
    PROVE  TypeOK'
<1>. USE DEF Strong
<1>1. CASE Reap(c)
    <2>1. op[c] \in Operation
        BY <1>1 DEF Reap, Waiting, TypeOK
    <2>2. op' \in [Conn -> Operation \cup {Null}]
        BY <1>1, <2>1, SettleType DEF Reap, Outcome
    <2>3. reaped' \subseteq Gen
        BY <1>1 DEF Reap, Kill, TypeOK
    <2>. QED
        BY <1>1, <2>2, <2>3, NewPoolType DEF Reap, Kill, TypeOK, initVars
<1>2. CASE Cancel(c)
    <2>1. op[c] \in Operation
        BY <1>2 DEF Cancel, TypeOK
    <2>2. PICK outcome \in {op[c].outcome, "cancelled"} :
              op' = [op EXCEPT ![c].cancelled = TRUE, ![c].outcome = outcome]
        BY <1>2 DEF Cancel
    <2>3. outcome \in Outcome \cup {Null}
        BY <2>1 DEF Operation, Outcome
    <2>4. [op[c] EXCEPT !.cancelled = TRUE, !.outcome = outcome] \in Operation
        BY <2>1, <2>3 DEF Operation
    <2>5. op' = [op EXCEPT ![c] = [op[c] EXCEPT !.cancelled = TRUE, !.outcome = outcome]]
        BY <2>2, <1>2 DEF TypeOK, Cancel
    <2>6. op' \in [Conn -> Operation \cup {Null}]
        BY <2>4, <2>5 DEF TypeOK
    <2>7. /\ gen' \in Gen /\ ex' \in Executor \cup {Null} /\ dying' \subseteq Executor
          /\ reaped' \subseteq Gen
        <3>1. CASE Kill
            BY <3>1, NewPoolType DEF Kill, TypeOK
        <3>2. CASE UNCHANGED <<poolVars, reaped>>
            BY <3>2 DEF TypeOK, poolVars
        <3>. QED
            BY <1>2, <3>1, <3>2 DEF Cancel
    <2>8. cancels' \in 0 .. MaxCancels
        BY <1>2, PoolAssumption DEF Cancel, TypeOK
    <2>. QED
        BY <1>2, <2>6, <2>7, <2>8 DEF Cancel, TypeOK, initVars
<1>3. CASE Disconnect(c)
    <2>1. ex' \in Executor \cup {Null}
        <3>1. CASE UNCHANGED ex
            BY <3>1 DEF TypeOK
        <3>2. CASE ~UNCHANGED ex
            <4>1. PICK i \in 2 .. Len(ex.jobs) :
                    ex' = [ex EXCEPT !.jobs = SubSeq(@, 1, i - 1) \o SubSeq(@, i + 1, Len(@))]
                BY <1>3, <3>2 DEF Disconnect
            <4>2. ex \in Executor /\ ex.jobs \in Seq(Id)
                BY <1>3, <3>2 DEF Disconnect, TypeOK, Executor
            <4>3. SubSeq(ex.jobs, 1, i - 1) \in Seq(Id) /\ SubSeq(ex.jobs, i + 1, Len(ex.jobs)) \in Seq(Id)
                BY <4>2
            <4>4. SubSeq(ex.jobs, 1, i - 1) \o SubSeq(ex.jobs, i + 1, Len(ex.jobs)) \in Seq(Id)
                BY <4>3
            <4>. QED
                BY <4>1, <4>2, <4>4 DEF Executor
        <3>. QED
            BY <3>1, <3>2
    <2>2. op' \in [Conn -> Operation \cup {Null}]
        BY <1>3 DEF Disconnect, TypeOK
    <2>3. cancels' \in 0 .. MaxCancels
        BY <1>3, PoolAssumption DEF Disconnect, TypeOK
    <2>. QED
        BY <1>3, <2>1, <2>2, <2>3 DEF Disconnect, TypeOK, initVars
<1>. QED
    BY <1>1, <1>2, <1>3

LEMMA HeadType ==
    ASSUME TypeOK, events # <<>>
    PROVE  /\ Tail(events) \in Seq(Event)
           /\ Head(events).ok \in BOOLEAN
           /\ Head(events).on = "warm" => Head(events).gen \in Gen
           /\ Head(events).on = "job" => Head(events).id \in Id
<1>1. Head(events) \in Event /\ Tail(events) \in Seq(Event)
    BY DEF TypeOK
<1>. QED
    BY <1>1 DEF Event

LEMMA SeenTypes == ASSUME Strong, WarmupSeen \/ JobSeen PROVE TypeOK'
<1>. USE DEF Strong
<1>1. CASE WarmupSeen
    <2>1. events' \in Seq(Event) /\ Head(events).gen \in Gen
        BY <1>1, HeadType DEF WarmupSeen
    <2>2. failed' \subseteq Gen /\ envBroken' \in BOOLEAN /\ everUp' \in BOOLEAN
        <3>1. CASE everUp' = TRUE /\ failed' = {} /\ UNCHANGED envBroken
            BY <3>1 DEF TypeOK
        <3>2. CASE NoteInitFailure(Head(events).gen) /\ UNCHANGED everUp
            <4>1. everUp' \in BOOLEAN
                BY <3>2 DEF TypeOK
            <4>. QED
                BY <2>1, <3>2, <4>1, NoteType
        <3>. QED
            BY <1>1, <3>1, <3>2 DEF WarmupSeen
    <2>. QED
        BY <1>1, <2>1, <2>2 DEF WarmupSeen, TypeOK, poolVars
<1>2. CASE JobSeen
    <2>1. events' \in Seq(Event)
        BY <1>2, HeadType DEF JobSeen
    <2>2. /\ gen' \in Gen /\ ex' \in Executor \cup {Null} /\ dying' \subseteq Executor
          /\ failed' \subseteq Gen /\ envBroken' \in BOOLEAN
          /\ op' \in [Conn -> Operation \cup {Null}]
        <3>1. ASSUME NEW c \in Conn, NEW outcome \in Outcome, Waiting(c),
                     JobOutcome(op[c], Head(events).ok, outcome), Settle(c, op[c], outcome)
              PROVE  /\ gen' \in Gen /\ ex' \in Executor \cup {Null} /\ dying' \subseteq Executor
                     /\ failed' \subseteq Gen /\ envBroken' \in BOOLEAN
                     /\ op' \in [Conn -> Operation \cup {Null}]
            <4>1. op[c] \in Operation /\ op[c].gen \in Gen
                BY <3>1 DEF Waiting, TypeOK, Operation
            <4>2. op' \in [Conn -> Operation \cup {Null}]
                BY <3>1, <4>1, SettleType
            <4>3. CASE UNCHANGED <<poolVars, failed, envBroken>>
                BY <4>2, <4>3 DEF TypeOK, poolVars
            <4>4. CASE OnBroken(op[c].gen, outcome)
                BY <4>1, <4>2, <4>4, OnBrokenType
            <4>. QED
                BY <3>1, <4>3, <4>4, Zenon DEF JobOutcome
        <3>2. CASE UNCHANGED <<poolVars, failed, envBroken, op>>
            BY <3>2 DEF TypeOK, poolVars
        <3>. QED
            BY <1>2, <3>1, <3>2, Zenon DEF JobSeen
    <2>. QED
        BY <1>2, <2>1, <2>2 DEF JobSeen, TypeOK
<1>. QED
    BY <1>1, <1>2

LEMMA BrokenType == ASSUME NEW e \in Executor PROVE Broken(e) \in Seq(Event)
<1>1. (IF e.warm = "pending" THEN <<[on |-> "warm", gen |-> e.gen, ok |-> FALSE]>> ELSE <<>>)
          \in Seq(Event)
    <2>1. [on |-> "warm", gen |-> e.gen, ok |-> FALSE] \in Event
        BY DEF Executor, Event
    <2>. QED
        BY <2>1
<1>2. [i \in DOMAIN e.jobs |-> [on |-> "job", id |-> e.jobs[i], ok |-> FALSE]] \in Seq(Event)
    <2>1. e.jobs \in Seq(Id) /\ DOMAIN e.jobs = 1 .. Len(e.jobs) /\ Len(e.jobs) \in Nat
        BY DEF Executor
    <2>2. \A i \in 1 .. Len(e.jobs) : [on |-> "job", id |-> e.jobs[i], ok |-> FALSE] \in Event
        BY <2>1 DEF Event
    <2>. QED
        BY <2>1, <2>2
<1>. QED
    BY <1>1, <1>2 DEF Broken

LEMMA WorkerTypes ==
    ASSUME Strong, WorkerStarts \/ BringUpFails \/ Tick \/ JobEnds \/ Crash
    PROVE  TypeOK'
<1>. USE DEF Strong
<1>1. ex \in Executor /\ ex # Null
    BY DEF WorkerStarts, BringUpFails, Tick, JobEnds, Crash, TypeOK
<1>2. CASE WorkerStarts
    <2>1. events' \in Seq(Event)
        BY <1>1, <1>2 DEF WorkerStarts, Event, Executor
    <2>2. ex' \in Executor
        BY <1>1, <1>2 DEF WorkerStarts, Executor
    <2>. QED
        BY <1>2, <2>1, <2>2 DEF WorkerStarts, TypeOK, initVars
<1>3. CASE BringUpFails
    <2>1. ex' \in Executor /\ ex.gen \in Gen
        BY <1>1, <1>3 DEF BringUpFails, Executor
    <2>. QED
        BY <1>3, <2>1 DEF BringUpFails, TypeOK, initVars
<1>4. CASE Tick
    <2>1. ex.ticks \in Nat /\ ex.ticks + 1 \in 0 .. MaxTicks
        BY <1>1, <1>4, PoolAssumption DEF Tick, Executor
    <2>2. ex' \in Executor
        BY <1>1, <1>4, <2>1 DEF Tick, Executor
    <2>3. ASSUME NEW c \in Conn
          PROVE  (IF Waiting(c) /\ op[c].kind # "quick"
                  THEN [op[c] EXCEPT !.moved = TRUE] ELSE op[c]) \in Operation \cup {Null}
        <3>1. CASE Waiting(c)
            <4>1. op[c] \in Operation
                BY <3>1 DEF Waiting, TypeOK
            <4>2. [op[c] EXCEPT !.moved = TRUE] \in Operation
                BY <4>1 DEF Operation
            <4>. QED
                BY <4>1, <4>2
        <3>. QED
            BY <3>1 DEF TypeOK
    <2>4. op' \in [Conn -> Operation \cup {Null}]
        BY <1>4, <2>3 DEF Tick
    <2>. QED
        BY <1>4, <2>2, <2>4 DEF Tick, TypeOK, initVars
<1>5. CASE JobEnds
    <2>1. ex.jobs \in Seq(Id) /\ ex.jobs # <<>>
        BY <1>1, <1>5 DEF JobEnds, WorkersInOrder, Executor
    <2>2. Tail(ex.jobs) \in Seq(Id) /\ Head(ex.jobs) \in Id /\ 0 \in 0 .. MaxTicks
        BY <2>1, PoolAssumption
    <2>3. ex' \in Executor
        BY <1>1, <1>5, <2>2 DEF JobEnds, Executor
    <2>4. [on |-> "job", id |-> Head(ex.jobs), ok |-> TRUE] \in Event
        BY <2>2 DEF Event
    <2>5. events' \in Seq(Event)
        BY <1>5, <2>4 DEF JobEnds, TypeOK
    <2>. QED
        BY <1>5, <2>3, <2>5 DEF JobEnds, TypeOK, initVars
<1>6. CASE Crash
    <2>1. ex' \in Executor /\ ex.gen \in Gen
        BY <1>1, <1>6 DEF Crash, Executor
    <2>2. ASSUME NEW c \in Conn
          PROVE  (IF Waiting(c) /\ ex.ticks > 0 /\ Head(ex.jobs) = op[c].id
                  THEN [op[c] EXCEPT !.died = TRUE] ELSE op[c]) \in Operation \cup {Null}
        <3>1. CASE Waiting(c)
            <4>1. op[c] \in Operation
                BY <3>1 DEF Waiting, TypeOK
            <4>2. [op[c] EXCEPT !.died = TRUE] \in Operation
                BY <4>1 DEF Operation
            <4>. QED
                BY <4>1, <4>2
        <3>. QED
            BY <3>1 DEF TypeOK
    <2>3. op' \in [Conn -> Operation \cup {Null}]
        BY <1>6, <2>2 DEF Crash
    <2>. QED
        BY <1>6, <2>1, <2>3 DEF Crash, TypeOK, initVars
<1>. QED
    BY <1>2, <1>3, <1>4, <1>5, <1>6

LEMMA ManagerTypes == ASSUME Strong, PoolBreaks \/ OldPoolBreaks PROVE TypeOK'
<1>. USE DEF Strong
<1>1. CASE PoolBreaks
    <2>1. ex \in Executor
        BY <1>1 DEF PoolBreaks, TypeOK
    <2>2. events' \in Seq(Event)
        BY <1>1, <2>1, BrokenType DEF PoolBreaks, TypeOK
    <2>3. <<>> \in Seq(Id) /\ 0 \in 0 .. MaxTicks
        BY PoolAssumption
    <2>4. ex' \in Executor
        BY <1>1, <2>1, <2>3 DEF PoolBreaks, Executor
    <2>. QED
        BY <1>1, <2>2, <2>4 DEF PoolBreaks, TypeOK, initVars
<1>2. CASE OldPoolBreaks
    <2>1. PICK e \in dying : dying' = dying \ {e} /\ events' = events \o Broken(e)
        BY <1>2 DEF OldPoolBreaks
    <2>2. events' \in Seq(Event)
        BY <2>1, BrokenType DEF TypeOK
    <2>. QED
        BY <1>2, <2>1, <2>2 DEF OldPoolBreaks, TypeOK, initVars
<1>. QED
    BY <1>1, <1>2

LEMMA TypesHold == ASSUME Strong, [Next]_vars PROVE TypeOK'
<1>1. CASE UNCHANGED vars
    BY <1>1 DEF Strong, TypeOK, vars
<1>2. CASE \E c \in Conn, kind \in Kinds : Start(c, kind)
    BY <1>2, LoopTypes
<1>3. CASE \E c \in Conn : Retry(c) \/ Send(c) \/ Supervise(c) \/ Cancel(c) \/ Disconnect(c)
    BY <1>3, LoopTypes, KillTypes, Zenon DEF Supervise
<1>. QED
    BY <1>1, <1>2, <1>3, SeenTypes, WorkerTypes, ManagerTypes, Zenon DEF Next

-----------------------------------------------------------------------------
(* What a step may do to the futures.                                      *)

\* Nothing that was counted, killed or given up comes back.
Onward ==
    /\ nextId <= nextId'
    /\ gen <= gen'
    /\ deaths \subseteq deaths'
    /\ reaped \subseteq reaped'
    /\ envBroken => envBroken'
    /\ \A g \in Gen : g <= gen /\ Gone(g) => Gone(g)'

\* A future stays where it is, or moves from its pool to the loop: failed only if
\* the pool is gone.
Kept(id) ==
    /\ \A g \in Gen : Holds(g, id)' => Holds(g, id)
    /\ Posted(id)' => Posted(id) \/ \E g \in Gen : Holds(g, id)
    /\ Failed(id)' => Failed(id) \/ \E g \in Gen : Holds(g, id) /\ Gone(g)'
    /\ (Posted(id) \/ \E g \in Gen : Holds(g, id)) =>
          Posted(id)' \/ \E g \in Gen : Holds(g, id)'

LEMMA StillFits ==
    ASSUME TypeOK, NEW o \in Operation, Fits(o), Onward, Kept(o.id), nextId' \in Nat, gen' \in Nat
    PROVE  Fits(o)'
<1>1. o.id < nextId' /\ o.gen <= gen' /\ o.gen \in Gen
    <2>1. o.id \in Nat /\ o.gen \in Gen /\ nextId \in Nat /\ gen \in Nat
        BY DEF Operation, TypeOK, Id, Gen
    <2>. QED
        BY <2>1 DEF Fits, Onward, Gen
<1>2. CASE o.phase = "waiting"
    <2>1. Posted(o.id)' \/ \E g \in Gen : Holds(g, o.id)'
        BY <1>2 DEF Fits, Kept
    <2>2. \A g \in Gen : Holds(g, o.id)' => g = o.gen
        BY <1>2 DEF Fits, Kept
    <2>3. Failed(o.id)' => Gone(o.gen)'
        <3>1. CASE Failed(o.id)
            BY <1>1, <1>2, <3>1 DEF Fits, Onward
        <3>2. CASE \E g \in Gen : Holds(g, o.id) /\ Gone(g)'
            BY <1>2, <3>2 DEF Fits
        <3>. QED
            BY <3>1, <3>2 DEF Kept
    <2>4. o.outcome = Null
        BY <1>2 DEF Fits
    <2>5. Null \notin Outcome
        BY PoolAssumption
    <2>. QED
        BY <1>1, <1>2, <2>1, <2>2, <2>3, <2>4, <2>5 DEF Fits, Outcome
<1>3. CASE o.phase = "retry"
    BY <1>1, <1>3 DEF Fits, Kept, Onward
<1>4. CASE o.phase = "sending"
    BY <1>1, <1>4 DEF Fits, Onward
<1>. QED
    BY <1>2, <1>3, <1>4 DEF Operation

\* The pools changed, and no future did.
Unmoved ==
    /\ \A g \in Gen, id \in Id : Holds(g, id)' <=> Holds(g, id)
    /\ SubmittedOnce'
    /\ GensInOrder'
    /\ WorkersInOrder'
    /\ Onward

LEMMA Replacing ==
    ASSUME Strong, NEW latched \in BOOLEAN, NewPool(latched),
           ex = Null => latched, latched => envBroken',
           ex # Null /\ ~ex.broken => gen \in reaped',
           nextId <= nextId', deaths \subseteq deaths', reaped \subseteq reaped',
           envBroken => envBroken'
    PROVE  Unmoved
<1>. USE DEF Strong
<1>. DEFINE Old == [ex EXCEPT !.worker = "dead"]
<1>1. ex # Null => /\ ex \in Executor
                   /\ Old.gen = ex.gen /\ Old.jobs = ex.jobs
    BY DEF TypeOK, Executor
<1>2. gen \in Nat /\ gen + 1 \in Gen
    BY DEF TypeOK, Gen
<1>3. Fresh(gen + 1) \in Executor /\ Fresh(gen + 1) # Null
    BY <1>2, FreshType
<1>4. /\ ex' = Null \/ ex' = Fresh(gen + 1)
      /\ ex' = Null => latched
      /\ gen' = gen \/ (gen' = gen + 1 /\ ex' = Fresh(gen + 1))
      /\ ex' # Null => gen' = gen + 1
    <2>1. CASE latched
        BY <2>1, Zenon DEF NewPool
    <2>2. CASE ~latched
        <3>1. ex' = Fresh(gen + 1) /\ gen' = gen + 1
            BY <2>2, Zenon DEF NewPool
        <3>. QED
            BY <1>3, <3>1
    <2>. QED
        BY <2>1, <2>2
<1>5. /\ Fresh(gen + 1).jobs = <<>> /\ Fresh(gen + 1).gen = gen + 1
      /\ Fresh(gen + 1).ticks = 0 /\ ~Fresh(gen + 1).broken
      /\ Fresh(gen + 1).worker = "starting" /\ Fresh(gen + 1).warm = "pending"
    BY DEF Fresh
<1>6. dying' = dying \/ (ex # Null /\ ~ex.broken /\ dying' = dying \cup {Old})
    BY DEF NewPool
<1>7. ex # Null /\ ~ex.broken => dying' = dying \cup {Old}
    BY DEF NewPool
<1>8. ex # Null /\ ex.broken => ex.jobs = <<>>
    BY DEF WorkersInOrder
<1>9. Old # Null \/ ex = Null
    <2>1. ex # Null => Old \in Executor
        BY DEF TypeOK, Executor
    <2>. QED
        BY <2>1, NullIsNoRecord
<1>. HIDE DEF Old
<1>10. Jobs(Fresh(gen + 1)) = {} /\ (ex # Null => Jobs(Old) = Jobs(ex))
    BY <1>1, <1>5 DEF Jobs
<1>11. ASSUME NEW g \in Gen, NEW id \in Id PROVE Holds(g, id)' <=> Holds(g, id)
    <2>1. ASSUME Holds(g, id)' PROVE Holds(g, id)
        <3>1. PICK e \in Pools' : e.gen = g /\ id \in Jobs(e)
            BY <2>1 DEF Holds
        <3>2. e \in dying \/ (ex # Null /\ e = Old)
            BY <1>4, <1>6, <1>10, <3>1 DEF Pools
        <3>. QED
            BY <1>1, <1>10, <3>1, <3>2 DEF Holds, Pools
    <2>2. ASSUME Holds(g, id) PROVE Holds(g, id)'
        <3>1. PICK e \in Pools : e.gen = g /\ id \in Jobs(e)
            BY <2>2 DEF Holds
        <3>2. CASE e \in dying
            BY <1>6, <3>1, <3>2 DEF Holds, Pools
        <3>3. CASE e = ex /\ ex # Null
            <4>1. ~ex.broken
                BY <1>8, <3>1, <3>3 DEF Jobs
            <4>2. Old \in dying' /\ Old.gen = g /\ id \in Jobs(Old)
                BY <1>1, <1>7, <1>10, <3>1, <3>3, <4>1
            <4>. QED
                BY <4>2 DEF Holds, Pools
        <3>. QED
            BY <3>1, <3>2, <3>3 DEF Pools
    <2>. QED
        BY <2>1, <2>2
<1>12. SubmittedOnce'
    <2>1. ASSUME NEW e \in Pools' PROVE Distinct(e.jobs)
        <3>1. e \in dying \/ (ex # Null /\ e = Old) \/ e = Fresh(gen + 1)
            BY <1>4, <1>6 DEF Pools
        <3>2. Distinct(Fresh(gen + 1).jobs)
            BY <1>5 DEF Distinct
        <3>. QED
            BY <1>1, <3>1, <3>2 DEF OnePlace, SubmittedOnce, Pools
    <2>. QED
        BY <2>1 DEF SubmittedOnce
<1>13. GensInOrder'
    <2>1. \A e \in dying' : e.gen <= gen
        BY <1>1, <1>2, <1>6 DEF GensInOrder
    <2>2. \A e, f \in dying' : e.gen = f.gen => e = f
        BY <1>1, <1>6 DEF GensInOrder
    <2>3. \A e \in dying' : e.gen \in Nat
        <3>1. \A e \in dying : e.gen \in Nat
            BY DEF TypeOK, Executor, Gen
        <3>2. ex # Null => ex.gen \in Nat
            BY <1>2 DEF GensInOrder
        <3>. QED
            BY <1>1, <1>6, <3>1, <3>2
    <2>4. \A e \in dying' : e.gen <= gen' /\ (ex' # Null => e.gen # gen')
        BY <1>4, <1>2, <2>1, <2>3
    <2>. QED
        BY <1>4, <1>5, <2>2, <2>4 DEF GensInOrder
<1>14. WorkersInOrder'
    <2>1. \A e \in dying' : e.gen \in reaped'
        BY <1>1, <1>6 DEF WorkersInOrder, GensInOrder
    <2>. QED
        BY <1>4, <1>5, <2>1 DEF WorkersInOrder
<1>15. ASSUME NEW g \in Gen, g <= gen, Gone(g) PROVE Gone(g)'
    <2>1. ~(ex' # Null /\ ex'.gen = g)
        BY <1>4, <1>2, <1>5, <1>15 DEF Gen
    <2>. QED
        BY <1>15, <2>1 DEF Gone
<1>16. gen <= gen' /\ nextId <= nextId'
    BY <1>4, <1>2 DEF TypeOK
<1>. QED
    BY <1>11, <1>12, <1>13, <1>14, <1>15, <1>16 DEF Unmoved, Onward

\* What becomes of an operation whose pool is gone: only a worker that died of
\* itself is called a crash, or counted.
LEMMA OnBrokenIs ==
    ASSUME Strong, NEW g \in Gen, NEW o, g <= gen, Gone(g), OnBroken(g, o),
           nextId <= nextId', deaths' = deaths, reaped' = reaped
    PROVE  /\ Unmoved
           /\ o \in {"crashed", "unavailable"} => g \in deaths
<1>. USE DEF Strong
<1>1. envBroken \in BOOLEAN /\ envBroken' \in BOOLEAN
    BY OnBrokenType DEF TypeOK
<1>2. g \notin reaped => g \in deaths /\ ~(ex # Null /\ ex.gen = g /\ ~ex.broken)
    BY DEF Gone
<1>3. CASE UNCHANGED <<poolVars, failed, envBroken>>
    <2>1. \A h \in Gen, id \in Id : Holds(h, id)' <=> Holds(h, id)
        BY <1>3 DEF poolVars, Holds, Pools, Jobs
    <2>2. SubmittedOnce' /\ GensInOrder' /\ WorkersInOrder'
        BY <1>3 DEF poolVars, OnePlace, SubmittedOnce, Pools, GensInOrder, WorkersInOrder, Distinct
    <2>3. Onward
        BY <1>3 DEF poolVars, Onward, Gone, TypeOK, Gen
    <2>4. o \in {"crashed", "unavailable"} => g \in deaths
        BY <1>2 DEF OnBroken
    <2>. QED
        BY <2>1, <2>2, <2>3, <2>4 DEF Unmoved
<1>4. CASE g \notin reaped /\ CameUp(g) /\ NewPool(envBroken) /\ envBroken' = envBroken
    <2>1. ex # Null => ex.broken
        BY <1>2, <1>4 DEF CameUp
    <2>. QED
        BY <1>1, <1>2, <1>4, <2>1, Replacing DEF GensInOrder
<1>5. CASE g \notin reaped /\ g = gen /\ NoteInitFailure(g) /\ NewPool(envBroken')
    <2>1. ex # Null => ex.broken
        BY <1>2, <1>5 DEF GensInOrder
    <2>2. envBroken => envBroken'
        BY <1>5, Zenon DEF NoteInitFailure
    <2>. QED
        BY <1>1, <1>2, <1>5, <2>1, <2>2, Replacing DEF GensInOrder
<1>. QED
    BY <1>3, <1>4, <1>5, Zenon DEF OnBroken

\* Pools that were not touched.
LEMMA PoolsAlone ==
    ASSUME Strong, UNCHANGED poolVars, nextId <= nextId', deaths' = deaths,
           reaped' = reaped, envBroken => envBroken'
    PROVE  Unmoved
<1>. USE DEF Strong
<1>1. \A h \in Gen, id \in Id : Holds(h, id)' <=> Holds(h, id)
    BY DEF poolVars, Holds, Pools, Jobs
<1>2. SubmittedOnce' /\ GensInOrder' /\ WorkersInOrder'
    BY DEF poolVars, OnePlace, SubmittedOnce, Pools, GensInOrder, WorkersInOrder, Distinct
<1>3. Onward
    BY DEF poolVars, Onward, Gone, TypeOK, Gen
<1>. QED
    BY <1>1, <1>2, <1>3 DEF Unmoved

\* The current worker changes, and neither its generation nor its jobs.
LEMMA WorkerChanges ==
    ASSUME Strong, ex # Null, ex' # Null, ex'.gen = ex.gen, ex'.jobs = ex.jobs,
           ex.broken => ex'.broken, WorkersInOrder', UNCHANGED <<gen, dying>>, nextId <= nextId',
           deaths \subseteq deaths', reaped' = reaped, envBroken => envBroken'
    PROVE  Unmoved
<1>. USE DEF Strong
<1>1. Jobs(ex)' = Jobs(ex)
    BY DEF Jobs
<1>2. \A h \in Gen, id \in Id : Holds(h, id)' <=> Holds(h, id)
    BY <1>1 DEF Holds, Pools, Jobs
<1>3. SubmittedOnce' /\ GensInOrder'
    BY DEF OnePlace, SubmittedOnce, Pools, GensInOrder, Distinct
<1>4. Onward
    BY DEF Onward, Gone, TypeOK, Gen
<1>. QED
    BY <1>2, <1>3, <1>4 DEF Unmoved

LEMMA UnmovedKeeps ==
    ASSUME Unmoved, NEW id \in Id, Posted(id)' <=> Posted(id), Failed(id)' => Failed(id)
    PROVE  Kept(id)
BY DEF Unmoved, Kept

LEMMA PlaceStays ==
    ASSUME OnePlace, Unmoved, PostedOnce', \A id \in Id : Posted(id)' => Posted(id),
           nextId \in Nat, nextId' \in Nat
    PROVE  OnePlace'
<1>1. nextId <= nextId'
    BY DEF Unmoved, Onward
<1>2. \A g \in Gen, id \in Id : Holds(g, id)' => id < nextId'
    BY <1>1 DEF OnePlace, Unmoved, Id
<1>3. \A id \in Id : Posted(id)' => id < nextId'
    BY <1>1 DEF OnePlace, Id
<1>. QED
    BY <1>2, <1>3, Zenon DEF OnePlace, Unmoved

LEMMA OpsStillFit ==
    ASSUME Strong, TypeOK', Onward, NEW c \in Conn,
           \A d \in Conn \ {c} : op'[d] = op[d],
           \A o \in Operation, d \in Conn \ {c} : op[d] = o => Kept(o.id),
           \A n \in Operation : op'[c] = n =>
              /\ Fits(n)'
              /\ (op[c] # Null /\ op[c].id = n.id) \/ n.id = nextId
    PROVE  OpsFit'
<1>. USE DEF Strong
<1>1. nextId' \in Nat /\ gen' \in Nat
    BY DEF TypeOK, Gen
<1>2. ASSUME NEW d \in Conn, op'[d] # Null PROVE Fits(op[d])'
    <2>1. PICK n \in Operation : n = op'[d]
        BY <1>2 DEF TypeOK
    <2>2. CASE d = c
        <3>1. Fits(n)'
            BY <2>1, <2>2
        <3>. QED
            BY <2>1, <3>1
    <2>3. CASE d # c
        <3>1. op[d] = n /\ Fits(n) /\ Kept(n.id)
            BY <1>2, <2>1, <2>3 DEF OpsFit
        <3>2. Fits(n)'
            BY <1>1, <3>1, StillFits
        <3>. QED
            BY <2>1, <3>2
    <2>. QED
        BY <2>2, <2>3
<1>3. ASSUME NEW d \in Conn, NEW f \in Conn, op'[d] # Null, op'[f] # Null,
             op'[d].id = op'[f].id
      PROVE  d = f
    <2>1. ASSUME NEW h \in Conn, op'[h] # Null
          PROVE  \/ op[h] # Null /\ op[h].id = op'[h].id /\ op[h].id < nextId
                 \/ h = c /\ op'[h].id = nextId
        <3>1. op'[h] \in Operation
            BY <2>1 DEF TypeOK
        <3>. QED
            BY <2>1, <3>1 DEF OpsFit, Fits
    <2>2. nextId \in Nat
        BY DEF TypeOK
    <2>. QED
        BY <1>3, <2>1, <2>2 DEF OpsFit
<1>. QED
    BY <1>2, <1>3 DEF OpsFit

\* The flags that Fits does not look at changed.
LEMMA OpsKept ==
    ASSUME Strong, TypeOK', Onward, \A id \in Id : Kept(id),
           \A d \in Conn : op'[d] # Null =>
              /\ op[d] # Null /\ op'[d].id = op[d].id /\ op'[d].gen = op[d].gen
              /\ op'[d].phase = op[d].phase /\ op'[d].outcome = op[d].outcome
    PROVE  OpsFit'
<1>. USE DEF Strong
<1>1. nextId' \in Nat /\ gen' \in Nat
    BY DEF TypeOK, Gen
<1>2. ASSUME NEW d \in Conn, op'[d] # Null PROVE Fits(op[d])'
    <2>1. PICK n \in Operation : n = op'[d]
        BY <1>2 DEF TypeOK
    <2>2. op[d] # Null /\ op[d] \in Operation
        BY <1>2 DEF TypeOK
    <2>3. Fits(op[d]) /\ n.id = op[d].id /\ n.gen = op[d].gen
          /\ n.phase = op[d].phase /\ n.outcome = op[d].outcome
        BY <1>2, <2>1, <2>2 DEF OpsFit
    <2>4. Fits(n)
        BY <2>3 DEF Fits
    <2>5. n.id \in Id
        BY <2>1 DEF Operation
    <2>6. Fits(n)'
        BY <1>1, <2>4, <2>5, StillFits
    <2>. QED
        BY <2>1, <2>6
<1>. QED
    BY <1>2 DEF OpsFit

LEMMA HeadGone ==
    ASSUME TypeOK, PostedOnce, events # <<>>, events' = Tail(events)
    PROVE  /\ PostedOnce'
           /\ \A id : Posted(id)' => Posted(id)
           /\ \A id : Failed(id)' => Failed(id)
           /\ \A id : Posted(id) => Posted(id)' \/ (Head(events).on = "job" /\ id = Head(events).id)
           /\ \A id : Head(events).on = "job" /\ id = Head(events).id => ~Posted(id)'
<1>1. /\ DOMAIN events = 1 .. Len(events) /\ Len(events) \in Nat \ {0}
      /\ DOMAIN events' = 1 .. Len(events) - 1
      /\ \A i \in DOMAIN events' : i + 1 \in DOMAIN events /\ events'[i] = events[i + 1]
      /\ Head(events) = events[1]
    BY DEF TypeOK
<1>2. \A i \in DOMAIN events : i = 1 \/ (i - 1 \in DOMAIN events' /\ events'[i - 1] = events[i])
    BY <1>1
<1>3. PostedOnce'
    BY <1>1 DEF PostedOnce
<1>4. \A id : (Posted(id)' => Posted(id)) /\ (Failed(id)' => Failed(id))
    BY <1>1 DEF Posted, Failed
<1>5. ASSUME NEW id, Posted(id)
      PROVE  Posted(id)' \/ (Head(events).on = "job" /\ id = Head(events).id)
    BY <1>1, <1>2, <1>5 DEF Posted
<1>6. ASSUME NEW id, Head(events).on = "job", id = Head(events).id PROVE ~Posted(id)'
    <2>1. SUFFICES ASSUME NEW i \in DOMAIN events', events'[i].on = "job", events'[i].id = id
                   PROVE  FALSE
        BY DEF Posted
    <2>2. i + 1 \in DOMAIN events /\ 1 \in DOMAIN events /\ i + 1 # 1
        BY <1>1
    <2>. QED
        BY <1>1, <1>6, <2>1, <2>2 DEF PostedOnce
<1>. QED
    BY <1>3, <1>4, <1>5, <1>6

LEMMA BrokenIs ==
    ASSUME NEW e \in Executor
    PROVE  \E off \in {0, 1} :
              /\ off = 1 <=> e.warm = "pending"
              /\ Len(Broken(e)) = Len(e.jobs) + off
              /\ \A i \in DOMAIN e.jobs : /\ i + off \in DOMAIN Broken(e)
                                          /\ Broken(e)[i + off] = [on |-> "job", id |-> e.jobs[i], ok |-> FALSE]
              /\ \A k \in DOMAIN Broken(e) : Broken(e)[k].on = "job" => k - off \in DOMAIN e.jobs
              /\ \A k \in DOMAIN Broken(e) : Broken(e)[k].on = "warm" =>
                    off = 1 /\ Broken(e)[k].gen = e.gen /\ ~Broken(e)[k].ok
<1>. DEFINE W == IF e.warm = "pending" THEN <<[on |-> "warm", gen |-> e.gen, ok |-> FALSE]>> ELSE <<>>
            J == [i \in DOMAIN e.jobs |-> [on |-> "job", id |-> e.jobs[i], ok |-> FALSE]]
            off == IF e.warm = "pending" THEN 1 ELSE 0
<1>1. e.jobs \in Seq(Id) /\ DOMAIN e.jobs = 1 .. Len(e.jobs) /\ Len(e.jobs) \in Nat
    BY DEF Executor
<1>2. \A i \in 1 .. Len(e.jobs) : [on |-> "job", id |-> e.jobs[i], ok |-> FALSE] \in Event
    BY <1>1 DEF Event
<1>3. J \in Seq(Event) /\ Len(J) = Len(e.jobs)
      /\ \A i \in 1 .. Len(e.jobs) : J[i] = [on |-> "job", id |-> e.jobs[i], ok |-> FALSE]
    BY <1>1, <1>2
<1>4. [on |-> "warm", gen |-> e.gen, ok |-> FALSE] \in Event
    BY DEF Executor, Event
<1>5. W \in Seq(Event) /\ Len(W) = off
      /\ (off = 1 => W[1] = [on |-> "warm", gen |-> e.gen, ok |-> FALSE])
    BY <1>4
<1>6. Broken(e) = W \o J
    BY DEF Broken
<1>. HIDE DEF W, J
<1>7. off \in {0, 1} /\ (off = 1 <=> e.warm = "pending")
    OBVIOUS
<1>. HIDE DEF off
<1>8. /\ Len(Broken(e)) = Len(e.jobs) + off
      /\ DOMAIN Broken(e) = 1 .. Len(e.jobs) + off
      /\ \A k \in 1 .. Len(e.jobs) + off : Broken(e)[k] = IF k <= off THEN W[k] ELSE J[k - off]
    BY <1>1, <1>3, <1>5, <1>6, <1>7
<1>9. \A i \in DOMAIN e.jobs : /\ i + off \in DOMAIN Broken(e)
                               /\ Broken(e)[i + off] = J[i]
    BY <1>1, <1>7, <1>8
<1>10. ASSUME NEW k \in DOMAIN Broken(e)
       PROVE  \/ k - off \in DOMAIN e.jobs /\ Broken(e)[k].on = "job"
              \/ /\ off = 1 /\ Broken(e)[k].on = "warm"
                 /\ Broken(e)[k].gen = e.gen /\ ~Broken(e)[k].ok
    <2>1. CASE k <= off
        <3>1. off = 1 /\ k = 1 /\ Broken(e)[k] = W[1]
            BY <1>7, <1>8, <2>1
        <3>2. Broken(e)[k] = [on |-> "warm", gen |-> e.gen, ok |-> FALSE]
            BY <1>5, <3>1
        <3>3. Broken(e)[k].on = "warm" /\ Broken(e)[k].gen = e.gen /\ ~Broken(e)[k].ok
            BY <3>2
        <3>. QED
            BY <3>1, <3>3
    <2>2. CASE ~(k <= off)
        <3>1. k - off \in 1 .. Len(e.jobs) /\ Broken(e)[k] = J[k - off]
            BY <1>1, <1>7, <1>8, <2>2
        <3>2. Broken(e)[k] = [on |-> "job", id |-> e.jobs[k - off], ok |-> FALSE]
            BY <1>3, <3>1
        <3>. QED
            BY <1>1, <3>1, <3>2
    <2>. QED
        BY <2>1, <2>2
<1>. QED
    BY <1>1, <1>3, <1>7, <1>8, <1>9, <1>10

\* The manager of a dead executor fails its futures.
LEMMA BreakingPosts ==
    ASSUME TypeOK, PostedOnce, NEW e \in Executor, Distinct(e.jobs),
           \A id \in Jobs(e) : ~Posted(id), events' = events \o Broken(e)
    PROVE  /\ PostedOnce'
           /\ \A id : Posted(id)' <=> Posted(id) \/ id \in Jobs(e)
           /\ \A id : Failed(id)' => Failed(id) \/ id \in Jobs(e)
           /\ \A i \in DOMAIN events : i \in DOMAIN events' /\ events'[i] = events[i]
           /\ \A i \in DOMAIN events' \ DOMAIN events : events'[i].on = "warm" =>
                 /\ e.warm = "pending" /\ events'[i].gen = e.gen /\ ~events'[i].ok
<1>1. PICK off \in {0, 1} :
          /\ off = 1 <=> e.warm = "pending"
          /\ Len(Broken(e)) = Len(e.jobs) + off
          /\ \A i \in DOMAIN e.jobs : /\ i + off \in DOMAIN Broken(e)
                                      /\ Broken(e)[i + off] = [on |-> "job", id |-> e.jobs[i], ok |-> FALSE]
          /\ \A k \in DOMAIN Broken(e) : Broken(e)[k].on = "job" => k - off \in DOMAIN e.jobs
          /\ \A k \in DOMAIN Broken(e) : Broken(e)[k].on = "warm" =>
                off = 1 /\ Broken(e)[k].gen = e.gen /\ ~Broken(e)[k].ok
    BY BrokenIs
<1>. DEFINE n == Len(events)
            B == Broken(e)
<1>2. /\ B \in Seq(Event) /\ events \in Seq(Event)
      /\ n \in Nat /\ Len(B) \in Nat /\ DOMAIN events = 1 .. n /\ DOMAIN B = 1 .. Len(B)
    BY BrokenType DEF TypeOK
<1>3. /\ DOMAIN events' = 1 .. n + Len(B)
      /\ \A i \in 1 .. n : events'[i] = events[i]
      /\ \A k \in 1 .. Len(B) : events'[n + k] = B[k]
    BY <1>2
<1>. HIDE DEF n, B
<1>4. \A i \in DOMAIN events : i \in DOMAIN events' /\ events'[i] = events[i]
    BY <1>2, <1>3
<1>5. ASSUME NEW i \in DOMAIN events', i \notin DOMAIN events
      PROVE  i - n \in DOMAIN B /\ events'[i] = B[i - n]
    <2>1. i - n \in 1 .. Len(B) /\ n + (i - n) = i
        BY <1>2, <1>3, <1>5
    <2>. QED
        BY <1>2, <1>3, <2>1
<1>6. DOMAIN e.jobs \subseteq Nat /\ off \in Nat
    BY DEF Executor
<1>7. ASSUME NEW i \in DOMAIN events', i \notin DOMAIN events, events'[i].on = "job"
      PROVE  /\ i - n - off \in DOMAIN e.jobs
             /\ events'[i].id = e.jobs[i - n - off]
             /\ events'[i].id \in Jobs(e)
    <2>1. i - n \in DOMAIN B /\ events'[i] = B[i - n]
        BY <1>5, <1>7
    <2>2. i - n - off \in DOMAIN e.jobs
        BY <1>1, <1>7, <2>1 DEF B
    <2>3. (i - n - off) + off = i - n
        BY <1>2, <1>3
    <2>4. events'[i] = [on |-> "job", id |-> e.jobs[i - n - off], ok |-> FALSE]
        BY <1>1, <2>1, <2>2, <2>3 DEF B
    <2>. QED
        BY <2>2, <2>4 DEF Jobs
<1>8. ASSUME NEW id \in Jobs(e)
      PROVE  \E i \in DOMAIN events' : events'[i].on = "job" /\ events'[i].id = id
    <2>1. PICK j \in DOMAIN e.jobs : e.jobs[j] = id
        BY DEF Jobs
    <2>2. j + off \in DOMAIN B /\ B[j + off] = [on |-> "job", id |-> id, ok |-> FALSE]
        BY <1>1, <2>1 DEF B
    <2>3. n + (j + off) \in DOMAIN events' /\ events'[n + (j + off)] = B[j + off]
        BY <1>2, <1>3, <2>2
    <2>4. events'[n + (j + off)].on = "job" /\ events'[n + (j + off)].id = id
        BY <2>2, <2>3
    <2>. QED
        BY <2>3, <2>4
<1>9. \A id : Posted(id)' <=> Posted(id) \/ id \in Jobs(e)
    BY <1>4, <1>7, <1>8 DEF Posted
<1>10. \A id : Failed(id)' => Failed(id) \/ id \in Jobs(e)
    BY <1>4, <1>7 DEF Failed
<1>11. PostedOnce'
    <2>1. SUFFICES ASSUME NEW i \in DOMAIN events', NEW j \in DOMAIN events',
                          events'[i].on = "job", events'[j].on = "job",
                          events'[i].id = events'[j].id
                   PROVE  i = j
        BY DEF PostedOnce
    <2>2. CASE i \in DOMAIN events /\ j \in DOMAIN events
        BY <1>4, <2>1, <2>2 DEF PostedOnce
    <2>3. CASE i \in DOMAIN events /\ j \notin DOMAIN events
        BY <1>4, <1>7, <2>1, <2>3 DEF Posted
    <2>4. CASE i \notin DOMAIN events /\ j \in DOMAIN events
        BY <1>4, <1>7, <2>1, <2>4 DEF Posted
    <2>5. CASE i \notin DOMAIN events /\ j \notin DOMAIN events
        <3>1. i - n - off = j - n - off
            BY <1>7, <2>1, <2>5 DEF Distinct
        <3>. QED
            BY <1>2, <1>3, <3>1
    <2>. QED
        BY <2>2, <2>3, <2>4, <2>5
<1>12. \A i \in DOMAIN events' \ DOMAIN events : events'[i].on = "warm" =>
          /\ e.warm = "pending" /\ events'[i].gen = e.gen /\ ~events'[i].ok
    BY <1>1, <1>5 DEF B
<1>. QED
    BY <1>4, <1>9, <1>10, <1>11, <1>12

-----------------------------------------------------------------------------
(* Where the futures are, action by action.                                *)

\* The invariants about futures and pools that every step keeps.
Custody == GensInOrder /\ WorkersInOrder /\ OnePlace /\ OpsFit

LEMMA SettleFits ==
    ASSUME NEW o \in Operation, NEW outcome \in Outcome, NEW n, n = After(o, outcome),
           o.outcome = Null, o.id < nextId', o.gen <= gen',
           outcome = "crashed" => /\ o.gen \in deaths'
                                  /\ ~Posted(o.id)'
                                  /\ \A g \in Gen : ~Holds(g, o.id)',
           outcome = "unavailable" => envBroken' \/ o.gen \in deaths'
    PROVE  Fits(n)'
<1>1. /\ n.id = o.id /\ n.gen = o.gen
      /\ \/ outcome = "crashed" /\ n.phase = "retry" /\ n.outcome = Null
         \/ n.phase = "sending" /\ n.outcome = outcome
    BY AfterIs
<1>2. outcome # Null /\ Null \notin Outcome
    BY PoolAssumption
<1>. QED
    BY <1>1, <1>2 DEF Fits, Outcome

LEMMA SubmitCustody ==
    ASSUME Strong, TypeOK', NEW c \in Conn, NEW o \in Operation, Submit(c, o),
           UNCHANGED <<events, reaped, deaths>>,
           o.outcome = Null, o.gen <= gen, o.id < nextId', nextId <= nextId',
           ~Posted(o.id), \A g \in Gen : ~Holds(g, o.id),
           (op[c] # Null /\ op[c].id = o.id) \/ o.id = nextId
    PROVE  Custody'
<1>. USE DEF Strong
<1>1. \A id : (Posted(id)' <=> Posted(id)) /\ (Failed(id)' <=> Failed(id))
    BY DEF Posted, Failed
<1>2. PostedOnce'
    BY DEF OnePlace, PostedOnce
<1>3. nextId \in Nat /\ nextId' \in Nat /\ gen \in Nat /\ gen \in Gen
    BY DEF TypeOK, Gen
<1>4. o.id \in Id /\ o.gen \in Nat
    BY DEF Operation, Gen
<1>5. ASSUME Unmoved, NEW p \in Operation, NEW outcome \in Outcome, Settle(c, p, outcome),
             p.id = o.id, p.outcome = Null, p.gen <= gen,
             outcome = "crashed" => p.gen \in deaths,
             outcome = "unavailable" => envBroken' \/ p.gen \in deaths
      PROVE  Custody'
    <2>1. OnePlace'
        BY <1>1, <1>2, <1>3, <1>5, PlaceStays
    <2>2. \A id \in Id : Kept(id)
        BY <1>1, <1>5, UnmovedKeeps
    <2>3. gen <= gen' /\ gen' \in Nat /\ p.gen \in Nat
        BY <1>5 DEF Unmoved, Onward, TypeOK, Gen, Operation
    <2>4. ASSUME NEW n \in Operation, op'[c] = n
          PROVE  Fits(n)' /\ n.id = o.id
        <3>1. n = After(p, outcome)
            BY <1>5, <2>4 DEF Settle, TypeOK
        <3>2. ~Posted(p.id)' /\ \A g \in Gen : ~Holds(g, p.id)'
            BY <1>1, <1>4, <1>5 DEF Unmoved
        <3>3. p.id < nextId' /\ p.gen <= gen'
            BY <1>3, <1>5, <2>3
        <3>4. Fits(n)'
            BY <1>5, <3>1, <3>2, <3>3, SettleFits
        <3>. QED
            BY <1>5, <3>1, <3>4, AfterIs
    <2>5. \A d \in Conn \ {c} : op'[d] = op[d]
        BY <1>5 DEF Settle, TypeOK
    <2>6. \A p1 \in Operation : p1.id \in Id
        BY DEF Operation
    <2>7. OpsFit'
        BY <1>5, <2>2, <2>4, <2>5, <2>6, OpsStillFit DEF Unmoved
    <2>. QED
        BY <1>5, <2>1, <2>7 DEF Custody, Unmoved
<1>6. CASE envBroken /\ Settle(c, o, "unavailable") /\ UNCHANGED <<poolVars, initVars>>
    <2>1. Unmoved
        BY <1>6, PoolsAlone DEF initVars
    <2>2. "unavailable" \in Outcome /\ envBroken'
        BY <1>6 DEF Outcome, initVars
    <2>3. Settle(c, o, "unavailable")
        BY <1>6
    <2>. QED
        BY <1>5, <2>1, <2>2, <2>3
<1>7. ASSUME ~envBroken, ex.broken, NEW outcome \in Outcome, OnBroken(gen, outcome),
             Settle(c, [o EXCEPT !.gen = gen], outcome)
      PROVE  Custody'
    <2>1. ex # Null /\ ex.gen = gen /\ gen \in deaths
        BY <1>7 DEF GensInOrder, WorkersInOrder
    <2>2. Gone(gen)
        BY <1>7, <2>1 DEF Gone
    <2>3. Unmoved
        BY <1>3, <1>7, <2>2, OnBrokenIs
    <2>4. PICK p \in Operation : p = [o EXCEPT !.gen = gen]
        BY <1>3 DEF Operation
    <2>5. p.id = o.id /\ p.gen = gen /\ p.outcome = Null
        BY <2>4 DEF Operation
    <2>6. Settle(c, p, outcome) /\ p.gen <= gen
        BY <1>3, <1>7, <2>4, <2>5
    <2>. QED
        BY <1>5, <2>1, <2>3, <2>5, <2>6
<1>8. CASE /\ ~envBroken /\ ~ex.broken
           /\ ex' = [ex EXCEPT !.jobs = Append(@, o.id)]
           /\ op' = [op EXCEPT ![c] = [o EXCEPT !.gen = gen, !.phase = "waiting"]]
           /\ UNCHANGED <<gen, dying, initVars>>
    <2>1. ex # Null /\ ex \in Executor /\ ex.gen = gen /\ ex.jobs \in Seq(Id)
        BY <1>8 DEF GensInOrder, TypeOK, Executor
    <2>2. ex' \in Executor /\ ex' # Null
        <3>1. Append(ex.jobs, o.id) \in Seq(Id)
            BY <1>4, <2>1
        <3>2. ex' \in Executor
            BY <1>8, <2>1, <3>1 DEF Executor
        <3>. QED
            BY <3>2, NullIsNoRecord
    <2>3. /\ ex'.gen = ex.gen /\ ex'.jobs = Append(ex.jobs, o.id)
          /\ ex'.broken = ex.broken /\ ex'.worker = ex.worker
          /\ ex'.warm = ex.warm /\ ex'.ticks = ex.ticks
        BY <1>8, <2>1 DEF Executor
    <2>4. Jobs(ex)' = Jobs(ex) \cup {o.id}
        BY <2>1, <2>3 DEF Jobs
    <2>5. \A g \in Gen, id \in Id : Holds(g, id)' <=> Holds(g, id) \/ (g = gen /\ id = o.id)
        <3>1. ASSUME NEW g \in Gen, NEW id \in Id
              PROVE  Holds(g, id)' <=> \/ \E e \in dying : e.gen = g /\ id \in Jobs(e)
                                       \/ g = gen /\ id \in Jobs(ex)'
            BY <1>8, <2>1, <2>2, <2>3 DEF Holds, Pools
        <3>2. ASSUME NEW g \in Gen, NEW id \in Id
              PROVE  Holds(g, id) <=> \/ \E e \in dying : e.gen = g /\ id \in Jobs(e)
                                      \/ g = gen /\ id \in Jobs(ex)
            BY <2>1 DEF Holds, Pools
        <3>. QED
            BY <2>4, <3>1, <3>2
    <2>6. SubmittedOnce'
        <3>1. o.id \notin Jobs(ex)
            BY <1>3, <2>1 DEF Holds, Pools
        <3>2. Distinct(ex.jobs)
            BY <2>1 DEF OnePlace, SubmittedOnce, Pools
        <3>3. Distinct(ex.jobs)'
            BY <2>1, <2>3, <3>1, <3>2 DEF Distinct, Jobs
        <3>4. \A e \in Pools' : e \in dying \/ e = ex'
            BY <1>8 DEF Pools
        <3>. QED
            BY <3>3, <3>4 DEF OnePlace, SubmittedOnce, Pools, Distinct
    <2>7. GensInOrder'
        BY <1>8, <2>1, <2>2, <2>3 DEF GensInOrder
    <2>8. WorkersInOrder'
        <3>1. Append(ex.jobs, o.id) # <<>>
            BY <1>4, <2>1
        <3>. QED
            BY <1>8, <2>1, <2>3, <3>1 DEF WorkersInOrder
    <2>9. Onward
        BY <1>8, <2>1, <2>3 DEF Onward, Gone, TypeOK, Gen, initVars
    <2>10. OnePlace'
        <3>1. \A g \in Gen, id \in Id : Holds(g, id)' =>
                 id < nextId' /\ ~Posted(id)' /\ \A h \in Gen : Holds(h, id)' => h = g
            <4>1. SUFFICES ASSUME NEW g \in Gen, NEW id \in Id, Holds(g, id)'
                           PROVE  /\ id < nextId' /\ ~Posted(id)'
                                  /\ \A h \in Gen : Holds(h, id)' => h = g
                OBVIOUS
            <4>2. CASE id = o.id
                BY <1>1, <2>5, <4>1, <4>2
            <4>3. CASE id # o.id
                <5>1. Holds(g, id) /\ \A h \in Gen : Holds(h, id)' => Holds(h, id)
                    BY <2>5, <4>1, <4>3
                <5>2. id < nextId /\ ~Posted(id) /\ \A h \in Gen : Holds(h, id) => h = g
                    BY <5>1 DEF OnePlace
                <5>. QED
                    BY <1>1, <1>3, <5>1, <5>2 DEF Id
            <4>. QED
                BY <4>2, <4>3
        <3>2. \A id \in Id : Posted(id)' => id < nextId'
            BY <1>1, <1>3 DEF OnePlace, Id
        <3>. QED
            BY <1>2, <2>6, <3>1, <3>2 DEF OnePlace
    <2>11. ASSUME NEW id \in Id, id # o.id PROVE Kept(id)
        BY <1>1, <2>5, <2>11 DEF Kept
    <2>12. ASSUME NEW n \in Operation, op'[c] = n
           PROVE  Fits(n)' /\ n.id = o.id
        <3>1. n = [o EXCEPT !.gen = gen, !.phase = "waiting"]
            BY <1>8, <2>12 DEF TypeOK
        <3>2. n.id = o.id /\ n.gen = gen /\ n.phase = "waiting" /\ n.outcome = Null
            BY <3>1 DEF Operation
        <3>3. (\E g \in Gen : Holds(g, n.id)') /\ \A g \in Gen : Holds(g, n.id)' => g = gen
            <4>1. \E g \in Gen : Holds(g, n.id)'
                BY <1>3, <1>4, <2>5, <3>2
            <4>2. \A g \in Gen : Holds(g, n.id)' => g = gen
                BY <1>4, <2>5, <3>2
            <4>. QED
                BY <4>1, <4>2
        <3>4. ~Failed(n.id)'
            BY <1>1, <3>2 DEF Failed, Posted
        <3>5. n.gen <= gen' /\ n.id < nextId'
            BY <1>3, <1>8, <3>2
        <3>6. n.outcome # "crashed" /\ n.outcome # "unavailable"
            BY <3>2, PoolAssumption DEF Outcome
        <3>7. \A g \in Gen : Holds(g, n.id)' => g = n.gen
            BY <3>2, <3>3
        <3>8. n.phase = "waiting" /\ n.outcome = Null /\ \E g \in Gen : Holds(g, n.id)'
            BY <3>2, <3>3
        <3>9. Fits(n)'
            BY <3>4, <3>5, <3>6, <3>7, <3>8 DEF Fits
        <3>. QED
            BY <3>2, <3>9
    <2>13. \A d \in Conn \ {c} : op'[d] = op[d]
        BY <1>8 DEF TypeOK
    <2>14. ASSUME NEW p \in Operation, NEW d \in Conn \ {c}, op[d] = p PROVE Kept(p.id)
        <3>1. p # Null /\ p.id \in Id /\ p.id < nextId
            BY <2>14, NullIsNoRecord DEF OpsFit, Fits, Operation
        <3>2. p.id # o.id
            BY <1>3, <2>14, <3>1 DEF OpsFit, Id
        <3>. QED
            BY <2>11, <3>1, <3>2
    <2>15. OpsFit'
        BY <2>9, <2>12, <2>13, <2>14, OpsStillFit
    <2>. QED
        BY <2>7, <2>8, <2>10, <2>15 DEF Custody
<1>. QED
    BY <1>6, <1>7, <1>8, Zenon DEF Submit

LEMMA QuietCustody ==
    ASSUME Strong, TypeOK', Unmoved, PostedOnce',
           \A id \in Id : (Posted(id)' <=> Posted(id)) /\ (Failed(id)' => Failed(id)),
           \A d \in Conn : op'[d] # Null =>
              /\ op[d] # Null /\ op'[d].id = op[d].id /\ op'[d].gen = op[d].gen
              /\ op'[d].phase = op[d].phase /\ op'[d].outcome = op[d].outcome
    PROVE  Custody'
<1>1. nextId \in Nat /\ nextId' \in Nat
    BY DEF Strong, TypeOK
<1>2. OnePlace'
    BY <1>1, PlaceStays DEF Strong
<1>3. \A id \in Id : Kept(id)
    BY UnmovedKeeps
<1>4. OpsFit'
    BY <1>3, OpsKept DEF Unmoved
<1>. QED
    BY <1>2, <1>4 DEF Custody, Unmoved

LEMMA SameEvents ==
    ASSUME Strong, UNCHANGED events
    PROVE  PostedOnce' /\ \A id \in Id : (Posted(id)' <=> Posted(id)) /\ (Failed(id)' => Failed(id))
BY DEF Strong, OnePlace, PostedOnce, Posted, Failed

LEMMA SettleCustody ==
    ASSUME Strong, TypeOK', Unmoved, UNCHANGED events, NEW c \in Conn, Waiting(c),
           NEW outcome \in Outcome \ {"crashed", "unavailable"}, Settle(c, op[c], outcome)
    PROVE  Custody'
<1>. USE DEF Strong
<1>1. nextId \in Nat /\ nextId' \in Nat
    BY DEF TypeOK
<1>2. OnePlace'
    BY <1>1, PlaceStays, SameEvents
<1>3. \A id \in Id : Kept(id)
    BY UnmovedKeeps, SameEvents
<1>4. PICK o \in Operation : o = op[c]
    BY DEF Waiting, TypeOK
<1>5. ASSUME NEW n \in Operation, op'[c] = n PROVE Fits(n)' /\ n.id = o.id
    <2>1. n = After(o, outcome)
        BY <1>4, <1>5 DEF Settle, TypeOK
    <2>2. Fits(o) /\ o.phase = "waiting"
        BY <1>4 DEF OpsFit, Waiting
    <2>3. Fits(o)'
        <3>1. o.id \in Id /\ gen' \in Nat
            BY DEF Operation, TypeOK, Gen
        <3>. QED
            BY <1>1, <1>3, <2>2, <3>1, StillFits DEF Unmoved
    <2>4. o.id < nextId' /\ o.gen <= gen' /\ o.outcome = Null
        BY <2>2, <2>3 DEF Fits
    <2>5. Fits(n)'
        BY <2>1, <2>4, SettleFits
    <2>. QED
        BY <2>1, <2>5, AfterIs
<1>6. \A d \in Conn \ {c} : op'[d] = op[d]
    BY DEF Settle, TypeOK
<1>7. \A o2 \in Operation, d \in Conn \ {c} : op[d] = o2 => Kept(o2.id)
    BY <1>3 DEF Operation
<1>8. op[c] # Null
    BY DEF Waiting
<1>9. OpsFit'
    BY <1>4, <1>5, <1>6, <1>7, <1>8, OpsStillFit DEF Unmoved
<1>. QED
    BY <1>2, <1>9 DEF Custody, Unmoved

LEMMA LoopCustody ==
    ASSUME Strong, TypeOK', NEW c \in Conn
    PROVE  /\ \A kind \in Kinds : Start(c, kind) => Custody'
           /\ Retry(c) \/ Send(c) \/ Look(c) \/ SeeCancel(c) => Custody'
<1>. USE DEF Strong
<1>1. ASSUME NEW kind \in Kinds, Start(c, kind) PROVE Custody'
    <2>1. PICK o \in Operation :
              o = [id |-> nextId, kind |-> kind, attempt |-> 1, gen |-> gen,
                   cancelled |-> FALSE, phase |-> "waiting", moved |-> FALSE,
                   outcome |-> Null, died |-> FALSE]
        BY <1>1, AskedType DEF Start
    <2>2. o.id = nextId /\ o.outcome = Null /\ o.gen = gen /\ nextId \in Id
        BY <2>1 DEF Operation
    <2>3. gen \in Nat /\ nextId \in Nat /\ nextId' = nextId + 1
        BY <1>1 DEF Start, TypeOK, Gen
    <2>4. ~Posted(o.id) /\ \A g \in Gen : ~Holds(g, o.id)
        BY <2>2, <2>3 DEF OnePlace
    <2>5. Submit(c, o) /\ UNCHANGED <<events, reaped, deaths>>
        BY <1>1, <2>1 DEF Start
    <2>. QED
        BY <2>2, <2>3, <2>4, <2>5, SubmitCustody
<1>2. CASE Retry(c)
    <2>1. op[c] \in Operation /\ op[c] # Null /\ Fits(op[c]) /\ op[c].phase = "retry"
        BY <1>2 DEF Retry, TypeOK, OpsFit
    <2>2. PICK o \in Operation : o = [op[c] EXCEPT !.attempt = 2, !.died = FALSE]
        BY <2>1 DEF Operation
    <2>3. o.id = op[c].id /\ o.gen = op[c].gen /\ o.outcome = op[c].outcome
        BY <2>1, <2>2 DEF Operation
    <2>4. o.outcome = Null /\ o.gen <= gen /\ o.id < nextId
          /\ ~Posted(o.id) /\ \A g \in Gen : ~Holds(g, o.id)
        BY <2>1, <2>3 DEF Fits
    <2>5. nextId' = nextId /\ nextId \in Nat
        BY <1>2 DEF Retry, TypeOK
    <2>6. Submit(c, o) /\ UNCHANGED <<events, reaped, deaths>>
        BY <1>2, <2>2 DEF Retry
    <2>. QED
        BY <2>1, <2>3, <2>4, <2>5, <2>6, SubmitCustody
<1>3. CASE Send(c) \/ Look(c)
    <2>1. Unmoved
        BY <1>3, PoolsAlone DEF Send, Look, initVars, TypeOK
    <2>2. UNCHANGED events
        BY <1>3 DEF Send, Look
    <2>3. ASSUME NEW d \in Conn, op'[d] # Null
          PROVE  /\ op[d] # Null /\ op'[d].id = op[d].id /\ op'[d].gen = op[d].gen
                 /\ op'[d].phase = op[d].phase /\ op'[d].outcome = op[d].outcome
        <3>1. CASE Send(c)
            BY <2>3, <3>1 DEF Send, TypeOK
        <3>2. CASE Look(c)
            <4>1. op[c] \in Operation /\ op[c] # Null
                BY <3>2 DEF Look, Waiting, TypeOK
            <4>2. op'[d] = IF d = c THEN [op[c] EXCEPT !.moved = FALSE] ELSE op[d]
                BY <3>2 DEF Look, TypeOK
            <4>. QED
                BY <2>3, <4>1, <4>2 DEF Operation
        <3>. QED
            BY <1>3, <3>1, <3>2
    <2>. QED
        BY <2>1, <2>2, <2>3, SameEvents, QuietCustody
<1>4. CASE SeeCancel(c)
    <2>1. Unmoved
        BY <1>4, PoolsAlone DEF SeeCancel, initVars, TypeOK
    <2>2. UNCHANGED events /\ Waiting(c) /\ Settle(c, op[c], "cancelled")
        BY <1>4 DEF SeeCancel
    <2>3. "cancelled" \in Outcome \ {"crashed", "unavailable"}
        BY DEF Outcome
    <2>. QED
        BY <2>1, <2>2, <2>3, SettleCustody
<1>. QED
    BY <1>1, <1>2, <1>3, <1>4

LEMMA KillMovesNothing ==
    ASSUME Strong, Kill, nextId' = nextId, deaths' = deaths, envBroken' = envBroken
    PROVE  Unmoved
<1>1. envBroken \in BOOLEAN /\ NewPool(envBroken) /\ reaped' = reaped \cup {gen}
    BY DEF Kill, Strong, TypeOK
<1>2. ex = Null => envBroken
    BY DEF Strong, GensInOrder
<1>3. gen \in reaped' /\ reaped \subseteq reaped' /\ nextId <= nextId'
    BY <1>1 DEF Strong, TypeOK
<1>4. deaths \subseteq deaths' /\ (envBroken => envBroken')
    OBVIOUS
<1>. QED
    BY <1>1, <1>2, <1>3, <1>4, Replacing

\* A job is taken back from behind the one that runs.
LEMMA SpliceIs ==
    ASSUME NEW s \in Seq(Id), NEW i \in 2 .. Len(s)
    PROVE  /\ SubSeq(s, 1, i - 1) \o SubSeq(s, i + 1, Len(s)) \in Seq(Id)
           /\ Len(SubSeq(s, 1, i - 1) \o SubSeq(s, i + 1, Len(s))) = Len(s) - 1
           /\ \A j \in 1 .. Len(s) - 1 :
                 (SubSeq(s, 1, i - 1) \o SubSeq(s, i + 1, Len(s)))[j] = s[IF j < i THEN j ELSE j + 1]
<1>. DEFINE a == SubSeq(s, 1, i - 1)
            b == SubSeq(s, i + 1, Len(s))
<1>1. /\ Len(s) \in Nat /\ i \in Int /\ 2 <= i /\ i <= Len(s)
      /\ \A j \in 1 .. Len(s) : s[j] \in Id
    OBVIOUS
<1>2. a \in Seq(Id) /\ Len(a) = i - 1 /\ \A j \in 1 .. i - 1 : a[j] = s[j]
    <2>1. \A j \in 1 .. i - 1 : s[j] \in Id
        BY <1>1
    <2>2. /\ a \in Seq(Id)
          /\ Len(a) = IF 1 <= i - 1 THEN i - 1 - 1 + 1 ELSE 0
          /\ \A j \in 1 .. i - 1 - 1 + 1 : a[j] = s[1 + j - 1]
        BY <1>1, <2>1, SubSeqProperties
    <2>. HIDE DEF a
    <2>. QED
        BY <1>1, <2>2
<1>3. b \in Seq(Id) /\ Len(b) = Len(s) - i /\ \A j \in 1 .. Len(s) - i : b[j] = s[j + i]
    <2>1. \A j \in i + 1 .. Len(s) : s[j] \in Id
        BY <1>1
    <2>2. /\ b \in Seq(Id)
          /\ Len(b) = IF i + 1 <= Len(s) THEN Len(s) - (i + 1) + 1 ELSE 0
          /\ \A j \in 1 .. Len(s) - (i + 1) + 1 : b[j] = s[i + 1 + j - 1]
        BY <1>1, <2>1, SubSeqProperties
    <2>. HIDE DEF b
    <2>. QED
        BY <1>1, <2>2
<1>. HIDE DEF a, b
<1>4. /\ a \o b \in Seq(Id)
      /\ Len(a \o b) = Len(a) + Len(b)
      /\ \A j \in 1 .. Len(a) + Len(b) :
            (a \o b)[j] = IF j <= Len(a) THEN a[j] ELSE b[j - Len(a)]
    BY <1>2, <1>3, ConcatProperties
<1>5. Len(a) + Len(b) = Len(s) - 1
    BY <1>1, <1>2, <1>3
<1>6. ASSUME NEW j \in 1 .. Len(s) - 1 PROVE (a \o b)[j] = s[IF j < i THEN j ELSE j + 1]
    <2>1. CASE j < i
        BY <1>1, <1>2, <1>4, <1>5, <2>1
    <2>2. CASE ~(j < i)
        <3>1. j - (i - 1) \in 1 .. Len(s) - i /\ (j - (i - 1)) + i = j + 1
            BY <1>1, <2>2
        <3>2. (a \o b)[j] = b[j - (i - 1)]
            BY <1>1, <1>2, <1>4, <1>5, <2>2
        <3>. QED
            BY <1>3, <2>2, <3>1, <3>2
    <2>. QED
        BY <2>1, <2>2
<1>. QED
    BY <1>4, <1>5, <1>6 DEF a, b

LEMMA TakenBack ==
    ASSUME NEW s \in Seq(Id), Distinct(s), NEW i \in 2 .. Len(s)
    PROVE  \E r \in Seq(Id) :
              /\ r = SubSeq(s, 1, i - 1) \o SubSeq(s, i + 1, Len(s))
              /\ r # <<>>
              /\ Distinct(r)
              /\ \A id : (\E j \in DOMAIN r : r[j] = id) <=>
                         (\E j \in DOMAIN s : s[j] = id) /\ id # s[i]
<1>1. PICK r \in Seq(Id) : /\ r = SubSeq(s, 1, i - 1) \o SubSeq(s, i + 1, Len(s))
                           /\ Len(r) = Len(s) - 1
                           /\ \A j \in 1 .. Len(s) - 1 : r[j] = s[IF j < i THEN j ELSE j + 1]
    BY SpliceIs
<1>2. Len(r) = Len(s) - 1 /\ \A j \in 1 .. Len(s) - 1 : r[j] = s[IF j < i THEN j ELSE j + 1]
    BY <1>1
<1>3. /\ Len(s) \in Nat /\ DOMAIN s = 1 .. Len(s) /\ i \in Nat /\ 2 <= i /\ i <= Len(s)
      /\ DOMAIN r = 1 .. Len(s) - 1
    BY <1>2
<1>4. Distinct(r)
    <2>1. SUFFICES ASSUME NEW j \in DOMAIN r, NEW k \in DOMAIN r, r[j] = r[k] PROVE j = k
        BY DEF Distinct
    <2>2. PICK p, q : /\ p = IF j < i THEN j ELSE j + 1
                      /\ q = IF k < i THEN k ELSE k + 1
        OBVIOUS
    <2>3. p \in DOMAIN s /\ q \in DOMAIN s /\ s[p] = s[q]
        BY <1>2, <1>3, <2>1, <2>2
    <2>4. p = q
        BY <2>3 DEF Distinct
    <2>. QED
        BY <1>3, <2>2, <2>4
<1>5. ASSUME NEW j \in DOMAIN r PROVE (\E k \in DOMAIN s : s[k] = r[j]) /\ r[j] # s[i]
    <2>1. (IF j < i THEN j ELSE j + 1) \in DOMAIN s \ {i} /\ i \in DOMAIN s
        BY <1>2, <1>3
    <2>. QED
        BY <1>2, <1>3, <2>1 DEF Distinct
<1>6. ASSUME NEW j \in DOMAIN s, s[j] # s[i] PROVE \E k \in DOMAIN r : r[k] = s[j]
    <2>1. CASE j < i
        BY <1>2, <1>3, <2>1
    <2>2. CASE j > i
        <3>1. j - 1 \in DOMAIN r /\ ~(j - 1 < i) /\ (j - 1) + 1 = j
            BY <1>2, <1>3, <2>2
        <3>2. r[j - 1] = s[j]
            BY <1>2, <1>3, <3>1
        <3>. QED
            BY <3>1, <3>2
    <2>. QED
        BY <1>2, <1>3, <1>6, <2>1, <2>2
<1>7. r # <<>>
    BY <1>2, <1>3
<1>8. \A id : (\E j \in DOMAIN r : r[j] = id) <=> (\E j \in DOMAIN s : s[j] = id) /\ id # s[i]
    BY <1>5, <1>6
<1>. QED
    BY <1>1, <1>4, <1>7, <1>8, Zenon

LEMMA KillCustody ==
    ASSUME Strong, TypeOK', NEW c \in Conn, Reap(c) \/ Cancel(c)
    PROVE  Custody'
<1>. USE DEF Strong
<1>1. CASE Reap(c)
    <2>1. Unmoved
        BY <1>1, KillMovesNothing DEF Reap, initVars
    <2>2. UNCHANGED events /\ Waiting(c) /\ Settle(c, op[c], "stalled")
        BY <1>1 DEF Reap
    <2>3. "stalled" \in Outcome \ {"crashed", "unavailable"}
        BY DEF Outcome
    <2>. QED
        BY <2>1, <2>2, <2>3, SettleCustody
<1>2. CASE Cancel(c)
    <2>1. Unmoved
        <3>1. CASE Kill
            BY <1>2, <3>1, KillMovesNothing DEF Cancel, initVars
        <3>2. CASE UNCHANGED <<poolVars, reaped>>
            BY <1>2, <3>2, PoolsAlone DEF Cancel, initVars, TypeOK
        <3>. QED
            BY <1>2, <3>1, <3>2 DEF Cancel
    <2>2. UNCHANGED <<events, nextId>> /\ nextId \in Nat
        BY <1>2 DEF Cancel, TypeOK
    <2>3. PostedOnce' /\ \A id \in Id : (Posted(id)' <=> Posted(id)) /\ (Failed(id)' => Failed(id))
        BY <2>2, SameEvents
    <2>4. OnePlace'
        BY <2>1, <2>2, <2>3, PlaceStays
    <2>5. \A id \in Id : Kept(id)
        BY <2>1, <2>3, UnmovedKeeps
    <2>6. PICK o \in Operation : o = op[c] /\ o # Null
        BY <1>2 DEF Cancel, TypeOK
    <2>7. PICK outcome \in {o.outcome, "cancelled"} :
              /\ outcome # o.outcome => o.outcome = "result"
              /\ op' = [op EXCEPT ![c].cancelled = TRUE, ![c].outcome = outcome]
        BY <1>2, <2>6 DEF Cancel
    <2>8. ASSUME NEW n \in Operation, op'[c] = n PROVE Fits(n)' /\ n.id = o.id
        <3>1. op'[c] = [o EXCEPT !.cancelled = TRUE, !.outcome = outcome]
            BY <2>6, <2>7 DEF TypeOK
        <3>2. n = [o EXCEPT !.cancelled = TRUE, !.outcome = outcome]
            BY <2>8, <3>1
        <3>3. n.id = o.id /\ n.gen = o.gen /\ n.phase = o.phase /\ n.outcome = outcome
            BY <3>2 DEF Operation
        <3>4. Fits(o)
            BY <2>6 DEF OpsFit
        <3>5. "result" # Null
            BY PoolAssumption DEF Outcome
        <3>6. Fits(n)
            <4>1. CASE outcome = o.outcome
                BY <3>3, <3>4, <4>1 DEF Fits
            <4>2. CASE outcome = "cancelled" /\ o.outcome = "result"
                <5>1. o.phase = "sending"
                    BY <3>4, <3>5, <4>2 DEF Fits, Operation
                <5>. QED
                    BY <3>3, <3>4, <4>2, <5>1 DEF Fits
            <4>. QED
                BY <2>7, <4>1, <4>2
        <3>7. gen' \in Nat /\ nextId' \in Nat /\ n.id \in Id
            BY <2>2, <2>8 DEF TypeOK, Gen, Operation
        <3>8. Fits(n)'
            BY <2>1, <2>5, <3>6, <3>7, StillFits DEF Unmoved
        <3>. QED
            BY <3>3, <3>8
    <2>9. \A d \in Conn \ {c} : op'[d] = op[d]
        BY <2>7 DEF TypeOK
    <2>10. \A p \in Operation : p.id \in Id
        BY DEF Operation
    <2>11. OpsFit'
        BY <2>1, <2>5, <2>6, <2>8, <2>9, <2>10, OpsStillFit DEF Unmoved
    <2>. QED
        BY <2>1, <2>4, <2>11 DEF Custody, Unmoved
<1>. QED
    BY <1>1, <1>2

LEMMA DisconnectCustody ==
    ASSUME Strong, TypeOK', NEW c \in Conn, Disconnect(c)
    PROVE  Custody'
<1>. USE DEF Strong
<1>1. PostedOnce' /\ \A id \in Id : (Posted(id)' <=> Posted(id)) /\ (Failed(id)' => Failed(id))
    BY SameEvents DEF Disconnect
<1>2. /\ op' = [op EXCEPT ![c] = Null] /\ nextId' = nextId /\ nextId \in Nat
      /\ UNCHANGED <<gen, dying, deaths, reaped, envBroken>>
    BY DEF Disconnect, TypeOK, initVars
<1>3. CASE UNCHANGED ex
    <2>1. Unmoved
        BY <1>2, <1>3, PoolsAlone DEF poolVars
    <2>2. \A d \in Conn : op'[d] # Null => op'[d] = op[d]
        BY <1>2 DEF TypeOK
    <2>. QED
        BY <1>1, <2>1, <2>2, QuietCustody
<1>4. CASE ~UNCHANGED ex
    <2>1. PICK i \in 2 .. Len(ex.jobs) :
              /\ ex.jobs[i] = op[c].id
              /\ ex' = [ex EXCEPT !.jobs = SubSeq(@, 1, i - 1) \o SubSeq(@, i + 1, Len(@))]
        BY <1>4 DEF Disconnect
    <2>2. ex # Null /\ ex \in Executor /\ ex.gen = gen /\ ex.jobs \in Seq(Id) /\ gen \in Gen
        BY <1>4 DEF Disconnect, TypeOK, Executor, GensInOrder
    <2>3. PICK o \in Operation : o = op[c] /\ o # Null
        BY DEF Disconnect, TypeOK
    <2>4. Distinct(ex.jobs)
        BY <2>2 DEF OnePlace, SubmittedOnce, Pools
    <2>5. PICK r \in Seq(Id) :
              /\ r = SubSeq(ex.jobs, 1, i - 1) \o SubSeq(ex.jobs, i + 1, Len(ex.jobs))
              /\ r # <<>>
              /\ Distinct(r)
              /\ \A id : (\E j \in DOMAIN r : r[j] = id) <=>
                         (\E j \in DOMAIN ex.jobs : ex.jobs[j] = id) /\ id # ex.jobs[i]
        BY <2>1, <2>2, <2>4, TakenBack
    <2>6. /\ r # <<>> /\ Distinct(r)
          /\ \A id : (\E j \in DOMAIN r : r[j] = id) <=> id \in Jobs(ex) /\ id # o.id
        BY <2>1, <2>3, <2>5 DEF Jobs
    <2>7. /\ ex'.gen = ex.gen /\ ex'.jobs = r /\ ex'.broken = ex.broken
          /\ ex'.worker = ex.worker /\ ex'.warm = ex.warm /\ ex'.ticks = ex.ticks
        BY <2>1, <2>2, <2>5 DEF Executor
    <2>8. ex' # Null
        <3>1. ex' = [ex EXCEPT !.jobs = r]
            BY <2>1, <2>5
        <3>2. ex' \in Executor \/ ex' = Null
            BY DEF TypeOK
        <3>3. [ex EXCEPT !.jobs = r] # Null
            <4>1. [ex EXCEPT !.jobs = r] \in Executor
                BY <2>2, <2>5 DEF Executor
            <4>. QED
                BY <4>1, NullIsNoRecord
        <3>. QED
            BY <3>1, <3>3
    <2>9. \A id : id \in Jobs(ex)' <=> id \in Jobs(ex) /\ id # o.id
        BY <2>6, <2>7 DEF Jobs
    <2>10. \A g \in Gen, id \in Id : Holds(g, id)' <=> Holds(g, id) /\ ~(g = gen /\ id = o.id)
        <3>1. ASSUME NEW g \in Gen, NEW id \in Id
              PROVE  Holds(g, id)' <=> \/ \E e \in dying : e.gen = g /\ id \in Jobs(e)
                                       \/ g = gen /\ id \in Jobs(ex)'
            BY <1>2, <2>2, <2>7, <2>8 DEF Holds, Pools
        <3>2. ASSUME NEW g \in Gen, NEW id \in Id
              PROVE  Holds(g, id) <=> \/ \E e \in dying : e.gen = g /\ id \in Jobs(e)
                                      \/ g = gen /\ id \in Jobs(ex)
            BY <2>2 DEF Holds, Pools
        <3>3. \A e \in dying : e.gen # gen
            BY <2>2 DEF GensInOrder
        <3>. QED
            BY <2>9, <3>1, <3>2, <3>3
    <2>11. SubmittedOnce'
        <3>1. \A e \in Pools' : e \in dying \/ e = ex'
            BY <1>2 DEF Pools
        <3>. QED
            BY <2>6, <2>7, <3>1 DEF OnePlace, SubmittedOnce, Pools
    <2>12. GensInOrder' /\ WorkersInOrder'
        <3>1. GensInOrder'
            BY <1>2, <2>2, <2>7, <2>8 DEF GensInOrder
        <3>2. ex.jobs # <<>>
            BY <2>1, <2>2
        <3>3. WorkersInOrder'
            BY <1>2, <2>2, <2>6, <2>7, <3>2 DEF WorkersInOrder
        <3>. QED
            BY <3>1, <3>3
    <2>13. Onward
        BY <1>2, <2>2, <2>7 DEF Onward, Gone, TypeOK, Gen
    <2>14. OnePlace'
        <3>1. \A g \in Gen, id \in Id : Holds(g, id)' => Holds(g, id)
            BY <2>10
        <3>. QED
            BY <1>1, <1>2, <2>11, <3>1 DEF OnePlace
    <2>15. ASSUME NEW p \in Operation, NEW d \in Conn \ {c}, op[d] = p PROVE Kept(p.id)
        <3>1. p.id # o.id /\ p.id \in Id
            BY <2>3, <2>15, NullIsNoRecord DEF OpsFit, Operation
        <3>. QED
            BY <1>1, <2>10, <3>1 DEF Kept
    <2>16. \A n \in Operation : op'[c] # n
        BY <1>2, NullIsNoRecord DEF TypeOK
    <2>17. \A d \in Conn \ {c} : op'[d] = op[d]
        BY <1>2 DEF TypeOK
    <2>18. OpsFit'
        BY <2>13, <2>15, <2>16, <2>17, OpsStillFit
    <2>. QED
        BY <2>12, <2>14, <2>18 DEF Custody
<1>. QED
    BY <1>3, <1>4

LEMMA IdleStillFits ==
    ASSUME TypeOK, NEW o \in Operation, Fits(o), Onward, o.phase # "waiting",
           Posted(o.id)' => Posted(o.id), \A g \in Gen : Holds(g, o.id)' => Holds(g, o.id),
           nextId' \in Nat, gen' \in Nat
    PROVE  Fits(o)'
<1>1. o.id < nextId' /\ o.gen <= gen'
    <2>1. o.id \in Nat /\ o.gen \in Nat /\ nextId \in Nat /\ gen \in Nat
        BY DEF Operation, TypeOK, Id, Gen
    <2>. QED
        BY <2>1 DEF Fits, Onward
<1>. QED
    BY <1>1 DEF Fits, Onward

LEMMA SeenCustody ==
    ASSUME Strong, TypeOK', WarmupSeen \/ JobSeen
    PROVE  Custody'
<1>. USE DEF Strong
<1>1. events # <<>> /\ events' = Tail(events) /\ nextId' = nextId /\ nextId \in Nat
      /\ deaths' = deaths /\ reaped' = reaped
    BY DEF WarmupSeen, JobSeen, TypeOK
<1>2. PostedOnce
    BY DEF OnePlace
<1>3. PostedOnce' /\ \A id : (Posted(id)' => Posted(id)) /\ (Failed(id)' => Failed(id))
    BY <1>1, <1>2, HeadGone
<1>4. CASE WarmupSeen
    <2>1. \A id : Posted(id) => Posted(id)'
        BY <1>1, <1>2, <1>4, HeadGone DEF WarmupSeen
    <2>2. envBroken => envBroken'
        BY <1>4, Zenon DEF WarmupSeen, NoteInitFailure
    <2>3. Unmoved
        BY <1>1, <1>4, <2>2, PoolsAlone DEF WarmupSeen
    <2>4. op' = op
        BY <1>4 DEF WarmupSeen
    <2>. QED
        BY <1>3, <2>1, <2>3, <2>4, QuietCustody
<1>5. CASE JobSeen
    <2>1. PICK i0 \in Id : i0 = Head(events).id
        BY <1>1, <1>5, HeadType DEF JobSeen
    <2>2. /\ Head(events).on = "job" /\ Head(events) = events[1] /\ 1 \in DOMAIN events
        BY <1>1, <1>5 DEF JobSeen, TypeOK
    <2>3. /\ ~Posted(i0)'
          /\ \A id : id # i0 => (Posted(id)' <=> Posted(id))
        BY <1>1, <1>2, <2>1, <2>2, HeadGone
    <2>4. Posted(i0) /\ (~Head(events).ok => Failed(i0)) /\ \A g \in Gen : ~Holds(g, i0)
        <3>1. Posted(i0) /\ (~Head(events).ok => Failed(i0))
            BY <2>1, <2>2 DEF Posted, Failed
        <3>. QED
            BY <3>1 DEF OnePlace
    <2>5. nextId' \in Nat /\ gen' \in Nat
        BY DEF TypeOK, Gen
    <2>6. ASSUME NEW c \in Conn, NEW outcome \in Outcome, Waiting(c), op[c].id = i0,
                 JobOutcome(op[c], Head(events).ok, outcome), Settle(c, op[c], outcome)
          PROVE  Custody'
        <3>1. PICK o \in Operation : o = op[c] /\ o # Null
            BY <2>6 DEF Waiting, TypeOK
        <3>2. Fits(o) /\ o.phase = "waiting" /\ o.id = i0
            BY <2>6, <3>1 DEF OpsFit, Waiting
        <3>3. /\ Unmoved
              /\ outcome \in {"crashed", "unavailable"} => o.gen \in deaths
            <4>1. CASE /\ outcome \in {"cancelled", "result"}
                       /\ UNCHANGED <<poolVars, failed, envBroken>>
                BY <1>1, <4>1, PoolsAlone
            <4>2. CASE ~Head(events).ok /\ OnBroken(o.gen, outcome)
                <5>1. Gone(o.gen) /\ o.gen <= gen
                    BY <2>4, <3>2, <4>2 DEF Fits
                <5>2. o.gen \in Gen /\ nextId <= nextId'
                    BY <1>1 DEF Operation
                <5>. QED
                    BY <1>1, <4>2, <5>1, <5>2, OnBrokenIs
            <4>. QED
                BY <2>6, <3>1, <4>1, <4>2 DEF JobOutcome
        <3>4. OnePlace'
            BY <1>1, <1>3, <2>5, <3>3, PlaceStays
        <3>5. \A id \in Id : id # i0 => Kept(id)
            BY <1>3, <2>3, <3>3, UnmovedKeeps
        <3>6. ASSUME NEW n \in Operation, op'[c] = n PROVE Fits(n)' /\ n.id = o.id
            <4>1. n = After(o, outcome)
                BY <2>6, <3>1, <3>6 DEF Settle, TypeOK
            <4>2. o.id < nextId' /\ o.gen <= gen' /\ o.outcome = Null
                <5>1. o.gen \in Nat /\ gen \in Nat /\ gen <= gen'
                    BY <3>3 DEF Operation, TypeOK, Gen, Unmoved, Onward
                <5>. QED
                    BY <1>1, <2>5, <3>2, <5>1 DEF Fits
            <4>3. ~Posted(o.id)' /\ \A g \in Gen : ~Holds(g, o.id)'
                BY <2>3, <2>4, <3>2, <3>3 DEF Unmoved
            <4>4. Fits(n)'
                BY <1>1, <3>3, <4>1, <4>2, <4>3, SettleFits
            <4>. QED
                BY <4>1, <4>4, AfterIs
        <3>7. \A d \in Conn \ {c} : op'[d] = op[d]
            BY <2>6 DEF Settle, TypeOK
        <3>8. ASSUME NEW p \in Operation, NEW d \in Conn \ {c}, op[d] = p PROVE Kept(p.id)
            <4>1. p.id # i0 /\ p.id \in Id
                BY <3>1, <3>2, <3>8, NullIsNoRecord DEF OpsFit, Operation
            <4>. QED
                BY <3>5, <4>1
        <3>9. OpsFit'
            BY <3>1, <3>3, <3>6, <3>7, <3>8, OpsStillFit DEF Unmoved
        <3>. QED
            BY <3>3, <3>4, <3>9 DEF Custody, Unmoved
    <2>7. CASE /\ ~\E c \in Conn : Waiting(c) /\ op[c].id = Head(events).id
               /\ UNCHANGED <<poolVars, failed, envBroken, op>>
        <3>1. Unmoved
            BY <1>1, <2>7, PoolsAlone
        <3>2. OnePlace'
            BY <1>1, <1>3, <2>5, <3>1, PlaceStays
        <3>3. \A id \in Id : id # i0 => Kept(id)
            BY <1>3, <2>3, <3>1, UnmovedKeeps
        <3>4. ASSUME NEW d \in Conn, op'[d] # Null PROVE Fits(op[d])'
            <4>1. PICK n \in Operation : n = op[d] /\ n = op'[d]
                BY <2>7, <3>4 DEF TypeOK
            <4>2. Fits(n) /\ n.id \in Id
                BY <3>4, <4>1 DEF OpsFit, Operation
            <4>3. CASE n.id = i0
                <5>1. n.phase # "waiting"
                    BY <2>1, <2>7, <3>4, <4>1, <4>3 DEF Waiting
                <5>2. Fits(n)'
                    BY <1>3, <2>5, <3>1, <4>2, <5>1, IdleStillFits DEF Unmoved
                <5>. QED
                    BY <4>1, <5>2
            <4>4. CASE n.id # i0
                <5>1. Fits(n)'
                    BY <2>5, <3>1, <3>3, <4>2, <4>4, StillFits DEF Unmoved
                <5>. QED
                    BY <4>1, <5>1
            <4>. QED
                BY <4>3, <4>4
        <3>5. OpsFit'
            BY <2>7, <3>4 DEF OpsFit
        <3>. QED
            BY <3>1, <3>2, <3>5 DEF Custody, Unmoved
    <2>. QED
        BY <1>5, <2>1, <2>6, <2>7, Zenon DEF JobSeen
<1>. QED
    BY <1>4, <1>5

\* Jobs of one pool resolve, all of them or some.
LEMMA MovingCustody ==
    ASSUME Strong, TypeOK', NEW g0 \in Gen, NEW M,
           \A g \in Gen, id \in Id : Holds(g, id)' <=> Holds(g, id) /\ ~(g = g0 /\ id \in M),
           \A id \in M : id \in Id /\ Holds(g0, id),
           \A id \in Id : Posted(id)' <=> Posted(id) \/ id \in M,
           \A id \in Id : Failed(id)' => Failed(id) \/ (id \in M /\ Gone(g0)'),
           SubmittedOnce', PostedOnce', GensInOrder', WorkersInOrder', Onward,
           op' = op, nextId' = nextId
    PROVE  Custody'
<1>. USE DEF Strong
<1>1. OnePlace'
    <2>1. ASSUME NEW g \in Gen, NEW id \in Id, Holds(g, id)'
          PROVE  /\ id < nextId' /\ ~Posted(id)'
                 /\ \A h \in Gen : Holds(h, id)' => h = g
        <3>1. Holds(g, id) /\ ~(g = g0 /\ id \in M)
            BY <2>1
        <3>2. id < nextId /\ ~Posted(id) /\ \A h \in Gen : Holds(h, id) => h = g
            BY <3>1 DEF OnePlace
        <3>3. id \notin M
            BY <3>1, <3>2
        <3>. QED
            BY <3>2, <3>3
    <2>2. \A id \in Id : Posted(id)' => id < nextId'
        BY DEF OnePlace
    <2>. QED
        BY <2>1, <2>2 DEF OnePlace
<1>2. \A id \in Id : Kept(id)
    BY DEF Kept
<1>3. OpsFit'
    BY <1>2, OpsKept
<1>. QED
    BY <1>1, <1>3 DEF Custody

LEMMA WorkerCustody ==
    ASSUME Strong, TypeOK', WorkerStarts \/ BringUpFails \/ Tick \/ Crash
    PROVE  Custody'
<1>. USE DEF Strong
<1>1. ex \in Executor /\ ex # Null /\ ex' \in Executor \cup {Null}
      /\ nextId' = nextId /\ nextId \in Nat /\ UNCHANGED <<gen, dying, reaped, envBroken>>
    BY DEF WorkerStarts, BringUpFails, Tick, Crash, TypeOK, initVars
<1>2. CASE WorkerStarts
    <2>1. ex' = [ex EXCEPT !.worker = "up", !.warm = "ok"] /\ deaths' = deaths /\ op' = op
          /\ ex.worker = "starting" /\ events = <<>>
          /\ events' = <<[on |-> "warm", gen |-> ex.gen, ok |-> TRUE]>>
        BY <1>2 DEF WorkerStarts
    <2>2. ex' \in Executor /\ ex' # Null
        BY <1>1, <2>1, NullIsNoRecord DEF Executor
    <2>3. /\ ex'.gen = ex.gen /\ ex'.jobs = ex.jobs /\ ex'.broken = ex.broken
          /\ ex'.worker = "up" /\ ex'.warm = "ok" /\ ex'.ticks = ex.ticks
        BY <1>1, <2>1 DEF Executor
    <2>4. WorkersInOrder'
        BY <1>1, <2>1, <2>3 DEF WorkersInOrder
    <2>5. Unmoved
        BY <1>1, <2>1, <2>2, <2>3, <2>4, WorkerChanges
    <2>6. \A id : ~Posted(id) /\ ~Failed(id)
        BY <2>1 DEF Posted, Failed
    <2>7. DOMAIN events' = {1} /\ events'[1].on = "warm"
        BY <2>1
    <2>8. PostedOnce' /\ \A id : ~Posted(id)' /\ ~Failed(id)'
        BY <2>7 DEF PostedOnce, Posted, Failed
    <2>. QED
        BY <2>1, <2>5, <2>6, <2>8, QuietCustody
<1>3. CASE BringUpFails
    <2>1. ex' = [ex EXCEPT !.worker = "dead"] /\ deaths' = deaths \cup {ex.gen} /\ op' = op
          /\ ex.worker = "starting" /\ events' = events
        BY <1>3 DEF BringUpFails
    <2>2. ex' \in Executor /\ ex' # Null
        BY <1>1, <2>1, NullIsNoRecord DEF Executor
    <2>3. /\ ex'.gen = ex.gen /\ ex'.jobs = ex.jobs /\ ex'.broken = ex.broken
          /\ ex'.worker = "dead" /\ ex'.warm = ex.warm /\ ex'.ticks = ex.ticks
        BY <1>1, <2>1 DEF Executor
    <2>4. WorkersInOrder'
        BY <1>1, <2>1, <2>3 DEF WorkersInOrder
    <2>5. Unmoved
        BY <1>1, <2>1, <2>2, <2>3, <2>4, WorkerChanges
    <2>. QED
        BY <2>1, <2>5, SameEvents, QuietCustody
<1>4. CASE Tick
    <2>1. ex' = [ex EXCEPT !.ticks = @ + 1] /\ deaths' = deaths /\ events' = events
          /\ ex.jobs # <<>> /\ ex.worker = "up"
        BY <1>4 DEF Tick
    <2>2. ex' \in Executor /\ ex' # Null
        <3>1. ex.ticks + 1 \in 0 .. MaxTicks
            BY <1>1, <1>4, PoolAssumption DEF Tick, Executor
        <3>. QED
            BY <1>1, <2>1, <3>1, NullIsNoRecord DEF Executor
    <2>3. /\ ex'.gen = ex.gen /\ ex'.jobs = ex.jobs /\ ex'.broken = ex.broken
          /\ ex'.worker = ex.worker /\ ex'.warm = ex.warm
        BY <1>1, <2>1 DEF Executor
    <2>4. WorkersInOrder'
        BY <1>1, <2>1, <2>3 DEF WorkersInOrder
    <2>5. Unmoved
        BY <1>1, <2>1, <2>2, <2>3, <2>4, WorkerChanges
    <2>6. ASSUME NEW d \in Conn, op'[d] # Null
          PROVE  /\ op[d] # Null /\ op'[d].id = op[d].id /\ op'[d].gen = op[d].gen
                 /\ op'[d].phase = op[d].phase /\ op'[d].outcome = op[d].outcome
        <3>1. op'[d] = IF Waiting(d) /\ op[d].kind # "quick"
                       THEN [op[d] EXCEPT !.moved = TRUE] ELSE op[d]
            BY <1>4 DEF Tick
        <3>2. op[d] # Null /\ op[d] \in Operation
            BY <2>6, <3>1 DEF Waiting, TypeOK
        <3>. QED
            BY <3>1, <3>2 DEF Operation
    <2>. QED
        BY <2>1, <2>5, <2>6, SameEvents, QuietCustody
<1>5. CASE Crash
    <2>1. ex' = [ex EXCEPT !.worker = "dead"] /\ deaths' = deaths \cup {ex.gen}
          /\ ex.worker = "up" /\ events' = events
        BY <1>5 DEF Crash
    <2>2. ex' \in Executor /\ ex' # Null
        BY <1>1, <2>1, NullIsNoRecord DEF Executor
    <2>3. /\ ex'.gen = ex.gen /\ ex'.jobs = ex.jobs /\ ex'.broken = ex.broken
          /\ ex'.worker = "dead" /\ ex'.warm = ex.warm /\ ex'.ticks = ex.ticks
        BY <1>1, <2>1 DEF Executor
    <2>4. WorkersInOrder'
        BY <1>1, <2>1, <2>3 DEF WorkersInOrder
    <2>5. Unmoved
        BY <1>1, <2>1, <2>2, <2>3, <2>4, WorkerChanges
    <2>6. ASSUME NEW d \in Conn, op'[d] # Null
          PROVE  /\ op[d] # Null /\ op'[d].id = op[d].id /\ op'[d].gen = op[d].gen
                 /\ op'[d].phase = op[d].phase /\ op'[d].outcome = op[d].outcome
        <3>1. op'[d] = IF Waiting(d) /\ ex.ticks > 0 /\ Head(ex.jobs) = op[d].id
                       THEN [op[d] EXCEPT !.died = TRUE] ELSE op[d]
            BY <1>5 DEF Crash
        <3>2. op[d] # Null /\ op[d] \in Operation
            BY <2>6, <3>1 DEF Waiting, TypeOK
        <3>. QED
            BY <3>1, <3>2 DEF Operation
    <2>. QED
        BY <2>1, <2>5, <2>6, SameEvents, QuietCustody
<1>. QED
    BY <1>2, <1>3, <1>4, <1>5

LEMMA JobEndsCustody == ASSUME Strong, TypeOK', JobEnds PROVE Custody'
<1>. USE DEF Strong
<1>1. ex \in Executor /\ ex # Null /\ ex.gen = gen /\ gen \in Gen /\ ex.jobs \in Seq(Id)
    BY DEF JobEnds, TypeOK, Executor, GensInOrder
<1>2. ex.jobs # <<>> /\ ex.worker = "up" /\ ~ex.broken
    BY DEF JobEnds, WorkersInOrder
<1>3. PICK j0 \in Id : j0 = Head(ex.jobs)
    BY <1>1, <1>2
<1>4. /\ Tail(ex.jobs) \in Seq(Id) /\ Len(ex.jobs) \in Nat \ {0}
      /\ DOMAIN ex.jobs = 1 .. Len(ex.jobs)
      /\ DOMAIN Tail(ex.jobs) = 1 .. Len(ex.jobs) - 1
      /\ \A i \in 1 .. Len(ex.jobs) - 1 : Tail(ex.jobs)[i] = ex.jobs[i + 1]
      /\ j0 = ex.jobs[1]
    BY <1>1, <1>2, <1>3
<1>5. /\ ex' = [ex EXCEPT !.jobs = Tail(ex.jobs), !.ticks = 0]
      /\ events' = Append(events, [on |-> "job", id |-> j0, ok |-> TRUE])
      /\ UNCHANGED <<gen, dying, envBroken, reaped, op, nextId, deaths>>
    BY <1>3 DEF JobEnds, initVars
<1>6. /\ ex'.gen = gen /\ ex'.jobs = Tail(ex.jobs) /\ ex'.broken = ex.broken
      /\ ex'.worker = ex.worker /\ ex'.warm = ex.warm /\ ex'.ticks = 0
    BY <1>1, <1>5 DEF Executor
<1>7. ex' # Null
    <2>1. 0 \in 0 .. MaxTicks
        BY PoolAssumption
    <2>2. ex' \in Executor
        BY <1>1, <1>4, <1>5, <2>1 DEF Executor
    <2>. QED
        BY <2>2, NullIsNoRecord
<1>8. Distinct(ex.jobs) /\ Distinct(Tail(ex.jobs))
    <2>1. Distinct(ex.jobs)
        BY <1>1 DEF OnePlace, SubmittedOnce, Pools
    <2>2. ASSUME NEW i \in DOMAIN Tail(ex.jobs), NEW k \in DOMAIN Tail(ex.jobs),
                 Tail(ex.jobs)[i] = Tail(ex.jobs)[k]
          PROVE  i = k
        <3>1. i + 1 \in DOMAIN ex.jobs /\ k + 1 \in DOMAIN ex.jobs /\ i \in Nat /\ k \in Nat
            BY <1>4
        <3>2. ex.jobs[i + 1] = ex.jobs[k + 1]
            BY <1>4, <2>2
        <3>3. i + 1 = k + 1
            BY <2>1, <3>1, <3>2 DEF Distinct
        <3>. QED
            BY <3>1, <3>3
    <2>. QED
        BY <2>1, <2>2 DEF Distinct
<1>9. \A id : id \in Jobs(ex)' <=> id \in Jobs(ex) /\ id # j0
    <2>1. ASSUME NEW i \in DOMAIN Tail(ex.jobs)
          PROVE  /\ \E k \in DOMAIN ex.jobs : ex.jobs[k] = Tail(ex.jobs)[i]
                 /\ Tail(ex.jobs)[i] # j0
        <3>1. i + 1 \in DOMAIN ex.jobs /\ 1 \in DOMAIN ex.jobs /\ i + 1 # 1
            BY <1>4
        <3>. QED
            BY <1>4, <1>8, <3>1 DEF Distinct
    <2>2. ASSUME NEW k \in DOMAIN ex.jobs, ex.jobs[k] # j0
          PROVE  \E i \in DOMAIN Tail(ex.jobs) : Tail(ex.jobs)[i] = ex.jobs[k]
        <3>1. k - 1 \in 1 .. Len(ex.jobs) - 1 /\ (k - 1) + 1 = k
            BY <1>4, <2>2
        <3>2. Tail(ex.jobs)[k - 1] = ex.jobs[k]
            BY <1>4, <3>1
        <3>. QED
            BY <1>4, <3>1, <3>2
    <2>. QED
        BY <1>6, <2>1, <2>2 DEF Jobs
<1>10. \A g \in Gen, id \in Id : Holds(g, id)' <=> Holds(g, id) /\ ~(g = gen /\ id \in {j0})
    <2>1. ASSUME NEW g \in Gen, NEW id \in Id
          PROVE  Holds(g, id)' <=> \/ \E e \in dying : e.gen = g /\ id \in Jobs(e)
                                   \/ g = gen /\ id \in Jobs(ex)'
        BY <1>5, <1>6, <1>7 DEF Holds, Pools
    <2>2. ASSUME NEW g \in Gen, NEW id \in Id
          PROVE  Holds(g, id) <=> \/ \E e \in dying : e.gen = g /\ id \in Jobs(e)
                                  \/ g = gen /\ id \in Jobs(ex)
        BY <1>1 DEF Holds, Pools
    <2>3. \A e \in dying : e.gen # gen
        BY <1>1 DEF GensInOrder
    <2>. QED
        BY <1>9, <2>1, <2>2, <2>3
<1>11. Holds(gen, j0)
    BY <1>1, <1>4 DEF Holds, Pools, Jobs
<1>12. /\ events \in Seq(Event) /\ Len(events) \in Nat /\ DOMAIN events = 1 .. Len(events)
       /\ DOMAIN events' = 1 .. Len(events) + 1
       /\ \A i \in 1 .. Len(events) : events'[i] = events[i]
       /\ events'[Len(events) + 1] = [on |-> "job", id |-> j0, ok |-> TRUE]
    BY <1>5 DEF TypeOK
<1>13. /\ \A i \in DOMAIN events' : i \in DOMAIN events \/ i = Len(events) + 1
       /\ Len(events) + 1 \in DOMAIN events' /\ Len(events) + 1 \notin DOMAIN events
       /\ events'[Len(events) + 1].on = "job" /\ events'[Len(events) + 1].id = j0
       /\ events'[Len(events) + 1].ok
    BY <1>12
<1>14. \A id \in Id : Posted(id)' <=> Posted(id) \/ id \in {j0}
    BY <1>12, <1>13 DEF Posted
<1>15. \A id \in Id : Failed(id)' => Failed(id)
    BY <1>12, <1>13 DEF Failed
<1>16. PostedOnce'
    <2>1. ~Posted(j0)
        BY <1>1, <1>11 DEF OnePlace
    <2>2. \A i \in DOMAIN events : ~(events[i].on = "job" /\ events[i].id = j0)
        BY <2>1 DEF Posted
    <2>3. PostedOnce
        BY DEF OnePlace
    <2>. QED
        BY <1>12, <1>13, <2>2, <2>3 DEF PostedOnce
<1>17. SubmittedOnce'
    <2>1. \A e \in Pools' : e \in dying \/ e = ex'
        BY <1>5 DEF Pools
    <2>. QED
        BY <1>6, <1>8, <2>1 DEF OnePlace, SubmittedOnce, Pools
<1>18. GensInOrder'
    BY <1>1, <1>5, <1>6, <1>7 DEF GensInOrder
<1>19. WorkersInOrder'
    BY <1>1, <1>2, <1>5, <1>6 DEF WorkersInOrder
<1>20. Onward
    BY <1>1, <1>5, <1>6 DEF Onward, Gone, TypeOK, Gen
<1>21. PICK g0 \in Gen : g0 = gen
    BY <1>1
<1>22. \A id \in {j0} : id \in Id /\ Holds(g0, id)
    BY <1>11, <1>21
<1>23. \A g \in Gen, id \in Id : Holds(g, id)' <=> Holds(g, id) /\ ~(g = g0 /\ id \in {j0})
    BY <1>10, <1>21
<1>. QED
    BY <1>5, <1>14, <1>15, <1>16, <1>17, <1>18, <1>19, <1>20, <1>22, <1>23, MovingCustody

LEMMA PoolBreaksCustody == ASSUME Strong, TypeOK', PoolBreaks PROVE Custody'
<1>. USE DEF Strong
<1>1. /\ ex \in Executor /\ ex # Null /\ ex.gen = gen /\ gen \in Gen
      /\ ex.worker = "dead" /\ gen \in deaths
    BY DEF PoolBreaks, TypeOK, GensInOrder, WorkersInOrder
<1>2. /\ events' = events \o Broken(ex)
      /\ UNCHANGED <<gen, dying, envBroken, reaped, op, nextId, deaths>>
    BY DEF PoolBreaks, initVars
<1>3. /\ ex'.gen = gen /\ ex'.jobs = <<>> /\ ex'.broken /\ ex'.worker = "dead"
      /\ ex'.ticks = 0 /\ ex'.warm # "pending"
    BY <1>1 DEF PoolBreaks, Executor
<1>4. ex' # Null
    <2>1. <<>> \in Seq(Id) /\ 0 \in 0 .. MaxTicks
        BY PoolAssumption
    <2>2. ex' \in Executor
        BY <1>1, <2>1 DEF PoolBreaks, Executor
    <2>. QED
        BY <2>2, NullIsNoRecord
<1>5. PICK g0, M : g0 \in Gen /\ g0 = gen /\ M = Jobs(ex)
    BY <1>1
<1>6. \A id \in M : id \in Id /\ Holds(g0, id)
    <2>1. \A id \in Jobs(ex) : id \in Id
        BY <1>1 DEF Jobs, Executor
    <2>. QED
        BY <1>1, <1>5, <2>1 DEF Holds, Pools
<1>7. \A g \in Gen, id \in Id : Holds(g, id)' <=> Holds(g, id) /\ ~(g = g0 /\ id \in M)
    <2>1. \A id : id \notin Jobs(ex)'
        BY <1>3 DEF Jobs
    <2>2. ASSUME NEW g \in Gen, NEW id \in Id
          PROVE  Holds(g, id)' <=> \/ \E e \in dying : e.gen = g /\ id \in Jobs(e)
                                   \/ g = gen /\ id \in Jobs(ex)'
        BY <1>2, <1>3, <1>4 DEF Holds, Pools
    <2>3. ASSUME NEW g \in Gen, NEW id \in Id
          PROVE  Holds(g, id) <=> \/ \E e \in dying : e.gen = g /\ id \in Jobs(e)
                                  \/ g = gen /\ id \in Jobs(ex)
        BY <1>1 DEF Holds, Pools
    <2>4. \A e \in dying : e.gen # gen
        BY <1>1 DEF GensInOrder
    <2>. QED
        BY <1>5, <2>1, <2>2, <2>3, <2>4
<1>8. /\ PostedOnce'
      /\ \A id : Posted(id)' <=> Posted(id) \/ id \in M
      /\ \A id : Failed(id)' => Failed(id) \/ id \in M
    <2>1. Distinct(ex.jobs)
        BY <1>1 DEF OnePlace, SubmittedOnce, Pools
    <2>2. \A id \in Jobs(ex) : ~Posted(id)
        BY <1>5, <1>6 DEF OnePlace
    <2>3. PostedOnce
        BY DEF OnePlace
    <2>. QED
        BY <1>1, <1>2, <1>5, <2>1, <2>2, <2>3, BreakingPosts
<1>9. SubmittedOnce'
    <2>1. \A e \in Pools' : e \in dying \/ e = ex'
        BY <1>2 DEF Pools
    <2>2. Distinct(<<>>)
        BY DEF Distinct
    <2>. QED
        BY <1>3, <2>1, <2>2 DEF OnePlace, SubmittedOnce, Pools
<1>10. GensInOrder'
    BY <1>1, <1>2, <1>3, <1>4 DEF GensInOrder
<1>11. WorkersInOrder'
    BY <1>1, <1>2, <1>3 DEF WorkersInOrder
<1>12. Onward
    BY <1>1, <1>2, <1>3 DEF Onward, Gone, TypeOK, Gen
<1>13. Gone(g0)'
    BY <1>1, <1>2, <1>3, <1>5 DEF Gone
<1>. QED
    BY <1>2, <1>5, <1>6, <1>7, <1>8, <1>9, <1>10, <1>11, <1>12, <1>13, MovingCustody

LEMMA OldPoolBreaksCustody == ASSUME Strong, TypeOK', OldPoolBreaks PROVE Custody'
<1>. USE DEF Strong
<1>1. PICK e \in dying : dying' = dying \ {e} /\ events' = events \o Broken(e)
    BY DEF OldPoolBreaks
<1>2. UNCHANGED <<gen, ex, envBroken, reaped, op, nextId, deaths>>
    BY DEF OldPoolBreaks, initVars
<1>3. e \in Executor /\ e.gen \in Gen /\ e.gen \in reaped /\ e \in Pools
    BY <1>1 DEF TypeOK, Executor, WorkersInOrder, Pools
<1>4. PICK g0, M : g0 \in Gen /\ g0 = e.gen /\ M = Jobs(e)
    BY <1>3
<1>5. \A id \in M : id \in Id /\ Holds(g0, id)
    <2>1. \A id \in Jobs(e) : id \in Id
        BY <1>3 DEF Jobs, Executor
    <2>. QED
        BY <1>3, <1>4, <2>1 DEF Holds
<1>6. Pools' = Pools \ {e} /\ \A f \in Pools : f.gen = g0 => f = e
    <2>1. e # ex
        BY <1>1, <1>3, NullIsNoRecord DEF GensInOrder
    <2>2. Pools' = Pools \ {e}
        BY <1>1, <1>2, <2>1 DEF Pools
    <2>3. \A f \in Pools : f.gen = g0 => f = e
        BY <1>1, <1>4 DEF Pools, GensInOrder
    <2>. QED
        BY <2>2, <2>3
<1>7. \A g \in Gen, id \in Id : Holds(g, id)' <=> Holds(g, id) /\ ~(g = g0 /\ id \in M)
    <2>1. ASSUME NEW g \in Gen, NEW id \in Id
          PROVE  Holds(g, id)' <=> \E f \in Pools \ {e} : f.gen = g /\ id \in Jobs(f)
        BY <1>6 DEF Holds
    <2>2. ASSUME NEW g \in Gen, NEW id \in Id
          PROVE  Holds(g, id) <=> \E f \in Pools : f.gen = g /\ id \in Jobs(f)
        BY DEF Holds
    <2>. QED
        BY <1>3, <1>4, <1>6, <2>1, <2>2
<1>8. /\ PostedOnce'
      /\ \A id : Posted(id)' <=> Posted(id) \/ id \in M
      /\ \A id : Failed(id)' => Failed(id) \/ id \in M
    <2>1. Distinct(e.jobs)
        BY <1>3 DEF OnePlace, SubmittedOnce
    <2>2. \A id \in Jobs(e) : ~Posted(id)
        BY <1>4, <1>5 DEF OnePlace
    <2>3. PostedOnce
        BY DEF OnePlace
    <2>. QED
        BY <1>1, <1>3, <1>4, <2>1, <2>2, <2>3, BreakingPosts
<1>9. SubmittedOnce'
    BY <1>6 DEF OnePlace, SubmittedOnce
<1>10. GensInOrder' /\ WorkersInOrder'
    <2>1. GensInOrder'
        BY <1>1, <1>2 DEF GensInOrder
    <2>2. WorkersInOrder'
        BY <1>1, <1>2 DEF WorkersInOrder
    <2>. QED
        BY <2>1, <2>2
<1>11. Onward
    BY <1>2 DEF Onward, Gone, TypeOK, Gen
<1>12. Gone(g0)'
    BY <1>2, <1>3, <1>4 DEF Gone
<1>. QED
    BY <1>2, <1>4, <1>5, <1>7, <1>8, <1>9, <1>10, <1>11, <1>12, MovingCustody

LEMMA CustodyHolds == ASSUME Strong, [Next]_vars PROVE Custody'
<1>1. TypeOK'
    BY TypesHold
<1>2. CASE UNCHANGED vars
    BY <1>2 DEF Strong, vars, Custody, GensInOrder, WorkersInOrder, OnePlace, OpsFit, Fits,
                SubmittedOnce, PostedOnce, Distinct, Posted, Failed, Holds, Pools, Jobs, Gone
<1>3. CASE \E c \in Conn, kind \in Kinds : Start(c, kind)
    BY <1>1, <1>3, LoopCustody
<1>4. CASE \E c \in Conn : Retry(c) \/ Send(c) \/ Supervise(c) \/ Cancel(c) \/ Disconnect(c)
    BY <1>1, <1>4, LoopCustody, KillCustody, DisconnectCustody, Zenon DEF Supervise
<1>. QED
    BY <1>1, <1>2, <1>3, <1>4, SeenCustody, WorkerCustody, JobEndsCustody,
       PoolBreaksCustody, OldPoolBreaksCustody, Zenon DEF Next

-----------------------------------------------------------------------------
(* Giving the engine up.                                                   *)

Healthy == HealthyIsNeverGivenUp /\ IsFiniteSet(failed)

\* Every warm-up that is still to be seen was so before.
WarmUpsFrom ==
    \A i \in DOMAIN events' : events'[i].on = "warm" =>
        \E j \in DOMAIN events :
            /\ events[j].on = "warm" /\ events[j].ok = events'[i].ok
            /\ events[j].gen = events'[i].gen
            /\ events[j].ok = TRUE => i = j

LEMMA FirstIsThere ==
    ASSUME NEW s \in Seq(Event), NEW i \in DOMAIN s
    PROVE  1 \in DOMAIN s
OBVIOUS

LEMMA WarmUpsKeep ==
    ASSUME Strong, TypeOK', WarmUpsFrom,
           envBroken' /\ ex' # Null => ex'.worker # "starting",
           1 \in DOMAIN events /\ WarmEvent(1, TRUE) =>
              /\ ~envBroken' /\ ex' # Null /\ ex'.warm # "failed"
              /\ ex'.worker = "dead" => ex'.warm = "ok",
           reaped \subseteq reaped', failed \subseteq failed',
           ex # Null /\ ex.warm = "failed" =>
              \/ ex.gen \in reaped' \cup failed'
              \/ ex' # Null /\ ex'.gen = ex.gen /\ ex'.warm = "failed"
    PROVE  WarmUpsInOrder'
<1>. USE DEF Strong
<1>1. events' \in Seq(Event) /\ events \in Seq(Event)
    BY DEF TypeOK
<1>2. ASSUME NEW i \in DOMAIN events', events'[i].on = "warm", events'[i].ok = TRUE
      PROVE  /\ i = 1 /\ 1 \in DOMAIN events /\ events[1].on = "warm" /\ events[1].ok = TRUE
    BY <1>2 DEF WarmUpsFrom, WarmUpsInOrder, WarmEvent
<1>3. ASSUME NEW i \in DOMAIN events', events'[i].on = "warm", events'[i].ok = FALSE
      PROVE  \/ events'[i].gen \in reaped'
             \/ /\ ~(events'[1].on = "warm" /\ events'[1].ok = TRUE)
                /\ \/ events'[i].gen \in failed'
                   \/ ex' # Null /\ ex'.gen = events'[i].gen /\ ex'.warm = "failed"
    <2>1. PICK j \in DOMAIN events : /\ events[j].on = "warm" /\ events[j].ok = FALSE
                                     /\ events[j].gen = events'[i].gen
        BY <1>3 DEF WarmUpsFrom
    <2>2. 1 \in DOMAIN events'
        BY <1>1, FirstIsThere
    <2>3. CASE events[j].gen \in reaped
        BY <2>1, <2>3
    <2>4. CASE /\ ~(events[1].on = "warm" /\ events[1].ok = TRUE)
               /\ \/ events[j].gen \in failed
                  \/ ex # Null /\ ex.gen = events[j].gen /\ ex.warm = "failed"
        <3>1. ~(events'[1].on = "warm" /\ events'[1].ok = TRUE)
            BY <1>2, <2>2, <2>4
        <3>. QED
            BY <2>1, <2>4, <3>1
    <2>. QED
        BY <2>1, <2>3, <2>4 DEF WarmUpsInOrder, WarmEvent
<1>. QED
    BY <1>2, <1>3 DEF WarmUpsInOrder, WarmEvent

LEMMA SameWarmUps == ASSUME events' = events, events \in Seq(Event) PROVE WarmUpsFrom
BY DEF WarmUpsFrom

LEMMA TailWarmUps ==
    ASSUME Strong, events # <<>>, events' = Tail(events)
    PROVE  WarmUpsFrom
<1>1. events \in Seq(Event)
    BY DEF Strong, TypeOK
<1>2. ASSUME NEW i \in DOMAIN events'
      PROVE  i + 1 \in DOMAIN events /\ events'[i] = events[i + 1] /\ i + 1 # 1
    BY <1>1, <1>2
<1>3. ASSUME NEW i \in DOMAIN events', events'[i].on = "warm"
      PROVE  events[i + 1].ok # TRUE
    BY <1>2, <1>3 DEF Strong, WarmUpsInOrder, WarmEvent
<1>. QED
    BY <1>2, <1>3 DEF WarmUpsFrom

\* Pools, bring-ups and the environment are as they were.
LEMMA QuietHealth ==
    ASSUME Strong, UNCHANGED initVars, deaths \subseteq deaths'
    PROVE  Healthy'
BY DEF Strong, Healthy, HealthyIsNeverGivenUp, initVars

LEMMA NoteHealth ==
    ASSUME Strong, NEW g \in Gen, NoteInitFailure(g), g \notin failed \cup reaped => g \in deaths,
           deaths' = deaths, everUp' = everUp
    PROVE  Healthy' /\ failed \subseteq failed'
<1>. USE DEF Strong
<1>1. CASE g \in failed \cup reaped
    BY <1>1 DEF NoteInitFailure, Healthy, HealthyIsNeverGivenUp
<1>2. CASE g \notin failed \cup reaped
    <2>1. failed' = failed \cup {g} /\ g \in deaths
        BY <1>2 DEF NoteInitFailure
    <2>2. IsFiniteSet(failed')
        BY <2>1, FS_AddElement
    <2>3. Cardinality(failed') = Cardinality(failed) + 1 /\ Cardinality(failed) \in Nat
        BY <1>2, <2>1, FS_AddElement, FS_CardinalityType
    <2>4. envBroken' => ~everUp /\ Cardinality(failed') >= MaxAttempts
        <3>1. CASE envBroken
            BY <2>3, <3>1, PoolAssumption DEF HealthyIsNeverGivenUp
        <3>2. CASE ~envBroken
            BY <1>2, <3>2, Zenon DEF NoteInitFailure
        <3>. QED
            BY <3>1, <3>2
    <2>5. failed' \subseteq deaths'
        BY <2>1 DEF HealthyIsNeverGivenUp
    <2>. QED
        BY <2>1, <2>2, <2>4, <2>5 DEF Healthy, HealthyIsNeverGivenUp
<1>. QED
    BY <1>1, <1>2

LEMMA NewPoolIs ==
    ASSUME TypeOK, NEW latched \in BOOLEAN, NewPool(latched)
    PROVE  /\ latched => ex' = Null
           /\ ~latched => ex' # Null /\ ex'.worker = "starting" /\ ex'.warm = "pending"
<1>1. gen + 1 \in Gen
    BY DEF TypeOK, Gen
<1>2. CASE latched
    BY <1>2, Zenon DEF NewPool
<1>3. CASE ~latched
    <2>1. ex' = Fresh(gen + 1)
        BY <1>3, Zenon DEF NewPool
    <2>. QED
        BY <1>1, <1>3, <2>1, FreshType DEF Fresh
<1>. QED
    BY <1>2, <1>3

LEMMA OnBrokenHealth ==
    ASSUME Strong, TypeOK', NEW g \in Gen, NEW o, g <= gen, Gone(g), OnBroken(g, o), WarmUpsFrom,
           deaths' = deaths, reaped' = reaped, everUp' = everUp
    PROVE  WarmUpsInOrder' /\ Healthy'
<1>. USE DEF Strong
<1>1. envBroken \in BOOLEAN /\ envBroken' \in BOOLEAN
    BY DEF TypeOK
<1>2. 1 \in DOMAIN events /\ WarmEvent(1, TRUE) =>
          /\ ~envBroken
          /\ ex # Null /\ ex.warm # "failed"
          /\ ex.worker = "dead" => ex.warm = "ok"
    BY DEF WarmUpsInOrder
<1>3. ex # Null => ex.gen = gen /\ (ex.broken => ex.worker = "dead" /\ ex.warm # "pending")
    BY DEF GensInOrder, WorkersInOrder
<1>4. g \notin reaped => g \in deaths /\ ~(ex # Null /\ ex.gen = g /\ ~ex.broken)
    BY DEF Gone
<1>5. CASE UNCHANGED <<poolVars, failed, envBroken>>
    <2>1. Healthy'
        BY <1>5, QuietHealth DEF initVars
    <2>2. WarmUpsInOrder'
        BY <1>2, <1>5, WarmUpsKeep DEF WarmUpsInOrder, poolVars
    <2>. QED
        BY <2>1, <2>2
<1>6. CASE g \notin reaped /\ CameUp(g) /\ NewPool(envBroken) /\ UNCHANGED <<failed, envBroken>>
    <2>1. Healthy'
        BY <1>6, QuietHealth DEF initVars
    <2>2. ex # Null /\ ex.warm = "ok"
        BY <1>6 DEF CameUp
    <2>3. /\ envBroken => ex' = Null
          /\ ~envBroken => ex' # Null /\ ex'.worker = "starting" /\ ex'.warm = "pending"
        BY <1>1, <1>6, NewPoolIs
    <2>4. WarmUpsInOrder'
        BY <1>2, <1>6, <2>2, <2>3, WarmUpsKeep
    <2>. QED
        BY <2>1, <2>4
<1>7. CASE g \notin reaped /\ ~CameUp(g) /\ g = gen /\ NoteInitFailure(g) /\ NewPool(envBroken')
    <2>1. Healthy' /\ failed \subseteq failed'
        BY <1>4, <1>7, NoteHealth
    <2>2. /\ envBroken' => ex' = Null
          /\ ~envBroken' => ex' # Null /\ ex'.worker = "starting" /\ ex'.warm = "pending"
        BY <1>1, <1>7, NewPoolIs
    <2>3. g \in failed'
        BY <1>7, Zenon DEF NoteInitFailure
    <2>4. ~(1 \in DOMAIN events /\ WarmEvent(1, TRUE))
        <3>1. SUFFICES ASSUME 1 \in DOMAIN events, WarmEvent(1, TRUE) PROVE FALSE
            OBVIOUS
        <3>2. ex # Null /\ ex.gen = g /\ ex.broken
            BY <1>2, <1>3, <1>4, <1>7, <3>1
        <3>3. ex.warm = "ok"
            BY <1>2, <1>3, <3>1, <3>2
        <3>. QED
            BY <1>7, <3>2, <3>3 DEF CameUp
    <2>5. WarmUpsInOrder'
        BY <1>3, <1>7, <2>1, <2>2, <2>3, <2>4, WarmUpsKeep
    <2>. QED
        BY <2>1, <2>5
<1>. QED
    BY <1>5, <1>6, <1>7, Zenon DEF OnBroken

LEMMA KillHealth ==
    ASSUME Strong, TypeOK', Kill, WarmUpsFrom, UNCHANGED initVars
    PROVE  WarmUpsInOrder'
<1>. USE DEF Strong
<1>1. NewPool(envBroken) /\ reaped' = reaped \cup {gen} /\ envBroken \in BOOLEAN
    BY DEF Kill, TypeOK
<1>2. /\ envBroken => ex' = Null
      /\ ~envBroken => ex' # Null /\ ex'.worker = "starting" /\ ex'.warm = "pending"
    BY <1>1, NewPoolIs
<1>3. 1 \in DOMAIN events /\ WarmEvent(1, TRUE) => ~envBroken
    BY DEF WarmUpsInOrder
<1>4. ex # Null => ex.gen \in reaped'
    BY <1>1 DEF GensInOrder
<1>5. failed' = failed /\ envBroken' = envBroken
    BY DEF initVars
<1>. QED
    BY <1>1, <1>2, <1>3, <1>4, <1>5, WarmUpsKeep

\* The current worker, if it changes, keeps its warm-up and does not start anew.
LEMMA SameWorkerHealth ==
    ASSUME Strong, TypeOK', WarmUpsFrom, UNCHANGED <<initVars, reaped>>,
           \/ ex' = ex
           \/ /\ ex # Null /\ ex' # Null /\ ex'.gen = ex.gen /\ ex'.warm = ex.warm
              /\ ex'.worker = ex.worker \/ (ex'.worker = "dead" /\ ex.worker = "up")
    PROVE  WarmUpsInOrder'
<1>. USE DEF Strong
<1>1. 1 \in DOMAIN events /\ WarmEvent(1, TRUE) =>
          /\ ~envBroken /\ ex # Null /\ ex.warm # "failed"
          /\ ex.worker = "dead" => ex.warm = "ok"
    BY DEF WarmUpsInOrder
<1>2. envBroken /\ ex # Null => ex.worker # "starting"
    BY DEF WarmUpsInOrder
<1>3. ex # Null /\ ex.worker = "up" => ex.warm = "ok"
    BY DEF WorkersInOrder
<1>4. failed' = failed /\ envBroken' = envBroken /\ reaped' = reaped
    BY DEF initVars
<1>. QED
    BY <1>1, <1>2, <1>3, <1>4, WarmUpsKeep

LEMMA SubmitHealth ==
    ASSUME Strong, TypeOK', NEW c \in Conn, NEW o \in Operation, Submit(c, o),
           UNCHANGED <<events, reaped, deaths>>
    PROVE  WarmUpsInOrder' /\ Healthy'
<1>. USE DEF Strong
<1>1. WarmUpsFrom
    BY SameWarmUps DEF TypeOK
<1>2. CASE UNCHANGED <<poolVars, initVars>>
    BY <1>1, <1>2, SameWorkerHealth, QuietHealth DEF poolVars
<1>3. ASSUME ~envBroken, ex.broken, NEW outcome, OnBroken(gen, outcome), UNCHANGED everUp
      PROVE  WarmUpsInOrder' /\ Healthy'
    <2>1. ex # Null /\ ex.gen = gen /\ gen \in deaths /\ gen \in Gen
        BY <1>3 DEF GensInOrder, WorkersInOrder, TypeOK
    <2>2. Gone(gen) /\ gen <= gen
        BY <1>3, <2>1 DEF Gone, Gen
    <2>. QED
        BY <1>1, <1>3, <2>1, <2>2, OnBrokenHealth
<1>4. CASE /\ ~envBroken
           /\ ex' = [ex EXCEPT !.jobs = Append(@, o.id)]
           /\ UNCHANGED initVars
    <2>1. ex # Null /\ ex \in Executor
        BY <1>4 DEF GensInOrder, TypeOK
    <2>2. ex'.gen = ex.gen /\ ex'.warm = ex.warm /\ ex'.worker = ex.worker
        BY <1>4, <2>1 DEF Executor
    <2>3. ex' # Null
        <3>1. ex' \in Executor
            <4>1. o.id \in Id /\ ex.jobs \in Seq(Id)
                BY <2>1 DEF Operation, Executor
            <4>2. Append(ex.jobs, o.id) \in Seq(Id)
                BY <4>1
            <4>. QED
                BY <1>4, <2>1, <4>2 DEF Executor
        <3>. QED
            BY <3>1, NullIsNoRecord
    <2>. QED
        BY <1>1, <1>4, <2>1, <2>2, <2>3, SameWorkerHealth, QuietHealth
<1>. QED
    BY <1>2, <1>3, <1>4, Zenon DEF Submit

LEMMA LoopHealth ==
    ASSUME Strong, TypeOK', NEW c \in Conn
    PROVE  /\ \A kind \in Kinds : Start(c, kind) => WarmUpsInOrder' /\ Healthy'
           /\ Retry(c) \/ Send(c) \/ Look(c) \/ SeeCancel(c) => WarmUpsInOrder' /\ Healthy'
           /\ Reap(c) \/ Cancel(c) \/ Disconnect(c) => WarmUpsInOrder' /\ Healthy'
<1>. USE DEF Strong
<1>1. ASSUME NEW kind \in Kinds, Start(c, kind) PROVE WarmUpsInOrder' /\ Healthy'
    <2>1. PICK o \in Operation :
              o = [id |-> nextId, kind |-> kind, attempt |-> 1, gen |-> gen,
                   cancelled |-> FALSE, phase |-> "waiting", moved |-> FALSE,
                   outcome |-> Null, died |-> FALSE]
        BY <1>1, AskedType DEF Start
    <2>2. Submit(c, o) /\ UNCHANGED <<events, reaped, deaths>>
        BY <1>1, <2>1 DEF Start
    <2>. QED
        BY <2>2, SubmitHealth
<1>2. CASE Retry(c)
    <2>1. PICK o \in Operation : o = [op[c] EXCEPT !.attempt = 2, !.died = FALSE]
        BY <1>2 DEF Retry, TypeOK, Operation
    <2>2. Submit(c, o) /\ UNCHANGED <<events, reaped, deaths>>
        BY <1>2, <2>1 DEF Retry
    <2>. QED
        BY <2>2, SubmitHealth
<1>3. ASSUME UNCHANGED <<poolVars, initVars, reaped, events, deaths>>
      PROVE  WarmUpsInOrder' /\ Healthy'
    <2>1. WarmUpsFrom
        BY <1>3, SameWarmUps DEF TypeOK
    <2>. QED
        BY <1>3, <2>1, SameWorkerHealth, QuietHealth DEF poolVars
<1>4. CASE Send(c) \/ Look(c) \/ SeeCancel(c)
    BY <1>3, <1>4 DEF Send, Look, SeeCancel
<1>5. ASSUME Kill, UNCHANGED <<initVars, events, deaths>>
      PROVE  WarmUpsInOrder' /\ Healthy'
    <2>1. WarmUpsFrom
        BY <1>5, SameWarmUps DEF TypeOK
    <2>. QED
        BY <1>5, <2>1, KillHealth, QuietHealth
<1>6. CASE Reap(c)
    BY <1>5, <1>6 DEF Reap
<1>7. CASE Cancel(c)
    BY <1>3, <1>5, <1>7 DEF Cancel
<1>8. CASE Disconnect(c)
    <2>1. WarmUpsFrom
        BY <1>8, SameWarmUps DEF Disconnect, TypeOK
    <2>2. CASE UNCHANGED ex
        BY <1>8, <2>1, <2>2, SameWorkerHealth, QuietHealth DEF Disconnect
    <2>3. CASE ~UNCHANGED ex
        <3>1. PICK i \in 2 .. Len(ex.jobs) :
                ex' = [ex EXCEPT !.jobs = SubSeq(@, 1, i - 1) \o SubSeq(@, i + 1, Len(@))]
            BY <1>8, <2>3 DEF Disconnect
        <3>2. ex # Null /\ ex \in Executor /\ ex.jobs \in Seq(Id)
            BY <1>8, <2>3 DEF Disconnect, TypeOK, Executor
        <3>3. ex'.gen = ex.gen /\ ex'.warm = ex.warm /\ ex'.worker = ex.worker
            BY <3>1, <3>2 DEF Executor
        <3>4. ex' # Null
            <4>1. SubSeq(ex.jobs, 1, i - 1) \o SubSeq(ex.jobs, i + 1, Len(ex.jobs)) \in Seq(Id)
                BY <3>1, <3>2, SpliceIs
            <4>2. ex' \in Executor
                BY <3>1, <3>2, <4>1 DEF Executor
            <4>. QED
                BY <4>2, NullIsNoRecord
        <3>. QED
            BY <1>8, <2>1, <3>2, <3>3, <3>4, SameWorkerHealth, QuietHealth DEF Disconnect
    <2>. QED
        BY <2>2, <2>3
<1>. QED
    BY <1>1, <1>2, <1>4, <1>6, <1>7, <1>8

LEMMA WarmupSeenHealth ==
    ASSUME Strong, TypeOK', WarmupSeen
    PROVE  WarmUpsInOrder' /\ Healthy'
<1>. USE DEF Strong
<1>1. /\ events # <<>> /\ events' = Tail(events) /\ events \in Seq(Event)
      /\ Head(events) = events[1] /\ 1 \in DOMAIN events
      /\ events[1].on = "warm" /\ events[1].ok \in BOOLEAN /\ events[1].gen \in Gen
      /\ UNCHANGED <<poolVars, reaped, deaths>>
    BY HeadType DEF WarmupSeen, TypeOK
<1>2. WarmUpsFrom
    BY <1>1, TailWarmUps
<1>3. CASE events[1].ok /\ everUp' = TRUE /\ failed' = {} /\ UNCHANGED envBroken
    <2>1. WarmEvent(1, TRUE) /\ ~envBroken
        BY <1>1, <1>3 DEF WarmEvent, WarmUpsInOrder
    <2>2. Healthy'
        BY <1>3, <2>1, FS_EmptySet DEF Healthy, HealthyIsNeverGivenUp
    <2>3. ASSUME NEW i \in DOMAIN events', events'[i].on = "warm"
          PROVE  events'[i].ok = FALSE /\ events'[i].gen \in reaped
        <3>1. i + 1 \in DOMAIN events /\ events'[i] = events[i + 1] /\ i + 1 # 1
              /\ events[i + 1] \in Event
            BY <1>1
        <3>2. events[i + 1].ok = FALSE
            <4>1. events[i + 1].ok \in BOOLEAN
                BY <3>1 DEF Event
            <4>2. events[i + 1].ok # TRUE
                BY <2>3, <3>1 DEF WarmUpsInOrder, WarmEvent
            <4>. QED
                BY <4>1, <4>2
        <3>. QED
            BY <2>1, <2>3, <3>1, <3>2 DEF WarmUpsInOrder, WarmEvent
    <2>4. WarmUpsInOrder'
        BY <1>1, <1>3, <2>1, <2>3 DEF WarmUpsInOrder, WarmEvent
    <2>. QED
        BY <2>2, <2>4
<1>4. CASE ~events[1].ok /\ NoteInitFailure(events[1].gen) /\ UNCHANGED everUp
    <2>1. /\ events[1].ok = FALSE
          /\ ~WarmEvent(1, TRUE)
        BY <1>1, <1>4 DEF WarmEvent
    <2>2. \/ events[1].gen \in reaped \cup failed
          \/ /\ ex # Null /\ ex.gen = events[1].gen /\ ex.broken
             /\ ex.worker = "dead" /\ ex.gen \in deaths
        BY <1>1, <2>1 DEF WarmUpsInOrder, WarmEvent, WorkersInOrder
    <2>3. Healthy' /\ failed \subseteq failed'
        BY <1>1, <1>4, <2>2, NoteHealth
    <2>4. envBroken' /\ ex # Null => ex.worker # "starting"
        <3>1. CASE events[1].gen \in reaped \cup failed
            <4>1. envBroken' = envBroken
                BY <1>4, <3>1 DEF NoteInitFailure
            <4>. QED
                BY <4>1 DEF WarmUpsInOrder
        <3>. QED
            BY <2>2, <3>1
    <2>5. WarmUpsInOrder'
        BY <1>1, <1>2, <2>1, <2>3, <2>4, WarmUpsKeep DEF poolVars
    <2>. QED
        BY <2>3, <2>5
<1>. QED
    BY <1>1, <1>3, <1>4, Zenon DEF WarmupSeen

LEMMA JobSeenHealth ==
    ASSUME Strong, TypeOK', JobSeen
    PROVE  WarmUpsInOrder' /\ Healthy'
<1>. USE DEF Strong
<1>1. /\ events # <<>> /\ events' = Tail(events) /\ events \in Seq(Event)
      /\ Head(events) = events[1] /\ 1 \in DOMAIN events
      /\ events[1].on = "job" /\ UNCHANGED <<everUp, reaped, deaths>>
    BY DEF JobSeen, TypeOK
<1>2. WarmUpsFrom
    BY <1>1, TailWarmUps
<1>3. ASSUME UNCHANGED <<poolVars, failed, envBroken>>
      PROVE  WarmUpsInOrder' /\ Healthy'
    BY <1>1, <1>2, <1>3, SameWorkerHealth, QuietHealth DEF poolVars, initVars
<1>4. ASSUME NEW c \in Conn, NEW outcome \in Outcome, Waiting(c), op[c].id = events[1].id,
             ~events[1].ok, OnBroken(op[c].gen, outcome)
      PROVE  WarmUpsInOrder' /\ Healthy'
    <2>1. PICK o \in Operation : o = op[c] /\ o # Null
        BY <1>4 DEF Waiting, TypeOK
    <2>2. Fits(o) /\ o.phase = "waiting" /\ o.id = events[1].id
        BY <1>4, <2>1 DEF OpsFit, Waiting
    <2>3. Failed(o.id)
        BY <1>1, <1>4, <2>2 DEF Failed
    <2>4. Gone(o.gen) /\ o.gen <= gen /\ o.gen \in Gen
        BY <2>2, <2>3 DEF Fits, Operation
    <2>. QED
        BY <1>1, <1>2, <1>4, <2>1, <2>4, OnBrokenHealth
<1>. QED
    BY <1>1, <1>3, <1>4, Zenon DEF JobSeen, JobOutcome

LEMMA WorkerHealth ==
    ASSUME Strong, TypeOK', WorkerStarts \/ BringUpFails \/ Tick \/ Crash
    PROVE  WarmUpsInOrder' /\ Healthy'
<1>. USE DEF Strong
<1>1. /\ ex \in Executor /\ ex # Null /\ events \in Seq(Event)
      /\ UNCHANGED <<initVars, reaped>> /\ deaths \subseteq deaths'
    BY DEF WorkerStarts, BringUpFails, Tick, Crash, TypeOK
<1>2. Healthy'
    BY <1>1, QuietHealth
<1>3. CASE WorkerStarts
    <2>1. ex' = [ex EXCEPT !.worker = "up", !.warm = "ok"] /\ ex.worker = "starting"
          /\ events' = <<[on |-> "warm", gen |-> ex.gen, ok |-> TRUE]>>
        BY <1>3 DEF WorkerStarts
    <2>2. ex' \in Executor /\ ex' # Null
        BY <1>1, <2>1, NullIsNoRecord DEF Executor
    <2>3. ex'.worker = "up" /\ ex'.warm = "ok"
        BY <1>1, <2>1 DEF Executor
    <2>4. DOMAIN events' = {1} /\ events'[1].ok = TRUE
        BY <2>1
    <2>5. ~envBroken'
        BY <1>1, <2>1 DEF WarmUpsInOrder, initVars
    <2>6. WarmUpsInOrder'
        BY <2>2, <2>3, <2>4, <2>5 DEF WarmUpsInOrder, WarmEvent
    <2>. QED
        BY <1>2, <2>6
<1>4. CASE BringUpFails
    <2>1. ex' = [ex EXCEPT !.worker = "dead"] /\ events' = events /\ events = <<>>
        BY <1>4 DEF BringUpFails
    <2>2. ex'.worker = "dead"
        BY <1>1, <2>1 DEF Executor
    <2>3. DOMAIN events' = {}
        BY <2>1
    <2>4. WarmUpsInOrder'
        BY <2>2, <2>3 DEF WarmUpsInOrder
    <2>. QED
        BY <1>2, <2>4
<1>5. CASE Tick
    <2>1. ex' = [ex EXCEPT !.ticks = @ + 1] /\ events' = events
        BY <1>5 DEF Tick
    <2>2. ex.ticks + 1 \in 0 .. MaxTicks
        BY <1>1, <1>5, PoolAssumption DEF Tick, Executor
    <2>3. ex' # Null
        BY <1>1, <2>1, <2>2, NullIsNoRecord DEF Executor
    <2>4. ex'.gen = ex.gen /\ ex'.worker = ex.worker /\ ex'.warm = ex.warm
        BY <1>1, <2>1 DEF Executor
    <2>5. WarmUpsFrom
        BY <1>1, <2>1, SameWarmUps
    <2>. QED
        BY <1>1, <1>2, <2>3, <2>4, <2>5, SameWorkerHealth
<1>6. CASE Crash
    <2>1. ex' = [ex EXCEPT !.worker = "dead"] /\ events' = events /\ ex.worker = "up"
        BY <1>6 DEF Crash
    <2>2. ex' # Null
        BY <1>1, <2>1, NullIsNoRecord DEF Executor
    <2>3. ex'.gen = ex.gen /\ ex'.worker = "dead" /\ ex'.warm = ex.warm
        BY <1>1, <2>1 DEF Executor
    <2>4. WarmUpsFrom
        BY <1>1, <2>1, SameWarmUps
    <2>. QED
        BY <1>1, <1>2, <2>1, <2>2, <2>3, <2>4, SameWorkerHealth
<1>. QED
    BY <1>3, <1>4, <1>5, <1>6

LEMMA JobEndsHealth == ASSUME Strong, TypeOK', JobEnds PROVE WarmUpsInOrder' /\ Healthy'
<1>. USE DEF Strong
<1>1. /\ ex \in Executor /\ ex # Null /\ ex.jobs \in Seq(Id) /\ ex.jobs # <<>>
      /\ UNCHANGED <<initVars, reaped, deaths>>
    BY DEF JobEnds, TypeOK, Executor, WorkersInOrder
<1>2. PICK j0 \in Id : j0 = Head(ex.jobs)
    BY <1>1
<1>3. PICK rest \in Seq(Id) : rest = Tail(ex.jobs)
    <2>1. ASSUME NEW s \in Seq(Id), s # <<>> PROVE Tail(s) \in Seq(Id)
        BY <2>1
    <2>. QED
        BY <1>1, <2>1
<1>4. /\ ex' = [ex EXCEPT !.jobs = rest, !.ticks = 0]
      /\ events' = Append(events, [on |-> "job", id |-> j0, ok |-> TRUE])
    BY <1>2, <1>3 DEF JobEnds
<1>5. ex' # Null
    <2>1. 0 \in 0 .. MaxTicks
        BY PoolAssumption
    <2>. QED
        BY <1>1, <1>4, <2>1, NullIsNoRecord DEF Executor
<1>6. ex'.gen = ex.gen /\ ex'.worker = ex.worker /\ ex'.warm = ex.warm
    BY <1>1, <1>4 DEF Executor
<1>7. WarmUpsFrom
    <2>1. PICK due \in Event : due = [on |-> "job", id |-> j0, ok |-> TRUE]
        BY DEF Event
    <2>2. ASSUME NEW i \in DOMAIN events'
          PROVE  (i \in DOMAIN events /\ events'[i] = events[i]) \/ events'[i] = due
        BY <1>4, <2>1, <2>2 DEF TypeOK
    <2>3. due.on = "job"
        BY <2>1
    <2>. QED
        BY <2>2, <2>3 DEF WarmUpsFrom
<1>. QED
    BY <1>1, <1>5, <1>6, <1>7, SameWorkerHealth, QuietHealth

LEMMA PoolBreaksHealth == ASSUME Strong, TypeOK', PoolBreaks PROVE WarmUpsInOrder' /\ Healthy'
<1>. USE DEF Strong
<1>1. /\ ex \in Executor /\ ex # Null /\ ex.worker = "dead"
      /\ events' = events \o Broken(ex)
      /\ UNCHANGED <<initVars, reaped, deaths>>
    BY DEF PoolBreaks, TypeOK
<1>2. Healthy'
    BY <1>1, QuietHealth
<1>3. /\ \A i \in DOMAIN events : i \in DOMAIN events' /\ events'[i] = events[i]
      /\ \A i \in DOMAIN events' \ DOMAIN events : events'[i].on = "warm" =>
            /\ ex.warm = "pending" /\ events'[i].gen = ex.gen /\ ~events'[i].ok
    <2>1. Distinct(ex.jobs)
        BY <1>1 DEF OnePlace, SubmittedOnce, Pools
    <2>2. \A id \in Jobs(ex) : id \in Id /\ Holds(ex.gen, id)
        BY <1>1 DEF Jobs, Executor, Holds, Pools
    <2>3. ex.gen \in Gen
        BY <1>1 DEF Executor
    <2>4. \A id \in Jobs(ex) : ~Posted(id)
        BY <2>2, <2>3 DEF OnePlace
    <2>5. PostedOnce
        BY DEF OnePlace
    <2>. QED
        BY <1>1, <2>1, <2>4, <2>5, BreakingPosts
<1>4. /\ ex' # Null /\ ex'.gen = ex.gen /\ ex'.worker = "dead"
      /\ ex'.warm = IF ex.warm = "pending" THEN "failed" ELSE ex.warm
    <2>1. <<>> \in Seq(Id) /\ 0 \in 0 .. MaxTicks
        BY PoolAssumption
    <2>2. ex' \in Executor
        BY <1>1, <2>1 DEF PoolBreaks, Executor
    <2>3. ex' # Null
        BY <2>2, NullIsNoRecord
    <2>. QED
        BY <1>1, <2>3 DEF PoolBreaks, Executor
<1>5. failed' = failed /\ envBroken' = envBroken /\ reaped' = reaped /\ events' \in Seq(Event)
    BY <1>1 DEF initVars, TypeOK
<1>6. ASSUME NEW i \in DOMAIN events', events'[i].on = "warm", events'[i].ok = TRUE
      PROVE  /\ i \in DOMAIN events /\ i = 1 /\ ~envBroken /\ ex.warm = "ok"
             /\ events[1].on = "warm" /\ events[1].ok = TRUE
    <2>1. i \in DOMAIN events /\ events'[i] = events[i]
        BY <1>3, <1>6
    <2>. QED
        BY <1>1, <1>6, <2>1 DEF WarmUpsInOrder, WarmEvent
<1>7. ASSUME NEW i \in DOMAIN events', events'[i].on = "warm", events'[i].ok = FALSE
      PROVE  \/ events'[i].gen \in reaped
             \/ /\ ~(events'[1].on = "warm" /\ events'[1].ok = TRUE)
                /\ \/ events'[i].gen \in failed
                   \/ ex'.gen = events'[i].gen /\ ex'.warm = "failed"
    <2>1. 1 \in DOMAIN events'
        BY <1>5, FirstIsThere
    <2>2. CASE i \in DOMAIN events
        <3>1. events'[i] = events[i]
            BY <1>3, <2>2
        <3>2. \/ events[i].gen \in reaped
              \/ /\ ~(events[1].on = "warm" /\ events[1].ok = TRUE)
                 /\ \/ events[i].gen \in failed
                    \/ ex.gen = events[i].gen /\ ex.warm = "failed"
            BY <1>7, <2>2, <3>1 DEF WarmUpsInOrder, WarmEvent
        <3>. QED
            BY <1>4, <1>6, <2>1, <3>1, <3>2
    <2>3. CASE i \notin DOMAIN events
        <3>1. ex.warm = "pending" /\ events'[i].gen = ex.gen
            BY <1>3, <1>7, <2>3
        <3>. QED
            BY <1>4, <1>6, <2>1, <3>1
    <2>. QED
        BY <2>2, <2>3
<1>8. WarmUpsInOrder'
    BY <1>4, <1>5, <1>6, <1>7 DEF WarmUpsInOrder, WarmEvent
<1>. QED
    BY <1>2, <1>8

LEMMA OldPoolBreaksHealth ==
    ASSUME Strong, TypeOK', OldPoolBreaks
    PROVE  WarmUpsInOrder' /\ Healthy'
<1>. USE DEF Strong
<1>1. PICK e \in dying : events' = events \o Broken(e)
    BY DEF OldPoolBreaks
<1>2. /\ ex' = ex /\ UNCHANGED <<initVars, reaped, deaths>>
      /\ failed' = failed /\ envBroken' = envBroken /\ events' \in Seq(Event)
    BY DEF OldPoolBreaks, initVars, TypeOK
<1>3. Healthy'
    BY <1>2, QuietHealth
<1>4. e \in Executor /\ e.gen \in Gen /\ e.gen \in reaped /\ e \in Pools
    BY <1>1 DEF TypeOK, Executor, WorkersInOrder, Pools
<1>5. /\ \A i \in DOMAIN events : i \in DOMAIN events' /\ events'[i] = events[i]
      /\ \A i \in DOMAIN events' \ DOMAIN events : events'[i].on = "warm" =>
            /\ e.warm = "pending" /\ events'[i].gen = e.gen /\ ~events'[i].ok
    <2>1. Distinct(e.jobs)
        BY <1>4 DEF OnePlace, SubmittedOnce
    <2>2. \A id \in Jobs(e) : id \in Id /\ Holds(e.gen, id)
        BY <1>4 DEF Jobs, Executor, Holds
    <2>3. \A id \in Jobs(e) : ~Posted(id)
        BY <1>4, <2>2 DEF OnePlace
    <2>4. PostedOnce
        BY DEF OnePlace
    <2>. QED
        BY <1>1, <1>4, <2>1, <2>3, <2>4, BreakingPosts
<1>6. ASSUME NEW i \in DOMAIN events', events'[i].on = "warm", events'[i].ok = TRUE
      PROVE  /\ i \in DOMAIN events /\ events'[i] = events[i]
             /\ events[i].on = "warm" /\ events[i].ok = TRUE
             /\ i = 1
    <2>1. i \in DOMAIN events /\ events'[i] = events[i]
        BY <1>5, <1>6
    <2>. QED
        BY <1>6, <2>1 DEF WarmUpsInOrder, WarmEvent
<1>7. ASSUME NEW i \in DOMAIN events', events'[i].on = "warm", events'[i].ok = FALSE
      PROVE  \/ events'[i].gen \in reaped
             \/ /\ ~(events'[1].on = "warm" /\ events'[1].ok = TRUE)
                /\ \/ events'[i].gen \in failed
                   \/ ex # Null /\ ex.gen = events'[i].gen /\ ex.warm = "failed"
    <2>1. 1 \in DOMAIN events'
        BY <1>2, FirstIsThere
    <2>2. CASE i \in DOMAIN events
        <3>1. events'[i] = events[i]
            BY <1>5, <2>2
        <3>2. \/ events[i].gen \in reaped
              \/ /\ ~(events[1].on = "warm" /\ events[1].ok = TRUE)
                 /\ \/ events[i].gen \in failed
                    \/ ex # Null /\ ex.gen = events[i].gen /\ ex.warm = "failed"
            BY <1>7, <2>2, <3>1 DEF WarmUpsInOrder, WarmEvent
        <3>. QED
            BY <1>6, <2>1, <3>1, <3>2
    <2>3. CASE i \notin DOMAIN events
        BY <1>4, <1>5, <1>7, <2>3
    <2>. QED
        BY <2>2, <2>3
<1>8. WarmUpsInOrder'
    <2>1. \A i \in DOMAIN events' : events'[i].on = "warm" /\ events'[i].ok = TRUE =>
              /\ ~envBroken /\ ex # Null /\ ex.warm # "failed"
              /\ ex.worker = "dead" => ex.warm = "ok"
        BY <1>6 DEF WarmUpsInOrder, WarmEvent
    <2>2. envBroken /\ ex # Null => ex.worker # "starting"
        BY DEF WarmUpsInOrder
    <2>. QED
        BY <1>2, <1>6, <1>7, <2>1, <2>2 DEF WarmUpsInOrder, WarmEvent
<1>. QED
    BY <1>3, <1>8

LEMMA HealthHolds == ASSUME Strong, [Next]_vars PROVE WarmUpsInOrder' /\ Healthy'
<1>1. TypeOK'
    BY TypesHold
<1>2. CASE UNCHANGED vars
    BY <1>2 DEF Strong, vars, WarmUpsInOrder, WarmEvent, Healthy, HealthyIsNeverGivenUp
<1>3. CASE \E c \in Conn, kind \in Kinds : Start(c, kind)
    BY <1>1, <1>3, LoopHealth
<1>4. CASE \E c \in Conn : Retry(c) \/ Send(c) \/ Supervise(c) \/ Cancel(c) \/ Disconnect(c)
    BY <1>1, <1>4, LoopHealth, Zenon DEF Supervise
<1>. QED
    BY <1>1, <1>2, <1>3, <1>4, WarmupSeenHealth, JobSeenHealth, WorkerHealth, JobEndsHealth,
       PoolBreaksHealth, OldPoolBreaksHealth, Zenon DEF Next

-----------------------------------------------------------------------------
(* The theorems.                                                           *)

LEMMA InitIsStrong == ASSUME Init PROVE Strong
<1>1. 1 \in Gen
    BY DEF Gen
<1>2. ex \in Executor /\ ex # Null
    BY <1>1, FreshType DEF Init
<1>3. /\ ex.gen = 1 /\ ex.worker = "starting" /\ ~ex.broken /\ ex.warm = "pending"
      /\ ex.jobs = <<>> /\ ex.ticks = 0
    BY DEF Init, Fresh
<1>4. TypeOK
    <2>1. nextId \in 1 .. MaxOps + 1 /\ cancels \in 0 .. MaxCancels
        BY PoolAssumption DEF Init
    <2>2. op \in [Conn -> Operation \cup {Null}]
        BY DEF Init
    <2>3. events \in Seq(Event)
        BY DEF Init
    <2>4. /\ gen \in Gen /\ dying = {} /\ failed = {} /\ reaped = {} /\ deaths = {}
          /\ envBroken \in BOOLEAN /\ everUp \in BOOLEAN
        BY <1>1 DEF Init
    <2>. QED
        BY <1>2, <2>1, <2>2, <2>3, <2>4 DEF TypeOK
<1>5. GensInOrder /\ WorkersInOrder
    BY <1>2, <1>3 DEF Init, GensInOrder, WorkersInOrder
<1>6. \A id : ~Posted(id)
    BY DEF Init, Posted
<1>7. Pools = {ex} /\ Jobs(ex) = {} /\ DOMAIN ex.jobs = {}
    BY <1>2, <1>3 DEF Init, Pools, Jobs
<1>8. \A g \in Gen, id \in Id : ~Holds(g, id)
    BY <1>7 DEF Holds
<1>9. OnePlace
    BY <1>6, <1>7, <1>8 DEF Init, OnePlace, SubmittedOnce, PostedOnce, Distinct
<1>10. OpsFit /\ WarmUpsInOrder
    BY DEF Init, OpsFit, WarmUpsInOrder
<1>11. HealthyIsNeverGivenUp /\ IsFiniteSet(failed)
    BY FS_EmptySet DEF Init, HealthyIsNeverGivenUp
<1>. QED
    BY <1>4, <1>5, <1>9, <1>10, <1>11 DEF Strong

\* The inductive invariant: generations tell the pools apart, a future is in one
\* place, operations fit theirs, and warm-ups are seen in an order that blames
\* no healthy environment (_pool_gen, _reaped_gens, _failed_gens).
THEOREM StrongHolds == Spec => []Strong
<1>1. Init => Strong
    BY InitIsStrong
<1>2. Strong /\ [Next]_vars => Strong'
    <2>1. SUFFICES ASSUME Strong, [Next]_vars PROVE Strong'
        OBVIOUS
    <2>2. TypeOK' /\ Custody' /\ WarmUpsInOrder' /\ Healthy'
        BY <2>1, TypesHold, CustodyHolds, HealthHolds, Zenon
    <2>. QED
        BY <2>2 DEF Strong, Custody, Healthy
<1>. QED
    BY <1>1, <1>2, PTL DEF Spec

\* Types hold, there is a pool unless the engine was given up, and a generation
\* names one pool (_new_pool).
THEOREM PoolsStayInOrder == Spec => []IInv
<1>1. Strong => IInv
    <2>1. SUFFICES ASSUME Strong PROVE IInv
        OBVIOUS
    <2>2. TypeOK /\ GensInOrder /\ OpsFit
        BY <2>1 DEF Strong
    <2>3. ASSUME NEW c \in Conn, Waiting(c) PROVE op[c].gen <= gen
        BY <2>2, <2>3 DEF OpsFit, Fits, Waiting
    <2>. QED
        BY <2>2, <2>3 DEF GensInOrder, IInv, PoolsInOrder
<1>. QED
    BY <1>1, StrongHolds, PTL

\* An operation that waits has a future, in a pool or resolved, however many
\* pools were thrown away under it (_kill_pool, _on_broken).
THEOREM NoOpIsEverStranded == Spec => []NoOpIsStranded
<1>1. Strong => NoOpIsStranded
    <2>1. SUFFICES ASSUME Strong, NEW c \in Conn, Waiting(c)
                   PROVE  \/ \E e \in Pools : op[c].id \in Jobs(e)
                          \/ Posted(op[c].id)
        BY DEF NoOpIsStranded, Pools, Posted
    <2>2. Posted(op[c].id) \/ \E g \in Gen : Holds(g, op[c].id)
        BY <2>1 DEF Strong, OpsFit, Fits, Waiting
    <2>. QED
        BY <2>2 DEF Holds
<1>. QED
    BY <1>1, StrongHolds, PTL

\* Who is told of a crash used a worker that died of itself; who is told that
\* the engine is unavailable did so too, or it is given up (_on_broken).
THEOREM KillsAreNeverBlamed == Spec => []KillsAreNotBlamed
<1>1. Strong => KillsAreNotBlamed
    BY DEF Strong, OpsFit, Fits, KillsAreNotBlamed
<1>. QED
    BY <1>1, StrongHolds, PTL

\* The engine is given up only when MAX_INIT_ATTEMPTS pools died of themselves
\* before coming up, and none ever did (_note_init_failure, _watch_warmup).
THEOREM HealthyStaysInUse == Spec => []HealthyIsNeverGivenUp
<1>1. Strong => HealthyIsNeverGivenUp
    BY DEF Strong
<1>. QED
    BY <1>1, StrongHolds, PTL

\* What becomes of a waiting operation that is cancelled, in one step.
Honours(c) ==
    (Waiting(c) /\ op[c].cancelled /\ op'[c] # Null) => Waiting(c)' \/ op'[c].outcome = "cancelled"

LEMMA SettleHonours ==
    ASSUME TypeOK, NEW c \in Conn, NEW d \in Conn, Settle(c, op[c], "cancelled"), op[c] # Null
    PROVE  Honours(d)
<1>1. op[c] \in Operation /\ "cancelled" \in Outcome
    BY DEF TypeOK, Outcome
<1>2. op' = [op EXCEPT ![c] = After(op[c], "cancelled")]
    BY DEF Settle
<1>3. After(op[c], "cancelled").outcome = "cancelled"
    BY <1>1, AfterIs
<1>4. CASE c = d
    BY <1>2, <1>3, <1>4 DEF TypeOK, Honours
<1>5. CASE c # d
    BY <1>2, <1>5 DEF TypeOK, Honours, Waiting
<1>. QED
    BY <1>4, <1>5

LEMMA SettleOfAnother ==
    ASSUME TypeOK, NEW c \in Conn, NEW d \in Conn, NEW v, op' = [op EXCEPT ![c] = v],
           ~(Waiting(c) /\ op[c].cancelled)
    PROVE  Honours(d)
<1>1. CASE c = d
    BY <1>1 DEF Honours
<1>2. CASE c # d
    BY <1>2 DEF TypeOK, Honours, Waiting
<1>. QED
    BY <1>1, <1>2

LEMMA LoopHonours ==
    ASSUME Strong, NEW c \in Conn, NEW d \in Conn
    PROVE  /\ \A kind \in Kinds : Start(c, kind) => Honours(d)
           /\ Retry(c) \/ Send(c) \/ Supervise(c) \/ Cancel(c) \/ Disconnect(c) => Honours(d)
<1>1. TypeOK
    BY DEF Strong
<1>2. ASSUME NEW o, Submit(c, o) PROVE \E v : op' = [op EXCEPT ![c] = v]
    BY <1>2, Zenon DEF Submit, Settle
<1>3. ASSUME NEW kind \in Kinds, Start(c, kind) PROVE Honours(d)
    BY <1>1, <1>2, <1>3, SettleOfAnother, Zenon DEF Start, Waiting
<1>4. CASE Retry(c)
    <2>1. ~Waiting(c)
        BY <1>4 DEF Retry, Waiting
    <2>. QED
        BY <1>1, <1>2, <1>4, <2>1, SettleOfAnother, Zenon DEF Retry
<1>5. CASE Send(c)
    <2>1. ~Waiting(c)
        BY <1>5 DEF Send, Waiting
    <2>. QED
        BY <1>1, <1>5, <2>1, SettleOfAnother, Zenon DEF Send
<1>6. CASE Look(c)
    <2>1. op' = [op EXCEPT ![c] = [op[c] EXCEPT !.moved = FALSE]] /\ ~op[c].cancelled
        BY <1>6 DEF Look
    <2>. QED
        BY <1>1, <2>1, SettleOfAnother, Zenon
<1>7. CASE SeeCancel(c)
    BY <1>1, <1>7, SettleHonours, Zenon DEF SeeCancel, Waiting
<1>8. CASE Reap(c)
    BY <1>1, <1>8, SettleOfAnother, Zenon DEF Reap, Settle
<1>9. CASE Cancel(c)
    <2>1. op[c] \in Operation
        BY <1>1, <1>9 DEF Cancel, TypeOK
    <2>2. PICK outcome : op' = [op EXCEPT ![c].cancelled = TRUE, ![c].outcome = outcome]
        BY <1>9 DEF Cancel
    <2>3. PICK v : v = [op[c] EXCEPT !.cancelled = TRUE, !.outcome = outcome]
        OBVIOUS
    <2>4. op' = [op EXCEPT ![c] = v]
        BY <1>1, <2>2, <2>3 DEF TypeOK
    <2>5. v.phase = op[c].phase
        BY <2>1, <2>3 DEF Operation
    <2>. QED
        BY <1>1, <2>4, <2>5 DEF TypeOK, Honours, Waiting
<1>10. CASE Disconnect(c)
    <2>1. op' = [op EXCEPT ![c] = Null]
        BY <1>10 DEF Disconnect
    <2>. QED
        BY <1>1, <2>1 DEF TypeOK, Honours, Waiting
<1>. QED
    BY <1>3, <1>4, <1>5, <1>6, <1>7, <1>8, <1>9, <1>10 DEF Supervise

LEMMA WorkerHonours ==
    ASSUME Strong, NEW d \in Conn,
           \/ op' = op
           \/ Tick \/ Crash
           \/ JobSeen
    PROVE  Honours(d)
<1>1. TypeOK
    BY DEF Strong
<1>2. CASE op' = op
    BY <1>2 DEF Honours, Waiting
<1>3. CASE Tick
    <2>1. op'[d] = IF Waiting(d) /\ op[d].kind # "quick"
                   THEN [op[d] EXCEPT !.moved = TRUE] ELSE op[d]
        BY <1>3 DEF Tick
    <2>2. Waiting(d) => op[d] \in Operation
        BY <1>1 DEF TypeOK, Waiting
    <2>3. Waiting(d) => op'[d].phase = "waiting"
        BY <2>1, <2>2 DEF Waiting, Operation
    <2>. QED
        BY <2>3 DEF Honours, Waiting
<1>4. CASE Crash
    <2>1. op'[d] = IF Waiting(d) /\ ex.ticks > 0 /\ Head(ex.jobs) = op[d].id
                   THEN [op[d] EXCEPT !.died = TRUE] ELSE op[d]
        BY <1>4 DEF Crash
    <2>2. Waiting(d) => op[d] \in Operation
        BY <1>1 DEF TypeOK, Waiting
    <2>3. Waiting(d) => op'[d].phase = "waiting"
        BY <2>1, <2>2 DEF Waiting, Operation
    <2>. QED
        BY <2>3 DEF Honours, Waiting
<1>5. ASSUME NEW c \in Conn, NEW outcome \in Outcome, NEW ok, Waiting(c),
             JobOutcome(op[c], ok, outcome), Settle(c, op[c], outcome)
      PROVE  Honours(d)
    <2>1. CASE op[c].cancelled
        <3>1. outcome = "cancelled"
            BY <1>5, <2>1, Zenon DEF JobOutcome
        <3>. QED
            BY <1>1, <1>5, <3>1, SettleHonours DEF Waiting
    <2>2. CASE ~op[c].cancelled
        BY <1>1, <1>5, <2>2, SettleOfAnother, Zenon DEF Settle
    <2>. QED
        BY <2>1, <2>2
<1>. QED
    BY <1>2, <1>3, <1>4, <1>5, Zenon DEF JobSeen

\* A waiting operation that was cancelled is told so and nothing else, however
\* its pool went down (_run, _run_stall).
THEOREM CancelIsAlwaysHonoured == Spec => CancelIsHonoured
<1>1. ASSUME Strong, [Next]_vars, NEW d \in Conn PROVE Honours(d)
    <2>1. CASE op' = op
        BY <1>1, <2>1, WorkerHonours
    <2>2. CASE \E c \in Conn, kind \in Kinds : Start(c, kind)
        BY <1>1, <2>2, LoopHonours
    <2>3. CASE \E c \in Conn : Retry(c) \/ Send(c) \/ Supervise(c) \/ Cancel(c) \/ Disconnect(c)
        BY <1>1, <2>3, LoopHonours
    <2>4. CASE Tick \/ Crash \/ JobSeen
        BY <1>1, <2>4, WorkerHonours
    <2>5. UNCHANGED vars \/ WarmupSeen \/ WorkerStarts \/ BringUpFails \/ JobEnds
             \/ PoolBreaks \/ OldPoolBreaks => op' = op
        BY DEF vars, WarmupSeen, WorkerStarts, BringUpFails, JobEnds, PoolBreaks, OldPoolBreaks
    <2>. QED
        BY <1>1, <2>1, <2>2, <2>3, <2>4, <2>5, Zenon DEF Next
<1>2. Strong /\ [Next]_vars =>
        [\A c \in Conn : (Waiting(c) /\ op[c].cancelled /\ op'[c] # Null)
            => Waiting(c)' \/ op'[c].outcome = "cancelled"]_vars
    BY <1>1 DEF Honours
<1>. QED
    BY <1>2, StrongHolds, PTL DEF Spec, CancelIsHonoured
=============================================================================
