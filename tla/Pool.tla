------------------------------- MODULE Pool ---------------------------------
(***************************************************************************)
(* The agent pool (internal/pool) for one agent: the queue and the workers *)
(* that Initialize makes on first use, Dispatch, AllStats and Close.  The  *)
(* read lock of Pool.mu is not given while a writer waits, be it Close or  *)
(* Initialize, and AllStats takes it a second time through GetStats.       *)
(***************************************************************************)
EXTENDS Naturals, Sequences, FiniteSets

CONSTANTS Clients,   \* the goroutines that call Dispatch
          Strays,    \* those of them that name an agent there is not
          Workers,   \* the workers of the agent (WorkersPerAgent)
          QueueSize

VARIABLES closed,   \* Pool.closed
          queue,    \* the tasks in the channel of the agent
          chan,     \* the channel: none, open or closed
          dispatch, \* per client: where its Dispatch is
          job,      \* per worker: the client whose task it runs, or Ready or Done
          result,   \* the clients whose result channel holds a result
          runs,     \* history: how often the task of a client was run
          stats,    \* AllStats: how often it holds the read lock, or that it is done
          closer,   \* Close: where it is
          broken    \* the program has panicked

poolVars == <<closed, queue, chan, dispatch, job, result, runs, stats, closer, broken>>

Ready == "ready"
Done == "done"

PoolInit ==
    /\ closed = FALSE /\ queue = <<>> /\ chan = "none"
    /\ dispatch = [c \in Clients |-> "call"]
    /\ job = [w \in Workers |-> Ready]
    /\ result = {} /\ runs = [c \in Clients |-> 0]
    /\ stats = 0 /\ closer = "idle" /\ broken = FALSE

\* A writer has called Lock and waits for the readers.  Only AllStats keeps the lock over
\* another step.
Announced == closer = "waits" \/ \E c \in Clients : dispatch[c] = "locking"
CanRead == ~Announced
CanWrite == stats \notin {1, 2}

To(c, where) == dispatch' = [dispatch EXCEPT ![c] = where]

----------------------------------------------------------------------------
(* Dispatch *)

Lookup(c) ==
    /\ dispatch[c] = "call" /\ CanRead
    /\ To(c, IF closed THEN "returned"
             ELSE IF chan = "none" \/ c \in Strays THEN "initialize" ELSE "send")
    /\ UNCHANGED <<closed, queue, chan, job, result, runs, stats, closer, broken>>

LockInitialize(c) ==
    /\ dispatch[c] = "initialize" /\ ~Announced /\ To(c, "locking")
    /\ UNCHANGED <<closed, queue, chan, job, result, runs, stats, closer, broken>>

\* Mutant: the workers are made again.
InitializeAgain(c) ==
    /\ dispatch[c] = "locking" /\ CanWrite
    /\ IF closed \/ c \in Strays THEN To(c, "returned") /\ UNCHANGED <<chan, queue>>
       ELSE To(c, "reread") /\ chan' = "open" /\ queue' = <<>>
    /\ UNCHANGED <<closed, job, result, runs, stats, closer, broken>>

Initialize(c) ==
    /\ dispatch[c] = "locking" /\ CanWrite
    /\ IF closed \/ c \in Strays THEN To(c, "returned") /\ UNCHANGED chan
       ELSE To(c, "reread") /\ chan' = "open"
    /\ UNCHANGED <<closed, queue, job, result, runs, stats, closer, broken>>

Reread(c) ==
    /\ dispatch[c] = "reread" /\ CanRead /\ To(c, "send")
    /\ UNCHANGED <<closed, queue, chan, job, result, runs, stats, closer, broken>>

\* The channel may have been closed since it was looked up.
Send(c) ==
    /\ dispatch[c] = "send"
    /\ IF chan = "closed" THEN broken' = TRUE /\ UNCHANGED <<queue, dispatch>>
       ELSE IF Len(queue) < QueueSize
       THEN queue' = Append(queue, c) /\ To(c, "wait") /\ UNCHANGED broken
       ELSE To(c, "returned") /\ UNCHANGED <<queue, broken>>
    /\ UNCHANGED <<closed, chan, job, result, runs, stats, closer>>

Answered(c) ==
    /\ dispatch[c] = "wait" /\ c \in result
    /\ result' = result \ {c} /\ To(c, "returned")
    /\ UNCHANGED <<closed, queue, chan, job, runs, stats, closer, broken>>

\* The context of the caller ends; its task stays in the queue.
Abandon(c) ==
    /\ dispatch[c] \in {"send", "wait"} /\ To(c, "returned")
    /\ UNCHANGED <<closed, queue, chan, job, result, runs, stats, closer, broken>>

----------------------------------------------------------------------------
(* runWorker *)

TakeTask(w) ==
    /\ job[w] = Ready /\ queue # <<>>
    /\ job' = [job EXCEPT ![w] = Head(queue)] /\ queue' = Tail(queue)
    /\ UNCHANGED <<closed, chan, dispatch, result, runs, stats, closer, broken>>

\* Mutant: a result that nobody waits for is not sent.
FinishWaited(w) ==
    /\ job[w] \in Clients /\ dispatch[job[w]] = "wait" /\ Cardinality(result) = 0
    /\ result' = result \cup {job[w]}
    /\ runs' = [runs EXCEPT ![job[w]] = @ + 1]
    /\ job' = [job EXCEPT ![w] = Ready]
    /\ UNCHANGED <<closed, queue, chan, dispatch, stats, closer, broken>>

\* The result channel has room for the one result.
Finish(w) ==
    /\ job[w] \in Clients
    /\ result' = result \cup {job[w]}
    /\ runs' = [runs EXCEPT ![job[w]] = @ + 1]
    /\ job' = [job EXCEPT ![w] = Ready]
    /\ UNCHANGED <<closed, queue, chan, dispatch, stats, closer, broken>>

\* The range over a closed channel ends when it is empty.
WorkerEnds(w) ==
    /\ job[w] = Ready /\ chan = "closed" /\ queue = <<>>
    /\ job' = [job EXCEPT ![w] = Done]
    /\ UNCHANGED <<closed, queue, chan, dispatch, result, runs, stats, closer, broken>>

----------------------------------------------------------------------------
(* AllStats and Close *)

\* The outer lock, and the one of GetStats if the agent has workers.
ReadStats ==
    /\ CanRead /\ (stats = 0 \/ (stats = 1 /\ chan # "none"))
    /\ stats' = stats + 1
    /\ UNCHANGED <<closed, queue, chan, dispatch, job, result, runs, closer, broken>>

StatsRead ==
    /\ stats = 2 \/ (stats = 1 /\ chan = "none")
    /\ stats' = 3
    /\ UNCHANGED <<closed, queue, chan, dispatch, job, result, runs, closer, broken>>

CallClose ==
    /\ closer = "idle" /\ closer' = "called"
    /\ UNCHANGED <<closed, queue, chan, dispatch, job, result, runs, stats, broken>>

LockClose ==
    /\ closer = "called" /\ ~Announced /\ closer' = "waits"
    /\ UNCHANGED <<closed, queue, chan, dispatch, job, result, runs, stats, broken>>

CloseQueues ==
    /\ closer = "waits" /\ CanWrite
    /\ closed' = TRUE /\ closer' = "drains"
    /\ chan' = IF chan = "open" THEN "closed" ELSE chan
    /\ UNCHANGED <<queue, dispatch, job, result, runs, stats, broken>>

CloseReturns ==
    /\ closer = "drains"
    /\ chan = "none" \/ \A w \in Workers : job[w] = Done
    /\ closer' = "returned"
    /\ UNCHANGED <<closed, queue, chan, dispatch, job, result, runs, stats, broken>>

PoolStep ==
    \/ \E c \in Clients : \/ Lookup(c) \/ LockInitialize(c) \/ Initialize(c) \/ Reread(c)
                          \/ Send(c) \/ Answered(c)
    \/ \E w \in Workers : TakeTask(w) \/ Finish(w) \/ WorkerEnds(w)
    \/ LockClose \/ CloseQueues \/ CloseReturns \/ StatsRead \/ (stats = 1 /\ ReadStats)

PoolNext ==
    /\ ~broken
    /\ PoolStep \/ (stats = 0 /\ ReadStats) \/ CallClose \/ \E c \in Clients : Abandon(c)

----------------------------------------------------------------------------
(* Properties *)

\* What was put in the queue is run once, and all of it before Close returns.
PoolDrains ==
    /\ \A c \in Clients :
        runs[c] + Cardinality({w \in Workers : job[w] = c})
            + Cardinality({i \in DOMAIN queue : queue[i] = c}) <= 1
    /\ closer = "returned" =>
        queue = <<>> /\ \A c \in Clients : dispatch[c] = "wait" => c \in result

\* A writer came between the two read locks of AllStats: Close, or Initialize.
Wedged == stats = 1 /\ chan # "none" /\ Announced

\* Every Dispatch, Close and AllStats returns, unless a Close or an Initialize meets
\* AllStats, or a Dispatch sends on the channel that Close has closed.
Calling ==
    /\ ~broken /\ ~Wedged
    /\ \/ closer \in {"called", "waits", "drains"} \/ stats \in {1, 2}
       \/ \E c \in Clients : dispatch[c] # "returned"
PoolReturns == Calling ~> ~Calling
=============================================================================
