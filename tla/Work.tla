-------------------------------- MODULE Work --------------------------------
(***************************************************************************)
(* Works and subprocesses: Work, WorkParent, WorkManagerImpl, BatchWork,   *)
(* RunCommandWork and ProcessManagerImpl.  A work waits for its children,  *)
(* runs, completes, is retried and tells its parent, always by way of      *)
(* callbacks posted to the main thread, which are dropped when the work    *)
(* is gone.  A command's process goes on without its work.                 *)
(*                                                                         *)
(*   ws        the works: [state, retries, scheduled, cmd, stage]          *)
(*   started   how many children each batch has yielded                    *)
(*   pending   mPendingImpls: works, or Orphan for one that is gone        *)
(*   running   the works of the processes in mImpls                        *)
(*   orphans   how many processes in mImpls are without their work         *)
(*   broken    how often a process could not be spawned                    *)
(*   shutdown  mIsShutdown                                                 *)
(* The kinds of works are those of catchup: "stages" adds a child in       *)
(* onReset and another in onSuccess, as CatchupWork does; "batch" yields   *)
(* commands; "chain" runs twice and can fail for good, as the works that   *)
(* verify and apply ledgers do; "command" is a RunCommandWork.             *)
(***************************************************************************)
EXTENDS Integers, Sequences, FiniteSetsExt

CONSTANTS
    Works, Roots,       \* the works, and those the WorkManager has
    Parent, Kind,       \* of each work; a root's parent is itself
    Yield,              \* a batch's children in their order
    Stages,             \* a staged work's children in their order
    MaxRetries,
    MaxConcurrent,      \* MAX_CONCURRENT_SUBPROCESSES
    MaxBroken           \* bound: processes that cannot be spawned

VARIABLES ws, started, pending, running, orphans, broken, shutdown

Orphan == "orphan"
Absent == [state |-> "NONE", retries |-> 0, scheduled |-> "no", cmd |-> "none", stage |-> 0]
isDone(w) == w.state \in {"SUCCESS", "FAILURE_RAISE", "FAILURE_FATAL"}

\* The handlers work on a record of the variables.
S == [ws |-> ws, started |-> started, pending |-> pending, running |-> running,
      orphans |-> orphans, broken |-> broken, shutdown |-> shutdown]

Becomes(s) ==
    /\ ws' = s.ws /\ started' = s.started /\ pending' = s.pending /\ running' = s.running
    /\ orphans' = s.orphans /\ broken' = s.broken /\ shutdown' = s.shutdown

Present(s, w) == s.ws[w].state # "NONE"
Children(s, w) == {c \in Works : Parent[c] = w /\ c # w /\ Present(s, c)}
-----------------------------------------------------------------------------
\* ProcessManagerImpl.  A cancelled event calls whoever waits on it by then;
\* a work that starts waiting later is never called.
cancel(s, w, result) ==
    IF w = Orphan THEN s
    ELSE [s EXCEPT !.ws[w].cmd = IF @ = "waiting" THEN result ELSE "lost"]

maybeRunPendingProcesses(s, spawns) ==
    LET free == MaxConcurrent - Cardinality(s.running) - s.orphans
        n    == Min({free, Len(s.pending)})
        run  == SubSeq(s.pending, 1, n)
        runs == {i \in 1 .. n : run[i] # Orphan}
        fail == {i \in DOMAIN s.pending : s.pending[i] # Orphan}
    IN CASE s.shutdown \/ n = 0 -> s
         [] ~s.shutdown /\ n > 0 /\ spawns ->
               [s EXCEPT !.pending = SubSeq(@, n + 1, Len(@)),
                         !.running = @ \cup {run[i] : i \in runs},
                         !.orphans = @ + n - Cardinality(runs)]
         [] OTHER ->
               [FoldSet(LAMBDA i, t : cancel(t, s.pending[i], "failed"), s, fail)
                  EXCEPT !.pending = <<>>, !.broken = @ + 1]

\* runProcess, and async_wait on the event that it returns
runProcess(s, w, spawns) ==
    LET ran == maybeRunPendingProcesses([s EXCEPT !.pending = Append(@, w)], spawns)
    IN [ran EXCEPT !.ws[w].cmd = IF @ = "lost" THEN "lost" ELSE "waiting"]

handleProcessTermination(s, p, result, spawns) ==
    LET erased == IF p = Orphan THEN [s EXCEPT !.orphans = @ - 1] ELSE [s EXCEPT !.running = @ \ {p}]
    IN cancel(maybeRunPendingProcesses(erased, spawns), p, result)
-----------------------------------------------------------------------------
\* The children are destroyed, and theirs.
clearChildren(s, w) ==
    LET below == {c \in Works \ {w} : Parent[c] = w \/ (Parent[Parent[c]] = w /\ Parent[c] # c)}
    IN [s EXCEPT !.ws = [c \in Works |-> IF c \in below THEN Absent ELSE @[c]],
                 !.started = [c \in Works |-> IF c \in below THEN 0 ELSE @[c]],
                 !.pending = [i \in DOMAIN @ |-> IF @[i] \in below THEN Orphan ELSE @[i]],
                 !.orphans = @ + Cardinality(s.running \cap below),
                 !.running = @ \ below]

erase(s, w) == [clearChildren(s, w) EXCEPT !.ws[w] = Absent]

setState(s, w, state) ==
    [s EXCEPT !.ws[w].state = IF state = "FAILURE_RETRY" /\ s.ws[w].retries >= MaxRetries
                              THEN "FAILURE_RAISE" ELSE state]

\* BatchWork::addMoreWorkIfNeeded: at most MaxConcurrent children at a time.
addMoreWorkIfNeeded(s, w) ==
    LET n   == Min({MaxConcurrent - Cardinality(Children(s, w)), Len(Yield[w]) - s.started[w]})
        new == {Yield[w][s.started[w] + i] : i \in 1 .. n}
    IN [s EXCEPT !.ws = [c \in Works |-> IF c \in new THEN [Absent EXCEPT !.state = "PENDING"] ELSE @[c]],
                 !.started[w] = @ + n]

RECURSIVE addChild(_, _)

onReset(s, w) ==
    CASE Kind[w] = "batch" -> addMoreWorkIfNeeded([clearChildren(s, w) EXCEPT !.started[w] = 0], w)
      [] Kind[w] = "stages" ->
            addChild([clearChildren(s, w) EXCEPT !.ws[w].stage = 1], Stages[w][1])
      [] OTHER -> [s EXCEPT !.ws[w].stage = 0]

reset(s, w) == onReset(setState(s, w, "PENDING"), w)

addChild(s, c) == reset([s EXCEPT !.ws[c] = [Absent EXCEPT !.state = "PENDING"]], c)
-----------------------------------------------------------------------------
\* scheduleRun, scheduleComplete and scheduleRetry: one callback at a time.
schedule(s, w, what) ==
    IF s.ws[w].scheduled # "no" THEN s ELSE [s EXCEPT !.ws[w].scheduled = what]

allChildrenSuccessful(s, w) == \A c \in Children(s, w) : s.ws[c].state = "SUCCESS"
anyChild(s, w, state) == \E c \in Children(s, w) : s.ws[c].state = state

RECURSIVE advance(_, _)

advanceChildren(s, ch) == FoldSet(LAMBDA c, t : advance(t, c), s, ch)

advance(s, w) ==
    LET t == advanceChildren(s, Children(s, w))
    IN CASE s.ws[w].state # "PENDING" -> s
         [] s.ws[w].state = "PENDING" /\ allChildrenSuccessful(t, w) -> schedule(t, w, "run")
         [] s.ws[w].state = "PENDING" /\ ~allChildrenSuccessful(t, w)
              /\ anyChild(t, w, "FAILURE_FATAL") -> schedule(t, w, "fatal")
         [] s.ws[w].state = "PENDING" /\ ~allChildrenSuccessful(t, w)
              /\ ~anyChild(t, w, "FAILURE_FATAL") /\ anyChild(t, w, "FAILURE_RAISE") ->
                schedule(t, w, "failure")
         [] OTHER -> t

\* The notify of the WorkManager, of a batch and of any other parent.
notifyParent(s, w) ==
    LET p    == Parent[w]
        done == {c \in Children(s, p) : s.ws[c].state = "SUCCESS"}
        left == FoldSet(LAMBDA c, t : erase(t, c), s, done)
    IN CASE w \in Roots -> advanceChildren(erase(s, w), {r \in Roots \ {w} : Present(s, r)})
         [] w \notin Roots /\ Kind[p] = "batch" -> advance(addMoreWorkIfNeeded(left, p), p)
         [] OTHER -> advance(s, p)

\* What onSuccess returns, and the child it adds.
onSuccess(s, w) ==
    CASE Kind[w] = "stages" /\ s.ws[w].stage < Len(Stages[w]) ->
            addChild([s EXCEPT !.ws[w].stage = @ + 1, !.ws[w].state = "PENDING"],
                     Stages[w][s.ws[w].stage + 1])
      [] Kind[w] = "chain" /\ s.ws[w].stage = 0 ->
            [s EXCEPT !.ws[w].stage = 1, !.ws[w].state = "RUNNING"]
      [] OTHER -> setState(s, w, "SUCCESS")

complete_Silent(s, w, result) ==
    LET t == CASE result = "ok" -> onSuccess(s, w)
               [] result = "failure" -> setState(s, w, "FAILURE_RETRY")
               [] result = "fatal" -> setState(s, w, "FAILURE_FATAL")
    IN CASE t.ws[w].state = "SUCCESS" -> notifyParent(t, w)
         [] t.ws[w].state \in {"FAILURE_RAISE", "FAILURE_FATAL"} -> t
         [] t.ws[w].state = "FAILURE_RETRY" -> schedule(t, w, "retry")
         [] t.ws[w].state = "PENDING" -> advance(t, w)
         [] t.ws[w].state = "RUNNING" -> schedule(t, w, "run")

complete(s, w, result) ==
    LET t == CASE result = "ok" -> onSuccess(s, w)
               [] result = "failure" -> setState(s, w, "FAILURE_RETRY")
               [] result = "fatal" -> setState(s, w, "FAILURE_FATAL")
    IN CASE isDone(t.ws[w]) -> notifyParent(t, w)
         [] t.ws[w].state = "FAILURE_RETRY" -> schedule(t, w, "retry")
         [] t.ws[w].state = "PENDING" -> advance(t, w)
         [] t.ws[w].state = "RUNNING" -> schedule(t, w, "run")

\* outcome: what onRun of a chain finds
run(s, w, outcome, spawns) ==
    LET t == IF s.ws[w].state = "PENDING" /\ Kind[w] = "command" THEN runProcess(s, w, spawns) ELSE s
        r == setState(t, w, "RUNNING")
    IN CASE Kind[w] = "command" -> r
         [] Kind[w] = "chain" -> schedule(r, w, outcome)
         [] OTHER -> schedule(r, w, "ok")
-----------------------------------------------------------------------------
\* The works are added to the WorkManager, which advances them.
WorkInit ==
    LET none  == [ws |-> [w \in Works |-> Absent], started |-> [w \in Works |-> 0], pending |-> <<>>,
                  running |-> {}, orphans |-> 0, broken |-> 0, shutdown |-> FALSE]
        added == advanceChildren(FoldSet(LAMBDA r, t : addChild(t, r), none, Roots), Roots)
    IN /\ ws = added.ws /\ started = added.started /\ pending = added.pending
       /\ running = added.running /\ orphans = added.orphans /\ broken = added.broken
       /\ shutdown = added.shutdown

Spawning(spawns) == ~spawns => broken < MaxBroken

\* The callback that a work has posted, or its retry timer.
ScheduledRun(w) ==
    /\ ws[w].scheduled = "run"
    /\ \E outcome \in (IF Kind[w] = "chain" THEN {"ok", "failure", "fatal"} ELSE {"ok"}), spawns \in BOOLEAN :
          /\ Spawning(spawns)
          /\ Becomes(run([S EXCEPT !.ws[w].scheduled = "no"], w, outcome, spawns))

ScheduledComplete(w) ==
    /\ ws[w].scheduled \in {"ok", "failure", "fatal"}
    /\ Becomes(complete([S EXCEPT !.ws[w].scheduled = "no"], w, ws[w].scheduled))

ScheduledRetry(w) ==
    /\ ws[w].scheduled = "retry"
    /\ Becomes(advance(reset([S EXCEPT !.ws[w].scheduled = "no", !.ws[w].retries = @ + 1], w), w))

\* The exit event calls the work that waits for it.
callComplete(w) ==
    /\ ws[w].cmd \in {"ok", "failed"}
    /\ Becomes(complete([S EXCEPT !.ws[w].cmd = "none"], w, IF ws[w].cmd = "ok" THEN "ok" ELSE "failure"))

\* SIGCHLD: a process has ended.
handleSignalWait ==
    /\ ~shutdown
    /\ \E p \in running \cup (IF orphans > 0 THEN {Orphan} ELSE {}), result \in {"ok", "failed"},
          spawns \in BOOLEAN :
          /\ Spawning(spawns)
          /\ Becomes(handleProcessTermination(S, p, result, spawns))

\* ProcessManagerImpl::shutdown
ShutdownProcesses ==
    LET cancelled == running \cup {pending[i] : i \in DOMAIN pending}
    IN /\ ~shutdown
       /\ Becomes([FoldSet(LAMBDA w, t : cancel(t, w, "failed"), S, cancelled) EXCEPT
                      !.pending = <<>>, !.running = {}, !.orphans = 0, !.shutdown = TRUE])

WorkNext ==
    \/ \E w \in Works : ScheduledRun(w)
    \/ \E w \in Works : ScheduledComplete(w)
    \/ \E w \in Works : ScheduledRetry(w)
    \/ \E w \in Works : callComplete(w)
    \/ handleSignalWait
    \/ ShutdownProcesses

\* A work is awaited while those above it are pending; a failed batch still
\* yields works, which nobody advances and its reset clears.
Awaited(w) ==
    /\ Present(S, w) /\ ~isDone(ws[w])
    /\ \A p \in {Parent[w], Parent[Parent[w]]} \ {w} : ws[p].state = "PENDING"

\* Every work that is awaited is waiting for something that comes: a callback
\* of its own, an exit event, or a child that is not done; and no process is
\* pending while another could run.  So a work that failed, was retried or was
\* cleared with its parent leaves nothing hanging, and the WorkManager gets
\* every root back.  The exception is a process that cannot be spawned for a
\* work that is only about to wait for it.
NoStrandedWork ==
    ~shutdown =>
        /\ \A w \in {x \in Works : Awaited(x)} :
              \/ ws[w].scheduled # "no"
              \/ ws[w].cmd \in {"waiting", "ok", "failed", "lost"}
              \/ ws[w].state = "PENDING" /\ \E c \in Children(S, w) : ~isDone(ws[c])
        /\ \A w \in Works : ws[w].cmd = "waiting" =>
              w \in running \/ \E i \in DOMAIN pending : pending[i] = w
        /\ pending # <<>> => Cardinality(running) + orphans = MaxConcurrent
        /\ \A r \in Roots : ~isDone(ws[r])
=============================================================================
