------------------------------ MODULE Threads ------------------------------
(***************************************************************************)
(* util::Thread, with the RunLoop its object lives on, and the ThreadPool:  *)
(* three kinds of threads that wait for work, and for each other.           *)
(*                                                                          *)
(* The main thread sends requests to the object, pauses and resumes its     *)
(* thread, and destroys first the Thread, then the pool.  To handle a       *)
(* request the object sends a message to an actor of the pool, which sends  *)
(* a reply back.  What happens under one mutex is one step; Mailbox has the *)
(* steps inside of a mailbox, which here is a queue that schedules itself.  *)
(***************************************************************************)
EXTENDS Naturals, Sequences, FiniteSets

CONSTANTS
    Workers,    \* the threads of the pool
    MaxSends,   \* how many requests the main thread sends (bound)
    MaxPauses   \* how often it pauses the thread (bound)

ASSUME ThreadsAssumption ==
    /\ Workers # {} /\ IsFiniteSet(Workers)
    /\ MaxSends \in Nat /\ MaxPauses \in Nat

VARIABLES
    main,       \* what the main thread does, or what it is blocked in
    sent,       \* 0..MaxSends: the requests it has sent
    pauses,     \* 0..MaxPauses: its calls of pause(), and which "paused" and "resumed" are current
    resumes,    \* the last of them whose "resumed" promise is set
    thread,     \* what the object's thread does
    held,       \* the last of the pauses whose "paused" promise is set
    stoppable,  \* BOOLEAN: the promise of ~Thread() is set
    loop,       \* [high, default: Seq(Task), signalled, referenced: BOOLEAN]: the RunLoop
    mailbox,    \* Seq({"request", "reply"}): the object's mailbox
    more,       \* BOOLEAN: it has to be scheduled again after the current message
    handled,    \* 0..MaxSends: the requests the object has handled
    queue,      \* 0..MaxSends: how many mailboxes are in the queue of the pool
    terminate,  \* BOOLEAN
    worker      \* [Workers -> {"checking", "waiting", "receiving", "ended"}]

mainVars == <<main, sent, pauses, resumes>>
loopVars == <<thread, held, stoppable, loop, mailbox, more, handled>>
poolVars == <<queue, terminate, worker>>
vars == <<mainVars, loopVars, poolVars>>

Init ==
    /\ main = "free" /\ sent = 0 /\ pauses = 0 /\ resumes = 0
    /\ thread = "starting" /\ held = 0 /\ stoppable = FALSE
    /\ loop = [high |-> <<>>, default |-> <<>>, signalled |-> FALSE, referenced |-> TRUE]
    /\ mailbox = <<>> /\ more = FALSE /\ handled = 0
    /\ queue = 0 /\ terminate = FALSE
    /\ worker = [w \in Workers |-> "checking"]

----------------------------------------------------------------------------
(***************************************************************************)
(* RunLoop::push, the mailbox and ThreadPool::schedule                      *)
(***************************************************************************)
Pushed(l, priority, task) ==
    [l EXCEPT ![priority] = Append(@, task), !.signalled = TRUE]

(* An AspiringActor's mailbox has no scheduler before its object is established. *)
Tell(message) ==
    /\ mailbox' = Append(mailbox, message)
    /\ loop' = IF mailbox = <<>> /\ thread # "starting"
               THEN Pushed(loop, "default", "receive") ELSE loop

NotifyOne ==
    IF \E w \in Workers : worker[w] = "waiting"
    THEN \E w \in Workers : worker[w] = "waiting" /\ worker' = [worker EXCEPT ![w] = "checking"]
    ELSE UNCHANGED worker

----------------------------------------------------------------------------
(***************************************************************************)
(* The main thread                                                          *)
(***************************************************************************)
Send ==
    /\ main \in {"free", "paused"} /\ sent < MaxSends
    /\ sent' = sent + 1
    /\ Tell("request")
    /\ UNCHANGED <<main, pauses, resumes, thread, held, stoppable, more, handled, poolVars>>

(* Fault: pause() does not wait until the thread has taken the task. *)
PauseAtOnce ==
    /\ main = "free" /\ pauses < MaxPauses /\ thread # "starting"
    /\ pauses' = pauses + 1
    /\ loop' = Pushed(loop, "high", "hold")
    /\ main' = "paused"
    /\ UNCHANGED <<sent, resumes, thread, held, stoppable, mailbox, more, handled, poolVars>>

(* pause(): waits for the thread to run, and invokes a task that blocks it. *)
Pause ==
    /\ main = "free" /\ pauses < MaxPauses /\ thread # "starting"
    /\ pauses' = pauses + 1
    /\ loop' = Pushed(loop, "high", "hold")
    /\ main' = "pausing"
    /\ UNCHANGED <<sent, resumes, thread, held, stoppable, mailbox, more, handled, poolVars>>

PauseReturns ==
    /\ main = "pausing" /\ held = pauses
    /\ main' = "paused"
    /\ UNCHANGED <<sent, pauses, resumes, loopVars, poolVars>>

Resume ==
    /\ main = "paused"
    /\ resumes' = pauses
    /\ main' = "free"
    /\ UNCHANGED <<sent, pauses, loopVars, poolVars>>

(* Fault: the destructor does not resume a paused thread. *)
DestroyPaused ==
    /\ main \in {"free", "paused"} /\ thread # "starting"
    /\ loop' = Pushed(loop, "default", "noop")
    /\ main' = "stopping"
    /\ UNCHANGED <<sent, pauses, resumes, thread, held, stoppable, mailbox, more, handled, poolVars>>

(* ~Thread(): resumes the thread, waits for it to run, and invokes the noop it waits for next. *)
Destroy ==
    /\ main \in {"free", "paused"} /\ thread # "starting"
    /\ resumes' = pauses
    /\ loop' = Pushed(loop, "default", "noop")
    /\ main' = "stopping"
    /\ UNCHANGED <<sent, pauses, thread, held, stoppable, mailbox, more, handled, poolVars>>

(* RunLoop::stop() is a task as well. *)
Stop ==
    /\ main = "stopping" /\ stoppable
    /\ loop' = Pushed(loop, "default", "unref")
    /\ main' = "joining"
    /\ UNCHANGED <<sent, pauses, resumes, thread, held, stoppable, mailbox, more, handled, poolVars>>

Join ==
    /\ main = "joining" /\ thread = "ended"
    /\ main' = "joined"
    /\ UNCHANGED <<sent, pauses, resumes, loopVars, poolVars>>

(* ~ThreadPool() *)
Terminate ==
    /\ main = "joined"
    /\ terminate' = TRUE
    /\ main' = "terminating"
    /\ UNCHANGED <<sent, pauses, resumes, loopVars, queue, worker>>

NotifyAll ==
    /\ main = "terminating"
    /\ worker' = [w \in Workers |-> IF worker[w] = "waiting" THEN "checking" ELSE worker[w]]
    /\ main' = "awaiting"
    /\ UNCHANGED <<sent, pauses, resumes, loopVars, queue, terminate>>

JoinWorkers ==
    /\ main = "awaiting" /\ \A w \in Workers : worker[w] = "ended"
    /\ main' = "done"
    /\ UNCHANGED <<sent, pauses, resumes, loopVars, poolVars>>

MainReturns == PauseReturns \/ Stop \/ Join \/ NotifyAll \/ JoinWorkers

----------------------------------------------------------------------------
(***************************************************************************)
(* The object's thread                                                      *)
(***************************************************************************)
(* The RunLoop and the object are made, its mailbox is opened, "running" is set. *)
Start ==
    /\ thread = "starting"
    /\ thread' = "polling"
    /\ loop' = IF mailbox # <<>> THEN Pushed(loop, "default", "receive") ELSE loop
    /\ UNCHANGED <<held, stoppable, mailbox, more, handled, mainVars, poolVars>>

(* The async handle calls process(). *)
Poll ==
    /\ thread = "polling" /\ loop.referenced /\ loop.signalled
    /\ thread' = "processing"
    /\ loop' = [loop EXCEPT !.signalled = FALSE]
    /\ UNCHANGED <<held, stoppable, mailbox, more, handled, mainVars, poolVars>>

(* A timer or a file descriptor. *)
Event ==
    /\ thread = "polling" /\ loop.referenced
    /\ thread' = "dispatching"
    /\ UNCHANGED <<held, stoppable, loop, mailbox, more, handled, mainVars, poolVars>>

EventHandled ==
    /\ thread = "dispatching"
    /\ thread' = "polling"
    /\ UNCHANGED <<held, stoppable, loop, mailbox, more, handled, mainVars, poolVars>>

(* Nothing keeps uv_run() alive: the object and the RunLoop are destroyed. *)
Exit ==
    /\ thread = "polling" /\ ~loop.referenced
    /\ thread' = "ended"
    /\ UNCHANGED <<held, stoppable, loop, mailbox, more, handled, mainVars, poolVars>>

(* Fault: process() returns as soon as the loop is stopped. *)
DrainedOrStopped(l) == (l.high = <<>> /\ l.default = <<>>) \/ ~l.referenced
Drained(l) == l.high = <<>> /\ l.default = <<>>

Processed ==
    /\ thread = "processing" /\ Drained(loop)
    /\ thread' = "polling"
    /\ UNCHANGED <<held, stoppable, loop, mailbox, more, handled, mainVars, poolVars>>

(* process() takes a task, those of high priority first. *)
Taken(priority, task) ==
    /\ thread = "processing" /\ ~Drained(loop)
    /\ loop[priority] # <<>> /\ Head(loop[priority]) = task
    /\ priority = "default" => loop.high = <<>>

Popped(priority) == [loop EXCEPT ![priority] = Tail(@)]

(* The task of pause(). *)
Hold ==
    /\ Taken("high", "hold")
    /\ loop' = Popped("high")
    /\ held' = pauses
    /\ thread' = "held"
    /\ UNCHANGED <<stoppable, mailbox, more, handled, mainVars, poolVars>>

Resumed ==
    /\ thread = "held" /\ resumes >= held
    /\ thread' = "processing"
    /\ UNCHANGED <<held, stoppable, loop, mailbox, more, handled, mainVars, poolVars>>

Noop ==
    /\ Taken("default", "noop")
    /\ loop' = Popped("default")
    /\ stoppable' = TRUE
    /\ UNCHANGED <<thread, held, mailbox, more, handled, mainVars, poolVars>>

Unref ==
    /\ Taken("default", "unref")
    /\ loop' = [Popped("default") EXCEPT !.referenced = FALSE]
    /\ UNCHANGED <<thread, held, stoppable, mailbox, more, handled, mainVars, poolVars>>

(* Mailbox::maybeReceive: a request is handled by scheduling an actor of the pool. *)
Receive ==
    /\ Taken("default", "receive")
    /\ loop' = Popped("default")
    /\ mailbox' = Tail(mailbox)
    /\ more' = (Tail(mailbox) # <<>>)
    /\ IF Head(mailbox) = "request"
       THEN /\ handled' = handled + 1
            /\ queue' = queue + 1
            /\ thread' = "notifying"
       ELSE /\ thread' = "received"
            /\ UNCHANGED <<handled, queue>>
    /\ UNCHANGED <<held, stoppable, mainVars, terminate, worker>>

(* ThreadPool::schedule has released the mutex of the pool. *)
Notify ==
    /\ thread = "notifying"
    /\ NotifyOne
    /\ thread' = "received"
    /\ UNCHANGED <<held, stoppable, loop, mailbox, more, handled, mainVars, queue, terminate>>

Received ==
    /\ thread = "received"
    /\ loop' = IF more THEN Pushed(loop, "default", "receive") ELSE loop
    /\ thread' = "processing"
    /\ UNCHANGED <<held, stoppable, mailbox, more, handled, mainVars, poolVars>>

ThreadStep ==
    \/ Start \/ EventHandled \/ Exit \/ Processed \/ Hold \/ Resumed \/ Noop \/ Unref
    \/ Receive \/ Notify \/ Received

----------------------------------------------------------------------------
(***************************************************************************)
(* A thread of the pool                                                     *)
(***************************************************************************)
(* cv.wait() and what follows it under the mutex. *)
Check(w) ==
    /\ worker[w] = "checking"
    /\ \/ terminate /\ worker' = [worker EXCEPT ![w] = "ended"] /\ UNCHANGED queue
       \/ ~terminate /\ queue > 0 /\ queue' = queue - 1
          /\ worker' = [worker EXCEPT ![w] = "receiving"]
       \/ ~terminate /\ queue = 0 /\ worker' = [worker EXCEPT ![w] = "waiting"] /\ UNCHANGED queue
    /\ UNCHANGED <<mainVars, loopVars, terminate>>

(* The handler sends the reply, which is dropped when the object is gone. *)
Reply(w) ==
    /\ worker[w] = "receiving"
    /\ worker' = [worker EXCEPT ![w] = "checking"]
    /\ IF thread = "ended" THEN UNCHANGED <<mailbox, loop>> ELSE Tell("reply")
    /\ UNCHANGED <<mainVars, thread, held, stoppable, more, handled, queue, terminate>>

SpuriousWakeup(w) ==
    /\ worker[w] = "waiting"
    /\ worker' = [worker EXCEPT ![w] = "checking"]
    /\ UNCHANGED <<mainVars, loopVars, queue, terminate>>

----------------------------------------------------------------------------
Next ==
    \/ Send \/ Pause \/ Resume \/ Destroy \/ Terminate \/ MainReturns
    \/ Poll \/ Event \/ ThreadStep
    \/ \E w \in Workers : Check(w) \/ Reply(w) \/ SpuriousWakeup(w)

Spec == Init /\ [][Next]_vars

(* Threads that can run do; a blocking call returns, but the main thread need not make any;    *)
(* events do not keep uv_run() from seeing the async handle.                                   *)
Fairness ==
    /\ WF_vars(MainReturns) /\ WF_vars(ThreadStep) /\ SF_vars(Poll)
    /\ \A w \in Workers : WF_vars(Check(w)) /\ WF_vars(Reply(w))

FairSpec == Spec /\ Fairness

----------------------------------------------------------------------------
(* Between the return of pause() and resume() the thread is blocked in the task of this pause, *)
(* so it handles neither messages nor timers, whatever it was doing when pause() was called.   *)
PausedMeansHeld == main = "paused" => thread = "held" /\ held = pauses

(* "Should process the queue before destruction": when the thread ends, all that was sent to   *)
(* it before its destructor was called has been handled, although the loop was stopped in      *)
(* between, and the mailbox was rescheduled behind that.                                       *)
QueueProcessed == thread = "ended" => handled = sent

(* "Should not hang": pause() and the destructors of the thread and of the pool return,        *)
(* requests are handled unless the thread stays paused, and what is scheduled in the pool is   *)
(* received unless the pool is terminated.                                                     *)
EveryWaitEnds ==
    /\ main = "pausing" ~> main = "paused"
    /\ main = "stopping" ~> main = "joined"
    /\ main = "terminating" ~> main = "done"
    /\ []<>(handled = sent \/ main = "paused")
    /\ []<>(queue = 0 \/ terminate)
=============================================================================
