------------------------------ MODULE Mailbox ------------------------------
(***************************************************************************)
(* The actor runtime of src/mbgl/actor and include/mbgl/actor: mailboxes,   *)
(* the ActorRefs that push into them and the scheduler threads that drain   *)
(* them.                                                                    *)
(*                                                                          *)
(* A mailbox is reached through weak pointers only.  A thread that invokes  *)
(* an ActorRef, and a scheduler thread inside Mailbox::maybeReceive, hold a *)
(* strong reference for as long as the call lasts; so does the owner of the *)
(* object until its destructor has run.                                     *)
(*                                                                          *)
(* Steps follow the mutexes.  pushingMutex and receivingMutex are variables *)
(* because the code blocks on them; what happens under queueMutex or under  *)
(* the scheduler's own mutex is one step.                                   *)
(***************************************************************************)
EXTENDS Naturals, Sequences

CONSTANTS
    Mailboxes,        \* the mailboxes
    Holding,          \* those an AspiringActor creates: no scheduler until open()
    Workers,          \* the scheduler's threads: those of a ThreadPool, or the one of a RunLoop
    Senders,          \* the other threads that hold ActorRefs
    Owners,           \* the threads that construct and destroy the objects
    RunLoopScheduler, \* the scheduler is a RunLoop: its thread also runs other callbacks
    Closing,          \* the mailboxes that the object's destructor closes
    MaxSends,         \* how many messages a thread sends (bound)
    Terse,            \* threads that send one message at most (bound)
    NoOne             \* neither a thread, a mailbox nor a message

Threads == Workers \cup Senders

ASSUME MailboxAssumption ==
    /\ Holding \subseteq Mailboxes
    /\ Owners \subseteq Threads
    /\ Workers \cap Senders = {}
    /\ NoOne \notin Threads \cup Mailboxes
    /\ RunLoopScheduler \in BOOLEAN
    /\ Closing \subseteq Mailboxes
    /\ MaxSends \in Nat
    /\ Terse \subseteq Threads

Message == [from : Threads, n : 1..MaxSends]

ASSUME NoOneIsNoMessage == NoOne \notin Message

VARIABLES
    queue,          \* [Mailboxes -> Seq(Message)]
    scheduler,      \* [Mailboxes -> BOOLEAN]: a scheduler is attached (isOpen())
    closed,         \* [Mailboxes -> BOOLEAN]
    receivingMutex, \* [Mailboxes -> Threads \cup {NoOne}]: who holds it
    pushingMutex,   \* [Mailboxes -> Threads \cup {NoOne}]
    closer,         \* [Mailboxes -> Threads \cup {NoOne}]: who is inside close()
    object,         \* [Mailboxes -> {"unborn", "alive", "dead"}]
    tasks,          \* Seq(Mailboxes): the scheduler's queue of weak pointers
    worker,         \* [Workers -> record]: what each scheduler thread is doing
    call,           \* [Threads -> record]: the ActorRef::invoke in progress
    sent            \* [Threads -> 0..MaxSends]

mailboxVars == <<queue, scheduler, closed, receivingMutex, pushingMutex, closer, object>>
vars == <<mailboxVars, tasks, worker, call, sent>>

----------------------------------------------------------------------------
IdleWorker == [pc |-> "idle", mb |-> NoOne, msg |-> NoOne, more |-> FALSE]
NoCall == [pc |-> "none", mb |-> NoOne]

WorkerState == [pc : {"idle", "claimed", "running"}, mb : Mailboxes \cup {NoOne},
                msg : Message \cup {NoOne}, more : BOOLEAN]
CallState == [pc : {"none", "referenced", "pushing", "leaving"}, mb : Mailboxes \cup {NoOne}]

(* Thread w is executing a message of mailbox m, inside receive(). *)
Runs(w, m) == w \in Workers /\ worker[w].pc = "running" /\ worker[w].mb = m

(* The weak pointers to m can still be locked. *)
Exists(m) ==
    \/ object[m] # "dead"
    \/ \E t \in Threads : call[t].mb = m
    \/ \E w \in Workers : worker[w].mb = m

(* Thread t is where it may call into the runtime: a thread of its own, a handler that *)
(* is being executed, or another callback of the thread a RunLoop runs on.             *)
MayAct(t) ==
    /\ call[t].pc = "none"
    /\ \A m \in Mailboxes : closer[m] # t
    /\ t \in Workers =>
         \/ worker[t].pc = "running"
         \/ worker[t].pc = "idle" /\ RunLoopScheduler

Init ==
    /\ queue = [m \in Mailboxes |-> <<>>]
    /\ scheduler = [m \in Mailboxes |-> m \notin Holding]
    /\ closed = [m \in Mailboxes |-> FALSE]
    /\ receivingMutex = [m \in Mailboxes |-> NoOne]
    /\ pushingMutex = [m \in Mailboxes |-> NoOne]
    /\ closer = [m \in Mailboxes |-> NoOne]
    /\ object = [m \in Mailboxes |-> IF m \in Holding THEN "unborn" ELSE "alive"]
    /\ tasks = <<>>
    /\ worker = [w \in Workers |-> IdleWorker]
    /\ call = [t \in Threads |-> NoCall]
    /\ sent = [t \in Threads |-> 0]

----------------------------------------------------------------------------
(***************************************************************************)
(* ActorRef::invoke and Mailbox::push.                                     *)
(***************************************************************************)

(* Scheduler::schedule: a weak pointer to m is queued, when it is due. *)
NeverScheduled(m, due) == tasks        \* fault: the wakeup is lost
AlwaysScheduled(m, due) == Append(tasks, m)  \* fault: woken when there is nothing new
Scheduled(m, due) == IF due THEN Append(tasks, m) ELSE tasks

(* weakMailbox.lock() succeeds; with an expired pointer the call does nothing. *)
Invoke(t, m) ==
    /\ MayAct(t)
    /\ sent[t] < MaxSends
    /\ t \in Terse => sent[t] = 0
    /\ Exists(m)
    /\ call' = [call EXCEPT ![t] = [pc |-> "referenced", mb |-> m]]
    /\ sent' = [sent EXCEPT ![t] = @ + 1]
    /\ UNCHANGED <<mailboxVars, tasks, worker>>

(* Fault: push() does not look whether the mailbox is closed. *)
PushEnterUnchecked(t, m) ==
    /\ call[t] = [pc |-> "referenced", mb |-> m]
    /\ pushingMutex[m] = NoOne
    /\ call' = [call EXCEPT ![t].pc = "pushing"]
    /\ pushingMutex' = [pushingMutex EXCEPT ![m] = t]
    /\ UNCHANGED <<queue, scheduler, closed, receivingMutex, closer, object, tasks, worker, sent>>

(* push() has the pushing mutex and reads closed. *)
PushEnter(t, m) ==
    /\ call[t] = [pc |-> "referenced", mb |-> m]
    /\ pushingMutex[m] = NoOne
    /\ IF closed[m]
       THEN /\ call' = [call EXCEPT ![t].pc = "leaving"]
            /\ UNCHANGED pushingMutex
       ELSE /\ call' = [call EXCEPT ![t].pc = "pushing"]
            /\ pushingMutex' = [pushingMutex EXCEPT ![m] = t]
    /\ UNCHANGED <<queue, scheduler, closed, receivingMutex, closer, object, tasks, worker, sent>>

(* Fault: the message overtakes those that wait. *)
PushCommitInFront(t, m) ==
    /\ call[t] = [pc |-> "pushing", mb |-> m]
    /\ queue' = [queue EXCEPT ![m] = <<[from |-> t, n |-> sent[t]]>> \o @]
    /\ tasks' = Scheduled(m, queue[m] = <<>> /\ scheduler[m])
    /\ pushingMutex' = [pushingMutex EXCEPT ![m] = NoOne]
    /\ call' = [call EXCEPT ![t].pc = "leaving"]
    /\ UNCHANGED <<scheduler, closed, receivingMutex, closer, object, worker, sent>>

(* Under the queue mutex: enqueue, and schedule the mailbox if it was empty. *)
PushCommit(t, m) ==
    /\ call[t] = [pc |-> "pushing", mb |-> m]
    /\ queue' = [queue EXCEPT ![m] = Append(@, [from |-> t, n |-> sent[t]])]
    /\ tasks' = Scheduled(m, queue[m] = <<>> /\ scheduler[m])
    /\ pushingMutex' = [pushingMutex EXCEPT ![m] = NoOne]
    /\ call' = [call EXCEPT ![t].pc = "leaving"]
    /\ UNCHANGED <<scheduler, closed, receivingMutex, closer, object, worker, sent>>

(* Fault: the strong reference is never given up. *)
InvokeNeverReturns(t) ==
    /\ call[t].pc = "leaving"
    /\ call' = [call EXCEPT ![t].pc = "leaked"]
    /\ UNCHANGED <<mailboxVars, tasks, worker, sent>>

(* invoke() returns and gives up its strong reference. *)
InvokeReturn(t) ==
    /\ call[t].pc = "leaving"
    /\ call' = [call EXCEPT ![t] = NoCall]
    /\ UNCHANGED <<mailboxVars, tasks, worker, sent>>

----------------------------------------------------------------------------
(***************************************************************************)
(* The scheduler's thread: take a weak pointer, maybeReceive(), receive(). *)
(***************************************************************************)

TakeTask(w) ==
    /\ worker[w].pc = "idle"
    /\ call[w].pc = "none"
    /\ \A m \in Mailboxes : closer[m] # w
    /\ tasks # <<>>
    /\ tasks' = Tail(tasks)
    /\ worker' = IF Exists(Head(tasks))
                 THEN [worker EXCEPT ![w] = [pc |-> "claimed", mb |-> Head(tasks), msg |-> NoOne, more |-> FALSE]]
                 ELSE worker
    /\ UNCHANGED <<mailboxVars, call, sent>>

(* receive() up to the call of the message. *)
Receive(w, m) ==
    /\ worker[w].pc = "claimed" /\ worker[w].mb = m
    /\ receivingMutex[m] = NoOne
    /\ IF closed[m]
       THEN /\ worker' = [worker EXCEPT ![w] = IdleWorker]
            /\ UNCHANGED <<queue, receivingMutex>>
       ELSE /\ worker' = [worker EXCEPT ![w] = [pc |-> "running", mb |-> m, msg |-> Head(queue[m]),
                                                more |-> Tail(queue[m]) # <<>>]]
            /\ queue' = [queue EXCEPT ![m] = Tail(@)]
            /\ receivingMutex' = [receivingMutex EXCEPT ![m] = w]
    /\ UNCHANGED <<scheduler, closed, pushingMutex, closer, object, tasks, call, sent>>

(* The handler has returned: reschedule if there was more, leave receive(). *)
ReceiveReturn(w, m) ==
    /\ Runs(w, m)
    /\ call[w].pc = "none"
    /\ \A k \in Mailboxes : closer[k] # w
    /\ tasks' = Scheduled(m, worker[w].more)
    /\ receivingMutex' = [receivingMutex EXCEPT ![m] = NoOne]
    /\ worker' = [worker EXCEPT ![w] = IdleWorker]
    /\ UNCHANGED <<queue, scheduler, closed, pushingMutex, closer, object, call, sent>>

----------------------------------------------------------------------------
(***************************************************************************)
(* Construction and destruction of the object behind a mailbox.            *)
(***************************************************************************)

(* EstablishedActor constructs the object and opens the holding mailbox.  Nobody can be *)
(* receiving yet, so of the two mutexes only the pushing one can make it wait.           *)
Open(t, m) ==
    /\ t \in Owners /\ MayAct(t)
    /\ object[m] = "unborn"
    /\ receivingMutex[m] = NoOne /\ pushingMutex[m] = NoOne
    /\ object' = [object EXCEPT ![m] = "alive"]
    /\ scheduler' = [scheduler EXCEPT ![m] = TRUE]
    /\ tasks' = Scheduled(m, ~closed[m] /\ queue[m] # <<>>)
    /\ UNCHANGED <<queue, closed, receivingMutex, pushingMutex, closer, worker, call, sent>>

(* Fault: close() does not wait for the handler being executed. *)
CloseEnterAtOnce(t, m) ==
    /\ m \in Closing
    /\ t \in Owners /\ MayAct(t)
    /\ object[m] = "alive"
    /\ closer[m] = NoOne
    /\ receivingMutex' = [receivingMutex EXCEPT ![m] = t]
    /\ closer' = [closer EXCEPT ![m] = t]
    /\ UNCHANGED <<queue, scheduler, closed, pushingMutex, object, tasks, worker, call, sent>>

(* close() gets the receiving mutex, which is recursive: a handler may close its own mailbox. *)
CloseEnter(t, m) ==
    /\ m \in Closing
    /\ t \in Owners /\ MayAct(t)
    /\ object[m] = "alive"
    /\ closer[m] = NoOne
    /\ receivingMutex[m] \in {NoOne, t}
    /\ receivingMutex' = [receivingMutex EXCEPT ![m] = t]
    /\ closer' = [closer EXCEPT ![m] = t]
    /\ UNCHANGED <<queue, scheduler, closed, pushingMutex, object, tasks, worker, call, sent>>

(* Fault: the destructor takes the mutexes but does not mark the mailbox. *)
CloseCommitUnmarked(t, m) ==
    /\ closer[m] = t
    /\ pushingMutex[m] = NoOne
    /\ object' = [object EXCEPT ![m] = "dead"]
    /\ receivingMutex' = [receivingMutex EXCEPT ![m] = IF Runs(t, m) THEN t ELSE NoOne]
    /\ closer' = [closer EXCEPT ![m] = NoOne]
    /\ UNCHANGED <<queue, scheduler, closed, pushingMutex, tasks, worker, call, sent>>

(* close() gets the pushing mutex too, then the object is destroyed. *)
CloseCommit(t, m) ==
    /\ closer[m] = t
    /\ pushingMutex[m] = NoOne
    /\ closed' = [closed EXCEPT ![m] = TRUE]
    /\ object' = [object EXCEPT ![m] = "dead"]
    /\ receivingMutex' = [receivingMutex EXCEPT ![m] = IF Runs(t, m) THEN t ELSE NoOne]
    /\ closer' = [closer EXCEPT ![m] = NoOne]
    /\ UNCHANGED <<queue, scheduler, pushingMutex, tasks, worker, call, sent>>

(* A destructor that only drops its shared_ptr to the mailbox. *)
DestroyWithoutClose(t, m) ==
    /\ m \notin Closing
    /\ t \in Owners /\ MayAct(t)
    /\ object[m] = "alive"
    /\ object' = [object EXCEPT ![m] = "dead"]
    /\ UNCHANGED <<queue, scheduler, closed, receivingMutex, pushingMutex, closer,
                   tasks, worker, call, sent>>

----------------------------------------------------------------------------
CallStep(t) ==
    \/ InvokeReturn(t)
    \/ \E m \in Mailboxes : PushEnter(t, m) \/ PushCommit(t, m)

WorkerStep(w) ==
    \/ TakeTask(w)
    \/ \E m \in Mailboxes : Receive(w, m) \/ ReceiveReturn(w, m)

OwnerStep(t, m) ==
    Open(t, m) \/ CloseEnter(t, m) \/ CloseCommit(t, m) \/ DestroyWithoutClose(t, m)

Next ==
    \/ \E t \in Threads : CallStep(t)
    \/ \E w \in Workers : WorkerStep(w)
    \/ \E t \in Threads, m \in Mailboxes : Invoke(t, m) \/ OwnerStep(t, m)

Spec == Init /\ [][Next]_vars

(* Threads run and handlers return: every step but the decisions of the program (whom to     *)
(* invoke, what to construct and destroy) is weakly fair.  No lock is assumed to be granted to *)
(* a thread that finds it free only now and then.                                              *)
Fairness ==
    /\ \A t \in Threads : WF_vars(CallStep(t))
    /\ \A t \in Threads : WF_vars(\E m \in Mailboxes : CloseCommit(t, m))
    /\ \A w \in Workers : WF_vars(WorkerStep(w))

FairSpec == Spec /\ Fairness

----------------------------------------------------------------------------
(* Types of the variables. *)
TypeOK ==
    /\ queue \in [Mailboxes -> Seq(Message)]
    /\ scheduler \in [Mailboxes -> BOOLEAN]
    /\ closed \in [Mailboxes -> BOOLEAN]
    /\ receivingMutex \in [Mailboxes -> Threads \cup {NoOne}]
    /\ pushingMutex \in [Mailboxes -> Threads \cup {NoOne}]
    /\ closer \in [Mailboxes -> Threads \cup {NoOne}]
    /\ object \in [Mailboxes -> {"unborn", "alive", "dead"}]
    /\ tasks \in Seq(Mailboxes)
    /\ worker \in [Workers -> WorkerState]
    /\ call \in [Threads -> CallState]
    /\ sent \in [Threads -> 0..MaxSends]

(* A mailbox has a receive() coming: it is in the scheduler's queue, a worker has claimed it, *)
(* or the handler being executed will reschedule it.                                          *)
Claims(w, m) == worker[w].mb = m /\ (worker[w].pc = "claimed" \/ worker[w].more)
ReceiveDue(m) ==
    \/ \E i \in 1..Len(tasks) : tasks[i] = m
    \/ \E w \in Workers : Claims(w, m)

(* No wakeup is lost: an open mailbox with messages always has a receive() coming, although    *)
(* push() schedules only when the queue was empty and receive() only when it left something.  *)
NoLostWakeup ==
    \A m \in Mailboxes :
        scheduler[m] /\ ~closed[m] /\ Exists(m) /\ queue[m] # <<>> => ReceiveDue(m)

(* assert(!queue.empty()) in receive(): no wakeup is spurious, and no two of them are pending  *)
(* for one mailbox, however pushes, handlers and open() interleave.                            *)
NoSpuriousWakeup ==
    /\ \A m \in Mailboxes : ReceiveDue(m) /\ ~closed[m] => queue[m] # <<>>
    /\ \A i, j \in 1..Len(tasks) : tasks[i] = tasks[j] => i = j
    /\ \A w \in Workers : \A m \in Mailboxes : Claims(w, m) =>
         /\ \A i \in 1..Len(tasks) : tasks[i] # m
         /\ \A v \in Workers : Claims(v, m) => v = w

(* "Only a single message from a mailbox is processed at a time" (scheduler.hpp). *)
NoConcurrencyWithinMailbox ==
    \A v, w \in Workers, m \in Mailboxes : Runs(v, m) /\ Runs(w, m) => v = w

(* A handler only ever starts on an object that is constructed and not yet destroyed, although *)
(* a push and a receive may be under way when its destructor closes the mailbox.                *)
DeliveredToLiveObject ==
    [][\A w \in Workers, m \in Closing :
         Runs(w, m)' /\ ~Runs(w, m) => object[m] = "alive"]_vars

(* "Sending a message to a Ref whose Actor has died is a no-op" (actor_ref.hpp): the same for  *)
(* every object that has given out an ActorRef to itself, closed or not.                        *)
SendingToTheDeadIsNoOp ==
    [][\A w \in Workers, m \in Mailboxes :
         Runs(w, m)' /\ ~Runs(w, m) => object[m] = "alive"]_vars

(* The destructor of an actor waits for the handler being executed: an object only dies under   *)
(* a running handler when that handler itself destroys it.                                       *)
DestructorWaitsForHandler ==
    [][\A w \in Workers, m \in Closing :
         object[m] = "alive" /\ object'[m] = "dead" /\ Runs(w, m) => closer[m] = w]_vars

(* "Messages sent from actor S to actor R are guaranteed to be processed in the order sent". *)
ProcessedInOrderSent ==
    \A m \in Mailboxes :
        /\ \A i, j \in 1..Len(queue[m]) :
             i < j /\ queue[m][i].from = queue[m][j].from => queue[m][i].n < queue[m][j].n
        /\ \A w \in Workers : Runs(w, m) =>
             \A i \in 1..Len(queue[m]) :
               queue[m][i].from = worker[w].msg.from => worker[w].msg.n < queue[m][i].n

(* A destroyed actor accepts no message: sending to it is a no-op, even for a push that was    *)
(* under way when the destructor started.                                                      *)
DeadAcceptsNothing ==
    [][\A m \in Mailboxes : closed[m] => queue'[m] = queue[m]]_vars

----------------------------------------------------------------------------
(* A mailbox that is closed on destruction, as the channel it implements. *)
PhaseOf(m) == IF closed[m] THEN "gone" ELSE IF scheduler[m] THEN "open" ELSE "holding"

RunnerOf(m) ==
    IF Runs(receivingMutex[m], m) THEN receivingMutex[m] ELSE NoOne

Channel == INSTANCE ActorChannel
             WITH Actors <- Closing, Threads <- Threads, Messages <- Message,
                  Holding <- Holding \cap Closing, Nobody <- NoOne,
                  phase <- [m \in Closing |-> PhaseOf(m)],
                  inbox <- [m \in Closing |-> queue[m]],
                  runner <- [m \in Closing |-> RunnerOf(m)]

(* Mutexes, weak pointers and the scheduler's queue together implement the channel. *)
ImplementsChannel == Channel!ChSpec

(* ... and its progress: no open actor is left with a message that nobody will deliver. *)
ImplementsFairChannel == Channel!ChFairness
============================================================================
