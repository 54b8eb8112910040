-------------------------- MODULE OnlineFileSource --------------------------
(***************************************************************************)
(* OnlineFileSource: the requests for network resources, their timers, the  *)
(* queue for the limited number of connections, and NetworkStatus.          *)
(*                                                                          *)
(* Everything but NetworkStatus happens on one thread.  Callbacks of the    *)
(* requestor are reentrant: they run inside completed(), may create and     *)
(* delete requests, and while online is false activateRequest() calls them  *)
(* synchronously, so they nest.  "calling" is that part of the C++ stack.   *)
(*                                                                          *)
(* The connection of an active request (request->request) exists exactly    *)
(* while the request is in activeRequests, so it is not a variable.         *)
(***************************************************************************)
EXTENDS PendingRequests, FiniteSets

CONSTANTS
    Requests,     \* the requests that may be created
    Regular,      \* those of regular priority; the others are low
    Transformed,  \* those created while a ResourceTransform is set
    Maxima,       \* the values given to setMaximumConcurrentRequests
    MaxReaching   \* how many threads are inside NetworkStatus::Set at once (bound)

ASSUME OnlineFileSourceAssumption ==
    /\ IsFiniteSet(Requests)
    /\ Regular \subseteq Requests /\ Transformed \subseteq Requests
    /\ Maxima # {} /\ Maxima \subseteq Nat \ {0}
    /\ MaxReaching \in Nat

VARIABLES
    allRequests,      \* SUBSET Requests
    created,          \* SUBSET Requests: those ever constructed
    transforming,     \* SUBSET Requests: those whose URL the ResourceTransform has
    pendingRequests,  \* [queue, firstLow], see PendingRequests
    activeRequests,   \* SUBSET Requests
    timer,            \* [Requests -> {"off", "armed", "never"}]; "never": Duration::max()
    failedReason,     \* [Requests -> Reasons]: failedRequestReason
    calling,          \* Seq(Requests): whose callbacks are being executed, innermost last
    online,           \* BOOLEAN: setOnlineStatus
    maximum,          \* maximumConcurrentRequests
    network,          \* BOOLEAN: NetworkStatus::online
    reaching,         \* how many threads have set network and not yet called Reachable()
    notified          \* BOOLEAN: the reachability AsyncTask has been sent

requestVars == <<allRequests, created, transforming>>
networkVars == <<network, reaching, notified>>
vars == <<requestVars, pendingRequests, activeRequests, timer, failedReason, calling,
          online, maximum, networkVars>>

(* "None" stands for the reasons that are not retried: Success, NotFound and Other;   *)
(* "Server" for the ones retried after a delay that the network does not shorten:     *)
(* Server and RateLimit.                                                              *)
Reasons == {"None", "Server", "Connection"}

Init ==
    /\ allRequests = {} /\ created = {} /\ transforming = {}
    /\ pendingRequests = Empty
    /\ activeRequests = {}
    /\ timer = [r \in Requests |-> "off"]
    /\ failedReason = [r \in Requests |-> "None"]
    /\ calling = <<>>
    /\ online = TRUE
    /\ maximum \in Maxima
    /\ network = TRUE /\ reaching = 0 /\ notified = FALSE

----------------------------------------------------------------------------
(***************************************************************************)
(* OnlineFileRequest::schedule: the timer is started for the requests in R  *)
(* that are neither pending nor active.  The timeouts of http_timeout.cpp   *)
(* are abstracted to finite or none.                                        *)
(***************************************************************************)
Schedulable(R) == {r \in R : ~Pending(pendingRequests, r) /\ r \notin activeRequests}

StartKeepingReason(R) ==    \* fault: the lack of a connection is not recorded
    /\ timer' = [r \in Requests |->
                   IF r \in R THEN IF network THEN "armed" ELSE "never" ELSE timer[r]]
    /\ UNCHANGED failedReason

Start(R) ==
    /\ timer' = [r \in Requests |->
                   IF r \in R THEN IF network THEN "armed" ELSE "never" ELSE timer[r]]
    /\ failedReason' = [r \in Requests |->
                          IF r \in R /\ ~network THEN "Connection" ELSE failedReason[r]]

(* completed() up to the callback: the error is recorded, and the request scheduled again if  *)
(* the error is one that is retried or the response says when it expires.                     *)
Complete(r, reason, expires) ==
    IF reason # "None" \/ expires
    THEN /\ timer' = [timer EXCEPT ![r] = IF network THEN "armed" ELSE "never"]
         /\ failedReason' = [failedReason EXCEPT ![r] = IF network THEN reason ELSE "Connection"]
    ELSE /\ failedReason' = [failedReason EXCEPT ![r] = reason]
         /\ UNCHANGED timer

(* activateRequest(): open a connection or, without connectivity, fail at once, which calls   *)
(* the requestor back before activateRequest returns.                                         *)
Activate(r, active, frames) ==
    IF online
    THEN /\ activeRequests' = active \cup {r}
         /\ calling' = frames
         /\ UNCHANGED <<timer, failedReason>>
    ELSE /\ activeRequests' = active
         /\ calling' = Append(frames, r)
         /\ Complete(r, "Connection", FALSE)

(* Fault: a slot becomes free and nobody looks at the queue. *)
LeavePending(active, frames) ==
    /\ activeRequests' = active
    /\ calling' = frames
    /\ UNCHANGED <<pendingRequests, timer, failedReason>>

(* activatePendingRequest(). *)
ActivatePending(active, frames) ==
    IF pendingRequests.queue = <<>>
    THEN /\ activeRequests' = active
         /\ calling' = frames
         /\ UNCHANGED <<pendingRequests, timer, failedReason>>
    ELSE /\ pendingRequests' = Pop(pendingRequests)
         /\ Activate(Head(pendingRequests.queue), active, frames)

----------------------------------------------------------------------------
(***************************************************************************)
(* The requestor.  It acts between two events of the thread, or from inside *)
(* a callback.                                                              *)
(***************************************************************************)

(* The constructor: add() schedules the request, or asks the ResourceTransform first.  The   *)
(* first timeout is always finite: priorExpires or now.                                      *)
Create(r) ==
    /\ r \notin created
    /\ created' = created \cup {r}
    /\ allRequests' = allRequests \cup {r}
    /\ IF r \in Transformed
       THEN transforming' = transforming \cup {r} /\ UNCHANGED <<timer, failedReason>>
       ELSE Start({r}) /\ UNCHANGED transforming
    /\ UNCHANGED <<pendingRequests, activeRequests, calling, online, maximum, networkVars>>

(* The destructor: remove().  The timer and the connection go with the request. *)
Delete(r) ==
    /\ r \in allRequests
    /\ allRequests' = allRequests \ {r}
    /\ transforming' = transforming \ {r}
    /\ IF r \in activeRequests
       THEN ActivatePending(activeRequests \ {r}, calling)
       ELSE /\ pendingRequests' = Drop(pendingRequests, r)
            /\ timer' = [timer EXCEPT ![r] = "off"]
            /\ UNCHANGED <<activeRequests, failedReason, calling>>
    /\ UNCHANGED <<created, online, maximum, networkVars>>

(* A callback returns to completed(), and so to the lambda in activateRequest. *)
CallbackReturn ==
    /\ calling # <<>>
    /\ ActivatePending(activeRequests, SubSeq(calling, 1, Len(calling) - 1))
    /\ UNCHANGED <<requestVars, online, maximum, networkVars>>

----------------------------------------------------------------------------
(***************************************************************************)
(* Events of the thread's run loop, which wait for the stack to unwind.    *)
(***************************************************************************)
AtRunLoop == calling = <<>>

(* setTransformedURL(), a message from the ResourceTransform. *)
SetTransformedURL(r) ==
    /\ AtRunLoop
    /\ r \in transforming
    /\ transforming' = transforming \ {r}
    /\ Start(Schedulable({r}))
    /\ UNCHANGED <<allRequests, created, pendingRequests, activeRequests, calling, online,
                   maximum, networkVars>>

(* The timer of a request: activateOrQueueRequest(). *)
TimerFires(r) ==
    /\ AtRunLoop
    /\ timer[r] = "armed"
    /\ IF Cardinality(activeRequests) >= maximum
       THEN /\ pendingRequests' = Insert(pendingRequests, r, r \in Regular)
            /\ timer' = [timer EXCEPT ![r] = "off"]
            /\ UNCHANGED <<activeRequests, failedReason, calling>>
       ELSE /\ UNCHANGED pendingRequests
            /\ IF online
               THEN /\ activeRequests' = activeRequests \cup {r}
                    /\ timer' = [timer EXCEPT ![r] = "off"]
                    /\ UNCHANGED <<failedReason, calling>>
               ELSE Activate(r, activeRequests, calling)
    /\ UNCHANGED <<requestVars, online, maximum, networkVars>>

(* The connection of an active request has a response. *)
Respond(r, reason, expires) ==
    /\ AtRunLoop
    /\ r \in activeRequests
    /\ activeRequests' = activeRequests \ {r}
    /\ Complete(r, reason, expires)
    /\ calling' = <<r>>
    /\ UNCHANGED <<requestVars, pendingRequests, online, maximum, networkVars>>

(* Fault: only the requests a server has turned away are scheduled again. *)
RescheduleRefused ==
    Start(Schedulable({r \in allRequests : failedReason[r] = "Server"}))

(* networkIsReachableAgain() of every request that failed for want of a connection. *)
Reschedule ==
    Start(Schedulable({r \in allRequests : failedReason[r] = "Connection"}))

NetworkIsReachableAgain ==
    /\ AtRunLoop
    /\ notified
    /\ notified' = FALSE
    /\ Reschedule
    /\ UNCHANGED <<requestVars, pendingRequests, activeRequests, calling, online, maximum,
                   network, reaching>>

SetOnlineStatus ==
    /\ AtRunLoop
    /\ online' = ~online
    /\ Reschedule
    /\ UNCHANGED <<requestVars, pendingRequests, activeRequests, calling, maximum, networkVars>>

SetMaximumConcurrentRequests(n) ==
    /\ n # maximum
    /\ maximum' = n
    /\ UNCHANGED <<requestVars, pendingRequests, activeRequests, timer, failedReason, calling,
                   online, networkVars>>

----------------------------------------------------------------------------
(***************************************************************************)
(* NetworkStatus, which other threads set: Set() writes the atomic flag,    *)
(* Reachable() reads it again before it notifies.                           *)
(***************************************************************************)
SetOffline ==
    /\ network
    /\ network' = FALSE
    /\ UNCHANGED <<requestVars, pendingRequests, activeRequests, timer, failedReason, calling,
                   online, maximum, reaching, notified>>

(* The read and the write of Set(Online) are one step: two threads that both find the flag   *)
(* false would only both call Reachable(), and AsyncTask::send() coalesces.                   *)
SetOnline ==
    /\ ~network
    /\ reaching < MaxReaching
    /\ network' = TRUE
    /\ reaching' = reaching + 1
    /\ UNCHANGED <<requestVars, pendingRequests, activeRequests, timer, failedReason, calling,
                   online, maximum, notified>>

Reachable ==
    /\ reaching > 0
    /\ reaching' = reaching - 1
    /\ notified' = (notified \/ network)
    /\ UNCHANGED <<requestVars, pendingRequests, activeRequests, timer, failedReason, calling,
                   online, maximum, network>>

----------------------------------------------------------------------------
RequestStep(r) ==
    \/ Create(r)
    \/ Delete(r)
    \/ SetTransformedURL(r)
    \/ TimerFires(r)
    \/ \E reason \in Reasons, expires \in BOOLEAN : Respond(r, reason, expires)

Next ==
    \/ \E r \in Requests : RequestStep(r)
    \/ CallbackReturn
    \/ NetworkIsReachableAgain
    \/ SetOnlineStatus
    \/ \E n \in Maxima : SetMaximumConcurrentRequests(n)
    \/ SetOffline \/ SetOnline \/ Reachable

Spec == Init /\ [][Next]_vars

(* Callbacks and NetworkStatus::Set return.  A timer that stays armed fires, a connection is   *)
(* answered (with an error at the latest) and the AsyncTask is handled, since the run loop      *)
(* looks at all of its handles in every iteration, whatever the callbacks do in between.        *)
Fairness ==
    /\ \A r \in Requests :
         /\ []<>(timer[r] # "armed") \/ []<><<TimerFires(r)>>_vars
         /\ []<>(r \notin activeRequests)
               \/ []<><<\E reason \in Reasons, expires \in BOOLEAN : Respond(r, reason, expires)>>_vars
    /\ []<>~notified \/ []<><<NetworkIsReachableAgain>>_vars
    /\ []<>AtRunLoop \/ []<><<CallbackReturn>>_vars
    /\ []<>(reaching = 0) \/ []<><<Reachable>>_vars

FairSpec == Spec /\ Fairness

----------------------------------------------------------------------------
(* Types of the variables. *)
TypeOK ==
    /\ allRequests \subseteq created /\ created \subseteq Requests
    /\ transforming \subseteq allRequests
    /\ pendingRequests \in [queue : Seq(Requests), firstLow : Nat]
    /\ activeRequests \subseteq Requests
    /\ timer \in [Requests -> {"off", "armed", "never"}]
    /\ failedReason \in [Requests -> Reasons]
    /\ calling \in Seq(Requests)
    /\ online \in BOOLEAN /\ maximum \in Maxima
    /\ network \in BOOLEAN /\ reaching \in 0..MaxReaching /\ notified \in BOOLEAN

IsPending(r) == Pending(pendingRequests, r)

(* The list is hi0 -- hi1 -- ... -- lo0 -- lo1 and firstLowPriorityRequest marks lo0 or end(), *)
(* whatever is inserted, popped and erased anywhere in it.                                     *)
ListLayout ==
    LET p == pendingRequests IN
    /\ p.firstLow \in 1..Len(p.queue) + 1
    /\ \A i \in 1..Len(p.queue) : p.queue[i] \in Regular <=> i < p.firstLow
    /\ \A i, j \in 1..Len(p.queue) : p.queue[i] = p.queue[j] => i = j

(* "The lifetime of a request": waiting for its timer, pending (once, among those of its       *)
(* priority) or active, one at a time, and only while it is in allRequests, so the raw         *)
(* pointers in the queue and the set never dangle, although any callback may delete any        *)
(* request.  One that has failed is always in one of them, so it is never forgotten.           *)
OneStateAtATime ==
    /\ ListLayout
    /\ \A r \in Requests :
         /\ IsPending(r) => r \notin activeRequests /\ timer[r] = "off"
         /\ r \in activeRequests => timer[r] = "off"
         /\ IsPending(r) \/ r \in activeRequests \/ timer[r] # "off" => r \in allRequests
         /\ r \in allRequests /\ failedReason[r] # "None" =>
              timer[r] # "off" \/ IsPending(r) \/ r \in activeRequests

(* The slots that are taken: the request of a callback still has its own. *)
Used == Cardinality(activeRequests) + Len(calling)

(* The limit of the moment, maximumConcurrentRequests: a slot is only taken below it, a request  *)
(* is only made to wait once it is reached, and while one waits no slot is lost, also when        *)
(* callbacks delete active requests or fail at once.  (A limit that is raised activates nobody,   *)
(* so those that wait already do so until a slot changes hands.)                                  *)
SlotsUsed ==
    [][/\ Used' > Used => Used' <= maximum
       /\ (\E r \in Requests : ~IsPending(r) /\ IsPending(r)') => Used >= maximum
       /\ pendingRequests.queue # <<>> => Used' >= Used]_vars

(* A timeout that never ends is only in force while the network is away or news of its return   *)
(* is on the way, however the threads that set NetworkStatus interleave with schedule().        *)
NeverMeansOffline ==
    \A r \in Requests :
        timer[r] = "never" =>
            /\ failedReason[r] = "Connection"
            /\ ~network \/ reaching > 0 \/ notified

Before(p, q, r) ==
    \E i, j \in 1..Len(p.queue) : i < j /\ p.queue[i] = q /\ p.queue[j] = r
SamePriority(q, r) == q \in Regular <=> r \in Regular

(* FIFO among requests of one priority, and regular requests first: whoever gets a slot from    *)
(* the queue was there before every other one of its priority, and a low one gets it only when  *)
(* no regular one waits.                                                                         *)
FifoByPriority ==
    [][\A q, r \in Requests : q # r /\ IsPending(r) =>
         /\ IsPending(q) /\ ~IsPending(q)' /\ q \in allRequests' =>
              /\ q \in Regular \/ r \notin Regular
              /\ SamePriority(q, r) => Before(pendingRequests, q, r)
         /\ SamePriority(q, r) /\ IsPending(r)' /\ IsPending(q)' =>
              (IsPending(q) /\ Before(pendingRequests, q, r)) = Before(pendingRequests', q, r)]_vars

(* No regular request starves in the queue, whatever the low ones and the retries do. *)
RegularServed ==
    \A r \in Regular : IsPending(r) ~> ~IsPending(r)

(* Once the network is back for good, every request that waits for it is retried. *)
RetriedWhenReachable ==
    \A r \in Requests : []<>(~network \/ timer[r] # "never")
=============================================================================
