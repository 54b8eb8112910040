--------------------------- MODULE Mailbox_proofs ---------------------------
(***************************************************************************)
(* Proofs about the actor runtime, for any number of mailboxes, scheduler   *)
(* threads and senders.                                                     *)
(***************************************************************************)
EXTENDS Mailbox, TLAPS

(* Who holds which mutex: the thread inside receive() and the one inside close() hold the      *)
(* receiving mutex, the thread inside push() holds the pushing mutex of a mailbox that is open. *)
LockInv ==
    /\ \A w \in Workers, m \in Mailboxes : Runs(w, m) => receivingMutex[m] = w
    /\ \A m \in Mailboxes : closer[m] # NoOne => receivingMutex[m] = closer[m]
    /\ \A t \in Threads, m \in Mailboxes :
         call[t].pc = "pushing" /\ call[t].mb = m => pushingMutex[m] = t /\ ~closed[m]

(* Only an opened mailbox is ever scheduled, and an idle worker has nothing to do with any. *)
SchedulerInv ==
    /\ \A m \in Mailboxes : ReceiveDue(m) => scheduler[m]
    /\ \A m \in Mailboxes : object[m] = "unborn" => ~scheduler[m]
    /\ \A w \in Workers : worker[w].pc = "idle" => worker[w].mb = NoOne

(* A thread inside invoke() has counted its message. *)
CallInv == \A t \in Threads : call[t].pc # "none" => sent[t] # 0

IInv == TypeOK /\ LockInv /\ SchedulerInv /\ CallInv /\ NoSpuriousWakeup /\ NoLostWakeup

----------------------------------------------------------------------------
(* A mailbox stands in a queue of the scheduler, and none stands in it twice. *)
In(s, x) == \E i \in 1..Len(s) : s[i] = x
NoneTwice(s) == \A i, j \in 1..Len(s) : s[i] = s[j] => i = j

(* Scheduling a mailbox that is not in the queue. *)
LEMMA AppendIn ==
    ASSUME NEW S, NEW s \in Seq(S), NEW x \in S
    PROVE  /\ Append(s, x) \in Seq(S)
           /\ \A y \in S : In(Append(s, x), y) <=> In(s, y) \/ y = x
           /\ NoneTwice(s) /\ ~In(s, x) => NoneTwice(Append(s, x))
<1>1. /\ Append(s, x) \in Seq(S)
      /\ Len(Append(s, x)) = Len(s) + 1
      /\ \A i \in 1..Len(s) : Append(s, x)[i] = s[i]
      /\ Append(s, x)[Len(s) + 1] = x
    OBVIOUS
<1>2. Len(s) \in Nat
    OBVIOUS
<1>3. \A y \in S : In(Append(s, x), y) <=> In(s, y) \/ y = x
    BY <1>1, <1>2 DEF In
<1>4. NoneTwice(s) /\ ~In(s, x) => NoneTwice(Append(s, x))
    BY <1>1, <1>2 DEF In, NoneTwice
<1> QED BY <1>1, <1>3, <1>4

(* Taking the first mailbox of the queue. *)
LEMMA TailIn ==
    ASSUME NEW S, NEW s \in Seq(S), s # <<>>
    PROVE  /\ Tail(s) \in Seq(S)
           /\ Head(s) \in S
           /\ \A y \in S : In(s, y) <=> In(Tail(s), y) \/ y = Head(s)
           /\ NoneTwice(s) => NoneTwice(Tail(s)) /\ ~In(Tail(s), Head(s))
<1>1. /\ Tail(s) \in Seq(S)
      /\ Len(s) \in Nat \ {0}
      /\ Len(Tail(s)) = Len(s) - 1
      /\ \A i \in 1..(Len(s) - 1) : Tail(s)[i] = s[i + 1]
      /\ Head(s) = s[1]
      /\ Head(s) \in S
    OBVIOUS
<1>2. \A y \in S : In(s, y) => In(Tail(s), y) \/ y = Head(s)
    <2> SUFFICES ASSUME NEW y \in S, NEW i \in 1..Len(s), s[i] = y, i # 1
                 PROVE  In(Tail(s), y)
        BY <1>1 DEF In
    <2>1. i - 1 \in 1..(Len(s) - 1) /\ Tail(s)[i - 1] = s[i]
        BY <1>1
    <2> QED BY <1>1, <2>1 DEF In
<1>3. \A y \in S : In(Tail(s), y) \/ y = Head(s) => In(s, y)
    BY <1>1 DEF In
<1>4. NoneTwice(s) => NoneTwice(Tail(s)) /\ ~In(Tail(s), Head(s))
    BY <1>1 DEF In, NoneTwice
<1> QED BY <1>1, <1>2, <1>3, <1>4

(* The properties of the scheduler's queue in these terms. *)
DueIsInTasks ==
    \A m \in Mailboxes : ReceiveDue(m) <=> In(tasks, m) \/ \E w \in Workers : Claims(w, m)
OneDuePerMailbox ==
    /\ NoneTwice(tasks)
    /\ \A w \in Workers, m \in Mailboxes : Claims(w, m) =>
         ~In(tasks, m) /\ \A v \in Workers : Claims(v, m) => v = w
DueHasMessage == \A m \in Mailboxes : ReceiveDue(m) /\ ~closed[m] => queue[m] # <<>>

LEMMA Due == DueIsInTasks /\ (NoSpuriousWakeup <=> OneDuePerMailbox /\ DueHasMessage)
<1>1. ASSUME NEW m PROVE (\A i \in 1..Len(tasks) : tasks[i] # m) <=> ~In(tasks, m)
    BY DEF In
<1> QED BY <1>1 DEF DueIsInTasks, OneDuePerMailbox, DueHasMessage, NoSpuriousWakeup, NoneTwice,
                    ReceiveDue, In

LEMMA DueNext == (DueIsInTasks /\ (NoSpuriousWakeup <=> OneDuePerMailbox /\ DueHasMessage))'
BY Due, PTL

----------------------------------------------------------------------------
(* The invariant holds before anybody has done anything. *)
LEMMA InitIInv == Init => IInv
<1> SUFFICES ASSUME Init PROVE IInv
    OBVIOUS
<1> USE MailboxAssumption, NoOneIsNoMessage DEF Init, IdleWorker, NoCall
<1>1. TypeOK
    BY DEF TypeOK, WorkerState, CallState
<1>2. LockInv
    BY DEF LockInv, Runs
<1>3. \A m \in Mailboxes : ~ReceiveDue(m)
    <2>1. Len(tasks) = 0
        OBVIOUS
    <2>2. \A w \in Workers, m \in Mailboxes : ~Claims(w, m)
        BY DEF Claims
    <2>3. ~ \E i \in 1..Len(tasks) : TRUE
        BY <2>1
    <2> HIDE DEF Init
    <2> QED BY <2>2, <2>3 DEF ReceiveDue
<1>4. SchedulerInv
    BY <1>3 DEF SchedulerInv
<1>5. CallInv
    BY DEF CallInv
<1>6. NoSpuriousWakeup
    BY <1>3 DEF NoSpuriousWakeup, ReceiveDue, Claims
<1>7. NoLostWakeup
    BY DEF NoLostWakeup
<1> QED BY <1>1, <1>2, <1>4, <1>5, <1>6, <1>7 DEF IInv

(* Calling an ActorRef takes a strong reference and touches no mailbox. *)
LEMMA InvokeIInv ==
    ASSUME IInv, NEW t \in Threads, NEW m \in Mailboxes, Invoke(t, m)
    PROVE  IInv'
<1> USE MailboxAssumption DEF IInv, Invoke, mailboxVars
<1>1. TypeOK'
    BY DEF TypeOK, WorkerState, CallState
<1>2. /\ \A k \in Mailboxes : ReceiveDue(k)' = ReceiveDue(k)
      /\ \A w \in Workers, k \in Mailboxes : Claims(w, k)' = Claims(w, k)
      /\ \A w \in Workers, k \in Mailboxes : Runs(w, k)' = Runs(w, k)
    BY DEF ReceiveDue, Claims, Runs
<1>3. LockInv'
    BY <1>2 DEF LockInv, TypeOK, CallState
<1>4. SchedulerInv'
    BY <1>2 DEF SchedulerInv
<1>5. CallInv'
    BY DEF CallInv, TypeOK
<1>6. NoSpuriousWakeup'
    BY <1>2 DEF NoSpuriousWakeup
<1>7. \A k \in Mailboxes : Exists(k)' => Exists(k)
    BY DEF Exists, TypeOK, CallState
<1>8. NoLostWakeup'
    BY <1>2, <1>7 DEF NoLostWakeup
<1> QED BY <1>1, <1>3, <1>4, <1>5, <1>6, <1>8
(* push() gets the pushing mutex, or finds the mailbox closed. *)
LEMMA PushEnterIInv ==
    ASSUME IInv, NEW t \in Threads, NEW m \in Mailboxes, PushEnter(t, m)
    PROVE  IInv'
<1> USE MailboxAssumption DEF IInv, PushEnter
<1>0. /\ call' \in [Threads -> CallState]
      /\ call'[t].pc \in {"leaving", "pushing"} /\ call'[t].mb = m /\ call[t].mb = m
      /\ call[t].pc = "referenced"
      /\ \A u \in Threads \ {t} : call'[u] = call[u]
      /\ call'[t].pc = "pushing" => ~closed[m] /\ pushingMutex' = [pushingMutex EXCEPT ![m] = t]
      /\ call'[t].pc # "pushing" => pushingMutex' = pushingMutex
    <2>1. call \in [Threads -> CallState] /\ call[t] = [pc |-> "referenced", mb |-> m]
        BY DEF TypeOK
    <2>2. /\ \A u \in Threads \ {t} : call'[u] = call[u]
          /\ DOMAIN call' = Threads
          /\ call' = [u \in DOMAIN call' |-> call'[u]]
          /\ closed[m] => call'[t] = [pc |-> "leaving", mb |-> m] /\ pushingMutex' = pushingMutex
          /\ ~closed[m] => /\ call'[t] = [pc |-> "pushing", mb |-> m]
                           /\ pushingMutex' = [pushingMutex EXCEPT ![m] = t]
        BY <2>1
    <2>3. call'[t] \in CallState
        BY <2>2 DEF CallState
    <2> QED BY <2>1, <2>2, <2>3
<1>10. pushingMutex' \in [Mailboxes -> Threads \cup {NoOne}]
    <2>1. pushingMutex \in [Mailboxes -> Threads \cup {NoOne}]
        BY DEF TypeOK
    <2> QED BY <1>0, <2>1
<1>1. TypeOK'
    BY <1>0, <1>10 DEF TypeOK
<1>2. /\ \A k \in Mailboxes : ReceiveDue(k)' = ReceiveDue(k)
      /\ \A w \in Workers, k \in Mailboxes : Claims(w, k)' = Claims(w, k)
      /\ \A w \in Workers, k \in Mailboxes : Runs(w, k)' = Runs(w, k)
    BY DEF ReceiveDue, Claims, Runs
<1>3. LockInv'
    <2>1. ASSUME NEW u \in Threads, NEW k \in Mailboxes, call'[u].pc = "pushing", call'[u].mb = k
          PROVE  pushingMutex'[k] = u /\ ~closed[k]
        <3>1. CASE u = t
            BY <1>0, <2>1, <3>1 DEF TypeOK
        <3>2. CASE u # t
            <4>1. pushingMutex[k] = u /\ ~closed[k]
                BY <1>0, <2>1, <3>2 DEF LockInv
            <4>2. k # m
                BY <4>1
            <4> QED BY <1>0, <4>1, <4>2 DEF TypeOK
        <3> QED BY <3>1, <3>2
    <2> QED BY <1>2, <2>1 DEF LockInv
<1>4. SchedulerInv'
    BY <1>2 DEF SchedulerInv
<1>5. CallInv'
    BY <1>0 DEF CallInv
<1>6. NoSpuriousWakeup'
    BY <1>2 DEF NoSpuriousWakeup
<1>7. \A k \in Mailboxes : Exists(k)' => Exists(k)
    BY <1>0 DEF Exists
<1>8. NoLostWakeup'
    BY <1>2, <1>7 DEF NoLostWakeup
<1> QED BY <1>1, <1>3, <1>4, <1>5, <1>6, <1>8

(* push() enqueues, and schedules a mailbox that was empty: nobody else had a reason to. *)
LEMMA PushCommitIInv ==
    ASSUME IInv, NEW t \in Threads, NEW m \in Mailboxes, PushCommit(t, m)
    PROVE  IInv'
<1> USE MailboxAssumption DEF IInv, PushCommit, Scheduled
<1>1. ~closed[m] /\ pushingMutex[m] = t
    BY DEF LockInv
<1>2. sent[t] \in 1..MaxSends
    BY DEF CallInv, TypeOK
<1>3. tasks \in Seq(Mailboxes)
    BY DEF TypeOK
<1>4. Append(tasks, m) \in Seq(Mailboxes)
    BY <1>3
<1>0. /\ call' \in [Threads -> CallState]
      /\ call'[t].pc = "leaving" /\ call'[t].mb = m /\ call[t].mb = m /\ call[t].pc = "pushing"
      /\ \A u \in Threads \ {t} : call'[u] = call[u]
    <2>1. call \in [Threads -> CallState] /\ call[t] = [pc |-> "pushing", mb |-> m]
        BY DEF TypeOK
    <2>2. call'[t] = [pc |-> "leaving", mb |-> m] /\ \A u \in Threads \ {t} : call'[u] = call[u]
        BY <2>1
    <2>3. call'[t] \in CallState
        BY <2>2 DEF CallState
    <2> QED BY <2>1, <2>2, <2>3
<1>50. [from |-> t, n |-> sent[t]] \in Message
    BY <1>2 DEF Message
<1>51. queue' \in [Mailboxes -> Seq(Message)]
    BY <1>50 DEF TypeOK
<1>5. TypeOK'
    BY <1>0, <1>3, <1>4, <1>51 DEF TypeOK
<1>6. /\ queue'[m] # <<>>
      /\ \A k \in Mailboxes : k # m => queue'[k] = queue[k]
    BY DEF TypeOK
<1>7. /\ \A w \in Workers, k \in Mailboxes : Claims(w, k)' = Claims(w, k)
      /\ \A w \in Workers, k \in Mailboxes : Runs(w, k)' = Runs(w, k)
      /\ \A k \in Mailboxes : Exists(k)' => Exists(k) \/ k = m
    BY <1>0 DEF Claims, Runs, Exists
<1>8. LockInv'
    BY <1>0, <1>1, <1>7 DEF LockInv, TypeOK
<1>9. CallInv'
    BY <1>0 DEF CallInv
<1>10. CASE queue[m] = <<>> /\ scheduler[m]
    <2>1. tasks' = Append(tasks, m)
        BY <1>10
    <2>2. ~In(tasks, m) /\ \A w \in Workers : ~Claims(w, m)
        BY <1>1, <1>10, Due DEF DueIsInTasks, DueHasMessage
    <2>3. NoneTwice(tasks') /\ \A k \in Mailboxes : In(tasks', k) <=> In(tasks, k) \/ k = m
        BY <1>3, <2>1, <2>2, AppendIn, Due DEF OneDuePerMailbox
    <2>4. \A k \in Mailboxes : ReceiveDue(k)' <=> ReceiveDue(k) \/ k = m
        BY <1>7, <2>3, Due, DueNext DEF DueIsInTasks
    <2>5. SchedulerInv'
        BY <1>10, <2>4 DEF SchedulerInv
    <2>6. OneDuePerMailbox'
        BY <1>7, <2>2, <2>3, Due DEF OneDuePerMailbox
    <2>7. DueHasMessage'
        BY <1>6, <2>4, Due DEF DueHasMessage
    <2>8. NoLostWakeup'
        BY <1>6, <1>7, <2>4 DEF NoLostWakeup
    <2> QED BY <1>5, <1>8, <1>9, <2>5, <2>6, <2>7, <2>8, DueNext
<1>11. CASE ~(queue[m] = <<>> /\ scheduler[m])
    <2>1. tasks' = tasks
        BY <1>11
    <2>2. \A k \in Mailboxes : ReceiveDue(k)' = ReceiveDue(k)
        BY <2>1 DEF ReceiveDue, Claims
    <2>3. SchedulerInv'
        BY <2>2 DEF SchedulerInv
    <2>4. OneDuePerMailbox'
        BY <1>7, <2>1, Due DEF OneDuePerMailbox
    <2>5. DueHasMessage'
        BY <1>6, <2>2, Due DEF DueHasMessage
    <2>6. Exists(m)
        BY DEF Exists
    <2>7. NoLostWakeup'
        BY <1>1, <1>6, <1>7, <1>11, <2>2, <2>6 DEF NoLostWakeup
    <2> QED BY <1>5, <1>8, <1>9, <2>3, <2>4, <2>5, <2>7, DueNext
<1> QED BY <1>10, <1>11

(* invoke() returns. *)
LEMMA InvokeReturnIInv ==
    ASSUME IInv, NEW t \in Threads, InvokeReturn(t)
    PROVE  IInv'
<1> USE MailboxAssumption DEF IInv, InvokeReturn, NoCall, mailboxVars
<1>1. TypeOK'
    BY DEF TypeOK, CallState
<1>2. /\ \A k \in Mailboxes : ReceiveDue(k)' = ReceiveDue(k)
      /\ \A w \in Workers, k \in Mailboxes : Claims(w, k)' = Claims(w, k)
      /\ \A w \in Workers, k \in Mailboxes : Runs(w, k)' = Runs(w, k)
    BY DEF ReceiveDue, Claims, Runs
<1>3. LockInv'
    BY <1>2 DEF LockInv, TypeOK, CallState
<1>4. SchedulerInv'
    BY <1>2 DEF SchedulerInv
<1>5. CallInv'
    BY DEF CallInv, TypeOK
<1>6. NoSpuriousWakeup'
    BY <1>2 DEF NoSpuriousWakeup
<1>7. \A k \in Mailboxes : Exists(k)' => Exists(k)
    BY DEF Exists, TypeOK, CallState
<1>8. NoLostWakeup'
    BY <1>2, <1>7 DEF NoLostWakeup
<1> QED BY <1>1, <1>3, <1>4, <1>5, <1>6, <1>8

(* A worker takes a mailbox from the scheduler's queue: the receive() that was due still is,   *)
(* unless nobody can reach the mailbox any more.                                               *)
LEMMA TakeTaskIInv ==
    ASSUME IInv, NEW w \in Workers, TakeTask(w)
    PROVE  IInv'
<1> USE MailboxAssumption DEF IInv, TakeTask, mailboxVars
<1> DEFINE h == Head(tasks)
<1>1. /\ tasks \in Seq(Mailboxes) /\ tasks # <<>> /\ tasks' = Tail(tasks)
      /\ worker \in [Workers -> WorkerState] /\ worker[w].pc = "idle" /\ worker[w].mb = NoOne
    BY DEF TypeOK, SchedulerInv
<1>2. /\ h \in Mailboxes
      /\ tasks' \in Seq(Mailboxes)
      /\ \A m \in Mailboxes : In(tasks, m) <=> In(tasks', m) \/ m = h
      /\ NoneTwice(tasks) => NoneTwice(tasks') /\ ~In(tasks', h)
    BY <1>1, TailIn
<1>3. NoOne \notin Mailboxes
    OBVIOUS
<1> HIDE DEF h
<1>4. /\ \A v \in Workers \ {w} : worker'[v] = worker[v]
      /\ worker'[w] = IF Exists(h) THEN [pc |-> "claimed", mb |-> h, msg |-> NoOne, more |-> FALSE]
                      ELSE worker[w]
      /\ worker' \in [Workers -> WorkerState]
    <2>1. CASE Exists(h)
        <3>1. worker' = [worker EXCEPT ![w] = [pc |-> "claimed", mb |-> h, msg |-> NoOne, more |-> FALSE]]
            BY <2>1 DEF h
        <3>2. [pc |-> "claimed", mb |-> h, msg |-> NoOne, more |-> FALSE] \in WorkerState
            BY <1>2 DEF WorkerState
        <3> QED BY <1>1, <2>1, <3>1, <3>2
    <2>2. CASE ~Exists(h)
        <3>1. worker' = worker
            BY <2>2 DEF h
        <3> QED BY <1>1, <2>2, <3>1
    <2> QED BY <2>1, <2>2
<1>5. TypeOK'
    BY <1>2, <1>4 DEF TypeOK
<1>6. \A v \in Workers, m \in Mailboxes : Runs(v, m)' => Runs(v, m)
    BY <1>4 DEF Runs
<1>7. LockInv'
    BY <1>6 DEF LockInv
<1>8. CallInv'
    BY DEF CallInv
<1>9. \A v \in Workers, m \in Mailboxes :
        Claims(v, m)' <=> Claims(v, m) \/ (v = w /\ m = h /\ Exists(h))
    <2> SUFFICES ASSUME NEW v \in Workers, NEW m \in Mailboxes
                 PROVE  Claims(v, m)' <=> Claims(v, m) \/ (v = w /\ m = h /\ Exists(h))
        OBVIOUS
    <2>1. ~Claims(w, m)
        BY <1>1, <1>3 DEF Claims
    <2>2. Claims(w, m)' <=> m = h /\ Exists(h)
        <3>1. CASE Exists(h)
            <4>1. worker'[w].pc = "claimed" /\ worker'[w].mb = h
                BY <1>4, <3>1
            <4> QED BY <3>1, <4>1 DEF Claims
        <3>2. CASE ~Exists(h)
            <4>1. worker'[w] = worker[w]
                BY <1>4, <3>2
            <4> QED BY <2>1, <3>2, <4>1 DEF Claims
        <3> QED BY <3>1, <3>2
    <2>3. ASSUME v # w PROVE Claims(v, m)' <=> Claims(v, m)
        <3>1. worker'[v] = worker[v]
            BY <1>4, <2>3
        <3> QED BY <3>1 DEF Claims
    <2> QED BY <2>1, <2>2, <2>3
<1>10. OneDuePerMailbox
    BY Due
<1>11. OneDuePerMailbox'
    <2>1. \A v \in Workers : ~Claims(v, h)
        BY <1>2, <1>10 DEF OneDuePerMailbox
    <2>2. NoneTwice(tasks') /\ ~In(tasks', h)
        BY <1>2, <1>10 DEF OneDuePerMailbox
    <2> QED BY <1>2, <1>9, <1>10, <2>1, <2>2 DEF OneDuePerMailbox
<1>12. \A m \in Mailboxes :
         /\ ReceiveDue(m)' => ReceiveDue(m)
         /\ ReceiveDue(m) => ReceiveDue(m)' \/ (m = h /\ ~Exists(h))
    <2> HIDE DEF TakeTask, IInv
    <2> SUFFICES ASSUME NEW m \in Mailboxes
                 PROVE  /\ ReceiveDue(m)' => ReceiveDue(m)
                        /\ ReceiveDue(m) => ReceiveDue(m)' \/ (m = h /\ ~Exists(h))
        OBVIOUS
    <2>1. ReceiveDue(m) <=> In(tasks, m) \/ \E v \in Workers : Claims(v, m)
        BY Due DEF DueIsInTasks
    <2>2. ReceiveDue(m)' <=> In(tasks', m) \/ \E v \in Workers : Claims(v, m)'
        BY DueNext DEF DueIsInTasks, In
    <2>3. In(tasks, m) <=> In(tasks', m) \/ m = h
        BY <1>2
    <2>4. ASSUME ReceiveDue(m)' PROVE ReceiveDue(m)
        <3>1. CASE In(tasks', m)
            BY <2>1, <2>3, <3>1
        <3>2. CASE \E v \in Workers : Claims(v, m)'
            BY <1>9, <2>1, <2>3, <3>2
        <3> QED BY <2>2, <2>4, <3>1, <3>2
    <2>5. ASSUME ReceiveDue(m), ~(m = h /\ ~Exists(h)) PROVE ReceiveDue(m)'
        <3>1. CASE m = h
            BY <1>9, <2>2, <2>5, <3>1
        <3>2. CASE m # h /\ In(tasks, m)
            BY <2>2, <2>3, <3>2
        <3>3. CASE ~In(tasks, m)
            <4>1. PICK v \in Workers : Claims(v, m)
                BY <2>1, <2>5, <3>3
            <4>2. Claims(v, m)'
                BY <1>9, <4>1
            <4> QED BY <2>2, <4>2
        <3> QED BY <3>1, <3>2, <3>3
    <2>6. ReceiveDue(m) => ReceiveDue(m)' \/ (m = h /\ ~Exists(h))
        BY <2>5
    <2> QED BY <2>4, <2>6
<1>13. DueHasMessage'
    BY <1>12, Due DEF DueHasMessage
<1>14. SchedulerInv'
    BY <1>4, <1>12 DEF SchedulerInv
<1>15. \A m \in Mailboxes : Exists(m)' => Exists(m)
    BY <1>4 DEF Exists
<1>16. NoLostWakeup'
    BY <1>12, <1>15 DEF NoLostWakeup
<1> QED BY <1>5, <1>7, <1>8, <1>11, <1>13, <1>14, <1>16, DueNext

(* receive() finds the mailbox closed, or takes the message it came for. *)
LEMMA ReceiveIInv ==
    ASSUME IInv, NEW w \in Workers, NEW m \in Mailboxes, Receive(w, m)
    PROVE  IInv'
<1> USE MailboxAssumption DEF IInv, Receive
<1>1. /\ worker \in [Workers -> WorkerState] /\ worker[w].pc = "claimed" /\ worker[w].mb = m
      /\ queue \in [Mailboxes -> Seq(Message)]
      /\ receivingMutex \in [Mailboxes -> Threads \cup {NoOne}] /\ receivingMutex[m] = NoOne
      /\ w \in Threads
    BY DEF TypeOK, Threads
<1>2. OneDuePerMailbox /\ DueHasMessage /\ Claims(w, m)
    BY Due, <1>1 DEF Claims
<1>3. /\ ReceiveDue(m)
      /\ ~In(tasks, m)
      /\ \A v \in Workers : Claims(v, m) => v = w
      /\ \A k \in Mailboxes : Claims(w, k) => k = m
    BY <1>1, <1>2 DEF OneDuePerMailbox, Claims, ReceiveDue
<1>4. CallInv'
    BY DEF CallInv
<1>5. CASE closed[m]
    <2>1. /\ worker' = [worker EXCEPT ![w] = IdleWorker]
          /\ UNCHANGED <<queue, receivingMutex>>
        BY <1>5
    <2>2. IdleWorker \in WorkerState /\ IdleWorker.pc = "idle" /\ IdleWorker.mb = NoOne
        BY DEF IdleWorker, WorkerState
    <2>3. /\ worker' \in [Workers -> WorkerState] /\ worker'[w] = IdleWorker
          /\ \A v \in Workers \ {w} : worker'[v] = worker[v]
        BY <1>1, <2>1, <2>2
    <2>4. TypeOK'
        BY <2>1, <2>3 DEF TypeOK
    <2>5. LockInv'
        BY <2>1, <2>2, <2>3 DEF LockInv, Runs
    <2>6. \A v \in Workers, k \in Mailboxes : Claims(v, k)' <=> Claims(v, k) /\ v # w
        BY <2>2, <2>3 DEF Claims
    <2>7. \A k \in Mailboxes : ReceiveDue(k)' <=> ReceiveDue(k) /\ k # m
        BY <1>3, <2>6, Due, DueNext DEF DueIsInTasks
    <2>8. SchedulerInv'
        BY <2>2, <2>3, <2>7 DEF SchedulerInv
    <2>9. OneDuePerMailbox' /\ DueHasMessage'
        BY <1>2, <2>1, <2>6, <2>7 DEF OneDuePerMailbox, DueHasMessage
    <2>10. \A k \in Mailboxes : Exists(k)' => Exists(k)
        BY <2>2, <2>3 DEF Exists
    <2>11. NoLostWakeup'
        BY <1>5, <2>1, <2>7, <2>10 DEF NoLostWakeup
    <2> QED BY <1>4, <2>4, <2>5, <2>8, <2>9, <2>11, DueNext
<1>6. CASE ~closed[m]
    <2>1. queue[m] # <<>> /\ queue[m] \in Seq(Message)
        BY <1>1, <1>2, <1>3, <1>6 DEF DueHasMessage
    <2>2. Head(queue[m]) \in Message /\ Tail(queue[m]) \in Seq(Message)
        BY <2>1
    <2> DEFINE run == [pc |-> "running", mb |-> m, msg |-> Head(queue[m]),
                       more |-> Tail(queue[m]) # <<>>]
    <2>3. /\ worker' = [worker EXCEPT ![w] = run]
          /\ queue' = [queue EXCEPT ![m] = Tail(queue[m])]
          /\ receivingMutex' = [receivingMutex EXCEPT ![m] = w]
        BY <1>6
    <2>4. /\ run \in WorkerState /\ run.pc = "running" /\ run.mb = m
          /\ run.more <=> Tail(queue[m]) # <<>>
        BY <2>2 DEF WorkerState
    <2> HIDE DEF run
    <2>5. /\ worker' \in [Workers -> WorkerState] /\ worker'[w] = run
          /\ \A v \in Workers \ {w} : worker'[v] = worker[v]
          /\ queue' \in [Mailboxes -> Seq(Message)] /\ queue'[m] = Tail(queue[m])
          /\ \A k \in Mailboxes \ {m} : queue'[k] = queue[k]
          /\ receivingMutex' \in [Mailboxes -> Threads \cup {NoOne}]
          /\ receivingMutex'[m] = w
          /\ \A k \in Mailboxes \ {m} : receivingMutex'[k] = receivingMutex[k]
        BY <1>1, <2>2, <2>3, <2>4
    <2>6. TypeOK'
        BY <2>5 DEF TypeOK
    <2>7. LockInv'
        <3>1. ASSUME NEW v \in Workers, NEW k \in Mailboxes, Runs(v, k)'
              PROVE  receivingMutex'[k] = v
            <4>1. CASE v = w
                BY <2>4, <2>5, <3>1, <4>1 DEF Runs
            <4>2. CASE v # w
                <5>1. Runs(v, k)
                    BY <2>5, <3>1, <4>2 DEF Runs
                <5>2. receivingMutex[k] = v /\ v \in Threads
                    BY <5>1 DEF LockInv, Threads
                <5> QED BY <1>1, <2>5, <5>2
            <4> QED BY <4>1, <4>2
        <3>2. ASSUME NEW k \in Mailboxes, closer[k] # NoOne
              PROVE  receivingMutex'[k] = closer[k]
            BY <1>1, <2>5, <3>2 DEF LockInv
        <3> QED BY <3>1, <3>2 DEF LockInv
    <2>8. \A v \in Workers, k \in Mailboxes :
            Claims(v, k)' <=> Claims(v, k) /\ (v # w \/ Tail(queue[m]) # <<>>)
        BY <1>1, <2>4, <2>5 DEF Claims
    <2>9. \A k \in Mailboxes :
            ReceiveDue(k)' <=> ReceiveDue(k) /\ (k # m \/ Tail(queue[m]) # <<>>)
        BY <1>2, <1>3, <2>8, Due, DueNext DEF DueIsInTasks
    <2>10. SchedulerInv'
        BY <2>4, <2>5, <2>9 DEF SchedulerInv
    <2>11. OneDuePerMailbox' /\ DueHasMessage'
        BY <1>2, <2>5, <2>8, <2>9 DEF OneDuePerMailbox, DueHasMessage
    <2>12. \A k \in Mailboxes : Exists(k)' => Exists(k)
        <3>1. \A v \in Workers : worker'[v].mb = worker[v].mb
            BY <1>1, <2>4, <2>5
        <3> QED BY <3>1 DEF Exists
    <2>13. NoLostWakeup'
        <3>1. ASSUME NEW k \in Mailboxes, scheduler'[k], ~closed'[k], Exists(k)', queue'[k] # <<>>
              PROVE  ReceiveDue(k)'
            <4>0. \/ k = m /\ Tail(queue[m]) # <<>>
                  \/ k # m /\ queue[k] # <<>>
                <5>1. k = m => queue'[k] = Tail(queue[m])
                    BY <2>5
                <5>2. k # m => queue'[k] = queue[k]
                    BY <2>5
                <5> QED BY <5>1, <5>2, <3>1
            <4>1. queue[k] # <<>> /\ (k # m \/ Tail(queue[m]) # <<>>)
                BY <2>1, <4>0
            <4>2. ReceiveDue(k)
                BY <2>5, <2>12, <3>1, <4>1 DEF NoLostWakeup
            <4> QED BY <2>9, <4>1, <4>2
        <3> QED BY <3>1 DEF NoLostWakeup
    <2> QED BY <1>4, <2>6, <2>7, <2>10, <2>11, <2>13, DueNext
<1> QED BY <1>5, <1>6

(* The handler has returned: what was left in the mailbox goes back to the scheduler's queue. *)
LEMMA ReceiveReturnIInv ==
    ASSUME IInv, NEW w \in Workers, NEW m \in Mailboxes, ReceiveReturn(w, m)
    PROVE  IInv'
<1> USE MailboxAssumption DEF IInv, ReceiveReturn, Scheduled
<1>1. /\ worker \in [Workers -> WorkerState] /\ worker[w].pc = "running" /\ worker[w].mb = m
      /\ receivingMutex \in [Mailboxes -> Threads \cup {NoOne}] /\ receivingMutex[m] = w
      /\ tasks \in Seq(Mailboxes)
      /\ w \in Threads
    BY DEF TypeOK, Threads, Runs, LockInv
<1>2. OneDuePerMailbox /\ DueHasMessage
    BY Due
<1>3. Claims(w, m) <=> worker[w].more
    BY <1>1 DEF Claims
<1>4. IdleWorker \in WorkerState /\ IdleWorker.pc = "idle" /\ IdleWorker.mb = NoOne
    BY DEF IdleWorker, WorkerState
<1>5. /\ worker' \in [Workers -> WorkerState] /\ worker'[w] = IdleWorker
      /\ \A v \in Workers \ {w} : worker'[v] = worker[v]
      /\ receivingMutex' \in [Mailboxes -> Threads \cup {NoOne}] /\ receivingMutex'[m] = NoOne
      /\ \A k \in Mailboxes \ {m} : receivingMutex'[k] = receivingMutex[k]
    BY <1>1, <1>4
<1>6. /\ tasks' \in Seq(Mailboxes)
      /\ NoneTwice(tasks')
      /\ \A k \in Mailboxes : In(tasks', k) <=> In(tasks, k) \/ (k = m /\ Claims(w, m))
    <2>1. CASE worker[w].more
        <3>1. tasks' = Append(tasks, m)
            BY <2>1
        <3>2. ~In(tasks, m) /\ NoneTwice(tasks)
            BY <1>2, <1>3, <2>1 DEF OneDuePerMailbox
        <3> QED BY <1>1, <1>3, <2>1, <3>1, <3>2, AppendIn
    <2>2. CASE ~worker[w].more
        <3>1. tasks' = tasks
            BY <2>2
        <3> QED BY <1>1, <1>2, <1>3, <2>2, <3>1 DEF OneDuePerMailbox
    <2> QED BY <2>1, <2>2
<1>7. TypeOK'
    BY <1>5, <1>6 DEF TypeOK
<1>8. ASSUME NEW v \in Workers, NEW k \in Mailboxes, Runs(v, k)'
      PROVE  v # w /\ Runs(v, k) /\ k # m
    <2>1. v # w
        BY <1>4, <1>5, <1>8 DEF Runs
    <2>2. Runs(v, k)
        BY <1>5, <1>8, <2>1 DEF Runs
    <2>3. receivingMutex[k] = v
        BY <2>2 DEF LockInv
    <2> QED BY <1>1, <2>1, <2>2, <2>3
<1>9. LockInv'
    <2>1. ASSUME NEW k \in Mailboxes, closer[k] # NoOne PROVE receivingMutex'[k] = closer[k]
        <3>1. receivingMutex[k] = closer[k] /\ closer[k] # w
            BY <2>1 DEF LockInv
        <3> QED BY <1>1, <1>5, <3>1
    <2>2. \A v \in Workers, k \in Mailboxes : Runs(v, k)' => receivingMutex'[k] = v
        BY <1>5, <1>8 DEF LockInv
    <2> QED BY <2>1, <2>2 DEF LockInv
<1>10. CallInv'
    BY DEF CallInv
<1>11. ASSUME NEW v \in Workers, NEW k \in Mailboxes
       PROVE  Claims(v, k)' <=> Claims(v, k) /\ v # w
    <2>1. CASE v = w
        BY <1>4, <1>5, <2>1 DEF Claims
    <2>2. CASE v # w
        <3>1. worker'[v] = worker[v]
            BY <1>5, <2>2
        <3> QED BY <2>2, <3>1 DEF Claims
    <2> QED BY <2>1, <2>2
<1>12. \A k \in Mailboxes : Claims(w, k) => k = m
    BY <1>1 DEF Claims
<1>13. ASSUME NEW k \in Mailboxes PROVE ReceiveDue(k)' <=> ReceiveDue(k)
    <2> HIDE DEF IInv, ReceiveReturn, Scheduled
    <2>1. ReceiveDue(k) <=> In(tasks, k) \/ \E v \in Workers : Claims(v, k)
        BY Due DEF DueIsInTasks
    <2>2. ReceiveDue(k)' <=> In(tasks', k) \/ \E v \in Workers : Claims(v, k)'
        BY DueNext DEF DueIsInTasks, In
    <2>3. In(tasks', k) <=> In(tasks, k) \/ (k = m /\ Claims(w, m))
        BY <1>6
    <2>4. (\E v \in Workers : Claims(v, k)') <=> \E v \in Workers : Claims(v, k) /\ v # w
        BY <1>11
    <2>5. Claims(w, k) <=> k = m /\ Claims(w, m)
        BY <1>12
    <2> QED BY <2>1, <2>2, <2>3, <2>4, <2>5
<1>14. SchedulerInv'
    BY <1>4, <1>5, <1>13 DEF SchedulerInv
<1>15. OneDuePerMailbox'
    <2>1. ASSUME NEW v \in Workers, NEW k \in Mailboxes, Claims(v, k)'
          PROVE  ~In(tasks', k) /\ \A u \in Workers : Claims(u, k)' => u = v
        <3>1. Claims(v, k) /\ v # w
            BY <1>11, <2>1
        <3>2. ~In(tasks, k) /\ \A u \in Workers : Claims(u, k) => u = v
            BY <1>2, <3>1 DEF OneDuePerMailbox
        <3> QED BY <1>6, <1>11, <3>1, <3>2
    <2> QED BY <1>6, <2>1 DEF OneDuePerMailbox
<1>16. DueHasMessage'
    BY <1>2, <1>13 DEF DueHasMessage
<1>17. \A k \in Mailboxes : Exists(k)' => Exists(k)
    <2>1. \A v \in Workers, k \in Mailboxes : worker'[v].mb = k => worker[v].mb = k
        BY <1>4, <1>5
    <2> QED BY <2>1 DEF Exists
<1>18. NoLostWakeup'
    BY <1>13, <1>17 DEF NoLostWakeup
<1> QED BY <1>7, <1>9, <1>10, <1>14, <1>15, <1>16, <1>18, DueNext

(* open() schedules the mailbox if it holds messages: nobody could have done so before. *)
LEMMA OpenIInv ==
    ASSUME IInv, NEW t \in Threads, NEW m \in Mailboxes, Open(t, m)
    PROVE  IInv'
<1> USE MailboxAssumption DEF IInv, Open, Scheduled
<1>1. /\ ~scheduler[m]
      /\ tasks \in Seq(Mailboxes)
      /\ object \in [Mailboxes -> {"unborn", "alive", "dead"}] /\ object[m] = "unborn"
      /\ scheduler \in [Mailboxes -> BOOLEAN]
    BY DEF TypeOK, SchedulerInv
<1>2. OneDuePerMailbox /\ DueHasMessage
    BY Due
<1>3. ~In(tasks, m) /\ \A v \in Workers : ~Claims(v, m)
    BY <1>1, Due DEF SchedulerInv, DueIsInTasks
<1>4. /\ object' \in [Mailboxes -> {"unborn", "alive", "dead"}] /\ object'[m] = "alive"
      /\ \A k \in Mailboxes \ {m} : object'[k] = object[k]
      /\ scheduler' \in [Mailboxes -> BOOLEAN] /\ scheduler'[m]
      /\ \A k \in Mailboxes \ {m} : scheduler'[k] = scheduler[k]
    BY <1>1
<1>5. /\ tasks' \in Seq(Mailboxes)
      /\ NoneTwice(tasks')
      /\ \A k \in Mailboxes : In(tasks', k) <=>
           In(tasks, k) \/ (k = m /\ ~closed[m] /\ queue[m] # <<>>)
    <2>1. CASE ~closed[m] /\ queue[m] # <<>>
        <3>1. tasks' = Append(tasks, m)
            BY <2>1
        <3> QED BY <1>1, <1>2, <1>3, <2>1, <3>1, AppendIn DEF OneDuePerMailbox
    <2>2. CASE ~(~closed[m] /\ queue[m] # <<>>)
        <3>1. tasks' = tasks
            BY <2>2
        <3> QED BY <1>1, <1>2, <2>2, <3>1 DEF OneDuePerMailbox
    <2> QED BY <2>1, <2>2
<1>6. TypeOK'
    BY <1>4, <1>5 DEF TypeOK
<1>7. /\ \A w \in Workers, k \in Mailboxes : Claims(w, k)' <=> Claims(w, k)
      /\ \A w \in Workers, k \in Mailboxes : Runs(w, k)' <=> Runs(w, k)
    BY DEF Claims, Runs
<1>8. LockInv'
    BY <1>7 DEF LockInv
<1>9. CallInv'
    BY DEF CallInv
<1>10. ASSUME NEW k \in Mailboxes
       PROVE  ReceiveDue(k)' <=> ReceiveDue(k) \/ (k = m /\ ~closed[m] /\ queue[m] # <<>>)
    <2> HIDE DEF IInv, Open, Scheduled
    <2>1. ReceiveDue(k) <=> In(tasks, k) \/ \E v \in Workers : Claims(v, k)
        BY Due DEF DueIsInTasks
    <2>2. ReceiveDue(k)' <=> In(tasks', k) \/ \E v \in Workers : Claims(v, k)'
        BY DueNext DEF DueIsInTasks, In
    <2> QED BY <1>5, <1>7, <2>1, <2>2
<1>11. SchedulerInv'
    BY <1>4, <1>10 DEF SchedulerInv
<1>12. OneDuePerMailbox'
    BY <1>2, <1>3, <1>5, <1>7 DEF OneDuePerMailbox
<1>13. DueHasMessage'
    BY <1>2, <1>10 DEF DueHasMessage
<1>14. \A k \in Mailboxes : Exists(k)' => Exists(k)
    BY <1>1, <1>4 DEF Exists
<1>15. NoLostWakeup'
    BY <1>4, <1>10, <1>14 DEF NoLostWakeup
<1> QED BY <1>6, <1>8, <1>9, <1>11, <1>12, <1>13, <1>15, DueNext

(* close() gets the receiving mutex: no handler runs, or the one that closes its own mailbox. *)
LEMMA CloseEnterIInv ==
    ASSUME IInv, NEW t \in Threads, NEW m \in Mailboxes, CloseEnter(t, m)
    PROVE  IInv'
<1> USE MailboxAssumption DEF IInv, CloseEnter
<1>1. /\ receivingMutex \in [Mailboxes -> Threads \cup {NoOne}] /\ receivingMutex[m] \in {NoOne, t}
      /\ closer \in [Mailboxes -> Threads \cup {NoOne}]
    BY DEF TypeOK
<1>2. /\ receivingMutex' \in [Mailboxes -> Threads \cup {NoOne}] /\ receivingMutex'[m] = t
      /\ \A k \in Mailboxes \ {m} : receivingMutex'[k] = receivingMutex[k]
      /\ closer' \in [Mailboxes -> Threads \cup {NoOne}] /\ closer'[m] = t
      /\ \A k \in Mailboxes \ {m} : closer'[k] = closer[k]
    BY <1>1
<1>3. TypeOK'
    BY <1>2 DEF TypeOK
<1>4. /\ \A k \in Mailboxes : ReceiveDue(k)' = ReceiveDue(k)
      /\ \A w \in Workers, k \in Mailboxes : Claims(w, k)' = Claims(w, k)
      /\ \A w \in Workers, k \in Mailboxes : Runs(w, k)' = Runs(w, k)
      /\ \A k \in Mailboxes : Exists(k)' = Exists(k)
    BY DEF ReceiveDue, Claims, Runs, Exists
<1>5. LockInv'
    <2>1. ASSUME NEW w \in Workers, NEW k \in Mailboxes, Runs(w, k)
          PROVE  receivingMutex'[k] = w
        <3>1. receivingMutex[k] = w /\ w # NoOne
            BY <2>1 DEF LockInv, Threads
        <3> QED BY <1>1, <1>2, <3>1
    <2>2. ASSUME NEW k \in Mailboxes, closer'[k] # NoOne
          PROVE  receivingMutex'[k] = closer'[k]
        BY <1>2, <2>2 DEF LockInv
    <2> QED BY <1>4, <2>1, <2>2 DEF LockInv
<1>6. SchedulerInv' /\ CallInv'
    BY <1>4 DEF SchedulerInv, CallInv
<1>7. NoSpuriousWakeup'
    BY <1>4 DEF NoSpuriousWakeup
<1>8. NoLostWakeup'
    BY <1>4 DEF NoLostWakeup
<1> QED BY <1>3, <1>5, <1>6, <1>7, <1>8

(* close() gets the pushing mutex too: nobody is inside push(). *)
LEMMA CloseCommitIInv ==
    ASSUME IInv, NEW t \in Threads, NEW m \in Mailboxes, CloseCommit(t, m)
    PROVE  IInv'
<1> USE MailboxAssumption DEF IInv, CloseCommit
<1>1. /\ receivingMutex \in [Mailboxes -> Threads \cup {NoOne}] /\ receivingMutex[m] = t
      /\ closer \in [Mailboxes -> Threads \cup {NoOne}] /\ closed \in [Mailboxes -> BOOLEAN]
      /\ object \in [Mailboxes -> {"unborn", "alive", "dead"}]
    BY DEF TypeOK, LockInv
<1>2. /\ receivingMutex' \in [Mailboxes -> Threads \cup {NoOne}]
      /\ receivingMutex'[m] = (IF Runs(t, m) THEN t ELSE NoOne)
      /\ \A k \in Mailboxes \ {m} : receivingMutex'[k] = receivingMutex[k]
      /\ closer' \in [Mailboxes -> Threads \cup {NoOne}] /\ closer'[m] = NoOne
      /\ \A k \in Mailboxes \ {m} : closer'[k] = closer[k]
      /\ closed' \in [Mailboxes -> BOOLEAN] /\ closed'[m]
      /\ \A k \in Mailboxes \ {m} : closed'[k] = closed[k]
      /\ object' \in [Mailboxes -> {"unborn", "alive", "dead"}] /\ object'[m] = "dead"
      /\ \A k \in Mailboxes \ {m} : object'[k] = object[k]
    BY <1>1
<1>3. TypeOK'
    BY <1>2 DEF TypeOK
<1>4. /\ \A k \in Mailboxes : ReceiveDue(k)' = ReceiveDue(k)
      /\ \A w \in Workers, k \in Mailboxes : Claims(w, k)' = Claims(w, k)
      /\ \A w \in Workers, k \in Mailboxes : Runs(w, k)' = Runs(w, k)
    BY DEF ReceiveDue, Claims, Runs
<1>5. LockInv'
    <2>1. ASSUME NEW w \in Workers, NEW k \in Mailboxes, Runs(w, k)
          PROVE  receivingMutex'[k] = w
        <3>1. receivingMutex[k] = w
            BY <2>1 DEF LockInv
        <3>2. k = m => w = t
            BY <1>1, <3>1
        <3> QED BY <1>2, <2>1, <3>1, <3>2
    <2>2. ASSUME NEW k \in Mailboxes, closer'[k] # NoOne
          PROVE  receivingMutex'[k] = closer'[k]
        BY <1>2, <2>2 DEF LockInv
    <2>3. ASSUME NEW u \in Threads, NEW k \in Mailboxes, call[u].pc = "pushing", call[u].mb = k
          PROVE  pushingMutex[k] = u /\ ~closed'[k]
        <3>1. pushingMutex[k] = u /\ ~closed[k]
            BY <2>3 DEF LockInv
        <3>2. k # m
            BY <3>1
        <3> QED BY <1>2, <3>1, <3>2
    <2> QED BY <1>4, <2>1, <2>2, <2>3 DEF LockInv
<1>6. SchedulerInv' /\ CallInv'
    BY <1>2, <1>4 DEF SchedulerInv, CallInv
<1>7. NoSpuriousWakeup'
    BY <1>2, <1>4 DEF NoSpuriousWakeup
<1>8. \A k \in Mailboxes \ {m} : Exists(k)' = Exists(k)
    BY <1>2 DEF Exists
<1>9. NoLostWakeup'
    BY <1>2, <1>4, <1>8 DEF NoLostWakeup
<1> QED BY <1>3, <1>5, <1>6, <1>7, <1>9

(* An object that does not close its mailbox dies, and the mailbox knows nothing of it. *)
LEMMA DestroyWithoutCloseIInv ==
    ASSUME IInv, NEW t \in Threads, NEW m \in Mailboxes, DestroyWithoutClose(t, m)
    PROVE  IInv'
<1> USE MailboxAssumption DEF IInv, DestroyWithoutClose
<1>1. /\ object \in [Mailboxes -> {"unborn", "alive", "dead"}] /\ object[m] = "alive"
      /\ object' \in [Mailboxes -> {"unborn", "alive", "dead"}] /\ object'[m] = "dead"
      /\ \A k \in Mailboxes \ {m} : object'[k] = object[k]
    BY DEF TypeOK
<1>2. TypeOK'
    BY <1>1 DEF TypeOK
<1>3. /\ \A k \in Mailboxes : ReceiveDue(k)' = ReceiveDue(k)
      /\ \A w \in Workers, k \in Mailboxes : Claims(w, k)' = Claims(w, k)
      /\ \A w \in Workers, k \in Mailboxes : Runs(w, k)' = Runs(w, k)
    BY DEF ReceiveDue, Claims, Runs
<1>4. LockInv'
    BY <1>3 DEF LockInv
<1>5. SchedulerInv' /\ CallInv'
    BY <1>1, <1>3 DEF SchedulerInv, CallInv
<1>6. NoSpuriousWakeup'
    BY <1>3 DEF NoSpuriousWakeup
<1>7. \A k \in Mailboxes : Exists(k)' => Exists(k)
    BY <1>1 DEF Exists
<1>8. NoLostWakeup'
    BY <1>3, <1>7 DEF NoLostWakeup
<1> QED BY <1>2, <1>4, <1>5, <1>6, <1>8

----------------------------------------------------------------------------
(* Every step preserves the invariant. *)
LEMMA NextIInv == IInv /\ [Next]_vars => IInv'
<1> SUFFICES ASSUME IInv, [Next]_vars PROVE IInv'
    OBVIOUS
<1>1. ASSUME NEW t \in Threads, CallStep(t) PROVE IInv'
    <2>1. CASE InvokeReturn(t)
        BY <2>1, InvokeReturnIInv
    <2>2. ASSUME NEW m \in Mailboxes, PushEnter(t, m) PROVE IInv'
        BY <2>2, PushEnterIInv
    <2>3. ASSUME NEW m \in Mailboxes, PushCommit(t, m) PROVE IInv'
        BY <2>3, PushCommitIInv
    <2> QED BY <1>1, <2>1, <2>2, <2>3 DEF CallStep
<1>2. ASSUME NEW w \in Workers, WorkerStep(w) PROVE IInv'
    <2>1. CASE TakeTask(w)
        BY <2>1, TakeTaskIInv
    <2>2. ASSUME NEW m \in Mailboxes, Receive(w, m) PROVE IInv'
        BY <2>2, ReceiveIInv
    <2>3. ASSUME NEW m \in Mailboxes, ReceiveReturn(w, m) PROVE IInv'
        BY <2>3, ReceiveReturnIInv
    <2> QED BY <1>2, <2>1, <2>2, <2>3 DEF WorkerStep
<1>3. ASSUME NEW t \in Threads, NEW m \in Mailboxes, Invoke(t, m) PROVE IInv'
    BY <1>3, InvokeIInv
<1>4. ASSUME NEW t \in Threads, NEW m \in Mailboxes, OwnerStep(t, m) PROVE IInv'
    <2>1. CASE Open(t, m)
        BY <2>1, OpenIInv
    <2>2. CASE CloseEnter(t, m)
        BY <2>2, CloseEnterIInv
    <2>3. CASE CloseCommit(t, m)
        BY <2>3, CloseCommitIInv
    <2>4. CASE DestroyWithoutClose(t, m)
        BY <2>4, DestroyWithoutCloseIInv
    <2> QED BY <1>4, <2>1, <2>2, <2>3, <2>4 DEF OwnerStep
<1>5. CASE UNCHANGED vars
    BY <1>5 DEF vars, mailboxVars, IInv, TypeOK, LockInv, SchedulerInv, CallInv, NoSpuriousWakeup,
                NoLostWakeup, ReceiveDue, Claims, Runs, Exists
<1> QED BY <1>1, <1>2, <1>3, <1>4, <1>5 DEF Next

(* The invariant holds in every behaviour. *)
LEMMA Invariance == Spec => []IInv
<1> QED BY InitIInv, NextIInv, PTL DEF Spec

----------------------------------------------------------------------------
(* The variables of the actor runtime have their types. *)
THEOREM Typed == Spec => []TypeOK
<1> QED BY Invariance, PTL DEF IInv

(* Mailbox::push, receive and open never leave an open mailbox with messages unscheduled. *)
THEOREM WakeupsAreNotLost == Spec => []NoLostWakeup
<1> QED BY Invariance, PTL DEF IInv

(* receive() never finds its mailbox empty (the assert in mailbox.cpp), and a mailbox is       *)
(* scheduled at most once at a time.                                                           *)
THEOREM WakeupsAreNotSpurious == Spec => []NoSpuriousWakeup
<1> QED BY Invariance, PTL DEF IInv

(* Two threads of the scheduler never execute messages of one mailbox at the same time. *)
THEOREM OneMessageAtATime == Spec => []NoConcurrencyWithinMailbox
<1>1. IInv => NoConcurrencyWithinMailbox
    BY DEF IInv, LockInv, NoConcurrencyWithinMailbox
<1> QED BY <1>1, Invariance, PTL

(* A closed mailbox accepts nothing, not even from a push() that was waiting. *)
THEOREM DeadActorsAcceptNothing == Spec => DeadAcceptsNothing
<1>1. ASSUME IInv, [Next]_vars, NEW m \in Mailboxes, closed[m] PROVE queue'[m] = queue[m]
    <2> USE DEF IInv
    <2>1. queue \in [Mailboxes -> Seq(Message)]
        BY <1>1 DEF TypeOK
    <2>2. ASSUME NEW t \in Threads, NEW k \in Mailboxes, PushCommit(t, k)
          PROVE  queue'[m] = queue[m]
        <3>1. k # m
            BY <1>1, <2>2 DEF LockInv, PushCommit
        <3> QED BY <2>1, <2>2, <3>1 DEF PushCommit
    <2>3. ASSUME NEW w \in Workers, NEW k \in Mailboxes, Receive(w, k)
          PROVE  queue'[m] = queue[m]
        BY <1>1, <2>1, <2>3 DEF Receive
    <2>4. CASE UNCHANGED queue
        BY <2>4
    <2>5. UNCHANGED queue \/ (\E t \in Threads, k \in Mailboxes : PushCommit(t, k))
            \/ (\E w \in Workers, k \in Mailboxes : Receive(w, k))
        BY <1>1 DEF Next, vars, mailboxVars, CallStep, WorkerStep, OwnerStep, InvokeReturn,
                    PushEnter, TakeTask, ReceiveReturn, Invoke, Open, CloseEnter, CloseCommit,
                    DestroyWithoutClose
    <2> QED BY <2>2, <2>3, <2>4, <2>5
<1>2. IInv /\ [Next]_vars => [\A m \in Mailboxes : closed[m] => queue'[m] = queue[m]]_vars
    BY <1>1
<1> QED BY <1>2, Invariance, PTL DEF Spec, DeadAcceptsNothing

(* A mailbox gets its scheduler when its object is constructed, only a living object is being  *)
(* closed, and what is dead is closed, if its destructor does that.                             *)
ObjectInv ==
    /\ \A m \in Mailboxes : scheduler[m] <=> object[m] # "unborn"
    /\ \A m \in Mailboxes : closer[m] # NoOne => object[m] = "alive" /\ m \in Closing
    /\ \A m \in Mailboxes : closed[m] => object[m] = "dead"
    /\ \A m \in Closing : object[m] = "dead" => closed[m]

LEMMA ObjectInvariance == Spec => []ObjectInv
<1> USE MailboxAssumption
<1>1. ASSUME Init PROVE ObjectInv
    <2>1. \A m \in Mailboxes : /\ scheduler[m] <=> m \notin Holding
                              /\ object[m] = IF m \in Holding THEN "unborn" ELSE "alive"
        BY <1>1 DEF Init
    <2>2. \A m \in Mailboxes : closed[m] = FALSE /\ closer[m] = NoOne
        BY <1>1 DEF Init
    <2>3. \A m \in Mailboxes : object[m] # "dead" /\ (object[m] = "unborn" <=> m \in Holding)
        BY <2>1
    <2> QED BY <2>1, <2>2, <2>3 DEF ObjectInv
<1>2. ASSUME TypeOK, ObjectInv, [Next]_vars PROVE ObjectInv'
    <2>1. /\ object \in [Mailboxes -> {"unborn", "alive", "dead"}]
          /\ scheduler \in [Mailboxes -> BOOLEAN] /\ closed \in [Mailboxes -> BOOLEAN]
          /\ closer \in [Mailboxes -> Threads \cup {NoOne}]
        BY <1>2 DEF TypeOK
    <2>2. ASSUME NEW t \in Threads, NEW m \in Mailboxes, OwnerStep(t, m) PROVE ObjectInv'
        <3>1. t # NoOne
            OBVIOUS
        <3>2. CASE Open(t, m)
            BY <1>2, <2>1, <3>2 DEF ObjectInv, Open
        <3>3. CASE CloseEnter(t, m)
            BY <1>2, <2>1, <3>3 DEF ObjectInv, CloseEnter
        <3>4. CASE CloseCommit(t, m)
            BY <1>2, <2>1, <3>1, <3>4 DEF ObjectInv, CloseCommit
        <3>5. CASE DestroyWithoutClose(t, m)
            BY <1>2, <2>1, <3>5 DEF ObjectInv, DestroyWithoutClose
        <3> QED BY <2>2, <3>2, <3>3, <3>4, <3>5 DEF OwnerStep
    <2>3. CASE UNCHANGED <<object, scheduler, closed, closer>>
        BY <1>2, <2>3 DEF ObjectInv
    <2>4. UNCHANGED <<object, scheduler, closed, closer>>
            \/ (\E t \in Threads, m \in Mailboxes : OwnerStep(t, m))
        BY <1>2 DEF Next, vars, mailboxVars, CallStep, WorkerStep, InvokeReturn, PushEnter,
                    PushCommit, TakeTask, Receive, ReceiveReturn, Invoke
    <2> QED BY <2>2, <2>3, <2>4
<1> QED BY <1>1, <1>2, Typed, PTL DEF Spec

(* When its destructor closes the mailbox, a handler only starts on an object that is          *)
(* constructed and not yet destroyed: the promise of actor_ref.hpp.                             *)
THEOREM HandlersRunOnLiveObjects == Spec => DeliveredToLiveObject
<1> USE MailboxAssumption
<1>1. ASSUME IInv, ObjectInv, [Next]_vars,
             NEW w \in Workers, NEW m \in Closing, Runs(w, m)', ~Runs(w, m)
      PROVE  object[m] = "alive"
    <2>1. Receive(w, m) /\ ~closed[m]
        <3>1. worker'[w] # worker[w]
            BY <1>1 DEF Runs
        <3>2. worker \in [Workers -> WorkerState]
            BY <1>1 DEF IInv, TypeOK
        <3>3. \E v \in Workers : WorkerStep(v)
            BY <1>1, <3>1 DEF Next, vars, mailboxVars, CallStep, OwnerStep, InvokeReturn, PushEnter,
                       PushCommit, Invoke, Open, CloseEnter, CloseCommit, DestroyWithoutClose
        <3>4. PICK v \in Workers : WorkerStep(v)
            BY <3>3
        <3>5. ~TakeTask(v)
            BY <1>1, <3>2 DEF TakeTask, Runs
        <3>6. ASSUME NEW k \in Mailboxes, ReceiveReturn(v, k) PROVE FALSE
            BY <1>1, <3>2, <3>6 DEF ReceiveReturn, Runs, IdleWorker
        <3>7. PICK k \in Mailboxes : Receive(v, k)
            BY <3>4, <3>5, <3>6 DEF WorkerStep
        <3>8. v = w
            BY <3>1, <3>2, <3>7 DEF Receive
        <3>9. ~closed[k]
            BY <1>1, <3>2, <3>7, <3>8 DEF Receive, Runs, IdleWorker
        <3>10. k = m
            BY <1>1, <3>2, <3>7, <3>8, <3>9 DEF Receive, Runs
        <3> QED BY <3>7, <3>8, <3>9, <3>10
    <2>2. ReceiveDue(m)
        BY <2>1 DEF Receive, ReceiveDue, Claims
    <2>3. object \in [Mailboxes -> {"unborn", "alive", "dead"}]
        BY <1>1 DEF IInv, TypeOK
    <2> QED BY <1>1, <2>1, <2>2, <2>3 DEF IInv, SchedulerInv, ObjectInv
<1>2. IInv /\ ObjectInv /\ [Next]_vars =>
        [\A w \in Workers, m \in Closing : Runs(w, m)' /\ ~Runs(w, m) => object[m] = "alive"]_vars
    BY <1>1
<1> QED BY <1>2, Invariance, ObjectInvariance, PTL DEF Spec, DeliveredToLiveObject

(* When its destructor closes the mailbox, an object never dies under a handler that another   *)
(* thread is executing.                                                                         *)
THEOREM DestructorsWait == Spec => DestructorWaitsForHandler
<1> USE MailboxAssumption
<1>1. ASSUME IInv, [Next]_vars, NEW w \in Workers, NEW m \in Closing,
             object[m] = "alive", object'[m] = "dead", Runs(w, m)
      PROVE  closer[m] = w
    <2>1. object \in [Mailboxes -> {"unborn", "alive", "dead"}]
        BY <1>1 DEF IInv, TypeOK
    <2>2. PICK t \in Threads, k \in Mailboxes : OwnerStep(t, k)
        BY <1>1 DEF Next, vars, mailboxVars, CallStep, WorkerStep, InvokeReturn, PushEnter,
                    PushCommit, TakeTask, Receive, ReceiveReturn, Invoke
    <2>3. CloseCommit(t, k) /\ k = m
        BY <1>1, <2>1, <2>2 DEF OwnerStep, Open, CloseEnter, CloseCommit, DestroyWithoutClose
    <2>4. closer[m] = t /\ t # NoOne
        BY <2>3, MailboxAssumption DEF CloseCommit
    <2> QED BY <1>1, <2>4 DEF IInv, LockInv
<1>2. IInv /\ [Next]_vars =>
        [\A w \in Workers, m \in Closing :
           object[m] = "alive" /\ object'[m] = "dead" /\ Runs(w, m) => closer[m] = w]_vars
    BY <1>1
<1> QED BY <1>2, Invariance, PTL DEF Spec, DestructorWaitsForHandler

----------------------------------------------------------------------------
(***************************************************************************)
(* Mailboxes implement the abstract channel, and messages are processed in  *)
(* the order sent.                                                          *)
(***************************************************************************)
(* RunnerOf, which looks at the receiving mutex, names the worker that executes a message. *)
RunnerIsWorker ==
    \A m \in Mailboxes :
        /\ \A w \in Workers : Runs(w, m) => RunnerOf(m) = w
        /\ (\A w \in Workers : ~Runs(w, m)) => RunnerOf(m) = NoOne

LEMMA RunnerLemma == LockInv => RunnerIsWorker
BY DEF LockInv, RunnerIsWorker, RunnerOf, Runs

LEMMA RunnerLemmaNext == LockInv' => RunnerIsWorker'
BY RunnerLemma, PTL

(* Who runs what decides the abstract runner: the mutexes may change hands without it. *)
LEMMA SameRunner ==
    ASSUME LockInv, LockInv', NEW m \in Mailboxes,
           \A w \in Workers : Runs(w, m)' <=> Runs(w, m)
    PROVE  RunnerOf(m)' = RunnerOf(m)
<1>1. CASE \E w \in Workers : Runs(w, m)
    BY <1>1, RunnerLemma, RunnerLemmaNext DEF RunnerIsWorker
<1>2. CASE \A w \in Workers : ~Runs(w, m)
    BY <1>2, RunnerLemma, RunnerLemmaNext DEF RunnerIsWorker
<1> QED BY <1>1, <1>2

----------------------------------------------------------------------------
(* The initial states are those of the channel. *)
LEMMA ChannelInit == Init => Channel!ChInit
<1> USE MailboxAssumption
<1> SUFFICES ASSUME Init PROVE Channel!ChInit
    OBVIOUS
<1>1. ASSUME NEW m \in Closing
      PROVE  /\ PhaseOf(m) = IF m \in Holding \cap Closing THEN "holding" ELSE "open"
             /\ queue[m] = <<>>
             /\ RunnerOf(m) = NoOne
    BY DEF Init, PhaseOf, RunnerOf, Runs
<1> QED BY <1>1 DEF Channel!ChInit

(* A step that neither sends, starts or ends a handler, opens nor closes. *)
LEMMA ChannelStutter ==
    ASSUME LockInv, LockInv', UNCHANGED <<queue, scheduler, closed>>,
           \A w \in Workers, m \in Mailboxes : Runs(w, m)' <=> Runs(w, m)
    PROVE  UNCHANGED Channel!chVars
<1> USE MailboxAssumption
<1>1. \A m \in Closing : RunnerOf(m)' = RunnerOf(m) /\ PhaseOf(m)' = PhaseOf(m)
    BY SameRunner DEF PhaseOf
<1> QED BY <1>1 DEF Channel!chVars

(* push() of a message that is accepted is Send, unless the mailbox is none of the channel's. *)
LEMMA ChannelSend ==
    ASSUME IInv, IInv', NEW t \in Threads, NEW m \in Mailboxes, PushCommit(t, m)
    PROVE  [Channel!ChNext]_(Channel!chVars)
<1> USE MailboxAssumption
<1>1. queue \in [Mailboxes -> Seq(Message)] /\ call \in [Threads -> CallState]
    BY DEF IInv, TypeOK
<1>2. ~closed[m]
    BY DEF IInv, LockInv, PushCommit
<1>3. [from |-> t, n |-> sent[t]] \in Message
    BY DEF IInv, TypeOK, CallInv, PushCommit, Message
<1>4. PICK x \in Message :
        queue' = [queue EXCEPT ![m] = Append(@, x)] /\ UNCHANGED <<scheduler, closed>>
    BY <1>3 DEF PushCommit
<1>5. \A w \in Workers, k \in Mailboxes : Runs(w, k)' <=> Runs(w, k)
    BY DEF PushCommit, Runs
<1>6. \A k \in Closing : RunnerOf(k)' = RunnerOf(k) /\ PhaseOf(k)' = PhaseOf(k)
    BY <1>4, <1>5, SameRunner DEF PhaseOf, IInv
<1>7. CASE m \in Closing
    <2>1. PhaseOf(m) # "gone"
        BY <1>2 DEF PhaseOf
    <2>2. Channel!Send(m, x)
        BY <1>1, <1>4, <1>6, <1>7, <2>1 DEF Channel!Send
    <2> QED BY <1>7, <2>2 DEF Channel!ChNext
<1>8. CASE m \notin Closing
    <2>1. \A k \in Closing : queue'[k] = queue[k]
        BY <1>1, <1>4, <1>8
    <2> QED BY <1>6, <2>1 DEF Channel!chVars
<1> QED BY <1>7, <1>8

(* receive() of an open mailbox is Begin: it has a scheduler and a message, and nobody runs it. *)
LEMMA ChannelBegin ==
    ASSUME IInv, IInv', NEW w \in Workers, NEW m \in Mailboxes, Receive(w, m), ~closed[m]
    PROVE  [Channel!ChNext]_(Channel!chVars)
<1> USE MailboxAssumption
<1>1. /\ queue \in [Mailboxes -> Seq(Message)] /\ worker \in [Workers -> WorkerState]
      /\ w \in Threads
    BY DEF IInv, TypeOK, Threads
<1>2. queue[m] # <<>> /\ scheduler[m]
    BY DEF IInv, NoSpuriousWakeup, SchedulerInv, Receive, ReceiveDue, Claims
<1>3. queue' = [queue EXCEPT ![m] = Tail(@)] /\ UNCHANGED <<scheduler, closed>>
    BY DEF Receive
<1>4. Runs(w, m)' /\ \A v \in Workers : ~Runs(v, m)
    BY <1>1 DEF IInv, LockInv, Receive, Runs
<1>5. \A v \in Workers, k \in Mailboxes : k # m => (Runs(v, k)' <=> Runs(v, k))
    <2> SUFFICES ASSUME NEW v \in Workers, NEW k \in Mailboxes, k # m
                 PROVE  Runs(v, k)' <=> Runs(v, k)
        OBVIOUS
    <2>1. v # w => worker'[v] = worker[v]
        BY <1>1 DEF Receive
    <2>2. worker[w].mb = m /\ worker'[w].mb = m
        BY <1>1 DEF Receive
    <2> QED BY <2>1, <2>2 DEF Runs
<1>6. \A k \in Closing : k # m => RunnerOf(k)' = RunnerOf(k)
    BY <1>5, SameRunner DEF IInv
<1>7. RunnerOf(m) = NoOne /\ RunnerOf(m)' = w
    BY <1>4, RunnerLemma, RunnerLemmaNext DEF RunnerIsWorker, IInv
<1>8. \A k \in Closing : PhaseOf(k)' = PhaseOf(k)
    BY <1>3 DEF PhaseOf
<1>9. CASE m \in Closing
    <2>1. PhaseOf(m) = "open"
        BY <1>2 DEF PhaseOf
    <2>2. Channel!Begin(m, w)
        BY <1>1, <1>2, <1>3, <1>6, <1>7, <1>8, <1>9, <2>1 DEF Channel!Begin
    <2> QED BY <1>1, <1>9, <2>2 DEF Channel!ChNext
<1>10. CASE m \notin Closing
    <2>1. \A k \in Closing : queue'[k] = queue[k]
        BY <1>1, <1>3, <1>10
    <2> QED BY <1>6, <1>8, <1>10, <2>1 DEF Channel!chVars
<1> QED BY <1>9, <1>10

(* The return of a handler is End. *)
LEMMA ChannelEnd ==
    ASSUME IInv, IInv', NEW w \in Workers, NEW m \in Mailboxes, ReceiveReturn(w, m)
    PROVE  [Channel!ChNext]_(Channel!chVars)
<1> USE MailboxAssumption
<1>1. worker \in [Workers -> WorkerState] /\ w \in Threads /\ w # NoOne
    BY DEF IInv, TypeOK, Threads
<1>2. Runs(w, m) /\ \A v \in Workers : ~Runs(v, m)'
    BY <1>1 DEF IInv, LockInv, ReceiveReturn, Runs, IdleWorker
<1>3. \A v \in Workers, k \in Mailboxes : k # m => (Runs(v, k)' <=> Runs(v, k))
    BY <1>1 DEF ReceiveReturn, Runs, IdleWorker
<1>4. \A k \in Closing : k # m => RunnerOf(k)' = RunnerOf(k)
    BY <1>3, SameRunner DEF IInv
<1>5. RunnerOf(m) = w /\ RunnerOf(m)' = NoOne
    BY <1>2, RunnerLemma, RunnerLemmaNext DEF RunnerIsWorker, IInv
<1>6. \A k \in Closing : PhaseOf(k)' = PhaseOf(k) /\ queue'[k] = queue[k]
    BY DEF ReceiveReturn, PhaseOf
<1>7. CASE m \in Closing
    <2>1. Channel!End(m, w)
        BY <1>1, <1>4, <1>5, <1>6, <1>7 DEF Channel!End
    <2> QED BY <1>1, <1>7, <2>1 DEF Channel!ChNext
<1>8. CASE m \notin Closing
    BY <1>4, <1>6, <1>8 DEF Channel!chVars
<1> QED BY <1>7, <1>8

(* open() is Establish. *)
LEMMA ChannelEstablish ==
    ASSUME IInv, IInv', ObjectInv, NEW t \in Threads, NEW m \in Mailboxes, Open(t, m)
    PROVE  [Channel!ChNext]_(Channel!chVars)
<1> USE MailboxAssumption
<1>1. scheduler \in [Mailboxes -> BOOLEAN]
    BY DEF IInv, TypeOK
<1>2. ~scheduler[m] /\ ~closed[m]
    BY DEF ObjectInv, Open
<1>3. scheduler' = [scheduler EXCEPT ![m] = TRUE] /\ UNCHANGED <<queue, closed, worker>>
    BY DEF Open
<1>4. \A w \in Workers, k \in Mailboxes : Runs(w, k)' <=> Runs(w, k)
    BY <1>3 DEF Runs
<1>5. \A k \in Closing : RunnerOf(k)' = RunnerOf(k)
    BY <1>4, SameRunner DEF IInv
<1>6. \A k \in Closing : k # m => PhaseOf(k)' = PhaseOf(k)
    BY <1>1, <1>3 DEF PhaseOf
<1>7. PhaseOf(m) = "holding" /\ PhaseOf(m)' = "open"
    BY <1>1, <1>2, <1>3 DEF PhaseOf
<1>8. CASE m \in Closing
    <2>1. Channel!Establish(m)
        BY <1>3, <1>5, <1>6, <1>7, <1>8 DEF Channel!Establish
    <2> QED BY <1>8, <2>1 DEF Channel!ChNext
<1>9. CASE m \notin Closing
    BY <1>3, <1>5, <1>6, <1>9 DEF Channel!chVars
<1> QED BY <1>8, <1>9

(* The end of close() is Destroy: the closer has the receiving mutex, so it runs the handler  *)
(* being executed, or nobody does.                                                             *)
LEMMA ChannelDestroy ==
    ASSUME IInv, IInv', ObjectInv, NEW t \in Threads, NEW m \in Mailboxes, CloseCommit(t, m)
    PROVE  [Channel!ChNext]_(Channel!chVars)
<1> USE MailboxAssumption
<1>1. closed \in [Mailboxes -> BOOLEAN]
    BY DEF IInv, TypeOK
<1>2. closer[m] = t /\ t # NoOne /\ receivingMutex[m] = t
    BY DEF CloseCommit, IInv, LockInv
<1>3. m \in Closing /\ scheduler[m] /\ ~closed[m]
    BY <1>2 DEF ObjectInv
<1>4. closed' = [closed EXCEPT ![m] = TRUE] /\ UNCHANGED <<queue, scheduler, worker>>
    BY DEF CloseCommit
<1>5. \A w \in Workers, k \in Mailboxes : Runs(w, k)' <=> Runs(w, k)
    BY <1>4 DEF Runs
<1>6. \A k \in Closing : RunnerOf(k)' = RunnerOf(k)
    BY <1>5, SameRunner DEF IInv
<1>7. RunnerOf(m) \in {NoOne, t}
    BY <1>2 DEF RunnerOf
<1>8. \A k \in Closing : k # m => PhaseOf(k)' = PhaseOf(k)
    BY <1>1, <1>4 DEF PhaseOf
<1>9. PhaseOf(m) = "open" /\ PhaseOf(m)' = "gone"
    BY <1>1, <1>3, <1>4 DEF PhaseOf
<1>10. Channel!Destroy(m, t)
    BY <1>3, <1>4, <1>6, <1>7, <1>8, <1>9 DEF Channel!Destroy
<1> QED BY <1>3, <1>10 DEF Channel!ChNext

(* Every step is a step of the channel or changes nothing of it. *)
LEMMA ChannelStep == IInv /\ IInv' /\ ObjectInv /\ [Next]_vars => [Channel!ChNext]_(Channel!chVars)
<1> SUFFICES ASSUME IInv, IInv', ObjectInv, [Next]_vars
             PROVE  [Channel!ChNext]_(Channel!chVars)
    OBVIOUS
<1>0. /\ worker \in [Workers -> WorkerState]
      /\ LockInv /\ LockInv'
    BY DEF IInv, TypeOK
<1>1. ASSUME UNCHANGED <<queue, scheduler, closed>>,
             \A w \in Workers, m \in Mailboxes : Runs(w, m)' <=> Runs(w, m)
      PROVE  [Channel!ChNext]_(Channel!chVars)
    BY <1>0, <1>1, ChannelStutter
<1>2. ASSUME UNCHANGED <<queue, scheduler, closed, worker>>
      PROVE  [Channel!ChNext]_(Channel!chVars)
    BY <1>1, <1>2 DEF Runs
<1>3. ASSUME NEW t \in Threads, CallStep(t) PROVE [Channel!ChNext]_(Channel!chVars)
    BY <1>2, <1>3, ChannelSend DEF CallStep, InvokeReturn, PushEnter, mailboxVars
<1>4. ASSUME NEW w \in Workers, WorkerStep(w) PROVE [Channel!ChNext]_(Channel!chVars)
    <2>1. CASE TakeTask(w)
        <3>1. UNCHANGED <<queue, scheduler, closed>>
            BY <2>1 DEF TakeTask, mailboxVars
        <3>2. \A v \in Workers, m \in Mailboxes : Runs(v, m)' <=> Runs(v, m)
            BY <1>0, <2>1 DEF TakeTask, Runs
        <3> QED BY <1>1, <3>1, <3>2
    <2>2. ASSUME NEW m \in Mailboxes, Receive(w, m) PROVE [Channel!ChNext]_(Channel!chVars)
        <3>1. CASE closed[m]
            <4>1. UNCHANGED <<queue, scheduler, closed>>
                BY <2>2, <3>1 DEF Receive
            <4>2. \A v \in Workers, k \in Mailboxes : Runs(v, k)' <=> Runs(v, k)
                BY <1>0, <2>2, <3>1 DEF Receive, Runs, IdleWorker
            <4> QED BY <1>1, <4>1, <4>2
        <3>2. CASE ~closed[m]
            BY <2>2, <3>2, ChannelBegin
        <3> QED BY <3>1, <3>2
    <2>3. ASSUME NEW m \in Mailboxes, ReceiveReturn(w, m) PROVE [Channel!ChNext]_(Channel!chVars)
        BY <2>3, ChannelEnd
    <2> QED BY <1>4, <2>1, <2>2, <2>3 DEF WorkerStep
<1>5. ASSUME NEW t \in Threads, NEW m \in Mailboxes, Invoke(t, m)
      PROVE  [Channel!ChNext]_(Channel!chVars)
    BY <1>2, <1>5 DEF Invoke, mailboxVars
<1>6. ASSUME NEW t \in Threads, NEW m \in Mailboxes, OwnerStep(t, m)
      PROVE  [Channel!ChNext]_(Channel!chVars)
    <2>1. CASE Open(t, m)
        BY <2>1, ChannelEstablish
    <2>2. CASE CloseEnter(t, m)
        BY <1>2, <2>2 DEF CloseEnter
    <2>3. CASE CloseCommit(t, m)
        BY <2>3, ChannelDestroy
    <2>4. CASE DestroyWithoutClose(t, m)
        BY <1>2, <2>4 DEF DestroyWithoutClose
    <2> QED BY <1>6, <2>1, <2>2, <2>3, <2>4 DEF OwnerStep
<1>7. CASE UNCHANGED vars
    BY <1>2, <1>7 DEF vars, mailboxVars
<1> QED BY <1>3, <1>4, <1>5, <1>6, <1>7 DEF Next

(* A mailbox that its object closes is the channel the actor documentation promises: it holds  *)
(* messages until open(), hands them out one at a time, and takes and gives none after close(). *)
THEOREM MailboxesImplementChannels == Spec => ImplementsChannel
<1> QED BY ChannelInit, ChannelStep, Invariance, ObjectInvariance, PTL
        DEF Spec, ImplementsChannel, Channel!ChSpec

----------------------------------------------------------------------------
(***************************************************************************)
(* Order.  A thread numbers its messages; what it has already pushed is     *)
(* older than the one it is about to push.                                  *)
(***************************************************************************)
Pushed(x) ==
    /\ x.n <= sent[x.from]
    /\ call[x.from].pc \in {"referenced", "pushing"} => x.n < sent[x.from]

RunningIsMessage == \A w \in Workers : worker[w].pc = "running" => worker[w].msg \in Message

OldIsPushed ==
    /\ \A m \in Mailboxes : \A i \in 1..Len(queue[m]) : Pushed(queue[m][i])
    /\ \A w \in Workers : worker[w].pc = "running" => Pushed(worker[w].msg)

OrderInv == RunningIsMessage /\ OldIsPushed /\ ProcessedInOrderSent

(* Nothing has been sent. *)
LEMMA OrderInit == Init => OrderInv
BY MailboxAssumption DEF Init, OrderInv, RunningIsMessage, OldIsPushed, ProcessedInOrderSent, Runs,
                         IdleWorker

(* A step that leaves the mailboxes and the handlers alone, and after which what was pushed is *)
(* still older than what its sender is about to push.                                           *)
LEMMA OrderKept ==
    ASSUME OrderInv, UNCHANGED <<queue, worker>>, TypeOK,
           \A x \in Message : Pushed(x) => Pushed(x)'
    PROVE  OrderInv'
<1>1. \A m \in Mailboxes : \A i \in 1..Len(queue[m]) : queue[m][i] \in Message
    BY DEF TypeOK
<1>2. RunningIsMessage' /\ ProcessedInOrderSent'
    BY DEF OrderInv, RunningIsMessage, ProcessedInOrderSent, Runs
<1>3. OldIsPushed'
    BY <1>1 DEF OrderInv, OldIsPushed, RunningIsMessage
<1> QED BY <1>2, <1>3 DEF OrderInv

(* invoke() numbers its message above all that its thread has sent before. *)
LEMMA OrderInvoke ==
    ASSUME OrderInv, TypeOK, NEW t \in Threads, NEW m \in Mailboxes, Invoke(t, m)
    PROVE  OrderInv'
<1>1. /\ sent \in [Threads -> 0..MaxSends] /\ call \in [Threads -> CallState]
      /\ call[t].pc = "none"
    BY DEF TypeOK, Invoke, MayAct
<1>2. ASSUME NEW x \in Message, Pushed(x) PROVE Pushed(x)'
    <2>1. x.from \in Threads /\ x.n \in Nat
        BY DEF Message
    <2>2. CASE x.from = t
        BY <1>1, <1>2, <2>1, <2>2, MailboxAssumption DEF Pushed, Invoke
    <2>3. CASE x.from # t
        BY <1>1, <1>2, <2>1, <2>3 DEF Pushed, Invoke
    <2> QED BY <2>2, <2>3
<1>3. UNCHANGED <<queue, worker>>
    BY DEF Invoke, mailboxVars
<1> QED BY <1>2, <1>3, OrderKept

(* push() gets its mutex, or gives up. *)
LEMMA OrderPushEnter ==
    ASSUME OrderInv, TypeOK, NEW t \in Threads, NEW m \in Mailboxes, PushEnter(t, m)
    PROVE  OrderInv'
<1>1. call \in [Threads -> CallState] /\ call[t].pc = "referenced"
    BY DEF TypeOK, PushEnter
<1>2. ASSUME NEW x \in Message, Pushed(x) PROVE Pushed(x)'
    <2>1. x.from \in Threads /\ x.n \in Nat
        BY DEF Message
    <2>2. /\ sent' = sent
          /\ \A u \in Threads : call'[u].pc \in {"referenced", "pushing"} =>
                                call[u].pc \in {"referenced", "pushing"}
        BY <1>1 DEF PushEnter
    <2> QED BY <1>2, <2>1, <2>2 DEF Pushed
<1>3. UNCHANGED <<queue, worker>>
    BY DEF PushEnter
<1> QED BY <1>2, <1>3, OrderKept

(* invoke() returns. *)
LEMMA OrderInvokeReturn ==
    ASSUME OrderInv, TypeOK, NEW t \in Threads, InvokeReturn(t)
    PROVE  OrderInv'
<1>1. call \in [Threads -> CallState]
    BY DEF TypeOK
<1>2. ASSUME NEW x \in Message, Pushed(x) PROVE Pushed(x)'
    <2>1. x.from \in Threads /\ x.n \in Nat
        BY DEF Message
    <2>2. /\ sent' = sent
          /\ \A u \in Threads : call'[u].pc \in {"referenced", "pushing"} =>
                                call[u].pc \in {"referenced", "pushing"}
        BY <1>1 DEF InvokeReturn, NoCall
    <2> QED BY <1>2, <2>1, <2>2 DEF Pushed
<1>3. UNCHANGED <<queue, worker>>
    BY DEF InvokeReturn, mailboxVars
<1> QED BY <1>2, <1>3, OrderKept

(* The message goes behind all that its thread has sent before, and those are older. *)
LEMMA OrderPushCommit ==
    ASSUME OrderInv, IInv, NEW t \in Threads, NEW m \in Mailboxes, PushCommit(t, m)
    PROVE  OrderInv'
<1>1. /\ queue \in [Mailboxes -> Seq(Message)] /\ call \in [Threads -> CallState]
      /\ sent' = sent /\ worker' = worker
      /\ call[t].pc = "pushing"
    BY DEF IInv, TypeOK, PushCommit
<1>2. PICK x \in Message : x.from = t /\ x.n = sent[t] /\ queue' = [queue EXCEPT ![m] = Append(@, x)]
    <2>1. [from |-> t, n |-> sent[t]] \in Message
        BY DEF IInv, TypeOK, CallInv, PushCommit, Message
    <2> QED BY <2>1 DEF PushCommit
<1>3. /\ Len(queue'[m]) = Len(queue[m]) + 1 /\ Len(queue[m]) \in Nat
      /\ queue'[m][Len(queue[m]) + 1] = x
      /\ \A i \in 1..Len(queue[m]) : queue'[m][i] = queue[m][i] /\ queue[m][i] \in Message
      /\ \A k \in Mailboxes : k # m => queue'[k] = queue[k]
    BY <1>1, <1>2
<1>4. ASSUME NEW y \in Message, Pushed(y)
      PROVE  Pushed(y)' /\ (y.from = t => y.n < x.n)
    <2>1. y.from \in Threads /\ y.n \in Nat
        BY DEF Message
    <2>2. /\ call'[t].pc = "leaving"
          /\ \A u \in Threads : u # t => call'[u] = call[u]
        BY <1>1 DEF PushCommit
    <2> QED BY <1>1, <1>2, <1>4, <2>1, <2>2 DEF Pushed
<1>5. Pushed(x)'
    <2>1. call'[t].pc = "leaving" /\ sent[t] \in Nat
        BY <1>1 DEF PushCommit, IInv, TypeOK
    <2> QED BY <1>1, <1>2, <2>1 DEF Pushed
<1>6. \A k \in Mailboxes : \A i \in 1..Len(queue[k]) : queue[k][i] \in Message
    BY <1>1
<1>7. OldIsPushed'
    <2>1. ASSUME NEW k \in Mailboxes, NEW i \in 1..Len(queue'[k]) PROVE Pushed(queue[k][i])'
        <3>1. CASE k = m
            BY <1>3, <1>4, <1>5, <2>1, <3>1 DEF OrderInv, OldIsPushed
        <3>2. CASE k # m
            BY <1>3, <1>4, <1>6, <2>1, <3>2 DEF OrderInv, OldIsPushed
        <3> QED BY <3>1, <3>2
    <2>2. ASSUME NEW w \in Workers, worker[w].pc = "running" PROVE Pushed(worker[w].msg)'
        BY <1>1, <1>4, <2>2 DEF OrderInv, OldIsPushed, RunningIsMessage
    <2> QED BY <1>1, <2>1, <2>2 DEF OldIsPushed
<1>8. ProcessedInOrderSent'
    <2>1. ASSUME NEW k \in Mailboxes, NEW i \in 1..Len(queue'[k]), NEW j \in 1..Len(queue'[k]),
                 i < j, queue'[k][i].from = queue'[k][j].from
          PROVE  queue'[k][i].n < queue'[k][j].n
        <3>1. CASE k # m \/ j # Len(queue[m]) + 1
            <4>1. /\ i \in 1..Len(queue[k]) /\ j \in 1..Len(queue[k])
                  /\ queue'[k][i] = queue[k][i] /\ queue'[k][j] = queue[k][j]
                BY <1>3, <2>1, <3>1, SMTT(30)
            <4> QED BY <2>1, <4>1 DEF OrderInv, ProcessedInOrderSent
        <3>2. CASE k = m /\ j = Len(queue[m]) + 1
            <4>1. i \in 1..Len(queue[m]) /\ queue'[m][i] = queue[m][i] /\ queue'[m][j] = x
                BY <1>3, <2>1, <3>2
            <4>2. Pushed(queue[m][i]) /\ queue[m][i] \in Message
                BY <1>6, <4>1 DEF OrderInv, OldIsPushed
            <4> QED BY <1>2, <1>4, <2>1, <3>2, <4>1, <4>2
        <3> QED BY <3>1, <3>2
    <2>2. ASSUME NEW k \in Mailboxes, NEW w \in Workers, Runs(w, k),
                 NEW i \in 1..Len(queue'[k]), queue'[k][i].from = worker[w].msg.from
          PROVE  worker[w].msg.n < queue'[k][i].n
        <3>1. CASE k # m \/ i # Len(queue[m]) + 1
            BY <1>3, <2>2, <3>1 DEF OrderInv, ProcessedInOrderSent
        <3>2. CASE k = m /\ i = Len(queue[m]) + 1
            <4>1. Pushed(worker[w].msg) /\ worker[w].msg \in Message
                BY <2>2 DEF OrderInv, OldIsPushed, RunningIsMessage, Runs
            <4> QED BY <1>2, <1>3, <1>4, <2>2, <3>2, <4>1
        <3> QED BY <3>1, <3>2
    <2>3. \A w \in Workers, k \in Mailboxes : Runs(w, k)' <=> Runs(w, k)
        BY <1>1 DEF Runs
    <2> QED BY <1>1, <2>1, <2>2, <2>3 DEF ProcessedInOrderSent
<1>9. RunningIsMessage'
    BY <1>1 DEF OrderInv, RunningIsMessage
<1> QED BY <1>7, <1>8, <1>9 DEF OrderInv

(* The handler gets the oldest message: the others of its thread in the queue are younger. *)
LEMMA OrderReceive ==
    ASSUME OrderInv, IInv, NEW w \in Workers, NEW m \in Mailboxes, Receive(w, m), ~closed[m]
    PROVE  OrderInv'
<1>1. /\ queue \in [Mailboxes -> Seq(Message)] /\ worker \in [Workers -> WorkerState]
      /\ UNCHANGED <<sent, call>>
    BY DEF IInv, TypeOK, Receive
<1>2. queue[m] # <<>>
    BY DEF IInv, NoSpuriousWakeup, Receive, ReceiveDue, Claims
<1>3. queue[m] \in Seq(Message) /\ queue'[m] = Tail(queue[m]) /\ queue[m] # <<>>
    BY <1>1, <1>2 DEF Receive
<1>4. /\ Len(queue[m]) \in Nat \ {0} /\ Len(queue'[m]) = Len(queue[m]) - 1
      /\ \A i \in 1..Len(queue'[m]) : queue'[m][i] = queue[m][i + 1]
      /\ Head(queue[m]) = queue[m][1] /\ queue[m][1] \in Message
    BY <1>3
<1>5. \A k \in Mailboxes : k # m => queue'[k] = queue[k]
    BY <1>1 DEF Receive
<1>6. /\ worker'[w].pc = "running" /\ worker'[w].mb = m /\ worker'[w].msg = queue[m][1]
      /\ \A v \in Workers : v # w => worker'[v] = worker[v]
    BY <1>1, <1>4 DEF Receive
<1>7. \A x : Pushed(x) => Pushed(x)'
    BY <1>1 DEF Pushed
<1>8. RunningIsMessage'
    BY <1>4, <1>6 DEF OrderInv, RunningIsMessage
<1>9. OldIsPushed'
    <2>1. ASSUME NEW k \in Mailboxes, NEW i \in 1..Len(queue'[k]) PROVE Pushed(queue'[k][i])
        <3>1. CASE k = m
            <4>1. i + 1 \in 1..Len(queue[m]) /\ queue'[k][i] = queue[m][i + 1]
                BY <1>4, <2>1, <3>1
            <4> QED BY <4>1 DEF OrderInv, OldIsPushed
        <3>2. CASE k # m
            BY <1>5, <2>1, <3>2 DEF OrderInv, OldIsPushed
        <3> QED BY <3>1, <3>2
    <2>2. ASSUME NEW v \in Workers, worker'[v].pc = "running" PROVE Pushed(worker'[v].msg)
        <3>1. CASE v = w
            BY <1>4, <1>6, <3>1 DEF OrderInv, OldIsPushed
        <3>2. CASE v # w
            BY <1>6, <2>2, <3>2 DEF OrderInv, OldIsPushed
        <3> QED BY <3>1, <3>2
    <2> QED BY <1>1, <2>1, <2>2 DEF OldIsPushed, Pushed
<1>10. ProcessedInOrderSent'
    <2>1. ASSUME NEW k \in Mailboxes, NEW i \in 1..Len(queue'[k]), NEW j \in 1..Len(queue'[k]),
                 i < j, queue'[k][i].from = queue'[k][j].from
          PROVE  queue'[k][i].n < queue'[k][j].n
        <3>1. CASE k = m
            <4>1. /\ i + 1 \in 1..Len(queue[m]) /\ j + 1 \in 1..Len(queue[m]) /\ i + 1 < j + 1
                  /\ queue'[k][i] = queue[m][i + 1] /\ queue'[k][j] = queue[m][j + 1]
                BY <1>4, <2>1, <3>1
            <4> QED BY <2>1, <4>1 DEF OrderInv, ProcessedInOrderSent
        <3>2. CASE k # m
            BY <1>5, <2>1, <3>2 DEF OrderInv, ProcessedInOrderSent
        <3> QED BY <3>1, <3>2
    <2>2. ASSUME NEW k \in Mailboxes, NEW v \in Workers, Runs(v, k)',
                 NEW i \in 1..Len(queue'[k]), queue'[k][i].from = worker'[v].msg.from
          PROVE  worker'[v].msg.n < queue'[k][i].n
        <3>1. CASE v = w
            <4>1. k = m
                BY <1>6, <2>2, <3>1 DEF Runs
            <4>2. /\ 1 \in 1..Len(queue[m]) /\ i + 1 \in 1..Len(queue[m]) /\ 1 < i + 1
                  /\ queue'[k][i] = queue[m][i + 1] /\ worker'[v].msg = queue[m][1]
                BY <1>4, <1>6, <2>2, <3>1, <4>1
            <4> QED BY <2>2, <4>2 DEF OrderInv, ProcessedInOrderSent
        <3>2. CASE v # w
            <4>1. Runs(v, k) /\ worker'[v] = worker[v]
                BY <1>6, <2>2, <3>2 DEF Runs
            <4>2. \E j \in 1..Len(queue[k]) : queue'[k][i] = queue[k][j]
                BY <1>4, <1>5, <2>2
            <4> QED BY <2>2, <4>1, <4>2 DEF OrderInv, ProcessedInOrderSent
        <3> QED BY <3>1, <3>2
    <2> QED BY <2>1, <2>2 DEF ProcessedInOrderSent
<1> QED BY <1>8, <1>9, <1>10 DEF OrderInv

(* A worker that takes a task or leaves receive() executes nothing afterwards. *)
LEMMA OrderIdle ==
    ASSUME OrderInv, TypeOK, UNCHANGED <<queue, sent, call>>,
           \A w \in Workers : worker'[w] = worker[w] \/ worker'[w].pc # "running"
    PROVE  OrderInv'
<1>1. \A w \in Workers, m \in Mailboxes : Runs(w, m)' => Runs(w, m) /\ worker'[w] = worker[w]
    BY DEF Runs
<1>2. RunningIsMessage' /\ OldIsPushed'
    BY DEF OrderInv, RunningIsMessage, OldIsPushed, Pushed
<1>3. ProcessedInOrderSent'
    BY <1>1 DEF OrderInv, ProcessedInOrderSent
<1> QED BY <1>2, <1>3 DEF OrderInv

LEMMA OrderNext == OrderInv /\ IInv /\ [Next]_vars => OrderInv'
<1> SUFFICES ASSUME OrderInv, IInv, [Next]_vars PROVE OrderInv'
    OBVIOUS
<1>0. TypeOK /\ worker \in [Workers -> WorkerState]
    BY DEF IInv, TypeOK
<1>1. ASSUME UNCHANGED <<queue, sent, call, worker>> PROVE OrderInv'
    BY <1>0, <1>1, OrderIdle
<1>2. ASSUME NEW t \in Threads, CallStep(t) PROVE OrderInv'
    BY <1>0, <1>2, OrderInvokeReturn, OrderPushEnter, OrderPushCommit DEF CallStep
<1>3. ASSUME NEW w \in Workers, WorkerStep(w) PROVE OrderInv'
    <2>1. CASE TakeTask(w)
        <3>1. UNCHANGED <<queue, sent, call>>
            BY <2>1 DEF TakeTask, mailboxVars
        <3>2. \A v \in Workers : worker'[v] = worker[v] \/ worker'[v].pc # "running"
            BY <1>0, <2>1 DEF TakeTask
        <3> QED BY <1>0, <3>1, <3>2, OrderIdle
    <2>2. ASSUME NEW m \in Mailboxes, Receive(w, m) PROVE OrderInv'
        <3>1. CASE closed[m]
            <4>1. UNCHANGED <<queue, sent, call>>
                BY <2>2, <3>1 DEF Receive
            <4>2. \A v \in Workers : worker'[v] = worker[v] \/ worker'[v].pc # "running"
                BY <1>0, <2>2, <3>1 DEF Receive, IdleWorker
            <4> QED BY <1>0, <4>1, <4>2, OrderIdle
        <3> QED BY <2>2, <3>1, OrderReceive
    <2>3. ASSUME NEW m \in Mailboxes, ReceiveReturn(w, m) PROVE OrderInv'
        <3>1. UNCHANGED <<queue, sent, call>>
            BY <2>3 DEF ReceiveReturn
        <3>2. \A v \in Workers : worker'[v] = worker[v] \/ worker'[v].pc # "running"
            BY <1>0, <2>3 DEF ReceiveReturn, IdleWorker
        <3> QED BY <1>0, <3>1, <3>2, OrderIdle
    <2> QED BY <1>3, <2>1, <2>2, <2>3 DEF WorkerStep
<1>4. ASSUME NEW t \in Threads, NEW m \in Mailboxes, Invoke(t, m) PROVE OrderInv'
    BY <1>0, <1>4, OrderInvoke
<1>5. ASSUME NEW t \in Threads, NEW m \in Mailboxes, OwnerStep(t, m) PROVE OrderInv'
    BY <1>1, <1>5 DEF OwnerStep, Open, CloseEnter, CloseCommit, DestroyWithoutClose
<1>6. CASE UNCHANGED vars
    BY <1>1, <1>6 DEF vars, mailboxVars
<1> QED BY <1>2, <1>3, <1>4, <1>5, <1>6 DEF Next

(* "Messages sent from actor S to actor R are guaranteed to be processed in the order sent"    *)
(* (scheduler.hpp), on however many threads the scheduler runs the handlers of R.               *)
THEOREM MessagesKeepTheirOrder == Spec => []ProcessedInOrderSent
<1>1. Spec => []OrderInv
    BY OrderInit, OrderNext, Invariance, PTL DEF Spec
<1> QED BY <1>1, PTL DEF OrderInv
=============================================================================
