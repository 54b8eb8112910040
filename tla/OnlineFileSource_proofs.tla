---------------------- MODULE OnlineFileSource_proofs ----------------------
(***************************************************************************)
(* Proofs about OnlineFileSource and its queue, for any requests, any       *)
(* values of setMaximumConcurrentRequests and any nesting of callbacks.     *)
(***************************************************************************)
EXTENDS OnlineFileSource, SequenceFacts

(* The queue, regular requests first and none of them twice. *)
Queues == [queue : Seq(Requests), firstLow : Nat]
Laid(p) ==
    /\ p \in Queues
    /\ p.firstLow \in 1..(Len(p.queue) + 1)
    /\ \A i \in 1..Len(p.queue) : p.queue[i] \in Regular <=> i < p.firstLow
    /\ \A i, j \in 1..Len(p.queue) : p.queue[i] = p.queue[j] => i = j

(* One request is out of the queue, or in it; the others keep their order. *)
TakenOut(p, n, x) ==
    /\ Laid(n)
    /\ \A q : Pending(n, q) <=> Pending(p, q) /\ q # x
    /\ \A q, r : Pending(n, q) /\ Pending(n, r) => (Before(n, q, r) <=> Before(p, q, r))
PutIn(p, n, x) ==
    /\ Laid(n) /\ n.queue # <<>>
    /\ \A q : Pending(n, q) <=> Pending(p, q) \/ q = x
    /\ \A q, r : q # r /\ Pending(p, r) /\ Pending(n, q) /\ SamePriority(q, r) =>
         (Pending(p, q) /\ Before(p, q, r) <=> Before(n, q, r))

(* A callback holds the slot of its request until it returns. *)
SlotsInv ==
    /\ \E n \in Maxima : Used <= n
    /\ pendingRequests.queue # <<>> => \E n \in Maxima : Used >= n

(* OneStateAtATime but for the order of the queue. *)
States ==
    \A r \in Requests :
      /\ IsPending(r) => r \notin activeRequests /\ timer[r] = "off"
      /\ r \in activeRequests => timer[r] = "off"
      /\ IsPending(r) \/ r \in activeRequests \/ timer[r] # "off" => r \in allRequests
      /\ r \in allRequests /\ failedReason[r] # "None" =>
           timer[r] # "off" \/ IsPending(r) \/ r \in activeRequests

(* A request that has not been created has not failed. *)
Untouched == \A r \in Requests \ created : failedReason[r] = "None"

IInv == TypeOK /\ Laid(pendingRequests) /\ States /\ NeverMeansOffline /\ SlotsInv /\ Untouched

----------------------------------------------------------------------------
(***************************************************************************)
(* The queue.                                                               *)
(***************************************************************************)

(* n is p without its k-th request. *)
Without(p, n, k) ==
    /\ n \in Queues
    /\ Len(n.queue) = Len(p.queue) - 1
    /\ \A i \in 1..(k - 1) : n.queue[i] = p.queue[i]
    /\ \A i \in k..(Len(p.queue) - 1) : n.queue[i] = p.queue[i + 1]
    /\ n.firstLow = IF k < p.firstLow THEN p.firstLow - 1 ELSE p.firstLow

LEMMA WithoutFacts ==
    ASSUME NEW p, NEW n, Laid(p), NEW k \in 1..Len(p.queue), Without(p, n, k)
    PROVE  TakenOut(p, n, p.queue[k])
<1> DEFINE s == p.queue
           t == n.queue
           old(i) == IF i < k THEN i ELSE i + 1
<1>1. /\ Len(s) \in Nat \ {0} /\ Len(t) = Len(s) - 1 /\ Len(t) \in Nat /\ k \in Nat \ {0} /\ k <= Len(s)
      /\ p.firstLow \in Nat /\ p.firstLow \in 1..(Len(s) + 1)
    BY DEF Laid, Queues, Without
<1>2. \A i \in 1..Len(t) : t[i] = s[old(i)] /\ old(i) \in 1..Len(s) /\ old(i) # k
    BY <1>1 DEF Without
<1>3. \A i, j \in 1..Len(t) : i < j <=> old(i) < old(j)
    BY <1>1
<1>4. \A i \in 1..Len(s) : i # k => \E j \in 1..Len(t) : old(j) = i
    <2>1. ASSUME NEW i \in 1..Len(s), i < k PROVE i \in 1..Len(t) /\ old(i) = i
        BY <1>1, <2>1
    <2>2. ASSUME NEW i \in 1..Len(s), i > k PROVE i - 1 \in 1..Len(t) /\ old(i - 1) = i
        BY <1>1, <2>2
    <2> HIDE DEF old
    <2> QED BY <1>1, <2>1, <2>2
<1>5. \A i, j \in 1..Len(s) : s[i] = s[j] => i = j
    BY DEF Laid
<1>6. Laid(n)
    <2>1. n.firstLow \in 1..(Len(t) + 1)
        BY <1>1 DEF Without
    <2>2. ASSUME NEW i \in 1..Len(t) PROVE t[i] \in Regular <=> i < n.firstLow
        <3>1. t[i] \in Regular <=> old(i) < p.firstLow
            BY <1>2 DEF Laid
        <3>2. old(i) < p.firstLow <=> i < n.firstLow
            BY <1>1 DEF Without
        <3> QED BY <3>1, <3>2
    <2>3. ASSUME NEW i \in 1..Len(t), NEW j \in 1..Len(t), t[i] = t[j] PROVE i = j
        <3>1. old(i) = old(j)
            <4> HIDE DEF old
            <4> QED BY <1>2, <1>5, <2>3
        <3> QED BY <1>1, <3>1
    <2> QED BY <2>1, <2>2, <2>3 DEF Laid, Without
<1> HIDE DEF old
<1>7. \A q : Pending(n, q) <=> Pending(p, q) /\ q # p.queue[k]
    <2>1. ASSUME NEW q, Pending(n, q) PROVE Pending(p, q) /\ q # p.queue[k]
        <3>1. PICK i \in 1..Len(t) : t[i] = q
            BY <2>1 DEF Pending
        <3> QED BY <1>2, <1>5, <3>1 DEF Pending
    <2>2. ASSUME NEW q, Pending(p, q), q # p.queue[k] PROVE Pending(n, q)
        <3>1. PICK i \in 1..Len(s) : s[i] = q
            BY <2>2 DEF Pending
        <3>2. PICK j \in 1..Len(t) : old(j) = i
            BY <1>4, <2>2, <3>1
        <3> QED BY <1>2, <3>1, <3>2 DEF Pending
    <2> QED BY <2>1, <2>2
<1>8. ASSUME NEW q, NEW r, Pending(n, q), Pending(n, r)
      PROVE  Before(n, q, r) <=> Before(p, q, r)
    <2>1. PICK i \in 1..Len(t) : t[i] = q
        BY <1>8 DEF Pending
    <2>2. PICK j \in 1..Len(t) : t[j] = r
        BY <1>8 DEF Pending
    <2>3. \A a, b \in 1..Len(t) : t[a] = q /\ t[b] = r => a = i /\ b = j
        BY <1>6, <2>1, <2>2 DEF Laid
    <2>4. Before(n, q, r) <=> i < j
        BY <2>1, <2>2, <2>3 DEF Before
    <2>5. \A a, b \in 1..Len(s) : s[a] = q /\ s[b] = r => a = old(i) /\ b = old(j)
        BY <1>2, <1>5, <2>1, <2>2
    <2>6. Before(p, q, r) <=> old(i) < old(j)
        BY <1>2, <2>1, <2>2, <2>5 DEF Before
    <2> QED BY <1>3, <2>4, <2>6
<1> QED BY <1>6, <1>7, <1>8 DEF TakenOut

(* pop() takes the first request. *)
LEMMA PopFacts ==
    ASSUME NEW p, Laid(p), p.queue # <<>>
    PROVE  /\ TakenOut(p, Pop(p), Head(p.queue))
           /\ Head(p.queue) \in Requests /\ Pending(p, Head(p.queue))
           /\ Head(p.queue) = p.queue[1] /\ 1 \in 1..Len(p.queue)
<1>1. p.queue \in Seq(Requests) /\ p.firstLow \in Nat \ {0}
    BY DEF Laid, Queues
<1>2. /\ Tail(p.queue) \in Seq(Requests) /\ Head(p.queue) \in Requests /\ Head(p.queue) = p.queue[1]
      /\ Len(p.queue) \in Nat \ {0} /\ Len(Tail(p.queue)) = Len(p.queue) - 1
      /\ \A i \in 1..(Len(p.queue) - 1) : Tail(p.queue)[i] = p.queue[i + 1]
    BY <1>1, TailFacts
<1>3. 1 \in 1..Len(p.queue)
    BY <1>2
<1>4. Without(p, Pop(p), 1)
    <2>1. Pop(p).queue = Tail(p.queue) /\ Pop(p).firstLow = (IF p.firstLow = 1 THEN 2 ELSE p.firstLow) - 1
        BY DEF Pop
    <2>2. Pop(p) \in Queues
        BY <1>1, <1>2 DEF Pop, Queues
    <2> QED BY <1>1, <1>2, <2>1, <2>2 DEF Without
<1> QED BY <1>2, <1>3, <1>4, WithoutFacts DEF Pending

(* remove() takes a request out wherever it is. *)
LEMMA DropFacts ==
    ASSUME NEW p, Laid(p), NEW r
    PROVE  /\ TakenOut(p, Drop(p, r), r)
           /\ Drop(p, r).queue # <<>> => p.queue # <<>>
<1>1. p.queue \in Seq(Requests) /\ p.firstLow \in Nat \ {0}
    BY DEF Laid, Queues
<1>2. CASE ~Pending(p, r)
    BY <1>2 DEF Drop, TakenOut
<1>3. CASE Pending(p, r)
    <2> DEFINE k == CHOOSE i \in 1..Len(p.queue) : p.queue[i] = r
    <2>1. k \in 1..Len(p.queue) /\ p.queue[k] = r
        BY <1>3 DEF Pending
    <2>2. Drop(p, r) = [queue |-> RemoveAt(p.queue, k),
                        firstLow |-> IF k < p.firstLow THEN p.firstLow - 1 ELSE p.firstLow]
        BY <1>3 DEF Drop
    <2> HIDE DEF k
    <2>3. Without(p, Drop(p, r), k)
        <3>1. /\ RemoveAt(p.queue, k) \in Seq(Requests) /\ Len(RemoveAt(p.queue, k)) = Len(p.queue) - 1
              /\ \A i \in 1..(k - 1) : RemoveAt(p.queue, k)[i] = p.queue[i]
              /\ \A i \in k..(Len(p.queue) - 1) : RemoveAt(p.queue, k)[i] = p.queue[i + 1]
            BY <1>1, <2>1, RemoveAtFacts
        <3>2. Drop(p, r) \in Queues
            BY <1>1, <2>1, <2>2, <3>1 DEF Queues
        <3> QED BY <2>2, <3>1, <3>2 DEF Without
    <2>4. TakenOut(p, Drop(p, r), r)
        BY <2>1, <2>3, WithoutFacts
    <2>5. p.queue # <<>>
        BY <1>1, <2>1
    <2> QED BY <2>4, <2>5
<1> QED BY <1>2, <1>3

(* insert() puts a request behind those of its priority. *)
LEMMA InsertFacts ==
    ASSUME NEW p, Laid(p), NEW r \in Requests, ~Pending(p, r)
    PROVE  PutIn(p, Insert(p, r, r \in Regular), r)
<1> DEFINE s == p.queue
           k == IF r \in Regular THEN p.firstLow ELSE Len(s) + 1
           n == Insert(p, r, r \in Regular)
           t == n.queue
           new(i) == IF i < k THEN i ELSE i + 1
<1>1. /\ s \in Seq(Requests) /\ Len(s) \in Nat /\ p.firstLow \in Nat /\ p.firstLow \in 1..(Len(s) + 1)
      /\ k \in Nat /\ k \in 1..(Len(s) + 1)
    BY DEF Laid, Queues
<1>2. /\ n \in Queues /\ Len(t) = Len(s) + 1 /\ t[k] = r
      /\ \A i \in 1..(k - 1) : t[i] = s[i]
      /\ \A i \in k..Len(s) : t[i + 1] = s[i]
      /\ n.firstLow = p.firstLow + (IF r \in Regular THEN 1 ELSE 0)
    <2>1. CASE r \in Regular
        <3>1. n = [queue |-> InsertAt(s, p.firstLow, r), firstLow |-> p.firstLow + 1]
            BY <2>1 DEF Insert
        <3>2. /\ InsertAt(s, p.firstLow, r) \in Seq(Requests)
              /\ Len(InsertAt(s, p.firstLow, r)) = Len(s) + 1
              /\ InsertAt(s, p.firstLow, r)[p.firstLow] = r
              /\ \A i \in 1..(p.firstLow - 1) : InsertAt(s, p.firstLow, r)[i] = s[i]
              /\ \A i \in p.firstLow..Len(s) : InsertAt(s, p.firstLow, r)[i + 1] = s[i]
            BY <1>1, InsertAtFacts, SMTT(30)
        <3>3. k = p.firstLow
            BY <2>1
        <3> HIDE DEF n, k, s
        <3> QED BY <1>1, <2>1, <3>1, <3>2, <3>3 DEF Queues
    <2>2. CASE r \notin Regular
        <3>1. n = [p EXCEPT !.queue = Append(@, r)]
            BY <2>2 DEF Insert
        <3>2. n \in Queues /\ t = Append(s, r) /\ n.firstLow = p.firstLow
            BY <1>1, <3>1 DEF Laid, Queues
        <3>3. /\ Len(Append(s, r)) = Len(s) + 1 /\ Append(s, r)[Len(s) + 1] = r
              /\ \A i \in 1..Len(s) : Append(s, r)[i] = s[i]
            BY <1>1, AppendFacts
        <3>4. k = Len(s) + 1
            BY <2>2
        <3> HIDE DEF n, k, s
        <3> QED BY <1>1, <2>2, <3>2, <3>3, <3>4
    <2> QED BY <2>1, <2>2
<1> HIDE DEF n
<1>3. \A i \in 1..Len(s) : t[new(i)] = s[i] /\ new(i) \in 1..Len(t) /\ new(i) # k
    BY <1>1, <1>2, SMTT(30)
<1>4. \A i, j \in 1..Len(s) : i < j <=> new(i) < new(j)
    BY <1>1
<1>5. \A i \in 1..Len(t) : i # k => \E j \in 1..Len(s) : new(j) = i
    <2>1. ASSUME NEW i \in 1..Len(t), i < k PROVE i \in 1..Len(s) /\ new(i) = i
        BY <1>1, <1>2, <2>1
    <2>2. ASSUME NEW i \in 1..Len(t), i > k PROVE i - 1 \in 1..Len(s) /\ new(i - 1) = i
        BY <1>1, <1>2, <2>2
    <2> HIDE DEF new, k
    <2> QED BY <1>1, <1>2, <2>1, <2>2
<1>6. \A i, j \in 1..Len(s) : s[i] = s[j] => i = j
    BY DEF Laid
<1>7. \A i \in 1..Len(s) : s[i] # r
    BY DEF Pending
<1>8. Laid(n)
    <2>1. n.firstLow \in 1..(Len(t) + 1)
        BY <1>1, <1>2
    <2>2. ASSUME NEW i \in 1..Len(t) PROVE t[i] \in Regular <=> i < n.firstLow
        <3>1. CASE i = k
            BY <1>1, <1>2, <3>1
        <3>2. CASE i # k
            <4>1. PICK j \in 1..Len(s) : new(j) = i
                BY <1>5, <3>2
            <4>2. t[i] \in Regular <=> j < p.firstLow
                BY <1>3, <4>1 DEF Laid
            <4>3. j < p.firstLow <=> new(j) < n.firstLow
                BY <1>1, <1>2
            <4> QED BY <4>1, <4>2, <4>3
        <3> QED BY <3>1, <3>2
    <2> HIDE DEF k, new
    <2>3. ASSUME NEW i \in 1..Len(t), NEW j \in 1..Len(t), t[i] = t[j] PROVE i = j
        <3>1. \A a \in 1..Len(t) : a # k => t[a] # r
            BY <1>3, <1>5, <1>7
        <3>2. i = k <=> j = k
            BY <1>2, <2>3, <3>1
        <3>3. CASE i # k /\ j # k
            <4>1. PICK a \in 1..Len(s) : new(a) = i
                BY <1>5, <3>3
            <4>2. PICK b \in 1..Len(s) : new(b) = j
                BY <1>5, <3>3
            <4>3. s[a] = s[b]
                BY <1>3, <2>3, <4>1, <4>2
            <4> QED BY <1>6, <4>1, <4>2, <4>3
        <3> QED BY <3>2, <3>3
    <2> QED BY <1>2, <2>1, <2>2, <2>3 DEF Laid
<1>9. k \in 1..Len(t)
    BY <1>1, <1>2
<1>10. r \in Regular => k = p.firstLow
    OBVIOUS
<1>11. r \notin Regular => k = Len(s) + 1
    OBVIOUS
<1>12. \A i \in 1..Len(s) : new(i) = IF i < k THEN i ELSE i + 1
    OBVIOUS
<1> HIDE DEF k, new
<1>13. \A q : Pending(n, q) <=> Pending(p, q) \/ q = r
    <2>1. ASSUME NEW q, Pending(n, q) PROVE Pending(p, q) \/ q = r
        <3>1. PICK i \in 1..Len(t) : t[i] = q
            BY <2>1 DEF Pending
        <3>2. i = k \/ \E j \in 1..Len(s) : new(j) = i
            BY <1>5
        <3> QED BY <1>2, <1>3, <3>1, <3>2 DEF Pending
    <2>2. ASSUME NEW q, Pending(p, q) \/ q = r PROVE Pending(n, q)
        BY <1>2, <1>3, <1>9, <2>2 DEF Pending
    <2> QED BY <2>1, <2>2
<1>14. ASSUME NEW q, NEW x, q # x, Pending(p, x), Pending(n, q), SamePriority(q, x)
       PROVE  Pending(p, q) /\ Before(p, q, x) <=> Before(n, q, x)
    <2>1. PICK j \in 1..Len(s) : s[j] = x
        BY <1>14 DEF Pending
    <2>2. \A b \in 1..Len(t) : t[b] = x => b = new(j)
        BY <1>3, <1>8, <2>1 DEF Laid
    <2>3. CASE q = r
        <3>1. ~Pending(p, q)
            BY <2>3
        <3>2. \A a \in 1..Len(t) : t[a] = q => a = k
            BY <1>2, <1>8, <1>9, <2>3 DEF Laid
        <3>3. new(j) < k
            BY <1>1, <1>10, <1>11, <1>12, <1>14, <2>1, <2>3 DEF Laid, SamePriority
        <3>4. new(j) \in 1..Len(t)
            BY <1>3
        <3>5. ~Before(n, q, x)
            BY <1>1, <2>2, <3>2, <3>3, <3>4 DEF Before
        <3> QED BY <3>1, <3>5
    <2>4. CASE q # r
        <3>1. Pending(p, q)
            BY <1>13, <1>14, <2>4
        <3>2. PICK i \in 1..Len(s) : s[i] = q
            BY <3>1 DEF Pending
        <3>3. Before(p, q, x) <=> i < j
            BY <1>6, <2>1, <3>2 DEF Before
        <3>4. \A a \in 1..Len(t) : t[a] = q => a = new(i)
            BY <1>3, <1>8, <3>2 DEF Laid
        <3>5. t[new(i)] = q /\ t[new(j)] = x /\ new(i) \in 1..Len(t) /\ new(j) \in 1..Len(t)
            BY <1>3, <2>1, <3>2
        <3>6. Before(n, q, x) <=> new(i) < new(j)
            BY <2>2, <3>4, <3>5 DEF Before
        <3> QED BY <1>4, <3>1, <3>3, <3>6
    <2> QED BY <2>3, <2>4
<1>15. t # <<>>
    <2>1. t \in Seq(Requests)
        BY <1>2 DEF Queues
    <2> QED BY <1>1, <1>2, <2>1
<1> QED BY <1>8, <1>13, <1>14, <1>15 DEF PutIn, n

----------------------------------------------------------------------------
(***************************************************************************)
(* Timers.                                                                  *)
(***************************************************************************)
Timers == [Requests -> {"off", "armed", "never"}]
Failures == [Requests -> Reasons]

(* What a step may do to the timers of the requests in R: a timer is started, for ever only    *)
(* when the network is away, or it is left alone and there is nothing to retry.                *)
Retimed(R) ==
    /\ timer' \in Timers /\ failedReason' \in Failures
    /\ \A r \in Requests \ R : timer'[r] = timer[r] /\ failedReason'[r] = failedReason[r]
    /\ \A r \in R :
         \/ timer'[r] = timer[r] /\ failedReason'[r] = "None"
         \/ /\ timer'[r] # "off"
            /\ timer'[r] = "never" => ~network /\ failedReason'[r] = "Connection"

LEMMA StartRetimes ==
    ASSUME timer \in Timers, failedReason \in Failures, NEW R \in SUBSET Requests, Start(R)
    PROVE  /\ Retimed(R)
           /\ \A r \in R : /\ timer'[r] # "off"
                            /\ timer'[r] = "never" => ~network /\ failedReason'[r] = "Connection"
<1>1. timer' \in Timers /\ failedReason' \in Failures
    BY DEF Start, Timers, Failures, Reasons
<1>2. \A r \in Requests \ R : timer'[r] = timer[r] /\ failedReason'[r] = failedReason[r]
    BY DEF Start
<1>3. \A r \in R : /\ timer'[r] # "off"
                   /\ timer'[r] = "never" => ~network /\ failedReason'[r] = "Connection"
    BY DEF Start
<1> QED BY <1>1, <1>2, <1>3 DEF Retimed

LEMMA CompleteRetimes ==
    ASSUME timer \in Timers, failedReason \in Failures, NEW r \in Requests, NEW reason \in Reasons,
           NEW expires \in BOOLEAN, Complete(r, reason, expires)
    PROVE  /\ Retimed({r})
           /\ reason # "None" => /\ timer'[r] # "off"
                                 /\ timer'[r] = "never" => ~network /\ failedReason'[r] = "Connection"
<1>1. CASE reason # "None" \/ expires
    <2>1. /\ timer' = [timer EXCEPT ![r] = IF network THEN "armed" ELSE "never"]
          /\ failedReason' = [failedReason EXCEPT ![r] = IF network THEN reason ELSE "Connection"]
        BY <1>1 DEF Complete
    <2>2. timer' \in Timers /\ failedReason' \in Failures
        BY <2>1 DEF Timers, Failures, Reasons
    <2>3. /\ timer'[r] = IF network THEN "armed" ELSE "never"
          /\ failedReason'[r] = IF network THEN reason ELSE "Connection"
          /\ \A q \in Requests \ {r} : timer'[q] = timer[q] /\ failedReason'[q] = failedReason[q]
        BY <2>1 DEF Timers, Failures
    <2> QED BY <2>2, <2>3 DEF Retimed
<1>2. CASE reason = "None" /\ ~expires
    <2>1. failedReason' = [failedReason EXCEPT ![r] = "None"] /\ timer' = timer
        BY <1>2 DEF Complete
    <2> QED BY <1>2, <2>1 DEF Retimed, Timers, Failures, Reasons
<1> QED BY <1>1, <1>2

(* The types that the steps below start from. *)
LEMMA Known ==
    ASSUME IInv
    PROVE  /\ timer \in Timers /\ failedReason \in Failures
           /\ pendingRequests \in Queues /\ Laid(pendingRequests)
           /\ activeRequests \subseteq Requests /\ IsFiniteSet(activeRequests)
           /\ Cardinality(activeRequests) \in Nat /\ Len(calling) \in Nat /\ Used \in Nat
           /\ calling \in Seq(Requests) /\ online \in BOOLEAN /\ network \in BOOLEAN
           /\ allRequests \subseteq created /\ created \subseteq Requests
           /\ \A r \in Requests : IsPending(r) => r \notin activeRequests
<1>1. activeRequests \subseteq Requests /\ calling \in Seq(Requests)
    BY DEF IInv, TypeOK
<1>2. IsFiniteSet(activeRequests)
    BY <1>1, OnlineFileSourceAssumption, FS_Subset
<1>3. Cardinality(activeRequests) \in Nat
    BY <1>2, FS_CardinalityType
<1> QED BY <1>1, <1>2, <1>3 DEF IInv, TypeOK, Timers, Failures, Queues, States, Used

(* TypeOK but for the members that most steps leave alone. *)
LEMMA TypesKept ==
    ASSUME IInv, timer' \in Timers, failedReason' \in Failures, pendingRequests' \in Queues,
           activeRequests' \subseteq Requests, calling' \in Seq(Requests),
           UNCHANGED <<created, online, maximum, networkVars>>,
           allRequests' \subseteq allRequests, transforming' \subseteq allRequests'
    PROVE  TypeOK'
BY DEF IInv, TypeOK, Timers, Failures, Queues, networkVars

----------------------------------------------------------------------------
(* A slot has become free, and activatePendingRequest() gives it away. *)
LEMMA SlotFreed ==
    ASSUME IInv, NEW active \in SUBSET activeRequests, NEW frames \in Seq(Requests),
           Cardinality(active) + Len(frames) = Used - 1, ActivatePending(active, frames),
           allRequests' = allRequests \ (activeRequests \ active),
           transforming' \subseteq allRequests',
           UNCHANGED <<created, online, maximum, networkVars>>
    PROVE  IInv'
<1>1. /\ timer \in Timers /\ failedReason \in Failures /\ Laid(pendingRequests)
      /\ activeRequests \subseteq Requests /\ IsFiniteSet(activeRequests)
      /\ Used \in Nat /\ IsFiniteSet(active) /\ Cardinality(active) \in Nat
      /\ pendingRequests \in Queues /\ Len(frames) \in Nat
    BY Known, FS_Subset, FS_CardinalityType
<1>2. CASE pendingRequests.queue = <<>>
    <2>1. /\ activeRequests' = active /\ calling' = frames
          /\ UNCHANGED <<pendingRequests, timer, failedReason>>
        BY <1>2 DEF ActivatePending
    <2>2. TypeOK'
        BY <1>1, <2>1, TypesKept
    <2>3. States'
        <3>1. \A r \in Requests : IsPending(r)' <=> IsPending(r)
            BY <2>1 DEF IsPending
        <3> QED BY <2>1, <3>1 DEF IInv, States
    <2>4. NeverMeansOffline'
        BY <2>1 DEF IInv, NeverMeansOffline, networkVars
    <2>5. SlotsInv'
        <3>1. PICK n \in Maxima : Used <= n
            BY DEF IInv, SlotsInv
        <3>2. n \in Nat /\ Used' = Used - 1
            BY <2>1, OnlineFileSourceAssumption DEF Used
        <3>3. Used' <= n
            BY <1>1, <3>1, <3>2
        <3> QED BY <1>2, <2>1, <3>3 DEF SlotsInv
    <2> QED BY <2>1, <2>2, <2>3, <2>4, <2>5 DEF IInv, Laid, Untouched
<1>3. CASE pendingRequests.queue # <<>>
    <2> DEFINE h == Head(pendingRequests.queue)
    <2>1. pendingRequests' = Pop(pendingRequests) /\ Activate(h, active, frames)
        BY <1>3 DEF ActivatePending
    <2>2. TakenOut(pendingRequests, pendingRequests', h) /\ h \in Requests /\ IsPending(h)
        BY <1>1, <1>3, <2>1, PopFacts DEF IsPending
    <2>3. \A r \in Requests : IsPending(r)' <=> IsPending(r) /\ r # h
        BY <2>2 DEF TakenOut, IsPending
    <2>4. h \notin activeRequests /\ timer[h] = "off" /\ h \in allRequests
        BY <2>2 DEF IInv, States
    <2> HIDE DEF h
    <2>5. CASE online
        <3>1. /\ activeRequests' = active \cup {h} /\ calling' = frames
              /\ UNCHANGED <<timer, failedReason>>
            BY <2>1, <2>5 DEF Activate
        <3>2. TypeOK'
            BY <1>1, <2>2, <3>1, TypesKept DEF TakenOut, Laid
        <3>3. States'
            BY <2>3, <2>4, <3>1 DEF IInv, States
        <3>4. NeverMeansOffline'
            BY <3>1 DEF IInv, NeverMeansOffline, networkVars
        <3>5. Used' = Used
            <4>1. Cardinality(active \cup {h}) = Cardinality(active) + 1
                BY <1>1, <2>4, FS_AddElement
            <4> QED BY <1>1, <3>1, <4>1 DEF Used
        <3>6. SlotsInv'
            BY <1>3, <3>5 DEF IInv, SlotsInv
        <3> QED BY <2>2, <3>1, <3>2, <3>3, <3>4, <3>6 DEF IInv, TakenOut, Untouched
    <2>6. CASE ~online
        <3>1. activeRequests' = active /\ calling' = Append(frames, h) /\ Complete(h, "Connection", FALSE)
            BY <2>1, <2>6 DEF Activate
        <3>2. /\ Retimed({h}) /\ timer'[h] # "off"
              /\ timer'[h] = "never" => ~network /\ failedReason'[h] = "Connection"
            BY <1>1, <2>2, <3>1, CompleteRetimes DEF Reasons
        <3>3. calling' \in Seq(Requests) /\ Len(calling') = Len(frames) + 1
            BY <2>2, <3>1, AppendFacts
        <3>4. TypeOK'
            BY <1>1, <2>2, <3>1, <3>2, <3>3, TypesKept DEF TakenOut, Laid, Retimed
        <3>5. States'
            BY <2>3, <2>4, <3>1, <3>2 DEF IInv, States, Retimed
        <3>6. NeverMeansOffline'
            BY <3>2 DEF IInv, NeverMeansOffline, networkVars, Retimed
        <3>7. SlotsInv'
            <4>1. Used' = Used
                BY <1>1, <3>1, <3>3, SMTT(30) DEF Used
            <4> QED BY <1>3, <4>1 DEF IInv, SlotsInv
        <3>8. Untouched'
            BY <2>4, <3>2, Known DEF IInv, Untouched, Retimed
        <3> QED BY <2>2, <3>4, <3>5, <3>6, <3>7, <3>8 DEF IInv, TakenOut
    <2> QED BY <2>5, <2>6
<1> QED BY <1>2, <1>3

----------------------------------------------------------------------------
LEMMA CreateStep == ASSUME IInv, NEW r \in Requests, Create(r) PROVE IInv'
<1>1. /\ r \notin created /\ created' = created \cup {r} /\ allRequests' = allRequests \cup {r}
      /\ UNCHANGED <<pendingRequests, activeRequests, calling, online, maximum, networkVars>>
    BY DEF Create
<1>2. r \notin allRequests /\ ~IsPending(r) /\ r \notin activeRequests /\ timer[r] = "off"
    BY <1>1, Known DEF IInv, States
<1>3. transforming' \subseteq allRequests' /\ failedReason[r] = "None"
    BY <1>1 DEF IInv, TypeOK, Create, Untouched
<1>4. Retimed({r})
    <2>1. CASE r \in Transformed
        BY <1>3, <2>1, Known DEF Create, Retimed
    <2>2. CASE r \notin Transformed
        BY <2>2, Known, StartRetimes DEF Create
    <2> QED BY <2>1, <2>2
<1>5. TypeOK'
    BY <1>1, <1>3, <1>4 DEF IInv, TypeOK, Retimed, Timers, Failures, networkVars
<1>6. States'
    <2>1. \A q \in Requests : IsPending(q)' <=> IsPending(q)
        BY <1>1 DEF IsPending
    <2> QED BY <1>1, <1>2, <1>4, <2>1 DEF IInv, States, Retimed
<1>7. NeverMeansOffline'
    BY <1>1, <1>2, <1>4 DEF IInv, NeverMeansOffline, networkVars, Retimed
<1>8. SlotsInv' /\ Laid(pendingRequests)' /\ Untouched'
    BY <1>1, <1>4 DEF IInv, SlotsInv, Used, Laid, Untouched, Retimed
<1> QED BY <1>5, <1>6, <1>7, <1>8 DEF IInv

LEMMA DeleteStep == ASSUME IInv, NEW r \in Requests, Delete(r) PROVE IInv'
<1>1. /\ r \in allRequests /\ allRequests' = allRequests \ {r} /\ transforming' = transforming \ {r}
      /\ UNCHANGED <<created, online, maximum, networkVars>>
    BY DEF Delete
<1>2. transforming' \subseteq allRequests'
    BY <1>1 DEF IInv, TypeOK
<1>3. CASE r \in activeRequests
    <2> DEFINE active == activeRequests \ {r}
    <2>1. ActivatePending(active, calling)
        BY <1>3 DEF Delete
    <2>2. allRequests' = allRequests \ (activeRequests \ active)
        BY <1>1, <1>3
    <2>3. Cardinality(active) = Cardinality(activeRequests) - 1
        BY <1>3, Known, FS_RemoveElement
    <2>4. Cardinality(active) + Len(calling) = Used - 1 /\ calling \in Seq(Requests)
        BY <2>3, Known DEF Used
    <2> HIDE DEF active
    <2>5. active \subseteq activeRequests
        BY DEF active
    <2> QED BY <1>1, <1>2, <2>1, <2>2, <2>4, <2>5, SlotFreed
<1>4. CASE r \notin activeRequests
    <2>1. /\ pendingRequests' = Drop(pendingRequests, r) /\ timer' = [timer EXCEPT ![r] = "off"]
          /\ UNCHANGED <<activeRequests, failedReason, calling>>
        BY <1>4 DEF Delete
    <2>2. /\ TakenOut(pendingRequests, pendingRequests', r)
          /\ pendingRequests'.queue # <<>> => pendingRequests.queue # <<>>
        BY <2>1, Known, DropFacts
    <2>3. timer' \in Timers /\ \A q \in Requests : timer'[q] = IF q = r THEN "off" ELSE timer[q]
        BY <2>1, Known DEF Timers
    <2>4. TypeOK'
        BY <1>1, <1>2, <2>1, <2>2, <2>3, Known, TypesKept DEF TakenOut, Laid
    <2>5. States'
        <3>1. \A q \in Requests : IsPending(q)' <=> IsPending(q) /\ q # r
            BY <2>2 DEF TakenOut, IsPending
        <3> QED BY <1>1, <1>4, <2>1, <2>3, <3>1 DEF IInv, States
    <2>6. NeverMeansOffline'
        BY <1>1, <2>1, <2>3 DEF IInv, NeverMeansOffline, networkVars
    <2>7. SlotsInv'
        BY <2>1, <2>2 DEF IInv, SlotsInv, Used
    <2> QED BY <1>1, <2>1, <2>2, <2>4, <2>5, <2>6, <2>7 DEF IInv, TakenOut, Untouched
<1> QED BY <1>3, <1>4

(* A callback returns and gives its slot away. *)
LEMMA CallbackReturnStep == ASSUME IInv, CallbackReturn PROVE IInv'
<1> DEFINE frames == SubSeq(calling, 1, Len(calling) - 1)
<1>1. /\ calling # <<>> /\ ActivatePending(activeRequests, frames)
      /\ UNCHANGED <<requestVars, online, maximum, networkVars>>
    BY DEF CallbackReturn
<1>2. frames \in Seq(Requests) /\ Len(frames) = Len(calling) - 1
    <2>1. calling \in Seq(Requests) /\ calling # <<>>
        BY <1>1, Known
    <2> QED BY <2>1, ButLastFacts
<1> HIDE DEF frames
<1>3. Cardinality(activeRequests) + Len(frames) = Used - 1
    BY <1>2, Known DEF Used
<1>4. allRequests' = allRequests \ (activeRequests \ activeRequests)
    BY <1>1 DEF requestVars
<1>5. transforming' \subseteq allRequests' /\ created' = created
    BY <1>1 DEF requestVars, IInv, TypeOK
<1> QED BY <1>1, <1>2, <1>3, <1>4, <1>5, SlotFreed

----------------------------------------------------------------------------
(* Requests that are neither pending nor active are scheduled again. *)
LEMMA Rescheduled ==
    ASSUME IInv, NEW R \in SUBSET allRequests, Start(Schedulable(R)),
           UNCHANGED <<allRequests, created, pendingRequests, activeRequests, calling, maximum>>
    PROVE  /\ timer' \in Timers /\ failedReason' \in Failures
           /\ States' /\ SlotsInv' /\ Laid(pendingRequests)' /\ Untouched'
           /\ \A r \in Requests :
                timer'[r] = "never" => \/ ~network /\ failedReason'[r] = "Connection"
                                       \/ r \notin Schedulable(R) /\ timer[r] = "never"
                                          /\ failedReason'[r] = failedReason[r]
<1> DEFINE Q == Schedulable(R)
<1>1. Q \subseteq R /\ Q \in SUBSET Requests
    BY Known DEF Schedulable
<1>2. \A r \in Q : ~IsPending(r) /\ r \notin activeRequests
    BY DEF Schedulable, IsPending
<1> HIDE DEF Q
<1>3. /\ Retimed(Q)
      /\ \A r \in Q : /\ timer'[r] # "off"
                       /\ timer'[r] = "never" => ~network /\ failedReason'[r] = "Connection"
    <2>1. timer \in Timers /\ failedReason \in Failures /\ Start(Q)
        BY Known DEF Q
    <2> QED BY <1>1, <2>1, StartRetimes
<1>4. States'
    <2>1. \A r \in Requests : IsPending(r)' <=> IsPending(r)
        BY DEF IsPending
    <2> QED BY <1>1, <1>2, <1>3, <2>1 DEF IInv, States, Retimed
<1>5. SlotsInv' /\ Laid(pendingRequests)'
    BY DEF IInv, SlotsInv, Used, Laid
<1>6. Untouched'
    <2>1. Q \subseteq created
        BY <1>1, Known
    <2> QED BY <1>3, <2>1, Known DEF IInv, Untouched, Retimed
<1>7. /\ timer' \in Timers /\ failedReason' \in Failures
      /\ \A r \in Requests :
           timer'[r] = "never" => \/ ~network /\ failedReason'[r] = "Connection"
                                  \/ r \notin Q /\ timer[r] = "never"
                                     /\ failedReason'[r] = failedReason[r]
    <2>1. ASSUME NEW r \in Requests, r \notin Q
          PROVE  timer'[r] = timer[r] /\ failedReason'[r] = failedReason[r]
        BY <1>3, <2>1 DEF Retimed
    <2> QED BY <1>3, <2>1 DEF Retimed
<1>8. Q = Schedulable(R)
    BY DEF Q
<1> QED BY <1>4, <1>5, <1>6, <1>7, <1>8

LEMMA SetTransformedURLStep == ASSUME IInv, NEW r \in Requests, SetTransformedURL(r) PROVE IInv'
<1>1. /\ r \in transforming /\ transforming' = transforming \ {r} /\ Start(Schedulable({r}))
      /\ UNCHANGED <<allRequests, created, pendingRequests, activeRequests, calling, online,
                     maximum, networkVars>>
    BY DEF SetTransformedURL
<1>2. {r} \in SUBSET allRequests
    BY <1>1 DEF IInv, TypeOK
<1>3. /\ timer' \in Timers /\ failedReason' \in Failures
      /\ States' /\ SlotsInv' /\ Laid(pendingRequests)' /\ Untouched'
      /\ \A q \in Requests :
           timer'[q] = "never" => \/ ~network /\ failedReason'[q] = "Connection"
                                  \/ q \notin Schedulable({r}) /\ timer[q] = "never"
                                     /\ failedReason'[q] = failedReason[q]
    BY <1>1, <1>2, Rescheduled
<1>4. TypeOK'
    BY <1>1, <1>3 DEF IInv, TypeOK, Timers, Failures, networkVars
<1>5. NeverMeansOffline'
    BY <1>1, <1>3 DEF IInv, NeverMeansOffline, networkVars
<1> QED BY <1>3, <1>4, <1>5 DEF IInv

(* Every timer that never ends is looked at when the news arrives. *)
LEMMA NetworkIsReachableAgainStep == ASSUME IInv, NetworkIsReachableAgain PROVE IInv'
<1> DEFINE R == {r \in allRequests : failedReason[r] = "Connection"}
<1>1. /\ Start(Schedulable(R))
      /\ UNCHANGED <<requestVars, pendingRequests, activeRequests, calling, online, maximum,
                     network, reaching>>
      /\ notified' = FALSE
    BY DEF NetworkIsReachableAgain, Reschedule
<1>2. R \in SUBSET allRequests
    OBVIOUS
<1>3. \A r \in Requests : timer[r] = "never" => r \in Schedulable(R)
    BY Known DEF IInv, States, NeverMeansOffline, Schedulable, IsPending
<1> HIDE DEF R
<1>4. /\ timer' \in Timers /\ failedReason' \in Failures
      /\ States' /\ SlotsInv' /\ Laid(pendingRequests)' /\ Untouched'
      /\ \A q \in Requests :
           timer'[q] = "never" => \/ ~network /\ failedReason'[q] = "Connection"
                                  \/ q \notin Schedulable(R) /\ timer[q] = "never"
                                     /\ failedReason'[q] = failedReason[q]
    BY <1>1, <1>2, Rescheduled DEF requestVars
<1>5. TypeOK'
    BY <1>1, <1>4 DEF IInv, TypeOK, Timers, Failures, requestVars
<1>6. NeverMeansOffline'
    BY <1>1, <1>3, <1>4 DEF NeverMeansOffline
<1> QED BY <1>4, <1>5, <1>6 DEF IInv

LEMMA SetOnlineStatusStep == ASSUME IInv, SetOnlineStatus PROVE IInv'
<1> DEFINE R == {r \in allRequests : failedReason[r] = "Connection"}
<1>1. /\ Start(Schedulable(R)) /\ online' = ~online
      /\ UNCHANGED <<requestVars, pendingRequests, activeRequests, calling, maximum, networkVars>>
    BY DEF SetOnlineStatus, Reschedule
<1>2. R \in SUBSET allRequests
    OBVIOUS
<1> HIDE DEF R
<1>3. /\ timer' \in Timers /\ failedReason' \in Failures
      /\ States' /\ SlotsInv' /\ Laid(pendingRequests)' /\ Untouched'
      /\ \A q \in Requests :
           timer'[q] = "never" => \/ ~network /\ failedReason'[q] = "Connection"
                                  \/ q \notin Schedulable(R) /\ timer[q] = "never"
                                     /\ failedReason'[q] = failedReason[q]
    BY <1>1, <1>2, Rescheduled DEF requestVars
<1>4. TypeOK'
    BY <1>1, <1>3 DEF IInv, TypeOK, Timers, Failures, requestVars, networkVars
<1>5. NeverMeansOffline'
    BY <1>1, <1>3 DEF IInv, NeverMeansOffline, networkVars
<1> QED BY <1>3, <1>4, <1>5 DEF IInv

----------------------------------------------------------------------------
LEMMA TimerFiresStep == ASSUME IInv, NEW r \in Requests, TimerFires(r) PROVE IInv'
<1>1. /\ calling = <<>> /\ timer[r] = "armed"
      /\ UNCHANGED <<requestVars, online, maximum, networkVars>>
      /\ UNCHANGED <<allRequests, created, transforming>>
    BY DEF TimerFires, AtRunLoop, requestVars
<1>2. ~IsPending(r) /\ r \notin activeRequests /\ r \in allRequests
    BY <1>1 DEF IInv, States
<1>3. allRequests' \subseteq allRequests /\ transforming' \subseteq allRequests'
    BY <1>1 DEF IInv, TypeOK
<1>4. Used = Cardinality(activeRequests) /\ Used \in Nat /\ maximum \in Maxima /\ maximum \in Nat
    BY <1>1, Known, OnlineFileSourceAssumption DEF Used, IInv, TypeOK
<1>5. CASE Cardinality(activeRequests) >= maximum
    <2>1. /\ pendingRequests' = Insert(pendingRequests, r, r \in Regular)
          /\ timer' = [timer EXCEPT ![r] = "off"]
          /\ UNCHANGED <<activeRequests, failedReason, calling>>
        BY <1>5 DEF TimerFires
    <2>2. PutIn(pendingRequests, pendingRequests', r)
        BY <1>2, <2>1, Known, InsertFacts DEF IsPending
    <2>3. timer' \in Timers /\ \A q \in Requests : timer'[q] = IF q = r THEN "off" ELSE timer[q]
        BY <2>1, Known DEF Timers
    <2>4. TypeOK'
        BY <1>1, <1>3, <2>1, <2>2, <2>3, Known, TypesKept DEF PutIn, Laid
    <2>5. States'
        <3>1. \A q \in Requests : IsPending(q)' <=> IsPending(q) \/ q = r
            BY <2>2 DEF PutIn, IsPending
        <3> QED BY <1>1, <1>2, <2>1, <2>3, <3>1 DEF IInv, States
    <2>6. NeverMeansOffline'
        BY <1>1, <2>1, <2>3 DEF IInv, NeverMeansOffline, networkVars
    <2>7. SlotsInv'
        BY <1>4, <1>5, <2>1 DEF IInv, SlotsInv, Used
    <2> QED BY <1>1, <2>1, <2>2, <2>4, <2>5, <2>6, <2>7 DEF IInv, PutIn, Untouched
<1>6. CASE Cardinality(activeRequests) < maximum /\ online
    <2>1. /\ activeRequests' = activeRequests \cup {r} /\ timer' = [timer EXCEPT ![r] = "off"]
          /\ UNCHANGED <<pendingRequests, failedReason, calling>>
        <3>1. ~(Cardinality(activeRequests) >= maximum)
            BY <1>4, <1>6
        <3> QED BY <1>6, <3>1 DEF TimerFires
    <2>2. timer' \in Timers /\ \A q \in Requests : timer'[q] = IF q = r THEN "off" ELSE timer[q]
        BY <2>1, Known DEF Timers
    <2>3. TypeOK'
        BY <1>1, <1>3, <2>1, <2>2, Known, TypesKept
    <2>4. States'
        <3>1. \A q \in Requests : IsPending(q)' <=> IsPending(q)
            BY <2>1 DEF IsPending
        <3> QED BY <1>1, <1>2, <2>1, <2>2, <3>1 DEF IInv, States
    <2>5. NeverMeansOffline'
        BY <1>1, <2>1, <2>2 DEF IInv, NeverMeansOffline, networkVars
    <2>6. SlotsInv'
        <3>1. Used' = Used + 1
            <4>1. Cardinality(activeRequests') = Cardinality(activeRequests) + 1
                BY <1>2, <2>1, Known, FS_AddElement
            <4> QED BY <1>4, <2>1, <4>1, Known DEF Used
        <3>2. Used' <= maximum
            BY <1>4, <1>6, <3>1
        <3>3. pendingRequests.queue # <<>> => \E n \in Maxima : Used' >= n
            <4> SUFFICES ASSUME pendingRequests.queue # <<>> PROVE \E n \in Maxima : Used' >= n
                OBVIOUS
            <4>1. PICK n \in Maxima : Used >= n
                BY DEF IInv, SlotsInv
            <4>2. n \in Nat
                BY OnlineFileSourceAssumption
            <4> QED BY <1>4, <3>1, <4>1, <4>2
        <3> QED BY <1>4, <2>1, <3>2, <3>3 DEF SlotsInv
    <2> QED BY <1>1, <2>1, <2>3, <2>4, <2>5, <2>6 DEF IInv, Laid, Untouched
<1>7. CASE Cardinality(activeRequests) < maximum /\ ~online
    <2>1. /\ activeRequests' = activeRequests /\ calling' = Append(calling, r)
          /\ UNCHANGED pendingRequests /\ Complete(r, "Connection", FALSE)
        <3>1. ~(Cardinality(activeRequests) >= maximum)
            BY <1>4, <1>7
        <3> QED BY <1>7, <3>1 DEF TimerFires, Activate
    <2>2. /\ Retimed({r}) /\ timer'[r] # "off"
          /\ timer'[r] = "never" => ~network /\ failedReason'[r] = "Connection"
        BY <2>1, Known, CompleteRetimes DEF Reasons
    <2>3. calling' \in Seq(Requests) /\ Len(calling') = Len(calling) + 1
        BY <2>1, Known, AppendFacts
    <2>4. TypeOK'
        BY <1>1, <1>3, <2>1, <2>2, <2>3, Known, TypesKept DEF Retimed
    <2>5. States'
        <3>1. \A q \in Requests : IsPending(q)' <=> IsPending(q)
            BY <2>1 DEF IsPending
        <3> QED BY <1>1, <1>2, <2>1, <2>2, <3>1 DEF IInv, States, Retimed
    <2>6. NeverMeansOffline'
        BY <1>1, <2>2 DEF IInv, NeverMeansOffline, networkVars, Retimed
    <2>7. SlotsInv'
        <3>1. Used' = Used + 1
            BY <2>1, <2>3, Known DEF Used
        <3>2. Used' <= maximum
            BY <1>4, <1>7, <3>1
        <3>3. pendingRequests.queue # <<>> => \E n \in Maxima : Used' >= n
            <4> SUFFICES ASSUME pendingRequests.queue # <<>> PROVE \E n \in Maxima : Used' >= n
                OBVIOUS
            <4>1. PICK n \in Maxima : Used >= n
                BY DEF IInv, SlotsInv
            <4>2. n \in Nat
                BY OnlineFileSourceAssumption
            <4> QED BY <1>4, <3>1, <4>1, <4>2
        <3> QED BY <1>4, <2>1, <3>2, <3>3 DEF SlotsInv
    <2>8. Untouched'
        BY <1>1, <1>2, <2>2, Known DEF IInv, Untouched, Retimed
    <2> QED BY <2>1, <2>4, <2>5, <2>6, <2>7, <2>8 DEF IInv, Laid
<1> QED BY <1>4, <1>5, <1>6, <1>7, Known

LEMMA RespondStep ==
    ASSUME IInv, NEW r \in Requests, NEW reason \in Reasons, NEW expires \in BOOLEAN,
           Respond(r, reason, expires)
    PROVE  IInv'
<1>1. /\ calling = <<>> /\ r \in activeRequests /\ activeRequests' = activeRequests \ {r}
      /\ Complete(r, reason, expires) /\ calling' = <<r>>
      /\ UNCHANGED <<requestVars, pendingRequests, online, maximum, networkVars>>
      /\ UNCHANGED <<allRequests, created, transforming>>
    BY DEF Respond, AtRunLoop, requestVars
<1>2. r \in allRequests /\ timer[r] = "off" /\ ~IsPending(r)
    BY <1>1 DEF IInv, States
<1>3. Retimed({r})
    BY <1>1, Known, CompleteRetimes
<1>4. calling' \in Seq(Requests) /\ Len(calling') = 1
    BY <1>1
<1>5. allRequests' \subseteq allRequests /\ transforming' \subseteq allRequests'
    BY <1>1 DEF IInv, TypeOK
<1>6. TypeOK'
    BY <1>1, <1>3, <1>4, <1>5, Known, TypesKept DEF Retimed
<1>7. States'
    <2>1. \A q \in Requests : IsPending(q)' <=> IsPending(q)
        BY <1>1 DEF IsPending
    <2> QED BY <1>1, <1>2, <1>3, <2>1 DEF IInv, States, Retimed
<1>8. NeverMeansOffline'
    BY <1>1, <1>2, <1>3 DEF IInv, NeverMeansOffline, networkVars, Retimed
<1>9. SlotsInv'
    <2>1. Cardinality(activeRequests') = Cardinality(activeRequests) - 1
        BY <1>1, Known, FS_RemoveElement
    <2>2. Len(calling) = 0
        BY <1>1
    <2>3. Used' = Used
        BY <1>4, <2>1, <2>2, Known DEF Used
    <2> QED BY <1>1, <2>3 DEF IInv, SlotsInv
<1>10. Untouched'
    BY <1>1, <1>2, <1>3, Known DEF IInv, Untouched, Retimed
<1> QED BY <1>1, <1>6, <1>7, <1>8, <1>9, <1>10 DEF IInv, Laid

----------------------------------------------------------------------------
LEMMA InitIInv == Init => IInv
<1> SUFFICES ASSUME Init PROVE IInv
    OBVIOUS
<1>1. /\ allRequests = {} /\ created = {} /\ transforming = {} /\ activeRequests = {}
      /\ pendingRequests = [queue |-> <<>>, firstLow |-> 1] /\ calling = <<>>
      /\ timer = [r \in Requests |-> "off"] /\ failedReason = [r \in Requests |-> "None"]
      /\ online = TRUE /\ maximum \in Maxima
      /\ network = TRUE /\ reaching = 0 /\ notified = FALSE
    BY DEF Init, Empty
<1>2. pendingRequests.queue = <<>> /\ pendingRequests.firstLow = 1 /\ Len(<<>>) = 0
    BY <1>1
<1>3. pendingRequests \in Queues
    BY <1>1 DEF Queues
<1>4. TypeOK
    <2>1. reaching \in 0..MaxReaching
        BY <1>1, OnlineFileSourceAssumption
    <2>2. online \in BOOLEAN /\ network \in BOOLEAN /\ notified \in BOOLEAN
        BY <1>1
    <2>3. timer \in [Requests -> {"off", "armed", "never"}] /\ failedReason \in [Requests -> Reasons]
        BY <1>1 DEF Reasons
    <2>4. calling \in Seq(Requests)
        BY <1>1
    <2> QED BY <1>1, <1>3, <2>1, <2>2, <2>3, <2>4 DEF TypeOK, Queues
<1>5. Laid(pendingRequests)
    BY <1>2, <1>3 DEF Laid
<1>6. States /\ NeverMeansOffline /\ Untouched
    BY <1>1, <1>2 DEF States, NeverMeansOffline, Untouched, IsPending, Pending
<1>7. SlotsInv
    <2>1. Used = 0
        BY <1>1, FS_EmptySet DEF Used
    <2>2. maximum \in Maxima /\ maximum \in Nat
        BY <1>1, OnlineFileSourceAssumption
    <2> QED BY <1>2, <2>1, <2>2 DEF SlotsInv
<1> QED BY <1>4, <1>5, <1>6, <1>7 DEF IInv

(* NetworkStatus and the number of connections change under the requests' feet. *)
LEMMA SettingsStep ==
    ASSUME IInv, UNCHANGED <<requestVars, pendingRequests, activeRequests, timer, failedReason,
                             calling, online>>,
           maximum' \in Maxima, network' \in BOOLEAN, reaching' \in 0..MaxReaching,
           notified' \in BOOLEAN,
           ~network \/ reaching > 0 \/ notified => ~network' \/ reaching' > 0 \/ notified'
    PROVE  IInv'
<1>1. /\ UNCHANGED <<allRequests, created, transforming, pendingRequests, activeRequests, timer,
                    failedReason, calling, online>>
    BY DEF requestVars
<1>2. TypeOK'
    BY <1>1 DEF IInv, TypeOK
<1>3. States'
    <2>1. \A r \in Requests : IsPending(r)' <=> IsPending(r)
        BY <1>1 DEF IsPending
    <2> QED BY <1>1, <2>1 DEF IInv, States
<1>4. NeverMeansOffline'
    BY <1>1 DEF IInv, NeverMeansOffline
<1>5. SlotsInv' /\ Laid(pendingRequests)' /\ Untouched'
    BY <1>1 DEF IInv, SlotsInv, Used, Laid, Untouched
<1> QED BY <1>2, <1>3, <1>4, <1>5 DEF IInv

LEMMA SetMaximumStep ==
    ASSUME IInv, NEW n \in Maxima, SetMaximumConcurrentRequests(n) PROVE IInv'
<1>1. network \in BOOLEAN /\ reaching \in 0..MaxReaching /\ notified \in BOOLEAN
    BY DEF IInv, TypeOK
<1>2. maximum' \in Maxima /\ UNCHANGED <<network, reaching, notified>>
    BY DEF SetMaximumConcurrentRequests, networkVars
<1> QED BY <1>1, <1>2, SettingsStep DEF SetMaximumConcurrentRequests

LEMMA SetOfflineStep == ASSUME IInv, SetOffline PROVE IInv'
<1>1. maximum \in Maxima /\ reaching \in 0..MaxReaching /\ notified \in BOOLEAN
    BY DEF IInv, TypeOK
<1>2. network' = FALSE /\ UNCHANGED <<maximum, reaching, notified>>
    BY DEF SetOffline
<1> QED BY <1>1, <1>2, SettingsStep DEF SetOffline

LEMMA SetOnlineStep == ASSUME IInv, SetOnline PROVE IInv'
<1>1. maximum \in Maxima /\ reaching \in 0..MaxReaching /\ notified \in BOOLEAN
    BY DEF IInv, TypeOK
<1>2. /\ network' = TRUE /\ reaching' = reaching + 1 /\ reaching < MaxReaching
      /\ UNCHANGED <<maximum, notified>>
    BY DEF SetOnline
<1>3. reaching' \in 0..MaxReaching /\ reaching' > 0
    BY <1>1, <1>2, OnlineFileSourceAssumption
<1>4. maximum' \in Maxima /\ network' \in BOOLEAN /\ notified' \in BOOLEAN
    BY <1>1, <1>2
<1> QED BY <1>3, <1>4, SettingsStep DEF SetOnline

(* The last thread that is inside Set() notifies, or the network has gone again. *)
LEMMA ReachableStep == ASSUME IInv, Reachable PROVE IInv'
<1>1. /\ maximum \in Maxima /\ network \in BOOLEAN
      /\ reaching \in 0..MaxReaching /\ notified \in BOOLEAN
    BY DEF IInv, TypeOK
<1>2. reaching' = reaching - 1 /\ reaching > 0 /\ UNCHANGED <<maximum, network>>
    BY DEF Reachable
<1>3. reaching' \in 0..MaxReaching
    BY <1>1, <1>2, OnlineFileSourceAssumption
<1>4. notified' = (notified \/ network) /\ network' = network
    BY <1>2 DEF Reachable
<1>5. maximum' \in Maxima /\ network' \in BOOLEAN /\ notified' \in BOOLEAN
    BY <1>1, <1>2, <1>4
<1>6. ~network' \/ notified'
    BY <1>1, <1>4
<1> QED BY <1>3, <1>5, <1>6, SettingsStep DEF Reachable

LEMMA NextIInv == IInv /\ [Next]_vars => IInv'
<1> SUFFICES ASSUME IInv, [Next]_vars PROVE IInv'
    OBVIOUS
<1>1. ASSUME NEW r \in Requests, RequestStep(r) PROVE IInv'
    <2>1. CASE Create(r)
        BY <2>1, CreateStep
    <2>2. CASE Delete(r)
        BY <2>2, DeleteStep
    <2>3. CASE SetTransformedURL(r)
        BY <2>3, SetTransformedURLStep
    <2>4. CASE TimerFires(r)
        BY <2>4, TimerFiresStep
    <2>5. ASSUME NEW reason \in Reasons, NEW expires \in BOOLEAN, Respond(r, reason, expires)
          PROVE  IInv'
        BY <2>5, RespondStep
    <2> QED BY <1>1, <2>1, <2>2, <2>3, <2>4, <2>5 DEF RequestStep
<1>2. CASE CallbackReturn
    BY <1>2, CallbackReturnStep
<1>3. CASE NetworkIsReachableAgain
    BY <1>3, NetworkIsReachableAgainStep
<1>4. CASE SetOnlineStatus
    BY <1>4, SetOnlineStatusStep
<1>5. ASSUME NEW n \in Maxima, SetMaximumConcurrentRequests(n) PROVE IInv'
    BY <1>5, SetMaximumStep
<1>6. CASE SetOffline
    BY <1>6, SetOfflineStep
<1>7. CASE SetOnline
    BY <1>7, SetOnlineStep
<1>8. CASE Reachable
    BY <1>8, ReachableStep
<1>9. CASE UNCHANGED vars
    <2>1. /\ UNCHANGED <<requestVars, pendingRequests, activeRequests, timer, failedReason,
                         calling, online>>
          /\ UNCHANGED <<maximum, network, reaching, notified>>
        BY <1>9 DEF vars, networkVars
    <2>2. maximum \in Maxima /\ reaching \in 0..MaxReaching
        BY DEF IInv, TypeOK
    <2>3. network \in BOOLEAN /\ notified \in BOOLEAN
        BY DEF IInv, TypeOK
    <2> QED BY <2>1, <2>2, <2>3, SettingsStep
<1> QED BY <1>1, <1>2, <1>3, <1>4, <1>5, <1>6, <1>7, <1>8, <1>9 DEF Next

(* The inductive invariant holds in every reachable state. *)
THEOREM Invariant == Spec => []IInv
BY InitIInv, NextIInv, PTL DEF Spec

(* The variables keep their types. *)
THEOREM TypeCorrect == Spec => []TypeOK
<1>1. IInv => TypeOK
    BY DEF IInv
<1> QED BY <1>1, Invariant, PTL

(* Whatever the callbacks create and delete, a request is in one state at a time, its pointer   *)
(* stands in the queue only while it lives, and the border of the list is where the low ones     *)
(* begin.                                                                                        *)
THEOREM RequestLifetime == Spec => []OneStateAtATime
<1>1. IInv => OneStateAtATime
    BY DEF IInv, Laid, States, OneStateAtATime, ListLayout
<1> QED BY <1>1, Invariant, PTL

(* What SlotsUsed says of one step. *)
SlotsKept ==
    /\ Used' > Used => Used' <= maximum
    /\ (\E r \in Requests : ~IsPending(r) /\ IsPending(r)') => Used >= maximum
    /\ pendingRequests.queue # <<>> => Used' >= Used

LEMMA SlotsAlone ==
    ASSUME IInv, UNCHANGED <<pendingRequests, activeRequests, calling>> PROVE SlotsKept
<1>1. \A r \in Requests : IsPending(r)' <=> IsPending(r)
    BY DEF IsPending
<1>2. Used' = Used /\ Used \in Nat
    BY Known DEF Used
<1> QED BY <1>1, <1>2 DEF SlotsKept

(* A slot that becomes free is given away, or nobody waits for it. *)
LEMMA SlotsPassedOn ==
    ASSUME IInv, NEW active \in SUBSET activeRequests, NEW frames \in Seq(Requests),
           Cardinality(active) + Len(frames) = Used - 1, ActivatePending(active, frames)
    PROVE  SlotsKept
<1>1. /\ activeRequests \subseteq Requests /\ IsFiniteSet(activeRequests)
      /\ Used \in Nat /\ IsFiniteSet(active) /\ Cardinality(active) \in Nat
      /\ Laid(pendingRequests) /\ Len(frames) \in Nat
    BY Known, FS_Subset, FS_CardinalityType
<1>2. CASE pendingRequests.queue = <<>>
    <2>1. activeRequests' = active /\ calling' = frames /\ UNCHANGED pendingRequests
        BY <1>2 DEF ActivatePending
    <2>2. \A r \in Requests : IsPending(r)' <=> IsPending(r)
        BY <2>1 DEF IsPending
    <2>3. Used' = Used - 1
        BY <2>1 DEF Used
    <2> QED BY <1>1, <1>2, <2>2, <2>3 DEF SlotsKept
<1>3. CASE pendingRequests.queue # <<>>
    <2> DEFINE h == Head(pendingRequests.queue)
    <2>1. pendingRequests' = Pop(pendingRequests) /\ Activate(h, active, frames)
        BY <1>3 DEF ActivatePending
    <2>2. TakenOut(pendingRequests, pendingRequests', h) /\ h \in Requests /\ IsPending(h)
        BY <1>1, <1>3, <2>1, PopFacts DEF IsPending
    <2>3. \A r \in Requests : IsPending(r)' => IsPending(r)
        BY <2>2 DEF TakenOut, IsPending
    <2>4. h \notin activeRequests
        BY <2>2, Known
    <2> HIDE DEF h
    <2>5. CASE online
        <3>1. activeRequests' = active \cup {h} /\ calling' = frames
            BY <2>1, <2>5 DEF Activate
        <3>2. Cardinality(active \cup {h}) = Cardinality(active) + 1
            BY <1>1, <2>4, FS_AddElement
        <3>3. Used' = Used
            BY <1>1, <3>1, <3>2 DEF Used
        <3> QED BY <1>1, <2>3, <3>3 DEF SlotsKept
    <2>6. CASE ~online
        <3>1. activeRequests' = active /\ calling' = Append(frames, h)
            BY <2>1, <2>6 DEF Activate
        <3>2. Len(calling') = Len(frames) + 1
            BY <2>2, <3>1, AppendFacts
        <3>3. Used' = Used
            BY <1>1, <3>1, <3>2, SMTT(30) DEF Used
        <3> QED BY <1>1, <2>3, <3>3 DEF SlotsKept
    <2> QED BY <2>5, <2>6
<1> QED BY <1>2, <1>3

LEMMA SlotsDeleted == ASSUME IInv, NEW r \in Requests, Delete(r) PROVE SlotsKept
<1>1. CASE r \in activeRequests
    <2> DEFINE active == activeRequests \ {r}
    <2>1. ActivatePending(active, calling) /\ active \subseteq activeRequests
        BY <1>1 DEF Delete
    <2>2. Cardinality(active) = Cardinality(activeRequests) - 1
        BY <1>1, Known, FS_RemoveElement
    <2>3. Cardinality(active) + Len(calling) = Used - 1 /\ calling \in Seq(Requests)
        BY <2>2, Known DEF Used
    <2> HIDE DEF active
    <2> QED BY <2>1, <2>3, SlotsPassedOn
<1>2. CASE r \notin activeRequests
    <2>1. pendingRequests' = Drop(pendingRequests, r) /\ UNCHANGED <<activeRequests, calling>>
        BY <1>2 DEF Delete
    <2>2. TakenOut(pendingRequests, pendingRequests', r)
        BY <2>1, Known, DropFacts
    <2>3. \A q \in Requests : IsPending(q)' => IsPending(q)
        BY <2>2 DEF TakenOut, IsPending
    <2>4. Used' = Used /\ Used \in Nat
        BY <2>1, Known DEF Used
    <2> QED BY <2>3, <2>4 DEF SlotsKept
<1> QED BY <1>1, <1>2

LEMMA SlotsReturned == ASSUME IInv, CallbackReturn PROVE SlotsKept
<1> DEFINE frames == SubSeq(calling, 1, Len(calling) - 1)
<1>1. calling # <<>> /\ calling \in Seq(Requests) /\ ActivatePending(activeRequests, frames)
    BY Known DEF CallbackReturn
<1>2. frames \in Seq(Requests) /\ Len(frames) = Len(calling) - 1
    BY <1>1, ButLastFacts
<1> HIDE DEF frames
<1>3. Cardinality(activeRequests) + Len(frames) = Used - 1
    BY <1>2, Known DEF Used
<1> QED BY <1>1, <1>2, <1>3, SlotsPassedOn

LEMMA SlotsTimed == ASSUME IInv, NEW r \in Requests, TimerFires(r) PROVE SlotsKept
<1>1. calling = <<>> /\ r \notin activeRequests
    BY DEF TimerFires, AtRunLoop, IInv, States
<1>2. Used = Cardinality(activeRequests) /\ Used \in Nat /\ maximum \in Nat
    BY <1>1, Known, OnlineFileSourceAssumption DEF Used, IInv, TypeOK
<1>3. CASE Cardinality(activeRequests) >= maximum
    <2>1. UNCHANGED <<activeRequests, calling>>
        BY <1>3 DEF TimerFires
    <2> QED BY <1>2, <1>3, <2>1 DEF SlotsKept, Used
<1>4. CASE ~(Cardinality(activeRequests) >= maximum)
    <2>1. /\ UNCHANGED pendingRequests
          /\ \/ activeRequests' = activeRequests \cup {r} /\ UNCHANGED calling
             \/ activeRequests' = activeRequests /\ calling' = Append(calling, r)
        BY <1>4 DEF TimerFires, Activate
    <2>2. \A q \in Requests : IsPending(q)' <=> IsPending(q)
        BY <2>1 DEF IsPending
    <2>3. Used' = Used + 1
        <3>1. Cardinality(activeRequests \cup {r}) = Cardinality(activeRequests) + 1
            BY <1>1, Known, FS_AddElement
        <3>2. Len(Append(calling, r)) = Len(calling) + 1
            BY Known, AppendFacts
        <3>3. Cardinality(activeRequests) \in Nat /\ Len(calling) = 0
            BY <1>1, Known
        <3>4. CASE activeRequests' = activeRequests \cup {r} /\ UNCHANGED calling
            BY <1>2, <3>1, <3>3, <3>4 DEF Used
        <3>5. CASE activeRequests' = activeRequests /\ calling' = Append(calling, r)
            BY <1>2, <3>2, <3>3, <3>5, SMTT(30) DEF Used
        <3> QED BY <2>1, <3>4, <3>5
    <2> QED BY <1>2, <1>4, <2>2, <2>3 DEF SlotsKept
<1> QED BY <1>3, <1>4

(* The connection of a response is closed, and its callback begins. *)
LEMMA SlotsAnswered ==
    ASSUME IInv, NEW r \in Requests, NEW reason \in Reasons, NEW expires \in BOOLEAN,
           Respond(r, reason, expires)
    PROVE  SlotsKept
<1>1. /\ calling = <<>> /\ r \in activeRequests /\ activeRequests' = activeRequests \ {r}
      /\ calling' = <<r>> /\ UNCHANGED pendingRequests
    BY DEF Respond, AtRunLoop
<1>2. \A q \in Requests : IsPending(q)' <=> IsPending(q)
    BY <1>1 DEF IsPending
<1>3. Used' = Used /\ Used \in Nat
    <2>1. Cardinality(activeRequests') = Cardinality(activeRequests) - 1
        BY <1>1, Known, FS_RemoveElement
    <2>2. Len(calling) = 0 /\ Len(calling') = 1
        BY <1>1
    <2> QED BY <2>1, <2>2, Known DEF Used
<1> QED BY <1>2, <1>3 DEF SlotsKept

LEMMA NextSlots == ASSUME IInv, [Next]_vars PROVE [SlotsKept]_vars
<1>1. ASSUME NEW r \in Requests, RequestStep(r) PROVE SlotsKept
    <2>1. CASE Delete(r)
        BY <2>1, SlotsDeleted
    <2>2. CASE TimerFires(r)
        BY <2>2, SlotsTimed
    <2>3. ASSUME NEW reason \in Reasons, NEW expires \in BOOLEAN, Respond(r, reason, expires)
          PROVE  SlotsKept
        BY <2>3, SlotsAnswered
    <2>4. CASE Create(r) \/ SetTransformedURL(r)
        BY <2>4, SlotsAlone DEF Create, SetTransformedURL
    <2> QED BY <1>1, <2>1, <2>2, <2>3, <2>4 DEF RequestStep
<1>2. CASE CallbackReturn
    BY <1>2, SlotsReturned
<1>3. \/ \E r \in Requests : RequestStep(r)
      \/ CallbackReturn
      \/ UNCHANGED <<pendingRequests, activeRequests, calling>>
    BY DEF Next, NetworkIsReachableAgain, SetOnlineStatus, SetMaximumConcurrentRequests,
           SetOffline, SetOnline, Reachable, vars
<1> QED BY <1>1, <1>2, <1>3, SlotsAlone

(* Slots are taken below the current limit, requests wait once it is reached, and no slot is   *)
(* lost while one waits, for any requests, limits and changes of the limit.  A callback that    *)
(* has not returned holds the slot of its request, which is why the limit is not exceeded when  *)
(* callbacks delete, fail and nest.                                                             *)
THEOREM ConnectionsLimited == Spec => SlotsUsed
<1>1. ASSUME IInv, [Next]_vars PROVE [SlotsKept]_vars
    BY <1>1, NextSlots
<1> QED BY <1>1, Invariant, PTL DEF Spec, SlotsUsed, SlotsKept

(* A limit that is not changed is kept in every state, and no request waits while a slot is     *)
(* free.                                                                                        *)
THEOREM FixedLimitIsUsed ==
    ASSUME NEW n, Maxima = {n}
    PROVE  Spec => [](/\ Cardinality(activeRequests) <= n
                      /\ AtRunLoop /\ pendingRequests.queue # <<>> =>
                           Cardinality(activeRequests) = n)
<1>1. IInv => /\ Cardinality(activeRequests) <= n
              /\ AtRunLoop /\ pendingRequests.queue # <<>> => Cardinality(activeRequests) = n
    <2> SUFFICES ASSUME IInv
                 PROVE  /\ Cardinality(activeRequests) <= n
                        /\ AtRunLoop /\ pendingRequests.queue # <<>> =>
                             Cardinality(activeRequests) = n
        OBVIOUS
    <2>1. n \in Nat /\ Used <= n /\ (pendingRequests.queue # <<>> => Used >= n)
        BY OnlineFileSourceAssumption DEF IInv, SlotsInv
    <2>2. Cardinality(activeRequests) \in Nat /\ Len(calling) \in Nat
        BY Known
    <2>3. AtRunLoop => Len(calling) = 0
        BY DEF AtRunLoop
    <2> QED BY <2>1, <2>2, <2>3 DEF Used
<1> QED BY <1>1, Invariant, PTL

(* However the threads in NetworkStatus::Set() interleave with schedule(), a timeout that never  *)
(* ends is in force only while the network is away or its return is about to be told.             *)
THEOREM NoTimerIsForgotten == Spec => []NeverMeansOffline
<1>1. IInv => NeverMeansOffline
    BY DEF IInv
<1> QED BY <1>1, Invariant, PTL

----------------------------------------------------------------------------
(***************************************************************************)
(* The order in which the queue is served: the matrix of FifoByPriority for *)
(* a queue p that becomes n while the requests in alive remain.             *)
(***************************************************************************)
Fifo(p, n, alive) ==
    \A q, r \in Requests : q # r /\ Pending(p, r) =>
      /\ Pending(p, q) /\ ~Pending(n, q) /\ q \in alive =>
           /\ q \in Regular \/ r \notin Regular
           /\ SamePriority(q, r) => Before(p, q, r)
      /\ SamePriority(q, r) /\ Pending(n, r) /\ Pending(n, q) =>
           (Pending(p, q) /\ Before(p, q, r)) = Before(n, q, r)

(* The first request of the queue is of the highest priority there. *)
LEMMA FifoPopped ==
    ASSUME NEW p, Laid(p), p.queue # <<>>, NEW alive
    PROVE  Fifo(p, Pop(p), alive)
<1> DEFINE h == Head(p.queue)
<1>1. TakenOut(p, Pop(p), h) /\ h = p.queue[1] /\ 1 \in 1..Len(p.queue)
    BY PopFacts
<1>2. p.firstLow \in Nat \ {0} /\ Len(p.queue) \in Nat
    BY DEF Laid, Queues
<1> HIDE DEF h
<1> SUFFICES ASSUME NEW q \in Requests, NEW r \in Requests, q # r, Pending(p, r)
             PROVE  /\ Pending(p, q) /\ ~Pending(Pop(p), q) =>
                         /\ q \in Regular \/ r \notin Regular
                         /\ Before(p, q, r)
                    /\ Pending(Pop(p), r) /\ Pending(Pop(p), q) =>
                         (Pending(p, q) /\ Before(p, q, r)) = Before(Pop(p), q, r)
    BY DEF Fifo
<1>3. ASSUME Pending(p, q), ~Pending(Pop(p), q)
      PROVE  (q \in Regular \/ r \notin Regular) /\ Before(p, q, r)
    <2>1. q = h
        BY <1>1, <1>3 DEF TakenOut
    <2>2. PICK j \in 1..Len(p.queue) : p.queue[j] = r
        BY DEF Pending
    <2>3. 1 < j
        BY <1>1, <2>1, <2>2
    <2>4. Before(p, q, r)
        BY <1>1, <2>1, <2>2, <2>3 DEF Before
    <2>5. r \in Regular => q \in Regular
        <3>1. r \in Regular => j < p.firstLow
            BY <2>2 DEF Laid
        <3>2. 1 < p.firstLow => q \in Regular
            BY <1>1, <2>1 DEF Laid
        <3> QED BY <1>2, <2>3, <3>1, <3>2
    <2> QED BY <2>4, <2>5
<1>4. ASSUME Pending(Pop(p), r), Pending(Pop(p), q)
      PROVE  (Pending(p, q) /\ Before(p, q, r)) = Before(Pop(p), q, r)
    <2>1. Pending(p, q) /\ (Before(Pop(p), q, r) <=> Before(p, q, r))
        BY <1>1, <1>4 DEF TakenOut
    <2> QED BY <2>1 DEF Before
<1> QED BY <1>3, <1>4

(* A request that is deleted disturbs none of the others. *)
LEMMA FifoDropped ==
    ASSUME NEW p, NEW n, NEW x, TakenOut(p, n, x), NEW alive, x \notin alive
    PROVE  Fifo(p, n, alive)
<1> SUFFICES ASSUME NEW q \in Requests, NEW r \in Requests
             PROVE  /\ ~(Pending(p, q) /\ ~Pending(n, q) /\ q \in alive)
                    /\ Pending(n, r) /\ Pending(n, q) =>
                         (Pending(p, q) /\ Before(p, q, r)) = Before(n, q, r)
    BY DEF Fifo
<1>1. ~(Pending(p, q) /\ ~Pending(n, q) /\ q \in alive)
    BY DEF TakenOut
<1>2. ASSUME Pending(n, r), Pending(n, q)
      PROVE  (Pending(p, q) /\ Before(p, q, r)) = Before(n, q, r)
    <2>1. Pending(p, q) /\ (Before(n, q, r) <=> Before(p, q, r))
        BY <1>2 DEF TakenOut
    <2> QED BY <2>1 DEF Before
<1> QED BY <1>1, <1>2

(* A request that arrives goes behind those of its priority. *)
LEMMA FifoInserted ==
    ASSUME NEW p, NEW n, NEW x, PutIn(p, n, x), NEW alive
    PROVE  Fifo(p, n, alive)
<1> SUFFICES ASSUME NEW q \in Requests, NEW r \in Requests, q # r, Pending(p, r)
             PROVE  /\ ~(Pending(p, q) /\ ~Pending(n, q))
                    /\ SamePriority(q, r) /\ Pending(n, q) =>
                         (Pending(p, q) /\ Before(p, q, r)) = Before(n, q, r)
    BY DEF Fifo
<1>1. ~(Pending(p, q) /\ ~Pending(n, q))
    BY DEF PutIn
<1>2. ASSUME SamePriority(q, r), Pending(n, q)
      PROVE  (Pending(p, q) /\ Before(p, q, r)) = Before(n, q, r)
    <2>1. Pending(p, q) /\ Before(p, q, r) <=> Before(n, q, r)
        BY <1>2 DEF PutIn
    <2> QED BY <2>1 DEF Before
<1> QED BY <1>1, <1>2

LEMMA FifoKept == ASSUME NEW p, NEW alive PROVE Fifo(p, p, alive)
<1> SUFFICES ASSUME NEW q \in Requests, NEW r \in Requests, Pending(p, q)
             PROVE  (Pending(p, q) /\ Before(p, q, r)) = Before(p, q, r)
    BY DEF Fifo
<1> QED BY DEF Before

(* A freed slot takes nobody or the first. *)
LEMMA FifoActivated ==
    ASSUME IInv, NEW active, NEW frames, ActivatePending(active, frames)
    PROVE  Fifo(pendingRequests, pendingRequests', allRequests')
<1>1. CASE pendingRequests.queue = <<>>
    BY <1>1, FifoKept DEF ActivatePending
<1>2. CASE pendingRequests.queue # <<>>
    <2>1. pendingRequests' = Pop(pendingRequests)
        BY <1>2 DEF ActivatePending
    <2>2. Laid(pendingRequests)
        BY Known
    <2> QED BY <1>2, <2>1, <2>2, FifoPopped
<1> QED BY <1>1, <1>2

LEMMA NextFifo ==
    ASSUME IInv, Next PROVE Fifo(pendingRequests, pendingRequests', allRequests')
<1>1. CASE pendingRequests' = pendingRequests
    BY <1>1, FifoKept
<1>2. ASSUME NEW r \in Requests, Delete(r)
      PROVE  Fifo(pendingRequests, pendingRequests', allRequests')
    <2>1. CASE r \in activeRequests
        BY <1>2, <2>1, FifoActivated DEF Delete
    <2>2. CASE r \notin activeRequests
        <3>1. pendingRequests' = Drop(pendingRequests, r) /\ r \notin allRequests'
            BY <1>2, <2>2 DEF Delete
        <3>2. TakenOut(pendingRequests, pendingRequests', r)
            BY <3>1, Known, DropFacts
        <3> QED BY <3>1, <3>2, FifoDropped
    <2> QED BY <2>1, <2>2
<1>3. ASSUME NEW r \in Requests, TimerFires(r)
      PROVE  Fifo(pendingRequests, pendingRequests', allRequests')
    <2>1. CASE pendingRequests' = Insert(pendingRequests, r, r \in Regular)
        <3>1. ~Pending(pendingRequests, r)
            BY <1>3 DEF TimerFires, IInv, States, IsPending
        <3>2. PutIn(pendingRequests, pendingRequests', r)
            BY <2>1, <3>1, Known, InsertFacts
        <3> QED BY <3>2, FifoInserted
    <2> QED BY <1>1, <1>3, <2>1 DEF TimerFires
<1>4. CASE CallbackReturn
    BY <1>4, FifoActivated DEF CallbackReturn
<1>5. \/ \E r \in Requests : Delete(r) \/ TimerFires(r)
      \/ CallbackReturn
      \/ pendingRequests' = pendingRequests
    <2>1. ASSUME NEW r \in Requests, RequestStep(r)
          PROVE  Delete(r) \/ TimerFires(r) \/ pendingRequests' = pendingRequests
        BY <2>1 DEF RequestStep, Create, SetTransformedURL, Respond
    <2> QED BY <2>1 DEF Next, NetworkIsReachableAgain, SetOnlineStatus,
                        SetMaximumConcurrentRequests, SetOffline, SetOnline, Reachable
<1> QED BY <1>1, <1>2, <1>3, <1>4, <1>5

(* Of one priority the requests get their slots in the order of their arrival, and a low one     *)
(* only when no regular one waits, for any requests and whichever of them callbacks delete.       *)
THEOREM ServedInOrder == Spec => FifoByPriority
<1> DEFINE Order == \A q, r \in Requests : q # r /\ IsPending(r) =>
         /\ IsPending(q) /\ ~IsPending(q)' /\ q \in allRequests' =>
              /\ q \in Regular \/ r \notin Regular
              /\ SamePriority(q, r) => Before(pendingRequests, q, r)
         /\ SamePriority(q, r) /\ IsPending(r)' /\ IsPending(q)' =>
              (IsPending(q) /\ Before(pendingRequests, q, r)) = Before(pendingRequests', q, r)
<1>1. ASSUME IInv, [Next]_vars PROVE [Order]_vars
    <2>1. CASE Next
        <3>1. Fifo(pendingRequests, pendingRequests', allRequests')
            BY <1>1, <2>1, NextFifo
        <3> QED BY <3>1 DEF Fifo, IsPending
    <2> QED BY <1>1, <2>1
<1> QED BY <1>1, Invariant, PTL DEF Spec, FifoByPriority
=============================================================================
