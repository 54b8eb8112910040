--------------------------- MODULE Threads_proofs ---------------------------
(***************************************************************************)
(* Proofs about a Thread and its run loop, for any number of requests,      *)
(* pauses and threads of the pool.                                          *)
(***************************************************************************)
EXTENDS Threads, SequenceFacts

(* What the main thread does once it has stopped the loop. *)
After == {"joining", "joined", "terminating", "awaiting", "done"}

Tasks == {"receive", "noop", "unref"}
Loops == [high : Seq({"hold"}), default : Seq(Tasks), signalled : BOOLEAN, referenced : BOOLEAN]
Messages == {"request", "reply"}

(* Types of the variables. *)
TypeInv ==
    /\ main \in {"free", "pausing", "paused", "stopping"} \cup After
    /\ sent \in 0..MaxSends /\ handled \in Nat
    /\ pauses \in 0..MaxPauses /\ resumes \in 0..pauses /\ held \in 0..pauses
    /\ thread \in {"starting", "polling", "dispatching", "processing", "held", "notifying",
                   "received", "ended"}
    /\ loop \in Loops
    /\ mailbox \in Seq(Messages)
    /\ more \in BOOLEAN /\ stoppable \in BOOLEAN

(* The queue of high priority has the task of the pause under way and nothing else; the thread *)
(* is held from when it has taken it until this very pause is resumed.                         *)
PauseInv ==
    /\ main = "pausing" =>
         /\ resumes < pauses
         /\ \/ loop.high = <<"hold">> /\ held < pauses
            \/ loop.high = <<>> /\ held = pauses /\ thread = "held"
    /\ main = "paused" => resumes < pauses /\ thread = "held"
    /\ main # "pausing" => loop.high = <<>> /\ held = pauses
    /\ main \notin {"pausing", "paused"} => resumes = pauses
    /\ main # "free" => thread # "starting"

(* The thread has a message in hand and will schedule the mailbox after it. *)
Rescheduling == thread \in {"notifying", "received"} /\ more

(* A mailbox that is open and not in hand is scheduled when, and only when, it has a message, *)
(* and never twice.                                                                            *)
ScheduledIffFilled ==
    /\ OnceAtMost(loop.default, "receive")
    /\ Rescheduling => mailbox # <<>> /\ ~In(loop.default, "receive")
    /\ ~Rescheduling /\ thread \notin {"starting", "ended"} =>
         (mailbox # <<>> <=> In(loop.default, "receive"))

StartInv == thread = "starting" => loop.default = <<>>

Requested == Count(mailbox, {"request"})

(* The loop is only stopped when no request can be sent any more, and only left without one. *)
StopInv ==
    /\ In(loop.default, "unref") => main \in After
    /\ ~loop.referenced => main \in After /\ thread \notin {"starting", "dispatching", "held"}
    /\ ~loop.referenced /\ thread \in {"polling", "ended"} => Requested = 0
    /\ thread = "ended" => ~loop.referenced

(* Every request is in the mailbox or has been handled. *)
CountInv == handled + Requested = sent

IInv == TypeInv /\ PauseInv /\ ScheduledIffFilled /\ StartInv /\ StopInv /\ CountInv

----------------------------------------------------------------------------
(* What a task that is pushed changes. *)
LEMMA PushedDefault ==
    ASSUME NEW l \in Loops, NEW t \in Tasks
    PROVE  /\ Pushed(l, "default", t) \in Loops
           /\ Pushed(l, "default", t).high = l.high
           /\ Pushed(l, "default", t).referenced = l.referenced
           /\ Pushed(l, "default", t).default = Append(l.default, t)
           /\ Pushed(l, "default", t).default # <<>>
           /\ \A y : In(Pushed(l, "default", t).default, y) <=> In(l.default, y) \/ y = t
           /\ \A y : OnceAtMost(l.default, y) /\ (y = t => ~In(l.default, y))
                       => OnceAtMost(Pushed(l, "default", t).default, y)
<1>1. l.default \in Seq(Tasks)
    BY DEF Loops
<1>2. Pushed(l, "default", t).default = Append(l.default, t)
    BY DEF Pushed, Loops
<1>3. Append(l.default, t) \in Seq(Tasks) /\ Append(l.default, t) # <<>>
    BY <1>1, AppendFacts
<1>4. /\ Pushed(l, "default", t) \in Loops
      /\ Pushed(l, "default", t).high = l.high
      /\ Pushed(l, "default", t).referenced = l.referenced
    BY <1>3 DEF Pushed, Loops
<1>5. /\ \A y : In(Append(l.default, t), y) <=> In(l.default, y) \/ y = t
      /\ \A y : OnceAtMost(l.default, y) /\ (y = t => ~In(l.default, y))
                  => OnceAtMost(Append(l.default, t), y)
    BY <1>1, AppendIn
<1> QED BY <1>2, <1>3, <1>4, <1>5

LEMMA PushedHigh ==
    ASSUME NEW l \in Loops, l.high = <<>>
    PROVE  /\ Pushed(l, "high", "hold") \in Loops
           /\ Pushed(l, "high", "hold").high = <<"hold">>
           /\ Pushed(l, "high", "hold").referenced = l.referenced
           /\ Pushed(l, "high", "hold").default = l.default
<1>1. Append(l.high, "hold") = <<"hold">> /\ <<"hold">> \in Seq({"hold"})
    OBVIOUS
<1> QED BY <1>1 DEF Pushed, Loops

(* What a task that is taken changes. *)
LEMMA PoppedDefault ==
    ASSUME loop \in Loops, loop.default # <<>>
    PROVE  /\ Popped("default") \in Loops
           /\ Popped("default").high = loop.high
           /\ Popped("default").referenced = loop.referenced
           /\ \A y : In(loop.default, y) <=> In(Popped("default").default, y) \/ y = Head(loop.default)
           /\ \A y : OnceAtMost(loop.default, y) =>
                       /\ OnceAtMost(Popped("default").default, y)
                       /\ (y = Head(loop.default) => ~In(Popped("default").default, y))
<1>1. loop.default \in Seq(Tasks)
    BY DEF Loops
<1>2. Popped("default").default = Tail(loop.default)
    BY DEF Popped, Loops
<1>3. Tail(loop.default) \in Seq(Tasks)
    BY <1>1, TailFacts
<1>4. Popped("default") \in Loops /\ Popped("default").high = loop.high
      /\ Popped("default").referenced = loop.referenced
    BY <1>3 DEF Popped, Loops
<1>5. /\ \A y : In(loop.default, y) <=> In(Tail(loop.default), y) \/ y = Head(loop.default)
      /\ \A y : OnceAtMost(loop.default, y) =>
                  /\ OnceAtMost(Tail(loop.default), y)
                  /\ (y = Head(loop.default) => ~In(Tail(loop.default), y))
    BY <1>1, TailIn
<1> QED BY <1>2, <1>4, <1>5

----------------------------------------------------------------------------
LEMMA InitIInv == Init => IInv
<1> SUFFICES ASSUME Init PROVE IInv
    OBVIOUS
<1>1. TypeInv
    <2>1. \A S : <<>> \in Seq(S)
        OBVIOUS
    <2>2. loop \in Loops /\ mailbox \in Seq(Messages)
        BY <2>1 DEF Init, Loops
    <2>3. sent \in 0..MaxSends /\ pauses \in 0..MaxPauses /\ resumes \in 0..pauses /\ held \in 0..pauses
        BY ThreadsAssumption DEF Init
    <2>4. more \in BOOLEAN /\ stoppable \in BOOLEAN /\ handled \in Nat
        BY DEF Init
    <2> QED BY <2>2, <2>3, <2>4 DEF Init, TypeInv
<1>2. PauseInv /\ StartInv
    BY DEF Init, PauseInv, StartInv
<1>3. ScheduledIffFilled /\ StopInv /\ CountInv
    BY EmptyIn DEF Init, ScheduledIffFilled, Rescheduling, StopInv, CountInv, Requested
<1> QED BY <1>1, <1>2, <1>3 DEF IInv

(* What a message that is told changes. *)
LEMMA TellFacts ==
    ASSUME IInv, NEW m \in Messages, Tell(m), thread # "ended", UNCHANGED <<thread, more>>
    PROVE  /\ mailbox' \in Seq(Messages) /\ loop' \in Loops
           /\ loop'.high = loop.high /\ loop'.referenced = loop.referenced
           /\ In(loop'.default, "unref") <=> In(loop.default, "unref")
           /\ ScheduledIffFilled' /\ StartInv'
           /\ Requested \in Nat
           /\ Requested' = Requested + (IF m = "request" THEN 1 ELSE 0)
<1>0. mailbox \in Seq(Messages) /\ loop \in Loops
    BY DEF IInv, TypeInv
<1>1. mailbox' = Append(mailbox, m) /\ mailbox' # <<>> /\ mailbox' \in Seq(Messages)
    <2>1. Append(mailbox, m) # <<>> /\ Append(mailbox, m) \in Seq(Messages)
        BY <1>0, AppendFacts
    <2> QED BY <2>1 DEF Tell
<1>2. Requested \in Nat /\ Requested' = Requested + (IF m = "request" THEN 1 ELSE 0)
    <2>1. Count(mailbox, {"request"}) \in Nat
        BY <1>0, PlacesFinite
    <2>2. /\ m \in {"request"} => Count(Append(mailbox, m), {"request"}) = Requested + 1
          /\ m \notin {"request"} => Count(Append(mailbox, m), {"request"}) = Requested
        BY <1>0, CountAppend DEF Requested
    <2> QED BY <1>1, <2>1, <2>2 DEF Requested
<1>3. CASE mailbox = <<>> /\ thread # "starting"
    <2>1. loop' = Pushed(loop, "default", "receive")
        BY <1>3 DEF Tell
    <2>2. ~In(loop.default, "receive") /\ ~Rescheduling /\ ~Rescheduling'
        BY <1>3 DEF IInv, ScheduledIffFilled, Rescheduling
    <2>3. ScheduledIffFilled' /\ StartInv'
        BY <1>0, <1>1, <1>3, <2>1, <2>2, PushedDefault DEF IInv, ScheduledIffFilled, StartInv, Tasks
    <2> QED BY <1>0, <1>1, <1>2, <2>1, <2>3, PushedDefault DEF Tasks
<1>4. CASE mailbox # <<>> \/ thread = "starting"
    <2>1. loop' = loop
        BY <1>4 DEF Tell
    <2>2. ScheduledIffFilled' /\ StartInv'
        BY <1>1, <1>4, <2>1 DEF IInv, ScheduledIffFilled, StartInv, Rescheduling
    <2> QED BY <1>0, <1>1, <1>2, <2>1, <2>2
<1> QED BY <1>3, <1>4

----------------------------------------------------------------------------
(* The main thread. *)
LEMMA SendStep == ASSUME IInv, Send PROVE IInv'
<1>1. main \in {"free", "paused"} /\ main \notin After /\ thread # "ended" /\ loop.referenced
    BY DEF IInv, TypeInv, Send, StopInv, After
<1>2. Tell("request") /\ "request" \in Messages /\ UNCHANGED <<thread, more>>
    BY DEF Send, Messages
<1>3. /\ mailbox' \in Seq(Messages) /\ loop' \in Loops
      /\ loop'.high = loop.high /\ loop'.referenced = loop.referenced
      /\ In(loop'.default, "unref") <=> In(loop.default, "unref")
      /\ ScheduledIffFilled' /\ StartInv'
      /\ Requested \in Nat /\ Requested' = Requested + 1
    BY <1>1, <1>2, TellFacts
<1>4. TypeInv'
    BY <1>3, ThreadsAssumption DEF IInv, TypeInv, Send
<1>5. PauseInv'
    BY <1>3 DEF IInv, PauseInv, Send
<1>6. StopInv'
    BY <1>1, <1>3 DEF IInv, StopInv, Send
<1>7. CountInv'
    BY <1>3 DEF IInv, TypeInv, CountInv, Send
<1> QED BY <1>3, <1>4, <1>5, <1>6, <1>7 DEF IInv

LEMMA PauseStep == ASSUME IInv, Pause PROVE IInv'
<1>1. loop \in Loops /\ loop.high = <<>> /\ main = "free" /\ resumes = pauses /\ held = pauses
    BY DEF IInv, TypeInv, PauseInv, Pause
<1>2. /\ loop' \in Loops /\ loop'.high = <<"hold">>
      /\ loop'.default = loop.default /\ loop'.referenced = loop.referenced
    BY <1>1, PushedHigh DEF Pause
<1>3. TypeInv' /\ resumes' < pauses' /\ held' < pauses'
    BY <1>1, <1>2, ThreadsAssumption DEF IInv, TypeInv, Pause
<1>4. PauseInv'
    BY <1>1, <1>2, <1>3 DEF PauseInv, Pause
<1>5. ScheduledIffFilled' /\ StartInv'
    BY <1>2 DEF IInv, ScheduledIffFilled, Rescheduling, StartInv, Pause
<1>6. StopInv'
    BY <1>1, <1>2 DEF IInv, StopInv, Requested, After, Pause
<1>7. CountInv'
    BY DEF IInv, CountInv, Requested, Pause
<1> QED BY <1>3, <1>4, <1>5, <1>6, <1>7 DEF IInv

LEMMA PauseReturnsStep == ASSUME IInv, PauseReturns PROVE IInv'
<1> USE DEF PauseReturns, loopVars, poolVars
<1>1. TypeInv'
    BY DEF IInv, TypeInv
<1>2. PauseInv'
    BY DEF IInv, TypeInv, PauseInv
<1>3. ScheduledIffFilled' /\ StartInv'
    BY DEF IInv, ScheduledIffFilled, Rescheduling, StartInv
<1>4. StopInv'
    BY DEF IInv, StopInv, Requested, After
<1>5. CountInv'
    BY DEF IInv, CountInv, Requested
<1> QED BY <1>1, <1>2, <1>3, <1>4, <1>5 DEF IInv

LEMMA ResumeStep == ASSUME IInv, Resume PROVE IInv'
<1> USE DEF Resume, loopVars, poolVars
<1>1. TypeInv'
    BY DEF IInv, TypeInv
<1>2. PauseInv'
    BY DEF IInv, TypeInv, PauseInv
<1>3. ScheduledIffFilled' /\ StartInv'
    BY DEF IInv, ScheduledIffFilled, Rescheduling, StartInv
<1>4. StopInv'
    BY DEF IInv, StopInv, Requested, After
<1>5. CountInv'
    BY DEF IInv, CountInv, Requested
<1> QED BY <1>1, <1>2, <1>3, <1>4, <1>5 DEF IInv

(* Pushing a task that is not the mailbox's leaves the mailbox as it was. *)
LEMMA OtherTask ==
    ASSUME IInv, NEW t \in Tasks, t # "receive", thread # "starting",
           loop' = Pushed(loop, "default", t), UNCHANGED <<thread, mailbox, more>>
    PROVE  /\ loop' \in Loops /\ loop'.high = loop.high /\ loop'.referenced = loop.referenced
           /\ In(loop'.default, "unref") <=> In(loop.default, "unref") \/ t = "unref"
           /\ ScheduledIffFilled' /\ StartInv' /\ Requested' = Requested
<1>1. loop \in Loops
    BY DEF IInv, TypeInv
<1>2. /\ In(loop'.default, "receive") <=> In(loop.default, "receive")
      /\ OnceAtMost(loop.default, "receive") => OnceAtMost(loop'.default, "receive")
    BY <1>1, PushedDefault
<1>3. ScheduledIffFilled'
    BY <1>2 DEF IInv, ScheduledIffFilled, Rescheduling
<1> QED BY <1>1, <1>3, PushedDefault DEF StartInv, Requested

LEMMA DestroyStep == ASSUME IInv, Destroy PROVE IInv'
<1> USE DEF Destroy, poolVars
<1>1. /\ loop' \in Loops /\ loop'.high = loop.high /\ loop'.referenced = loop.referenced
      /\ In(loop'.default, "unref") <=> In(loop.default, "unref")
      /\ ScheduledIffFilled' /\ StartInv' /\ Requested' = Requested
    <2>1. "noop" \in Tasks /\ thread # "starting"
        BY DEF Tasks
    <2> QED BY <2>1, OtherTask
<1>2. TypeInv'
    BY <1>1 DEF IInv, TypeInv
<1>3. PauseInv'
    BY <1>1 DEF IInv, TypeInv, PauseInv
<1>4. StopInv'
    BY <1>1 DEF IInv, StopInv, After
<1>5. CountInv'
    BY <1>1 DEF IInv, CountInv
<1> QED BY <1>1, <1>2, <1>3, <1>4, <1>5 DEF IInv

LEMMA StopStep == ASSUME IInv, Stop PROVE IInv'
<1> USE DEF Stop, poolVars
<1>1. /\ loop' \in Loops /\ loop'.high = loop.high /\ loop'.referenced = loop.referenced
      /\ ScheduledIffFilled' /\ StartInv' /\ Requested' = Requested
    <2>1. "unref" \in Tasks /\ thread # "starting"
        BY DEF Tasks, IInv, PauseInv
    <2> QED BY <2>1, OtherTask
<1>2. TypeInv'
    BY <1>1 DEF IInv, TypeInv, After
<1>3. PauseInv'
    BY <1>1 DEF IInv, PauseInv
<1>4. StopInv'
    BY <1>1 DEF IInv, StopInv, After
<1>5. CountInv'
    BY <1>1 DEF IInv, CountInv
<1> QED BY <1>1, <1>2, <1>3, <1>4, <1>5 DEF IInv

(* What the main thread does after it has stopped the loop. *)
LEMMA AfterStep ==
    ASSUME IInv, Join \/ Terminate \/ NotifyAll \/ JoinWorkers PROVE IInv'
<1>1. main \in After /\ main' \in After /\ UNCHANGED <<sent, pauses, resumes, loopVars>>
    BY DEF After, Join, Terminate, NotifyAll, JoinWorkers
<1> USE DEF loopVars
<1>2. TypeInv'
    BY <1>1 DEF IInv, TypeInv
<1>3. PauseInv'
    BY <1>1 DEF IInv, PauseInv, After
<1>4. ScheduledIffFilled' /\ StartInv'
    BY <1>1 DEF IInv, ScheduledIffFilled, Rescheduling, StartInv
<1>5. StopInv'
    BY <1>1 DEF IInv, StopInv, Requested
<1>6. CountInv'
    BY <1>1 DEF IInv, CountInv, Requested
<1> QED BY <1>2, <1>3, <1>4, <1>5, <1>6 DEF IInv

----------------------------------------------------------------------------
(* The object's thread. *)
LEMMA StartStep == ASSUME IInv, Start PROVE IInv'
<1> USE DEF Start, mainVars, poolVars
<1>1. /\ loop \in Loops /\ loop.default = <<>> /\ thread' = "polling"
      /\ ~In(loop.default, "receive") /\ ~Rescheduling' /\ loop.referenced
    BY EmptyIn DEF IInv, TypeInv, StartInv, Rescheduling, StopInv
<1>2. /\ loop' \in Loops /\ loop'.high = loop.high /\ loop'.referenced = loop.referenced
      /\ In(loop'.default, "unref") <=> In(loop.default, "unref")
      /\ In(loop'.default, "receive") <=> mailbox # <<>>
      /\ OnceAtMost(loop'.default, "receive")
    BY <1>1, PushedDefault DEF Tasks, IInv, ScheduledIffFilled
<1>3. TypeInv'
    BY <1>2 DEF IInv, TypeInv
<1>4. PauseInv'
    BY <1>2 DEF IInv, PauseInv
<1>5. ScheduledIffFilled' /\ StartInv'
    BY <1>1, <1>2 DEF ScheduledIffFilled, StartInv
<1>6. StopInv'
    BY <1>1, <1>2 DEF IInv, StopInv, Requested
<1>7. CountInv'
    BY DEF IInv, CountInv, Requested
<1> QED BY <1>3, <1>4, <1>5, <1>6, <1>7 DEF IInv

LEMMA PollStep == ASSUME IInv, Poll PROVE IInv'
<1> USE DEF Poll, mainVars, poolVars
<1>1. /\ loop' \in Loops /\ loop'.high = loop.high /\ loop'.referenced = loop.referenced
      /\ loop'.default = loop.default
    BY DEF IInv, TypeInv, Loops
<1>2. TypeInv'
    BY <1>1 DEF IInv, TypeInv
<1>3. PauseInv'
    BY <1>1 DEF IInv, PauseInv
<1>4. ScheduledIffFilled' /\ StartInv'
    BY <1>1 DEF IInv, ScheduledIffFilled, Rescheduling, StartInv
<1>5. StopInv'
    BY <1>1 DEF IInv, StopInv, Requested
<1>6. CountInv'
    BY DEF IInv, CountInv, Requested
<1> QED BY <1>2, <1>3, <1>4, <1>5, <1>6 DEF IInv

(* Steps that change nothing but the state of the thread. *)
LEMMA QuietStep ==
    ASSUME IInv, Event \/ EventHandled \/ Exit \/ Processed \/ Resumed \/ Notify
    PROVE  IInv'
<1>1. /\ UNCHANGED <<held, stoppable, loop, mailbox, more, handled, mainVars>>
      /\ thread' \in {"polling", "dispatching", "processing", "received", "ended"}
      /\ thread # "starting" /\ thread # "ended"
    BY DEF Event, EventHandled, Exit, Processed, Resumed, Notify, poolVars
<1> USE DEF mainVars
<1>2. TypeInv'
    BY <1>1 DEF IInv, TypeInv
<1>3. PauseInv'
    <2>1. CASE Resumed
        <3>1. main # "paused" /\ (main = "pausing" => loop.high = <<"hold">> /\ held < pauses)
            BY <2>1 DEF IInv, TypeInv, PauseInv, Resumed
        <3> QED BY <1>1, <2>1, <3>1 DEF IInv, PauseInv
    <2>2. CASE ~Resumed
        <3>1. thread # "held"
            BY <2>2 DEF Event, EventHandled, Exit, Processed, Notify
        <3> QED BY <1>1, <3>1 DEF IInv, PauseInv
    <2> QED BY <2>1, <2>2
<1>4. ScheduledIffFilled' /\ StartInv'
    <2>1. Rescheduling <=> Rescheduling'
        BY <1>1 DEF Rescheduling, Event, EventHandled, Exit, Processed, Resumed, Notify
    <2> QED BY <1>1, <2>1 DEF IInv, ScheduledIffFilled, StartInv
<1>5. StopInv'
    <2>1. CASE Processed
        <3>1. ~In(loop.default, "receive") /\ ~Rescheduling /\ thread = "processing"
            BY <2>1, EmptyIn DEF Processed, Drained, Rescheduling
        <3>2. mailbox = <<>>
            BY <3>1 DEF IInv, ScheduledIffFilled
        <3>3. Requested = 0
            BY <3>2, EmptyIn DEF Requested
        <3> QED BY <1>1, <2>1, <3>3 DEF IInv, StopInv, Requested, Processed
    <2>2. CASE ~Processed
        BY <1>1, <2>2 DEF IInv, StopInv, Requested, Event, EventHandled, Exit, Resumed, Notify
    <2> QED BY <2>1, <2>2
<1>6. CountInv'
    BY <1>1 DEF IInv, CountInv, Requested
<1> QED BY <1>2, <1>3, <1>4, <1>5, <1>6 DEF IInv

LEMMA HoldStep == ASSUME IInv, Hold PROVE IInv'
<1> USE DEF Hold, Taken, mainVars, poolVars
<1>1. main = "pausing" /\ loop.high = <<"hold">> /\ loop \in Loops /\ loop.referenced
    BY DEF IInv, TypeInv, PauseInv, StopInv, After
<1>2. /\ loop' \in Loops /\ loop'.high = <<>> /\ loop'.referenced = loop.referenced
      /\ loop'.default = loop.default
    <2>1. Tail(<<"hold">>) = <<>> /\ <<>> \in Seq({"hold"})
        OBVIOUS
    <2> QED BY <1>1, <2>1 DEF Popped, Loops
<1>3. TypeInv'
    BY <1>2 DEF IInv, TypeInv
<1>4. PauseInv'
    BY <1>1, <1>2 DEF IInv, PauseInv
<1>5. ScheduledIffFilled' /\ StartInv'
    BY <1>2 DEF IInv, ScheduledIffFilled, Rescheduling, StartInv
<1>6. StopInv'
    BY <1>1, <1>2 DEF IInv, StopInv, Requested
<1>7. CountInv'
    BY DEF IInv, CountInv, Requested
<1> QED BY <1>3, <1>4, <1>5, <1>6, <1>7 DEF IInv

(* Taking a task that is not the mailbox's leaves the mailbox as it was. *)
LEMMA OtherTaken ==
    ASSUME IInv, NEW t, t # "receive", Taken("default", t),
           loop'.default = Popped("default").default, UNCHANGED <<thread, mailbox, more>>
    PROVE  ScheduledIffFilled' /\ StartInv' /\ Requested' = Requested
<1>1. loop \in Loops /\ loop.default # <<>> /\ Head(loop.default) # "receive"
      /\ thread = "processing"
    BY DEF IInv, TypeInv, Taken
<1>2. /\ In(loop'.default, "receive") <=> In(loop.default, "receive")
      /\ OnceAtMost(loop.default, "receive") => OnceAtMost(loop'.default, "receive")
    BY <1>1, PoppedDefault
<1> QED BY <1>1, <1>2 DEF IInv, ScheduledIffFilled, Rescheduling, StartInv, Requested

LEMMA NoopStep == ASSUME IInv, Noop PROVE IInv'
<1> USE DEF Noop, mainVars, poolVars
<1>1. loop \in Loops /\ loop.default # <<>>
    BY DEF IInv, TypeInv, Taken
<1>2. /\ loop' \in Loops /\ loop'.high = loop.high /\ loop'.referenced = loop.referenced
      /\ In(loop'.default, "unref") => In(loop.default, "unref")
    BY <1>1, PoppedDefault
<1>3. ScheduledIffFilled' /\ StartInv' /\ Requested' = Requested
    BY OtherTaken
<1>4. TypeInv'
    BY <1>2 DEF IInv, TypeInv
<1>5. PauseInv'
    BY <1>2 DEF IInv, PauseInv
<1>6. StopInv'
    BY <1>2, <1>3 DEF IInv, StopInv
<1>7. CountInv'
    BY <1>3 DEF IInv, CountInv
<1> QED BY <1>3, <1>4, <1>5, <1>6, <1>7 DEF IInv

LEMMA UnrefStep == ASSUME IInv, Unref PROVE IInv'
<1> USE DEF Unref, mainVars, poolVars
<1>1. /\ loop \in Loops /\ loop.default # <<>> /\ Head(loop.default) = "unref"
      /\ thread = "processing"
    BY DEF IInv, TypeInv, Taken
<1>2. Popped("default") \in Loops /\ Popped("default").high = loop.high
    BY <1>1, PoppedDefault
<1>3. /\ loop' \in Loops /\ loop'.high = loop.high /\ ~loop'.referenced
      /\ loop'.default = Popped("default").default
    BY <1>2 DEF Loops
<1>4. ScheduledIffFilled' /\ StartInv' /\ Requested' = Requested
    BY <1>3, OtherTaken
<1>5. In(loop.default, "unref")
    BY <1>1, PoppedDefault
<1>6. TypeInv'
    BY <1>3 DEF IInv, TypeInv
<1>7. PauseInv'
    BY <1>3 DEF IInv, PauseInv
<1>8. StopInv'
    BY <1>1, <1>3, <1>4, <1>5 DEF IInv, StopInv
<1>9. CountInv'
    BY <1>4 DEF IInv, CountInv
<1> QED BY <1>4, <1>6, <1>7, <1>8, <1>9 DEF IInv

(* The message in hand is counted as handled when it is a request. *)
LEMMA ReceiveStep == ASSUME IInv, Receive PROVE IInv'
<1> USE DEF Receive, mainVars
<1>1. /\ loop \in Loops /\ loop.default # <<>> /\ Head(loop.default) = "receive"
      /\ thread = "processing" /\ mailbox \in Seq(Messages) /\ ~Rescheduling
    BY DEF IInv, TypeInv, Taken, Rescheduling
<1>2. /\ loop' \in Loops /\ loop'.high = loop.high /\ loop'.referenced = loop.referenced
      /\ In(loop'.default, "unref") => In(loop.default, "unref")
      /\ In(loop.default, "receive") /\ ~In(loop'.default, "receive")
      /\ OnceAtMost(loop'.default, "receive")
    BY <1>1, PoppedDefault DEF IInv, ScheduledIffFilled
<1>3. mailbox # <<>> /\ mailbox' = Tail(mailbox) /\ (more' <=> mailbox' # <<>>)
    BY <1>1, <1>2 DEF IInv, ScheduledIffFilled
<1>4. mailbox' \in Seq(Messages)
    BY <1>1, <1>3, TailFacts
<1>5. /\ thread' \in {"notifying", "received"}
      /\ handled' = handled + (IF Head(mailbox) = "request" THEN 1 ELSE 0)
    BY DEF IInv, TypeInv
<1>6. /\ Requested' \in Nat /\ Requested \in Nat
      /\ Requested = Requested' + (IF Head(mailbox) = "request" THEN 1 ELSE 0)
    <2>1. Count(mailbox, {"request"}) \in Nat /\ Count(mailbox', {"request"}) \in Nat
        BY <1>1, <1>4, PlacesFinite
    <2>2. /\ Head(mailbox) \in {"request"} => Requested = Count(Tail(mailbox), {"request"}) + 1
          /\ Head(mailbox) \notin {"request"} => Requested = Count(Tail(mailbox), {"request"})
        BY <1>1, <1>3, CountTail DEF Requested
    <2> QED BY <1>3, <2>1, <2>2 DEF Requested
<1>7. TypeInv'
    <2>1. handled' \in Nat
        BY <1>5 DEF IInv, TypeInv
    <2>2. more' \in BOOLEAN
        OBVIOUS
    <2> QED BY <1>2, <1>4, <1>5, <2>1, <2>2 DEF IInv, TypeInv
<1>8. PauseInv'
    BY <1>1, <1>2, <1>5 DEF IInv, PauseInv
<1>9. ScheduledIffFilled' /\ StartInv'
    BY <1>2, <1>3, <1>5 DEF ScheduledIffFilled, StartInv, Rescheduling
<1>10. StopInv'
    BY <1>2, <1>5 DEF IInv, StopInv
<1>11. CountInv'
    <2>1. handled \in Nat /\ handled + Requested = sent /\ sent' = sent
        BY DEF IInv, TypeInv, CountInv
    <2> HIDE DEF Receive
    <2> QED BY <1>5, <1>6, <2>1 DEF CountInv
<1> QED BY <1>7, <1>8, <1>9, <1>10, <1>11 DEF IInv

LEMMA ReceivedStep == ASSUME IInv, Received PROVE IInv'
<1> USE DEF Received, mainVars, poolVars
<1>1. loop \in Loops /\ (Rescheduling <=> more) /\ ~Rescheduling' /\ thread' = "processing"
    BY DEF IInv, TypeInv, Rescheduling
<1>2. /\ loop' \in Loops /\ loop'.high = loop.high /\ loop'.referenced = loop.referenced
      /\ In(loop'.default, "unref") <=> In(loop.default, "unref")
      /\ OnceAtMost(loop'.default, "receive")
      /\ mailbox # <<>> <=> In(loop'.default, "receive")
    BY <1>1, PushedDefault DEF Tasks, IInv, ScheduledIffFilled
<1>3. TypeInv'
    BY <1>2 DEF IInv, TypeInv
<1>4. PauseInv'
    BY <1>2 DEF IInv, PauseInv
<1>5. ScheduledIffFilled' /\ StartInv'
    BY <1>1, <1>2 DEF ScheduledIffFilled, StartInv
<1>6. StopInv'
    BY <1>2 DEF IInv, StopInv
<1>7. CountInv'
    BY DEF IInv, CountInv, Requested
<1> QED BY <1>3, <1>4, <1>5, <1>6, <1>7 DEF IInv

----------------------------------------------------------------------------
(* The threads of the pool only touch the mailbox. *)
LEMMA ReplyStep == ASSUME IInv, NEW w \in Workers, Reply(w) PROVE IInv'
<1> USE DEF Reply, mainVars
<1>1. CASE thread # "ended"
    <2>1. Tell("reply") /\ "reply" \in Messages /\ UNCHANGED <<thread, more>>
        BY <1>1 DEF Messages
    <2>2. /\ mailbox' \in Seq(Messages) /\ loop' \in Loops
          /\ loop'.high = loop.high /\ loop'.referenced = loop.referenced
          /\ In(loop'.default, "unref") <=> In(loop.default, "unref")
          /\ ScheduledIffFilled' /\ StartInv'
          /\ Requested \in Nat /\ Requested' = Requested
        BY <1>1, <2>1, TellFacts
    <2>3. TypeInv'
        BY <2>2 DEF IInv, TypeInv
    <2>4. PauseInv'
        BY <2>2 DEF IInv, PauseInv
    <2>5. StopInv'
        BY <2>2 DEF IInv, StopInv
    <2>6. CountInv'
        BY <2>2 DEF IInv, CountInv
    <2> QED BY <2>2, <2>3, <2>4, <2>5, <2>6 DEF IInv
<1>2. CASE thread = "ended"
    <2>1. UNCHANGED <<main, sent, pauses, resumes, loopVars>>
        BY <1>2 DEF loopVars
    <2> QED BY <2>1 DEF loopVars, IInv, TypeInv, PauseInv, ScheduledIffFilled, Rescheduling, StartInv,
               StopInv, CountInv, Requested
<1> QED BY <1>1, <1>2

LEMMA StutterStep == ASSUME IInv, UNCHANGED <<mainVars, loopVars>> PROVE IInv'
BY DEF mainVars, loopVars, IInv, TypeInv, PauseInv, ScheduledIffFilled, Rescheduling, StartInv,
       StopInv, CountInv, Requested

LEMMA NextIInv == IInv /\ [Next]_vars => IInv'
<1> SUFFICES ASSUME IInv, [Next]_vars PROVE IInv'
    OBVIOUS
<1>1. CASE Send \/ Pause \/ Resume \/ Destroy \/ Terminate
    BY <1>1, SendStep, PauseStep, ResumeStep, DestroyStep, AfterStep
<1>2. CASE MainReturns
    BY <1>2, PauseReturnsStep, StopStep, AfterStep DEF MainReturns
<1>3. CASE Poll \/ Event
    BY <1>3, PollStep, QuietStep
<1>4. CASE ThreadStep
    BY <1>4, StartStep, QuietStep, HoldStep, NoopStep, UnrefStep, ReceiveStep, ReceivedStep
       DEF ThreadStep
<1>5. ASSUME NEW w \in Workers, Check(w) \/ SpuriousWakeup(w)
      PROVE  IInv'
    BY <1>5, StutterStep DEF Check, SpuriousWakeup
<1>6. CASE UNCHANGED vars
    BY <1>6, StutterStep DEF vars
<1> QED BY <1>1, <1>2, <1>3, <1>4, <1>5, <1>6, ReplyStep DEF Next

----------------------------------------------------------------------------
(* The inductive invariant holds throughout. *)
THEOREM Invariant == Spec => []IInv
<1> QED BY InitIInv, NextIInv, PTL DEF Spec

(* After pause() has returned and until resume() is called, the thread is blocked in the task  *)
(* of this very pause, however its calls interleave with messages, events and the pool.        *)
THEOREM PausedThreadIsHeld == Spec => []PausedMeansHeld
<1>1. IInv => PausedMeansHeld
    BY DEF IInv, PauseInv, PausedMeansHeld
<1> QED BY <1>1, Invariant, PTL

(* When the thread has ended, every request sent to it has been handled.                       *)
THEOREM QueueProcessedAtExit == Spec => []QueueProcessed
<1>1. IInv => QueueProcessed
    BY DEF IInv, TypeInv, StopInv, CountInv, QueueProcessed
<1> QED BY <1>1, Invariant, PTL

(* No wakeup of an object is lost and none is doubled: its mailbox is scheduled on the run     *)
(* loop, once, exactly while it is open, not in hand, and has a message.                       *)
THEOREM MailboxScheduled == Spec => []ScheduledIffFilled
<1>1. IInv => ScheduledIffFilled
    BY DEF IInv
<1> QED BY <1>1, Invariant, PTL
=============================================================================
