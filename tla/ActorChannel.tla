---------------------------- MODULE ActorChannel ----------------------------
(***************************************************************************)
(* What the actor runtime promises (include/mbgl/actor/scheduler.hpp,       *)
(* actor.hpp, aspiring_actor.hpp): an actor is an inbox that holds messages *)
(* until the actor is established, hands them one at a time, in the order   *)
(* sent, to some thread of the scheduler, and accepts and delivers nothing  *)
(* once the actor is gone.  Module Mailbox implements it with two mutexes,  *)
(* a scheduler queue and weak pointers.                                     *)
(***************************************************************************)
EXTENDS Naturals, Sequences

CONSTANTS
    Actors,
    Threads,    \* whoever sends, runs or destroys
    Messages,
    Holding,    \* the actors that start as AspiringActors
    Nobody      \* not a thread

VARIABLES
    phase,      \* [Actors -> {"holding", "open", "gone"}]
    inbox,      \* [Actors -> Seq(Messages)]
    runner      \* [Actors -> Threads \cup {Nobody}]: who executes a message of it

chVars == <<phase, inbox, runner>>

ChInit ==
    /\ phase = [a \in Actors |-> IF a \in Holding THEN "holding" ELSE "open"]
    /\ inbox = [a \in Actors |-> <<>>]
    /\ runner = [a \in Actors |-> Nobody]

(* A message is accepted, also before the actor is established. *)
Send(a, m) ==
    /\ phase[a] # "gone"
    /\ inbox' = [inbox EXCEPT ![a] = Append(@, m)]
    /\ UNCHANGED <<phase, runner>>

(* The object is constructed: its messages may be processed. *)
Establish(a) ==
    /\ phase[a] = "holding"
    /\ phase' = [phase EXCEPT ![a] = "open"]
    /\ UNCHANGED <<inbox, runner>>

(* Thread t starts to process the oldest message. *)
Begin(a, t) ==
    /\ phase[a] = "open"
    /\ runner[a] = Nobody
    /\ inbox[a] # <<>>
    /\ inbox' = [inbox EXCEPT ![a] = Tail(@)]
    /\ runner' = [runner EXCEPT ![a] = t]
    /\ UNCHANGED phase

End(a, t) ==
    /\ runner[a] = t
    /\ t # Nobody
    /\ runner' = [runner EXCEPT ![a] = Nobody]
    /\ UNCHANGED <<phase, inbox>>

(* Thread t destroys the actor: between two messages, or from inside one of them. *)
Destroy(a, t) ==
    /\ phase[a] = "open"
    /\ runner[a] \in {Nobody, t}
    /\ phase' = [phase EXCEPT ![a] = "gone"]
    /\ UNCHANGED <<inbox, runner>>

ChNext ==
    \E a \in Actors :
        \/ \E m \in Messages : Send(a, m)
        \/ Establish(a)
        \/ \E t \in Threads : Begin(a, t) \/ End(a, t) \/ Destroy(a, t)

ChSpec == ChInit /\ [][ChNext]_chVars

(* The promise of progress: an open actor with messages gets to process them. *)
ChFairness ==
    \A a \in Actors :
        /\ WF_chVars(\E t \in Threads : Begin(a, t))
        /\ WF_chVars(\E t \in Threads : End(a, t))

ChFairSpec == ChSpec /\ ChFairness
=============================================================================
