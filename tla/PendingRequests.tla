-------------------------- MODULE PendingRequests --------------------------
(***************************************************************************)
(* OnlineFileSource::Impl::PendingRequests: one std::list in which every    *)
(* regular request stands before every low priority one, and an iterator,   *)
(* firstLowPriorityRequest, that marks the border.  Here the list is a      *)
(* sequence and the iterator an index; Len + 1 is end().  A std::list       *)
(* iterator stays with its element, so an index moves when a predecessor is *)
(* inserted or erased.                                                      *)
(***************************************************************************)
EXTENDS Naturals, SequencesExt

Empty == [queue |-> <<>>, firstLow |-> 1]

Pending(p, r) == \E i \in 1..Len(p.queue) : p.queue[i] = r

(* Fault: a low request goes before the ones that wait already. *)
InsertLowFirst(p, r, regular) ==
    [queue |-> InsertAt(p.queue, p.firstLow, r),
     firstLow |-> IF regular THEN p.firstLow + 1 ELSE p.firstLow]

(* insert(): a regular request goes to the border, a low one to the end.  An empty low part *)
(* needs no case of its own: the index of end() becomes that of the new element.            *)
Insert(p, r, regular) ==
    IF regular
    THEN [queue |-> InsertAt(p.queue, p.firstLow, r), firstLow |-> p.firstLow + 1]
    ELSE [p EXCEPT !.queue = Append(@, r)]

(* Faults: the request is not taken out; the border stays or moves when it should not. *)
DropNothing(p, r) == p
DropKeepingBorder(p, r) == [p EXCEPT !.queue = SelectSeq(@, LAMBDA x : x # r)]
DropMovingBorder(p, r) == [DropKeepingBorder(p, r) EXCEPT !.firstLow = @ - 1]

(* remove(): when the border itself is erased it moves on to the next element, which then *)
(* has the same index.                                                                     *)
Drop(p, r) ==
    IF Pending(p, r)
    THEN LET i == CHOOSE i \in 1..Len(p.queue) : p.queue[i] = r
         IN  [queue |-> RemoveAt(p.queue, i),
              firstLow |-> IF i < p.firstLow THEN p.firstLow - 1 ELSE p.firstLow]
    ELSE p

(* pop(): the first request.  If the border is at the front, it moves on before the front *)
(* is erased.                                                                              *)
Pop(p) ==
    [queue |-> Tail(p.queue),
     firstLow |-> (IF p.firstLow = 1 THEN 2 ELSE p.firstLow) - 1]
=============================================================================
