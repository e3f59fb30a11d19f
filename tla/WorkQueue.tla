------------------------------ MODULE WorkQueue ------------------------------
(***************************************************************************)
(* What the job queue promises its callers, with no tables, clocks or      *)
(* worker loops: a ticket waits, is held by exactly one holder, and is     *)
(* either finished while it is held or put back.  A finished ticket is     *)
(* finished for good, as long as no holder was given up that still works.  *)
(* JobQueue is shown to implement this.                                    *)
(***************************************************************************)
EXTENDS Naturals

CONSTANTS Holders,   \* who may take a ticket
          Nobody,    \* the holder of a ticket that waits
          MaxTickets \* bound: tickets ever issued

VARIABLES issued,    \* how many tickets exist; their numbers are 1..issued
          ticket,    \* what became of each of them
          lapsed     \* whether a holder may be working on what was put back

Tickets == 1 .. MaxTickets
Over == {"done", "failed"}
Unissued == [state |-> "none", by |-> Nobody]

TicketType == [state : {"none", "waiting", "held"} \cup Over,
               by : Holders \cup {Nobody}]

TypeOK == /\ issued \in 0 .. MaxTickets
          /\ ticket \in [Tickets -> TicketType]
          /\ lapsed \in BOOLEAN

Init == /\ issued = 0
        /\ ticket = [t \in Tickets |-> Unissued]
        /\ lapsed = FALSE

\* A new ticket goes to the back of the queue.
Submit == /\ issued < MaxTickets
          /\ issued' = issued + 1
          /\ ticket' = [ticket EXCEPT ![issued + 1] =
                          [state |-> "waiting", by |-> Nobody]]
          /\ UNCHANGED lapsed

\* h takes a waiting ticket.
Take(h, t) == /\ ticket[t].state = "waiting"
              /\ ticket' = [ticket EXCEPT ![t] = [state |-> "held", by |-> h]]
              /\ UNCHANGED <<issued, lapsed>>

\* A ticket is finished while it is held; late, whatever became of it since.
Finish(t) == /\ ticket[t].state = "held" \/ (lapsed /\ ticket[t].state # "none")
             /\ \E result \in Over :
                  ticket' = [ticket EXCEPT ![t] = [state |-> result, by |-> @.by]]
             /\ UNCHANGED <<issued, lapsed>>

\* Tickets whose holder went away are put back, several at a time.
PutBack == \E lost \in SUBSET Tickets :
             /\ \A t \in lost : ticket[t].state = "held"
             /\ ticket' = [t \in Tickets |->
                             IF t \in lost
                             THEN [state |-> "waiting", by |-> Nobody]
                             ELSE ticket[t]]
             /\ UNCHANGED <<issued, lapsed>>

\* From now on a ticket may be put back under a holder that still works.
Lapse == lapsed' = TRUE /\ UNCHANGED <<issued, ticket>>

Next == \/ Submit
        \/ \E t \in Tickets : Finish(t) \/ \E h \in Holders : Take(h, t)
        \/ PutBack
        \/ Lapse

Spec == Init /\ [][Next]_<<issued, ticket, lapsed>>
=============================================================================
