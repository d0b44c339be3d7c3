------------------------------- MODULE Tickets -------------------------------
(***************************************************************************)
(* Support tickets: tickets.service.ts. A user's reply reads the ticket    *)
(* and writes the reply later; an administrator's reply and the status it  *)
(* sets are one transaction; updateStatus changes only the fields it is    *)
(* given: one of the priority or the note says nothing about the status.   *)
(* The push to the administrators is not awaited: it may fail and the      *)
(* ticket stays. Texts, notes and priorities are left out.                 *)
(***************************************************************************)
EXTENDS Integers, Sequences, FiniteSets

CONSTANTS
  Ticket,    \* tickets
  Replier,   \* requests of the user that may be in progress at once
  Clerk,     \* requests of administrators that may be in progress at once
  MaxReplies \* bound: replies to a ticket

ASSUME TicketsAssumption ==
  IsFiniteSet(Ticket) /\ IsFiniteSet(Replier) /\ IsFiniteSet(Clerk) /\ MaxReplies \in Nat

VARIABLES
  ticket,     \* SupportTicket rows: status
  replies,    \* TicketReply rows of each ticket, and (history) whether they met it closed
  replier,    \* user requests: the ticket they have found open
  clerk,      \* administrators' requests: what they will write, the status they have seen
  closedOver, \* history: tickets closed while a user's reply to them was on its way
  decided     \* history: the status that the last write about the status gave each ticket

ticketVars == <<ticket, replies, replier, clerk, closedOver, decided>>

\* The code treats RESOLVED as it does OPEN.
TicketStatus == {"OPEN", "IN_PROGRESS", "CLOSED"}
NoTicket == "NONE"
NoOrder == [on |-> {}, reply |-> FALSE, status |-> "same", seen |-> NoTicket]

TicketsInit ==
  /\ ticket = [t \in Ticket |-> NoTicket] /\ replies = [t \in Ticket |-> <<>>]
  /\ replier = [r \in Replier |-> {}] /\ clerk = [c \in Clerk |-> NoOrder]
  /\ closedOver = {} /\ decided = [t \in Ticket |-> NoTicket]

\* create; notify is not waited for and touches no ticket
CreateTicket(t) ==
  /\ ticket[t] = NoTicket
  /\ ticket' = [ticket EXCEPT ![t] = "OPEN"]
  /\ decided' = [decided EXCEPT ![t] = "OPEN"]
  /\ UNCHANGED <<replies, replier, clerk, closedOver>>

TakesReplies(t) == ticket[t] \notin {NoTicket, "CLOSED"}

\* addUserReply, up to the write
FindOpen(r, t) ==
  /\ replier[r] = {} /\ Len(replies[t]) < MaxReplies
  /\ TakesReplies(t)
  /\ replier' = [replier EXCEPT ![r] = {t}]
  /\ UNCHANGED <<ticket, replies, clerk, closedOver, decided>>

\* The user's reply leaves the status alone.
WriteUserReply(r, t) ==
  /\ t \in replier[r]
  /\ replies' = [replies EXCEPT ![t] = Append(@, [admin |-> FALSE, onClosed |-> ticket[t] = "CLOSED"])]
  /\ replier' = [replier EXCEPT ![r] = {}]
  /\ UNCHANGED <<ticket, clerk, closedOver, decided>>

\* addAdminReply and updateStatus read the ticket to see that there is one.
FindTicket(c, t, order) ==
  /\ clerk[c].on = {} /\ ticket[t] # NoTicket
  /\ clerk' = [clerk EXCEPT ![c] = [order EXCEPT !.on = {t}, !.seen = ticket[t]]]
  /\ UNCHANGED <<ticket, replies, replier, closedOver, decided>>

FindForReply(c, t) ==
  /\ Len(replies[t]) < MaxReplies
  /\ FindTicket(c, t, [NoOrder EXCEPT !.reply = TRUE, !.status = "IN_PROGRESS"])

FindForStatus(c, t) ==
  \E s \in TicketStatus \union {"same"} : FindTicket(c, t, [NoOrder EXCEPT !.status = s])

NewStatus(order, current) == IF order.status = "same" THEN current ELSE order.status

\* The update of the row; closing it overtakes the replies on their way.
SetFields(c, t) ==
  LET order == clerk[c]
  IN  /\ t \in order.on
      /\ ticket' = [ticket EXCEPT ![t] = NewStatus(order, @)]
      /\ decided' = [decided EXCEPT ![t] = IF order.status = "same" THEN @ ELSE order.status]
      /\ closedOver' =
           IF order.status = "CLOSED" /\ \E r \in Replier : t \in replier[r]
           THEN closedOver \union {t} ELSE closedOver
      /\ clerk' = [clerk EXCEPT ![c] = NoOrder]
      /\ UNCHANGED replier

WriteAdminReply(c, t) ==
  /\ clerk[c].reply /\ SetFields(c, t)
  /\ replies' = [replies EXCEPT ![t] = Append(@, [admin |-> TRUE, onClosed |-> ticket[t] = "CLOSED"])]

WriteStatus(c, t) == ~clerk[c].reply /\ SetFields(c, t) /\ UNCHANGED replies

TicketsNext ==
  \E t \in Ticket :
    \/ CreateTicket(t)
    \/ \E r \in Replier : FindOpen(r, t) \/ WriteUserReply(r, t)
    \/ \E c \in Clerk :
         FindForReply(c, t) \/ FindForStatus(c, t) \/ WriteAdminReply(c, t) \/ WriteStatus(c, t)
-----------------------------------------------------------------------------
(* A user's reply stands on a ticket that was closed when it came only if the ticket was
   closed while the reply was on its way; one written by an administrator reopens it. *)
ClosedTakesNoReplies ==
  \A t \in Ticket : \A i \in DOMAIN replies[t] :
    ~replies[t][i].admin /\ replies[t][i].onClosed => t \in closedOver

(* A request that says nothing about the status leaves what others decide meanwhile: a
   change of the priority never undoes a close, nor the status that a reply has set. *)
LastDecisionStands == \A t \in Ticket : ticket[t] = decided[t]
=============================================================================
