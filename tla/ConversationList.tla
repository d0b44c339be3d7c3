--------------------------- MODULE ConversationList ---------------------------
(***************************************************************************)
(* The pages of a user's conversations: conversations.service.ts. The      *)
(* order is by the last message, which a new message changes, and a page   *)
(* begins at the conversation that the page before it ended with, wherever *)
(* that one is by now.                                                     *)
(***************************************************************************)
EXTENDS Integers, FiniteSets

CONSTANTS
  FirstChats, \* conversations there are at first; the ids are 1, 2...
  MaxChats,   \* bound: conversations
  PageSize,   \* limit
  Lister,     \* clients that page through the list
  MaxMoves    \* bound: messages and archivings

ASSUME ConversationListAssumption ==
  /\ FirstChats \in Nat /\ MaxChats \in Nat /\ PageSize \in Nat \ {0}
  /\ IsFiniteSet(Lister) /\ MaxMoves \in Nat

VARIABLES
  chat,    \* Conversation rows: lastMessageAt and isArchived
  lister,  \* clients: the cursor they have, and (history) what they were shown and what was not still
  moves    \* messages and archivings so far, for the bound

listVars == <<chat, lister, moves>>

NoCursor == 0
Unstarted ==
  [at |-> "start", cursor |-> NoCursor, shown |-> {}, twice |-> {}, moved |-> {}, lost |-> FALSE]

ConversationListInit ==
  /\ chat = [i \in 1..FirstChats |-> [last |-> 0, archived |-> FALSE]]
  /\ lister = [l \in Lister |-> Unstarted] /\ moves = 0

\* History: c has moved for the clients that have begun; at their cursor it misleads them.
Moved(c) ==
  lister' = [l \in Lister |->
    IF lister[l].at = "start" THEN lister[l]
    ELSE [lister[l] EXCEPT !.moved = @ \union {c}, !.lost = @ \/ lister[l].cursor = c]]

\* create
CreateChat ==
  /\ Cardinality(DOMAIN chat) < MaxChats /\ moves < MaxMoves /\ moves' = moves + 1
  /\ LET c == Cardinality(DOMAIN chat) + 1
     IN  /\ chat' = [i \in 1..c |-> IF i = c THEN [last |-> moves + 1, archived |-> FALSE] ELSE chat[i]]
         /\ Moved(c)

\* An answer is saved: lastMessageAt is the time.
NewMessage(c) ==
  /\ moves < MaxMoves /\ moves' = moves + 1
  /\ chat' = [chat EXCEPT ![c].last = moves + 1] /\ Moved(c)

Archive(c) ==
  /\ moves < MaxMoves /\ moves' = moves + 1
  /\ ~chat[c].archived /\ chat' = [chat EXCEPT ![c].archived = TRUE] /\ Moved(c)
-----------------------------------------------------------------------------
\* findAll: the latest first, and the higher id of two
Before(a, b) == chat[a].last > chat[b].last \/ (chat[a].last = chat[b].last /\ a > b)
Visible == {c \in DOMAIN chat : ~chat[c].archived}
FirstOf(n, s) == {c \in s : Cardinality({d \in s : Before(d, c)}) < n}

\* The database's cursor: the visible rows from its place on, and skip leaves one of them out.
From(cursor) ==
  IF cursor = NoCursor THEN Visible
  ELSE LET rest == {c \in Visible : ~Before(c, cursor)} IN rest \ FirstOf(1, rest)

NextCursor(page, all) == CHOOSE c \in page : \A d \in page : ~Before(c, d)

FindAll(l) ==
  LET x == lister[l]
      items == FirstOf(PageSize + 1, From(x.cursor))
      data == FirstOf(PageSize, items)
  IN  /\ x.at # "end"
      /\ lister' = [lister EXCEPT ![l] =
           [at |-> IF items = data THEN "end" ELSE "middle",
            cursor |-> IF items = data THEN NoCursor ELSE NextCursor(data, items),
            shown |-> x.shown \union data, twice |-> x.twice \union (x.shown \intersect data),
            moved |-> x.moved, lost |-> x.lost]]
      /\ UNCHANGED <<chat, moves>>

ConversationListNext ==
  \/ CreateChat
  \/ \E c \in DOMAIN chat : NewMessage(c) \/ Archive(c)
  \/ \E l \in Lister : FindAll(l)
-----------------------------------------------------------------------------
(* A client that follows the cursors to the end has been shown every conversation that did not
   move meanwhile, once, whatever the others did; only the conversation at a cursor may
   mislead it, by a new message or by being archived before the next page. *)
EveryChatListedOnce ==
  \A l \in Lister :
    lister[l].at = "end" /\ ~lister[l].lost =>
      \A c \in Visible \ lister[l].moved :
        c \in lister[l].shown /\ c \notin lister[l].twice
=============================================================================
