---------------------------- MODULE Conversation ----------------------------
(***************************************************************************)
(* What the model is told of a conversation, and its title (streamChat,    *)
(* summarizeConversation and generateTitle of chat.service.ts, and the     *)
(* writes of conversations.service.ts).                                    *)
(*                                                                         *)
(* The state is that of one conversation. Messages are numbered in the     *)
(* order of createdAt; the summary is the set of messages that went into   *)
(* it, whether the text still mentions them or not. Tokens are counted in  *)
(* messages. Limits, billing and images before the prompt are left to the  *)
(* other modules: a request they refuse has written nothing here.          *)
(***************************************************************************)
EXTENDS Integers, Sequences, FiniteSets, FiniteSetsExt

CONSTANTS
  Exchange,        \* requests that may be in progress at once
  SummaryTrigger,\* summaryTriggerTokens, in messages
  MaxLines,   \* bound: messages of the conversation
  MaxRenames     \* bound: titles set by the user

ASSUME ConversationAssumption ==
  /\ IsFiniteSet(Exchange)
  /\ SummaryTrigger \in Nat \ {0} /\ MaxLines \in Nat /\ MaxRenames \in Nat

VARIABLES
  message,   \* Message rows in order of createdAt: their role
  summary,   \* contextSummary: the messages it was written from
  cutoff,    \* summarizedUntilCreatedAt: the last of them, 0 for null
  title,     \* title: none, or what it was taken from
  exchange,    \* requests in progress, with what they have read
  job,       \* summaries being written, by the answer that set them off
  renames,   \* titles the user has set, for the bound
  crossed,   \* history: messages saved while another request was between its history and its answer
  untitled   \* history: a chance to set the first title was lost

requests == <<exchange, job, renames>>
history == <<crossed, untitled>>
conversationVars == <<message, summary, cutoff, title, requests, history>>

Row == 1..MaxLines
Source == {"none", "answer", "summary", "user"}
NoStream == [at |-> "idle", summary |-> {}, cutoff |-> 0, title |-> "none", own |-> 0,
             recent |-> {}, pictured |-> 0, alone |-> TRUE, answer |-> 0]
NoJob == [at |-> "none", from |-> {}, upTo |-> 0]

ConversationInit ==
  /\ message = <<>>
  /\ summary = {} /\ cutoff = 0 /\ title = "none"
  /\ exchange = [s \in Exchange |-> NoStream]
  /\ job = [m \in Row |-> NoJob]
  /\ renames = 0
  /\ crossed = {} /\ untitled = FALSE
-----------------------------------------------------------------------------
(* Rows *)

\* A new row; a request that has read its history will not know of it, one
\* that has yet to read it is no longer alone.
Create(s, role) ==
  LET m == Len(message) + 1
  IN  /\ m \in Row
      /\ message' = Append(message, role)
      /\ crossed' = IF \E t \in Exchange \ {s} : exchange[t].at = "streaming"
                    THEN crossed \union {m} ELSE crossed

\* The others, as they are after a row of s: those about to read are not alone.
Others(s, x) ==
  [t \in Exchange |->
     IF t = s THEN x
     ELSE IF exchange[t].at \in {"read", "saved"} THEN [exchange[t] EXCEPT !.alone = FALSE]
     ELSE exchange[t]]
-----------------------------------------------------------------------------
(* streamChat *)

\* The conversation is read once, at the start.
Begin(s) ==
  /\ exchange[s].at = "idle"
  /\ exchange' = [exchange EXCEPT ![s] =
       [NoStream EXCEPT !.at = "read", !.summary = summary, !.cutoff = cutoff,
                        !.title = title,
                        !.alone = \A t \in Exchange : exchange[t].at = "idle"]]
  /\ UNCHANGED <<message, summary, cutoff, title, job, renames, history>>

\* A limit, or a budget: nothing has been written.
RefuseStream(s) ==
  /\ exchange[s].at = "read"
  /\ exchange' = [exchange EXCEPT ![s] = NoStream]
  /\ UNCHANGED <<message, summary, cutoff, title, job, renames, history>>

SaveUser(s) ==
  /\ exchange[s].at = "read"
  /\ Create(s, "USER")
  /\ exchange' = Others(s, [exchange[s] EXCEPT !.at = "saved", !.own = Len(message) + 1])
  /\ UNCHANGED <<summary, cutoff, title, job, renames, untitled>>

\* The messages after the cutoff the conversation had when the request began.
After(c) == {m \in 1..Len(message) : m > c}

\* The request's images, if any, go with the last message, if it is a user's.
Pictured(recent) ==
  Max({m \in recent : message[m] = "USER" /\ \A n \in recent : n =< m} \union {0})

ReadHistory(s) ==
  /\ exchange[s].at = "saved"
  /\ LET recent == After(exchange[s].cutoff)
     IN  exchange' = [exchange EXCEPT ![s].at = "streaming", ![s].recent = recent,
           ![s].pictured = Pictured(recent)]
  /\ UNCHANGED <<message, summary, cutoff, title, job, renames, history>>

IsFirstMessage(x) == Cardinality(x.recent) = 1
WantsTitle(x) == x.title = "none" /\ IsFirstMessage(x)

SaveAnswer(s) ==
  /\ exchange[s].at = "streaming"
  /\ Create(s, "ASSISTANT")
  /\ exchange' = Others(s, [exchange[s] EXCEPT !.answer = Len(message) + 1,
       !.at = IF WantsTitle(exchange[s]) THEN "title" ELSE "check"])
  /\ UNCHANGED <<summary, cutoff, title, job, renames, untitled>>

\* handleImageGeneration writes to the same conversation: it saves the request,
\* and later an answer without text. It never sets a title.
SaveImageRequest(s) ==
  /\ exchange[s].at = "read"
  /\ Create(s, "USER")
  /\ exchange' = Others(s, [exchange[s] EXCEPT !.at = "drawing", !.own = Len(message) + 1])
  /\ untitled' = (untitled \/ message = <<>>)
  /\ UNCHANGED <<summary, cutoff, title, job, renames>>

SaveImage(s) ==
  /\ exchange[s].at = "drawing"
  /\ Create(s, "ASSISTANT")
  /\ exchange' = Others(s, NoStream)
  /\ UNCHANGED <<summary, cutoff, title, job, renames, untitled>>

\* A provider error, a timeout of the stream, a failed write, or a restart.
FailStream(s) ==
  /\ exchange[s].at \in {"saved", "streaming", "drawing"}
  /\ exchange' = [exchange EXCEPT ![s] = NoStream]
  /\ untitled' = (untitled \/ exchange[s].own = 1)
  /\ UNCHANGED <<message, summary, cutoff, title, job, renames, crossed>>

\* generateTitle: a text, or nothing (an empty text and an error are the same).
FirstTitle(s) ==
  /\ exchange[s].at = "title"
  /\ \/ title' = "answer" /\ UNCHANGED untitled
     \/ untitled' = TRUE /\ UNCHANGED title
  /\ exchange' = [exchange EXCEPT ![s].at = "check"]
  /\ UNCHANGED <<message, summary, cutoff, job, renames, crossed>>

Exceeds(x) == Cardinality(x.recent) + 1 > SummaryTrigger

\* The summary is started and not waited for.
Summarize_FromScratch(x) == [at |-> "write", from |-> x.recent \union {x.answer}, upTo |-> x.answer]
Summarize(x) == [at |-> "write", from |-> x.summary \union x.recent \union {x.answer},
                 upTo |-> x.answer]

EndStream(s) ==
  /\ exchange[s].at = "check"
  /\ job' = IF Exceeds(exchange[s])
            THEN [job EXCEPT ![exchange[s].answer] = Summarize(exchange[s])] ELSE job
  /\ exchange' = [exchange EXCEPT ![s] = NoStream]
  /\ UNCHANGED <<message, summary, cutoff, title, renames, history>>
-----------------------------------------------------------------------------
(* summarizeConversation *)

WriteSummary(m) ==
  /\ job[m].at = "write"
  /\ summary' = job[m].from
  /\ cutoff' = job[m].upTo
  /\ job' = [job EXCEPT ![m].at = "title"]
  /\ UNCHANGED <<message, title, exchange, renames, history>>

\* The title is taken anew from the summary, whatever it was.
Retitle(m) ==
  /\ job[m].at = "title"
  /\ title' = "summary"
  /\ job' = [job EXCEPT ![m] = NoJob]
  /\ UNCHANGED <<message, summary, cutoff, exchange, renames, history>>

\* generateTextViaStream fails, times out or returns nothing; or a restart.
DropJob(m) ==
  /\ job[m].at # "none"
  /\ job' = [job EXCEPT ![m] = NoJob]
  /\ UNCHANGED <<message, summary, cutoff, title, exchange, renames, history>>
-----------------------------------------------------------------------------
(* ConversationsService.update *)

Rename ==
  /\ renames < MaxRenames
  /\ renames' = renames + 1
  /\ title' = "user"
  /\ UNCHANGED <<message, summary, cutoff, exchange, job, history>>

ConversationNext ==
  \/ \E s \in Exchange :
       \/ Begin(s) \/ RefuseStream(s) \/ SaveUser(s) \/ ReadHistory(s) \/ SaveAnswer(s)
       \/ SaveImageRequest(s) \/ SaveImage(s)
       \/ FailStream(s) \/ FirstTitle(s) \/ EndStream(s)
  \/ \E m \in Row : WriteSummary(m) \/ Retitle(m) \/ DropJob(m)
  \/ Rename

ConversationSpec == ConversationInit /\ [][ConversationNext]_conversationVars
-----------------------------------------------------------------------------
(* Every variable has its type, and the cutoff is a message. *)
ConversationTypeOK ==
  /\ message \in Seq({"USER", "ASSISTANT"}) /\ Len(message) =< MaxLines
  /\ summary \subseteq 1..Len(message) /\ cutoff \in 0..Len(message)
  /\ title \in Source
  /\ \A s \in Exchange :
       /\ exchange[s].at \in {"idle", "read", "saved", "streaming", "drawing", "title", "check"}
       /\ exchange[s].recent \subseteq 1..Len(message)
       /\ exchange[s].own \in 0..Len(message) /\ exchange[s].answer \in 0..Len(message)
  /\ \A m \in Row : job[m].upTo \in 0..Len(message)
  /\ crossed \subseteq Row

(* The summary stands for everything up to the cutoff, whichever of several
   summaries is written last: later prompts start after the cutoff, so a message
   that is in neither is forgotten. Only a message that came in while another
   answer was being generated can be (summarizeConversation, lastMessage). *)
SummaryCoversUnlessCrossed ==
  1..cutoff \subseteq summary \union crossed

(* The prompt has every message up to the user's own, in the summary or in full
   but not in both, except those another answer's summary has skipped. *)
PromptIsComplete ==
  \A s \in Exchange :
    exchange[s].at = "streaming" =>
      /\ 1..exchange[s].own \subseteq exchange[s].summary \union exchange[s].recent \union crossed
      /\ exchange[s].summary \intersect exchange[s].recent = {}

(* The images of a message are shown to the model with that message, unless
   another request wrote to the conversation in between. *)
PicturesReachTheModel ==
  \A s \in Exchange :
    exchange[s].at = "streaming" /\ exchange[s].alone
      => exchange[s].pictured = exchange[s].own

(* A conversation with an answer has a title once its requests have ended, unless
   the first request failed or asked for an image, its title failed, or two
   requests were first at once. *)
TitledUnlessFirstFailed ==
  (/\ \A s \in Exchange : exchange[s].at = "idle"
   /\ \E m \in 1..Len(message) : message[m] = "ASSISTANT")
  => title # "none" \/ untitled \/ message[2] = "USER"

(* Nothing that was said is lost on the model or on the user: neither a message nor its
   pictures in a prompt, neither a message nor the title of the conversation through
   summaries, but for the overlaps that the parts name. *)
ConversationIsWhole ==
  /\ ConversationTypeOK
  /\ SummaryCoversUnlessCrossed
  /\ PromptIsComplete
  /\ PicturesReachTheModel
  /\ TitledUnlessFirstFailed
=============================================================================
