------------------------------- MODULE Feedback -------------------------------
(***************************************************************************)
(* What users say and its summaries: feedback.service.ts with the nightly  *)
(* feedback-summary.processor.ts, and message-feedback.service.ts for the  *)
(* votes on answers. The three summaries are the same steps: the latest    *)
(* summary, a batch of the rows nobody has checked, the model, and one     *)
(* transaction with the new summary and the marks. The job of the night    *)
(* and an administrator's request may overlap.                             *)
(*                                                                         *)
(* A row is the number of times its author has said something: a vote is   *)
(* an upsert by message. What the model writes is left out.                *)
(***************************************************************************)
EXTENDS Integers, Sequences, FiniteSets

CONSTANTS
  Answer,       \* assistant messages that can be voted on
  Summarizer,   \* summaries that may be in progress at once
  Batch,        \* the 200 rows of a prompt
  MaxFeedback,  \* bound: feedback rows, and votes on an answer
  MaxSummaries  \* bound: summaries begun

ASSUME FeedbackAssumption ==
  /\ IsFiniteSet(Answer) /\ IsFiniteSet(Summarizer)
  /\ Batch \in Nat \ {0} /\ MaxFeedback \in Nat /\ MaxSummaries \in Nat

VARIABLES
  rows,       \* Feedback and MessageFeedback rows, oldest first: of, times said, isChecked
  summary,    \* the summaries of each table: total, and (history) the rows that the prompts held
  summarizer, \* summaries in progress: table, the latest total read, the rows read
  begun,      \* summaries begun so far, for the bound
  overlapped  \* history: tables of which two summaries overlapped

feedbackVars == <<rows, summary, summarizer, begun, overlapped>>

Table == {"feedback", "votes"}
Nothing == [total |-> 0, heard |-> {}]
SummarizerIdle == [at |-> "idle", of |-> "feedback", previous |-> Nothing, batch |-> {}]

FeedbackInit ==
  /\ rows = [k \in Table |-> <<>>] /\ summary = [k \in Table |-> <<>>]
  /\ summarizer = [s \in Summarizer |-> SummarizerIdle]
  /\ begun = 0 /\ overlapped = {}

\* FeedbackService.create
GiveFeedback ==
  /\ Len(rows["feedback"]) < MaxFeedback
  /\ rows' = [rows EXCEPT !["feedback"] = Append(@, [on |-> {}, said |-> 1, checked |-> FALSE])]
  /\ UNCHANGED <<summary, summarizer, begun, overlapped>>

\* submit: a second vote on an answer replaces the first and leaves isChecked alone.
Vote(a) ==
  LET mine == {i \in DOMAIN rows["votes"] : a \in rows["votes"][i].on}
  IN  /\ \A i \in mine : rows["votes"][i].said < MaxFeedback
      /\ rows' = [rows EXCEPT !["votes"] =
           IF mine = {} THEN Append(@, [on |-> {a}, said |-> 1, checked |-> FALSE])
           ELSE [i \in DOMAIN @ |-> IF i \in mine THEN [@[i] EXCEPT !.said = rows["votes"][i].said + 1] ELSE @[i]]]
      /\ UNCHANGED <<summary, summarizer, begun, overlapped>>

Latest(k) == IF summary[k] = <<>> THEN Nothing ELSE summary[k][Len(summary[k])]

\* The latest summary of a table is read before the rows.
ReadLatest(s, k) ==
  /\ summarizer[s].at = "idle" /\ begun < MaxSummaries /\ begun' = begun + 1
  /\ summarizer' = [summarizer EXCEPT ![s] =
       [at |-> "rows", of |-> k, previous |-> Latest(k), batch |-> {}]]
  /\ overlapped' =
       IF \E x \in Summarizer : summarizer[x].at # "idle" /\ summarizer[x].of = k
       THEN overlapped \union {k} ELSE overlapped
  /\ UNCHANGED <<rows, summary>>

Unchecked(k) == {i \in DOMAIN rows[k] : ~rows[k][i].checked}
\* The oldest of them, as many as a prompt takes.
Oldest(k) == {i \in Unchecked(k) : Cardinality({j \in Unchecked(k) : j < i}) < Batch}

ReadUnchecked(s) ==
  LET k == summarizer[s].of
  IN  /\ summarizer[s].at = "rows"
      /\ summarizer' = [summarizer EXCEPT ![s] =
           IF Unchecked(k) = {} THEN SummarizerIdle
           ELSE [@ EXCEPT !.at = "write", !.batch = {<<i, rows[k][i].said>> : i \in Oldest(k)}]]
      /\ UNCHANGED <<rows, summary, begun, overlapped>>

\* The model or the database fails: nothing is written.
SummaryFails(s) ==
  /\ summarizer[s].at # "idle"
  /\ summarizer' = [summarizer EXCEPT ![s] = SummarizerIdle]
  /\ UNCHANGED <<rows, summary, begun, overlapped>>

Marked_All(x) == Unchecked(x.of)
Marked(x) == {r[1] : r \in x.batch}

WriteSummaryAndMarks(s) ==
  LET x == summarizer[s]
  IN  /\ x.at = "write"
      /\ summary' = [summary EXCEPT ![x.of] = Append(@,
           [total |-> Cardinality(x.batch) + x.previous.total,
            heard |-> x.batch \union x.previous.heard])]
      /\ rows' = [rows EXCEPT ![x.of] =
           [i \in DOMAIN @ |-> IF i \in Marked(x) THEN [@[i] EXCEPT !.checked = TRUE] ELSE @[i]]]
      /\ summarizer' = [summarizer EXCEPT ![s] = SummarizerIdle]
      /\ UNCHANGED <<begun, overlapped>>

\* Any step of a summary of table k. The job of the night and the two requests of the
\* administrators are this, line by line.
SummaryStep(s, k) ==
  \/ ReadLatest(s, k)
  \/ summarizer[s].of = k /\ (ReadUnchecked(s) \/ SummaryFails(s) \/ WriteSummaryAndMarks(s))

TriggerSummary(s) == SummaryStep(s, "feedback")
HandleSummarize(s) == SummaryStep(s, "feedback")
RunSummary(s) == SummaryStep(s, "votes")

FeedbackNext ==
  \/ GiveFeedback
  \/ \E a \in Answer : Vote(a)
  \/ \E s \in Summarizer : TriggerSummary(s) \/ HandleSummarize(s) \/ RunSummary(s)
-----------------------------------------------------------------------------
(* The count that a summary shows is that of the rows behind it: no row is counted twice and
   none is forgotten, unless two summaries of the table overlapped. *)
CountsWhatItRead ==
  \A k \in Table :
    k \in overlapped \/ Latest(k).total = Cardinality({i \in DOMAIN rows[k] : rows[k][i].checked})

(* Nobody's words are marked as read unread: each checked row was in the prompt of some
   summary, however summaries overlap; a row that came while the model wrote waits. *)
CheckedWereHeard ==
  \A k \in Table : \A i \in DOMAIN rows[k] :
    rows[k][i].checked =>
      \E n \in DOMAIN summary[k] : \E r \in summary[k][n].heard : r[1] = i
=============================================================================
