------------------------------ MODULE MCLimits ------------------------------
(***************************************************************************)
(* The limits of a user and of a visitor, for TLC: tokens and costs        *)
(* (Usage), messages of a user (ChatQuota), and those of an address that   *)
(* is not signed in (AnonChat). All count in Redis after the answer what   *)
(* they compared before it, under different keys: they share no state, and *)
(* the initial state chooses which of the three runs.                      *)
(***************************************************************************)
EXTENDS Usage, ChatQuota, AnonChat, TLC

MCDailyCap == [trial |-> 2, plan |-> 1]
MCWindowCap == [trial |-> 2, plan |-> 1]
MCHours == [trial |-> 3, plan |-> 2]

\* One set of requests serves the three parts.
Symmetry == Permutations(Request)

VARIABLE part

limitVars == <<part, vars, quotaVars, anonVars>>

LimitsInit ==
  part \in {"usage", "messages", "visitor"} /\ Init /\ QuotaInit /\ AnonChatInit

LimitsNext ==
  \/ part = "usage" /\ Next /\ UNCHANGED <<part, quotaVars, anonVars>>
  \/ part = "messages" /\ QuotaNext /\ UNCHANGED <<part, vars, anonVars>>
  \/ part = "visitor" /\ AnonChatNext /\ UNCHANGED <<part, vars, quotaVars>>

LimitsSpec == LimitsInit /\ [][LimitsNext]_limitVars

(* Whatever is compared before an answer and counted after it, the day's cost, a user's
   messages, a visitor's, exceeds its limit by no more than the requests in progress. *)
OveruseBounded == BudgetBounded /\ QuotaRespected /\ AnonLimitsRespected
=============================================================================
