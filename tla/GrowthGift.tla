------------------------------ MODULE GrowthGift ------------------------------
(***************************************************************************)
(* The welcome gift (growth-public.controller.ts and                       *)
(* discount-code.service.ts): a user in the trial, or shortly after it,    *)
(* who has not paid yet may claim one discount code; claiming again finds  *)
(* the code that is still good.  A payment looks at its code when it is    *)
(* opened and redeems it, as it is by then, when it is settled.            *)
(*                                                                         *)
(* One user.  Payments has the parts of a settlement; here it is its       *)
(* transaction.                                                            *)
(***************************************************************************)
EXTENDS Integers, Sequences, FiniteSets

CONSTANTS
  Claim,           \* claims that may run at once
  TrialMessages,   \* trialMessageThreshold
  Grace,           \* postTrialGraceHours
  Valid,           \* welcomeDiscountValidHours
  MaxClaims,       \* bound: claims
  MaxPayments,     \* bound: payments
  MaxHours         \* bound: hours

ASSUME GrowthGiftAssumption ==
  /\ IsFiniteSet(Claim) /\ TrialMessages \in Nat /\ Grace \in Nat /\ Valid \in Nat \ {0}
  /\ MaxClaims \in Nat /\ MaxPayments \in Nat /\ MaxHours \in Nat

VARIABLES
  sent,         \* User.lifetimeMessageCount
  trialEndedAt, \* User.trialEndedAt, {} before
  hour,         \* the time
  codes,        \* WELCOME_GIFT codes of the user: isActive, usedCount, expiresAt
  payments,     \* Payment rows of the user: code, status, whether a verification has found
                \* it PENDING, whether it has its invoice
  claim,        \* claims
  claims,       \* claims so far, for the bound
  claimedTogether, \* history: two claims ran at once
  revived          \* history: an administrator switched a code on again

giftVars == <<sent, trialEndedAt, hour, codes, payments, claim, claims, claimedTogether, revived>>

\* A code, a payment and a claim keep, as history, which payments were settled by then.
NoClaim == [at |-> "idle", unpaid |-> FALSE, open |-> FALSE, read |-> {}, after |-> {}]

GrowthGiftInit ==
  /\ sent = 0 /\ trialEndedAt = {} /\ hour = 0 /\ codes = <<>> /\ payments = <<>>
  /\ claim = [c \in Claim |-> NoClaim] /\ claims = 0
  /\ claimedTogether = FALSE /\ revived = FALSE

Claiming(c) == claim[c].at # "idle"
Good(code) == code.isActive /\ code.usedCount < 1 /\ code.expiresAt > hour
Paid == {p \in DOMAIN payments : payments[p].invoiced}
HasPaid == \E p \in DOMAIN payments : payments[p].status = "COMPLETED"
-----------------------------------------------------------------------------
\* A message of the trial; its last one ends it, unless two pass it together (chat.service.ts).
SendMessage ==
  /\ sent < TrialMessages /\ sent' = sent + 1
  /\ trialEndedAt' \in {trialEndedAt} \union (IF sent' = TrialMessages THEN {{hour}} ELSE {})
  /\ UNCHANGED <<hour, codes, payments, claim, claims, claimedTogether, revived>>

PassHour ==
  /\ hour < MaxHours /\ hour' = hour + 1
  /\ UNCHANGED <<sent, trialEndedAt, codes, payments, claim, claims, claimedTogether, revived>>

\* setActive
SetActive(i, isActive) ==
  /\ codes[i].isActive # isActive
  /\ codes' = [codes EXCEPT ![i].isActive = isActive]
  /\ revived' = (revived \/ isActive)
  /\ UNCHANGED <<sent, trialEndedAt, hour, payments, claim, claims, claimedTogether>>
-----------------------------------------------------------------------------
(* Payments *)

\* initiate, with a code that findValidCode lets pass (i) or without (0).  Nothing reads the
\* row before it comes back from the gateway, so it is written here.
OpenPayment(i) ==
  /\ Len(payments) < MaxPayments
  /\ i # 0 => Good(codes[i])
  /\ payments' = Append(payments, [code |-> i, status |-> "PENDING", verifying |-> FALSE,
                                   invoiced |-> FALSE, after |-> Paid])
  /\ UNCHANGED <<sent, trialEndedAt, hour, codes, claim, claims, claimedTogether, revived>>

\* verify finds the payment PENDING, and asks the gateway.
BeginVerify(p) ==
  /\ payments[p].status = "PENDING" /\ ~payments[p].verifying
  /\ payments' = [payments EXCEPT ![p].verifying = TRUE]
  /\ UNCHANGED <<sent, trialEndedAt, hour, codes, claim, claims, claimedTogether, revived>>

\* The transaction of a verification that the gateway confirmed, whatever the payment has
\* become; a second one rolls back on the invoice.  recordRedemption asks nothing more.
Redeem(i) == codes' = IF i = 0 THEN codes ELSE [codes EXCEPT ![i].usedCount = @ + 1]
Settle(p) ==
  /\ payments[p].verifying /\ ~payments[p].invoiced
  /\ payments' = [payments EXCEPT ![p].status = "COMPLETED", ![p].invoiced = TRUE]
  /\ Redeem(payments[p].code)
  /\ UNCHANGED <<sent, trialEndedAt, hour, claim, claims, claimedTogether, revived>>

\* A failure redirect, or a verification that the gateway denies, whatever the status.
FailPayment(p) ==
  /\ payments[p].status # "FAILED"
  /\ payments' = [payments EXCEPT ![p].status = "FAILED"]
  /\ UNCHANGED <<sent, trialEndedAt, hour, codes, claim, claims, claimedTogether, revived>>
-----------------------------------------------------------------------------
(* claimGift *)

BeginClaim(c) ==
  /\ ~Claiming(c) /\ claims < MaxClaims /\ claims' = claims + 1
  /\ claim' = [claim EXCEPT ![c] = [NoClaim EXCEPT !.at = "check"]]
  /\ claimedTogether' = (claimedTogether \/ \E d \in Claim : Claiming(d))
  /\ UNCHANGED <<sent, trialEndedAt, hour, codes, payments, revived>>

\* getWelcomeGiftEligibility reads the payments, the plan and the user side by side.
ReadPayments(c) ==
  /\ claim[c].at = "check" /\ "payments" \notin claim[c].read
  /\ claim' = [claim EXCEPT ![c].unpaid = ~HasPaid, ![c].read = @ \union {"payments"}, ![c].after = Paid]
  /\ UNCHANGED <<sent, trialEndedAt, hour, codes, payments, claims, claimedTogether, revived>>

\* A plan that was bought has no trial; its cache may still be of the one before, and when
\* it ends the user has that again.
TrialPlan == IF Paid = {} THEN {TRUE} ELSE BOOLEAN
InTrial == sent < TrialMessages
InGrace == \E t \in trialEndedAt : hour < t + Grace

ReadTrialEnd(c) ==
  /\ claim[c].at = "check" /\ "user" \notin claim[c].read
  /\ \E trial \in TrialPlan :
       claim' = [claim EXCEPT ![c].open = (trial /\ InTrial) \/ InGrace, ![c].read = @ \union {"user"}]
  /\ UNCHANGED <<sent, trialEndedAt, hour, codes, payments, claims, claimedTogether, revived>>

Eligible_Paid(c) == claim[c].open
Eligible(c) == claim[c].unpaid /\ claim[c].open

Decide(c) ==
  /\ claim[c].at = "check" /\ claim[c].read = {"payments", "user"}
  /\ claim' = [claim EXCEPT ![c] = IF Eligible(c) THEN [@ EXCEPT !.at = "find"] ELSE NoClaim]
  /\ UNCHANGED <<sent, trialEndedAt, hour, codes, payments, claims, claimedTogether, revived>>

\* issuePersonalCode looks at the newest code that is active, and only at that one.
Newest == {i \in DOMAIN codes : codes[i].isActive /\ \A j \in DOMAIN codes : j > i => ~codes[j].isActive}

Reusable(i) == Good(codes[i])

FindCode(c) ==
  /\ claim[c].at = "find"
  /\ claim' = [claim EXCEPT ![c] =
       IF \E i \in Newest : Reusable(i) THEN NoClaim ELSE [@ EXCEPT !.at = "create"]]
  /\ UNCHANGED <<sent, trialEndedAt, hour, codes, payments, claims, claimedTogether, revived>>

\* The row, or a failure.
NewCode(c) ==
  [isActive |-> TRUE, usedCount |-> 0, expiresAt |-> hour + Valid, after |-> claim[c].after]
CreateCode(c) ==
  /\ claim[c].at = "create"
  /\ codes' \in {codes, Append(codes, NewCode(c))}
  /\ claim' = [claim EXCEPT ![c] = NoClaim]
  /\ UNCHANGED <<sent, trialEndedAt, hour, payments, claims, claimedTogether, revived>>

GrowthGiftNext ==
  \/ SendMessage \/ PassHour
  \/ \E i \in DOMAIN codes : \E isActive \in BOOLEAN : SetActive(i, isActive)
  \/ \E i \in {0} \union DOMAIN codes : OpenPayment(i)
  \/ \E p \in DOMAIN payments : BeginVerify(p) \/ Settle(p) \/ FailPayment(p)
  \/ \E c \in Claim :
       \/ BeginClaim(c) \/ ReadPayments(c) \/ ReadTrialEnd(c) \/ Decide(c)
       \/ FindCode(c) \/ CreateCode(c)
-----------------------------------------------------------------------------
(* A user has one good code of the gift at a time, however often it is claimed, expires or
   is switched off, unless two claims ran at once or a code was switched on again. *)
OneGoodCode ==
  \/ Cardinality({i \in DOMAIN codes : Good(codes[i])}) =< 1
  \/ claimedTogether \/ revived

(* The gift is redeemed again only by payments that were open together.  A payment opened
   after another redeemed the gift redeems another code, which was claimed while that other
   payment was still open or after a failure redirect had undone it. *)
Redeemed == {p \in Paid : payments[p].code # 0}
GiftRedeemedOnce ==
  \A p, q \in Redeemed : p \in payments[q].after =>
    /\ payments[p].code # payments[q].code
    /\ p \notin codes[payments[q].code].after \/ payments[p].status = "FAILED"
=============================================================================
