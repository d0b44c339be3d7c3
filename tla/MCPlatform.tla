----------------------------- MODULE MCPlatform -----------------------------
(***************************************************************************)
(* The parts around the chat for TLC: the site's visitors, the gateway's   *)
(* keys, the back office and the background work. As in MCChat the initial *)
(* state chooses the part that runs and the others stay as they begin:     *)
(* they share no state in the models.                                      *)
(***************************************************************************)
EXTENDS AnonMigration, AnonFunnel, GrowthGift, LiaraKeys, AdminAlerts,
        Notifications, Schedules, ConfigCache, Sales, SalesKb, UsageReports,
        Tickets, Outages, Feedback, ConversationList, Gateways, TLC

\* UsageReports
MCSegments ==
  <<[label |-> "low", min |-> 0, max |-> 0], [label |-> "high", min |-> 1, max |-> 2]>>

\* The calls of one part take the names of those of another: exchanging two exchanges them in all.
Symmetry == Permutations(Claim)

VARIABLE part

PlatformInit ==
  /\ part \in {"migration", "funnel", "welcome gift", "gateway keys",
               "alerts", "notifications", "schedules", "configuration",
               "sales", "knowledge base", "reports", "tickets", "outages",
               "feedback", "conversation list", "gateways"}
  /\ AnonMigrationInit /\ AnonFunnelInit /\ GrowthGiftInit
  /\ LiaraKeysInit /\ AdminAlertsInit /\ NotificationsInit
  /\ SchedulesInit /\ ConfigCacheInit /\ SalesInit /\ SalesKbInit
  /\ UsageReportsInit /\ TicketsInit /\ OutagesInit /\ FeedbackInit
  /\ ConversationListInit /\ GatewaysInit

PlatformNext ==
  \/ part = "migration" /\ AnonMigrationNext
       /\ UNCHANGED <<part, funnelVars, giftVars, liaraVars, alertVars,
                      notificationVars, scheduleVars, configVars, salesVars,
                      kbVars, reportVars, ticketVars, outageVars,
                      feedbackVars, listVars, gatewayVars>>
  \/ part = "funnel" /\ AnonFunnelNext
       /\ UNCHANGED <<part, migrationVars, giftVars, liaraVars, alertVars,
                      notificationVars, scheduleVars, configVars, salesVars,
                      kbVars, reportVars, ticketVars, outageVars,
                      feedbackVars, listVars, gatewayVars>>
  \/ part = "welcome gift" /\ GrowthGiftNext
       /\ UNCHANGED <<part, migrationVars, funnelVars, liaraVars, alertVars,
                      notificationVars, scheduleVars, configVars, salesVars,
                      kbVars, reportVars, ticketVars, outageVars,
                      feedbackVars, listVars, gatewayVars>>
  \/ part = "gateway keys" /\ LiaraKeysNext
       /\ UNCHANGED <<part, migrationVars, funnelVars, giftVars, alertVars,
                      notificationVars, scheduleVars, configVars, salesVars,
                      kbVars, reportVars, ticketVars, outageVars,
                      feedbackVars, listVars, gatewayVars>>
  \/ part = "alerts" /\ AdminAlertsNext
       /\ UNCHANGED <<part, migrationVars, funnelVars, giftVars, liaraVars,
                      notificationVars, scheduleVars, configVars, salesVars,
                      kbVars, reportVars, ticketVars, outageVars,
                      feedbackVars, listVars, gatewayVars>>
  \/ part = "notifications" /\ NotificationsNext
       /\ UNCHANGED <<part, migrationVars, funnelVars, giftVars, liaraVars,
                      alertVars, scheduleVars, configVars, salesVars, kbVars,
                      reportVars, ticketVars, outageVars, feedbackVars,
                      listVars, gatewayVars>>
  \/ part = "schedules" /\ SchedulesNext
       /\ UNCHANGED <<part, migrationVars, funnelVars, giftVars, liaraVars,
                      alertVars, notificationVars, configVars, salesVars,
                      kbVars, reportVars, ticketVars, outageVars,
                      feedbackVars, listVars, gatewayVars>>
  \/ part = "configuration" /\ ConfigCacheNext
       /\ UNCHANGED <<part, migrationVars, funnelVars, giftVars, liaraVars,
                      alertVars, notificationVars, scheduleVars, salesVars,
                      kbVars, reportVars, ticketVars, outageVars,
                      feedbackVars, listVars, gatewayVars>>
  \/ part = "sales" /\ SalesNext
       /\ UNCHANGED <<part, migrationVars, funnelVars, giftVars, liaraVars,
                      alertVars, notificationVars, scheduleVars, configVars,
                      kbVars, reportVars, ticketVars, outageVars,
                      feedbackVars, listVars, gatewayVars>>
  \/ part = "knowledge base" /\ SalesKbNext
       /\ UNCHANGED <<part, migrationVars, funnelVars, giftVars, liaraVars,
                      alertVars, notificationVars, scheduleVars, configVars,
                      salesVars, reportVars, ticketVars, outageVars,
                      feedbackVars, listVars, gatewayVars>>
  \/ part = "reports" /\ UsageReportsNext
       /\ UNCHANGED <<part, migrationVars, funnelVars, giftVars, liaraVars,
                      alertVars, notificationVars, scheduleVars, configVars,
                      salesVars, kbVars, ticketVars, outageVars, feedbackVars,
                      listVars, gatewayVars>>
  \/ part = "tickets" /\ TicketsNext
       /\ UNCHANGED <<part, migrationVars, funnelVars, giftVars, liaraVars,
                      alertVars, notificationVars, scheduleVars, configVars,
                      salesVars, kbVars, reportVars, outageVars, feedbackVars,
                      listVars, gatewayVars>>
  \/ part = "outages" /\ OutagesNext
       /\ UNCHANGED <<part, migrationVars, funnelVars, giftVars, liaraVars,
                      alertVars, notificationVars, scheduleVars, configVars,
                      salesVars, kbVars, reportVars, ticketVars, feedbackVars,
                      listVars, gatewayVars>>
  \/ part = "feedback" /\ FeedbackNext
       /\ UNCHANGED <<part, migrationVars, funnelVars, giftVars, liaraVars,
                      alertVars, notificationVars, scheduleVars, configVars,
                      salesVars, kbVars, reportVars, ticketVars, outageVars,
                      listVars, gatewayVars>>
  \/ part = "conversation list" /\ ConversationListNext
       /\ UNCHANGED <<part, migrationVars, funnelVars, giftVars, liaraVars,
                      alertVars, notificationVars, scheduleVars, configVars,
                      salesVars, kbVars, reportVars, ticketVars, outageVars,
                      feedbackVars, gatewayVars>>
  \/ part = "gateways" /\ GatewaysNext
       /\ UNCHANGED <<part, migrationVars, funnelVars, giftVars, liaraVars,
                      alertVars, notificationVars, scheduleVars, configVars,
                      salesVars, kbVars, reportVars, ticketVars, outageVars,
                      feedbackVars, listVars>>

platformVars ==
  <<part, migrationVars, funnelVars, giftVars, liaraVars, alertVars,
    notificationVars, scheduleVars, configVars, salesVars, kbVars, reportVars,
    ticketVars, outageVars, feedbackVars, listVars, gatewayVars>>
PlatformSpec == PlatformInit /\ [][PlatformNext]_platformVars
-----------------------------------------------------------------------------
(* Reports of one window agree with one another and with what they leave out, those of
   the usage and those of the funnel, as far as they tell of the same table; where they do
   not, the tables differ by named causes. What is concluded from a cost grows with it.
   (An empty diary has nothing to report; all parts but the reports leave it empty.) *)
UsageReportsAddUp ==
  /\ ReportsTellOneCost
  /\ GrowthComparesNeighbours
  /\ RevenueLeftOutIsOfTheSilent
  /\ TablesDifferByCause
  /\ CategoriesAreFair
  /\ AlertFollowsTheMargin

ReportsAddUp ==
  /\ diary # <<>> => UsageReportsAddUp
  /\ ReportsAgree
  /\ BlockedArePushedOrLost
  /\ PurchaseMessagesCounted

(* What is given away is given once. A user has one good code of the welcome gift and redeems
   the gift again only with payments that were open together, or that were opened with a
   code claimed while the other payment was open or undone; and gets back the time of an
   outage; but for the overlaps and failures that the parts name. *)
UsersGetTheirDueOnce ==
  OneGoodCode /\ GiftRedeemedOnce /\ OneOutageOpen /\ OutagesMadeUp

(* Administrators are told, once: alerts are a cooldown apart and none is kept quiet, the
   rate they show is one, a reader is listed once, and a device that works is kept. *)
AdministratorsAreTold ==
  /\ AlertsAreSpaced
  /\ QuietOnlyAfterAlert
  /\ FailuresAmongCalls
  /\ ReadOnce
  /\ ReachableUnlessFailed

(* Several processes work as one: a queue has one job however they start, and none answers
   with a configuration that another replaced a minute ago. *)
ProcessesAgree == OneSchedulePerQueue /\ NoQueueForgotten /\ UpdatesSeenWithinTtl

(* The assistant keeps what visitors and the back office said, offers once and answers from
   the entries as they are, but for the overlaps that the parts name. *)
AssistantKeepsUp ==
  /\ LimiterGoesAway
  /\ OfferedOnceUnlessTogether
  /\ HistoryIsLatest
  /\ FollowUpsKept
  /\ VectorsMatchQuestions
  /\ ComparedLikeWithLike
  /\ RecomputeReachesAll
  /\ ShelfIsCurrent

(* Nobody's words are passed over: a reply is not lost on a closed ticket, nor a decision by
   an update that says nothing of it, feedback is counted once and read before it is marked,
   and no conversation is missing from the list. *)
UsersAreHeard ==
  /\ ClosedTakesNoReplies
  /\ LastDecisionStands
  /\ CountsWhatItRead
  /\ CheckedWereHeard
  /\ EveryChatListedOnce
=============================================================================
