-------------------------------- MODULE MCChat --------------------------------
(***************************************************************************)
(* The parts of the chat for TLC. They share no state in the models, so a  *)
(* behaviour of all of them is checked one part at a time: the initial     *)
(* state chooses the part that runs, the others stay as they begin.        *)
(***************************************************************************)
EXTENDS Conversation, Images, ImageLimits, LiveStats, ModelRouter

\* Images
MCImageModel ==
  {[name |-> "mini", tier |-> "SIMPLE", size |-> "square", order |-> 1, price |-> 1],
   [name |-> "large", tier |-> "COMPLEX", size |-> "wide", order |-> 2, price |-> 2]}

\* ModelRouter
MCModel == <<"a", "b">>
Msg(code, complex, simple, length, last) ==
  [code |-> code, complex |-> complex, simple |-> simple, length |-> length, last |-> last]
MCMessage == {Msg(FALSE, 0, TRUE, 10, 900), Msg(TRUE, 0, FALSE, 100, 0), Msg(FALSE, 1, FALSE, 100, 0)}
MCStepLists ==
  {<<>>, <<[upTo |-> 50, models |-> <<"a">>, effort |-> "low"],
           [upTo |-> 100, models |-> <<"b">>, effort |-> "none"]>>}
MCRow(t, vision) == [tier |-> t, vision |-> vision, active |-> TRUE]
MCRows ==
  {[n \in {"a", "b"} |-> IF n = "a" THEN MCRow("SIMPLE", FALSE) ELSE MCRow("COMPLEX", TRUE)],
   [n \in {"a", "b"} |-> IF n = "a" THEN MCRow("COMPLEX", TRUE) ELSE MCRow("MEDIUM", FALSE)]}
MCPlan(allowed, simple, payg) == [allowed |-> allowed, simpleModel |-> simple, payg |-> payg]
MCPlans ==
  {MCPlan(<<"a", "b">>, "none", FALSE), MCPlan(<<"b">>, "a", FALSE),
   MCPlan(<<"b", "a">>, "b", FALSE), MCPlan(<<"a">>, "none", TRUE),
   MCPlan(<<>>, "none", FALSE)}

VARIABLE part

RouterStart == {<<m, plan, [enabled |-> TRUE, llm |-> FALSE], [list |-> <<>>, update |-> 0]>> :
                  m \in MCRows, plan \in MCPlans}

ChatInit ==
  /\ part \in {"conversation", "images", "image limits", "live statistics", "router"}
  /\ ConversationInit /\ ImagesInit /\ ImageLimitsInit /\ LiveStatsInit
  /\ ModelRouterInit
  \* the router's choices are of interest only where it runs
  /\ part = "router" \/ <<model, routed, router, steps>> = CHOOSE first \in RouterStart : TRUE

ChatNext ==
  \/ part = "conversation" /\ ConversationNext
       /\ UNCHANGED <<part, imageVars, imageLimitVars, liveVars, routerVars>>
  \/ part = "images" /\ ImagesNext
       /\ UNCHANGED <<part, conversationVars, imageLimitVars, liveVars, routerVars>>
  \/ part = "image limits" /\ ImageLimitsNext
       /\ UNCHANGED <<part, conversationVars, imageVars, liveVars, routerVars>>
  \/ part = "live statistics" /\ LiveStatsNext
       /\ UNCHANGED <<part, conversationVars, imageVars, imageLimitVars, routerVars>>
  \/ part = "router" /\ ModelRouterNext
       /\ UNCHANGED <<part, conversationVars, imageVars, imageLimitVars, liveVars>>

chatVars == <<part, conversationVars, imageVars, imageLimitVars, liveVars, routerVars>>
ChatSpec == ChatInit /\ [][ChatNext]_chatVars
=============================================================================
