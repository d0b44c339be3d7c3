------------------------------ MODULE ChatProofs ------------------------------
(***************************************************************************)
(* Proofs about the parts of MCChat.tla, for any number of requests,       *)
(* messages, models, plans and streams. Each part is looked at alone: a    *)
(* step of the composition is a step of the part or leaves its variables   *)
(* alone.                                                                  *)
(***************************************************************************)
EXTENDS MCChat, SumProofs

(* The model router *)

LEMMA RouterStep == [ChatNext]_chatVars => [ModelRouterNext]_routerVars
  BY DEF ChatNext, chatVars

RouterConfig == [enabled : BOOLEAN, llm : BOOLEAN]
StepsRecord == [list : StepLists, update : Nat]
ModelChoices == Name \cup Allowed \cup {NoModel}
RouteRecord ==
  [at : {"idle", "config", "configRow", "configFill", "classify", "candidates", "steps",
         "stepsRow", "stepsFill", "choose", "done"},
   manual : Allowed \cup {NoModel}, images : BOOLEAN, usage : Int, message : SUBSET Message, tier : Tier,
   candidates : SUBSET Name, steps : SUBSET StepsRecord, config : SUBSET RouterConfig,
   chosen : ModelChoices, overrode : ModelChoices, since : Nat]

RouterTypes ==
  /\ model \in [Name -> [tier : Tier, vision : BOOLEAN, active : BOOLEAN]]
  /\ routed \in [allowed : Seq(STRING), simpleModel : STRING, payg : BOOLEAN]
  /\ router \in RouterConfig /\ routerCache \in SUBSET RouterConfig
  /\ steps \in StepsRecord /\ stepsCache \in SUBSET StepsRecord
  /\ routing \in RouteRecord
  /\ changes \in Nat /\ installed \in Nat

\* The updates that are through are not ahead of the rows, nor of a cache that was not overtaken.
UpdatesInOrder ==
  /\ steps.update =< changes /\ installed =< steps.update /\ routing.since =< installed
  /\ \A u \in updating : u.what = "steps" => u.update \in Nat /\ u.update =< steps.update
  /\ \A s \in stepsCache : s.update =< steps.update /\ (overtook \/ installed =< s.update)
  /\ \A s \in routing.steps : s.update =< steps.update /\ (overtook \/ routing.since =< s.update)

\* A request has one message; its candidates are models of the plan that see the pictures
\* there are, and the steps come after them.
Qualified(r) ==
  /\ \A m, n \in r.message : m = n
  /\ r.at \in {"steps", "stepsRow", "stepsFill", "choose"} =>
       /\ r.candidates # {} /\ r.candidates \subseteq Allowed \cap Name
       /\ r.images => \A n \in r.candidates : model[n].vision
  /\ r.at \in {"config", "configRow", "configFill", "classify", "candidates", "steps", "stepsRow"} =>
       r.steps = {}
  /\ r.at \in {"stepsFill", "choose"} => r.steps # {}
CandidatesQualify == Qualified(routing)

\* A greeting stays with the cheap tier all the way to the choice.
KeepsGreeting(r) ==
  r.at \in {"candidates", "steps", "stepsRow", "stepsFill", "choose"} =>
    \A m \in r.message : m.simple /\ m.complex = 0 /\ ~m.code /\ m.length < 20 => r.tier = "SIMPLE"

RouterInv ==
  /\ RouterTypes /\ UpdatesInOrder /\ CandidatesQualify /\ KeepsGreeting(routing) /\ ChoicesAreSound

LEMMA FirstIsAllowed ==
  ASSUME RouterTypes, Allowed # {}
  PROVE  routed.allowed[1] \in Allowed
  <1> DEFINE list == routed.allowed
  <1>1. list \in Seq(STRING)
    BY DEF RouterTypes
  <1>2. Allowed = {list[i] : i \in DOMAIN list}
    BY DEF Allowed
  <1> HIDE DEF list
  <1>3. 1 \in DOMAIN list
    BY <1>1, <1>2
  <1>4. QED
    BY <1>1, <1>2, <1>3 DEF list

\* What routing falls back on is the user's valid choice or the plan's first model.
LEMMA DefaultIsAllowed ==
  ASSUME RouterTypes, NEW manual \in Allowed \cup {NoModel}
  PROVE  Default(manual) \in ModelChoices /\ (Allowed # {} => Default(manual) \in Allowed)
  BY FirstIsAllowed DEF Default, ModelChoices

LEMMA FarIsNat ==
  ASSUME RouterTypes, NEW n \in Name, NEW tier \in Tier
  PROVE  Far(n, tier) \in Nat
  <1>1. model[n].tier \in Tier
    BY DEF RouterTypes
  <1>2. \A t \in Tier : Rank[t] \in {0, 1, 2}
    BY DEF Tier, Rank
  <1>3. QED
    BY <1>1, <1>2 DEF Far

LEMMA PositionIsNat ==
  ASSUME NEW list \in Seq(STRING), NEW n
  PROVE  Position(n, list) \in Nat
  BY DEF Position

\* There is a nearest model, and a first one among the nearest.
LEMMA PickIsOne ==
  ASSUME RouterTypes, NEW names, names \subseteq Name, names # {}, NEW tier \in Tier,
         NEW order \in Seq(STRING)
  PROVE  Pick(names, tier, order) \in names
  <1> DEFINE far == [n \in names |-> Far(n, tier)]
             pos == [n \in names |-> Position(n, order)]
  <1>1. \A n \in names : far[n] = Far(n, tier) /\ pos[n] = Position(n, order)
    OBVIOUS
  <1>2. \A n \in names : far[n] \in Nat /\ pos[n] \in Nat
    BY <1>1, FarIsNat, PositionIsNat
  <1> HIDE DEF far, pos
  <1>3. PICK a \in names : \A n \in names : far[a] =< far[n]
    <2> DEFINE T == {far[n] : n \in names}
    <2>1. T \subseteq Nat /\ T # {}
      BY <1>2
    <2>2. PICK f \in T : \A m \in T : f =< m
      BY <2>1, LeastNumber
    <2>3. QED
      BY <2>2
  <1>4. PICK b \in {n \in names : far[n] = far[a]} :
          \A n \in names : far[n] = far[a] => pos[b] =< pos[n]
    <2> DEFINE T == {pos[n] : n \in {n \in names : far[n] = far[a]}}
    <2>1. T \subseteq Nat /\ T # {}
      BY <1>2
    <2>2. PICK p \in T : \A m \in T : p =< m
      BY <2>1, LeastNumber
    <2>3. QED
      BY <2>2
  <1>5. ASSUME NEW n \in names PROVE far[b] < far[n] \/ (far[b] = far[n] /\ pos[b] =< pos[n])
    <2>1. far[b] = far[a] /\ far[a] =< far[n] /\ far[a] \in Nat /\ far[n] \in Nat
      BY <1>2, <1>3, <1>4
    <2>2. far[n] = far[a] => pos[b] =< pos[n]
      BY <1>4
    <2>3. QED
      BY <2>1, <2>2
  <1>6. ASSUME NEW n \in names
        PROVE  \/ Far(b, tier) < Far(n, tier)
               \/ Far(b, tier) = Far(n, tier) /\ Position(b, order) =< Position(n, order)
    <2>1. far[b] = Far(b, tier) /\ pos[b] = Position(b, order)
      BY <1>1, <1>4
    <2>2. far[n] = Far(n, tier) /\ pos[n] = Position(n, order)
      BY <1>1
    <2>3. QED
      BY <1>5, <2>1, <2>2
  <1>7. QED
    BY <1>4, <1>6 DEF Pick

LEMMA CurrentStepIsOne ==
  ASSUME NEW list \in StepLists, list # <<>>, NEW usage \in Int
  PROVE  \E i \in DOMAIN list : CurrentStep(list, usage) = list[i]
  <1>1. list \in Seq([upTo : Int, models : Seq(STRING), effort : STRING])
    BY ModelRouterAssumption
  <1>2. 1 \in DOMAIN list /\ Len(list) \in DOMAIN list /\ DOMAIN list \subseteq Nat
    BY <1>1
  <1> DEFINE open == {i \in DOMAIN list : usage =< list[i].upTo}
  <1>3. CASE open = {}
    BY <1>2, <1>3 DEF CurrentStep
  <1>4. CASE open # {}
    <2>1. PICK i \in open : \A j \in open : i =< j
      <3> HIDE DEF open
      <3>1. open \subseteq Nat
        BY <1>2 DEF open
      <3>2. QED
        BY <1>4, <3>1, LeastNumber
    <2>2. QED
      BY <1>4, <2>1 DEF CurrentStep
  <1>5. QED
    BY <1>3, <1>4

LEMMA StepsAreRecords ==
  ASSUME NEW list \in StepLists, NEW i \in DOMAIN list
  PROVE  list[i].upTo \in Int /\ list[i].models \in Seq(STRING)
  <1> DEFINE R == [upTo : Int, models : Seq(STRING), effort : STRING]
  <1>1. list \in Seq(R)
    BY ModelRouterAssumption
  <1>2. list[i] \in R
    <2> HIDE DEF R
    <2>1. QED
      BY <1>1
  <1>3. QED
    BY <1>2

LEMMA PoolIsSome ==
  ASSUME NEW step, NEW names
  PROVE  /\ Pool(step, names) \subseteq names /\ (names # {} => Pool(step, names) # {})
         /\ \A n \in Pool(step, names) :
              \/ \E i \in DOMAIN step.models : step.models[i] = n
              \/ \A m \in names : ~ \E i \in DOMAIN step.models : step.models[i] = m
  BY DEF Pool

LEMMA InitRouter == ModelRouterInit => RouterInv
  <1> SUFFICES ASSUME ModelRouterInit PROVE RouterInv
    OBVIOUS
  <1>1. NoRoute \in RouteRecord
    <2>1. NoModel \in ModelChoices /\ "MEDIUM" \in Tier
      BY DEF ModelChoices, Tier
    <2>2. QED
      BY <2>1 DEF NoRoute, RouteRecord
  <1>2. NoRoute.at = "idle" /\ NoRoute.steps = {} /\ NoRoute.since = 0 /\ NoRoute.message = {}
    BY DEF NoRoute
  <1>3. routing = NoRoute /\ steps \in [list : StepLists, update : {0}]
    BY DEF ModelRouterInit
  <1>4. RouterTypes
    <2>1. model \in [Name -> [tier : Tier, vision : BOOLEAN, active : BOOLEAN]]
      BY ModelRouterAssumption DEF ModelRouterInit
    <2>2. routed \in [allowed : Seq(STRING), simpleModel : STRING, payg : BOOLEAN]
      BY ModelRouterAssumption DEF ModelRouterInit
    <2>3. router \in RouterConfig
      BY DEF ModelRouterInit, RouterConfig
    <2>4. steps \in StepsRecord
      BY <1>3 DEF StepsRecord
    <2>5. QED
      BY <1>1, <1>3, <2>1, <2>2, <2>3, <2>4 DEF ModelRouterInit, RouterTypes
  <1>5. UpdatesInOrder
    BY <1>2, <1>3 DEF ModelRouterInit, UpdatesInOrder
  <1>6. ChoicesAreSound
    BY <1>2, <1>3 DEF ChoicesAreSound, ChoiceIsAllowed, PicturesAreSeen, BudgetOverridesManual,
       GreetingStaysSimple, StepsCurrentUnlessOvertaken, Routed, Stepped
  <1>7. QED
    BY <1>2, <1>3, <1>4, <1>5, <1>6 DEF RouterInv, CandidatesQualify, Qualified, KeepsGreeting

UpToDate(ss, since, late) == \A s \in ss : s.update =< steps.update /\ (late \/ since =< s.update)

LEMMA StepsOfIsOne == ASSUME routing.steps # {} PROVE StepsOf \in routing.steps
  BY DEF StepsOf

\* A request goes on, and is not done.
LEMMA RequestGoesOn ==
  ASSUME RouterInv, Unread,
         routerCache' \in SUBSET RouterConfig, stepsCache' \in SUBSET StepsRecord,
         overtook => overtook', UpToDate(stepsCache', installed, overtook'),
         routing' \in RouteRecord, routing'.since = routing.since, routing'.at # "done",
         UpToDate(routing'.steps, routing.since, overtook'),
         Qualified(routing'), KeepsGreeting(routing')
  PROVE  RouterInv'
  <1>1. RouteRecord' = RouteRecord /\ Allowed' = Allowed
    BY DEF Unread, RouteRecord, ModelChoices, Allowed
  <1>2. RouterTypes'
    BY <1>1 DEF RouterInv, RouterTypes, Unread
  <1>3. UpdatesInOrder'
    BY DEF RouterInv, UpdatesInOrder, Unread, UpToDate
  <1>4. CandidatesQualify'
    BY <1>1 DEF CandidatesQualify, Qualified, Unread
  <1>5. StepsCurrentUnlessOvertaken'
    <2> SUFFICES ASSUME routing'.steps # {} PROVE StepsOf'.update >= routing'.since \/ overtook'
      BY DEF StepsCurrentUnlessOvertaken
    <2>1. StepsOf' \in routing'.steps
      BY DEF StepsOf
    <2>2. StepsOf'.update \in Nat /\ routing'.since \in Nat
      BY <2>1 DEF RouteRecord, StepsRecord
    <2>3. QED
      BY <2>1, <2>2 DEF UpToDate
  <1>6. ChoicesAreSound'
    BY <1>5 DEF ChoicesAreSound, ChoiceIsAllowed, PicturesAreSeen, BudgetOverridesManual,
       GreetingStaysSimple, Routed, KeepsGreeting
  <1>7. QED
    BY <1>2, <1>3, <1>4, <1>6 DEF RouterInv

\* What a choice has to respect.
SeesPictures(name) ==
  Enabled /\ routing.images /\ changes = 0 /\ (\E n \in Allowed \cap Name : Usable(n, TRUE))
    => model[name].vision
FollowsTheBudget(name) ==
  Stepped /\ routing.usage > StepsOf.list[1].upTo =>
    LET step == CurrentStep(StepsOf.list, routing.usage)
        inStep(n) == \E i \in DOMAIN step.models : step.models[i] = n
    IN  inStep(name) \/ \A n \in routing.candidates : ~inStep(n)

LEMMA RequestIsRouted ==
  ASSUME RouterInv, Unread, UNCHANGED <<stepsCache, routerCache, overtook>>,
         NEW name \in ModelChoices, NEW overrode \in ModelChoices, Choose(name, overrode),
         Allowed # {} => name \in Allowed, SeesPictures(name), FollowsTheBudget(name)
  PROVE  RouterInv'
  <1>1. RouteRecord' = RouteRecord /\ Allowed' = Allowed
    BY DEF Unread, RouteRecord, ModelChoices, Allowed
  <1> DEFINE r == [routing EXCEPT !.at = "done", !.chosen = name, !.overrode = overrode]
  <1>2. routing \in RouteRecord
    BY DEF RouterInv, RouterTypes
  <1>3. r \in RouteRecord
    BY <1>2 DEF RouteRecord
  <1>4. /\ r.at = "done" /\ r.chosen = name /\ r.since = routing.since /\ r.steps = routing.steps
        /\ r.config = routing.config /\ r.images = routing.images /\ r.usage = routing.usage
        /\ r.candidates = routing.candidates /\ r.message = routing.message
    BY <1>2 DEF RouteRecord
  <1>5. routing' = r
    BY DEF Choose
  <1> HIDE DEF r
  <1>6. StepsOf' = StepsOf /\ ConfigOf' = ConfigOf
    BY <1>4, <1>5 DEF StepsOf, ConfigOf
  <1>7. RouterTypes'
    BY <1>1, <1>3, <1>5 DEF RouterInv, RouterTypes, Unread
  <1>8. UpdatesInOrder'
    BY <1>4, <1>5 DEF RouterInv, UpdatesInOrder, Unread
  <1>9. CandidatesQualify' /\ KeepsGreeting(routing')
    BY <1>4, <1>5 DEF RouterInv, CandidatesQualify, Qualified, KeepsGreeting
  <1>10. ChoiceIsAllowed' /\ GreetingStaysSimple' /\ StepsCurrentUnlessOvertaken'
    BY <1>1, <1>4, <1>5, <1>6 DEF RouterInv, ChoicesAreSound, ChoiceIsAllowed, GreetingStaysSimple,
       StepsCurrentUnlessOvertaken
  <1>11. PicturesAreSeen'
    BY <1>1, <1>4, <1>5, <1>6 DEF SeesPictures, PicturesAreSeen, Enabled, Usable, Unread
  <1>12. BudgetOverridesManual'
    <2> SUFFICES ASSUME Stepped', routing'.usage > StepsOf'.list[1].upTo
                 PROVE  BudgetOverridesManual'
      BY DEF BudgetOverridesManual
    <2>1. Stepped /\ routing.usage > StepsOf.list[1].upTo
      BY <1>4, <1>5, <1>6 DEF Stepped
    <2>2. QED
      BY <1>4, <1>5, <1>6, <2>1 DEF FollowsTheBudget, BudgetOverridesManual, CurrentStep
  <1>13. QED
    BY <1>7, <1>8, <1>9, <1>10, <1>11, <1>12 DEF RouterInv, ChoicesAreSound

LEMMA RouteBegins ==
  ASSUME RouterInv, NEW manual \in Name \cup {NoModel}, NEW images \in BOOLEAN, NEW usage \in Usage,
         NEW m \in Message, BeginRoute(manual, images, usage, m)
  PROVE  RouterInv'
  <1> DEFINE valid == IF manual \in Allowed THEN manual ELSE NoModel
             asked == [NoRoute EXCEPT !.at = "config", !.manual = valid, !.images = images,
                                      !.usage = usage, !.message = {m}, !.since = installed]
             paid == [asked EXCEPT !.at = "done", !.chosen = Default(valid)]
  <1>1. valid \in Allowed \cup {NoModel}
    OBVIOUS
  <1>2. RouterTypes /\ usage \in Int /\ installed \in Nat
    BY ModelRouterAssumption DEF RouterInv, RouterTypes
  <1>3. Default(valid) \in ModelChoices /\ (Allowed # {} => Default(valid) \in Allowed)
    BY <1>1, <1>2, DefaultIsAllowed
  <1>4. NoRoute \in RouteRecord /\ NoRoute.steps = {} /\ NoRoute.config = {}
    <2>1. NoModel \in ModelChoices /\ "MEDIUM" \in Tier
      BY DEF ModelChoices, Tier
    <2>2. QED
      BY <2>1 DEF NoRoute, RouteRecord
  <1> HIDE DEF valid
  <1>5. asked \in RouteRecord /\ asked.at = "config" /\ asked.since = installed /\ asked.steps = {}
        /\ asked.config = {} /\ asked.message = {m}
    BY <1>1, <1>2, <1>4 DEF RouteRecord
  <1> HIDE DEF asked
  <1>6. paid \in RouteRecord /\ paid.at = "done" /\ paid.since = installed /\ paid.steps = {}
        /\ paid.config = {} /\ paid.chosen = Default(valid) /\ paid.message = {m}
    BY <1>3, <1>5 DEF RouteRecord
  <1> HIDE DEF paid
  <1>7. routing' \in {asked, paid}
    BY DEF BeginRoute, asked, paid, valid
  <1>8. UNCHANGED <<model, routed, router, steps, stepsCache, routerCache, updating, changes,
                    installed, overtook>>
    BY DEF BeginRoute
  <1>9. RouteRecord' = RouteRecord /\ Allowed' = Allowed
    BY <1>8 DEF RouteRecord, ModelChoices, Allowed
  <1>10. RouterTypes'
    BY <1>2, <1>5, <1>6, <1>7, <1>8, <1>9 DEF RouterTypes
  <1>11. UpdatesInOrder'
    BY <1>2, <1>5, <1>6, <1>7, <1>8 DEF RouterInv, UpdatesInOrder
  <1>12. CandidatesQualify' /\ GreetingStaysSimple' /\ KeepsGreeting(routing')
    BY <1>5, <1>6, <1>7 DEF CandidatesQualify, Qualified, GreetingStaysSimple, KeepsGreeting
  <1>13. ChoiceIsAllowed'
    BY <1>3, <1>5, <1>6, <1>7, <1>9 DEF ChoiceIsAllowed, Routed
  <1>14. PicturesAreSeen' /\ BudgetOverridesManual' /\ StepsCurrentUnlessOvertaken'
    BY <1>5, <1>6, <1>7 DEF PicturesAreSeen, BudgetOverridesManual, StepsCurrentUnlessOvertaken,
       Enabled, Stepped
  <1>15. QED
    BY <1>10, <1>11, <1>12, <1>13, <1>14 DEF RouterInv, ChoicesAreSound

LEMMA GreetingIsSimple ==
  ASSUME NEW m \in Message, NEW llm, NEW t \in Tiers(m, llm),
         m.simple, m.complex = 0, ~m.code, m.length < 20
  PROVE  t = "SIMPLE"
  <1>1. m.length \in Nat
    BY ModelRouterAssumption
  <1>2. Greets(m)
    BY <1>1 DEF Greets
  <1>3. QED
    BY <1>2 DEF Tiers, Heuristic

LEMMA TiersAreTiers == ASSUME NEW m, NEW llm PROVE Tiers(m, llm) \subseteq Tier
  BY DEF Tiers, Heuristic, Tier

\* The router's configuration is read, and the message is classified by it.
LEMMA ConfigIsRead ==
  ASSUME RouterInv, ReadRouterCache \/ ReadRouterRow \/ FillRouterCache
  PROVE  RouterInv'
  <1>1. /\ routing \in RouteRecord /\ router \in RouterConfig /\ routerCache \in SUBSET RouterConfig
        /\ stepsCache \in SUBSET StepsRecord
        /\ UpToDate(stepsCache, installed, overtook) /\ UpToDate(routing.steps, routing.since, overtook)
    BY DEF RouterInv, RouterTypes, UpdatesInOrder, UpToDate
  <1>2. routing.config \in SUBSET RouterConfig
    BY <1>1 DEF RouteRecord
  <1>3. /\ routing' \in RouteRecord /\ routing'.since = routing.since /\ routing'.steps = routing.steps
        /\ routing'.message = routing.message
        /\ routing'.at \in {"classify", "configRow", "configFill"}
        /\ routing.at \in {"config", "configRow", "configFill"}
    <2>1. CASE ReadRouterCache
      BY <1>1, <2>1 DEF ReadRouterCache, RouteRecord
    <2>2. CASE ReadRouterRow
      <3>1. {router} \in SUBSET RouterConfig
        BY <1>1
      <3>2. QED
        BY <1>1, <2>2, <3>1 DEF ReadRouterRow, RouteRecord
    <2>3. CASE FillRouterCache
      BY <1>1, <2>3 DEF FillRouterCache, RouteRecord
    <2>4. QED
      BY <2>1, <2>2, <2>3
  <1>4. Unread /\ UNCHANGED <<stepsCache, overtook>> /\ routerCache' \in SUBSET RouterConfig
    BY <1>1, <1>2 DEF ReadRouterCache, ReadRouterRow, FillRouterCache
  <1>5. Qualified(routing') /\ KeepsGreeting(routing')
    BY <1>3 DEF RouterInv, CandidatesQualify, Qualified, KeepsGreeting
  <1>6. UpToDate(stepsCache', installed, overtook') /\ UpToDate(routing'.steps, routing.since, overtook')
    BY <1>1, <1>3, <1>4
  <1>7. QED
    BY <1>1, <1>3, <1>4, <1>5, <1>6, RequestGoesOn

LEMMA MessageIsClassified ==
  ASSUME RouterInv, Classify
  PROVE  RouterInv'
  <1>1. /\ RouterTypes /\ routing \in RouteRecord /\ Qualified(routing) /\ routing.at = "classify"
        /\ routerCache \in SUBSET RouterConfig /\ stepsCache \in SUBSET StepsRecord
        /\ UpToDate(stepsCache, installed, overtook) /\ UpToDate(routing.steps, routing.since, overtook)
    BY DEF RouterInv, RouterTypes, UpdatesInOrder, UpToDate, CandidatesQualify, Classify
  <1>2. UNCHANGED <<stepsCache, routerCache, overtook>> /\ Unread
    BY DEF Classify
  <1>3. CASE ~ConfigOf.enabled
    <2>1. routing.manual \in Allowed \cup {NoModel}
      BY <1>1 DEF RouteRecord
    <2>2. Default(routing.manual) \in ModelChoices /\ (Allowed # {} => Default(routing.manual) \in Allowed)
      BY <1>1, <2>1, DefaultIsAllowed
    <2>3. SeesPictures(Default(routing.manual)) /\ FollowsTheBudget(Default(routing.manual))
      BY <1>1, <1>3 DEF SeesPictures, Enabled, FollowsTheBudget, Stepped, Qualified
    <2>4. NoModel \in ModelChoices /\ Choose(Default(routing.manual), NoModel)
      BY <1>3 DEF ModelChoices, Classify
    <2>5. QED
      BY <1>2, <2>2, <2>3, <2>4, RequestIsRouted
  <1>4. CASE ConfigOf.enabled
    <2>1. PICK m \in routing.message : \E t \in Tiers(m, ConfigOf.llm) :
            routing' = [routing EXCEPT !.at = "candidates", !.tier = t]
      BY <1>4 DEF Classify
    <2>2. PICK t \in Tiers(m, ConfigOf.llm) :
            routing' = [routing EXCEPT !.at = "candidates", !.tier = t]
      BY <2>1
    <2>3. t \in Tier /\ m \in Message
      BY <1>1, TiersAreTiers DEF RouteRecord
    <2>4. /\ routing' \in RouteRecord /\ routing'.since = routing.since
          /\ routing'.steps = routing.steps /\ routing'.at = "candidates" /\ routing'.tier = t
          /\ routing'.message = routing.message
      BY <1>1, <2>2, <2>3 DEF RouteRecord
    <2>5. Qualified(routing')
      BY <1>1, <2>4 DEF Qualified
    <2>6. KeepsGreeting(routing')
      <3> SUFFICES ASSUME NEW n \in routing'.message, n.simple, n.complex = 0, ~n.code, n.length < 20
                   PROVE  t = "SIMPLE"
        BY <2>4 DEF KeepsGreeting
      <3>1. n = m
        BY <1>1, <2>4 DEF Qualified
      <3>2. QED
        BY <2>3, <3>1, GreetingIsSimple
    <2>7. UpToDate(stepsCache', installed, overtook') /\ UpToDate(routing'.steps, routing.since, overtook')
      BY <1>1, <1>2, <2>4
    <2>8. QED
      BY <1>1, <1>2, <2>4, <2>5, <2>6, <2>7, RequestGoesOn
  <1>5. QED
    BY <1>3, <1>4

LEMMA CandidatesAreRead ==
  ASSUME RouterInv, ReadCandidates
  PROVE  RouterInv'
  <1> DEFINE names == Candidates(routing.images)
  <1>1. /\ RouterTypes /\ routing \in RouteRecord /\ Qualified(routing) /\ routing.at = "candidates"
        /\ routerCache \in SUBSET RouterConfig /\ stepsCache \in SUBSET StepsRecord
        /\ UpToDate(stepsCache, installed, overtook) /\ UpToDate(routing.steps, routing.since, overtook)
        /\ KeepsGreeting(routing)
    BY DEF RouterInv, RouterTypes, UpdatesInOrder, UpToDate, CandidatesQualify, ReadCandidates,
       ChoicesAreSound
  <1>2. UNCHANGED <<stepsCache, routerCache, overtook>> /\ Unread
    BY DEF ReadCandidates
  <1>3. /\ names \subseteq Allowed \cap Name
        /\ routing.images => \A n \in names : model[n].vision
        /\ routing.images => \A n \in Allowed \cap Name : Usable(n, TRUE) => n \in names
    <2>1. \A n : n \in names <=> n \in Allowed \cap Name /\ Usable(n, routing.images)
      BY DEF Candidates
    <2>2. \A n \in names : routing.images => model[n].vision
      BY <2>1 DEF Usable
    <2>3. routing.images \in BOOLEAN
      BY <1>1 DEF RouteRecord
    <2>4. QED
      BY <2>1, <2>2, <2>3 DEF Usable
  <1>4. ASSUME NEW name PROVE FollowsTheBudget(name)
    BY <1>1 DEF FollowsTheBudget, Stepped, Qualified
  <1>5. routing.manual \in Allowed \cup {NoModel} /\ NoModel \in ModelChoices
    BY <1>1 DEF RouteRecord, ModelChoices
  <1>6. ReadCandidates => \/ names = {} /\ Choose(Default(routing.manual), NoModel)
                          \/ names # {} /\ RouteSimple(names)
                          \/ /\ names # {} /\ routing.tier # "SIMPLE"
                             /\ routing' = [routing EXCEPT !.at = "steps", !.candidates = names]
    BY DEF ReadCandidates
  <1> HIDE DEF names
  <1>7. CASE names = {} /\ Choose(Default(routing.manual), NoModel)
    <2>1. Default(routing.manual) \in ModelChoices /\ (Allowed # {} => Default(routing.manual) \in Allowed)
      BY <1>1, <1>5, DefaultIsAllowed
    <2>2. SeesPictures(Default(routing.manual))
      BY <1>3, <1>7 DEF SeesPictures
    <2>3. FollowsTheBudget(Default(routing.manual))
      BY <1>4
    <2>4. QED
      BY <1>2, <1>5, <1>7, <2>1, <2>2, <2>3, RequestIsRouted
  <1>8. CASE names # {} /\ RouteSimple(names)
    <2>1. "SIMPLE" \in Tier /\ Model \in Seq(STRING) /\ names \subseteq Name
      BY <1>3, ModelRouterAssumption DEF Tier
    <2>2. Pick(names, "SIMPLE", Model) \in names
      BY <1>1, <1>8, <2>1, PickIsOne
    <2>3. PICK name \in names : Choose(name, Overrode(routing.manual, name))
      BY <1>8, <2>2 DEF RouteSimple
    <2>4. name \in ModelChoices /\ name \in Allowed /\ Overrode(routing.manual, name) \in ModelChoices
      BY <1>3, <1>5, <2>3 DEF ModelChoices, Overrode
    <2>5. SeesPictures(name)
      BY <1>3, <2>3 DEF SeesPictures
    <2>6. FollowsTheBudget(name)
      BY <1>4
    <2>7. QED
      BY <1>2, <2>3, <2>4, <2>5, <2>6, RequestIsRouted
  <1>9. CASE /\ names # {} /\ routing.tier # "SIMPLE"
             /\ routing' = [routing EXCEPT !.at = "steps", !.candidates = names]
    <2>1. names \in SUBSET Name
      BY <1>3
    <2>2. /\ routing' \in RouteRecord /\ routing'.since = routing.since
          /\ routing'.steps = routing.steps /\ routing'.at = "steps" /\ routing'.tier = routing.tier
          /\ routing'.message = routing.message /\ routing'.candidates = names
          /\ routing'.images = routing.images
      BY <1>1, <1>9, <2>1 DEF RouteRecord
    <2>3. Qualified(routing')
      BY <1>1, <1>3, <1>9, <2>2 DEF Qualified
    <2>4. KeepsGreeting(routing')
      BY <1>1, <2>2 DEF KeepsGreeting
    <2>5. UpToDate(stepsCache', installed, overtook') /\ UpToDate(routing'.steps, routing.since, overtook')
      BY <1>1, <1>2, <2>2
    <2>6. QED
      BY <1>1, <1>2, <2>2, <2>3, <2>4, <2>5, RequestGoesOn
  <1>10. QED
    BY <1>6, <1>7, <1>8, <1>9

\* Steps read from the rows are the newest; those of a cache are not older than the last
\* update that was through when the message came, unless a fill was overtaken.
LEMMA StepsAreRead ==
  ASSUME RouterInv, ReadStepsCache \/ ReadStepsRow \/ FillStepsCache
  PROVE  RouterInv'
  <1>1. /\ RouterTypes /\ routing \in RouteRecord /\ Qualified(routing)
        /\ routing.at \in {"steps", "stepsRow", "stepsFill"}
        /\ routerCache \in SUBSET RouterConfig /\ stepsCache \in SUBSET StepsRecord
        /\ UpToDate(stepsCache, installed, overtook) /\ UpToDate(routing.steps, routing.since, overtook)
        /\ KeepsGreeting(routing) /\ steps \in StepsRecord /\ routing.steps \in SUBSET StepsRecord
        /\ installed \in Nat /\ routing.since \in Nat
    BY DEF RouterInv, RouterTypes, UpdatesInOrder, UpToDate, CandidatesQualify, ReadStepsCache,
       ReadStepsRow, FillStepsCache, ChoicesAreSound, RouteRecord
  <1>2. installed =< steps.update /\ routing.since =< installed /\ steps.update \in Nat
    BY <1>1 DEF RouterInv, UpdatesInOrder, StepsRecord
  <1>3. Unread /\ UNCHANGED routerCache
    BY DEF ReadStepsCache, ReadStepsRow, FillStepsCache
  <1>4. /\ routing' \in RouteRecord /\ routing'.since = routing.since /\ routing'.tier = routing.tier
        /\ routing'.message = routing.message /\ routing'.candidates = routing.candidates
        /\ routing'.images = routing.images /\ routing'.at \in {"choose", "stepsRow", "stepsFill"}
        /\ routing'.steps \in {routing.steps, stepsCache, {steps}}
        /\ (routing'.at = "stepsRow" => routing'.steps = routing.steps /\ routing.at = "steps")
        /\ (routing'.at # "stepsRow" => routing'.steps # {})
    <2>1. CASE ReadStepsCache
      BY <1>1, <2>1 DEF ReadStepsCache, RouteRecord
    <2>2. CASE ReadStepsRow
      <3>1. {steps} \in SUBSET StepsRecord
        BY <1>1
      <3>2. QED
        BY <1>1, <2>2, <3>1 DEF ReadStepsRow, RouteRecord
    <2>3. CASE FillStepsCache
      BY <1>1, <2>3 DEF FillStepsCache, RouteRecord, Qualified
    <2>4. QED
      BY <2>1, <2>2, <2>3
  <1>5. /\ stepsCache' \in {stepsCache, routing.steps} /\ (overtook => overtook')
        /\ stepsCache' = stepsCache \/ overtook' \/ \A s \in routing.steps : ~(s.update < steps.update)
    <2>1. CASE ReadStepsCache \/ ReadStepsRow
      BY <2>1 DEF ReadStepsCache, ReadStepsRow
    <2>2. CASE FillStepsCache
      <3>1. stepsCache' = routing.steps
        BY <2>2 DEF FillStepsCache
      <3>2. overtook' = (overtook \/ \E s \in routing.steps : s.update < steps.update)
        BY <2>2 DEF FillStepsCache
      <3>3. QED
        BY <3>1, <3>2, Zenon
    <2>3. QED
      BY <2>1, <2>2
  <1>6. \A s \in StepsRecord : s.update \in Nat
    BY DEF StepsRecord
  <1>7. UpToDate(stepsCache', installed, overtook')
    <2>1. CASE stepsCache' = stepsCache
      BY <1>1, <1>5, <2>1 DEF UpToDate
    <2>2. CASE stepsCache' = routing.steps /\ stepsCache' # stepsCache
      <3>1. ASSUME NEW s \in routing.steps
            PROVE  s.update =< steps.update /\ (overtook' \/ installed =< s.update)
        <4>1. s.update \in Nat /\ s.update =< steps.update
          BY <1>1, <1>6 DEF UpToDate
        <4>2. overtook' \/ ~(s.update < steps.update)
          BY <1>5, <2>2
        <4>3. QED
          BY <1>1, <1>2, <4>1, <4>2
      <3>2. QED
        BY <2>2, <3>1 DEF UpToDate
    <2>3. QED
      BY <1>5, <2>1, <2>2
  <1>8. UpToDate(routing'.steps, routing.since, overtook')
    <2>1. UpToDate({steps}, routing.since, overtook')
      BY <1>1, <1>2 DEF UpToDate
    <2>2. UpToDate(routing.steps, routing.since, overtook')
      BY <1>1, <1>5 DEF UpToDate
    <2>3. UpToDate(stepsCache, routing.since, overtook')
      <3>1. ASSUME NEW s \in stepsCache
            PROVE  s.update =< steps.update /\ (overtook' \/ routing.since =< s.update)
        <4>1. s.update \in Nat /\ s.update =< steps.update /\ (overtook \/ installed =< s.update)
          BY <1>1, <1>6 DEF UpToDate
        <4>2. QED
          BY <1>1, <1>2, <1>5, <4>1
      <3>2. QED
        BY <3>1 DEF UpToDate
    <2>4. QED
      BY <1>4, <2>1, <2>2, <2>3
  <1>9. Qualified(routing') /\ KeepsGreeting(routing')
    <2>1. Qualified(routing')
      BY <1>1, <1>4 DEF Qualified
    <2>2. KeepsGreeting(routing')
      BY <1>1, <1>4 DEF KeepsGreeting
    <2>3. QED
      BY <2>1, <2>2
  <1>10. stepsCache' \in SUBSET StepsRecord /\ routerCache' \in SUBSET RouterConfig
    BY <1>1, <1>3, <1>5
  <1>11. QED
    BY <1>3, <1>4, <1>5, <1>7, <1>8, <1>9, <1>10, RequestGoesOn

LEMMA ModelIsChosen ==
  ASSUME RouterInv, RouteMediumComplex
  PROVE  RouterInv'
  <1> DEFINE list == StepsOf.list
             names == routing.candidates
             manual == routing.manual
             step == CurrentStep(list, routing.usage)
             pool == Pool(step, names)
             inStep(n) == \E i \in DOMAIN step.models : step.models[i] = n
             order == IF pool \intersect {step.models[i] : i \in DOMAIN step.models} # {}
                      THEN step.models ELSE Model
  <1>1. /\ RouterTypes /\ routing \in RouteRecord /\ Qualified(routing) /\ routing.at = "choose"
    BY DEF RouterInv, RouterTypes, CandidatesQualify, RouteMediumComplex
  <1>2. UNCHANGED <<stepsCache, routerCache, overtook>> /\ Unread
    BY DEF RouteMediumComplex
  <1>3. /\ names # {} /\ names \subseteq Allowed /\ names \subseteq Name
        /\ routing.images => \A n \in names : model[n].vision
    BY <1>1 DEF Qualified
  <1>4. /\ routing.tier \in Tier /\ routing.usage \in Int /\ manual \in ModelChoices /\ NoModel \in ModelChoices
        /\ Model \in Seq(STRING)
    BY <1>1, ModelRouterAssumption DEF RouteRecord, ModelChoices
  <1>0. list \in StepLists
    <2>1. StepsOf \in routing.steps
      BY <1>1, StepsOfIsOne DEF Qualified
    <2>2. QED
      BY <1>1, <2>1 DEF RouteRecord, StepsRecord
  <1>5. ASSUME NEW name \in names, NEW overrode \in ModelChoices, Choose(name, overrode),
               FollowsTheBudget(name)
        PROVE  RouterInv'
    <2>1. name \in ModelChoices /\ name \in Allowed
      BY <1>3 DEF ModelChoices
    <2>2. SeesPictures(name)
      BY <1>3 DEF SeesPictures
    <2>3. QED
      BY <1>2, <1>5, <2>1, <2>2, RequestIsRouted
  <1>6. CASE manual \in names /\ KeepsManual(list, routing.usage) /\ Choose(manual, NoModel)
    <2>1. FollowsTheBudget(manual)
      <3> SUFFICES ASSUME Stepped, routing.usage > list[1].upTo PROVE FALSE
        BY DEF FollowsTheBudget
      <3>1. list # <<>>
        BY DEF Stepped
      <3>2. list[1].upTo \in Int
        <4> HIDE DEF list
        <4>1. list \in Seq([upTo : Int, models : Seq(STRING), effort : STRING])
          BY <1>0, ModelRouterAssumption
        <4>2. 1 \in DOMAIN list
          BY <3>1, <4>1
        <4>3. QED
          BY <1>0, <4>2, StepsAreRecords
      <3>3. routing.usage =< list[1].upTo
        BY <1>6, <3>1 DEF KeepsManual
      <3>4. QED
        BY <1>4, <3>2, <3>3
    <2>2. QED
      BY <1>4, <1>5, <1>6, <2>1
  <1>7. CASE list = <<>> /\ Choose(Pick(names, routing.tier, Model), NoModel)
    <2>1. Pick(names, routing.tier, Model) \in names
      BY <1>1, <1>3, <1>4, PickIsOne
    <2>2. PICK name \in names : Choose(name, NoModel)
      BY <1>7, <2>1
    <2>3. FollowsTheBudget(name)
      BY <1>7 DEF FollowsTheBudget, Stepped
    <2>4. QED
      BY <1>4, <1>5, <2>2, <2>3
  <1>8. CASE /\ list # <<>>
             /\ Choose(Pick(pool, routing.tier, order), Overrode(manual, Pick(pool, routing.tier, order)))
    <2>1. pool \subseteq names /\ pool # {}
          /\ \A n \in pool : inStep(n) \/ \A m \in names : ~inStep(m)
      BY <1>3, PoolIsSome
    <2>2. order \in Seq(STRING)
      <3>1. PICK i \in DOMAIN list : step = list[i]
        <4> HIDE DEF list
        <4>1. QED
          BY <1>0, <1>4, <1>8, CurrentStepIsOne
      <3>2. list[i].models \in Seq(STRING)
        <4> HIDE DEF list
        <4>1. QED
          BY <1>0, StepsAreRecords
      <3>3. step.models \in Seq(STRING)
        BY <3>1, <3>2
      <3>4. QED
        BY <1>4, <3>3
    <2>3. Pick(pool, routing.tier, order) \in pool
      <3> HIDE DEF order, pool
      <3>1. pool \subseteq Name
        BY <1>3, <2>1
      <3>2. QED
        BY <1>1, <1>4, <2>1, <2>2, <3>1, PickIsOne
    <2>4. PICK name \in pool : Choose(name, Overrode(manual, name))
      BY <1>8, <2>3
    <2>5. FollowsTheBudget(name)
      BY <2>1, <2>4 DEF FollowsTheBudget
    <2>6. Overrode(manual, name) \in ModelChoices /\ name \in names
      BY <1>4, <2>1, <2>4 DEF Overrode
    <2>7. QED
      BY <1>5, <2>4, <2>5, <2>6
  <1>9. QED
    BY <1>6, <1>7, <1>8 DEF RouteMediumComplex

(* Administrators, and the caches that expire *)

LEMMA AdministratorsAct ==
  ASSUME RouterInv, UNCHANGED <<routed, routing>>, StepsOf' = StepsOf, ConfigOf' = ConfigOf,
         RouterTypes', UpdatesInOrder', overtook => overtook',
         \A n \in Name : model'[n].vision = model[n].vision,
         changes' # 0 \/ UNCHANGED <<model, changes>>
  PROVE  RouterInv'
  <1>1. Allowed' = Allowed
    BY DEF Allowed
  <1>2. CandidatesQualify' /\ KeepsGreeting(routing')
    BY <1>1 DEF RouterInv, CandidatesQualify, Qualified, KeepsGreeting
  <1>3. ChoiceIsAllowed' /\ GreetingStaysSimple'
    BY <1>1 DEF RouterInv, ChoicesAreSound, ChoiceIsAllowed, GreetingStaysSimple, Routed
  <1>4. PicturesAreSeen'
    <2>1. CASE changes' # 0
      BY <2>1 DEF PicturesAreSeen
    <2>2. CASE UNCHANGED <<model, changes>>
      BY <1>1, <2>2 DEF RouterInv, ChoicesAreSound, PicturesAreSeen, Routed, Enabled, Usable
    <2>3. QED
      BY <2>1, <2>2
  <1>5. BudgetOverridesManual' /\ StepsCurrentUnlessOvertaken'
    <2>1. BudgetOverridesManual'
      BY ZenonT(40) DEF RouterInv, ChoicesAreSound, BudgetOverridesManual, Routed, Stepped, CurrentStep
    <2>2. StepsCurrentUnlessOvertaken'
      BY ZenonT(40) DEF RouterInv, ChoicesAreSound, StepsCurrentUnlessOvertaken, Routed
    <2>3. QED
      BY <2>1, <2>2
  <1>6. QED
    BY <1>2, <1>3, <1>4, <1>5 DEF RouterInv, ChoicesAreSound

LEMMA SettingsChange ==
  ASSUME RouterInv,
         \/ \E list \in StepLists : SaveSteps(list)
         \/ \E config \in [enabled : BOOLEAN, llm : BOOLEAN] : SaveRouter(config)
         \/ \E name \in Name : SwitchModel(name)
  PROVE  RouterInv'
  <1>1. RouterTypes /\ UpdatesInOrder /\ changes \in Nat /\ steps \in StepsRecord /\ installed \in Nat
    BY DEF RouterInv, RouterTypes
  <1>2. /\ UNCHANGED <<routed, routing, stepsCache, routerCache, installed, overtook>>
        /\ changes' = changes + 1
    BY DEF SaveSteps, SaveRouter, SwitchModel, Change
  <1>3. RouteRecord' = RouteRecord
    BY <1>2 DEF RouteRecord, ModelChoices, Allowed
  <1>4. StepsOf' = StepsOf /\ ConfigOf' = ConfigOf
    BY <1>2 DEF StepsOf, ConfigOf
  <1>5. /\ model' \in [Name -> [tier : Tier, vision : BOOLEAN, active : BOOLEAN]]
        /\ \A n \in Name : model'[n].vision = model[n].vision
    <2>1. model \in [Name -> [tier : Tier, vision : BOOLEAN, active : BOOLEAN]]
      BY <1>1 DEF RouterTypes
    <2>2. CASE UNCHANGED model
      BY <2>1, <2>2
    <2>3. CASE \E name \in Name : SwitchModel(name)
      <3>1. PICK name \in Name : model' = [model EXCEPT ![name].active = ~@]
        BY <2>3 DEF SwitchModel
      <3> DEFINE y == [model[name] EXCEPT !.active = ~@]
      <3>2. model[name] \in [tier : Tier, vision : BOOLEAN, active : BOOLEAN]
        BY <2>1
      <3>3. y \in [tier : Tier, vision : BOOLEAN, active : BOOLEAN] /\ y.vision = model[name].vision
        BY <3>2
      <3>4. model' = [model EXCEPT ![name] = y]
        BY <3>1
      <3> HIDE DEF y
      <3>5. QED
        BY <2>1, <3>3, <3>4
    <2>4. QED
      BY <2>2, <2>3 DEF SaveSteps, SaveRouter
  <1>6. /\ steps' \in StepsRecord /\ router' \in RouterConfig /\ steps.update =< steps'.update
        /\ steps'.update =< changes'
        /\ \A u \in updating' : u \in updating \/ (u.what = "steps" => u.update = steps'.update)
    <2>1. steps.update \in Nat /\ steps.update =< changes
      BY <1>1 DEF StepsRecord, UpdatesInOrder
    <2>2. CASE \E list \in StepLists : SaveSteps(list)
      <3>1. PICK list \in StepLists : SaveSteps(list)
        BY <2>2
      <3>2. /\ steps' = [list |-> list, update |-> changes'] /\ UNCHANGED router
            /\ updating' = updating \union {[what |-> "steps", update |-> changes']}
        BY <3>1 DEF SaveSteps
      <3>3. steps' \in StepsRecord /\ steps'.update = changes'
        BY <1>1, <1>2, <3>2 DEF StepsRecord
      <3>4. QED
        BY <1>1, <1>2, <2>1, <3>2, <3>3 DEF RouterTypes
    <2>3. CASE \E config \in [enabled : BOOLEAN, llm : BOOLEAN] : SaveRouter(config)
      <3>1. PICK config \in [enabled : BOOLEAN, llm : BOOLEAN] : SaveRouter(config)
        BY <2>3
      <3>2. /\ router' = config /\ UNCHANGED steps
            /\ updating' = updating \union {[what |-> "config", update |-> changes']}
        BY <3>1 DEF SaveRouter
      <3>3. QED
        BY <1>1, <1>2, <2>1, <3>2 DEF RouterConfig
    <2>4. CASE \E name \in Name : SwitchModel(name)
      BY <1>1, <1>2, <2>1, <2>4 DEF SwitchModel, RouterTypes
    <2>5. QED
      BY <2>2, <2>3, <2>4
  <1>7. RouterTypes'
    BY <1>1, <1>2, <1>3, <1>5, <1>6 DEF RouterTypes
  <1>8. UpdatesInOrder'
    <2>1. steps.update \in Nat /\ steps'.update \in Nat /\ changes \in Nat /\ installed =< steps.update
      BY <1>1, <1>6 DEF StepsRecord, UpdatesInOrder
    <2>2. \A s \in StepsRecord : s.update \in Nat
      BY DEF StepsRecord
    <2>3. stepsCache \subseteq StepsRecord /\ routing.steps \subseteq StepsRecord
      BY <1>1 DEF RouterTypes, RouteRecord
    <2>4. ASSUME NEW s \in StepsRecord, s.update =< steps.update PROVE s.update =< steps'.update
      BY <1>6, <2>1, <2>2, <2>4
    <2>5. ASSUME NEW u \in updating', u.what = "steps" PROVE u.update \in Nat /\ u.update =< steps'.update
      <3>1. CASE u \in updating
        BY <1>1, <1>6, <2>1, <2>5, <3>1 DEF UpdatesInOrder
      <3>2. CASE u.update = steps'.update
        BY <2>1, <3>2
      <3>3. QED
        BY <1>6, <2>5, <3>1, <3>2
    <2>6. \A s \in stepsCache : s.update =< steps'.update /\ (overtook \/ installed =< s.update)
      BY <1>1, <2>3, <2>4 DEF UpdatesInOrder
    <2>7. \A s \in routing.steps : s.update =< steps'.update /\ (overtook \/ routing.since =< s.update)
      BY <1>1, <2>3, <2>4 DEF UpdatesInOrder
    <2>8. installed =< steps'.update
      BY <1>1, <1>6, <2>1
    <2>9. QED
      BY <1>1, <1>2, <1>6, <2>5, <2>6, <2>7, <2>8 DEF UpdatesInOrder
  <1>9. QED
    BY <1>1, <1>2, <1>4, <1>5, <1>7, <1>8, AdministratorsAct

LEMMA CachesAreDropped ==
  ASSUME RouterInv, CachesExpire \/ \E u \in updating : Invalidate(u)
  PROVE  RouterInv'
  <1>1. RouterTypes /\ UpdatesInOrder /\ changes \in Nat /\ steps \in StepsRecord /\ installed \in Nat
    BY DEF RouterInv, RouterTypes
  <1>2. /\ UNCHANGED <<model, routed, router, steps, routing, changes, overtook>>
        /\ stepsCache' \in {{}, stepsCache} /\ routerCache' \in {{}, routerCache}
        /\ updating' \subseteq updating
    BY DEF CachesExpire, Invalidate, Kept
  <1>3. /\ installed' \in Nat /\ installed =< installed' /\ installed' =< steps.update
        /\ (stepsCache' = {} \/ installed' = installed)
    <2>1. CASE UNCHANGED installed
      BY <1>1, <2>1 DEF UpdatesInOrder
    <2>2. CASE \E u \in updating : Invalidate(u) /\ u.what = "steps"
      <3>1. PICK u \in updating : Invalidate(u) /\ u.what = "steps"
        BY <2>2
      <3>2. stepsCache' = {} /\ installed' = IF u.update > installed THEN u.update ELSE installed
        BY <3>1 DEF Invalidate, Kept
      <3>3. u.update \in Nat /\ u.update =< steps.update /\ installed =< steps.update
        BY <1>1, <3>1 DEF UpdatesInOrder
      <3>4. QED
        BY <1>1, <3>2, <3>3
    <2>3. QED
      BY <2>1, <2>2 DEF CachesExpire, Invalidate
  <1>4. RouteRecord' = RouteRecord /\ StepsOf' = StepsOf /\ ConfigOf' = ConfigOf
    BY <1>2 DEF RouteRecord, ModelChoices, Allowed, StepsOf, ConfigOf
  <1>5. RouterTypes'
    BY <1>1, <1>2, <1>3, <1>4 DEF RouterTypes
  <1>6. UpdatesInOrder'
    <2>1. routing.since \in Nat
      BY <1>1 DEF RouterTypes, RouteRecord
    <2>2. routing.since =< installed'
      BY <1>1, <1>3, <2>1 DEF UpdatesInOrder
    <2>3. \A s \in stepsCache' : s.update =< steps.update /\ (overtook \/ installed' =< s.update)
      BY <1>1, <1>2, <1>3 DEF UpdatesInOrder
    <2>4. QED
      BY <1>1, <1>2, <1>3, <2>2, <2>3 DEF UpdatesInOrder
  <1>7. QED
    BY <1>2, <1>4, <1>5, <1>6, AdministratorsAct

(* The model that answers is one of the plan's, if it has any; it sees the pictures if one of
   the plan's models that are on does; beyond the first step the user's own choice gives way
   to the step's models; a greeting stays cheap; and once an update of the steps is through,
   a later message follows it unless an older fill overtook it: for any models, plans, steps
   and messages. (route of model-router.service.ts, plan-routing.controller.ts) *)
THEOREM ModelsAreChosenSoundly == ChatSpec => []ChoicesAreSound
  <1>1. ChatInit => RouterInv
    BY InitRouter DEF ChatInit
  <1>2. RouterInv /\ [ChatNext]_chatVars => RouterInv'
    <2> SUFFICES ASSUME RouterInv, [ModelRouterNext]_routerVars PROVE RouterInv'
      BY RouterStep
    <2>1. CASE UNCHANGED routerVars
      <3>1. RouteRecord' = RouteRecord /\ StepsOf' = StepsOf /\ ConfigOf' = ConfigOf
        BY <2>1 DEF routerVars, RouteRecord, ModelChoices, Allowed, StepsOf, ConfigOf
      <3>2. RouterTypes'
        BY <2>1, <3>1 DEF RouterInv, RouterTypes, routerVars
      <3>3. UpdatesInOrder'
        BY <2>1 DEF RouterInv, UpdatesInOrder, routerVars
      <3>4. UNCHANGED <<routed, routing, model, changes, overtook>>
        BY <2>1 DEF routerVars
      <3>5. QED
        BY <3>1, <3>2, <3>3, <3>4, AdministratorsAct
    <2>2. ASSUME NEW manual \in Name \cup {NoModel}, NEW images \in BOOLEAN, NEW usage \in Usage,
                 NEW m \in Message, BeginRoute(manual, images, usage, m)
          PROVE  RouterInv'
      BY <2>2, RouteBegins
    <2>3. CASE ModelRouterNext
      BY <2>2, <2>3, ConfigIsRead, MessageIsClassified, CandidatesAreRead, StepsAreRead,
         ModelIsChosen, SettingsChange, CachesAreDropped DEF ModelRouterNext
    <2>4. QED
      BY <2>1, <2>3
  <1>3. RouterInv => ChoicesAreSound
    BY DEF RouterInv
  <1>4. QED
    BY <1>1, <1>2, <1>3, PTL DEF ChatSpec

(* Live statistics *)

LEMMA LiveStep == [ChatNext]_chatVars => [LiveStatsNext]_liveVars
  BY DEF ChatNext, chatVars

BumpRecord ==
  [at : {"none", "count", "get", "set"}, day : StatTick, current : Nat, existing : Nat]

LiveTypes ==
  /\ statTick \in StatTick /\ active \subseteq LiveStream /\ running \subseteq LiveStream
  /\ leftOver \subseteq LiveStream /\ startedAt \in [LiveStream -> Int]
  /\ bump \in [LiveStream -> BumpRecord]
  /\ peak \in [StatTick -> Nat] /\ highest \in [StatTick -> Nat]
  /\ poll \in Int /\ poll =< statTick

\* Between pruning and counting nothing comes into the set that is too old for it.
PollIsPruned ==
  poll >= 0 => \A s \in active : startedAt[s] > poll - MaxStreamAge

\* A bump that writes has read less than it counted; and the peak is high water on every day.
BumpsRaise == \A s \in LiveStream : bump[s].at = "set" => bump[s].existing < bump[s].current
PeakEveryDay == \A d \in StatTick : peak[d] = highest[d] \/ d \in overtaken

LiveInv ==
  /\ LiveTypes /\ PollIsPruned /\ BumpsRaise /\ PeakEveryDay
  /\ StreamsAreAccountedFor /\ GhostsAreNotReported

LEMMA LargerOfTwo ==
  ASSUME NEW a \in Nat, NEW b \in Nat
  PROVE  Max({a, b}) = IF a < b THEN b ELSE a
  BY DEF Max

\* Days are numbered no higher than ticks.
LEMMA DaysAreTicks ==
  ASSUME NEW t \in StatTick
  PROVE  StatDayOf(t) \in 0..t
  <1>1. t \in Nat /\ StatDay \in Nat \ {0}
    BY LiveStatsAssumption DEF StatTick
  <1>2. QED
    BY <1>1 DEF StatDayOf

LEMMA StreamsAreFinite == IsFiniteSet(LiveStream)
  BY FS_Interval, LiveStatsAssumption DEF LiveStream

LEMMA InitLive == LiveStatsInit => LiveInv
  <1> SUFFICES ASSUME LiveStatsInit PROVE LiveInv
    OBVIOUS
  <1>1. 0 \in StatTick
    BY LiveStatsAssumption DEF StatTick
  <1>2. NoBump \in BumpRecord /\ NoBump.at = "none"
    BY <1>1 DEF NoBump, BumpRecord
  <1>3. LiveTypes
    BY <1>1, <1>2 DEF LiveStatsInit, LiveTypes
  <1>4. PollIsPruned /\ BumpsRaise /\ PeakEveryDay
    BY <1>2 DEF LiveStatsInit, PollIsPruned, BumpsRaise, PeakEveryDay
  <1>5. StreamsAreAccountedFor /\ GhostsAreNotReported
    BY DEF LiveStatsInit, StreamsAreAccountedFor, GhostsAreNotReported
  <1>6. QED
    BY <1>3, <1>4, <1>5 DEF LiveInv

LEMMA LiveKept ==
  ASSUME LiveInv, UNCHANGED liveVars
  PROVE  LiveInv'
  <1>1. LiveTypes' /\ PollIsPruned'
    BY DEF LiveInv, LiveTypes, PollIsPruned, liveVars, liveHistory
  <1>2. BumpsRaise' /\ PeakEveryDay'
    BY DEF LiveInv, BumpsRaise, PeakEveryDay, liveVars, liveHistory
  <1>3. StreamsAreAccountedFor' /\ GhostsAreNotReported'
    BY DEF LiveInv, StreamsAreAccountedFor, GhostsAreNotReported, liveVars, liveHistory
  <1>4. QED
    BY <1>1, <1>2, <1>3 DEF LiveInv

LEMMA StreamStarts ==
  ASSUME LiveInv, StartLive
  PROVE  LiveInv'
  <1>1. PICK s \in LiveStream :
          /\ active' = active \union {s} /\ running' = running \union {s}
          /\ startedAt' = [startedAt EXCEPT ![s] = statTick]
          /\ bump' = [bump EXCEPT ![s] = [NoBump EXCEPT !.at = "count", !.day = StatDayOf(statTick)]]
    BY DEF StartLive
  <1>2. UNCHANGED <<statTick, peak, poll, reported, leftOver, highest, overtaken>>
    BY DEF StartLive, liveHistory
  <1>3. LiveTypes
    BY DEF LiveInv
  <1>4. statTick \in Int /\ statTick \in StatTick /\ MaxStreamAge \in Nat \ {0}
    BY <1>3, LiveStatsAssumption DEF LiveTypes, StatTick
  <1> DEFINE y == [NoBump EXCEPT !.at = "count", !.day = StatDayOf(statTick)]
  <1>5. y \in BumpRecord /\ y.at = "count"
    <2>1. StatDayOf(statTick) \in StatTick /\ 0 \in StatTick
      BY <1>4, DaysAreTicks, LiveStatsAssumption DEF StatTick
    <2>2. QED
      BY <2>1 DEF NoBump, BumpRecord
  <1> HIDE DEF y
  <1>6. bump' = [bump EXCEPT ![s] = y]
    BY <1>1 DEF y
  <1>7. LiveTypes'
    BY <1>1, <1>2, <1>3, <1>4, <1>5, <1>6 DEF LiveTypes
  <1>8. PollIsPruned'
    <2> SUFFICES ASSUME poll >= 0, NEW r \in active' PROVE startedAt'[r] > poll - MaxStreamAge
      BY <1>2 DEF PollIsPruned
    <2>1. CASE r = s
      BY <1>1, <1>3, <1>4, <2>1 DEF LiveTypes
    <2>2. CASE r # s
      BY <1>1, <1>3, <2>2 DEF LiveInv, LiveTypes, PollIsPruned
    <2>3. QED
      BY <2>1, <2>2
  <1>9. BumpsRaise' /\ PeakEveryDay'
    BY <1>2, <1>3, <1>5, <1>6 DEF LiveInv, LiveTypes, BumpsRaise, PeakEveryDay
  <1>10. StreamsAreAccountedFor'
    BY <1>1, <1>2, <1>3 DEF LiveInv, LiveTypes, StreamsAreAccountedFor
  <1>11. GhostsAreNotReported'
    BY <1>2 DEF LiveInv, GhostsAreNotReported
  <1>12. QED
    BY <1>7, <1>8, <1>9, <1>10, <1>11 DEF LiveInv

\* A bump of the peak goes a step, and no stream starts or ends by it.
LEMMA BumpMoves ==
  ASSUME LiveInv, NEW s \in LiveStream, NEW b \in BumpRecord, bump' = [bump EXCEPT ![s] = b],
         b.at = "set" => b.existing < b.current,
         UNCHANGED <<statTick, active, startedAt, running, poll, reported, leftOver>>,
         peak' \in [StatTick -> Nat], highest' \in [StatTick -> Nat], PeakEveryDay'
  PROVE  LiveInv'
  <1>1. LiveTypes'
    BY DEF LiveInv, LiveTypes
  <1>2. BumpsRaise'
    BY DEF LiveInv, LiveTypes, BumpsRaise
  <1>3. PollIsPruned' /\ StreamsAreAccountedFor' /\ GhostsAreNotReported'
    BY DEF LiveInv, PollIsPruned, StreamsAreAccountedFor, GhostsAreNotReported
  <1>4. QED
    BY <1>1, <1>2, <1>3 DEF LiveInv

LEMMA PeakIsBumped ==
  ASSUME LiveInv, NEW s \in LiveStream,
         BumpCount(s) \/ BumpGet(s) \/ BumpSet(s) \/ BumpFails(s)
  PROVE  LiveInv'
  <1> DEFINE x == bump[s]
             d == x.day
  <1>1. LiveTypes /\ PeakEveryDay /\ BumpsRaise
    BY DEF LiveInv
  <1>2. x \in BumpRecord
    BY <1>1 DEF LiveTypes
  <1>3. d \in StatTick /\ x.current \in Nat /\ x.existing \in Nat /\ peak[d] \in Nat /\ highest[d] \in Nat
    BY <1>1, <1>2 DEF LiveTypes, BumpRecord
  <1>4. NoBump \in BumpRecord /\ NoBump.at = "none"
    <2>1. 0 \in StatTick
      BY LiveStatsAssumption DEF StatTick
    <2>2. QED
      BY <2>1 DEF NoBump, BumpRecord
  <1>5. UNCHANGED <<statTick, active, startedAt, running, poll, reported, leftOver>>
    BY DEF BumpCount, BumpGet, BumpSet, BumpFails, liveHistory
  <1>6. Finished(x) = [highest EXCEPT ![d] = IF highest[d] < x.current THEN x.current ELSE highest[d]]
    BY <1>3, LargerOfTwo DEF Finished
  <1>7. peak \in [StatTick -> Nat] /\ highest \in [StatTick -> Nat] /\ Finished(x) \in [StatTick -> Nat]
    BY <1>1, <1>3, <1>6 DEF LiveTypes
  <1>8. CASE BumpCount(s)
    <2> DEFINE y == [x EXCEPT !.at = "get", !.current = Cardinality(active)]
    <2>1. Cardinality(active) \in Nat
      <3>1. IsFiniteSet(active)
        BY <1>1, StreamsAreFinite, FS_Subset DEF LiveTypes
      <3>2. QED
        BY <3>1, FS_CardinalityType
    <2>2. y \in BumpRecord /\ y.at = "get"
      BY <1>2, <2>1 DEF BumpRecord
    <2>3. bump' = [bump EXCEPT ![s] = y]
      BY <1>1, <1>8 DEF BumpCount, LiveTypes
    <2>4. PeakEveryDay' /\ UNCHANGED <<peak, highest>>
      BY <1>1, <1>8 DEF BumpCount, PeakEveryDay, liveHistory
    <2> HIDE DEF y
    <2>5. QED
      BY <1>5, <1>7, <2>2, <2>3, <2>4, BumpMoves
  <1>9. CASE BumpGet(s) /\ Raises(x.current, peak[d])
    <2> DEFINE y == [x EXCEPT !.at = "set", !.existing = peak[d]]
    <2>1. y \in BumpRecord /\ y.at = "set" /\ y.existing = peak[d] /\ y.current = x.current
      BY <1>2, <1>3 DEF BumpRecord
    <2>2. peak[d] < x.current
      BY <1>3, <1>9 DEF Raises
    <2>3. bump' = [bump EXCEPT ![s] = y]
      BY <1>1, <1>9 DEF BumpGet, LiveTypes
    <2>4. PeakEveryDay' /\ UNCHANGED <<peak, highest>>
      BY <1>1, <1>9 DEF BumpGet, PeakEveryDay
    <2> HIDE DEF y
    <2>5. QED
      BY <1>5, <1>7, <2>1, <2>2, <2>3, <2>4, BumpMoves
  <1>10. CASE BumpGet(s) /\ ~Raises(x.current, peak[d])
    <2>1. bump' = [bump EXCEPT ![s] = NoBump] /\ highest' = Finished(x) /\ UNCHANGED <<peak, overtaken>>
      BY <1>10 DEF BumpGet
    <2>2. ~(peak[d] < x.current)
      BY <1>3, <1>10 DEF Raises
    <2>3. PeakEveryDay'
      <3> SUFFICES ASSUME NEW e \in StatTick PROVE peak[e] = highest'[e] \/ e \in overtaken
        BY <2>1 DEF PeakEveryDay
      <3>1. peak[e] = highest[e] \/ e \in overtaken
        BY <1>1 DEF PeakEveryDay
      <3>2. CASE e = d
        BY <1>3, <1>6, <1>7, <2>1, <2>2, <3>1, <3>2
      <3>3. CASE e # d
        BY <1>6, <1>7, <2>1, <3>1, <3>3
      <3>4. QED
        BY <3>2, <3>3
    <2>4. QED
      BY <1>4, <1>5, <1>7, <2>1, <2>3, BumpMoves
  <1>11. CASE BumpSet(s)
    <2>1. /\ bump' = [bump EXCEPT ![s] = NoBump] /\ highest' = Finished(x)
          /\ peak' = [peak EXCEPT ![d] = x.current]
          /\ overtaken' = IF peak[d] # x.existing THEN overtaken \union {d} ELSE overtaken
      BY <1>11 DEF BumpSet
    <2>2. x.existing < x.current
      BY <1>1, <1>11 DEF BumpsRaise, BumpSet
    <2>3. PeakEveryDay'
      <3> SUFFICES ASSUME NEW e \in StatTick PROVE peak'[e] = highest'[e] \/ e \in overtaken'
        BY DEF PeakEveryDay
      <3>1. peak[e] = highest[e] \/ e \in overtaken
        BY <1>1 DEF PeakEveryDay
      <3>2. CASE e = d
        BY <1>3, <1>6, <1>7, <2>1, <2>2, <3>1, <3>2
      <3>3. CASE e # d
        BY <1>6, <1>7, <2>1, <3>1, <3>3
      <3>4. QED
        BY <3>2, <3>3
    <2>4. peak' \in [StatTick -> Nat]
      BY <1>3, <1>7, <2>1
    <2>5. QED
      BY <1>4, <1>5, <1>7, <2>1, <2>3, <2>4, BumpMoves
  <1>12. CASE BumpFails(s)
    <2>1. bump' = [bump EXCEPT ![s] = NoBump] /\ PeakEveryDay' /\ UNCHANGED <<peak, highest>>
      BY <1>1, <1>12 DEF BumpFails, PeakEveryDay, liveHistory
    <2>2. QED
      BY <1>4, <1>5, <1>7, <2>1, BumpMoves
  <1>13. QED
    BY <1>8, <1>9, <1>10, <1>11, <1>12

LEMMA StreamsEnd ==
  ASSUME LiveInv,
         Restart \/ \E s \in LiveStream, ok \in BOOLEAN : EndLive(s, ok)
  PROVE  LiveInv'
  <1>1. LiveTypes /\ StreamsAreAccountedFor
    BY DEF LiveInv
  <1>2. UNCHANGED <<statTick, startedAt, peak, poll, reported, highest, overtaken>>
    BY DEF Restart, EndLive
  <1>3. /\ running' \subseteq running /\ active' \subseteq active
        /\ leftOver' \subseteq leftOver \cup running
        /\ active' \subseteq running' \cup leftOver'
        /\ \A s \in running' : s \in active => s \in active'
    <2>1. CASE Restart
      BY <1>1, <2>1 DEF Restart, StreamsAreAccountedFor
    <2>2. CASE \E s \in LiveStream, ok \in BOOLEAN : EndLive(s, ok)
      <3>1. PICK s \in LiveStream, ok \in BOOLEAN : EndLive(s, ok)
        BY <2>2
      <3>2. QED
        BY <1>1, <3>1 DEF EndLive, StreamsAreAccountedFor
    <2>3. QED
      BY <2>1, <2>2
  <1>4. bump' \in [LiveStream -> BumpRecord] /\ \A s \in LiveStream : bump'[s] \in {bump[s], NoBump}
    <2>1. NoBump \in BumpRecord
      <3>1. 0 \in StatTick
        BY LiveStatsAssumption DEF StatTick
      <3>2. QED
        BY <3>1 DEF NoBump, BumpRecord
    <2>2. QED
      BY <1>1, <2>1 DEF LiveTypes, Restart, EndLive
  <1>5. LiveTypes'
    BY <1>1, <1>2, <1>3, <1>4 DEF LiveTypes
  <1>6. PollIsPruned' /\ PeakEveryDay'
    BY <1>2, <1>3 DEF LiveInv, PollIsPruned, PeakEveryDay
  <1>7. BumpsRaise'
    BY <1>4 DEF LiveInv, BumpsRaise, NoBump
  <1>8. StreamsAreAccountedFor' /\ GhostsAreNotReported'
    BY <1>2, <1>3 DEF LiveInv, StreamsAreAccountedFor, GhostsAreNotReported
  <1>9. QED
    BY <1>5, <1>6, <1>7, <1>8 DEF LiveInv

LEMMA StreamsAreCounted ==
  ASSUME LiveInv, Prune \/ Count \/ PassStatTime
  PROVE  LiveInv'
  <1>1. LiveTypes /\ StreamsAreAccountedFor /\ MaxStreamAge \in Nat \ {0} /\ statTick \in Nat
    BY LiveStatsAssumption DEF LiveInv, LiveTypes, StatTick
  <1>2. UNCHANGED <<startedAt, running, bump, peak, leftOver, highest, overtaken>>
    BY DEF Prune, Count, PassStatTime, liveHistory
  <1>3. BumpsRaise' /\ PeakEveryDay'
    BY <1>2 DEF LiveInv, BumpsRaise, PeakEveryDay
  <1>4. CASE Prune
    <2>1. /\ active' = {s \in active : ~TooOld(s, statTick)} /\ poll' = statTick
          /\ UNCHANGED <<statTick, reported>>
      BY <1>4 DEF Prune, liveHistory
    <2>2. LiveTypes'
      BY <1>1, <1>2, <2>1 DEF LiveTypes
    <2>3. PollIsPruned'
      BY <1>1, <1>2, <2>1 DEF PollIsPruned, TooOld, LiveTypes
    <2>4. StreamsAreAccountedFor' /\ GhostsAreNotReported'
      BY <1>1, <1>2, <2>1 DEF LiveInv, StreamsAreAccountedFor, GhostsAreNotReported, TooOld
    <2>5. QED
      BY <1>3, <2>2, <2>3, <2>4 DEF LiveInv
  <1>5. CASE Count
    <2> DEFINE counted == running \union {s \in leftOver : startedAt[s] > poll - MaxStreamAge}
    <2>1. poll >= 0 /\ poll' = -1 /\ UNCHANGED <<statTick, active>>
          /\ reported' = [count |-> Cardinality(active), atMost |-> Cardinality(counted)]
      BY <1>5 DEF Count
    <2>2. active \subseteq counted
      BY <1>1, <2>1 DEF LiveInv, PollIsPruned, StreamsAreAccountedFor
    <2>3. Cardinality(active) =< Cardinality(counted)
      <3>1. counted \subseteq LiveStream
        BY <1>1 DEF LiveTypes
      <3> HIDE DEF counted
      <3>2. IsFiniteSet(counted)
        BY <3>1, StreamsAreFinite, FS_Subset
      <3>3. QED
        BY <2>2, <3>2, FS_Subset
    <2>4. GhostsAreNotReported'
      <3> HIDE DEF counted
      <3>1. QED
        BY <2>1, <2>3 DEF GhostsAreNotReported
    <2>5. LiveTypes' /\ PollIsPruned'
      BY <1>1, <1>2, <2>1 DEF LiveTypes, PollIsPruned
    <2>6. StreamsAreAccountedFor'
      BY <1>1, <1>2, <2>1 DEF StreamsAreAccountedFor
    <2>7. QED
      BY <1>3, <2>4, <2>5, <2>6 DEF LiveInv
  <1>6. CASE PassStatTime
    <2>1. statTick < MaxStatTicks /\ statTick' = statTick + 1 /\ UNCHANGED <<active, poll, reported>>
      BY <1>6 DEF PassStatTime, liveHistory
    <2>2. LiveTypes' /\ PollIsPruned'
      BY <1>1, <1>2, <2>1, LiveStatsAssumption DEF LiveInv, LiveTypes, PollIsPruned, StatTick
    <2>3. StreamsAreAccountedFor' /\ GhostsAreNotReported'
      BY <1>1, <1>2, <2>1 DEF LiveInv, LiveTypes, StreamsAreAccountedFor, GhostsAreNotReported
    <2>4. QED
      BY <1>3, <2>2, <2>3 DEF LiveInv
  <1>7. QED
    BY <1>4, <1>5, <1>6

(* However many streams start, end, fail to say so or are cut off by a restart: one that is
   open is in the set unless it is older than a stream may be; what is counted beside those
   ended without saying so, not long ago; and a day's peak is the largest number that any
   stream has counted unless two of them wrote it at once. (live-stats.service.ts) *)
THEOREM PanelTellsTheTruth == ChatSpec => []StatisticsAreTrue
  <1>1. ChatInit => LiveInv
    BY InitLive DEF ChatInit
  <1>2. LiveInv /\ [ChatNext]_chatVars => LiveInv'
    BY LiveStep, LiveKept, StreamStarts, PeakIsBumped, StreamsEnd, StreamsAreCounted
    DEF LiveStatsNext
  <1>3. LiveInv => StatisticsAreTrue
    <2> SUFFICES ASSUME LiveInv PROVE PeakIsHighWater
      BY DEF LiveInv, StatisticsAreTrue
    <2>1. statTick \in StatTick /\ StatDayOf(statTick) \in 0..statTick
      BY DaysAreTicks DEF LiveInv, LiveTypes
    <2>2. 0..StatDayOf(statTick) \subseteq StatTick
      BY <2>1, LiveStatsAssumption DEF StatTick
    <2>3. QED
      BY <2>2 DEF LiveInv, PeakEveryDay, PeakIsHighWater
  <1>4. QED
    BY <1>1, <1>2, <1>3, PTL DEF ChatSpec

(* The limits of pictures *)

LEMMA LimitsStep == [ChatNext]_chatVars => [ImageLimitsNext]_imageLimitVars
  BY DEF ChatNext, chatVars

OfDay(d) == ImageTick \cap (d * ImageLimitDay .. (d + 1) * ImageLimitDay - 1)
OfWindow(t) == ImageTick \cap (t .. t + ImageWindow - 1)
Recent == {t \in ImageTick : imageTick - ImageWindow < t /\ t =< imageTick}
At(f, places) == Cardinality({r \in Asker : f[r] \in places})

LimitTypes ==
  /\ imageTick \in ImageTick /\ daily \in [ImageTick -> Nat] /\ drawnLately \in [ImageTick -> Nat]
  /\ asker \in [Asker -> {"idle", "day", "window", "draw", "count"}]
  /\ drawn \in [ImageTick -> Nat] /\ uncounted \in Nat
  /\ \A t \in ImageTick : imageTick < t => drawn[t] = 0 /\ drawnLately[t] = 0

\* An image is in the counter, about to be counted, or its counting has failed.
Counted(ticks, counter) == SumOver(drawn, ticks) =< counter + At(asker, {"count"}) + uncounted

\* Who is let in finds room for an image of his own, but for what the others may draw.
Reserved(ticks, places, max) ==
  SumOver(drawn, ticks) + At(asker, places) =< max + Cardinality(Asker) - 1 + uncounted

DayInv ==
  LET today == OfDay(DrawingDay(imageTick))
  IN  /\ Counted(today, daily[DrawingDay(imageTick)])
      /\ Reserved(today, {"window", "draw"}, MaxPerDay)
      /\ At(asker, {"window", "draw"}) > 0 => MaxPerDay > 0

WindowInv ==
  /\ \A t \in Recent : /\ Counted(OfWindow(t), SumOver(drawnLately, OfWindow(t)))
                       /\ Reserved(OfWindow(t), {"draw"}, MaxPerWindow)
  /\ At(asker, {"draw"}) > 0 => MaxPerWindow > 0

DaysRespected ==
  \A d \in 0..DrawingDay(imageTick) :
    SumOver(drawn, OfDay(d)) =< MaxPerDay + Cardinality(Asker) - 1 + uncounted
WindowsRespected ==
  \A t \in ImageTick :
    SumOver(drawn, OfWindow(t)) =< MaxPerWindow + Cardinality(Asker) - 1 + uncounted

LimitsInv == LimitTypes /\ DayInv /\ WindowInv /\ DaysRespected /\ WindowsRespected

LEMMA TotalIsSum ==
  ASSUME NEW f, NEW a, NEW b
  PROVE  Total(f, a, b) = SumOver(f, ImageTick \cap (a .. b))
  BY DEF Total, FoldFunctionOnSet, SumOver, MapThenSumSet

LEMMA TicksAreFinite ==
  /\ ImageTick \subseteq Nat /\ IsFiniteSet(ImageTick)
  /\ \A S \in SUBSET ImageTick : IsFiniteSet(S)
  <1>1. IsFiniteSet(ImageTick) /\ ImageTick \subseteq Nat
    BY FS_Interval, ImageLimitsAssumption DEF ImageTick
  <1>2. QED
    BY <1>1, FS_Subset

(* Days *)

LEMMA Times ==
  ASSUME NEW a \in Nat, NEW b \in Nat, NEW k \in Nat, a =< b
  PROVE  a * k =< b * k /\ a * k \in Nat /\ b * k \in Nat
  OBVIOUS

LEMMA DayBounds ==
  ASSUME NEW t \in Nat
  PROVE  /\ DrawingDay(t) \in 0..t
         /\ DrawingDay(t) * ImageLimitDay =< t
         /\ t =< (DrawingDay(t) + 1) * ImageLimitDay - 1
  BY ImageLimitsAssumption DEF DrawingDay

LEMMA LaterDay ==
  ASSUME NEW t \in Nat, NEW d \in Nat, DrawingDay(t) < d
  PROVE  t < d * ImageLimitDay
  <1> DEFINE q == DrawingDay(t)
  <1>1. q \in Nat /\ q + 1 \in Nat /\ q + 1 =< d /\ t =< (q + 1) * ImageLimitDay - 1 /\ ImageLimitDay \in Nat
    <2>1. q \in 0..t /\ t =< (q + 1) * ImageLimitDay - 1
      BY DayBounds
    <2>2. q < d
      OBVIOUS
    <2> HIDE DEF q
    <2>3. QED
      BY <2>1, <2>2, ImageLimitsAssumption
  <1> HIDE DEF q
  <1>2. (q + 1) * ImageLimitDay =< d * ImageLimitDay /\ (q + 1) * ImageLimitDay \in Nat /\ d * ImageLimitDay \in Nat
    BY <1>1, Times
  <1>3. QED
    BY <1>1, <1>2

LEMMA EarlierDay ==
  ASSUME NEW t \in Nat, NEW d \in Nat, d < DrawingDay(t)
  PROVE  (d + 1) * ImageLimitDay - 1 < t
  <1> DEFINE q == DrawingDay(t)
  <1>1. q \in Nat /\ d + 1 \in Nat /\ d + 1 =< q /\ q * ImageLimitDay =< t /\ ImageLimitDay \in Nat
    BY DayBounds, ImageLimitsAssumption
  <1> HIDE DEF q
  <1>2. (d + 1) * ImageLimitDay =< q * ImageLimitDay /\ (d + 1) * ImageLimitDay \in Nat /\ q * ImageLimitDay \in Nat
    BY <1>1, Times
  <1>3. QED
    BY <1>1, <1>2

LEMMA InItsDayOnly ==
  ASSUME NEW t \in ImageTick, NEW d \in Nat
  PROVE  t \in OfDay(d) <=> d = DrawingDay(t)
  <1>1. t \in Nat /\ ImageLimitDay \in Nat \ {0} /\ DrawingDay(t) \in Nat
    BY TicksAreFinite, DayBounds, ImageLimitsAssumption
  <1>2. d * ImageLimitDay \in Nat /\ (d + 1) * ImageLimitDay \in Nat
    BY <1>1, Times
  <1>3. t \in OfDay(d) <=> d * ImageLimitDay =< t /\ t =< (d + 1) * ImageLimitDay - 1
    BY <1>1, <1>2 DEF OfDay
  <1>4. CASE d = DrawingDay(t)
    BY <1>1, <1>3, <1>4, DayBounds
  <1>5. CASE DrawingDay(t) < d
    BY <1>1, <1>2, <1>3, <1>5, LaterDay
  <1>6. CASE d < DrawingDay(t)
    BY <1>1, <1>2, <1>3, <1>6, EarlierDay
  <1>7. QED
    BY <1>1, <1>4, <1>5, <1>6

LEMMA DaysFollow ==
  ASSUME NEW t \in Nat
  PROVE  DrawingDay(t) =< DrawingDay(t + 1)
  <1> SUFFICES ASSUME ~(DrawingDay(t) =< DrawingDay(t + 1)) PROVE FALSE
    OBVIOUS
  <1>1. DrawingDay(t) \in Nat /\ DrawingDay(t + 1) \in Nat
    BY DayBounds
  <1>2. (DrawingDay(t + 1) + 1) * ImageLimitDay - 1 < t
    BY <1>1, EarlierDay
  <1>3. t + 1 =< (DrawingDay(t + 1) + 1) * ImageLimitDay - 1
    BY DayBounds
  <1>4. (DrawingDay(t + 1) + 1) * ImageLimitDay \in Nat
    BY <1>1, Times, ImageLimitsAssumption
  <1>5. QED
    BY <1>2, <1>3, <1>4

\* What lies ahead has no images yet.
LEMMA NoneAhead ==
  ASSUME LimitTypes, NEW ticks \in SUBSET ImageTick, \A t \in ticks : imageTick < t
  PROVE  SumOver(drawn, ticks) = 0
  <1>1. IsFiniteSet(ticks) /\ \A t \in ticks : drawn[t] = 0
    BY TicksAreFinite DEF LimitTypes
  <1>2. QED
    BY <1>1, TotalZero

\* One more at a tick is one more in the sums that this tick is in.
LEMMA OneMore ==
  ASSUME NEW f \in [ImageTick -> Nat], NEW k \in ImageTick, NEW ticks \in SUBSET ImageTick
  PROVE  /\ SumOver(f, ticks) \in Int
         /\ SumOver([f EXCEPT ![k] = @ + 1], ticks) = SumOver(f, ticks) + (IF k \in ticks THEN 1 ELSE 0)
  <1> DEFINE g == [f EXCEPT ![k] = @ + 1]
  <1>1. IsFiniteSet(ticks) /\ \A t \in ticks : f[t] \in Int /\ g[t] \in Int
    BY TicksAreFinite
  <1>2. \A t \in ticks : t # k => f[t] = g[t]
    OBVIOUS
  <1>3. k \in ticks => g[k] = f[k] + 1
    OBVIOUS
  <1> HIDE DEF g
  <1>4. SumOver(f, ticks) \in Int
    BY <1>1, TotalType
  <1>5. CASE k \in ticks
    <2>1. SumOver(g, ticks) = SumOver(f, ticks) - f[k] + g[k]
      BY <1>1, <1>2, <1>5, TotalReplace
    <2>2. QED
      BY <1>1, <1>3, <1>4, <1>5, <2>1 DEF g
  <1>6. CASE k \notin ticks
    <2>1. SumOver(f, ticks) = SumOver(g, ticks)
      BY <1>1, <1>2, <1>6, TotalSame
    <2>2. QED
      BY <1>4, <1>6, <2>1 DEF g
  <1>7. QED
    BY <1>5, <1>6

(* Requests in progress *)

LEMMA AtType == ASSUME NEW f, NEW places PROVE At(f, places) \in Nat /\ At(f, places) =< Cardinality(Asker)
                                               /\ Cardinality(Asker) \in Nat /\ Cardinality(Asker) > 0
  <1> DEFINE S == {r \in Asker : f[r] \in places}
  <1>1. IsFiniteSet(S) /\ Cardinality(S) =< Cardinality(Asker)
    BY FS_Subset, ImageLimitsAssumption
  <1>2. Cardinality(S) \in Nat /\ Cardinality(Asker) \in Nat /\ Cardinality(Asker) # 0
    BY <1>1, FS_CardinalityType, FS_EmptySet, ImageLimitsAssumption
  <1>3. QED
    BY <1>1, <1>2 DEF At

One(place, places) == IF place \in places THEN 1 ELSE 0

\* Who is elsewhere leaves a place free.
LEMMA OneIsElsewhere ==
  ASSUME NEW f, NEW places, NEW others, places \cap others = {},
         NEW r \in Asker, f[r] \notin places \cup others
  PROVE  At(f, places) + At(f, others) =< Cardinality(Asker) - 1
  <1> DEFINE S == {q \in Asker : f[q] \in places}
             T == {q \in Asker : f[q] \in others}
  <1>1. S \in SUBSET (Asker \ {r}) /\ T \in SUBSET (Asker \ {r}) /\ S \cap T = {}
    OBVIOUS
  <1>2. IsFiniteSet(Asker \ {r}) /\ Cardinality(Asker \ {r}) = Cardinality(Asker) - 1
    BY FS_RemoveElement, ImageLimitsAssumption
  <1> HIDE DEF S, T
  <1>3. IsFiniteSet(S) /\ IsFiniteSet(T)
    <2>1. IsFiniteSet(S)
      BY <1>1, <1>2, FS_Subset
    <2>2. IsFiniteSet(T)
      BY <1>1, <1>2, FS_Subset
    <2>3. QED
      BY <2>1, <2>2
  <1>4. Cardinality(S \cup T) = Cardinality(S) + Cardinality(T)
    <2>1. Cardinality(S \cap T) = 0 /\ Cardinality(S) \in Nat /\ Cardinality(T) \in Nat
      BY <1>1, <1>3, FS_EmptySet, FS_CardinalityType
    <2>2. Cardinality(S \cup T) = Cardinality(S) + Cardinality(T) - Cardinality(S \cap T)
      BY <1>3, FS_Union
    <2>3. QED
      BY <2>1, <2>2
  <1>5. Cardinality(S \cup T) =< Cardinality(Asker \ {r})
    <2>1. S \cup T \in SUBSET (Asker \ {r})
      BY <1>1
    <2>2. QED
      BY <1>2, <2>1, FS_Subset
  <1>6. QED
    BY <1>2, <1>4, <1>5 DEF At, S, T

(* What steps do to the counts *)

LEMMA SumIsNat ==
  ASSUME NEW f \in [ImageTick -> Nat], NEW ticks \in SUBSET ImageTick
  PROVE  SumOver(f, ticks) \in Nat
  <1>1. IsFiniteSet({}) /\ {} \in SUBSET ticks /\ IsFiniteSet(ticks)
    BY TicksAreFinite, FS_EmptySet
  <1>2. \A t \in ticks : f[t] \in Nat
    OBVIOUS
  <1>3. SumOver(f, ticks) \in Int
    BY <1>1, <1>2, TotalType
  <1>4. SumOver(f, {}) = 0
    BY TotalEmpty
  <1>5. SumOver(f, {}) =< SumOver(f, ticks)
    BY <1>1, <1>2, TotalSubset
  <1>6. QED
    BY <1>3, <1>4, <1>5

LEMMA SumsAreInt == ASSUME LimitTypes, NEW ticks \in SUBSET ImageTick
                    PROVE  SumOver(drawn, ticks) \in Nat /\ SumOver(drawnLately, ticks) \in Nat
  BY SumIsNat DEF LimitTypes

LEMMA Today == LimitTypes => /\ DrawingDay(imageTick) \in ImageTick /\ DrawingDay(imageTick) \in Nat
                             /\ imageTick \in Nat /\ daily[DrawingDay(imageTick)] \in Nat
  <1> SUFFICES ASSUME LimitTypes
               PROVE  /\ DrawingDay(imageTick) \in ImageTick /\ DrawingDay(imageTick) \in Nat
                      /\ imageTick \in Nat /\ daily[DrawingDay(imageTick)] \in Nat
    OBVIOUS
  <1>1. imageTick \in Nat /\ imageTick \in ImageTick
    BY TicksAreFinite DEF LimitTypes
  <1>2. DrawingDay(imageTick) \in 0..imageTick
    BY <1>1, DayBounds
  <1>3. DrawingDay(imageTick) \in ImageTick /\ DrawingDay(imageTick) \in Nat
    BY <1>1, <1>2, ImageLimitsAssumption DEF ImageTick
  <1>4. QED
    BY <1>1, <1>3 DEF LimitTypes

LEMMA DayIsKept ==
  ASSUME LimitTypes, DayInv, LimitTypes', UNCHANGED <<imageTick, drawn>>,
         NEW k \in Int, uncounted' = uncounted + k,
         daily[DrawingDay(imageTick)] + At(asker, {"count"}) =< daily'[DrawingDay(imageTick)] + At(asker', {"count"}) + k,
         At(asker', {"window", "draw"}) =< At(asker, {"window", "draw"}), k >= 0
  PROVE  DayInv'
  <1> DEFINE d == DrawingDay(imageTick)
             c == At(asker, {"count"})
             cc == At(asker', {"count"})
             w == At(asker, {"window", "draw"})
             ww == At(asker', {"window", "draw"})
             sum == SumOver(drawn, OfDay(d))
             n == Cardinality(Asker)
  <1>1. c \in Nat /\ cc \in Nat /\ w \in Nat /\ ww \in Nat /\ n \in Nat
    BY AtType
  <1>2. sum \in Nat
    BY SumsAreInt DEF OfDay
  <1>3. daily[d] \in Nat /\ daily'[d] \in Nat /\ uncounted \in Nat /\ uncounted' \in Nat
    BY Today DEF LimitTypes
  <1>4. sum =< daily[d] + c + uncounted /\ sum + w =< MaxPerDay + n - 1 + uncounted /\ (w > 0 => MaxPerDay > 0)
    BY DEF DayInv, Counted, Reserved
  <1>5. MaxPerDay \in Nat
    BY ImageLimitsAssumption
  <1> HIDE DEF c, cc, w, ww, sum, n, d
  <1>6. sum =< daily'[d] + cc + uncounted' /\ sum + ww =< MaxPerDay + n - 1 + uncounted' /\ (ww > 0 => MaxPerDay > 0)
    BY <1>1, <1>2, <1>3, <1>4, <1>5 DEF c, cc, w, ww, d
  <1>7. QED
    BY <1>6 DEF DayInv, Counted, Reserved, c, cc, w, ww, d, sum, n

LEMMA WindowIsKept ==
  ASSUME LimitTypes, WindowInv, LimitTypes', UNCHANGED <<imageTick, drawn>>,
         NEW k \in Int, k >= 0, uncounted' = uncounted + k,
         \A t \in Recent : SumOver(drawnLately, OfWindow(t)) + At(asker, {"count"})
                             =< SumOver(drawnLately', OfWindow(t)) + At(asker', {"count"}) + k,
         At(asker', {"draw"}) =< At(asker, {"draw"})
  PROVE  WindowInv'
  <1> DEFINE c == At(asker, {"count"})
             cc == At(asker', {"count"})
             x == At(asker, {"draw"})
             xx == At(asker', {"draw"})
             n == Cardinality(Asker)
  <1>1. c \in Nat /\ cc \in Nat /\ x \in Nat /\ xx \in Nat /\ n \in Nat
    BY AtType
  <1>2. MaxPerWindow \in Nat /\ uncounted \in Nat /\ uncounted' \in Nat /\ Recent' = Recent
    BY ImageLimitsAssumption DEF LimitTypes, Recent
  <1>3. x > 0 => MaxPerWindow > 0
    BY DEF WindowInv
  <1>4. ASSUME NEW t \in Recent
        PROVE  /\ SumOver(drawn, OfWindow(t)) =< SumOver(drawnLately', OfWindow(t)) + cc + uncounted'
               /\ SumOver(drawn, OfWindow(t)) + xx =< MaxPerWindow + n - 1 + uncounted'
    <2> DEFINE sum == SumOver(drawn, OfWindow(t))
               late == SumOver(drawnLately, OfWindow(t))
               later == SumOver(drawnLately', OfWindow(t))
    <2>1. OfWindow(t) \in SUBSET ImageTick
      BY DEF OfWindow
    <2>2. sum \in Nat /\ late \in Nat
      BY <2>1, SumsAreInt
    <2>3. later \in Nat
      BY <2>1, SumIsNat DEF LimitTypes
    <2>4. sum =< late + c + uncounted /\ sum + x =< MaxPerWindow + n - 1 + uncounted
      BY DEF WindowInv, Counted, Reserved
    <2>5. late + c =< later + cc + k /\ xx =< x
      OBVIOUS
    <2> HIDE DEF c, cc, x, xx, n, sum, late, later
    <2>6. sum =< later + cc + uncounted' /\ sum + xx =< MaxPerWindow + n - 1 + uncounted'
      BY <1>1, <1>2, <2>2, <2>3, <2>4, <2>5
    <2>7. QED
      BY <2>6 DEF sum, later
  <1>5. xx > 0 => MaxPerWindow > 0
    <2>1. xx =< x
      OBVIOUS
    <2> HIDE DEF x, xx
    <2>2. QED
      BY <1>1, <1>3, <2>1
  <1>6. QED
    BY <1>2, <1>4, <1>5 DEF WindowInv, Counted, Reserved

LEMMA NothingDrawn ==
  ASSUME LimitsInv, LimitTypes', UNCHANGED <<imageTick, drawn>>, uncounted' >= uncounted,
         DayInv', WindowInv'
  PROVE  LimitsInv'
  <1>1. uncounted \in Nat /\ uncounted' \in Nat /\ MaxPerDay \in Nat /\ MaxPerWindow \in Nat
        /\ Cardinality(Asker) \in Nat
    BY AtType, ImageLimitsAssumption DEF LimitsInv, LimitTypes
  <1>2. ASSUME NEW ticks \in SUBSET ImageTick, NEW max \in Nat,
               SumOver(drawn, ticks) =< max + Cardinality(Asker) - 1 + uncounted
        PROVE  SumOver(drawn, ticks) =< max + Cardinality(Asker) - 1 + uncounted'
    <2>1. SumOver(drawn, ticks) \in Nat
      BY SumsAreInt DEF LimitsInv
    <2>2. QED
      BY <1>1, <1>2, <2>1
  <1>3. DaysRespected'
    BY <1>1, <1>2 DEF LimitsInv, DaysRespected, OfDay
  <1>4. WindowsRespected'
    BY <1>1, <1>2 DEF LimitsInv, WindowsRespected, OfWindow
  <1>5. QED
    BY <1>3, <1>4 DEF LimitsInv

LEMMA InitLimits == ImageLimitsInit => LimitsInv
  <1> SUFFICES ASSUME ImageLimitsInit PROVE LimitsInv
    OBVIOUS
  <1>1. 0 \in ImageTick
    BY ImageLimitsAssumption DEF ImageTick
  <1>2. LimitTypes
    BY <1>1 DEF ImageLimitsInit, LimitTypes
  <1>3. ASSUME NEW places, "idle" \notin places PROVE At(asker, places) = 0
    <2>1. {r \in Asker : asker[r] \in places} = {}
      BY <1>3 DEF ImageLimitsInit
    <2>2. QED
      BY <2>1, FS_EmptySet DEF At
  <1>4. At(asker, {"count"}) = 0 /\ At(asker, {"window", "draw"}) = 0 /\ At(asker, {"draw"}) = 0
    BY <1>3
  <1>5. ASSUME NEW ticks \in SUBSET ImageTick
        PROVE  SumOver(drawn, ticks) = 0 /\ SumOver(drawnLately, ticks) \in Nat
    <2>1. IsFiniteSet(ticks) /\ \A t \in ticks : drawn[t] = 0
      BY TicksAreFinite DEF ImageLimitsInit
    <2>2. QED
      BY <1>2, <2>1, TotalZero, SumsAreInt
  <1>6. Cardinality(Asker) \in Nat /\ Cardinality(Asker) > 0 /\ MaxPerDay \in Nat /\ MaxPerWindow \in Nat
        /\ uncounted = 0
    BY AtType, ImageLimitsAssumption DEF ImageLimitsInit
  <1>7. daily[DrawingDay(imageTick)] \in Nat
    BY <1>2, Today
  <1>8. DayInv
    BY <1>4, <1>5, <1>6, <1>7 DEF DayInv, Counted, Reserved, OfDay
  <1>9. WindowInv
    <2>1. ASSUME NEW t \in Recent PROVE OfWindow(t) \in SUBSET ImageTick
      BY DEF OfWindow
    <2>2. QED
      BY <1>4, <1>5, <1>6, <2>1 DEF WindowInv, Counted, Reserved
  <1>10. DaysRespected
    BY <1>5, <1>6 DEF DaysRespected, OfDay
  <1>11. WindowsRespected
    BY <1>5, <1>6 DEF WindowsRespected, OfWindow
  <1>12. QED
    BY <1>2, <1>8, <1>9, <1>10, <1>11 DEF LimitsInv

(* The actions *)

LEMMA CountsMove ==
  ASSUME LimitTypes, NEW r \in Asker, NEW place, GoTo(r, place), NEW places
  PROVE  At(asker', places) = At(asker, places) - One(asker[r], places) + One(place, places)
  <1> DEFINE S == {q \in Asker : asker[q] \in places}
             T == {q \in Asker : asker'[q] \in places}
  <1>1. IsFiniteSet(S) /\ Cardinality(S) \in Nat
    BY FS_Subset, FS_CardinalityType, ImageLimitsAssumption
  <1>2. T = IF place \in places THEN S \cup {r} ELSE S \ {r}
    BY DEF GoTo, LimitTypes
  <1>3. r \in S <=> asker[r] \in places
    OBVIOUS
  <1> HIDE DEF S, T
  <1>4. Cardinality(T) = Cardinality(S) - (IF asker[r] \in places THEN 1 ELSE 0) + (IF place \in places THEN 1 ELSE 0)
    <2>1. Cardinality(S \cup {r}) = IF r \in S THEN Cardinality(S) ELSE Cardinality(S) + 1
      BY <1>1, FS_AddElement
    <2>2. Cardinality(S \ {r}) = IF r \in S THEN Cardinality(S) - 1 ELSE Cardinality(S)
      BY <1>1, FS_RemoveElement
    <2>3. CASE place \in places
      BY <1>1, <1>2, <1>3, <2>1, <2>3
    <2>4. CASE place \notin places
      BY <1>1, <1>2, <1>3, <2>2, <2>4
    <2>5. QED
      BY <2>3, <2>4
  <1>5. QED
    BY <1>4 DEF At, S, T, One

\* A request that draws nothing and counts nothing leaves the limits as they are.
LEMMA RequestLeaves ==
  ASSUME LimitsInv, NEW r \in Asker, NEW place \in {"idle", "day", "window", "draw", "count"},
         GoTo(r, place), asker[r] # "count", place # "count",
         place \in {"window", "draw"} => asker[r] \in {"window", "draw"},
         place = "draw" => asker[r] = "draw",
         UNCHANGED <<imageTick, daily, drawn, uncounted>>,
         drawnLately' \in [ImageTick -> Nat],
         \A t \in ImageTick : imageTick < t => drawnLately'[t] = 0,
         \A t \in Recent : SumOver(drawnLately', OfWindow(t)) = SumOver(drawnLately, OfWindow(t))
  PROVE  LimitsInv'
  <1>1. LimitTypes /\ DayInv /\ WindowInv /\ uncounted \in Nat
    BY DEF LimitsInv, LimitTypes
  <1>2. LimitTypes'
    BY <1>1 DEF LimitTypes, GoTo
  <1>4. At(asker', {"count"}) = At(asker, {"count"})
    <2>1. At(asker', {"count"}) = At(asker, {"count"}) - One(asker[r], {"count"})
                                    + One(place, {"count"})
      BY <1>1, CountsMove
    <2>2. At(asker, {"count"}) \in Nat
      BY AtType
    <2>3. QED
      BY <2>1, <2>2 DEF One
  <1>5. At(asker', {"window", "draw"}) =< At(asker, {"window", "draw"})
    <2>1. At(asker', {"window", "draw"}) = At(asker, {"window", "draw"})
             - One(asker[r], {"window", "draw"}) + One(place, {"window", "draw"})
      BY <1>1, CountsMove
    <2>2. At(asker, {"window", "draw"}) \in Nat
      BY AtType
    <2>3. QED
      BY <2>1, <2>2 DEF One
  <1>6. At(asker', {"draw"}) =< At(asker, {"draw"})
    <2>1. At(asker', {"draw"}) = At(asker, {"draw"}) - One(asker[r], {"draw"})
                                   + One(place, {"draw"})
      BY <1>1, CountsMove
    <2>2. At(asker, {"draw"}) \in Nat
      BY AtType
    <2>3. QED
      BY <2>1, <2>2 DEF One
  <1>7. uncounted' = uncounted + 0 /\ uncounted' >= uncounted
    BY <1>1
  <1>8. daily[DrawingDay(imageTick)] + At(asker, {"count"})
          =< daily'[DrawingDay(imageTick)] + At(asker', {"count"}) + 0
    <2>1. daily[DrawingDay(imageTick)] \in Nat /\ At(asker, {"count"}) \in Nat
      BY <1>1, Today, AtType
    <2>2. QED
      BY <1>4, <2>1
  <1>9. DayInv'
    BY <1>1, <1>2, <1>5, <1>7, <1>8, DayIsKept
  <1>10. \A t \in Recent : SumOver(drawnLately, OfWindow(t)) + At(asker, {"count"})
                             =< SumOver(drawnLately', OfWindow(t)) + At(asker', {"count"}) + 0
    <2> SUFFICES ASSUME NEW t \in Recent
                 PROVE  SumOver(drawnLately, OfWindow(t)) + At(asker, {"count"})
                             =< SumOver(drawnLately', OfWindow(t)) + At(asker', {"count"}) + 0
      OBVIOUS
    <2>1. OfWindow(t) \in SUBSET ImageTick
      BY DEF OfWindow
    <2>2. SumOver(drawnLately, OfWindow(t)) \in Nat /\ At(asker, {"count"}) \in Nat
      BY <1>1, <2>1, SumsAreInt, AtType
    <2>3. QED
      BY <1>4, <2>2
  <1>11. WindowInv'
    BY <1>1, <1>2, <1>6, <1>7, <1>10, WindowIsKept
  <1>12. QED
    BY <1>2, <1>7, <1>9, <1>11, NothingDrawn

\* The day's check lets a request in that the day has room for.
LEMMA DayIsChecked ==
  ASSUME LimitsInv, NEW r \in Asker, CheckDay(r)
  PROVE  LimitsInv'
  <1> DEFINE d == DrawingDay(imageTick)
             c == At(asker, {"count"})
             w == At(asker, {"window", "draw"})
             sum == SumOver(drawn, OfDay(d))
             n == Cardinality(Asker)
  <1>1. LimitTypes /\ DayInv /\ WindowInv /\ uncounted \in Nat
    BY DEF LimitsInv, LimitTypes
  <1>2. asker[r] = "day" /\ UNCHANGED <<imageTick, daily, drawnLately, drawn, uncounted>>
    BY DEF CheckDay
  <1>3. CASE ~BelowLimit(daily[d], MaxPerDay)
    <2>1. GoTo(r, "idle")
      BY <1>3 DEF CheckDay
    <2>2. /\ drawnLately' \in [ImageTick -> Nat]
          /\ \A t \in ImageTick : imageTick < t => drawnLately'[t] = 0
          /\ \A t \in Recent : SumOver(drawnLately', OfWindow(t)) = SumOver(drawnLately, OfWindow(t))
      BY <1>1, <1>2 DEF LimitTypes
    <2>3. QED
      BY <1>2, <2>1, <2>2, RequestLeaves
  <1>4. CASE BelowLimit(daily[d], MaxPerDay)
    <2>1. GoTo(r, "window")
      BY <1>4 DEF CheckDay
    <2>2. LimitTypes'
      BY <1>1, <1>2, <2>1 DEF LimitTypes, GoTo
    <2>3. c \in Nat /\ w \in Nat /\ n \in Nat /\ sum \in Nat
      BY <1>1, AtType, SumsAreInt DEF OfDay
    <2>4. daily[d] \in Nat /\ daily[d] < MaxPerDay /\ MaxPerDay \in Nat /\ MaxPerDay > 0
      BY <1>1, <1>4, Today, ImageLimitsAssumption DEF BelowLimit
    <2>5. At(asker', {"count"}) = c
      <3>1. At(asker', {"count"}) = c - One(asker[r], {"count"}) + One("window", {"count"})
        BY <1>1, <2>1, CountsMove
      <3> HIDE DEF c
      <3>2. QED
        BY <1>2, <2>3, <3>1 DEF One
    <2>6. At(asker', {"window", "draw"}) = w + 1
      <3>1. At(asker', {"window", "draw"})
              = w - One(asker[r], {"window", "draw"}) + One("window", {"window", "draw"})
        BY <1>1, <2>1, CountsMove
      <3> HIDE DEF w
      <3>2. QED
        BY <1>2, <2>3, <3>1 DEF One
    <2>7. At(asker', {"draw"}) =< At(asker, {"draw"})
      <3>1. At(asker', {"draw"}) = At(asker, {"draw"}) - One(asker[r], {"draw"}) + One("window", {"draw"})
        BY <1>1, <2>1, CountsMove
      <3>2. At(asker, {"draw"}) \in Nat
        BY AtType
      <3>3. QED
        BY <1>2, <3>1, <3>2 DEF One
    <2>8. w + c =< n - 1
      <3>1. {"window", "draw"} \cap {"count"} = {} /\ asker[r] \notin {"window", "draw"} \cup {"count"}
        BY <1>2
      <3>2. QED
        BY <3>1, OneIsElsewhere
    <2>9. sum =< daily[d] + c + uncounted
      BY <1>1 DEF DayInv, Counted
    <2>10. sum + (w + 1) =< MaxPerDay + n - 1 + uncounted
      <3> HIDE DEF c, w, sum, n, d
      <3>1. QED
        BY <1>1, <2>3, <2>4, <2>8, <2>9
    <2>11. DayInv'
      BY <1>2, <2>4, <2>5, <2>6, <2>9, <2>10 DEF DayInv, Counted, Reserved
    <2>12. WindowInv'
      <3>1. uncounted' = uncounted + 0
        BY <1>1, <1>2
      <3>2. \A t \in Recent : SumOver(drawnLately, OfWindow(t)) + c
                                =< SumOver(drawnLately', OfWindow(t)) + At(asker', {"count"}) + 0
        <4> SUFFICES ASSUME NEW t \in Recent
                     PROVE  SumOver(drawnLately, OfWindow(t)) + c
                                =< SumOver(drawnLately', OfWindow(t)) + At(asker', {"count"}) + 0
          OBVIOUS
        <4>1. SumOver(drawnLately, OfWindow(t)) \in Nat
          BY <1>1, SumsAreInt DEF OfWindow
        <4> HIDE DEF c
        <4>2. QED
          BY <1>2, <2>3, <2>5, <4>1
      <3>3. QED
        BY <1>1, <1>2, <2>2, <2>7, <3>1, <3>2, WindowIsKept
    <2>13. QED
      BY <1>1, <1>2, <2>2, <2>11, <2>12, NothingDrawn
  <1>5. QED
    BY <1>3, <1>4

\* What is pruned is older than the windows that reach to the present.
LEMMA PrunedIsOld ==
  ASSUME LimitTypes, NEW f \in [ImageTick -> Nat],
         f = [t \in ImageTick |-> IF Outdated(t) THEN 0 ELSE drawnLately[t]], NEW t \in Recent
  PROVE  /\ SumOver(f, OfWindow(t)) = SumOver(drawnLately, OfWindow(t))
         /\ SumOver(f, OfWindow(t)) =< Total(f, 0, imageTick)
  <1>1. /\ ImageTick \subseteq Nat /\ imageTick \in Nat /\ t \in ImageTick /\ ImageWindow \in Nat \ {0}
        /\ imageTick - ImageWindow < t /\ t =< imageTick
    BY TicksAreFinite, ImageLimitsAssumption DEF LimitTypes, Recent
  <1> DEFINE S == OfWindow(t)
             T == ImageTick \cap (0 .. imageTick)
  <1>2. \A q \in S : q \in Nat /\ q \in ImageTick /\ t =< q /\ ~Outdated(q)
    BY <1>1 DEF OfWindow, Outdated
  <1>3. IsFiniteSet(S) /\ IsFiniteSet(T) /\ S \cap T \in SUBSET S /\ S \cap T \in SUBSET T /\ S \in SUBSET ImageTick
    BY TicksAreFinite DEF OfWindow
  <1>4. \A q \in S : f[q] \in Int /\ f[q] = drawnLately[q]
    BY <1>2
  <1>5. \A q \in S \ (S \cap T) : f[q] = 0
    <2>1. \A q \in S : q \notin T => imageTick < q
      BY <1>1, <1>2
    <2>2. QED
      BY <1>2, <1>4, <2>1 DEF LimitTypes
  <1>6. (\A q \in S : f[q] \in Nat) /\ (\A q \in T : f[q] \in Nat)
    BY <1>2
  <1>7. SumOver(f, S \cap T) \in Nat /\ SumOver(f, T) \in Nat /\ SumOver(f, S) \in Nat
    BY <1>3, SumIsNat
  <1> HIDE DEF S, T
  <1>8. SumOver(f, S) = SumOver(drawnLately, S)
    BY <1>3, <1>4, TotalSame
  <1>9. SumOver(f, S) = SumOver(f, S \cap T)
    BY <1>3, <1>5, <1>6, TotalSubset
  <1>10. SumOver(f, S \cap T) =< SumOver(f, T)
    BY <1>3, <1>6, TotalSubset
  <1>11. Total(f, 0, imageTick) = SumOver(f, T)
    BY TotalIsSum DEF T
  <1>12. QED
    BY <1>7, <1>8, <1>9, <1>10, <1>11 DEF S

LEMMA WindowIsChecked ==
  ASSUME LimitsInv, NEW r \in Asker, CheckWindow(r)
  PROVE  LimitsInv'
  <1> DEFINE c == At(asker, {"count"})
             x == At(asker, {"draw"})
             w == At(asker, {"window", "draw"})
             n == Cardinality(Asker)
  <1>1. LimitTypes /\ DayInv /\ WindowInv /\ uncounted \in Nat
    BY DEF LimitsInv, LimitTypes
  <1>2. /\ asker[r] = "window" /\ UNCHANGED <<imageTick, daily, drawn, uncounted>>
        /\ drawnLately' = [t \in ImageTick |-> IF Outdated(t) THEN 0 ELSE drawnLately[t]]
    BY DEF CheckWindow
  <1>3. drawnLately' \in [ImageTick -> Nat]
        /\ \A t \in ImageTick : imageTick < t => drawnLately'[t] = 0
    BY <1>1, <1>2 DEF LimitTypes
  <1>4. ASSUME NEW t \in Recent
        PROVE  /\ SumOver(drawnLately', OfWindow(t)) = SumOver(drawnLately, OfWindow(t))
               /\ SumOver(drawnLately', OfWindow(t)) =< Total(drawnLately', 0, imageTick)
    BY <1>1, <1>2, <1>3, PrunedIsOld
  <1>5. CASE ~BelowLimit(Total(drawnLately', 0, imageTick), MaxPerWindow)
    <2>1. GoTo(r, "idle")
      BY <1>5 DEF CheckWindow
    <2>2. QED
      BY <1>2, <1>3, <1>4, <2>1, RequestLeaves
  <1>6. CASE BelowLimit(Total(drawnLately', 0, imageTick), MaxPerWindow)
    <2>1. GoTo(r, "draw")
      BY <1>6 DEF CheckWindow
    <2>2. LimitTypes'
      BY <1>1, <1>2, <1>3, <2>1 DEF LimitTypes, GoTo
    <2>3. c \in Nat /\ w \in Nat /\ x \in Nat /\ n \in Nat /\ MaxPerWindow \in Nat
      BY AtType, ImageLimitsAssumption
    <2>4. Total(drawnLately', 0, imageTick) \in Nat
      <3>1. SumOver(drawnLately', ImageTick \cap (0 .. imageTick)) \in Nat
        BY <1>3, SumIsNat
      <3>2. QED
        BY <3>1, TotalIsSum
    <2>5. Total(drawnLately', 0, imageTick) =< MaxPerWindow - 1 /\ MaxPerWindow > 0
      BY <1>6, <2>3, <2>4 DEF BelowLimit
    <2>6. At(asker', {"count"}) = c
      <3>1. At(asker', {"count"}) = c - One(asker[r], {"count"}) + One("draw", {"count"})
        BY <1>1, <2>1, CountsMove
      <3> HIDE DEF c
      <3>2. QED
        BY <1>2, <2>3, <3>1 DEF One
    <2>7. At(asker', {"window", "draw"}) = w
      <3>1. At(asker', {"window", "draw"})
              = w - One(asker[r], {"window", "draw"}) + One("draw", {"window", "draw"})
        BY <1>1, <2>1, CountsMove
      <3> HIDE DEF w
      <3>2. QED
        BY <1>2, <2>3, <3>1 DEF One
    <2>8. At(asker', {"draw"}) = x + 1
      <3>1. At(asker', {"draw"}) = x - One(asker[r], {"draw"}) + One("draw", {"draw"})
        BY <1>1, <2>1, CountsMove
      <3> HIDE DEF x
      <3>2. QED
        BY <1>2, <2>3, <3>1 DEF One
    <2>9. x + c =< n - 1
      <3>1. {"draw"} \cap {"count"} = {} /\ asker[r] \notin {"draw"} \cup {"count"}
        BY <1>2
      <3>2. QED
        BY <3>1, OneIsElsewhere
    <2>10. Recent' = Recent
      BY <1>2 DEF Recent
    <2>11. ASSUME NEW t \in Recent
           PROVE  /\ SumOver(drawn, OfWindow(t)) =< SumOver(drawnLately', OfWindow(t)) + c + uncounted
                  /\ SumOver(drawn, OfWindow(t)) + (x + 1) =< MaxPerWindow + n - 1 + uncounted
      <3> DEFINE sum == SumOver(drawn, OfWindow(t))
                 late == SumOver(drawnLately', OfWindow(t))
                 all == Total(drawnLately', 0, imageTick)
      <3>1. OfWindow(t) \in SUBSET ImageTick
        BY DEF OfWindow
      <3>2. sum \in Nat /\ late \in Nat
        BY <1>1, <1>3, <3>1, SumsAreInt, SumIsNat
      <3>3. sum =< late + c + uncounted
        BY <1>1, <1>4 DEF WindowInv, Counted
      <3>4. late =< all /\ all \in Nat /\ all =< MaxPerWindow - 1
        BY <1>4, <2>4, <2>5
      <3> HIDE DEF c, x, n, sum, late, all
      <3>5. sum + (x + 1) =< MaxPerWindow + n - 1 + uncounted
        BY <1>1, <2>3, <2>9, <3>2, <3>3, <3>4
      <3>6. QED
        BY <3>3, <3>5 DEF sum, late
    <2>12. WindowInv'
      BY <1>2, <2>5, <2>6, <2>8, <2>10, <2>11 DEF WindowInv, Counted, Reserved
    <2>13. DayInv'
      BY <1>1, <1>2, <2>6, <2>7 DEF DayInv, Counted, Reserved
    <2>14. QED
      BY <1>1, <1>2, <2>2, <2>12, <2>13, NothingDrawn
  <1>7. QED
    BY <1>5, <1>6

LEMMA OthersLeave ==
  ASSUME LimitsInv, NEW r \in Asker, AskToDraw(r) \/ FailToDraw(r)
  PROVE  LimitsInv'
  <1>1. UNCHANGED <<imageTick, daily, drawnLately, drawn, uncounted>>
    BY DEF AskToDraw, FailToDraw
  <1>2. /\ drawnLately' \in [ImageTick -> Nat]
        /\ \A t \in ImageTick : imageTick < t => drawnLately'[t] = 0
        /\ \A t \in Recent : SumOver(drawnLately', OfWindow(t)) = SumOver(drawnLately, OfWindow(t))
    BY <1>1 DEF LimitsInv, LimitTypes
  <1>3. CASE AskToDraw(r)
    <2>1. GoTo(r, "day") /\ asker[r] = "idle"
      BY <1>3 DEF AskToDraw
    <2>2. QED
      BY <1>1, <1>2, <2>1, RequestLeaves
  <1>4. CASE FailToDraw(r)
    <2>1. GoTo(r, "idle") /\ asker[r] = "draw"
      BY <1>4 DEF FailToDraw
    <2>2. QED
      BY <1>1, <1>2, <2>1, RequestLeaves
  <1>5. QED
    BY <1>3, <1>4

\* An image that was drawn is counted, or its counting fails.
LEMMA ImageIsCounted ==
  ASSUME LimitsInv, NEW r \in Asker, CountImage(r) \/ FailToCount(r)
  PROVE  LimitsInv'
  <1> DEFINE d == DrawingDay(imageTick)
             c == At(asker, {"count"})
  <1>1. /\ LimitTypes /\ DayInv /\ WindowInv /\ uncounted \in Nat /\ imageTick \in ImageTick
        /\ daily \in [ImageTick -> Nat] /\ drawnLately \in [ImageTick -> Nat]
    BY DEF LimitsInv, LimitTypes
  <1>2. asker[r] = "count" /\ GoTo(r, "idle") /\ UNCHANGED <<imageTick, drawn>>
    BY DEF CountImage, FailToCount
  <1>3. c \in Nat /\ d \in ImageTick /\ daily[d] \in Nat
    BY <1>1, AtType, Today
  <1>4. At(asker', {"count"}) = c - 1
    <2>1. At(asker', {"count"}) = c - One(asker[r], {"count"}) + One("idle", {"count"})
      BY <1>1, <1>2, CountsMove
    <2> HIDE DEF c
    <2>2. QED
      BY <1>2, <1>3, <2>1 DEF One
  <1>5. At(asker', {"window", "draw"}) =< At(asker, {"window", "draw"})
    <2>1. At(asker', {"window", "draw"})
            = At(asker, {"window", "draw"}) - One(asker[r], {"window", "draw"}) + One("idle", {"window", "draw"})
      BY <1>1, <1>2, CountsMove
    <2>2. At(asker, {"window", "draw"}) \in Nat
      BY AtType
    <2>3. QED
      BY <1>2, <2>1, <2>2 DEF One
  <1>6. At(asker', {"draw"}) =< At(asker, {"draw"})
    <2>1. At(asker', {"draw"}) = At(asker, {"draw"}) - One(asker[r], {"draw"}) + One("idle", {"draw"})
      BY <1>1, <1>2, CountsMove
    <2>2. At(asker, {"draw"}) \in Nat
      BY AtType
    <2>3. QED
      BY <1>2, <2>1, <2>2 DEF One
  <1>7. CASE CountImage(r)
    <2>1. /\ daily' = [daily EXCEPT ![d] = @ + 1] /\ drawnLately' = [drawnLately EXCEPT ![imageTick] = @ + 1]
          /\ UNCHANGED uncounted
      BY <1>7 DEF CountImage
    <2>2. LimitTypes'
      <3>1. asker' \in [Asker -> {"idle", "day", "window", "draw", "count"}]
        BY <1>1, <1>2 DEF LimitTypes, GoTo
      <3>2. daily' \in [ImageTick -> Nat]
        BY <1>1, <1>3, <2>1
      <3>3. drawnLately' \in [ImageTick -> Nat]
        BY <1>1, <2>1
      <3>4. \A t \in ImageTick : imageTick < t => drawn[t] = 0 /\ drawnLately'[t] = 0
        <4>1. \A t \in ImageTick : imageTick < t => t # imageTick
          BY TicksAreFinite, <1>1
        <4>2. QED
          BY <1>1, <2>1, <4>1 DEF LimitTypes
      <3>5. QED
        BY <1>1, <1>2, <2>1, <3>1, <3>2, <3>3, <3>4 DEF LimitTypes
    <2>3. uncounted' = uncounted + 0
      BY <1>1, <2>1
    <2>4. daily[d] + c =< daily'[d] + At(asker', {"count"}) + 0
      <3>1. daily'[d] = daily[d] + 1
        BY <1>1, <1>3, <2>1
      <3> HIDE DEF c
      <3>2. QED
        BY <1>3, <1>4, <3>1
    <2>5. DayInv'
      <3> HIDE DEF c
      <3>1. QED
        BY <1>1, <1>2, <1>5, <2>2, <2>3, <2>4, DayIsKept DEF c
    <2>6. \A t \in Recent : SumOver(drawnLately, OfWindow(t)) + c
                              =< SumOver(drawnLately', OfWindow(t)) + At(asker', {"count"}) + 0
      <3> SUFFICES ASSUME NEW t \in Recent
                   PROVE  SumOver(drawnLately, OfWindow(t)) + c
                              =< SumOver(drawnLately', OfWindow(t)) + At(asker', {"count"}) + 0
        OBVIOUS
      <3>1. OfWindow(t) \in SUBSET ImageTick
        BY DEF OfWindow
      <3>2. imageTick \in OfWindow(t)
        <4>1. /\ imageTick \in Nat /\ t \in Nat /\ ImageWindow \in Nat
              /\ imageTick - ImageWindow < t /\ t =< imageTick
          BY <1>1, TicksAreFinite, ImageLimitsAssumption DEF Recent
        <4>2. imageTick \in t .. t + ImageWindow - 1
          BY <4>1
        <4>3. QED
          BY <1>1, <4>2 DEF OfWindow
      <3>3. SumOver(drawnLately, OfWindow(t)) \in Nat
        BY <1>1, <3>1, SumIsNat
      <3>4. SumOver(drawnLately', OfWindow(t)) = SumOver(drawnLately, OfWindow(t)) + 1
        BY <1>1, <2>1, <3>1, <3>2, OneMore
      <3> HIDE DEF c
      <3>5. QED
        BY <1>3, <1>4, <3>3, <3>4
    <2>7. WindowInv'
      <3> HIDE DEF c
      <3>1. QED
        BY <1>1, <1>2, <1>6, <2>2, <2>3, <2>6, WindowIsKept DEF c
    <2>8. QED
      BY <1>1, <1>2, <2>1, <2>2, <2>5, <2>7, NothingDrawn
  <1>8. CASE FailToCount(r)
    <2>1. uncounted' = uncounted + 1 /\ UNCHANGED <<daily, drawnLately>>
      BY <1>8 DEF FailToCount
    <2>2. LimitTypes'
      BY <1>1, <1>2, <2>1 DEF LimitTypes, GoTo
    <2>3. daily[d] + c =< daily'[d] + At(asker', {"count"}) + 1
      <3> HIDE DEF c
      <3>1. QED
        BY <1>3, <1>4, <2>1
    <2>4. DayInv'
      BY <1>1, <1>2, <1>5, <2>1, <2>2, <2>3, DayIsKept
    <2>5. \A t \in Recent : SumOver(drawnLately, OfWindow(t)) + c
                              =< SumOver(drawnLately', OfWindow(t)) + At(asker', {"count"}) + 1
      <3> SUFFICES ASSUME NEW t \in Recent
                   PROVE  SumOver(drawnLately, OfWindow(t)) + c
                              =< SumOver(drawnLately', OfWindow(t)) + At(asker', {"count"}) + 1
        OBVIOUS
      <3>1. SumOver(drawnLately, OfWindow(t)) \in Nat
        BY <1>1, SumIsNat DEF OfWindow
      <3> HIDE DEF c
      <3>2. QED
        BY <1>3, <1>4, <2>1, <3>1
    <2>6. WindowInv'
      BY <1>1, <1>2, <1>6, <2>1, <2>2, <2>5, WindowIsKept
    <2>7. QED
      BY <1>1, <1>2, <2>1, <2>2, <2>4, <2>6, NothingDrawn
  <1>9. QED
    BY <1>7, <1>8

\* An image is drawn by a request that had found room for it.
LEMMA ImageIsDrawn ==
  ASSUME LimitsInv, NEW r \in Asker, Draw(r)
  PROVE  LimitsInv'
  <1> DEFINE d == DrawingDay(imageTick)
             c == At(asker, {"count"})
             x == At(asker, {"draw"})
             w == At(asker, {"window", "draw"})
             n == Cardinality(Asker)
  <1>1. /\ LimitTypes /\ DayInv /\ WindowInv /\ uncounted \in Nat /\ imageTick \in ImageTick
        /\ drawn \in [ImageTick -> Nat] /\ imageTick \in Nat
    BY TicksAreFinite DEF LimitsInv, LimitTypes
  <1>2. /\ asker[r] = "draw" /\ GoTo(r, "count") /\ UNCHANGED <<imageTick, daily, drawnLately, uncounted>>
        /\ drawn' = [drawn EXCEPT ![imageTick] = @ + 1]
    BY DEF Draw
  <1>3. LimitTypes'
    <2>1. asker' \in [Asker -> {"idle", "day", "window", "draw", "count"}]
      BY <1>1, <1>2 DEF LimitTypes, GoTo
    <2>2. drawn' \in [ImageTick -> Nat]
      BY <1>1, <1>2
    <2>3. \A t \in ImageTick : imageTick < t => drawn'[t] = 0 /\ drawnLately[t] = 0
      <3>1. \A t \in ImageTick : imageTick < t => t # imageTick
        BY TicksAreFinite, <1>1
      <3>2. QED
        BY <1>1, <1>2, <3>1 DEF LimitTypes
    <2>4. QED
      BY <1>1, <1>2, <2>1, <2>2, <2>3 DEF LimitTypes
  <1>4. /\ c \in Nat /\ w \in Nat /\ x \in Nat /\ n \in Nat /\ n > 0 /\ d \in Nat /\ daily[d] \in Nat
        /\ MaxPerDay \in Nat /\ MaxPerWindow \in Nat
    BY <1>1, AtType, Today, ImageLimitsAssumption
  <1>5. At(asker', {"count"}) = c + 1
    <2>1. At(asker', {"count"}) = c - One(asker[r], {"count"}) + One("count", {"count"})
      BY <1>1, <1>2, CountsMove
    <2> HIDE DEF c
    <2>2. QED
      BY <1>2, <1>4, <2>1 DEF One
  <1>6. At(asker', {"window", "draw"}) = w - 1
    <2>1. At(asker', {"window", "draw"})
            = w - One(asker[r], {"window", "draw"}) + One("count", {"window", "draw"})
      BY <1>1, <1>2, CountsMove
    <2> HIDE DEF w
    <2>2. QED
      BY <1>2, <1>4, <2>1 DEF One
  <1>7. At(asker', {"draw"}) = x - 1
    <2>1. At(asker', {"draw"}) = x - One(asker[r], {"draw"}) + One("count", {"draw"})
      BY <1>1, <1>2, CountsMove
    <2> HIDE DEF x
    <2>2. QED
      BY <1>2, <1>4, <2>1 DEF One
  <1>8. At(asker', {"window", "draw"}) \in Nat /\ At(asker', {"draw"}) \in Nat
    BY AtType
  <1>9. ASSUME NEW ticks \in SUBSET ImageTick
        PROVE  /\ SumOver(drawn, ticks) \in Nat
               /\ imageTick \in ticks => SumOver(drawn', ticks) = SumOver(drawn, ticks) + 1
               /\ imageTick \notin ticks => SumOver(drawn', ticks) = SumOver(drawn, ticks)
    <2>1. SumOver(drawn, ticks) \in Nat
      BY <1>1, SumIsNat
    <2>2. SumOver(drawn', ticks) = SumOver(drawn, ticks) + (IF imageTick \in ticks THEN 1 ELSE 0)
      BY <1>1, <1>2, OneMore
    <2>3. QED
      BY <2>1, <2>2
  <1>10. imageTick \in OfDay(d) /\ OfDay(d) \in SUBSET ImageTick
    BY <1>1, <1>4, InItsDayOnly DEF OfDay
  <1>11. /\ SumOver(drawn', OfDay(d)) =< daily[d] + (c + 1) + uncounted
         /\ SumOver(drawn', OfDay(d)) + (w - 1) =< MaxPerDay + n - 1 + uncounted
         /\ w - 1 > 0 => MaxPerDay > 0
    <2> DEFINE sum == SumOver(drawn, OfDay(d))
               more == SumOver(drawn', OfDay(d))
    <2>1. sum \in Nat /\ more = sum + 1
      BY <1>9, <1>10
    <2>2. sum =< daily[d] + c + uncounted /\ sum + w =< MaxPerDay + n - 1 + uncounted
          /\ (w > 0 => MaxPerDay > 0)
      BY <1>1 DEF DayInv, Counted, Reserved
    <2> HIDE DEF d, c, w, n, sum, more
    <2>3. /\ more =< daily[d] + (c + 1) + uncounted
          /\ more + (w - 1) =< MaxPerDay + n - 1 + uncounted
          /\ w - 1 > 0 => MaxPerDay > 0
      BY <1>1, <1>4, <2>1, <2>2
    <2>4. QED
      BY <2>3 DEF more
  <1>12. DayInv'
    BY <1>2, <1>5, <1>6, <1>11 DEF DayInv, Counted, Reserved
  <1>13. Recent' = Recent
    BY <1>2 DEF Recent
  <1>14. ASSUME NEW t \in Recent
         PROVE  /\ OfWindow(t) \in SUBSET ImageTick /\ imageTick \in OfWindow(t)
                /\ SumOver(drawn', OfWindow(t)) =< SumOver(drawnLately, OfWindow(t)) + (c + 1) + uncounted
                /\ SumOver(drawn', OfWindow(t)) + (x - 1) =< MaxPerWindow + n - 1 + uncounted
    <2> DEFINE sum == SumOver(drawn, OfWindow(t))
               more == SumOver(drawn', OfWindow(t))
               late == SumOver(drawnLately, OfWindow(t))
    <2>1. OfWindow(t) \in SUBSET ImageTick
      BY DEF OfWindow
    <2>2. imageTick \in OfWindow(t)
      <3>1. /\ t \in Nat /\ ImageWindow \in Nat
            /\ imageTick - ImageWindow < t /\ t =< imageTick
        BY <1>1, TicksAreFinite, ImageLimitsAssumption DEF Recent
      <3>2. imageTick \in t .. t + ImageWindow - 1
        BY <1>1, <3>1
      <3>3. QED
        BY <1>1, <3>2 DEF OfWindow
    <2>3. sum \in Nat /\ more = sum + 1 /\ late \in Nat
      BY <1>1, <1>9, <2>1, <2>2, SumsAreInt
    <2>4. sum =< late + c + uncounted /\ sum + x =< MaxPerWindow + n - 1 + uncounted
      BY <1>1 DEF WindowInv, Counted, Reserved
    <2> HIDE DEF c, x, n, sum, more, late
    <2>5. more =< late + (c + 1) + uncounted /\ more + (x - 1) =< MaxPerWindow + n - 1 + uncounted
      BY <1>1, <1>4, <2>3, <2>4
    <2>6. QED
      BY <2>1, <2>2, <2>5 DEF more, late
  <1>15. x - 1 > 0 => MaxPerWindow > 0
    <2>1. x > 0 => MaxPerWindow > 0
      BY <1>1 DEF WindowInv
    <2> HIDE DEF x
    <2>2. QED
      BY <1>4, <2>1
  <1>16. WindowInv'
    BY <1>2, <1>5, <1>7, <1>13, <1>14, <1>15 DEF WindowInv, Counted, Reserved
  <1>17. DaysRespected'
    <2> SUFFICES ASSUME NEW e \in 0..d
                 PROVE  SumOver(drawn', OfDay(e)) =< MaxPerDay + n - 1 + uncounted
      BY <1>2 DEF DaysRespected
    <2>1. CASE e = d
      <3>1. SumOver(drawn', OfDay(d)) \in Nat
        BY <1>3, <1>10, SumIsNat DEF LimitTypes
      <3>2. w - 1 \in Nat
        BY <1>6, <1>8
      <3> HIDE DEF n, w
      <3>3. QED
        BY <1>1, <1>4, <1>11, <2>1, <3>1, <3>2
    <2>2. CASE e # d
      <3>1. OfDay(e) \in SUBSET ImageTick
        BY DEF OfDay
      <3>2. e \in Nat /\ imageTick \notin OfDay(e)
        BY <1>1, <1>4, <2>2, InItsDayOnly
      <3>3. SumOver(drawn', OfDay(e)) = SumOver(drawn, OfDay(e))
        BY <1>9, <3>1, <3>2
      <3>4. QED
        BY <3>3 DEF LimitsInv, DaysRespected
    <2>3. QED
      BY <2>1, <2>2
  <1>18. WindowsRespected'
    <2> SUFFICES ASSUME NEW t \in ImageTick
                 PROVE  SumOver(drawn', OfWindow(t)) =< MaxPerWindow + n - 1 + uncounted
      BY <1>2 DEF WindowsRespected
    <2>1. CASE t \in Recent
      <3>1. SumOver(drawn', OfWindow(t)) \in Nat
        BY <1>3, <1>14, <2>1, SumIsNat DEF LimitTypes
      <3>2. x - 1 \in Nat /\ SumOver(drawn', OfWindow(t)) + (x - 1) =< MaxPerWindow + n - 1 + uncounted
        BY <1>7, <1>8, <1>14, <2>1
      <3> HIDE DEF n, x
      <3>3. QED
        BY <1>1, <1>4, <3>1, <3>2
    <2>2. CASE t \notin Recent
      <3>1. t \in Nat /\ ImageWindow \in Nat /\ ~(imageTick - ImageWindow < t /\ t =< imageTick)
        BY <2>2, TicksAreFinite, ImageLimitsAssumption DEF Recent
      <3>2. imageTick \notin t .. t + ImageWindow - 1
        BY <1>1, <3>1
      <3>3. SumOver(drawn', OfWindow(t)) = SumOver(drawn, OfWindow(t))
        BY <1>9, <3>2 DEF OfWindow
      <3>4. QED
        BY <3>3 DEF LimitsInv, WindowsRespected
    <2>3. QED
      BY <2>1, <2>2
  <1>19. QED
    BY <1>3, <1>12, <1>16, <1>17, <1>18 DEF LimitsInv

LEMMA DayAhead ==
  ASSUME LimitTypes, NEW d \in Nat, DrawingDay(imageTick) < d
  PROVE  SumOver(drawn, OfDay(d)) = 0
  <1>1. imageTick \in Nat /\ imageTick < d * ImageLimitDay
    BY Today, LaterDay
  <1>2. ImageLimitDay \in Nat
    BY ImageLimitsAssumption
  <1>3. d * ImageLimitDay \in Nat /\ (d + 1) * ImageLimitDay \in Nat
    BY <1>2, Times
  <1>4. \A t \in OfDay(d) : imageTick < t
    BY <1>1, <1>3, TicksAreFinite DEF OfDay
  <1>5. OfDay(d) \in SUBSET ImageTick
    BY DEF OfDay
  <1>6. QED
    BY <1>4, <1>5, NoneAhead

LEMMA WindowAhead ==
  ASSUME LimitTypes, NEW t \in ImageTick, imageTick < t
  PROVE  SumOver(drawn, OfWindow(t)) = 0
  <1>1. imageTick \in Nat /\ t \in Nat /\ ImageWindow \in Nat
    BY Today, TicksAreFinite, ImageLimitsAssumption
  <1>2. \A s \in OfWindow(t) : imageTick < s
    BY <1>1, TicksAreFinite DEF OfWindow
  <1>3. OfWindow(t) \in SUBSET ImageTick
    BY DEF OfWindow
  <1>4. QED
    BY <1>2, <1>3, NoneAhead

\* Where nothing was drawn yet, there is room for everybody who was let in.
LEMMA RoomForAll ==
  ASSUME NEW w \in Nat, NEW max \in Nat, NEW u \in Nat, NEW c \in Nat, NEW counter \in Nat,
         w =< Cardinality(Asker), w > 0 => max > 0
  PROVE  0 =< counter + c + u /\ 0 + w =< max + Cardinality(Asker) - 1 + u
  <1>1. Cardinality(Asker) \in Nat /\ Cardinality(Asker) > 0
    BY AtType
  <1>2. QED
    BY <1>1

LEMMA TimePasses ==
  ASSUME LimitsInv, PassTime
  PROVE  LimitsInv'
  <1> DEFINE d == DrawingDay(imageTick)
             e == DrawingDay(imageTick + 1)
             n == Cardinality(Asker)
  <1>1. /\ LimitTypes /\ DayInv /\ WindowInv /\ uncounted \in Nat /\ imageTick \in ImageTick
        /\ imageTick \in Nat /\ MaxPerDay \in Nat /\ MaxPerWindow \in Nat /\ n \in Nat /\ n > 0
    BY AtType, TicksAreFinite, ImageLimitsAssumption DEF LimitsInv, LimitTypes
  <1>2. /\ imageTick' = imageTick + 1 /\ imageTick < MaxImageTicks
        /\ UNCHANGED <<daily, drawnLately, asker, draws, drawn, uncounted>>
    BY DEF PassTime
  <1>3. LimitTypes'
    <2>1. imageTick + 1 \in ImageTick
      BY <1>1, <1>2, ImageLimitsAssumption DEF ImageTick
    <2>2. \A t \in ImageTick : imageTick + 1 < t => drawn[t] = 0 /\ drawnLately[t] = 0
      BY <1>1, TicksAreFinite DEF LimitTypes
    <2>3. QED
      BY <1>1, <1>2, <2>1, <2>2 DEF LimitTypes
  <1>4. imageTick + 1 \in ImageTick /\ imageTick + 1 \in Nat /\ d \in Nat /\ e \in Nat /\ d =< e /\ e \in ImageTick
    <2>1. imageTick + 1 \in ImageTick /\ imageTick + 1 \in Nat
      BY <1>1, <1>2, <1>3 DEF LimitTypes
    <2>2. d =< e
      BY <1>1, DaysFollow
    <2>3. d \in Nat /\ e \in 0..(imageTick + 1)
      BY <1>1, <2>1, DayBounds
    <2>4. e \in ImageTick
      BY <2>1, <2>3, ImageLimitsAssumption DEF ImageTick
    <2>5. QED
      BY <2>1, <2>2, <2>3, <2>4
  <1>5. DayInv'
    <2>1. CASE d = e
      BY <1>1, <1>2, <2>1 DEF DayInv, Counted, Reserved
    <2>2. CASE d # e
      <3>1. SumOver(drawn, OfDay(e)) = 0
        BY <1>1, <1>4, <2>2, DayAhead
      <3>2. At(asker, {"window", "draw"}) > 0 => MaxPerDay > 0
        BY <1>1 DEF DayInv
      <3>3. daily[e] \in Nat
        BY <1>1, <1>4 DEF LimitTypes
      <3>4. 0 =< daily[e] + At(asker, {"count"}) + uncounted
            /\ 0 + At(asker, {"window", "draw"}) =< MaxPerDay + n - 1 + uncounted
        BY <1>1, <3>2, <3>3, AtType, RoomForAll
      <3>5. QED
        BY <1>2, <3>1, <3>2, <3>4 DEF DayInv, Counted, Reserved
    <2>3. QED
      BY <2>1, <2>2
  <1>6. WindowInv'
    <2>1. At(asker, {"draw"}) > 0 => MaxPerWindow > 0
      BY <1>1 DEF WindowInv
    <2>2. ASSUME NEW t \in Recent'
          PROVE  /\ Counted(OfWindow(t), SumOver(drawnLately, OfWindow(t)))
                 /\ Reserved(OfWindow(t), {"draw"}, MaxPerWindow)
      <3>1. t \in ImageTick /\ t \in Nat /\ ImageWindow \in Nat
            /\ imageTick + 1 - ImageWindow < t /\ t =< imageTick + 1
        <4>1. t \in ImageTick /\ imageTick' - ImageWindow < t /\ t =< imageTick'
          BY DEF Recent
        <4>2. QED
          BY <1>1, <1>2, <4>1, TicksAreFinite, ImageLimitsAssumption
      <3>2. CASE t \in Recent
        BY <1>1, <3>2 DEF WindowInv
      <3>3. CASE t \notin Recent
        <4>1. imageTick < t
          BY <1>1, <3>1, <3>3 DEF Recent
        <4>2. SumOver(drawn, OfWindow(t)) = 0
          BY <1>1, <3>1, <4>1, WindowAhead
        <4>3. SumOver(drawnLately, OfWindow(t)) \in Nat
          BY <1>1, SumsAreInt DEF OfWindow
        <4>4. 0 =< SumOver(drawnLately, OfWindow(t)) + At(asker, {"count"}) + uncounted
              /\ 0 + At(asker, {"draw"}) =< MaxPerWindow + n - 1 + uncounted
          BY <1>1, <2>1, <4>3, AtType, RoomForAll
        <4>5. QED
          BY <4>2, <4>4 DEF Counted, Reserved
      <3>4. QED
        BY <3>2, <3>3
    <2>3. QED
      BY <1>2, <2>1, <2>2 DEF WindowInv, Counted, Reserved
  <1>7. DaysRespected'
    <2> SUFFICES ASSUME NEW b \in 0..e
                 PROVE  SumOver(drawn, OfDay(b)) =< MaxPerDay + n - 1 + uncounted
      BY <1>2 DEF DaysRespected
    <2>1. CASE b \in 0..d
      BY <2>1 DEF LimitsInv, DaysRespected
    <2>2. CASE b \notin 0..d
      <3>1. b \in Nat /\ d < b
        <4> HIDE DEF d, e
        <4>1. QED
          BY <1>4, <2>2
      <3>2. SumOver(drawn, OfDay(b)) = 0
        BY <1>1, <3>1, DayAhead
      <3> HIDE DEF n
      <3>3. QED
        BY <1>1, <3>2
    <2>3. QED
      BY <2>1, <2>2
  <1>8. WindowsRespected'
    BY <1>2 DEF LimitsInv, WindowsRespected
  <1>9. QED
    BY <1>3, <1>5, <1>6, <1>7, <1>8 DEF LimitsInv

LEMMA NothingOfLimits ==
  ASSUME LimitsInv, UNCHANGED imageLimitVars
  PROVE  LimitsInv'
  <1>1. UNCHANGED <<imageTick, daily, drawnLately, asker, drawn, uncounted>>
    BY DEF imageLimitVars
  <1>2. LimitTypes'
    BY <1>1 DEF LimitsInv, LimitTypes
  <1>3. DayInv'
    BY <1>1 DEF LimitsInv, DayInv, Counted, Reserved
  <1>4. WindowInv'
    BY <1>1 DEF LimitsInv, WindowInv, Counted, Reserved, Recent
  <1>5. DaysRespected'
    BY <1>1 DEF LimitsInv, DaysRespected
  <1>6. WindowsRespected'
    BY <1>1 DEF LimitsInv, WindowsRespected
  <1>7. QED
    BY <1>2, <1>3, <1>4, <1>5, <1>6 DEF LimitsInv

LEMMA LimitsKept == LimitsInv /\ [ImageLimitsNext]_imageLimitVars => LimitsInv'
  <1> SUFFICES ASSUME LimitsInv, [ImageLimitsNext]_imageLimitVars PROVE LimitsInv'
    OBVIOUS
  <1>1. ASSUME NEW r \in Asker, AskToDraw(r) \/ FailToDraw(r) PROVE LimitsInv'
    BY <1>1, OthersLeave
  <1>2. ASSUME NEW r \in Asker, CheckDay(r) PROVE LimitsInv'
    BY <1>2, DayIsChecked
  <1>3. ASSUME NEW r \in Asker, CheckWindow(r) PROVE LimitsInv'
    BY <1>3, WindowIsChecked
  <1>4. ASSUME NEW r \in Asker, Draw(r) PROVE LimitsInv'
    BY <1>4, ImageIsDrawn
  <1>5. ASSUME NEW r \in Asker, CountImage(r) \/ FailToCount(r) PROVE LimitsInv'
    BY <1>5, ImageIsCounted
  <1>6. CASE PassTime
    BY <1>6, TimePasses
  <1>7. CASE UNCHANGED imageLimitVars
    BY <1>7, NothingOfLimits
  <1>8. QED
    BY <1>1, <1>2, <1>3, <1>4, <1>5, <1>6, <1>7 DEF ImageLimitsNext

LEMMA LimitsHold == LimitsInv => ImageLimitsRespected
  <1> SUFFICES ASSUME LimitsInv PROVE ImageLimitsRespected
    OBVIOUS
  <1> DEFINE n == Cardinality(Asker)
  <1>1. n \in Nat /\ MaxPerDay \in Nat /\ MaxPerWindow \in Nat /\ uncounted \in Nat
    BY AtType, ImageLimitsAssumption DEF LimitsInv, LimitTypes
  <1>2. MaxPerDay + n - 1 + uncounted = MaxPerDay + ImageSlack
        /\ MaxPerWindow + n - 1 + uncounted = MaxPerWindow + ImageSlack
    <2>1. ImageSlack = n - 1 + uncounted
      BY DEF ImageSlack
    <2> HIDE DEF n
    <2>2. QED
      BY <1>1, <2>1
  <1>3. ImagesPerDayRespected
    <2>1. \A d \in 0..DrawingDay(imageTick) :
            Total(drawn, d * ImageLimitDay, (d + 1) * ImageLimitDay - 1) = SumOver(drawn, OfDay(d))
      BY TotalIsSum DEF OfDay
    <2>2. \A d \in 0..DrawingDay(imageTick) : SumOver(drawn, OfDay(d)) =< MaxPerDay + ImageSlack
      BY <1>2 DEF LimitsInv, DaysRespected
    <2>3. QED
      BY <2>1, <2>2 DEF ImagesPerDayRespected
  <1>4. ImagesPerWindowRespected
    <2>1. \A t \in ImageTick : Total(drawn, t, t + ImageWindow - 1) = SumOver(drawn, OfWindow(t))
      BY TotalIsSum DEF OfWindow
    <2>2. \A t \in ImageTick : SumOver(drawn, OfWindow(t)) =< MaxPerWindow + ImageSlack
      BY <1>2 DEF LimitsInv, WindowsRespected
    <2>3. QED
      BY <2>1, <2>2 DEF ImagesPerWindowRespected
  <1>5. QED
    BY <1>3, <1>4 DEF ImageLimitsRespected

(* The image limits are read before a picture is drawn and counted after it, so
   a day, or a stretch as long as the window, has at most as many pictures as
   the limit, the other requests in progress and the pictures whose counting
   failed (getImageGenRateLimitStatus, recordImageGenRequest). *)
THEOREM ImageOveruseIsBounded == ChatSpec => []ImageLimitsRespected
  <1>1. ChatInit => LimitsInv
    BY InitLimits DEF ChatInit
  <1>2. LimitsInv /\ [ChatNext]_chatVars => LimitsInv'
    BY LimitsStep, LimitsKept
  <1>3. QED
    BY <1>1, <1>2, LimitsHold, PTL DEF ChatSpec

(* The conversation *)

LEMMA ConversationStep == [ChatNext]_chatVars => [ConversationNext]_conversationVars
  BY DEF ChatNext, chatVars

Stream ==
  [at : {"idle", "read", "saved", "streaming", "drawing", "title", "check"},
   summary : SUBSET Row, cutoff : 0..MaxLines, title : Source, own : 0..MaxLines,
   recent : SUBSET Row, pictured : 0..MaxLines, alone : BOOLEAN, answer : 0..MaxLines]
Job == [at : {"none", "write", "title"}, from : SUBSET Row, upTo : 0..MaxLines]

ConversationTypes ==
  /\ message \in Seq({"USER", "ASSISTANT"}) /\ Len(message) =< MaxLines
  /\ title \in Source /\ exchange \in [Exchange -> Stream] /\ job \in [Row -> Job]
  /\ crossed \subseteq Row /\ untitled \in BOOLEAN

\* Of so many messages a summary up to the cutoff has all but those that crossed it.
Covers(told, upTo, len, astray) ==
  told \subseteq 1..upTo /\ upTo \in 0..len /\ 1..upTo \subseteq told \cup astray

\* What a request has read, saved and noted, among these lines.
Fits(x, lines, astray, named, lost) ==
  /\ Covers(x.summary, x.cutoff, Len(lines), astray)
  /\ x.recent \subseteq 1..Len(lines) /\ x.own \in 0..Len(lines) /\ x.answer \in 0..Len(lines)
  /\ x.title # "none" => named # "none"
  /\ x.at \in {"saved", "streaming", "drawing"} => x.own # 0
  /\ x.at \in {"saved", "streaming"} => lines[x.own] = "USER" /\ x.cutoff < x.own
  /\ x.at = "saved" /\ x.alone => x.own = Len(lines)
  /\ x.at = "streaming" =>
       /\ x.own \in x.recent /\ x.recent \cap x.summary = {}
       /\ 1..Len(lines) \subseteq x.summary \cup x.recent \cup astray
       /\ x.alone => x.pictured = x.own
  /\ x.at = "drawing" /\ x.own = 1 => lost
  /\ x.at \in {"title", "check"} =>
       Covers(x.summary \cup x.recent \cup {x.answer}, x.answer, Len(lines), astray)

\* Who was first to answer sets a title, is about to, or has lost the chance.
TitleIsDue ==
  Len(message) >= 1 =>
    /\ message[1] = "USER"
    /\ Len(message) >= 2 /\ message[2] = "ASSISTANT" =>
         title # "none" \/ untitled \/ \E s \in Exchange : exchange[s].at = "title"

SummariesCover ==
  /\ Covers(summary, cutoff, Len(message), crossed)
  /\ \A m \in Row : Covers(job[m].from, job[m].upTo, Len(message), crossed)
ExchangesFit == \A s \in Exchange : Fits(exchange[s], message, crossed, title, untitled)

ConversationInv == ConversationTypes /\ SummariesCover /\ ExchangesFit /\ TitleIsDue

LEMMA InitConversation == ConversationInit => ConversationInv
  <1> SUFFICES ASSUME ConversationInit PROVE ConversationInv
    OBVIOUS
  <1>1. MaxLines \in Nat /\ 0 \in 0..MaxLines /\ 1..0 = {}
    BY ConversationAssumption
  <1>2. NoStream \in Stream /\ NoJob \in Job
    BY <1>1 DEF NoStream, NoJob, Stream, Job, Source
  <1>3. message = <<>> /\ Len(message) = 0 /\ message \in Seq({"USER", "ASSISTANT"})
    BY DEF ConversationInit
  <1>4. ConversationTypes
    <2>1. exchange \in [Exchange -> Stream] /\ job \in [Row -> Job]
      BY <1>2 DEF ConversationInit
    <2>2. crossed \subseteq Row /\ untitled \in BOOLEAN /\ title \in Source
      BY DEF ConversationInit, Source
    <2>3. QED
      BY <1>1, <1>3, <2>1, <2>2, ConversationAssumption DEF ConversationTypes
  <1>5. SummariesCover
    BY <1>1, <1>3 DEF ConversationInit, SummariesCover, Covers, NoJob
  <1>6. ExchangesFit
    BY <1>1, <1>3 DEF ConversationInit, ExchangesFit, Fits, Covers, NoStream
  <1>7. TitleIsDue
    BY <1>3 DEF TitleIsDue
  <1>8. QED
    BY <1>4, <1>5, <1>6, <1>7 DEF ConversationInv

LEMMA NoStreamFits ==
  ASSUME NEW lines \in Seq({"USER", "ASSISTANT"}), NEW astray, NEW named, NEW lost
  PROVE  Fits(NoStream, lines, astray, named, lost)
  BY DEF Fits, Covers, NoStream

\* More messages leave what is covered covered.
LEMMA CoversMore ==
  ASSUME NEW told, NEW upTo, NEW len \in Nat, NEW more \in Nat, len =< more,
         NEW astray, NEW further, astray \subseteq further, Covers(told, upTo, len, astray)
  PROVE  Covers(told, upTo, more, further)
  BY DEF Covers

\* What changes elsewhere, if no row is added.
LEMMA FitsStill ==
  ASSUME NEW x, NEW lines, NEW astray, NEW named, NEW lost, NEW newName, NEW lostNow,
         Fits(x, lines, astray, named, lost), named # "none" => newName # "none", lost => lostNow
  PROVE  Fits(x, lines, astray, newName, lostNow)
  BY DEF Fits

\* What a new row of another request changes.
LEMMA FitsAfterRow ==
  ASSUME NEW x \in Stream, NEW lines \in Seq({"USER", "ASSISTANT"}), NEW role \in {"USER", "ASSISTANT"},
         NEW astray, NEW further, astray \subseteq further,
         NEW named, NEW lost, NEW lostNow, lost => lostNow,
         x.at = "streaming" => Len(lines) + 1 \in further,
         x.at # "saved" \/ ~x.alone, Fits(x, lines, astray, named, lost)
  PROVE  Fits(x, Append(lines, role), further, named, lostNow)
  <1> DEFINE more == Append(lines, role)
             n == Len(lines)
  <1>1. /\ n \in Nat /\ Len(more) = n + 1 /\ \A k \in 1..n : more[k] = lines[k]
    OBVIOUS
  <1> HIDE DEF more
  <1>2. Covers(x.summary, x.cutoff, Len(more), further)
    BY <1>1, CoversMore DEF Fits
  <1>3. x.recent \subseteq 1..Len(more) /\ x.own \in 0..Len(more) /\ x.answer \in 0..Len(more)
    BY <1>1 DEF Fits
  <1>4. x.at \in {"saved", "streaming"} => more[x.own] = "USER" /\ x.cutoff < x.own
    <2> SUFFICES ASSUME x.at \in {"saved", "streaming"} PROVE more[x.own] = "USER" /\ x.cutoff < x.own
      OBVIOUS
    <2>1. x.own \in 1..n /\ lines[x.own] = "USER" /\ x.cutoff < x.own
      BY <1>1 DEF Fits
    <2>2. QED
      BY <1>1, <2>1
  <1>5. x.at = "streaming" => 1..Len(more) \subseteq x.summary \cup x.recent \cup further
    BY <1>1 DEF Fits
  <1>6. x.at \in {"title", "check"} =>
          Covers(x.summary \cup x.recent \cup {x.answer}, x.answer, Len(more), further)
    BY <1>1, CoversMore DEF Fits
  <1>7. QED
    BY <1>2, <1>3, <1>4, <1>5, <1>6 DEF Fits, more

LEMMA FitsNotAlone ==
  ASSUME NEW x \in Stream, NEW lines, NEW astray, NEW named, NEW lost,
         Fits(x, lines, astray, named, lost)
  PROVE  LET y == [x EXCEPT !.alone = FALSE]
         IN  y \in Stream /\ Fits(y, lines, astray, named, lost) /\ y.at = x.at /\ y.alone = FALSE
  <1> DEFINE y == [x EXCEPT !.alone = FALSE]
  <1>1. /\ y \in Stream /\ y.at = x.at /\ y.summary = x.summary /\ y.cutoff = x.cutoff /\ y.title = x.title
        /\ y.own = x.own /\ y.recent = x.recent /\ y.answer = x.answer /\ y.alone = FALSE
    BY DEF Stream
  <1> HIDE DEF y
  <1>2. Fits(y, lines, astray, named, lost)
    BY <1>1 DEF Fits
  <1>3. QED
    BY <1>1, <1>2 DEF y

\* The other requests, once s has made a row.
LEMMA OthersFit ==
  ASSUME ConversationInv, NEW s \in Exchange, NEW role \in {"USER", "ASSISTANT"}, Create(s, role),
         NEW x, exchange' = Others(s, x), title' = title, untitled => untitled',
         NEW t \in Exchange, t # s
  PROVE  /\ exchange'[t] \in Stream /\ exchange'[t].at = exchange[t].at
         /\ Fits(exchange'[t], message', crossed', title', untitled')
  <1> DEFINE y == [exchange[t] EXCEPT !.alone = FALSE]
  <1>1. exchange[t] \in Stream /\ message \in Seq({"USER", "ASSISTANT"})
        /\ Fits(exchange[t], message, crossed, title, untitled)
    BY DEF ConversationInv, ConversationTypes, ExchangesFit
  <1>2. /\ message' = Append(message, role) /\ crossed \subseteq crossed'
        /\ exchange[t].at = "streaming" => Len(message) + 1 \in crossed'
    BY DEF Create
  <1>3. CASE exchange[t].at \in {"read", "saved"}
    <2>1. exchange'[t] = y
      BY <1>3 DEF Others
    <2>2. y \in Stream /\ Fits(y, message, crossed, title, untitled) /\ y.at = exchange[t].at /\ y.alone = FALSE
      BY <1>1, FitsNotAlone
    <2> HIDE DEF y
    <2>3. Fits(y, Append(message, role), crossed', title, untitled')
      BY <1>1, <1>2, <1>3, <2>2, FitsAfterRow
    <2>4. QED
      BY <1>2, <2>1, <2>2, <2>3
  <1>4. CASE exchange[t].at \notin {"read", "saved"}
    <2>1. exchange'[t] = exchange[t]
      BY <1>4 DEF Others
    <2>2. Fits(exchange[t], Append(message, role), crossed', title, untitled')
      BY <1>1, <1>2, <1>4, FitsAfterRow
    <2>3. QED
      BY <1>1, <1>2, <2>1, <2>2
  <1>5. QED
    BY <1>3, <1>4

\* A request makes a row.
LEMMA RowIsAdded ==
  ASSUME ConversationInv, NEW s \in Exchange, NEW role \in {"USER", "ASSISTANT"}, Create(s, role),
         NEW x \in Stream, exchange' = Others(s, x), UNCHANGED <<summary, cutoff, title, job>>,
         untitled => untitled', untitled' \in BOOLEAN, exchange[s].at # "title",
         Fits(x, message', crossed', title', untitled'),
         message = <<>> => role = "USER",
         Len(message) = 1 /\ role = "ASSISTANT" => title # "none" \/ untitled' \/ x.at = "title"
  PROVE  ConversationInv'
  <1> DEFINE n == Len(message)
  <1>1. /\ message \in Seq({"USER", "ASSISTANT"}) /\ n \in Nat /\ MaxLines \in Nat
        /\ exchange \in [Exchange -> Stream] /\ crossed \subseteq Row
    BY ConversationAssumption DEF ConversationInv, ConversationTypes
  <1>2. /\ message' = Append(message, role) /\ n + 1 \in Row /\ crossed \subseteq crossed'
        /\ crossed' \subseteq crossed \cup {n + 1}
    BY DEF Create
  <1>3. /\ message' \in Seq({"USER", "ASSISTANT"}) /\ Len(message') = n + 1 /\ message'[n + 1] = role
        /\ \A k \in 1..n : message'[k] = message[k]
    BY <1>1, <1>2
  <1>4. exchange'[s] = x
    BY DEF Others
  <1>5. \A t \in Exchange : t # s => /\ exchange'[t] \in Stream /\ exchange'[t].at = exchange[t].at
                                     /\ Fits(exchange'[t], message', crossed', title', untitled')
    BY OthersFit
  <1>6. ConversationTypes'
    <2>1. exchange' \in [Exchange -> Stream]
      <3>1. exchange' = [t \in Exchange |-> exchange'[t]]
        BY DEF Others
      <3>2. \A t \in Exchange : exchange'[t] \in Stream
        BY <1>4, <1>5
      <3>3. QED
        BY <3>1, <3>2
    <2>2. Len(message') =< MaxLines
      BY <1>1, <1>2, <1>3 DEF Row
    <2>3. crossed' \subseteq Row
      BY <1>1, <1>2
    <2>4. QED
      BY <1>3, <2>1, <2>2, <2>3 DEF ConversationInv, ConversationTypes
  <1>7. SummariesCover'
    <2>1. Len(message') \in Nat /\ n =< Len(message')
      BY <1>1, <1>3
    <2>2. Covers(summary, cutoff, Len(message'), crossed')
      BY <1>1, <1>2, <2>1, CoversMore DEF ConversationInv, SummariesCover
    <2>3. \A m \in Row : Covers(job[m].from, job[m].upTo, Len(message'), crossed')
      BY <1>1, <1>2, <2>1, CoversMore DEF ConversationInv, SummariesCover
    <2>4. QED
      BY <2>2, <2>3 DEF SummariesCover
  <1>8. ExchangesFit'
    BY <1>4, <1>5 DEF ExchangesFit
  <1>9. TitleIsDue'
    <2>1. CASE n = 0
      BY <1>1, <1>3, <2>1 DEF TitleIsDue
    <2>2. CASE n = 1
      <3>1. message'[1] = "USER" /\ message'[2] = role /\ Len(message') = 2
        BY <1>3, <2>2 DEF ConversationInv, TitleIsDue
      <3>2. role = "ASSISTANT" => title' # "none" \/ untitled' \/ \E t \in Exchange : exchange'[t].at = "title"
        BY <1>4, <2>2
      <3>3. QED
        BY <3>1, <3>2 DEF TitleIsDue
    <2>3. CASE n >= 2
      <3>1. message'[1] = message[1] /\ message'[2] = message[2] /\ message[1] = "USER"
        BY <1>1, <1>3, <2>3 DEF ConversationInv, TitleIsDue
      <3>2. message[2] = "ASSISTANT" => title # "none" \/ untitled \/ \E t \in Exchange : exchange[t].at = "title"
        BY <2>3 DEF ConversationInv, TitleIsDue
      <3>3. \A t \in Exchange : exchange[t].at = "title" => exchange'[t].at = "title"
        BY <1>5
      <3>4. message[2] = "ASSISTANT" => title' # "none" \/ untitled' \/ \E t \in Exchange : exchange'[t].at = "title"
        BY <3>2, <3>3
      <3>5. QED
        BY <3>1, <3>4 DEF TitleIsDue
    <2>4. n = 0 \/ n = 1 \/ n >= 2
      <3> HIDE DEF n
      <3>1. QED
        BY <1>1
    <2>5. QED
      BY <2>1, <2>2, <2>3, <2>4
  <1>10. QED
    BY <1>6, <1>7, <1>8, <1>9 DEF ConversationInv

\* A request goes on without a row.
LEMMA ExchangeGoesOn ==
  ASSUME ConversationInv, NEW s \in Exchange, NEW x \in Stream, exchange' = [exchange EXCEPT ![s] = x],
         UNCHANGED <<message, crossed, summary, cutoff>>,
         title # "none" => title' # "none", title' \in Source, untitled => untitled', untitled' \in BOOLEAN,
         Fits(x, message, crossed, title', untitled'),
         job' \in [Row -> Job], \A m \in Row : Covers(job'[m].from, job'[m].upTo, Len(message), crossed),
         exchange[s].at = "title" => title' # "none" \/ untitled' \/ x.at = "title"
  PROVE  ConversationInv'
  <1>1. exchange \in [Exchange -> Stream]
    BY DEF ConversationInv, ConversationTypes
  <1>2. exchange'[s] = x /\ \A t \in Exchange : t # s => exchange'[t] = exchange[t]
    BY <1>1
  <1>3. ConversationTypes'
    <2>1. exchange' \in [Exchange -> Stream]
      BY <1>1
    <2>2. QED
      BY <2>1 DEF ConversationInv, ConversationTypes
  <1>4. SummariesCover'
    BY DEF ConversationInv, SummariesCover
  <1>5. ExchangesFit'
    <2>1. \A t \in Exchange : t # s => Fits(exchange[t], message, crossed, title', untitled')
      BY FitsStill DEF ConversationInv, ExchangesFit
    <2>2. QED
      BY <1>2, <2>1 DEF ExchangesFit
  <1>6. TitleIsDue'
    BY <1>2 DEF ConversationInv, TitleIsDue
  <1>7. QED
    BY <1>3, <1>4, <1>5, <1>6 DEF ConversationInv

\* A summary or a title is written.
LEMMA JobGoesOn ==
  ASSUME ConversationInv, UNCHANGED <<message, exchange, crossed, untitled>>,
         title' = title \/ title' \in {"summary", "user"},
         job' \in [Row -> Job], \A m \in Row : Covers(job'[m].from, job'[m].upTo, Len(message), crossed),
         Covers(summary', cutoff', Len(message), crossed)
  PROVE  ConversationInv'
  <1>1. title' \in Source /\ (title # "none" => title' # "none")
    BY DEF ConversationInv, ConversationTypes, Source
  <1>2. ConversationTypes'
    BY <1>1 DEF ConversationInv, ConversationTypes
  <1>3. SummariesCover'
    BY DEF SummariesCover
  <1>4. ExchangesFit'
    BY <1>1, FitsStill DEF ConversationInv, ExchangesFit
  <1>5. TitleIsDue'
    BY <1>1 DEF ConversationInv, TitleIsDue
  <1>6. QED
    BY <1>2, <1>3, <1>4, <1>5 DEF ConversationInv

LEMMA ConversationFacts ==
  ASSUME ConversationInv
  PROVE  /\ message \in Seq({"USER", "ASSISTANT"}) /\ Len(message) \in 0..MaxLines /\ Len(message) \in Nat
         /\ MaxLines \in Nat /\ exchange \in [Exchange -> Stream] /\ job \in [Row -> Job]
         /\ title \in Source /\ untitled \in BOOLEAN /\ crossed \subseteq Row
         /\ Covers(summary, cutoff, Len(message), crossed)
         /\ summary \in SUBSET Row /\ cutoff \in 0..MaxLines
         /\ \A m \in Row : Covers(job[m].from, job[m].upTo, Len(message), crossed)
         /\ \A s \in Exchange : Fits(exchange[s], message, crossed, title, untitled)
  <1>1. /\ message \in Seq({"USER", "ASSISTANT"}) /\ Len(message) \in Nat /\ MaxLines \in Nat /\ Len(message) =< MaxLines
    BY ConversationAssumption DEF ConversationInv, ConversationTypes
  <1>2. Covers(summary, cutoff, Len(message), crossed)
    BY DEF ConversationInv, SummariesCover
  <1>3. summary \in SUBSET Row /\ cutoff \in 0..MaxLines
    BY <1>1, <1>2 DEF Covers, Row
  <1>4. QED
    BY <1>1, <1>2, <1>3 DEF ConversationInv, ConversationTypes, SummariesCover, ExchangesFit

LEMMA Nothing ==
  ASSUME ConversationInv PROVE NoStream \in Stream /\ Fits(NoStream, message, crossed, title, untitled)
  <1>1. MaxLines \in Nat /\ message \in Seq({"USER", "ASSISTANT"})
    BY ConversationFacts
  <1>2. NoStream \in Stream
    BY <1>1 DEF NoStream, Stream, Source
  <1>3. QED
    BY <1>1, <1>2, NoStreamFits

LEMMA ExchangeBegins ==
  ASSUME ConversationInv, NEW s \in Exchange, Begin(s)
  PROVE  ConversationInv'
  <1> DEFINE x == [NoStream EXCEPT !.at = "read", !.summary = summary, !.cutoff = cutoff, !.title = title,
                                   !.alone = \A t \in Exchange : exchange[t].at = "idle"]
  <1>1. /\ exchange[s].at = "idle" /\ exchange' = [exchange EXCEPT ![s] = x]
        /\ UNCHANGED <<message, summary, cutoff, title, job, renames, crossed, untitled>>
    BY DEF Begin, history
  <1>2. x \in Stream
    BY ConversationFacts, Nothing DEF Stream, NoStream
  <1>3. /\ x.at = "read" /\ x.summary = summary /\ x.cutoff = cutoff /\ x.title = title
        /\ x.recent = {} /\ x.own = 0 /\ x.answer = 0
    BY DEF NoStream
  <1> HIDE DEF x
  <1>4. Fits(x, message, crossed, title', untitled')
    BY <1>1, <1>3, ConversationFacts DEF Fits
  <1>5. QED
    BY <1>1, <1>2, <1>4, ConversationFacts, ExchangeGoesOn

LEMMA ExchangeEnds ==
  ASSUME ConversationInv, NEW s \in Exchange, RefuseStream(s) \/ FailStream(s)
  PROVE  ConversationInv'
  <1>1. /\ exchange' = [exchange EXCEPT ![s] = NoStream] /\ exchange[s].at # "title"
        /\ UNCHANGED <<message, summary, cutoff, title, job, crossed>>
    BY DEF RefuseStream, FailStream, history
  <1>2. (untitled => untitled') /\ untitled' \in BOOLEAN
    <2>1. CASE RefuseStream(s)
      BY <2>1, ConversationFacts DEF RefuseStream, history
    <2>2. CASE FailStream(s)
      <3>1. untitled' = (untitled \/ exchange[s].own = 1)
        BY <2>2 DEF FailStream
      <3>2. QED
        BY <3>1
    <2>3. QED
      BY <2>1, <2>2
  <1>3. NoStream \in Stream /\ Fits(NoStream, message, crossed, title', untitled')
    BY Nothing, NoStreamFits, ConversationFacts
  <1>4. QED
    BY <1>1, <1>2, <1>3, ConversationFacts, ExchangeGoesOn

LEMMA RequestIsSaved ==
  ASSUME ConversationInv, NEW s \in Exchange, NEW at \in {"saved", "drawing"}, exchange[s].at = "read",
         Create(s, "USER"), UNCHANGED <<summary, cutoff, title, job>>,
         untitled => untitled', untitled' \in BOOLEAN, at = "drawing" /\ message = <<>> => untitled',
         exchange' = Others(s, [exchange[s] EXCEPT !.at = at, !.own = Len(message) + 1])
  PROVE  ConversationInv'
  <1> DEFINE y == exchange[s]
             n == Len(message)
             x == [y EXCEPT !.at = at, !.own = n + 1]
  <1>1. /\ y \in Stream /\ n \in Nat /\ message \in Seq({"USER", "ASSISTANT"}) /\ MaxLines \in Nat
        /\ Fits(y, message, crossed, title, untitled)
    BY ConversationFacts
  <1>2. message' = Append(message, "USER") /\ n + 1 \in Row /\ crossed \subseteq crossed'
    BY DEF Create
  <1>3. Len(message') = n + 1 /\ message'[n + 1] = "USER"
    BY <1>1, <1>2
  <1>4. /\ x \in Stream /\ x.at = at /\ x.own = n + 1 /\ x.summary = y.summary /\ x.cutoff = y.cutoff
        /\ x.title = y.title /\ x.recent = y.recent /\ x.answer = y.answer
    <2>1. n + 1 \in 0..MaxLines
      BY <1>1, <1>2 DEF Row
    <2> HIDE DEF y, n
    <2>2. QED
      BY <1>1, <2>1 DEF Stream
  <1>5. Fits(y, message', crossed', title, untitled')
    BY <1>1, <1>2, FitsAfterRow
  <1>6. y.cutoff \in 0..n
    BY <1>1 DEF Fits, Covers
  <1>7. n = 0 => message = <<>>
    BY <1>1
  <1> HIDE DEF x, y, n
  <1>8. Fits(x, message', crossed', title', untitled')
    BY <1>1, <1>3, <1>4, <1>5, <1>6, <1>7 DEF Fits
  <1>9. QED
    BY <1>4, <1>8, RowIsAdded DEF x, y, n

LEMMA UserIsSaved ==
  ASSUME ConversationInv, NEW s \in Exchange, SaveUser(s) \/ SaveImageRequest(s)
  PROVE  ConversationInv'
  <1>1. CASE SaveUser(s)
    BY <1>1, ConversationFacts, RequestIsSaved DEF SaveUser
  <1>2. CASE SaveImageRequest(s)
    <2>1. untitled' = (untitled \/ message = <<>>)
      BY <1>2 DEF SaveImageRequest
    <2>2. (untitled => untitled') /\ untitled' \in BOOLEAN /\ (message = <<>> => untitled')
      BY <2>1
    <2>3. QED
      BY <1>2, <2>2, RequestIsSaved DEF SaveImageRequest
  <1>3. QED
    BY <1>1, <1>2

\* The pictures go with the last message, if it is the user's.
LEMMA LastIsPictured ==
  ASSUME NEW len \in Nat, NEW recent \in SUBSET (1..len)
  PROVE  /\ Pictured(recent) \in recent \cup {0}
         /\ len \in recent /\ message[len] = "USER" => Pictured(recent) = len
  <1> DEFINE S == {m \in recent : message[m] = "USER" /\ \A n \in recent : n =< m}
  <1>1. S \subseteq recent /\ \A m \in recent : m \in Nat /\ m >= 1 /\ m =< len
    OBVIOUS
  <1>2. \A m \in S, n \in S : m = n
    BY <1>1
  <1>3. Pictured(recent) = Max(S \cup {0})
    BY DEF Pictured
  <1> HIDE DEF S
  <1>4. CASE S = {}
    <2>1. \A y \in S \cup {0} : 0 >= y
      BY <1>4
    <2>2. Max(S \cup {0}) \in S \cup {0}
      BY <2>1 DEF Max
    <2>3. Pictured(recent) = 0
      BY <1>3, <1>4, <2>2
    <2>4. ~(len \in recent /\ message[len] = "USER")
      BY <1>1, <1>4 DEF S
    <2>5. QED
      BY <2>3, <2>4
  <1>5. ASSUME NEW m \in S
        PROVE  /\ Pictured(recent) \in recent \cup {0}
               /\ len \in recent /\ message[len] = "USER" => Pictured(recent) = len
    <2>1. m \in Nat /\ \A y \in S \cup {0} : m >= y
      BY <1>1, <1>2, <1>5
    <2>2. /\ Max(S \cup {0}) \in S \cup {0}
          /\ \A y \in S \cup {0} : Max(S \cup {0}) >= y
      BY <2>1 DEF Max
    <2>3. Max(S \cup {0}) \in Nat /\ Max(S \cup {0}) >= m /\ m >= Max(S \cup {0})
      <3> DEFINE k == Max(S \cup {0})
      <3> HIDE DEF k
      <3>1. k \in S \cup {0} /\ k >= m
        BY <1>5, <2>2 DEF k
      <3>2. k \in Nat /\ m >= k
        BY <1>1, <2>1, <3>1
      <3>3. QED
        BY <3>1, <3>2 DEF k
    <2>4. Pictured(recent) = m
      BY <1>3, <2>1, <2>3
    <2>5. len \in recent /\ message[len] = "USER" => len \in S
      BY <1>1 DEF S
    <2>6. QED
      BY <1>1, <1>2, <2>4, <2>5
  <1>6. QED
    BY <1>4, <1>5

LEMMA HistoryIsRead ==
  ASSUME ConversationInv, NEW s \in Exchange, ReadHistory(s)
  PROVE  ConversationInv'
  <1> DEFINE y == exchange[s]
             n == Len(message)
             recent == After(y.cutoff)
             x == [y EXCEPT !.at = "streaming", !.recent = recent, !.pictured = Pictured(recent)]
  <1>1. /\ y \in Stream /\ n \in Nat /\ MaxLines \in Nat /\ n =< MaxLines
        /\ Fits(y, message, crossed, title, untitled) /\ exchange \in [Exchange -> Stream]
    BY ConversationFacts
  <1>2. /\ y.at = "saved" /\ UNCHANGED <<message, summary, cutoff, title, job, crossed, untitled>>
        /\ exchange' = [exchange EXCEPT ![s] = x]
    BY <1>1 DEF ReadHistory, history
  <1>3. /\ recent = {m \in 1..n : m > y.cutoff} /\ recent \subseteq 1..n /\ recent \subseteq Row
        /\ y.cutoff \in Nat
    BY <1>1 DEF After, Row, Fits, Covers
  <1>4. Pictured(recent) \in recent \cup {0}
        /\ (n \in recent /\ message[n] = "USER" => Pictured(recent) = n)
    <2> HIDE DEF recent, n
    <2>1. QED
      BY <1>1, <1>3, LastIsPictured
  <1>5. /\ x \in Stream /\ x.at = "streaming" /\ x.own = y.own /\ x.summary = y.summary /\ x.cutoff = y.cutoff
        /\ x.title = y.title /\ x.recent = recent /\ x.answer = y.answer /\ x.alone = y.alone
        /\ x.pictured = Pictured(recent)
    <2>1. Pictured(recent) \in 0..MaxLines
      BY <1>1, <1>3, <1>4
    <2> HIDE DEF recent, y
    <2>2. QED
      BY <1>1, <1>3, <2>1 DEF Stream
  <1> HIDE DEF x, y, recent, n
  <1>6. y.own \in 1..n /\ message[y.own] = "USER" /\ y.cutoff < y.own /\ (y.alone => y.own = n)
    BY <1>1, <1>2 DEF Fits, n
  <1>7. x.own \in x.recent /\ x.recent \cap x.summary = {} /\ 1..n \subseteq x.summary \cup x.recent \cup crossed
    BY <1>1, <1>3, <1>5, <1>6 DEF Fits, Covers
  <1>8. x.alone => x.pictured = x.own
    BY <1>4, <1>5, <1>6, <1>7
  <1>9. Fits(x, message, crossed, title, untitled)
    BY <1>1, <1>3, <1>5, <1>6, <1>7, <1>8 DEF Fits, n
  <1>10. QED
    BY <1>2, <1>5, <1>9, ConversationFacts, ExchangeGoesOn DEF y

LEMMA AnswerIsSaved ==
  ASSUME ConversationInv, NEW s \in Exchange, SaveAnswer(s)
  PROVE  ConversationInv'
  <1> DEFINE y == exchange[s]
             n == Len(message)
             at == IF WantsTitle(y) THEN "title" ELSE "check"
             x == [y EXCEPT !.answer = n + 1, !.at = at]
  <1>1. /\ y \in Stream /\ n \in Nat /\ MaxLines \in Nat /\ message \in Seq({"USER", "ASSISTANT"})
        /\ Fits(y, message, crossed, title, untitled) /\ untitled \in BOOLEAN
    BY ConversationFacts
  <1>2. /\ y.at = "streaming" /\ Create(s, "ASSISTANT") /\ exchange' = Others(s, x)
        /\ UNCHANGED <<summary, cutoff, title, job, untitled>>
    BY DEF SaveAnswer
  <1>3. message' = Append(message, "ASSISTANT") /\ n + 1 \in Row /\ crossed \subseteq crossed'
    BY <1>2 DEF Create
  <1>4. Len(message') = n + 1
    BY <1>1, <1>3
  <1>5. /\ x \in Stream /\ x.at = at /\ x.answer = n + 1 /\ x.summary = y.summary /\ x.cutoff = y.cutoff
        /\ x.title = y.title /\ x.recent = y.recent /\ x.own = y.own
    <2>1. n + 1 \in 0..MaxLines /\ at \in {"title", "check"}
      BY <1>1, <1>3 DEF Row
    <2> HIDE DEF y, n, at
    <2>2. QED
      BY <1>1, <2>1 DEF Stream
  <1>6. at \in {"title", "check"}
    OBVIOUS
  <1>7. Covers(y.summary, y.cutoff, n, crossed) /\ y.recent \subseteq 1..n /\ y.own \in y.recent
        /\ 1..n \subseteq y.summary \cup y.recent \cup crossed
    BY <1>1, <1>2 DEF Fits
  <1>8. n >= 1
    BY <1>1, <1>7
  <1>9. n = 1 => title # "none" \/ x.at = "title"
    <2> SUFFICES ASSUME n = 1, title = "none" PROVE x.at = "title"
      OBVIOUS
    <2>1. y.recent = {1}
      BY <1>7
    <2>2. Cardinality(y.recent) = 1
      BY <2>1, FS_Singleton
    <2>3. y.title = "none"
      BY <1>1 DEF Fits
    <2>4. WantsTitle(y)
      BY <2>2, <2>3 DEF WantsTitle, IsFirstMessage
    <2>5. QED
      BY <1>5, <2>4
  <1> HIDE DEF x, y, n, at
  <1>10. Covers(x.summary, x.cutoff, n + 1, crossed')
    <2>1. n + 1 \in Nat /\ n =< n + 1
      BY <1>1
    <2>2. QED
      BY <1>1, <1>3, <1>5, <1>7, <2>1, CoversMore
  <1>11. Covers(x.summary \cup x.recent \cup {x.answer}, x.answer, n + 1, crossed')
    BY <1>1, <1>3, <1>5, <1>7 DEF Covers
  <1>12. Fits(x, message', crossed', title', untitled')
    <2>1. x.recent \subseteq 1..(n + 1) /\ x.own \in 0..(n + 1) /\ x.answer \in 0..(n + 1)
      BY <1>1, <1>5, <1>7
    <2>2. x.title # "none" => title' # "none"
      BY <1>1, <1>2, <1>5 DEF Fits
    <2>3. QED
      BY <1>4, <1>5, <1>6, <1>10, <1>11, <2>1, <2>2 DEF Fits
  <1>13. message # <<>>
    BY <1>1, <1>8 DEF n
  <1>14. y.at # "title"
    BY <1>2
  <1>15. QED
    BY <1>1, <1>2, <1>5, <1>9, <1>12, <1>13, <1>14, RowIsAdded DEF y, n

LEMMA PictureIsSaved ==
  ASSUME ConversationInv, NEW s \in Exchange, SaveImage(s)
  PROVE  ConversationInv'
  <1> DEFINE y == exchange[s]
             n == Len(message)
  <1>1. /\ n \in Nat /\ message \in Seq({"USER", "ASSISTANT"})
        /\ Fits(y, message, crossed, title, untitled) /\ untitled \in BOOLEAN
    BY ConversationFacts
  <1>2. /\ y.at = "drawing" /\ Create(s, "ASSISTANT") /\ exchange' = Others(s, NoStream)
        /\ UNCHANGED <<summary, cutoff, title, job, untitled>>
    BY DEF SaveImage
  <1>3. message' \in Seq({"USER", "ASSISTANT"})
    BY <1>1, <1>2 DEF Create
  <1>4. NoStream \in Stream /\ Fits(NoStream, message', crossed', title', untitled')
    BY <1>3, Nothing, NoStreamFits
  <1>5. y.own \in 1..n /\ (y.own = 1 => untitled)
    BY <1>1, <1>2 DEF Fits
  <1>6. message # <<>> /\ (n = 1 => untitled)
    <2>1. message # <<>>
      BY <1>5
    <2>2. n = 1 => y.own = 1
      <3> HIDE DEF n, y
      <3>1. QED
        BY <1>5
    <2>3. QED
      BY <1>5, <2>1, <2>2
  <1>7. y.at # "title"
    BY <1>2
  <1> HIDE DEF y, n
  <1>8. QED
    BY <1>1, <1>2, <1>4, <1>6, <1>7, RowIsAdded DEF y, n

LEMMA TitleIsTaken ==
  ASSUME ConversationInv, NEW s \in Exchange, FirstTitle(s)
  PROVE  ConversationInv'
  <1> DEFINE y == exchange[s]
             x == [y EXCEPT !.at = "check"]
  <1>1. /\ y \in Stream /\ exchange \in [Exchange -> Stream] /\ untitled \in BOOLEAN /\ title \in Source
        /\ Fits(y, message, crossed, title, untitled)
    BY ConversationFacts
  <1>2. /\ y.at = "title" /\ exchange' = [exchange EXCEPT ![s] = x]
        /\ UNCHANGED <<message, crossed, summary, cutoff, job>>
    BY <1>1 DEF FirstTitle
  <1>3. \/ title' = "answer" /\ untitled' = untitled
        \/ untitled' = TRUE /\ title' = title
    BY DEF FirstTitle
  <1>4. /\ title' \in Source /\ (title # "none" => title' # "none") /\ untitled' \in BOOLEAN
        /\ (untitled => untitled') /\ (title' # "none" \/ untitled')
    BY <1>1, <1>3 DEF Source
  <1>5. /\ x \in Stream /\ x.at = "check" /\ x.answer = y.answer /\ x.summary = y.summary /\ x.cutoff = y.cutoff
        /\ x.title = y.title /\ x.recent = y.recent /\ x.own = y.own
    <2> HIDE DEF y
    <2>1. QED
      BY <1>1 DEF Stream
  <1>6. Fits(y, message, crossed, title', untitled')
    BY <1>1, <1>4, FitsStill
  <1> HIDE DEF x, y
  <1>7. Fits(x, message, crossed, title', untitled')
    BY <1>2, <1>5, <1>6 DEF Fits
  <1>8. QED
    BY <1>2, <1>4, <1>5, <1>7, ConversationFacts, ExchangeGoesOn

\* What the summary is to be written from covers what it is to stand for.
LEMMA SummaryIsBegun ==
  ASSUME ConversationInv, NEW s \in Exchange, EndStream(s)
  PROVE  ConversationInv'
  <1> DEFINE y == exchange[s]
             j == Summarize(y)
  <1>1. /\ y \in Stream /\ Fits(y, message, crossed, title, untitled) /\ job \in [Row -> Job]
        /\ Len(message) \in Nat /\ Len(message) =< MaxLines /\ MaxLines \in Nat
    BY ConversationFacts
  <1>2. /\ y.at = "check" /\ exchange' = [exchange EXCEPT ![s] = NoStream]
        /\ UNCHANGED <<message, crossed, summary, cutoff, title, untitled>>
        /\ job' = job \/ job' = [job EXCEPT ![y.answer] = j]
    BY DEF EndStream, history
  <1>3. j.at = "write" /\ j.from = y.summary \cup y.recent \cup {y.answer} /\ j.upTo = y.answer
    BY DEF Summarize
  <1>4. Covers(j.from, j.upTo, Len(message), crossed)
    BY <1>1, <1>2, <1>3 DEF Fits
  <1>5. j \in Job
    <2>1. j.from \in SUBSET Row /\ j.upTo \in 0..MaxLines
      <3> HIDE DEF j
      <3>1. QED
        BY <1>1, <1>4 DEF Covers, Row
    <2>2. j = [at |-> "write", from |-> j.from, upTo |-> j.upTo]
      BY DEF Summarize
    <2> HIDE DEF j
    <2>3. QED
      BY <2>1, <2>2 DEF Job
  <1>6. job' \in [Row -> Job] /\ \A m \in Row : Covers(job'[m].from, job'[m].upTo, Len(message), crossed)
    <2>1. \A m \in Row : Covers(job[m].from, job[m].upTo, Len(message), crossed)
      BY ConversationFacts
    <2> HIDE DEF j
    <2>2. \A m \in Row : job'[m] = job[m] \/ job'[m] = j
      BY <1>1, <1>2
    <2>3. job' \in [Row -> Job]
      BY <1>1, <1>2, <1>5
    <2>4. QED
      BY <1>4, <2>1, <2>2, <2>3
  <1>7. NoStream \in Stream /\ Fits(NoStream, message, crossed, title', untitled')
    BY <1>2, Nothing
  <1> HIDE DEF j, y
  <1>8. exchange[s].at # "title"
    BY <1>2 DEF y
  <1>9. QED
    BY <1>2, <1>6, <1>7, <1>8, ConversationFacts, ExchangeGoesOn

LEMMA SummaryIsWritten ==
  ASSUME ConversationInv, NEW m \in Row, WriteSummary(m) \/ Retitle(m) \/ DropJob(m)
  PROVE  ConversationInv'
  <1>1. /\ job \in [Row -> Job] /\ \A k \in Row : Covers(job[k].from, job[k].upTo, Len(message), crossed)
        /\ Covers(summary, cutoff, Len(message), crossed) /\ Len(message) \in Nat /\ MaxLines \in Nat
    BY ConversationFacts
  <1>2. UNCHANGED <<message, exchange, crossed, untitled>> /\ (title' = title \/ title' = "summary")
    BY DEF WriteSummary, Retitle, DropJob, history
  <1>3. NoJob \in Job /\ Covers(NoJob.from, NoJob.upTo, Len(message), crossed)
    BY <1>1 DEF NoJob, Job, Covers
  <1>4. CASE WriteSummary(m)
    <2> DEFINE j == [job[m] EXCEPT !.at = "title"]
    <2>1. summary' = job[m].from /\ cutoff' = job[m].upTo /\ job' = [job EXCEPT ![m] = j]
      BY <1>1, <1>4 DEF WriteSummary
    <2>2. j \in Job /\ j.from = job[m].from /\ j.upTo = job[m].upTo
      <3>1. job[m] \in Job
        BY <1>1
      <3>2. QED
        BY <3>1 DEF Job
    <2> HIDE DEF j
    <2>3. job' \in [Row -> Job] /\ \A k \in Row : job'[k] = job[k] \/ job'[k] = j
      BY <1>1, <2>1, <2>2
    <2>4. \A k \in Row : Covers(job'[k].from, job'[k].upTo, Len(message), crossed)
      BY <1>1, <2>2, <2>3
    <2>5. QED
      BY <1>1, <1>2, <2>1, <2>3, <2>4, JobGoesOn
  <1>5. CASE Retitle(m) \/ DropJob(m)
    <2>1. summary' = summary /\ cutoff' = cutoff /\ job' = [job EXCEPT ![m] = NoJob]
      BY <1>5 DEF Retitle, DropJob
    <2>2. job' \in [Row -> Job] /\ \A k \in Row : job'[k] = job[k] \/ job'[k] = NoJob
      BY <1>1, <1>3, <2>1
    <2>3. \A k \in Row : Covers(job'[k].from, job'[k].upTo, Len(message), crossed)
      BY <1>1, <1>3, <2>2
    <2>4. QED
      BY <1>1, <1>2, <2>1, <2>2, <2>3, JobGoesOn
  <1>6. QED
    BY <1>4, <1>5

LEMMA TitleIsChosen ==
  ASSUME ConversationInv, Rename \/ UNCHANGED conversationVars
  PROVE  ConversationInv'
  <1>1. /\ UNCHANGED <<message, exchange, crossed, untitled, job, summary, cutoff>>
        /\ (title' = title \/ title' = "user")
    BY DEF Rename, conversationVars, requests, history
  <1>2. QED
    BY <1>1, ConversationFacts, JobGoesOn

LEMMA ConversationKept == ConversationInv /\ [ConversationNext]_conversationVars => ConversationInv'
  <1> SUFFICES ASSUME ConversationInv, [ConversationNext]_conversationVars PROVE ConversationInv'
    OBVIOUS
  <1>1. ASSUME NEW s \in Exchange, Begin(s) PROVE ConversationInv'
    BY <1>1, ExchangeBegins
  <1>2. ASSUME NEW s \in Exchange, RefuseStream(s) \/ FailStream(s) PROVE ConversationInv'
    BY <1>2, ExchangeEnds
  <1>3. ASSUME NEW s \in Exchange, SaveUser(s) \/ SaveImageRequest(s) PROVE ConversationInv'
    BY <1>3, UserIsSaved
  <1>4. ASSUME NEW s \in Exchange, ReadHistory(s) PROVE ConversationInv'
    BY <1>4, HistoryIsRead
  <1>5. ASSUME NEW s \in Exchange, SaveAnswer(s) PROVE ConversationInv'
    BY <1>5, AnswerIsSaved
  <1>6. ASSUME NEW s \in Exchange, SaveImage(s) PROVE ConversationInv'
    BY <1>6, PictureIsSaved
  <1>7. ASSUME NEW s \in Exchange, FirstTitle(s) PROVE ConversationInv'
    BY <1>7, TitleIsTaken
  <1>8. ASSUME NEW s \in Exchange, EndStream(s) PROVE ConversationInv'
    BY <1>8, SummaryIsBegun
  <1>9. ASSUME NEW m \in Row, WriteSummary(m) \/ Retitle(m) \/ DropJob(m) PROVE ConversationInv'
    BY <1>9, SummaryIsWritten
  <1>10. CASE Rename \/ UNCHANGED conversationVars
    BY <1>10, TitleIsChosen
  <1>11. QED
    BY <1>1, <1>2, <1>3, <1>4, <1>5, <1>6, <1>7, <1>8, <1>9, <1>10 DEF ConversationNext

LEMMA ConversationHolds == ConversationInv => ConversationIsWhole
  <1> SUFFICES ASSUME ConversationInv PROVE ConversationIsWhole
    OBVIOUS
  <1> DEFINE n == Len(message)
  <1>1. /\ message \in Seq({"USER", "ASSISTANT"}) /\ n \in Nat /\ n =< MaxLines /\ MaxLines \in Nat
        /\ Covers(summary, cutoff, n, crossed)
        /\ \A m \in Row : Covers(job[m].from, job[m].upTo, n, crossed)
        /\ exchange \in [Exchange -> Stream] /\ title \in Source /\ crossed \subseteq Row
        /\ \A s \in Exchange : Fits(exchange[s], message, crossed, title, untitled)
    BY ConversationFacts
  <1>2. ConversationTypeOK
    <2>1. \A s \in Exchange :
            /\ exchange[s].at \in {"idle", "read", "saved", "streaming", "drawing", "title", "check"}
            /\ exchange[s].recent \subseteq 1..n /\ exchange[s].own \in 0..n /\ exchange[s].answer \in 0..n
      <3> SUFFICES ASSUME NEW s \in Exchange
                   PROVE  /\ exchange[s].at \in {"idle", "read", "saved", "streaming", "drawing", "title", "check"}
                          /\ exchange[s].recent \subseteq 1..n /\ exchange[s].own \in 0..n /\ exchange[s].answer \in 0..n
        OBVIOUS
      <3>1. exchange[s] \in Stream /\ Fits(exchange[s], message, crossed, title, untitled)
        BY <1>1
      <3>2. QED
        BY <3>1 DEF Fits, Stream
    <2>2. summary \subseteq 1..n /\ cutoff \in 0..n /\ \A m \in Row : job[m].upTo \in 0..n
      <3> HIDE DEF n
      <3>1. QED
        BY <1>1 DEF Covers
    <2>3. QED
      BY <1>1, <2>1, <2>2 DEF ConversationTypeOK
  <1>3. SummaryCoversUnlessCrossed
    BY <1>1 DEF Covers, SummaryCoversUnlessCrossed
  <1>4. PromptIsComplete
    <2> SUFFICES ASSUME NEW s \in Exchange, exchange[s].at = "streaming"
                 PROVE  /\ 1..exchange[s].own \subseteq exchange[s].summary \union exchange[s].recent \union crossed
                        /\ exchange[s].summary \intersect exchange[s].recent = {}
      BY DEF PromptIsComplete
    <2>1. exchange[s].own \in 0..n /\ 1..n \subseteq exchange[s].summary \union exchange[s].recent \union crossed
          /\ exchange[s].summary \intersect exchange[s].recent = {}
      BY <1>1 DEF Fits
    <2> HIDE DEF n
    <2>2. 1..exchange[s].own \subseteq 1..n
      BY <1>1, <2>1
    <2>3. QED
      BY <2>1, <2>2
  <1>5. PicturesReachTheModel
    BY <1>1 DEF Fits, PicturesReachTheModel
  <1>6. TitledUnlessFirstFailed
    <2> SUFFICES ASSUME \A s \in Exchange : exchange[s].at = "idle",
                        NEW m \in 1..n, message[m] = "ASSISTANT", message[2] # "USER"
                 PROVE  title # "none" \/ untitled
      BY DEF TitledUnlessFirstFailed
    <2>1. n >= 1 /\ message[1] = "USER"
      BY <1>1 DEF ConversationInv, TitleIsDue
    <2>2. n >= 2
      BY <1>1, <2>1
    <2>3. message[2] = "ASSISTANT"
      BY <1>1, <2>2
    <2>4. QED
      BY <2>1, <2>2, <2>3 DEF ConversationInv, TitleIsDue
  <1>7. QED
    BY <1>2, <1>3, <1>4, <1>5, <1>6 DEF ConversationIsWhole

(* Whatever requests overlap, fail or are restarted, and however late the summaries are written:
   no message is in neither the summary nor the prompt, or in both, unless it came in while
   another answer was being generated; a request's pictures stand with its own message unless it was not
   alone; and a conversation with an answer has a title unless its first request failed, asked for
   a picture, or was not the only first one. (streamChat, summarizeConversation, generateTitle) *)
THEOREM NothingIsForgotten == ChatSpec => []ConversationIsWhole
  <1>1. ChatInit => ConversationInv
    BY InitConversation DEF ChatInit
  <1>2. ConversationInv /\ [ChatNext]_chatVars => ConversationInv'
    BY ConversationStep, ConversationKept
  <1>3. QED
    BY <1>1, <1>2, ConversationHolds, PTL DEF ChatSpec
-----------------------------------------------------------------------------
(* Images *)

ImageKinds == {"none", "inline", "key"}
DrawerRecord ==
  [at : {"idle", "upload", "save", "choose", "afford", "input", "call", "store", "answer"},
   ask : 0..MaxAsks, attached : BOOLEAN, edit : BOOLEAN, image : ImageKinds,
   models : SUBSET ImageModel, chain : Seq(ImageModel), ideal : Ideals \cup {<<>>},
   call : {"first", "second", "plain"}]
CleanupRecord == [at : {"idle", "delete", "clear"}, of : RowId \cup {<<>>}, left : SUBSET RowId]

\* A chain holds the models there are, best first if nobody's own model leads it.
ChainSound(d) ==
  /\ d.at \in {"afford", "input"} =>
       /\ Range(d.chain) = d.models /\ Len(d.chain) = Cardinality(d.models)
       /\ d.ideal # <<>> => \A i, j \in DOMAIN d.chain : i < j => ~Outranks(d.chain[j], d.chain[i], d.ideal)
  /\ d.at \in {"input", "call"} => d.chain # <<>>

LEMMA OrderingIsSeq ==
  ASSUME NEW models, NEW s \in Orderings(models), models \subseteq ImageModel
  PROVE  /\ s \in Seq(ImageModel) /\ Len(s) = Cardinality(models) /\ Range(s) = models
         /\ DOMAIN s = 1..Cardinality(models) /\ Cardinality(models) \in Nat
         /\ \A i \in DOMAIN s : s[i] \in models
  <1>1. Cardinality(models) \in Nat
    BY FS_Subset, FS_CardinalityType, ImagesAssumption
  <1> DEFINE n == Cardinality(models)
  <1>2. s \in [1..n -> models] /\ Range(s) = models /\ n \in Nat
    BY <1>1 DEF Orderings
  <1> HIDE DEF n
  <1>3. s \in [1..n -> ImageModel]
    BY <1>2
  <1>4. s \in Seq(ImageModel) /\ Len(s) = n
    BY <1>2, <1>3
  <1>5. QED
    BY <1>2, <1>4 DEF n

LEMMA FirstIsOrdering ==
  ASSUME NEW models, NEW s \in Orderings(models), models \subseteq ImageModel,
         NEW p \in 1..Cardinality(models)
  PROVE  First(s, p) \in Orderings(models)
  <1> DEFINE n == Cardinality(models)
             t == First(s, p)
  <1>1. s \in [1..n -> models] /\ n \in Nat /\ \A m \in models : \E i \in 1..n : s[i] = m
    BY OrderingIsSeq DEF Orderings, Range
  <1> HIDE DEF n
  <1>2. p \in 1..n
    BY DEF n
  <1>3. /\ t = [i \in 1..n |-> IF i = 1 THEN s[p] ELSE IF i =< p THEN s[i - 1] ELSE s[i]]
    BY <1>1 DEF First
  <1>4. \A i \in 1..n : t[i] = IF i = 1 THEN s[p] ELSE IF i =< p THEN s[i - 1] ELSE s[i]
    BY <1>3
  <1>5. \A i \in 1..n : t[i] \in models
    BY <1>1, <1>2, <1>4
  <1>6. t \in [1..n -> models]
    BY <1>3, <1>5
  <1>7. ASSUME NEW m \in models
        PROVE  \E i \in 1..n : t[i] = m
    <2>1. PICK i \in 1..n : s[i] = m
      BY <1>1
    <2>2. CASE i = p
      <3>1. 1 \in 1..n
        BY <1>1, <1>2
      <3>2. QED
        BY <1>4, <2>1, <2>2, <3>1
    <2>3. CASE i < p
      <3>1. i + 1 \in 1..n /\ i + 1 # 1 /\ i + 1 =< p /\ (i + 1) - 1 = i
        BY <1>1, <1>2, <2>3
      <3>2. t[i + 1] = s[i]
        BY <1>4, <3>1
      <3>3. QED
        BY <2>1, <3>1, <3>2
    <2>4. CASE i > p
      <3>1. i # 1 /\ ~(i =< p)
        BY <1>2, <2>4
      <3>2. QED
        BY <1>4, <2>1, <3>1
    <2>5. QED
      BY <1>2, <2>2, <2>3, <2>4
  <1> HIDE DEF t
  <1>8. DOMAIN t = 1..n
    BY <1>6
  <1>9. Range(t) = models
    BY <1>5, <1>7, <1>8 DEF Range
  <1>10. QED
    BY <1>6, <1>9 DEF Orderings, n, t

LEMMA ChainsAreSound ==
  ASSUME NEW models, models \subseteq ImageModel, NEW ideal, NEW chain \in Chains(models, ideal)
  PROVE  /\ chain \in Seq(ImageModel) /\ Range(chain) = models /\ Len(chain) = Cardinality(models)
         /\ chain \in Ranked(models, ideal) =>
              \A i, j \in DOMAIN chain : i < j => ~Outranks(chain[j], chain[i], ideal)
  <1>1. Ranked(models, ideal) \subseteq Orderings(models) /\ InTurn(models) \subseteq Orderings(models)
    BY DEF Ranked, InTurn
  <1>2. chain \in Orderings(models)
    BY <1>1, FirstIsOrdering DEF Chains
  <1>3. QED
    BY <1>2, OrderingIsSeq DEF Ranked

\* The head of a chain that nobody's own model leads is a best one.
LEMMA HeadIsBest ==
  ASSUME NEW d \in DrawerRecord, ChainSound(d), d.at \in {"afford", "input"}, d.ideal # <<>>, NEW m \in d.models
  PROVE  Score(m, d.ideal) =< Score(d.chain[1], d.ideal)
  <1> DEFINE n == Len(d.chain)
             score(x) == Score(x, d.ideal)
  <1>1. d.chain \in Seq(ImageModel) /\ n \in Nat /\ DOMAIN d.chain = 1..n
    BY DEF DrawerRecord
  <1>2. PICK j \in 1..n : d.chain[j] = m
    BY <1>1 DEF ChainSound, Range
  <1>3. CASE j = 1
    <2>1. score(m) \in Nat
      BY DEF Score
    <2>2. QED
      BY <1>2, <1>3, <2>1
  <1>4. CASE j # 1
    <2>1. 1 \in 1..n /\ 1 < j
      BY <1>1, <1>2, <1>4
    <2>2. ~Outranks(d.chain[j], d.chain[1], d.ideal)
      BY <1>1, <1>2, <2>1 DEF ChainSound
    <2>3. ~(score(m) > score(d.chain[1]))
      BY <1>2, <2>2 DEF Outranks
    <2>4. score(m) \in Nat /\ score(d.chain[1]) \in Nat
      BY DEF Score
    <2>5. QED
      BY <2>3, <2>4
  <1>5. QED
    BY <1>3, <1>4

RowRecord == [image : ImageKinds, at : -1..MaxTicks]

ImagesTypes ==
  /\ tick \in ImageTimes /\ asks \in 0..MaxAsks
  /\ bucket \subseteq RowId /\ row \in [RowId -> RowRecord]
  /\ drawer \in [Drawer -> DrawerRecord] /\ cleanup \in CleanupRecord
  /\ undeleted \subseteq RowId /\ dropped \subseteq RowId /\ cutShort \subseteq RowId

\* A request has made no row that it has not saved, and no object but the one it is about
\* to save a row for.
RequestSound(r) ==
  LET d == drawer[r] IN
  /\ ChainSound(d)
  /\ d.at # "idle" => d.ask \in 1..asks
  /\ d.at = "upload" => d.image = "none" /\ row[Own(r)] = NoRow /\ Own(r) \notin bucket
  /\ d.at = "save" => row[Own(r)] = NoRow /\ (Own(r) \in bucket <=> d.image = "key")
  /\ d.at \notin {"idle", "answer"} => row[Answer(r)] = NoRow /\ Answer(r) \notin bucket
  /\ d.at = "answer" => /\ row[Answer(r)] = NoRow /\ d.image # "none"
                        /\ Answer(r) \in bucket <=> d.image = "key"
RequestsSound == \A r \in Drawer : RequestSound(r)

RequestsApart ==
  \A r, s \in Drawer : r # s /\ drawer[r].at # "idle" /\ drawer[s].at # "idle" => drawer[r].ask # drawer[s].ask
Unasked == \A id \in RowId : id[1] > asks => row[id] = NoRow /\ id \notin bucket

\* What the job cleans is old, and of what it is about to clear no object is left, or one
\* that could not be deleted.
CleanupSound ==
  /\ cleanup.at # "idle" =>
       /\ cleanup.of \in RowId
       /\ \A id \in {cleanup.of} \cup cleanup.left : row[id].at >= 0 /\ row[id].at < tick - ImageDay
  /\ cleanup.at = "clear" => cleanup.of \notin bucket \/ cleanup.of \in undeleted \cup dropped

Pending(id) ==
  \E r \in Drawer : \/ drawer[r].at = "save" /\ id = Own(r)
                    \/ drawer[r].at = "answer" /\ id = Answer(r)

\* NoDeadLinks, ObjectsAreAccountedFor and AnswersAreVisible, of one row.
RowSound(id) ==
  /\ row[id].image # "none" => row[id].at >= 0
  /\ Linked(id) => id \in bucket \/ (cleanup.at = "clear" /\ cleanup.of = id) \/ id \in cutShort
  /\ id \in bucket => Linked(id) \/ id \in undeleted \cup dropped \/ Pending(id)
  /\ id[2] = "ASSISTANT" /\ row[id].at >= tick - ImageDay /\ row[id].at >= 0 => row[id].image # "none"
RowsSound == \A id \in RowId : RowSound(id)

ImagesInv ==
  ImagesTypes /\ RequestsSound /\ RequestsApart /\ Unasked /\ CleanupSound /\ RowsSound

LEMMA RowNames ==
  ASSUME ImagesTypes, NEW r \in Drawer
  PROVE  /\ drawer[r].ask \in 1..asks => Own(r) \in RowId /\ Answer(r) \in RowId
         /\ Own(r) # Answer(r)
         /\ \A s \in Drawer : drawer[r].ask # drawer[s].ask =>
              Own(r) # Own(s) /\ Answer(r) # Answer(s) /\ Own(r) # Answer(s) /\ Answer(r) # Own(s)
  <1>1. asks \in 0..MaxAsks /\ MaxAsks \in Nat
    BY ImagesAssumption DEF ImagesTypes
  <1>2. 1..asks \subseteq Ask
    BY <1>1 DEF Ask
  <1>3. QED
    BY <1>2 DEF Own, Answer, RowId

\* A step of a request touches no row but its own, which nobody has seen before.
LEMMA RequestMoves ==
  ASSUME ImagesInv, NEW r \in Drawer, drawer[r].at # "idle",
         NEW y \in DrawerRecord, drawer' = [drawer EXCEPT ![r] = y], y.at # "idle" => y.ask = drawer[r].ask,
         UNCHANGED <<tick, asks, cleanup, undeleted, cutShort>>,
         bucket' \subseteq RowId, row' \in [RowId -> RowRecord], dropped' \subseteq RowId, dropped \subseteq dropped',
         \A id \in RowId : id \notin {Own(r), Answer(r)} \/ row[id] # NoRow =>
                             row'[id] = row[id] /\ (id \in bucket' <=> id \in bucket),
         RequestSound(r)', \A id \in {Own(r), Answer(r)} : RowSound(id)'
  PROVE  ImagesInv'
  <1> USE DEF ImagesInv
  <1>1. ImagesTypes'
    BY DEF ImagesTypes
  <1>2. drawer'[r] = y /\ \A s \in Drawer : s # r => drawer'[s] = drawer[s]
    BY DEF ImagesTypes
  <1>3. drawer[r].ask \in 1..asks /\ Own(r) \in RowId /\ Answer(r) \in RowId
    BY RowNames DEF RequestsSound, RequestSound
  <1>4. RequestsApart'
    <2> SUFFICES ASSUME NEW s \in Drawer, NEW t \in Drawer, s # t, drawer'[s].at # "idle", drawer'[t].at # "idle"
                 PROVE  drawer'[s].ask # drawer'[t].ask
      BY DEF RequestsApart
    <2>1. \A x \in Drawer : drawer'[x].at # "idle" => drawer[x].at # "idle" /\ drawer'[x].ask = drawer[x].ask
      BY <1>2
    <2>2. QED
      BY <2>1 DEF RequestsApart
  <1>5. Unasked'
    <2> SUFFICES ASSUME NEW id \in RowId, id[1] > asks
                 PROVE  row'[id] = NoRow /\ id \notin bucket'
      BY DEF Unasked
    <2>1. asks \in Int
      BY DEF ImagesTypes
    <2>2. ~(drawer[r].ask > asks)
      BY <1>3, <2>1
    <2>3. id \notin {Own(r), Answer(r)}
      BY <2>2 DEF Own, Answer
    <2>4. QED
      BY <2>3 DEF Unasked
  <1>6. ASSUME NEW s \in Drawer, s # r
        PROVE  RequestSound(s)'
    <2>1. drawer'[s] = drawer[s] /\ Own(s)' = Own(s) /\ Answer(s)' = Answer(s) /\ RequestSound(s)
      BY <1>2, <1>6 DEF Own, Answer, RequestsSound
    <2>2. CASE drawer[s].at = "idle"
      BY <2>1, <2>2 DEF RequestSound, ChainSound
    <2>3. CASE drawer[s].at # "idle"
      <3>1. drawer[r].ask # drawer[s].ask /\ Own(s) \in RowId /\ Answer(s) \in RowId
        BY <1>6, <2>1, <2>3, RowNames DEF RequestsApart, RequestSound
      <3>2. Own(s) \notin {Own(r), Answer(r)} /\ Answer(s) \notin {Own(r), Answer(r)}
        BY <3>1, RowNames
      <3>3. /\ row'[Own(s)] = row[Own(s)] /\ (Own(s) \in bucket' <=> Own(s) \in bucket)
            /\ row'[Answer(s)] = row[Answer(s)] /\ (Answer(s) \in bucket' <=> Answer(s) \in bucket)
        BY <3>1, <3>2
      <3>4. ChainSound(drawer'[s])
        BY <2>1 DEF RequestSound
      <3>5. QED
        BY <2>1, <3>3, <3>4 DEF RequestSound, ChainSound
    <2>4. QED
      BY <2>2, <2>3
  <1>7. CleanupSound'
    <2>1. \A id \in RowId : row[id].at >= 0 => row'[id] = row[id] /\ (id \in bucket' <=> id \in bucket)
      BY DEF NoRow
    <2>2. cleanup.left \subseteq RowId
      BY DEF ImagesTypes, CleanupRecord
    <2>3. QED
      BY <2>1, <2>2 DEF CleanupSound
  <1>8. ASSUME NEW id \in RowId
        PROVE  RowSound(id)'
    <2>1. CASE id \in {Own(r), Answer(r)}
      BY <2>1
    <2>2. CASE id \notin {Own(r), Answer(r)}
      <3>1. row'[id] = row[id] /\ (id \in bucket' <=> id \in bucket) /\ RowSound(id)
        BY <2>2 DEF RowsSound
      <3>2. Pending(id) => Pending(id)'
        BY <1>2, <2>2 DEF Pending, Own, Answer
      <3>3. QED
        BY <3>1, <3>2 DEF RowSound, Linked
    <2>3. QED
      BY <2>1, <2>2
  <1>9. QED
    BY <1>1, <1>4, <1>5, <1>6, <1>7, <1>8 DEF RequestsSound, RowsSound

\* Steps that touch no row at all.
LEMMA RequestThinks ==
  ASSUME ImagesInv, NEW r \in Drawer, drawer[r].at # "idle",
         NEW y \in DrawerRecord, drawer' = [drawer EXCEPT ![r] = y], y.at # "idle" => y.ask = drawer[r].ask,
         UNCHANGED <<tick, asks, cleanup, undeleted, cutShort, bucket, row>>,
         dropped' \subseteq RowId, dropped \subseteq dropped',
         ChainSound(y), y.at \in {"idle", "choose", "afford", "input", "call", "store"},
         y.at # "idle" => drawer[r].at # "answer",
         drawer[r].at = "save" => Own(r) \in dropped', drawer[r].at = "answer" => Answer(r) \in dropped'
  PROVE  ImagesInv'
  <1> USE DEF ImagesInv
  <1>1. drawer'[r] = y /\ \A s \in Drawer : s # r => drawer'[s] = drawer[s]
    BY DEF ImagesTypes
  <1>2. RequestSound(r) /\ Own(r) \in RowId /\ Answer(r) \in RowId
    BY RowNames DEF RequestsSound, RequestSound
  <1>3. RequestSound(r)'
    <2>1. CASE y.at = "idle"
      BY <1>1, <2>1 DEF RequestSound, ChainSound
    <2>2. CASE y.at # "idle"
      <3>1. Own(r)' = Own(r) /\ Answer(r)' = Answer(r)
        BY <1>1, <2>2 DEF Own, Answer
      <3>2. ChainSound(drawer'[r]) /\ drawer'[r].ask \in 1..asks
        BY <1>1, <1>2, <2>2 DEF RequestSound
      <3>3. row[Answer(r)] = NoRow /\ Answer(r) \notin bucket
        BY <1>2, <2>2 DEF RequestSound
      <3>4. QED
        BY <1>1, <2>2, <3>1, <3>2, <3>3 DEF RequestSound, ChainSound
    <2>3. QED
      BY <2>1, <2>2
  <1>4. ASSUME NEW id \in {Own(r), Answer(r)}
        PROVE  RowSound(id)'
    <2>1. RowSound(id)
      BY <1>2 DEF RowsSound
    <2>2. Pending(id) => id \in dropped' \/ Pending(id)'
      <3> SUFFICES ASSUME Pending(id)
                   PROVE  id \in dropped' \/ Pending(id)'
        OBVIOUS
      <3>1. PICK s \in Drawer : \/ drawer[s].at = "save" /\ id = Own(s)
                                \/ drawer[s].at = "answer" /\ id = Answer(s)
        BY DEF Pending
      <3>2. CASE s = r
        BY <3>1, <3>2
      <3>3. CASE s # r
        BY <1>1, <3>1, <3>3 DEF Pending, Own, Answer
      <3>4. QED
        BY <3>2, <3>3
    <2>3. QED
      BY <2>1, <2>2 DEF RowSound, Linked
  <1>5. bucket' \subseteq RowId /\ row' \in [RowId -> RowRecord]
    BY DEF ImagesTypes
  <1>6. QED
    BY <1>3, <1>4, <1>5, RequestMoves

LEMMA IdleDrawing ==
  /\ NoDrawing \in DrawerRecord /\ NoDrawing.at = "idle" /\ ChainSound(NoDrawing)
  /\ NoCleanup \in CleanupRecord /\ NoCleanup.at = "idle"
  /\ NoRow \in RowRecord
  <1>1. MaxAsks \in Nat /\ MaxTicks \in Nat /\ <<>> \in Seq(ImageModel)
    BY ImagesAssumption
  <1>2. NoDrawing \in DrawerRecord
    BY <1>1 DEF NoDrawing, DrawerRecord, ImageKinds
  <1>3. QED
    BY <1>1, <1>2 DEF NoDrawing, ChainSound, NoCleanup, CleanupRecord, NoRow, RowRecord, ImageKinds

LEMMA TailOfMore ==
  ASSUME NEW S, NEW s \in Seq(S), s # <<>>, Len(s) # 1
  PROVE  Tail(s) \in Seq(S) /\ Tail(s) # <<>>
  <1>1. Tail(s) \in Seq(S) /\ Len(Tail(s)) = Len(s) - 1 /\ Len(s) \in Nat /\ Len(<<>>) = 0
    OBVIOUS
  <1>2. Len(Tail(s)) # 0
    BY <1>1
  <1>3. QED
    BY <1>1, <1>2

LEMMA ImagesOfChoice ==
  ASSUME ImagesInv, NEW r \in Drawer,
         \/ \E models \in SUBSET ImageModel, ideal \in Ideals : ChooseModels(r, models, ideal)
         \/ \E balance \in Balances : Afford(r, balance)
         \/ \E edit \in BOOLEAN : ResolveInput(r, edit)
         \/ \E reply \in Reply : CallModel(r, reply)
         \/ FailDrawing(r)
  PROVE  ImagesInv'
  <1> DEFINE d == drawer[r]
  <1>1. d \in DrawerRecord /\ RequestSound(r) /\ ChainSound(d)
    BY DEF ImagesInv, ImagesTypes, RequestsSound, RequestSound
  <1>2. d.at # "idle" => Own(r) \in RowId /\ Answer(r) \in RowId
    BY <1>1, RowNames DEF ImagesInv, RequestSound
  <1>3. dropped \subseteq RowId /\ UNCHANGED <<tick, asks, cleanup, undeleted, cutShort, bucket, row>> /\ d.at # "idle"
    BY DEF ChooseModels, Afford, ResolveInput, CallModel, FailDrawing, imageHistory, rows, ImagesInv, ImagesTypes
  <1> DEFINE Thinks(y) == /\ y \in DrawerRecord /\ drawer' = [drawer EXCEPT ![r] = y]
                          /\ y.at # "idle" => y.ask = drawer[r].ask /\ drawer[r].at # "answer"
                          /\ ChainSound(y) /\ y.at \in {"idle", "choose", "afford", "input", "call", "store"}
  <1>4. ASSUME NEW y, Thinks(y), dropped' = dropped, d.at \notin {"save", "answer"}
        PROVE  ImagesInv'
    BY <1>3, <1>4, RequestThinks
  <1>5. ASSUME Move(r, NoDrawing), dropped' = dropped, d.at \notin {"save", "answer"}
        PROVE  ImagesInv'
    BY <1>4, <1>5, IdleDrawing DEF Move
  <1>6. ASSUME NEW models \in SUBSET ImageModel, NEW ideal \in Ideals, ChooseModels(r, models, ideal)
        PROVE  ImagesInv'
    <2>1. d.at = "choose" /\ dropped' = dropped
      BY <1>6 DEF ChooseModels, imageHistory
    <2>2. ASSUME NEW chain \in Chains(models, ideal),
                 Move(r, [drawer[r] EXCEPT !.at = "afford", !.models = models, !.chain = chain,
                            !.ideal = IF chain \in Ranked(models, ideal) THEN ideal ELSE <<>>])
          PROVE  ImagesInv'
      <3> DEFINE best == IF chain \in Ranked(models, ideal) THEN ideal ELSE <<>>
                 y == [d EXCEPT !.at = "afford", !.models = models, !.chain = chain, !.ideal = best]
      <3>1. /\ chain \in Seq(ImageModel) /\ Range(chain) = models /\ Len(chain) = Cardinality(models)
            /\ chain \in Ranked(models, ideal) =>
                 \A i, j \in DOMAIN chain : i < j => ~Outranks(chain[j], chain[i], ideal)
        BY ChainsAreSound
      <3>2. /\ best \in Ideals \cup {<<>>}
            /\ best # <<>> => \A i, j \in DOMAIN chain : i < j => ~Outranks(chain[j], chain[i], best)
        BY <3>1
      <3>3. drawer' = [drawer EXCEPT ![r] = y]
        BY <2>2 DEF Move
      <3> HIDE DEF best
      <3>4. /\ y \in DrawerRecord /\ y.at = "afford" /\ y.ask = d.ask
            /\ y.chain = chain /\ y.models = models /\ y.ideal = best
        BY <1>1, <3>1, <3>2 DEF DrawerRecord
      <3> HIDE DEF y
      <3>5. ChainSound(y)
        BY <3>1, <3>2, <3>4 DEF ChainSound
      <3>6. QED
        BY <1>4, <2>1, <3>3, <3>4, <3>5
    <2>3. QED
      BY <1>5, <1>6, <2>1, <2>2 DEF ChooseModels
  <1>7. ASSUME NEW balance \in Balances, Afford(r, balance)
        PROVE  ImagesInv'
    <2>1. d.at = "afford" /\ dropped' = dropped
      BY <1>7 DEF Afford, imageHistory
    <2>2. PICK chain \in Affordable(d.chain, balance) :
            Move(r, IF chain = <<>> THEN NoDrawing
                    ELSE [drawer[r] EXCEPT !.at = "input", !.chain = chain,
                                           !.models = {m \in @ : m.price =< balance}])
      BY <1>7 DEF Afford
    <2>3. CASE chain = <<>>
      BY <1>5, <2>1, <2>2, <2>3
    <2>4. CASE chain # <<>>
      <3> DEFINE left == {m \in d.models : m.price =< balance}
                 y == [d EXCEPT !.at = "input", !.chain = chain, !.models = left]
      <3>1. d.models \subseteq ImageModel /\ Range(d.chain) = d.models
            /\ (d.ideal # <<>> => \A i, j \in DOMAIN d.chain : i < j => ~Outranks(d.chain[j], d.chain[i], d.ideal))
        <4>1. d.models \subseteq ImageModel
          BY <1>1 DEF DrawerRecord
        <4>2. d.at \in {"afford", "input"}
          BY <2>1
        <4> HIDE DEF d
        <4>3. QED
          BY <1>1, <4>1, <4>2 DEF ChainSound
      <3>2. /\ chain \in Orderings(left) /\ left \subseteq ImageModel
            /\ \A i, j \in DOMAIN chain : i < j =>
                 \E k, l \in DOMAIN d.chain : k < l /\ d.chain[k] = chain[i] /\ d.chain[l] = chain[j]
        <4>1. left = {m \in Range(d.chain) : m.price =< balance} /\ left \subseteq ImageModel
          BY <3>1
        <4> HIDE DEF left, d
        <4>2. QED
          BY <2>2, <4>1 DEF Affordable
      <3>3. /\ chain \in Seq(ImageModel) /\ Range(chain) = left /\ Len(chain) = Cardinality(left)
            /\ d.ideal # <<>> => \A i, j \in DOMAIN chain : i < j => ~Outranks(chain[j], chain[i], d.ideal)
        <4> HIDE DEF left, d
        <4>1. chain \in Seq(ImageModel) /\ Range(chain) = left /\ Len(chain) = Cardinality(left)
          BY <3>2, OrderingIsSeq
        <4>2. d.ideal # <<>> => \A i, j \in DOMAIN chain : i < j => ~Outranks(chain[j], chain[i], d.ideal)
          BY <3>1, <3>2
        <4>3. QED
          BY <4>1, <4>2
      <3>4. drawer' = [drawer EXCEPT ![r] = y]
        BY <2>2, <2>4 DEF Move
      <3>5. left \in SUBSET ImageModel
        BY <3>1
      <3> HIDE DEF left
      <3>6. /\ y \in DrawerRecord /\ y.at = "input" /\ y.ask = d.ask
            /\ y.chain = chain /\ y.models = left /\ y.ideal = d.ideal
        BY <1>1, <3>3, <3>5 DEF DrawerRecord
      <3> HIDE DEF y
      <3>7. ChainSound(y)
        BY <2>4, <3>3, <3>6 DEF ChainSound
      <3>8. QED
        BY <1>4, <2>1, <3>4, <3>6, <3>7
    <2>5. QED
      BY <2>3, <2>4
  <1>8. ASSUME NEW edit \in BOOLEAN, ResolveInput(r, edit)
        PROVE  ImagesInv'
    <2> DEFINE y == [d EXCEPT !.at = "call", !.attached = FALSE, !.edit = edit, !.models = {}, !.ideal = <<>>]
    <2>1. d.at = "input" /\ dropped' = dropped /\ drawer' = [drawer EXCEPT ![r] = y]
      BY <1>8 DEF ResolveInput, imageHistory, Move
    <2>2. y \in DrawerRecord /\ y.at = "call" /\ y.ask = d.ask /\ y.chain = d.chain
      BY <1>1 DEF DrawerRecord
    <2> HIDE DEF y
    <2>3. ChainSound(y)
      BY <1>1, <2>1, <2>2 DEF ChainSound
    <2>4. QED
      BY <1>4, <2>1, <2>2, <2>3
  <1>9. ASSUME NEW reply \in Reply, CallModel(r, reply)
        PROVE  ImagesInv'
    <2> DEFINE next == AfterReply(d.call, reply)
    <2>1. d.at = "call" /\ dropped' = dropped /\ d.chain # <<>> /\ d.chain \in Seq(ImageModel)
      BY <1>1, <1>9 DEF CallModel, imageHistory, ChainSound, DrawerRecord
    <2>2. next \in {"drawn", "failed", "next", "second", "plain"}
      BY DEF AfterReply
    <2>3. ASSUME Move(r, [NoDrawing EXCEPT !.at = "store", !.ask = d.ask])
          PROVE  ImagesInv'
      <3> DEFINE y == [NoDrawing EXCEPT !.at = "store", !.ask = d.ask]
      <3>1. drawer' = [drawer EXCEPT ![r] = y]
        BY <2>3 DEF Move
      <3>2. d.ask \in 0..MaxAsks
        BY <1>1 DEF DrawerRecord
      <3>3. y \in DrawerRecord /\ y.at = "store" /\ y.ask = d.ask
        BY <3>2, IdleDrawing DEF DrawerRecord
      <3> HIDE DEF y
      <3>4. ChainSound(y)
        BY <3>3 DEF ChainSound
      <3>5. QED
        BY <1>4, <2>1, <3>1, <3>3, <3>4
    <2>4. ASSUME Len(d.chain) # 1, Move(r, [d EXCEPT !.chain = Tail(@), !.call = "first"])
          PROVE  ImagesInv'
      <3> DEFINE y == [d EXCEPT !.chain = Tail(d.chain), !.call = "first"]
      <3>1. drawer' = [drawer EXCEPT ![r] = y]
        BY <2>4 DEF Move
      <3>2. Tail(d.chain) \in Seq(ImageModel) /\ Tail(d.chain) # <<>>
        BY <2>1, <2>4, TailOfMore
      <3>3. y \in DrawerRecord /\ y.at = "call" /\ y.ask = d.ask /\ y.chain = Tail(d.chain)
        BY <1>1, <2>1, <3>2 DEF DrawerRecord
      <3> HIDE DEF y
      <3>4. ChainSound(y)
        BY <3>2, <3>3 DEF ChainSound
      <3>5. QED
        BY <1>4, <2>1, <3>1, <3>3, <3>4
    <2>5. ASSUME next \in {"second", "plain"}, Move(r, [d EXCEPT !.call = next])
          PROVE  ImagesInv'
      <3> HIDE DEF next
      <3> DEFINE y == [d EXCEPT !.call = next]
      <3>1. drawer' = [drawer EXCEPT ![r] = y]
        BY <2>5 DEF Move
      <3>2. y \in DrawerRecord /\ y.at = "call" /\ y.ask = d.ask /\ y.chain = d.chain
        BY <1>1, <2>1, <2>5 DEF DrawerRecord
      <3> HIDE DEF y
      <3>3. ChainSound(y)
        BY <2>1, <3>2 DEF ChainSound
      <3>4. QED
        BY <1>4, <2>1, <3>1, <3>2, <3>3
    <2> HIDE DEF next
    <2>6. \/ Move(r, [NoDrawing EXCEPT !.at = "store", !.ask = d.ask])
          \/ Move(r, NoDrawing)
          \/ Len(d.chain) # 1 /\ Move(r, [d EXCEPT !.chain = Tail(@), !.call = "first"])
          \/ next \in {"second", "plain"} /\ Move(r, [d EXCEPT !.call = next])
      BY <1>9, <2>2 DEF CallModel, next
    <2>7. QED
      BY <1>5, <2>1, <2>3, <2>4, <2>5, <2>6
  <1>10. ASSUME FailDrawing(r)
         PROVE  ImagesInv'
    <2>1. /\ drawer' = [drawer EXCEPT ![r] = NoDrawing]
          /\ dropped' = dropped \union
               (IF d.at = "save" THEN {Own(r)} ELSE IF d.at = "answer" THEN {Answer(r)} ELSE {})
      BY <1>10 DEF FailDrawing, Move
    <2>2. dropped' \subseteq RowId
      BY <1>2, <1>3, <2>1
    <2>3. QED
      BY <1>3, <2>1, <2>2, IdleDrawing, RequestThinks
  <1>11. QED
    BY <1>6, <1>7, <1>8, <1>9, <1>10

\* What a request is and owns while it is not idle.
LEMMA OfRequest ==
  ASSUME ImagesInv, NEW r \in Drawer, drawer[r].at # "idle"
  PROVE  /\ drawer[r] \in DrawerRecord /\ RequestSound(r) /\ drawer[r].ask \in 1..asks
         /\ Own(r) \in RowId /\ Answer(r) \in RowId /\ Own(r) # Answer(r)
         /\ RowSound(Own(r)) /\ RowSound(Answer(r))
         /\ bucket \subseteq RowId /\ row \in [RowId -> RowRecord] /\ dropped \subseteq RowId
         /\ \A y : drawer' = [drawer EXCEPT ![r] = y] =>
              /\ drawer'[r] = y /\ \A s \in Drawer : s # r => drawer'[s] = drawer[s]
              /\ y.ask = drawer[r].ask => Own(r)' = Own(r) /\ Answer(r)' = Answer(r)
  <1>1. RequestSound(r) /\ ImagesTypes
    BY DEF ImagesInv, RequestsSound
  <1>2. drawer \in [Drawer -> DrawerRecord] /\ drawer[r].ask \in 1..asks
    BY <1>1 DEF ImagesTypes, RequestSound
  <1>3. Own(r) \in RowId /\ Answer(r) \in RowId /\ Own(r) # Answer(r)
    BY <1>1, <1>2, RowNames
  <1>4. ASSUME NEW y, drawer' = [drawer EXCEPT ![r] = y]
        PROVE  /\ drawer'[r] = y /\ \A s \in Drawer : s # r => drawer'[s] = drawer[s]
               /\ y.ask = drawer[r].ask => Own(r)' = Own(r) /\ Answer(r)' = Answer(r)
    BY <1>2, <1>4 DEF Own, Answer
  <1>5. QED
    BY <1>1, <1>2, <1>3, <1>4 DEF ImagesInv, ImagesTypes, RowsSound

\* Of a row that nobody has seen, it is sound to store the object before the row.
LEMMA StoredIsSound ==
  ASSUME NEW id, row'[id] = NoRow, id \in bucket' => Pending(id)'
  PROVE  RowSound(id)'
  BY DEF RowSound, Linked, NoRow

LEMMA ImagesOfUpload ==
  ASSUME ImagesInv, NEW r \in Drawer, NEW ok \in BOOLEAN, UploadInput(r, ok)
  PROVE  ImagesInv'
  <1> DEFINE d == drawer[r]
             y == [d EXCEPT !.at = "save", !.image = IF d.attached THEN Persisted(ok) ELSE "none"]
             id == Own(r)
  <1>1. d.at = "upload" /\ UNCHANGED <<tick, row, asks, cleanup, undeleted, dropped, cutShort>>
    BY DEF UploadInput, imageHistory
  <1>2. /\ d \in DrawerRecord /\ RequestSound(r) /\ d.ask \in 1..asks
        /\ Own(r) \in RowId /\ Answer(r) \in RowId /\ Own(r) # Answer(r) /\ RowSound(Answer(r))
        /\ bucket \subseteq RowId /\ row \in [RowId -> RowRecord] /\ dropped \subseteq RowId
    BY <1>1, OfRequest
  <1>3. d.image = "none" /\ row[id] = NoRow /\ id \notin bucket /\ row[Answer(r)] = NoRow /\ Answer(r) \notin bucket
    BY <1>1, <1>2 DEF RequestSound
  <1>4. drawer' = [drawer EXCEPT ![r] = y]
    <2>1. CASE d.attached
      BY <2>1 DEF UploadInput, Move
    <2>2. CASE ~d.attached
      <3>1. y = [d EXCEPT !.at = "save"]
        BY <1>2, <1>3, <2>2 DEF DrawerRecord
      <3>2. QED
        BY <2>2, <3>1 DEF UploadInput, Move
    <2>3. QED
      BY <2>1, <2>2
  <1>5. bucket' = IF d.attached /\ ok THEN bucket \cup {id} ELSE bucket
    BY DEF UploadInput
  <1>6. Persisted(ok) = IF ok THEN "key" ELSE "inline"
    BY DEF Persisted
  <1>7. /\ y \in DrawerRecord /\ y.at = "save" /\ y.ask = d.ask
        /\ y.image = IF d.attached THEN (IF ok THEN "key" ELSE "inline") ELSE "none"
    BY <1>2, <1>6 DEF DrawerRecord, ImageKinds
  <1>8. id \in bucket' <=> y.image = "key"
    BY <1>3, <1>5, <1>7
  <1> HIDE DEF y
  <1>9. drawer'[r] = y /\ Own(r)' = Own(r) /\ Answer(r)' = Answer(r)
    BY <1>1, <1>4, <1>7, OfRequest
  <1>10. Answer(r) \notin bucket'
    BY <1>2, <1>3, <1>5
  <1>11. RequestSound(r)'
    BY <1>1, <1>2, <1>3, <1>7, <1>8, <1>9, <1>10 DEF RequestSound, ChainSound
  <1>12. \A x \in {Own(r), Answer(r)} : RowSound(x)'
    <2>1. row'[Answer(r)] = NoRow
      BY <1>1, <1>3
    <2>2. \A x : x = Answer(r) => RowSound(x)'
      BY <1>10, <2>1, StoredIsSound
    <2>3. \A x : x = id => RowSound(x)'
      BY <1>1, <1>3, <1>7, <1>9, StoredIsSound DEF Pending
    <2>4. QED
      BY <2>2, <2>3
  <1>13. bucket' \subseteq RowId /\ \A x \in RowId : x \notin {Own(r), Answer(r)} \/ row[x] # NoRow =>
                                      (x \in bucket' <=> x \in bucket)
    BY <1>2, <1>3, <1>5
  <1>14. row' \in [RowId -> RowRecord] /\ dropped' \subseteq RowId /\ dropped \subseteq dropped'
    BY <1>1, <1>2
  <1>15. QED
    BY <1>1, <1>4, <1>7, <1>11, <1>12, <1>13, <1>14, RequestMoves

LEMMA ImagesOfRequest ==
  ASSUME ImagesInv, NEW r \in Drawer, SaveRequest(r)
  PROVE  ImagesInv'
  <1> DEFINE d == drawer[r]
             y == [d EXCEPT !.at = "choose", !.image = "none"]
             new == [image |-> d.image, at |-> tick]
  <1>1. d.at = "save" /\ UNCHANGED <<tick, bucket, asks, cleanup, undeleted, dropped, cutShort>>
        /\ drawer' = [drawer EXCEPT ![r] = y] /\ row' = [row EXCEPT ![Own(r)] = new]
    BY DEF SaveRequest, imageHistory, Move
  <1>2. /\ d \in DrawerRecord /\ RequestSound(r) /\ d.ask \in 1..asks
        /\ Own(r) \in RowId /\ Answer(r) \in RowId /\ Own(r) # Answer(r) /\ RowSound(Answer(r))
        /\ bucket \subseteq RowId /\ row \in [RowId -> RowRecord] /\ dropped \subseteq RowId
    BY <1>1, OfRequest
  <1>3. /\ row[Own(r)] = NoRow /\ (Own(r) \in bucket <=> d.image = "key")
        /\ row[Answer(r)] = NoRow /\ Answer(r) \notin bucket
    BY <1>1, <1>2 DEF RequestSound
  <1>4. new \in RowRecord /\ new.image = d.image /\ new.at = tick /\ tick >= 0
    BY <1>2, ImagesAssumption DEF RowRecord, DrawerRecord, ImagesInv, ImagesTypes, ImageTimes
  <1>5. y \in DrawerRecord /\ y.at = "choose" /\ y.ask = d.ask
    BY <1>2 DEF DrawerRecord, ImageKinds
  <1> HIDE DEF y, new
  <1>6. drawer'[r] = y /\ Own(r)' = Own(r) /\ Answer(r)' = Answer(r)
    BY <1>1, <1>5, OfRequest
  <1>7. row' \in [RowId -> RowRecord] /\ row'[Own(r)] = new /\ \A x \in RowId : x # Own(r) => row'[x] = row[x]
    BY <1>1, <1>2, <1>4
  <1>8. RequestSound(r)'
    BY <1>1, <1>2, <1>3, <1>5, <1>6, <1>7 DEF RequestSound, ChainSound
  <1>9. ASSUME NEW x, x = Own(r)
        PROVE  RowSound(x)'
    BY <1>1, <1>2, <1>3, <1>4, <1>7, <1>9 DEF RowSound, Linked, RowId, Own
  <1>10. ASSUME NEW x, x = Answer(r)
         PROVE  RowSound(x)'
    BY <1>1, <1>2, <1>3, <1>7, <1>10, StoredIsSound
  <1>11. \A x \in {Own(r), Answer(r)} : RowSound(x)'
    BY <1>9, <1>10
  <1>12. \A x \in RowId : x \notin {Own(r), Answer(r)} \/ row[x] # NoRow =>
                            row'[x] = row[x] /\ (x \in bucket' <=> x \in bucket)
    BY <1>1, <1>3, <1>7
  <1>13. bucket' \subseteq RowId /\ dropped' \subseteq RowId /\ dropped \subseteq dropped'
    BY <1>1, <1>2
  <1>14. QED
    BY <1>1, <1>5, <1>7, <1>8, <1>11, <1>12, <1>13, RequestMoves

LEMMA ImagesOfStore ==
  ASSUME ImagesInv, NEW r \in Drawer, NEW ok \in BOOLEAN, StoreImage(r, ok)
  PROVE  ImagesInv'
  <1> DEFINE d == drawer[r]
             y == [d EXCEPT !.at = "answer", !.image = IF ok THEN "key" ELSE "inline"]
  <1>1. d.at = "store" /\ UNCHANGED <<tick, row, asks, cleanup, undeleted, dropped, cutShort>>
        /\ drawer' = [drawer EXCEPT ![r] = y] /\ bucket' = IF ok THEN bucket \cup {Answer(r)} ELSE bucket
    BY DEF StoreImage, imageHistory, Move, Persisted
  <1>2. /\ d \in DrawerRecord /\ RequestSound(r) /\ d.ask \in 1..asks
        /\ Own(r) \in RowId /\ Answer(r) \in RowId /\ Own(r) # Answer(r) /\ RowSound(Own(r))
        /\ bucket \subseteq RowId /\ row \in [RowId -> RowRecord] /\ dropped \subseteq RowId
    BY <1>1, OfRequest
  <1>3. row[Answer(r)] = NoRow /\ Answer(r) \notin bucket
    BY <1>1, <1>2 DEF RequestSound
  <1>4. y \in DrawerRecord /\ y.at = "answer" /\ y.ask = d.ask /\ y.image = IF ok THEN "key" ELSE "inline"
    BY <1>2 DEF DrawerRecord, ImageKinds
  <1> HIDE DEF y
  <1>5. drawer'[r] = y /\ (\A s \in Drawer : s # r => drawer'[s] = drawer[s])
        /\ Own(r)' = Own(r) /\ Answer(r)' = Answer(r)
    BY <1>1, <1>4, OfRequest
  <1>6. Answer(r) \in bucket' <=> y.image = "key"
    BY <1>1, <1>3, <1>4
  <1>7. RequestSound(r)'
    BY <1>1, <1>2, <1>3, <1>4, <1>5, <1>6 DEF RequestSound, ChainSound
  <1>8. ASSUME NEW x, x = Answer(r)
        PROVE  RowSound(x)'
    BY <1>1, <1>3, <1>4, <1>5, <1>8, StoredIsSound DEF Pending
  <1>9. ASSUME NEW x, x = Own(r)
        PROVE  RowSound(x)'
    <2>1. RowSound(x) /\ (x \in bucket' <=> x \in bucket)
      BY <1>1, <1>2, <1>9
    <2>2. Pending(x) => Pending(x)'
      BY <1>1, <1>5 DEF Pending, Own, Answer
    <2>3. QED
      BY <1>1, <2>1, <2>2 DEF RowSound, Linked
  <1>10. \A x \in {Own(r), Answer(r)} : RowSound(x)'
    BY <1>8, <1>9
  <1>11. bucket' \subseteq RowId /\ \A x \in RowId : x \notin {Own(r), Answer(r)} \/ row[x] # NoRow =>
                                      (x \in bucket' <=> x \in bucket)
    BY <1>1, <1>2, <1>3
  <1>12. row' \in [RowId -> RowRecord] /\ dropped' \subseteq RowId /\ dropped \subseteq dropped'
    BY <1>1, <1>2
  <1>13. QED
    BY <1>1, <1>4, <1>7, <1>10, <1>11, <1>12, RequestMoves

LEMMA ImagesOfAnswer ==
  ASSUME ImagesInv, NEW r \in Drawer, SaveDrawing(r)
  PROVE  ImagesInv'
  <1> DEFINE d == drawer[r]
             new == [image |-> d.image, at |-> tick]
  <1>1. d.at = "answer" /\ UNCHANGED <<tick, bucket, asks, cleanup, undeleted, dropped, cutShort>>
        /\ drawer' = [drawer EXCEPT ![r] = NoDrawing] /\ row' = [row EXCEPT ![Answer(r)] = new]
    BY DEF SaveDrawing, imageHistory, Move
  <1>2. /\ d \in DrawerRecord /\ RequestSound(r) /\ d.ask \in 1..asks
        /\ Own(r) \in RowId /\ Answer(r) \in RowId /\ Own(r) # Answer(r) /\ RowSound(Own(r))
        /\ bucket \subseteq RowId /\ row \in [RowId -> RowRecord] /\ dropped \subseteq RowId
    BY <1>1, OfRequest
  <1>3. row[Answer(r)] = NoRow /\ d.image # "none" /\ (Answer(r) \in bucket <=> d.image = "key")
    BY <1>1, <1>2 DEF RequestSound
  <1>4. new \in RowRecord /\ new.image = d.image /\ new.at = tick /\ tick >= 0
    BY <1>2, ImagesAssumption DEF RowRecord, DrawerRecord, ImagesInv, ImagesTypes, ImageTimes
  <1> HIDE DEF new
  <1>5. drawer'[r] = NoDrawing /\ \A s \in Drawer : s # r => drawer'[s] = drawer[s]
    BY <1>1, OfRequest
  <1>6. row' \in [RowId -> RowRecord] /\ row'[Answer(r)] = new /\ \A x \in RowId : x # Answer(r) => row'[x] = row[x]
    BY <1>1, <1>2, <1>4
  <1>7. RequestSound(r)'
    BY <1>5, IdleDrawing DEF RequestSound, ChainSound
  <1>8. ASSUME NEW x, x = Answer(r)
        PROVE  RowSound(x)'
    BY <1>1, <1>3, <1>4, <1>6, <1>8 DEF RowSound, Linked
  <1>9. ASSUME NEW x, x = Own(r)
        PROVE  RowSound(x)'
    <2>1. RowSound(x) /\ row'[x] = row[x]
      BY <1>2, <1>6, <1>9
    <2>2. Pending(x) => Pending(x)'
      <3> SUFFICES ASSUME Pending(x)
                   PROVE  Pending(x)'
        OBVIOUS
      <3>1. PICK s \in Drawer : \/ drawer[s].at = "save" /\ x = Own(s)
                                \/ drawer[s].at = "answer" /\ x = Answer(s)
        BY DEF Pending
      <3>2. s # r
        BY <1>1, <1>2, <1>9, <3>1
      <3>3. QED
        BY <1>5, <3>1, <3>2 DEF Pending, Own, Answer
    <2>3. QED
      BY <1>1, <2>1, <2>2 DEF RowSound, Linked
  <1>10. \A x \in {Own(r), Answer(r)} : RowSound(x)'
    BY <1>8, <1>9
  <1>11. \A x \in RowId : x \notin {Own(r), Answer(r)} \/ row[x] # NoRow =>
                            row'[x] = row[x] /\ (x \in bucket' <=> x \in bucket)
    BY <1>1, <1>3, <1>6
  <1>12. bucket' \subseteq RowId /\ dropped' \subseteq RowId /\ dropped \subseteq dropped'
    BY <1>1, <1>2
  <1>13. QED
    BY <1>1, <1>6, <1>7, <1>10, <1>11, <1>12, IdleDrawing, RequestMoves

LEMMA ImagesOfAsk ==
  ASSUME ImagesInv, NEW r \in Drawer, NEW attached \in BOOLEAN, AskForImage(r, attached)
  PROVE  ImagesInv'
  <1> DEFINE n == asks + 1
             y == [NoDrawing EXCEPT !.at = "upload", !.ask = n, !.attached = attached]
  <1>1. drawer[r].at = "idle" /\ asks < MaxAsks /\ asks' = n /\ drawer' = [drawer EXCEPT ![r] = y]
        /\ UNCHANGED <<tick, bucket, row, cleanup, undeleted, dropped, cutShort>>
    BY DEF AskForImage, rows, imageHistory, Move
  <1>2. ImagesTypes /\ asks \in Nat /\ MaxAsks \in Nat
    BY ImagesAssumption DEF ImagesInv, ImagesTypes
  <1>3. n \in 0..MaxAsks /\ n \in 1..n /\ asks < n /\ 1..asks \subseteq 1..n
    BY <1>1, <1>2
  <1> HIDE DEF n
  <1>4. y \in DrawerRecord /\ y.at = "upload" /\ y.ask = n /\ y.image = "none"
    BY <1>3, IdleDrawing DEF DrawerRecord, NoDrawing
  <1> HIDE DEF y
  <1>5. drawer'[r] = y /\ \A s \in Drawer : s # r => drawer'[s] = drawer[s]
    BY <1>1, <1>2 DEF ImagesTypes
  <1>6. \A s \in Drawer : s # r => /\ Own(s)' = Own(s) /\ Answer(s)' = Answer(s)
    BY <1>5 DEF Own, Answer
  <1>7. ImagesTypes'
    BY <1>1, <1>2, <1>3, <1>4 DEF ImagesTypes
  <1>8. RequestsApart'
    <2>1. \A s \in Drawer : drawer[s].at # "idle" => drawer[s].ask # n
      BY <1>2, <1>3 DEF ImagesInv, RequestsSound, RequestSound
    <2>2. QED
      BY <1>4, <1>5, <2>1 DEF ImagesInv, RequestsApart
  <1>9. Unasked'
    <2>1. \A id \in RowId : id[1] \in Int
      BY <1>2 DEF RowId, Ask
    <2>2. \A id \in RowId : id[1] > n => id[1] > asks
      BY <1>2, <1>3, <2>1
    <2>3. QED
      BY <1>1, <2>2 DEF ImagesInv, Unasked, n
  <1>10. RequestSound(r)'
    <2>1. Own(r)' = <<n, "USER">> /\ Answer(r)' = <<n, "ASSISTANT">>
      BY <1>4, <1>5 DEF Own, Answer
    <2>2. n \in Ask
      BY <1>2, <1>3 DEF Ask
    <2>3. <<n, "USER">> \in RowId /\ <<n, "ASSISTANT">> \in RowId
      BY <2>2 DEF RowId
    <2>4. \A id \in {<<n, "USER">>, <<n, "ASSISTANT">>} : row[id] = NoRow /\ id \notin bucket
      BY <1>2, <1>3, <2>3 DEF ImagesInv, Unasked
    <2>5. drawer'[r].ask \in 1..asks'
      BY <1>1, <1>3, <1>4, <1>5
    <2>6. QED
      BY <1>1, <1>4, <1>5, <2>1, <2>4, <2>5 DEF RequestSound, ChainSound
  <1>11. ASSUME NEW s \in Drawer, s # r
         PROVE  RequestSound(s)'
    <2>1. RequestSound(s) /\ drawer'[s] = drawer[s]
      BY <1>5, <1>11 DEF ImagesInv, RequestsSound
    <2>2. drawer[s].at # "idle" => drawer[s].ask \in 1..asks'
      BY <1>1, <1>3, <2>1 DEF RequestSound
    <2>3. QED
      BY <1>1, <1>6, <1>11, <2>1, <2>2 DEF RequestSound, ChainSound
  <1>12. RowsSound'
    <2> SUFFICES ASSUME NEW id \in RowId
                 PROVE  RowSound(id)'
      BY DEF RowsSound
    <2>1. RowSound(id)
      BY DEF ImagesInv, RowsSound
    <2>2. Pending(id) => Pending(id)'
      BY <1>1, <1>5 DEF Pending, Own, Answer
    <2>3. QED
      BY <1>1, <2>1, <2>2 DEF RowSound, Linked
  <1>13. CleanupSound'
    BY <1>1 DEF ImagesInv, CleanupSound
  <1>14. QED
    BY <1>7, <1>8, <1>9, <1>10, <1>11, <1>12, <1>13 DEF ImagesInv, RequestsSound

\* The job touches rows that were saved, and no request.
LEMMA ImagesOfCleanup ==
  ASSUME ImagesInv,
         CleanSelect \/ (\E ok \in BOOLEAN : CleanDelete(ok)) \/ CleanClear \/ CleanDies
  PROVE  ImagesInv'
  <1>1. /\ ImagesTypes /\ cleanup \in CleanupRecord /\ row \in [RowId -> RowRecord]
        /\ RequestsSound /\ CleanupSound /\ RowsSound
    BY DEF ImagesInv, ImagesTypes
  <1>2. UNCHANGED <<tick, drawer, asks, dropped>>
    BY DEF CleanSelect, CleanDelete, CleanClear, CleanDies, imageHistory
  <1> DEFINE id == cleanup.of
             Old(x) == row[x].at >= 0 /\ row[x].at < tick - ImageDay
  <1>3. \A r \in Drawer : Own(r)' = Own(r) /\ Answer(r)' = Answer(r)
    BY <1>2 DEF Own, Answer
  <1>4. \A x : Pending(x)' <=> Pending(x)
    BY <1>2, <1>3 DEF Pending
  \* A row that was saved is nobody's but the job's.
  <1>5. \A x \in RowId : row[x].at >= 0 =>
          /\ row[x] # NoRow /\ ~Pending(x) /\ ~(x[1] > asks)
    <2> SUFFICES ASSUME NEW x \in RowId, row[x].at >= 0
                 PROVE  row[x] # NoRow /\ ~Pending(x) /\ ~(x[1] > asks)
      OBVIOUS
    <2>1. row[x] # NoRow
      BY DEF NoRow
    <2>2. ~Pending(x)
      BY <1>1, <2>1 DEF Pending, RequestsSound, RequestSound
    <2>3. QED
      BY <2>1, <2>2 DEF ImagesInv, Unasked
  \* What a step on a saved row leaves to be shown.
  <1>6. ASSUME NEW x \in RowId, row[x].at >= 0,
               \A z \in RowId : z # x => row'[z] = row[z] /\ (z \in bucket' <=> z \in bucket),
               x \in bucket' => x \in bucket, row'[x].at = row[x].at, bucket' \subseteq RowId
        PROVE  RequestsSound' /\ Unasked' /\ RequestsApart'
    <2>1. \A z \in RowId : row[z] = NoRow /\ z \notin bucket => row'[z] = NoRow /\ z \notin bucket'
      BY <1>5, <1>6
    <2>2. \A z \in RowId : row[z] = NoRow => row'[z] = NoRow /\ (z \in bucket' <=> z \in bucket)
      BY <1>5, <1>6
    <2>3. RequestsSound'
      <3> SUFFICES ASSUME NEW r \in Drawer
                   PROVE  RequestSound(r)'
        BY DEF RequestsSound
      <3>1. RequestSound(r) /\ drawer'[r] = drawer[r] /\ Own(r)' = Own(r) /\ Answer(r)' = Answer(r)
        BY <1>1, <1>2, <1>3 DEF RequestsSound
      <3>2. drawer[r].at # "idle" => Own(r) \in RowId /\ Answer(r) \in RowId
        BY <1>1, <3>1, RowNames DEF RequestSound
      <3>3. QED
        BY <1>2, <2>2, <3>1, <3>2 DEF RequestSound, ChainSound
    <2>4. Unasked' /\ RequestsApart'
      BY <1>2, <2>1 DEF ImagesInv, Unasked, RequestsApart
    <2>5. QED
      BY <2>3, <2>4
  <1>7. ASSUME bucket' = bucket, row' = row
        PROVE  RequestsSound' /\ Unasked' /\ RequestsApart'
    <2>1. \A r \in Drawer : RequestSound(r)'
      BY <1>1, <1>2, <1>3, <1>7 DEF RequestsSound, RequestSound, ChainSound
    <2>2. QED
      BY <1>2, <1>7, <2>1 DEF ImagesInv, RequestsSound, Unasked, RequestsApart
  <1>8. CASE CleanSelect
    <2>1. PICK x \in {z \in RowId : Expired(z)} :
            cleanup' = [at |-> "delete", of |-> x, left |-> {z \in RowId : Expired(z)} \ {x}]
      BY <1>8 DEF CleanSelect
    <2>2. UNCHANGED <<bucket, row, undeleted, cutShort>> /\ cleanup.at = "idle"
      BY <1>8 DEF CleanSelect, rows, imageHistory
    <2>3. \A z \in RowId : Expired(z) => Old(z)
      BY <1>1 DEF Expired, RowsSound, RowSound
    <2>4. cleanup' \in CleanupRecord /\ cleanup'.at = "delete" /\ cleanup'.of \in RowId
          /\ \A z \in {cleanup'.of} \cup cleanup'.left : Old(z)
      BY <2>1, <2>3 DEF CleanupRecord
    <2>5. CleanupSound' /\ ImagesTypes'
      BY <1>1, <1>2, <2>2, <2>4 DEF CleanupSound, ImagesTypes
    <2>6. RowsSound'
      BY <1>1, <1>2, <1>4, <2>2 DEF RowsSound, RowSound, Linked
    <2>7. QED
      BY <1>7, <2>2, <2>5, <2>6 DEF ImagesInv

  <1>9. ASSUME NEW ok \in BOOLEAN, CleanDelete(ok)
        PROVE  ImagesInv'
    <2>1. /\ cleanup.at = "delete" /\ cleanup' = [cleanup EXCEPT !.at = "clear"] /\ UNCHANGED <<row, cutShort>>
          /\ bucket' = bucket \/ (bucket' = bucket \ {id} /\ undeleted' = undeleted /\ row[id].image = "key")
          /\ undeleted' = undeleted \/ undeleted' = undeleted \cup {id}
          /\ row[id].image = "key" => id \notin bucket' \/ id \in undeleted'
      BY <1>9 DEF CleanDelete, Deletes
    <2>2. id \in RowId /\ Old(id) /\ \A x \in cleanup.left : Old(x)
      BY <1>1, <2>1 DEF CleanupSound
    <2>3. /\ cleanup' \in CleanupRecord /\ cleanup'.at = "clear" /\ cleanup'.of = id /\ cleanup'.left = cleanup.left
      BY <1>1, <2>1 DEF CleanupRecord
    <2>4. /\ bucket' \subseteq bucket /\ bucket \subseteq RowId
          /\ undeleted \subseteq RowId /\ undeleted \subseteq undeleted'
      BY <1>1, <2>1 DEF ImagesTypes
    <2>5. RequestsSound' /\ Unasked' /\ RequestsApart'
      <3>1. CASE bucket' = bucket
        BY <1>7, <2>1, <3>1
      <3>2. CASE bucket' = bucket \ {id}
        BY <1>6, <2>1, <2>2, <2>4, <3>2
      <3>3. QED
        BY <2>1, <3>1, <3>2
    <2>6. id \notin bucket' \/ id \in undeleted' \cup dropped
      <3>1. CASE row[id].image = "key"
        BY <2>1, <3>1
      <3>2. CASE row[id].image # "key"
        BY <1>1, <1>5, <2>2, <2>4, <3>2 DEF RowsSound, RowSound, Linked
      <3>3. QED
        BY <3>1, <3>2
    <2>7. CleanupSound'
      BY <1>2, <2>1, <2>2, <2>3, <2>6 DEF CleanupSound
    <2>8. ImagesTypes'
      <3>1. bucket' \subseteq RowId /\ undeleted' \subseteq RowId
        BY <2>1, <2>2, <2>4
      <3>2. QED
        BY <1>1, <1>2, <2>1, <2>3, <3>1 DEF ImagesTypes
    <2>9. RowsSound'
      <3> SUFFICES ASSUME NEW x \in RowId
                   PROVE  RowSound(x)'
        BY DEF RowsSound
      <3>1. RowSound(x)
        BY <1>1 DEF RowsSound
      <3>2. CASE x = id
        <4>1. Linked(x)' => cleanup'.at = "clear" /\ cleanup'.of = x
          BY <2>3, <3>2
        <4>2. x \in bucket' => x \in undeleted' \cup dropped'
          BY <1>2, <2>6, <3>2
        <4>3. QED
          BY <1>2, <2>1, <3>1, <4>1, <4>2 DEF RowSound
      <3>3. CASE x # id
        BY <1>2, <1>4, <2>1, <2>4, <3>1, <3>3 DEF RowSound, Linked
      <3>4. QED
        BY <3>2, <3>3
    <2>10. QED
      BY <2>5, <2>7, <2>8, <2>9 DEF ImagesInv
  <1>10. CASE CleanClear
    <2>1. /\ cleanup.at = "clear" /\ row' = [row EXCEPT ![id].image = "none"]
          /\ UNCHANGED <<bucket, undeleted, cutShort>>
          /\ \/ cleanup' = NoCleanup
             \/ \E x \in cleanup.left : cleanup' = [at |-> "delete", of |-> x, left |-> cleanup.left \ {x}]
      BY <1>10 DEF CleanClear, imageHistory
    <2>2. id \in RowId /\ Old(id) /\ (\A x \in cleanup.left : Old(x)) /\ cleanup.left \subseteq RowId
          /\ (id \in bucket => id \in undeleted \cup dropped)
      BY <1>1, <2>1 DEF CleanupSound, CleanupRecord
    <2> DEFINE new == [row[id] EXCEPT !.image = "none"]
    <2>3. row[id] \in RowRecord /\ row' = [row EXCEPT ![id] = new]
      BY <1>1, <2>1, <2>2
    <2>4. new \in RowRecord /\ new.at = row[id].at /\ new.image = "none"
      BY <2>3 DEF RowRecord, ImageKinds
    <2> HIDE DEF new
    <2>5. /\ row' \in [RowId -> RowRecord] /\ row'[id] = new /\ \A x \in RowId : x # id => row'[x] = row[x]
      BY <1>1, <2>2, <2>3, <2>4
    <2>6. \A x \in RowId : row'[x].at = row[x].at
      BY <2>4, <2>5
    <2> DEFINE GoesOn == /\ cleanup' \in CleanupRecord /\ cleanup'.at # "clear"
                         /\ cleanup'.at # "idle" =>
                              /\ cleanup'.of \in RowId
                              /\ \A x \in {cleanup'.of} \cup cleanup'.left : x \in RowId /\ Old(x)
    <2>7. GoesOn
      <3>1. CASE cleanup' = NoCleanup
        BY <3>1, IdleDrawing
      <3>2. ASSUME NEW x \in cleanup.left, cleanup' = [at |-> "delete", of |-> x, left |-> cleanup.left \ {x}]
            PROVE  GoesOn
        BY <2>2, <3>2 DEF CleanupRecord
      <3>3. QED
        BY <2>1, <3>1, <3>2
    <2>8. CleanupSound'
      BY <1>2, <2>6, <2>7 DEF CleanupSound
    <2>9. ImagesTypes'
      BY <1>1, <1>2, <2>1, <2>5, <2>7 DEF ImagesTypes
    <2>10. RequestsSound' /\ Unasked' /\ RequestsApart'
      <3>1. bucket' \subseteq RowId
        BY <2>9 DEF ImagesTypes
      <3>2. QED
        BY <1>6, <2>1, <2>2, <2>5, <2>6, <3>1
    <2>11. RowsSound'
      <3> SUFFICES ASSUME NEW x \in RowId
                   PROVE  RowSound(x)'
        BY DEF RowsSound
      <3>1. RowSound(x)
        BY <1>1 DEF RowsSound
      <3>2. CASE x = id
        <4>1. row'[x].image = "none" /\ row'[x].at < tick - ImageDay /\ row'[x].at \in Int
          BY <1>1, <2>2, <2>4, <2>5, <3>2 DEF RowRecord
        <4>2. tick - ImageDay \in Int
          BY <1>1, ImagesAssumption DEF ImagesTypes, ImageTimes
        <4>3. ~(row'[x].at >= tick - ImageDay)
          BY <4>1, <4>2
        <4>4. QED
          BY <1>2, <2>1, <2>2, <3>2, <4>1, <4>3 DEF RowSound, Linked
      <3>3. CASE x # id
        BY <1>2, <1>4, <2>1, <2>5, <3>1, <3>3 DEF RowSound, Linked
      <3>4. QED
        BY <3>2, <3>3
    <2>12. QED
      BY <2>8, <2>9, <2>10, <2>11 DEF ImagesInv
  <1>11. CASE CleanDies
    <2>1. /\ UNCHANGED <<bucket, row, undeleted>> /\ cleanup' = NoCleanup /\ cleanup.at # "idle"
          /\ cutShort' = IF cleanup.at = "clear" THEN cutShort \union {id} ELSE cutShort
      BY <1>11 DEF CleanDies, rows
    <2>2. id \in RowId
      BY <1>1, <2>1 DEF CleanupSound
    <2>3. ImagesTypes' /\ CleanupSound'
      BY <1>1, <1>2, <2>1, <2>2, IdleDrawing DEF ImagesTypes, CleanupSound
    <2>4. RowsSound'
      BY <1>1, <1>2, <1>4, <2>1, IdleDrawing DEF RowsSound, RowSound, Linked
    <2>5. QED
      BY <1>7, <2>1, <2>3, <2>4 DEF ImagesInv
  <1>12. QED
    BY <1>8, <1>9, <1>10, <1>11

LEMMA ImagesOfTick == ImagesInv /\ TickImages => ImagesInv'
  <1> SUFFICES ASSUME ImagesInv, TickImages PROVE ImagesInv'
    OBVIOUS
  <1>1. /\ tick' = tick + 1 /\ tick < MaxTicks /\ tick \in 0..MaxTicks /\ MaxTicks \in Nat /\ ImageDay \in Nat
        /\ UNCHANGED <<bucket, row, drawer, asks, cleanup, undeleted, dropped, cutShort>>
    BY ImagesAssumption DEF TickImages, rows, imageHistory, ImagesInv, ImagesTypes, ImageTimes
  <1>2. ImagesTypes'
    BY <1>1 DEF ImagesInv, ImagesTypes, ImageTimes
  <1>3. RequestsSound' /\ RequestsApart' /\ Unasked'
    <2>1. \A r \in Drawer : RequestSound(r)'
      BY <1>1 DEF ImagesInv, RequestsSound, RequestSound, ChainSound, Own, Answer
    <2>2. QED
      BY <1>1, <2>1 DEF ImagesInv, RequestsSound, RequestsApart, Unasked
  <1>4. \A id \in RowId : row[id].at \in Int
    BY <1>1 DEF ImagesInv, ImagesTypes, RowRecord
  <1>5. \A n \in Int : /\ n < tick - ImageDay => n < tick' - ImageDay
                       /\ n >= tick' - ImageDay => n >= tick - ImageDay
    BY <1>1
  <1>6. CleanupSound'
    <2>1. cleanup.left \subseteq RowId
      BY DEF ImagesInv, ImagesTypes, CleanupRecord
    <2>2. cleanup.at # "idle" =>
            /\ cleanup.of \in RowId
            /\ \A id \in {cleanup.of} \cup cleanup.left : row[id].at >= 0 /\ row[id].at < tick' - ImageDay
      BY <1>4, <1>5, <2>1 DEF ImagesInv, CleanupSound
    <2>3. QED
      BY <1>1, <2>2 DEF ImagesInv, CleanupSound
  <1>7. RowsSound'
    <2> SUFFICES ASSUME NEW id \in RowId
                 PROVE  RowSound(id)'
      BY DEF RowsSound
    <2>1. RowSound(id)
      BY DEF ImagesInv, RowsSound
    <2>2. Pending(id)' <=> Pending(id)
      BY <1>1 DEF Pending, Own, Answer
    <2>3. id[2] = "ASSISTANT" /\ row[id].at >= tick' - ImageDay /\ row[id].at >= 0 => row[id].image # "none"
      BY <1>4, <1>5, <2>1 DEF RowSound
    <2>4. QED
      BY <1>1, <2>1, <2>2, <2>3 DEF RowSound, Linked
  <1>8. QED
    BY <1>2, <1>3, <1>6, <1>7 DEF ImagesInv

LEMMA InitImages == ImagesInit => ImagesInv
  <1> SUFFICES ASSUME ImagesInit PROVE ImagesInv
    OBVIOUS
  <1>1. MaxAsks \in Nat /\ MaxTicks \in Nat
    BY ImagesAssumption
  <1>2. ImagesTypes
    BY <1>1, IdleDrawing DEF ImagesInit, ImagesTypes, ImageTimes
  <1>3. RequestsSound /\ RequestsApart
    BY IdleDrawing DEF ImagesInit, RequestsSound, RequestSound, ChainSound, RequestsApart
  <1>4. Unasked /\ CleanupSound
    BY IdleDrawing DEF ImagesInit, Unasked, CleanupSound
  <1>5. RowsSound
    BY DEF ImagesInit, RowsSound, RowSound, Linked, NoRow
  <1>6. QED
    BY <1>2, <1>3, <1>4, <1>5 DEF ImagesInv

LEMMA ImagesStep == [ChatNext]_chatVars => [ImagesNext]_imageVars
  BY DEF ChatNext, chatVars

LEMMA ImagesKept == ImagesInv /\ [ImagesNext]_imageVars => ImagesInv'
  <1> SUFFICES ASSUME ImagesInv, [ImagesNext]_imageVars PROVE ImagesInv'
    OBVIOUS
  <1>1. ASSUME NEW r \in Drawer, DrawerStep(r)
        PROVE  ImagesInv'
    BY <1>1, ImagesOfUpload, ImagesOfRequest, ImagesOfStore, ImagesOfAnswer, ImagesOfChoice DEF DrawerStep
  <1>2. CASE UNCHANGED imageVars
    <2>1. UNCHANGED <<tick, bucket, row, drawer, asks, cleanup, undeleted, dropped, cutShort>>
      BY <1>2 DEF imageVars, rows, imageHistory
    <2>2. \A r \in Drawer : RequestSound(r)'
      BY <2>1 DEF ImagesInv, RequestsSound, RequestSound, ChainSound, Own, Answer
    <2>3. \A id \in RowId : RowSound(id)'
      BY <2>1 DEF ImagesInv, RowsSound, RowSound, Linked, Pending, Own, Answer
    <2>4. ImagesTypes' /\ RequestsApart' /\ Unasked' /\ CleanupSound'
      BY <2>1 DEF ImagesInv, ImagesTypes, RequestsApart, Unasked, CleanupSound
    <2>5. QED
      BY <2>2, <2>3, <2>4 DEF ImagesInv, RequestsSound, RowsSound
  <1>3. QED
    BY <1>1, <1>2, ImagesOfAsk, ImagesOfCleanup, ImagesOfTick DEF ImagesNext

LEMMA ImagesHold == ImagesInv => PicturesAreKept
  <1> SUFFICES ASSUME ImagesInv PROVE PicturesAreKept
    OBVIOUS
  <1>1. ImagesTypeOK
    <2>1. \A r \in Drawer : drawer[r].ask \in 0..MaxAsks /\ Range(drawer[r].chain) \subseteq ImageModel
      <3> SUFFICES ASSUME NEW r \in Drawer
                   PROVE  drawer[r].ask \in 0..MaxAsks /\ Range(drawer[r].chain) \subseteq ImageModel
        OBVIOUS
      <3>1. drawer[r].ask \in 0..MaxAsks /\ drawer[r].chain \in Seq(ImageModel)
        BY DEF ImagesInv, ImagesTypes, DrawerRecord
      <3>2. QED
        BY <3>1 DEF Range
    <2>2. cleanup.left \subseteq RowId
      BY DEF ImagesInv, ImagesTypes, CleanupRecord
    <2>3. QED
      BY <2>1, <2>2 DEF ImagesInv, ImagesTypes, ImagesTypeOK, RowRecord, ImageKinds
  <1>2. NoDeadLinks /\ AnswersAreVisible
    BY DEF ImagesInv, RowsSound, RowSound, NoDeadLinks, AnswersAreVisible
  <1>3. ObjectsAreAccountedFor
    BY DEF ImagesInv, ImagesTypes, RowsSound, RowSound, Pending, ObjectsAreAccountedFor
  <1>4. NearestModelFirst
    <2> SUFFICES ASSUME NEW r \in Drawer, drawer[r].at \in {"afford", "input"}
                 PROVE  LET d == drawer[r]
                        IN  /\ Range(d.chain) = d.models /\ Len(d.chain) = Cardinality(d.models)
                            /\ d.ideal # <<>> =>
                                 \A m \in d.models : Score(m, d.ideal) =< Score(d.chain[1], d.ideal)
      BY DEF NearestModelFirst
    <2>1. drawer[r] \in DrawerRecord /\ ChainSound(drawer[r])
      BY DEF ImagesInv, ImagesTypes, RequestsSound, RequestSound
    <2>2. Range(drawer[r].chain) = drawer[r].models /\ Len(drawer[r].chain) = Cardinality(drawer[r].models)
      BY <2>1 DEF ChainSound
    <2>3. QED
      BY <2>1, <2>2, HeadIsBest
  <1>5. QED
    BY <1>1, <1>2, <1>3, <1>4 DEF PicturesAreKept

(* Whatever requests draw, edit and store at once, whichever of them fail, and wherever the
   cleanup job stops: no row links to an object that is gone, but while the job clears it or
   after the job died there; every object belongs to a row or to a request about to save one,
   unless its deletion or its request failed; an answer shows its picture for a day; and the
   model asked first is one that none of the affordable models suits better.
   (handleImageGeneration, rankImageModelCandidates, chat-image-cleanup.processor) *)
THEOREM PicturesAreKeptAlways == ChatSpec => []PicturesAreKept
  <1>1. ChatInit => ImagesInv
    BY InitImages DEF ChatInit
  <1>2. ImagesInv /\ [ChatNext]_chatVars => ImagesInv'
    BY ImagesStep, ImagesKept
  <1>3. QED
    BY <1>1, <1>2, ImagesHold, PTL DEF ChatSpec
=============================================================================
