------------------------------ MODULE ModelRouter ------------------------------
(***************************************************************************)
(* Which model answers a message (model-router.service.ts, called by       *)
(* streamChat of chat.service.ts): the message's tier, the models that can *)
(* answer it, and the plan's budget steps, which are cached in Redis like  *)
(* the router's own configuration.                                         *)
(*                                                                         *)
(* A message is a record of what the heuristic looks at; the classifying   *)
(* model is a nondeterministic tier or a failure.                          *)
(***************************************************************************)
EXTENDS Integers, Sequences, FiniteSets

CONSTANTS
  Model,            \* chat models in sortOrder, a sequence of names
  Message,          \* messages: [code, complex, simple, length, last]
  Rows,             \* what the models can be: [Name -> [tier, vision, active]]
  Plans,            \* the plans: [allowed, simpleModel, payg]
  StepLists,        \* the step lists administrators save: sequences of [upTo, models, effort]
  Usage,            \* shares of the daily budget used, in per cent
  ComplexLength,    \* complexLenThreshold
  MaxRoutes,        \* bound: messages
  MaxRouterUpdates  \* bound: changes by administrators

Tier == {"SIMPLE", "MEDIUM", "COMPLEX"}
Rank == [SIMPLE |-> 0, MEDIUM |-> 1, COMPLEX |-> 2]
Name == {Model[i] : i \in DOMAIN Model}
NoModel == "none"

\* A plan's list of models is not checked against the registry, and may be empty.
ASSUME ModelRouterAssumption ==
  /\ Model # <<>> /\ Model \in Seq(STRING) /\ Usage \subseteq Nat /\ ComplexLength \in Nat
  /\ Message \subseteq [code : BOOLEAN, complex : Nat, simple : BOOLEAN, length : Nat, last : Nat]
  /\ Rows \subseteq [Name -> [tier : Tier, vision : BOOLEAN, active : BOOLEAN]]
  /\ Plans \subseteq [allowed : Seq(STRING), simpleModel : STRING, payg : BOOLEAN]
  /\ StepLists \subseteq Seq([upTo : Int, models : Seq(STRING), effort : STRING])
  /\ MaxRoutes \in Nat /\ MaxRouterUpdates \in Nat
  /\ \A list \in StepLists : \A i, j \in DOMAIN list : i < j => list[i].upTo < list[j].upTo

VARIABLES
  model,         \* AiModel rows: tier, supportsVision, isActive
  routed,        \* the plan as the request sees it: allowedModels, simpleModel, isPayAsYouGo
  router,        \* ModelRoutingConfig: enabled and llmFallbackEnabled
  steps,         \* the plan's PlanRoutingStep rows, with the number of the update
  stepsCache,    \* plan_routing_steps:cache
  routerCache,   \* model_routing:config
  routing,       \* the request in the router
  updating,      \* administrators between their write and the invalidation
  routes,        \* messages so far, for the bound
  changes,       \* updates so far
  installed,     \* history: the last steps update that has been invalidated
  overtook       \* history: a cache was filled with what had been read before an update

routerVars == <<model, routed, router, steps, stepsCache, routerCache, routing, updating,
                routes, changes, installed, overtook>>

NoRoute == [at |-> "idle", manual |-> NoModel, images |-> FALSE, usage |-> 0, message |-> {},
            tier |-> "MEDIUM", candidates |-> {}, steps |-> {}, config |-> {}, chosen |-> NoModel,
            overrode |-> NoModel, since |-> 0]

ModelRouterInit ==
  /\ model \in Rows /\ routed \in Plans
  /\ router \in [enabled : {TRUE}, llm : BOOLEAN]
  /\ steps \in [list : StepLists, update : {0}]
  /\ stepsCache = {} /\ routerCache = {}
  /\ routing = NoRoute /\ updating = {} /\ routes = 0 /\ changes = 0
  /\ installed = 0 /\ overtook = FALSE

Allowed == {routed.allowed[i] : i \in DOMAIN routed.allowed}
Unread == UNCHANGED <<model, routed, router, steps, updating, routes, changes, installed>>
-----------------------------------------------------------------------------
(* What a message is: classifyHeuristic *)

Greets(m) == m.simple /\ m.complex = 0 /\ ~m.code /\ m.length < 150
Sticks(m) == m.last > 800 /\ m.length < 20
Short(m) == m.length < 40 /\ m.complex = 0 /\ ~m.code
Hard(m) == m.code \/ m.complex >= 2 \/ m.length > ComplexLength

Heuristic(m) ==
  IF Greets(m) THEN {"SIMPLE"} ELSE IF Sticks(m) THEN {"COMPLEX"}
  ELSE IF Short(m) THEN {"SIMPLE"} ELSE IF Hard(m) THEN {"COMPLEX"} ELSE {}

\* classify: what the heuristic leaves open is the classifier's, or MEDIUM if it fails.
Tiers(m, llm) ==
  IF Heuristic(m) # {} THEN Heuristic(m) ELSE IF llm THEN Tier ELSE {"MEDIUM"}
-----------------------------------------------------------------------------
(* Choosing *)

Position(name, list) ==
  IF \E i \in DOMAIN list : list[i] = name THEN CHOOSE i \in DOMAIN list : list[i] = name
  ELSE Len(list) + 1
Far(name, tier) ==
  LET d == Rank[model[name].tier] - Rank[tier] IN IF d < 0 THEN -d ELSE d

\* pickFromCandidates: the nearest tier, then the preferred order.
Pick(names, tier, order) ==
  CHOOSE a \in names : \A b \in names :
    \/ Far(a, tier) < Far(b, tier)
    \/ Far(a, tier) = Far(b, tier) /\ Position(a, order) =< Position(b, order)

Usable(name, images) == model[name].active /\ (images => model[name].vision)
Candidates(images) == {n \in Allowed \intersect Name : Usable(n, images)}

Default(manual) ==
  IF manual # NoModel THEN manual ELSE IF Allowed = {} THEN NoModel ELSE routed.allowed[1]
Overrode(manual, chosen) == IF manual # chosen THEN manual ELSE NoModel
Choose(chosen, overrode) ==
  routing' = [routing EXCEPT !.at = "done", !.chosen = chosen, !.overrode = overrode]

\* The step the user's budget is in.
CurrentStep(list, usage) ==
  LET open == {i \in DOMAIN list : usage =< list[i].upTo}
  IN  IF open = {} THEN list[Len(list)] ELSE list[CHOOSE i \in open : \A j \in open : i =< j]

Pool_Step(step, names) == {step.models[i] : i \in DOMAIN step.models}
Pool(step, names) ==
  LET inStep == {n \in names : \E i \in DOMAIN step.models : step.models[i] = n}
  IN  IF inStep # {} THEN inStep ELSE names

\* The user's own choice is kept within the first step only.
KeepsManual(list, usage) ==
  IF list = <<>> THEN TRUE ELSE usage =< list[1].upTo
-----------------------------------------------------------------------------
(* The request *)

\* streamChat: a choice that the plan does not allow counts as none.
BeginRoute(manual, images, usage, m) ==
  /\ routing.at \in {"idle", "done"} /\ routes < MaxRoutes /\ routes' = routes + 1
  /\ LET valid == IF manual \in Allowed THEN manual ELSE NoModel
         asked == [NoRoute EXCEPT !.at = "config", !.manual = valid, !.images = images,
                                  !.usage = usage, !.message = {m}, !.since = installed]
     IN  routing' = IF routed.payg THEN [asked EXCEPT !.at = "done", !.chosen = Default(valid)] ELSE asked
  /\ UNCHANGED <<model, routed, router, steps, stepsCache, routerCache, updating, changes,
                 installed, overtook>>

\* getConfig
ReadRouterCache ==
  /\ routing.at = "config"
  /\ routing' = IF routerCache # {} THEN [routing EXCEPT !.at = "classify", !.config = routerCache]
                ELSE [routing EXCEPT !.at = "configRow"]
  /\ UNCHANGED <<stepsCache, routerCache, overtook>> /\ Unread

ReadRouterRow ==
  /\ routing.at = "configRow"
  /\ routing' = [routing EXCEPT !.at = "configFill", !.config = {router}]
  /\ UNCHANGED <<stepsCache, routerCache, overtook>> /\ Unread

FillRouterCache ==
  /\ routing.at = "configFill"
  /\ routerCache' = routing.config
  /\ routing' = [routing EXCEPT !.at = "classify"]
  /\ UNCHANGED <<stepsCache, overtook>> /\ Unread

ConfigOf == CHOOSE c \in routing.config : TRUE

Classify ==
  /\ routing.at = "classify"
  /\ IF ~ConfigOf.enabled THEN Choose(Default(routing.manual), NoModel)
     ELSE \E m \in routing.message : \E t \in Tiers(m, ConfigOf.llm) :
            routing' = [routing EXCEPT !.at = "candidates", !.tier = t]
  /\ UNCHANGED <<stepsCache, routerCache, overtook>> /\ Unread

\* The candidates are read; routeSimple needs no more.
RouteSimple(names) ==
  LET chosen == IF routed.simpleModel \in names THEN routed.simpleModel
                ELSE Pick(names, "SIMPLE", Model)
  IN  Choose(chosen, Overrode(routing.manual, chosen))

ReadCandidates ==
  /\ routing.at = "candidates"
  /\ LET names == Candidates(routing.images)
     IN  IF names = {} THEN Choose(Default(routing.manual), NoModel)
         ELSE IF routing.tier = "SIMPLE" THEN RouteSimple(names)
         ELSE routing' = [routing EXCEPT !.at = "steps", !.candidates = names]
  /\ UNCHANGED <<stepsCache, routerCache, overtook>> /\ Unread

\* getSteps
ReadStepsCache ==
  /\ routing.at = "steps"
  /\ routing' = IF stepsCache # {} THEN [routing EXCEPT !.at = "choose", !.steps = stepsCache]
                ELSE [routing EXCEPT !.at = "stepsRow"]
  /\ UNCHANGED <<stepsCache, routerCache, overtook>> /\ Unread

ReadStepsRow ==
  /\ routing.at = "stepsRow"
  /\ routing' = [routing EXCEPT !.at = "stepsFill", !.steps = {steps}]
  /\ UNCHANGED <<stepsCache, routerCache, overtook>> /\ Unread

FillStepsCache ==
  /\ routing.at = "stepsFill"
  /\ stepsCache' = routing.steps
  /\ overtook' = (overtook \/ \E s \in routing.steps : s.update < steps.update)
  /\ routing' = [routing EXCEPT !.at = "choose"]
  /\ UNCHANGED routerCache /\ Unread

StepsOf == CHOOSE s \in routing.steps : TRUE

\* routeMediumComplex
RouteMediumComplex ==
  /\ routing.at = "choose"
  /\ LET list == StepsOf.list
         names == routing.candidates
         manual == routing.manual
     IN  \/ /\ manual \in names
            /\ KeepsManual(list, routing.usage)
            /\ Choose(manual, NoModel)
         \/ /\ list = <<>> /\ manual \notin names
            /\ Choose(Pick(names, routing.tier, Model), NoModel)
         \/ /\ list # <<>> /\ ~(manual \in names /\ KeepsManual(list, routing.usage))
            /\ LET step == CurrentStep(list, routing.usage)
                   pool == Pool(step, names)
                   order == IF pool \intersect {step.models[i] : i \in DOMAIN step.models} # {}
                            THEN step.models ELSE Model
                   chosen == Pick(pool, routing.tier, order)
               IN  Choose(chosen, Overrode(manual, chosen))
  /\ UNCHANGED <<stepsCache, routerCache, overtook>> /\ Unread
-----------------------------------------------------------------------------
(* Administrators *)

Change == changes < MaxRouterUpdates /\ changes' = changes + 1

\* PUT plans/:id/routing: one transaction, then the key.
SaveSteps(list) ==
  /\ Change
  /\ steps' = [list |-> list, update |-> changes']
  /\ updating' = updating \union {[what |-> "steps", update |-> changes']}
  /\ UNCHANGED <<model, routed, router, stepsCache, routerCache, routing, routes, installed, overtook>>

SaveRouter(config) ==
  /\ Change
  /\ router' = config
  /\ updating' = updating \union {[what |-> "config", update |-> changes']}
  /\ UNCHANGED <<model, routed, steps, stepsCache, routerCache, routing, routes, installed, overtook>>

Kept(u, cache) == {}

Invalidate(u) ==
  /\ u \in updating /\ updating' = updating \ {u}
  /\ IF u.what = "steps"
     THEN /\ stepsCache' = Kept(u, stepsCache)
          /\ installed' = IF u.update > installed THEN u.update ELSE installed
          /\ UNCHANGED routerCache
     ELSE routerCache' = {} /\ UNCHANGED <<stepsCache, installed>>
  /\ UNCHANGED <<model, routed, router, steps, routing, routes, changes, overtook>>

\* STEPS_CACHE_TTL, CONFIG_CACHE_TTL
CachesExpire ==
  /\ stepsCache' \in {{}, stepsCache} /\ routerCache' \in {{}, routerCache}
  /\ UNCHANGED <<model, routed, router, steps, routing, updating, routes, changes, installed, overtook>>

\* A model is switched off or on.
SwitchModel(name) ==
  /\ Change
  /\ model' = [model EXCEPT ![name].active = ~@]
  /\ UNCHANGED <<routed, router, steps, stepsCache, routerCache, routing, updating, routes,
                 installed, overtook>>

ModelRouterNext ==
  \/ \E manual \in Name \union {NoModel}, images \in BOOLEAN, usage \in Usage, m \in Message :
       BeginRoute(manual, images, usage, m)
  \/ ReadRouterCache \/ ReadRouterRow \/ FillRouterCache \/ Classify \/ ReadCandidates
  \/ ReadStepsCache \/ ReadStepsRow \/ FillStepsCache \/ RouteMediumComplex
  \/ \E list \in StepLists : SaveSteps(list)
  \/ \E config \in [enabled : BOOLEAN, llm : BOOLEAN] : SaveRouter(config)
  \/ \E u \in updating : Invalidate(u)
  \/ CachesExpire \/ \E name \in Name : SwitchModel(name)
-----------------------------------------------------------------------------
Routed == routing.at = "done"
Enabled == routing.config # {} /\ ConfigOf.enabled
Stepped == routing.steps # {} /\ StepsOf.list # <<>>

(* Whatever the caches hold, the model is one the plan allows, if it allows any: steps that
   name a model the plan does not have any more choose another. *)
ChoiceIsAllowed == Routed /\ Allowed # {} => routing.chosen \in Allowed

(* A message with pictures goes to a model that sees them whenever the plan has one that
   is on; the fallback to the user's choice is for when it has none. *)
PicturesAreSeen ==
  /\ Routed /\ Enabled /\ routing.images
  /\ \E n \in Allowed \intersect Name : Usable(n, TRUE)
  /\ changes = 0
  => model[routing.chosen].vision

(* Beyond the first step of the budget the user's own choice is not kept, unless it is
   one of the models the budget has come to, or none of those can answer. *)
BudgetOverridesManual ==
  /\ Routed /\ Stepped
  /\ routing.usage > StepsOf.list[1].upTo
  => LET step == CurrentStep(StepsOf.list, routing.usage)
         inStep(n) == \E i \in DOMAIN step.models : step.models[i] = n
     IN  inStep(routing.chosen) \/ \A n \in routing.candidates : ~inStep(n)

(* Once an update of the steps is through, messages that come after it are not routed by
   older steps, unless a cache was filled with what had been read before. *)
StepsCurrentUnlessOvertaken ==
  routing.steps # {} => StepsOf.update >= routing.since \/ overtook

(* A greeting stays with the cheap tier, also after a long answer. *)
GreetingStaysSimple ==
  routing.at \in {"candidates", "steps", "choose"} =>
    \A m \in routing.message :
      m.simple /\ m.complex = 0 /\ ~m.code /\ m.length < 20 => routing.tier = "SIMPLE"

(* The router's choice, whatever its caches hold: allowed by the plan, able to see the
   pictures, as cheap as the budget demands and the message permits, and by the
   administrators' last steps unless an older fill overtook them. *)
ChoicesAreSound ==
  /\ ChoiceIsAllowed
  /\ PicturesAreSeen
  /\ BudgetOverridesManual
  /\ GreetingStaysSimple
  /\ StepsCurrentUnlessOvertaken
=============================================================================
