------------------------------ MODULE MCCaches ------------------------------
(***************************************************************************)
(* What Redis keeps for a user and drops after a time, for TLC: the plan   *)
(* (PlanCache), and one-time codes with their counters (Sessions). They    *)
(* share no state in the models: the initial state chooses the part that   *)
(* runs. Sessions may come to their end, and rest there.                   *)
(***************************************************************************)
EXTENDS PlanCache, Sessions

VARIABLE part

cacheVars == <<part, vars, sessionVars>>

CachesInit == part \in {"plan", "sessions"} /\ Init /\ SessionsInit

CachesNext ==
  \/ part = "plan" /\ Next /\ UNCHANGED <<part, sessionVars>>
  \/ part = "sessions" /\ SessionsNext /\ UNCHANGED <<part, vars>>
  \/ part = "sessions" /\ UNCHANGED cacheVars

\* The fairness of FairSpec and SessionsFairSpec, each where its part runs.
CachesSpec ==
  /\ CachesInit /\ [][CachesNext]_cacheVars
  /\ \A u \in User : WF_cacheVars(part = "plan" /\ Expire(u) /\ UNCHANGED <<part, sessionVars>>)
  /\ WF_cacheVars(part = "sessions" /\ RateExpires /\ UNCHANGED <<part, vars>>)
  /\ WF_cacheVars(part = "sessions" /\ AttemptExpires /\ UNCHANGED <<part, vars>>)
  /\ \A r \in Request :
       WF_cacheVars(part = "sessions" /\ (ExpireRate(r) \/ ExpireAttempt(r))
                      /\ UNCHANGED <<part, vars>>)
=============================================================================
