------------------------------ MODULE ConfigCache ------------------------------
(***************************************************************************)
(* A configuration row that every process keeps in memory for a minute:    *)
(* the same code in chat-config, sales-config, growth-config,              *)
(* onboarding-gift and anon-chat-config.service.ts.  The comment there     *)
(* promises that every process sees an update after a minute at most.      *)
(***************************************************************************)
EXTENDS Integers, Sequences, FiniteSets

CONSTANTS
  Server,           \* processes
  Getter,           \* calls of getConfig and updateConfig that may run at once
  Ttl,              \* CACHE_TTL_MS
  MaxGets,          \* bound: reads
  MaxConfigUpdates, \* bound: updates
  MaxTicks          \* bound: time

ASSUME ConfigCacheAssumption ==
  /\ IsFiniteSet(Server) /\ IsFiniteSet(Getter) /\ Ttl \in Nat \ {0}
  /\ MaxGets \in Nat /\ MaxConfigUpdates \in Nat /\ MaxTicks \in Nat

VARIABLES
  version,    \* the row: its version, 0 once it has been made
  replaced,   \* history: when each version was replaced, by version
  now,        \* the time
  cached,     \* cached and cachedAt of each process
  getter,     \* calls
  gets,       \* reads so far, for the bound
  oldest,     \* history: how long a value had been replaced when a call that returned it began
  updatesCrossed \* history: an update put a version in the cache that another had replaced

configVars == <<version, replaced, now, cached, getter, gets, oldest, updatesCrossed>>

NoValue == -1
GetterIdle == [at |-> "idle", on |-> {}, began |-> 0, value |-> NoValue]
Stamp(v, t) == [value |-> v, at |-> t]

ConfigCacheInit ==
  /\ version = 0 /\ replaced = <<>> /\ now = 0
  /\ cached = [s \in Server |-> Stamp(NoValue, 0)]
  /\ getter = [g \in Getter |-> GetterIdle] /\ gets = 0
  /\ oldest = 0 /\ updatesCrossed = FALSE

\* How long v had been replaced at t.
Age(v, t) == IF v < version /\ t > replaced[v + 1] THEN t - replaced[v + 1] ELSE 0
Serve(v, began) == oldest' = IF Age(v, began) > oldest THEN Age(v, began) ELSE oldest

Fresh(s) == cached[s].value # NoValue /\ now - cached[s].at < Ttl

\* getConfig: the time is taken before the row is read.
GetCached(s) ==
  /\ gets < MaxGets /\ gets' = gets + 1
  /\ Fresh(s) /\ Serve(cached[s].value, now)
  /\ UNCHANGED <<version, replaced, now, cached, getter, updatesCrossed>>

BeginGet(g, s) ==
  /\ getter[g].at = "idle" /\ gets < MaxGets /\ gets' = gets + 1
  /\ ~Fresh(s)
  /\ getter' = [getter EXCEPT ![g] = [at |-> "read", on |-> {s}, began |-> now, value |-> NoValue]]
  /\ UNCHANGED <<version, replaced, now, cached, oldest, updatesCrossed>>

\* upsert: makes the row if there is none, and changes nothing if there is.
ReadConfig(g) ==
  /\ getter[g].at = "read"
  /\ getter' = [getter EXCEPT ![g].at = "fill", ![g].value = version]
  /\ UNCHANGED <<version, replaced, now, cached, gets, oldest, updatesCrossed>>

StampedAt_Filled(g) == now
StampedAt(g) == getter[g].began

FillConfig(g) ==
  /\ getter[g].at = "fill"
  /\ cached' = [s \in Server |->
       IF s \in getter[g].on THEN Stamp(getter[g].value, StampedAt(g)) ELSE cached[s]]
  /\ Serve(getter[g].value, getter[g].began)
  /\ getter' = [getter EXCEPT ![g] = GetterIdle]
  /\ UNCHANGED <<version, replaced, now, gets, updatesCrossed>>

\* updateConfig: the row, then the process's own cache.
UpdateRow(g, s) ==
  /\ getter[g].at = "idle" /\ version < MaxConfigUpdates
  /\ version' = version + 1 /\ replaced' = Append(replaced, now)
  /\ getter' = [getter EXCEPT ![g] = [at |-> "set", on |-> {s}, began |-> now, value |-> version + 1]]
  /\ UNCHANGED <<now, cached, gets, oldest, updatesCrossed>>

SetCache(g) ==
  /\ getter[g].at = "set"
  /\ cached' = [s \in Server |-> IF s \in getter[g].on THEN Stamp(getter[g].value, now) ELSE cached[s]]
  /\ updatesCrossed' = (updatesCrossed \/ getter[g].value < version)
  /\ getter' = [getter EXCEPT ![g] = GetterIdle]
  /\ UNCHANGED <<version, replaced, now, gets, oldest>>

PassTime ==
  /\ now < MaxTicks /\ now' = now + 1
  /\ UNCHANGED <<version, replaced, cached, getter, gets, oldest, updatesCrossed>>

ConfigCacheNext ==
  \/ \E s \in Server : GetCached(s) \/ \E g \in Getter : BeginGet(g, s) \/ UpdateRow(g, s)
  \/ \E g \in Getter : ReadConfig(g) \/ FillConfig(g) \/ SetCache(g)
  \/ PassTime
-----------------------------------------------------------------------------
(* Nobody who asks is given a configuration that had been replaced for a minute or more,
   however slow the row was to read, unless two updates crossed on their way to a cache. *)
UpdatesSeenWithinTtl == oldest < Ttl \/ updatesCrossed
=============================================================================
