------------------------------ MODULE Sessions ------------------------------
(***************************************************************************)
(* Logging in and staying logged in (auth.service.ts): one-time codes with *)
(* their two rate limits in Redis, the first login that creates a user and *)
(* takes it to the campaign's gate, and refresh tokens that are rotated    *)
(* until they are revoked by a logout.                                     *)
(*                                                                         *)
(* The state is that of one phone number: numbers meet only in unique      *)
(* columns and in referrals, which are left out; so are the test account,  *)
(* off by default, and what verifyOtp does for push tokens and anonymous   *)
(* chats, whose failures it swallows. The codes are numbered in the order  *)
(* they are sent; 0 is any other code.                                     *)
(***************************************************************************)
EXTENDS Integers, FiniteSets

CONSTANTS
  Request,            \* requests that may be in progress at once
  RateLimit,          \* OTP_RATE_LIMIT: codes sent in a window
  AttemptLimit,       \* OTP_ATTEMPT_LIMIT: codes tried in a window
  MaxSessionRequests, \* bound: requests that ever begin
  MaxTokens           \* bound: refresh tokens ever issued

ASSUME SessionsAssumption ==
  /\ IsFiniteSet(Request)
  /\ RateLimit \in Nat \ {0} /\ AttemptLimit \in Nat \ {0}
  /\ MaxSessionRequests \in Nat /\ MaxTokens \in Nat

VARIABLES
  otp,      \* otp:<phone>, 0 when there is none
  codes,    \* codes generated so far
  rate,     \* otp:rate:<phone>, its value and whether it has a time to live
  attempt,  \* otp:attempt:<phone>, the same
  user,     \* the User row: none, active or disabled
  token,    \* RefreshToken rows, the session each belongs to and its state
  issued,   \* how many of them there are
  request,  \* requests in progress
  begun,    \* requests that have begun, for the bound
  tried,    \* history: codes compared since the attempt key last vanished
  logins,   \* history: logins with each code
  raced,    \* history: codes that two requests compared before either deleted them
  forked,   \* history: sessions whose token was revoked between a refresh's check and its write
  ended,    \* history: sessions that were logged out
  gate,     \* history: what became of the gate the creator of the user has to pass
  halfway   \* history: a request died between INCR and EXPIRE

redis == <<otp, codes, rate, attempt, tried>>
tokens == <<token, issued, forked, ended>>
history == <<logins, raced>>
sessionVars == <<redis, user, gate, tokens, request, begun, history, halfway>>

Token == 1..MaxTokens
Code == 1..MaxSessionRequests
Absent == [n |-> 0, ttl |-> FALSE]
Idle == [at |-> "idle", count |-> 0, code |-> 0, token |-> 0, existing |-> "none"]

SessionsInit ==
  /\ otp = 0 /\ codes = 0
  /\ rate = Absent /\ attempt = Absent /\ tried = 0
  /\ user = "none" /\ gate = "none"
  /\ token = [t \in Token |-> [session |-> 0, state |-> "none"]] /\ issued = 0
  /\ request = [r \in Request |-> Idle] /\ begun = 0
  /\ logins = [c \in Code |-> 0] /\ raced = {} /\ forked = {} /\ ended = {}
  /\ halfway = FALSE
-----------------------------------------------------------------------------
(* Requests and keys *)

BeginRequest(r, x) ==
  /\ request[r].at = "idle"
  /\ begun < MaxSessionRequests
  /\ begun' = begun + 1
  /\ request' = [request EXCEPT ![r] = x]

Goes(r, x) == request' = [request EXCEPT ![r] = x] /\ UNCHANGED begun
GoesTo(r, at) == Goes(r, [request[r] EXCEPT !.at = at])

\* INCR, and EXPIRE by the request that created the key.
Incr(key) == [key EXCEPT !.n = @ + 1]
SetsTtl_OnZero(count) == count = 0
SetsTtl(count) == count = 1
Ttl(key) == IF key.n = 0 THEN key ELSE [key EXCEPT !.ttl = TRUE]
-----------------------------------------------------------------------------
(* sendOtp *)

CountSend(r) ==
  /\ rate' = Incr(rate)
  /\ BeginRequest(r, [Idle EXCEPT !.at = IF SetsTtl(rate.n + 1) THEN "expireRate" ELSE "send",
                           !.count = rate.n + 1])
  /\ UNCHANGED <<otp, codes, attempt, tried, user, gate, tokens, history, halfway>>

ExpireRate(r) ==
  /\ request[r].at = "expireRate"
  /\ rate' = Ttl(rate)
  /\ GoesTo(r, "send")
  /\ UNCHANGED <<otp, codes, attempt, tried, user, gate, tokens, history, halfway>>

\* A new code replaces the one before; then it is sent.
StoreCode(r) ==
  /\ request[r].at = "send"
  /\ request[r].count =< RateLimit
  /\ codes' = codes + 1
  /\ otp' = codes'
  /\ Goes(r, Idle)
  /\ UNCHANGED <<rate, attempt, tried, user, gate, tokens, history, halfway>>
-----------------------------------------------------------------------------
(* verifyOtp *)

CountAttempt(r, c) ==
  /\ c =< codes
  /\ attempt' = Incr(attempt)
  /\ BeginRequest(r, [Idle EXCEPT !.at = IF SetsTtl(attempt.n + 1) THEN "expireAttempt" ELSE "compare",
                           !.count = attempt.n + 1, !.code = c])
  /\ UNCHANGED <<otp, codes, rate, tried, user, gate, tokens, history, halfway>>

ExpireAttempt(r) ==
  /\ request[r].at = "expireAttempt"
  /\ attempt' = Ttl(attempt)
  /\ GoesTo(r, "compare")
  /\ UNCHANGED <<otp, codes, rate, tried, user, gate, tokens, history, halfway>>

MayTry(count) == count =< AttemptLimit

Matching(c) == {q \in Request : request[q].at = "delete" /\ request[q].code = c}

\* A code that is not the stored one, or none stored: refused.
Compare(r) ==
  LET c == request[r].code
      right == otp # 0 /\ otp = c
  IN
  /\ request[r].at = "compare"
  /\ MayTry(request[r].count)
  /\ tried' = tried + 1
  /\ IF right THEN GoesTo(r, "delete") ELSE Goes(r, Idle)
  /\ raced' = IF right /\ Matching(c) # {} THEN raced \cup {c} ELSE raced
  /\ UNCHANGED <<otp, codes, rate, attempt, user, gate, tokens, logins, halfway>>

\* DEL of the code, whichever it is by now, and of both counters.
Deleted == 0

DeleteCode(r) ==
  LET c == request[r].code IN
  /\ request[r].at = "delete"
  /\ otp' = Deleted
  /\ rate' = Absent /\ attempt' = Absent /\ tried' = 0
  /\ logins' = [logins EXCEPT ![c] = @ + 1]
  /\ GoesTo(r, "find")
  /\ UNCHANGED <<codes, user, gate, tokens, raced, halfway>>

FindUser(r) ==
  /\ request[r].at = "find"
  /\ user # "disabled"
  /\ GoesTo(r, IF user = "none" THEN "create" ELSE "issue")
  /\ UNCHANGED <<redis, user, gate, tokens, history, halfway>>

\* phone is unique: the second of two first logins fails.
CreateUser(r) ==
  /\ request[r].at = "create"
  /\ user = "none"
  /\ user' = "active"
  /\ gate' = "pending"
  /\ GoesTo(r, "gate")
  /\ UNCHANGED <<redis, tokens, history, halfway>>

\* applyToNewUser, for the user's creator only.
PassGate == "passed"

Gate(r) ==
  /\ request[r].at = "gate"
  /\ gate' = PassGate
  /\ GoesTo(r, "issue")
  /\ UNCHANGED <<redis, user, tokens, history, halfway>>

\* issueTokens, at the end of verifyOtp and of refresh: a session begins with its
\* first token.
Issue(r) ==
  LET t == issued + 1
      session == IF request[r].token = 0 THEN t ELSE token[request[r].token].session
  IN
  /\ request[r].at = "issue"
  /\ t \in Token
  /\ issued' = t
  /\ token' = [token EXCEPT ![t] = [session |-> session, state |-> "live"]]
  /\ Goes(r, Idle)
  /\ UNCHANGED <<redis, user, gate, forked, ended, history, halfway>>
-----------------------------------------------------------------------------
(* refresh and logout *)

Refreshable_Revoked(t) == token[t].state # "expired"
Refreshable(t) == token[t].state = "live"

CheckToken(r, t) ==
  /\ t =< issued
  /\ Refreshable(t)
  /\ user = "active"
  /\ BeginRequest(r, [Idle EXCEPT !.at = "rotate", !.token = t, !.existing = token[t].state])
  /\ UNCHANGED <<redis, user, gate, tokens, history, halfway>>

\* The row is updated by its id, whatever it has become since it was read.
Rotate(r) ==
  LET t == request[r].token IN
  /\ request[r].at = "rotate"
  /\ token' = [token EXCEPT ![t].state = "revoked"]
  /\ forked' = IF token[t].state = "revoked" /\ request[r].existing = "live"
               THEN forked \cup {token[t].session} ELSE forked
  /\ GoesTo(r, "issue")
  /\ UNCHANGED <<redis, user, gate, issued, ended, history, halfway>>

Logout(t) ==
  /\ t =< issued
  /\ token[t].state # "revoked"
  /\ token' = [token EXCEPT ![t].state = "revoked"]
  /\ ended' = IF token[t].state = "live" THEN ended \cup {token[t].session} ELSE ended
  /\ UNCHANGED <<redis, user, gate, issued, forked, request, begun, history, halfway>>
-----------------------------------------------------------------------------
(* Errors, administrators and time *)

\* A request is refused, fails, or is lost in a restart.
Fail(r) ==
  /\ request[r].at # "idle"
  /\ Goes(r, Idle)
  /\ halfway' = (halfway \/ request[r].at \in {"expireRate", "expireAttempt"})
  /\ gate' = IF request[r].at = "gate" THEN "missed" ELSE gate
  /\ UNCHANGED <<redis, user, tokens, history>>

\* AdminService.updateUser.
SetActive(state) ==
  /\ user # "none"
  /\ user' = state
  /\ UNCHANGED <<redis, gate, tokens, request, begun, history, halfway>>

CodeExpires ==
  /\ otp # 0
  /\ otp' = 0
  /\ UNCHANGED <<codes, rate, attempt, tried, user, gate, tokens, request, begun, history, halfway>>

\* A key without a time to live does not expire.
RateExpires ==
  /\ rate.ttl
  /\ rate' = Absent
  /\ UNCHANGED <<otp, codes, attempt, tried, user, gate, tokens, request, begun, history, halfway>>

AttemptExpires ==
  /\ attempt.ttl
  /\ attempt' = Absent /\ tried' = 0
  /\ UNCHANGED <<otp, codes, rate, user, gate, tokens, request, begun, history, halfway>>

\* After 30 days.
TokenExpires(t) ==
  /\ token[t].state = "live"
  /\ token' = [token EXCEPT ![t].state = "expired"]
  /\ UNCHANGED <<redis, user, gate, issued, forked, ended, request, begun, history, halfway>>

OfRequest(r) ==
  \/ CountSend(r) \/ ExpireRate(r) \/ StoreCode(r)
  \/ \E c \in 0..codes : CountAttempt(r, c)
  \/ ExpireAttempt(r) \/ Compare(r) \/ DeleteCode(r)
  \/ FindUser(r) \/ CreateUser(r) \/ Gate(r) \/ Issue(r)
  \/ \E t \in Token : CheckToken(r, t)
  \/ Rotate(r) \/ Fail(r)

SessionsNext ==
  \/ \E r \in Request : OfRequest(r)
  \/ \E t \in Token : Logout(t) \/ TokenExpires(t)
  \/ \E state \in {"active", "disabled"} : SetActive(state)
  \/ CodeExpires \/ RateExpires \/ AttemptExpires

SessionsSpec == SessionsInit /\ [][SessionsNext]_sessionVars

\* Redis drops a key whose time to live is over, and EXPIRE is sent at once by a
\* request that does not die.
SessionsFairSpec ==
  /\ SessionsSpec
  /\ WF_sessionVars(RateExpires) /\ WF_sessionVars(AttemptExpires)
  /\ \A r \in Request : WF_sessionVars(ExpireRate(r) \/ ExpireAttempt(r))
-----------------------------------------------------------------------------
(* Properties *)

\* The types of the variables.
SessionsTypeOK ==
  /\ otp \in 0..codes /\ codes \in 0..MaxSessionRequests
  /\ rate \in [n : Nat, ttl : BOOLEAN] /\ attempt \in [n : Nat, ttl : BOOLEAN]
  /\ tried \in Nat
  /\ user \in {"none", "active", "disabled"}
  /\ gate \in {"none", "pending", "passed", "missed"}
  /\ token \in [Token -> [session : 0..MaxTokens, state : {"none", "live", "revoked", "expired"}]]
  /\ issued \in 0..MaxTokens
  /\ request \in [Request ->
       [at : {"idle", "expireRate", "send", "expireAttempt", "compare", "delete", "find",
              "create", "gate", "issue", "rotate"},
        count : Nat, code : 0..MaxSessionRequests, token : 0..MaxTokens,
        existing : {"none", "live", "revoked", "expired"}]]
  /\ begun \in 0..MaxSessionRequests
  /\ logins \in [Code -> Nat] /\ raced \subseteq Code
  /\ forked \subseteq Token /\ ended \subseteq Token
  /\ halfway \in BOOLEAN

\* However many requests try codes at once, and whenever the window is reset under
\* them: no more codes are compared in a window than the limit and the requests in
\* progress allow.
GuessesBounded == tried =< AttemptLimit + Cardinality(Request)

\* A code is good for one login, unless a second request compared it before the first
\* one had deleted it.
OneLoginPerCode == \A c \in Code : logins[c] =< 1 \/ c \in raced

\* A session has one token that is live or about to be issued, and none after it was
\* logged out, unless a refresh was overtaken by another refresh or by the logout.
OneTokenPerSession ==
  \A s \in Token \ forked :
    Cardinality({t \in Token : token[t].session = s /\ token[t].state = "live"})
      + Cardinality({r \in Request : request[r].at = "issue" /\ request[r].token # 0
                                       /\ token[request[r].token].session = s})
    =< IF s \in ended THEN 0 ELSE 1

\* Whoever holds a token went through the campaign's gate, unless the request that
\* created the user failed before it, or is still on its way there while another login
\* of the same user has overtaken it.
GatePassed ==
  issued > 0 => gate \in {"passed", "missed"} \/ \E r \in Request : request[r].at = "gate"

\* Nobody is locked out for good, unless a request died between counting an attempt,
\* or a code sent, and setting the time to live.
LockEnds ==
  <>halfway \/ []<>(rate.n =< RateLimit /\ attempt.n =< AttemptLimit)

(* What sign-in promises, but for the overtakings and crashes the parts name: a code is
   guessed at a bounded number of times and opens one session, whoever is new passes the
   campaign's gate, and a session has one token however requests overlap. *)
SignInsAreSound ==
  /\ SessionsTypeOK
  /\ GuessesBounded
  /\ OneLoginPerCode
  /\ GatePassed
  /\ OneTokenPerSession
=============================================================================
