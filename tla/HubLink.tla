------------------------------- MODULE HubLink -------------------------------
(***************************************************************************)
(* How a node stays connected to its hub: the start of Daemon.Run, the     *)
(* heartbeat loop with its back-off and token renewal (internal/daemon/    *)
(* daemon.go) and the status the hub client reports (internal/hub/         *)
(* client.go). One goroutine runs all of it.                               *)
(*                                                                         *)
(* Intervals are in seconds. The lifetime of the token is in ticks, each   *)
(* longer than a round of the loop. The hub answers when it is up and      *)
(* accepts a heartbeat that carries a valid token.                         *)
(***************************************************************************)
EXTENDS Integers, Sequences

CONSTANTS
  Base,          \* cfg.HeartbeatInterval, in seconds
  Cap,           \* maxHeartbeatBackoff
  Threshold,     \* tokenRenewalThreshold, in ticks
  Life,          \* lifetime of a token the hub issues, in ticks
  MaxOutages     \* bound: times the hub goes down

FailureThreshold == 3
SuccessThreshold == 3

ASSUME LinkAssumption ==
  /\ Base \in Nat /\ Base >= 2
  /\ Cap \in Nat /\ Cap >= 4
  /\ Threshold \in Nat
  /\ Life \in Nat /\ Life > Threshold
  /\ MaxOutages \in Nat

VARIABLES
  phase,         \* where Run, or heartbeatLoop, stands
  token,         \* ticks left to the token in the Authorization header
  expiryKnown,   \* tokenExpiresAt is set
  status,        \* Client.status
  failureCount,  \* Client.failureCount; more than the threshold is the same
  successCount,  \* Client.successCount
  interval,      \* currentInterval
  up,            \* does the hub answer?
  outages,       \* times the hub went down
  recent,        \* ghost: outcomes of the last three heartbeats, newest last
  trouble        \* ghost: ticks since the token was last known to be long enough

tokenVars == <<token, expiryKnown>>
statusVars == <<status, failureCount, successCount, recent>>
hubVars == <<up, outages>>
vars == <<phase, tokenVars, statusVars, interval, hubVars, trouble>>

Outcomes == {"accepted", "failed"}

TypeOK ==
  /\ phase \in {"login", "register", "first", "sleep", "beat", "renew", "refused"}
  /\ token \in 0 .. Life
  /\ expiryKnown \in BOOLEAN
  /\ status \in {"online", "offline"}
  /\ failureCount \in 0 .. FailureThreshold
  /\ successCount \in 0 .. SuccessThreshold - 1
  /\ interval \in Nat
  /\ up \in BOOLEAN
  /\ outages \in 0 .. MaxOutages
  /\ recent \in Seq(Outcomes)
  /\ trouble \in 0 .. Threshold + 1

AtMost(x, limit) == IF x > limit THEN limit ELSE x

\* The token comes from the configuration (its expiry is not read then), or
\* HubAuthToken is empty and Run logs in.
Init ==
  /\ \/ phase = "login" /\ token = 0
     \/ phase = "register" /\ token \in 1 .. Life
  /\ expiryKnown = FALSE
  /\ status = "online" /\ failureCount = 0 /\ successCount = 0
  /\ interval = Base
  /\ up \in BOOLEAN /\ outages = 0
  /\ recent = <<>>
  /\ trouble = 0

-----------------------------------------------------------------------------
(* Daemon.Run up to the loop.                                              *)

\* autoLogin: a new token when the hub answers, and its expiry if the token
\* can be parsed.
AutoLogin ==
  /\ token' = IF up THEN Life ELSE token
  /\ expiryKnown' \in IF up THEN BOOLEAN ELSE {expiryKnown}
  /\ trouble' = IF up THEN 0 ELSE trouble

Login ==
  /\ phase = "login"
  /\ AutoLogin
  /\ phase' = "register"
  /\ UNCHANGED <<statusVars, interval, hubVars>>

\* A failed registration is logged and forgotten; a node id that belongs to
\* another owner ends Run.
Register ==
  /\ phase = "register"
  /\ \/ phase' = "first"
     \/ phase' = "refused" /\ up /\ token > 0
  /\ UNCHANGED <<tokenVars, statusVars, interval, hubVars, trouble>>

-----------------------------------------------------------------------------
(* SendHeartbeat and what it records.                                      *)

Remember(outcome) ==
  recent' = IF Len(recent) < 3 THEN Append(recent, outcome)
            ELSE Append(Tail(recent), outcome)

\* Mutant of RecordFailure: the success counter is not restarted.
FailureKeepsSuccesses ==
  /\ failureCount' = AtMost(failureCount + 1, FailureThreshold)
  /\ UNCHANGED successCount
  /\ status' = IF failureCount' >= FailureThreshold THEN "offline" ELSE status

RecordFailure ==
  /\ failureCount' = AtMost(failureCount + 1, FailureThreshold)
  /\ successCount' = 0
  /\ status' = IF failureCount' >= FailureThreshold THEN "offline" ELSE status

\* Mutants of RecordSuccess: the counter is not reset when the node is online;
\* the node never counts up to the threshold.
SuccessKeepsCount ==
  LET back == status = "online" \/ successCount + 1 >= SuccessThreshold IN
  /\ failureCount' = 0
  /\ status' = IF back THEN "online" ELSE status
  /\ successCount' = successCount + 1

SuccessStartsOver ==
  LET back == status = "online" \/ successCount + 1 >= SuccessThreshold IN
  /\ failureCount' = 0
  /\ status' = IF back THEN "online" ELSE status
  /\ successCount' = 0

RecordSuccess ==
  LET back == status = "online" \/ successCount + 1 >= SuccessThreshold IN
  /\ failureCount' = 0
  /\ status' = IF back THEN "online" ELSE status
  /\ successCount' = IF back THEN 0 ELSE successCount + 1

Accepted == up /\ token > 0

SendHeartbeat ==
  IF Accepted THEN RecordSuccess /\ Remember("accepted")
              ELSE RecordFailure /\ Remember("failed")

FirstHeartbeat ==
  /\ phase = "first"
  /\ SendHeartbeat
  /\ phase' = "sleep"
  /\ UNCHANGED <<tokenVars, interval, hubVars, trouble>>

-----------------------------------------------------------------------------
(* heartbeatLoop.                                                          *)

\* The wait, and whatever the last heartbeat's commands took.
Sleep ==
  /\ phase = "sleep"
  /\ \E d \in {0, 1} :
       /\ token' = IF token < d THEN 0 ELSE token - d
       /\ trouble' = AtMost(trouble + d, Threshold + 1)
  /\ phase' = "beat"
  /\ UNCHANGED <<expiryKnown, statusVars, interval, hubVars>>

\* Mutant of BackOff: the cap is compared with the interval before doubling.
BackOffUncapped ==
  LET doubled == IF interval > Cap THEN Cap ELSE interval * 2 IN
  interval' \in {doubled - j : j \in 0 .. doubled \div 4 - 1}

\* Twice the interval, capped, less a random part under a quarter of it.
BackOff ==
  LET doubled == AtMost(interval * 2, Cap) IN
  interval' \in {doubled - j : j \in 0 .. doubled \div 4 - 1}

HeartbeatFails ==
  /\ phase = "beat" /\ ~Accepted
  /\ SendHeartbeat
  /\ BackOff
  /\ phase' = "sleep"
  /\ UNCHANGED <<tokenVars, hubVars, trouble>>

HeartbeatAccepted ==
  /\ phase = "beat" /\ Accepted
  /\ SendHeartbeat
  /\ interval' = Base
  /\ phase' = "renew"
  /\ UNCHANGED <<tokenVars, hubVars, trouble>>

Due == expiryKnown /\ token <= Threshold

\* Mutant of MaybeRenewToken: the renewal waits until the token has expired.
RenewWhenExpired ==
  /\ phase = "renew"
  /\ IF expiryKnown /\ token = 0
     THEN AutoLogin
     ELSE trouble' = 0 /\ UNCHANGED tokenVars
  /\ phase' = "sleep"
  /\ UNCHANGED <<statusVars, interval, hubVars>>

MaybeRenewToken ==
  /\ phase = "renew"
  /\ IF Due
     THEN AutoLogin
     ELSE trouble' = 0 /\ UNCHANGED tokenVars
  /\ phase' = "sleep"
  /\ UNCHANGED <<statusVars, interval, hubVars>>

-----------------------------------------------------------------------------
HubDown ==
  /\ up /\ outages < MaxOutages
  /\ up' = FALSE
  /\ outages' = outages + 1
  /\ UNCHANGED <<phase, tokenVars, statusVars, interval, trouble>>

HubUp ==
  /\ ~up
  /\ up' = TRUE
  /\ UNCHANGED <<phase, tokenVars, statusVars, interval, outages, trouble>>

Node ==
  \/ Login \/ Register \/ FirstHeartbeat
  \/ Sleep \/ HeartbeatFails \/ HeartbeatAccepted \/ MaybeRenewToken

Next == Node \/ HubDown \/ HubUp

Spec == Init /\ [][Next]_vars

\* The timers of the loop fire and every request returns (HTTP has a timeout).
FairSpec == Spec /\ WF_vars(Node)

-----------------------------------------------------------------------------
(* Properties.                                                             *)

\* client.go:377-407: the reported status is a function of history with
\* hysteresis: three equal outcomes settle it, and it differs from the newest
\* outcome's side only until three in a row agree.
Settled(outcome) == Len(recent) = 3 /\ \A i \in 1 .. 3 : recent[i] = outcome
StatusFollowsHistory ==
  /\ Settled("accepted") => status = "online"
  /\ Settled("failed") => status = "offline"

\* client.go:390-397: no flapping: the status changes only when the three
\* latest heartbeats all had the outcome it changes to.
NoFlapping ==
  [][/\ status' = "offline" /\ status = "online" => Settled("failed")'
     /\ status' = "online" /\ status = "offline" => Settled("accepted")']_vars

\* daemon.go:302-311: however failures and successes follow each other, a node
\* never beats slower than the cap, or its normal interval, and a failing one never
\* faster than at its normal interval, or at three quarters of the cap: a node
\* whose normal interval is longer than that does beat faster while it fails.
BackoffInRange ==
  /\ interval <= Cap \/ interval = Base
  /\ Base <= interval \/ 3 * Cap <= 4 * interval

\* daemon.go:839-865: a token the node got by logging in does not expire as
\* long as no more than the renewal threshold passes between two rounds in
\* which the hub accepts the heartbeat and, if due, the login.
TokenSurvivesOutage == expiryKnown /\ trouble <= Threshold => token > 0

\* client.go:377-407, daemon.go:297-315: with the hub up for good and tokens
\* valid again and again, the node ends up online, at its normal pace.
ComesBackOnline ==
  <>[]up /\ []<>(token > 0) /\ [](phase # "refused")
    => <>[](status = "online" /\ interval = Base)
=============================================================================
