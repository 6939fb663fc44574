----------------------------- MODULE HubLinkProofs -----------------------------
(***************************************************************************)
(* Proofs about HubLink for every base interval, cap, renewal threshold    *)
(* and token lifetime, and any number of outages.                          *)
(***************************************************************************)
EXTENDS HubLink, SequenceTheorems, TLAPS

USE DEF tokenVars, statusVars, hubVars

\* The outcomes of the three latest heartbeats.
Latest == recent[Len(recent)]
Second == recent[Len(recent) - 1]
Third == recent[Len(recent) - 2]

\* What the counters and the status say of the latest outcomes: failureCount
\* failures after a success, and, offline, successCount successes after a
\* failure.
FailureTrail ==
  LET n == Len(recent) IN
  /\ failureCount = 0 /\ n >= 1 => Latest = "accepted"
  /\ failureCount = 1 => n >= 1 /\ Latest = "failed" /\ (n >= 2 => Second = "accepted")
  /\ failureCount = 2 =>
       n >= 2 /\ Latest = "failed" /\ Second = "failed" /\ (n >= 3 => Third = "accepted")
  /\ failureCount = 3 => n = 3 /\ Latest = "failed" /\ Second = "failed" /\ Third = "failed"

SuccessTrail ==
  /\ successCount = 0 => Latest = "failed"
  /\ successCount = 1 => Latest = "accepted" /\ Second = "failed"
  /\ successCount = 2 => Latest = "accepted" /\ Second = "accepted" /\ Third = "failed"

History ==
  /\ Len(recent) \in 0 .. 3
  /\ FailureTrail
  /\ status = "online" => failureCount < 3 /\ successCount = 0
  /\ status = "offline" => Len(recent) = 3 /\ SuccessTrail

\* Time that a token with a known expiry loses is counted as trouble.
TokenLasts == expiryKnown => token + trouble > Threshold

IInv == TypeOK /\ History /\ TokenLasts /\ BackoffInRange

-----------------------------------------------------------------------------
LEMMA UpToThree == \A n \in 0 .. 3 : n < 3 \/ n = 3
OBVIOUS

LEMMA ThreeAlike ==
  ASSUME NEW s, NEW b, Len(s) = 3, s[Len(s)] = b, s[Len(s) - 1] = b, s[Len(s) - 2] = b
  PROVE  \A i \in 1 .. 3 : s[i] = b
<1>1. 3 - 1 = 2 /\ 3 - 2 = 1 /\ \A i \in 1 .. 3 : i = 1 \/ i = 2 \/ i = 3
  OBVIOUS
<1>2. s[3] = b /\ s[2] = b /\ s[1] = b
  BY <1>1
<1>. QED BY <1>1, <1>2

LEMMA AppendOne ==
  ASSUME NEW S, NEW t \in Seq(S), NEW e \in S
  PROVE  /\ Append(t, e) \in Seq(S)
         /\ Len(Append(t, e)) = Len(t) + 1
         /\ \A i \in 1 .. Len(t) : Append(t, e)[i] = t[i]
         /\ Append(t, e)[Len(t) + 1] = e
BY AppendProperties

LEMMA AppendThird ==
  ASSUME NEW S, NEW t \in Seq(S), Len(t) = 2, NEW e \in S
  PROVE  /\ Append(t, e) \in Seq(S) /\ Len(Append(t, e)) = 3
         /\ Append(t, e)[1] = t[1] /\ Append(t, e)[2] = t[2] /\ Append(t, e)[3] = e
<1>1. \A n \in Nat : n = 2 => n + 1 = 3 /\ 1 \in 1 .. n /\ 2 \in 1 .. n
  OBVIOUS
<1>2. Len(t) + 1 = 3 /\ 1 \in 1 .. Len(t) /\ 2 \in 1 .. Len(t)
  BY <1>1
<1>3. /\ Append(t, e) \in Seq(S)
      /\ Len(Append(t, e)) = Len(t) + 1
      /\ \A i \in 1 .. Len(t) : Append(t, e)[i] = t[i]
      /\ Append(t, e)[Len(t) + 1] = e
  BY AppendOne
<1>. QED BY <1>2, <1>3

LEMMA RememberShifts ==
  ASSUME recent \in Seq(Outcomes), Len(recent) \in 0 .. 3, NEW outcome \in Outcomes, Remember(outcome)
  PROVE  /\ recent' \in Seq(Outcomes)
         /\ Len(recent') = IF Len(recent) < 3 THEN Len(recent) + 1 ELSE 3
         /\ Latest' = outcome
         /\ Len(recent) >= 1 => Second' = Latest
         /\ Len(recent) >= 2 => Third' = Second
<1>1. CASE Len(recent) < 3
  <2>1. recent' = Append(recent, outcome)
    BY <1>1 DEF Remember
  <2>. QED BY <1>1, <2>1 DEF Latest, Second, Third
<1>2. CASE Len(recent) = 3
  <2>1. recent' = Append(Tail(recent), outcome)
    BY <1>2 DEF Remember
  <2>2. /\ Tail(recent) \in Seq(Outcomes) /\ Len(Tail(recent)) = 2
        /\ Tail(recent)[1] = recent[2] /\ Tail(recent)[2] = recent[3]
    <3>1. recent # <<>>
      BY <1>2
    <3>. QED BY <1>2, <3>1, HeadTailProperties
  <2>3. /\ recent' \in Seq(Outcomes) /\ Len(recent') = 3 /\ recent'[3] = outcome
        /\ recent'[1] = recent[2] /\ recent'[2] = recent[3]
    <3>. DEFINE t == Tail(recent)
    <3>1. t \in Seq(Outcomes) /\ Len(t) = 2
      BY <2>2
    <3>. HIDE DEF t
    <3>2. /\ Append(t, outcome) \in Seq(Outcomes) /\ Len(Append(t, outcome)) = 3
          /\ Append(t, outcome)[1] = t[1] /\ Append(t, outcome)[2] = t[2]
          /\ Append(t, outcome)[3] = outcome
      BY <3>1, AppendThird
    <3>. QED BY <2>1, <2>2, <3>2 DEF t
  <2>4. 3 - 1 = 2 /\ 3 - 2 = 1
    OBVIOUS
  <2>. QED BY <1>2, <2>3, <2>4 DEF Latest, Second, Third
<1>3. Len(recent) < 3 \/ Len(recent) = 3
  BY UpToThree
<1>. QED BY <1>1, <1>2, <1>3, Zenon

\* Every heartbeat keeps the counters and the status in step with the history,
\* and changes the status only when the three latest outcomes agree.
LEMMA HeartbeatHistory ==
  ASSUME TypeOK, History, SendHeartbeat
  PROVE  /\ History'
         /\ status' \in {"online", "offline"}
         /\ failureCount' \in 0 .. FailureThreshold
         /\ successCount' \in 0 .. SuccessThreshold - 1
         /\ recent' \in Seq(Outcomes)
         /\ status' = "offline" /\ status = "online" => Settled("failed")'
         /\ status' = "online" /\ status = "offline" => Settled("accepted")'
<1>. DEFINE n == Len(recent)
<1>1. /\ recent \in Seq(Outcomes) /\ n \in 0 .. 3
      /\ failureCount \in 0 .. 3 /\ successCount \in 0 .. 2
      /\ status \in {"online", "offline"}
  BY DEF TypeOK, History, FailureThreshold, SuccessThreshold
<1>2. PICK outcome \in Outcomes :
        /\ Remember(outcome)
        /\ outcome = "accepted" => RecordSuccess
        /\ outcome = "failed" => RecordFailure
  BY DEF SendHeartbeat, Outcomes
<1>3. /\ recent' \in Seq(Outcomes)
      /\ Len(recent') = IF n < 3 THEN n + 1 ELSE 3
      /\ Latest' = outcome
      /\ n >= 1 => Second' = Latest
      /\ n >= 2 => Third' = Second
  BY <1>1, <1>2, RememberShifts
<1>. HIDE DEF n
<1>4. /\ FailureTrail
      /\ status = "online" => failureCount < 3 /\ successCount = 0
      /\ status = "offline" => n = 3 /\ SuccessTrail
  BY DEF History, n
<1>5. FailureTrail <=>
        /\ failureCount = 0 /\ n >= 1 => Latest = "accepted"
        /\ failureCount = 1 => n >= 1 /\ Latest = "failed" /\ (n >= 2 => Second = "accepted")
        /\ failureCount = 2 =>
             n >= 2 /\ Latest = "failed" /\ Second = "failed" /\ (n >= 3 => Third = "accepted")
        /\ failureCount = 3 => n = 3 /\ Latest = "failed" /\ Second = "failed" /\ Third = "failed"
  BY DEF FailureTrail, n
<1>6. CASE outcome = "accepted"
  <2>1. /\ failureCount' = 0
        /\ status' = IF status = "online" \/ successCount + 1 >= 3 THEN "online" ELSE status
        /\ successCount' = IF status = "online" \/ successCount + 1 >= 3 THEN 0 ELSE successCount + 1
    BY <1>2, <1>6 DEF RecordSuccess, SuccessThreshold
  <2>2. Latest' = "accepted"
    BY <1>3, <1>6
  <2>3. FailureTrail'
    BY <2>1, <2>2 DEF FailureTrail
  <2>4. status' = "offline" => Len(recent') = 3 /\ SuccessTrail'
    BY <1>1, <1>3, <1>4, <2>1, <2>2 DEF SuccessTrail
  <2>5. History'
    BY <1>1, <1>3, <2>1, <2>3, <2>4 DEF History
  <2>6. status' = "online" /\ status = "offline" => Settled("accepted")'
    <3>1. status' = "online" /\ status = "offline" =>
            Len(recent') = 3 /\ Latest' = "accepted" /\ Second' = "accepted" /\ Third' = "accepted"
      BY <1>1, <1>3, <1>4, <2>1, <2>2 DEF SuccessTrail
    <3>. QED BY <3>1, ThreeAlike DEF Latest, Second, Third, Settled
  <2>. QED BY <1>1, <1>3, <2>1, <2>5, <2>6 DEF FailureThreshold, SuccessThreshold
<1>7. CASE outcome = "failed"
  <2>1. /\ failureCount' = IF failureCount + 1 > 3 THEN 3 ELSE failureCount + 1
        /\ successCount' = 0
        /\ status' = IF failureCount' >= 3 THEN "offline" ELSE status
    BY <1>2, <1>7 DEF RecordFailure, FailureThreshold, AtMost
  <2>2. Latest' = "failed"
    BY <1>2, <1>3, <1>7
  <2>3. FailureTrail'
    BY <1>1, <1>3, <1>4, <1>5, <2>1, <2>2 DEF FailureTrail
  <2>4. status' = "offline" => Len(recent') = 3 /\ SuccessTrail'
    BY <1>1, <1>3, <1>4, <1>5, <2>1, <2>2 DEF SuccessTrail
  <2>5. History'
    BY <1>1, <1>3, <1>4, <2>1, <2>3, <2>4 DEF History
  <2>6. status' = "offline" /\ status = "online" => Settled("failed")'
    <3>1. status' = "offline" /\ status = "online" =>
            Len(recent') = 3 /\ Latest' = "failed" /\ Second' = "failed" /\ Third' = "failed"
      BY <1>1, <1>3, <1>4, <1>5, <2>1, <2>2
    <3>. QED BY <3>1, ThreeAlike DEF Latest, Second, Third, Settled
  <2>. QED BY <1>1, <1>3, <2>1, <2>5, <2>6 DEF FailureThreshold, SuccessThreshold
<1>. QED BY <1>6, <1>7 DEF Outcomes

LEMMA SameHistory ==
  ASSUME History, UNCHANGED statusVars
  PROVE  History'
BY DEF History, FailureTrail, SuccessTrail, Latest, Second, Third

LEMMA NeverFaster ==
  ASSUME NEW b \in Nat, NEW c \in Nat, NEW i \in Nat, NEW d \in Nat, NEW k \in Nat,
         c > 0, b <= i \/ 3 * c <= 4 * i, d = c \/ (d = i * 2 /\ d <= c), 4 * k > 3 * d
  PROVE  b <= k \/ 3 * c <= 4 * k
<1>1. CASE d = c
  BY <1>1
<1>2. CASE d = i * 2 /\ d <= c
  <2>1. 4 * k > 6 * i /\ 2 * i <= c
    BY <1>2
  <2>. QED BY <2>1
<1>. QED BY <1>1, <1>2

LEMMA BackOffRange ==
  ASSUME TypeOK, BackoffInRange, BackOff
  PROVE  interval' \in Nat /\ BackoffInRange'
<1>. DEFINE doubled == AtMost(interval * 2, Cap)
<1>1. /\ interval \in Nat /\ doubled \in Nat /\ doubled <= Cap
      /\ doubled = interval * 2 \/ doubled = Cap
  <2>1. interval \in Nat /\ interval * 2 \in Nat /\ Cap \in Nat
    BY LinkAssumption DEF TypeOK
  <2>. QED BY <2>1 DEF AtMost
<1>. HIDE DEF doubled
<1>2. PICK j \in 0 .. doubled \div 4 - 1 : interval' = doubled - j
  BY DEF BackOff, doubled
<1>3. 4 * (doubled \div 4) <= doubled /\ doubled \div 4 \in Nat
  BY <1>1
<1>4. 4 * j < doubled /\ j \in Nat
  BY <1>1, <1>2, <1>3
<1>5. interval' \in Nat /\ interval' <= Cap /\ 4 * interval' > 3 * doubled
  BY <1>1, <1>2, <1>4, LinkAssumption
<1>6. Base <= interval' \/ 3 * Cap <= 4 * interval'
  <2>1. Base <= interval \/ 3 * Cap <= 4 * interval
    BY DEF BackoffInRange
  <2>2. Base \in Nat /\ Cap \in Nat /\ Cap > 0
    BY LinkAssumption
  <2>. QED BY <1>1, <1>5, <2>1, <2>2, NeverFaster
<1>. QED BY <1>5, <1>6 DEF BackoffInRange

LEMMA AutoLoginToken ==
  ASSUME TypeOK, TokenLasts, AutoLogin
  PROVE  /\ token' \in 0 .. Life /\ expiryKnown' \in BOOLEAN /\ trouble' \in 0 .. Threshold + 1
         /\ TokenLasts'
BY LinkAssumption DEF TypeOK, TokenLasts, AutoLogin

-----------------------------------------------------------------------------
LEMMA StepIInv == IInv /\ [Next]_vars => IInv'
<1>. SUFFICES ASSUME IInv, [Next]_vars PROVE IInv'
  OBVIOUS
<1>. TypeOK /\ History /\ TokenLasts /\ BackoffInRange
  BY DEF IInv
<1>1. CASE Login
  BY <1>1, AutoLoginToken, SameHistory DEF Login, IInv, TypeOK, BackoffInRange
<1>2. CASE Register
  BY <1>2, SameHistory DEF Register, IInv, TypeOK, BackoffInRange, TokenLasts
<1>3. CASE FirstHeartbeat
  <2>1. SendHeartbeat /\ UNCHANGED <<tokenVars, interval, hubVars, trouble>> /\ phase' = "sleep"
    BY <1>3 DEF FirstHeartbeat
  <2>2. TypeOK'
    BY <2>1, HeartbeatHistory DEF TypeOK
  <2>3. BackoffInRange' /\ TokenLasts'
    BY <2>1 DEF BackoffInRange, TokenLasts
  <2>. QED BY <2>1, <2>2, <2>3, HeartbeatHistory DEF IInv
<1>4. CASE Sleep
  <2>1. PICK d \in {0, 1} :
          /\ token' = IF token < d THEN 0 ELSE token - d
          /\ trouble' = AtMost(trouble + d, Threshold + 1)
    BY <1>4 DEF Sleep
  <2>2. /\ token' \in 0 .. Life /\ trouble' \in 0 .. Threshold + 1
        /\ TokenLasts'
    BY <1>4, <2>1, LinkAssumption DEF Sleep, AtMost, TypeOK, TokenLasts
  <2>. QED BY <1>4, <2>2, SameHistory DEF Sleep, IInv, TypeOK, BackoffInRange
<1>5. CASE HeartbeatFails
  <2>1. SendHeartbeat /\ BackOff /\ UNCHANGED <<tokenVars, hubVars, trouble>> /\ phase' = "sleep"
    BY <1>5 DEF HeartbeatFails
  <2>2. interval' \in Nat /\ BackoffInRange'
    BY <2>1, BackOffRange
  <2>3. TypeOK'
    BY <2>1, <2>2, HeartbeatHistory DEF TypeOK
  <2>4. TokenLasts'
    BY <2>1 DEF TokenLasts
  <2>. QED BY <2>1, <2>2, <2>3, <2>4, HeartbeatHistory DEF IInv
<1>6. CASE HeartbeatAccepted
  <2>1. interval' = Base /\ BackoffInRange' /\ interval' \in Nat
    BY <1>6, LinkAssumption DEF HeartbeatAccepted, BackoffInRange
  <2>2. SendHeartbeat /\ UNCHANGED <<tokenVars, hubVars, trouble>> /\ phase' = "renew"
    BY <1>6 DEF HeartbeatAccepted
  <2>3. TypeOK'
    BY <2>1, <2>2, HeartbeatHistory DEF TypeOK
  <2>4. TokenLasts'
    BY <2>2 DEF TokenLasts
  <2>. QED BY <2>1, <2>2, <2>3, <2>4, HeartbeatHistory DEF IInv
<1>7. CASE MaybeRenewToken
  <2>1. /\ token' \in 0 .. Life /\ expiryKnown' \in BOOLEAN /\ trouble' \in 0 .. Threshold + 1
        /\ TokenLasts'
    <3>1. CASE Due
      BY <1>7, <3>1, AutoLoginToken DEF MaybeRenewToken
    <3>2. CASE ~Due
      BY <1>7, <3>2, LinkAssumption DEF MaybeRenewToken, Due, TypeOK, TokenLasts
    <3>. QED BY <3>1, <3>2
  <2>. QED BY <1>7, <2>1, SameHistory DEF MaybeRenewToken, IInv, TypeOK, BackoffInRange
<1>8. CASE HubDown
  <2>1. TypeOK'
    <3>1. outages' \in 0 .. MaxOutages
      BY <1>8, LinkAssumption DEF HubDown, TypeOK
    <3>. QED BY <1>8, <3>1 DEF HubDown, TypeOK
  <2>2. History'
    BY <1>8, SameHistory DEF HubDown
  <2>. QED BY <1>8, <2>1, <2>2 DEF HubDown, IInv, BackoffInRange, TokenLasts
<1>9. CASE HubUp
  BY <1>9, SameHistory DEF HubUp, IInv, TypeOK, BackoffInRange, TokenLasts
<1>10. CASE UNCHANGED vars
  BY <1>10, SameHistory DEF vars, IInv, TypeOK, BackoffInRange, TokenLasts
<1>. QED BY <1>1, <1>2, <1>3, <1>4, <1>5, <1>6, <1>7, <1>8, <1>9, <1>10 DEF Next, Node

LEMMA InitIInv == Init => IInv
<1>. SUFFICES ASSUME Init PROVE IInv
  OBVIOUS
<1>1. TypeOK
  <2>1. recent \in Seq(Outcomes)
    BY DEF Init
  <2>2. token \in 0 .. Life
    BY LinkAssumption DEF Init
  <2>3. /\ phase \in {"login", "register", "first", "sleep", "beat", "renew", "refused"}
        /\ expiryKnown \in BOOLEAN /\ up \in BOOLEAN
    BY DEF Init
  <2>4. interval \in Nat /\ outages \in 0 .. MaxOutages /\ trouble \in 0 .. Threshold + 1
    BY LinkAssumption DEF Init
  <2>5. /\ status \in {"online", "offline"}
        /\ failureCount \in 0 .. 3 /\ successCount \in 0 .. 3 - 1
    BY DEF Init
  <2>. QED BY <2>1, <2>2, <2>3, <2>4, <2>5 DEF TypeOK, FailureThreshold, SuccessThreshold
<1>2. History
  <2>1. Len(recent) = 0
    BY DEF Init
  <2>. QED BY <2>1 DEF Init, History, FailureTrail
<1>3. TokenLasts /\ BackoffInRange
  BY LinkAssumption DEF Init, TokenLasts, BackoffInRange
<1>. QED BY <1>1, <1>2, <1>3 DEF IInv

(* The variables of the link keep their types.                              *)
THEOREM LinkTypeOK == Spec => []TypeOK
<1>1. IInv => TypeOK
  BY DEF IInv
<1>. QED BY <1>1, InitIInv, StepIInv, PTL DEF Spec

(* client.go:377-407: three equal outcomes in a row settle the status.      *)
THEOREM LinkStatusFollowsHistory == Spec => []StatusFollowsHistory
<1>1. IInv => StatusFollowsHistory
  <2>. SUFFICES ASSUME IInv PROVE StatusFollowsHistory
    OBVIOUS
  <2>1. /\ failureCount \in 0 .. 3 /\ successCount \in 0 .. 2
        /\ status \in {"online", "offline"} /\ History
    BY DEF IInv, TypeOK, FailureThreshold, SuccessThreshold
  <2>. QED BY <2>1 DEF History, FailureTrail, SuccessTrail, Latest, Second, Third,
                       StatusFollowsHistory, Settled
<1>. QED BY <1>1, InitIInv, StepIInv, PTL DEF Spec

(* client.go:390-397: the status does not flap.                             *)
THEOREM LinkNoFlapping == Spec => NoFlapping
<1>1. IInv /\ [Next]_vars =>
        [/\ status' = "offline" /\ status = "online" => Settled("failed")'
         /\ status' = "online" /\ status = "offline" => Settled("accepted")']_vars
  <2>. SUFFICES ASSUME IInv, [Next]_vars, status' # status
                PROVE  /\ status' = "offline" /\ status = "online" => Settled("failed")'
                       /\ status' = "online" /\ status = "offline" => Settled("accepted")'
    OBVIOUS
  <2>1. SendHeartbeat
    BY DEF Next, Node, Login, Register, FirstHeartbeat, Sleep, HeartbeatFails, HeartbeatAccepted,
           MaybeRenewToken, HubDown, HubUp, vars
  <2>. QED BY <2>1, HeartbeatHistory DEF IInv
<1>. QED BY <1>1, InitIInv, StepIInv, PTL DEF Spec, NoFlapping

(* daemon.go:302-311: for any normal interval and cap, the back-off stays   *)
(* between the normal interval, or three quarters of the cap, and the cap.  *)
THEOREM LinkBackoffInRange == Spec => []BackoffInRange
<1>1. IInv => BackoffInRange
  BY DEF IInv
<1>. QED BY <1>1, InitIInv, StepIInv, PTL DEF Spec

(* daemon.go:839-865: the renewal threshold is enough for an outage that is *)
(* no longer than itself.                                                   *)
THEOREM LinkTokenSurvivesOutage == Spec => []TokenSurvivesOutage
<1>1. IInv => TokenSurvivesOutage
  BY LinkAssumption DEF IInv, TypeOK, TokenLasts, TokenSurvivesOutage
<1>. QED BY <1>1, InitIInv, StepIInv, PTL DEF Spec
=============================================================================
