------------------------------ MODULE SmokeProofs ------------------------------
(***************************************************************************)
(* Proofs about the smoke detector, for every size of the queue and every   *)
(* bound on the sensor, the failures and the other producers.               *)
(***************************************************************************)
EXTENDS SmokeInterface, TLAPS

(* What makes an alarm end at most once: while the flag is set, the message *)
(* handed over last is the alarm, whether or not mq_send took it.           *)
FlagMeansAlarm == switch_status = 1 => message = LOW

SmokeInv == TypeOK /\ FlagMeansAlarm

(* What the beeper will be told last, by the queue or, with no message of   *)
(* the detector in it, already: m.                                          *)
ToldLast(q, level, m) ==
    /\ (\A i \in DOMAIN q : q[i] = Other) => level = m
    /\ \A i \in DOMAIN q :
          q[i] # Other /\ (\A j \in DOMAIN q : j > i => q[j] = Other) => q[i] = m

(* Between an mq_send and the next poll that finds a change, that is the    *)
(* message of that mq_send, which is what the flag says.                    *)
BeeperInv ==
    /\ message = IF switch_status = 1 THEN LOW ELSE HIGH
    /\ \/ pc = "sleep" /\ switch_status = 1
       \/ pc # "send" /\ failures = 0
       => ToldLast(queue, beeper, message)

(* The type invariant is inductive on its own.                              *)
LEMMA TypeStep == TypeOK /\ [Next]_vars => TypeOK'
<1> SUFFICES ASSUME TypeOK, [Next]_vars PROVE TypeOK'
  OBVIOUS
<1> USE SmokeAssumption DEF TypeOK, Levels, LOW, HIGH, Other, counters
<1>1. CASE PollSmoke
  BY <1>1 DEF PollSmoke, Attempt
<1>2. CASE PollClear
  BY <1>2 DEF PollClear, Attempt
<1>3. CASE PollQuiet
  BY <1>3 DEF PollQuiet
<1>4. CASE Sent
  BY <1>4 DEF Sent
<1>5. CASE SendFails
  BY <1>5 DEF SendFails
<1>6. CASE Wake
  BY <1>6 DEF Wake
<1>7. CASE Sense
  BY <1>7 DEF Sense
<1>8. CASE OtherSends
  BY <1>8 DEF OtherSends
<1>9. CASE CarryOut
  BY <1>9 DEF CarryOut
<1>10. CASE UNCHANGED vars
  BY <1>10 DEF vars
<1> QED
  BY <1>1, <1>2, <1>3, <1>4, <1>5, <1>6, <1>7, <1>8, <1>9, <1>10
  DEF Next, SmokeStep

(* Only PollSmoke sets the flag, with an alarm, and only PollClear hands    *)
(* over anything else, and clears the flag.                                 *)
LEMMA FlagStep == SmokeInv /\ [Next]_vars => FlagMeansAlarm'
<1> SUFFICES ASSUME SmokeInv, [Next]_vars PROVE FlagMeansAlarm'
  OBVIOUS
<1> USE DEF SmokeInv, FlagMeansAlarm, TypeOK, Levels, LOW, HIGH, counters
<1>1. CASE PollSmoke
  BY <1>1 DEF PollSmoke, Attempt
<1>2. CASE PollClear
  BY <1>2 DEF PollClear, Attempt
<1>3. CASE UNCHANGED <<switch_status, message>>
  BY <1>3
<1> QED
  BY <1>1, <1>2, <1>3
  DEF Next, SmokeStep, vars, PollQuiet, Sent, SendFails, Wake, Sense,
      OtherSends, CarryOut

LEMMA SmokeInvariant == Spec => []SmokeInv
<1>1. Init => SmokeInv
  BY SmokeAssumption
  DEF Init, SmokeInv, TypeOK, FlagMeansAlarm, Levels, LOW, HIGH, Other
<1>2. SmokeInv /\ [Next]_vars => SmokeInv'
  BY TypeStep, FlagStep DEF SmokeInv
<1> QED
  BY <1>1, <1>2, PTL DEF Spec

(* The variables of smoke_get, the queue and the beeper keep their types.   *)
THEOREM TypeCorrect == Spec => []TypeOK
<1>1. SmokeInv => TypeOK
  BY DEF SmokeInv
<1> QED
  BY <1>1, SmokeInvariant, PTL

(* The end of an alarm is handed to mq_send only after an alarm: not at the *)
(* start, not twice, and not because an mq_send failed in between.          *)
THEOREM ClearNeedsAlarm == Spec => ClearFollowsAlarm
<1>1. SmokeInv /\ [Next]_vars
      => [pc = "poll" /\ pc' = "send" /\ message' = HIGH => message = LOW]_vars
  <2> SUFFICES ASSUME SmokeInv, Next,
                      pc = "poll", pc' = "send", message' = HIGH
               PROVE  message = LOW
    OBVIOUS
  <2> USE DEF SmokeInv, FlagMeansAlarm, LOW, HIGH
  <2>1. CASE PollSmoke
    BY <2>1 DEF PollSmoke, Attempt
  <2>2. CASE PollClear
    BY <2>2 DEF PollClear, Attempt
  <2> QED
    BY <2>1, <2>2
    DEF Next, SmokeStep, PollQuiet, Sent, SendFails, Wake, Sense, OtherSends,
        CarryOut
<1> QED
  BY <1>1, SmokeInvariant, PTL DEF Spec, ClearFollowsAlarm
-----------------------------------------------------------------------------
(* The flag and the beeper.                                                 *)

(* The detector's message, put at the end of the queue, is the last.        *)
LEMMA ToldBySend ==
    ASSUME NEW S, NEW q \in Seq(S), NEW level, NEW m \in S, m # Other
    PROVE  ToldLast(Append(q, m), level, m)
<1> DEFINE r == Append(q, m)
<1>1. /\ r \in Seq(S) /\ Len(r) = Len(q) + 1 /\ Len(q) \in Nat
      /\ r[Len(q) + 1] = m
  OBVIOUS
<1> HIDE DEF r
<1>2. DOMAIN r = 1 .. Len(q) + 1
  BY ONLY <1>1
<1>3. Len(q) + 1 \in DOMAIN r
  BY ONLY <1>1, <1>2
<1>4. ~ \A i \in DOMAIN r : r[i] = Other
  BY ONLY <1>1, <1>3, m # Other, Zenon
<1>5. ASSUME NEW i \in DOMAIN r, \A j \in DOMAIN r : j > i => r[j] = Other
      PROVE  r[i] = m
  <2>1. ~(Len(q) + 1 > i)
    BY ONLY <1>1, <1>3, <1>5, m # Other, Zenon
  <2>2. i = Len(q) + 1
    BY ONLY <1>1, <1>2, <2>1, i \in DOMAIN r
  <2> QED
    BY ONLY <1>1, <2>2, Zenon
<1>6. ToldLast(r, level, m)
  BY ONLY <1>4, <1>5, Zenon DEF ToldLast
<1> QED
  BY ONLY <1>6 DEF r

(* Another producer's message changes nothing.                              *)
LEMMA ToldByOthers ==
    ASSUME NEW S, NEW q \in Seq(S), Other \in S, NEW level, NEW m,
           ToldLast(q, level, m)
    PROVE  ToldLast(Append(q, Other), level, m)
<1> DEFINE r == Append(q, Other)
<1>1. /\ r \in Seq(S) /\ Len(r) = Len(q) + 1 /\ Len(q) \in Nat
      /\ r[Len(q) + 1] = Other
      /\ \A i \in 1 .. Len(q) : r[i] = q[i]
  OBVIOUS
<1> HIDE DEF r
<1>2. DOMAIN r = 1 .. Len(q) + 1 /\ DOMAIN q = 1 .. Len(q)
  BY ONLY <1>1, q \in Seq(S)
<1>3. /\ \A i \in DOMAIN q : i \in DOMAIN r /\ r[i] = q[i]
      /\ \A i \in DOMAIN r : i \in DOMAIN q \/ r[i] = Other
  BY ONLY <1>1, <1>2
<1>4. ToldLast(r, level, m)
  BY ONLY <1>3, ToldLast(q, level, m), Zenon DEF ToldLast
<1> QED
  BY ONLY <1>4 DEF r

(* The first message is carried out.                                        *)
LEMMA ToldByQueue ==
    ASSUME NEW S, NEW q \in Seq(S), q # <<>>, NEW level, NEW m,
           ToldLast(q, level, m)
    PROVE  ToldLast(Tail(q), IF Head(q) = Other THEN level ELSE Head(q), m)
<1> DEFINE r == Tail(q)
           new == IF Head(q) = Other THEN level ELSE Head(q)
<1>1. /\ r \in Seq(S) /\ Len(r) = Len(q) - 1 /\ Len(q) \in Nat \ {0}
      /\ Head(q) = q[1]
      /\ \A i \in 1 .. Len(r) : r[i] = q[i + 1]
  OBVIOUS
<1>n. new = IF q[1] = Other THEN level ELSE q[1]
  BY <1>1
<1> HIDE DEF r, new
<1>2. DOMAIN r = 1 .. Len(r) /\ DOMAIN q = 1 .. Len(q)
  BY ONLY <1>1, q \in Seq(S)
<1>3. /\ 1 \in DOMAIN q
      /\ \A i \in DOMAIN r : i + 1 \in DOMAIN q /\ r[i] = q[i + 1]
      /\ \A i \in DOMAIN r, j \in DOMAIN q : j > i + 1 =>
            j - 1 \in DOMAIN r /\ j - 1 > i /\ r[j - 1] = q[j]
      /\ \A j \in DOMAIN q : j > 1 => j - 1 \in DOMAIN r /\ r[j - 1] = q[j]
      /\ \A j \in DOMAIN q : j > 1 \/ j = 1
  <2>1. 1 \in DOMAIN q /\ \A j \in DOMAIN q : j > 1 \/ j = 1
    BY ONLY <1>1, <1>2
  <2>2. \A i \in DOMAIN r : i + 1 \in DOMAIN q /\ r[i] = q[i + 1]
    BY ONLY <1>1, <1>2
  <2>3. ASSUME NEW j \in DOMAIN q, j > 1
        PROVE  j - 1 \in DOMAIN r /\ r[j - 1] = q[j]
    <3>1. j - 1 \in DOMAIN r /\ (j - 1) + 1 = j
      BY ONLY <1>1, <1>2, <2>3
    <3>2. r[j - 1] = q[(j - 1) + 1]
      BY ONLY <2>2, <3>1, Zenon
    <3> QED
      BY ONLY <3>1, <3>2, Zenon
  <2>4. \A i \in DOMAIN r, j \in DOMAIN q : j > i + 1 => j > 1 /\ j - 1 > i
    BY ONLY <1>1, <1>2
  <2> QED
    BY ONLY <2>1, <2>2, <2>3, <2>4, Zenon
<1>4. ASSUME \A i \in DOMAIN r : r[i] = Other
      PROVE  new = m
  <2>1. \A j \in DOMAIN q : j > 1 => q[j] = Other
    BY ONLY <1>3, <1>4, Zenon
  <2>2. CASE q[1] = Other
    <3>1. \A j \in DOMAIN q : q[j] = Other
      BY ONLY <1>3, <2>1, <2>2, Zenon
    <3> QED
      BY ONLY <1>n, <2>2, <3>1, ToldLast(q, level, m), Zenon DEF ToldLast
  <2>3. CASE q[1] # Other
    BY ONLY <1>n, <1>3, <2>1, <2>3, ToldLast(q, level, m), Zenon DEF ToldLast
  <2> QED
    BY <2>2, <2>3
<1>5. ASSUME NEW i \in DOMAIN r, r[i] # Other,
             \A j \in DOMAIN r : j > i => r[j] = Other
      PROVE  r[i] = m
  <2>1. /\ i + 1 \in DOMAIN q /\ q[i + 1] # Other
        /\ \A j \in DOMAIN q : j > i + 1 => q[j] = Other
    BY ONLY <1>3, <1>5, Zenon
  <2>2. q[i + 1] = m
    BY ONLY <2>1, ToldLast(q, level, m), Zenon DEF ToldLast
  <2> QED
    BY ONLY <1>3, <2>2, i \in DOMAIN r, Zenon
<1>6. ToldLast(r, new, m)
  BY ONLY <1>4, <1>5, Zenon DEF ToldLast
<1> QED
  BY ONLY <1>6 DEF r, new

(* The sends and the receives keep what the beeper is told last; a poll     *)
(* that changes the flag, and an mq_send that fails, end the claim.         *)
LEMMA BeeperStep == TypeOK /\ BeeperInv /\ [Next]_vars => BeeperInv'
<1> SUFFICES ASSUME TypeOK, BeeperInv, [Next]_vars PROVE BeeperInv'
  OBVIOUS
<1> DEFINE Messages == Levels \cup {Other}
<1>0. /\ queue \in Seq(Messages) /\ message \in Messages /\ message # Other
      /\ Other \in Messages /\ failures \in Nat /\ switch_status \in {0, 1}
  BY DEF TypeOK, Levels, LOW, HIGH, Other
<1> HIDE DEF Messages
<1>1. CASE PollSmoke
  BY <1>1 DEF PollSmoke, Attempt, BeeperInv
<1>2. CASE PollClear
  BY <1>2 DEF PollClear, Attempt, BeeperInv
<1>3. CASE PollQuiet
  BY <1>3 DEF PollQuiet, counters, BeeperInv
<1>4. CASE Sent
  <2>1. ToldLast(Append(queue, message), beeper, message)
    BY ONLY <1>0, ToldBySend
  <2> QED
    BY <1>4, <2>1 DEF Sent, BeeperInv
<1>5. CASE SendFails
  BY <1>0, <1>5 DEF SendFails, BeeperInv
<1>6. CASE Wake
  BY <1>6 DEF Wake, counters, BeeperInv
<1>7. CASE Sense
  BY <1>7 DEF Sense, BeeperInv
<1>8. CASE OtherSends
  <2>1. ToldLast(queue, beeper, message)
        => ToldLast(Append(queue, Other), beeper, message)
    BY ONLY <1>0, ToldByOthers
  <2> QED
    BY <1>8, <2>1 DEF OtherSends, BeeperInv
<1>9. CASE CarryOut
  <2>1. queue # <<>>
    BY <1>9 DEF CarryOut
  <2>2. ToldLast(queue, beeper, message)
        => ToldLast(Tail(queue),
                    IF Head(queue) = Other THEN beeper ELSE Head(queue), message)
    BY ONLY <1>0, <2>1, ToldByQueue
  <2> QED
    BY <1>9, <2>2 DEF CarryOut, counters, BeeperInv
<1>10. CASE UNCHANGED vars
  BY <1>10 DEF vars, BeeperInv
<1> QED
  BY <1>1, <1>2, <1>3, <1>4, <1>5, <1>6, <1>7, <1>8, <1>9, <1>10
  DEF Next, SmokeStep

(* Once its messages are carried out the beeper sounds exactly while the    *)
(* detector's flag is set, whatever the other producers put between them:   *)
(* smoke_get's sends and the receive of receive_get.                        *)
THEOREM BeeperAgrees == Spec => []BeeperFollowsFlag
<1>1. Init => BeeperInv
  BY DEF Init, BeeperInv, ToldLast, LOW, HIGH
<1>2. TypeOK /\ BeeperInv /\ [Next]_vars => BeeperInv'
  BY BeeperStep
<1>3. BeeperInv => BeeperFollowsFlag
  BY DEF BeeperInv, BeeperFollowsFlag, ToldLast
<1> QED
  BY <1>1, <1>2, <1>3, TypeCorrect, PTL DEF Spec
================================================================================
