--------------------------- MODULE SmokeInterface ---------------------------
(***************************************************************************)
(* The smoke detector: the loop of smoke_get in src/src/smoke_interface.c,  *)
(* the sensor it polls, the message queue it shares with the other          *)
(* producers, and the beeper its commands switch.  What happens to a        *)
(* command between the queue and the beeper is the subject of module        *)
(* ReceiveInterface; here a command that is received is carried out before  *)
(* the next, as it is there when commands come one at a time.               *)
(***************************************************************************)
EXTENDS Naturals, Sequences

CONSTANTS
    QueueMax,     \* attr.mq_maxmsg
    MaxChanges,   \* bound: changes of the sensor's level
    MaxFailures,  \* bound: calls of mq_send that fail
    MaxOthers     \* bound: messages of other producers

ASSUME SmokeAssumption ==
    /\ QueueMax \in Nat \ {0}
    /\ MaxChanges \in Nat /\ MaxFailures \in Nat /\ MaxOthers \in Nat

LOW  == 0      \* smoke, an alarm, a beeper that sounds
HIGH == 1
Levels == {LOW, HIGH}
Other == 2     \* a command for another device

VARIABLES
    sensor,         \* the level of SMOKE_PIN
    pc,             \* where smoke_get is
    switch_status,  \* an alarm was raised and not yet cleared
    message,        \* buffer[3]: the status last handed to mq_send
    queue,          \* the message queue
    beeper,         \* the level of the beeper's pin
    changes, failures, others    \* counters for the bounds

vars == <<sensor, pc, switch_status, message, queue, beeper,
          changes, failures, others>>
counters == <<changes, failures, others>>

TypeOK ==
    /\ sensor \in Levels
    /\ pc \in {"poll", "send", "sleep"}
    /\ switch_status \in {0, 1}
    /\ message \in Levels
    /\ queue \in Seq(Levels \cup {Other}) /\ Len(queue) <= QueueMax
    /\ beeper \in Levels
    /\ changes \in 0 .. MaxChanges
    /\ failures \in 0 .. MaxFailures
    /\ others \in 0 .. MaxOthers

Init ==
    /\ sensor \in Levels
    /\ pc = "poll"
    /\ switch_status = 0
    /\ message = HIGH    \* none handed over yet
    /\ queue = <<>>
    /\ beeper = HIGH
    /\ changes = 0 /\ failures = 0 /\ others = 0

Sense ==
    /\ changes < MaxChanges
    /\ changes' = changes + 1
    /\ sensor' = 1 - sensor
    /\ UNCHANGED <<pc, switch_status, message, queue, beeper,
                   failures, others>>

OtherSends ==
    /\ others < MaxOthers
    /\ Len(queue) < QueueMax
    /\ others' = others + 1
    /\ queue' = Append(queue, Other)
    /\ UNCHANGED <<sensor, pc, switch_status, message, beeper,
                   changes, failures>>

(* smoke_get calls mq_send with buffer[3] = st.                             *)
Attempt(st) ==
    /\ pc' = "send"
    /\ message' = st

(* digitalRead and the choice of a message.  The flag is set and cleared    *)
(* before the send that it stands for.                                      *)
(* Mutants: the flag is not set; an alarm is only sent while it is not set. *)
PollSmoke_NoFlag ==
    /\ pc = "poll" /\ sensor = LOW
    /\ Attempt(LOW)
    /\ UNCHANGED <<sensor, switch_status, queue, beeper, counters>>

PollSmoke_Once ==
    /\ pc = "poll" /\ sensor = LOW
    /\ switch_status' = 1
    /\ IF switch_status = 0 THEN Attempt(LOW)
                            ELSE pc' = "sleep" /\ UNCHANGED message
    /\ UNCHANGED <<sensor, queue, beeper, counters>>

PollSmoke ==
    /\ pc = "poll" /\ sensor = LOW
    /\ switch_status' = 1
    /\ Attempt(LOW)
    /\ UNCHANGED <<sensor, queue, beeper, counters>>

(* Mutant: the flag is not cleared.                                         *)
PollClear_KeepFlag ==
    /\ pc = "poll" /\ sensor = HIGH /\ switch_status = 1
    /\ Attempt(HIGH)
    /\ UNCHANGED <<sensor, switch_status, queue, beeper, counters>>

PollClear ==
    /\ pc = "poll" /\ sensor = HIGH /\ switch_status = 1
    /\ switch_status' = 0
    /\ Attempt(HIGH)
    /\ UNCHANGED <<sensor, queue, beeper, counters>>

PollQuiet ==
    /\ pc = "poll" /\ sensor = HIGH /\ switch_status = 0
    /\ pc' = "sleep"
    /\ UNCHANGED <<sensor, switch_status, message, queue, beeper,
                   counters>>

(* mq_send waits for room in the queue.                                     *)
Sent ==
    /\ pc = "send"
    /\ Len(queue) < QueueMax
    /\ queue' = Append(queue, message)
    /\ pc' = "sleep"
    /\ UNCHANGED <<sensor, switch_status, message, beeper, counters>>

(* mq_send fails: the loop continues without its sleep.                     *)
SendFails ==
    /\ pc = "send"
    /\ failures < MaxFailures
    /\ failures' = failures + 1
    /\ pc' = "poll"
    /\ UNCHANGED <<sensor, switch_status, message, queue, beeper,
                   changes, others>>

Wake ==    \* sleep(5) ends
    /\ pc = "sleep"
    /\ pc' = "poll"
    /\ UNCHANGED <<sensor, switch_status, message, queue, beeper,
                   counters>>

CarryOut ==    \* receive_get and its handler
    /\ queue # <<>>
    /\ queue' = Tail(queue)
    /\ beeper' = IF Head(queue) = Other THEN beeper ELSE Head(queue)
    /\ UNCHANGED <<sensor, pc, switch_status, message, counters>>

SmokeStep == PollSmoke \/ PollClear \/ PollQuiet \/ Sent \/ SendFails \/ Wake

Next == SmokeStep \/ Sense \/ OtherSends \/ CarryOut

Spec == Init /\ [][Next]_vars

FairSpec == Spec /\ WF_vars(SmokeStep) /\ WF_vars(CarryOut)

-----------------------------------------------------------------------------
(* Smoke that stays makes the beeper sound, whatever the other producers    *)
(* put in the queue and even if mq_send fails now and then: an alarm is     *)
(* repeated at every poll.                                                  *)
AlarmReachesBeeper == <>[](sensor = LOW) => <>[](beeper = LOW)

(* When the smoke is gone for good the beeper falls silent for good, unless *)
(* an mq_send fails: alarms that waited in the queue are behind us, and the *)
(* one message that ends the alarm comes after them.                        *)
ClearReachesBeeper ==
    <>[](sensor = HIGH) => <>[](beeper = HIGH \/ failures > 0)

(* With no message of the detector in the queue the beeper sounds exactly   *)
(* while the detector's flag is set: after an alarm that was sent, and as   *)
(* long as no mq_send has failed at any other time.                         *)
BeeperFollowsFlag ==
    /\ \A i \in DOMAIN queue : queue[i] = Other
    /\ \/ pc = "sleep" /\ switch_status = 1
       \/ pc # "send" /\ failures = 0
    => beeper = IF switch_status = 1 THEN LOW ELSE HIGH

(* The end of an alarm is handed to mq_send only after an alarm, and once.  *)
ClearFollowsAlarm ==
    [][pc = "poll" /\ pc' = "send" /\ message' = HIGH => message = LOW]_vars
=============================================================================
