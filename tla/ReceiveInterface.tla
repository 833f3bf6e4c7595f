-------------------------- MODULE ReceiveInterface --------------------------
(***************************************************************************)
(* The command path of src/src/receive_interface.c.  receive_get takes      *)
(* six-byte commands from the POSIX message queue, copies each into ONE     *)
(* heap buffer and starts a detached receive_thread_handler on it; the      *)
(* handlers share that buffer, the device table and the GPIO pins without   *)
(* any lock.  Each access a handler makes to shared memory is a step of its *)
(* own, so the interleavings below are those of the threads.                *)
(*                                                                          *)
(* A command is AA 55 key st 55 AA.  Its producers (voice, socket, smoke)   *)
(* check the frame bytes before they send, so a message here is a prefix of *)
(* such a frame: len bytes of it, fewer than 6 only from the serial port.   *)
(***************************************************************************)
EXTENDS Gdevice, FiniteSets

CONSTANTS
    Handlers,     \* thread ids: as many handlers as the process can run
    Commands,     \* the messages the producers may send
    FaceScores,   \* what face_score() may return, in hundredths
    QueueMax,     \* attr.mq_maxmsg: messages the queue holds
    MaxSends,     \* bound: messages sent in a behaviour
    MaxRestarts,  \* bound: times a dead process is started again
    Paced         \* TRUE: the producers send only to an idle system

FrameLen == 6     \* bytes of a whole command frame

Message == [len : 1 .. FrameLen, key : Byte, st : Byte]

ASSUME ReceiveAssumption ==
    /\ Commands \subseteq Message
    /\ FaceScores \subseteq 0 .. 100
    /\ QueueMax \in Nat \ {0}
    /\ MaxSends \in Nat
    /\ MaxRestarts \in Nat
    /\ Paced \in BOOLEAN

VARIABLES
    up,            \* the process is running
    restarts,      \* how often it was started again
    queue,         \* the POSIX message queue
    sent,          \* history: every message put in the queue, in order
    framed,        \* the frame bytes of receive_get's own buffer are right
    buffer,        \* receive_msg->buffer[2..3], shared by all threads
    gpio_status,   \* the field of each device of the table
    pin,           \* the level on each GPIO pin
    thread,        \* each receive_thread_handler: where it is, its locals
    set_threads,   \* voice_set threads that have not run yet
    spoken,        \* the last frame written to the voice module
    screen,        \* the text on the OLED
    recognised     \* history: some face_score() exceeded the threshold

process == <<up, restarts>>
mq      == <<queue, sent>>
memory  == <<framed, buffer, gpio_status>>
outputs == <<pin, spoken, screen>>
vars    == <<process, mq, memory, outputs, thread, set_threads, recognised>>

ZeroBuffer == [key |-> 0, st |-> 0]

(* The OLED text of a handler: the fire warning, or the device's name with  *)
(* Open (LOW) or Close (HIGH); "success" is all its last word can be.       *)
Texts    == [fire : BOOLEAN, dev : Devices, level : Levels]
Greeting == [fire |-> FALSE, dev |-> NULL, level |-> HIGH]  \* "Hello zzw"

(* pc "idle" is a thread that does not exist; every other location is named *)
(* for the access to shared memory the thread makes next.                   *)
Locations == {"idle", "entry", "find", "load", "store", "face", "scoring",
              "wload", "wput", "tag", "voice", "oled",
              "relock", "rload", "rput"}

Thread == [pc           : Locations,
           dev          : Devices \cup {NULL},   \* pcur_gdevice
           reg          : Levels,                \* a level read, not yet used
           face_result  : 0 .. 100,
           smoke_status : BOOLEAN]

NoThread == [pc |-> "idle", dev |-> NULL, reg |-> HIGH, face_result |-> 0,
             smoke_status |-> FALSE]

TypeOK ==
    /\ up \in BOOLEAN
    /\ restarts \in 0 .. MaxRestarts
    /\ queue \in Seq(Commands) /\ Len(queue) <= QueueMax
    /\ sent \in Seq(Commands) /\ Len(sent) <= MaxSends
    /\ framed \in BOOLEAN
    /\ buffer \in [key : Byte, st : Byte]
    /\ gpio_status \in [Devices -> Levels]
    /\ pin \in [Pins -> Levels]
    /\ thread \in [Handlers -> Thread]
    /\ set_threads \in Nat
    /\ spoken \in [key : Byte, st : Byte]
    /\ screen \in Texts \cup {Greeting}
    /\ recognised \in BOOLEAN

-----------------------------------------------------------------------------
(* The table as receive_init builds it from the ini file.  Nothing drives   *)
(* the pins to these levels at the start.                                   *)
IniStatus == [d \in Devices |-> gdevices[d].gpio_status]

(* The first start; backup/gpiotest.sh leaves every output pin at HIGH.     *)
Init ==
    /\ up = TRUE
    /\ restarts = 0
    /\ queue = <<>>
    /\ sent = <<>>
    /\ framed = FALSE
    /\ buffer = ZeroBuffer
    /\ gpio_status = IniStatus
    /\ pin = [p \in Pins |-> HIGH]
    /\ thread = [h \in Handlers |-> NoThread]
    /\ set_threads = 0
    /\ spoken = ZeroBuffer
    /\ screen = Greeting
    /\ recognised = FALSE

Idle == {h \in Handlers : thread[h].pc = "idle"}

(* Nothing the process started is still to run.                             *)
Quiescent == up /\ queue = <<>> /\ Idle = Handlers /\ set_threads = 0

(* The process dies on a bad access: its threads and its memory are gone,   *)
(* the message queue, the pins, the voice module and the OLED are not.      *)
Crash ==
    /\ up' = FALSE
    /\ framed' = FALSE
    /\ buffer' = ZeroBuffer
    /\ gpio_status' = IniStatus
    /\ thread' = [h \in Handlers |-> NoThread]
    /\ set_threads' = 0
    /\ UNCHANGED <<restarts, mq, outputs, recognised>>

(* main() runs again; mq_open has no O_EXCL and finds the old queue.        *)
Restart ==
    /\ ~up
    /\ restarts < MaxRestarts
    /\ up' = TRUE
    /\ restarts' = restarts + 1
    /\ screen' = Greeting
    /\ UNCHANGED <<mq, memory, pin, spoken, thread, set_threads, recognised>>

-----------------------------------------------------------------------------
(* A producer's mq_send, which blocks while the queue is full.              *)
Send(m) ==
    /\ up
    /\ Len(queue) < QueueMax
    /\ Len(sent) < MaxSends
    /\ Paced => Quiescent
    /\ queue' = Append(queue, m)
    /\ sent' = Append(sent, m)
    /\ UNCHANGED <<process, memory, outputs, thread, set_threads, recognised>>

(* Mutant: a receive_get that does not look at the frame.                   *)
Accepts_Always(m) == TRUE

(* The frame test of receive_get on its own buffer, which keeps the tail of *)
(* the message before when a shorter one is received into it.               *)
Accepts(m) == framed \/ m.len = FrameLen

(* Mutant: a copy that stops one byte short.                                *)
CopyInto_Short(b, m) == [key |-> IF m.len >= 3 THEN m.key ELSE b.key,
                         st  |-> b.st]

(* memcpy of receive_len bytes into the shared buffer.                      *)
CopyInto(b, m) == [key |-> IF m.len >= 3 THEN m.key ELSE b.key,
                   st  |-> IF m.len >= 4 THEN m.st ELSE b.st]

(* Mutant: a receive that leaves the message in the queue.                  *)
ReceiveMessage_Peek ==
    /\ up
    /\ queue # <<>>
    /\ UNCHANGED <<process, queue, sent, gpio_status, outputs, set_threads,
                   recognised>>

ReceiveMessage ==
    /\ up
    /\ queue # <<>>
    /\ queue' = Tail(queue)
    /\ UNCHANGED <<process, sent, gpio_status, outputs, set_threads,
                   recognised>>

(* One turn of receive_get's loop that starts a handler.                    *)
ReceiveAndStart(h) ==
    /\ ReceiveMessage
    /\ Accepts(Head(queue))
    /\ thread[h].pc = "idle"
    /\ framed' = TRUE
    /\ buffer' = CopyInto(buffer, Head(queue))
    /\ thread' = [thread EXCEPT ![h] = [NoThread EXCEPT !.pc = "entry"]]

(* A turn in which pthread_create fails for want of threads: its result is  *)
(* not looked at, so the buffer is overwritten and nobody acts on it.       *)
ReceiveNoThread ==
    /\ ReceiveMessage
    /\ Accepts(Head(queue))
    /\ Idle = {}
    /\ framed' = TRUE
    /\ buffer' = CopyInto(buffer, Head(queue))
    /\ UNCHANGED thread

(* A turn whose buffer fails the frame test: nothing but the receive.       *)
ReceiveDiscard ==
    /\ ReceiveMessage
    /\ ~Accepts(Head(queue))
    /\ UNCHANGED <<framed, buffer, thread>>

-----------------------------------------------------------------------------
(* The steps of receive_thread_handler.                                     *)

At(h, loc) == up /\ thread[h].pc = loc

Goto(h, loc) == thread' = [thread EXCEPT ![h].pc = loc]

(* Mutant: a handler that does not leave.                                   *)
Exit_Stuck(h) == UNCHANGED thread

Exit(h) == thread' = [thread EXCEPT ![h] = NoThread]

(* Mutant: the comparison with 0 inverted.                                  *)
Level_Inverted(st) == IF st # 0 THEN LOW ELSE HIGH

Level(st) == IF st = 0 THEN LOW ELSE HIGH

Recognised(score) == score > 50           \* face_result > 0.5

(* Mutant: without the test for the ignored command.                        *)
Enter_NoTest(h) ==
    /\ At(h, "entry")
    /\ Goto(h, "find")
    /\ UNCHANGED <<process, mq, memory, outputs, set_threads, recognised>>

(* First read of buffer[2]: command 0x40 does nothing.                      *)
Enter(h) ==
    /\ At(h, "entry")
    /\ IF buffer.key = KEY_IGNORED THEN Exit(h) ELSE Goto(h, "find")
    /\ UNCHANGED <<process, mq, memory, outputs, set_threads, recognised>>

(* Second read of buffer[2], with a device.                                 *)
FindGdevice(h) ==
    /\ At(h, "find")
    /\ find_gdevice_by_key(buffer.key) # NULL
    /\ thread' = [thread EXCEPT
                     ![h] = [@ EXCEPT !.pc = "load",
                                      !.dev = find_gdevice_by_key(buffer.key)]]
    /\ UNCHANGED <<process, mq, memory, outputs, set_threads, recognised>>

(* Second read of buffer[2], without one: the block at line 157 is skipped  *)
(* and line 209 dereferences the null pointer.                              *)
FindNothing(h) ==
    /\ At(h, "find")
    /\ find_gdevice_by_key(buffer.key) = NULL
    /\ Crash

(* gpio_status = (buffer[3] == 0 ? LOW : HIGH): its read, then its write.   *)
LoadStatus(h) ==
    /\ At(h, "load")
    /\ thread' = [thread EXCEPT
                     ![h] = [@ EXCEPT !.pc = "store", !.reg = Level(buffer.st)]]
    /\ UNCHANGED <<process, mq, memory, outputs, set_threads, recognised>>

(* Mutant: no face check before the pin is set.                             *)
StoreStatus_NoFace(h) ==
    /\ At(h, "store")
    /\ gpio_status' = [gpio_status EXCEPT ![thread[h].dev] = thread[h].reg]
    /\ Goto(h, "wload")
    /\ UNCHANGED <<process, mq, framed, buffer, outputs, set_threads,
                   recognised>>

StoreStatus(h) ==
    /\ At(h, "store")
    /\ gpio_status' = [gpio_status EXCEPT ![thread[h].dev] = thread[h].reg]
    /\ Goto(h, IF ChecksFace(thread[h].dev) THEN "face" ELSE "wload")
    /\ UNCHANGED <<process, mq, framed, buffer, outputs, set_threads,
                   recognised>>

(* face_score(): the snapshot and the call into Python.                     *)
StartScoring(h) ==
    /\ At(h, "face")
    /\ Goto(h, "scoring")
    /\ UNCHANGED <<process, mq, memory, outputs, set_threads, recognised>>

FinishScoring(h) ==
    \E score \in FaceScores :
        /\ At(h, "scoring")
        /\ thread' = [thread EXCEPT
                 ![h] = [@ EXCEPT
                           !.pc = IF Recognised(score) THEN "wload" ELSE "tag",
                           !.face_result = score]]
        /\ recognised' = (recognised \/ Recognised(score))
        /\ UNCHANGED <<process, mq, memory, outputs, set_threads>>

(* Two threads inside the interpreter, neither holding the GIL: undefined,  *)
(* and one of the outcomes is a fault.                                      *)
PythonFault ==
    /\ \E g, h \in Handlers : g # h /\ At(g, "scoring") /\ At(h, "scoring")
    /\ Crash

(* set_gpio_gdevice_status: the field is read, then the pin is written.     *)
LoadLevel(h, from, to) ==
    /\ At(h, from)
    /\ thread' = [thread EXCEPT
                     ![h] = [@ EXCEPT !.pc = to, !.reg = gpio_status[thread[h].dev]]]
    /\ UNCHANGED <<process, mq, memory, outputs, set_threads, recognised>>

(* Mutant: the levels mistaken for active high.                             *)
DigitalWrite_Inverted(h) ==
    pin' = [pin EXCEPT ![gdevices[thread[h].dev].gpio_pin] =
                           IF thread[h].reg = LOW THEN HIGH ELSE LOW]

DigitalWrite(h) ==
    pin' = [pin EXCEPT ![gdevices[thread[h].dev].gpio_pin] = thread[h].reg]

LoadRequested(h) == LoadLevel(h, "wload", "wput")

WriteRequested(h) ==
    /\ At(h, "wput")
    /\ DigitalWrite(h)
    /\ Goto(h, IF ChecksFace(thread[h].dev) THEN "tag" ELSE "voice")
    /\ UNCHANGED <<process, mq, memory, spoken, screen, set_threads,
                   recognised>>

(* Mutant: the two tags swapped.                                            *)
TagBuffer_Swapped(h) ==
    /\ At(h, "tag")
    /\ buffer' = [buffer EXCEPT
                    !.key = IF Recognised(thread[h].face_result)
                            THEN KEY_FACE_FAIL ELSE KEY_FACE_OK]
    /\ Goto(h, "voice")
    /\ UNCHANGED <<process, mq, framed, gpio_status, outputs, set_threads,
                   recognised>>

(* buffer[2] = 0x47 or 0x46: the result of the recognition, for the voice   *)
(* module, written into the buffer all handlers read their key from.        *)
TagBuffer(h) ==
    /\ At(h, "tag")
    /\ buffer' = [buffer EXCEPT
                    !.key = IF Recognised(thread[h].face_result)
                            THEN KEY_FACE_OK ELSE KEY_FACE_FAIL]
    /\ Goto(h, "voice")
    /\ UNCHANGED <<process, mq, framed, gpio_status, outputs, set_threads,
                   recognised>>

(* Mutant: any command for the beeper is taken for an alarm.                *)
FireAlarm_AnyStatus == buffer.key = KEY_SMOKE

FireAlarm == buffer.key = KEY_SMOKE /\ buffer.st = 0

(* An announced device: a voice_set thread is started on the shared buffer, *)
(* and smoke_status remembers what the buffer holds now.                    *)
StartAnnouncing(h) ==
    /\ At(h, "voice")
    /\ LET announce == Announced(thread[h].dev)
       IN  /\ set_threads' = IF announce THEN set_threads + 1 ELSE set_threads
           /\ thread' = [thread EXCEPT
                 ![h] = [@ EXCEPT !.pc = "oled",
                                  !.smoke_status = announce /\ FireAlarm]]
    /\ UNCHANGED <<process, mq, memory, outputs, recognised>>

(* Mutant: the handler forgets to close the lock.                           *)
ShowOled_NoRelock(h) ==
    /\ At(h, "oled")
    /\ screen' = [fire  |-> thread[h].smoke_status,
                  dev   |-> thread[h].dev,
                  level |-> gpio_status[thread[h].dev]]
    /\ Exit(h)
    /\ UNCHANGED <<process, mq, memory, pin, spoken, set_threads, recognised>>

ShowOled(h) ==
    /\ At(h, "oled")
    /\ screen' = [fire  |-> thread[h].smoke_status,
                  dev   |-> thread[h].dev,
                  level |-> gpio_status[thread[h].dev]]
    /\ IF ChecksFace(thread[h].dev) /\ Recognised(thread[h].face_result)
       THEN Goto(h, "relock")
       ELSE Exit(h)
    /\ UNCHANGED <<process, mq, memory, pin, spoken, set_threads, recognised>>

(* Mutant: the wrong level is stored.                                       *)
StoreLocked_Low(h) ==
    /\ At(h, "relock")
    /\ gpio_status' = [gpio_status EXCEPT ![thread[h].dev] = LOW]
    /\ Goto(h, "rload")
    /\ UNCHANGED <<process, mq, framed, buffer, outputs, set_threads,
                   recognised>>

(* After sleep(3) the lock is closed again through the same shared field.   *)
StoreLocked(h) ==
    /\ At(h, "relock")
    /\ gpio_status' = [gpio_status EXCEPT ![thread[h].dev] = HIGH]
    /\ Goto(h, "rload")
    /\ UNCHANGED <<process, mq, framed, buffer, outputs, set_threads,
                   recognised>>

LoadLocked(h) == LoadLevel(h, "rload", "rput")

WriteLocked(h) ==
    /\ At(h, "rput")
    /\ DigitalWrite(h)
    /\ Exit(h)
    /\ UNCHANGED <<process, mq, memory, spoken, screen, set_threads,
                   recognised>>

(* voice_set writes the six bytes the shared buffer holds by then, or       *)
(* nothing when the serial port does not open.                              *)
VoiceSet ==
    /\ up
    /\ set_threads > 0
    /\ set_threads' = set_threads - 1
    /\ spoken' \in {spoken, buffer}
    /\ UNCHANGED <<process, mq, memory, pin, screen, thread, recognised>>

HandlerStep(h) ==
    \/ Enter(h) \/ FindGdevice(h) \/ FindNothing(h)
    \/ LoadStatus(h) \/ StoreStatus(h)
    \/ StartScoring(h) \/ FinishScoring(h)
    \/ LoadRequested(h) \/ WriteRequested(h) \/ TagBuffer(h)
    \/ StartAnnouncing(h) \/ ShowOled(h)
    \/ StoreLocked(h) \/ LoadLocked(h) \/ WriteLocked(h)

Receive ==
    \/ \E h \in Handlers : ReceiveAndStart(h)
    \/ ReceiveNoThread
    \/ ReceiveDiscard

Next ==
    \/ \E m \in Commands : Send(m)
    \/ Receive
    \/ \E h \in Handlers : HandlerStep(h)
    \/ VoiceSet
    \/ PythonFault
    \/ Restart

Spec == Init /\ [][Next]_vars

(* The kernel schedules every thread; face_score() returns because wget and *)
(* the recognition service time out.  No producer has to send, and nothing  *)
(* restarts a dead process.                                                 *)
Fairness ==
    /\ WF_vars(Receive)
    /\ WF_vars(VoiceSet)
    /\ \A h \in Handlers : WF_vars(HandlerStep(h))

FairSpec == Spec /\ Fairness
=============================================================================
