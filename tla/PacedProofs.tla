------------------------------ MODULE PacedProofs ------------------------------
(***************************************************************************)
(* The command path with commands one at a time, proved for every device    *)
(* table, every set of whole commands and every face score: the system at   *)
(* rest shows what its commands asked for.                                  *)
(***************************************************************************)
EXTENDS ReceiveProofs

(* What the proofs assume of the constants: commands come whole and one at  *)
(* a time, a thread can be started, and, as in ini/gdevice.ini, no two      *)
(* devices share a pin and the beeper is announced.                         *)
OneAtATime ==
    /\ Paced
    /\ WholeFrames
    /\ Handlers # {}
    /\ \A d, e \in Devices : Pin(d) = Pin(e) => d = e
    /\ \A d \in Devices : gdevices[d].key = KEY_SMOKE => Announced(d)

(* One handler at most; while a command waits, there is none.               *)
Alone ==
    /\ \A g, h \in Handlers :
          thread[g].pc # "idle" /\ thread[h].pc # "idle" => g = h
    /\ queue # <<>> => /\ up /\ set_threads = 0
                       /\ \A h \in Handlers : thread[h].pc = "idle"
                       /\ Len(queue) = 1 /\ sent # <<>>
                       /\ LastCommand = [key |-> Head(queue).key,
                                         st  |-> Head(queue).st]

(* Where a handler is tells what it makes of the last command: what it has  *)
(* read and what it has stored are that command's, and nobody else's.       *)
Reading == {"entry", "find", "load", "store", "face", "scoring", "wload",
            "wput", "tag"}
OnFaces == {"face", "scoring", "tag", "relock", "rload", "rput"}

Current(t) ==
    /\ up /\ sent # <<>>
    /\ buffer.st = LastCommand.st
    /\ t.pc \in Reading => buffer.key = LastCommand.key
    /\ t.pc # "entry" => LastCommand.key # KEY_IGNORED
    /\ t.pc \notin {"entry", "find"} =>
          t.dev \in Devices /\ t.dev = find_gdevice_by_key(LastCommand.key)
    /\ t.pc \in OnFaces => ChecksFace(t.dev)
    /\ t.pc \in {"store", "wput"} => t.reg = Level(LastCommand.st)
    /\ t.pc \in {"face", "scoring", "wload", "wput"} =>
          gpio_status[t.dev] = Level(LastCommand.st)
    /\ t.pc = "rload" => gpio_status[t.dev] = HIGH
    /\ t.pc = "rput" => t.reg = HIGH

(* A handler of a device without a face check, after its write.             *)
Shown(t) ==
    t.pc \in {"voice", "oled"} /\ ~ChecksFace(t.dev) =>
        /\ gpio_status[t.dev] = Level(LastCommand.st)
        /\ pin[Pin(t.dev)] = Level(LastCommand.st)
        /\ t.pc = "voice" => buffer.key = LastCommand.key
        /\ t.pc = "oled" =>
              (t.smoke_status <=> gdevices[t.dev].key = KEY_SMOKE
                                  /\ LastCommand.st = 0)

HandlersCurrent ==
    \A h \in Handlers :
        thread[h].pc # "idle" => Current(thread[h]) /\ Shown(thread[h])

InFlight == queue # <<>> \/ \E h \in Handlers : thread[h].pc \in Answering

(* The last command of each device is on its pin, or on its way.            *)
PinsReflect ==
    \A d \in Devices : ~ChecksFace(d) =>
        \A i \in CommandsFor(d) :
            (\A j \in CommandsFor(d) : j <= i) =>
                \/ i = Len(sent) /\ InFlight
                \/ pin[Pin(d)] = Level(sent[i].st)

(* An open lock has a handler that will close it.                           *)
OpenHasCloser ==
    \A d \in Devices :
        ChecksFace(d) /\ pin[Pin(d)] = LOW => Closers(d) # {}

(* The text is true of the pin, or about to be replaced.                    *)
ScreenTrue ==
    screen.dev # NULL /\ ~ChecksFace(screen.dev) =>
        \/ \E h \in Handlers : /\ thread[h].pc \in {"voice", "oled"}
                               /\ thread[h].dev = screen.dev
        \/ /\ screen.level = pin[Pin(screen.dev)]
           /\ screen.fire <=> /\ gdevices[screen.dev].key = KEY_SMOKE
                              /\ pin[Pin(screen.dev)] = LOW

PacedInv ==
    /\ Alone
    /\ HandlersCurrent
    /\ PinsReflect
    /\ OpenHasCloser
    /\ ScreenTrue
    /\ KnownCommandsKeepRunning

-----------------------------------------------------------------------------
(* NULL is no device.                                                       *)
LEMMA NullIsNoDevice == NULL \notin Devices
BY GdevicesAssumption, LenProperties DEF Devices, NULL

(* The last command is the last message.                                    *)
LEMMA LastIsLast ==
    ASSUME TypeOK, sent # <<>>
    PROVE  /\ Len(sent) \in DOMAIN sent
           /\ LastCommand = [key |-> sent[Len(sent)].key, st |-> sent[Len(sent)].st]
           /\ LastCommand.key \in Byte /\ LastCommand.st \in Byte
<1>1. sent \in Seq(Commands) /\ Len(sent) \in Nat /\ Len(sent) # 0
  BY EmptySeq, LenProperties DEF TypeOK
<1>2. Len(sent) \in DOMAIN sent /\ sent[Len(sent)] \in Commands
  BY <1>1
<1> QED
  BY <1>2, ReceiveAssumption DEF LastCommand, Message

(* The key of the ignored command is no device's.                           *)
LEMMA IgnoredFindsNothing == find_gdevice_by_key(KEY_IGNORED) = NULL
BY FindIsDevice, GdevicesAssumption

-----------------------------------------------------------------------------
(* A step of a handler keeps the process, the queue and the history; the    *)
(* other handlers stay as they are.                                         *)
LEMMA HandlerFrame ==
    ASSUME TypeOK, NEW h \in Handlers, HandlerStep(h), ~FindNothing(h)
    PROVE  /\ up /\ thread[h].pc # "idle"
           /\ UNCHANGED <<process, mq, framed>> /\ LastCommand' = LastCommand
           /\ \A g \in Handlers : g # h => thread'[g] = thread[g]
<1>1. up /\ UNCHANGED <<process, mq, framed>>
  BY Zenon DEF HandlerStep, At, memory, Enter, FindGdevice,
        LoadStatus, StoreStatus, StartScoring, FinishScoring, LoadRequested,
        WriteRequested, TagBuffer, StartAnnouncing, ShowOled, StoreLocked,
        LoadLocked, WriteLocked, LoadLevel
<1>2. thread[h].pc # "idle"
  BY DEF HandlerStep, At, Enter, FindGdevice,
        LoadStatus, StoreStatus, StartScoring, FinishScoring, LoadRequested,
        WriteRequested, TagBuffer, StartAnnouncing, ShowOled, StoreLocked,
        LoadLocked, WriteLocked, LoadLevel
<1>3. LastCommand' = LastCommand
  BY <1>1 DEF mq, LastCommand
<1>4. \A g \in Handlers : g # h => thread'[g] = thread[g]
  BY DEF TypeOK, HandlerStep, Goto, Exit, Enter, FindGdevice,
         LoadStatus, StoreStatus, StartScoring, FinishScoring,
         LoadRequested, WriteRequested, TagBuffer, StartAnnouncing,
         ShowOled, StoreLocked, LoadLocked, WriteLocked, LoadLevel
<1> QED
  BY <1>1, <1>2, <1>3, <1>4

(* The handler that acts stays current.                                     *)
LEMMA ActorCurrent ==
    ASSUME IInv, PacedInv, NEW h \in Handlers, HandlerStep(h), ~FindNothing(h),
           thread'[h].pc # "idle"
    PROVE  Current(thread[h])'
<1> DEFINE t == thread[h]
<1>1. /\ TypeOK /\ up /\ sent' = sent /\ up' = up
      /\ t.pc # "idle" /\ t \in Thread
      /\ thread \in [Handlers -> Thread]
      /\ gpio_status \in [Devices -> Levels]
      /\ LastCommand' = LastCommand
  BY HandlerFrame DEF IInv, process, mq, TypeOK
<1>2. Current(t)
  BY <1>1 DEF PacedInv, HandlersCurrent
<1>2a. FoundDevice(h) /\ buffer \in [key : Byte, st : Byte]
  BY DEF IInv, HandlerInv, TypeOK
<1>3. CASE Enter(h)
  <2>1. /\ buffer' = buffer /\ gpio_status' = gpio_status /\ t.pc = "entry"
        /\ thread' = [thread EXCEPT ![h] = NoThread] => thread'[h].pc = "idle"
        /\ buffer.key # KEY_IGNORED => thread' = [thread EXCEPT ![h].pc = "find"]
        /\ buffer.key = KEY_IGNORED => thread' = [thread EXCEPT ![h] = NoThread]
    BY <1>1, <1>3 DEF Enter, At, Goto, Exit, memory, NoThread
  <2>2. buffer.key # KEY_IGNORED /\ thread'[h] = [t EXCEPT !.pc = "find"]
    BY <1>1, <2>1
  <2> QED
    BY <1>1, <1>2, <2>1, <2>2 DEF Current, Reading, OnFaces, Thread
<1>4. CASE FindGdevice(h)
  <2>1. /\ buffer' = buffer /\ gpio_status' = gpio_status /\ t.pc = "find"
        /\ thread'[h] = [t EXCEPT !.pc = "load",
                                  !.dev = find_gdevice_by_key(buffer.key)]
        /\ find_gdevice_by_key(buffer.key) \in Devices
    BY <1>1, <1>4, FindIsDevice DEF FindGdevice, At, memory
  <2> QED
    BY <1>1, <1>2, <2>1 DEF Current, Reading, OnFaces, Thread
<1>5. CASE LoadStatus(h)
  <2>1. /\ buffer' = buffer /\ gpio_status' = gpio_status /\ t.pc = "load"
        /\ thread'[h] = [t EXCEPT !.pc = "store", !.reg = Level(buffer.st)]
    BY <1>1, <1>5 DEF LoadStatus, At, memory
  <2> QED
    BY <1>1, <1>2, <2>1 DEF Current, Reading, OnFaces, Thread
<1>6. CASE StoreStatus(h)
  <2>1. /\ buffer' = buffer /\ t.pc = "store" /\ t.dev \in Devices
        /\ gpio_status' = [gpio_status EXCEPT ![t.dev] = t.reg]
        /\ thread'[h] = [t EXCEPT !.pc = IF ChecksFace(t.dev) THEN "face" ELSE "wload"]
    BY <1>1, <1>2, <1>6 DEF StoreStatus, At, Goto, Current
  <2>2. gpio_status'[t.dev] = t.reg /\ t.reg = Level(LastCommand.st)
    BY <1>1, <1>2, <2>1 DEF Current
  <2>3. /\ thread'[h].dev = t.dev
        /\ \/ thread'[h].pc = "face" /\ ChecksFace(t.dev)
           \/ thread'[h].pc = "wload"
    BY <1>1, <2>1 DEF Thread
  <2> QED
    BY <1>1, <1>2, <2>1, <2>2, <2>3 DEF Current, Reading, OnFaces, ChecksFace
<1>7. CASE StartScoring(h)
  <2>1. /\ buffer' = buffer /\ gpio_status' = gpio_status /\ t.pc = "face"
        /\ thread'[h] = [t EXCEPT !.pc = "scoring"]
    BY <1>1, <1>7 DEF StartScoring, At, Goto, memory
  <2> QED
    BY <1>1, <1>2, <2>1 DEF Current, Reading, OnFaces, Thread, ChecksFace
<1>8. CASE FinishScoring(h)
  <2>1. PICK score \in FaceScores :
          /\ buffer' = buffer /\ gpio_status' = gpio_status /\ t.pc = "scoring"
          /\ thread'[h] = [t EXCEPT
                             !.pc = IF Recognised(score) THEN "wload" ELSE "tag",
                             !.face_result = score]
    BY <1>1, <1>8 DEF FinishScoring, At, memory
  <2>2. /\ thread'[h].dev = t.dev
        /\ thread'[h].pc = "wload" \/ thread'[h].pc = "tag"
    BY <1>1, <2>1 DEF Thread
  <2> QED
    BY <1>1, <1>2, <2>1, <2>2 DEF Current, Reading, OnFaces, ChecksFace
<1>9. CASE LoadRequested(h)
  <2>1. /\ buffer' = buffer /\ gpio_status' = gpio_status /\ t.pc = "wload"
        /\ thread'[h] = [t EXCEPT !.pc = "wput", !.reg = gpio_status[t.dev]]
    BY <1>1, <1>9 DEF LoadRequested, LoadLevel, At, memory
  <2> QED
    BY <1>1, <1>2, <2>1 DEF Current, Reading, OnFaces, Thread
<1>10. CASE WriteRequested(h)
  <2>1. /\ buffer' = buffer /\ gpio_status' = gpio_status /\ t.pc = "wput"
        /\ thread'[h] = [t EXCEPT !.pc = IF ChecksFace(t.dev) THEN "tag" ELSE "voice"]
    BY <1>1, <1>10 DEF WriteRequested, At, Goto, memory
  <2>2. /\ thread'[h].dev = t.dev
        /\ \/ thread'[h].pc = "tag" /\ ChecksFace(t.dev)
           \/ thread'[h].pc = "voice"
    BY <1>1, <2>1 DEF Thread
  <2> QED
    BY <1>1, <1>2, <2>1, <2>2 DEF Current, Reading, OnFaces, ChecksFace
<1>11. CASE TagBuffer(h)
  <2>1. /\ buffer'.st = buffer.st /\ gpio_status' = gpio_status /\ t.pc = "tag"
        /\ thread'[h] = [t EXCEPT !.pc = "voice"]
    BY <1>1, <1>2a, <1>11 DEF TagBuffer, At, Goto
  <2> QED
    BY <1>1, <1>2, <2>1 DEF Current, Reading, OnFaces, Thread
<1>12. CASE StartAnnouncing(h)
  <2>1. PICK b \in BOOLEAN :
        /\ buffer' = buffer /\ gpio_status' = gpio_status /\ t.pc = "voice"
        /\ thread'[h] = [t EXCEPT !.pc = "oled", !.smoke_status = b]
    BY <1>1, <1>12 DEF StartAnnouncing, At, memory, Announced, FireAlarm
  <2> QED
    BY <1>1, <1>2, <2>1 DEF Current, Reading, OnFaces, Thread
<1>13. CASE ShowOled(h)
  <2>1. /\ buffer' = buffer /\ gpio_status' = gpio_status /\ t.pc = "oled"
        /\ \/ thread'[h] = NoThread
           \/ thread'[h] = [t EXCEPT !.pc = "relock"] /\ ChecksFace(t.dev)
    BY <1>1, <1>13 DEF ShowOled, At, Goto, Exit, memory
  <2>2. thread'[h] = [t EXCEPT !.pc = "relock"] /\ ChecksFace(t.dev)
    BY <2>1 DEF NoThread
  <2> QED
    BY <1>1, <1>2, <2>1, <2>2 DEF Current, Reading, OnFaces, Thread, ChecksFace
<1>14. CASE StoreLocked(h)
  <2>1. /\ buffer' = buffer /\ t.pc = "relock" /\ t.dev \in Devices
        /\ gpio_status' = [gpio_status EXCEPT ![t.dev] = HIGH]
        /\ thread'[h] = [t EXCEPT !.pc = "rload"]
    BY <1>1, <1>2, <1>14 DEF StoreLocked, At, Goto, Current
  <2>2. gpio_status'[t.dev] = HIGH
    BY <1>1, <2>1
  <2> QED
    BY <1>1, <1>2, <2>1, <2>2 DEF Current, Reading, OnFaces, Thread, ChecksFace
<1>15. CASE LoadLocked(h)
  <2>1. /\ buffer' = buffer /\ gpio_status' = gpio_status /\ t.pc = "rload"
        /\ thread'[h] = [t EXCEPT !.pc = "rput", !.reg = gpio_status[t.dev]]
    BY <1>1, <1>15 DEF LoadLocked, LoadLevel, At, memory
  <2> QED
    BY <1>1, <1>2, <2>1 DEF Current, Reading, OnFaces, Thread, ChecksFace
<1>16. CASE WriteLocked(h)
  <2>1. thread'[h] = NoThread
    BY <1>1, <1>16 DEF WriteLocked, Exit
  <2> QED
    BY <2>1 DEF NoThread
<1> QED
  BY <1>3, <1>4, <1>5, <1>6, <1>7, <1>8, <1>9, <1>10, <1>11, <1>12, <1>13,
     <1>14, <1>15, <1>16 DEF HandlerStep

(* ... and what it has shown of a device stays true.                        *)
LEMMA ActorShown ==
    ASSUME IInv, PacedInv, OneAtATime, NEW h \in Handlers, HandlerStep(h),
           ~FindNothing(h), thread'[h].pc \in {"voice", "oled"},
           ~ChecksFace(thread'[h].dev)
    PROVE  Shown(thread[h])'
<1> DEFINE t == thread[h]
<1>1. /\ TypeOK /\ t.pc # "idle" /\ t \in Thread
      /\ thread \in [Handlers -> Thread]
      /\ pin \in [Pins -> Levels]
      /\ LastCommand' = LastCommand
  BY HandlerFrame DEF IInv, TypeOK
<1>2. Current(t) /\ Shown(t)
  BY <1>1 DEF PacedInv, HandlersCurrent
<1>3. CASE WriteRequested(h)
  <2>1. /\ buffer' = buffer /\ gpio_status' = gpio_status /\ t.pc = "wput"
        /\ thread'[h] = [t EXCEPT !.pc = IF ChecksFace(t.dev) THEN "tag" ELSE "voice"]
        /\ pin' = [pin EXCEPT ![Pin(t.dev)] = t.reg]
    BY <1>1, <1>3 DEF WriteRequested, DigitalWrite, At, Goto, memory, Pin
  <2>2. thread'[h].dev = t.dev /\ thread'[h].pc = "voice"
    BY <1>1, <2>1 DEF Thread
  <2>3. /\ t.dev \in Devices /\ t.reg = Level(LastCommand.st)
        /\ gpio_status[t.dev] = Level(LastCommand.st)
        /\ buffer.key = LastCommand.key
    BY <1>2, <2>1 DEF Current, Reading
  <2>4. pin'[Pin(t.dev)] = t.reg
    BY <1>1, <2>1, <2>3 DEF Pin, Pins
  <2> QED
    BY <1>1, <2>1, <2>2, <2>3, <2>4 DEF Shown, Pin
<1>4. CASE TagBuffer(h)
  <2>1. t.pc = "tag" /\ thread'[h] = [t EXCEPT !.pc = "voice"]
    BY <1>1, <1>4 DEF TagBuffer, At, Goto
  <2>2. thread'[h].dev = t.dev /\ ChecksFace(t.dev)
    BY <1>1, <1>2, <2>1 DEF Current, OnFaces, Thread
  <2> QED
    BY <2>2
<1>5. CASE StartAnnouncing(h)
  <2> DEFINE b == Announced(t.dev) /\ FireAlarm
  <2>1. /\ buffer' = buffer /\ gpio_status' = gpio_status /\ t.pc = "voice"
        /\ pin' = pin
        /\ thread'[h] = [t EXCEPT !.pc = "oled", !.smoke_status = b]
    BY <1>1, <1>5 DEF StartAnnouncing, At, memory, outputs
  <2>2. /\ thread'[h].dev = t.dev /\ thread'[h].pc = "oled"
        /\ thread'[h].smoke_status = b
    BY <1>1, <2>1 DEF Thread
  <2>3. /\ t.dev \in Devices /\ t.dev = find_gdevice_by_key(LastCommand.key)
        /\ buffer.st = LastCommand.st /\ buffer.key = LastCommand.key
        /\ gpio_status[t.dev] = Level(LastCommand.st)
        /\ pin[Pin(t.dev)] = Level(LastCommand.st)
    BY <1>2, <2>1, <2>2 DEF Current, Shown
  <2>4. gdevices[t.dev].key = LastCommand.key
    BY <2>3, FindIsDevice, NullIsNoDevice
  <2>5. b <=> gdevices[t.dev].key = KEY_SMOKE /\ LastCommand.st = 0
    BY <2>3, <2>4 DEF OneAtATime, FireAlarm
  <2> HIDE DEF b
  <2> QED
    BY <1>1, <2>1, <2>2, <2>3, <2>5 DEF Shown
<1> QED
  <2>1. CASE Enter(h)
    BY <1>1, <2>1 DEF Enter, Goto, Exit, NoThread, Thread
  <2>2. CASE FindGdevice(h)
    <3>1. thread'[h] = [t EXCEPT !.pc = "load",
                                 !.dev = find_gdevice_by_key(buffer.key)]
      BY <1>1, <2>2 DEF FindGdevice
    <3> QED
      BY <1>1, <3>1 DEF Thread
  <2>2a. CASE LoadStatus(h)
    <3>1. thread'[h] = [t EXCEPT !.pc = "store", !.reg = Level(buffer.st)]
      BY <1>1, <2>2a DEF LoadStatus
    <3> QED
      BY <1>1, <3>1 DEF Thread
  <2>3. CASE StoreStatus(h)
    BY <1>1, <2>3 DEF StoreStatus, Goto, Thread
  <2>4. CASE StartScoring(h)
    BY <1>1, <2>4 DEF StartScoring, Goto, Thread
  <2>5. CASE FinishScoring(h)
    BY <1>1, <2>5 DEF FinishScoring, Thread
  <2>6. CASE LoadRequested(h) \/ LoadLocked(h)
    <3>1. PICK loc \in {"wput", "rput"} :
             thread'[h] = [t EXCEPT !.pc = loc, !.reg = gpio_status[t.dev]]
      BY <1>1, <2>6 DEF LoadRequested, LoadLocked, LoadLevel
    <3> QED
      BY <1>1, <3>1 DEF Thread
  <2>7. CASE ShowOled(h)
    BY <1>1, <2>7 DEF ShowOled, Goto, Exit, NoThread, Thread
  <2>8. CASE StoreLocked(h)
    BY <1>1, <2>8 DEF StoreLocked, Goto, Thread
  <2>9. CASE WriteLocked(h)
    BY <1>1, <2>9 DEF WriteLocked, Exit, NoThread
  <2> QED
    BY <1>3, <1>4, <1>5, <2>1, <2>2, <2>2a, <2>3, <2>4, <2>5, <2>6, <2>7,
       <2>8, <2>9
       DEF HandlerStep

(* The only handler: what a step of another could do does not happen.       *)
LEMMA OnlyHandler ==
    ASSUME TypeOK, PacedInv, NEW h \in Handlers, HandlerStep(h)
    PROVE  /\ thread[h].pc # "idle" /\ queue = <<>>
           /\ \A g \in Handlers : g # h => thread[g].pc = "idle"
<1>1. thread[h].pc # "idle"
  BY DEF HandlerStep, At, Enter, FindGdevice, FindNothing, LoadStatus,
         StoreStatus, StartScoring, FinishScoring, LoadRequested,
         WriteRequested, TagBuffer, StartAnnouncing, ShowOled, StoreLocked,
         LoadLocked, WriteLocked, LoadLevel
<1> QED
  BY <1>1 DEF PacedInv, Alone

(* A handler drives no other pin than that of its command's device.         *)
LEMMA PinWrites ==
    ASSUME IInv, PacedInv, OneAtATime, NEW h \in Handlers, HandlerStep(h),
           NEW d \in Devices
    PROVE  \/ pin'[Pin(d)] = pin[Pin(d)]
           \/ /\ WriteRequested(h) /\ thread[h].dev = d
              /\ d = find_gdevice_by_key(LastCommand.key)
              /\ pin'[Pin(d)] = Level(LastCommand.st)
           \/ /\ WriteLocked(h) /\ thread[h].dev = d /\ ChecksFace(d)
              /\ pin'[Pin(d)] = HIGH
<1> DEFINE t == thread[h]
<1>1. /\ TypeOK /\ pin \in [Pins -> Levels] /\ Current(t) /\ Pin(d) \in Pins
  BY OnlyHandler DEF IInv, TypeOK, PacedInv, HandlersCurrent, Pin, Pins
<1>2. CASE WriteRequested(h) \/ WriteLocked(h)
  <2>1. /\ t.pc \in {"wput", "rput"}
        /\ WriteRequested(h) => t.pc = "wput"
        /\ WriteLocked(h) => t.pc = "rput"
        /\ pin' = [pin EXCEPT ![Pin(t.dev)] = t.reg]
    BY <1>2 DEF WriteRequested, WriteLocked, At, DigitalWrite, Pin
  <2>2. /\ t.dev \in Devices /\ t.dev = find_gdevice_by_key(LastCommand.key)
        /\ t.pc = "wput" => t.reg = Level(LastCommand.st)
        /\ t.pc = "rput" => t.reg = HIGH /\ ChecksFace(t.dev)
    BY <1>1, <2>1 DEF Current, OnFaces
  <2>3. CASE t.dev = d
    <3>1. pin'[Pin(d)] = t.reg
      BY <1>1, <2>1, <2>3
    <3> QED
      BY <1>2, <2>1, <2>2, <2>3, <3>1
  <2>4. CASE t.dev # d
    <3>1. Pin(t.dev) # Pin(d)
      BY <2>2, <2>4 DEF OneAtATime
    <3> QED
      BY <1>1, <2>1, <3>1
  <2> QED
    BY <2>3, <2>4
<1>3. CASE pin' = pin
  BY <1>3
<1> QED
  BY <1>2, <1>3 DEF HandlerStep, outputs, Enter, FindGdevice, FindNothing,
     Crash, LoadStatus, StoreStatus, StartScoring, FinishScoring,
     LoadRequested, TagBuffer, StartAnnouncing, ShowOled, StoreLocked,
     LoadLocked, LoadLevel

-----------------------------------------------------------------------------
(* A step of the handler.                                                   *)

(* The last command of a device is on its pin or on its way.                *)
LEMMA HandlerPins ==
    ASSUME IInv, PacedInv, OneAtATime, NEW h \in Handlers, HandlerStep(h)
    PROVE  PinsReflect'
<1> DEFINE t == thread[h]
<1>1. /\ TypeOK /\ t.pc # "idle" /\ queue = <<>> /\ Current(t) /\ sent # <<>>
      /\ \A g \in Handlers : g # h => thread[g].pc = "idle"
  BY OnlyHandler DEF IInv, PacedInv, HandlersCurrent, Current
<1>2. sent' = sent
  BY HandlerFrame, <1>1 DEF mq, FindNothing, Crash
<1>3. \A e : CommandsFor(e)' = CommandsFor(e)
  BY <1>2 DEF CommandsFor
<1> SUFFICES ASSUME NEW d \in Devices, ~ChecksFace(d), NEW i \in CommandsFor(d),
                    \A j \in CommandsFor(d) : j <= i
             PROVE  (i = Len(sent) /\ InFlight') \/ pin'[Pin(d)] = Level(sent[i].st)
  BY <1>2, <1>3 DEF PinsReflect, Pin, ChecksFace
<1>4. i \in DOMAIN sent /\ find_gdevice_by_key(sent[i].key) = d /\ i \in Nat
  BY <1>1 DEF CommandsFor, TypeOK
<1>5. /\ Len(sent) \in DOMAIN sent /\ Len(sent) \in Nat /\ i <= Len(sent)
      /\ LastCommand.key = sent[Len(sent)].key
      /\ LastCommand.st = sent[Len(sent)].st
  BY <1>1, <1>4, LastIsLast DEF TypeOK
<1>6. d = find_gdevice_by_key(LastCommand.key) => i = Len(sent)
  <2>1. d = find_gdevice_by_key(LastCommand.key) => Len(sent) \in CommandsFor(d)
    BY <1>5 DEF CommandsFor
  <2> QED
    BY <1>4, <1>5, <2>1
<1>7. d # NULL
  BY NullIsNoDevice
<1>8. CASE pin[Pin(d)] = Level(sent[i].st)
  <2>1. ~(WriteLocked(h) /\ ChecksFace(d))
    OBVIOUS
  <2> QED
    BY <1>5, <1>6, <1>8, <2>1, PinWrites
<1>9. CASE i = Len(sent) /\ InFlight
  <2>1. t.pc \in Answering
    BY <1>1, <1>9 DEF InFlight, Answering
  <2>2. d = find_gdevice_by_key(LastCommand.key)
    BY <1>4, <1>5, <1>9
  <2>3. CASE thread'[h].pc \in Answering
    BY <1>9, <2>3 DEF InFlight
  <2>4. CASE WriteRequested(h)
    <3>1. t.dev = d
      BY <1>1, <2>2, <2>4 DEF Current, WriteRequested, At
    <3>2. t.pc = "wput" /\ t.reg = Level(LastCommand.st)
      BY <1>1, <2>4 DEF WriteRequested, At, Current
    <3>3. pin'[Pin(d)] = t.reg
      BY <1>1, <2>4, <3>1 DEF WriteRequested, DigitalWrite, Pin, Pins, TypeOK
    <3> QED
      BY <1>5, <1>9, <3>2, <3>3
  <2>5. CASE Enter(h)
    <3>1. buffer.key = KEY_IGNORED => FALSE
      BY <1>1, <1>7, <2>2, <2>5, IgnoredFindsNothing DEF Enter, At, Current, Reading
    <3>2. thread'[h].pc = "find"
      BY <1>1, <2>5, <3>1 DEF Enter, Goto, TypeOK, Thread
    <3> QED
      BY <2>3, <3>2 DEF Answering
  <2>6. CASE FindNothing(h)
    BY <1>1, <1>7, <2>2, <2>6 DEF FindNothing, At, Current, Reading
  <2>7. CASE FinishScoring(h)
    BY <1>1, <2>2, <2>7 DEF FinishScoring, At, Current, OnFaces
  <2>8. CASE ~WriteRequested(h) /\ ~Enter(h) /\ ~FindNothing(h) /\ ~FinishScoring(h)
    <3>1. CASE FindGdevice(h) \/ LoadStatus(h)
      <4>1. thread'[h].pc \in {"load", "store"}
        <5>1. CASE FindGdevice(h)
          BY <1>1, <5>1 DEF FindGdevice, TypeOK, Thread
        <5>2. CASE LoadStatus(h)
          BY <1>1, <5>2 DEF LoadStatus, TypeOK, Thread
        <5> QED
          BY <3>1, <5>1, <5>2
      <4> QED
        BY <2>3, <4>1 DEF Answering
    <3>2. CASE StoreStatus(h)
      <4>1. thread'[h].pc \in {"face", "wload"}
        BY <1>1, <3>2 DEF StoreStatus, Goto, TypeOK, Thread
      <4> QED
        BY <2>3, <4>1 DEF Answering
    <3>3. CASE StartScoring(h)
      <4>1. thread'[h].pc = "scoring"
        BY <1>1, <3>3 DEF StartScoring, Goto, TypeOK, Thread
      <4> QED
        BY <2>3, <4>1 DEF Answering
    <3>4. CASE LoadRequested(h)
      <4>1. thread'[h].pc = "wput"
        BY <1>1, <3>4 DEF LoadRequested, LoadLevel, TypeOK, Thread
      <4> QED
        BY <2>3, <4>1 DEF Answering
    <3> QED
      BY <2>1, <2>8, <3>1, <3>2, <3>3, <3>4
         DEF HandlerStep, Answering, At, TagBuffer, StartAnnouncing, ShowOled,
             StoreLocked, LoadLocked, LoadLevel, WriteLocked
  <2> QED
    BY <2>4, <2>5, <2>6, <2>7, <2>8
<1> QED
  BY <1>8, <1>9 DEF PacedInv, PinsReflect

(* An open lock has a handler that closes it.                               *)
LEMMA HandlerLock ==
    ASSUME IInv, PacedInv, OneAtATime, NEW h \in Handlers, HandlerStep(h),
           ~FindNothing(h)
    PROVE  OpenHasCloser'
<1> DEFINE t == thread[h]
<1>1. /\ TypeOK /\ t.pc # "idle" /\ Current(t) /\ up' = up /\ up
      /\ \A g \in Handlers : g # h => thread[g].pc = "idle"
  BY OnlyHandler, HandlerFrame DEF IInv, PacedInv, HandlersCurrent, process
<1> SUFFICES ASSUME NEW d \in Devices, ChecksFace(d), pin'[Pin(d)] = LOW
             PROVE  Closers(d)' # {}
  BY DEF OpenHasCloser, Pin, ChecksFace
<1>2. CASE pin[Pin(d)] = LOW
  <2>1. h \in Closers(d)
    BY <1>1, <1>2 DEF PacedInv, OpenHasCloser, Closers, Closes
  <2>2. ~Crash /\ Next
    BY <1>1 DEF Crash, Next
  <2>3. ~WriteLocked(h)
    <3>1. SUFFICES ASSUME WriteLocked(h) PROVE FALSE
      OBVIOUS
    <3>2. t.pc = "rput" /\ t.dev = d /\ t.reg = HIGH
      BY <1>1, <2>1, <3>1 DEF WriteLocked, At, Closers, Closes, Current
    <3>3. pin'[Pin(d)] = HIGH
      BY <1>1, <3>1, <3>2 DEF WriteLocked, DigitalWrite, Pin, Pins, TypeOK
    <3> QED
      BY <3>3 DEF LOW, HIGH
  <2> QED
    BY <1>1, <2>1, <2>2, <2>3, CloserStays
<1>3. CASE pin[Pin(d)] # LOW
  <2>1. WriteRequested(h) /\ t.dev = d
    BY <1>3, PinWrites DEF LOW, HIGH
  <2>2. Recognised(t.face_result)
    BY <2>1 DEF WriteRequested, At, IInv, HandlerInv, FaceFirst
  <2>3. thread'[h] = [t EXCEPT !.pc = "tag"]
    BY <1>1, <2>1 DEF WriteRequested, Goto, TypeOK
  <2>4. /\ thread'[h].pc = "tag" /\ thread'[h].dev = d
        /\ thread'[h].face_result = t.face_result
    BY <1>1, <2>1, <2>3 DEF TypeOK, Thread
  <2>5. h \in Closers(d)'
    BY <2>2, <2>4 DEF Closers, Closes, ChecksFace
  <2> QED
    BY <2>5
<1> QED
  BY <1>2, <1>3

(* The text is true of the pin, or about to be replaced.                    *)
LEMMA HandlerScreen ==
    ASSUME IInv, PacedInv, OneAtATime, NEW h \in Handlers, HandlerStep(h),
           ~FindNothing(h)
    PROVE  ScreenTrue'
<1> DEFINE t == thread[h]
           Replacing(u, d) == u.pc \in {"voice", "oled"} /\ u.dev = d
           Tells(d) == /\ screen.level = pin[Pin(d)]
                       /\ screen.fire <=> /\ gdevices[d].key = KEY_SMOKE
                                          /\ pin[Pin(d)] = LOW
<1>1. /\ TypeOK /\ t.pc # "idle" /\ Current(t) /\ Shown(t) /\ t \in Thread
      /\ \A g \in Handlers : g # h => thread[g].pc = "idle"
      /\ LastCommand' = LastCommand
      /\ thread \in [Handlers -> Thread]
  BY OnlyHandler, HandlerFrame DEF IInv, PacedInv, HandlersCurrent, TypeOK
<1>2. CASE ShowOled(h)
  <2>1. /\ t.pc = "oled" /\ pin' = pin /\ t.dev \in Devices
        /\ screen' = [fire |-> t.smoke_status, dev |-> t.dev,
                      level |-> gpio_status[t.dev]]
    BY <1>1, <1>2 DEF ShowOled, At, Current
  <2>2. /\ screen'.dev = t.dev /\ screen'.level = gpio_status[t.dev]
        /\ screen'.fire = t.smoke_status
    BY <2>1
  <2>3. ASSUME ~ChecksFace(t.dev)
        PROVE  /\ screen'.level = pin'[Pin(t.dev)]
               /\ screen'.fire <=> /\ gdevices[t.dev].key = KEY_SMOKE
                                   /\ pin'[Pin(t.dev)] = LOW
    <3>1. /\ gpio_status[t.dev] = Level(LastCommand.st)
          /\ pin[Pin(t.dev)] = Level(LastCommand.st)
          /\ t.smoke_status <=> gdevices[t.dev].key = KEY_SMOKE
                                /\ LastCommand.st = 0
      BY <1>1, <2>1, <2>3 DEF Shown
    <3>2. LastCommand.st = 0 <=> Level(LastCommand.st) = LOW
      BY DEF Level, LOW, HIGH
    <3>3. screen'.level = pin'[Pin(t.dev)]
      BY <2>1, <2>2, <3>1
    <3>4. pin'[Pin(t.dev)] = LOW <=> LastCommand.st = 0
      BY <2>1, <3>1, <3>2
    <3>5. screen'.fire <=> gdevices[t.dev].key = KEY_SMOKE /\ LastCommand.st = 0
      BY <2>2, <3>1
    <3> QED
      BY <3>3, <3>4, <3>5
  <2>4. ChecksFace(screen.dev)' <=> ChecksFace(t.dev)
    BY <2>2 DEF ChecksFace
  <2>5. Pin(screen.dev)' = Pin(t.dev)
    BY <2>2 DEF Pin
  <2> QED
    BY <2>2, <2>3, <2>4, <2>5 DEF ScreenTrue
<1>3. CASE screen' = screen /\ ~ShowOled(h)
  <2> SUFFICES ASSUME screen.dev # NULL, ~ChecksFace(screen.dev)
               PROVE  \/ \E g \in Handlers : Replacing(thread'[g], screen.dev)
                      \/ /\ screen.level = pin'[Pin(screen.dev)]
                         /\ screen.fire <=> /\ gdevices[screen.dev].key = KEY_SMOKE
                                            /\ pin'[Pin(screen.dev)] = LOW
    <3>1. ChecksFace(screen.dev)' <=> ChecksFace(screen.dev)
      BY <1>3 DEF ChecksFace
    <3>2. Pin(screen.dev)' = Pin(screen.dev)
      BY <1>3 DEF Pin
    <3> QED
      BY <1>3, <3>1, <3>2 DEF ScreenTrue
  <2>1. screen.dev \in Devices
    BY <1>1 DEF TypeOK, Texts, Greeting
  <2>2. CASE Replacing(t, screen.dev)
    <3>1. StartAnnouncing(h)
      BY <1>1, <1>3, <2>2 DEF HandlerStep, At, Enter, FindGdevice,
            FindNothing, LoadStatus, StoreStatus, StartScoring, FinishScoring,
            LoadRequested, WriteRequested, TagBuffer, StoreLocked, LoadLocked,
            WriteLocked, LoadLevel
    <3>2. PICK b \in BOOLEAN :
             thread'[h] = [t EXCEPT !.pc = "oled", !.smoke_status = b]
      BY <1>1, <3>1 DEF StartAnnouncing, Announced, FireAlarm
    <3>3. Replacing(thread'[h], screen.dev)
      BY <1>1, <2>2, <3>2 DEF Thread
    <3> QED
      BY <3>3
  <2>3. CASE ~Replacing(t, screen.dev)
    <3>1. Tells(screen.dev)
      BY <1>1, <2>3 DEF PacedInv, ScreenTrue
    <3>2. CASE pin'[Pin(screen.dev)] = pin[Pin(screen.dev)]
      BY <3>1, <3>2
    <3>3. CASE WriteRequested(h) /\ thread[h].dev = screen.dev
      <4>1. thread'[h] = [t EXCEPT !.pc = "voice"]
        BY <1>1, <3>3 DEF WriteRequested, Goto
      <4>2. Replacing(thread'[h], screen.dev)
        BY <1>1, <3>3, <4>1 DEF Thread
      <4> QED
        BY <4>2
    <3> QED
      BY <2>1, <3>2, <3>3, PinWrites
  <2> QED
    BY <2>2, <2>3
<1> QED
  BY <1>2, <1>3 DEF HandlerStep, outputs, Enter, FindGdevice,
     LoadStatus, StoreStatus, StartScoring, FinishScoring,
     LoadRequested, WriteRequested, TagBuffer, StartAnnouncing, StoreLocked,
     LoadLocked, LoadLevel, WriteLocked

(* Any step of a handler but the crash.                                     *)
LEMMA HandlerPaced ==
    ASSUME IInv, PacedInv, OneAtATime, NEW h \in Handlers, HandlerStep(h),
           ~FindNothing(h)
    PROVE  PacedInv'
<1>1. /\ TypeOK /\ thread[h].pc # "idle" /\ queue = <<>> /\ queue' = queue
      /\ up /\ up' = up /\ sent' = sent
      /\ \A g \in Handlers : g # h => thread'[g].pc = "idle"
  BY OnlyHandler, HandlerFrame DEF IInv, process, mq
<1>2. Alone'
  BY <1>1 DEF Alone
<1>3. HandlersCurrent'
  <2> SUFFICES ASSUME NEW g \in Handlers, thread'[g].pc # "idle"
               PROVE  Current(thread[g])' /\ Shown(thread[g])'
    BY DEF HandlersCurrent
  <2>1. g = h
    BY <1>1
  <2>2. Current(thread[h])'
    BY <2>1, ActorCurrent
  <2>3. Shown(thread[h])'
    <3>1. CASE thread'[h].pc \in {"voice", "oled"} /\ ~ChecksFace(thread'[h].dev)
      BY <3>1, ActorShown
    <3>2. CASE ~(thread'[h].pc \in {"voice", "oled"} /\ ~ChecksFace(thread'[h].dev))
      BY <3>2 DEF Shown, ChecksFace
    <3> QED
      BY <3>1, <3>2
  <2> QED
    BY <2>1, <2>2, <2>3
<1>4. KnownCommandsKeepRunning'
  BY <1>1 DEF KnownCommandsKeepRunning
<1> QED
  BY <1>2, <1>3, <1>4, HandlerPins, HandlerLock, HandlerScreen DEF PacedInv

(* The crash: the command that causes it has no device.                     *)
LEMMA CrashPaced ==
    ASSUME IInv, PacedInv, OneAtATime, NEW h \in Handlers, FindNothing(h)
    PROVE  PacedInv'
<1>1. /\ TypeOK /\ thread[h].pc = "find" /\ queue = <<>> /\ queue' = queue
      /\ HandlerStep(h) /\ Current(thread[h])
      /\ \A g \in Handlers : g # h => thread[g].pc = "idle"
      /\ \A g \in Handlers : thread'[g].pc = "idle"
      /\ sent' = sent /\ pin' = pin /\ screen' = screen
  <2>1. HandlerStep(h)
    BY DEF HandlerStep
  <2>2. thread[h].pc = "find" /\ Crash
    BY DEF FindNothing, At
  <2> QED
    BY <2>1, <2>2, OnlyHandler
       DEF IInv, PacedInv, HandlersCurrent, Crash, mq, outputs, NoThread
<1>2. Alone' /\ HandlersCurrent'
  BY <1>1 DEF Alone, HandlersCurrent
<1>3. OpenHasCloser'
  <2> SUFFICES ASSUME NEW d \in Devices, ChecksFace(d), pin[Pin(d)] = LOW
               PROVE  FALSE
    BY <1>1 DEF OpenHasCloser, ChecksFace, Pin
  <2>1. PICK g \in Closers(d) : TRUE
    BY DEF PacedInv, OpenHasCloser
  <2> QED
    BY <1>1, <2>1 DEF Closers, Closes
<1>4. ScreenTrue'
  BY <1>1 DEF PacedInv, ScreenTrue, ChecksFace, Pin
<1>5. KnownCommandsKeepRunning'
  <2>1. /\ sent # <<>> /\ LastCommand.key # KEY_IGNORED
        /\ find_gdevice_by_key(LastCommand.key) = NULL
    BY <1>1 DEF Current, Reading, FindNothing
  <2>2. /\ Len(sent) \in DOMAIN sent
        /\ LastCommand.key = sent[Len(sent)].key
    BY <1>1, <2>1, LastIsLast
  <2> QED
    BY <1>1, <2>1, <2>2 DEF KnownCommandsKeepRunning
<1> QED
  BY <1>1, <1>2, <1>3, <1>4, <1>5, HandlerPins DEF PacedInv

-----------------------------------------------------------------------------
(* The steps of the others.                                                 *)

LEMMA SendPaced ==
    ASSUME IInv, PacedInv, OneAtATime, NEW m \in Commands, Send(m)
    PROVE  PacedInv'
<1>1. /\ TypeOK /\ up /\ queue = <<>> /\ set_threads = 0
      /\ \A g \in Handlers : thread[g].pc = "idle"
      /\ queue' = Append(queue, m) /\ sent' = Append(sent, m)
      /\ UNCHANGED <<up, gpio_status, buffer, pin, screen, thread, set_threads>>
  BY DEF Send, OneAtATime, Quiescent, Idle, IInv, process, memory, outputs
<1>2. /\ sent' # <<>> /\ Len(sent') = Len(sent) + 1 /\ Len(sent) \in Nat
      /\ sent'[Len(sent) + 1] = m
      /\ DOMAIN sent' = 1 .. Len(sent) + 1 /\ DOMAIN sent = 1 .. Len(sent)
      /\ \A i \in 1 .. Len(sent) : sent'[i] = sent[i]
  <2>1. sent \in Seq(Commands)
    BY <1>1 DEF TypeOK
  <2> QED
    BY ONLY <1>1, <2>1, m \in Commands, AppendProperties
<1>3. queue' # <<>> /\ Len(queue') = 1 /\ Head(queue') = m
  BY <1>1
<1>4. Alone' /\ HandlersCurrent'
  BY <1>1, <1>2, <1>3 DEF Alone, HandlersCurrent, LastCommand
<1>5. PinsReflect'
  <2> SUFFICES ASSUME NEW d \in Devices, ~ChecksFace(d), NEW i \in CommandsFor(d)',
                      \A j \in CommandsFor(d)' : j <= i
               PROVE  (i = Len(sent') /\ InFlight') \/ pin[Pin(d)] = Level(sent'[i].st)
    BY <1>1 DEF PinsReflect, Pin, ChecksFace
  <2>1. i \in 1 .. Len(sent) + 1 /\ find_gdevice_by_key(sent'[i].key) = d
    BY <1>2 DEF CommandsFor
  <2>2. CASE i = Len(sent) + 1
    BY <1>2, <1>3, <2>2 DEF InFlight
  <2>3. CASE i # Len(sent) + 1
    <3>1. i \in 1 .. Len(sent)
      BY <1>2, <2>1, <2>3
    <3>2. i \in CommandsFor(d) /\ sent'[i] = sent[i]
      BY <1>2, <2>1, <3>1 DEF CommandsFor
    <3>3. CommandsFor(d) \subseteq CommandsFor(d)'
      BY <1>2 DEF CommandsFor
    <3>4. ~InFlight
      BY <1>1 DEF InFlight, Answering
    <3> QED
      BY <3>2, <3>3, <3>4 DEF PacedInv, PinsReflect
  <2> QED
    BY <2>2, <2>3
<1>6. OpenHasCloser' /\ ScreenTrue'
  <2>1. \A d \in Devices : Closers(d)' = Closers(d)
    BY <1>1 DEF Closers, Closes, ChecksFace
  <2> QED
    BY <1>1, <2>1 DEF PacedInv, OpenHasCloser, ScreenTrue, Pin, ChecksFace
<1>7. KnownCommandsKeepRunning'
  BY <1>1 DEF KnownCommandsKeepRunning
<1> QED
  BY <1>4, <1>5, <1>6, <1>7 DEF PacedInv

(* receive_get takes the command and starts the only handler.               *)
LEMMA ReceivePaced ==
    ASSUME IInv, PacedInv, OneAtATime, Receive
    PROVE  PacedInv'
<1>1. /\ TypeOK /\ up /\ queue # <<>> /\ sent # <<>> /\ Len(queue) = 1
      /\ \A g \in Handlers : thread[g].pc = "idle"
      /\ LastCommand = [key |-> Head(queue).key, st |-> Head(queue).st]
      /\ Head(queue) \in Commands
  <2>1. queue # <<>>
    BY DEF Receive, ReceiveAndStart, ReceiveNoThread, ReceiveDiscard,
           ReceiveMessage
  <2>2. Head(queue) \in Commands
    BY <2>1, HeadTailProperties DEF IInv, TypeOK
  <2> QED
    BY <2>1, <2>2 DEF IInv, PacedInv, Alone
<1>2. Head(queue).len = FrameLen
  BY <1>1 DEF OneAtATime, WholeFrames
<1>3. ~ReceiveDiscard
  BY <1>2 DEF ReceiveDiscard, Accepts
<1>4. ~ReceiveNoThread
  <2>1. Idle = Handlers /\ Handlers # {}
    BY <1>1 DEF Idle, OneAtATime
  <2> QED
    BY <2>1 DEF ReceiveNoThread
<1>5. PICK h \in Handlers : ReceiveAndStart(h)
  BY <1>3, <1>4 DEF Receive
<1>6. /\ up' = up /\ sent' = sent /\ queue' = Tail(queue)
      /\ UNCHANGED <<gpio_status, pin, screen>>
      /\ buffer' = CopyInto(buffer, Head(queue))
      /\ thread' = [thread EXCEPT ![h] = [NoThread EXCEPT !.pc = "entry"]]
  BY <1>5 DEF ReceiveAndStart, ReceiveMessage, process, outputs
<1>7. queue' = <<>>
  <2>1. Len(queue') = 0 /\ queue' \in Seq(Commands)
    BY <1>1, <1>6, HeadTailProperties DEF TypeOK
  <2> QED
    BY <2>1, EmptySeq
<1>8. buffer'.key = LastCommand.key /\ buffer'.st = LastCommand.st
  BY <1>1, <1>2, <1>6 DEF CopyInto, FrameLen
<1>9. /\ thread'[h].pc = "entry"
      /\ \A g \in Handlers : g # h => thread'[g].pc = "idle"
  BY <1>1, <1>6 DEF TypeOK, NoThread
<1>10. LastCommand' = LastCommand
  BY <1>6 DEF LastCommand
<1>11. Alone'
  BY <1>7, <1>9 DEF Alone
<1>12. HandlersCurrent'
  BY <1>1, <1>6, <1>8, <1>9, <1>10
     DEF HandlersCurrent, Current, Shown, Reading, OnFaces
<1>13. PinsReflect'
  <2>1. InFlight'
    BY <1>9 DEF InFlight, Answering
  <2>2. \A d : CommandsFor(d)' = CommandsFor(d)
    BY <1>6 DEF CommandsFor
  <2> QED
    BY <1>6, <2>1, <2>2 DEF PacedInv, PinsReflect, Pin, ChecksFace
<1>14. OpenHasCloser'
  <2> SUFFICES ASSUME NEW d \in Devices, ChecksFace(d), pin[Pin(d)] = LOW
               PROVE  FALSE
    BY <1>6 DEF OpenHasCloser, ChecksFace, Pin
  <2>1. PICK g \in Closers(d) : TRUE
    BY DEF PacedInv, OpenHasCloser
  <2> QED
    BY <1>1, <2>1 DEF Closers, Closes
<1>15. ScreenTrue'
  BY <1>1, <1>6 DEF PacedInv, ScreenTrue, ChecksFace, Pin
<1>16. KnownCommandsKeepRunning'
  BY <1>1, <1>6 DEF KnownCommandsKeepRunning
<1> QED
  BY <1>11, <1>12, <1>13, <1>14, <1>15, <1>16 DEF PacedInv

(* The other steps change nothing that the invariant is about.              *)
LEMMA UnseenPaced ==
    ASSUME IInv, PacedInv,
           UNCHANGED <<up, queue, sent, buffer, gpio_status, pin, screen, thread>>,
           queue # <<>> => set_threads' = set_threads
    PROVE  PacedInv'
<1>1. Alone'
  BY DEF PacedInv, Alone, LastCommand
<1>2. HandlersCurrent'
  BY DEF PacedInv, HandlersCurrent, Current, Shown, LastCommand, ChecksFace, Pin
<1>3. PinsReflect'
  BY DEF PacedInv, PinsReflect, CommandsFor, InFlight, ChecksFace, Pin
<1>4. OpenHasCloser' /\ ScreenTrue' /\ KnownCommandsKeepRunning'
  BY DEF PacedInv, OpenHasCloser, ScreenTrue, KnownCommandsKeepRunning,
         Closers, Closes, ChecksFace, Pin
<1> QED
  BY <1>1, <1>2, <1>3, <1>4 DEF PacedInv

(* A restart after a crash finds no command, no handler and a new text.     *)
LEMMA RestartPaced ==
    ASSUME IInv, PacedInv, Restart
    PROVE  PacedInv'
<1>1. /\ ~up /\ up' /\ screen' = Greeting
      /\ UNCHANGED <<queue, sent, buffer, gpio_status, pin, thread>>
  BY DEF Restart, mq, memory
<1>2. queue = <<>> /\ \A h \in Handlers : thread[h].pc = "idle"
  BY <1>1 DEF PacedInv, Alone, HandlersCurrent, Current
<1>3. Alone' /\ HandlersCurrent'
  BY <1>1, <1>2 DEF Alone, HandlersCurrent
<1>4. PinsReflect'
  BY <1>1 DEF PacedInv, PinsReflect, CommandsFor, InFlight, ChecksFace, Pin
<1>5. OpenHasCloser'
  BY <1>1 DEF PacedInv, OpenHasCloser, Closers, Closes, ChecksFace, Pin
<1>6. ScreenTrue'
  BY <1>1 DEF ScreenTrue, Greeting
<1>7. KnownCommandsKeepRunning'
  BY <1>1 DEF KnownCommandsKeepRunning
<1> QED
  BY <1>3, <1>4, <1>5, <1>6, <1>7 DEF PacedInv

-----------------------------------------------------------------------------
(* The invariant and the theorems.                                          *)

LEMMA InitPaced == Init => PacedInv
<1> SUFFICES ASSUME Init PROVE PacedInv
  OBVIOUS
<1>1. /\ up /\ queue = <<>> /\ sent = <<>> /\ screen = Greeting
      /\ \A h \in Handlers : thread[h].pc = "idle"
      /\ \A p \in Pins : pin[p] = HIGH
  BY DEF Init, NoThread
<1>2. Alone /\ HandlersCurrent
  BY <1>1 DEF Alone, HandlersCurrent
<1>3. PinsReflect
  BY <1>1 DEF PinsReflect, CommandsFor
<1>4. OpenHasCloser
  BY <1>1 DEF OpenHasCloser, Pin, Pins, LOW, HIGH
<1>5. ScreenTrue /\ KnownCommandsKeepRunning
  BY <1>1 DEF ScreenTrue, Greeting, KnownCommandsKeepRunning
<1> QED
  BY <1>2, <1>3, <1>4, <1>5 DEF PacedInv

LEMMA StepPaced ==
    ASSUME OneAtATime, IInv, PacedInv, [Next]_vars
    PROVE  PacedInv'
<1>1. CASE \E m \in Commands : Send(m)
  BY <1>1, SendPaced
<1>2. CASE Receive
  BY <1>2, ReceivePaced
<1>3. ASSUME NEW h \in Handlers, HandlerStep(h) PROVE PacedInv'
  BY <1>3, HandlerPaced, CrashPaced
<1>4. CASE VoiceSet
  <2>1. queue = <<>>
    BY <1>4 DEF VoiceSet, IInv, TypeOK, PacedInv, Alone
  <2> QED
    BY <1>4, <2>1, UnseenPaced DEF VoiceSet, process, mq, memory
<1>5. CASE PythonFault
  BY <1>5 DEF PythonFault, At, PacedInv, Alone
<1>6. CASE Restart
  BY <1>6, RestartPaced
<1>7. CASE UNCHANGED vars
  BY <1>7, UnseenPaced DEF vars, process, mq, memory, outputs
<1> QED
  BY <1>1, <1>2, <1>3, <1>4, <1>5, <1>6, <1>7 DEF Next

LEMMA PacedInvariant ==
    ASSUME OneAtATime
    PROVE  Spec => []PacedInv
<1>1. IInv /\ PacedInv /\ [Next]_vars => PacedInv'
  BY StepPaced
<1> QED
  BY InitPaced, <1>1, Invariant, PTL DEF Spec

(* At rest, each pin is at the level that the last command for its device   *)
(* asked for.                                                               *)
THEOREM RestShowsCommands ==
    ASSUME OneAtATime
    PROVE  Spec => []RestReflectsCommands
<1>1. PacedInv => RestReflectsCommands
  BY DEF PacedInv, PinsReflect, RestReflectsCommands, Quiescent, Idle, InFlight,
         Answering
<1> QED
  BY <1>1, PacedInvariant, PTL

(* At rest, the lock is closed.                                             *)
THEOREM RestIsLocked ==
    ASSUME OneAtATime
    PROVE  Spec => []LockClosedAtRest
<1>1. TypeOK /\ PacedInv => LockClosedAtRest
  <2> SUFFICES ASSUME TypeOK, PacedInv, Quiescent, NEW d \in Devices, ChecksFace(d)
               PROVE  pin[Pin(d)] = HIGH
    BY DEF LockClosedAtRest
  <2>1. Closers(d) = {}
    BY DEF Quiescent, Idle, Closers, Closes
  <2>2. pin[Pin(d)] \in Levels
    BY DEF TypeOK, Pin, Pins
  <2> QED
    BY <2>1, <2>2 DEF PacedInv, OpenHasCloser, Levels
<1> QED
  BY <1>1, TypeCorrect, PacedInvariant, PTL

(* At rest, the text is true.                                               *)
THEOREM RestTellsTruth ==
    ASSUME OneAtATime
    PROVE  Spec => []ScreenAtRest
<1>1. PacedInv => ScreenAtRest
  BY DEF PacedInv, ScreenTrue, ScreenAtRest, Quiescent, Idle
<1> QED
  BY <1>1, PacedInvariant, PTL

(* Commands that are configured never kill the process.                     *)
THEOREM KnownCommandsAreSafe ==
    ASSUME OneAtATime
    PROVE  Spec => []KnownCommandsKeepRunning
<1>1. PacedInv => KnownCommandsKeepRunning
  BY DEF PacedInv
<1> QED
  BY <1>1, PacedInvariant, PTL

-----------------------------------------------------------------------------
(* The threads together implement Controller, step by step.                 *)

(* The phase, when there is one handler: where that handler is.             *)
PhaseOf(t) == IF t.pc \in Answering THEN "pending"
              ELSE IF Closes(t, t.dev) THEN "closing" ELSE "idle"

LEMMA PhaseIs ==
    ASSUME up, queue = <<>>, NEW h \in Handlers,
           thread[h].pc \in {"idle", "entry", "find"} \/ thread[h].dev \in Devices,
           \A g \in Handlers : g # h => thread[g].pc = "idle"
    PROVE  Phase = PhaseOf(thread[h])
<1> DEFINE t == thread[h]
<1>1. (\E g \in Handlers : thread[g].pc \in Answering) <=> t.pc \in Answering
  BY DEF Answering
<1>2. (\E d \in Devices : Closers(d) # {}) <=> Closes(t, t.dev)
  BY DEF Closers, Closes
<1> QED
  BY <1>1, <1>2 DEF Phase, PhaseOf

(* The same of the next state.                                              *)
LEMMA PhaseNext ==
    ASSUME up', queue' = <<>>, NEW h \in Handlers,
           thread'[h].pc \in {"idle", "entry", "find"} \/ thread'[h].dev \in Devices,
           \A g \in Handlers : g # h => thread'[g].pc = "idle"
    PROVE  Phase' = PhaseOf(thread'[h])
<1> DEFINE t == thread'[h]
<1>1. (\E g \in Handlers : thread'[g].pc \in Answering) <=> t.pc \in Answering
  BY DEF Answering
<1>2. (\E d \in Devices : Closers(d)' # {}) <=> Closes(t, t.dev)
  BY DEF Closers, Closes, ChecksFace
<1> QED
  BY <1>1, <1>2 DEF Phase, PhaseOf, Answering

LEMMA NoPhase ==
    ASSUME \A h \in Handlers : thread[h].pc = "idle", queue = <<>>
    PROVE  Phase = IF up THEN "idle" ELSE "down"
BY DEF Phase, Closers, Closes, Answering

ControllerStep == AsOneCommand!Next \/ UNCHANGED AsOneCommand!vars

(* A handler's step sets the pin, refuses, closes, or is not seen.          *)
LEMMA HandlerSimulates ==
    ASSUME IInv, PacedInv, OneAtATime, NEW h \in Handlers, HandlerStep(h),
           ~FindNothing(h)
    PROVE  ControllerStep
<1> DEFINE t == thread[h]
           u == thread'[h]
<1>1. /\ TypeOK /\ t.pc # "idle" /\ queue = <<>> /\ queue' = <<>> /\ up /\ up'
      /\ Current(t) /\ t \in Thread /\ LastCommand' = LastCommand
      /\ \A g \in Handlers : g # h => thread[g].pc = "idle"
      /\ \A g \in Handlers : g # h => thread'[g].pc = "idle"
      /\ thread \in [Handlers -> Thread]
  BY OnlyHandler, HandlerFrame DEF IInv, PacedInv, HandlersCurrent, process, mq,
     TypeOK
<1>2. PacedInv'
  BY HandlerPaced
<1>3. Phase = PhaseOf(t) /\ Phase' = PhaseOf(u)
  <2>1. t.pc \in {"idle", "entry", "find"} \/ t.dev \in Devices
    BY <1>1 DEF Current
  <2>2. u.pc \in {"idle", "entry", "find"} \/ u.dev \in Devices
    <3>1. u.pc # "idle" => Current(t)'
      BY <1>2 DEF PacedInv, HandlersCurrent
    <3> QED
      BY <3>1 DEF Current
  <2> QED
    BY <1>1, <2>1, <2>2, PhaseIs, PhaseNext
<1>4. /\ AsOneCommand!Asked = find_gdevice_by_key(LastCommand.key)
      /\ t.pc \notin {"entry", "find"} => t.dev \in Devices
                                         /\ t.dev = AsOneCommand!Asked
      /\ NULL \notin Devices
  BY <1>1, NullIsNoDevice DEF AsOneCommand!Asked, AsOneCommand!find_gdevice_by_key,
     find_gdevice_by_key, AsOneCommand!Matching, Matching, AsOneCommand!Devices,
     Devices, AsOneCommand!NULL, NULL, Current
<1>5. ASSUME PhaseOf(u) = PhaseOf(t), pin' = pin
      PROVE  ControllerStep
  BY <1>1, <1>3, <1>5 DEF ControllerStep, AsOneCommand!vars
<1>6. CASE Enter(h)
  <2>1. t.pc = "entry" /\ pin' = pin
    BY <1>6 DEF Enter, At, outputs
  <2>2. CASE buffer.key # KEY_IGNORED
    <3>1. u.pc = "find"
      BY <1>1, <1>6, <2>2 DEF Enter, Goto, Thread
    <3> QED
      BY <1>5, <2>1, <3>1 DEF PhaseOf, Answering
  <2>3. CASE buffer.key = KEY_IGNORED
    <3>1. u.pc = "idle"
      BY <1>1, <1>6, <2>3 DEF Enter, Exit, NoThread
    <3>2. Phase = "pending" /\ Phase' = "idle"
      BY <1>3, <2>1, <3>1 DEF PhaseOf, Answering, Closes
    <3>3. LastCommand.key = KEY_IGNORED
      BY <1>1, <2>1, <2>3 DEF Current, Reading
    <3> QED
      BY <1>1, <2>1, <3>2, <3>3 DEF ControllerStep, AsOneCommand!Next,
         AsOneCommand!Answer, AsOneCommand!Refuse, AsOneCommand!KEY_IGNORED,
         KEY_IGNORED
  <2> QED
    BY <2>2, <2>3
<1>7. CASE FindGdevice(h)
  <2>1. t.pc = "find" /\ u.pc = "load" /\ pin' = pin
    BY <1>1, <1>7 DEF FindGdevice, At, outputs, Thread
  <2> QED
    BY <1>5, <2>1 DEF PhaseOf, Answering
<1>8. CASE LoadStatus(h)
  <2>1. t.pc = "load" /\ u.pc = "store" /\ pin' = pin
    BY <1>1, <1>8 DEF LoadStatus, At, outputs, Thread
  <2> QED
    BY <1>5, <2>1 DEF PhaseOf, Answering
<1>9. CASE StoreStatus(h)
  <2>1. t.pc = "store" /\ u.pc \in {"face", "wload"} /\ pin' = pin
    BY <1>1, <1>9 DEF StoreStatus, At, Goto, outputs, Thread
  <2> QED
    BY <1>5, <2>1 DEF PhaseOf, Answering
<1>10. CASE StartScoring(h)
  <2>1. t.pc = "face" /\ u.pc = "scoring" /\ pin' = pin
    BY <1>1, <1>10 DEF StartScoring, At, Goto, outputs, Thread
  <2> QED
    BY <1>5, <2>1 DEF PhaseOf, Answering
<1>11. CASE FinishScoring(h)
  <2>1. PICK score \in FaceScores :
          /\ t.pc = "scoring" /\ pin' = pin
          /\ u = [t EXCEPT !.pc = IF Recognised(score) THEN "wload" ELSE "tag",
                           !.face_result = score]
    BY <1>1, <1>11 DEF FinishScoring, At, outputs
  <2>2. /\ u.dev = t.dev /\ u.face_result = score
        /\ u.pc = IF Recognised(score) THEN "wload" ELSE "tag"
    BY <1>1, <2>1 DEF Thread
  <2>3. CASE Recognised(score)
    BY <1>5, <2>1, <2>2, <2>3 DEF PhaseOf, Answering
  <2>4. CASE ~Recognised(score)
    <3>1. Phase = "pending" /\ Phase' = "idle"
      BY <1>3, <2>1, <2>2, <2>4 DEF PhaseOf, Answering, Closes
    <3>2. ChecksFace(t.dev) /\ t.dev = AsOneCommand!Asked /\ t.dev # NULL
      BY <1>1, <1>4, <2>1 DEF Current, OnFaces
    <3> QED
      BY <1>1, <2>1, <3>1, <3>2 DEF ControllerStep, AsOneCommand!Next,
         AsOneCommand!Answer, AsOneCommand!Refuse, AsOneCommand!ChecksFace,
         ChecksFace, AsOneCommand!NULL, NULL
  <2> QED
    BY <2>3, <2>4
<1>12. CASE LoadRequested(h)
  <2>1. t.pc = "wload" /\ u.pc = "wput" /\ pin' = pin
    BY <1>1, <1>12 DEF LoadRequested, LoadLevel, At, outputs, Thread
  <2> QED
    BY <1>5, <2>1 DEF PhaseOf, Answering
<1>13. CASE WriteRequested(h)
  <2>1. /\ t.pc = "wput" /\ t.reg = Level(LastCommand.st)
        /\ t.dev = AsOneCommand!Asked /\ t.dev # NULL
        /\ pin' = [pin EXCEPT ![gdevices[t.dev].gpio_pin] = t.reg]
        /\ u = [t EXCEPT !.pc = IF ChecksFace(t.dev) THEN "tag" ELSE "voice"]
        /\ ChecksFace(t.dev) => Recognised(t.face_result)
    BY <1>1, <1>4, <1>13 DEF WriteRequested, DigitalWrite, Goto, At, Current,
       IInv, HandlerInv, FaceFirst
  <2>2. /\ u.dev = t.dev /\ u.face_result = t.face_result
        /\ u.pc = IF ChecksFace(t.dev) THEN "tag" ELSE "voice"
    BY <1>1, <2>1 DEF Thread
  <2>3. Phase = "pending"
        /\ Phase' = IF ChecksFace(t.dev) THEN "closing" ELSE "idle"
    BY <1>3, <2>1, <2>2 DEF PhaseOf, Answering, Closes
  <2> QED
    BY <1>1, <2>1, <2>3 DEF ControllerStep, AsOneCommand!Next,
       AsOneCommand!Answer, AsOneCommand!Apply, AsOneCommand!Set,
       AsOneCommand!ChecksFace, ChecksFace, AsOneCommand!NULL, NULL, Level,
       LOW, HIGH, AsOneCommand!LOW, AsOneCommand!HIGH
<1>14. ASSUME /\ t.pc \notin Answering /\ u.pc \notin Answering \cup {"idle"}
              /\ t.pc \in {"tag", "voice", "oled", "relock", "rload", "rput"}
              /\ u.pc \in {"tag", "voice", "oled", "relock", "rload", "rput"}
              /\ u.dev = t.dev /\ u.face_result = t.face_result /\ pin' = pin
       PROVE  ControllerStep
  BY <1>5, <1>14 DEF PhaseOf, Closes
<1>15. CASE TagBuffer(h)
  <2>1. /\ t.pc = "tag" /\ u.pc = "voice" /\ pin' = pin
        /\ u.dev = t.dev /\ u.face_result = t.face_result
    BY <1>1, <1>15 DEF TagBuffer, At, Goto, outputs, Thread
  <2> QED
    BY <1>14, <2>1 DEF Answering
<1>16. CASE StartAnnouncing(h)
  <2>1. PICK b : t.pc = "voice" /\ pin' = pin
                 /\ u = [t EXCEPT !.pc = "oled", !.smoke_status = b]
    BY <1>1, <1>16 DEF StartAnnouncing, At, outputs
  <2>2. u.pc = "oled" /\ u.dev = t.dev /\ u.face_result = t.face_result
    BY <1>1, <2>1 DEF Thread
  <2> QED
    BY <1>14, <2>1, <2>2 DEF Answering
<1>17. CASE ShowOled(h)
  <2>1. t.pc = "oled" /\ pin' = pin
    BY <1>17 DEF ShowOled, At
  <2>2. CASE ChecksFace(t.dev) /\ Recognised(t.face_result)
    <3>1. u.pc = "relock" /\ u.dev = t.dev /\ u.face_result = t.face_result
      BY <1>1, <1>17, <2>2 DEF ShowOled, Goto, Thread
    <3> QED
      BY <1>14, <2>1, <3>1 DEF Answering
  <2>3. CASE ~(ChecksFace(t.dev) /\ Recognised(t.face_result))
    <3>1. u.pc = "idle"
      BY <1>1, <1>17, <2>3 DEF ShowOled, Exit, NoThread
    <3> QED
      BY <1>5, <2>1, <2>3, <3>1 DEF PhaseOf, Answering, Closes
  <2> QED
    BY <2>2, <2>3
<1>18. CASE StoreLocked(h)
  <2>1. /\ t.pc = "relock" /\ u.pc = "rload" /\ pin' = pin
        /\ u.dev = t.dev /\ u.face_result = t.face_result
    BY <1>1, <1>18 DEF StoreLocked, At, Goto, outputs, Thread
  <2> QED
    BY <1>14, <2>1 DEF Answering
<1>19. CASE LoadLocked(h)
  <2>1. /\ t.pc = "rload" /\ pin' = pin
        /\ u = [t EXCEPT !.pc = "rput", !.reg = gpio_status[t.dev]]
    BY <1>1, <1>19 DEF LoadLocked, LoadLevel, At, outputs
  <2>2. u.pc = "rput" /\ u.dev = t.dev /\ u.face_result = t.face_result
    BY <1>1, <2>1 DEF Thread
  <2> QED
    BY <1>14, <2>1, <2>2 DEF Answering
<1>20. CASE WriteLocked(h)
  <2>1. /\ t.pc = "rput" /\ t.reg = HIGH /\ ChecksFace(t.dev)
        /\ t.dev = AsOneCommand!Asked /\ Recognised(t.face_result)
        /\ pin' = [pin EXCEPT ![gdevices[t.dev].gpio_pin] = HIGH]
        /\ u.pc = "idle"
    BY <1>1, <1>4, <1>20 DEF WriteLocked, DigitalWrite, Exit, At, Current,
       OnFaces, IInv, HandlerInv, FaceFirst, NoThread
  <2>2. Phase = "closing" /\ Phase' = "idle"
    BY <1>3, <2>1 DEF PhaseOf, Answering, Closes
  <2> QED
    BY <1>1, <2>1, <2>2 DEF ControllerStep, AsOneCommand!Next,
       AsOneCommand!CloseAgain, AsOneCommand!Set, HIGH, AsOneCommand!HIGH
<1> QED
  BY <1>6, <1>7, <1>8, <1>9, <1>10, <1>11, <1>12, <1>13, <1>15, <1>16, <1>17,
     <1>18, <1>19, <1>20 DEF HandlerStep

(* A handler that finds no device is the end, and Controller's end too.     *)
LEMMA CrashSimulates ==
    ASSUME IInv, PacedInv, OneAtATime, NEW h \in Handlers, FindNothing(h)
    PROVE  ControllerStep
<1>1. /\ thread[h].pc = "find" /\ queue = <<>> /\ queue' = queue /\ up /\ ~up'
      /\ Current(thread[h]) /\ LastCommand' = LastCommand /\ pin' = pin
  <2>1. HandlerStep(h)
    BY DEF HandlerStep
  <2>2. thread[h].pc = "find" /\ Crash /\ up
    BY DEF FindNothing, At
  <2> QED
    BY <2>1, <2>2, OnlyHandler
       DEF IInv, PacedInv, HandlersCurrent, Crash, mq, outputs, LastCommand
<1>2. Phase = "pending" /\ Phase' = "down"
  BY <1>1 DEF Phase, Answering
<1>3. LastCommand.key # KEY_IGNORED /\ find_gdevice_by_key(LastCommand.key) = NULL
  BY <1>1 DEF Current, Reading, FindNothing
<1>4. AsOneCommand!Asked = AsOneCommand!NULL
  BY <1>3 DEF AsOneCommand!Asked, AsOneCommand!find_gdevice_by_key,
     find_gdevice_by_key, AsOneCommand!Matching, Matching, AsOneCommand!Devices,
     Devices, AsOneCommand!NULL, NULL
<1> QED
  BY <1>1, <1>2, <1>3, <1>4 DEF ControllerStep, AsOneCommand!Next,
     AsOneCommand!Answer, AsOneCommand!Die, AsOneCommand!KEY_IGNORED, KEY_IGNORED

(* A message sent is a command given.                                       *)
LEMMA SendSimulates ==
    ASSUME IInv, PacedInv, OneAtATime, NEW m \in Commands, Send(m)
    PROVE  ControllerStep
<1>1. /\ up /\ up' = up /\ queue = <<>> /\ TypeOK
      /\ \A g \in Handlers : thread[g].pc = "idle"
      /\ queue' = Append(queue, m) /\ sent' = Append(sent, m) /\ pin' = pin
  BY DEF Send, OneAtATime, Quiescent, Idle, IInv, process, outputs
<1>2. Phase = "idle"
  BY <1>1, NoPhase
<1>3. queue' # <<>>
  BY <1>1
<1>4. Phase' = "pending"
  BY <1>1, <1>3 DEF Phase
<1>5. LastCommand' = [key |-> m.key, st |-> m.st]
  <2>1. sent \in Seq(Commands)
    BY <1>1 DEF TypeOK
  <2>2. sent' # <<>> /\ sent'[Len(sent')] = m
    BY ONLY <1>1, <2>1, m \in Commands, AppendProperties
  <2> QED
    BY <2>2 DEF LastCommand
<1> QED
  BY <1>1, <1>2, <1>4, <1>5 DEF ControllerStep, AsOneCommand!Next, AsOneCommand!Give

(* Taking the command from the queue changes nothing that Controller shows. *)
LEMMA ReceiveSimulates ==
    ASSUME IInv, PacedInv, OneAtATime, Receive
    PROVE  ControllerStep
<1>1. /\ up /\ up' = up /\ queue # <<>> /\ LastCommand' = LastCommand /\ pin' = pin
  BY DEF Receive, ReceiveAndStart, ReceiveNoThread, ReceiveDiscard,
         ReceiveMessage, process, outputs, LastCommand
<1>2. \E h \in Handlers : thread'[h].pc \in Answering
  <2>1. Head(queue) \in Commands /\ Head(queue).len = FrameLen
    <3>1. queue \in Seq(Commands)
      BY DEF IInv, TypeOK
    <3>2. Head(queue) \in Commands
      BY ONLY <1>1, <3>1, HeadTailProperties
    <3> QED
      BY <3>2 DEF OneAtATime, WholeFrames
  <2>2. Idle = Handlers /\ Handlers # {}
    BY <1>1 DEF PacedInv, Alone, Idle, OneAtATime
  <2>3. PICK h \in Handlers : ReceiveAndStart(h)
    BY <2>1, <2>2 DEF Receive, ReceiveNoThread, ReceiveDiscard, Accepts
  <2>4. thread'[h].pc = "entry"
    BY <2>3 DEF ReceiveAndStart, IInv, TypeOK, NoThread
  <2> QED
    BY <2>4 DEF Answering
<1>3. Phase = "pending" /\ Phase' = "pending"
  BY <1>1, <1>2 DEF Phase
<1> QED
  BY <1>1, <1>3 DEF ControllerStep, AsOneCommand!vars

(* A restart finds nothing to do.                                           *)
LEMMA RestartSimulates ==
    ASSUME IInv, PacedInv, Restart
    PROVE  ControllerStep
<1>1. /\ ~up /\ up' /\ LastCommand' = LastCommand
      /\ UNCHANGED <<queue, thread, pin>>
  BY DEF Restart, mq, memory, LastCommand
<1>2. queue = <<>> /\ \A h \in Handlers : thread[h].pc = "idle"
  BY <1>1 DEF PacedInv, Alone, HandlersCurrent, Current
<1>3. Phase = "down"
  BY <1>1 DEF Phase
<1>4. Phase' = "idle"
  BY <1>1, <1>2 DEF Phase, Closers, Closes, Answering, ChecksFace
<1> QED
  BY <1>1, <1>3, <1>4 DEF ControllerStep, AsOneCommand!Next, AsOneCommand!Revive

(* A step that touches neither the process, the queue, the threads nor the  *)
(* pins is not seen.                                                        *)
LEMMA UnseenSimulates ==
    ASSUME UNCHANGED <<up, queue, sent, pin, thread>>
    PROVE  ControllerStep
<1>1. LastCommand' = LastCommand
  BY DEF LastCommand
<1>2. Phase' = Phase
  BY DEF Phase, Closers, Closes, Answering, ChecksFace
<1> QED
  BY <1>1, <1>2 DEF ControllerStep, AsOneCommand!vars

LEMMA StepSimulates ==
    ASSUME OneAtATime, IInv, PacedInv, [Next]_vars
    PROVE  ControllerStep
<1>1. CASE \E m \in Commands : Send(m)
  BY <1>1, SendSimulates
<1>2. CASE Receive
  BY <1>2, ReceiveSimulates
<1>3. ASSUME NEW h \in Handlers, HandlerStep(h) PROVE ControllerStep
  BY <1>3, HandlerSimulates, CrashSimulates
<1>4. CASE VoiceSet
  BY <1>4, UnseenSimulates DEF VoiceSet, process, mq
<1>5. CASE PythonFault
  BY <1>5 DEF PythonFault, At, PacedInv, Alone
<1>6. CASE Restart
  BY <1>6, RestartSimulates
<1>7. CASE UNCHANGED vars
  BY <1>7, UnseenSimulates DEF vars, process, mq, outputs
<1> QED
  BY <1>1, <1>2, <1>3, <1>4, <1>5, <1>6, <1>7 DEF Next

LEMMA InitSimulates == Init => AsOneCommand!Init
<1> SUFFICES ASSUME Init PROVE AsOneCommand!Init
  OBVIOUS
<1>1. /\ up /\ queue = <<>> /\ sent = <<>>
      /\ \A h \in Handlers : thread[h].pc = "idle"
      /\ pin = [p \in Pins |-> HIGH]
  BY DEF Init, NoThread
<1>2. Phase = "idle"
  BY <1>1, NoPhase
<1>3. LastCommand = AsOneCommand!NoCommand
  BY <1>1 DEF LastCommand, ZeroBuffer, AsOneCommand!NoCommand
<1>4. AsOneCommand!Pins = Pins /\ AsOneCommand!HIGH = HIGH
  BY DEF AsOneCommand!Pins, Pins, AsOneCommand!Devices, Devices,
         AsOneCommand!HIGH, HIGH
<1> QED
  BY <1>1, <1>2, <1>3, <1>4 DEF AsOneCommand!Init

(* Given one command at a time, the threads of the command path, with their *)
(* shared buffer and their shared fields, do nothing that Controller does   *)
(* not do: for each command one pin is set once, or none.                   *)
THEOREM ImplementsController ==
    ASSUME OneAtATime
    PROVE  Spec => AsOneCommand!Spec
<1>1. IInv /\ PacedInv /\ [Next]_vars => [AsOneCommand!Next]_(AsOneCommand!vars)
  BY StepSimulates DEF ControllerStep
<1> QED
  BY <1>1, InitSimulates, Invariant, PacedInvariant, PTL DEF Spec, AsOneCommand!Spec
================================================================================
