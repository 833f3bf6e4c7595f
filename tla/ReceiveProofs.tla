---------------------------- MODULE ReceiveProofs ----------------------------
(***************************************************************************)
(* The safety properties of the command path, proved for every device      *)
(* table, every number of handlers and every set of commands.              *)
(***************************************************************************)
EXTENDS ReceiveProperties, SequenceTheorems, FiniteSetTheorems,
        WellFoundedInduction, TLAPS

-----------------------------------------------------------------------------
(* The inductive invariant.  A level is decided in one step (LoadStatus),   *)
(* stored in another, read back in a third and written to the pin in a      *)
(* fourth, with other threads in between; the invariant says of each of     *)
(* these places why a LOW or a recognition may be there.                    *)

(* What receive_get takes from the queue was put in it by a producer.       *)
QueueWasSent ==
    \A i \in DOMAIN queue : \E j \in DOMAIN sent : sent[j] = queue[i]

(* Once a frame was received, each of the two bytes of the shared buffer    *)
(* comes from some message, or is a recognition tag; tag 0x47 has a cause.  *)
BufferWasSent ==
    framed => /\ \/ KeySent(buffer.key)
                 \/ buffer.key \in {KEY_FACE_OK, KEY_FACE_FAIL}
              /\ buffer.st = 0 => ZeroSent
              /\ buffer.key = KEY_FACE_OK => recognised \/ KeySent(KEY_FACE_OK)

PairSent(k, s) == \E i \in DOMAIN sent : sent[i].key = k /\ sent[i].st = s

(* With whole frames the two bytes of an untagged buffer are of one message.*)
BufferIsMessage ==
    /\ WholeFrames
    /\ framed
    /\ buffer.key \notin {KEY_FACE_OK, KEY_FACE_FAIL}
    => PairSent(buffer.key, buffer.st)

(* A thread other than receive_get exists only after a frame was received.  *)
ThreadsAfterFrame ==
    /\ set_threads > 0 => framed
    /\ \A h \in Handlers : thread[h].pc # "idle" => framed

HasDevice(h) == thread[h].pc \notin {"idle", "entry", "find"}

(* Past the lookup a handler has a device, and a command named its key.     *)
FoundDevice(h) ==
    HasDevice(h) => /\ thread[h].dev \in Devices
                    /\ KeySent(gdevices[thread[h].dev].key)

(* A LOW that a handler holds in a register came from a status 0.           *)
CarriesLow(h) ==
    thread[h].pc \in {"store", "wput", "rput"} /\ thread[h].reg = LOW
        => ZeroSent

(* Past its own store, a handler that finds its device's field LOW sees     *)
(* what some handler stored: the value of the ini file is gone.             *)
FieldLow(h) ==
    /\ HasDevice(h)
    /\ thread[h].pc \notin {"load", "store"}
    /\ gpio_status[thread[h].dev] = LOW
    => ZeroSent

(* A handler that is about to drive a pin of a device that checks faces     *)
(* had its own face recognised.                                             *)
FaceFirst(h) ==
    /\ thread[h].pc \in {"wload", "wput", "rload", "rput", "relock"}
    /\ ChecksFace(thread[h].dev)
    => Recognised(thread[h].face_result)

Remembered(h) == Recognised(thread[h].face_result) => recognised

HandlerInv(h) ==
    /\ FoundDevice(h)
    /\ CarriesLow(h)
    /\ FieldLow(h)
    /\ FaceFirst(h)
    /\ Remembered(h)

IInv ==
    /\ TypeOK
    /\ QueueWasSent
    /\ BufferWasSent
    /\ BufferIsMessage
    /\ ThreadsAfterFrame
    /\ \A h \in Handlers : HandlerInv(h)
    /\ LowIsCommanded
    /\ AnnouncedRecognition
    /\ AnnouncementWasSent

-----------------------------------------------------------------------------
(* Facts about the lookup and about the queue's history.                    *)

(* A nonempty set of naturals has a least element: the finite sets of its   *)
(* elements up to some element are well-founded under strict inclusion.     *)
LEMMA LeastNatural ==
    ASSUME NEW T, T \subseteq Nat, T # {}
    PROVE  \E d \in T : \A e \in T : d <= e
<1> DEFINE UpTo(d) == {e \in T : e <= d}
           F == {UpTo(d) : d \in T}
<1>1. F \subseteq FiniteSubsetsOf(Nat)
  <2> SUFFICES ASSUME NEW d \in T
               PROVE  UpTo(d) \in FiniteSubsetsOf(Nat)
    OBVIOUS
  <2>1. UpTo(d) \in SUBSET Nat /\ d \in Nat /\ \A e \in UpTo(d) : e <= d
    OBVIOUS
  <2>2. IsFiniteSet(UpTo(d))
    BY <2>1, FS_BoundedSetOfNaturals
  <2> QED
    BY <2>1, <2>2 DEF FiniteSubsetsOf
<1>2. F # {}
  OBVIOUS
<1>3. PICK U \in F : \A V \in F : ~ (<<V, U>> \in StrictSubsetOrdering(Nat))
  <2> HIDE DEF F
  <2> QED
    BY <1>1, <1>2, WFMin, FS_StrictSubsetOrderingWellFounded
<1>4. PICK d \in T : U = UpTo(d)
  OBVIOUS
<1>5. \A e \in T : d <= e
  <2> SUFFICES ASSUME NEW e \in T, e < d
               PROVE  FALSE
    OBVIOUS
  <2>1. /\ \A x \in UpTo(e) : x \in UpTo(d)
        /\ d \in UpTo(d)
        /\ d \notin UpTo(e)
    OBVIOUS
  <2>2. UpTo(e) \in SUBSET Nat /\ UpTo(d) \in SUBSET Nat
    OBVIOUS
  <2>3. <<UpTo(e), UpTo(d)>> \in StrictSubsetOrdering(Nat)
    BY <2>1, <2>2 DEF StrictSubsetOrdering
  <2> QED
    BY <1>3, <1>4, <2>3
<1> QED
  BY <1>5

(* The walk of the list returns NULL or a device that has the key.          *)
LEMMA FindIsDevice ==
    ASSUME NEW k, find_gdevice_by_key(k) # NULL
    PROVE  /\ find_gdevice_by_key(k) \in Devices
           /\ gdevices[find_gdevice_by_key(k)].key = k
<1>1. Matching(k) # {} /\ Matching(k) \subseteq Nat
  BY GdevicesAssumption DEF find_gdevice_by_key, Matching, Devices
<1>2. \E d \in Matching(k) : \A e \in Matching(k) : d <= e
  BY <1>1, LeastNatural
<1>3. find_gdevice_by_key(k) \in Matching(k)
  BY <1>1, <1>2 DEF find_gdevice_by_key
<1> QED
  BY <1>3 DEF Matching

(* What was sent stays sent, and a recognition is not forgotten.            *)
LEMMA HistoryGrows ==
    ASSUME TypeOK, [Next]_vars
    PROVE  /\ \A i \in DOMAIN sent : i \in DOMAIN sent' /\ sent'[i] = sent[i]
           /\ ZeroSent => ZeroSent'
           /\ \A k : KeySent(k) => KeySent(k)'
           /\ \A k, s : PairSent(k, s) => PairSent(k, s)'
           /\ recognised => recognised'
<1>1. \A i \in DOMAIN sent : i \in DOMAIN sent' /\ sent'[i] = sent[i]
  <2>1. CASE \E m \in Commands : Send(m)
    <3>1. PICK m \in Commands : sent' = Append(sent, m)
      BY <2>1 DEF Send
    <3> QED
      BY <3>1, AppendProperties DEF TypeOK
  <2>2. CASE sent' = sent
    BY <2>2
  <2> QED
    BY <2>1, <2>2, Zenon DEF Next, vars, process, mq, Receive, ReceiveMessage,
          ReceiveAndStart, ReceiveNoThread, ReceiveDiscard, HandlerStep, Enter,
          FindGdevice, FindNothing, LoadStatus, StoreStatus, StartScoring,
          FinishScoring, LoadRequested, WriteRequested, TagBuffer,
          StartAnnouncing, ShowOled, StoreLocked, LoadLocked, WriteLocked,
          LoadLevel, VoiceSet, PythonFault, Restart, Crash
<1>2. recognised => recognised'
  BY Zenon DEF Next, vars, Receive, ReceiveMessage, ReceiveAndStart,
        ReceiveNoThread, ReceiveDiscard, Send, HandlerStep, Enter, FindGdevice,
        FindNothing, LoadStatus, StoreStatus, StartScoring, FinishScoring,
        LoadRequested, WriteRequested, TagBuffer, StartAnnouncing, ShowOled,
        StoreLocked, LoadLocked, WriteLocked, LoadLevel, VoiceSet, PythonFault,
        Restart, Crash
<1> QED
  BY <1>1, <1>2 DEF ZeroSent, KeySent, PairSent

-----------------------------------------------------------------------------
(* Type correctness is inductive with FoundDevice: the level a handler      *)
(* reads and the text it shows are typed because it has a device by then.   *)

(* The initial state has the right types.                                   *)
LEMMA InitTypeOK == Init => TypeOK
<1> SUFFICES ASSUME Init PROVE TypeOK
  OBVIOUS
<1>1. \A d \in Devices : gdevices[d] \in GdeviceRecord
  BY GdevicesAssumption, LenProperties, ElementOfSeq DEF Devices
<1>2. gpio_status \in [Devices -> Levels]
  BY <1>1 DEF Init, IniStatus, GdeviceRecord
<1>3. thread \in [Handlers -> Thread]
  BY DEF Init, Thread, NoThread, Locations, Levels, HIGH
<1>4. queue \in Seq(Commands) /\ sent \in Seq(Commands)
      /\ Len(queue) <= QueueMax /\ Len(sent) <= MaxSends
  BY ReceiveAssumption, EmptySeq DEF Init
<1>5. buffer \in [key : Byte, st : Byte] /\ spoken \in [key : Byte, st : Byte]
  BY DEF Init, ZeroBuffer, Byte
<1>6. pin \in [Pins -> Levels]
  BY DEF Init, Levels, HIGH
<1>7. restarts \in 0 .. MaxRestarts /\ set_threads \in Nat
  BY ReceiveAssumption DEF Init
<1>8. up \in BOOLEAN /\ framed \in BOOLEAN /\ recognised \in BOOLEAN
      /\ screen \in Texts \cup {Greeting}
  BY Zenon DEF Init
<1> QED
  BY <1>2, <1>3, <1>4, <1>5, <1>6, <1>7, <1>8 DEF TypeOK

(* A crash, from any handler or from Python, keeps the types.               *)
LEMMA CrashTypeOK ==
    ASSUME TypeOK, Crash
    PROVE  TypeOK'
<1>1. \A d \in Devices : gdevices[d] \in GdeviceRecord
  BY GdevicesAssumption, LenProperties, ElementOfSeq DEF Devices
<1>2. gpio_status' \in [Devices -> Levels]
  BY <1>1 DEF Crash, IniStatus, GdeviceRecord
<1>3. thread' \in [Handlers -> Thread]
  BY DEF Crash, Thread, NoThread, Locations, Levels, HIGH
<1>4. buffer' \in [key : Byte, st : Byte]
  BY DEF Crash, ZeroBuffer, Byte
<1> QED
  BY <1>2, <1>3, <1>4 DEF Crash, TypeOK, mq, outputs

(* A step of a handler leaves the record of its thread well-formed.         *)
LEMMA ThreadTypes ==
    ASSUME thread \in [Handlers -> Thread], NEW h \in Handlers
    PROVE  /\ \A loc \in Locations : Goto(h, loc) => thread' \in [Handlers -> Thread]
           /\ Exit(h) => thread' \in [Handlers -> Thread]
           /\ \A loc \in Locations, l \in Levels :
                thread' = [thread EXCEPT ![h] = [@ EXCEPT !.pc = loc, !.reg = l]]
                   => thread' \in [Handlers -> Thread]
           /\ \A loc \in Locations, d \in Devices :
                thread' = [thread EXCEPT ![h] = [@ EXCEPT !.pc = loc, !.dev = d]]
                   => thread' \in [Handlers -> Thread]
           /\ \A loc \in Locations, score \in 0 .. 100 :
                thread' = [thread EXCEPT ![h] = [@ EXCEPT !.pc = loc, !.face_result = score]]
                   => thread' \in [Handlers -> Thread]
           /\ \A loc \in Locations, b \in BOOLEAN :
                thread' = [thread EXCEPT ![h] = [@ EXCEPT !.pc = loc, !.smoke_status = b]]
                   => thread' \in [Handlers -> Thread]
<1>0. thread[h] \in Thread
  OBVIOUS
<1>1. NoThread \in Thread
  BY DEF Thread, NoThread, Locations, Levels, HIGH
<1>2. \A loc \in Locations : Goto(h, loc) => thread' \in [Handlers -> Thread]
  BY DEF Goto, Thread
<1>3. Exit(h) => thread' \in [Handlers -> Thread]
  BY <1>1 DEF Exit
<1>4. \A loc \in Locations, l \in Levels :
         thread' = [thread EXCEPT ![h] = [@ EXCEPT !.pc = loc, !.reg = l]]
            => thread' \in [Handlers -> Thread]
  <2>1. \A loc \in Locations, l \in Levels :
           [thread[h] EXCEPT !.pc = loc, !.reg = l] \in Thread
    BY ONLY <1>0, Zenon DEF Thread
  <2> QED
    BY <2>1
<1>5. \A loc \in Locations, d \in Devices :
         thread' = [thread EXCEPT ![h] = [@ EXCEPT !.pc = loc, !.dev = d]]
            => thread' \in [Handlers -> Thread]
  <2>1. \A loc \in Locations, d \in Devices :
           [thread[h] EXCEPT !.pc = loc, !.dev = d] \in Thread
    BY ONLY <1>0, Zenon DEF Thread
  <2> QED
    BY <2>1
<1>6. \A loc \in Locations, score \in 0 .. 100 :
         thread' = [thread EXCEPT ![h] = [@ EXCEPT !.pc = loc, !.face_result = score]]
            => thread' \in [Handlers -> Thread]
  <2>1. \A loc \in Locations, score \in 0 .. 100 :
           [thread[h] EXCEPT !.pc = loc, !.face_result = score] \in Thread
    BY ONLY <1>0, Zenon DEF Thread
  <2> QED
    BY <2>1
<1>7. \A loc \in Locations, b \in BOOLEAN :
         thread' = [thread EXCEPT ![h] = [@ EXCEPT !.pc = loc, !.smoke_status = b]]
            => thread' \in [Handlers -> Thread]
  <2>1. \A loc \in Locations, b \in BOOLEAN :
           [thread[h] EXCEPT !.pc = loc, !.smoke_status = b] \in Thread
    BY ONLY <1>0, Zenon DEF Thread
  <2> QED
    BY <2>1
<1> QED
  BY <1>2, <1>3, <1>4, <1>5, <1>6, <1>7

(* So does each step of a handler.                                          *)
LEMMA HandlerTypeOK ==
    ASSUME TypeOK, NEW h \in Handlers, FoundDevice(h), HandlerStep(h)
    PROVE  TypeOK'
<1> USE DEF TypeOK, process, mq, memory, outputs
<1>1. CASE Enter(h)
  <2>1. thread' \in [Handlers -> Thread]
    BY <1>1, ThreadTypes DEF Enter, Locations
  <2> QED
    BY <1>1, <2>1 DEF Enter
<1>2. CASE FindGdevice(h)
  <2>1. find_gdevice_by_key(buffer.key) \in Devices
    BY <1>2, FindIsDevice DEF FindGdevice
  <2>2. thread' \in [Handlers -> Thread]
    BY <1>2, <2>1, ThreadTypes, ZenonT(30) DEF FindGdevice, Locations
  <2> QED
    BY <1>2, <2>2 DEF FindGdevice
<1>3. CASE FindNothing(h)
  BY <1>3, CrashTypeOK DEF FindNothing
<1>4. CASE LoadStatus(h)
  <2>1. Level(buffer.st) \in Levels
    BY DEF Level, Levels
  <2>2. thread' \in [Handlers -> Thread]
    BY <1>4, <2>1, ThreadTypes, ZenonT(30) DEF LoadStatus, Locations
  <2> QED
    BY <1>4, <2>2 DEF LoadStatus
<1>5. CASE StoreStatus(h)
  <2>1. thread' \in [Handlers -> Thread]
    BY <1>5, ThreadTypes DEF StoreStatus, Locations
  <2>2. thread[h].reg \in Levels
    BY DEF Thread
  <2> QED
    BY <1>5, <2>1, <2>2 DEF StoreStatus
<1>6. CASE StartScoring(h)
  <2>1. thread' \in [Handlers -> Thread]
    BY <1>6, ThreadTypes DEF StartScoring, Locations
  <2> QED
    BY <1>6, <2>1 DEF StartScoring
<1>7. CASE FinishScoring(h)
  <2>1. PICK score \in FaceScores :
          /\ thread' = [thread EXCEPT
                 ![h] = [@ EXCEPT
                           !.pc = IF Recognised(score) THEN "wload" ELSE "tag",
                           !.face_result = score]]
          /\ recognised' = (recognised \/ Recognised(score))
    BY <1>7 DEF FinishScoring
  <2>2. score \in 0 .. 100
    BY ReceiveAssumption
  <2>3. thread' \in [Handlers -> Thread]
    BY <2>1, <2>2, ThreadTypes, ZenonT(30) DEF Locations
  <2>4. recognised' \in BOOLEAN
    BY <2>1
  <2> QED
    BY <1>7, <2>3, <2>4 DEF FinishScoring
<1>8. ASSUME NEW from, NEW to \in Locations, LoadLevel(h, from, to),
             from \notin {"idle", "entry", "find"}
      PROVE  TypeOK'
  <2>1. gpio_status[thread[h].dev] \in Levels
    BY <1>8 DEF LoadLevel, At, FoundDevice, HasDevice
  <2>2. thread' \in [Handlers -> Thread]
    BY <1>8, <2>1, ThreadTypes DEF LoadLevel
  <2> QED
    BY <1>8, <2>2 DEF LoadLevel
<1>9. CASE LoadRequested(h)
  BY <1>8, <1>9 DEF LoadRequested, Locations
<1>10. CASE WriteRequested(h)
  <2>1. thread' \in [Handlers -> Thread]
    BY <1>10, ThreadTypes DEF WriteRequested, Locations
  <2>2. thread[h].reg \in Levels
    BY DEF Thread
  <2> QED
    BY <1>10, <2>1, <2>2 DEF WriteRequested, DigitalWrite
<1>11. CASE TagBuffer(h)
  <2>1. thread' \in [Handlers -> Thread]
    BY <1>11, ThreadTypes DEF TagBuffer, Locations
  <2>2. PICK k \in {KEY_FACE_OK, KEY_FACE_FAIL} :
              buffer' = [buffer EXCEPT !.key = k]
    BY <1>11 DEF TagBuffer
  <2>3. k \in Byte
    BY DEF Byte, KEY_FACE_OK, KEY_FACE_FAIL
  <2>4. buffer' \in [key : Byte, st : Byte]
    BY <2>2, <2>3
  <2> QED
    BY <1>11, <2>1, <2>4 DEF TagBuffer
<1>12. CASE StartAnnouncing(h)
  <2>1. thread' \in [Handlers -> Thread]
    BY <1>12, ThreadTypes, ZenonT(30) DEF StartAnnouncing, Announced, FireAlarm, Locations
  <2>2. set_threads' \in Nat
    BY <1>12 DEF StartAnnouncing
  <2> QED
    BY <1>12, <2>1, <2>2 DEF StartAnnouncing
<1>13. CASE ShowOled(h)
  <2>1. screen' \in Texts
    BY <1>13 DEF ShowOled, At, FoundDevice, HasDevice, Thread, Texts
  <2>2. thread' \in [Handlers -> Thread]
    BY <1>13, ThreadTypes DEF ShowOled, Locations
  <2> QED
    BY <1>13, <2>1, <2>2 DEF ShowOled
<1>14. CASE StoreLocked(h)
  <2>1. thread' \in [Handlers -> Thread]
    BY <1>14, ThreadTypes DEF StoreLocked, Locations
  <2> QED
    BY <1>14, <2>1 DEF StoreLocked, Levels, HIGH
<1>15. CASE LoadLocked(h)
  BY <1>8, <1>15 DEF LoadLocked, Locations
<1>16. CASE WriteLocked(h)
  <2>1. thread' \in [Handlers -> Thread]
    BY <1>16, ThreadTypes DEF WriteLocked
  <2>2. thread[h].reg \in Levels
    BY DEF Thread
  <2> QED
    BY <1>16, <2>1, <2>2 DEF WriteLocked, DigitalWrite
<1> QED
  BY <1>1, <1>2, <1>3, <1>4, <1>5, <1>6, <1>7, <1>9, <1>10, <1>11, <1>12,
     <1>13, <1>14, <1>15, <1>16 DEF HandlerStep

(* And so does every step of the system.                                    *)
LEMMA StepTypeOK ==
    ASSUME TypeOK, \A h \in Handlers : FoundDevice(h), [Next]_vars
    PROVE  TypeOK'
<1> USE DEF TypeOK, process, mq, memory, outputs
<1>1. ASSUME NEW m \in Commands, Send(m)
      PROVE  TypeOK'
  <2>1. queue' \in Seq(Commands) /\ Len(queue') <= QueueMax
    BY <1>1, AppendProperties, ReceiveAssumption, LenProperties DEF Send
  <2>2. sent' \in Seq(Commands) /\ Len(sent') <= MaxSends
    BY <1>1, AppendProperties, ReceiveAssumption, LenProperties DEF Send
  <2> QED
    BY <1>1, <2>1, <2>2 DEF Send
<1>2. ASSUME ReceiveMessage
      PROVE  /\ queue' \in Seq(Commands) /\ Len(queue') <= QueueMax
             /\ Head(queue) \in Commands
             /\ CopyInto(buffer, Head(queue)) \in [key : Byte, st : Byte]
  <2>1. /\ queue' \in Seq(Commands)
        /\ Len(queue') = Len(queue) - 1
        /\ Head(queue) \in Commands
    BY <1>2, HeadTailProperties DEF ReceiveMessage
  <2>2. Head(queue).key \in Byte /\ Head(queue).st \in Byte
    BY <2>1, ReceiveAssumption DEF Message
  <2>3. Len(queue') <= QueueMax
    BY <2>1, ReceiveAssumption, LenProperties
  <2> QED
    BY <2>1, <2>2, <2>3 DEF CopyInto
<1>3. ASSUME NEW h \in Handlers, ReceiveAndStart(h)
      PROVE  TypeOK'
  <2>1. NoThread \in Thread /\ "entry" \in Locations
    BY DEF Thread, NoThread, Locations, Levels, HIGH
  <2>2. [NoThread EXCEPT !.pc = "entry"] \in Thread
    BY <2>1 DEF Thread
  <2>3. thread' \in [Handlers -> Thread]
    BY <1>3, <2>2 DEF ReceiveAndStart
  <2> QED
    BY <1>2, <1>3, <2>3 DEF ReceiveAndStart, ReceiveMessage
<1>4. CASE ReceiveNoThread
  BY <1>2, <1>4 DEF ReceiveNoThread, ReceiveMessage
<1>5. CASE ReceiveDiscard
  BY <1>2, <1>5 DEF ReceiveDiscard, ReceiveMessage
<1>6. CASE VoiceSet
  BY <1>6 DEF VoiceSet
<1>7. CASE PythonFault
  BY <1>7, CrashTypeOK DEF PythonFault
<1>8. CASE Restart
  BY <1>8, ReceiveAssumption DEF Restart
<1>9. CASE UNCHANGED vars
  BY <1>9 DEF vars
<1> QED
  BY <1>1, <1>3, <1>4, <1>5, <1>6, <1>7, <1>8, <1>9, HandlerTypeOK
     DEF Next, Receive

-----------------------------------------------------------------------------
(* The other parts of the invariant, one lemma for the steps that can       *)
(* disturb each.                                                            *)

(* What is in the queue stays something that was sent.                      *)
LEMMA StepQueue ==
    ASSUME TypeOK, QueueWasSent, [Next]_vars
    PROVE  QueueWasSent'
<1> USE DEF QueueWasSent, TypeOK
<1>1. ASSUME NEW m \in Commands, Send(m)
      PROVE  QueueWasSent'
  <2>1. sent' = Append(sent, m) /\ queue' = Append(queue, m)
    BY <1>1 DEF Send
  <2>2. /\ DOMAIN sent' = 1 .. (Len(sent) + 1)
        /\ DOMAIN queue' = 1 .. (Len(queue) + 1)
        /\ DOMAIN sent = 1 .. Len(sent)
        /\ DOMAIN queue = 1 .. Len(queue)
        /\ Len(sent) \in Nat /\ Len(queue) \in Nat
    BY <2>1, AppendProperties, LenProperties
  <2>3. /\ \A i \in 1 .. Len(sent) : sent'[i] = sent[i]
        /\ \A i \in 1 .. Len(queue) : queue'[i] = queue[i]
        /\ sent'[Len(sent) + 1] = m /\ queue'[Len(queue) + 1] = m
    BY <2>1, AppendProperties
  <2> SUFFICES ASSUME NEW i \in 1 .. (Len(queue) + 1)
               PROVE  \E j \in DOMAIN sent' : sent'[j] = queue'[i]
    BY <2>2
  <2>4. CASE i \in 1 .. Len(queue)
    <3>1. PICK j \in DOMAIN sent : sent[j] = queue[i]
      BY <2>2, <2>4
    <3> QED
      <4>1. sent'[j] = sent[j] /\ queue'[i] = queue[i] /\ j \in DOMAIN sent'
        BY ONLY <2>2, <2>3, <2>4, <3>1
      <4> QED
        BY ONLY <3>1, <4>1, Zenon
  <2>5. CASE i = Len(queue) + 1
    <3>1. Len(sent) + 1 \in DOMAIN sent' /\ sent'[Len(sent) + 1] = queue'[i]
      BY ONLY <2>2, <2>3, <2>5
    <3> QED
      BY ONLY <3>1, Zenon
  <2> QED
    BY <2>2, <2>4, <2>5
<1>2. CASE ReceiveMessage
  <2>1. queue \in Seq(Commands) /\ queue # <<>> /\ queue' = Tail(queue)
    BY <1>2 DEF ReceiveMessage
  <2>2. /\ \A i \in 1 .. Len(queue') : queue'[i] = queue[i + 1]
        /\ Len(queue') = Len(queue) - 1
        /\ DOMAIN queue' = 1 .. Len(queue')
        /\ DOMAIN queue = 1 .. Len(queue)
        /\ Len(queue) \in Nat
    BY <2>1, HeadTailProperties, LenProperties
  <2> QED
    BY <1>2, <2>2, SMTT(30) DEF ReceiveMessage
<1>3. CASE queue' = queue
  BY <1>3, HistoryGrows
<1> QED
  BY <1>1, <1>2, <1>3, Zenon
     DEF Next, vars, process, mq, Receive, ReceiveAndStart, ReceiveNoThread,
         ReceiveDiscard, HandlerStep, Enter, FindGdevice, FindNothing,
         LoadStatus, StoreStatus, StartScoring, FinishScoring, LoadRequested,
         WriteRequested, TagBuffer, StartAnnouncing, ShowOled, StoreLocked,
         LoadLocked, WriteLocked, LoadLevel, VoiceSet, PythonFault, Restart,
         Crash

(* The message receive_get takes next is one that a producer sent.          *)
LEMMA HeadWasSent ==
    ASSUME TypeOK, QueueWasSent, queue # <<>>
    PROVE  /\ Head(queue) \in Message
           /\ \E j \in DOMAIN sent : sent[j] = Head(queue)
<1>1. Head(queue) = queue[1] /\ 1 \in DOMAIN queue /\ Head(queue) \in Commands
  BY HeadTailProperties, LenProperties, EmptySeq DEF TypeOK
<1> QED
  BY <1>1, ReceiveAssumption DEF QueueWasSent

(* The accepting turns of receive_get: the copy into the shared buffer.     *)
LEMMA CopyStepBuffer ==
    ASSUME TypeOK, QueueWasSent, BufferWasSent, BufferIsMessage,
           ReceiveMessage, Accepts(Head(queue)), framed',
           buffer' = CopyInto(buffer, Head(queue))
    PROVE  BufferWasSent' /\ BufferIsMessage'
<1> DEFINE m == Head(queue)
<1>1. queue # <<>> /\ sent' = sent /\ recognised' = recognised
  BY DEF ReceiveMessage
<1>2. m \in Message /\ \E j \in DOMAIN sent : sent[j] = m
  BY <1>1, HeadWasSent
<1>3. /\ m.len >= 3 => KeySent(m.key)
      /\ m.len >= 4 /\ m.st = 0 => ZeroSent
      /\ PairSent(m.key, m.st)
  BY <1>2 DEF KeySent, ZeroSent, PairSent
<1>4. buffer'.key = (IF m.len >= 3 THEN m.key ELSE buffer.key)
      /\ buffer'.st = (IF m.len >= 4 THEN m.st ELSE buffer.st)
  BY DEF CopyInto
<1>5. framed \/ m.len = 6
  BY DEF Accepts, FrameLen
<1>6. m.len \in Nat
  BY <1>2 DEF Message, FrameLen
<1>7. /\ \A k : KeySent(k)' <=> KeySent(k)
      /\ ZeroSent' <=> ZeroSent
      /\ \A k, s : PairSent(k, s)' <=> PairSent(k, s)
  BY <1>1 DEF KeySent, ZeroSent, PairSent
<1> HIDE DEF m
<1>8. BufferWasSent'
  <2>1. CASE m.len >= 4
    <3>1. buffer'.key = m.key /\ buffer'.st = m.st /\ KeySent(m.key)
      BY <1>3, <1>4, <1>6, <2>1
    <3> QED
      BY <1>1, <1>3, <1>7, <2>1, <3>1 DEF BufferWasSent
  <2>2. CASE m.len = 3
    <3>1. buffer'.key = m.key /\ buffer'.st = buffer.st /\ framed
      BY <1>4, <1>5, <2>2
    <3> QED
      BY <1>1, <1>3, <1>7, <2>2, <3>1 DEF BufferWasSent
  <2>3. CASE m.len < 3
    <3>1. buffer'.key = buffer.key /\ buffer'.st = buffer.st /\ framed
      BY <1>4, <1>5, <1>6, <2>3
    <3> QED
      BY <1>1, <1>7, <3>1 DEF BufferWasSent
  <2> QED
    BY <1>6, <2>1, <2>2, <2>3
<1>9. BufferIsMessage'
  <2> SUFFICES ASSUME WholeFrames
               PROVE  PairSent(buffer.key, buffer.st)'
    BY DEF BufferIsMessage, WholeFrames
  <2>1. Head(queue) \in Commands
    BY <1>1, HeadTailProperties DEF TypeOK
  <2>2. m.len = 6
    BY <2>1 DEF WholeFrames, FrameLen, m
  <2> QED
    BY <1>3, <1>4, <1>7, <2>2
<1> QED
  BY <1>8, <1>9

(* Every other step leaves the buffer alone, tags it, or loses it.          *)
LEMMA StepBuffer ==
    ASSUME TypeOK, QueueWasSent, BufferWasSent, BufferIsMessage,
           ThreadsAfterFrame, \A h \in Handlers : Remembered(h), [Next]_vars
    PROVE  BufferWasSent' /\ BufferIsMessage'
<1>1. CASE /\ ReceiveMessage
           /\ Accepts(Head(queue))
           /\ framed'
           /\ buffer' = CopyInto(buffer, Head(queue))
  BY <1>1, CopyStepBuffer
<1>2. ASSUME NEW h \in Handlers, TagBuffer(h)
      PROVE  BufferWasSent' /\ BufferIsMessage'
  <2>1. framed /\ framed' = framed /\ buffer'.st = buffer.st
    BY <1>2 DEF TagBuffer, At, ThreadsAfterFrame, TypeOK
  <2>2. /\ buffer'.key \in {KEY_FACE_OK, KEY_FACE_FAIL}
        /\ buffer'.key = KEY_FACE_OK => recognised
    BY <1>2 DEF TagBuffer, Remembered, TypeOK, KEY_FACE_OK, KEY_FACE_FAIL
  <2> QED
    BY <2>1, <2>2, HistoryGrows DEF BufferWasSent, BufferIsMessage
<1>3. CASE Crash
  BY <1>3 DEF Crash, BufferWasSent, BufferIsMessage
<1>4. CASE framed' = framed /\ buffer' = buffer
  BY <1>4, HistoryGrows DEF BufferWasSent, BufferIsMessage, WholeFrames
<1> QED
  BY <1>1, <1>2, <1>3, <1>4, Zenon
     DEF Next, vars, memory, Receive, ReceiveAndStart, ReceiveNoThread,
         ReceiveDiscard, Send, HandlerStep, Enter, FindGdevice, FindNothing,
         LoadStatus, StoreStatus, StartScoring, FinishScoring, LoadRequested,
         WriteRequested, StartAnnouncing, ShowOled, StoreLocked, LoadLocked,
         WriteLocked, LoadLevel, VoiceSet, PythonFault, Restart

(* Handlers and announcements are only started on a received frame.         *)
LEMMA StepThreads ==
    ASSUME TypeOK, ThreadsAfterFrame, [Next]_vars
    PROVE  ThreadsAfterFrame'
<1> USE DEF ThreadsAfterFrame, TypeOK
<1>1. CASE Receive
  BY <1>1 DEF Receive, ReceiveMessage, ReceiveAndStart, ReceiveNoThread,
        ReceiveDiscard
<1>2. CASE Crash
  BY <1>2 DEF Crash, NoThread
<1>3. ASSUME NEW h \in Handlers, HandlerStep(h)
      PROVE  ThreadsAfterFrame'
  <2>1. CASE FindNothing(h)
    BY <1>2, <2>1 DEF FindNothing
  <2>2. CASE ~FindNothing(h)
    <3>1. thread[h].pc # "idle" /\ framed' = framed
      BY <1>3, <2>2 DEF HandlerStep, At, memory, Enter, FindGdevice,
            LoadStatus, StoreStatus, StartScoring, FinishScoring,
            LoadRequested, WriteRequested, TagBuffer, StartAnnouncing,
            ShowOled, StoreLocked, LoadLocked, WriteLocked, LoadLevel
    <3> QED
      BY <3>1
  <2> QED
    BY <2>1, <2>2
<1>4. CASE VoiceSet
  BY <1>4 DEF VoiceSet, memory
<1>5. CASE \/ \E m \in Commands : Send(m)
           \/ Restart
           \/ UNCHANGED vars
  BY <1>5 DEF Send, Restart, vars, memory
<1> QED
  BY <1>1, <1>2, <1>3, <1>4, <1>5 DEF Next, PythonFault

(* A thread that does not exist claims nothing.                             *)
LEMMA NoThreadKeeps ==
    ASSUME NEW g \in Handlers, thread'[g] = NoThread
    PROVE  HandlerInv(g)'
BY DEF HandlerInv, FoundDevice, CarriesLow, FieldLow, FaceFirst, Remembered,
       HasDevice, NoThread, Recognised

(* A step that stores LOW in a field, if it does not kill the process, has  *)
(* a status 0 to show for it.                                               *)
LEMMA FieldChange ==
    ASSUME TypeOK, \A h \in Handlers : HandlerInv(h), [Next]_vars, ~Crash,
           NEW d \in Devices, gpio_status'[d] = LOW
    PROVE  gpio_status[d] = LOW \/ ZeroSent
<1>1. ASSUME NEW h \in Handlers, StoreStatus(h)
      PROVE  gpio_status[d] = LOW \/ ZeroSent
  BY <1>1 DEF StoreStatus, At, HandlerInv, CarriesLow, TypeOK
<1>2. ASSUME NEW h \in Handlers, StoreLocked(h)
      PROVE  gpio_status[d] = LOW \/ ZeroSent
  BY <1>2 DEF StoreLocked, TypeOK, LOW, HIGH
<1>3. CASE gpio_status' = gpio_status
  BY <1>3
<1> QED
  BY <1>1, <1>2, <1>3, Zenon
     DEF Next, vars, memory, Receive, ReceiveMessage, ReceiveAndStart,
         ReceiveNoThread, ReceiveDiscard, Send, HandlerStep, Enter,
         FindGdevice, FindNothing, LoadStatus, StartScoring, FinishScoring,
         LoadRequested, WriteRequested, TagBuffer, StartAnnouncing, ShowOled,
         LoadLocked, WriteLocked, LoadLevel, VoiceSet, PythonFault, Restart

(* What holds of a handler that another thread's step leaves alone.         *)
LEMMA OthersKeep ==
    ASSUME TypeOK, \A h \in Handlers : HandlerInv(h), [Next]_vars, ~Crash,
           NEW g \in Handlers, thread'[g] = thread[g]
    PROVE  HandlerInv(g)'
<1>1. HandlerInv(g)
  OBVIOUS
<1>2. FoundDevice(g)' /\ CarriesLow(g)' /\ FaceFirst(g)' /\ Remembered(g)'
  BY <1>1, HistoryGrows DEF HandlerInv, FoundDevice, HasDevice, CarriesLow,
        FaceFirst, Remembered
<1>3. FieldLow(g)'
  BY <1>1, HistoryGrows, FieldChange DEF HandlerInv, FieldLow, FoundDevice,
        HasDevice
<1> QED
  BY <1>2, <1>3 DEF HandlerInv

(* What a handler's own step does to what holds of it.                      *)
LEMMA ActorKeeps ==
    ASSUME TypeOK, BufferWasSent, ThreadsAfterFrame, [Next]_vars,
           \A g \in Handlers : HandlerInv(g),
           NEW h \in Handlers, HandlerStep(h), ~Crash
    PROVE  HandlerInv(h)'
<1> USE DEF TypeOK
<1> DEFINE d == thread[h].dev
<1>1. HandlerInv(h) /\ (thread[h].pc # "idle" => framed)
  BY DEF ThreadsAfterFrame
<1>2. CASE Enter(h)
  <2>1. CASE thread'[h] = NoThread
    BY <2>1, NoThreadKeeps
  <2>2. CASE thread'[h] = [thread[h] EXCEPT !.pc = "find"]
    BY <1>1, <2>2, HistoryGrows DEF HandlerInv, FoundDevice, HasDevice,
          CarriesLow, FieldLow, FaceFirst, Remembered, Thread
  <2> QED
    BY <1>2, <2>1, <2>2 DEF Enter, Goto, Exit
<1>3. CASE FindGdevice(h)
  <2> DEFINE e == find_gdevice_by_key(buffer.key)
  <2>1. e \in Devices /\ gdevices[e].key = buffer.key
    BY <1>3, FindIsDevice DEF FindGdevice
  <2>2. KeySent(gdevices[e].key)
    BY <1>1, <1>3, <2>1, GdevicesAssumption
       DEF FindGdevice, At, BufferWasSent
  <2>3. thread'[h] = [thread[h] EXCEPT !.pc = "load", !.dev = e]
    BY <1>3 DEF FindGdevice
  <2> HIDE DEF e
  <2> QED
    BY <1>1, <2>1, <2>2, <2>3, HistoryGrows DEF HandlerInv, FoundDevice,
          HasDevice, CarriesLow, FieldLow, FaceFirst, Remembered, Thread
<1>4. CASE FindNothing(h)
  BY <1>4 DEF FindNothing
<1>5. CASE LoadStatus(h)
  <2>1. Level(buffer.st) = LOW => ZeroSent
    BY <1>1, <1>5 DEF LoadStatus, At, BufferWasSent, Level, LOW, HIGH
  <2>2. /\ thread[h].pc = "load"
        /\ thread'[h] = [thread[h] EXCEPT !.pc = "store",
                                          !.reg = Level(buffer.st)]
    BY <1>5 DEF LoadStatus, At
  <2> QED
    BY <1>1, <2>1, <2>2, HistoryGrows DEF HandlerInv, FoundDevice, HasDevice,
          CarriesLow, FieldLow, FaceFirst, Remembered, Thread
<1>6. CASE StoreStatus(h)
  <2>1. /\ thread[h].pc = "store"
        /\ gpio_status' = [gpio_status EXCEPT ![d] = thread[h].reg]
        /\ \/ ChecksFace(d)  /\ thread'[h] = [thread[h] EXCEPT !.pc = "face"]
           \/ ~ChecksFace(d) /\ thread'[h] = [thread[h] EXCEPT !.pc = "wload"]
    BY <1>6 DEF StoreStatus, At, Goto
  <2>2. d \in Devices
    BY <1>1, <2>1 DEF HandlerInv, FoundDevice, HasDevice
  <2>3. FieldLow(h)'
    BY <1>1, <2>1, <2>2, HistoryGrows DEF HandlerInv, FieldLow, CarriesLow,
          Thread
  <2>4. /\ thread'[h].dev = d /\ thread'[h].face_result = thread[h].face_result
        /\ \/ thread'[h].pc = "face"
           \/ thread'[h].pc = "wload" /\ ~ChecksFace(d)
    BY <2>1 DEF Thread
  <2>5. FaceFirst(h)'
    BY <2>4 DEF FaceFirst, ChecksFace
  <2>6. FoundDevice(h)' /\ CarriesLow(h)' /\ Remembered(h)'
    BY <1>1, <2>1, <2>4, HistoryGrows DEF HandlerInv, FoundDevice, HasDevice,
          CarriesLow, Remembered
  <2> QED
    BY <2>3, <2>5, <2>6 DEF HandlerInv
<1>7. CASE StartScoring(h)
  <2>1. /\ thread[h].pc = "face" /\ gpio_status' = gpio_status
        /\ thread'[h] = [thread[h] EXCEPT !.pc = "scoring"]
    BY <1>7 DEF StartScoring, At, Goto, memory
  <2> QED
    BY <1>1, <2>1, HistoryGrows DEF HandlerInv, FoundDevice, HasDevice,
          CarriesLow, FieldLow, FaceFirst, Remembered, Thread
<1>8. CASE FinishScoring(h)
  <2>1. PICK score \in FaceScores :
          /\ thread[h].pc = "scoring" /\ gpio_status' = gpio_status
          /\ thread'[h] = [thread[h] EXCEPT
                             !.pc = IF Recognised(score) THEN "wload" ELSE "tag",
                             !.face_result = score]
          /\ Recognised(score) => recognised'
    BY <1>8 DEF FinishScoring, At, memory
  <2>2. CASE Recognised(score)
    <3>1. thread'[h] = [thread[h] EXCEPT !.pc = "wload", !.face_result = score]
      BY <2>1, <2>2
    <3> QED
      BY <1>1, <2>1, <2>2, <3>1, HistoryGrows DEF HandlerInv, FoundDevice,
            HasDevice, CarriesLow, FieldLow, FaceFirst, Remembered, Thread
  <2>3. CASE ~Recognised(score)
    <3>1. thread'[h] = [thread[h] EXCEPT !.pc = "tag", !.face_result = score]
      BY <2>1, <2>3
    <3> QED
      BY <1>1, <2>1, <2>3, <3>1, HistoryGrows DEF HandlerInv, FoundDevice,
            HasDevice, CarriesLow, FieldLow, FaceFirst, Remembered, Thread
  <2> QED
    BY <2>2, <2>3
<1>9. ASSUME NEW from \in {"wload", "rload"}, NEW to \in {"wput", "rput"},
             LoadLevel(h, from, to)
      PROVE  HandlerInv(h)'
  <2>1. /\ thread[h].pc = from /\ gpio_status' = gpio_status
        /\ thread'[h] = [thread[h] EXCEPT !.pc = to, !.reg = gpio_status[d]]
    BY <1>9 DEF LoadLevel, At, memory
  <2>2. d \in Devices /\ (gpio_status[d] = LOW => ZeroSent)
    BY <1>1, <1>9, <2>1 DEF HandlerInv, FoundDevice, HasDevice, FieldLow
  <2> QED
    BY <1>1, <1>9, <2>1, <2>2, HistoryGrows DEF HandlerInv, FoundDevice,
          HasDevice, CarriesLow, FieldLow, FaceFirst, Remembered, Thread
<1>10. CASE LoadRequested(h)
  BY <1>9, <1>10 DEF LoadRequested
<1>11. CASE WriteRequested(h)
  <2>1. /\ thread[h].pc = "wput" /\ gpio_status' = gpio_status
        /\ \/ thread'[h] = [thread[h] EXCEPT !.pc = "tag"]
           \/ thread'[h] = [thread[h] EXCEPT !.pc = "voice"]
    BY <1>11 DEF WriteRequested, At, Goto, memory
  <2> QED
    BY <1>1, <2>1, HistoryGrows DEF HandlerInv, FoundDevice, HasDevice,
          CarriesLow, FieldLow, FaceFirst, Remembered, Thread
<1>12. CASE TagBuffer(h)
  <2>1. /\ thread[h].pc = "tag" /\ gpio_status' = gpio_status
        /\ thread'[h] = [thread[h] EXCEPT !.pc = "voice"]
    BY <1>12 DEF TagBuffer, At, Goto
  <2> QED
    BY <1>1, <2>1, HistoryGrows DEF HandlerInv, FoundDevice, HasDevice,
          CarriesLow, FieldLow, FaceFirst, Remembered, Thread
<1>13. CASE StartAnnouncing(h)
  <2>1. PICK b \in BOOLEAN :
          /\ thread[h].pc = "voice" /\ gpio_status' = gpio_status
          /\ thread'[h] = [thread[h] EXCEPT !.pc = "oled", !.smoke_status = b]
    BY <1>13 DEF StartAnnouncing, At, memory, Announced, FireAlarm
  <2> QED
    BY <1>1, <2>1, HistoryGrows DEF HandlerInv, FoundDevice, HasDevice,
          CarriesLow, FieldLow, FaceFirst, Remembered, Thread
<1>14. CASE ShowOled(h)
  <2>1. /\ thread[h].pc = "oled" /\ gpio_status' = gpio_status
        /\ \/ thread'[h] = NoThread
           \/ /\ thread'[h] = [thread[h] EXCEPT !.pc = "relock"]
              /\ Recognised(thread[h].face_result)
    BY <1>14 DEF ShowOled, At, Goto, Exit, memory
  <2>2. CASE thread'[h] = NoThread
    BY <2>2, NoThreadKeeps
  <2>3. CASE /\ thread'[h] = [thread[h] EXCEPT !.pc = "relock"]
             /\ Recognised(thread[h].face_result)
    BY <1>1, <2>1, <2>3, HistoryGrows DEF HandlerInv, FoundDevice, HasDevice,
          CarriesLow, FieldLow, FaceFirst, Remembered, Thread
  <2> QED
    BY <2>1, <2>2, <2>3
<1>15. CASE StoreLocked(h)
  <2>1. /\ thread[h].pc = "relock"
        /\ gpio_status' = [gpio_status EXCEPT ![d] = HIGH]
        /\ thread'[h] = [thread[h] EXCEPT !.pc = "rload"]
    BY <1>15 DEF StoreLocked, At, Goto
  <2>2. d \in Devices
    BY <1>1, <2>1 DEF HandlerInv, FoundDevice, HasDevice
  <2>3. FieldLow(h)'
    BY <2>1, <2>2 DEF FieldLow, LOW, HIGH
  <2> QED
    BY <1>1, <2>1, <2>3, HistoryGrows DEF HandlerInv, FoundDevice, HasDevice,
          CarriesLow, FaceFirst, Remembered, Thread
<1>16. CASE LoadLocked(h)
  BY <1>9, <1>16 DEF LoadLocked
<1>17. CASE WriteLocked(h)
  <2>1. thread'[h] = NoThread
    BY <1>17 DEF WriteLocked, Exit
  <2> QED
    BY <2>1, NoThreadKeeps
<1> QED
  BY <1>2, <1>3, <1>4, <1>5, <1>6, <1>7, <1>8, <1>10, <1>11, <1>12, <1>13,
     <1>14, <1>15, <1>16, <1>17 DEF HandlerStep

(* Every step keeps what the invariant says of each handler: the handler    *)
(* that acts establishes it anew, the others keep it although the table and  *)
(* the buffer change under them.                                            *)
LEMMA StepHandlers ==
    ASSUME TypeOK, BufferWasSent, ThreadsAfterFrame, [Next]_vars,
           \A g \in Handlers : HandlerInv(g)
    PROVE  \A g \in Handlers : HandlerInv(g)'
<1> SUFFICES ASSUME NEW g \in Handlers
             PROVE  HandlerInv(g)'
  OBVIOUS
<1>1. CASE Crash
  <2>1. thread'[g] = NoThread
    BY <1>1 DEF Crash
  <2> QED
    BY <2>1, NoThreadKeeps
<1>2. ASSUME ~Crash, NEW h \in Handlers, HandlerStep(h)
      PROVE  HandlerInv(g)'
  <2>1. CASE g = h
    BY <1>2, <2>1, ActorKeeps
  <2>2. CASE g # h
    <3>1. thread'[g] = thread[g]
      BY <1>2, <2>2 DEF TypeOK, HandlerStep, Goto, Exit, Enter, FindGdevice,
            FindNothing, LoadStatus, StoreStatus, StartScoring, FinishScoring,
            LoadRequested, WriteRequested, TagBuffer, StartAnnouncing,
            ShowOled, StoreLocked, LoadLocked, WriteLocked, LoadLevel
    <3> QED
      BY <1>2, <3>1, OthersKeep
  <2> QED
    BY <2>1, <2>2
<1>3. ASSUME ~Crash, NEW h \in Handlers, ReceiveAndStart(h)
      PROVE  HandlerInv(g)'
  <2>1. CASE g = h
    <3>1. thread'[g] = [NoThread EXCEPT !.pc = "entry"]
      BY <1>3, <2>1 DEF ReceiveAndStart, TypeOK
    <3> QED
      BY <3>1 DEF HandlerInv, FoundDevice, CarriesLow, FieldLow, FaceFirst,
            Remembered, HasDevice, NoThread, Recognised
  <2>2. CASE g # h
    <3>1. thread'[g] = thread[g]
      BY <1>3, <2>2 DEF ReceiveAndStart, TypeOK
    <3> QED
      BY <1>3, <3>1, OthersKeep
  <2> QED
    BY <2>1, <2>2
<1>4. CASE ~Crash /\ thread' = thread
  BY <1>4, OthersKeep
<1> QED
  BY <1>1, <1>2, <1>3, <1>4, Zenon
     DEF Next, vars, Receive, ReceiveNoThread, ReceiveDiscard, Send, VoiceSet,
         PythonFault, Restart

-----------------------------------------------------------------------------
(* What leaves the process: the pins and the frames to the voice module.    *)

(* A digitalWrite of LOW is justified by the invariant of the handler.      *)
LEMMA JustifiedWrite ==
    ASSUME TypeOK, NEW h \in Handlers, HandlerInv(h),
           thread[h].pc \in {"wput", "rput"}, thread[h].reg = LOW
    PROVE  /\ thread[h].dev \in Devices
           /\ KeySent(gdevices[thread[h].dev].key)
           /\ ZeroSent
           /\ ChecksFace(thread[h].dev) => recognised
BY DEF HandlerInv, FoundDevice, HasDevice, CarriesLow, FaceFirst, Remembered

(* A pin falls only in a digitalWrite, whose register has a cause.          *)
LEMMA StepPins ==
    ASSUME TypeOK, \A h \in Handlers : HandlerInv(h), LowIsCommanded,
           [Next]_vars
    PROVE  LowIsCommanded'
<1> SUFFICES ASSUME NEW p \in Pins, pin'[p] = LOW
             PROVE  \E d \in Devices : /\ Pin(d) = p
                                       /\ KeySent(gdevices[d].key)'
                                       /\ ZeroSent'
                                       /\ ChecksFace(d) => recognised'
  BY DEF LowIsCommanded, Pin, ChecksFace
<1>1. CASE pin[p] = LOW
  <2>1. PICK d \in Devices : /\ Pin(d) = p
                             /\ KeySent(gdevices[d].key)
                             /\ ZeroSent
                             /\ ChecksFace(d) => recognised
    BY <1>1 DEF LowIsCommanded
  <2> QED
    BY <2>1, HistoryGrows
<1>2. ASSUME NEW h \in Handlers, pin[p] # LOW, DigitalWrite(h),
             At(h, "wput") \/ At(h, "rput")
      PROVE  \E d \in Devices : /\ Pin(d) = p
                                /\ KeySent(gdevices[d].key)'
                                /\ ZeroSent'
                                /\ ChecksFace(d) => recognised'
  <2>1. /\ gdevices[thread[h].dev].gpio_pin = p
        /\ thread[h].reg = LOW
    BY <1>2 DEF DigitalWrite, TypeOK
  <2>2. thread[h].pc \in {"wput", "rput"}
    BY <1>2 DEF At
  <2> QED
    BY <2>1, <2>2, JustifiedWrite, HistoryGrows DEF Pin
<1>3. CASE pin' = pin
  BY <1>1, <1>3
<1> QED
  BY <1>1, <1>2, <1>3, Zenon
     DEF Next, vars, outputs, Receive, ReceiveMessage, ReceiveAndStart,
         ReceiveNoThread, ReceiveDiscard, Send, HandlerStep, Enter,
         FindGdevice, FindNothing, LoadStatus, StoreStatus, StartScoring,
         FinishScoring, LoadRequested, WriteRequested, TagBuffer,
         StartAnnouncing, ShowOled, StoreLocked, LoadLocked, WriteLocked,
         LoadLevel, VoiceSet, PythonFault, Restart, Crash

(* An announcement is the buffer at that time, whose bytes have a cause.    *)
LEMMA StepSpoken ==
    ASSUME TypeOK, BufferWasSent, BufferIsMessage, ThreadsAfterFrame,
           AnnouncedRecognition, AnnouncementWasSent, [Next]_vars
    PROVE  AnnouncedRecognition' /\ AnnouncementWasSent'
<1>1. CASE spoken' = spoken
  BY <1>1, HistoryGrows
     DEF AnnouncedRecognition, AnnouncementWasSent, PairSent, WholeFrames
<1>2. CASE VoiceSet /\ spoken' = buffer
  <2>1. framed
    BY <1>2 DEF VoiceSet, ThreadsAfterFrame
  <2>2. AnnouncedRecognition'
    BY <1>2, <2>1, HistoryGrows DEF BufferWasSent, AnnouncedRecognition
  <2>3. AnnouncementWasSent'
    BY <1>2, <2>1, HistoryGrows
       DEF BufferIsMessage, AnnouncementWasSent, PairSent, WholeFrames
  <2> QED
    BY <2>2, <2>3
<1> QED
  BY <1>1, <1>2, Zenon
     DEF Next, vars, outputs, Receive, ReceiveMessage, ReceiveAndStart,
         ReceiveNoThread, ReceiveDiscard, Send, HandlerStep, Enter,
         FindGdevice, FindNothing, LoadStatus, StoreStatus, StartScoring,
         FinishScoring, LoadRequested, WriteRequested, TagBuffer,
         StartAnnouncing, ShowOled, StoreLocked, LoadLocked, WriteLocked,
         LoadLevel, VoiceSet, PythonFault, Restart, Crash

-----------------------------------------------------------------------------
(* The invariant.                                                           *)

(* The inductive invariant holds initially ...                              *)
LEMMA InitIInv == Init => IInv
<1> SUFFICES ASSUME Init PROVE IInv
  OBVIOUS
<1>1. TypeOK
  BY InitTypeOK
<1>2. QueueWasSent /\ BufferWasSent /\ BufferIsMessage
  BY DEF Init, QueueWasSent, BufferWasSent, BufferIsMessage
<1>3. ThreadsAfterFrame /\ \A h \in Handlers : HandlerInv(h)
  BY DEF Init, ThreadsAfterFrame, HandlerInv, FoundDevice, CarriesLow,
         FieldLow, FaceFirst, Remembered, HasDevice, NoThread, Recognised
<1>4. LowIsCommanded
  BY DEF Init, LowIsCommanded, LOW, HIGH
<1>5. AnnouncedRecognition /\ AnnouncementWasSent
  BY DEF Init, AnnouncedRecognition, AnnouncementWasSent, ZeroBuffer,
         KEY_FACE_OK
<1> QED
  BY <1>1, <1>2, <1>3, <1>4, <1>5 DEF IInv

(* ... is kept by every step ...                                            *)
LEMMA StepIInv == IInv /\ [Next]_vars => IInv'
<1> SUFFICES ASSUME IInv, [Next]_vars PROVE IInv'
  OBVIOUS
<1> USE DEF IInv
<1>1. TypeOK'
  BY StepTypeOK DEF HandlerInv
<1>2. QueueWasSent'
  BY StepQueue
<1>3. BufferWasSent' /\ BufferIsMessage'
  BY StepBuffer DEF HandlerInv
<1>4. ThreadsAfterFrame'
  BY StepThreads
<1>5. \A h \in Handlers : HandlerInv(h)'
  BY StepHandlers
<1>6. LowIsCommanded'
  BY StepPins
<1>7. AnnouncedRecognition' /\ AnnouncementWasSent'
  BY StepSpoken
<1> QED
  BY <1>1, <1>2, <1>3, <1>4, <1>5, <1>6, <1>7

(* ... and so holds in every reachable state.                               *)
LEMMA Invariant == Spec => []IInv
BY InitIInv, StepIInv, PTL DEF Spec

(* Every variable keeps its type.                                           *)
THEOREM TypeCorrect == Spec => []TypeOK
<1>1. IInv => TypeOK
  BY DEF IInv
<1> QED
  BY <1>1, Invariant, PTL

(* No pin is ever LOW without a command for its device, a status 0 and,     *)
(* where a face is checked, a recognised face, however many handlers share  *)
(* the buffer and the table and whatever fragments arrive.                  *)
THEOREM LowNeedsCommand == Spec => []LowIsCommanded
<1>1. IInv => LowIsCommanded
  BY DEF IInv
<1> QED
  BY <1>1, Invariant, PTL

(* A recognised face is announced only after one was recognised.            *)
THEOREM AnnouncesRecognition == Spec => []AnnouncedRecognition
<1>1. IInv => AnnouncedRecognition
  BY DEF IInv
<1> QED
  BY <1>1, Invariant, PTL

(* With whole frames the voice module is never sent a mixed frame.          *)
THEOREM AnnouncesMessages == Spec => []AnnouncementWasSent
<1>1. IInv => AnnouncementWasSent
  BY DEF IInv
<1> QED
  BY <1>1, Invariant, PTL

(* The pin of a lock falls only in a write of a handler whose own face was  *)
(* recognised.                                                              *)
THEOREM RecognitionBeforeOpen == Spec => OpenNeedsRecognition
<1> DEFINE Falls == \A p \in Pins : pin[p] = HIGH /\ pin'[p] = LOW =>
                       \E h \in Handlers :
                          /\ thread[h].pc \in {"wput", "rput"}
                          /\ Pin(thread[h].dev) = p
                          /\ ChecksFace(thread[h].dev) =>
                                Recognised(thread[h].face_result)
<1>1. IInv /\ [Next]_vars => [Falls]_vars
  <2> SUFFICES ASSUME IInv, Next, NEW p \in Pins, pin[p] = HIGH, pin'[p] = LOW
               PROVE  \E h \in Handlers :
                         /\ thread[h].pc \in {"wput", "rput"}
                         /\ Pin(thread[h].dev) = p
                         /\ ChecksFace(thread[h].dev) =>
                               Recognised(thread[h].face_result)
    OBVIOUS
  <2>1. \E h \in Handlers : DigitalWrite(h) /\ (At(h, "wput") \/ At(h, "rput"))
    <3>1. pin' # pin
      BY DEF LOW, HIGH
    <3> QED
      BY <3>1, Zenon
         DEF Next, outputs, Receive, ReceiveMessage, ReceiveAndStart,
             ReceiveNoThread, ReceiveDiscard, Send, HandlerStep, Enter,
             FindGdevice, FindNothing, LoadStatus, StoreStatus, StartScoring,
             FinishScoring, LoadRequested, WriteRequested, TagBuffer,
             StartAnnouncing, ShowOled, StoreLocked, LoadLocked, WriteLocked,
             LoadLevel, VoiceSet, PythonFault, Restart, Crash
  <2>2. PICK h \in Handlers :
               DigitalWrite(h) /\ (At(h, "wput") \/ At(h, "rput"))
    BY <2>1
  <2>3. gdevices[thread[h].dev].gpio_pin = p
    BY <2>2 DEF DigitalWrite, IInv, TypeOK, LOW, HIGH
  <2> QED
    BY <2>2, <2>3 DEF At, Pin, IInv, HandlerInv, FaceFirst
<1>2. Spec => [][Falls]_vars
  BY <1>1, Invariant, PTL DEF Spec
<1> QED
  BY <1>2 DEF OpenNeedsRecognition

(* The process dies only after a command for no device, of a tag that a     *)
(* handler finds where it reads its key, or of two threads in Python.       *)
THEOREM CrashesHaveCauses == Spec => CrashHasCause
<1> DEFINE Cause == up /\ ~up' => UnknownSent \/ TagInBuffer \/ TwoScoring
<1>1. IInv /\ [Next]_vars => [Cause]_vars
  <2> SUFFICES ASSUME IInv, Next, up, ~up'
               PROVE  UnknownSent \/ TagInBuffer \/ TwoScoring
    OBVIOUS
  <2>1. ASSUME NEW h \in Handlers, FindNothing(h)
        PROVE  UnknownSent \/ TagInBuffer
    <3>1. framed
      BY <2>1 DEF FindNothing, At, IInv, ThreadsAfterFrame
    <3>2. CASE KeySent(buffer.key)
      BY <2>1, <3>2 DEF FindNothing, KeySent, UnknownSent
    <3>3. CASE buffer.key \in {KEY_FACE_OK, KEY_FACE_FAIL}
      BY <3>3 DEF TagInBuffer
    <3> QED
      BY <3>1, <3>2, <3>3 DEF IInv, BufferWasSent
  <2>2. CASE PythonFault
    BY <2>2 DEF PythonFault, At, TwoScoring
  <2>3. CASE up' = up \/ up'
    BY <2>3
  <2> QED
    BY <2>1, <2>2, <2>3, Zenon
       DEF Next, process, Receive, ReceiveMessage, ReceiveAndStart,
           ReceiveNoThread, ReceiveDiscard, Send, HandlerStep, Enter,
           FindGdevice, LoadStatus, StoreStatus, StartScoring, FinishScoring,
           LoadRequested, WriteRequested, TagBuffer, StartAnnouncing, ShowOled,
           StoreLocked, LoadLocked, WriteLocked, LoadLevel, VoiceSet, Restart
<1>2. Spec => [][Cause]_vars
  BY <1>1, Invariant, PTL DEF Spec
<1> QED
  BY <1>2 DEF CrashHasCause

(* A handler that has yet to close its lock stays so until the write that   *)
(* ends it, unless the process dies.                                        *)
LEMMA CloserStays ==
    ASSUME TypeOK, Next, ~Crash, NEW d \in Devices, NEW h \in Closers(d)
    PROVE  h \in Closers(d)' \/ WriteLocked(h)
<1> USE DEF TypeOK
<1>0. /\ h \in Handlers /\ thread[h].dev = d
      /\ ChecksFace(d) /\ Recognised(thread[h].face_result)
      /\ thread[h].pc \in {"tag", "voice", "oled", "relock", "rload", "rput"}
  BY DEF Closers, Closes
<1>1. ASSUME /\ thread'[h].dev = thread[h].dev
             /\ thread'[h].face_result = thread[h].face_result
             /\ thread'[h].pc \in {"tag", "voice", "oled", "relock", "rload", "rput"}
      PROVE  h \in Closers(d)'
  BY <1>0, <1>1 DEF Closers, Closes, ChecksFace
<1>2. CASE thread'[h] = thread[h]
  BY <1>0, <1>1, <1>2
<1>3. ASSUME HandlerStep(h) PROVE h \in Closers(d)' \/ WriteLocked(h)
  <2>1. CASE TagBuffer(h)
    <3>1. thread'[h] = [thread[h] EXCEPT !.pc = "voice"]
      BY <1>0, <2>1 DEF TagBuffer, Goto
    <3> QED
      BY <1>0, <1>1, <3>1 DEF Thread
  <2>2. CASE StartAnnouncing(h)
    <3>1. PICK b : thread'[h] = [thread[h] EXCEPT !.pc = "oled", !.smoke_status = b]
      BY <1>0, <2>2 DEF StartAnnouncing
    <3> QED
      BY <1>0, <1>1, <3>1 DEF Thread
  <2>3. CASE ShowOled(h)
    <3>1. thread'[h] = [thread[h] EXCEPT !.pc = "relock"]
      BY <1>0, <2>3 DEF ShowOled, Goto
    <3> QED
      BY <1>0, <1>1, <3>1 DEF Thread
  <2>4. CASE StoreLocked(h)
    <3>1. thread'[h] = [thread[h] EXCEPT !.pc = "rload"]
      BY <1>0, <2>4 DEF StoreLocked, Goto
    <3> QED
      BY <1>0, <1>1, <3>1 DEF Thread
  <2>5. CASE LoadLocked(h)
    <3>1. thread'[h] = [thread[h] EXCEPT !.pc = "rput",
                                         !.reg = gpio_status[thread[h].dev]]
      BY <1>0, <2>5 DEF LoadLocked, LoadLevel
    <3> QED
      BY <1>0, <1>1, <3>1 DEF Thread
  <2> QED
    BY <1>0, <1>3, <2>1, <2>2, <2>3, <2>4, <2>5
       DEF HandlerStep, At, Enter, FindGdevice, FindNothing, LoadStatus,
           StoreStatus, StartScoring, FinishScoring, LoadRequested,
           WriteRequested, LoadLevel
<1>4. ASSUME NEW g \in Handlers, g # h, HandlerStep(g)
      PROVE  thread'[h] = thread[h]
  BY <1>0, <1>4 DEF HandlerStep, Goto, Exit, Enter, FindGdevice,
        FindNothing, LoadStatus, StoreStatus, StartScoring, FinishScoring,
        LoadRequested, WriteRequested, TagBuffer, StartAnnouncing,
        ShowOled, StoreLocked, LoadLocked, WriteLocked, LoadLevel
<1>5. ASSUME NEW g \in Handlers, ReceiveAndStart(g)
      PROVE  thread'[h] = thread[h]
  BY <1>0, <1>5 DEF ReceiveAndStart
<1> QED
  BY <1>2, <1>3, <1>4, <1>5, Zenon
     DEF Next, Receive, ReceiveNoThread, ReceiveDiscard, Send, VoiceSet,
         PythonFault, Restart

(* The last handler that would close an open lock does not leave it open,   *)
(* unless the process dies or a later request has overwritten the field.    *)
THEOREM LockKeepsCloser == Spec => OpenLockKeepsCloser
<1> DEFINE Kept ==
      \A d \in Devices :
          /\ ChecksFace(d) /\ pin[Pin(d)] = LOW
          /\ Closers(d) # {} /\ Closers(d)' = {}
          => \/ pin'[Pin(d)] = HIGH
             \/ ~up'
             \/ \E h \in Closers(d) : thread[h].pc = "rput" /\ thread[h].reg = LOW
<1>1. IInv /\ [Next]_vars => [Kept]_vars
  <2> SUFFICES ASSUME IInv, Next, NEW d \in Devices,
                      Closers(d) # {}, Closers(d)' = {}
               PROVE  \/ pin'[Pin(d)] = HIGH
                      \/ ~up'
                      \/ \E h \in Closers(d) :
                            thread[h].pc = "rput" /\ thread[h].reg = LOW
    OBVIOUS
  <2>1. CASE Crash
    BY <2>1 DEF Crash
  <2>2. CASE ~Crash
    <3>1. PICK h \in Closers(d) : TRUE
      OBVIOUS
    <3>2. WriteLocked(h)
      BY <2>2, <3>1, CloserStays DEF IInv
    <3>3. /\ thread[h].pc = "rput" /\ thread[h].dev = d
          /\ thread[h].reg \in Levels
      BY <3>1, <3>2 DEF WriteLocked, At, Closers, Closes, IInv, TypeOK, Thread
    <3>4. pin'[Pin(d)] = thread[h].reg
      <4>1. Pin(d) \in Pins
        BY DEF Pin, Pins
      <4> QED
        BY <3>2, <3>3, <4>1 DEF WriteLocked, DigitalWrite, Pin, IInv, TypeOK
    <3> QED
      BY <3>1, <3>3, <3>4 DEF Levels
  <2> QED
    BY <2>1, <2>2
<1>2. Spec => [][Kept]_vars
  BY <1>1, Invariant, PTL DEF Spec
<1> QED
  BY <1>2 DEF OpenLockKeepsCloser

-----------------------------------------------------------------------------
(* Commands for devices that need no face.  CrashHasCause names what kills  *)
(* the process; here, that none of it comes about from such commands alone. *)

(* Where the handler of a command that needs no face can be.                *)
PlainLocations == {"idle", "entry", "find", "load", "store", "wload", "wput",
                   "voice", "oled"}

(* As long as only such commands were sent, the buffer holds the key of one *)
(* of them and no tag, and no handler is on the way to Python.              *)
PlainInv ==
    OnlyPlainSent =>
        /\ up
        /\ framed => KeySent(buffer.key)
        /\ \A h \in Handlers :
              /\ thread[h].pc \in PlainLocations
              /\ HasDevice(h) => ~ChecksFace(thread[h].dev)

(* If only such commands were sent now, it was so before.                   *)
LEMMA PlainBefore ==
    ASSUME TypeOK, [Next]_vars, OnlyPlainSent'
    PROVE  OnlyPlainSent
BY HistoryGrows DEF OnlyPlainSent

(* A key that was sent then names a device without a face check.            *)
LEMMA PlainKey ==
    ASSUME OnlyPlainSent, NEW k, KeySent(k)
    PROVE  /\ find_gdevice_by_key(k) # NULL
           /\ ~ChecksFace(find_gdevice_by_key(k))
BY DEF OnlyPlainSent, KeySent

(* What a message copied into the buffer leaves there is a key that was     *)
(* sent: a message too short to carry one is not let through at first.      *)
LEMMA CopyKeepsKey ==
    ASSUME TypeOK, QueueWasSent, framed => KeySent(buffer.key),
           ReceiveMessage, Accepts(Head(queue)),
           buffer' = CopyInto(buffer, Head(queue))
    PROVE  KeySent(buffer.key)'
<1> DEFINE m == Head(queue)
<1>1. queue # <<>> /\ sent' = sent
  BY DEF ReceiveMessage
<1>2. m \in Message /\ \E j \in DOMAIN sent : sent[j] = m
  BY <1>1, HeadWasSent
<1>3. m.len >= 3 => KeySent(m.key)
  BY <1>2 DEF KeySent
<1>4. buffer'.key = IF m.len >= 3 THEN m.key ELSE buffer.key
  BY DEF CopyInto
<1>5. framed \/ m.len >= 3
  BY DEF Accepts, FrameLen
<1> QED
  BY <1>1, <1>3, <1>4, <1>5 DEF KeySent

(* A handler's step, as long as only such commands were sent.               *)
LEMMA PlainHandlerStep ==
    ASSUME IInv, PlainInv, OnlyPlainSent, NEW h \in Handlers, HandlerStep(h)
    PROVE  /\ up' /\ UNCHANGED <<sent, framed, buffer>>
           /\ thread'[h].pc \in PlainLocations
           /\ HasDevice(h)' => ~ChecksFace(thread'[h].dev)
           /\ \A g \in Handlers \ {h} : thread'[g] = thread[g]
<1> DEFINE Plain == /\ up' /\ UNCHANGED <<sent, framed, buffer>>
                    /\ thread'[h].pc \in PlainLocations
                    /\ HasDevice(h)' => ~ChecksFace(thread'[h].dev)
                    /\ \A g \in Handlers \ {h} : thread'[g] = thread[g]
<1>1. /\ up /\ thread[h].pc \in PlainLocations
      /\ HasDevice(h) => ~ChecksFace(thread[h].dev)
      /\ thread \in [Handlers -> Thread]
  BY DEF PlainInv, IInv, TypeOK
<1>2. thread[h].pc # "idle" => KeySent(buffer.key)
  BY DEF PlainInv, IInv, ThreadsAfterFrame
<1>3. ASSUME thread[h].pc \in {"load", "store", "wload", "wput", "voice", "oled"},
             UNCHANGED <<up, sent, framed, buffer>>,
             NEW loc \in PlainLocations, NEW r,
             thread' = [thread EXCEPT ![h] = r],
             r.pc = loc, r.dev = thread[h].dev
      PROVE  Plain
  BY <1>1, <1>3 DEF HasDevice, ChecksFace
<1>4. ASSUME UNCHANGED <<up, sent, framed, buffer>>, Exit(h)
      PROVE  Plain
  BY <1>1, <1>4 DEF Exit, NoThread, HasDevice, PlainLocations
<1>5. CASE Enter(h)
  <2>1. CASE Exit(h)
    BY <1>4, <1>5, <2>1 DEF Enter, process, mq, memory
  <2>2. CASE Goto(h, "find")
    BY <1>1, <1>5, <2>2 DEF Enter, process, mq, memory, Goto, HasDevice,
          PlainLocations, Thread
  <2> QED
    BY <1>5, <2>1, <2>2 DEF Enter
<1>6. CASE FindGdevice(h)
  <2> DEFINE d == find_gdevice_by_key(buffer.key)
  <2>1. ~ChecksFace(d)
    BY <1>2, <1>6, PlainKey DEF FindGdevice, At
  <2>2. thread' = [thread EXCEPT ![h] = [@ EXCEPT !.pc = "load", !.dev = d]]
    BY <1>6 DEF FindGdevice
  <2> HIDE DEF d
  <2>3. /\ thread'[h].pc = "load" /\ thread'[h].dev = d
        /\ \A g \in Handlers \ {h} : thread'[g] = thread[g]
    BY <1>1, <2>2 DEF Thread
  <2> QED
    BY <1>1, <1>6, <2>1, <2>3 DEF FindGdevice, process, mq, memory,
          PlainLocations, ChecksFace
<1>7. ~FindNothing(h)
  BY <1>2, PlainKey DEF FindNothing, At
<1>8. CASE LoadStatus(h)
  <2>1. [thread[h] EXCEPT !.pc = "store", !.reg = Level(buffer.st)].pc = "store"
        /\ [thread[h] EXCEPT !.pc = "store", !.reg = Level(buffer.st)].dev = thread[h].dev
    BY <1>1 DEF Thread
  <2> QED
    BY <1>3, <1>8, <2>1 DEF LoadStatus, At, process, mq, memory, PlainLocations
<1>9. CASE StoreStatus(h)
  <2>1. [thread[h] EXCEPT !.pc = "wload"].pc = "wload"
        /\ [thread[h] EXCEPT !.pc = "wload"].dev = thread[h].dev
    BY <1>1 DEF Thread
  <2>2. ~ChecksFace(thread[h].dev)
    BY <1>1, <1>9 DEF StoreStatus, At, HasDevice
  <2> QED
    BY <1>3, <1>9, <2>1, <2>2 DEF StoreStatus, At, Goto, process, mq, PlainLocations
<1>10. CASE LoadRequested(h)
  <2> DEFINE r == [thread[h] EXCEPT !.pc = "wput", !.reg = gpio_status[thread[h].dev]]
  <2>1. r.pc = "wput" /\ r.dev = thread[h].dev
    BY <1>1 DEF Thread
  <2>2. thread' = [thread EXCEPT ![h] = r]
    BY <1>10 DEF LoadRequested, LoadLevel
  <2> QED
    BY <1>3, <1>10, <2>1, <2>2 DEF LoadRequested, LoadLevel, At, process, mq,
          memory, PlainLocations
<1>11. CASE WriteRequested(h)
  <2>1. [thread[h] EXCEPT !.pc = "voice"].pc = "voice"
        /\ [thread[h] EXCEPT !.pc = "voice"].dev = thread[h].dev
    BY <1>1 DEF Thread
  <2>2. ~ChecksFace(thread[h].dev)
    BY <1>1, <1>11 DEF WriteRequested, At, HasDevice
  <2> QED
    BY <1>3, <1>11, <2>1, <2>2 DEF WriteRequested, At, Goto, process, mq,
          memory, PlainLocations
<1>12. CASE StartAnnouncing(h)
  <2>1. PICK b : thread' = [thread EXCEPT
                               ![h] = [@ EXCEPT !.pc = "oled", !.smoke_status = b]]
    BY <1>12 DEF StartAnnouncing
  <2> DEFINE r == [thread[h] EXCEPT !.pc = "oled", !.smoke_status = b]
  <2>2. r.pc = "oled" /\ r.dev = thread[h].dev
    BY <1>1 DEF Thread
  <2>3. thread' = [thread EXCEPT ![h] = r]
    BY <2>1
  <2> QED
    BY <1>3, <1>12, <2>2, <2>3 DEF StartAnnouncing, At, process, mq, memory,
          PlainLocations
<1>13. CASE ShowOled(h)
  <2>1. ~ChecksFace(thread[h].dev)
    BY <1>1, <1>13 DEF ShowOled, At, HasDevice
  <2> QED
    BY <1>4, <1>13, <2>1 DEF ShowOled, process, mq, memory
<1>14. thread[h].pc \in {"entry", "find", "load", "store", "wload", "wput", "voice", "oled"}
  BY <1>1 DEF PlainLocations, HandlerStep, At, Enter, FindGdevice, FindNothing,
        LoadStatus, StoreStatus, StartScoring, FinishScoring, LoadRequested,
        WriteRequested, TagBuffer, StartAnnouncing, ShowOled, StoreLocked,
        LoadLocked, WriteLocked, LoadLevel
<1> QED
  BY <1>5, <1>6, <1>7, <1>8, <1>9, <1>10, <1>11, <1>12, <1>13, <1>14
     DEF HandlerStep, At, StartScoring, FinishScoring, TagBuffer, StoreLocked,
         LoadLocked, WriteLocked, LoadLevel

(* Every step keeps it.                                                     *)
LEMMA StepPlainInv == IInv /\ PlainInv /\ [Next]_vars => PlainInv'
<1> SUFFICES ASSUME IInv, PlainInv, [Next]_vars, OnlyPlainSent'
             PROVE  /\ up'
                    /\ framed' => KeySent(buffer.key)'
                    /\ \A h \in Handlers :
                          /\ thread'[h].pc \in PlainLocations
                          /\ HasDevice(h)' => ~ChecksFace(thread'[h].dev)
  BY DEF PlainInv, ChecksFace
<1>1. OnlyPlainSent
  BY PlainBefore DEF IInv
<1>2. /\ up
      /\ framed => KeySent(buffer.key)
      /\ \A h \in Handlers : /\ thread[h].pc \in PlainLocations
                             /\ HasDevice(h) => ~ChecksFace(thread[h].dev)
  BY <1>1 DEF PlainInv
<1>3. KeySent(buffer.key) => KeySent(buffer.key)' \/ buffer' # buffer
  BY HistoryGrows DEF IInv
<1>4. CASE \/ \E m \in Commands : Send(m)
           \/ VoiceSet
           \/ UNCHANGED vars
  <2>1. UNCHANGED <<up, framed, buffer, thread>>
    BY <1>4, Zenon DEF Send, VoiceSet, vars, process, memory
  <2> QED
    BY <1>2, <1>3, <2>1 DEF HasDevice
<1>5. ASSUME NEW h \in Handlers, ReceiveAndStart(h)
      PROVE  /\ up' /\ KeySent(buffer.key)'
             /\ \A g \in Handlers : thread'[g] \in {thread[g], [NoThread EXCEPT !.pc = "entry"]}
  <2>1. KeySent(buffer.key)'
    BY <1>2, <1>5, CopyKeepsKey DEF IInv, ReceiveAndStart
  <2> QED
    BY <1>2, <1>5, <2>1 DEF IInv, TypeOK, ReceiveAndStart, ReceiveMessage,
          process
<1>6. CASE \E h \in Handlers : ReceiveAndStart(h)
  <2>1. [NoThread EXCEPT !.pc = "entry"].pc = "entry"
    BY DEF NoThread
  <2> QED
    BY <1>2, <1>5, <1>6, <2>1 DEF HasDevice, PlainLocations
<1>7. CASE ReceiveNoThread
  <2>1. KeySent(buffer.key)'
    BY <1>2, <1>7, CopyKeepsKey DEF IInv, ReceiveNoThread
  <2> QED
    BY <1>2, <1>7, <2>1 DEF ReceiveNoThread, ReceiveMessage, process, HasDevice
<1>8. CASE ReceiveDiscard
  BY <1>2, <1>3, <1>8 DEF ReceiveDiscard, ReceiveMessage, process, HasDevice
<1>9. CASE \E h \in Handlers : HandlerStep(h)
  <2>1. PICK h \in Handlers : HandlerStep(h)
    BY <1>9
  <2>2. /\ up' /\ UNCHANGED <<sent, framed, buffer>>
        /\ thread'[h].pc \in PlainLocations
        /\ HasDevice(h)' => ~ChecksFace(thread'[h].dev)
        /\ \A g \in Handlers \ {h} : thread'[g] = thread[g]
    BY <1>1, <2>1, PlainHandlerStep
  <2> QED
    BY <1>2, <1>3, <2>2 DEF HasDevice
<1>10. ~PythonFault
  BY <1>2 DEF PythonFault, At, PlainLocations
<1>11. ~Restart
  BY <1>2 DEF Restart
<1> QED
  BY <1>4, <1>6, <1>7, <1>8, <1>9, <1>10, <1>11 DEF Next, Receive

(* Commands for configured devices that need no face never kill the         *)
(* process, whatever the fragments and the interleaving of the handlers.    *)
THEOREM PlainCommandsAreSafe == Spec => []PlainCommandsKeepRunning
<1>1. Init => PlainInv
  BY DEF Init, PlainInv, PlainLocations, HasDevice, NoThread
<1>2. Spec => []PlainInv
  BY <1>1, StepPlainInv, Invariant, PTL DEF Spec
<1>3. PlainInv => PlainCommandsKeepRunning
  BY DEF PlainInv, PlainCommandsKeepRunning
<1> QED
  BY <1>2, <1>3, PTL

=============================================================================
