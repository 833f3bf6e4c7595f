------------------------- MODULE ReceiveProperties -------------------------
(***************************************************************************)
(* What the command path promises, in three groups: properties of every    *)
(* interleaving, properties that need commands to come one at a time       *)
(* (Paced), and statements of the repository's own comments that the code   *)
(* does not keep.                                                           *)
(***************************************************************************)
EXTENDS ReceiveInterface

KeySent(k)  == \E i \in DOMAIN sent : sent[i].len >= 3 /\ sent[i].key = k
ZeroSent    == \E i \in DOMAIN sent : sent[i].len >= 4 /\ sent[i].st = 0
WholeFrames == \A m \in Commands : m.len = FrameLen

Pin(d) == gdevices[d].gpio_pin

-----------------------------------------------------------------------------
(* Every interleaving, fragments and restarts included.                     *)

(* A pin is LOW (light on, beeper on, lock open) only if its device was     *)
(* named by some command, some command carried status 0 and, for a device   *)
(* that checks faces, some face was recognised: neither the shared buffer   *)
(* nor the shared gpio_status field produces a level out of thin air.       *)
LowIsCommanded ==
    \A p \in Pins : pin[p] = LOW =>
        \E d \in Devices : /\ Pin(d) = p
                           /\ KeySent(gdevices[d].key)
                           /\ ZeroSent
                           /\ ChecksFace(d) => recognised

(* The lock's pin falls only in a digitalWrite of a handler whose own       *)
(* face_score() was above 0.5, whatever the other handlers do meanwhile to  *)
(* the device, its field and the buffer.                                    *)
OpenNeedsRecognition ==
    [][\A p \in Pins : pin[p] = HIGH /\ pin'[p] = LOW =>
          \E h \in Handlers :
             /\ thread[h].pc \in {"wput", "rput"}
             /\ Pin(thread[h].dev) = p
             /\ ChecksFace(thread[h].dev) =>
                   Recognised(thread[h].face_result)]_vars

(* The voice module is told of a recognised face (0x47) only after one was  *)
(* recognised, unless a command carried that very key, though the byte      *)
(* travels through a buffer that every handler and receive_get may have     *)
(* overwritten since.                                                       *)
AnnouncedRecognition ==
    spoken.key = KEY_FACE_OK => recognised \/ KeySent(KEY_FACE_OK)

(* With whole frames, any other announcement is a command that was sent:    *)
(* the key and the status of two commands are never mixed in one frame.     *)
AnnouncementWasSent ==
    /\ WholeFrames
    /\ spoken # ZeroBuffer
    /\ spoken.key \notin {KEY_FACE_OK, KEY_FACE_FAIL}
    => \E i \in DOMAIN sent : sent[i].key = spoken.key /\ sent[i].st = spoken.st

(* The process dies of three things only: a command was sent whose key no   *)
(* device has (0x40 among them, when it arrives between a handler's two     *)
(* reads of the buffer), a handler finds the tag of another's recognition   *)
(* where it reads its key, or two threads are in the interpreter.           *)
UnknownSent ==
    \E i \in DOMAIN sent : /\ sent[i].len >= 3
                           /\ find_gdevice_by_key(sent[i].key) = NULL

TagInBuffer == buffer.key \in {KEY_FACE_OK, KEY_FACE_FAIL}

TwoScoring == \E g, h \in Handlers :
    g # h /\ thread[g].pc = "scoring" /\ thread[h].pc = "scoring"

CrashHasCause == [][up /\ ~up' => UnknownSent \/ TagInBuffer \/ TwoScoring]_vars

(* Whatever the fragments and however many handlers run at once, commands   *)
(* for configured devices that need no face never kill the process: the     *)
(* shared buffer then never holds a key that is no device's, between the    *)
(* two reads of a handler or at any other time, and Python is not entered.  *)
OnlyPlainSent ==
    \A i \in DOMAIN sent :
        sent[i].len >= 3 => LET d == find_gdevice_by_key(sent[i].key)
                            IN  d # NULL /\ ~ChecksFace(d)

PlainCommandsKeepRunning == OnlyPlainSent => up

(* The handlers that have yet to close the device d: each has opened it, or *)
(* is past the point where it could have.                                   *)
Closes(t, d) == /\ t.dev = d
                /\ ChecksFace(d) /\ Recognised(t.face_result)
                /\ t.pc \in {"tag", "voice", "oled", "relock", "rload", "rput"}

Closers(d) == {h \in Handlers : Closes(thread[h], d)}

(* A lock that is open is not left by the last handler that would close it, *)
(* unless that handler closes it now, the process dies, or the LOW of a     *)
(* later request has got into the field it applies.                         *)
OpenLockKeepsCloser ==
    [][\A d \in Devices :
          /\ ChecksFace(d) /\ pin[Pin(d)] = LOW
          /\ Closers(d) # {} /\ Closers(d)' = {}
          => \/ pin'[Pin(d)] = HIGH
             \/ ~up'
             \/ \E h \in Closers(d) : thread[h].pc = "rput" /\ thread[h].reg = LOW]_vars

(* Every handler thread ends: none waits for another, even when they all    *)
(* work on the same device and the same buffer.                             *)
HandlersEnd ==
    \A h \in Handlers : thread[h].pc # "idle" ~> thread[h].pc = "idle"

(* receive_get never leaves a command in the queue of a living process, so  *)
(* a producer blocked in mq_send is let go.                                 *)
QueueDrains == queue # <<>> ~> (queue = <<>> \/ ~up)

-----------------------------------------------------------------------------
(* Commands that come one at a time.                                        *)

(* A system given only configured keys and 0x40 does not die.               *)
KnownCommandsKeepRunning ==
    (\A i \in DOMAIN sent : \/ sent[i].key = KEY_IGNORED
                            \/ find_gdevice_by_key(sent[i].key) # NULL) => up

CommandsFor(d) == {i \in DOMAIN sent : find_gdevice_by_key(sent[i].key) = d}

(* The system at rest shows, on the pin of each device that needs no face,  *)
(* the level its last command asked for.  A handler reads key and status at *)
(* different times, through a buffer and a field it shares.                 *)
RestReflectsCommands ==
    Quiescent =>
        \A d \in Devices : \A i \in CommandsFor(d) :
            ~ChecksFace(d) /\ (\A j \in CommandsFor(d) : j <= i)
                => pin[Pin(d)] = Level(sent[i].st)

(* The system at rest has its lock closed: a recognised request opens it    *)
(* for three seconds, a rejected one not at all.                            *)
LockClosedAtRest ==
    Quiescent => \A d \in Devices : ChecksFace(d) => pin[Pin(d)] = HIGH

(* The OLED at rest tells the truth about a device that needs no face: the  *)
(* level it names is the level of the pin, and the fire warning stands      *)
(* exactly while the beeper was last switched on.                           *)
ScreenAtRest ==
    Quiescent /\ screen.dev # NULL /\ ~ChecksFace(screen.dev) =>
        /\ screen.level = pin[Pin(screen.dev)]
        /\ screen.fire <=> /\ gdevices[screen.dev].key = KEY_SMOKE
                           /\ pin[Pin(screen.dev)] = LOW

(* An opened lock is closed again.                                          *)
LockRecloses ==
    \A d \in Devices :
        ChecksFace(d) /\ pin[Pin(d)] = LOW ~> pin[Pin(d)] = HIGH

(* Given one command at a time, the threads together behave as Controller   *)
(* says: one pin changes for a command, the status read from the shared     *)
(* buffer is the command's, a refused face changes nothing, an opened lock  *)
(* is closed before the next command, and every command gets its answer.    *)
Answering == {"entry", "find", "load", "store", "face", "scoring", "wload",
              "wput"}

LastCommand == IF sent = <<>> THEN ZeroBuffer
               ELSE [key |-> sent[Len(sent)].key, st |-> sent[Len(sent)].st]

Phase ==
    IF ~up THEN "down"
    ELSE IF queue # <<>> \/ (\E h \in Handlers : thread[h].pc \in Answering)
         THEN "pending"
    ELSE IF \E d \in Devices : Closers(d) # {} THEN "closing" ELSE "idle"

AsOneCommand == INSTANCE Controller WITH phase <- Phase, command <- LastCommand

OneCommandAtATime == AsOneCommand!FairSpec

-----------------------------------------------------------------------------
(* What comments say and the code does not do.                              *)

(* inc/gdevice.h:14 says that a device with check_face_status 1 needs a     *)
(* face; here, its pin falls only when a handler applies its own recognised *)
(* request, never in the write that is to close the lock.                   *)
NoUnverifiedOpen ==
    [][\A p \in Pins : pin[p] = HIGH /\ pin'[p] = LOW =>
          \E h \in Handlers : /\ thread[h].pc = "wput"
                              /\ Pin(thread[h].dev) = p]_vars
=============================================================================
