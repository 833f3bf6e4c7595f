------------------------------ MODULE VoiceLink ------------------------------
(***************************************************************************)
(* The bytes between the voice module and a command: voice_get of           *)
(* src/src/voice_interface.c reads the serial line in pieces of any size    *)
(* into a buffer it never clears, and receive_get of                        *)
(* src/src/receive_interface.c receives into another that it never clears.  *)
(* Module ReceiveInterface abstracts this link: there a message is a prefix *)
(* of a frame and one Boolean stands for receive_get's own buffer.  The     *)
(* properties below, and the mapping in module VoiceToReceive, say that the *)
(* bytes allow that.                                                        *)
(***************************************************************************)
EXTENDS Frame

CONSTANTS
    Spoken,       \* the <<key, status>> pairs the voice module can send;
                  \*   the byte 0xAA, which begins a frame, is in none
    MaxFrames,    \* bound: frames the voice module sends in a behaviour
    QueueMax      \* attr.mq_maxmsg

ASSUME VoiceAssumption ==
    /\ Spoken \subseteq (Byte \ {170}) \X (Byte \ {170})
    /\ MaxFrames \in Nat
    /\ QueueMax \in Nat \ {0}

VARIABLES
    pieces,     \* the sizes in which this line hands over its bytes
    frames,     \* history: the pairs sent by the voice module, in order
    line,       \* bytes on the serial line, not yet read
    buffer,     \* voice_get's buffer
    queue,      \* the message queue
    received,   \* receive_get's own buffer, its first six bytes
    whole,      \* history: a message of six bytes was received
    shared,     \* receive_msg->buffer, its first six bytes
    handed      \* history: the pairs that handlers were started on

vars == <<pieces, frames, line, buffer, queue, received, whole, shared, handed>>

(* What one read() can return: with VMIN 0 whatever has arrived, up to six; *)
(* a line that is read only after each frame has arrived hands over frames. *)
WholeReads  == {6}
AnyReads    == 1 .. 6

Init ==
    /\ pieces \in {WholeReads, AnyReads}
    /\ frames = <<>>
    /\ line = <<>>
    /\ buffer = FrameOf(<<0, 0>>)
    /\ queue = <<>>
    /\ received = Cleared
    /\ whole = FALSE
    /\ shared = Cleared
    /\ handed = <<>>

Speak(p) ==
    /\ Len(frames) < MaxFrames
    /\ frames' = Append(frames, p)
    /\ line' = line \o FrameOf(p)
    /\ UNCHANGED <<pieces, buffer, queue, received, whole, shared, handed>>

(* Mutant: six bytes are sent, however few were read.                       *)
ReadAndSend_Six(n) ==
    /\ n <= Len(line)
    /\ line' = SubSeq(line, n + 1, Len(line))
    /\ buffer' = Overlay(buffer, SubSeq(line, 1, n))
    /\ IsFrame(buffer') => Len(queue) < QueueMax
    /\ queue' = IF IsFrame(buffer') THEN Append(queue, buffer') ELSE queue
    /\ UNCHANGED <<pieces, frames, received, whole, shared, handed>>

(* One turn of voice_get's loop: the read, the test, the send of len bytes. *)
(* mq_send waits for room in the queue; the wait is put before the read.    *)
ReadAndSend(n) ==
    /\ n <= Len(line)
    /\ line' = SubSeq(line, n + 1, Len(line))
    /\ buffer' = Overlay(buffer, SubSeq(line, 1, n))
    /\ IsFrame(buffer') => Len(queue) < QueueMax
    /\ queue' = IF IsFrame(buffer') THEN Append(queue, SubSeq(buffer', 1, n))
                                    ELSE queue
    /\ UNCHANGED <<pieces, frames, received, whole, shared, handed>>

(* Mutant: the copy ends before the status.                                 *)
CopyInto_NoStatus(b, m) == Overlay(b, IF Len(m) > 3 THEN SubSeq(m, 1, 3) ELSE m)

CopyInto(b, m) == Overlay(b, m)      \* memcpy of receive_len bytes

(* One turn of receive_get's loop.                                          *)
Receive ==
    /\ queue # <<>>
    /\ queue' = Tail(queue)
    /\ LET m == Head(queue)
       IN  /\ received' = Overlay(received, m)
           /\ whole' = (whole \/ Len(m) = 6)
           /\ IF IsFrame(received')
              THEN /\ shared' = CopyInto(shared, m)
                   /\ handed' = Append(handed, <<shared'[3], shared'[4]>>)
              ELSE UNCHANGED <<shared, handed>>
    /\ UNCHANGED <<pieces, frames, line, buffer>>

Next ==
    \/ \E p \in Spoken : Speak(p)
    \/ \E n \in pieces : ReadAndSend(n)
    \/ Receive

Spec == Init /\ [][Next]_vars

FairSpec ==
    /\ Spec
    /\ WF_vars(\E n \in pieces : ReadAndSend(n))
    /\ WF_vars(Receive)

-----------------------------------------------------------------------------
TypeOK ==
    /\ pieces \in {WholeReads, AnyReads}
    /\ frames \in Seq(Spoken)
    /\ line \in Seq(Byte)
    /\ \A b \in {buffer, received, shared} : Len(b) = 6 /\ b \in Seq(Byte)
    /\ queue \in Seq(Seq(Byte)) /\ Len(queue) <= QueueMax
    /\ whole \in BOOLEAN
    /\ handed \in Seq(Byte \X Byte)

PairsSpoken == {frames[i] : i \in DOMAIN frames}

(* However the line cuts the stream, a message is a prefix of a frame that  *)
(* the voice module sent: a key it carries was spoken, and a status it      *)
(* carries belongs to that key.  The stale bytes of voice_get's buffer let  *)
(* a cut frame through the test, but never get into a message.  (The        *)
(* commands of the voice module do not use the byte 0xAA themselves.)       *)
MessagesArePrefixes ==
    \A i \in DOMAIN queue :
        LET m == queue[i]
        IN  Len(m) >= 3 => \E p \in PairsSpoken : m = SubSeq(FrameOf(p), 1, Len(m))

(* receive_get's own buffer passes the frame test exactly when it has ever  *)
(* received a message of six bytes: the Boolean of module ReceiveInterface. *)
FramedIsWhole == IsFrame(received) <=> whole

(* Every whole message that is received is handed over as it is, whatever   *)
(* cut messages left in the three buffers before: the link heals.           *)
WholeMessageHeals ==
    [][\/ queue = <<>>
       \/ queue' # Tail(queue)
       \/ Len(Head(queue)) < 6
       \/ /\ Len(handed') = Len(handed) + 1
          /\ handed'[Len(handed')] = <<Head(queue)[3], Head(queue)[4]>>]_vars

(* The key a handler finds was spoken, or no key had ever arrived.          *)
HandedKeysSpoken ==
    \A i \in DOMAIN handed : handed[i][1] \in {p[1] : p \in PairsSpoken}

-----------------------------------------------------------------------------
(* With whole reads the link is a reliable first-in first-out channel; the  *)
(* mapping leaves the channel alone when the line cuts its frames.          *)
Pending ==
    LET inQueue == [i \in DOMAIN queue |-> <<queue[i][3], queue[i][4]>>]
        onLine  == [i \in 1 .. Len(line) \div 6 |->
                       <<line[6 * i - 3], line[6 * i - 2]>>]
    IN  inQueue \o onLine

IfWhole(s) == IF pieces = WholeReads THEN s ELSE <<>>

Channel == INSTANCE Fifo WITH Values <- Spoken, MaxSends <- MaxFrames,
                              sent      <- IfWhole(frames),
                              pending   <- IfWhole(Pending),
                              delivered <- IfWhole(handed)
ReliableChannel == Channel!FairSpec
=============================================================================
