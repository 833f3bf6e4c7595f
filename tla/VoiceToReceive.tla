---------------------------- MODULE VoiceToReceive ----------------------------
(***************************************************************************)
(* How the bytes of VoiceLink are the messages of ReceiveInterface: the     *)
(* voice link with a history of what voice_get has sent, and its mapping to *)
(* the command path.  No handler is in the picture, so that the mapping is  *)
(* about the queue, the frame test of receive_get and the memcpy into       *)
(* receive_msg->buffer.                                                     *)
(***************************************************************************)
EXTENDS VoiceLink

VARIABLE queued      \* history: every message put in the queue, in order

SentNow == queued' = IF Len(queue') > Len(queue)
                     THEN Append(queued, queue'[Len(queue')]) ELSE queued

InitQ == Init /\ queued = <<>>
NextQ == Next /\ SentNow
SpecQ == InitQ /\ [][NextQ]_<<vars, queued>>

FairSpecQ ==
    /\ SpecQ
    /\ WF_vars(\E n \in pieces : ReadAndSend(n))
    /\ WF_vars(Receive)

(* A message by its length, key and status, the last two if it has them.    *)
MessageOf(m) == [len |-> Len(m),
                 key |-> IF Len(m) >= 3 THEN m[3] ELSE 0,
                 st  |-> IF Len(m) >= 4 THEN m[4] ELSE 0]

MessagesOf(s) == [i \in DOMAIN s |-> MessageOf(s[i])]

(* What the command path can get: frames of the voice module, whole or cut. *)
CutFrames == {MessageOf(SubSeq(FrameOf(p), 1, n)) : p \in Spoken, n \in 1 .. 6}

Path == INSTANCE ReceiveInterface WITH
            gdevices    <- <<>>,
            Handlers    <- {},
            Commands    <- CutFrames,
            FaceScores  <- {},
            MaxSends    <- 6 * MaxFrames,
            MaxRestarts <- 0,
            Paced       <- FALSE,
            queue       <- MessagesOf(queue),
            sent        <- MessagesOf(queued),
            framed      <- whole,
            buffer      <- [key |-> shared[3], st |-> shared[4]],
            up          <- TRUE,
            restarts    <- 0,
            gpio_status <- <<>>,
            pin         <- <<>>,
            thread      <- <<>>,
            set_threads <- 0,
            spoken      <- [key |-> 0, st |-> 0],
            screen      <- [fire |-> FALSE, dev |-> 0, level |-> 1],
            recognised  <- FALSE

(* However the line is cut, what voice_get and receive_get do with bytes is *)
(* what ReceiveInterface does with messages: only cut or whole frames are   *)
(* sent, a message is let through if a whole one has come or it is one      *)
(* itself, and it changes the key and the status of the shared buffer just  *)
(* as far as it reaches.                                                    *)
BytesAreMessages == Path!Spec
===============================================================================
