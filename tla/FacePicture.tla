------------------------------ MODULE FacePicture ------------------------------
(***************************************************************************)
(* face_score of src/src/face.c, from the snapshot to the picture that the  *)
(* recognition service gets to see.  Every call has wget write the same     *)
(* file, and src/src/face.py opens that file later; handlers call it        *)
(* whenever a command for the lock arrives.  Module ReceiveInterface has    *)
(* the outcome, any score, as one step.                                     *)
(***************************************************************************)
CONSTANTS
    Handlers,     \* bound: the handlers of a behaviour, each calls it once
    Missing,      \* no picture file
    Nothing       \* a file without a picture

VARIABLES
    pc,         \* where each call is
    picture,    \* FACE_FILE: the call whose wget wrote the picture in it
    scored,     \* history: the picture each call had scored
    fetched,    \* history: the calls whose wget ran
    before      \* history: the calls that were over when a call began

vars == <<pc, picture, scored, fetched, before>>

TypeOK ==
    /\ pc \in [Handlers -> {"idle", "fetch", "copy", "access", "read", "end"}]
    /\ picture \in Handlers \cup {Missing, Nothing}
    /\ scored \in [Handlers -> Handlers \cup {Missing, Nothing}]
    /\ fetched \subseteq Handlers
    /\ before \in [Handlers -> SUBSET Handlers]

(* A file of an earlier process may exist; what is in it is Nothing here,   *)
(* like any other picture no call of this process has written.              *)
Init ==
    /\ pc = [h \in Handlers |-> "idle"]
    /\ picture \in {Missing, Nothing}
    /\ scored = [h \in Handlers |-> Missing]
    /\ fetched = {}
    /\ before = [h \in Handlers |-> {}]

At(h, loc)   == pc[h] = loc
Goto(h, loc) == pc' = [pc EXCEPT ![h] = loc]

Begin(h) ==
    /\ At(h, "idle")
    /\ Goto(h, "fetch")
    /\ before' = [before EXCEPT ![h] = {g \in Handlers : At(g, "end")}]
    /\ UNCHANGED <<picture, scored, fetched>>

(* Mutant: a wget that keeps the file until it has another picture.         *)
WgetOpens_Keep(h) ==
    /\ At(h, "fetch")
    /\ fetched' = fetched \cup {h}
    /\ Goto(h, "copy")
    /\ UNCHANGED <<picture, scored, before>>

(* wget -O truncates the file first.                                        *)
WgetOpens(h) ==
    /\ At(h, "fetch")
    /\ picture' = Nothing
    /\ fetched' = fetched \cup {h}
    /\ Goto(h, "copy")
    /\ UNCHANGED <<scored, before>>

(* system() could not start it; its result is not looked at.                *)
SystemFails(h) ==
    /\ At(h, "fetch")
    /\ Goto(h, "access")
    /\ UNCHANGED <<picture, scored, fetched, before>>

(* wget writes the picture it was sent, or ends without one.                *)
WgetEnds(h) ==
    /\ At(h, "copy")
    /\ picture' \in {picture, h}
    /\ Goto(h, "access")
    /\ UNCHANGED <<scored, fetched, before>>

(* access(FACE_FILE): without a file the score is 0.                        *)
Access(h) ==
    /\ At(h, "access")
    /\ Goto(h, IF picture = Missing THEN "end" ELSE "read")
    /\ UNCHANGED <<picture, scored, fetched, before>>

(* alibaba_face opens the file and sends what is in it to the service.      *)
ReadPicture(h) ==
    /\ At(h, "read")
    /\ scored' = [scored EXCEPT ![h] = picture]
    /\ Goto(h, "end")
    /\ UNCHANGED <<picture, fetched, before>>

Next ==
    \E h \in Handlers :
        \/ Begin(h)
        \/ WgetOpens(h) \/ SystemFails(h) \/ WgetEnds(h)
        \/ Access(h) \/ ReadPicture(h)

Spec == Init /\ [][Next]_vars

-----------------------------------------------------------------------------
(* No face is recognised on an old picture: the picture that is scored for  *)
(* a call whose wget ran was written by a wget of its own or of a call that *)
(* overlapped it, though all use one file, a wget may bring nothing, and    *)
(* calls begin and end in any order.                                        *)
ScoredPictureIsRecent ==
    \A h \in fetched : scored[h] \in Handlers => scored[h] \notin before[h]
=============================================================================
