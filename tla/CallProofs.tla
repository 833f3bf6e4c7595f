------------------------------- MODULE CallProofs -------------------------------
(***************************************************************************)
(* Proofs about the three calls of module HandlerCalls, for every number of *)
(* handlers.  Each call has an inductive invariant of its own; a step of    *)
(* another call leaves its variables alone.                                 *)
(***************************************************************************)
EXTENDS HandlerCalls, TLAPS

-----------------------------------------------------------------------------
(* face_score and its picture file.                                         *)

(* A picture that could still be scored for a call whose wget ran is not of *)
(* a call that was over before: wget emptied the file, and a call that is   *)
(* over does not write.                                                     *)
FaceInv ==
    /\ Face!TypeOK
    /\ \A h \in Handlers : \A g \in before[h] : facePc[g] = "end"
    /\ \A h \in Handlers :
          /\ facePc[h] \in {"idle", "fetch"} => h \notin fetched
          /\ facePc[h] # "end" => scored[h] = Missing
          /\ h \in fetched /\ facePc[h] # "end" /\ picture \in Handlers
                => picture \notin before[h]
          /\ h \in fetched /\ scored[h] \in Handlers => scored[h] \notin before[h]

LEMMA FaceStart == Face!Init => FaceInv
BY CallsAssumption DEF Face!Init, FaceInv, Face!TypeOK

LEMMA FaceStep == FaceInv /\ Face!Next => FaceInv'
<1> SUFFICES ASSUME FaceInv, NEW h \in Handlers,
                    \/ Face!Begin(h) \/ Face!WgetOpens(h) \/ Face!SystemFails(h)
                    \/ Face!WgetEnds(h) \/ Face!Access(h) \/ Face!ReadPicture(h)
             PROVE  FaceInv'
  BY DEF Face!Next
<1> USE CallsAssumption DEF FaceInv, Face!TypeOK, Face!At, Face!Goto
<1>1. CASE Face!Begin(h)
  BY <1>1 DEF Face!Begin
<1>2. CASE Face!WgetOpens(h)
  BY <1>2 DEF Face!WgetOpens
<1>3. CASE Face!SystemFails(h)
  BY <1>3 DEF Face!SystemFails
<1>4. CASE Face!WgetEnds(h)
  BY <1>4 DEF Face!WgetEnds
<1>5. CASE Face!Access(h)
  BY <1>5 DEF Face!Access
<1>6. CASE Face!ReadPicture(h)
  BY <1>6 DEF Face!ReadPicture
<1> QED
  BY <1>1, <1>2, <1>3, <1>4, <1>5, <1>6

LEMMA FaceStutter == FaceInv /\ UNCHANGED faceVars => FaceInv'
BY DEF FaceInv, Face!TypeOK, faceVars

-----------------------------------------------------------------------------
(* voice_set, voice_get and the serial port.                                *)

(* As long as no attempt has failed, a port that was opened stays in the    *)
(* shared variable, and no thread carries the -1 of an unopened one.        *)
PortInv ==
    /\ Voice!TypeOK
    /\ failures = 0 =>
          /\ opened > 0 => serial_fd > 0
          /\ \A u \in Voice!Users :
                /\ port[u] \in {"return", "store", "recheck", "write"} => opened > 0
                /\ port[u] = "store" => result[u] > 0
    /\ Voice!FramesReachPort

LEMMA PortStart == Voice!Init => PortInv
BY CallsAssumption
DEF Voice!Init, PortInv, Voice!TypeOK, Voice!FramesReachPort, Voice!Users,
    Voice!PortAt

LEMMA PortStep == PortInv /\ Voice!Next => PortInv'
<1> SUFFICES ASSUME PortInv, NEW u \in Voice!Users,
                    Voice!StartThread(u) \/ Voice!ThreadStep(u)
             PROVE  PortInv'
  BY DEF Voice!Next
<1> USE CallsAssumption
    DEF PortInv, Voice!TypeOK, Voice!FramesReachPort, Voice!Users,
        Voice!PortAt, Voice!PortGoto
<1>1. CASE Voice!StartThread(u)
  BY <1>1 DEF Voice!StartThread
<1>2. CASE Voice!CheckPort(u)
  BY <1>2 DEF Voice!CheckPort
<1>3. CASE Voice!OpenPort(u)
  BY <1>3 DEF Voice!OpenPort
<1>4. CASE Voice!OpenPortFails(u)
  BY <1>4 DEF Voice!OpenPortFails
<1>5. CASE Voice!ReturnPort(u)
  BY <1>5 DEF Voice!ReturnPort
<1>6. CASE Voice!StorePort(u)
  BY <1>6 DEF Voice!StorePort
<1>7. CASE Voice!RecheckPort(u)
  BY <1>7 DEF Voice!RecheckPort
<1>8. CASE Voice!UsePort(u)
  BY <1>8 DEF Voice!UsePort
<1> QED
  BY <1>1, <1>2, <1>3, <1>4, <1>5, <1>6, <1>7, <1>8 DEF Voice!ThreadStep

LEMMA PortStutter == PortInv /\ UNCHANGED voiceVars => PortInv'
BY DEF PortInv, Voice!TypeOK, Voice!FramesReachPort, Voice!PortAt, voiceVars

-----------------------------------------------------------------------------
(* myoled_show and the display buffer.                                      *)

(* A show that is alone has drawn exactly what it should have by now, and a *)
(* part that is blank will be drawn by some show that is still running.     *)
OledInv ==
    /\ Oled!TypeOK
    /\ \A h \in alone :
          /\ oledPc[h] # "clear"
          /\ h \in Oled!Showing => Oled!Showing = {h}
          /\ oledPc[h] = "draw"  => disp[1] = {} /\ disp[2] = {}
          /\ oledPc[h] = "draw2" => disp[1] = {h} /\ disp[2] = {}
          /\ oledPc[h] = "send"  => disp[1] = {h} /\ disp[2] = {h}
    /\ disp[1] = {} => \E h \in Handlers : oledPc[h] = "draw"
    /\ disp[2] = {} => \E h \in Handlers : oledPc[h] \in {"draw", "draw2"}
    /\ Oled!Showing = {} => panel = disp

LEMMA OledStart == Oled!Init => OledInv
BY DEF Oled!Init, OledInv, Oled!TypeOK, Oled!Showing, Oled!Greeting,
       Oled!Pictures, Oled!Parts

LEMMA OledStep == OledInv /\ Oled!Next => OledInv'
<1> SUFFICES ASSUME OledInv, NEW h \in Handlers,
                    \/ Oled!Clear(h) \/ Oled!Draw(h) \/ Oled!Draw2(h)
                    \/ Oled!SendBuffer(h)
             PROVE  OledInv'
  BY DEF Oled!Next
<1> USE DEF OledInv, Oled!TypeOK, Oled!Showing, Oled!Pictures, Oled!Parts,
            Oled!At, Oled!Goto
<1>1. CASE Oled!Clear(h)
  BY <1>1 DEF Oled!Clear, Oled!Blank
<1>2. CASE Oled!Draw(h)
  BY <1>2 DEF Oled!Draw, Oled!DrawPart
<1>3. CASE Oled!Draw2(h)
  BY <1>3 DEF Oled!Draw2, Oled!DrawPart
<1>4. CASE Oled!SendBuffer(h)
  BY <1>4 DEF Oled!SendBuffer
<1> QED
  BY <1>1, <1>2, <1>3, <1>4

LEMMA OledStutter == OledInv /\ UNCHANGED oledVars => OledInv'
BY DEF OledInv, Oled!TypeOK, Oled!Showing, oledVars

-----------------------------------------------------------------------------
CallsInv == FaceInv /\ PortInv /\ OledInv

LEMMA CallsInvariant == Spec => []CallsInv
<1>1. Init => CallsInv
  BY FaceStart, PortStart, OledStart DEF Init, CallsInv
<1>2. CallsInv /\ [Next]_vars => CallsInv'
  <2> SUFFICES ASSUME CallsInv, [Next]_vars PROVE CallsInv'
    OBVIOUS
  <2>1. FaceInv'
    BY FaceStep, FaceStutter DEF CallsInv, Next, vars
  <2>2. PortInv'
    BY PortStep, PortStutter DEF CallsInv, Next, vars
  <2>3. OledInv'
    BY OledStep, OledStutter DEF CallsInv, Next, vars
  <2> QED
    BY <2>1, <2>2, <2>3 DEF CallsInv
<1> QED
  BY <1>1, <1>2, PTL DEF Spec

(* The variables of the three calls keep their types.                       *)
THEOREM TypeCorrect == Spec => []TypeOK
<1>1. CallsInv => TypeOK
  BY DEF CallsInv, FaceInv, PortInv, OledInv, TypeOK
<1> QED
  BY <1>1, CallsInvariant, PTL

(* For any number of handlers that call face_score at any time: no face is  *)
(* recognised on a picture taken before the request, if wget ran at all.    *)
THEOREM NoOldPicture == Spec => []ScoredPictureIsRecent
<1>1. CallsInv => ScoredPictureIsRecent
  BY DEF CallsInv, FaceInv, Face!TypeOK, ScoredPictureIsRecent,
         Face!ScoredPictureIsRecent
<1> QED
  BY <1>1, CallsInvariant, PTL

(* For any number of voice_set threads that open the port at the same time: *)
(* an announcement is lost only if the port once failed to open.            *)
THEOREM AnnouncementsAreWritten == Spec => []FramesReachPort
<1>1. CallsInv => FramesReachPort
  BY DEF CallsInv, PortInv, FramesReachPort
<1> QED
  BY <1>1, CallsInvariant, PTL

(* An open port is not opened again by a thread that looks, unless an       *)
(* attempt failed.                                                          *)
THEOREM PortStaysOpen == Spec => NoNeedlessOpen
<1>1. CallsInv /\ [Next]_vars =>
         [\A u \in Voice!Users : port[u] = "check" /\ port'[u] = "open"
                                 => opened = 0 \/ failures > 0]_voiceVars
  <2> SUFFICES ASSUME CallsInv, Voice!Next, NEW u \in Voice!Users,
                      port[u] = "check", port'[u] = "open"
               PROVE  opened = 0 \/ failures > 0
    BY DEF Next, vars
  <2>1. Voice!CheckPort(u)
    BY DEF CallsInv, PortInv, Voice!TypeOK, Voice!Next, Voice!ThreadStep,
           Voice!StartThread, Voice!CheckPort, Voice!OpenPort,
           Voice!OpenPortFails, Voice!ReturnPort, Voice!StorePort,
           Voice!RecheckPort, Voice!UsePort, Voice!PortAt, Voice!PortGoto
  <2> QED
    BY <2>1 DEF CallsInv, PortInv, Voice!TypeOK, Voice!CheckPort,
                Voice!PortAt, Voice!PortGoto
<1> QED
  BY <1>1, CallsInvariant, PTL DEF Spec, NoNeedlessOpen, Voice!NoNeedlessOpen,
                                   Voice!vars, voiceVars

(* Once no show is running the panel holds what the buffer holds, and no    *)
(* part of it is blank, however the shows were mixed.                       *)
THEOREM PanelIsWhole == Spec => []PanelSettles
<1>1. CallsInv => PanelSettles
  BY DEF CallsInv, OledInv, Oled!TypeOK, Oled!Pictures, Oled!Showing,
         Oled!Parts, PanelSettles, Oled!PanelSettles
<1> QED
  BY <1>1, CallsInvariant, PTL

(* A show that runs alone leaves exactly its own text.                      *)
THEOREM LoneShowWins == Spec => LoneShowIsExact
<1>1. CallsInv /\ [Next]_vars =>
         [\A h \in alone : oledPc[h] = "send" /\ oledPc'[h] = "end"
             => panel' = [p \in Oled!Parts |-> {h}]]_oledVars
  <2> SUFFICES ASSUME CallsInv, Oled!Next, NEW h \in alone,
                      oledPc[h] = "send", oledPc'[h] = "end"
               PROVE  panel' = [p \in Oled!Parts |-> {h}]
    BY DEF Next, vars
  <2> USE DEF CallsInv, OledInv, Oled!TypeOK, Oled!Pictures, Oled!Parts
  <2>1. Oled!SendBuffer(h)
    BY DEF Oled!Next, Oled!Clear, Oled!Draw, Oled!Draw2, Oled!DrawPart,
           Oled!SendBuffer, Oled!At, Oled!Goto
  <2> QED
    BY <2>1 DEF Oled!SendBuffer
<1> QED
  BY <1>1, CallsInvariant, PTL DEF Spec, LoneShowIsExact,
                                   Oled!LoneShowIsExact, Oled!vars, oledVars
================================================================================
