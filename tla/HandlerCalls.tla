----------------------------- MODULE HandlerCalls -----------------------------
(***************************************************************************)
(* The three calls of receive_thread_handler that use something every       *)
(* handler shares: the picture file, the serial port, the display buffer.   *)
(* They share nothing with each other, so a behaviour is one of the first,  *)
(* the second or the third: the choice is made at the start.                *)
(***************************************************************************)
EXTENDS Naturals

CONSTANTS
    Handlers,     \* bound: the handlers of a behaviour
    Getter,       \* the thread voice_get
    Missing,      \* no picture file
    Nothing,      \* no picture in the file; a text that no handler shows
    MaxFailures   \* bound: times the port does not open

ASSUME CallsAssumption ==
    /\ Handlers \cap {Getter, Missing, Nothing} = {}
    /\ Missing # Nothing
    /\ MaxFailures \in Nat

VARIABLES
    call,                                               \* the call under study
    facePc, picture, scored, fetched, before,           \* FacePicture
    port, serial_fd, result, opened, failures, written, \* SerialPort
    oledPc, disp, panel, alone                          \* OledBuffer

Face  == INSTANCE FacePicture WITH pc <- facePc
Voice == INSTANCE SerialPort WITH Announcing <- Handlers
Oled  == INSTANCE OledBuffer WITH pc <- oledPc, Hello <- Nothing

faceVars  == <<facePc, picture, scored, fetched, before>>
voiceVars == <<port, serial_fd, result, opened, failures, written>>
oledVars  == <<oledPc, disp, panel, alone>>
vars      == <<call, faceVars, voiceVars, oledVars>>

Init ==
    /\ call \in {"face_score", "voice_set", "myoled_show"}
    /\ Face!Init /\ Voice!Init /\ Oled!Init

Next ==
    /\ UNCHANGED call
    /\ \/ call = "face_score"  /\ Face!Next  /\ UNCHANGED <<voiceVars, oledVars>>
       \/ call = "voice_set"   /\ Voice!Next /\ UNCHANGED <<faceVars, oledVars>>
       \/ call = "myoled_show" /\ Oled!Next  /\ UNCHANGED <<faceVars, voiceVars>>

Spec == Init /\ [][Next]_vars

TypeOK == Face!TypeOK /\ Voice!TypeOK /\ Oled!TypeOK

(* The properties of the three modules, stated there.                       *)
ScoredPictureIsRecent == Face!ScoredPictureIsRecent
FramesReachPort       == Voice!FramesReachPort
NoNeedlessOpen        == Voice!NoNeedlessOpen
PanelSettles          == Oled!PanelSettles
LoneShowIsExact       == Oled!LoneShowIsExact
===============================================================================
