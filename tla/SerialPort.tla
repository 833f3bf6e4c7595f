------------------------------- MODULE SerialPort -------------------------------
(***************************************************************************)
(* The serial port of the voice module: voice_init, voice_set and the start *)
(* of voice_get in src/src/voice_interface.c.  The descriptor is one static *)
(* variable; each thread that finds it at -1 opens the port itself.  Module *)
(* ReceiveInterface has a whole voice_set as one step, VoiceLink has the    *)
(* loop of voice_get, Main has voice_init and voice_final of main().        *)
(***************************************************************************)
EXTENDS Naturals

CONSTANTS
    Announcing,   \* bound: the voice_set threads of a behaviour
    Getter,       \* the thread voice_get
    MaxFailures   \* bound: times the port does not open

Users == Announcing \cup {Getter}

VARIABLES
    port,       \* where each thread is
    serial_fd,  \* the variable serial_fd, 0 for its -1
    result,     \* what voice_init is about to return to each thread
    opened,     \* descriptors opened so far; main() alone closes one
    failures,   \* counter for the bound
    written     \* history: the threads whose frame reached the port

vars == <<port, serial_fd, result, opened, failures, written>>

TypeOK ==
    /\ port \in [Users -> {"none", "check", "open", "return", "store",
                           "recheck", "write", "end"}]
    /\ opened \in Nat
    /\ serial_fd \in 0 .. opened
    /\ result \in [Users -> 0 .. opened]
    /\ failures \in 0 .. MaxFailures
    /\ written \subseteq Announcing

(* main() has called voice_init, which opened the port or failed.           *)
Init ==
    /\ port = [u \in Users |-> "none"]
    /\ opened \in 0 .. 1
    /\ serial_fd = opened
    /\ result = [u \in Users |-> 0]
    /\ failures = 0
    /\ written = {}

PortAt(u, loc) == port[u] = loc
PortGoto(u, loc) == port' = [port EXCEPT ![u] = loc]

(* pthread_create.                                                          *)
StartThread(u) ==
    /\ PortAt(u, "none")
    /\ PortGoto(u, "check")
    /\ UNCHANGED <<serial_fd, result, opened, failures, written>>

(* Mutant: the port is opened for every announcement.                       *)
CheckPort_Never(u) ==
    /\ PortAt(u, "check")
    /\ PortGoto(u, "open")
    /\ UNCHANGED <<serial_fd, result, opened, failures, written>>

CheckPort(u) ==
    /\ PortAt(u, "check")
    /\ PortGoto(u, IF serial_fd = 0 THEN "open" ELSE "write")
    /\ UNCHANGED <<serial_fd, result, opened, failures, written>>

(* voice_init: myserialOpen's result goes into the shared variable.         *)
OpenPort(u) ==
    /\ PortAt(u, "open")
    /\ opened' = opened + 1
    /\ serial_fd' = opened'
    /\ PortGoto(u, "return")
    /\ UNCHANGED <<result, failures, written>>

OpenPortFails(u) ==
    /\ PortAt(u, "open")
    /\ failures < MaxFailures
    /\ failures' = failures + 1
    /\ serial_fd' = 0
    /\ PortGoto(u, "return")
    /\ UNCHANGED <<result, opened, written>>

(* Mutant: voice_init returns 0 for success, as init functions do.          *)
ReturnPort_Zero(u) ==
    /\ PortAt(u, "return")
    /\ result' = [result EXCEPT ![u] = 0]
    /\ PortGoto(u, "store")
    /\ UNCHANGED <<serial_fd, opened, failures, written>>

(* voice_init returns what the shared variable holds by then.               *)
ReturnPort(u) ==
    /\ PortAt(u, "return")
    /\ result' = [result EXCEPT ![u] = serial_fd]
    /\ PortGoto(u, "store")
    /\ UNCHANGED <<serial_fd, opened, failures, written>>

(* serial_fd = voice_init()                                                 *)
StorePort(u) ==
    /\ PortAt(u, "store")
    /\ serial_fd' = result[u]
    /\ PortGoto(u, "recheck")
    /\ UNCHANGED <<result, opened, failures, written>>

RecheckPort(u) ==
    /\ PortAt(u, "recheck")
    /\ PortGoto(u, IF serial_fd = 0 THEN "end" ELSE "write")
    /\ UNCHANGED <<serial_fd, result, opened, failures, written>>

(* voice_set writes its frame and ends; voice_get goes into its loop.       *)
UsePort(u) ==
    /\ PortAt(u, "write")
    /\ written' = IF u # Getter /\ serial_fd # 0 THEN written \cup {u} ELSE written
    /\ PortGoto(u, "end")
    /\ UNCHANGED <<serial_fd, result, opened, failures>>

ThreadStep(u) == CheckPort(u) \/ OpenPort(u) \/ OpenPortFails(u)
                 \/ ReturnPort(u) \/ StorePort(u) \/ RecheckPort(u) \/ UsePort(u)

Next == \E u \in Users : StartThread(u) \/ ThreadStep(u)

Spec == Init /\ [][Next]_vars

-----------------------------------------------------------------------------
(* An announcement is lost only if the port once failed to open: threads    *)
(* that open it at the same time, and write stale descriptors back into     *)
(* the shared variable, always leave an open one there.                     *)
FramesReachPort ==
    \A h \in Announcing : PortAt(h, "end") => h \in written \/ failures > 0

(* Descriptors are not leaked one per announcement: once the port has been  *)
(* opened and no attempt failed, no thread that looks opens it again.       *)
NoNeedlessOpen ==
    [][\A u \in Users :
          port[u] = "check" /\ port'[u] = "open" => opened = 0 \/ failures > 0]_vars
=============================================================================
