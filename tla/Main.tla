-------------------------------- MODULE Main --------------------------------
(***************************************************************************)
(* The life of the process: src/src/main.c with the first steps of the four *)
(* `get` threads it starts.  main() joins the threads, and each thread      *)
(* detaches itself: which of the two comes first decides whether main()     *)
(* waits, and so whether it goes on to tear the system down.                *)
(***************************************************************************)
EXTENDS Naturals, Sequences

CONSTANT MayFail    \* resources whose opening can fail

Controls == {"receive", "smoke", "socket_control", "voice"}

(* What a control's init opens; smoke's only sets a pin mode.               *)
Resource == [receive        |-> "display",    \* the table, OLED and Python
             smoke          |-> "pin",
             socket_control |-> "server_fd",
             voice          |-> "serial_fd"]
Resources == {Resource[c] : c \in Controls} \cup {"gpio", "mqd"}

ASSUME MainAssumption == MayFail \subseteq Resources

VARIABLES
    pc,            \* where main() is
    cur,           \* its position in the control list
    control_list,  \* control_info->control_phead, head first
    open,          \* the resources that are open
    freed,         \* control_info was freed
    step,          \* each thread's position in its program, 0 before creation
    state,         \* of each thread, as pthread_join and pthread_detach see it
    stale          \* history: the threads that read control_info after free

vars == <<pc, cur, control_list, open, freed, step, state, stale>>

(* Mutant: smoke_get detaches itself first, like receive_get.               *)
Program_SmokeDetachesFirst ==
    [receive        |-> <<"detach", "read", "loop">>,
     smoke          |-> <<"detach", "read", "loop">>,
     socket_control |-> <<"detach", "open", "loop">>,
     voice          |-> <<"open", "detach", "read", "loop">>]

(* What each get does before its loop that others can see: detaching        *)
(* itself, reading control_info->mqd, opening again what init left closed.  *)
Program ==
    [receive        |-> <<"detach", "read", "loop">>,
     smoke          |-> <<"read", "detach", "loop">>,
     socket_control |-> <<"detach", "open", "loop">>,
     voice          |-> <<"open", "detach", "read", "loop">>]

Running == {"joinable", "joined", "detached"}
States  == Running \cup {"none", "ended_joinable", "ended_detached"}

TypeOK ==
    /\ pc \in {"start", "init", "create", "join", "final", "destroy", "free",
               "return", "exited"}
    /\ control_list \in Seq(Controls) /\ Len(control_list) <= 4
    /\ cur \in 0 .. 5
    /\ open \subseteq Resources
    /\ freed \in BOOLEAN
    /\ step \in [Controls -> 0 .. 4]
    /\ state \in [Controls -> States]
    /\ stale \subseteq Controls

-----------------------------------------------------------------------------
Init ==
    /\ pc = "start"
    /\ cur = 0
    /\ control_list = <<>>
    /\ open = {}
    /\ freed = FALSE
    /\ step = [c \in Controls |-> 0]
    /\ state = [c \in Controls |-> "none"]
    /\ stale = {}

add_interface_to_control_list(list, c) == <<c>> \o list

(* The four add_* calls of main(), the first one innermost.                 *)
ControlList ==
    LET add(list, c) == add_interface_to_control_list(list, c)
    IN  add(add(add(add(<<>>, "voice"), "socket_control"), "smoke"), "receive")

(* wiringPiSetup and create_mqd; each failure is a return from main().      *)
Start ==
    /\ pc = "start"
    /\ \/ /\ pc' = "init"
          /\ open' = open \cup {"gpio", "mqd"}
          /\ control_list' = ControlList
          /\ cur' = 1
       \/ /\ MayFail \cap {"gpio", "mqd"} # {}
          /\ pc' = "exited"
          /\ UNCHANGED <<open, control_list, cur>>
    /\ UNCHANGED <<freed, step, state, stale>>

Node    == control_list[cur]
AtNode  == cur \in DOMAIN control_list
PastAll == cur = Len(control_list) + 1

Opens(r) == open' = open \cup {r}
Fails(r) == r \in MayFail /\ UNCHANGED open

(* control_pcur->init(), whose result is not looked at.                     *)
InitNode ==
    /\ pc = "init"
    /\ AtNode
    /\ \/ Opens(Resource[Node])
       \/ Fails(Resource[Node])
    /\ cur' = cur + 1
    /\ UNCHANGED <<pc, control_list, freed, step, state, stale>>

(* socket() itself failing ends the process, in init or in the thread.      *)
SocketExit ==
    /\ "server_fd" \in MayFail
    /\ "server_fd" \notin open
    /\ \/ pc = "init" /\ AtNode /\ Node = "socket_control"
       \/ /\ pc # "exited"
          /\ state["socket_control"] \in Running
          /\ Program["socket_control"][step["socket_control"]] = "open"
    /\ pc' = "exited"
    /\ UNCHANGED <<cur, control_list, open, freed, step, state, stale>>

CreateNode ==
    /\ pc = "create"
    /\ AtNode
    /\ step' = [step EXCEPT ![Node] = 1]
    /\ state' = [state EXCEPT ![Node] = "joinable"]
    /\ cur' = cur + 1
    /\ UNCHANGED <<pc, control_list, open, freed, stale>>

(* Mutant: a join that does not wait for its thread.                        *)
JoinNode_NoWait ==
    /\ pc = "join"
    /\ AtNode
    /\ cur' = cur + 1
    /\ UNCHANGED <<pc, control_list, open, freed, step, state, stale>>

(* pthread_join: an error for a detached thread, the end of a joinable one; *)
(* for a running joinable one it registers main() as the joiner.            *)
JoinNode ==
    /\ pc = "join"
    /\ AtNode
    /\ \/ /\ state[Node] \in {"detached", "ended_detached", "ended_joinable"}
          /\ cur' = cur + 1
          /\ UNCHANGED state
       \/ /\ state[Node] = "joinable"
          /\ state' = [state EXCEPT ![Node] = "joined"]
          /\ UNCHANGED cur
    /\ UNCHANGED <<pc, control_list, open, freed, step, stale>>

FinalNode ==
    /\ pc = "final"
    /\ AtNode
    /\ open' = open \ {Resource[Node]}
    /\ cur' = cur + 1
    /\ UNCHANGED <<pc, control_list, freed, step, state, stale>>

(* The end of a loop over the list.                                         *)
EndOfLoop ==
    /\ PastAll
    /\ \/ pc = "init"   /\ pc' = "create"
       \/ pc = "create" /\ pc' = "join"
       \/ pc = "join"   /\ pc' = "final"
       \/ pc = "final"  /\ pc' = "destroy"
    /\ cur' = 1
    /\ UNCHANGED <<control_list, open, freed, step, state, stale>>

(* destroy_mqd, free(control_info), return 0: with main() the process ends. *)
Destroy ==
    /\ pc = "destroy"
    /\ pc' = "free"
    /\ open' = open \ {"mqd"}
    /\ UNCHANGED <<cur, control_list, freed, step, state, stale>>

Free ==
    /\ pc = "free"
    /\ pc' = "return"
    /\ freed' = TRUE
    /\ UNCHANGED <<cur, control_list, open, step, state, stale>>

Return ==
    /\ pc = "return"
    /\ pc' = "exited"
    /\ UNCHANGED <<cur, control_list, open, freed, step, state, stale>>

-----------------------------------------------------------------------------
(* The threads, which run until the process ends.                           *)

At(c, op) ==
    /\ pc # "exited"
    /\ state[c] \in Running
    /\ Program[c][step[c]] = op

Advance(c) == step' = [step EXCEPT ![c] = @ + 1]

(* pthread_detach(pthread_self()) does nothing once main() is the joiner.   *)
Detach(c) ==
    /\ At(c, "detach")
    /\ Advance(c)
    /\ state' = [state EXCEPT ![c] = IF @ = "joinable" THEN "detached" ELSE @]
    /\ UNCHANGED <<pc, cur, control_list, open, freed, stale>>

ReadInfo(c) == stale' = IF freed THEN stale \cup {c} ELSE stale

Ended(s) == IF s = "detached" THEN "ended_detached" ELSE "ended_joinable"

End(c) == state' = [state EXCEPT ![c] = Ended(@)]

(* receive_get leaves if mq_getattr fails on the descriptor it read.        *)
ReadMqd(c) ==
    /\ At(c, "read")
    /\ ReadInfo(c)
    /\ IF c = "receive" /\ "mqd" \notin open
       THEN End(c) /\ UNCHANGED step
       ELSE Advance(c) /\ UNCHANGED state
    /\ UNCHANGED <<pc, cur, control_list, open, freed>>

(* Mutant: a thread that tries again even after it succeeded.               *)
OpenAgain_Forever(c) ==
    /\ At(c, "open")
    /\ Opens(Resource[c]) \/ Fails(Resource[c])
    /\ UNCHANGED <<pc, cur, control_list, freed, step, state, stale>>

(* A second try to open what init could not; failing again ends the thread. *)
OpenAgain(c) ==
    /\ At(c, "open")
    /\ \/ Opens(Resource[c]) /\ Advance(c) /\ UNCHANGED state
       \/ /\ Resource[c] \notin open
          /\ Fails(Resource[c])
          /\ End(c)
          /\ UNCHANGED step
    /\ UNCHANGED <<pc, cur, control_list, freed, stale>>

(* The socket thread reads control_info for every message, a handler of the *)
(* receive thread when it announces; the other loops do not read it again.  *)
LoopRead(c) ==
    /\ c \in {"receive", "socket_control"}
    /\ At(c, "loop")
    /\ ReadInfo(c)
    /\ UNCHANGED <<pc, cur, control_list, open, freed, step, state>>

(* accept() fails, at the latest on the server_fd that final has closed.    *)
AcceptFails ==
    /\ At("socket_control", "loop")
    /\ "server_fd" \in MayFail \/ "server_fd" \notin open
    /\ End("socket_control")
    /\ UNCHANGED <<pc, cur, control_list, open, freed, step, stale>>

MainStep ==
    \/ Start \/ InitNode \/ CreateNode \/ JoinNode \/ FinalNode
    \/ EndOfLoop \/ Destroy \/ Free \/ Return

ThreadStep(c) == Detach(c) \/ ReadMqd(c) \/ OpenAgain(c)

Next ==
    \/ MainStep
    \/ SocketExit
    \/ \E c \in Controls : ThreadStep(c) \/ LoopRead(c)
    \/ AcceptFails

(* The kernel runs main() and each thread.                                  *)
Spec == Init /\ [][Next]_vars
FairSpec ==
    /\ Spec
    /\ WF_vars(MainStep)
    /\ \A c \in Controls : WF_vars(ThreadStep(c))

-----------------------------------------------------------------------------
PastJoins == pc \in {"final", "destroy", "free", "return"}

(* main() tears the system down only when no join had to wait any more:     *)
(* each thread has ended or had detached itself before its join.  One       *)
(* thread whose join came first keeps the whole system up.                  *)
FinalNeedsEveryThread ==
    PastJoins => \A c \in Controls : state[c] \in {"detached", "ended_detached",
                                                   "ended_joinable"}

(* The smoke thread never reads control_info after it was freed: it reads   *)
(* before it detaches itself, so the join still waits for it.               *)
SmokeReadsLiveInfo == "smoke" \notin stale

(* Whatever fails to open and whoever wins the race of join and detach, the *)
(* process comes to rest: it ends, or each thread ends or listens.          *)
ThreadsSettle ==
    <>[](\/ pc = "exited"
         \/ \A c \in Controls : state[c] \in Running => At(c, "loop"))

(* main.c:65 says of the joins that they wait for the threads to end; here, *)
(* past the joins every thread has ended.                                   *)
JoinsWaitForEnd == PastJoins => \A c \in Controls : state[c] \notin Running
=============================================================================
