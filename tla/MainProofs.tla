----------------------------- MODULE MainProofs -----------------------------
(***************************************************************************)
(* When main() may tear the system down, proved whatever fails to open and  *)
(* however the joins and the threads interleave.                            *)
(***************************************************************************)
EXTENDS Main, SequenceTheorems, TLAPS

Gone == {"detached", "ended_detached", "ended_joinable"}

Order == <<"receive", "smoke", "socket_control", "voice">>

(* The list is complete when main() walks it, and control_info lives until  *)
(* the walks are over.                                                      *)
Built ==
    /\ pc \notin {"start", "exited"} => control_list = Order
    /\ freed => pc \in {"return", "exited"}

(* A thread that was created is somewhere in its program.                   *)
InProgram == \A c \in Controls : state[c] # "none" => step[c] \in DOMAIN Program[c]

(* main() is past the join of those threads only that are gone.             *)
JoinedSoFar ==
    /\ pc = "join" => \A i \in 1 .. 4 : i < cur => state[Order[i]] \in Gone
    /\ PastJoins => \A c \in Controls : state[c] \in Gone

(* The smoke thread never ends, and has read control_info once it detached. *)
SmokeReadsFirst ==
    /\ state["smoke"] \notin {"ended_detached", "ended_joinable"}
    /\ state["smoke"] = "detached" => step["smoke"] > 1

IInv ==
    /\ TypeOK
    /\ Built
    /\ InProgram
    /\ JoinedSoFar
    /\ SmokeReadsFirst
    /\ SmokeReadsLiveInfo

-----------------------------------------------------------------------------
(* The new node is the head, and the list before is its tail.               *)
LEMMA AddedFirst ==
    ASSUME NEW c \in Controls, NEW list \in Seq(Controls),
           NEW longer \in Seq(Controls), Len(longer) = Len(list) + 1,
           longer[1] = c, \A i \in 1 .. Len(list) : longer[i + 1] = list[i]
    PROVE  add_interface_to_control_list(list, c) = longer
<1> DEFINE added == <<c>> \o list
<1>1. <<c>> \in Seq(Controls) /\ Len(<<c>>) = 1 /\ <<c>>[1] = c
  OBVIOUS
<1>2. /\ added \in Seq(Controls)
      /\ Len(added) = 1 + Len(list)
      /\ \A i \in 1 .. 1 + Len(list) :
             added[i] = IF i <= 1 THEN <<c>>[i] ELSE list[i - 1]
  BY <1>1, ConcatProperties
<1>3. Len(list) \in Nat
  OBVIOUS
<1>4. ASSUME NEW i \in 1 .. Len(longer) PROVE added[i] = longer[i]
  <2>1. CASE i = 1
    BY <2>1, <1>1, <1>2, <1>3
  <2>2. CASE i # 1
    <3>1. i - 1 \in 1 .. Len(list) /\ (i - 1) + 1 = i
      BY <2>2, <1>3
    <3> QED
      BY <3>1, <2>2, <1>2, <1>3
  <2> QED
    BY <2>1, <2>2
<1>5. added = longer
  BY <1>2, <1>3, <1>4, SeqEqual
<1> QED
  BY <1>5 DEF add_interface_to_control_list

(* The order in which main() walks the list is the reverse of the add_*.    *)
LEMMA ListOrder == ControlList = Order
<1> USE DEF Controls
<1>1. add_interface_to_control_list(<<>>, "voice")
      = <<"voice">>
  <2> DEFINE list == <<>>
             longer == <<"voice">>
  <2>1. list \in Seq(Controls) /\ longer \in Seq(Controls)
    OBVIOUS
  <2>2. "voice" \in Controls /\ longer[1] = "voice" /\ Len(longer) = Len(list) + 1
    OBVIOUS
  <2>3. \A i \in 1 .. Len(list) : longer[i + 1] = list[i]
    OBVIOUS
  <2> HIDE DEF list, longer
  <2>4. add_interface_to_control_list(list, "voice") = longer
    BY <2>1, <2>2, <2>3, AddedFirst
  <2> QED
    BY <2>4 DEF list, longer
<1>2. add_interface_to_control_list(<<"voice">>, "socket_control")
      = <<"socket_control", "voice">>
  <2> DEFINE list == <<"voice">>
             longer == <<"socket_control", "voice">>
  <2>1. list \in Seq(Controls) /\ longer \in Seq(Controls)
    OBVIOUS
  <2>2. "socket_control" \in Controls /\ longer[1] = "socket_control" /\ Len(longer) = Len(list) + 1
    OBVIOUS
  <2>3. \A i \in 1 .. Len(list) : longer[i + 1] = list[i]
    OBVIOUS
  <2> HIDE DEF list, longer
  <2>4. add_interface_to_control_list(list, "socket_control") = longer
    BY <2>1, <2>2, <2>3, AddedFirst
  <2> QED
    BY <2>4 DEF list, longer
<1>3. add_interface_to_control_list(<<"socket_control", "voice">>, "smoke")
      = <<"smoke", "socket_control", "voice">>
  <2> DEFINE list == <<"socket_control", "voice">>
             longer == <<"smoke", "socket_control", "voice">>
  <2>1. list \in Seq(Controls) /\ longer \in Seq(Controls)
    OBVIOUS
  <2>2. "smoke" \in Controls /\ longer[1] = "smoke" /\ Len(longer) = Len(list) + 1
    OBVIOUS
  <2>3. \A i \in 1 .. Len(list) : longer[i + 1] = list[i]
    OBVIOUS
  <2> HIDE DEF list, longer
  <2>4. add_interface_to_control_list(list, "smoke") = longer
    BY <2>1, <2>2, <2>3, AddedFirst
  <2> QED
    BY <2>4 DEF list, longer
<1>4. add_interface_to_control_list(<<"smoke", "socket_control", "voice">>, "receive")
      = <<"receive", "smoke", "socket_control", "voice">>
  <2> DEFINE list == <<"smoke", "socket_control", "voice">>
             longer == <<"receive", "smoke", "socket_control", "voice">>
  <2>1. list \in Seq(Controls) /\ longer \in Seq(Controls)
    OBVIOUS
  <2>2. "receive" \in Controls /\ longer[1] = "receive" /\ Len(longer) = Len(list) + 1
    OBVIOUS
  <2>3. \A i \in 1 .. Len(list) : longer[i + 1] = list[i]
    OBVIOUS
  <2> HIDE DEF list, longer
  <2>4. add_interface_to_control_list(list, "receive") = longer
    BY <2>1, <2>2, <2>3, AddedFirst
  <2> QED
    BY <2>4 DEF list, longer
<1> QED
  BY <1>1, <1>2, <1>3, <1>4 DEF ControlList, Order

(* The initial state satisfies the invariant.                               *)
LEMMA InitIInv == Init => IInv
<1> SUFFICES ASSUME Init PROVE IInv
  OBVIOUS
<1>1. TypeOK
  <2>1. control_list \in Seq(Controls) /\ Len(control_list) <= 4
    BY DEF Init
  <2>2. open \subseteq Resources /\ stale \subseteq Controls
    BY DEF Init
  <2>3. state \in [Controls -> States] /\ step \in [Controls -> 0 .. 4]
    BY DEF Init, States
  <2>4. cur \in 0 .. 5
    BY DEF Init
  <2>5. freed \in BOOLEAN /\ pc = "start"
    BY DEF Init
  <2> QED
    BY <2>1, <2>2, <2>3, <2>4, <2>5 DEF TypeOK
<1>2. Built /\ JoinedSoFar
  BY DEF Init, Built, JoinedSoFar, PastJoins
<1>3. InProgram
  BY DEF Init, InProgram
<1>4. SmokeReadsFirst /\ SmokeReadsLiveInfo
  BY DEF Init, SmokeReadsFirst, SmokeReadsLiveInfo, Controls
<1> QED
  BY <1>1, <1>2, <1>3, <1>4 DEF IInv

(* A step of main() keeps the invariant.                                    *)
LEMMA MainKeepsIInv ==
    ASSUME IInv, MainStep
    PROVE  IInv'
<1> USE DEF IInv, TypeOK, Built, InProgram, JoinedSoFar, SmokeReadsFirst,
            SmokeReadsLiveInfo, PastJoins, Controls, States, Running, Gone,
            Node, AtNode, PastAll, Opens, Fails, Resources, Resource, Order
<1>1. CASE Start
  <2>1. Order \in Seq(Controls) /\ Len(Order) = 4
    BY DEF Order
  <2>2. control_list' = Order \/ UNCHANGED control_list
    BY <1>1, ListOrder DEF Start
  <2>3. Built'
    BY <1>1, ListOrder DEF Start
  <2>4. control_list' \in Seq(Controls) /\ Len(control_list') <= 4
    <3>1. CASE control_list' = Order
      <4>1. control_list' \in Seq(Controls) /\ Len(control_list') = 4
        BY <2>1, <3>1, Zenon
      <4> QED
        BY <4>1
    <3>2. CASE UNCHANGED control_list
      BY <3>2
    <3> QED
      BY <2>2, <3>1, <3>2
  <2>5. TypeOK'
    BY <1>1, <2>4 DEF Start
  <2>6. InProgram' /\ SmokeReadsFirst' /\ SmokeReadsLiveInfo'
    BY <1>1 DEF Start
  <2>7. JoinedSoFar'
    BY <1>1 DEF Start
  <2> QED
    BY <2>3, <2>5, <2>6, <2>7
<1>2. CASE InitNode
  BY <1>2 DEF InitNode
<1>3. CASE CreateNode
  BY <1>3 DEF CreateNode, Program
<1>4. CASE JoinNode
  BY <1>4 DEF JoinNode
<1>5. CASE FinalNode
  BY <1>5 DEF FinalNode
<1>6. CASE EndOfLoop
  <2>1. control_list = Order
    BY <1>6 DEF EndOfLoop
  <2>2. Len(control_list) = 4
    <3>1. Len(Order) = 4
      OBVIOUS
    <3> QED
      BY <2>1, <3>1, Zenon
  <2>3. cur = Len(control_list) + 1
    BY <1>6 DEF EndOfLoop
  <2>4. cur = 5
    BY <2>2, <2>3
  <2>5. JoinedSoFar'
    BY <1>6, <2>1, <2>4 DEF EndOfLoop
  <2>6. TypeOK' /\ Built'
    BY <1>6, <2>1, <2>4 DEF EndOfLoop
  <2>7. InProgram' /\ SmokeReadsFirst' /\ SmokeReadsLiveInfo'
    BY <1>6 DEF EndOfLoop
  <2> QED
    BY <2>5, <2>6, <2>7
<1>7. CASE Destroy
  BY <1>7 DEF Destroy
<1>8. CASE Free
  BY <1>8 DEF Free
<1>9. CASE Return
  BY <1>9 DEF Return
<1> QED
  BY <1>1, <1>2, <1>3, <1>4, <1>5, <1>6, <1>7, <1>8, <1>9 DEF MainStep

(* So does a step of a thread.                                              *)
LEMMA ThreadKeepsIInv ==
    ASSUME IInv, NEW c \in Controls,
           ThreadStep(c) \/ LoopRead(c) \/ AcceptFails \/ SocketExit
    PROVE  IInv'
<1> USE DEF IInv, TypeOK, Built, InProgram, JoinedSoFar, SmokeReadsFirst,
            SmokeReadsLiveInfo, PastJoins, Controls, States, Running, Gone,
            Opens, Fails, Resources, Resource, At, Program
<1>1. CASE Detach(c)
  BY <1>1, SMTT(30) DEF Detach, Advance
<1>2. CASE ReadMqd(c)
  <2>1. TypeOK' /\ Built'
    BY <1>2, SMTT(30) DEF ReadMqd, ReadInfo, Advance, End, Ended
  <2>2. InProgram'
    BY <1>2, SMTT(30) DEF ReadMqd, ReadInfo, Advance, End, Ended
  <2>3. JoinedSoFar'
    <3>1. \A d \in Controls : state[d] \in Gone => state'[d] \in Gone
      BY <1>2 DEF ReadMqd, ReadInfo, Advance, End, Ended
    <3>2. pc' = pc /\ cur' = cur /\ \A i \in 1 .. 4 : Order[i] \in Controls
      BY <1>2 DEF ReadMqd, Order
    <3> QED
      BY <3>1, <3>2
  <2>4. SmokeReadsFirst' /\ SmokeReadsLiveInfo'
    BY <1>2 DEF ReadMqd, ReadInfo, Advance, End, Ended
  <2> QED
    BY <2>1, <2>2, <2>3, <2>4
<1>3. CASE OpenAgain(c)
  <2>1. TypeOK' /\ Built'
    BY <1>3, SMTT(30) DEF OpenAgain, Advance, End, Ended
  <2>2. InProgram'
    BY <1>3 DEF OpenAgain, Advance, End, Ended
  <2>3. JoinedSoFar'
    <3>1. \A d \in Controls : state[d] \in Gone => state'[d] \in Gone
      BY <1>3 DEF OpenAgain, Advance, End, Ended
    <3>2. pc' = pc /\ cur' = cur /\ \A i \in 1 .. 4 : Order[i] \in Controls
      BY <1>3 DEF OpenAgain, Order
    <3> QED
      BY <3>1, <3>2
  <2>4. SmokeReadsFirst' /\ SmokeReadsLiveInfo'
    BY <1>3 DEF OpenAgain, Advance, End, Ended
  <2> QED
    BY <2>1, <2>2, <2>3, <2>4
<1>4. CASE LoopRead(c)
  BY <1>4 DEF LoopRead, ReadInfo
<1>5. CASE AcceptFails
  BY <1>5 DEF AcceptFails, End, Ended
<1>6. CASE SocketExit
  BY <1>6 DEF SocketExit
<1> QED
  BY <1>1, <1>2, <1>3, <1>4, <1>5, <1>6 DEF ThreadStep

(* The invariant holds in every reachable state.                            *)
LEMMA Invariant == Spec => []IInv
<1>1. IInv /\ [Next]_vars => IInv'
  <2> SUFFICES ASSUME IInv, [Next]_vars PROVE IInv'
    OBVIOUS
  <2>1. CASE MainStep
    BY <2>1, MainKeepsIInv
  <2>2. CASE SocketExit \/ AcceptFails
    BY <2>2, ThreadKeepsIInv DEF Controls
  <2>3. CASE \E c \in Controls : ThreadStep(c) \/ LoopRead(c)
    BY <2>3, ThreadKeepsIInv
  <2>4. CASE UNCHANGED vars
    BY <2>4 DEF vars, IInv, TypeOK, Built, InProgram, JoinedSoFar, PastJoins,
                SmokeReadsFirst, SmokeReadsLiveInfo
  <2> QED
    BY <2>1, <2>2, <2>3, <2>4 DEF Next
<1> QED
  BY InitIInv, <1>1, PTL DEF Spec

(* The variables of the life cycle have their types, whatever fails.        *)
THEOREM TypeCorrect == Spec => []TypeOK
BY Invariant, PTL DEF IInv

(* No tear-down while a thread that main() could still wait for runs.       *)
THEOREM TearDownNeedsEveryThread == Spec => []FinalNeedsEveryThread
<1>1. IInv => FinalNeedsEveryThread
  BY DEF IInv, JoinedSoFar, FinalNeedsEveryThread, Gone
<1> QED
  BY Invariant, <1>1, PTL

(* The smoke thread never reads control_info after it was freed.            *)
THEOREM SmokeIsSafe == Spec => []SmokeReadsLiveInfo
BY Invariant, PTL DEF IInv
=============================================================================
