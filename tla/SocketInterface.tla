--------------------------- MODULE SocketInterface ---------------------------
(***************************************************************************)
(* Commands from the network: socket_control_get of                         *)
(* src/src/socket_interface.c, its clients, and the message queue.  The     *)
(* thread serves one connection at a time until recv() reports its end, and *)
(* never closes the descriptor that accept() gave it.                       *)
(***************************************************************************)
EXTENDS Frame

LOCAL INSTANCE SequencesExt

CONSTANTS
    MaxConnections, \* bound: the connections that clients make
    Commands,      \* the <<key, status>> pairs a client can send
    MaxFrames,     \* bound: frames the clients send, all together,
    MaxCutFrames,  \*   and when the network may cut them
    MaxFds,        \* descriptors left to the process for connections
    QueueMax,      \* attr.mq_maxmsg
    MaxFailures    \* bound: calls of mq_send that fail

ASSUME SocketAssumption ==
    /\ Commands \subseteq Byte \X Byte
    /\ MaxConnections \in Nat
    /\ MaxFrames \in Nat /\ MaxCutFrames \in Nat /\ MaxFds \in Nat /\ MaxFailures \in Nat
    /\ QueueMax \in Nat \ {0}

(* Connections are numbered in the order in which they are made.            *)
Connections == 1 .. MaxConnections
None == 0

VARIABLES
    whole,      \* the network delivers frames uncut (never changes)
    pc,         \* where socket_control_get is
    current,    \* the connection of connected_server_fd, None before one
    fds,        \* connected descriptors, none of which is ever closed
    buffer,     \* buffer
    n_read,     \* n_read
    queue,      \* the message queue, each message with its connection
    failures,   \* counter for the bound
    backlog,    \* connections waiting for accept(), the first one first
    peer,       \* what the client's end of each connection is
    stream,     \* bytes on the way to recv(), per connection
    written,    \* history: the pairs each client sent, in order
    forwarded   \* history: the messages mq_send took, per connection

vars == <<whole, pc, current, fds, buffer, n_read, queue, failures,
          backlog, peer, stream, written, forwarded>>
thread == <<whole, pc, current, fds, buffer, n_read, queue, failures,
            forwarded>>

Backlog == 1     \* listen(server_fd, 1); the kernel holds one more

TypeOK ==
    /\ whole \in BOOLEAN
    /\ pc \in {"accept", "recv", "send", "ended"}
    /\ current \in Connections \cup {None}
    /\ fds \in 0 .. MaxFds
    /\ buffer \in [1 .. 6 -> Byte] /\ n_read \in 0 .. 6
    /\ queue \in Seq(Seq(Byte)) /\ Len(queue) <= QueueMax
    /\ failures \in 0 .. MaxFailures
    /\ backlog \in Seq(Connections) /\ Len(backlog) <= Backlog + 1
    /\ peer \in [Connections -> {"none", "open", "closed", "vanished"}]
    /\ stream \in [Connections -> Seq(Byte)]
    /\ written \in [Connections -> Seq(Commands)]
    /\ forwarded \in [Connections -> Seq(Seq(Byte))]

Init ==
    /\ whole \in BOOLEAN
    /\ pc = "accept"
    /\ current = None
    /\ fds = 0
    /\ buffer = Cleared /\ n_read = 0
    /\ queue = <<>>
    /\ failures = 0
    /\ backlog = <<>>
    /\ peer = [c \in Connections |-> "none"]
    /\ stream = [c \in Connections |-> <<>>]
    /\ written = [c \in Connections |-> <<>>]
    /\ forwarded = [c \in Connections |-> <<>>]

-----------------------------------------------------------------------------
(* The clients and the network.                                             *)

Connect(c) ==
    /\ peer[c] = "none"
    /\ \A b \in 1 .. c - 1 : peer[b] # "none"
    /\ Len(backlog) <= Backlog
    /\ peer' = [peer EXCEPT ![c] = "open"]
    /\ backlog' = Append(backlog, c)
    /\ UNCHANGED <<thread, stream, written>>

FramesWritten == FoldFunction(LAMBDA w, n : Len(w) + n, 0, written)

Write(c, p) ==
    /\ peer[c] = "open"
    /\ FramesWritten < IF whole THEN MaxFrames ELSE MaxCutFrames
    /\ written' = [written EXCEPT ![c] = Append(@, p)]
    /\ stream' = [stream EXCEPT ![c] = @ \o FrameOf(p)]
    /\ UNCHANGED <<thread, backlog, peer>>

Close(c) ==
    /\ peer[c] = "open"
    /\ peer' = [peer EXCEPT ![c] = "closed"]
    /\ UNCHANGED <<thread, backlog, stream, written>>

(* The client disappears without a word, and bytes on the way with it.      *)
Vanish(c) ==
    /\ peer[c] = "open"
    /\ peer' = [peer EXCEPT ![c] = "vanished"]
    /\ \E n \in 0 .. Len(stream[c]) :
          /\ whole => n % 6 = 0
          /\ stream' = [stream EXCEPT ![c] = SubSeq(@, 1, n)]
    /\ UNCHANGED <<thread, backlog, written>>

-----------------------------------------------------------------------------
Accept ==
    /\ pc = "accept"
    /\ backlog # <<>>
    /\ fds < MaxFds
    /\ fds' = fds + 1
    /\ current' = Head(backlog)
    /\ backlog' = Tail(backlog)
    /\ pc' = "recv"
    /\ UNCHANGED <<whole, buffer, n_read, queue, failures, peer, stream, written,
                   forwarded>>

(* Without a descriptor left accept() fails and the thread returns.         *)
AcceptFails ==
    /\ pc = "accept"
    /\ backlog # <<>>
    /\ fds = MaxFds
    /\ pc' = "ended"
    /\ UNCHANGED <<whole, current, fds, buffer, n_read, queue, failures, backlog,
                   peer, stream, written, forwarded>>

(* What one recv() can return: whatever has arrived, up to six bytes.       *)
CanReturn(n) ==
    /\ n <= Len(stream[current])
    /\ whole => n = 6

RecvInto(b, n) ==
    /\ pc = "recv"
    /\ CanReturn(n)
    /\ n_read' = n
    /\ stream' = [stream EXCEPT ![current] = SubSeq(@, n + 1, Len(@))]
    /\ buffer' = Overlay(b, SubSeq(stream[current], 1, n))
    /\ pc' = IF IsFrame(buffer') THEN "send" ELSE "recv"
    /\ UNCHANGED <<whole, current, fds, queue, failures, backlog, peer, written,
                   forwarded>>

(* Mutants: no memset before recv(); a buffer that is one byte short.       *)
Recv_NoClear(n) == RecvInto(buffer, n)
Recv_FiveBytes(n) == n < 6 /\ RecvInto(Cleared, n)

(* memset, recv() and the frame test.                                       *)
Recv(n) == RecvInto(Cleared, n)

(* Mutants: only the end of the stream leaves the loop, not an error; the   *)
(* end of a connection ends the thread.                                     *)
RecvEnd_OnlyEof ==
    /\ pc = "recv"
    /\ stream[current] = <<>>
    /\ peer[current] = "closed"
    /\ buffer' = Cleared
    /\ n_read' = 0
    /\ pc' = "accept"
    /\ UNCHANGED <<whole, current, fds, queue, failures, backlog, peer, stream,
                   written, forwarded>>

RecvEnd_Returns ==
    /\ pc = "recv"
    /\ stream[current] = <<>>
    /\ peer[current] \in {"closed", "vanished"}
    /\ buffer' = Cleared
    /\ n_read' = 0
    /\ pc' = "ended"
    /\ UNCHANGED <<whole, current, fds, queue, failures, backlog, peer, stream,
                   written, forwarded>>

(* n_read <= 0: the client closed, or the three keepalive probes found that *)
(* it is gone.  The descriptor stays open.                                  *)
RecvEnd ==
    /\ pc = "recv"
    /\ stream[current] = <<>>
    /\ peer[current] \in {"closed", "vanished"}
    /\ buffer' = Cleared
    /\ n_read' = 0
    /\ pc' = "accept"
    /\ UNCHANGED <<whole, current, fds, queue, failures, backlog, peer, stream,
                   written, forwarded>>

Message == SubSeq(buffer, 1, n_read)

(* Mutant: a queue that was opened with O_NONBLOCK.                         *)
Send_NonBlocking ==
    /\ pc = "send"
    /\ pc' = "recv"
    /\ IF Len(queue) < QueueMax
       THEN /\ queue' = Append(queue, Message)
            /\ forwarded' = [forwarded EXCEPT ![current] = Append(@, Message)]
       ELSE UNCHANGED <<queue, forwarded>>
    /\ UNCHANGED <<whole, current, fds, buffer, n_read, failures, backlog, peer,
                   stream, written>>

(* mq_send waits for room in the queue.                                     *)
Send ==
    /\ pc = "send"
    /\ Len(queue) < QueueMax
    /\ queue' = Append(queue, Message)
    /\ forwarded' = [forwarded EXCEPT ![current] = Append(@, Message)]
    /\ pc' = "recv"
    /\ UNCHANGED <<whole, current, fds, buffer, n_read, failures, backlog, peer,
                   stream, written>>

(* mq_send fails: the message is lost.                                      *)
SendFails ==
    /\ pc = "send"
    /\ failures < MaxFailures
    /\ failures' = failures + 1
    /\ pc' = "recv"
    /\ UNCHANGED <<whole, current, fds, buffer, n_read, queue, backlog, peer,
                   stream, written, forwarded>>

TakeMessage ==    \* receive_get
    /\ queue # <<>>
    /\ queue' = Tail(queue)
    /\ UNCHANGED <<whole, pc, current, fds, buffer, n_read, failures, backlog,
                   peer, stream, written, forwarded>>

ClientStep(c) == Connect(c) \/ (\E p \in Commands : Write(c, p))
                 \/ Close(c) \/ Vanish(c)

SocketStep ==
    \/ Accept \/ AcceptFails
    \/ \E n \in 1 .. 6 : Recv(n)
    \/ RecvEnd \/ Send \/ SendFails

Next == SocketStep \/ TakeMessage \/ \E c \in Connections : ClientStep(c)

Spec == Init /\ [][Next]_vars

(* Clients do as they like; the two threads run.  A vanished client is      *)
(* found out because the keepalive options are set on every connection.     *)
FairSpec == Spec /\ WF_vars(SocketStep) /\ WF_vars(TakeMessage)

-----------------------------------------------------------------------------
WrittenFrames(c) == [i \in DOMAIN written[c] |-> FrameOf(written[c][i])]

(* f says which of the frames that were written each message is.            *)
IsOrder(f) == \A i, j \in DOMAIN f : i < j => f[i] < f[j]

(* However the network cuts the stream and the clients come and go, what is *)
(* sent on for a connection are whole frames that its client wrote, each at *)
(* most once and in the order of writing: pieces of two frames, or of two   *)
(* clients, never make a command.  (It takes the byte 0xAA as a status and  *)
(* then as a key for two frames to hold a third between them.)              *)
ForwardedInOrder ==
    \A c \in Connections :
        \E f \in [DOMAIN forwarded[c] -> DOMAIN written[c]] :
            /\ IsOrder(f)
            /\ \A i \in DOMAIN f : forwarded[c][i] = WrittenFrames(c)[f[i]]

(* When frames arrive whole and no mq_send fails, nothing is lost on the    *)
(* way: what was sent on for a client is what it wrote first, and what is   *)
(* missing is in the buffer or still to be read, unless the client took it  *)
(* with it.                                                                 *)
UnderWay(c) == (IF pc = "send" /\ current = c THEN 1 ELSE 0)
               + Len(stream[c]) \div 6

NothingLost ==
    whole /\ failures = 0 =>
        \A c \in Connections :
            /\ Len(forwarded[c]) + UnderWay(c) <= Len(written[c])
            /\ \A i \in DOMAIN forwarded[c] : forwarded[c][i] = WrittenFrames(c)[i]
            /\ peer[c] # "vanished" =>
                  Len(forwarded[c]) + UnderWay(c) = Len(written[c])

(* A client that vanishes does not hold the thread for ever: this is what   *)
(* the keepalive options of socket_interface.c:58-64 are for.               *)
DeadClientReleased ==
    \A c \in Connections :
        (pc = "recv" /\ current = c /\ peer[c] = "vanished")
            ~> (pc \in {"accept", "ended"})

(* A waiting client is served once those before it have left, as long as    *)
(* descriptors last: they are never given back.                             *)
WaitingClientServed ==
    (/\ [](pc = "accept" => fds < MaxFds)
     /\ []<>(pc # "recv" \/ peer[current] # "open"))
        => \A c \in Connections :
              (\E i \in DOMAIN backlog : backlog[i] = c)
                  ~> (\A i \in DOMAIN backlog : backlog[i] # c)

(* When frames arrive whole and no mq_send fails, a client that closes its  *)
(* connection and is served has every command sent on.                      *)
ServedCompletely ==
    whole => \A c \in Connections :
        (current = c /\ peer[c] = "closed")
            ~> (forwarded[c] = WrittenFrames(c) \/ failures > 0)
=============================================================================
