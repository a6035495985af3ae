------------------------------- MODULE WebSocket -------------------------------
(***************************************************************************)
(* HttpClientWebSocket (jni/lib_http_client_websocket.cpp): connect()      *)
(* starts a detached thread that opens the connection, receives and calls  *)
(* the game back; the game sends and disconnects from its own threads and  *)
(* from inside the callbacks.  curlMu guards the curl handle, the flag     *)
(* `connected` is a plain bool.                                            *)
(*                                                                         *)
(* curl and the server are external.  curl_ws_recv returns a frame in one  *)
(* or more pieces (bytesleft) and marks a fragment that is not the last of *)
(* its message (CURLWS_CONT).  The game adds its headers before connect(), *)
(* connects an object once, and returns from its callbacks.  How long an   *)
(* object lives is the game's business and not modelled.                   *)
(***************************************************************************)
EXTENDS Naturals, Sequences, FiniteSets

CONSTANTS
    Game,           \* the game's own threads
    Receiver,       \* the thread of connect()
    NoOne,
    Shapes,         \* the messages the server may send, piece by piece
    MaxMessages,    \* bound: messages of the server
    MaxControl,     \* bound: its pings and pongs
    MaxCalls        \* bound: successful sends and disconnects of the game

Callers == Game \cup {Receiver}
Piece == [kind : {"text", "binary"}, left : BOOLEAN, cont : BOOLEAN]
Kinds == {"text", "binary", "ping", "pong", "close"}

\* A message: one kind, every piece but the last says that more will come.
IsShape(s) ==
    /\ s \in Seq(Piece) /\ s # <<>>
    /\ \A i \in 1..Len(s) : /\ s[i].kind = s[1].kind
                            /\ (i < Len(s)) <=> (s[i].left \/ s[i].cont)

ASSUME WebSocketConstants ==
    /\ Receiver \notin Game /\ NoOne \notin Callers
    /\ \A s \in Shapes : IsShape(s)
    /\ MaxMessages \in Nat /\ MaxControl \in Nat /\ MaxCalls \in Nat

VARIABLES
    connected, curlMu,
    at,         \* where the thread of connect() is
    msg,        \* its ws_msg: the pieces <<m, i>> in the buffer
    pc,         \* where each thread is in a call of the game
    calls,      \* how many of these there have been
    inbox,      \* what the server has sent and curl has not returned
    messages,   \* the messages of the server, the last one perhaps begun only
    piece,      \* the pieces of the last one that are sent
    control,    \* how many pings and pongs there were,
    hit,        \* and the messages with a pong between their fragments
    broken,     \* the connection is lost
    closeSent,  \* the server has got a close frame
    delivered   \* the messages the game was called back with

client == <<connected, curlMu, at, msg, pc, calls>>
server == <<messages, piece, control, hit, broken>>
vars == <<client, server, inbox, closeSent, delivered>>

InCallback == {"opening", "message", "failing", "closing"}
Receiving == {"loop", "lock", "recv", "poll", "message", "ping", "pong"}
Places == {"none", "perform", "ended"} \cup InCallback \cup Receiving

Init ==
    /\ connected = FALSE /\ curlMu = NoOne
    /\ at = "none" /\ msg = <<>>
    /\ pc = [a \in Callers |-> "idle"] /\ calls = 0
    /\ inbox = <<>> /\ messages = <<>> /\ piece = 0 /\ control = 0 /\ hit = {}
    /\ broken = FALSE /\ closeSent = FALSE
    /\ delivered = <<>>

--------------------------------------------------------------------------------
(* The game: a thread of its own at any time, the receiver in a callback. *)
MayCall(a) ==
    /\ pc[a] = "idle"
    /\ IF a = Receiver THEN at \in InCallback ELSE at # "none"

\* connect
Connect ==
    /\ at = "none" /\ at' = "perform"
    /\ UNCHANGED <<connected, curlMu, msg, pc, calls, server, inbox, closeSent, delivered>>

\* Mutation: the flag is not looked at.
Send_Unchecked(a) ==
    /\ MayCall(a) /\ calls < MaxCalls
    /\ pc' = [pc EXCEPT ![a] = "send"] /\ calls' = calls + 1
    /\ UNCHANGED <<connected, curlMu, at, msg, server, inbox, closeSent, delivered>>

\* sendMessage and sendBinaryMessage, up to the lock; without a connection they
\* return false and change nothing.
Send(a) ==
    /\ MayCall(a) /\ connected /\ calls < MaxCalls
    /\ pc' = [pc EXCEPT ![a] = "send"] /\ calls' = calls + 1
    /\ UNCHANGED <<connected, curlMu, at, msg, server, inbox, closeSent, delivered>>

\* disconnect, up to the lock
Disconnect(a) ==
    /\ MayCall(a) /\ calls < MaxCalls
    /\ connected' = FALSE
    /\ pc' = [pc EXCEPT ![a] = "close"] /\ calls' = calls + 1
    /\ UNCHANGED <<curlMu, at, msg, server, inbox, closeSent, delivered>>

LockCurl(a) ==
    /\ pc[a] \in {"send", "close"} /\ curlMu = NoOne
    /\ curlMu' = a
    /\ pc' = [pc EXCEPT ![a] = IF pc[a] = "send" THEN "sending" ELSE "closing"]
    /\ UNCHANGED <<connected, at, msg, calls, server, inbox, closeSent, delivered>>

\* curl_ws_send and the unlock.  The result is not looked at: a frame that curl
\* does not take is not sent again, and before the handshake it takes none.
CurlSend(a) ==
    /\ pc[a] \in {"sending", "closing"}
    /\ curlMu' = NoOne
    /\ pc' = [pc EXCEPT ![a] = "idle"]
    /\ \/ closeSent' = (closeSent \/ (/\ pc[a] = "closing" /\ ~broken
                                      /\ at \notin {"none", "perform", "failing", "ended"}))
       \/ UNCHANGED closeSent
    /\ UNCHANGED <<connected, at, msg, calls, server, inbox, delivered>>

--------------------------------------------------------------------------------
(* The thread of connect() *)

\* curl_easy_perform fails: onFailure
PerformFails ==
    /\ at = "perform"
    /\ connected' = FALSE /\ at' = "failing"
    /\ UNCHANGED <<curlMu, msg, pc, calls, server, inbox, closeSent, delivered>>

\* It succeeds: sendOpened calls onOpen
PerformSucceeds ==
    /\ at = "perform"
    /\ at' = IF connected THEN "loop" ELSE "opening"
    /\ UNCHANGED <<connected, curlMu, msg, pc, calls, server, inbox, closeSent, delivered>>

\* A callback returns; after onOpen the flag is set, whatever it was.
CallbackReturns ==
    /\ at \in InCallback /\ pc[Receiver] = "idle"
    /\ connected' = (at = "opening" \/ connected)
    /\ at' = IF at \in {"opening", "message"} THEN "loop" ELSE "ended"
    /\ UNCHANGED <<curlMu, msg, pc, calls, server, inbox, closeSent, delivered>>

\* The end of the loop: the buffer is freed, sendClosed calls onClose.
Break ==
    /\ at' = "closing" /\ msg' = <<>> /\ connected' = FALSE
    /\ UNCHANGED delivered

\* while(connected)
LoopTest ==
    /\ at = "loop"
    /\ IF connected THEN at' = "lock" /\ UNCHANGED <<connected, msg, delivered>> ELSE Break
    /\ UNCHANGED <<curlMu, pc, calls, server, inbox, closeSent>>

RecvLock ==
    /\ at = "lock" /\ curlMu = NoOne
    /\ curlMu' = Receiver /\ at' = "recv"
    /\ UNCHANGED <<connected, msg, pc, calls, server, inbox, closeSent, delivered>>

\* Nothing is left of the frame, and it is the last fragment.
IsWhole(f) == ~f.left /\ ~f.cont

\* Mutation: binary messages are not passed on.
Delivers_TextOnly(f) == f.kind = "text"

\* onMessage or onBinaryMessage
Delivers(f) == f.kind \in {"text", "binary"}

\* Mutation: the buffer is not emptied after a message.
Handle_KeepsBuffer(f) ==
    LET buffer == Append(msg, <<f.m, f.i>>)
    IN  CASE f.kind = "close" -> Break
          [] f.kind = "ping" -> at' = "ping" /\ UNCHANGED <<connected, msg, delivered>>
          [] OTHER ->
               /\ msg' = buffer
               /\ IF IsWhole(f) /\ Delivers(f)
                  THEN at' = "message" /\ delivered' = Append(delivered, buffer)
                  ELSE at' = "loop" /\ UNCHANGED delivered
               /\ UNCHANGED connected

\* What the loop does with a frame.  A pong is treated like the piece of a
\* message that nobody is told of.
Handle(f) ==
    LET buffer == Append(msg, <<f.m, f.i>>)
    IN  CASE f.kind = "close" -> Break
          [] f.kind = "ping" -> at' = "ping" /\ UNCHANGED <<connected, msg, delivered>>
          [] OTHER ->
               /\ msg' = IF IsWhole(f) THEN <<>> ELSE buffer
               /\ IF IsWhole(f) /\ Delivers(f)
                  THEN at' = "message" /\ delivered' = Append(delivered, buffer)
                  ELSE at' = "loop" /\ UNCHANGED delivered
               /\ UNCHANGED connected

\* Mutation: there is an early way out of the locked section.
RecvAgain_KeepsLock ==
    /\ at = "recv" /\ inbox = <<>> /\ ~broken
    /\ at' = "poll"
    /\ UNCHANGED <<connected, curlMu, msg, pc, calls, server, inbox, closeSent, delivered>>

\* curl_ws_recv has nothing: CURLE_AGAIN
RecvAgain ==
    /\ at = "recv" /\ inbox = <<>> /\ ~broken
    /\ at' = "poll" /\ curlMu' = NoOne
    /\ UNCHANGED <<connected, msg, pc, calls, server, inbox, closeSent, delivered>>

\* It has an error
RecvFails ==
    /\ at = "recv" /\ inbox = <<>> /\ broken
    /\ Break /\ curlMu' = NoOne
    /\ UNCHANGED <<pc, calls, server, inbox, closeSent>>

\* It has a frame, or a piece of one
RecvFrame ==
    /\ at = "recv" /\ inbox # <<>>
    /\ inbox' = Tail(inbox) /\ Handle(Head(inbox)) /\ curlMu' = NoOne
    /\ UNCHANGED <<pc, calls, server, closeSent>>

\* poll_socket: the socket is readable, or 100 ms have passed
PollEnds ==
    /\ at = "poll" /\ at' = "loop"
    /\ UNCHANGED <<connected, curlMu, msg, pc, calls, server, inbox, closeSent, delivered>>

\* The pong has a critical section of its own
PongLock ==
    /\ at = "ping" /\ curlMu = NoOne
    /\ curlMu' = Receiver /\ at' = "pong"
    /\ UNCHANGED <<connected, msg, pc, calls, server, inbox, closeSent, delivered>>

PongSent ==
    /\ at = "pong" /\ curlMu' = NoOne /\ at' = "loop"
    /\ UNCHANGED <<connected, msg, pc, calls, server, inbox, closeSent, delivered>>

--------------------------------------------------------------------------------
(* The server and the network *)

Last == messages[Len(messages)]
Pending == messages # <<>> /\ piece < Len(Last)
HasClosed == \E i \in 1..Len(inbox) : inbox[i].kind = "close"
IsOpen == at \in {"opening"} \cup Receiving /\ ~broken /\ ~HasClosed

Frame(kind, left, cont, m, i) ==
    [kind |-> kind, left |-> left, cont |-> cont, m |-> m, i |-> i]

ServerStarts(s) ==
    /\ IsOpen /\ ~Pending /\ Len(messages) < MaxMessages
    /\ messages' = Append(messages, s) /\ piece' = 1
    /\ inbox' = Append(inbox, Frame(s[1].kind, s[1].left, s[1].cont, Len(messages'), 1))
    /\ UNCHANGED <<client, control, hit, broken, closeSent, delivered>>

ServerContinues ==
    /\ IsOpen /\ Pending
    /\ piece' = piece + 1
    /\ LET p == Last[piece'] IN
        inbox' = Append(inbox, Frame(p.kind, p.left, p.cont, Len(messages), piece'))
    /\ UNCHANGED <<client, messages, control, hit, broken, closeSent, delivered>>

\* A ping or pong comes between two frames, perhaps between two fragments.
ServerControls(kind) ==
    /\ IsOpen /\ control < MaxControl
    /\ Pending => ~Last[piece].left
    /\ control' = control + 1
    /\ hit' = IF Pending /\ kind = "pong" THEN hit \cup {Len(messages)} ELSE hit
    /\ inbox' = Append(inbox, Frame(kind, FALSE, FALSE, 0, 0))
    /\ UNCHANGED <<client, messages, piece, broken, closeSent, delivered>>

\* It closes, or answers a close frame.
ServerCloses ==
    /\ IsOpen
    /\ inbox' = Append(inbox, Frame("close", FALSE, FALSE, 0, 0))
    /\ UNCHANGED <<client, server, closeSent, delivered>>

ConnectionBreaks ==
    /\ IsOpen /\ broken' = TRUE
    /\ UNCHANGED <<client, messages, piece, control, hit, inbox, closeSent, delivered>>

--------------------------------------------------------------------------------
Receive == PerformFails \/ PerformSucceeds \/ CallbackReturns \/ LoopTest
           \/ RecvLock \/ RecvAgain \/ RecvFails \/ RecvFrame \/ PollEnds
           \/ PongLock \/ PongSent

Next ==
    \/ Connect \/ Receive
    \/ \E a \in Callers : Send(a) \/ Disconnect(a) \/ LockCurl(a) \/ CurlSend(a)
    \/ \E s \in Shapes : ServerStarts(s)
    \/ ServerContinues
    \/ \E kind \in {"ping", "pong"} : ServerControls(kind)
    \/ ServerCloses \/ ConnectionBreaks

Spec == Init /\ [][Next]_vars

\* Every thread that can go on does, the game's callbacks return, curl's calls
\* return, and a server that got a close frame answers it.  A thread that waits
\* for curlMu gets it in the end: the receiver leaves it free while it polls.
FairSpec ==
    /\ Spec
    /\ WF_vars(Receive)
    /\ \A a \in Callers : SF_vars(LockCurl(a)) /\ WF_vars(CurlSend(a))
    /\ WF_vars(closeSent /\ ServerCloses)

--------------------------------------------------------------------------------
\* What curl_ws_recv returns; a control frame is none of a message's pieces.
Frames == [kind : Kinds, left : BOOLEAN, cont : BOOLEAN, m : Nat, i : Nat]

\* The variables have their types.
TypeOK ==
    /\ connected \in BOOLEAN /\ curlMu \in Callers \cup {NoOne} /\ at \in Places
    /\ msg \in Seq(Nat \X Nat) /\ delivered \in Seq(Seq(Nat \X Nat))
    /\ pc \in [Callers -> {"idle", "send", "sending", "close", "closing"}]
    /\ calls \in 0..MaxCalls /\ control \in 0..MaxControl
    /\ inbox \in Seq(Frames)
    /\ messages \in Seq(Shapes) /\ Len(messages) <= MaxMessages
    /\ IF messages = <<>> THEN piece = 0 ELSE piece \in 1..Len(Last)
    /\ hit \subseteq 1..Len(messages)
    /\ broken \in BOOLEAN /\ closeSent \in BOOLEAN

UsesCurl(a) ==
    \/ pc[a] \in {"sending", "closing"}
    \/ (a = Receiver /\ at \in {"perform", "recv", "pong"})

\* A curl handle must not be used by two threads.  The connection is opened
\* without curlMu; while that goes on a message is never sent, and only a
\* disconnect can get in between.
OneUserOfCurl ==
    /\ TypeOK
    /\ \A a, b \in Callers : a # b /\ UsesCurl(a) /\ UsesCurl(b)
        => at = "perform" /\ {pc[a], pc[b]} \subseteq {"idle", "closing"}

Content(n) == [i \in 1..Len(messages[n]) |-> <<n, i>>]
IsSuffix(s, t) == \E i \in 1..Len(t) : s = SubSeq(t, i, Len(t))

\* The game gets the server's messages, and no others, in their order and whole,
\* however they were cut into frames and reads.  Of one with a pong between its
\* fragments, which clears the buffer, it gets the end.
MessagesAreWhole ==
    /\ Len(delivered) <= Len(messages)
    /\ \A n \in 1..Len(delivered) :
        IF n \in hit THEN IsSuffix(delivered[n], Content(n)) ELSE delivered[n] = Content(n)

Complete(n) == n < Len(messages) \/ (n = Len(messages) /\ ~Pending)

\* Every message the server has sent gets to the game unless the connection ends.
MessagesArrive ==
    \A n \in 1..MaxMessages :
        Complete(n) ~> (Len(delivered) >= n \/ at \in {"closing", "ended"})

\* A call of the game returns, also one made from inside a callback, where the
\* receiver must not hold curlMu.
CallsReturn == \A a \in Callers : (pc[a] # "idle") ~> (pc[a] = "idle")

\* Once disconnect() was called on an open connection, or its close frame got to
\* the server, the receiver calls onClose and ends.  (A disconnect before that is
\* overwritten after onOpen.)
DisconnectEnds ==
    (closeSent \/ (at \in Receiving /\ ~connected)) ~> (at = "ended")

\* Neither a thread of the game nor the receiver waits for ever for the other,
\* for curlMu or for a server that is silent.
NobodyHangs == CallsReturn /\ DisconnectEnds
================================================================================
