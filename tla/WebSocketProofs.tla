---------------------------- MODULE WebSocketProofs ----------------------------
(***************************************************************************)
(* Proofs about WebSocket for any threads of the game, any messages and    *)
(* any number of calls: only a disconnect can meet the opening of the      *)
(* connection, otherwise one thread uses curl at a time, and the game gets *)
(* the messages of the server whole and in their order.                    *)
(***************************************************************************)
EXTENDS WebSocket, TLAPS

(* curlMu is held by the thread that uses curl, except for the opening of the
   connection; messages are sent after that only, and the receiver makes calls
   of its own only in a callback. *)
CurlInv ==
    /\ \A a \in Callers :
          curlMu = a <=> \/ pc[a] \in {"sending", "closing"}
                         \/ (a = Receiver /\ at \in {"recv", "pong"})
    /\ pc[Receiver] # "idle" => at \in InCallback
    /\ connected => at \notin {"none", "perform"}
    /\ \A a \in Callers : pc[a] \in {"send", "sending"} => at \notin {"none", "perform"}

-----------------------------------------------------------------------------
(* The receiver has taken the first c pieces of the message after the delivered
   ones; its buffer has those from s + 1 on. *)
Coming == Len(delivered) + 1

IsData(f) == f.kind \in {"text", "binary"}
Has(k, m, i) == IsData(inbox[k]) /\ inbox[k].m = m /\ inbox[k].i = i

Sent(m, i) == /\ m \in 1..Len(messages) /\ i \in 1..Len(messages[m])
              /\ m = Len(messages) => i <= piece
Taken(c, m, i) == m < Coming \/ (m = Coming /\ i <= c)

(* Where the receiver is. *)
Cursor(c, s) ==
    /\ \/ Coming \in 1..Len(messages) /\ c < Len(messages[Coming])
       \/ Coming = Len(messages) + 1 /\ c = 0 /\ ~Pending
    /\ msg = [k \in 1..(c - s) |-> <<Coming, s + k>>]
    /\ c > 0 => Sent(Coming, c)
    /\ s > 0 => Coming \in hit

(* The data in the inbox is what was sent and is not taken yet, in order. *)
Sound(c) ==
    \A k \in 1..Len(inbox) : \A m, i \in Nat : Has(k, m, i) =>
        /\ Sent(m, i) /\ ~Taken(c, m, i)
        /\ inbox[k].left = messages[m][i].left /\ inbox[k].cont = messages[m][i].cont
Ordered ==
    \A k, l \in 1..Len(inbox) : \A m, i, n, j \in Nat :
        k < l /\ Has(k, m, i) /\ Has(l, n, j) => m < n \/ (m = n /\ i < j)
Kept(c) ==
    \A m \in 1..Len(messages) : \A i \in 1..Len(messages[m]) :
        Sent(m, i) /\ ~Taken(c, m, i) => \E k \in 1..Len(inbox) : Has(k, m, i)

(* A pong between two pieces of a message has been noted in hit. *)
Before(c, k, m, i) == Taken(c, m, i) \/ \E l \in 1..(k - 1) : Has(l, m, i)
Pongs(c) ==
    \A k \in 1..Len(inbox) : inbox[k].kind = "pong" =>
        /\ IsWhole(inbox[k])
        /\ \A m \in 1..Len(messages) : \A i \in 1..(Len(messages[m]) - 1) :
              Before(c, k, m, i) /\ ~Before(c, k, m, i + 1) => m \in hit

Stream(c, s) == Cursor(c, s) /\ Sound(c) /\ Ordered /\ Kept(c) /\ Pongs(c)

Streaming == {"none", "perform", "opening"} \cup Receiving
StreamInv == at \in Streaming => \E c \in Nat : \E s \in 0..c : Stream(c, s)

WholeInv == MessagesAreWhole /\ StreamInv

-----------------------------------------------------------------------------
(* The buffer is emptied, kept or replaced, and perhaps handed to the game. *)
LEMMA BufferKept ==
    ASSUME NEW S, NEW m \in Seq(S), NEW d \in Seq(Seq(S)), NEW b \in Seq(S),
           NEW m2, m2 = <<>> \/ m2 = m \/ m2 = b,
           NEW d2, d2 = d \/ d2 = Append(d, b)
    PROVE  m2 \in Seq(S) /\ d2 \in Seq(Seq(S))
<1>1. m2 \in Seq(S)
  <2>1. <<>> \in Seq(S)
    OBVIOUS
  <2> QED BY <2>1, Zenon
<1>2. d2 \in Seq(Seq(S))
  <2> DEFINE T == Seq(S)
  <2> HIDE DEF T
  <2>1. ASSUME d \in Seq(T), b \in T PROVE Append(d, b) \in Seq(T)
    BY <2>1
  <2> QED BY <2>1, Zenon DEF T
<1> QED BY <1>1, <1>2

(* Every step keeps the types. *)
LEMMA TypeStep ==
    ASSUME TypeOK, [Next]_vars
    PROVE  TypeOK'
<1> DEFINE ClientType ==
             /\ connected \in BOOLEAN /\ curlMu \in Callers \cup {NoOne} /\ at \in Places
             /\ pc \in [Callers -> {"idle", "send", "sending", "close", "closing"}]
             /\ calls \in 0..MaxCalls
           BufferType == msg \in Seq(Nat \X Nat) /\ delivered \in Seq(Seq(Nat \X Nat))
           ServerType ==
             /\ control \in 0..MaxControl
             /\ messages \in Seq(Shapes) /\ Len(messages) <= MaxMessages
             /\ IF messages = <<>> THEN piece = 0 ELSE piece \in 1..Len(Last)
             /\ hit \subseteq 1..Len(messages)
             /\ broken \in BOOLEAN
           NetType == inbox \in Seq(Frames) /\ closeSent \in BOOLEAN
<1>a. TypeOK <=> ClientType /\ BufferType /\ ServerType /\ NetType
  BY DEF TypeOK
<1>b. TypeOK' <=> ClientType' /\ BufferType' /\ ServerType' /\ NetType'
  BY DEF TypeOK
<1>c. ASSUME UNCHANGED <<msg, delivered>> PROVE BufferType'
  BY <1>a, <1>c
<1>d. ASSUME UNCHANGED server PROVE ServerType'
  BY <1>a, <1>d DEF server, Last
<1>e. ASSUME UNCHANGED client PROVE ClientType'
  BY <1>a, <1>e DEF client
<1>f. ASSUME UNCHANGED <<inbox, closeSent>> PROVE NetType'
  BY <1>a, <1>f
<1>g. ASSUME NEW f \in Frames, inbox' = Append(inbox, f), UNCHANGED closeSent PROVE NetType'
  BY <1>a, <1>g
<1>h. MaxMessages \in Nat /\ MaxControl \in Nat /\ MaxCalls \in Nat
  BY WebSocketConstants
<1>p. \A p \in {"none", "perform", "ended", "opening", "message", "failing", "closing",
                "loop", "lock", "recv", "poll", "message", "ping", "pong"} : p \in Places
  BY DEF Places, InCallback, Receiving
<1> HIDE DEF ClientType, BufferType, ServerType, NetType
<1>r. Receiver \in Callers
  BY DEF Callers
<1>1. CASE Connect
  <2>1. ClientType'
    BY <1>1, <1>a, <1>p DEF Connect, ClientType
  <2> QED BY <1>1, <1>b, <1>c, <1>d, <1>f, <2>1 DEF Connect
<1>2. ASSUME NEW a \in Callers, Send(a) \/ Disconnect(a) PROVE TypeOK'
  <2>1. ClientType'
    <3>1. /\ calls < MaxCalls /\ calls' = calls + 1
          /\ \/ pc' = [pc EXCEPT ![a] = "send"]
             \/ pc' = [pc EXCEPT ![a] = "close"]
          /\ connected' \in {connected, FALSE} /\ UNCHANGED <<curlMu, at>>
      BY <1>2 DEF Send, Disconnect
    <3>2. calls' \in 0..MaxCalls
      BY <1>a, <1>h, <3>1 DEF ClientType
    <3> QED BY <1>a, <3>1, <3>2 DEF ClientType
  <2> QED BY <1>2, <1>b, <1>c, <1>d, <1>f, <2>1 DEF Send, Disconnect
<1>3. ASSUME NEW a \in Callers, LockCurl(a) PROVE TypeOK'
  <2>1. ClientType'
    BY <1>3, <1>a DEF LockCurl, ClientType
  <2> QED BY <1>3, <1>b, <1>c, <1>d, <1>f, <2>1 DEF LockCurl
<1>4. ASSUME NEW a \in Callers, CurlSend(a) PROVE TypeOK'
  <2>1. ClientType'
    BY <1>4, <1>a DEF CurlSend, ClientType
  <2>2. NetType'
    BY <1>4, <1>a DEF CurlSend, NetType
  <2> QED BY <1>4, <1>b, <1>c, <1>d, <2>1, <2>2 DEF CurlSend
<1>5. CASE PerformFails \/ PerformSucceeds \/ CallbackReturns \/ RecvLock \/ RecvAgain
           \/ PollEnds \/ PongLock \/ PongSent
  <2>1. ClientType'
    BY <1>5, <1>a, <1>p, <1>r DEF PerformFails, PerformSucceeds, CallbackReturns, RecvLock,
       RecvAgain, PollEnds, PongLock, PongSent, ClientType
  <2> QED BY <1>5, <1>b, <1>c, <1>d, <1>f, <2>1 DEF PerformFails, PerformSucceeds,
       CallbackReturns, RecvLock, RecvAgain, PollEnds, PongLock, PongSent
<1>6. CASE LoopTest \/ RecvFails
  <2>1. ClientType'
    BY <1>6, <1>a, <1>p DEF LoopTest, RecvFails, Break, ClientType
  <2>2. BufferType'
    <3>1. (msg' = <<>> \/ msg' = msg) /\ delivered' = delivered
      BY <1>6 DEF LoopTest, RecvFails, Break
    <3>2. msg \in Seq(Nat \X Nat) /\ delivered \in Seq(Seq(Nat \X Nat))
      BY <1>a DEF BufferType
    <3>3. msg' \in Seq(Nat \X Nat) /\ delivered' \in Seq(Seq(Nat \X Nat))
      BY <3>1, <3>2, BufferKept, Zenon
    <3> QED BY <3>3 DEF BufferType
  <2> QED BY <1>6, <1>b, <1>d, <1>f, <2>1, <2>2 DEF LoopTest, RecvFails
<1>7. CASE RecvFrame
  <2> DEFINE f == Head(inbox)
             buffer == Append(msg, <<f.m, f.i>>)
  <2>1. f \in Frames /\ NetType'
    BY <1>7, <1>a DEF RecvFrame, NetType
  <2>2. buffer \in Seq(Nat \X Nat)
    BY <1>a, <2>1 DEF BufferType, Frames
  <2>3. Handle(f) /\ curlMu' = NoOne /\ UNCHANGED <<pc, calls, server>>
    BY <1>7 DEF RecvFrame
  <2> HIDE DEF f
  <2>4. /\ connected' \in {connected, FALSE} /\ at' \in {"closing", "ping", "message", "loop"}
        /\ msg' = <<>> \/ msg' = msg \/ msg' = buffer
        /\ delivered' = delivered \/ delivered' = Append(delivered, buffer)
    BY <2>3 DEF Handle, Break
  <2> HIDE DEF buffer
  <2>5. ClientType'
    BY <1>a, <1>p, <2>3, <2>4 DEF ClientType
  <2>6. BufferType'
    <3>1. msg \in Seq(Nat \X Nat) /\ delivered \in Seq(Seq(Nat \X Nat))
      BY <1>a DEF BufferType
    <3>2. msg' \in Seq(Nat \X Nat) /\ delivered' \in Seq(Seq(Nat \X Nat))
      BY <2>2, <2>4, <3>1, BufferKept, Zenon
    <3> QED BY <3>2 DEF BufferType
  <2> QED BY <1>b, <1>d, <2>1, <2>3, <2>5, <2>6
<1>8. ASSUME NEW s \in Shapes, ServerStarts(s) PROVE TypeOK'
  <2>1. s \in Seq(Piece) /\ Len(s) >= 1 /\ s[1] \in Piece
    BY WebSocketConstants DEF IsShape
  <2>2. ServerType'
    <3>1. messages' = Append(messages, s) /\ piece' = 1 /\ Len(messages) < MaxMessages
          /\ UNCHANGED <<control, hit, broken>>
      BY <1>8 DEF ServerStarts
    <3>2. messages \in Seq(Shapes)
      BY <1>a DEF ServerType
    <3>3. messages' \in Seq(Shapes) /\ Len(messages') = Len(messages) + 1 /\ messages' # <<>>
          /\ messages'[Len(messages')] = s
      BY <3>1, <3>2
    <3> QED BY <1>a, <1>h, <2>1, <3>1, <3>3 DEF ServerType, Last
  <2>3. Frame(s[1].kind, s[1].left, s[1].cont, Len(messages'), 1) \in Frames
    <3>1. Len(messages') \in Nat
      BY <2>2 DEF ServerType
    <3> QED BY <2>1, <3>1 DEF Frame, Frames, Piece, Kinds
  <2> QED BY <1>8, <1>b, <1>c, <1>e, <1>g, <2>2, <2>3 DEF ServerStarts, client
<1>9. CASE ServerContinues
  <2> DEFINE p == Last[piece']
  <2>1. /\ messages \in Seq(Shapes) /\ messages # <<>> /\ Last \in Shapes
        /\ piece \in 1..Len(Last) /\ piece < Len(Last) /\ piece' = piece + 1
    BY <1>9, <1>a DEF ServerContinues, Pending, ServerType, Last
  <2>2. Last \in Seq(Piece)
    BY <2>1, WebSocketConstants DEF IsShape
  <2>3. ServerType'
    BY <1>9, <1>a, <2>1, <2>2 DEF ServerContinues, ServerType, Last
  <2>4. p \in Piece /\ piece' \in Nat /\ Len(messages) \in Nat
    BY <2>1, <2>2
  <2>5. Frame(p.kind, p.left, p.cont, Len(messages), piece') \in Frames
    BY <2>4 DEF Frame, Frames, Piece, Kinds
  <2> QED BY <1>9, <1>b, <1>c, <1>e, <1>g, <2>3, <2>5 DEF ServerContinues, client
<1>10. ASSUME NEW kind \in {"ping", "pong"}, ServerControls(kind) PROVE TypeOK'
  <2>1. ServerType'
    BY <1>10, <1>a, <1>h DEF ServerControls, ServerType, Pending, Last
  <2>2. Frame(kind, FALSE, FALSE, 0, 0) \in Frames
    BY DEF Frame, Frames, Kinds
  <2> QED BY <1>10, <1>b, <1>c, <1>e, <1>g, <2>1, <2>2 DEF ServerControls, client
<1>11. CASE ServerCloses
  <2>1. Frame("close", FALSE, FALSE, 0, 0) \in Frames
    BY DEF Frame, Frames, Kinds
  <2> QED BY <1>11, <1>b, <1>c, <1>d, <1>e, <1>g, <2>1 DEF ServerCloses, client
<1>12. CASE ConnectionBreaks
  <2>1. ServerType'
    BY <1>12, <1>a DEF ConnectionBreaks, ServerType, Last
  <2> QED BY <1>12, <1>b, <1>c, <1>e, <1>f, <2>1 DEF ConnectionBreaks, client
<1>13. CASE UNCHANGED vars
  BY <1>13, <1>b, <1>c, <1>d, <1>e, <1>f DEF vars, client
<1> QED BY <1>1, <1>2, <1>3, <1>4, <1>5, <1>6, <1>7, <1>8, <1>9, <1>10, <1>11, <1>12,
           <1>13 DEF Next, Receive

(* Every step keeps curlMu with the thread that uses curl. *)
LEMMA CurlStep ==
    ASSUME TypeOK, CurlInv, [Next]_vars
    PROVE  CurlInv'
<1> USE WebSocketConstants DEF CurlInv, InCallback
<1>a. /\ pc \in [Callers -> {"idle", "send", "sending", "close", "closing"}]
      /\ Receiver \in Callers /\ NoOne \notin Callers
  BY DEF TypeOK, Callers
<1>1. CASE Connect
  BY <1>1, <1>a DEF Connect
<1>2. ASSUME NEW a \in Callers, Send(a) \/ Disconnect(a) PROVE CurlInv'
  BY <1>2, <1>a DEF Send, Disconnect, MayCall
<1>3. ASSUME NEW a \in Callers, LockCurl(a) PROVE CurlInv'
  BY <1>3, <1>a DEF LockCurl
<1>4. ASSUME NEW a \in Callers, CurlSend(a) PROVE CurlInv'
  BY <1>4, <1>a DEF CurlSend
<1>5. CASE PerformFails \/ PerformSucceeds
  BY <1>5, <1>a DEF PerformFails, PerformSucceeds
<1>6. CASE CallbackReturns
  BY <1>6, <1>a DEF CallbackReturns
<1>7. CASE LoopTest
  BY <1>7, <1>a DEF LoopTest, Break
<1>8. CASE RecvLock \/ PongLock
  BY <1>8, <1>a DEF RecvLock, PongLock
<1>9. CASE RecvAgain \/ RecvFails \/ PongSent
  BY <1>9, <1>a DEF RecvAgain, RecvFails, Break, PongSent
<1>10. CASE RecvFrame
  <2>1. at = "recv" /\ curlMu' = NoOne /\ UNCHANGED pc /\ Handle(Head(inbox))
    BY <1>10 DEF RecvFrame
  <2>2. connected' \in {connected, FALSE} /\ at' \in {"closing", "ping", "message", "loop"}
    BY <2>1 DEF Handle, Break
  <2> QED BY <1>a, <2>1, <2>2
<1>11. CASE PollEnds
  BY <1>11, <1>a DEF PollEnds
<1>12. CASE \/ \E s \in Shapes : ServerStarts(s)
            \/ ServerContinues
            \/ \E kind \in {"ping", "pong"} : ServerControls(kind)
            \/ ServerCloses \/ ConnectionBreaks
  <2>1. UNCHANGED client
    BY <1>12 DEF ServerStarts, ServerContinues, ServerControls, ServerCloses, ConnectionBreaks
  <2> QED BY <2>1 DEF client
<1>13. CASE UNCHANGED vars
  BY <1>13 DEF vars, client
<1> QED BY <1>1, <1>2, <1>3, <1>4, <1>5, <1>6, <1>7, <1>8, <1>9, <1>10, <1>11, <1>12,
           <1>13 DEF Next, Receive

LEMMA InitTypes == Init => TypeOK /\ CurlInv
<1> SUFFICES ASSUME Init PROVE TypeOK /\ CurlInv
  OBVIOUS
<1>1. CurlInv
  BY WebSocketConstants DEF Init, CurlInv, Callers, InCallback
<1>2. /\ connected \in BOOLEAN /\ curlMu \in Callers \cup {NoOne}
      /\ pc \in [Callers -> {"idle", "send", "sending", "close", "closing"}]
      /\ broken \in BOOLEAN /\ closeSent \in BOOLEAN
  BY DEF Init
<1>3. at \in Places
  BY DEF Init, Places
<1>4. \A S : <<>> \in Seq(S)
  OBVIOUS
<1>5. msg \in Seq(Nat \X Nat) /\ delivered \in Seq(Seq(Nat \X Nat))
  BY <1>4, Zenon DEF Init
<1>6. inbox \in Seq(Frames) /\ messages \in Seq(Shapes)
  BY <1>4, Zenon DEF Init
<1>7. /\ calls \in 0..MaxCalls /\ control \in 0..MaxControl /\ Len(messages) <= MaxMessages
      /\ IF messages = <<>> THEN piece = 0 ELSE piece \in 1..Len(Last)
      /\ hit \subseteq 1..Len(messages)
  BY WebSocketConstants DEF Init
<1> QED BY <1>1, <1>2, <1>3, <1>5, <1>6, <1>7 DEF TypeOK

LEMMA CurlAlways == Spec => [](TypeOK /\ CurlInv)
<1>1. TypeOK /\ CurlInv /\ [Next]_vars => (TypeOK /\ CurlInv)'
  BY TypeStep, CurlStep
<1> QED BY <1>1, InitTypes, PTL DEF Spec

-----------------------------------------------------------------------------
(* No two threads use the curl handle at the same time, with the exception the
   code leaves: a disconnect() during the opening of the connection. *)
THEOREM CurlHasOneUser == Spec => []OneUserOfCurl
<1>1. ASSUME TypeOK, CurlInv PROVE OneUserOfCurl
  <2> SUFFICES ASSUME NEW a \in Callers, NEW b \in Callers, a # b, UsesCurl(a), UsesCurl(b)
               PROVE  at = "perform" /\ {pc[a], pc[b]} \subseteq {"idle", "closing"}
    BY <1>1 DEF OneUserOfCurl
  <2>1. Receiver \in Callers
    BY DEF Callers
  <2> QED BY <1>1, <2>1 DEF CurlInv, UsesCurl, InCallback
<1> QED BY <1>1, CurlAlways, PTL

-----------------------------------------------------------------------------
(* A message of the server has pieces, and all but the last announce another. *)
LEMMA ShapeFacts ==
    ASSUME TypeOK, NEW m \in 1..Len(messages)
    PROVE  /\ Len(messages[m]) \in Nat /\ Len(messages[m]) >= 1
           /\ \A i \in 1..Len(messages[m]) :
                 (i < Len(messages[m])) <=> (messages[m][i].left \/ messages[m][i].cont)
<1>1. messages \in Seq(Shapes)
  BY DEF TypeOK
<1>2. messages[m] \in Shapes
  BY <1>1
<1>3. IsShape(messages[m])
  BY <1>2, WebSocketConstants
<1> QED BY <1>3 DEF IsShape

(* The head of the inbox is taken: the rest is sound, ordered and complete if
   the cursor moves over the head. *)
LEMMA Shift ==
    ASSUME TypeOK, NEW c \in Nat, NEW d \in Nat,
           Sound(c), Ordered, Kept(c), Pongs(c),
           inbox # <<>>, inbox' = Tail(inbox), UNCHANGED <<messages, piece, hit>>,
           \A m \in 1..Len(messages) : \A i \in 1..Len(messages[m]) :
                Taken(d, m, i)' <=> Taken(c, m, i) \/ Has(1, m, i)
    PROVE  (Sound(d) /\ Ordered /\ Kept(d) /\ Pongs(d))'
<1>1. /\ Len(inbox) \in Nat /\ Len(inbox) >= 1 /\ Len(inbox') = Len(inbox) - 1
      /\ \A k \in 1..Len(inbox') : k + 1 \in 1..Len(inbox) /\ inbox'[k] = inbox[k + 1]
      /\ 1 \in 1..Len(inbox)
  <2>1. inbox \in Seq(Frames)
    BY DEF TypeOK
  <2> QED BY <2>1
<1>2. \A k \in 1..Len(inbox') : \A m, i : Has(k, m, i)' <=> Has(k + 1, m, i)
  BY <1>1 DEF Has, IsData
<1>3. \A m, i : Sent(m, i)' <=> Sent(m, i)
  BY DEF Sent
<1>4. Sound(d)'
  <2> SUFFICES ASSUME NEW k \in 1..Len(inbox'), NEW m \in Nat, NEW i \in Nat, Has(k, m, i)'
               PROVE  /\ Sent(m, i)' /\ ~Taken(d, m, i)'
                      /\ inbox'[k].left = messages'[m][i].left
                      /\ inbox'[k].cont = messages'[m][i].cont
    BY DEF Sound
  <2>1. k + 1 \in 1..Len(inbox) /\ inbox'[k] = inbox[k + 1] /\ 1 < k + 1 /\ Has(k + 1, m, i)
    BY <1>1, <1>2
  <2>2. /\ Sent(m, i) /\ ~Taken(c, m, i)
        /\ inbox[k + 1].left = messages[m][i].left /\ inbox[k + 1].cont = messages[m][i].cont
    BY <2>1 DEF Sound
  <2>3. m \in 1..Len(messages) /\ i \in 1..Len(messages[m])
    BY <2>2 DEF Sent
  <2>4. ~Has(1, m, i)
    BY <1>1, <2>1 DEF Ordered
  <2> QED BY <1>3, <2>1, <2>2, <2>3, <2>4
<1>5. Ordered'
  <2> SUFFICES ASSUME NEW k \in 1..Len(inbox'), NEW l \in 1..Len(inbox'), k < l,
                      NEW m \in Nat, NEW i \in Nat, NEW n \in Nat, NEW j \in Nat,
                      Has(k, m, i)', Has(l, n, j)'
               PROVE  m < n \/ (m = n /\ i < j)
    BY DEF Ordered
  <2> QED BY <1>1, <1>2 DEF Ordered
<1>6. Kept(d)'
  <2> SUFFICES ASSUME NEW m \in 1..Len(messages), NEW i \in 1..Len(messages[m]),
                      Sent(m, i)', ~Taken(d, m, i)'
               PROVE  \E k \in 1..Len(inbox') : Has(k, m, i)'
    BY DEF Kept
  <2>1. ~Taken(c, m, i) /\ ~Has(1, m, i) /\ Sent(m, i)
    BY <1>3
  <2>2. PICK k \in 1..Len(inbox) : Has(k, m, i)
    BY <2>1 DEF Kept
  <2>3. k # 1
    BY <2>1, <2>2
  <2>4. k - 1 \in 1..Len(inbox') /\ (k - 1) + 1 = k
    BY <1>1, <2>3
  <2> QED BY <1>2, <2>2, <2>4
<1>7. Pongs(d)'
  <2> SUFFICES ASSUME NEW k \in 1..Len(inbox'), inbox'[k].kind = "pong"
               PROVE  /\ IsWhole(inbox'[k])
                      /\ \A m \in 1..Len(messages) : \A i \in 1..(Len(messages[m]) - 1) :
                            Before(d, k, m, i)' /\ ~Before(d, k, m, i + 1)' => m \in hit
    BY DEF Pongs, IsWhole
  <2>1. k + 1 \in 1..Len(inbox) /\ inbox'[k] = inbox[k + 1]
    BY <1>1
  <2>2. ASSUME NEW m \in 1..Len(messages), NEW i \in 1..Len(messages[m])
        PROVE  Before(d, k, m, i)' <=> Before(c, k + 1, m, i)
    <3>1. (\E l \in 1..(k - 1) : Has(l, m, i)') <=> (\E l \in 2..k : Has(l, m, i))
      <4>1. \A l \in 1..(k - 1) : l + 1 \in 2..k /\ (Has(l, m, i)' <=> Has(l + 1, m, i))
        BY <1>1, <1>2
      <4>2. \A l \in 2..k : l - 1 \in 1..(k - 1) /\ (l - 1) + 1 = l
        OBVIOUS
      <4>3. ASSUME NEW l \in 1..(k - 1), Has(l, m, i)' PROVE \E x \in 2..k : Has(x, m, i)
        BY <4>1, <4>3
      <4>4. ASSUME NEW l \in 2..k, Has(l, m, i) PROVE \E x \in 1..(k - 1) : Has(x, m, i)'
        <5>1. l - 1 \in 1..(k - 1) /\ Has(l - 1, m, i)'
          BY <4>1, <4>2, <4>4
        <5> QED BY <5>1
      <4> QED BY <4>3, <4>4
    <3>2. (\E l \in 1..((k + 1) - 1) : Has(l, m, i))
              <=> Has(1, m, i) \/ (\E l \in 2..k : Has(l, m, i))
      OBVIOUS
    <3> QED BY <3>1, <3>2 DEF Before
  <2>3. ASSUME NEW m \in 1..Len(messages), NEW i \in 1..(Len(messages[m]) - 1),
               Before(d, k, m, i)', ~Before(d, k, m, i + 1)'
        PROVE  m \in hit
    <3>1. i \in 1..Len(messages[m]) /\ i + 1 \in 1..Len(messages[m])
      BY ShapeFacts
    <3>2. Before(c, k + 1, m, i) /\ ~Before(c, k + 1, m, i + 1)
      BY <2>2, <2>3, <3>1
    <3> QED BY <2>1, <3>2 DEF Pongs
  <2> QED BY <2>1, <2>3 DEF Pongs
<1> QED BY <1>4, <1>5, <1>6, <1>7

(* The server sends a frame of no message: nothing changes for the data, and a
   pong is noted if the last message is not complete. *)
LEMMA AppendControl ==
    ASSUME TypeOK, NEW c \in Nat, NEW f \in Frames, ~IsData(f),
           Sound(c), Ordered, Kept(c), Pongs(c),
           inbox' = Append(inbox, f), UNCHANGED <<messages, piece, delivered>>, hit \subseteq hit',
           f.kind = "pong" => IsWhole(f) /\ (Pending => Len(messages) \in hit')
    PROVE  (Sound(c) /\ Ordered /\ Kept(c) /\ Pongs(c))'
<1>1. /\ Len(inbox) \in Nat /\ Len(inbox') = Len(inbox) + 1
      /\ \A k \in 1..Len(inbox) : k \in 1..Len(inbox') /\ inbox'[k] = inbox[k]
      /\ inbox'[Len(inbox')] = f
  <2>1. inbox \in Seq(Frames)
    BY DEF TypeOK
  <2> QED BY <2>1
<1>2. \A k \in 1..Len(inbox) : \A m, i : Has(k, m, i)' <=> Has(k, m, i)
  BY <1>1 DEF Has, IsData
<1>3. \A k, m, i : k = Len(inbox) + 1 => ~Has(k, m, i)'
  BY <1>1 DEF Has, IsData
<1>4. \A k \in 1..Len(inbox') : k \in 1..Len(inbox) \/ k = Len(inbox) + 1
  BY <1>1
<1>5. \A m, i : (Sent(m, i)' <=> Sent(m, i)) /\ (Taken(c, m, i)' <=> Taken(c, m, i))
  BY DEF Sent, Taken, Coming
<1>6. Sound(c)'
  <2> SUFFICES ASSUME NEW k \in 1..Len(inbox'), NEW m \in Nat, NEW i \in Nat, Has(k, m, i)'
               PROVE  /\ Sent(m, i)' /\ ~Taken(c, m, i)'
                      /\ inbox'[k].left = messages'[m][i].left
                      /\ inbox'[k].cont = messages'[m][i].cont
    BY DEF Sound
  <2>1. k \in 1..Len(inbox) /\ Has(k, m, i)
    BY <1>2, <1>3, <1>4
  <2> QED BY <1>1, <1>5, <2>1 DEF Sound
<1>7. Ordered'
  <2> SUFFICES ASSUME NEW k \in 1..Len(inbox'), NEW l \in 1..Len(inbox'), k < l,
                      NEW m \in Nat, NEW i \in Nat, NEW n \in Nat, NEW j \in Nat,
                      Has(k, m, i)', Has(l, n, j)'
               PROVE  m < n \/ (m = n /\ i < j)
    BY DEF Ordered
  <2>1. k \in 1..Len(inbox) /\ Has(k, m, i) /\ l \in 1..Len(inbox) /\ Has(l, n, j)
    BY <1>2, <1>3, <1>4
  <2> QED BY <2>1 DEF Ordered
<1>8. Kept(c)'
  <2> SUFFICES ASSUME NEW m \in 1..Len(messages), NEW i \in 1..Len(messages[m]),
                      Sent(m, i)', ~Taken(c, m, i)'
               PROVE  \E k \in 1..Len(inbox') : Has(k, m, i)'
    BY DEF Kept
  <2>1. PICK k \in 1..Len(inbox) : Has(k, m, i)
    BY <1>5 DEF Kept
  <2> QED BY <1>1, <1>2, <2>1
<1>9. Pongs(c)'
  <2> SUFFICES ASSUME NEW k \in 1..Len(inbox'), inbox'[k].kind = "pong"
               PROVE  /\ IsWhole(inbox'[k])
                      /\ \A m \in 1..Len(messages) : \A i \in 1..(Len(messages[m]) - 1) :
                            Before(c, k, m, i)' /\ ~Before(c, k, m, i + 1)' => m \in hit'
    BY DEF Pongs, IsWhole
  <2>1. \A m, i : Before(c, k, m, i)' <=> Before(c, k, m, i)
    <3>1. \A l \in 1..(k - 1) : l \in 1..Len(inbox)
      BY <1>1
    <3> QED BY <1>2, <1>5, <3>1 DEF Before
  <2>2. CASE k \in 1..Len(inbox)
    BY <1>1, <2>1, <2>2 DEF Pongs
  <2>3. CASE k = Len(inbox) + 1
    <3>1. f.kind = "pong" /\ IsWhole(inbox'[k])
      BY <1>1, <2>3
    <3>2. ASSUME NEW m \in 1..Len(messages), NEW i \in 1..(Len(messages[m]) - 1),
                 ~Before(c, k, m, i + 1)
          PROVE  m \in hit'
      <4>1. i + 1 \in 1..Len(messages[m]) /\ Len(messages[m]) \in Nat
        BY ShapeFacts
      <4>2. ~Taken(c, m, i + 1) /\ \A l \in 1..Len(inbox) : ~Has(l, m, i + 1)
        BY <1>1, <2>3, <3>2 DEF Before
      <4>3. ~Sent(m, i + 1)
        BY <4>1, <4>2 DEF Kept
      <4>4. m = Len(messages) /\ piece < i + 1 /\ messages # <<>>
        BY <4>1, <4>3 DEF Sent, TypeOK
      <4>5. piece \in Nat
        BY <4>4, <4>1 DEF TypeOK, Last
      <4>6. Pending
        BY <4>1, <4>4, <4>5 DEF Pending, Last
      <4> QED BY <3>1, <4>4, <4>6
    <3> QED BY <2>1, <3>1, <3>2
  <2> QED BY <1>4, <2>2, <2>3
<1> QED BY <1>6, <1>7, <1>8, <1>9

(* The server sends the next piece <<x, y>> of its messages. *)
LEMMA AppendData ==
    ASSUME TypeOK, NEW c \in Nat, NEW f \in Frames, IsData(f),
           NEW x \in Nat, NEW y \in Nat, f.m = x, f.i = y,
           Sound(c), Ordered, Kept(c), Pongs(c),
           inbox' = Append(inbox, f), UNCHANGED <<delivered, hit>>,
           \A m, i \in Nat : Sent(m, i)' <=> Sent(m, i) \/ (m = x /\ i = y),
           \A m, i \in Nat : Sent(m, i) => m < x \/ (m = x /\ i < y),
           ~Taken(c, x, y), f.left = messages'[x][y].left, f.cont = messages'[x][y].cont,
           Len(messages') \in {Len(messages), Len(messages) + 1},
           \A m \in 1..Len(messages) : messages'[m] = messages[m],
           \A i \in Nat : i > 0 => ~Taken(c, Len(messages) + 1, i)
    PROVE  (Sound(c) /\ Ordered /\ Kept(c) /\ Pongs(c))'
<1>0. Len(messages) \in Nat
  BY DEF TypeOK
<1>1. /\ Len(inbox) \in Nat /\ Len(inbox') = Len(inbox) + 1
      /\ \A k \in 1..Len(inbox) : k \in 1..Len(inbox') /\ inbox'[k] = inbox[k]
      /\ inbox'[Len(inbox) + 1] = f /\ Len(inbox) + 1 \in 1..Len(inbox')
  <2>1. inbox \in Seq(Frames)
    BY DEF TypeOK
  <2> QED BY <2>1
<1>2. \A k \in 1..Len(inbox) : \A m, i : Has(k, m, i)' <=> Has(k, m, i)
  BY <1>1 DEF Has, IsData
<1>3. \A k, m, i : k = Len(inbox) + 1 => (Has(k, m, i)' <=> m = x /\ i = y)
  BY <1>1 DEF Has, IsData
<1>4. \A k \in 1..Len(inbox') : k \in 1..Len(inbox) \/ k = Len(inbox) + 1
  BY <1>1
<1>5. \A m, i : Taken(c, m, i)' <=> Taken(c, m, i)
  BY DEF Taken, Coming
<1>6. \A k \in 1..Len(inbox) : \A m, i \in Nat : Has(k, m, i) =>
        /\ Sent(m, i) /\ ~Taken(c, m, i)
        /\ inbox[k].left = messages[m][i].left /\ inbox[k].cont = messages[m][i].cont
  BY DEF Sound
<1>7. Sound(c)'
  <2> SUFFICES ASSUME NEW k \in 1..Len(inbox'), NEW m \in Nat, NEW i \in Nat, Has(k, m, i)'
               PROVE  /\ Sent(m, i)' /\ ~Taken(c, m, i)'
                      /\ inbox'[k].left = messages'[m][i].left
                      /\ inbox'[k].cont = messages'[m][i].cont
    BY DEF Sound
  <2>1. CASE k \in 1..Len(inbox)
    <3>1. Sent(m, i) /\ m \in 1..Len(messages)
      BY <1>2, <1>6, <2>1 DEF Sent
    <3> QED BY <1>1, <1>2, <1>5, <1>6, <2>1, <3>1
  <2>2. CASE k = Len(inbox) + 1
    BY <1>1, <1>3, <1>5, <2>2
  <2> QED BY <1>4, <2>1, <2>2
<1>8. Ordered'
  <2> SUFFICES ASSUME NEW k \in 1..Len(inbox'), NEW l \in 1..Len(inbox'), k < l,
                      NEW m \in Nat, NEW i \in Nat, NEW n \in Nat, NEW j \in Nat,
                      Has(k, m, i)', Has(l, n, j)'
               PROVE  m < n \/ (m = n /\ i < j)
    BY DEF Ordered
  <2>1. k \in 1..Len(inbox) /\ Has(k, m, i)
    BY <1>1, <1>2, <1>4
  <2>2. CASE l \in 1..Len(inbox)
    BY <1>2, <2>1, <2>2 DEF Ordered
  <2>3. CASE l = Len(inbox) + 1
    BY <1>3, <1>6, <2>1, <2>3
  <2> QED BY <1>4, <2>2, <2>3
<1>9. Kept(c)'
  <2> SUFFICES ASSUME NEW m \in 1..Len(messages'), NEW i \in 1..Len(messages'[m]),
                      Sent(m, i)', ~Taken(c, m, i)'
               PROVE  \E k \in 1..Len(inbox') : Has(k, m, i)'
    BY DEF Kept
  <2>1. CASE m = x /\ i = y
    BY <1>1, <1>3, <2>1
  <2>2. CASE ~(m = x /\ i = y)
    <3>1. Sent(m, i)
      BY <2>2
    <3>2. m \in 1..Len(messages) /\ i \in 1..Len(messages[m])
      BY <3>1 DEF Sent
    <3>3. PICK k \in 1..Len(inbox) : Has(k, m, i)
      BY <1>5, <3>1, <3>2 DEF Kept
    <3> QED BY <1>1, <1>2, <3>3
  <2> QED BY <2>1, <2>2
<1>10. Pongs(c)'
  <2> SUFFICES ASSUME NEW k \in 1..Len(inbox'), inbox'[k].kind = "pong"
               PROVE  /\ IsWhole(inbox'[k])
                      /\ \A m \in 1..Len(messages') : \A i \in 1..(Len(messages'[m]) - 1) :
                            Before(c, k, m, i)' /\ ~Before(c, k, m, i + 1)' => m \in hit
    BY DEF Pongs, IsWhole
  <2>1. k \in 1..Len(inbox) /\ inbox'[k] = inbox[k]
    BY <1>1, <1>4 DEF IsData
  <2>2. \A m, i : Before(c, k, m, i)' <=> Before(c, k, m, i)
    <3>1. \A l \in 1..(k - 1) : l \in 1..Len(inbox)
      BY <1>1
    <3> QED BY <1>2, <1>5, <3>1 DEF Before
  <2>3. ASSUME NEW m \in 1..Len(messages'), NEW i \in 1..(Len(messages'[m]) - 1),
               Before(c, k, m, i), ~Before(c, k, m, i + 1)
        PROVE  m \in hit
    <3>1. CASE m \in 1..Len(messages)
      BY <2>1, <2>3, <3>1 DEF Pongs
    <3>2. CASE m = Len(messages) + 1
      <4>1. m \in Nat /\ i \in Nat /\ i > 0
        BY <1>0, <3>2
      <4>2. ~Taken(c, m, i)
        BY <3>2, <4>1
      <4>3. PICK l \in 1..(k - 1) : Has(l, m, i)
        BY <2>3, <4>2 DEF Before
      <4>4. Sent(m, i)
        <5>1. l \in 1..Len(inbox)
          BY <1>1, <2>1
        <5> QED BY <1>6, <4>1, <4>3, <5>1
      <4> QED BY <1>0, <3>2, <4>4 DEF Sent
    <3> QED BY <1>0, <3>1, <3>2
  <2> QED BY <2>1, <2>2, <2>3 DEF Pongs
<1> QED BY <1>7, <1>8, <1>9, <1>10

-----------------------------------------------------------------------------
(* The first data frame of the inbox is the piece after those taken. *)
LEMMA HeadIsNext ==
    ASSUME TypeOK, NEW c \in Nat, NEW s \in 0..c, Stream(c, s),
           inbox # <<>>, IsData(inbox[1])
    PROVE  /\ Coming \in 1..Len(messages) /\ c < Len(messages[Coming]) /\ Sent(Coming, c + 1)
           /\ inbox[1].m = Coming /\ inbox[1].i = c + 1
           /\ IsWhole(inbox[1]) <=> c + 1 = Len(messages[Coming])
<1> DEFINE m == inbox[1].m
           i == inbox[1].i
<1>1. inbox \in Seq(Frames) /\ 1 \in 1..Len(inbox) /\ Len(messages) \in Nat /\ Coming \in Nat
  <2>1. inbox \in Seq(Frames) /\ messages \in Seq(Shapes) /\ Len(delivered) \in Nat
    <3>1. \A S : \A t \in Seq(S) : Len(t) \in Nat
      OBVIOUS
    <3> QED BY <3>1, Zenon DEF TypeOK
  <2> QED BY <2>1 DEF Coming
<1>2. m \in Nat /\ i \in Nat /\ Has(1, m, i)
  <2>1. inbox[1] \in Frames
    BY <1>1
  <2>2. m \in Nat /\ i \in Nat
    BY <2>1 DEF Frames
  <2> QED BY <2>2 DEF Has
<1>3. /\ Sent(m, i) /\ ~Taken(c, m, i)
      /\ inbox[1].left = messages[m][i].left /\ inbox[1].cont = messages[m][i].cont
  BY <1>1, <1>2 DEF Stream, Sound
<1>4. m \in 1..Len(messages) /\ i \in 1..Len(messages[m]) /\ Coming <= m
  BY <1>1, <1>2, <1>3 DEF Sent, Taken
<1>5. Coming \in 1..Len(messages) /\ c < Len(messages[Coming])
  BY <1>1, <1>4 DEF Stream, Cursor, Coming, TypeOK
<1>6. Len(messages[Coming]) \in Nat
  BY <1>5, ShapeFacts
<1>7. c + 1 \in 1..Len(messages[Coming]) /\ ~Taken(c, Coming, c + 1)
  BY <1>1, <1>5, <1>6 DEF Taken
<1>8. Sent(Coming, c + 1)
  <2>1. CASE Coming < m
    BY <1>1, <1>4, <1>5, <1>7, <2>1 DEF Sent
  <2>2. CASE Coming = m
    <3>1. i > c
      BY <1>2, <1>3, <2>2 DEF Taken
    <3>2. messages # <<>> => piece \in Nat
      <4>1. SUFFICES ASSUME messages # <<>> PROVE piece \in Nat
        OBVIOUS
      <4>2. piece \in 1..Len(Last)
        BY <4>1 DEF TypeOK
      <4> QED BY <4>2
    <3>3. messages # <<>>
      BY <1>4
    <3> QED BY <1>2, <1>3, <1>5, <1>7, <2>2, <3>1, <3>2, <3>3 DEF Sent
  <2> QED BY <1>1, <1>2, <1>4, <2>1, <2>2
<1>9. PICK k \in 1..Len(inbox) : Has(k, Coming, c + 1)
  BY <1>5, <1>7, <1>8 DEF Stream, Kept
<1>10. m = Coming /\ i = c + 1
  <2>1. CASE k = 1
    BY <1>9, <2>1 DEF Has
  <2>2. CASE k > 1
    <3>1. m < Coming \/ (m = Coming /\ i < c + 1)
      BY <1>1, <1>2, <1>9, <2>2 DEF Stream, Ordered
    <3> QED BY <1>1, <1>2, <1>3, <3>1 DEF Taken
  <2> QED BY <2>1, <2>2
<1>11. IsWhole(inbox[1]) <=> ~(c + 1 < Len(messages[Coming]))
  BY <1>3, <1>5, <1>7, <1>10, ShapeFacts DEF IsWhole
<1> QED BY <1>5, <1>6, <1>7, <1>8, <1>10, <1>11

(* A step that leaves the messages, their frames and the buffer alone. *)
LEMMA WholeFrame ==
    ASSUME WholeInv, UNCHANGED <<msg, delivered, inbox, messages, piece, hit>>,
           at' \in Streaming => at \in Streaming
    PROVE  WholeInv'
<1>1. MessagesAreWhole'
  BY DEF WholeInv, MessagesAreWhole, Content, IsSuffix
<1>2. ASSUME NEW c \in Nat, NEW s \in 0..c, Stream(c, s) PROVE Stream(c, s)'
  <2>1. Cursor(c, s)'
    BY <1>2 DEF Stream, Cursor, Coming, Pending, Last, Sent
  <2>2. \A m, i : (Sent(m, i)' <=> Sent(m, i)) /\ (Taken(c, m, i)' <=> Taken(c, m, i))
    BY DEF Sent, Taken, Coming
  <2>3. \A k, m, i : Has(k, m, i)' <=> Has(k, m, i)
    BY DEF Has
  <2>4. Sound(c)' /\ Ordered' /\ Kept(c)'
    BY <1>2, <2>2, <2>3 DEF Stream, Sound, Ordered, Kept
  <2>5. \A k, m, i : Before(c, k, m, i)' <=> Before(c, k, m, i)
    BY <2>2, <2>3 DEF Before
  <2>6. Pongs(c)'
    BY <1>2, <2>5 DEF Stream, Pongs
  <2> QED BY <2>1, <2>4, <2>6 DEF Stream
<1>3. StreamInv'
  BY <1>2 DEF WholeInv, StreamInv, Streaming
<1> QED BY <1>1, <1>3 DEF WholeInv

(* The receiver takes a frame. *)
LEMMA WholeRecv ==
    ASSUME TypeOK, WholeInv, RecvFrame
    PROVE  WholeInv'
<1> DEFINE f == inbox[1]
<1>1. /\ at = "recv" /\ inbox # <<>> /\ inbox' = Tail(inbox) /\ Handle(f)
      /\ UNCHANGED <<messages, piece, hit>>
  <2>1. inbox # <<>> /\ Handle(Head(inbox))
    BY DEF RecvFrame
  <2>2. Head(inbox) = inbox[1]
    BY <2>1 DEF TypeOK
  <2> QED BY <2>1, <2>2 DEF RecvFrame, server
<1>2. PICK c \in Nat : \E s \in 0..c : Stream(c, s)
  BY <1>1 DEF WholeInv, StreamInv, Streaming, Receiving
<1>3. PICK s \in 0..c : Stream(c, s)
  BY <1>2
<1>4. /\ MessagesAreWhole /\ Cursor(c, s) /\ Sound(c) /\ Ordered /\ Kept(c) /\ Pongs(c)
  BY <1>3 DEF WholeInv, Stream
<1>5. Len(messages) \in Nat /\ Len(delivered) \in Nat /\ inbox \in Seq(Frames)
      /\ 1 \in 1..Len(inbox) /\ f \in Frames
  <2>1. \A S : \A t \in Seq(S) : Len(t) \in Nat
    OBVIOUS
  <2>2. Len(messages) \in Nat /\ Len(delivered) \in Nat /\ inbox \in Seq(Frames)
    BY <2>1, Zenon DEF TypeOK
  <2> QED BY <1>1, <2>2
<1>6. f.kind \in Kinds
  BY <1>5 DEF Frames
<1>7. ASSUME UNCHANGED delivered PROVE MessagesAreWhole'
  BY <1>1, <1>4, <1>7 DEF MessagesAreWhole, Content, IsSuffix
<1>8. ASSUME NEW d \in Nat, NEW t \in 0..d, MessagesAreWhole', Cursor(d, t)',
             \A m \in 1..Len(messages) : \A i \in 1..Len(messages[m]) :
                Taken(d, m, i)' <=> Taken(c, m, i) \/ Has(1, m, i)
      PROVE  WholeInv'
  <2>1. Stream(d, t)'
    BY <1>1, <1>4, <1>8, Shift DEF Stream
  <2> QED BY <1>8, <2>1 DEF WholeInv, StreamInv
<1>9. CASE f.kind = "close"
  <2>1. at' = "closing" /\ UNCHANGED delivered
    BY <1>1, <1>9 DEF Handle, Break
  <2> QED BY <1>7, <2>1 DEF WholeInv, StreamInv, Streaming, Receiving
<1>10. CASE f.kind = "ping"
  <2>1. UNCHANGED <<msg, delivered>>
    BY <1>1, <1>10 DEF Handle
  <2>2. \A m, i : (Taken(c, m, i)' <=> Taken(c, m, i)) /\ ~Has(1, m, i)
    BY <1>10, <2>1 DEF Taken, Coming, Has, IsData
  <2>3. Cursor(c, s)'
    BY <1>1, <1>4, <2>1 DEF Cursor, Coming, Sent, Pending, Last
  <2> QED BY <1>7, <1>8, <2>1, <2>2, <2>3
<1>11. CASE f.kind = "pong"
  <2>1. IsWhole(f)
    BY <1>4, <1>5, <1>11 DEF Pongs
  <2>2. msg' = <<>> /\ UNCHANGED delivered
    BY <1>1, <1>11, <2>1 DEF Handle, Delivers
  <2>3. \A m, i : (Taken(c, m, i)' <=> Taken(c, m, i)) /\ ~Has(1, m, i)
    BY <1>11, <2>2 DEF Taken, Coming, Has, IsData
  <2>4. ASSUME c > 0 PROVE Coming \in hit
    <3>1. Coming \in 1..Len(messages) /\ c < Len(messages[Coming]) /\ Len(messages[Coming]) \in Nat
      BY <1>4, <2>4, ShapeFacts DEF Cursor
    <3>2. c \in 1..(Len(messages[Coming]) - 1)
      BY <2>4, <3>1
    <3>3. Before(c, 1, Coming, c) /\ ~Before(c, 1, Coming, c + 1)
      BY <1>5 DEF Before, Taken, Coming
    <3> QED BY <1>4, <1>5, <1>11, <3>1, <3>2, <3>3 DEF Pongs
  <2>5. Cursor(c, c)'
    <3>1. <<>> = [k \in 1..(c - c) |-> <<Coming, c + k>>]
      OBVIOUS
    <3>2. /\ \/ Coming \in 1..Len(messages) /\ c < Len(messages[Coming])
             \/ Coming = Len(messages) + 1 /\ c = 0 /\ ~Pending
          /\ c > 0 => Sent(Coming, c)
      BY <1>4 DEF Cursor
    <3>3. Coming' = Coming /\ (Pending' <=> Pending) /\ (Sent(Coming, c)' <=> Sent(Coming, c))
      BY <1>1, <2>2 DEF Coming, Pending, Last, Sent
    <3> QED BY <1>1, <2>2, <2>4, <3>1, <3>2, <3>3 DEF Cursor
  <2> QED BY <1>7, <1>8, <2>2, <2>3, <2>5
<1>12. CASE IsData(f)
  <2> DEFINE n == Len(delivered) + 1
             buffer == [k \in 1..((c + 1) - s) |-> <<n, s + k>>]
  <2>1. /\ n \in 1..Len(messages) /\ c < Len(messages[n]) /\ Sent(n, c + 1)
        /\ f.m = n /\ f.i = c + 1
        /\ IsWhole(f) <=> c + 1 = Len(messages[n])
    BY <1>1, <1>3, <1>12, HeadIsNext DEF Coming
  <2>2. Append(msg, <<f.m, f.i>>) = buffer
    <3>1. msg = [k \in 1..(c - s) |-> <<n, s + k>>]
      BY <1>4 DEF Cursor, Coming
    <3> QED BY <2>1, <3>1
  <2>3. \A m, i : Has(1, m, i) <=> m = n /\ i = c + 1
    BY <1>12, <2>1 DEF Has
  <2>4. f.kind # "close" /\ f.kind # "ping" /\ Delivers(f)
    BY <1>12 DEF IsData, Delivers
  <2>5. Len(messages[n]) \in Nat
    BY <2>1, ShapeFacts
  <2>6. CASE ~IsWhole(f)
    <3>1. msg' = buffer /\ UNCHANGED delivered
      BY <1>1, <2>2, <2>4, <2>6 DEF Handle
    <3>2. \A m \in 1..Len(messages) : \A i \in 1..Len(messages[m]) :
              Taken(c + 1, m, i)' <=> Taken(c, m, i) \/ Has(1, m, i)
      BY <1>5, <2>3, <3>1 DEF Taken, Coming
    <3>3. c + 1 < Len(messages[n])
      BY <2>1, <2>5, <2>6
    <3>4. s > 0 => n \in hit
      BY <1>4 DEF Cursor, Coming
    <3>5. Sent(Coming, c + 1)'
      BY <1>1, <2>1, <3>1 DEF Sent, Coming
    <3>6. Cursor(c + 1, s)'
      BY <1>1, <2>1, <3>1, <3>3, <3>4, <3>5 DEF Cursor, Coming
    <3>7. c + 1 \in Nat /\ s \in 0..(c + 1)
      OBVIOUS
    <3> QED BY <1>7, <1>8, <3>1, <3>2, <3>6, <3>7
  <2>7. CASE IsWhole(f)
    <3>1. msg' = <<>> /\ delivered' = Append(delivered, buffer) /\ c + 1 = Len(messages[n])
      BY <1>1, <2>1, <2>2, <2>4, <2>7 DEF Handle
    <3>2. /\ Len(delivered') = n /\ delivered'[n] = buffer
          /\ \A k \in 1..Len(delivered) : delivered'[k] = delivered[k]
      <4>1. delivered \in Seq(Seq(Nat \X Nat))
        BY DEF TypeOK
      <4>2. \A S : \A t \in Seq(S) : \A e :
               /\ Len(Append(t, e)) = Len(t) + 1 /\ Append(t, e)[Len(t) + 1] = e
               /\ \A k \in 1..Len(t) : Append(t, e)[k] = t[k]
        OBVIOUS
      <4>3. /\ Len(Append(delivered, buffer)) = Len(delivered) + 1
            /\ Append(delivered, buffer)[Len(delivered) + 1] = buffer
            /\ \A k \in 1..Len(delivered) : Append(delivered, buffer)[k] = delivered[k]
        BY <4>1, <4>2, Zenon
      <4> QED BY <3>1, <4>3
    <3>3. \A m \in 1..Len(messages) : \A i \in 1..Len(messages[m]) :
              Taken(0, m, i)' <=> Taken(c, m, i) \/ Has(1, m, i)
      BY <1>5, <2>3, <2>5, <3>1, <3>2, ShapeFacts DEF Taken, Coming
    <3>4. Content(n) = [k \in 1..(c + 1) |-> <<n, k>>]
      BY <3>1 DEF Content
    <3>5. IF n \in hit THEN IsSuffix(buffer, Content(n)) ELSE buffer = Content(n)
      <4>1. CASE n \in hit
        <5>1. s + 1 \in 1..(c + 1)
          OBVIOUS
        <5>2. buffer = SubSeq([k \in 1..(c + 1) |-> <<n, k>>], s + 1, c + 1)
          OBVIOUS
        <5>3. Len(Content(n)) = c + 1
          BY <3>4
        <5> QED BY <3>4, <4>1, <5>1, <5>2, <5>3 DEF IsSuffix
      <4>2. CASE n \notin hit
        <5>1. s = 0
          BY <1>4, <4>2 DEF Cursor, Coming
        <5> QED BY <3>4, <4>2, <5>1
      <4> QED BY <4>1, <4>2
    <3>6. MessagesAreWhole'
      <4>1. \A k \in 1..Len(delivered') : k \in 1..Len(delivered) \/ k = n
        BY <1>5, <3>2
      <4>2. \A k : Content(k)' = Content(k)
        BY <1>1 DEF Content
      <4>3. Len(delivered') <= Len(messages')
        BY <1>1, <2>1, <3>2
      <4>4. \A k \in 1..Len(delivered) :
              IF k \in hit THEN IsSuffix(delivered[k], Content(k)) ELSE delivered[k] = Content(k)
        BY <1>4 DEF MessagesAreWhole
      <4>5. \A k \in 1..Len(delivered') :
              IF k \in hit THEN IsSuffix(delivered'[k], Content(k)) ELSE delivered'[k] = Content(k)
        BY <3>2, <3>5, <4>1, <4>4
      <4> QED BY <1>1, <4>2, <4>3, <4>5 DEF MessagesAreWhole, IsSuffix
    <3>7. Cursor(0, 0)'
      <4>1. Coming' = n + 1
        BY <3>2 DEF Coming
      <4>2. \/ Coming' \in 1..Len(messages') /\ 0 < Len(messages'[Coming'])
            \/ Coming' = Len(messages') + 1 /\ 0 = 0 /\ ~Pending'
        <5>1. CASE n < Len(messages)
          <6>1. n + 1 \in 1..Len(messages)
            BY <1>5, <2>1, <5>1
          <6>2. Len(messages[n + 1]) >= 1 /\ Len(messages[n + 1]) \in Nat
            BY <6>1, ShapeFacts
          <6> QED BY <1>1, <4>1, <6>1, <6>2
        <5>2. CASE n = Len(messages)
          <6>1. c + 1 <= piece
            BY <2>1, <5>2 DEF Sent
          <6>2. messages # <<>>
            BY <2>1, <5>2
          <6>3. piece \in 1..Len(Last)
            BY <6>2 DEF TypeOK
          <6>4. ~Pending
            BY <2>5, <3>1, <5>2, <6>1, <6>3 DEF Pending, Last
          <6>5. Pending' <=> Pending
            BY <1>1 DEF Pending, Last
          <6> QED BY <1>1, <4>1, <5>2, <6>4, <6>5
        <5> QED BY <1>5, <2>1, <5>1, <5>2
      <4>3. msg' = [k \in 1..(0 - 0) |-> <<Coming', 0 + k>>]
        BY <3>1
      <4> QED BY <4>2, <4>3 DEF Cursor
    <3>8. 0 \in Nat /\ 0 \in 0..0
      OBVIOUS
    <3> QED BY <1>8, <3>3, <3>6, <3>7, <3>8
  <2> QED BY <2>6, <2>7
<1> QED BY <1>6, <1>9, <1>10, <1>11, <1>12 DEF Kinds, IsData

(* The server begins a message. *)
LEMMA WholeStarts ==
    ASSUME TypeOK, WholeInv, NEW t \in Shapes, ServerStarts(t)
    PROVE  WholeInv'
<1> DEFINE x == Len(messages) + 1
           f == Frame(t[1].kind, t[1].left, t[1].cont, x, 1)
<1>1. /\ at \in Streaming /\ ~Pending /\ messages' = Append(messages, t) /\ piece' = 1
      /\ UNCHANGED <<at, msg, delivered, hit>>
  BY DEF ServerStarts, IsOpen, Streaming, client
<1>2. /\ Len(messages) \in Nat /\ Len(delivered) \in Nat
      /\ Len(messages') = x /\ messages'[x] = t
      /\ \A m \in 1..Len(messages) : messages'[m] = messages[m]
  <2>1. \A S : \A u \in Seq(S) : Len(u) \in Nat
    OBVIOUS
  <2>2. messages \in Seq(Shapes) /\ Len(delivered) \in Nat
    BY <2>1, Zenon DEF TypeOK
  <2> QED BY <1>1, <2>2
<1>3. t \in Seq(Piece) /\ Len(t) \in Nat /\ Len(t) >= 1 /\ t[1] \in Piece
  BY WebSocketConstants DEF IsShape
<1>4. inbox' = Append(inbox, f)
  BY <1>2 DEF ServerStarts
<1>5. PICK c \in Nat : \E s \in 0..c : Stream(c, s)
  BY <1>1 DEF WholeInv, StreamInv
<1>6. PICK s \in 0..c : Stream(c, s)
  BY <1>5
<1>7. MessagesAreWhole /\ Cursor(c, s) /\ Sound(c) /\ Ordered /\ Kept(c) /\ Pongs(c)
  BY <1>6 DEF WholeInv, Stream
<1>8. f \in Frames /\ IsData(f) /\ f.m = x /\ f.i = 1
      /\ f.left = messages'[x][1].left /\ f.cont = messages'[x][1].cont
  BY <1>2, <1>3 DEF Frame, Frames, Piece, Kinds, IsData
<1>9. messages # <<>> => piece = Len(Last) /\ Len(Last) \in Nat /\ Len(messages) >= 1
  <2>1. SUFFICES ASSUME messages # <<>>
                 PROVE piece = Len(Last) /\ Len(Last) \in Nat /\ Len(messages) >= 1
    OBVIOUS
  <2>2. Len(messages) >= 1
    BY <2>1 DEF TypeOK
  <2>3. Len(Last) \in Nat
    BY <1>2, <2>2, ShapeFacts DEF Last
  <2>4. piece \in 1..Len(Last)
    BY <2>1 DEF TypeOK
  <2> QED BY <1>1, <2>1, <2>2, <2>3, <2>4 DEF Pending
<1>10. \A m, i \in Nat : Sent(m, i)' <=> Sent(m, i) \/ (m = x /\ i = 1)
  <2> SUFFICES ASSUME NEW m \in Nat, NEW i \in Nat
               PROVE  Sent(m, i)' <=> Sent(m, i) \/ (m = x /\ i = 1)
    OBVIOUS
  <2>1. CASE m = x
    <3>1. Sent(m, i)' <=> i \in 1..Len(t) /\ i <= 1
      BY <1>1, <1>2, <2>1 DEF Sent
    <3>2. ~Sent(m, i)
      BY <1>2, <2>1 DEF Sent
    <3> QED BY <1>3, <2>1, <3>1, <3>2
  <2>2. CASE m # x
    <3>1. Sent(m, i)' <=> m \in 1..Len(messages) /\ i \in 1..Len(messages[m])
      BY <1>1, <1>2, <2>2 DEF Sent
    <3>2. Sent(m, i) <=> m \in 1..Len(messages) /\ i \in 1..Len(messages[m])
      <4>1. CASE m = Len(messages) /\ messages # <<>>
        BY <1>9, <4>1 DEF Sent, Last
      <4>2. CASE m # Len(messages)
        BY <4>2 DEF Sent
      <4>3. CASE messages = <<>>
        BY <4>3 DEF Sent
      <4> QED BY <4>1, <4>2, <4>3
    <3> QED BY <2>2, <3>1, <3>2
  <2> QED BY <2>1, <2>2
<1>11. \A m, i \in Nat : Sent(m, i) => m < x \/ (m = x /\ i < 1)
  BY <1>2 DEF Sent
<1>12. \A i \in Nat : i > 0 => ~Taken(c, x, i)
  BY <1>2, <1>7 DEF Taken, Cursor, Coming
<1>13. (Sound(c) /\ Ordered /\ Kept(c) /\ Pongs(c))'
  <2>1. x \in Nat /\ 1 \in Nat /\ ~Taken(c, x, 1)
    BY <1>2, <1>12
  <2>2. Len(messages') \in {Len(messages), Len(messages) + 1}
    BY <1>2
  <2> HIDE DEF f
  <2> QED BY <1>1, <1>2, <1>4, <1>7, <1>8, <1>10, <1>11, <1>12, <2>1, <2>2, AppendData
<1>14. Cursor(c, s)'
  <2>1. Coming' = Coming /\ Coming \in Nat /\ Coming >= 1
    BY <1>1, <1>2 DEF Coming
  <2>2. Coming' \in 1..Len(messages') /\ c < Len(messages'[Coming'])
    BY <1>2, <1>3, <1>7, <2>1 DEF Cursor
  <2>3. c > 0 => Sent(Coming, c)'
    <3>1. \A m \in Nat : Sent(m, c) => Sent(m, c)'
      BY <1>10
    <3>2. \A m \in Nat : Coming' = m => (Sent(Coming, c)' <=> Sent(m, c)')
      BY DEF Sent
    <3> QED BY <1>7, <2>1, <3>1, <3>2 DEF Cursor
  <2> QED BY <1>1, <1>7, <2>1, <2>2, <2>3 DEF Cursor
<1>15. MessagesAreWhole'
  <2>1. \A k \in 1..Len(delivered) : Content(k)' = Content(k)
    BY <1>2, <1>7 DEF MessagesAreWhole, Content
  <2>2. /\ Len(delivered) <= Len(messages)
        /\ \A k \in 1..Len(delivered) :
              IF k \in hit THEN IsSuffix(delivered[k], Content(k)) ELSE delivered[k] = Content(k)
    BY <1>7 DEF MessagesAreWhole
  <2>3. Len(delivered') <= Len(messages')
    BY <1>1, <1>2, <2>2
  <2>4. \A k \in 1..Len(delivered') :
          IF k \in hit' THEN IsSuffix(delivered'[k], Content(k)') ELSE delivered'[k] = Content(k)'
    BY <1>1, <2>1, <2>2
  <2> QED BY <2>3, <2>4 DEF MessagesAreWhole, IsSuffix
<1>16. Stream(c, s)'
  BY <1>13, <1>14 DEF Stream
<1> QED BY <1>15, <1>16 DEF WholeInv, StreamInv

(* The server goes on with a message. *)
LEMMA WholeContinues ==
    ASSUME TypeOK, WholeInv, ServerContinues
    PROVE  WholeInv'
<1>1. /\ at \in Streaming /\ Pending /\ piece' = piece + 1
      /\ UNCHANGED <<at, msg, delivered, hit, messages>>
  BY DEF ServerContinues, IsOpen, Streaming, client
<1>2. Len(messages) \in Nat /\ Len(delivered) \in Nat /\ messages # <<>> /\ Len(messages) >= 1
  <2>1. \A S : \A u \in Seq(S) : Len(u) \in Nat
    OBVIOUS
  <2>2. messages \in Seq(Shapes) /\ Len(delivered) \in Nat
    BY <2>1, Zenon DEF TypeOK
  <2> QED BY <1>1, <2>2 DEF Pending
<1>3. Last \in Seq(Piece) /\ Len(Last) \in Nat
  <2>1. Last \in Shapes
    BY <1>2 DEF Last, TypeOK
  <2> QED BY <2>1, WebSocketConstants DEF IsShape
<1>4. piece \in 1..Len(Last) /\ piece < Len(Last) /\ piece' \in 1..Len(Last)
  BY <1>1, <1>2, <1>3 DEF TypeOK, Pending
<1>5. PICK x \in Nat : x = Len(messages)
  BY <1>2
<1>6. PICK y \in Nat : y = piece + 1
  BY <1>3, <1>4
<1> DEFINE p == messages[x][y]
           f == Frame(p.kind, p.left, p.cont, x, y)
<1>7. inbox' = Append(inbox, f)
  BY <1>1, <1>5, <1>6 DEF ServerContinues, Last
<1>8. p \in Piece
  BY <1>3, <1>4, <1>5, <1>6, <1>1 DEF Last
<1>9. f \in Frames /\ IsData(f) /\ f.m = x /\ f.i = y
      /\ f.left = messages'[x][y].left /\ f.cont = messages'[x][y].cont
  BY <1>1, <1>8 DEF Frame, Frames, Piece, Kinds, IsData
<1>10. PICK c \in Nat : \E s \in 0..c : Stream(c, s)
  BY <1>1 DEF WholeInv, StreamInv
<1>11. PICK s \in 0..c : Stream(c, s)
  BY <1>10
<1>12. MessagesAreWhole /\ Cursor(c, s) /\ Sound(c) /\ Ordered /\ Kept(c) /\ Pongs(c)
  BY <1>11 DEF WholeInv, Stream
<1>13. \A m, i \in Nat : Sent(m, i)' <=> Sent(m, i) \/ (m = x /\ i = y)
  <2> SUFFICES ASSUME NEW m \in Nat, NEW i \in Nat
               PROVE  Sent(m, i)' <=> Sent(m, i) \/ (m = x /\ i = y)
    OBVIOUS
  <2>1. CASE m = x
    <3>1. messages[m] = Last /\ m \in 1..Len(messages)
      BY <1>2, <1>5, <2>1 DEF Last
    <3>2. /\ Sent(m, i)' <=> i \in 1..Len(Last) /\ i <= piece + 1
          /\ Sent(m, i) <=> i \in 1..Len(Last) /\ i <= piece
      BY <1>1, <1>5, <2>1, <3>1 DEF Sent
    <3> QED BY <1>1, <1>3, <1>4, <1>6, <2>1, <3>2
  <2>2. CASE m # x
    BY <1>1, <1>5, <2>2 DEF Sent
  <2> QED BY <2>1, <2>2
<1>14. \A m, i \in Nat : Sent(m, i) => m < x \/ (m = x /\ i < y)
  BY <1>2, <1>3, <1>4, <1>5, <1>6 DEF Sent
<1>15. Coming \in 1..x /\ (Coming = x => c < y)
  <2>1. Coming \in 1..x
    BY <1>1, <1>2, <1>5, <1>12 DEF Cursor
  <2>2. Coming = x /\ c > 0 => c <= piece
    BY <1>5, <1>12 DEF Cursor, Sent
  <2> QED BY <1>4, <1>6, <1>3, <2>1, <2>2
<1>16. ~Taken(c, x, y) /\ \A i \in Nat : i > 0 => ~Taken(c, Len(messages) + 1, i)
  BY <1>2, <1>5, <1>15 DEF Taken
<1>17. (Sound(c) /\ Ordered /\ Kept(c) /\ Pongs(c))'
  <2>1. /\ Len(messages') \in {Len(messages), Len(messages) + 1}
        /\ \A m \in 1..Len(messages) : messages'[m] = messages[m]
    BY <1>1
  <2>2. UNCHANGED <<delivered, hit>>
    BY <1>1
  <2> HIDE DEF f, p
  <2> QED BY <1>7, <1>9, <1>12, <1>13, <1>14, <1>16, <2>1, <2>2, AppendData
<1>18. Cursor(c, s)'
  <2>1. Coming' = Coming /\ Coming \in Nat /\ Coming \in 1..Len(messages)
    BY <1>1, <1>2, <1>5, <1>15 DEF Coming
  <2>2. c > 0 => Sent(Coming, c)'
    <3>1. \A m \in Nat : Sent(m, c) => Sent(m, c)'
      BY <1>13
    <3>2. \A m \in Nat : Coming' = m => (Sent(Coming, c)' <=> Sent(m, c)')
      BY DEF Sent
    <3> QED BY <1>12, <2>1, <3>1, <3>2 DEF Cursor
  <2>3. c < Len(messages[Coming])
    BY <1>2, <1>12, <2>1 DEF Cursor
  <2> QED BY <1>1, <1>12, <2>1, <2>2, <2>3 DEF Cursor
<1>19. MessagesAreWhole'
  BY <1>1, <1>12 DEF MessagesAreWhole, Content, IsSuffix
<1>20. Stream(c, s)'
  BY <1>17, <1>18 DEF Stream
<1> QED BY <1>19, <1>20 DEF WholeInv, StreamInv

(* The server sends a ping, a pong or a close frame. *)
LEMMA WholeControls ==
    ASSUME TypeOK, WholeInv, ServerCloses \/ \E kind \in {"ping", "pong"} : ServerControls(kind)
    PROVE  WholeInv'
<1>1. /\ at \in Streaming /\ UNCHANGED <<at, msg, delivered, messages, piece>>
  BY DEF ServerCloses, ServerControls, IsOpen, Streaming, client, server
<1>2. PICK kind \in {"ping", "pong", "close"} :
        /\ inbox' = Append(inbox, Frame(kind, FALSE, FALSE, 0, 0))
        /\ hit' = IF Pending /\ kind = "pong" THEN hit \cup {Len(messages)} ELSE hit
  BY DEF ServerCloses, ServerControls, server
<1> DEFINE f == Frame(kind, FALSE, FALSE, 0, 0)
<1>3. f \in Frames /\ ~IsData(f) /\ f.kind = kind /\ IsWhole(f)
  BY DEF Frame, Frames, Kinds, IsData, IsWhole
<1>4. PICK c \in Nat : \E s \in 0..c : Stream(c, s)
  BY <1>1 DEF WholeInv, StreamInv
<1>5. PICK s \in 0..c : Stream(c, s)
  BY <1>4
<1>6. MessagesAreWhole /\ Cursor(c, s) /\ Sound(c) /\ Ordered /\ Kept(c) /\ Pongs(c)
  BY <1>5 DEF WholeInv, Stream
<1>7. hit \subseteq hit' /\ (kind = "pong" /\ Pending => Len(messages) \in hit')
  BY <1>2
<1>8. (Sound(c) /\ Ordered /\ Kept(c) /\ Pongs(c))'
  <2>1. inbox' = Append(inbox, f) /\ (f.kind = "pong" => IsWhole(f) /\ (Pending => Len(messages) \in hit'))
    BY <1>2, <1>3, <1>7
  <2> HIDE DEF f
  <2> QED BY <1>1, <1>3, <1>6, <1>7, <2>1, AppendControl
<1>9. Cursor(c, s)'
  BY <1>1, <1>6, <1>7 DEF Cursor, Coming, Sent, Pending, Last
<1>10. MessagesAreWhole'
  <2>1. \A k \in 1..Len(delivered) : k \in hit' <=> k \in hit
    <3>1. Len(delivered) \in Nat /\ Len(messages) \in Nat
      <4>1. \A S : \A u \in Seq(S) : Len(u) \in Nat
        OBVIOUS
      <4> QED BY <4>1, Zenon DEF TypeOK
    <3>2. Pending => Len(messages) \notin 1..Len(delivered)
      BY <1>6, <3>1 DEF Cursor, Coming
    <3> QED BY <1>2, <3>2
  <2>2. \A k : Content(k)' = Content(k)
    BY <1>1 DEF Content
  <2> QED BY <1>1, <1>6, <2>1, <2>2 DEF MessagesAreWhole, IsSuffix
<1>11. Stream(c, s)'
  BY <1>8, <1>9 DEF Stream
<1> QED BY <1>10, <1>11 DEF WholeInv, StreamInv

(* Every step keeps the delivered messages whole and the rest in the inbox. *)
LEMMA WholeStep ==
    ASSUME TypeOK, WholeInv, [Next]_vars
    PROVE  WholeInv'
<1>1. CASE Connect \/ \E a \in Callers : Send(a) \/ Disconnect(a) \/ LockCurl(a) \/ CurlSend(a)
  BY <1>1, WholeFrame DEF Connect, Send, Disconnect, LockCurl, CurlSend, server, Streaming
<1>2. CASE PerformFails \/ PerformSucceeds \/ CallbackReturns \/ RecvLock \/ RecvAgain
           \/ PollEnds \/ PongLock \/ PongSent
  BY <1>2, WholeFrame DEF PerformFails, PerformSucceeds, CallbackReturns, RecvLock, RecvAgain,
     PollEnds, PongLock, PongSent, server, Streaming, Receiving, InCallback
<1>3. CASE LoopTest /\ connected
  BY <1>3, WholeFrame DEF LoopTest, server, Streaming, Receiving
<1>4. CASE (LoopTest /\ ~connected) \/ RecvFails
  <2>1. at' = "closing" /\ UNCHANGED <<delivered, messages, hit>>
    BY <1>4 DEF LoopTest, RecvFails, Break, server
  <2>2. MessagesAreWhole'
    BY <2>1 DEF WholeInv, MessagesAreWhole, Content, IsSuffix
  <2> QED BY <2>1, <2>2 DEF WholeInv, StreamInv, Streaming, Receiving
<1>5. CASE RecvFrame
  BY <1>5, WholeRecv
<1>6. CASE \E t \in Shapes : ServerStarts(t)
  BY <1>6, WholeStarts
<1>7. CASE ServerContinues
  BY <1>7, WholeContinues
<1>8. CASE ServerCloses \/ \E kind \in {"ping", "pong"} : ServerControls(kind)
  BY <1>8, WholeControls
<1>9. CASE ConnectionBreaks
  BY <1>9, WholeFrame DEF ConnectionBreaks, client
<1>10. CASE UNCHANGED vars
  BY <1>10, WholeFrame DEF vars, client, server
<1> QED BY <1>1, <1>2, <1>3, <1>4, <1>5, <1>6, <1>7, <1>8, <1>9, <1>10 DEF Next, Receive

(* The messages the server sends get to the game whole, each at most once and in
   their order, for any cut into frames and reads; one with a pong between its
   fragments loses the pieces before the pong and nothing else. *)
THEOREM MessagesWhole == Spec => []MessagesAreWhole
<1>1. Init => WholeInv
  <2> SUFFICES ASSUME Init PROVE WholeInv
    OBVIOUS
  <2>1. Len(delivered) = 0 /\ Len(messages) = 0 /\ Len(inbox) = 0 /\ ~Pending /\ msg = <<>>
    BY DEF Init, Pending
  <2>2. MessagesAreWhole
    BY <2>1 DEF MessagesAreWhole
  <2>3. Cursor(0, 0)
    BY <2>1 DEF Cursor, Coming
  <2>4. Sound(0) /\ Ordered /\ Kept(0) /\ Pongs(0)
    BY <2>1 DEF Sound, Ordered, Kept, Pongs
  <2>5. 0 \in Nat /\ 0 \in 0..0 /\ Stream(0, 0)
    BY <2>3, <2>4 DEF Stream
  <2>6. StreamInv
    BY <2>5 DEF StreamInv
  <2> QED BY <2>2, <2>6 DEF WholeInv
<1>2. TypeOK /\ WholeInv /\ [Next]_vars => WholeInv'
  BY WholeStep
<1>3. WholeInv => MessagesAreWhole
  BY DEF WholeInv
<1> QED BY <1>1, <1>2, <1>3, CurlAlways, PTL DEF Spec
=============================================================================
