---------------------------- MODULE WSClientProofs ----------------------------
(***************************************************************************)
(* Safety of WSClient for every set of calls and of goroutines that        *)
(* connect, every number of sockets and of faults, and the refinement of   *)
(* SignalTransport.                                                        *)
(***************************************************************************)
EXTENDS WSClient, WellFoundedInduction, TLAPS

\* connectMu: one Connect at a time, and only while there is no connection.
OneConnector ==
    /\ \A p, q \in Connector : conn[p] # "idle" /\ conn[q] # "idle" => p = q
    /\ \A p \in Connector : conn[p] # "idle" => cur = 0

\* A Connect holds a socket exactly when it is about to install it, and that
\* socket was opened and has no reader.
HeldToInstall ==
    /\ \A p \in Connector : conn[p] = "install" <=> held[p] # 0
    /\ \A p \in Connector : held[p] # 0 =>
         sock[held[p]] # "none" /\ reader[held[p]] = "none"

\* A reader belongs to a socket that was opened, and ends after it.
ReaderOfSocket ==
    /\ \A k \in Sock : sock[k] = "none" => reader[k] = "none"
    /\ \A k \in Sock : reader[k] = "ending" => sock[k] = "closed"

Unsent(c) == \A k \in Sock : <<c, k>> \notin reqs
Unanswered(c) == \A k \in Sock, r \in {"ok", "error"} : <<c, k, r>> \notin resps

\* A call has one request and one answer, one after the other: before it is
\* written there is neither, while the request is on its way the signal has not
\* been relayed and nothing has been answered, and an answer that says so comes
\* of a signal that was relayed.
OneAnswer ==
    /\ \A c \in Call : state[c] \in {"idle", "writing"} =>
         relayed[c] = 0 /\ box[c] = "none" /\ Unanswered(c) /\ Unsent(c)
    /\ \A c \in Call, k \in Sock : <<c, k>> \in reqs =>
         /\ state[c] \in {"waiting", "failed"}
         /\ relayed[c] = 0 /\ box[c] = "none" /\ Unanswered(c)
         /\ \A j \in Sock : <<c, j>> \in reqs => j = k
    /\ \A c \in Call, k \in Sock : <<c, k, "ok">> \in resps => relayed[c] = 1
    /\ \A c \in Call : box[c] = "ok" => relayed[c] = 1

IInv ==
    /\ TypeOK
    /\ OneConnector
    /\ HeldToInstall
    /\ ReaderOfSocket
    /\ OneSocket
    /\ OneAnswer

-----------------------------------------------------------------------------
(* Type correctness.                                                       *)

\* The next free socket, while there is one.
NextSock == CHOOSE j \in Unused : \A i \in Unused : j <= i

LEMMA NextSockFree ==
    ASSUME Unused # {}
    PROVE  NextSock \in Unused
<1>1. Unused \subseteq Nat  BY WSClientAssumption DEF Unused, Sock
<1>2. PICK j \in Unused : \A i \in Unused : ~ (<<i, j>> \in OpToRel(<, Nat))
  BY <1>1, NatLessThanWellFounded, WFMin
<1>3. \A i \in Unused : ~ (i < j)
  BY <1>1, <1>2, Zenon DEF OpToRel
<1>4. \A i \in Unused : j <= i
  BY <1>1, <1>3
<1> QED  BY <1>4 DEF NextSock

LEMMA TypeInit == Init => TypeOK
BY WSClientAssumption DEF Init, TypeOK, Active, Sock

LEMMA TypeStep == TypeOK /\ OneAnswer /\ [Next]_vars => TypeOK'
<1> SUFFICES ASSUME TypeOK, OneAnswer, [Next]_vars PROVE TypeOK'  OBVIOUS
<1> USE WSClientAssumption DEF Active, sockVars, callVars
<1>1. ASSUME NEW p \in Connector, Connect(p) PROVE TypeOK'
  BY <1>1 DEF Connect, TypeOK
<1>2. ASSUME NEW p \in Connector, DialContext(p) PROVE TypeOK'
  <2>1. CASE Unused # {} /\ sock' = [sock EXCEPT ![NextSock] = "open"]
                         /\ held' = [held EXCEPT ![p] = NextSock]
                         /\ UNCHANGED faults /\ conn' = [conn EXCEPT ![p] = "install"]
    <3>1. NextSock \in 0..MaxSocks  BY <2>1, NextSockFree DEF Unused, Sock
    <3> QED  BY <1>2, <2>1, <3>1 DEF DialContext, TypeOK
  <2>2. CASE UNCHANGED <<sock, held>> /\ conn' = [conn EXCEPT ![p] = "idle"]
    BY <1>2, <2>2 DEF DialContext, TypeOK
  <2> QED  BY <1>2, <2>1, <2>2 DEF DialContext, NextSock
<1>3. ASSUME NEW p \in Connector, Install(p) PROVE TypeOK'
  BY <1>3 DEF Install, TypeOK
<1>4. ASSUME NEW k \in Sock, HandleMessage(k) PROVE TypeOK'
  BY <1>4 DEF HandleMessage, TypeOK
<1>5. ASSUME NEW k \in Sock, ReadError(k) PROVE TypeOK'
  BY <1>5 DEF ReadError, TypeOK
<1>6. ASSUME NEW k \in Sock, Disconnected(k) PROVE TypeOK'
  BY <1>6 DEF Disconnected, TypeOK
<1>7. ASSUME NEW k \in Sock, SocketDies(k) PROVE TypeOK'
  BY <1>7 DEF SocketDies, TypeOK
<1>8. ASSUME NEW c \in Call, SendRequest(c) PROVE TypeOK'
  BY <1>8 DEF SendRequest, TypeOK
<1>9. ASSUME NEW c \in Call, WriteMessage(c) PROVE TypeOK'
  <2>1. CASE /\ via[c] # 0 /\ reqs' = reqs \cup {<<c, via[c]>>}
             /\ state' = [state EXCEPT ![c] = "waiting"]
             /\ UNCHANGED <<via, pending, box>>
    BY <1>9, <2>1 DEF WriteMessage, TypeOK, Sock
  <2>2. CASE /\ state' = [state EXCEPT ![c] = "waiting"]
             /\ UNCHANGED <<via, pending, box, reqs>>
    BY <1>9, <2>2 DEF WriteMessage, TypeOK
  <2>3. CASE Return(c, "failed") /\ UNCHANGED reqs
    BY <1>9, <2>3 DEF WriteMessage, Return, TypeOK
  <2> QED  BY <1>9, <2>1, <2>2, <2>3 DEF WriteMessage
<1>10. ASSUME NEW c \in Call, Respond(c) PROVE TypeOK'
  BY <1>10 DEF Respond, Return, TypeOK
<1>11. ASSUME NEW c \in Call, Timeout(c) PROVE TypeOK'
  BY <1>11 DEF Timeout, Return, TypeOK
<1>12. ASSUME NEW c \in Call, NEW k \in Sock, Relay(c, k) PROVE TypeOK'
  <2>1. relayed[c] = 0  BY <1>12 DEF Relay, OneAnswer
  <2> QED  BY <1>12, <2>1 DEF Relay, TypeOK
<1>13. CASE Cancel  BY <1>13 DEF Cancel, TypeOK
<1>14. CASE Close  BY <1>14 DEF Close, TypeOK, Sock
<1>15. CASE UNCHANGED vars  BY <1>15 DEF vars, TypeOK
<1> QED
  BY <1>1, <1>2, <1>3, <1>4, <1>5, <1>6, <1>7, <1>8, <1>9, <1>10, <1>11, <1>12, <1>13,
     <1>14, <1>15 DEF Next, ConnectorStep, ReaderStep, CallStep

-----------------------------------------------------------------------------
(* Sockets: connectMu keeps two Connects from installing one each, and the *)
(* end of a reader never drops a connection that replaced its own.         *)

SocketInv == OneConnector /\ HeldToInstall /\ ReaderOfSocket /\ OneSocket

LEMMA SocketInit == Init => SocketInv
BY DEF Init, SocketInv, OneConnector, HeldToInstall, ReaderOfSocket, OneSocket, Sock

LEMMA SocketStep == TypeOK /\ SocketInv /\ [Next]_vars => SocketInv'
<1> SUFFICES ASSUME TypeOK, SocketInv, [Next]_vars PROVE SocketInv'  OBVIOUS
<1> USE DEF SocketInv, OneConnector, HeldToInstall, ReaderOfSocket, OneSocket
<1>1. ASSUME NEW p \in Connector, Connect(p) PROVE SocketInv'
  BY <1>1 DEF Connect, TypeOK
<1>2. ASSUME NEW p \in Connector, DialContext(p) PROVE SocketInv'
  <2>1. CASE Unused # {} /\ sock' = [sock EXCEPT ![NextSock] = "open"]
                         /\ held' = [held EXCEPT ![p] = NextSock]
                         /\ conn' = [conn EXCEPT ![p] = "install"]
    <3>1. NextSock \in Sock /\ NextSock # 0 /\ sock[NextSock] = "none"
      BY <2>1, NextSockFree, WSClientAssumption DEF Unused, Sock
    <3>2. cur = 0 /\ \A k \in Sock : sock[k] # "open"
      <4>1. conn[p] = "dial" /\ cur = 0  BY <1>2 DEF DialContext
      <4>2. \A q \in Connector : held[q] = 0  BY <4>1 DEF TypeOK
      <4> QED  BY <4>1, <4>2, WSClientAssumption DEF Sock
    <3> QED  BY <1>2, <2>1, <3>1, <3>2 DEF DialContext, TypeOK
  <2>2. CASE UNCHANGED <<sock, held>> /\ conn' = [conn EXCEPT ![p] = "idle"]
    BY <1>2, <2>2 DEF DialContext, TypeOK
  <2> QED  BY <1>2, <2>1, <2>2 DEF DialContext, NextSock
<1>3. ASSUME NEW p \in Connector, Install(p) PROVE SocketInv'
  <2>1. held[p] \in Sock /\ held[p] # 0
    BY <1>3, WSClientAssumption DEF Install, TypeOK, Sock
  <2>2. \A q \in Connector : q # p => conn[q] = "idle" /\ held[q] = 0
    BY <1>3 DEF Install, TypeOK
  <2>3. cur = 0 /\ sock[held[p]] # "none" /\ reader[held[p]] = "none"
    BY <1>3, <2>1 DEF Install
  <2>4. CASE closing # "no"
    BY <1>3, <2>1, <2>2, <2>3, <2>4 DEF Install, TypeOK
  <2>5. CASE closing = "no"
    <3>1. /\ cur' = held[p] /\ sock' = sock
          /\ reader' = [reader EXCEPT ![held[p]] = "reading"]
          /\ conn' = [conn EXCEPT ![p] = "idle"]
          /\ held' = [held EXCEPT ![p] = 0]
      BY <1>3, <2>5 DEF Install
    <3>2. \A q \in Connector : conn'[q] = "idle" /\ held'[q] = 0
      BY <2>2, <3>1 DEF TypeOK
    <3>3. OneSocket'
      BY <2>1, <2>2, <2>3, <3>1 DEF TypeOK
    <3>4. ReaderOfSocket'
      BY <2>1, <2>3, <3>1 DEF TypeOK
    <3> QED  BY <3>2, <3>3, <3>4
  <2> QED  BY <2>4, <2>5
<1>4. ASSUME NEW k \in Sock, HandleMessage(k) PROVE SocketInv'
  BY <1>4 DEF HandleMessage, sockVars
<1>5. ASSUME NEW k \in Sock, ReadError(k) PROVE SocketInv'
  BY <1>5 DEF ReadError, TypeOK
<1>6. ASSUME NEW k \in Sock, Disconnected(k) PROVE SocketInv'
  BY <1>6 DEF Disconnected, TypeOK
<1>7. ASSUME NEW k \in Sock, SocketDies(k) PROVE SocketInv'
  BY <1>7 DEF SocketDies, TypeOK
<1>8. ASSUME NEW c \in Call, SendRequest(c) \/ CallStep(c) PROVE SocketInv'
  BY <1>8 DEF SendRequest, CallStep, WriteMessage, Respond, Timeout, sockVars
<1>9. ASSUME NEW c \in Call, NEW k \in Sock, Relay(c, k) PROVE SocketInv'
  BY <1>9 DEF Relay, sockVars
<1>10. CASE Cancel  BY <1>10 DEF Cancel
<1>11. CASE Close
  <2>1. CASE cur = 0  BY <1>11, <2>1 DEF Close, TypeOK
  <2>2. CASE cur # 0
    <3>1. cur \in Sock  BY <2>2, WSClientAssumption DEF TypeOK, Sock
    <3> QED  BY <1>11, <2>2, <3>1 DEF Close, TypeOK
  <2> QED  BY <2>1, <2>2
<1>12. CASE UNCHANGED vars  BY <1>12 DEF vars, sockVars
<1> QED
  BY <1>1, <1>2, <1>3, <1>4, <1>5, <1>6, <1>7, <1>8, <1>9, <1>10, <1>11, <1>12
  DEF Next, ConnectorStep, ReaderStep, CallStep

-----------------------------------------------------------------------------
(* Answers: one request, one answer, and that of the call's own signal.    *)

LEMMA AnswerInit == Init => OneAnswer
BY DEF Init, OneAnswer, Unsent, Unanswered

LEMMA AnswerStep == TypeOK /\ OneAnswer /\ [Next]_vars => OneAnswer'
<1> SUFFICES ASSUME TypeOK, OneAnswer, [Next]_vars PROVE OneAnswer'  OBVIOUS
<1> USE DEF OneAnswer, Unsent, Unanswered, Active, callVars, sockVars
<1>1. ASSUME NEW k \in Sock, HandleMessage(k) PROVE OneAnswer'
  <2>1. PICK m \in resps : /\ resps' = resps \ {m} /\ pending' = pending \ {m[1]}
                           /\ box' = IF m[1] \in pending THEN [box EXCEPT ![m[1]] = m[3]] ELSE box
                           /\ UNCHANGED <<sockVars, state, via, reqs, relayed, faults>>
    BY <1>1 DEF HandleMessage
  <2>2. PICK d \in Call, j \in Sock, r \in {"ok", "error"} : m = <<d, j, r>>
    BY <2>1 DEF TypeOK
  <2>3. /\ resps' = resps \ {<<d, j, r>>}
        /\ box' = IF d \in pending THEN [box EXCEPT ![d] = r] ELSE box
    BY <2>1, <2>2
  <2>4. r = "ok" => relayed[d] = 1  BY <2>1, <2>2
  <2>5. Unsent(d) /\ state[d] \notin {"idle", "writing"}  BY <2>1, <2>2 DEF TypeOK
  <2> QED  BY <2>1, <2>3, <2>4, <2>5 DEF TypeOK
<1>2. ASSUME NEW c \in Call, SendRequest(c) PROVE OneAnswer'
  BY <1>2 DEF SendRequest, TypeOK
<1>3. ASSUME NEW c \in Call, WriteMessage(c) PROVE OneAnswer'
  <2>1. CASE /\ via[c] # 0 /\ reqs' = reqs \cup {<<c, via[c]>>}
             /\ state' = [state EXCEPT ![c] = "waiting"]
             /\ UNCHANGED <<via, pending, box>>
    BY <1>3, <2>1 DEF WriteMessage, TypeOK
  <2>2. CASE /\ state' = [state EXCEPT ![c] = "waiting"]
             /\ UNCHANGED <<via, pending, box, reqs>>
    BY <1>3, <2>2 DEF WriteMessage, TypeOK
  <2>3. CASE Return(c, "failed") /\ UNCHANGED reqs
    BY <1>3, <2>3 DEF WriteMessage, Return, TypeOK
  <2> QED  BY <1>3, <2>1, <2>2, <2>3 DEF WriteMessage
<1>4. ASSUME NEW c \in Call, Respond(c) PROVE OneAnswer'
  BY <1>4 DEF Respond, Return, TypeOK
<1>5. ASSUME NEW c \in Call, Timeout(c) PROVE OneAnswer'
  BY <1>5 DEF Timeout, Return, TypeOK
<1>6. ASSUME NEW c \in Call, NEW k \in Sock, Relay(c, k) PROVE OneAnswer'
  <2>1. PICK r \in {"ok", "error"} :
          /\ relayed' = IF r = "ok" THEN [relayed EXCEPT ![c] = @ + 1] ELSE relayed
          /\ resps' = resps \cup {<<c, k, r>>}
    BY <1>6 DEF Relay
  <2>2. /\ relayed[c] = 0 /\ box[c] = "none" /\ Unanswered(c)
        /\ state[c] \in {"waiting", "failed"}
        /\ reqs' = reqs \ {<<c, k>>} /\ UNCHANGED <<state, box>>
        /\ \A j \in Sock : <<c, j>> \in reqs => j = k
    BY <1>6 DEF Relay
  <2>3. \A j \in Sock : <<c, j>> \notin reqs'  BY <2>2
  <2>4. r = "ok" => relayed'[c] = 1  BY <2>1, <2>2 DEF TypeOK
  <2>5. \A d \in Call : d # c => relayed'[d] = relayed[d]  BY <2>1 DEF TypeOK
  <2> QED  BY <2>1, <2>2, <2>3, <2>4, <2>5 DEF TypeOK
<1>7. ASSUME UNCHANGED <<callVars, reqs, resps, relayed>> PROVE OneAnswer'
  BY <1>7
<1> QED
  BY <1>1, <1>2, <1>3, <1>4, <1>5, <1>6, <1>7
  DEF Next, ConnectorStep, ReaderStep, CallStep, vars, Connect, DialContext, Install,
      ReadError, Disconnected, SocketDies, Cancel, Close

-----------------------------------------------------------------------------
LEMMA Inductive == Spec => []IInv
<1>1. Init => IInv
  BY TypeInit, SocketInit, AnswerInit DEF IInv, SocketInv
<1>2. IInv /\ [Next]_vars => IInv'
  BY TypeStep, SocketStep, AnswerStep DEF IInv, SocketInv
<1> QED  BY <1>1, <1>2, PTL DEF Spec

(* Every variable of the client keeps its type; in particular no signal is *)
(* relayed twice by the calls' requests, and a waiter registered in        *)
(* pending belongs to a call that has not returned (sendRequest's deferred *)
(* delete).                                                                *)
THEOREM TypeCorrect == Spec => []TypeOK
<1>1. IInv => TypeOK  BY DEF IInv
<1> QED  BY <1>1, Inductive, PTL

(* Connect, Close and readLoop between them leave no second socket open:   *)
(* connectMu is held from the check of the connection to its installation, *)
(* and a client closed in the meantime closes what the dial has given.     *)
THEOREM OneSocketAlways == Spec => []OneSocket
<1>1. IInv => OneSocket  BY DEF IInv
<1> QED  BY <1>1, Inductive, PTL

-----------------------------------------------------------------------------
(* Refinement of SignalTransport.                                          *)

\* How a call looks to its caller.
Seen == [c \in Call |-> IF state[c] \in Active THEN "waiting" ELSE state[c]]

LEMMA InitRefines == Init => Transport!Init
BY DEF Init, Transport!Init, Active

\* A call that returns has failed, or it has had an answer to a relayed signal.
LEMMA ReturnRefines ==
    ASSUME TypeOK, NEW c \in Call, state[c] \in Active, NEW r \in {"ok", "failed"},
           Return(c, r), UNCHANGED relayed, r = "ok" => relayed[c] = 1
    PROVE  Transport!Next
<1>1. Seen[c] = "waiting"  BY DEF Seen
<1>2. Seen' = [Seen EXCEPT ![c] = r]  BY DEF Seen, Return, TypeOK, Active
<1>3. CASE r = "ok"
  <2>1. Transport!Succeed(c)  BY <1>1, <1>2, <1>3 DEF Transport!Succeed, Seen
  <2> QED  BY <2>1 DEF Transport!Next
<1>4. CASE r = "failed"
  <2>1. Transport!Fail(c)  BY <1>1, <1>2, <1>4 DEF Transport!Fail, Seen
  <2> QED  BY <2>1 DEF Transport!Next
<1> QED  BY <1>3, <1>4

LEMMA StepRefines == IInv /\ [Next]_vars => [Transport!Next]_(Transport!vars)
<1> SUFFICES ASSUME IInv, [Next]_vars PROVE [Transport!Next]_(Transport!vars)
  OBVIOUS
<1> TypeOK /\ OneAnswer  BY DEF IInv
<1>1. ASSUME NEW c \in Call, SendRequest(c) PROVE Transport!Next
  <2>1. Seen[c] = "idle" /\ Seen' = [Seen EXCEPT ![c] = "waiting"]
    BY <1>1 DEF SendRequest, Seen, TypeOK, Active
  <2>2. Transport!Begin(c)  BY <1>1, <2>1 DEF SendRequest, Transport!Begin, Seen
  <2> QED  BY <2>2 DEF Transport!Next
<1>2. ASSUME NEW c \in Call, WriteMessage(c)
      PROVE  [Transport!Next]_(Transport!vars)
  <2>1. CASE Return(c, "failed")
    BY <1>2, <2>1, ReturnRefines DEF WriteMessage, Active
  <2>2. CASE state' = [state EXCEPT ![c] = "waiting"]
    <3>1. Seen' = Seen  BY <1>2, <2>2 DEF WriteMessage, Seen, TypeOK, Active
    <3> QED  BY <1>2, <3>1 DEF WriteMessage, Transport!vars, Seen
  <2> QED  BY <1>2, <2>1, <2>2 DEF WriteMessage
<1>3. ASSUME NEW c \in Call, Respond(c) PROVE Transport!Next
  <2>1. box[c] = "ok" => relayed[c] = 1  BY DEF OneAnswer
  <2> QED  BY <1>3, <2>1, ReturnRefines DEF Respond, Active
<1>4. ASSUME NEW c \in Call, Timeout(c) PROVE Transport!Next
  BY <1>4, ReturnRefines DEF Timeout, Active
<1>5. ASSUME NEW c \in Call, NEW k \in Sock, Relay(c, k)
      PROVE  [Transport!Next]_(Transport!vars)
  <2>1. Seen' = Seen  BY <1>5 DEF Relay, callVars, Seen
  <2>2. CASE relayed' = relayed
    BY <2>1, <2>2 DEF Transport!vars, Seen
  <2>3. CASE relayed' = [relayed EXCEPT ![c] = @ + 1]
    <3>1. relayed[c] = 0 /\ state[c] \in {"waiting", "failed"}
      BY <1>5 DEF Relay, OneAnswer
    <3>2. Transport!Relay(c)
      BY <2>1, <2>3, <3>1 DEF Transport!Relay, Seen, TypeOK, Active
    <3> QED  BY <3>2 DEF Transport!Next
  <2> QED  BY <1>5, <2>2, <2>3 DEF Relay
<1>6. ASSUME UNCHANGED <<state, relayed>> PROVE UNCHANGED Transport!vars
  BY <1>6 DEF Transport!vars
<1> QED
  BY <1>1, <1>2, <1>3, <1>4, <1>5, <1>6
  DEF Next, ConnectorStep, ReaderStep, CallStep, vars, callVars, Connect, DialContext,
      Install, HandleMessage, ReadError, Disconnected, SocketDies, Cancel, Close

(* The websocket client provides what the signaling code expects of a call *)
(* that relays a signal: whatever sockets die, whatever answers arrive     *)
(* late or never, sendRequest reports success only for a signal that was   *)
(* relayed, and only once.                                                 *)
THEOREM Relays == Spec => RelaysAsPromised
<1>1. Init => Transport!Init  BY InitRefines
<1>2. IInv /\ [Next]_vars => [Transport!Next]_(Transport!vars)  BY StepRefines
<1> QED  BY <1>1, <1>2, Inductive, PTL DEF Spec, RelaysAsPromised, Transport!Spec

-----------------------------------------------------------------------------
(* Answers under way.                                                      *)

\* A call that has not returned has its waiter or its answer, and the socket it
\* has taken was opened, so that no later dial opens it anew.
Awaited ==
    /\ cur # 0 => sock[cur] # "none"
    /\ \A c \in Call : via[c] # 0 => sock[via[c]] # "none"
    /\ \A c \in Call : state[c] = "waiting" => via[c] # 0
    /\ \A c \in Call : state[c] \in Active => c \in pending \/ box[c] # "none"
    /\ NoAnswerLost

LEMMA AwaitedInit == Init => Awaited
BY DEF Init, Awaited, NoAnswerLost, Active

\* No socket that was opened is opened again.
LEMMA AwaitedOnSockets ==
    ASSUME Awaited, UNCHANGED <<callVars, reqs, resps>>,
           \A k \in Sock : sock[k] # "none" => sock'[k] # "none",
           \A k \in Sock : sock'[k] = "open" /\ sock[k] # "none" => sock[k] = "open",
           TypeOK, cur' # 0 => sock'[cur'] # "none"
    PROVE  Awaited'
<1>1. \A c \in Call : via[c] # 0 => via[c] \in Sock
  BY WSClientAssumption DEF TypeOK, Sock
<1>2. ASSUME NEW c \in Call, state[c] = "waiting", sock'[via[c]] = "open"
      PROVE  sock[via[c]] = "open"
  BY <1>1, <1>2 DEF Awaited
<1>3. NoAnswerLost'  BY <1>2 DEF Awaited, NoAnswerLost, callVars
<1> QED  BY <1>1, <1>3 DEF Awaited, callVars

\* A call that returns waits for nothing; the others keep what they had.
LEMMA AwaitedOnReturn ==
    ASSUME TypeOK, Awaited, NEW c \in Call, NEW r \in {"ok", "failed"}, Return(c, r),
           UNCHANGED <<sockVars, reqs, resps>>
    PROVE  Awaited'
BY DEF Return, TypeOK, Awaited, NoAnswerLost, Active, sockVars

LEMMA AwaitedStep == TypeOK /\ HeldToInstall /\ Awaited /\ [Next]_vars => Awaited'
<1> SUFFICES ASSUME TypeOK, HeldToInstall, Awaited, [Next]_vars PROVE Awaited'
  OBVIOUS
<1> USE WSClientAssumption
<1>0. cur # 0 => cur \in Sock  BY DEF TypeOK, Sock
<1>1. ASSUME NEW p \in Connector, DialContext(p) PROVE Awaited'
  <2>1. CASE UNCHANGED sock
    BY <1>1, <2>1, AwaitedOnSockets DEF DialContext, Awaited
  <2>2. CASE Unused # {} /\ sock' = [sock EXCEPT ![NextSock] = "open"]
    <3>1. NextSock \in Sock /\ sock[NextSock] = "none"
      BY <2>2, NextSockFree DEF Unused
    <3>2. \A k \in Sock : sock[k] # "none" => sock'[k] = sock[k]
      BY <2>2, <3>1 DEF TypeOK
    <3>3. cur' # 0 => sock'[cur'] # "none"
      BY <1>0, <1>1, <3>2 DEF DialContext, Awaited
    <3> QED  BY <1>1, <3>2, <3>3, AwaitedOnSockets DEF DialContext
  <2> QED  BY <1>1, <2>1, <2>2 DEF DialContext, NextSock
<1>2. ASSUME NEW p \in Connector, Install(p) PROVE Awaited'
  <2>1. held[p] \in Sock /\ sock[held[p]] # "none"
    BY <1>2 DEF Install, HeldToInstall, TypeOK, Sock
  <2>2. \A k \in Sock : sock'[k] = sock[k] \/ sock'[k] = "closed"
    BY <1>2, <2>1 DEF Install, TypeOK
  <2>3. cur' # 0 => sock'[cur'] # "none"
    BY <1>0, <1>2, <2>1, <2>2 DEF Install, Awaited
  <2> QED  BY <1>2, <2>2, <2>3, AwaitedOnSockets DEF Install
<1>3. ASSUME NEW k \in Sock, ReadError(k) \/ Disconnected(k) \/ SocketDies(k)
      PROVE  Awaited'
  <2>1. \A j \in Sock : sock'[j] = sock[j] \/ (j = k /\ sock'[j] \in {"dead", "closed"})
    BY <1>3 DEF ReadError, Disconnected, SocketDies, TypeOK
  <2>2. cur' = cur \/ cur' = 0
    BY <1>3 DEF ReadError, Disconnected, SocketDies
  <2>3. cur' # 0 => sock'[cur'] # "none"  BY <1>0, <2>1, <2>2 DEF Awaited
  <2> QED
    BY <1>3, <2>1, <2>3, AwaitedOnSockets DEF ReadError, Disconnected, SocketDies
<1>4. CASE Close
  <2>1. \A j \in Sock : sock'[j] = sock[j] \/ sock'[j] = "closed"
    BY <1>0, <1>4 DEF Close, TypeOK
  <2> QED  BY <1>4, <2>1, AwaitedOnSockets DEF Close
<1>5. ASSUME NEW k \in Sock, HandleMessage(k) PROVE Awaited'
  <2>1. PICK m \in resps : /\ resps' = resps \ {m} /\ pending' = pending \ {m[1]}
                           /\ box' = IF m[1] \in pending THEN [box EXCEPT ![m[1]] = m[3]] ELSE box
                           /\ UNCHANGED <<sockVars, state, via, reqs, relayed, faults>>
    BY <1>5 DEF HandleMessage
  <2>2. PICK d \in Call, j \in Sock, r \in {"ok", "error"} : m = <<d, j, r>>
    BY <2>1 DEF TypeOK
  <2>3. \A c \in Call : box[c] # "none" => box'[c] # "none"
    BY <2>1, <2>2 DEF TypeOK
  <2>4. state[d] \in Active => box'[d] # "none"
    BY <2>1, <2>2 DEF Awaited, TypeOK
  <2>5. \A c \in Call : c # d => (c \in pending <=> c \in pending')
    BY <2>1, <2>2
  <2>6. \A c \in Call : c # d =>
          \A i \in Sock, s \in {"ok", "error"} : <<c, i, s>> \in resps => <<c, i, s>> \in resps'
    BY <2>1, <2>2
  <2>7. UNCHANGED <<cur, sock, state, via, reqs>>  BY <2>1 DEF sockVars
  <2>8. \A c \in Call : via[c] # 0 => via[c] \in Sock  BY DEF TypeOK, Sock
  <2>9. NoAnswerLost'
    BY <2>3, <2>4, <2>6, <2>7, <2>8 DEF Awaited, NoAnswerLost, Active
  <2> QED  BY <2>3, <2>4, <2>5, <2>7, <2>9 DEF Awaited
<1>6. ASSUME NEW c \in Call, SendRequest(c) PROVE Awaited'
  BY <1>6 DEF SendRequest, TypeOK, Awaited, NoAnswerLost, Active, sockVars
<1>7. ASSUME NEW c \in Call, WriteMessage(c) PROVE Awaited'
  <2>1. CASE /\ via[c] # 0 /\ reqs' = reqs \cup {<<c, via[c]>>}
             /\ state' = [state EXCEPT ![c] = "waiting"]
             /\ UNCHANGED <<via, pending, box>>
    BY <1>7, <2>1 DEF WriteMessage, TypeOK, Awaited, NoAnswerLost, Active, sockVars
  <2>2. CASE /\ via[c] # 0 /\ sock[via[c]] = "dead"
             /\ state' = [state EXCEPT ![c] = "waiting"]
             /\ UNCHANGED <<via, pending, box, reqs>>
    BY <1>7, <2>2 DEF WriteMessage, TypeOK, Awaited, NoAnswerLost, Active, sockVars
  <2>3. CASE Return(c, "failed") /\ UNCHANGED reqs
    BY <1>7, <2>3, AwaitedOnReturn DEF WriteMessage
  <2> QED  BY <1>7, <2>1, <2>2, <2>3 DEF WriteMessage
<1>8. ASSUME NEW c \in Call, Respond(c) \/ Timeout(c) PROVE Awaited'
  BY <1>8, AwaitedOnReturn DEF Respond, Timeout
<1>9. ASSUME NEW c \in Call, NEW k \in Sock, Relay(c, k) PROVE Awaited'
  <2>1. PICK r \in {"ok", "error"} : resps' = resps \cup {<<c, k, r>>}
    BY <1>9 DEF Relay
  <2>2. reqs' = reqs \ {<<c, k>>} /\ UNCHANGED <<sockVars, callVars>>
    BY <1>9 DEF Relay
  <2>3. NoAnswerLost'
    BY <2>1, <2>2 DEF Awaited, NoAnswerLost, sockVars, callVars
  <2> QED  BY <2>2, <2>3 DEF Awaited, sockVars, callVars
<1>10. CASE UNCHANGED <<cur, sock, callVars, reqs, resps>>
  BY <1>10 DEF Awaited, NoAnswerLost, callVars
<1> QED
  BY <1>1, <1>2, <1>3, <1>4, <1>5, <1>6, <1>7, <1>8, <1>9, <1>10
  DEF Next, ConnectorStep, ReaderStep, CallStep, vars, sockVars, Connect, Cancel

(* While its socket is up, a call that waits has its request or its answer *)
(* under way: readLoop hands an answer to the call of its ID and to no     *)
(* other, and drops it only once that call has returned.                   *)
THEOREM NoAnswerLostAlways == Spec => []NoAnswerLost
<1>1. Init => Awaited  BY AwaitedInit
<1>2. IInv /\ Awaited /\ [Next]_vars => Awaited'  BY AwaitedStep DEF IInv
<1>3. Awaited => NoAnswerLost  BY DEF Awaited
<1> QED  BY <1>1, <1>2, <1>3, Inductive, PTL DEF Spec
=============================================================================
