--------------------------- MODULE LiveUpdatesProofs ---------------------------
(***************************************************************************)
(* Type correctness of LiveUpdates, StaysInformed and SubscribedOnce, for  *)
(* any number of pages, blocks, restarts and messages.                     *)
(*                                                                         *)
(* StaysInformed is not inductive.  It needs what a link that is up means  *)
(* at the server (Served), that a page that neither polls nor has ever     *)
(* been without a connection has one that was opened (LinkKept), and how   *)
(* the page's members follow its connection (PageState); a page's sockets  *)
(* are its own, so what becomes of others does not matter (in TypeOK).     *)
(*                                                                         *)
(* SubscribedOnce needs an invariant of its own, one socket at a time:     *)
(* where the one subscription of the socket is (SocketInv).  Counting the  *)
(* messages is left to the last step.                                      *)
(***************************************************************************)
EXTENDS LiveUpdates, FiniteSetTheorems, SequenceTheorems, TLAPS

OwnSocks(p) == {p} \X {1, 2}

TypeOK ==
    /\ up \in BOOLEAN /\ tip \in Nat /\ events \in Nat /\ table \in Nat /\ syncing \in BOOLEAN
    /\ breaks \in Nat /\ others \in Nat
    /\ link \in [Socks -> {None, "asked", "up", "broken"}]
    /\ server \in [Socks -> {None, "accepted", "open"}]
    /\ alive \in [Socks -> BOOLEAN]
    /\ clients \subseteq Socks
    /\ ws \in [Pages -> Socks \union {NoSocket}]
    /\ \A p \in Pages : ws[p] \in OwnSocks(p) \union {NoSocket}
    /\ phase \in [Pages -> {None, "opening", "open", "failed"}]
    /\ status \in [Pages -> {"disconnected", "connected", "error"}]
    /\ attempts \in [Pages -> 0..MaxAttempts]
    /\ timer \in [Pages -> BOOLEAN] /\ subscribed \in [Pages -> BOOLEAN]
    /\ polling \in [Pages -> BOOLEAN]

\* What a page without a connection does: it polls, and only then a reconnection is
\* scheduled.
PageState ==
    \A p \in Pages : /\ phase[p] = None <=> ws[p] = NoSocket
                     /\ timer[p] => phase[p] = None
                     /\ phase[p] = None => polling[p]

\* The page that does not poll opened its connection, which is up or has broken since.
LinkKept ==
    \A p \in Pages : subscribed[p] /\ ~polling[p] => link[ws[p]] \in {"up", "broken"}

\* A link that is up has the controller at its other end, which has registered it or
\* is about to.
Served ==
    \A s \in Socks : link[s] = "up" => /\ alive[s]
                                       /\ \/ server[s] = "accepted"
                                          \/ server[s] = "open" /\ s \in clients

IInv == TypeOK /\ PageState /\ LinkKept /\ Served

-----------------------------------------------------------------------------
USE LiveAssumption

\* The variables of the invariant that only connections and pages change.
connectionVars == <<link, server, alive, clients, ws, phase, status, attempts, timer,
                    subscribed, polling>>

Numbers == /\ up \in BOOLEAN /\ tip \in Nat /\ events \in Nat /\ table \in Nat
           /\ syncing \in BOOLEAN /\ breaks \in Nat /\ others \in Nat

LEMMA ASocket == ASSUME NEW p \in Pages, NEW s \in OwnSocks(p)
                 PROVE  s \in Socks /\ s # NoSocket /\ s[1] = p
BY DEF OwnSocks, Socks, NoSocket

LEMMA SocketOfOne ==
    ASSUME TypeOK, NEW p \in Pages, NEW q \in Pages, ws[p] = ws[q], ws[p] # NoSocket
    PROVE  p = q
<1>1. ws[p] \in OwnSocks(p) /\ ws[q] \in OwnSocks(q)
  BY DEF TypeOK
<1> QED  BY <1>1, ASocket

LEMMA InitIInv == Init => IInv
<1> SUFFICES ASSUME Init PROVE IInv
  OBVIOUS
<1> USE DEF Init
<1>1. \A p \in Pages : ws[p] = <<p, 1>> /\ <<p, 1>> \in OwnSocks(p)
  BY DEF OwnSocks
<1>2. \A p \in Pages : ws[p] \in Socks /\ ws[p] # NoSocket
  BY <1>1, ASocket
<1>3. TypeOK
  <2>1. ws \in [Pages -> Socks \union {NoSocket}]
    BY <1>2
  <2>2. link \in [Socks -> {None, "asked", "up", "broken"}]
    BY DEF None
  <2>3. Numbers
    BY DEF Numbers
  <2> QED  BY <1>1, <2>1, <2>2, <2>3 DEF TypeOK, Numbers
<1>4. PageState
  BY <1>2 DEF PageState, None
<1>5. LinkKept
  BY DEF LinkKept
<1>6. Served
  BY DEF Served, None
<1> QED  BY <1>3, <1>4, <1>5, <1>6 DEF IInv

\* What leaves the connections alone keeps the invariant.
LEMMA Unconcerned ==
    ASSUME IInv, Numbers', UNCHANGED connectionVars
    PROVE  IInv'
<1> USE DEF IInv, connectionVars
<1>1. TypeOK'
  BY DEF TypeOK, Numbers
<1>2. PageState'
  BY DEF PageState
<1>3. LinkKept'
  BY DEF LinkKept
<1>4. Served'
  BY DEF Served
<1> QED  BY <1>1, <1>2, <1>3, <1>4

LEMMA StutterStep == ASSUME IInv, UNCHANGED vars PROVE IInv'
<1>1. Numbers'
  BY DEF IInv, TypeOK, Numbers, vars, chainVars, budgetVars
<1>2. UNCHANGED connectionVars
  BY DEF vars, sockVars, wsVars, connectionVars
<1> QED  BY <1>1, <1>2, Unconcerned

LEMMA ElsewhereStep ==
    ASSUME IInv,
           \/ Mine \/ Index \/ ServerStarts
           \/ \E s \in Socks : HandleMessage(s)
           \/ \E p \in Pages : Send(p) \/ Receive(p) \/ Fetch(p) \/ Serve(p) \/ NoAnswer(p)
                                \/ Display(p)
    PROVE  IInv'
<1> USE DEF chainVars, budgetVars, sockVars, wsVars, fetchVars, serverUnchanged, pageUnchanged,
            fetchUnchanged
<1>0. Numbers
  BY DEF IInv, TypeOK, Numbers
<1>1. CASE Mine
  BY <1>0, <1>1, Unconcerned DEF Mine, Numbers, connectionVars
<1>2. CASE Index
  BY <1>0, <1>2, Unconcerned DEF Index, Numbers, connectionVars
<1>3. CASE ServerStarts
  BY <1>0, <1>3, Unconcerned DEF ServerStarts, Numbers, connectionVars
<1>4. ASSUME NEW s \in Socks, HandleMessage(s) PROVE IInv'
  BY <1>0, <1>4, Unconcerned DEF HandleMessage, Numbers, connectionVars
<1>5. ASSUME NEW p \in Pages, Send(p) PROVE IInv'
  BY <1>0, <1>5, Unconcerned DEF Send, Numbers, connectionVars
<1>6. ASSUME NEW p \in Pages, Receive(p) PROVE IInv'
  BY <1>0, <1>6, Unconcerned DEF Receive, Numbers, connectionVars
<1>7. ASSUME NEW p \in Pages, Fetch(p) PROVE IInv'
  BY <1>0, <1>7, Unconcerned DEF Fetch, Numbers, connectionVars
<1>8. ASSUME NEW p \in Pages, Serve(p) PROVE IInv'
  BY <1>0, <1>8, Unconcerned DEF Serve, Respond, Numbers, connectionVars
<1>9. ASSUME NEW p \in Pages, NoAnswer(p) PROVE IInv'
  BY <1>0, <1>9, Unconcerned DEF NoAnswer, Respond, Breaks, Numbers, connectionVars
<1>10. ASSUME NEW p \in Pages, Display(p) PROVE IInv'
  BY <1>0, <1>10, Unconcerned DEF Display, Numbers, connectionVars
<1> QED  BY <1>1, <1>2, <1>3, <1>4, <1>5, <1>6, <1>7, <1>8, <1>9, <1>10

-----------------------------------------------------------------------------
(* The links and the server; the pages' members do not change.             *)

LEMMA LinkBreaksStep == ASSUME IInv, LinkBreaks PROVE IInv'
<1> USE DEF IInv, chainVars, wsVars
<1>1. PICK s \in Socks : link[s] = "up" /\ link' = [link EXCEPT ![s] = "broken"]
  <2>1. PICK s \in Socks : link[s] = "up" /\ link' = Broken({s})
    BY DEF LinkBreaks
  <2>2. Broken({s}) = [link EXCEPT ![s] = "broken"]
    BY <2>1 DEF Broken, TypeOK
  <2> QED  BY <2>1, <2>2
<1>2. UNCHANGED <<server, alive, clients, wsVars, polling>>
  BY DEF LinkBreaks
<1>3. TypeOK'
  <2>1. Numbers'
    BY DEF LinkBreaks, Breaks, TypeOK, Numbers
  <2> QED  BY <1>1, <1>2, <2>1 DEF TypeOK, Numbers
<1>4. PageState'
  BY <1>2 DEF PageState
<1>5. LinkKept'
  BY <1>1, <1>2 DEF LinkKept, TypeOK
<1>6. Served'
  BY <1>1, <1>2 DEF Served, TypeOK
<1> QED  BY <1>3, <1>4, <1>5, <1>6

LEMMA ServerEndsStep == ASSUME IInv, ServerEnds PROVE IInv'
<1> USE DEF IInv, wsVars
<1>1. UNCHANGED <<wsVars, polling>>
  BY DEF ServerEnds
<1>2. /\ link' \in [Socks -> {None, "asked", "broken"}]
      /\ \A p \in Pages : ws[p] \in Socks /\ link[ws[p]] \in {"up", "broken"}
                             => link'[ws[p]] = "broken"
  BY DEF ServerEnds, Broken, TypeOK
<1>3. TypeOK'
  <2>1. Numbers'
    <3>1. tip' \in Nat /\ events' \in Nat /\ table' \in Nat /\ breaks' \in Nat /\ others' \in Nat
      BY DEF ServerEnds, Breaks, TypeOK
    <3>2. up' \in BOOLEAN /\ syncing' \in BOOLEAN
      BY DEF ServerEnds
    <3> QED  BY <3>1, <3>2 DEF Numbers
  <2>2. /\ server' \in [Socks -> {None, "accepted", "open"}]
        /\ alive' \in [Socks -> BOOLEAN] /\ clients' \subseteq Socks
    BY DEF ServerEnds
  <2> QED  BY <1>1, <1>2, <2>1, <2>2 DEF TypeOK, Numbers
<1>4. PageState'
  BY <1>1 DEF PageState
<1>5. LinkKept'
  <2> SUFFICES ASSUME NEW p \in Pages, subscribed[p], ~polling[p]
               PROVE  link'[ws[p]] = "broken"
    BY <1>1 DEF LinkKept
  <2>1. ws[p] \in Socks
    BY DEF TypeOK, PageState
  <2> QED  BY <1>2, <2>1 DEF LinkKept
<1>6. Served'
  BY <1>2 DEF Served, None
<1> QED  BY <1>3, <1>4, <1>5, <1>6

LEMMA BroadcastKeeps ==
    ASSUME IInv, NEW m, Broadcast(m), Numbers', UNCHANGED <<wsVars, polling>>
    PROVE  IInv'
<1> USE DEF IInv, wsVars
<1>1. UNCHANGED <<link, server, alive>> /\ clients' = {s \in clients : alive[s]}
  BY DEF Broadcast
<1>2. TypeOK'
  BY <1>1 DEF TypeOK, Numbers
<1>3. PageState'
  BY DEF PageState
<1>4. LinkKept'
  BY <1>1 DEF LinkKept
<1>5. Served'
  BY <1>1 DEF Served
<1> QED  BY <1>2, <1>3, <1>4, <1>5

LEMMA BroadcastStep == ASSUME IInv, BlockEvent \/ OtherUpdate PROVE IInv'
<1>1. Numbers' /\ UNCHANGED <<wsVars, polling>>
  BY DEF IInv, TypeOK, Numbers, BlockEvent, OtherUpdate, serverUnchanged
<1>2. CASE BlockEvent /\ UNCHANGED sockVars
  BY <1>1, <1>2, Unconcerned DEF connectionVars, sockVars, wsVars
<1>3. CASE \E m : Broadcast(m)
  BY <1>1, <1>3, BroadcastKeeps
<1> QED  BY <1>2, <1>3 DEF BlockEvent, OtherUpdate

LEMMA ServingStep ==
    ASSUME IInv, NEW s \in Socks, Accept(s) \/ Register(s) \/ Notice(s) \/ Closed(s)
    PROVE  IInv'
<1> USE DEF IInv, wsVars
<1>1. Numbers' /\ UNCHANGED <<wsVars, polling>>
  BY DEF TypeOK, Numbers, Accept, Register, Notice, Closed, serverUnchanged
<1>2. PageState'
  BY <1>1 DEF PageState
<1>3. CASE Accept(s)
  <2>1. TypeOK'
    BY <1>1, <1>3 DEF Accept, TypeOK, Numbers
  <2>2. LinkKept' /\ Served'
    BY <1>1, <1>3 DEF Accept, LinkKept, Served, TypeOK
  <2> QED  BY <1>2, <2>1, <2>2
<1>4. CASE Register(s)
  <2>1. TypeOK'
    BY <1>1, <1>4 DEF Register, With, TypeOK, Numbers
  <2>2. LinkKept' /\ Served'
    BY <1>1, <1>4 DEF Register, With, LinkKept, Served, TypeOK
  <2> QED  BY <1>2, <2>1, <2>2
<1>5. CASE Notice(s)
  <2>1. TypeOK'
    BY <1>1, <1>5 DEF Notice, TypeOK, Numbers
  <2>2. LinkKept' /\ Served'
    BY <1>1, <1>5 DEF Notice, LinkKept, Served, TypeOK
  <2> QED  BY <1>2, <2>1, <2>2
<1>6. CASE Closed(s)
  <2>1. TypeOK'
    BY <1>1, <1>6 DEF Closed, Without, TypeOK, Numbers
  <2>2. \A r \in Socks : link'[r] = link[r] \/ (r = s /\ link'[r] = None /\ ws[s[1]] # s)
    <3> DEFINE l == IF ws[s[1]] = s THEN link[s] ELSE None
    <3>1. link' = [link EXCEPT ![s] = l]
      BY <1>6, Zenon DEF Closed
    <3>2. l = link[s] \/ (l = None /\ ws[s[1]] # s)
      OBVIOUS
    <3> HIDE DEF l
    <3> QED  BY <3>1, <3>2 DEF TypeOK
  <2>3. LinkKept'
    <3> SUFFICES ASSUME NEW p \in Pages, subscribed[p], ~polling[p]
                 PROVE  link'[ws[p]] = link[ws[p]]
      BY <1>1 DEF LinkKept
    <3>1. ws[p] \in OwnSocks(p)
      BY DEF TypeOK, PageState
    <3> QED  BY <2>2, <3>1, ASocket
  <2>4. Served'
    <3>1. link[s] # "up" /\ clients' = clients \ {s}
      BY <1>6 DEF Closed, Without, Served
    <3>2. \A r \in Socks : r # s => server'[r] = server[r] /\ alive'[r] = alive[r]
      BY <1>6 DEF Closed, TypeOK
    <3> QED  BY <2>2, <3>1, <3>2 DEF Served, None
  <2> QED  BY <1>2, <2>1, <2>3, <2>4
<1> QED  BY <1>3, <1>4, <1>5, <1>6

-----------------------------------------------------------------------------
(* The pages.                                                              *)

LEMMA OpenedStep == ASSUME IInv, NEW p \in Pages, Opened(p) PROVE IInv'
<1> USE DEF IInv, pageUnchanged, chainVars
<1>1. /\ phase[p] = "opening" /\ link[ws[p]] \in {"up", "broken"}
      /\ UNCHANGED <<link, server, alive, clients, ws, timer>>
  BY DEF Opened
<1>2. TypeOK'
  BY <1>1 DEF Opened, TypeOK
<1>3. PageState'
  BY <1>1 DEF Opened, PageState, TypeOK, None
<1>4. LinkKept'
  BY <1>1 DEF Opened, LinkKept, TypeOK
<1>5. Served'
  BY <1>1 DEF Served
<1> QED  BY <1>2, <1>3, <1>4, <1>5

LEMMA ErrorStep == ASSUME IInv, NEW p \in Pages, Error(p) PROVE IInv'
<1> USE DEF IInv, pageUnchanged, chainVars
<1>1. /\ phase[p] \in {"opening", "open"}
      /\ UNCHANGED <<link, server, alive, clients, ws, timer, subscribed, polling>>
  BY DEF Error, CannotOpen, Lost
<1>2. TypeOK'
  BY <1>1 DEF Error, TypeOK
<1>3. PageState'
  BY <1>1 DEF Error, PageState, TypeOK, None
<1>4. LinkKept' /\ Served'
  BY <1>1 DEF LinkKept, Served
<1> QED  BY <1>2, <1>3, <1>4

LEMMA CloseStep == ASSUME IInv, NEW p \in Pages, Close(p) PROVE IInv'
<1> USE DEF IInv, pageUnchanged, chainVars
<1>1. phase[p] \in {"open", "failed"} /\ ws[p] \in OwnSocks(p)
  BY DEF Close, Lost, TypeOK, PageState, None
<1>2. ws[p] \in Socks /\ ws[p] # NoSocket
  BY <1>1, ASocket
<1>3. /\ UNCHANGED <<server, alive, clients, subscribed>>
      /\ polling' = [polling EXCEPT ![p] = TRUE]
      /\ ws' = [ws EXCEPT ![p] = NoSocket] /\ phase' = [phase EXCEPT ![p] = None]
  BY DEF Close
<1>4. /\ link' \in [Socks -> {None, "asked", "up", "broken"}]
      /\ \A s \in Socks : link'[s] = link[s] \/ (s = ws[p] /\ link'[s] \in {None, "broken"})
  <2> DEFINE l == IF server[ws[p]] = None THEN None ELSE "broken"
  <2>1. link' = [link EXCEPT ![ws[p]] = l]
    BY Zenon DEF Close
  <2>2. l \in {None, "broken"}
    OBVIOUS
  <2> HIDE DEF l
  <2> QED  BY <1>2, <2>1, <2>2 DEF TypeOK
<1>5. TypeOK'
  <2>1. attempts' \in [Pages -> 0..MaxAttempts]
    <3>1. attempts[p] \in 0..MaxAttempts
      BY DEF TypeOK
    <3>2. \/ attempts[p] < MaxAttempts /\ attempts' = [attempts EXCEPT ![p] = attempts[p] + 1]
          \/ attempts' = attempts
      BY DEF Close
    <3>3. attempts[p] < MaxAttempts => attempts[p] + 1 \in 0..MaxAttempts
      BY <3>1
    <3> QED  BY <3>2, <3>3 DEF TypeOK
  <2>2. timer' \in [Pages -> BOOLEAN]
    BY DEF Close, TypeOK
  <2>3. status' \in [Pages -> {"disconnected", "connected", "error"}]
    BY DEF Close, StatusOnClose, TypeOK
  <2>4. Numbers'
    BY DEF Close, TypeOK, Numbers
  <2> QED  BY <1>3, <1>4, <2>1, <2>2, <2>3, <2>4 DEF TypeOK, Numbers
<1>6. PageState'
  <2>1. \A q \in Pages : q # p => timer'[q] = timer[q]
    BY DEF Close, TypeOK
  <2> QED  BY <1>3, <2>1 DEF PageState, TypeOK
<1>7. LinkKept'
  <2> SUFFICES ASSUME NEW q \in Pages, subscribed[q], ~polling'[q]
               PROVE  link'[ws'[q]] \in {"up", "broken"}
    BY <1>3 DEF LinkKept
  <2>1. q # p /\ ~polling[q] /\ ws'[q] = ws[q]
    BY <1>3 DEF TypeOK
  <2>2. ws[q] \in Socks /\ ws[q] # NoSocket
    BY <2>1 DEF TypeOK, PageState
  <2>3. ws[q] # ws[p]
    BY <2>1, <2>2, SocketOfOne
  <2> QED  BY <1>4, <2>1, <2>2, <2>3 DEF LinkKept
<1>8. Served'
  BY <1>3, <1>4 DEF Served, None
<1> QED  BY <1>5, <1>6, <1>7, <1>8

LEMMA ReconnectStep == ASSUME IInv, NEW p \in Pages, Reconnect(p) PROVE IInv'
<1> USE DEF IInv, pageUnchanged, chainVars
<1>1. /\ timer[p] /\ timer' = [timer EXCEPT ![p] = FALSE]
      /\ UNCHANGED <<server, alive, clients, status, attempts, subscribed, polling>>
  BY DEF Reconnect
<1>2. phase[p] = None /\ ws[p] = NoSocket /\ polling[p]
  BY <1>1 DEF PageState
<1>3. Numbers'
  BY DEF Reconnect, TypeOK, Numbers
<1>4. CASE UNCHANGED <<ws, link, phase>>
  <2>1. TypeOK'
    BY <1>1, <1>3, <1>4 DEF TypeOK, Numbers
  <2>2. PageState'
    BY <1>1, <1>4 DEF PageState, TypeOK
  <2>3. LinkKept' /\ Served'
    BY <1>1, <1>4 DEF LinkKept, Served
  <2> QED  BY <2>1, <2>2, <2>3
<1>5. ASSUME NEW s \in OwnSocks(p), ws' = [ws EXCEPT ![p] = s],
             link' = [link EXCEPT ![s] = "asked"], phase' = [phase EXCEPT ![p] = "opening"]
      PROVE  IInv'
  <2>1. s \in Socks /\ s # NoSocket /\ s[1] = p
    BY ASocket
  <2>2. TypeOK'
    BY <1>1, <1>3, <1>5, <2>1 DEF TypeOK, Numbers
  <2>3. PageState'
    BY <1>1, <1>5, <2>1 DEF PageState, TypeOK, None
  <2>4. LinkKept'
    <3> SUFFICES ASSUME NEW q \in Pages, subscribed[q], ~polling[q]
                 PROVE  link'[ws'[q]] \in {"up", "broken"}
      BY <1>1 DEF LinkKept
    <3>1. q # p /\ ws'[q] = ws[q]
      BY <1>2, <1>5 DEF TypeOK
    <3>2. ws[q] \in OwnSocks(q)
      BY DEF TypeOK, PageState
    <3>3. ws[q] \in Socks /\ ws[q] # s
      BY <2>1, <3>1, <3>2, ASocket
    <3> QED  BY <1>5, <3>1, <3>3 DEF LinkKept, TypeOK
  <2>5. Served'
    BY <1>1, <1>5, <2>1 DEF Served, TypeOK
  <2> QED  BY <2>2, <2>3, <2>4, <2>5
<1> QED  BY <1>4, <1>5 DEF Reconnect, OwnSocks

-----------------------------------------------------------------------------
(* The theorems.                                                           *)

LEMMA NextStep == ASSUME IInv, [Next]_vars PROVE IInv'
<1>1. CASE LinkBreaks
  BY <1>1, LinkBreaksStep
<1>2. CASE ServerEnds
  BY <1>2, ServerEndsStep
<1>3. CASE BlockEvent \/ OtherUpdate
  BY <1>3, BroadcastStep
<1>4. CASE \E s \in Socks : Accept(s) \/ Register(s) \/ Notice(s) \/ Closed(s)
  BY <1>4, ServingStep
<1>5. CASE \E p \in Pages : Opened(p)
  BY <1>5, OpenedStep
<1>6. CASE \E p \in Pages : Error(p)
  BY <1>6, ErrorStep
<1>7. CASE \E p \in Pages : Close(p)
  BY <1>7, CloseStep
<1>8. CASE \E p \in Pages : Reconnect(p)
  BY <1>8, ReconnectStep
<1>9. CASE \/ Mine \/ Index \/ ServerStarts
           \/ \E s \in Socks : HandleMessage(s)
           \/ \E p \in Pages : Send(p) \/ Receive(p) \/ Fetch(p) \/ Serve(p) \/ NoAnswer(p)
                                \/ Display(p)
  BY <1>9, ElsewhereStep
<1>10. CASE UNCHANGED vars
  BY <1>10, StutterStep
<1> QED  BY <1>1, <1>2, <1>3, <1>4, <1>5, <1>6, <1>7, <1>8, <1>9, <1>10
         DEF Next, Serving, Surfing

\* The invariant behind both theorems: how the registry of EventBroadcaster, the
\* controller's ends of the connections and the pages' clients agree.
THEOREM Invariance == Spec => []IInv
  BY InitIInv, NextStep, PTL DEF Spec

\* Every variable but the queues and counters of messages and requests keeps its type;
\* a page's reconnection attempts never exceed maxReconnectAttempts
\* (websocket-client.js), and its connections are its own.
THEOREM TypeCorrect == Spec => []TypeOK
<1>1. IInv => TypeOK
  BY DEF IInv
<1> QED  BY <1>1, Invariance, PTL

\* A page that does not poll is registered with EventBroadcaster or about to be, or its
\* link is broken and it will learn of it, however many pages come and go and in
\* whatever order their old connections are closed.
THEOREM PagesStayInformed == Spec => []StaysInformed
<1>1. IInv => StaysInformed
  <2> SUFFICES ASSUME IInv, NEW p \in Pages, subscribed[p], ~polling[p]
               PROVE  /\ ws[p] # NoSocket
                      /\ \/ link[ws[p]] = "broken"
                         \/ server[ws[p]] = "accepted"
                         \/ ws[p] \in clients
    BY DEF StaysInformed
  <2>1. ws[p] \in Socks /\ ws[p] # NoSocket
    BY DEF IInv, TypeOK, PageState
  <2> QED  BY <2>1 DEF IInv, LinkKept, Served
<1> QED  BY <1>1, Invariance, PTL


-----------------------------------------------------------------------------
(* Subscriptions: one message travels from the page to the server and comes *)
(* back as an acknowledgement.                                              *)

Lacks(queue, m) == \A i \in DOMAIN queue : queue[i] # m
HasOne(queue, m) == \E i \in DOMAIN queue : \A j \in DOMAIN queue : queue[j] = m <=> j = i

\* Where the one subscription of a connection is.
OnItsWay(s) ==
    \/ /\ acks[s] = 1
       /\ Lacks(inbox[s], "subscribe") /\ Lacks(wire[s], "subscription_ack")
    \/ /\ acks[s] = 0
       /\ HasOne(inbox[s], "subscribe") /\ Lacks(wire[s], "subscription_ack")
    \/ /\ acks[s] = 0
       /\ Lacks(inbox[s], "subscribe") /\ HasOne(wire[s], "subscription_ack")

Messages == /\ inbox \in [Socks -> Seq({"subscribe"} \union Others)]
            /\ wire \in [Socks -> Seq(Heard)]
            /\ acks \in [Socks -> Nat]

\* Without a controller at the other end nothing waits to be handled.
Unserved(s) == /\ link[s] \in {None, "asked"} => server[s] = None
               /\ server[s] = None => inbox[s] = << >>

\* Nothing comes over a connection that its page has left.
Left(s) == ws[s[1]] # s => /\ wire[s] = << >> /\ acks[s] = 0
                           /\ link[s] \in {None, "broken"}

Opening(s) == ws[s[1]] = s /\ phase[s[1]] = "opening" =>
                 /\ inbox[s] = << >> /\ acks[s] = 0
                 /\ Lacks(wire[s], "subscription_ack")

Open(s) == ws[s[1]] = s /\ phase[s[1]] = "open" =>
              /\ link[s] \in {"up", "broken"}
              /\ link[s] = "up" => OnItsWay(s)

SocketInv(s) == Unserved(s) /\ Left(s) /\ Opening(s) /\ Open(s)

SInv == Messages /\ \A s \in Socks : SocketInv(s)

-----------------------------------------------------------------------------
(* Queues: what becomes of a message that is in one once, or not at all.   *)

LEMMA CountLacks ==
    ASSUME NEW queue, NEW m, Lacks(queue, m)
    PROVE  Count(queue, m) = 0
<1>1. {i \in DOMAIN queue : queue[i] = m} = {}
  BY DEF Lacks
<1>. QED  BY <1>1, FS_EmptySet DEF Count

LEMMA CountHasOne ==
    ASSUME NEW queue, NEW m, HasOne(queue, m)
    PROVE  Count(queue, m) = 1
<1>1. PICK i \in DOMAIN queue : {j \in DOMAIN queue : queue[j] = m} = {i}
  BY DEF HasOne
<1>. QED  BY <1>1, FS_Singleton DEF Count

LEMMA LacksAppend ==
    ASSUME NEW T, NEW queue \in Seq(T), NEW x \in T, NEW m, Lacks(queue, m)
    PROVE  /\ x # m => Lacks(Append(queue, x), m)
           /\ x = m => HasOne(Append(queue, x), m)
<1>. DEFINE longer == Append(queue, x)
<1>1. /\ DOMAIN longer = 1..(Len(queue) + 1) /\ DOMAIN queue = 1..Len(queue)
      /\ Len(queue) \in Nat
      /\ longer[Len(queue) + 1] = x /\ \A i \in 1..Len(queue) : longer[i] = queue[i]
  OBVIOUS
<1>. HIDE DEF longer
<1>2. \A i \in DOMAIN longer : i # Len(queue) + 1 => longer[i] # m
  BY <1>1 DEF Lacks
<1>3. x # m => Lacks(longer, m)
  BY <1>1, <1>2 DEF Lacks
<1>4. x = m => HasOne(longer, m)
  <2>1. Len(queue) + 1 \in DOMAIN longer
    BY <1>1
  <2>. QED  BY <1>1, <1>2, <2>1 DEF HasOne
<1>. QED  BY <1>3, <1>4 DEF longer

LEMMA HasOneAppend ==
    ASSUME NEW T, NEW queue \in Seq(T), NEW x \in T, NEW m, x # m, HasOne(queue, m)
    PROVE  HasOne(Append(queue, x), m)
<1>. DEFINE longer == Append(queue, x)
<1>1. /\ DOMAIN longer = 1..(Len(queue) + 1) /\ DOMAIN queue = 1..Len(queue)
      /\ Len(queue) \in Nat
      /\ longer[Len(queue) + 1] = x /\ \A i \in 1..Len(queue) : longer[i] = queue[i]
  OBVIOUS
<1>. HIDE DEF longer
<1>2. PICK i \in DOMAIN queue : \A j \in DOMAIN queue : queue[j] = m <=> j = i
  BY DEF HasOne
<1>3. i \in DOMAIN longer /\ \A j \in DOMAIN longer : longer[j] = m <=> j = i
  BY <1>1, <1>2
<1>. QED  BY <1>3 DEF HasOne, longer

LEMMA LacksTail ==
    ASSUME NEW T, NEW queue \in Seq(T), queue # << >>, NEW m, Lacks(queue, m)
    PROVE  Lacks(Tail(queue), m)
<1>. DEFINE rest == Tail(queue)
<1>1. \A i \in DOMAIN rest : i + 1 \in DOMAIN queue /\ rest[i] = queue[i + 1]
  OBVIOUS
<1>. HIDE DEF rest
<1>. QED  BY <1>1 DEF Lacks, rest

LEMMA HasOneTail ==
    ASSUME NEW T, NEW queue \in Seq(T), queue # << >>, NEW m, HasOne(queue, m)
    PROVE  /\ Head(queue) = m => Lacks(Tail(queue), m)
           /\ Head(queue) # m => HasOne(Tail(queue), m)
<1>. DEFINE rest == Tail(queue)
<1>1. /\ DOMAIN rest = 1..(Len(queue) - 1) /\ DOMAIN queue = 1..Len(queue)
      /\ Len(queue) \in Nat /\ 1 \in 1..Len(queue) /\ Head(queue) = queue[1]
      /\ \A i \in 1..(Len(queue) - 1) : rest[i] = queue[i + 1]
  OBVIOUS
<1>. HIDE DEF rest
<1>2. PICK i \in DOMAIN queue : \A j \in DOMAIN queue : queue[j] = m <=> j = i
  BY DEF HasOne
<1>3. \A j \in DOMAIN rest : j + 1 \in DOMAIN queue /\ (rest[j] = m <=> j + 1 = i)
  BY <1>1, <1>2
<1>4. CASE Head(queue) = m
  <2>1. i = 1
    BY <1>1, <1>2, <1>4
  <2>2. Lacks(rest, m)
    BY <1>1, <1>3, <2>1 DEF Lacks
  <2>. QED  BY <2>2, <1>4 DEF rest
<1>5. CASE Head(queue) # m
  <2>1. i # 1 /\ i - 1 \in DOMAIN rest
    BY <1>1, <1>2, <1>5
  <2>2. \A j \in DOMAIN rest : rest[j] = m <=> j = i - 1
    BY <1>1, <1>3
  <2>3. HasOne(rest, m)
    BY <2>1, <2>2 DEF HasOne
  <2>. QED  BY <2>3, <1>5 DEF rest
<1>. QED  BY <1>4, <1>5

-----------------------------------------------------------------------------
(* The steps.                                                              *)

LEMMA OwnSocket ==
    ASSUME TypeOK, NEW s \in Socks
    PROVE  /\ s[1] \in Pages /\ s \in OwnSocks(s[1]) /\ s # NoSocket
           /\ \A p \in Pages : ws[p] = s => p = s[1]
<1>1. s[1] \in Pages /\ s \in OwnSocks(s[1])
  BY DEF Socks, OwnSocks
<1>2. \A p \in Pages : ws[p] = s => p = s[1]
  BY <1>1, ASocket DEF TypeOK
<1>. QED  BY <1>1, <1>2, ASocket

\* A connection that a step does not concern.
LEMMA SameSocket ==
    ASSUME NEW s \in Socks, SocketInv(s),
           link'[s] = link[s], server'[s] = server[s], inbox'[s] = inbox[s],
           wire'[s] = wire[s], acks'[s] = acks[s],
           ws'[s[1]] = s <=> ws[s[1]] = s,
           ws[s[1]] = s => phase'[s[1]] = phase[s[1]]
    PROVE  SocketInv(s)'
<1>1. Unserved(s)'
  BY DEF SocketInv, Unserved
<1>2. Left(s)'
  BY DEF SocketInv, Left
<1>3. Opening(s)'
  BY DEF SocketInv, Opening, Lacks
<1>4. Open(s)'
  BY DEF SocketInv, Open, OnItsWay, Lacks, HasOne
<1>. QED  BY <1>1, <1>2, <1>3, <1>4 DEF SocketInv

socketVars == <<link, server, inbox, wire, acks, ws, phase>>

LEMMA InitSInv == Init => SInv
<1>. SUFFICES ASSUME Init PROVE SInv
  OBVIOUS
<1>1. Messages
  BY DEF Init, Messages
<1>2. ASSUME NEW s \in Socks PROVE SocketInv(s)
  <2>1. s[1] \in Pages /\ (s[2] = 1 => ws[s[1]] = s)
    BY DEF Init, Socks
  <2>2. /\ server[s] = None /\ inbox[s] = << >> /\ wire[s] = << >> /\ acks[s] = 0
        /\ phase[s[1]] = "opening"
        /\ link[s] = IF s[2] = 1 THEN "asked" ELSE None
    BY <2>1 DEF Init
  <2>. QED  BY <2>1, <2>2 DEF SocketInv, Unserved, Left, Opening, Open, Lacks, None
<1>. QED  BY <1>1, <1>2 DEF SInv

LEMMA SUnconcerned == ASSUME SInv, UNCHANGED socketVars PROVE SInv'
<1>1. Messages'
  BY DEF SInv, Messages, socketVars
<1>2. ASSUME NEW s \in Socks PROVE SocketInv(s)'
  BY SameSocket DEF SInv, socketVars
<1>. QED  BY <1>1, <1>2 DEF SInv

\* What Sent does to a wire: nothing but to append a message that is no
\* acknowledgement, or one, and that only over a link that is up.
LEMMA SentKeeps ==
    ASSUME Messages, NEW S, NEW m, wire' = Sent(S, m), NEW s \in Socks
    PROVE  /\ wire'[s] \in Seq(Heard)
           /\ s \notin S \/ link[s] # "up" \/ m \notin Heard => wire'[s] = wire[s]
           /\ s \in S /\ link[s] = "up" /\ m \in Heard => wire'[s] = Append(wire[s], m)
           /\ m # "subscription_ack" /\ Lacks(wire[s], "subscription_ack") =>
                 Lacks(wire'[s], "subscription_ack")
           /\ m # "subscription_ack" /\ HasOne(wire[s], "subscription_ack") =>
                 HasOne(wire'[s], "subscription_ack")
<1>1. wire[s] \in Seq(Heard)
  BY DEF Messages
<1>2. wire'[s] = IF s \in S /\ link[s] = "up" /\ m \in Heard
                 THEN Append(wire[s], m) ELSE wire[s]
  BY DEF Sent
<1>3. CASE ~ (s \in S /\ link[s] = "up" /\ m \in Heard)
  BY <1>1, <1>2, <1>3
<1>4. CASE s \in S /\ link[s] = "up" /\ m \in Heard
  <2>1. wire'[s] = Append(wire[s], m) /\ wire'[s] \in Seq(Heard)
    BY <1>1, <1>2, <1>4
  <2>. QED  BY <1>1, <1>4, <2>1, LacksAppend, HasOneAppend
<1>. QED  BY <1>3, <1>4

LEMMA SentType ==
    ASSUME Messages, NEW S, NEW m, wire' = Sent(S, m)
    PROVE  wire' \in [Socks -> Seq(Heard)]
<1>1. \A s \in Socks : wire'[s] \in Seq(Heard)
  BY SentKeeps
<1>. QED  BY <1>1 DEF Sent

\* Updates and the welcome are no acknowledgements.
LEMMA SNewsStep ==
    ASSUME IInv, SInv, NEW S, NEW m, wire' = Sent(S, m), m # "subscription_ack",
           UNCHANGED <<link, inbox, acks, ws, phase>>,
           \A s \in Socks : server'[s] = server[s] \/
                            (server[s] = "accepted" /\ server'[s] = "open")
    PROVE  SInv'
<1>1. Messages'
  BY SentType DEF SInv, Messages
<1>2. ASSUME NEW s \in Socks PROVE SocketInv(s)'
  <2>1. SocketInv(s) /\ (server'[s] = None => server[s] = None)
        /\ (server[s] = None => server'[s] = None)
    BY <1>2 DEF SInv, None
  <2>2. /\ link[s] # "up" => wire'[s] = wire[s]
        /\ Lacks(wire[s], "subscription_ack") => Lacks(wire'[s], "subscription_ack")
        /\ HasOne(wire[s], "subscription_ack") => HasOne(wire'[s], "subscription_ack")
    BY SentKeeps DEF SInv
  <2>3. Unserved(s)'
    BY <2>1 DEF SocketInv, Unserved
  <2>4. Left(s)'
    BY <2>1, <2>2 DEF SocketInv, Left, None
  <2>5. Opening(s)'
    BY <2>1, <2>2 DEF SocketInv, Opening
  <2>6. Open(s)'
    BY <2>1, <2>2 DEF SocketInv, Open, OnItsWay
  <2>. QED  BY <2>3, <2>4, <2>5, <2>6 DEF SocketInv
<1>. QED  BY <1>1, <1>2 DEF SInv

LEMMA SBroadcastStep == ASSUME IInv, SInv, BlockEvent \/ OtherUpdate PROVE SInv'
<1>1. UNCHANGED <<ws, phase>>
  BY DEF BlockEvent, OtherUpdate, serverUnchanged, wsVars
<1>2. CASE UNCHANGED sockVars
  BY <1>1, <1>2, SUnconcerned DEF sockVars, socketVars
<1>3. ASSUME NEW m \in Updates, Broadcast(m) PROVE SInv'
  <2>1. /\ wire' = Sent({s \in clients : alive[s]}, m)
        /\ UNCHANGED <<link, server, inbox, acks>>
    BY <1>3 DEF Broadcast
  <2>2. m # "subscription_ack"
    BY DEF Updates
  <2>. QED  BY <1>1, <2>1, <2>2, SNewsStep
<1>4. "block" \in Updates
  BY DEF Updates
<1>. QED  BY <1>2, <1>3, <1>4 DEF BlockEvent, OtherUpdate

LEMMA SRegisterStep == ASSUME IInv, SInv, NEW s \in Socks, Register(s) PROVE SInv'
<1>1. /\ wire' = Sent({s}, "connected")
      /\ UNCHANGED <<link, inbox, acks, ws, phase>>
      /\ server[s] = "accepted" /\ server' = [server EXCEPT ![s] = "open"]
  BY DEF Register, serverUnchanged, wsVars
<1>2. \A r \in Socks : server'[r] = server[r] \/
                       (server[r] = "accepted" /\ server'[r] = "open")
  BY <1>1 DEF IInv, TypeOK
<1>. QED  BY <1>1, <1>2, SNewsStep

\* A link that breaks takes a connection out of the promise.
LEMMA SLinkBreaksStep == ASSUME IInv, SInv, LinkBreaks PROVE SInv'
<1>1. /\ UNCHANGED <<server, inbox, wire, acks, ws, phase>>
      /\ \A s \in Socks : link'[s] = link[s] \/ (link[s] = "up" /\ link'[s] = "broken")
  BY DEF LinkBreaks, Broken, wsVars
<1>2. Messages'
  BY <1>1 DEF SInv, Messages
<1>3. ASSUME NEW s \in Socks PROVE SocketInv(s)'
  <2>1. CASE link'[s] = link[s]
    BY <1>1, <2>1, SameSocket DEF SInv
  <2>2. CASE link[s] = "up" /\ link'[s] = "broken"
    BY <1>1, <2>2 DEF SInv, SocketInv, Unserved, Left, Opening, Open, Lacks, None
  <2>. QED  BY <1>1, <2>1, <2>2
<1>. QED  BY <1>2, <1>3 DEF SInv

LEMMA SServerEndsStep == ASSUME IInv, SInv, ServerEnds PROVE SInv'
<1>1. UNCHANGED <<wire, acks, ws, phase>>
  BY DEF ServerEnds, wsVars
<1>2. Messages'
  BY <1>1 DEF SInv, Messages, ServerEnds
<1>3. ASSUME NEW s \in Socks PROVE SocketInv(s)'
  <2>1. /\ server'[s] = None /\ inbox'[s] = << >>
        /\ link'[s] = IF \E p \in Pages : ws[p] = s THEN Broken(Socks)[s] ELSE None
        /\ Broken(Socks)[s] = IF link[s] = "up" THEN "broken" ELSE link[s]
    BY DEF ServerEnds, Broken
  <2>2. s[1] \in Pages /\ \A p \in Pages : ws[p] = s => p = s[1]
    BY OwnSocket DEF IInv
  <2>3. /\ ws[s[1]] = s => link'[s] = IF link[s] = "up" THEN "broken" ELSE link[s]
        /\ ws[s[1]] # s => link'[s] = None
    BY <2>1, <2>2
  <2>4. SocketInv(s)
    BY DEF SInv
  <2>5. Left(s)'
    BY <1>1, <2>3, <2>4 DEF SocketInv, Left
  <2>6. Opening(s)'
    BY <1>1, <2>1, <2>4 DEF SocketInv, Opening, Lacks
  <2>7. Open(s)'
    BY <1>1, <2>3, <2>4 DEF SocketInv, Open
  <2>. QED  BY <2>1, <2>5, <2>6, <2>7 DEF SocketInv, Unserved
<1>. QED  BY <1>2, <1>3 DEF SInv

LEMMA SAcceptStep == ASSUME IInv, SInv, NEW r \in Socks, Accept(r) PROVE SInv'
<1>1. /\ UNCHANGED <<inbox, wire, acks, ws, phase>>
      /\ link[r] = "asked" /\ link' = [link EXCEPT ![r] = "up"]
      /\ server' = [server EXCEPT ![r] = "accepted"]
  BY DEF Accept, serverUnchanged, wsVars
<1>2. Messages'
  BY <1>1 DEF SInv, Messages
<1>3. ASSUME NEW s \in Socks PROVE SocketInv(s)'
  <2>1. SocketInv(s)
    BY DEF SInv
  <2>2. CASE s = r
    <3>1. link'[s] = "up" /\ server'[s] = "accepted"
      BY <1>1, <2>2 DEF IInv, TypeOK
    <3>2. ws[s[1]] = s /\ phase[s[1]] # "open"
      BY <1>1, <2>1, <2>2 DEF SocketInv, Left, Open, None
    <3>. QED  BY <1>1, <2>1, <3>1, <3>2
              DEF SocketInv, Unserved, Left, Opening, Open, Lacks, None
  <2>3. CASE s # r
    <3>1. link'[s] = link[s] /\ server'[s] = server[s]
      BY <1>1, <2>3 DEF IInv, TypeOK
    <3>. QED  BY <1>1, <2>1, <3>1, SameSocket
  <2>. QED  BY <2>2, <2>3
<1>. QED  BY <1>2, <1>3 DEF SInv

LEMMA SClosedStep == ASSUME IInv, SInv, NEW r \in Socks, Closed(r) PROVE SInv'
<1>1. /\ UNCHANGED <<wire, acks, ws, phase>>
      /\ server[r] = "open" /\ ~ alive[r]
      /\ server' = [server EXCEPT ![r] = None]
      /\ inbox' = [inbox EXCEPT ![r] = << >>]
      /\ link' = [link EXCEPT ![r] = IF ws[r[1]] = r THEN @ ELSE None]
  BY DEF Closed, serverUnchanged, wsVars
<1>2. Messages'
  BY <1>1 DEF SInv, Messages
<1>3. ASSUME NEW s \in Socks PROVE SocketInv(s)'
  <2>1. SocketInv(s)
    BY DEF SInv
  <2>2. CASE s = r
    <3>1. server'[s] = None /\ inbox'[s] = << >>
      BY <1>1, <2>2 DEF IInv, TypeOK, SInv, Messages
    <3>2. link[s] # "up"
      BY <1>1, <2>2 DEF IInv, Served
    <3>3. /\ ws[s[1]] = s => link'[s] = link[s]
          /\ ws[s[1]] # s => link'[s] = None
      <4>. DEFINE l == IF ws[r[1]] = r THEN link[r] ELSE None
      <4>1. link' = [link EXCEPT ![r] = l]
        BY <1>1, Zenon
      <4>2. link'[r] = l
        <5>. HIDE DEF l
        <5>. QED  BY <4>1 DEF IInv, TypeOK
      <4>. QED  BY <2>2, <4>2
    <3>4. Unserved(s)'
      BY <3>1 DEF Unserved
    <3>5. Left(s)'
      BY <1>1, <2>1, <3>3 DEF SocketInv, Left
    <3>6. Opening(s)'
      BY <1>1, <2>1, <3>1 DEF SocketInv, Opening, Lacks
    <3>7. Open(s)'
      BY <1>1, <2>1, <3>2, <3>3 DEF SocketInv, Open
    <3>. QED  BY <3>4, <3>5, <3>6, <3>7 DEF SocketInv
  <2>3. CASE s # r
    <3>1. server'[s] = server[s] /\ inbox'[s] = inbox[s] /\ link'[s] = link[s]
      BY <1>1, <2>3 DEF IInv, TypeOK, SInv, Messages
    <3>. QED  BY <1>1, <2>1, <3>1, SameSocket
  <2>. QED  BY <2>2, <2>3
<1>. QED  BY <1>2, <1>3 DEF SInv

\* The controller takes the subscription out of the inbox and acknowledges it; to
\* nothing else a page sends does it answer with an acknowledgement.
LEMMA SHandleMessageStep ==
    ASSUME IInv, SInv, NEW r \in Socks, HandleMessage(r) PROVE SInv'
<1>. DEFINE m == Head(inbox[r])
<1>1. /\ UNCHANGED <<link, server, acks, ws, phase>>
      /\ inbox[r] # << >> /\ inbox' = [inbox EXCEPT ![r] = Tail(@)]
      /\ wire' = Sent({r}, Answer(m))
  BY DEF HandleMessage, serverUnchanged, wsVars
<1>2. inbox[r] \in Seq({"subscribe"} \union Others) /\ m \in {"subscribe"} \union Others
  BY <1>1 DEF SInv, Messages
<1>3. /\ m = "subscribe" => Answer(m) = "subscription_ack"
      /\ m # "subscribe" => Answer(m) # "subscription_ack"
  <2>1. m # "unsubscribe"
    BY <1>2
  <2>. HIDE DEF m
  <2>. QED  BY <2>1 DEF Answer, None
<1>. HIDE DEF m
<1>4. Messages'
  <2>1. wire' \in [Socks -> Seq(Heard)]
    BY <1>1, SentType DEF SInv
  <2>2. inbox' \in [Socks -> Seq({"subscribe"} \union Others)]
    BY <1>1, <1>2 DEF SInv, Messages
  <2>. QED  BY <1>1, <2>1, <2>2 DEF SInv, Messages
<1>5. ASSUME NEW s \in Socks PROVE SocketInv(s)'
  <2>1. SocketInv(s)
    BY DEF SInv
  <2>2. CASE s # r
    <3>1. inbox'[s] = inbox[s]
      BY <1>1, <2>2 DEF SInv, Messages
    <3>2. wire'[s] = wire[s]
      <4>. DEFINE S == {r}
      <4>1. s \notin S /\ wire' = Sent(S, Answer(m)) /\ Messages
        BY <1>1, <2>2 DEF SInv
      <4>. HIDE DEF S
      <4>. QED  BY <4>1, SentKeeps
    <3>. QED  BY <1>1, <2>1, <3>1, <3>2, SameSocket
  <2>3. CASE s = r
    <3>1. inbox'[s] = Tail(inbox[s]) /\ m = Head(inbox[s]) /\ inbox[s] # << >>
      BY <1>1, <2>3 DEF SInv, Messages, m
    <3>2. server[s] # None
      BY <2>1, <3>1 DEF SocketInv, Unserved
    <3>3. Unserved(s)'
      BY <1>1, <2>1, <3>2 DEF SocketInv, Unserved
    <3>4. link[s] # "up" => wire'[s] = wire[s]
      BY <1>1, SentKeeps DEF SInv
    <3>5. Left(s)'
      BY <1>1, <2>1, <3>4 DEF SocketInv, Left, None
    <3>6. Opening(s)'
      BY <1>1, <2>1, <3>1 DEF SocketInv, Opening
    <3>7. Open(s)'
      <4>. SUFFICES ASSUME ws[s[1]] = s, phase[s[1]] = "open", link[s] = "up"
                    PROVE  OnItsWay(s)'
        BY <1>1, <2>1 DEF SocketInv, Open
      <4>1. OnItsWay(s)
        BY <2>1 DEF SocketInv, Open
      <4>2. inbox[s] \in Seq({"subscribe"} \union Others) /\ wire[s] \in Seq(Heard)
        BY DEF SInv, Messages
      <4>3. CASE HasOne(inbox[s], "subscribe") /\ m = "subscribe"
        <5>1. acks[s] = 0 /\ Lacks(wire[s], "subscription_ack")
          BY <4>1, <4>3 DEF OnItsWay, HasOne, Lacks
        <5>2. wire'[s] = Append(wire[s], "subscription_ack")
          <6>. DEFINE S == {r}
          <6>1. s \in S /\ wire' = Sent(S, "subscription_ack") /\ Messages
            BY <1>1, <1>3, <2>3, <4>3 DEF SInv
          <6>2. "subscription_ack" \in Heard
            BY DEF Heard
          <6>. HIDE DEF S
          <6>. QED  BY <6>1, <6>2, SentKeeps
        <5>3. HasOne(wire'[s], "subscription_ack")
          BY <4>2, <5>1, <5>2, LacksAppend DEF Heard
        <5>4. Lacks(inbox'[s], "subscribe")
          BY <3>1, <4>2, <4>3, HasOneTail
        <5>. QED  BY <1>1, <5>1, <5>3, <5>4 DEF OnItsWay
      <4>4. CASE HasOne(inbox[s], "subscribe") /\ m # "subscribe"
        <5>1. acks[s] = 0 /\ Lacks(wire[s], "subscription_ack")
          BY <4>1, <4>4 DEF OnItsWay, HasOne, Lacks
        <5>2. Lacks(wire'[s], "subscription_ack")
          BY <1>1, <1>3, <4>4, <5>1, SentKeeps DEF SInv
        <5>3. HasOne(inbox'[s], "subscribe")
          BY <3>1, <4>2, <4>4, HasOneTail
        <5>. QED  BY <1>1, <5>1, <5>2, <5>3 DEF OnItsWay
      <4>5. CASE Lacks(inbox[s], "subscribe")
        <5>1. m # "subscribe"
          BY <3>1, <4>2, <4>5 DEF Lacks
        <5>2. Lacks(inbox'[s], "subscribe")
          BY <3>1, <4>2, <4>5, LacksTail
        <5>3. /\ Lacks(wire[s], "subscription_ack") => Lacks(wire'[s], "subscription_ack")
              /\ HasOne(wire[s], "subscription_ack") => HasOne(wire'[s], "subscription_ack")
          BY <1>1, <1>3, <5>1, SentKeeps DEF SInv
        <5>4. ~ HasOne(inbox[s], "subscribe")
          BY <4>5 DEF Lacks, HasOne
        <5>. QED  BY <1>1, <4>1, <5>2, <5>3, <5>4 DEF OnItsWay
      <4>. QED  BY <4>1, <4>3, <4>4, <4>5 DEF OnItsWay
    <3>. QED  BY <3>3, <3>5, <3>6, <3>7 DEF SocketInv
  <2>. QED  BY <2>2, <2>3
<1>. QED  BY <1>4, <1>5 DEF SInv

\* A new connection carries the subscription, and nothing else so far: it is sent by
\* the loop of handleOpen or by subscribe(), not by both.
LEMMA SOpenedStep == ASSUME IInv, SInv, NEW p \in Pages, Opened(p) PROVE SInv'
<1>. DEFINE r     == ws[p]
            queue == IF link[r] = "up" THEN inbox[r] \o <<"subscribe">> ELSE inbox[r]
<1>0. Subscriptions(p) = <<"subscribe">>
  <2>1. \/ OldChannels(p) = <<"subscribe">> /\ NewChannels(p) = << >>
        \/ OldChannels(p) = << >> /\ NewChannels(p) = <<"subscribe">>
    BY Zenon DEF OldChannels, NewChannels
  <2>2. /\ <<"subscribe">> \o << >> = <<"subscribe">>
        /\ << >> \o <<"subscribe">> = <<"subscribe">>
    <3>1. <<"subscribe">> \in Seq({"subscribe"})
      OBVIOUS
    <3>. QED  BY <3>1, ConcatEmptySeq
  <2>. QED  BY <2>1, <2>2, Zenon DEF Subscriptions
<1>1. /\ UNCHANGED <<link, server, wire, acks, ws>>
      /\ phase[p] = "opening" /\ phase' = [phase EXCEPT ![p] = "open"]
      /\ link[r] \in {"up", "broken"}
      /\ inbox' = [inbox EXCEPT ![r] = queue]
  BY <1>0 DEF Opened, pageUnchanged
<1>2. r \in Socks /\ r[1] = p
  <2>1. ws[p] \in OwnSocks(p)
    BY <1>1 DEF IInv, TypeOK, PageState, None
  <2>. QED  BY <2>1, ASocket
<1>3. inbox[r] = << >> /\ acks[r] = 0 /\ Lacks(wire[r], "subscription_ack")
  BY <1>1, <1>2 DEF SInv, SocketInv, Opening
<1>4. queue = IF link[r] = "up" THEN <<"subscribe">> ELSE << >>
  BY <1>3
<1>. HIDE DEF queue
<1>5. Messages'
  <2>1. queue \in Seq({"subscribe"} \union Others)
    <3>. DEFINE T == {"subscribe"} \union Others
    <3>1. "subscribe" \in T
      OBVIOUS
    <3>. HIDE DEF T
    <3>2. queue \in Seq(T)
      BY <1>4, <3>1
    <3>. QED  BY <3>2 DEF T
  <2>2. inbox' \in [Socks -> Seq({"subscribe"} \union Others)]
    BY <1>1, <1>2, <2>1 DEF SInv, Messages
  <2>. QED  BY <1>1, <2>2 DEF SInv, Messages
<1>6. ASSUME NEW s \in Socks PROVE SocketInv(s)'
  <2>1. SocketInv(s) /\ s[1] \in Pages /\ (s # r => ws[p] # s)
    BY OwnSocket DEF SInv, IInv
  <2>2. CASE s = r
    <3>1. inbox'[s] = queue /\ phase'[s[1]] = "open"
      BY <1>1, <1>2, <2>2 DEF SInv, Messages, IInv, TypeOK
    <3>2. Unserved(s)'
      <4>1. link[s] = "up" => server[s] # None
        BY <2>2 DEF IInv, Served, None
      <4>2. link[s] # "up" => inbox'[s] = << >>
        BY <1>4, <2>2, <3>1
      <4>. QED  BY <1>1, <2>2, <4>1, <4>2 DEF Unserved, None
    <3>3. link[s] = "up" => HasOne(inbox'[s], "subscribe")
      BY <1>4, <2>2, <3>1 DEF HasOne
    <3>4. link[s] = "up" => OnItsWay(s)'
      BY <1>1, <1>3, <2>2, <3>3 DEF OnItsWay, Lacks
    <3>5. Open(s)'
      BY <1>1, <2>2, <3>4 DEF Open
    <3>. QED  BY <1>1, <1>2, <2>2, <3>1, <3>2, <3>5 DEF SocketInv, Left, Opening
  <2>3. CASE s # r
    <3>1. inbox'[s] = inbox[s] /\ (ws[s[1]] = s => phase'[s[1]] = phase[s[1]])
      BY <1>1, <2>1, <2>3 DEF SInv, Messages, IInv, TypeOK
    <3>. QED  BY <1>1, <2>1, <3>1, SameSocket
  <2>. QED  BY <2>2, <2>3
<1>. QED  BY <1>5, <1>6 DEF SInv

\* Whatever else is sent over an open connection is no subscription.
LEMMA SSendStep == ASSUME IInv, SInv, NEW p \in Pages, Send(p) PROVE SInv'
<1>. DEFINE r == ws[p]
<1>1. PICK m \in Others : inbox' = [inbox EXCEPT ![r] = Append(@, m)]
  BY DEF Send
<1>2. /\ UNCHANGED <<link, server, wire, acks, ws, phase>>
      /\ phase[p] = "open" /\ link[r] = "up"
  BY DEF Send, wsVars
<1>3. r \in Socks /\ r[1] = p
  <2>1. ws[p] \in OwnSocks(p)
    BY <1>2 DEF IInv, TypeOK, PageState, None
  <2>. QED  BY <2>1, ASocket
<1>4. /\ inbox[r] \in Seq({"subscribe"} \union Others)
      /\ m \in {"subscribe"} \union Others /\ m # "subscribe"
      /\ inbox'[r] = Append(inbox[r], m)
  BY <1>1, <1>3 DEF SInv, Messages
<1>5. Messages'
  <2>1. inbox' \in [Socks -> Seq({"subscribe"} \union Others)]
    BY <1>1, <1>3, <1>4 DEF SInv, Messages
  <2>. QED  BY <1>2, <2>1 DEF SInv, Messages
<1>6. ASSUME NEW s \in Socks PROVE SocketInv(s)'
  <2>1. SocketInv(s)
    BY DEF SInv
  <2>2. CASE s = r
    <3>1. server[s] # None
      BY <1>2, <2>2 DEF IInv, Served, None
    <3>2. /\ Lacks(inbox[s], "subscribe") => Lacks(inbox'[s], "subscribe")
          /\ HasOne(inbox[s], "subscribe") => HasOne(inbox'[s], "subscribe")
      <4>. DEFINE T == {"subscribe"} \union Others
      <4>. HIDE DEF T
      <4>1. /\ inbox[s] \in Seq(T) /\ m \in T /\ m # "subscribe"
            /\ inbox'[s] = Append(inbox[s], m)
        BY <1>4, <2>2 DEF T
      <4>. QED  BY <4>1, LacksAppend, HasOneAppend
    <3>3. Unserved(s)'
      BY <1>2, <2>1, <3>1 DEF SocketInv, Unserved
    <3>4. Open(s)'
      BY <1>2, <2>1, <3>2 DEF SocketInv, Open, OnItsWay, Lacks, HasOne
    <3>. QED  BY <1>2, <1>3, <2>1, <2>2, <3>3, <3>4 DEF SocketInv, Left, Opening
  <2>3. CASE s # r
    <3>1. inbox'[s] = inbox[s]
      BY <1>1, <2>3 DEF SInv, Messages
    <3>. QED  BY <1>2, <2>1, <3>1, SameSocket
  <2>. QED  BY <2>2, <2>3
<1>. QED  BY <1>5, <1>6 DEF SInv

\* The page counts the acknowledgement that leaves the wire.
LEMMA SReceiveStep == ASSUME IInv, SInv, NEW p \in Pages, Receive(p) PROVE SInv'
<1>. DEFINE r == ws[p]
            m == Head(wire[r])
            n == IF m = "subscription_ack" THEN acks[r] + 1 ELSE acks[r]
<1>1. /\ UNCHANGED <<link, server, inbox, ws, phase>>
      /\ phase[p] = "open" /\ wire[r] # << >>
      /\ wire' = [wire EXCEPT ![r] = Tail(@)]
      /\ acks' = [acks EXCEPT ![r] = n]
  BY DEF Receive, wsVars
<1>2. r \in Socks /\ r[1] = p
  <2>1. ws[p] \in OwnSocks(p)
    BY <1>1 DEF IInv, TypeOK, PageState, None
  <2>. QED  BY <2>1, ASocket
<1>3. /\ wire[r] \in Seq(Heard) /\ acks[r] \in Nat /\ n \in Nat
      /\ m = "subscription_ack" => n = acks[r] + 1
      /\ m # "subscription_ack" => n = acks[r]
  BY <1>2 DEF SInv, Messages
<1>4. wire'[r] = Tail(wire[r]) /\ acks'[r] = n
  <2>. HIDE DEF n
  <2>. QED  BY <1>1, <1>2 DEF SInv, Messages
<1>. HIDE DEF n, m
<1>5. Messages'
  BY <1>1, <1>2, <1>3 DEF SInv, Messages
<1>6. ASSUME NEW s \in Socks PROVE SocketInv(s)'
  <2>1. SocketInv(s)
    BY DEF SInv
  <2>2. CASE s = r
    <3>1. /\ Lacks(wire[s], "subscription_ack") =>
                m # "subscription_ack" /\ Lacks(wire'[s], "subscription_ack")
          /\ HasOne(wire[s], "subscription_ack") =>
                IF m = "subscription_ack" THEN Lacks(wire'[s], "subscription_ack")
                                          ELSE HasOne(wire'[s], "subscription_ack")
      <4>1. Head(wire[r]) = wire[r][1] /\ 1 \in DOMAIN wire[r]
        BY <1>1, <1>3
      <4>2. Lacks(wire[r], "subscription_ack") => m # "subscription_ack"
        BY <4>1 DEF Lacks, m
      <4>. QED  BY <1>1, <1>3, <1>4, <2>2, <4>2, LacksTail, HasOneTail DEF m
    <3>2. Unserved(s)'
      BY <1>1, <2>1 DEF SocketInv, Unserved
    <3>3. Open(s)'
      <4>. SUFFICES ASSUME ws[s[1]] = s, phase[s[1]] = "open", link[s] = "up"
                    PROVE  OnItsWay(s)'
        BY <1>1, <2>1 DEF SocketInv, Open
      <4>1. OnItsWay(s)
        BY <2>1 DEF SocketInv, Open
      <4>2. CASE m = "subscription_ack"
        <5>1. ~ Lacks(wire[s], "subscription_ack")
          BY <3>1, <4>2
        <5>2. /\ acks[s] = 0 /\ Lacks(inbox[s], "subscribe")
              /\ HasOne(wire[s], "subscription_ack")
          BY <4>1, <5>1 DEF OnItsWay
        <5>3. acks'[s] = 1
          BY <1>3, <1>4, <2>2, <4>2, <5>2
        <5>4. Lacks(wire'[s], "subscription_ack") /\ Lacks(inbox'[s], "subscribe")
          BY <1>1, <3>1, <4>2, <5>2 DEF Lacks
        <5>. QED  BY <5>3, <5>4 DEF OnItsWay
      <4>3. CASE m # "subscription_ack"
        <5>1. acks'[s] = acks[s]
          BY <1>3, <1>4, <2>2, <4>3
        <5>2. inbox'[s] = inbox[s]
          BY <1>1
        <5>. QED  BY <3>1, <4>1, <4>3, <5>1, <5>2 DEF OnItsWay
      <4>. QED  BY <4>2, <4>3
    <3>. QED  BY <1>1, <1>2, <2>1, <2>2, <3>2, <3>3 DEF SocketInv, Left, Opening
  <2>3. CASE s # r
    <3>1. wire'[s] = wire[s] /\ acks'[s] = acks[s]
      BY <1>1, <2>3 DEF SInv, Messages
    <3>. QED  BY <1>1, <2>1, <3>1, SameSocket
  <2>. QED  BY <2>2, <2>3
<1>. QED  BY <1>5, <1>6 DEF SInv

LEMMA SErrorStep == ASSUME IInv, SInv, NEW p \in Pages, Error(p) PROVE SInv'
<1>1. /\ UNCHANGED <<link, server, inbox, wire, acks, ws>>
      /\ phase' = [phase EXCEPT ![p] = "failed"]
  BY DEF Error
<1>2. Messages'
  BY <1>1 DEF SInv, Messages
<1>3. ASSUME NEW s \in Socks PROVE SocketInv(s)'
  <2>1. SocketInv(s) /\ s[1] \in Pages
    BY OwnSocket DEF SInv, IInv
  <2>2. phase'[s[1]] = phase[s[1]] \/ phase'[s[1]] = "failed"
    BY <1>1, <2>1 DEF IInv, TypeOK
  <2>3. CASE phase'[s[1]] = phase[s[1]]
    BY <1>1, <2>1, <2>3, SameSocket
  <2>4. CASE phase'[s[1]] = "failed"
    BY <1>1, <2>1, <2>4 DEF SocketInv, Unserved, Left, Opening, Open
  <2>. QED  BY <2>2, <2>3, <2>4
<1>. QED  BY <1>2, <1>3 DEF SInv

\* The page leaves its connection behind, at whose other end the controller may
\* still be.
LEMMA SCloseStep == ASSUME IInv, SInv, NEW p \in Pages, Close(p) PROVE SInv'
<1>. DEFINE r == ws[p]
            l == IF server[r] = None THEN None ELSE "broken"
<1>1. /\ UNCHANGED <<server, inbox>>
      /\ phase[p] \in {"failed", "open"}
      /\ ws' = [ws EXCEPT ![p] = NoSocket] /\ phase' = [phase EXCEPT ![p] = None]
      /\ link' = [link EXCEPT ![r] = l]
      /\ wire' = [wire EXCEPT ![r] = << >>] /\ acks' = [acks EXCEPT ![r] = 0]
  BY DEF Close, Lost
<1>2. r \in Socks /\ r[1] = p /\ r # NoSocket
  <2>1. ws[p] \in OwnSocks(p)
    BY <1>1 DEF IInv, TypeOK, PageState, None
  <2>. QED  BY <2>1, ASocket
<1>. HIDE DEF l
<1>3. Messages'
  BY <1>1, <1>2 DEF SInv, Messages
<1>4. ASSUME NEW s \in Socks PROVE SocketInv(s)'
  <2>1. SocketInv(s) /\ s[1] \in Pages /\ (s # r => ws[p] # s) /\ s # NoSocket
    BY OwnSocket DEF SInv, IInv
  <2>2. CASE s = r
    <3>1. /\ ws'[s[1]] # s /\ wire'[s] = << >> /\ acks'[s] = 0 /\ link'[s] = l
      BY <1>1, <1>2, <2>1, <2>2 DEF SInv, Messages, IInv, TypeOK
    <3>2. l \in {None, "broken"} /\ (l = None => server[s] = None) /\ l # "asked"
      BY <2>2 DEF l, None
    <3>3. Unserved(s)'
      BY <1>1, <2>1, <3>1, <3>2 DEF SocketInv, Unserved
    <3>4. Left(s)'
      BY <3>1, <3>2 DEF Left
    <3>. QED  BY <3>1, <3>3, <3>4 DEF SocketInv, Opening, Open
  <2>3. CASE s # r
    <3>1. link'[s] = link[s] /\ wire'[s] = wire[s] /\ acks'[s] = acks[s]
      BY <1>1, <2>3 DEF SInv, Messages, IInv, TypeOK
    <3>2. ws'[s[1]] = s <=> ws[s[1]] = s
      BY <1>1, <2>1, <2>3 DEF IInv, TypeOK
    <3>3. ws[s[1]] = s => phase'[s[1]] = phase[s[1]]
      BY <1>1, <2>1, <2>3 DEF IInv, TypeOK
    <3>. QED  BY <1>1, <2>1, <3>1, <3>2, <3>3, SameSocket
  <2>. QED  BY <2>2, <2>3
<1>. QED  BY <1>3, <1>4 DEF SInv

\* A reconnection takes a socket that nothing is left of.
LEMMA SReconnectStep == ASSUME IInv, SInv, NEW p \in Pages, Reconnect(p) PROVE SInv'
<1>1. UNCHANGED <<server, inbox, wire, acks>> /\ timer[p]
  BY DEF Reconnect
<1>2. CASE UNCHANGED <<ws, link, phase>>
  BY <1>1, <1>2, SUnconcerned DEF socketVars
<1>3. ASSUME NEW r \in {p} \X {1, 2}, link[r] = None,
             ws' = [ws EXCEPT ![p] = r], link' = [link EXCEPT ![r] = "asked"],
             phase' = [phase EXCEPT ![p] = "opening"]
      PROVE  SInv'
  <2>1. r \in Socks /\ r[1] = p /\ r # NoSocket
    BY ASocket DEF OwnSocks
  <2>2. ws[p] = NoSocket
    BY <1>1 DEF IInv, PageState
  <2>3. Messages'
    BY <1>1 DEF SInv, Messages
  <2>4. ASSUME NEW s \in Socks PROVE SocketInv(s)'
    <3>1. SocketInv(s) /\ s[1] \in Pages /\ s # NoSocket
      BY OwnSocket DEF SInv, IInv
    <3>2. CASE s = r
      <4>1. /\ server[s] = None /\ inbox[s] = << >> /\ wire[s] = << >> /\ acks[s] = 0
        BY <1>3, <2>1, <2>2, <3>1, <3>2 DEF SocketInv, Unserved, Left
      <4>2. /\ ws'[s[1]] = s /\ link'[s] = "asked" /\ phase'[s[1]] = "opening"
        BY <1>3, <2>1, <3>2 DEF IInv, TypeOK
      <4>. QED  BY <1>1, <4>1, <4>2 DEF SocketInv, Unserved, Left, Opening, Open, Lacks
    <3>3. CASE s # r
      <4>1. link'[s] = link[s]
        BY <1>3, <3>3 DEF IInv, TypeOK
      <4>2. ws'[s[1]] = s <=> ws[s[1]] = s
        BY <1>3, <2>2, <3>1, <3>3 DEF IInv, TypeOK
      <4>3. ws[s[1]] = s => phase'[s[1]] = phase[s[1]]
        BY <1>3, <2>2, <3>1 DEF IInv, TypeOK
      <4>. QED  BY <1>1, <3>1, <4>1, <4>2, <4>3, SameSocket
    <3>. QED  BY <3>2, <3>3
  <2>. QED  BY <2>3, <2>4 DEF SInv
<1>. QED  BY <1>2, <1>3 DEF Reconnect

LEMMA SNextStep == ASSUME IInv, SInv, [Next]_vars PROVE SInv'
<1>1. CASE Mine \/ Index \/ ServerStarts
  BY <1>1, SUnconcerned DEF Mine, Index, ServerStarts, sockVars, wsVars, socketVars
<1>2. CASE LinkBreaks
  BY <1>2, SLinkBreaksStep
<1>3. CASE ServerEnds
  BY <1>3, SServerEndsStep
<1>4. CASE BlockEvent \/ OtherUpdate
  BY <1>4, SBroadcastStep
<1>5. ASSUME NEW s \in Socks, Serving(s) PROVE SInv'
  <2>1. CASE Notice(s)
    BY <2>1, SUnconcerned DEF Notice, serverUnchanged, wsVars, socketVars
  <2>. QED  BY <1>5, <2>1, SAcceptStep, SRegisterStep, SHandleMessageStep, SClosedStep
            DEF Serving
<1>6. ASSUME NEW p \in Pages, Fetch(p) \/ Serve(p) \/ NoAnswer(p) \/ Display(p)
      PROVE  SInv'
  BY <1>6, SUnconcerned
     DEF Fetch, Serve, NoAnswer, Display, Respond, fetchUnchanged, sockVars, wsVars,
         socketVars
<1>7. ASSUME NEW p \in Pages, Surfing(p) \/ Send(p) \/ Reconnect(p) PROVE SInv'
  BY <1>7, SOpenedStep, SReceiveStep, SErrorStep, SCloseStep, SSendStep, SReconnectStep
     DEF Surfing
<1>8. CASE UNCHANGED vars
  BY <1>8, SUnconcerned DEF vars, sockVars, wsVars, socketVars
<1>. QED  BY <1>1, <1>2, <1>3, <1>4, <1>5, <1>6, <1>7, <1>8 DEF Next

\* Where a connection's subscription is, at every moment: with the page's other
\* messages, with the controller's answers, or done.
THEOREM SubscriptionInvariance == Spec => []SInv
  BY InitSInv, SNextStep, Invariance, PTL DEF Spec

\* Over every open connection whose link is up the page has asked once for its
\* channels, and its request is acknowledged once or still on its way: after a
\* reconnection the set of subscriptions is sent again (websocket-client.js), and
\* never twice over the same connection.
THEOREM SubscriptionsAreMadeOnce == Spec => []SubscribedOnce
<1>1. IInv /\ SInv => SubscribedOnce
  <2>. SUFFICES ASSUME IInv, SInv, NEW p \in Pages, phase[p] = "open", link[ws[p]] = "up"
                PROVE  acks[ws[p]] + AcksUnderWay(ws[p]) = 1
    BY DEF SubscribedOnce
  <2>1. ws[p] \in OwnSocks(p)
    BY DEF IInv, TypeOK, PageState, None
  <2>2. ws[p] \in Socks /\ ws[p][1] = p
    BY <2>1, ASocket
  <2>3. OnItsWay(ws[p])
    BY <2>2 DEF SInv, SocketInv, Open
  <2>. QED  BY <2>3, CountLacks, CountHasOne DEF OnItsWay, AcksUnderWay
<1>. QED  BY <1>1, Invariance, SubscriptionInvariance, PTL
=============================================================================
