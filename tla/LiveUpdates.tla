----------------------------- MODULE LiveUpdates -----------------------------
(***************************************************************************)
(* How news of a block reaches the pages that browsers show: the           *)
(* EventProcessor's broadcasts, EventBroadcaster with its set of           *)
(* connections, WebSocketController, and the front page, whose             *)
(* websocket-client.js opens a new connection when one ends and has        *)
(* main.js poll in between.  A page fetches the table of latest blocks     *)
(* again a second after it is told of a block; the answer is what the      *)
(* indexer has stored by then.                                             *)
(*                                                                         *)
(* A socket is one WebSocket connection with its two ends: "link" is       *)
(* what lies between them, "server" where the controller is with it,       *)
(* "alive" its connected().  Each end learns for itself that the link is   *)
(* broken.  The controller's calls for a socket come from one event loop,  *)
(* the broadcasts from another thread.                                     *)
(***************************************************************************)
EXTENDS Naturals, Sequences, SequencesExt

CONSTANTS Pages,
          MaxAttempts,  \* maxReconnectAttempts
          Near,         \* blocks behind up to which a block is broadcast, 2
          Others,       \* messages but "subscribe" that arrive at /ws; a page never
                        \* sends "unsubscribe"
          MaxTip,       \* bound: blocks of the node's chain
          MaxOthers,    \* bound: updates but "block", and messages in Others
          MaxBreaks,    \* bound: restarts of the server, broken links, lost answers
          MaxFetches    \* bound: unanswered requests of a page

ASSUME LiveAssumption == /\ {MaxAttempts, Near, MaxTip, MaxOthers, MaxBreaks} \subseteq Nat
                         /\ MaxFetches \in Nat \ {0}
                         /\ Others \cap {"subscribe", "unsubscribe"} = {}

VARIABLES
    up,        \* the explorer runs
    tip,       \* the node's chain
    events,    \* block events not yet processed
    table,     \* MAX(height) of table blocks
    syncing,   \* flag_syncing
    breaks, others,
    link, server, alive, inbox, wire, \* the sockets
    clients,   \* connected_clients
    acks,      \* subscriptions acknowledged over each socket
    ws,        \* this.ws of each page, NoSocket without
    phase,     \* what the page has been told of it
    status,    \* connectionStatus
    attempts, timer,    \* reconnectAttempts, a reconnection is scheduled
    subscribed,         \* subscriptions (its channels are treated alike)
    polling,            \* pollingInterval
    due,                \* delayed fetches of onBlockUpdate
    waiting, answers,   \* requests under way, answers on their way back
    shown               \* height of the topmost block on the page, 0: none

chainVars  == <<tip, events, table, syncing>>
budgetVars == <<breaks, others>>
sockVars   == <<link, server, alive, inbox, wire, clients, acks>>
wsVars     == <<ws, phase, status, attempts, timer, subscribed>>
fetchVars  == <<due, waiting, answers, shown>>
vars == <<up, chainVars, budgetVars, sockVars, wsVars, polling, fetchVars>>

None == "none"
NoSocket == << >>
Socks == Pages \X {1, 2}   \* a page's old socket may outlive it at the server
Updates == {"block", "network", "transaction"}

\* Both scripts have run: the first connection and the first fetch are under way.
Init == /\ up = TRUE /\ tip = 1 /\ events = 0 /\ table = 1 /\ syncing = FALSE
        /\ breaks = 0 /\ others = 0
        /\ link = [s \in Socks |-> IF s[2] = 1 THEN "asked" ELSE None]
        /\ server = [s \in Socks |-> None] /\ alive = [s \in Socks |-> FALSE]
        /\ inbox = [s \in Socks |-> << >>] /\ wire = [s \in Socks |-> << >>]
        /\ acks = [s \in Socks |-> 0]
        /\ clients = {}
        /\ ws = [p \in Pages |-> <<p, 1>>] /\ phase = [p \in Pages |-> "opening"]
        /\ status = [p \in Pages |-> "disconnected"]
        /\ attempts = [p \in Pages |-> 0] /\ timer = [p \in Pages |-> FALSE]
        /\ subscribed = [p \in Pages |-> FALSE] /\ polling = [p \in Pages |-> FALSE]
        /\ due = [p \in Pages |-> 0] /\ waiting = [p \in Pages |-> 1]
        /\ answers = [p \in Pages |-> << >>] /\ shown = [p \in Pages |-> 0]

-----------------------------------------------------------------------------
(* The chain, the indexer, and what may break.                             *)

Mine == /\ tip < MaxTip
        /\ tip' = tip + 1 /\ events' = IF up THEN events + 1 ELSE events
        /\ UNCHANGED <<up, table, syncing, budgetVars, sockVars, wsVars, polling, fetchVars>>

\* flag_syncing is set before the blocks are indexed and cleared when the loop
\* comes round and finds none to index.
Index == /\ up
         /\ \/ table < tip /\ ~syncing /\ syncing' = TRUE /\ UNCHANGED table
            \/ table < tip /\ syncing /\ table' = tip /\ UNCHANGED syncing
            \/ table = tip /\ syncing /\ syncing' = FALSE /\ UNCHANGED table
         /\ UNCHANGED <<up, tip, events, budgetVars, sockVars, wsVars, polling, fetchVars>>

Breaks == breaks < MaxBreaks /\ breaks' = breaks + 1

Broken(S) == [s \in Socks |-> IF s \in S /\ link[s] = "up" THEN "broken" ELSE link[s]]

LinkBreaks == /\ Breaks
              /\ \E s \in Socks : link[s] = "up" /\ link' = Broken({s})
              /\ UNCHANGED <<up, chainVars, others, server, alive, inbox, wire, clients, acks,
                             wsVars, polling, fetchVars>>

\* The process ends and with it its end of every socket.
ServerEnds ==
    /\ up /\ Breaks
    /\ up' = FALSE /\ events' = 0 /\ syncing' = FALSE /\ clients' = {}
    /\ link' = [s \in Socks |->
                   IF \E p \in Pages : ws[p] = s THEN Broken(Socks)[s] ELSE None]
    /\ server' = [s \in Socks |-> None] /\ alive' = [s \in Socks |-> FALSE]
    /\ inbox' = [s \in Socks |-> << >>]
    /\ UNCHANGED <<tip, table, others, wire, acks, wsVars, polling, fetchVars>>

ServerStarts == ~up /\ up' = TRUE
                /\ UNCHANGED <<chainVars, budgetVars, sockVars, wsVars, polling, fetchVars>>

-----------------------------------------------------------------------------
(* The server.                                                             *)

serverUnchanged == UNCHANGED <<up, tip, table, syncing, breaks, wsVars, polling, fetchVars>>

\* Messages no page acts on are left out of the wire; what is sent over a broken
\* link is lost.
Heard == {"block", "subscription_ack"}

Sent(S, m) == [s \in Socks |-> IF s \in S /\ link[s] = "up" /\ m \in Heard
                               THEN Append(wire[s], m) ELSE wire[s]]

Accept(s) == /\ up /\ link[s] = "asked"
             /\ link' = [link EXCEPT ![s] = "up"]
             /\ server' = [server EXCEPT ![s] = "accepted"]
             /\ alive' = [alive EXCEPT ![s] = TRUE]
             /\ UNCHANGED <<events, others, inbox, wire, clients, acks>> /\ serverUnchanged

\* register_client
With(s) == clients \union {s}

\* handleNewConnection registers first, so an update may precede the welcome, on
\* which the page does not act.
Register(s) == /\ server[s] = "accepted"
               /\ clients' = With(s)
               /\ wire' = Sent({s}, "connected")
               /\ server' = [server EXCEPT ![s] = "open"]
               /\ UNCHANGED <<events, others, link, alive, inbox, acks>> /\ serverUnchanged

\* What handleNewMessage answers: nothing to frames that are not text, to blank
\* messages and to unknown types; a message without a type is an exception.
Answer(m) == CASE m \in {"subscribe", "unsubscribe"} -> "subscription_ack"
               [] m = "ping"                         -> "pong"
               [] m \in {"malformed", "untyped"}     -> "error"
               [] OTHER                              -> None

HandleMessage(s) ==
    /\ server[s] = "open" /\ alive[s] /\ inbox[s] # << >>
    /\ inbox' = [inbox EXCEPT ![s] = Tail(@)]
    /\ wire' = Sent({s}, Answer(Head(inbox[s])))
    /\ UNCHANGED <<events, others, link, server, alive, clients, acks>> /\ serverUnchanged

Notice(s) == /\ alive[s] /\ link[s] = "broken"
             /\ alive' = [alive EXCEPT ![s] = FALSE]
             /\ UNCHANGED <<events, others, link, server, inbox, wire, clients, acks>> /\ serverUnchanged

\* Mutant: the registry knows pages, not connections.
SamePage(s) == {c \in clients : c[1] # s[1]}

\* unregister_client
Without(s) == clients \ {s}

\* handleConnectionClosed
Closed(s) == /\ server[s] = "open" /\ ~alive[s]
             /\ clients' = Without(s)
             /\ server' = [server EXCEPT ![s] = None]
             /\ inbox' = [inbox EXCEPT ![s] = << >>]
             /\ link' = [link EXCEPT ![s] = IF ws[s[1]] = s THEN @ ELSE None]
             /\ UNCHANGED <<events, others, alive, wire, acks>> /\ serverUnchanged

\* send_to_all_clients, which drops those that are not connected any more.
Broadcast(m) == /\ wire' = Sent({s \in clients : alive[s]}, m)
                /\ clients' = {s \in clients : alive[s]}
                /\ UNCHANGED <<link, server, alive, inbox, acks>>

\* process_block_event.  Far behind the tip nobody is told; progress_total_height
\* may be older than the tip.
BlockEvent == /\ up /\ events > 0
              /\ events' = events - 1
              /\ \E total \in table..tip :
                    \/ total - table <= Near /\ Broadcast("block")
                    \/ total - table > Near /\ UNCHANGED sockVars
              /\ UNCHANGED others /\ serverUnchanged

\* The network and transaction updates, and the block update of a recovery.
OtherUpdate == /\ up /\ others < MaxOthers
               /\ \E m \in Updates : Broadcast(m)
               /\ others' = others + 1
               /\ UNCHANGED events /\ serverUnchanged

-----------------------------------------------------------------------------
(* The page.                                                               *)

pageUnchanged == UNCHANGED <<up, chainVars, others, clients>>

\* The loop of handleOpen over this.subscriptions.
OldChannels(p) == IF subscribed[p] THEN <<"subscribe">> ELSE << >>

\* subscribe(), called by onConnected, which sends only what is new to the set.
NewChannels(p) == IF subscribed[p] THEN << >> ELSE <<"subscribe">>

Subscriptions(p) == OldChannels(p) \o NewChannels(p)

\* handleOpen and onConnected, which fetches nothing.
Opened(p) ==
    /\ phase[p] = "opening" /\ link[ws[p]] \in {"up", "broken"}
    /\ attempts' = [attempts EXCEPT ![p] = 0]
    /\ status' = [status EXCEPT ![p] = "connected"] /\ phase' = [phase EXCEPT ![p] = "open"]
    /\ inbox' = [inbox EXCEPT ![ws[p]] =
                    IF link[ws[p]] = "up" THEN @ \o Subscriptions(p) ELSE @]
    /\ subscribed' = [subscribed EXCEPT ![p] = TRUE]
    /\ polling' = [polling EXCEPT ![p] = FALSE]
    /\ UNCHANGED <<breaks, link, server, alive, wire, acks, ws, timer, fetchVars>> /\ pageUnchanged

\* The ping of the heartbeat, and what other programs send to /ws.
Send(p) == /\ phase[p] = "open" /\ link[ws[p]] = "up" /\ others < MaxOthers
           /\ \E m \in Others : inbox' = [inbox EXCEPT ![ws[p]] = Append(@, m)]
           /\ others' = others + 1
           /\ UNCHANGED <<up, chainVars, breaks, link, server, alive, wire, clients, acks,
                          wsVars, polling, fetchVars>>

\* handleMessage; only a block's update leads to a new table of blocks.
Receive(p) ==
    /\ phase[p] = "open" /\ wire[ws[p]] # << >>
    /\ LET m == Head(wire[ws[p]])
       IN  /\ due' = [due EXCEPT ![p] = IF m = "block" THEN @ + 1 ELSE @]
           /\ acks' = [acks EXCEPT ![ws[p]] = IF m = "subscription_ack" THEN @ + 1 ELSE @]
    /\ wire' = [wire EXCEPT ![ws[p]] = Tail(@)]
    /\ UNCHANGED <<breaks, link, server, alive, inbox, wsVars, polling, waiting, answers, shown>>
    /\ pageUnchanged

\* The browser gives up on a connection: it was refused, or is broken.
CannotOpen(p) == phase[p] = "opening" /\ \/ link[ws[p]] = "asked" /\ ~up
                                         \/ link[ws[p]] = "broken"
Lost(p) == phase[p] = "open" /\ link[ws[p]] = "broken"

\* handleError, of which only the status matters; handleClose follows.
Error(p) == /\ CannotOpen(p) \/ Lost(p)
            /\ status' = [status EXCEPT ![p] = "error"] /\ phase' = [phase EXCEPT ![p] = "failed"]
            /\ UNCHANGED <<breaks, link, server, alive, inbox, wire, acks, ws, attempts, timer,
                           subscribed, polling, fetchVars>>
            /\ pageUnchanged

\* Mutant: the status is left to handleError.
KeepsStatus(p) == status[p]

StatusOnClose(p) == "disconnected"

\* handleClose with onDisconnected and scheduleReconnect.
Close(p) ==
    LET s == ws[p]
    IN  /\ phase[p] = "failed" \/ Lost(p)
        /\ status' = [status EXCEPT ![p] = StatusOnClose(p)]
        /\ polling' = [polling EXCEPT ![p] = TRUE]
        /\ \/ /\ attempts[p] < MaxAttempts
              /\ attempts' = [attempts EXCEPT ![p] = @ + 1]
              /\ timer' = [timer EXCEPT ![p] = TRUE]
           \/ attempts[p] = MaxAttempts /\ UNCHANGED <<attempts, timer>>
        /\ ws' = [ws EXCEPT ![p] = NoSocket] /\ phase' = [phase EXCEPT ![p] = None]
        /\ link' = [link EXCEPT ![s] = IF server[s] = None THEN None ELSE "broken"]
        /\ wire' = [wire EXCEPT ![s] = << >>] /\ acks' = [acks EXCEPT ![s] = 0]
        /\ UNCHANGED <<breaks, server, alive, inbox, subscribed, fetchVars>> /\ pageUnchanged

\* The timer: connect(), or nothing if the status is another.
Reconnect(p) ==
    /\ timer[p]
    /\ timer' = [timer EXCEPT ![p] = FALSE]
    /\ \/ /\ status[p] = "disconnected"
          /\ \E s \in {p} \X {1, 2} :
                /\ link[s] = None
                /\ ws' = [ws EXCEPT ![p] = s] /\ link' = [link EXCEPT ![s] = "asked"]
          /\ phase' = [phase EXCEPT ![p] = "opening"]
       \/ status[p] # "disconnected" /\ UNCHANGED <<ws, link, phase>>
    /\ UNCHANGED <<breaks, server, alive, inbox, wire, acks, status, attempts, subscribed, polling,
                   fetchVars>>
    /\ pageUnchanged

-----------------------------------------------------------------------------
(* fetchLatestBlocks and get_latest_blocks.  Answers may overtake each other. *)

fetchUnchanged == UNCHANGED <<up, chainVars, others, sockVars, wsVars, polling>>

UnderWay(p) == waiting[p] + Len(answers[p])

\* Mutant: setTimeout for setInterval, one poll for each outage.
Once(p) == polling[p] /\ timer[p]

Polls(p) == polling[p]

\* The interval of startPolling, or the timer of onBlockUpdate.
Fetch(p) == /\ UnderWay(p) < MaxFetches
            /\ \/ Polls(p) /\ UNCHANGED due
               \/ due[p] > 0 /\ due' = [due EXCEPT ![p] = @ - 1]
            /\ waiting' = [waiting EXCEPT ![p] = @ + 1]
            /\ UNCHANGED <<breaks, answers, shown>> /\ fetchUnchanged

Respond(p, h) == /\ waiting[p] > 0
                 /\ waiting' = [waiting EXCEPT ![p] = @ - 1]
                 /\ answers' = [answers EXCEPT ![p] = Append(@, h)]
                 /\ UNCHANGED <<due, shown>> /\ fetchUnchanged

\* get_latest_blocks answers with an empty list while the indexer is at work.
Serve(p) == up /\ Respond(p, IF syncing THEN 0 ELSE table) /\ UNCHANGED breaks

\* An error or the time-out of 5 seconds: the page shows an empty list.
NoAnswer(p) == Respond(p, 0) /\ \/ ~up /\ UNCHANGED breaks
                                \/ up /\ Breaks

Display(p) == /\ \E i \in DOMAIN answers[p] :
                    /\ shown' = [shown EXCEPT ![p] = answers[p][i]]
                    /\ answers' = [answers EXCEPT ![p] = RemoveAt(@, i)]
              /\ UNCHANGED <<breaks, due, waiting>> /\ fetchUnchanged

-----------------------------------------------------------------------------
(* The specification.                                                      *)

Serving(s) == \/ Accept(s) \/ Register(s)
              \/ HandleMessage(s) \/ Notice(s) \/ Closed(s)
Surfing(p) == Opened(p) \/ Receive(p) \/ Error(p) \/ Close(p)

Next == \/ Mine \/ Index \/ LinkBreaks \/ ServerEnds \/ ServerStarts
        \/ BlockEvent \/ OtherUpdate
        \/ \E s \in Socks : Serving(s)
        \/ \E p \in Pages : \/ Surfing(p) \/ Send(p) \/ Reconnect(p)
                           \/ Fetch(p) \/ Serve(p) \/ NoAnswer(p) \/ Display(p)

Spec == Init /\ [][Next]_vars

FairSpec == /\ Spec /\ WF_vars(Index) /\ WF_vars(BlockEvent)
            /\ \A s \in Socks : WF_vars(Serving(s))
            /\ \A p \in Pages : /\ WF_vars(Surfing(p)) /\ WF_vars(Reconnect(p))
                               /\ WF_vars(Fetch(p)) /\ WF_vars(Display(p))
                               /\ WF_vars(Serve(p) \/ (~up /\ NoAnswer(p)))

-----------------------------------------------------------------------------
(* Properties.                                                             *)

\* From its first connection on, a page that does not poll is told of blocks: its
\* connection is among the clients or about to be, whatever becomes of its earlier
\* ones, unless the link is broken and the page has yet to learn of it.
StaysInformed ==
    \A p \in Pages :
        subscribed[p] /\ ~polling[p] =>
            /\ ws[p] # NoSocket
            /\ \/ link[ws[p]] = "broken"
               \/ server[ws[p]] = "accepted"
               \/ ws[p] \in clients

\* The server forgets subscriptions with the connection, and the page keeps them:
\* over every connection each is asked for and acknowledged once.
Count(queue, m) == Cardinality({i \in DOMAIN queue : queue[i] = m})

AcksUnderWay(s) == Count(inbox[s], "subscribe") + Count(wire[s], "subscription_ack")

SubscribedOnce ==
    \A p \in Pages : phase[p] = "open" /\ link[ws[p]] = "up" =>
                       acks[ws[p]] + AcksUnderWay(ws[p]) = 1

\* After the last disturbance every page is connected in the end or has used up
\* its attempts: none waits for a timer that does nothing.
GaveUp(p) == ws[p] = NoSocket /\ attempts[p] = MaxAttempts /\ ~timer[p]

ComesBack == \A p \in Pages : <>[](status[p] = "connected" \/ GaveUp(p))

\* A page without a connection shows the table as it is once the server is back, be
\* its answers overtaken, empty or lost in between.
PollingShowsTip == \A p \in Pages : <>[](up /\ polling[p] => shown[p] = table)
=============================================================================
