---------------------------- MODULE Connectivity ----------------------------
(***************************************************************************)
(* The connection of a started runtime to the XRPL: the shared client with *)
(* its pool of endpoints (sharedClient.ts), the XRPLWebSocket the tick     *)
(* requests the book with (client.ts) and the recovery actions of a        *)
(* stalled feed (tradingRuntime.ts:722-750).  The executor, the risk       *)
(* engine and the path arbitrage strategy keep the client of the start.    *)
(*                                                                         *)
(* The tick runs a program of operations that await; the handlers of       *)
(* 'disconnected' run beside it.  A client that loses its connection       *)
(* reconnects by itself, as the xrpl library does; one that was            *)
(* disconnected on purpose does not.  One request stands for the two of a  *)
(* book.  Bounds: the connection attempts at a time, MaxFailures.          *)
(***************************************************************************)
EXTENDS Integers, Sequences, FiniteSets, SequencesExt

CONSTANTS
    Endpoints,
    Preferred,       \* the endpoint the start connected to
    Clients,         \* bound: Client objects at a time
    ExecutorClient,  \* the one of the start
    Dials,           \* bound: connection attempts at a time
    MaxFailures,     \* bound: an endpoint's failures are counted up to it
    MaxReconnects,   \* cfg.maxReconnects
    ZombieThreshold, \* XRPLWebSocket.ZOMBIE_THRESHOLD
    Weathers,        \* what may become of an endpoint
    MaxChanges,      \* bound: how often one changes
    None

ASSUME ConnectivityAssumption ==
    /\ Preferred \in Endpoints /\ ExecutorClient \in Clients
    /\ None \notin Endpoints \cup Clients \cup Dials
    /\ IsFiniteSet(Endpoints)
    /\ \A c \in Clients : Clients \ {c, ExecutorClient} # {}
    /\ {MaxFailures, MaxReconnects, ZombieThreshold} \subseteq Nat \ {0}
    /\ MaxChanges \in Nat
    /\ {"up"} \subseteq Weathers /\ Weathers \subseteq {"up", "mute", "limited", "down"}

VARIABLES
    changes,  \* of net, up to MaxChanges
    net,      \* each endpoint answers, accepts but does not answer, refuses with 429, is down
    failures, \* EndpointState.failures
    older,    \* the order of lastAttempt: the first of a pair was attempted before
    cooling,  \* the endpoints with a cooldownUntil in the future
    client,   \* of each Client its endpoint and whether it is open, lost or closed
    shared,   \* sharedClient, or None
    current,  \* currentEndpoint, or None
    dial,     \* the endpoints each connection attempt still has to try
    promise,  \* the attempt connectPromise stands for, or None
    socket,   \* the XRPLWebSocket
    taped,    \* clients whose connection is subscribed to the transactions
    todo,     \* what the tick still has to do
    waits     \* the attempt it awaits, or None

poolVars == <<failures, older, cooling>>
sharedVars == <<shared, current, dial, promise>>
vars == <<changes, net, poolVars, client, sharedVars, socket, taped, todo, waits>>

Ops == {"establish", "require", "request", "send", "subscribe", "sendTape", "evaluate",
        "rotate", "disconnect", "dial", "leave"}

\* No two endpoints were attempted at the same time, of those that differ.
IsOrder(order) ==
    /\ order \subseteq Endpoints \X Endpoints
    /\ \A e, f \in Endpoints :
           /\ <<e, f>> \notin order \/ <<f, e>> \notin order
           /\ e # f => <<e, f>> \in order \/ <<f, e>> \in order
           /\ \A g \in Endpoints : <<e, f>> \in order /\ <<f, g>> \in order => <<e, g>> \in order

\* Types only.
TypeOK ==
    /\ changes \in 0 .. MaxChanges
    /\ net \in [Endpoints -> Weathers]
    /\ failures \in [Endpoints -> 0 .. MaxFailures]
    /\ IsOrder(older)
    /\ cooling \subseteq Endpoints
    /\ client \in [Clients -> [url : Endpoints \cup {None}, state : {"open", "lost", "closed"}]]
    /\ shared \in Clients \cup {None}
    /\ current \in Endpoints \cup {None}
    /\ dial \in [Dials -> Seq(Endpoints)]
    /\ {promise, waits} \subseteq Dials \cup {None}
    /\ socket \in [client : Clients \cup {None}, connected : BOOLEAN,
                   attached : Clients \cup {None},
                   failed : 0 .. ZombieThreshold - 1, reconnects : 0 .. MaxReconnects]
    /\ taped \subseteq Clients
    /\ todo \in Seq(Ops)

New == [url |-> None, state |-> "closed"]

\* The runtime has started: connect(), subscribe().
Init ==
    /\ changes = 0
    /\ net \in [Endpoints -> Weathers] /\ net[Preferred] = "up"
    /\ failures = [e \in Endpoints |-> 0]
    /\ older \in {order \in SUBSET (Endpoints \X Endpoints) : IsOrder(order)}
    /\ \A e \in Endpoints : <<Preferred, e>> \notin older
    /\ cooling = {}
    /\ client = [c \in Clients |-> IF c = ExecutorClient
                                   THEN [url |-> Preferred, state |-> "open"]
                                   ELSE New]
    /\ shared = ExecutorClient
    /\ current = Preferred
    /\ dial = [d \in Dials |-> <<>>]
    /\ promise = None
    /\ socket = [client |-> ExecutorClient, connected |-> TRUE,
                 attached |-> ExecutorClient,
                 failed |-> 0, reconnects |-> 0]
    /\ taped = {ExecutorClient}
    /\ todo = <<>>
    /\ waits = None

-----------------------------------------------------------------------------
(* Endpoints                                                               *)

Open(c) == c # None /\ client[c].state = "open"

Answers(c) == Open(c) /\ net[client[c].url] = "up"

Failed(f, e) == [f EXCEPT ![e] = IF @ < MaxFailures THEN @ + 1 ELSE @]

Attempted(order, e) ==
    {p \in order : p[1] # e} \cup ((Endpoints \ {e}) \X {e})

\* getAvailableEndpoints(): by failures, then by the last attempt; if all are in
\* cooldown, the one whose cooldown ends first.
Available(counts, order) ==
    IF cooling = Endpoints
    THEN {<<e>> : e \in Endpoints}
    ELSE {queue \in SetToSeqs(Endpoints \ cooling) :
              \A i, j \in DOMAIN queue : i < j =>
                  \/ counts[queue[i]] < counts[queue[j]]
                  \/ counts[queue[i]] = counts[queue[j]] /\ <<queue[i], queue[j]>> \in order}

\* The network, not the program: an endpoint changes.
Weather ==
    /\ changes < MaxChanges
    /\ changes' = changes + 1
    /\ \E e \in Endpoints : \E w \in Weathers \ {net[e]} : net' = [net EXCEPT ![e] = w]
    /\ UNCHANGED <<poolVars, client, sharedVars, socket, taped, todo, waits>>

\* Ten minutes without a 429.
CooldownEnds(e) ==
    /\ e \in cooling
    /\ cooling' = cooling \ {e}
    /\ UNCHANGED <<changes, net, failures, older, client, sharedVars, socket, taped, todo, waits>>

-----------------------------------------------------------------------------
(* The shared client                                                       *)

Idle(d) == dial[d] = <<>> /\ promise # d /\ waits # d

\* getXrplClient() of a caller that finds neither a connected client nor a promise.
StartsDial(d, counts, order) ==
    /\ Idle(d)
    /\ \A other \in Dials : Idle(other) => d <= other
    /\ \E queue \in Available(counts, order) : dial' = [dial EXCEPT ![d] = queue]

\* onClientDisconnected, on the client the socket has its handlers on.
Disconnected(c) ==
    IF socket.attached = c
    THEN [socket EXCEPT !.connected = FALSE]
    ELSE socket

\* The 'disconnected' handler of the shared client: of any client that was ever
\* shared, whichever is shared now.
HandleDisconnect ==
    IF promise = None /\ shared # None
    THEN /\ shared' = None
         /\ \E d \in Dials : StartsDial(d, failures, older) /\ promise' = d
    ELSE UNCHANGED <<shared, dial, promise>>

\* Clients that nobody refers to; what becomes of one is left out.
Held == {socket.client, socket.attached, ExecutorClient}

Free(c) == c \notin Held

\* A connection is lost.
Drop(c) ==
    /\ Open(c) /\ c \in Held \cup {shared}
    /\ net[client[c].url] = "down"
    /\ client' = [client EXCEPT ![c].state = "lost"]
    /\ taped' = taped \ {c}
    /\ socket' = Disconnected(c)
    /\ HandleDisconnect
    /\ UNCHANGED <<changes, net, poolVars, current, todo, waits>>

\* The library reconnects a client that was lost, without its subscriptions.
Return(c) ==
    /\ client[c].state = "lost" /\ c \in Held \cup {shared}
    /\ net[client[c].url] \in {"up", "mute"}
    /\ client' = [client EXCEPT ![c].state = "open"]
    /\ UNCHANGED <<changes, net, poolVars, sharedVars, socket, taped, todo, waits>>

-----------------------------------------------------------------------------
(* What the tick does when it goes on                                      *)

Caught(ops) == IF Contains(ops, "evaluate") THEN <<"evaluate">> ELSE <<>>

\* handleReconnect(), up to the establish() after its backoff.
HandleReconnect(s, rest) ==
    IF s.reconnects = MaxReconnects
    THEN /\ socket' = [s EXCEPT !.reconnects = 0]
         /\ todo' = rest
    ELSE /\ socket' = [s EXCEPT !.reconnects = @ + 1]
         /\ todo' = <<"establish">> \o rest

\* Mutated form: handlers that are attached stay where they are.
EstablishedOnce(c) ==
    [socket EXCEPT !.client = c, !.connected = TRUE, !.reconnects = 0,
                   !.attached = IF @ = None THEN c ELSE @]

\* establish() with a client, and attachHandlers(), which detaches from another one.
Established(c) ==
    [client |-> c, connected |-> TRUE, attached |-> c, failed |-> socket.failed,
     reconnects |-> 0]

\* After the rotation of safeRequest().
Left == [socket EXCEPT !.client = None, !.connected = FALSE]

\* What awaited getXrplClient() has a client.
Resume(c) ==
    /\ todo' = IF Head(todo) = "disconnect" THEN todo ELSE Tail(todo)
    /\ socket' = CASE Head(todo) = "establish" -> Established(c)
                   [] Head(todo) = "leave" -> Left
                   [] OTHER -> socket

\* It is rejected: disconnectXrplClient() ignores that, establish() handles it and
\* rotateEndpoint() throws.
ResumeRejected ==
    CASE Head(todo) = "disconnect" -> UNCHANGED <<todo, socket>>
      [] Head(todo) = "establish" -> HandleReconnect(socket, Tail(todo))
      [] OTHER -> todo' = Caught(todo) /\ UNCHANGED socket

\* Mutated form: the promise of a failed attempt is kept.
KeepsFailedPromise(d) == promise' = promise

\* The finally block, of whichever attempt.
ClearsPromise(d) == promise' = None

\* connectInternal() connects: the object takes the place of one nobody refers to.
DialSucceeds(d) ==
    /\ dial[d] # <<>>
    /\ LET e == Head(dial[d])
           c == CHOOSE x \in Clients : Free(x)
       IN  /\ net[e] \in {"up", "mute"}
           /\ client' = [x \in Clients |->
                  IF x = c THEN [url |-> e, state |-> "open"]
                  ELSE IF Free(x) THEN New ELSE client[x]]
           /\ taped' = {x \in taped : ~Free(x)}
           /\ failures' = [failures EXCEPT ![e] = 0]
           /\ older' = Attempted(older, e)
           /\ shared' = c
           /\ current' = e
           /\ IF waits = d THEN Resume(c) ELSE UNCHANGED <<todo, socket>>
    /\ waits' = IF waits = d THEN None ELSE waits
    /\ promise' = None
    /\ dial' = [dial EXCEPT ![d] = <<>>]
    /\ UNCHANGED <<changes, net, cooling>>

\* An endpoint refuses; after the last one the attempt is rejected.
DialFails(d) ==
    /\ dial[d] # <<>>
    /\ LET e == Head(dial[d])
       IN  /\ net[e] \in {"down", "limited"}
           /\ failures' = Failed(failures, e)
           /\ older' = Attempted(older, e)
           /\ cooling' = IF net[e] = "limited" THEN cooling \cup {e} ELSE cooling
    /\ dial' = [dial EXCEPT ![d] = Tail(@)]
    /\ IF Len(dial[d]) > 1
       THEN UNCHANGED <<promise, waits, todo, socket>>
       ELSE /\ ClearsPromise(d)
            /\ waits' = IF waits = d THEN None ELSE waits
            /\ IF waits = d THEN ResumeRejected ELSE UNCHANGED <<todo, socket>>
    /\ UNCHANGED <<changes, net, client, shared, current, taped>>

-----------------------------------------------------------------------------
(* The tick                                                                *)

IsConnected == socket.connected /\ Open(socket.client)

Runs(op) == todo # <<>> /\ Head(todo) = op /\ waits = None

Refresh == <<"request", "evaluate">>

\* The last tick is over, or its feed is not stalled: the next one connects if it
\* has to, and requests the book.
BeginTick ==
    /\ todo = <<>> \/ Runs("evaluate")
    /\ todo' = IF IsConnected THEN Refresh ELSE <<"establish", "require">>
    /\ UNCHANGED <<changes, net, poolVars, client, sharedVars, socket, taped, waits>>

Require ==
    /\ Runs("require")
    /\ todo' = IF IsConnected THEN Refresh ELSE <<>>
    /\ UNCHANGED <<changes, net, poolVars, client, sharedVars, socket, taped, waits>>

\* getXrplClient(), of establish() and of rotateEndpoint().
GetClient ==
    /\ Runs("establish") \/ Runs("dial") \/ Runs("leave")
    /\ \/ Open(shared) /\ Resume(shared) /\ UNCHANGED <<dial, promise, waits>>
       \/ /\ ~Open(shared) /\ promise # None
          /\ waits' = promise
          /\ UNCHANGED <<todo, socket, dial, promise>>
       \/ /\ ~Open(shared) /\ promise = None
          /\ \E d \in Dials : StartsDial(d, failures, older) /\ promise' = d /\ waits' = d
          /\ UNCHANGED <<todo, socket>>
    /\ UNCHANGED <<changes, net, poolVars, client, shared, current, taped>>

Ensured == socket.connected /\ Open(shared)

\* ensureConnected(), if it has to establish first.
Ensure ==
    /\ Runs("request") \/ Runs("subscribe")
    /\ ~Ensured
    /\ todo' = <<"establish", IF Runs("request") THEN "send" ELSE "sendTape">> \o Tail(todo)
    /\ socket' = [socket EXCEPT !.reconnects = 0]
    /\ UNCHANGED <<changes, net, poolVars, client, sharedVars, taped, waits>>

Sends ==
    \/ Runs("send") \/ Runs("sendTape")
    \/ Ensured /\ (Runs("request") \/ Runs("subscribe"))

\* A request that is answered.
Answered ==
    /\ Sends
    /\ Answers(socket.client)
    /\ socket' = [socket EXCEPT !.failed = 0]
    /\ taped' = IF Head(todo) \in {"subscribe", "sendTape"}
                THEN taped \cup {socket.client} ELSE taped
    /\ todo' = Tail(todo)
    /\ UNCHANGED <<changes, net, poolVars, client, sharedVars, waits>>

\* Mutated form: one failure more.
IsZombieLater(failed) == failed > ZombieThreshold

IsZombie(failed) == failed >= ZombieThreshold

\* A request that fails or times out: reconnect, or rotate away from a zombie; the
\* error ends the refresh or the recovery.
Unanswered ==
    /\ Sends
    /\ ~Answers(socket.client)
    /\ IF IsZombie(socket.failed + 1)
       THEN /\ socket' = [socket EXCEPT !.failed = 0]
            /\ todo' = <<"rotate", "leave">> \o Caught(todo)
       ELSE HandleReconnect([socket EXCEPT !.failed = @ + 1], Caught(todo))
    /\ UNCHANGED <<changes, net, poolVars, client, sharedVars, taped, waits>>

\* The rest of disconnectXrplClient(), once no promise is left: the handler of
\* 'disconnected' runs while the client is still the shared one and dials; then its
\* promise is forgotten.
CloseShared ==
    /\ IF Open(shared)
       THEN /\ client' = [client EXCEPT ![shared].state = "closed"]
            /\ taped' = taped \ {shared}
            /\ socket' = Disconnected(shared)
            /\ \E d \in Dials : StartsDial(d, failures', older')
       ELSE UNCHANGED <<client, taped, socket, dial>>
    /\ shared' = None /\ current' = None /\ promise' = None
    /\ todo' = Tail(todo)
    /\ UNCHANGED waits

\* disconnectXrplClient() waits for the promise.
Settle ==
    /\ waits' = promise
    /\ todo' = <<"disconnect">> \o Tail(todo)
    /\ UNCHANGED <<client, taped, socket, sharedVars>>

\* rotateEndpoint() marks the endpoint and disconnects.
Rotate ==
    /\ Runs("rotate")
    /\ IF current = None
       THEN UNCHANGED <<failures, older>>
       ELSE failures' = Failed(failures, current) /\ older' = Attempted(older, current)
    /\ IF promise = None THEN CloseShared ELSE Settle
    /\ UNCHANGED <<changes, net, cooling>>

Disconnect ==
    /\ Runs("disconnect")
    /\ UNCHANGED <<changes, net, poolVars>>
    /\ IF promise = None THEN CloseShared ELSE Settle

\* Mutated form: a soft reconnect does not subscribe.
RecoveryReconnecting == <<"request">>

\* softReconnect()
SoftReconnect == <<"subscribe">>

\* hardResubscribe(), after the socket is detached.
HardResubscribe == <<"rotate", "dial", "establish", "subscribe">>

\* The feed is stalled, as it may be in any quiet market; TradingTick has the stages.
Recover ==
    /\ Runs("evaluate")
    /\ \/ todo' = SoftReconnect /\ UNCHANGED socket
       \/ /\ todo' \in {HardResubscribe, <<"disconnect">> \o HardResubscribe}
          /\ socket' = [socket EXCEPT !.attached = None,
                                      !.connected = FALSE]
    /\ UNCHANGED <<changes, net, poolVars, client, sharedVars, taped, waits>>

TickStep ==
    \/ BeginTick \/ Require \/ Ensure \/ GetClient \/ Answered \/ Unanswered
    \/ Rotate \/ Disconnect \/ Recover

DialStep(d) == DialSucceeds(d) \/ DialFails(d)

Next ==
    \/ TickStep \/ Weather
    \/ \E d \in Dials : DialStep(d)
    \/ \E e \in Endpoints : CooldownEnds(e)
    \/ \E c \in Clients : Drop(c) \/ Return(c)

Spec == Init /\ [][Next]_vars

TapeIsHeard == Answers(socket.attached) /\ socket.attached \in taped

\* The tick runs on, attempts end, cooldowns end, the library reconnects, and a
\* tape that stays silent is recovered (TradingTick!SilenceIsRebuilt).
Fairness ==
    /\ WF_vars(TickStep)
    /\ \A d \in Dials : WF_vars(DialStep(d))
    /\ \A e \in Endpoints : WF_vars(CooldownEnds(e))
    /\ \A c \in Clients : WF_vars(Return(c))
    /\ SF_vars(Recover /\ ~TapeIsHeard)

FairSpec == Spec /\ Fairness

-----------------------------------------------------------------------------
(* Properties                                                              *)

Quiet == \A e \in Endpoints : net[e] = "up"

\* What the connected client receives reaches the bot: its handlers are on that
\* client, whichever clients were lost, replaced or given up before (client.ts:264).
EventsFollow == IsConnected => socket.attached = socket.client

\* Once the endpoints answer again the tape is heard again and again: outages, 429s
\* and new clients do not lose the transactions stream for good, although
\* establish() subscribes to the ledgers only (client.ts:246, tradingRuntime.ts:725).
TapeReturns == <>[]Quiet => []<>TapeIsHeard

\* Nobody awaits an attempt that is over: the one a tick awaits, and the one
\* connectPromise has for whoever comes next, still dials (sharedClient.ts:345).
PromiseDials == \A d \in {promise, waits} \ {None} : dial[d] # <<>>

\* The executor, too, is connected again and again once the endpoints answer: "The
\* reconnection logic will handle restoring the connection" (riskEngine.ts:118).
ExecutorIsServed == <>[]Quiet => []<>Answers(ExecutorClient)
=============================================================================
