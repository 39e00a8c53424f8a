-------------------------- MODULE ConnectivityProofs --------------------------
(***************************************************************************)
(* What Connectivity promises of the shared client, the socket and the     *)
(* connection attempts, for any endpoints and any number of attempts.      *)
(***************************************************************************)
EXTENDS Connectivity, SequenceTheorems, FiniteSetTheorems, TLAPS

\* The inductive invariant, by what the steps disturb together.
NetIsKnown ==
    /\ changes \in 0 .. MaxChanges
    /\ net \in [Endpoints -> Weathers]

PoolIsOrdered ==
    /\ failures \in [Endpoints -> 0 .. MaxFailures]
    /\ IsOrder(older)
    /\ cooling \subseteq Endpoints

ClientsAreKnown ==
    /\ client \in [Clients -> [url : Endpoints \cup {None}, state : {"open", "lost", "closed"}]]
    /\ shared \in Clients \cup {None}
    /\ current \in Endpoints \cup {None}
    /\ taped \subseteq Clients

AttemptsDial ==
    /\ dial \in [Dials -> Seq(Endpoints)]
    /\ {promise, waits} \subseteq Dials \cup {None}
    /\ PromiseDials

\* The handlers are on the client the socket uses, if they are on any and it uses one.
SocketFollows(s) ==
    /\ s \in [client : Clients \cup {None}, connected : BOOLEAN,
              attached : Clients \cup {None},
              failed : 0 .. ZombieThreshold - 1, reconnects : 0 .. MaxReconnects]
    /\ s.connected => s.attached = s.client
    /\ s.attached = None \/ s.client = None \/ s.attached = s.client

\* What awaits getXrplClient().
Awaiting == {"establish", "dial", "leave", "disconnect"}

TickGoesOn ==
    /\ todo \in Seq(Ops)
    /\ waits # None => todo # <<>> /\ Head(todo) \in Awaiting

IInv ==
    /\ NetIsKnown
    /\ PoolIsOrdered
    /\ ClientsAreKnown
    /\ AttemptsDial
    /\ SocketFollows(socket)
    /\ TickGoesOn

LEMMA IInvImplies == IInv => TypeOK /\ PromiseDials /\ EventsFollow
BY DEF IInv, NetIsKnown, PoolIsOrdered, ClientsAreKnown, AttemptsDial, SocketFollows,
       TickGoesOn, TypeOK, EventsFollow, IsConnected

-----------------------------------------------------------------------------
(* What the steps are built from                                           *)

\* An attempt has an endpoint to try.
LEMMA AvailableQueue ==
    ASSUME cooling \subseteq Endpoints, NEW counts, NEW order,
           NEW queue \in Available(counts, order)
    PROVE  queue \in Seq(Endpoints) /\ queue # <<>>
<1>1. CASE cooling = Endpoints
  <2>1. PICK e \in Endpoints : queue = <<e>>
    BY <1>1 DEF Available
  <2> QED
    BY <2>1
<1>2. CASE cooling # Endpoints
  <2> DEFINE Rest == Endpoints \ cooling
  <2>1. queue \in [1 .. Cardinality(Rest) -> Rest]
    BY <1>2 DEF Available, SetToSeqs
  <2>2. Cardinality(Rest) \in Nat /\ Cardinality(Rest) # 0
    <3>1. IsFiniteSet(Rest) /\ Rest # {}
      BY <1>2, ConnectivityAssumption, FS_Difference DEF ConnectivityAssumption
    <3> QED
      BY <3>1, FS_CardinalityType, FS_EmptySet
  <2> HIDE DEF Rest
  <2>3. queue \in Seq(Rest) /\ Len(queue) = Cardinality(Rest)
    BY <2>1, <2>2
  <2>4. queue \in Seq(Endpoints)
    BY <2>3, SeqMonotonic DEF Rest
  <2> QED
    BY <2>2, <2>3, <2>4
<1> QED
  BY <1>1, <1>2

\* A new attempt leaves the others to their endpoints.
LEMMA StartsDialKeeps ==
    ASSUME cooling \subseteq Endpoints, dial \in [Dials -> Seq(Endpoints)],
           NEW d \in Dials, NEW counts, NEW order, StartsDial(d, counts, order)
    PROVE  /\ dial' \in [Dials -> Seq(Endpoints)]
           /\ dial'[d] # <<>>
           /\ \A x \in Dials \ {d} : dial'[x] = dial[x]
<1>1. PICK queue \in Available(counts, order) : dial' = [dial EXCEPT ![d] = queue]
  BY DEF StartsDial
<1>2. queue \in Seq(Endpoints) /\ queue # <<>>
  BY AvailableQueue
<1> QED
  BY <1>1, <1>2

LEMMA FailedType ==
    ASSUME NEW f \in [Endpoints -> 0 .. MaxFailures], NEW e \in Endpoints
    PROVE  Failed(f, e) \in [Endpoints -> 0 .. MaxFailures]
<1>1. MaxFailures \in Nat
  BY ConnectivityAssumption DEF ConnectivityAssumption
<1>2. f[e] \in 0 .. MaxFailures
  OBVIOUS
<1> QED
  BY <1>1, <1>2 DEF Failed

\* The order by the last attempt stays one.
LEMMA AttemptedOrder ==
    ASSUME NEW order, IsOrder(order), NEW e \in Endpoints
    PROVE  IsOrder(Attempted(order, e))
<1>1. ASSUME NEW x \in Endpoints, NEW y \in Endpoints
      PROVE  <<x, y>> \in Attempted(order, e) <=>
                 x # e /\ (y = e \/ <<x, y>> \in order)
  BY DEF Attempted
<1>2. Attempted(order, e) \subseteq Endpoints \X Endpoints
  BY DEF Attempted, IsOrder
<1> DEFINE After == Attempted(order, e)
<1>3. \A x, y \in Endpoints : <<x, y>> \in After <=> x # e /\ (y = e \/ <<x, y>> \in order)
  BY <1>1
<1> HIDE DEF After
<1>4. ASSUME NEW x \in Endpoints, NEW y \in Endpoints
      PROVE  /\ <<x, y>> \notin After \/ <<y, x>> \notin After
             /\ x # y => <<x, y>> \in After \/ <<y, x>> \in After
  BY <1>3 DEF IsOrder
<1>5. ASSUME NEW x \in Endpoints, NEW y \in Endpoints, NEW z \in Endpoints,
             <<x, y>> \in After, <<y, z>> \in After
      PROVE  <<x, z>> \in After
  <2>1. <<x, y>> \in order /\ <<y, z>> \in order => <<x, z>> \in order
    BY DEF IsOrder
  <2> QED
    BY <1>3, <1>5, <2>1
<1> QED
  BY <1>2, <1>4, <1>5 DEF IsOrder, After

\* The endpoints an attempt has left after the first.
LEMMA TailOfLonger ==
    ASSUME NEW queue \in Seq(Endpoints), Len(queue) > 1
    PROVE  Tail(queue) # <<>>
<1>1. queue # <<>> /\ Len(queue) \in Nat
  OBVIOUS
<1>2. Tail(queue) \in Seq(Endpoints) /\ Len(Tail(queue)) = Len(queue) - 1
  BY <1>1, HeadTailProperties
<1>3. Len(queue) - 1 # 0
  <2>1. \A n \in Nat : n > 1 => n - 1 # 0
    OBVIOUS
  <2> QED
    BY <1>1, <2>1
<1> QED
  BY <1>2, <1>3

LEMMA CaughtType == \A ops : Caught(ops) \in Seq(Ops)
<1> SUFFICES ASSUME NEW ops PROVE Caught(ops) \in Seq(Ops)
  OBVIOUS
<1>1. <<"evaluate">> \in Seq(Ops) /\ <<>> \in Seq(Ops)
  BY DEF Ops
<1> QED
  BY <1>1 DEF Caught

\* One operation of the tick is done.
LEMMA TailType ==
    ASSUME todo \in Seq(Ops), todo # <<>>
    PROVE  Tail(todo) \in Seq(Ops) /\ Head(todo) \in Ops
BY HeadTailProperties

\* An operation comes first.
LEMMA FirstType ==
    ASSUME NEW op \in Ops, NEW rest \in Seq(Ops)
    PROVE  /\ <<op>> \o rest \in Seq(Ops)
           /\ <<op>> \o rest # <<>>
           /\ Head(<<op>> \o rest) = op
<1>1. <<op>> \in Seq(Ops) /\ Len(<<op>>) = 1
  OBVIOUS
<1>2. /\ <<op>> \o rest \in Seq(Ops)
      /\ Len(<<op>> \o rest) = 1 + Len(rest)
      /\ (<<op>> \o rest)[1] = op
  BY <1>1, ConcatProperties
<1>3. Len(rest) \in Nat
  OBVIOUS
<1> QED
  BY <1>2, <1>3

-----------------------------------------------------------------------------
(* The socket                                                              *)

LEMMA ConstantsAre ==
    /\ None \notin Clients /\ None \notin Endpoints /\ None \notin Dials
    /\ Preferred \in Endpoints /\ ExecutorClient \in Clients
    /\ MaxChanges \in Nat /\ MaxFailures \in Nat
    /\ MaxReconnects \in Nat \ {0} /\ ZombieThreshold \in Nat \ {0}
    /\ "up" \in Weathers
BY ConnectivityAssumption DEF ConnectivityAssumption

LEMMA DisconnectedFollows ==
    ASSUME SocketFollows(socket), NEW c
    PROVE  SocketFollows(Disconnected(c))
BY DEF SocketFollows, Disconnected

LEMMA EstablishedFollows ==
    ASSUME SocketFollows(socket), NEW c \in Clients
    PROVE  SocketFollows(Established(c))
<1>1. 0 \in 0 .. MaxReconnects
  BY ConstantsAre
<1>2. socket.failed \in 0 .. ZombieThreshold - 1
  BY DEF SocketFollows
<1> QED
  BY <1>1, <1>2 DEF SocketFollows, Established

LEMMA LeftFollows ==
    ASSUME SocketFollows(socket)
    PROVE  SocketFollows(Left)
BY DEF SocketFollows, Left

\* A request that is answered, or that made the socket rotate, clears the failures.
LEMMA ServedFollows ==
    ASSUME SocketFollows(socket)
    PROVE  /\ SocketFollows([socket EXCEPT !.failed = 0])
           /\ SocketFollows([socket EXCEPT !.reconnects = 0])
BY ConstantsAre DEF SocketFollows

\* The same, of one failure more that is not yet a zombie's.
LEMMA UnservedFollows ==
    ASSUME SocketFollows(socket), ~IsZombie(socket.failed + 1)
    PROVE  SocketFollows([socket EXCEPT !.failed = socket.failed + 1])
<1>1. socket.failed + 1 \in 0 .. ZombieThreshold - 1
  BY ConstantsAre DEF SocketFollows, IsZombie
<1> QED
  BY <1>1 DEF SocketFollows

LEMMA DetachedFollows ==
    ASSUME SocketFollows(socket)
    PROVE  SocketFollows([socket EXCEPT !.attached = None, !.connected = FALSE])
BY DEF SocketFollows

LEMMA HandleReconnectKeeps ==
    ASSUME NEW s, SocketFollows(s), NEW rest \in Seq(Ops), HandleReconnect(s, rest)
    PROVE  SocketFollows(socket') /\ todo' \in Seq(Ops)
<1>1. CASE s.reconnects = MaxReconnects
  BY <1>1, ConstantsAre DEF HandleReconnect, SocketFollows
<1>2. CASE s.reconnects # MaxReconnects
  <2>1. socket' = [s EXCEPT !.reconnects = s.reconnects + 1]
    BY <1>2 DEF HandleReconnect
  <2>2. s.reconnects + 1 \in 0 .. MaxReconnects
    BY <1>2, ConstantsAre DEF SocketFollows
  <2>3. SocketFollows(socket')
    BY <2>1, <2>2 DEF SocketFollows
  <2>4. todo' = <<"establish">> \o rest
    BY <1>2 DEF HandleReconnect
  <2> QED
    BY <2>3, <2>4, FirstType DEF Ops
<1> QED
  BY <1>1, <1>2

\* The tick goes on with a client,
LEMMA ResumeKeeps ==
    ASSUME SocketFollows(socket), todo \in Seq(Ops), todo # <<>>,
           NEW c \in Clients, Resume(c)
    PROVE  SocketFollows(socket') /\ todo' \in Seq(Ops)
BY TailType, EstablishedFollows, LeftFollows DEF Resume

\* or without one.
LEMMA ResumeRejectedKeeps ==
    ASSUME SocketFollows(socket), todo \in Seq(Ops), todo # <<>>, ResumeRejected
    PROVE  SocketFollows(socket') /\ todo' \in Seq(Ops)
BY TailType, HandleReconnectKeeps, CaughtType DEF ResumeRejected

\* An object that nobody refers to is there for the next connection.
LEMMA SomeClientIsFree ==
    ASSUME SocketFollows(socket)
    PROVE  \E c \in Clients : Free(c)
<1>1. PICK h \in Clients : {socket.client, socket.attached} \subseteq {h, None}
  <2>1. CASE socket.attached = None \/ socket.attached = socket.client
    <3>1. CASE socket.client = None
      BY <2>1, <3>1, ConstantsAre
    <3>2. CASE socket.client # None
      BY <2>1, <3>2 DEF SocketFollows
    <3> QED
      BY <3>1, <3>2
  <2>2. CASE socket.client = None /\ socket.attached # None
    BY <2>2 DEF SocketFollows
  <2> QED
    BY <2>1, <2>2 DEF SocketFollows
<1>2. PICK c \in Clients : c # h /\ c # ExecutorClient
  BY ConnectivityAssumption DEF ConnectivityAssumption
<1>3. c # None
  BY ConstantsAre
<1> QED
  BY <1>1, <1>2, <1>3 DEF Free, Held

-----------------------------------------------------------------------------
(* The steps                                                               *)

LEMMA InitIInv == Init => IInv
<1> SUFFICES ASSUME Init PROVE IInv
  OBVIOUS
<1>1. NetIsKnown
  BY ConstantsAre DEF Init, NetIsKnown
<1>2. PoolIsOrdered
  BY ConstantsAre DEF Init, PoolIsOrdered
<1>3. ClientsAreKnown
  BY ConstantsAre DEF Init, ClientsAreKnown, New
<1>4. AttemptsDial
  <2>1. dial \in [Dials -> Seq(Endpoints)]
    BY DEF Init
  <2> QED
    BY <2>1 DEF Init, AttemptsDial, PromiseDials
<1>5. SocketFollows(socket)
  BY ConstantsAre DEF Init, SocketFollows
<1>6. TickGoesOn
  BY DEF Init, TickGoesOn
<1> QED
  BY <1>1, <1>2, <1>3, <1>4, <1>5, <1>6 DEF IInv

LEMMA WeatherKeepsIInv == IInv /\ Weather => IInv'
<1> SUFFICES ASSUME IInv, Weather PROVE IInv'
  OBVIOUS
<1>1. NetIsKnown'
  BY ConstantsAre DEF IInv, NetIsKnown, Weather
<1> QED
  BY <1>1 DEF IInv, PoolIsOrdered, ClientsAreKnown, AttemptsDial, PromiseDials,
              TickGoesOn, Weather, poolVars, sharedVars

LEMMA CooldownEndsKeepsIInv == \A e \in Endpoints : IInv /\ CooldownEnds(e) => IInv'
BY DEF IInv, NetIsKnown, PoolIsOrdered, ClientsAreKnown, AttemptsDial, PromiseDials,
       TickGoesOn, CooldownEnds, sharedVars

\* An attempt that starts is one that dials, whoever awaits it.
LEMMA StartKeepsAttempts ==
    ASSUME cooling \subseteq Endpoints, AttemptsDial, NEW d \in Dials,
           NEW counts, NEW order, StartsDial(d, counts, order),
           promise' \in {promise, d, None}, waits' \in {waits, d, None}
    PROVE  AttemptsDial'
<1>1. /\ dial' \in [Dials -> Seq(Endpoints)]
      /\ dial'[d] # <<>>
      /\ \A x \in Dials \ {d} : dial'[x] = dial[x]
  BY StartsDialKeeps DEF AttemptsDial
<1>2. \A x \in {promise', waits'} \ {None} : dial'[x] # <<>>
  BY <1>1 DEF AttemptsDial, PromiseDials
<1> QED
  BY <1>1, <1>2 DEF AttemptsDial, PromiseDials

LEMMA DropKeepsIInv ==
    ASSUME IInv, NEW c \in Clients, Drop(c)
    PROVE  IInv'
<1>1. NetIsKnown' /\ PoolIsOrdered' /\ TickGoesOn'
  BY DEF IInv, NetIsKnown, PoolIsOrdered, TickGoesOn, Drop, poolVars
<1>2. SocketFollows(socket')
  BY DisconnectedFollows DEF IInv, Drop
<1>3. ClientsAreKnown'
  <2>1. shared' \in {shared, None}
    BY DEF Drop, HandleDisconnect
  <2> QED
    BY <2>1 DEF IInv, ClientsAreKnown, Drop
<1>4. AttemptsDial'
  <2>1. CASE promise = None /\ shared # None
    <3>1. PICK d \in Dials : StartsDial(d, failures, older) /\ promise' = d
      BY <2>1 DEF Drop, HandleDisconnect
    <3> QED
      BY <3>1, StartKeepsAttempts DEF IInv, PoolIsOrdered, Drop
  <2>2. CASE ~(promise = None /\ shared # None)
    BY <2>2 DEF IInv, AttemptsDial, PromiseDials, Drop, HandleDisconnect
  <2> QED
    BY <2>1, <2>2
<1> QED
  BY <1>1, <1>2, <1>3, <1>4 DEF IInv

LEMMA ReturnKeepsIInv ==
    ASSUME IInv, NEW c \in Clients, Return(c)
    PROVE  IInv'
<1>1. ClientsAreKnown'
  BY DEF IInv, ClientsAreKnown, Return, sharedVars
<1> QED
  BY <1>1 DEF IInv, NetIsKnown, PoolIsOrdered, AttemptsDial, PromiseDials, TickGoesOn,
              Return, poolVars, sharedVars

\* What an attempt that ends leaves to who awaits it.
LEMMA EndKeepsAttempts ==
    ASSUME AttemptsDial, NEW d \in Dials,
           dial' = [dial EXCEPT ![d] = <<>>],
           promise' = None, waits' = IF waits = d THEN None ELSE waits
    PROVE  AttemptsDial'
BY DEF AttemptsDial, PromiseDials

LEMMA DialSucceedsKeepsIInv ==
    ASSUME IInv, NEW d \in Dials, DialSucceeds(d)
    PROVE  IInv'
<1> DEFINE e == Head(dial[d])
           c == CHOOSE x \in Clients : Free(x)
<1>1. e \in Endpoints
  BY HeadTailProperties DEF DialSucceeds, IInv, AttemptsDial
<1>2. c \in Clients
  BY SomeClientIsFree DEF IInv
<1>3. /\ client' = [x \in Clients |->
             IF x = c THEN [url |-> e, state |-> "open"]
             ELSE IF Free(x) THEN New ELSE client[x]]
      /\ taped' = {x \in taped : ~Free(x)}
      /\ failures' = [failures EXCEPT ![e] = 0]
      /\ older' = Attempted(older, e)
      /\ shared' = c
      /\ current' = e
      /\ IF waits = d THEN Resume(c) ELSE UNCHANGED <<todo, socket>>
  BY DEF DialSucceeds
<1> HIDE DEF e, c
<1>4. NetIsKnown'
  BY DEF IInv, NetIsKnown, DialSucceeds
<1>5. PoolIsOrdered'
  <2>1. IsOrder(older')
    BY <1>1, <1>3, AttemptedOrder DEF IInv, PoolIsOrdered
  <2>2. cooling' = cooling
    BY DEF DialSucceeds
  <2>3. failures' \in [Endpoints -> 0 .. MaxFailures]
    BY <1>1, <1>3, ConstantsAre DEF IInv, PoolIsOrdered
  <2> QED
    BY <2>1, <2>2, <2>3 DEF IInv, PoolIsOrdered, IsOrder
<1>6. ClientsAreKnown'
  BY <1>1, <1>2, <1>3 DEF IInv, ClientsAreKnown, New
<1>7. AttemptsDial'
  BY EndKeepsAttempts DEF IInv, DialSucceeds
<1>8. SocketFollows(socket') /\ TickGoesOn'
  <2>1. CASE waits = d
    <3>1. todo # <<>> /\ todo \in Seq(Ops)
      BY <2>1, ConstantsAre DEF IInv, TickGoesOn
    <3>2. SocketFollows(socket') /\ todo' \in Seq(Ops)
      BY <1>2, <1>3, <2>1, <3>1, ResumeKeeps DEF IInv
    <3> QED
      BY <2>1, <3>2 DEF DialSucceeds, TickGoesOn
  <2>2. CASE waits # d
    BY <1>3, <2>2 DEF IInv, TickGoesOn, DialSucceeds
  <2> QED
    BY <2>1, <2>2
<1> QED
  BY <1>4, <1>5, <1>6, <1>7, <1>8 DEF IInv

LEMMA DialFailsKeepsIInv ==
    ASSUME IInv, NEW d \in Dials, DialFails(d)
    PROVE  IInv'
<1> DEFINE e == Head(dial[d])
<1>1. /\ e \in Endpoints
      /\ Tail(dial[d]) \in Seq(Endpoints)
      /\ Len(Tail(dial[d])) = Len(dial[d]) - 1
      /\ Len(dial[d]) \in Nat \ {0}
  BY HeadTailProperties, EmptySeq DEF DialFails, IInv, AttemptsDial
<1>2. /\ failures' = Failed(failures, e)
      /\ older' = Attempted(older, e)
      /\ cooling' \in {cooling, cooling \cup {e}}
  BY DEF DialFails
<1> HIDE DEF e
<1>3. NetIsKnown' /\ ClientsAreKnown'
  BY DEF IInv, NetIsKnown, ClientsAreKnown, DialFails
<1>4. PoolIsOrdered'
  <2>1. IsOrder(older')
    BY <1>1, <1>2, AttemptedOrder DEF IInv, PoolIsOrdered
  <2>2. failures' \in [Endpoints -> 0 .. MaxFailures]
    BY <1>1, <1>2, FailedType DEF IInv, PoolIsOrdered
  <2> QED
    BY <1>1, <1>2, <2>1, <2>2 DEF IInv, PoolIsOrdered
<1>5. CASE Len(dial[d]) > 1
  <2>1. Tail(dial[d]) # <<>>
    BY <1>1, <1>5, TailOfLonger DEF IInv, AttemptsDial
  <2>2. UNCHANGED <<promise, waits, todo, socket>>
    BY <1>5 DEF DialFails
  <2>3. AttemptsDial'
    BY <1>1, <2>1, <2>2 DEF DialFails, IInv, AttemptsDial, PromiseDials
  <2> QED
    BY <1>3, <1>4, <2>2, <2>3 DEF IInv, TickGoesOn
<1>6. CASE ~(Len(dial[d]) > 1)
  <2>1. Tail(dial[d]) = <<>>
    BY <1>1, <1>6
  <2>2. /\ promise' = None
        /\ waits' = IF waits = d THEN None ELSE waits
        /\ IF waits = d THEN ResumeRejected ELSE UNCHANGED <<todo, socket>>
    BY <1>6 DEF DialFails, ClearsPromise
  <2>3. AttemptsDial'
    BY <2>1, <2>2, EndKeepsAttempts DEF DialFails, IInv
  <2>4. SocketFollows(socket') /\ TickGoesOn'
    <3>1. CASE waits = d
      <4>1. todo # <<>> /\ todo \in Seq(Ops)
        BY <3>1, ConstantsAre DEF IInv, TickGoesOn
      <4>2. SocketFollows(socket') /\ todo' \in Seq(Ops)
        BY <2>2, <3>1, <4>1, ResumeRejectedKeeps DEF IInv
      <4> QED
        BY <2>2, <3>1, <4>2 DEF TickGoesOn
    <3>2. CASE waits # d
      BY <2>2, <3>2 DEF IInv, TickGoesOn
    <3> QED
      BY <3>1, <3>2
  <2> QED
    BY <1>3, <1>4, <2>3, <2>4 DEF IInv
<1> QED
  BY <1>5, <1>6

-----------------------------------------------------------------------------
(* The steps of the tick                                                   *)

\* The program the tick starts with, and those of the recoveries.
LEMMA ProgramTypes ==
    /\ <<>> \in Seq(Ops)
    /\ Refresh \in Seq(Ops)
    /\ <<"establish", "require">> \in Seq(Ops)
    /\ SoftReconnect \in Seq(Ops)
    /\ HardResubscribe \in Seq(Ops)
    /\ <<"disconnect">> \o HardResubscribe \in Seq(Ops)
<1>1. HardResubscribe \in Seq(Ops)
  BY DEF HardResubscribe, Ops
<1> QED
  BY <1>1, FirstType DEF Refresh, SoftReconnect, Ops

\* Most steps of the tick touch the program and the socket only.
LEMMA TickOnly ==
    ASSUME IInv, waits = None, SocketFollows(socket'), todo' \in Seq(Ops),
           UNCHANGED <<changes, net, poolVars, client, sharedVars, waits>>,
           taped' \subseteq Clients
    PROVE  IInv'
BY DEF IInv, NetIsKnown, PoolIsOrdered, ClientsAreKnown, AttemptsDial, PromiseDials,
       TickGoesOn, poolVars, sharedVars

LEMMA BeginTickKeepsIInv == IInv /\ BeginTick => IInv'
<1> SUFFICES ASSUME IInv, BeginTick PROVE IInv'
  OBVIOUS
<1>1. waits = None
  BY DEF IInv, TickGoesOn, BeginTick, Runs
<1>2. todo' \in Seq(Ops)
  BY ProgramTypes DEF BeginTick
<1> QED
  BY <1>1, <1>2, TickOnly DEF BeginTick, IInv, ClientsAreKnown

LEMMA RequireKeepsIInv == IInv /\ Require => IInv'
<1> SUFFICES ASSUME IInv, Require PROVE IInv'
  OBVIOUS
<1>1. todo' \in Seq(Ops)
  BY ProgramTypes DEF Require
<1> QED
  BY <1>1, TickOnly DEF Require, Runs, IInv, ClientsAreKnown

LEMMA EnsureKeepsIInv == IInv /\ Ensure => IInv'
<1> SUFFICES ASSUME IInv, Ensure PROVE IInv'
  OBVIOUS
<1> DEFINE op == IF Runs("request") THEN "send" ELSE "sendTape"
<1>1. todo # <<>> /\ waits = None
  BY DEF Ensure, Runs
<1>2. todo' \in Seq(Ops)
  <2>1. Tail(todo) \in Seq(Ops)
    BY <1>1, TailType DEF IInv, TickGoesOn
  <2>2. <<"establish", op>> \in Seq(Ops)
    BY DEF Ops
  <2> QED
    BY <2>1, <2>2, ConcatProperties DEF Ensure
<1>3. SocketFollows(socket')
  BY ServedFollows DEF IInv, Ensure
<1> QED
  BY <1>1, <1>2, <1>3, TickOnly DEF Ensure, IInv, ClientsAreKnown

LEMMA GetClientKeepsIInv == IInv /\ GetClient => IInv'
<1> SUFFICES ASSUME IInv, GetClient PROVE IInv'
  OBVIOUS
<1>1. /\ todo # <<>> /\ todo \in Seq(Ops)
      /\ waits = None
      /\ Head(todo) \in Awaiting
  BY DEF GetClient, Runs, Awaiting, IInv, TickGoesOn
<1>2. NetIsKnown' /\ PoolIsOrdered' /\ ClientsAreKnown'
  BY DEF GetClient, IInv, NetIsKnown, PoolIsOrdered, ClientsAreKnown, poolVars
<1>3. CASE Open(shared) /\ Resume(shared) /\ UNCHANGED <<dial, promise, waits>>
  <2>1. shared \in Clients
    BY <1>3 DEF Open, IInv, ClientsAreKnown
  <2>2. SocketFollows(socket') /\ todo' \in Seq(Ops)
    BY <1>1, <1>3, <2>1, ResumeKeeps DEF IInv
  <2> QED
    BY <1>1, <1>2, <1>3, <2>2 DEF IInv, AttemptsDial, PromiseDials, TickGoesOn
<1>4. CASE promise # None /\ waits' = promise /\ UNCHANGED <<todo, socket, dial, promise>>
  BY <1>1, <1>2, <1>4 DEF IInv, AttemptsDial, PromiseDials, TickGoesOn
<1>5. CASE /\ \E d \in Dials : StartsDial(d, failures, older) /\ promise' = d /\ waits' = d
           /\ UNCHANGED <<todo, socket>>
  <2>1. AttemptsDial'
    BY <1>5, StartKeepsAttempts DEF IInv, PoolIsOrdered
  <2> QED
    BY <1>1, <1>2, <1>5, <2>1 DEF IInv, TickGoesOn
<1> QED
  BY <1>3, <1>4, <1>5 DEF GetClient

LEMMA AnsweredKeepsIInv == IInv /\ Answered => IInv'
<1> SUFFICES ASSUME IInv, Answered PROVE IInv'
  OBVIOUS
<1>1. todo # <<>> /\ waits = None
  BY DEF Answered, Sends, Runs
<1>2. todo' \in Seq(Ops)
  BY <1>1, TailType DEF Answered, IInv, TickGoesOn
<1>3. SocketFollows(socket')
  BY ServedFollows DEF IInv, Answered
<1>4. taped' \subseteq Clients
  BY DEF Answered, Answers, Open, IInv, ClientsAreKnown, SocketFollows
<1> QED
  BY <1>1, <1>2, <1>3, <1>4, TickOnly DEF Answered

LEMMA UnansweredKeepsIInv == IInv /\ Unanswered => IInv'
<1> SUFFICES ASSUME IInv, Unanswered PROVE IInv'
  OBVIOUS
<1>1. waits = None
  BY DEF Unanswered, Sends, Runs
<1>2. Caught(todo) \in Seq(Ops)
  BY CaughtType
<1>3. CASE IsZombie(socket.failed + 1)
  <2>1. <<"rotate", "leave">> \in Seq(Ops)
    BY DEF Ops
  <2>2. todo' \in Seq(Ops)
    BY <1>2, <1>3, <2>1, ConcatProperties DEF Unanswered
  <2>3. SocketFollows(socket')
    BY <1>3, ServedFollows DEF Unanswered, IInv
  <2> QED
    BY <1>1, <2>2, <2>3, TickOnly DEF Unanswered, IInv, ClientsAreKnown
<1>4. CASE ~IsZombie(socket.failed + 1)
  <2>1. HandleReconnect([socket EXCEPT !.failed = socket.failed + 1], Caught(todo))
    BY <1>4 DEF Unanswered
  <2>2. SocketFollows(socket') /\ todo' \in Seq(Ops)
    BY <1>2, <1>4, <2>1, UnservedFollows, HandleReconnectKeeps DEF IInv
  <2> QED
    BY <1>1, <2>2, TickOnly DEF Unanswered, IInv, ClientsAreKnown
<1> QED
  BY <1>3, <1>4

LEMMA RecoverKeepsIInv == IInv /\ Recover => IInv'
<1> SUFFICES ASSUME IInv, Recover PROVE IInv'
  OBVIOUS
<1>1. waits = None
  BY DEF Recover, Runs
<1>2. todo' \in Seq(Ops)
  BY ProgramTypes DEF Recover
<1>3. SocketFollows(socket')
  BY DetachedFollows DEF Recover, IInv
<1> QED
  BY <1>1, <1>2, <1>3, TickOnly DEF Recover, IInv, ClientsAreKnown

\* disconnectXrplClient(), which waits for the promise there is or closes the client.
LEMMA DisconnectParts ==
    ASSUME ClientsAreKnown, AttemptsDial, SocketFollows(socket), TickGoesOn,
           cooling \subseteq Endpoints, todo # <<>>, waits = None,
           IF promise = None THEN CloseShared ELSE Settle
    PROVE  ClientsAreKnown' /\ AttemptsDial' /\ SocketFollows(socket') /\ TickGoesOn'
<1>1. Tail(todo) \in Seq(Ops)
  BY TailType DEF TickGoesOn
<1>2. CASE promise # None
  <2>1. <<"disconnect">> \o Tail(todo) \in Seq(Ops) /\ <<"disconnect">> \o Tail(todo) # <<>>
        /\ Head(<<"disconnect">> \o Tail(todo)) = "disconnect"
    BY <1>1, FirstType DEF Ops
  <2> QED
    BY <1>2, <2>1 DEF Settle, ClientsAreKnown, AttemptsDial, PromiseDials, TickGoesOn,
                      Awaiting, sharedVars
<1>3. CASE promise = None
  <2>1. /\ shared' = None /\ current' = None /\ promise' = None
        /\ todo' = Tail(todo) /\ waits' = waits
    BY <1>3 DEF CloseShared
  <2>2. TickGoesOn'
    BY <1>1, <2>1 DEF TickGoesOn
  <2>3. CASE Open(shared)
    <3>1. /\ shared \in Clients
          /\ client' = [client EXCEPT ![shared].state = "closed"]
          /\ taped' = taped \ {shared}
          /\ socket' = Disconnected(shared)
      BY <1>3, <2>3 DEF CloseShared, Open, ClientsAreKnown
    <3>2. PICK d \in Dials : StartsDial(d, failures', older')
      BY <1>3, <2>3 DEF CloseShared
    <3>3. AttemptsDial'
      BY <2>1, <3>2, StartKeepsAttempts
    <3>4. SocketFollows(socket')
      BY <3>1, DisconnectedFollows
    <3>5. ClientsAreKnown'
      BY <2>1, <3>1 DEF ClientsAreKnown
    <3> QED
      BY <2>2, <3>3, <3>4, <3>5
  <2>4. CASE ~Open(shared)
    BY <1>3, <2>1, <2>2, <2>4 DEF CloseShared, ClientsAreKnown, AttemptsDial, PromiseDials
  <2> QED
    BY <2>3, <2>4
<1> QED
  BY <1>2, <1>3

LEMMA RotateKeepsIInv == IInv /\ Rotate => IInv'
<1> SUFFICES ASSUME IInv, Rotate PROVE IInv'
  OBVIOUS
<1>1. ClientsAreKnown' /\ AttemptsDial' /\ SocketFollows(socket') /\ TickGoesOn'
  BY DisconnectParts DEF Rotate, Runs, IInv, PoolIsOrdered
<1>2. PoolIsOrdered'
  <2>1. CASE current = None
    BY <2>1 DEF Rotate, IInv, PoolIsOrdered
  <2>2. CASE current # None
    <3>1. current \in Endpoints
      BY <2>2 DEF IInv, ClientsAreKnown
    <3>2. failures' = Failed(failures, current) /\ older' = Attempted(older, current)
      BY <2>2 DEF Rotate
    <3>3. failures' \in [Endpoints -> 0 .. MaxFailures]
      BY <3>1, <3>2, FailedType DEF IInv, PoolIsOrdered
    <3>4. IsOrder(older')
      BY <3>1, <3>2, AttemptedOrder DEF IInv, PoolIsOrdered
    <3> QED
      BY <3>3, <3>4 DEF Rotate, IInv, PoolIsOrdered
  <2> QED
    BY <2>1, <2>2
<1> QED
  BY <1>1, <1>2 DEF IInv, NetIsKnown, Rotate

LEMMA DisconnectKeepsIInv == IInv /\ Disconnect => IInv'
<1> SUFFICES ASSUME IInv, Disconnect PROVE IInv'
  OBVIOUS
<1>1. ClientsAreKnown' /\ AttemptsDial' /\ SocketFollows(socket') /\ TickGoesOn'
  BY DisconnectParts DEF Disconnect, Runs, IInv, PoolIsOrdered
<1> QED
  BY <1>1 DEF IInv, NetIsKnown, PoolIsOrdered, Disconnect, poolVars

-----------------------------------------------------------------------------
(* The theorems                                                            *)

LEMMA NextKeepsIInv == IInv /\ [Next]_vars => IInv'
<1> SUFFICES ASSUME IInv, [Next]_vars PROVE IInv'
  OBVIOUS
<1>1. CASE TickStep
  BY <1>1, BeginTickKeepsIInv, RequireKeepsIInv, EnsureKeepsIInv, GetClientKeepsIInv,
     AnsweredKeepsIInv, UnansweredKeepsIInv, RotateKeepsIInv, DisconnectKeepsIInv,
     RecoverKeepsIInv DEF TickStep
<1>2. CASE Weather
  BY <1>2, WeatherKeepsIInv
<1>3. ASSUME NEW d \in Dials, DialStep(d) PROVE IInv'
  BY <1>3, DialSucceedsKeepsIInv, DialFailsKeepsIInv DEF DialStep
<1>4. ASSUME NEW e \in Endpoints, CooldownEnds(e) PROVE IInv'
  BY <1>4, CooldownEndsKeepsIInv
<1>5. ASSUME NEW c \in Clients, Drop(c) \/ Return(c) PROVE IInv'
  BY <1>5, DropKeepsIInv, ReturnKeepsIInv
<1>6. CASE UNCHANGED vars
  BY <1>6 DEF vars, poolVars, sharedVars, IInv, NetIsKnown, PoolIsOrdered,
              ClientsAreKnown, AttemptsDial, PromiseDials, TickGoesOn
<1> QED
  BY <1>1, <1>2, <1>3, <1>4, <1>5, <1>6 DEF Next

LEMMA SpecIInv == Spec => []IInv
BY InitIInv, NextKeepsIInv, PTL DEF Spec

\* Types, after any outages, rotations and recoveries: the program of the tick never
\* goes on past its end, the counters stay within their limits, and the endpoints
\* stay ordered by their last attempt (sharedClient.ts:157, client.ts:264).
THEOREM TypeCorrectness == Spec => []TypeOK
BY SpecIInv, IInvImplies, PTL

\* Neither the tick nor whoever calls getXrplClient() next awaits an attempt that is
\* over, however many attempts overlap, end or are given up (sharedClient.ts:345).
THEOREM PromisesDial == Spec => []PromiseDials
BY SpecIInv, IInvImplies, PTL

\* A socket that says it is connected has its handlers on the client it uses, after
\* any sequence of losses, detachments and new clients (client.ts:264).
THEOREM EventsFollowTheClient == Spec => []EventsFollow
BY SpecIInv, IInvImplies, PTL
=============================================================================
