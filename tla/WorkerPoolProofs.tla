-------------------------- MODULE WorkerPoolProofs --------------------------
(***************************************************************************)
(* The connection queue for any number of workers and clients and any      *)
(* backlog: both semaphores count what they stand for, so a worker with a  *)
(* permit always finds a connection; every connection is in one place; and *)
(* queue, accept loop and workers implement the bounded FIFO.              *)
(***************************************************************************)
EXTENDS WorkerPool, FiniteSetTheorems, SequenceTheorems, TLAPS

-----------------------------------------------------------------------------
(* The inductive invariant *)

\* TypeOK but for the upper bounds of the permits, which follow from the
\* accounting; with what the loop and the workers hold at each place.
Shape ==
    /\ items \in Nat
    /\ spaces \in Nat
    /\ queue \in Seq(Clients)
    /\ signal \in BOOLEAN
    /\ acceptor \in AcceptorPlaces
    /\ hand \in Clients \cup {"none"}
    /\ worker \in [Workers -> WorkerPlaces]
    /\ conn \in [Workers -> Clients \cup {"none"}]
    /\ client \in [Clients -> {"away", "knocking", "open", "closed"}]
    /\ acceptor \in {"push", "append"} => hand \in Clients

PoolInv == Shape /\ SpacesAccounted /\ ItemsAccounted

-----------------------------------------------------------------------------
(* Workers at a place *)

\* The workers at a place are finitely many.
LEMMA WorkersFinite ==
    ASSUME NEW place
    PROVE  /\ IsFiniteSet(WorkersAt(place))
           /\ Cardinality(WorkersAt(place)) \in Nat
<1>1. WorkersAt(place) \subseteq Workers
    BY DEF WorkersAt
<1> QED
    BY <1>1, WorkerPoolAssumption, FS_Subset, FS_CardinalityType

\* A worker that moves leaves its place, reaches the other one, and changes
\* no other place.
LEMMA WorkerMoves ==
    ASSUME Shape, NEW w \in Workers, NEW here, NEW there,
           WorkerAt(w, here, there), here # there
    PROVE  /\ Cardinality(WorkersAt(here)') = Cardinality(WorkersAt(here)) - 1
           /\ Cardinality(WorkersAt(here)) > 0
           /\ Cardinality(WorkersAt(there)') = Cardinality(WorkersAt(there)) + 1
           /\ \A place : place # here /\ place # there =>
                 WorkersAt(place)' = WorkersAt(place)
<1>1. w \in WorkersAt(here) /\ WorkersAt(here)' = WorkersAt(here) \ {w}
    BY DEF Shape, WorkerAt, WorkersAt
<1>2. w \notin WorkersAt(there) /\ WorkersAt(there)' = WorkersAt(there) \cup {w}
    BY DEF Shape, WorkerAt, WorkersAt
<1>3. Cardinality(WorkersAt(here)') = Cardinality(WorkersAt(here)) - 1
    BY <1>1, WorkersFinite, FS_RemoveElement
<1>4. Cardinality(WorkersAt(there)') = Cardinality(WorkersAt(there)) + 1
    BY <1>2, WorkersFinite, FS_AddElement
<1>5. Cardinality(WorkersAt(here)) > 0
    <2>1. Cardinality(WorkersAt(here)) # 0
        BY <1>1, WorkersFinite, FS_EmptySet
    <2> QED
        BY <2>1, WorkersFinite
<1>6. \A place : place # here /\ place # there =>
          WorkersAt(place)' = WorkersAt(place)
    BY DEF Shape, WorkerAt, WorkersAt
<1> QED
    BY <1>3, <1>4, <1>5, <1>6

-----------------------------------------------------------------------------
(* Steps *)

\* The variables stay in range.
LEMMA ShapeSteps ==
    ASSUME Shape, [Next]_vars
    PROVE  Shape'
<1> USE DEF Shape, AcceptorPlaces, WorkerPlaces, queueVars, acceptorVars,
            workerVars
<1>1. CASE UNCHANGED vars
    BY <1>1 DEF vars
<1>2. ASSUME NEW c \in Clients, Connect(c) PROVE Shape'
    BY <1>2 DEF Connect
<1>3. CASE Interrupt
    BY <1>3 DEF Interrupt
<1>4. CASE AcceptorNext
    <2>1. CASE CheckSignal
        BY <2>1 DEF CheckSignal, AcceptorAt
    <2>2. CASE Readable \/ SelectTimesOut \/ SelectFails
        BY <2>2 DEF Readable, SelectTimesOut, SelectFails, AcceptorAt
    <2>3. ASSUME NEW c \in Clients, Accept(c) PROVE Shape'
        BY <2>3 DEF Accept, AcceptorAt
    <2>4. CASE AcceptFails
        BY <2>4 DEF AcceptFails
    <2>5. CASE AcquireSpace
        BY <2>5 DEF AcquireSpace, AcceptorAt
    <2>6. CASE AppendConn
        BY <2>6 DEF AppendConn, AcceptorAt
    <2>7. CASE PostItem
        BY <2>7 DEF PostItem, AcceptorAt
    <2>8. CASE Exit
        BY <2>8 DEF Exit, AcceptorAt
    <2> QED
        BY <1>4, <2>1, <2>2, <2>3, <2>4, <2>5, <2>6, <2>7, <2>8 DEF AcceptorNext
<1>5. ASSUME NEW w \in Workers, WorkerNext(w) PROVE Shape'
    <2>1. CASE AcquireItem(w)
        BY <2>1 DEF AcquireItem, WorkerAt
    <2>2. CASE Take(w)
        <3>0. queue # <<>> => Head(queue) \in Clients /\ Tail(queue) \in Seq(Clients)
            BY HeadTailProperties
        <3>1. queue' \in Seq(Clients)
            BY <2>2, <3>0 DEF Take
        <3>2. conn' \in [Workers -> Clients \cup {"none"}]
            BY <2>2, <3>0 DEF Take
        <3>3. worker' \in [Workers -> WorkerPlaces]
            BY <2>2 DEF Take, WorkerAt
        <3> QED
            BY <2>2, <3>1, <3>2, <3>3 DEF Take
    <2>3. CASE ReleaseSpace(w)
        BY <2>3 DEF ReleaseSpace, WorkerAt
    <2>4. CASE Handshake(w)
        BY <2>4 DEF Handshake, HandshakeSucceeds, HandshakeFails, WorkerAt
    <2>5. CASE SessionEnds(w)
        BY <2>5 DEF SessionEnds, WorkerAt
    <2>6. CASE CloseConn(w)
        BY <2>6 DEF CloseConn, WorkerAt
    <2> QED
        BY <1>5, <2>1, <2>2, <2>3, <2>4, <2>5, <2>6 DEF WorkerNext, QueueStep
<1> QED
    BY <1>1, <1>2, <1>3, <1>4, <1>5 DEF Next

\* Each step of push and pop moves one unit from one term of an accounting to
\* another; a worker never finds the queue empty.
LEMMA AccountingSteps ==
    ASSUME PoolInv, [Next]_vars
    PROVE  SpacesAccounted' /\ ItemsAccounted'
<1> USE DEF PoolInv, SpacesAccounted, ItemsAccounted, OneIf
<1>1. /\ Cardinality(WorkersAt("take")) \in Nat
      /\ Cardinality(WorkersAt("free")) \in Nat
      /\ Len(queue) \in Nat /\ items \in Nat /\ spaces \in Nat /\ Backlog \in Nat
    BY WorkersFinite, WorkerPoolAssumption, LenProperties DEF Shape
<1>2. ASSUME UNCHANGED <<queueVars, worker>>,
             acceptor' = acceptor \/ {acceptor, acceptor'} \cap {"append", "post"} = {}
      PROVE  SpacesAccounted' /\ ItemsAccounted'
    BY <1>2 DEF queueVars, WorkersAt
<1>3. CASE AcquireSpace
    BY <1>1, <1>3 DEF AcquireSpace, AcceptorAt, workerVars, WorkersAt
<1>4. CASE AppendConn
    <2>1. Len(queue') = Len(queue) + 1
        BY <1>4, AppendProperties DEF AppendConn, AcceptorAt, Shape
    <2> QED
        BY <1>1, <1>4, <2>1 DEF AppendConn, AcceptorAt, workerVars, WorkersAt
<1>5. CASE PostItem
    BY <1>1, <1>5 DEF PostItem, AcceptorAt, workerVars, WorkersAt
<1>6. ASSUME NEW w \in Workers, AcquireItem(w)
      PROVE  SpacesAccounted' /\ ItemsAccounted'
    <2>1. WorkerAt(w, "wait", "take")
        BY <1>6 DEF AcquireItem
    <2>2. /\ Cardinality(WorkersAt("take")') = Cardinality(WorkersAt("take")) + 1
          /\ WorkersAt("free")' = WorkersAt("free")
        BY <2>1, WorkerMoves
    <2> QED
        BY <1>1, <1>6, <2>2 DEF AcquireItem, acceptorVars
<1>7. ASSUME NEW w \in Workers, Take(w)
      PROVE  SpacesAccounted' /\ ItemsAccounted'
    <2>1. queue # <<>>
        <3>1. ASSUME queue = <<>> PROVE FALSE
            <4>1. WorkerAt(w, "take", "wait")
                BY <1>7, <3>1 DEF Take
            <4>2. Cardinality(WorkersAt("take")) > 0
                BY <4>1, WorkerMoves
            <4> QED
                BY <1>1, <3>1, <4>2
        <3> QED
            BY <3>1
    <2>2. WorkerAt(w, "take", "free")
        BY <1>7, <2>1 DEF Take
    <2>3. /\ Cardinality(WorkersAt("take")') = Cardinality(WorkersAt("take")) - 1
          /\ Cardinality(WorkersAt("free")') = Cardinality(WorkersAt("free")) + 1
        BY <2>2, WorkerMoves
    <2>4. Len(queue') = Len(queue) - 1
        BY <1>7, <2>1, HeadTailProperties DEF Take, Shape
    <2>5. UNCHANGED <<items, spaces, acceptor>>
        BY <1>7 DEF Take, acceptorVars
    <2>6. SpacesAccounted'
        BY <1>1, <2>3, <2>4, <2>5
    <2>7. ItemsAccounted'
        BY <1>1, <2>3, <2>4, <2>5
    <2> QED
        BY <2>6, <2>7
<1>8. ASSUME NEW w \in Workers, ReleaseSpace(w)
      PROVE  SpacesAccounted' /\ ItemsAccounted'
    <2>1. WorkerAt(w, "free", "handshake")
        BY <1>8 DEF ReleaseSpace
    <2>2. /\ Cardinality(WorkersAt("free")') = Cardinality(WorkersAt("free")) - 1
          /\ WorkersAt("take")' = WorkersAt("take")
        BY <2>1, WorkerMoves
    <2> QED
        BY <1>1, <1>8, <2>2 DEF ReleaseSpace, acceptorVars
<1>9. ASSUME NEW w \in Workers, Handshake(w) \/ SessionEnds(w) \/ CloseConn(w)
      PROVE  SpacesAccounted' /\ ItemsAccounted'
    <2>1. PICK here \in {"handshake", "session", "close"},
               there \in {"session", "close", "dead", "wait"} :
             here # there /\ WorkerAt(w, here, there)
        BY <1>9 DEF Handshake, HandshakeSucceeds, HandshakeFails, SessionEnds,
           CloseConn, WorkerAt
    <2>2. WorkersAt("take")' = WorkersAt("take") /\ WorkersAt("free")' = WorkersAt("free")
        BY <2>1, WorkerMoves
    <2>3. UNCHANGED <<queueVars, acceptor>>
        BY <1>9 DEF Handshake, HandshakeSucceeds, HandshakeFails, SessionEnds,
           CloseConn, acceptorVars
    <2> QED
        BY <2>2, <2>3 DEF queueVars
<1>10. ASSUME AcceptorNext, ~AcquireSpace, ~AppendConn, ~PostItem
       PROVE  /\ UNCHANGED <<queueVars, worker>>
              /\ {acceptor, acceptor'} \cap {"append", "post"} = {}
    BY <1>10 DEF AcceptorNext, CheckSignal, Readable, SelectTimesOut, SelectFails,
       Accept, AcceptFails, Exit, AcceptorAt, workerVars
<1>11. ASSUME (\E c \in Clients : Connect(c)) \/ Interrupt \/ UNCHANGED vars
       PROVE  UNCHANGED <<queueVars, worker, acceptor>>
    BY <1>11 DEF Connect, Interrupt, vars, workerVars, acceptorVars
<1> QED
    BY <1>2, <1>3, <1>4, <1>5, <1>6, <1>7, <1>8, <1>9, <1>10, <1>11
       DEF Next, WorkerNext, QueueStep

-----------------------------------------------------------------------------
(* The theorems *)

\* The queue starts empty with every space free.
LEMMA PoolStarts == Init => PoolInv
<1> SUFFICES ASSUME Init PROVE PoolInv
    OBVIOUS
<1>1. Cardinality(WorkersAt("take")) = 0 /\ Cardinality(WorkersAt("free")) = 0
    <2>1. WorkersAt("take") = {} /\ WorkersAt("free") = {}
        BY DEF Init, WorkersAt
    <2> QED
        BY <2>1, FS_EmptySet
<1>2. Len(queue) = 0 /\ queue \in Seq(Clients)
    BY EmptySeq DEF Init
<1>3. /\ items = 0 /\ spaces = Backlog /\ Backlog \in Nat
      /\ OneIf(acceptor = "append") = 0 /\ OneIf(acceptor = "post") = 0
    BY WorkerPoolAssumption DEF Init, OneIf
<1>4. SpacesAccounted /\ ItemsAccounted
    BY <1>1, <1>2, <1>3 DEF SpacesAccounted, ItemsAccounted
<1>5. Shape
    BY <1>2, WorkerPoolAssumption DEF Init, Shape, AcceptorPlaces, WorkerPlaces
<1> QED
    BY <1>4, <1>5 DEF PoolInv

LEMMA PoolInvariant == Spec => []PoolInv
<1>1. PoolInv /\ [Next]_vars => PoolInv'
    BY ShapeSteps, AccountingSteps DEF PoolInv
<1> QED
    BY <1>1, PoolStarts, PTL DEF Spec

\* A worker that got a permit finds an entry.
LEMMA NoPhantom == PoolInv => NoPhantomEntry
<1> SUFFICES ASSUME PoolInv, NEW w \in Workers, worker[w] = "take"
             PROVE  queue # <<>>
    BY DEF NoPhantomEntry
<1>1. w \in WorkersAt("take")
    BY DEF WorkersAt
<1>2. Cardinality(WorkersAt("take")) \in Nat \ {0}
    BY <1>1, WorkersFinite, FS_EmptySet
<1>3. Len(queue) # 0
    BY <1>2, LenProperties DEF PoolInv, Shape, ItemsAccounted, OneIf
<1> QED
    BY <1>3, EmptySeq

\* However push and pop interleave, the two semaphores of ConnQueue agree with
\* the list, and the re-wait of pop is unreachable as its comment says.
THEOREM PermitsAlwaysAccounted == Spec => []PermitsAccounted
<1>1. PoolInv => PermitsAccounted
    BY NoPhantom DEF PermitsAccounted, PoolInv
<1> QED
    BY <1>1, PoolInvariant, PTL

\* The types, with the bounds of the permits: neither semaphore ever counts
\* more than the backlog.
THEOREM PoolTyped == Spec => []TypeOK
<1>1. PoolInv => TypeOK
    <2> SUFFICES ASSUME PoolInv PROVE TypeOK
        OBVIOUS
    <2>1. /\ Cardinality(WorkersAt("take")) \in Nat
          /\ Cardinality(WorkersAt("free")) \in Nat
          /\ Len(queue) \in Nat /\ Backlog \in Nat
        BY WorkersFinite, WorkerPoolAssumption, LenProperties DEF PoolInv, Shape
    <2>2. items \in 0 .. Backlog /\ spaces \in 0 .. Backlog
        BY <2>1 DEF PoolInv, Shape, SpacesAccounted, ItemsAccounted, OneIf
    <2> QED
        BY <2>2 DEF PoolInv, Shape, TypeOK
<1> QED
    BY <1>1, PoolInvariant, PTL

-----------------------------------------------------------------------------
(* Where the connections are *)

Positions == 1 .. Len(queue)

\* The accept loop holds a connection from accept to append; a worker holds
\* one from take to close, and keeps it when it dies.
HoldersBusy ==
    /\ hand = "none" <=> acceptor \notin {"push", "append"}
    /\ \A w \in Workers : conn[w] = "none" <=> worker[w] \in {"wait", "take"}

\* No connection is in two places.
NeverTwice ==
    /\ \A i \in Positions : queue[i] # hand
    /\ \A w \in Workers : conn[w] = hand => hand = "none"
    /\ \A i, j \in Positions : queue[i] = queue[j] => i = j
    /\ \A i \in Positions, w \in Workers : queue[i] # conn[w]
    /\ \A v, w \in Workers : conn[v] = conn[w] => v = w \/ conn[v] = "none"

Held(c) ==
    \/ hand = c
    \/ \E i \in Positions : queue[i] = c
    \/ \E w \in Workers : conn[w] = c

\* While the server runs, the open connections are the held ones.
OpenIsHeld == Running => \A c \in Clients : client[c] = "open" <=> Held(c)

PlacesInv == HoldersBusy /\ NeverTwice /\ OpenIsHeld

\* What a step leaves in place keeps PlacesInv: the steps that move no
\* connection and open or close none.
LEMMA PlacesKept ==
    ASSUME PlacesInv, UNCHANGED <<queue, hand, conn>>,
           acceptor \in {"push", "append"} <=> acceptor' \in {"push", "append"},
           \A w \in Workers : worker[w] \in {"wait", "take"} <=> worker'[w] \in {"wait", "take"},
           \/ ~Running'
           \/ Running /\ \A c \in Clients : client[c] = "open" <=> client'[c] = "open"
    PROVE  PlacesInv'
<1>1. HoldersBusy'
    BY DEF PlacesInv, HoldersBusy
<1>2. NeverTwice'
    BY DEF PlacesInv, NeverTwice, Positions
<1>3. OpenIsHeld'
    <2>1. \A c : Held(c)' = Held(c)
        BY DEF Held, Positions
    <2> QED
        BY <2>1 DEF PlacesInv, OpenIsHeld
<1> QED
    BY <1>1, <1>2, <1>3 DEF PlacesInv

\* accept puts a client that is held nowhere in the hand.
LEMMA PlacesAccept ==
    ASSUME Shape, PlacesInv, NEW c \in Clients, Accept(c)
    PROVE  PlacesInv'
<1>0. /\ acceptor = "accept" /\ acceptor' = "push" /\ hand' = c
      /\ UNCHANGED <<queue, worker, conn>>
      /\ client' = [client EXCEPT ![c] = "open"]
      /\ client[c] = "knocking"
    BY DEF Accept, AcceptorAt, queueVars, workerVars
<1>1. Running /\ Running' /\ hand = "none" /\ c # "none"
    BY <1>0, WorkerPoolAssumption DEF Running, PlacesInv, HoldersBusy
<1>2. ~Held(c)
    BY <1>0, <1>1 DEF PlacesInv, OpenIsHeld
<1>3. HoldersBusy'
    BY <1>0, <1>1 DEF PlacesInv, HoldersBusy
<1>4. NeverTwice'
    BY <1>0, <1>1, <1>2 DEF PlacesInv, NeverTwice, Positions, Held
<1>5. OpenIsHeld'
    <2>1. \A d \in Clients : Held(d)' <=> d = c \/ Held(d)
        BY <1>0, <1>1, WorkerPoolAssumption DEF Held, Positions
    <2>2. \A d \in Clients : client'[d] = "open" <=> d = c \/ client[d] = "open"
        BY <1>0 DEF Shape
    <2> QED
        BY <1>1, <2>1, <2>2 DEF PlacesInv, OpenIsHeld
<1> QED
    BY <1>3, <1>4, <1>5 DEF PlacesInv

\* The append moves the connection from the hand to the end of the queue.
LEMMA PlacesAppend ==
    ASSUME Shape, PlacesInv, AppendConn
    PROVE  PlacesInv'
<1>0. /\ acceptor = "append" /\ acceptor' = "post" /\ hand' = "none"
      /\ queue' = Append(queue, hand)
      /\ UNCHANGED <<worker, conn, client>>
    BY DEF AppendConn, AcceptorAt, workerVars
<1>1. Running /\ Running' /\ hand \in Clients /\ hand # "none"
    BY <1>0, WorkerPoolAssumption DEF Running, Shape
<1>2. /\ Len(queue) \in Nat
      /\ Positions' = Positions \cup {Len(queue) + 1}
      /\ \A i \in Positions : queue'[i] = queue[i]
      /\ queue'[Len(queue) + 1] = hand
      /\ Len(queue) + 1 \notin Positions
    BY <1>0, <1>1, AppendProperties, LenProperties DEF Positions, Shape
<1>3. HoldersBusy'
    BY <1>0, <1>1 DEF PlacesInv, HoldersBusy
<1>4. NeverTwice'
    <2>1. \A i \in Positions' : queue'[i] \in Clients
        BY <1>1, <1>2, ElementOfSeq DEF Shape, Positions
    <2>2. \A i \in Positions' : queue'[i] # hand'
        BY <1>0, <2>1, WorkerPoolAssumption
    <2>3. \A i, j \in Positions' : queue'[i] = queue'[j] => i = j
        BY <1>2 DEF PlacesInv, NeverTwice
    <2>4. \A i \in Positions', w \in Workers : queue'[i] # conn'[w]
        <3>1. \A w \in Workers : conn'[w] = conn[w] /\ conn[w] # hand
            BY <1>0, <1>1 DEF PlacesInv, NeverTwice
        <3>2. \A i \in Positions' : queue'[i] = hand \/ \E j \in Positions : queue'[i] = queue[j]
            BY <1>2
        <3> QED
            BY <3>1, <3>2 DEF PlacesInv, NeverTwice
    <2>5. \A v, w \in Workers : conn'[v] = conn'[w] => v = w \/ conn'[v] = "none"
        BY <1>0 DEF PlacesInv, NeverTwice
    <2>6. \A w \in Workers : conn'[w] = hand' => hand' = "none"
        BY <1>0
    <2> QED
        BY <2>2, <2>3, <2>4, <2>5, <2>6 DEF NeverTwice
<1>5. OpenIsHeld'
    <2>1. \A d \in Clients : Held(d)' <=> Held(d)
        BY <1>0, <1>1, <1>2, WorkerPoolAssumption DEF Held
    <2> QED
        BY <1>0, <1>1, <2>1 DEF PlacesInv, OpenIsHeld
<1> QED
    BY <1>3, <1>4, <1>5 DEF PlacesInv

\* The take moves the head of the queue to the worker.
LEMMA PlacesTake ==
    ASSUME PoolInv, PlacesInv, NEW w \in Workers, Take(w)
    PROVE  PlacesInv'
<1>0. /\ Running /\ worker[w] = "take" /\ queue # <<>>
      /\ worker' = [worker EXCEPT ![w] = "free"]
      /\ conn' = [conn EXCEPT ![w] = Head(queue)]
      /\ queue' = Tail(queue)
      /\ UNCHANGED <<acceptor, hand, client>>
    BY NoPhantom DEF Take, WorkerAt, acceptorVars, NoPhantomEntry
<1> USE DEF PoolInv, Shape
<1>1. Running' /\ conn[w] = "none"
    BY <1>0 DEF Running, PlacesInv, HoldersBusy
<1>2. /\ Len(queue) \in Nat \ {0} /\ 1 \in Positions
      /\ Positions' = 1 .. (Len(queue) - 1)
      /\ \A i \in Positions' : queue'[i] = queue[i + 1] /\ i + 1 \in Positions /\ i + 1 # 1
      /\ \A i \in Positions : i # 1 => i - 1 \in Positions' /\ queue'[i - 1] = queue[i]
      /\ Head(queue) = queue[1]
      /\ queue[1] \in Clients
    <2>1. Len(queue) \in Nat \ {0}
        BY <1>0, LenProperties, EmptySeq
    <2>2. /\ Len(queue') = Len(queue) - 1
          /\ \A i \in 1 .. Len(queue') : queue'[i] = queue[i + 1]
          /\ Head(queue) = queue[1]
        BY <1>0, HeadTailProperties
    <2>3. \A i \in Positions : queue[i] \in Clients
        BY ElementOfSeq DEF Positions
    <2> QED
        BY <2>1, <2>2, <2>3 DEF Positions
<1>3. queue[1] # "none" /\ conn'[w] = queue[1]
    BY <1>0, <1>2, WorkerPoolAssumption
<1>4. \A v \in Workers : v # w => conn'[v] = conn[v]
    BY <1>0
<1>5. HoldersBusy'
    <2>1. \A v \in Workers : v # w => worker'[v] = worker[v]
        BY <1>0
    <2>2. worker'[w] = "free"
        BY <1>0
    <2> QED
        BY <1>0, <1>3, <1>4, <2>1, <2>2 DEF PlacesInv, HoldersBusy
<1>6. NeverTwice'
    <2>1. \A i \in Positions' : queue'[i] # hand'
        BY <1>0, <1>2 DEF PlacesInv, NeverTwice
    <2>2. \A v \in Workers : conn'[v] = hand' => hand' = "none"
        BY <1>0, <1>2, <1>3, <1>4 DEF PlacesInv, NeverTwice
    <2>3. \A i, j \in Positions' : queue'[i] = queue'[j] => i = j
        <3> SUFFICES ASSUME NEW i \in Positions', NEW j \in Positions',
                            queue'[i] = queue'[j]
                     PROVE  i = j
            OBVIOUS
        <3>1. i + 1 = j + 1
            BY <1>2 DEF PlacesInv, NeverTwice
        <3> QED
            BY <1>2, <3>1
    <2>4. \A i \in Positions', v \in Workers : queue'[i] # conn'[v]
        <3> SUFFICES ASSUME NEW i \in Positions', NEW v \in Workers
                     PROVE  queue'[i] # conn'[v]
            OBVIOUS
        <3>1. queue'[i] = queue[i + 1] /\ i + 1 \in Positions /\ i + 1 # 1
            BY <1>2
        <3> QED
            BY <1>2, <1>3, <1>4, <3>1 DEF PlacesInv, NeverTwice
    <2>5. \A u, v \in Workers : conn'[u] = conn'[v] => u = v \/ conn'[u] = "none"
        BY <1>2, <1>3, <1>4 DEF PlacesInv, NeverTwice
    <2> QED
        BY <2>1, <2>2, <2>3, <2>4, <2>5 DEF NeverTwice
<1>7. OpenIsHeld'
    <2> SUFFICES ASSUME NEW c \in Clients PROVE Held(c)' <=> Held(c)
        BY <1>0, <1>1 DEF PlacesInv, OpenIsHeld
    <2>1. (\E i \in Positions : queue[i] = c)
              <=> queue[1] = c \/ \E i \in Positions' : queue'[i] = c
        BY <1>2
    <2>2. (\E v \in Workers : conn'[v] = c)
              <=> queue[1] = c \/ \E v \in Workers : conn[v] = c
        BY <1>1, <1>3, <1>4, WorkerPoolAssumption
    <2> QED
        BY <1>0, <2>1, <2>2 DEF Held
<1> QED
    BY <1>5, <1>6, <1>7 DEF PlacesInv

\* The close takes the connection from its worker and closes its client.
LEMMA PlacesClose ==
    ASSUME Shape, PlacesInv, NEW w \in Workers, CloseConn(w)
    PROVE  PlacesInv'
<1>0. /\ Running /\ worker[w] = "close"
      /\ worker' = [worker EXCEPT ![w] = "wait"]
      /\ conn' = [conn EXCEPT ![w] = "none"]
      /\ client' = [client EXCEPT ![conn[w]] = "closed"]
      /\ UNCHANGED <<queue, acceptor, hand>>
    BY DEF CloseConn, WorkerAt, acceptorVars, queueVars
<1>1. PICK c \in Clients : c = conn[w]
    BY <1>0 DEF PlacesInv, HoldersBusy, Shape
<1>2. /\ conn'[w] = "none" /\ worker'[w] = "wait"
      /\ \A v \in Workers : v # w => conn'[v] = conn[v] /\ worker'[v] = worker[v]
      /\ c # "none"
    BY <1>0, <1>1, WorkerPoolAssumption DEF Shape
<1>3. HoldersBusy'
    BY <1>0, <1>2 DEF PlacesInv, HoldersBusy
<1>4. NeverTwice'
    <2>1. \A i \in Positions : queue[i] # "none"
        BY WorkerPoolAssumption, ElementOfSeq DEF Shape, Positions
    <2> QED
        BY <1>0, <1>2, <2>1 DEF PlacesInv, NeverTwice, Positions
<1>5. OpenIsHeld'
    <2>1. \A d \in Clients : Held(d)' <=> Held(d) /\ d # c
        BY <1>0, <1>1, <1>2, WorkerPoolAssumption
           DEF PlacesInv, NeverTwice, Held, Positions
    <2>2. \A d \in Clients : client'[d] = "open" <=> client[d] = "open" /\ d # c
        BY <1>0, <1>1 DEF Shape
    <2> QED
        BY <1>0, <2>1, <2>2 DEF PlacesInv, OpenIsHeld, Running
<1> QED
    BY <1>3, <1>4, <1>5 DEF PlacesInv

LEMMA PlacesSteps ==
    ASSUME PoolInv, PlacesInv, [Next]_vars
    PROVE  PlacesInv'
<1> USE DEF PoolInv
<1>1. CASE UNCHANGED vars
    BY <1>1, PlacesKept DEF vars, queueVars, acceptorVars, workerVars, Running
<1>2. ASSUME NEW c \in Clients, Connect(c) PROVE PlacesInv'
    <2>1. \A d \in Clients : client[d] = "open" <=> client'[d] = "open"
        BY <1>2 DEF Connect, Shape
    <2> QED
        BY <1>2, <2>1, PlacesKept DEF Connect, queueVars, acceptorVars, workerVars,
           Running
<1>3. CASE Interrupt
    BY <1>3, PlacesKept DEF Interrupt, queueVars, acceptorVars, workerVars, Running
<1>4. CASE \/ CheckSignal \/ Readable \/ SelectTimesOut \/ SelectFails
           \/ AcceptFails \/ AcquireSpace \/ PostItem \/ Exit
    <2>1. /\ UNCHANGED <<queue, hand, worker, conn>>
          /\ acceptor \in {"push", "append"} <=> acceptor' \in {"push", "append"}
          /\ Running
          /\ ~Running' \/ UNCHANGED client
        BY <1>4 DEF CheckSignal, Readable, SelectTimesOut, SelectFails, AcceptFails,
           AcquireSpace, PostItem, Exit, AcceptorAt, queueVars, workerVars, Running
    <2> QED
        BY <2>1, PlacesKept
<1>5. ASSUME NEW w \in Workers, AcquireItem(w) \/ ReleaseSpace(w) \/ Handshake(w) \/ SessionEnds(w)
      PROVE  PlacesInv'
    <2>1. /\ UNCHANGED <<queue, acceptor, hand, conn, client>> /\ Running
          /\ \E here, there \in WorkerPlaces :
                /\ WorkerAt(w, here, there)
                /\ here \in {"wait", "take"} <=> there \in {"wait", "take"}
        BY <1>5 DEF AcquireItem, ReleaseSpace, Handshake, HandshakeSucceeds,
           HandshakeFails, SessionEnds, WorkerAt, acceptorVars, queueVars, WorkerPlaces
    <2>2. \A v \in Workers : worker[v] \in {"wait", "take"} <=> worker'[v] \in {"wait", "take"}
        BY <2>1 DEF WorkerAt, Shape
    <2> QED
        BY <2>1, <2>2, PlacesKept DEF Running
<1> QED
    BY <1>1, <1>2, <1>3, <1>4, <1>5, PlacesAccept, PlacesAppend, PlacesTake,
       PlacesClose
       DEF Next, AcceptorNext, WorkerNext, QueueStep

LEMMA PlacesInvariant == Spec => [](PoolInv /\ PlacesInv)
<1>1. Init => PlacesInv
    <2> SUFFICES ASSUME Init PROVE PlacesInv
        OBVIOUS
    <2>1. Positions = {}
        BY EmptySeq DEF Init, Positions
    <2>2. \A c \in Clients : ~Held(c) /\ client[c] # "open"
        BY <2>1, WorkerPoolAssumption DEF Init, Held
    <2> QED
        BY <2>1, <2>2 DEF Init, PlacesInv, HoldersBusy, NeverTwice, OpenIsHeld
<1> QED
    BY <1>1, PoolInvariant, PlacesSteps, PTL DEF Spec

-----------------------------------------------------------------------------
(* The theorems on connections *)

\* However the accept loop and the workers interleave, and whichever workers
\* die, an accepted connection that is not closed is in exactly one place: in
\* the hand of the loop, at one position of ConnQueue, or with one worker.
THEOREM ConnectionsHeldOnce == Spec => []HeldOnce
<1>1. ASSUME PoolInv, PlacesInv PROVE HeldOnce
    <2> SUFFICES ASSUME Running, NEW c \in Clients
                 PROVE  Cardinality(PlacesOf(c)) = OneIf(client[c] = "open")
        BY DEF HeldOnce
    <2> USE <1>1 DEF PlacesInv
    <2>0. DOMAIN queue = Positions /\ c # "none"
        BY LenProperties, WorkerPoolAssumption DEF PoolInv, Shape, Positions
    <2>1. ASSUME NEW p, PlacesOf(c) = {p}, Held(c)
          PROVE  Cardinality(PlacesOf(c)) = OneIf(client[c] = "open")
        BY <2>1, FS_Singleton DEF OpenIsHeld, OneIf
    <2>2. CASE hand = c
        <3>1. PlacesOf(c) = {<<"hand">>}
            BY <2>0, <2>2 DEF PlacesOf, NeverTwice
        <3> QED
            BY <2>1, <2>2, <3>1 DEF Held
    <2>3. ASSUME NEW i \in Positions, queue[i] = c
          PROVE  Cardinality(PlacesOf(c)) = OneIf(client[c] = "open")
        <3>1. PlacesOf(c) = {<<"queue", i>>}
            BY <2>0, <2>3 DEF PlacesOf, NeverTwice
        <3> QED
            BY <2>1, <2>3, <3>1 DEF Held
    <2>4. ASSUME NEW w \in Workers, conn[w] = c
          PROVE  Cardinality(PlacesOf(c)) = OneIf(client[c] = "open")
        <3>1. PlacesOf(c) = {<<"worker", w>>}
            BY <2>0, <2>4 DEF PlacesOf, NeverTwice
        <3> QED
            BY <2>1, <2>4, <3>1 DEF Held
    <2>5. CASE ~Held(c)
        <3>1. PlacesOf(c) = {}
            BY <2>0, <2>5 DEF PlacesOf, Held
        <3> QED
            BY <2>5, <3>1, FS_EmptySet DEF OpenIsHeld, OneIf
    <2> QED
        BY <2>2, <2>3, <2>4, <2>5 DEF Held
<1> QED
    BY <1>1, PlacesInvariant, PTL

\* The append finds room in the queue: the space it holds is in the accounting.
LEMMA AppendFindsRoom ==
    ASSUME PoolInv, acceptor = "append"
    PROVE  Len(queue) < Backlog
<1>1. /\ Cardinality(WorkersAt("free")) \in Nat
      /\ Len(queue) \in Nat /\ spaces \in Nat /\ Backlog \in Nat
    BY WorkersFinite, WorkerPoolAssumption, LenProperties DEF PoolInv, Shape
<1> QED
    BY <1>1 DEF PoolInv, SpacesAccounted, OneIf

\* ConnQueue with the accept loop and connWorker is a bounded FIFO: the append
\* is the entry into it, the take the assignment, the close the end of the
\* session, and every other step is invisible.  So no accepted connection is
\* dropped, overtaken or served twice, for any backlog and any pool.
THEOREM PoolImplemented == Spec => ImplementsPool
<1> USE DEF Pool!poolVars
<1>1. Init => Pool!PoolInit
    BY DEF Init, Pool!PoolInit, Running
<1>2. ASSUME PoolInv, PlacesInv, [Next]_vars
      PROVE  [Pool!PoolNext]_Pool!poolVars
    <2>1. ASSUME UNCHANGED <<queue, conn, acceptor>>
          PROVE  UNCHANGED Pool!poolVars
        BY <2>1 DEF Running
    <2>2. CASE AppendConn
        <3>1. /\ acceptor = "append" /\ hand \in Clients
              /\ queue' = Append(queue, hand) /\ UNCHANGED conn
              /\ Running /\ Running'
            BY <1>2, <2>2 DEF AppendConn, AcceptorAt, workerVars, Running, PoolInv, Shape
        <3>2. DOMAIN queue = Positions
            BY <1>2, LenProperties DEF PoolInv, Shape, Positions
        <3>3. Pool!Enqueue(hand)
            BY <1>2, <3>1, <3>2, AppendFindsRoom, WorkerPoolAssumption
               DEF Pool!Enqueue, PlacesInv, NeverTwice
        <3> QED
            BY <3>1, <3>3 DEF Pool!PoolNext
    <2>3. ASSUME NEW w \in Workers, Take(w) PROVE Pool!PoolNext
        <3>1. /\ Running /\ worker[w] = "take" /\ queue # <<>>
              /\ conn' = [conn EXCEPT ![w] = Head(queue)]
              /\ queue' = Tail(queue)
              /\ UNCHANGED acceptor
            BY <1>2, <2>3, NoPhantom DEF Take, WorkerAt, acceptorVars, NoPhantomEntry
        <3>2. conn[w] = "none"
            BY <1>2, <3>1 DEF PlacesInv, HoldersBusy
        <3>3. Pool!Assign(w)
            BY <3>1, <3>2 DEF Pool!Assign, Running
        <3> QED
            BY <3>3 DEF Pool!PoolNext
    <2>4. ASSUME NEW w \in Workers, CloseConn(w) PROVE Pool!PoolNext
        <3>1. /\ Running /\ worker[w] = "close"
              /\ conn' = [conn EXCEPT ![w] = "none"]
              /\ UNCHANGED <<queue, acceptor>>
            BY <2>4 DEF CloseConn, WorkerAt, acceptorVars, queueVars
        <3>2. conn[w] # "none"
            BY <1>2, <3>1 DEF PlacesInv, HoldersBusy
        <3>3. Pool!SessionEnd(w)
            BY <3>1, <3>2 DEF Pool!SessionEnd, Running
        <3> QED
            BY <3>3 DEF Pool!PoolNext
    <2>5. CASE Exit
        <3>1. Pool!Shutdown
            BY <2>5 DEF Exit, AcceptorAt, queueVars, workerVars, Running, Pool!Shutdown
        <3> QED
            BY <3>1 DEF Pool!PoolNext
    <2>6. CASE \/ CheckSignal \/ Readable \/ SelectTimesOut \/ SelectFails
               \/ (\E c \in Clients : Accept(c)) \/ AcceptFails \/ AcquireSpace
               \/ PostItem
        BY <2>6 DEF CheckSignal, Readable, SelectTimesOut, SelectFails, Accept,
           AcceptFails, AcquireSpace, PostItem, AcceptorAt, queueVars, workerVars,
           Running
    <2>7. ASSUME NEW w \in Workers,
                 AcquireItem(w) \/ ReleaseSpace(w) \/ Handshake(w) \/ SessionEnds(w)
          PROVE  UNCHANGED <<queue, conn, acceptor>>
        BY <2>7 DEF AcquireItem, ReleaseSpace, Handshake, HandshakeSucceeds,
           HandshakeFails, SessionEnds, acceptorVars, queueVars
    <2>8. ASSUME (\E c \in Clients : Connect(c)) \/ Interrupt \/ UNCHANGED vars
          PROVE  UNCHANGED <<queue, conn, acceptor>>
        BY <2>8 DEF Connect, Interrupt, vars, queueVars, workerVars, acceptorVars
    <2> QED
        BY <1>2, <2>1, <2>2, <2>3, <2>4, <2>5, <2>6, <2>7, <2>8
           DEF Next, AcceptorNext, WorkerNext, QueueStep
<1> QED
    BY <1>1, <1>2, PlacesInvariant, PTL DEF Spec, ImplementsPool, Pool!PoolSpec
-----------------------------------------------------------------------------
(* Who waits for whom *)

\* accept is called after the socket was readable, and nobody else takes the
\* client that knocks.
SomeoneKnocks == acceptor = "accept" => Knocking # {}

LEMMA KnockSteps ==
    ASSUME PoolInv, PlacesInv, SomeoneKnocks, [Next]_vars
    PROVE  SomeoneKnocks'
<1> SUFFICES ASSUME acceptor' = "accept"
             PROVE  Knocking' # {}
    BY DEF SomeoneKnocks
<1>1. CASE Readable
    BY <1>1 DEF Readable, Knocking
<1>2. CASE ~Readable
    <2>1. acceptor = "accept" /\ Running
        BY <1>2 DEF Next, vars, acceptorVars, Connect, Interrupt, AcceptorNext, AcceptorAt,
           CheckSignal, Readable, SelectTimesOut, SelectFails, Accept, AcceptFails,
           AcquireSpace, AppendConn, PostItem, Exit, WorkerNext, QueueStep, AcquireItem,
           Take, ReleaseSpace, Handshake, HandshakeSucceeds, HandshakeFails, SessionEnds,
           CloseConn, Running
    <2>2. PICK c \in Clients : client[c] = "knocking"
        BY <2>1 DEF SomeoneKnocks, Knocking
    <2>3. client'[c] = "knocking"
        <3>1. CASE \E w \in Workers : CloseConn(w)
            <4>1. PICK w \in Workers : CloseConn(w)
                BY <3>1
            <4>2. conn[w] # c
                BY <2>1, <2>2 DEF PlacesInv, OpenIsHeld, Held
            <4> QED
                BY <2>2, <4>1, <4>2 DEF CloseConn, PoolInv, Shape
        <3>2. ASSUME NEW d \in Clients, Connect(d) PROVE client'[c] = "knocking"
            BY <2>2, <3>2 DEF Connect, PoolInv, Shape
        <3>3. CASE UNCHANGED client
            BY <2>2, <3>3
        <3> QED
            BY <2>1, <3>1, <3>2, <3>3
               DEF Next, vars, Interrupt, AcceptorNext, AcceptorAt, CheckSignal, Readable,
               SelectTimesOut, SelectFails, Accept, AcceptFails, AcquireSpace, AppendConn,
               PostItem, Exit, WorkerNext, QueueStep, AcquireItem, Take, ReleaseSpace,
               Handshake, HandshakeSucceeds, HandshakeFails, SessionEnds
    <2> QED
        BY <2>3 DEF Knocking
<1> QED
    BY <1>1, <1>2

\* A full queue has an item for every worker that waits, but for those that
\* another worker is about to take.
LEMMA FullHasItems ==
    ASSUME PoolInv, acceptor = "push", spaces = 0
    PROVE  items > 0 \/ \E w \in Workers : worker[w] \in {"take", "free"}
<1> SUFFICES ASSUME \A w \in Workers : worker[w] \notin {"take", "free"}
             PROVE  items > 0
    OBVIOUS
<1>1. WorkersAt("take") = {} /\ WorkersAt("free") = {}
    BY DEF WorkersAt
<1>2. Cardinality(WorkersAt("take")) = 0 /\ Cardinality(WorkersAt("free")) = 0
    BY <1>1, FS_EmptySet
<1>3. Len(queue) \in Nat /\ items \in Nat /\ Backlog \in Nat /\ Backlog > 0
    BY WorkerPoolAssumption, LenProperties DEF PoolInv, Shape
<1>4. OneIf(acceptor = "append") = 0 /\ OneIf(acceptor = "post") = 0
    BY DEF OneIf
<1>5. Len(queue) = Backlog /\ items = Len(queue)
    BY <1>2, <1>3, <1>4 DEF PoolInv, SpacesAccounted, ItemsAccounted
<1> QED
    BY <1>3, <1>5

\* The accept loop blocked in push and workers blocked in pop never wait for
\* each other, whatever step of push and pop each thread is at: a full queue
\* stops the server only while sessions last or after workers were lost.
THEOREM LoopAndWorkersGoOn == Spec => []LoopNeverWaitsForIdlers
<1>1. Init => SomeoneKnocks
    BY DEF Init, SomeoneKnocks
<1>2. PoolInv /\ PlacesInv /\ SomeoneKnocks /\ [Next]_vars => SomeoneKnocks'
    BY KnockSteps
<1>3. ASSUME PoolInv, SomeoneKnocks
      PROVE  LoopNeverWaitsForIdlers
    <2> SUFFICES ASSUME Running, ~LoopGoesOn,
                        \A w \in Workers : worker[w] \notin {"take", "free"},
                        NEW v \in Workers
                 PROVE  WorkerGoesOn(v) \/ worker[v] = "dead"
        BY DEF LoopNeverWaitsForIdlers
    <2>1. acceptor = "push" /\ spaces = 0
        BY <1>3 DEF LoopGoesOn, Running, SomeoneKnocks, PoolInv, Shape, AcceptorPlaces
    <2>2. items > 0
        BY <1>3, <2>1, FullHasItems
    <2> QED
        BY <1>3, <2>2 DEF WorkerGoesOn, PoolInv, Shape, WorkerPlaces
<1> QED
    BY <1>1, <1>2, <1>3, PlacesInvariant, PTL DEF Spec

\* No interleaving of push and pop loses the wake-up of a worker: beside a queued
\* connection there is a permit, or a thread that holds it and is not blocked.
THEOREM WakeUpsNeverLost == Spec => []NoLostWakeUp
<1>1. ASSUME PoolInv PROVE NoLostWakeUp
    <2> SUFFICES ASSUME NEW w \in Workers, worker[w] = "wait", queue # <<>>,
                        acceptor # "post", \A v \in Workers : worker[v] # "take"
                 PROVE  items > 0
        BY DEF NoLostWakeUp, WorkerGoesOn
    <2>1. WorkersAt("take") = {}
        BY DEF WorkersAt
    <2>2. Cardinality(WorkersAt("take")) = 0
        BY <2>1, FS_EmptySet
    <2>3. Len(queue) \in Nat \ {0}
        BY <1>1, LenProperties, EmptySeq DEF PoolInv, Shape
    <2>4. items = Len(queue)
        BY <1>1, <2>2, <2>3 DEF PoolInv, Shape, ItemsAccounted, OneIf
    <2> QED
        BY <2>3, <2>4
<1> QED
    BY <1>1, PoolInvariant, PTL

=============================================================================
