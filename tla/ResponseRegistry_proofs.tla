----------------------- MODULE ResponseRegistry_proofs -----------------------
(***************************************************************************)
(* Theorems about ResponseRegistry, for every set of instances and          *)
(* requests and every length of the watcher's backlog.                      *)
(***************************************************************************)
EXTENDS ResponseRegistry, SequenceTheorems, TLAPS

\* What the phase of a request says about the tables, the worker and the
\* connection.  A subject is out of the server until generate() has sent it to a
\* worker, and its sender is in one place.
Stage ==
    \A r \in Request :
        /\ phase[r] \in {"idle", "registered"} => worker[r] = "none" /\ subject_instance[r] = None
        /\ phase[r] = "registered" => r \in rx_subjects
        /\ phase[r] # "idle" => target[r] \in Instance
        /\ phase[r] \in {"sending", "waiting"} /\ r \in rx_subjects => subject_instance[r] = target[r]
        /\ r \in rx_subjects => provider[r] = "pending" /\ conn[r] = "none"
        /\ worker[r] = "none" => conn[r] = "none"

TablesInv == TypeOK /\ Stage /\ TablesAgree

-----------------------------------------------------------------------------
(***************************************************************************)
(* The tables.                                                              *)
(***************************************************************************)

LEMMA InitTables == Init => TablesInv
BY RegistryAssumption DEF Init, TablesInv, TypeOK, Stage, TablesAgree,
   Phase, Provider, Worker, Conn, Event

LEMMA ForgetTables ==
    ASSUME TypeOK, TablesAgree, NEW r \in Request, Forget(r)
    PROVE  /\ rx_subjects' \in SUBSET Request
           /\ subject_instance' \in [Request -> Instance \cup {None}]
           /\ instance_subjects' \in [Instance -> SUBSET Request]
           /\ r \notin rx_subjects' /\ rx_subjects' \subseteq rx_subjects
           /\ subject_instance'[r] = None
           /\ \A q \in Request \ {r} : /\ q \in rx_subjects' <=> q \in rx_subjects
                                       /\ subject_instance'[q] = subject_instance[q]
           /\ \A q \in Request, i \in Instance :
                 q \in instance_subjects'[i] <=> subject_instance'[q] = i
BY RegistryAssumption DEF TypeOK, TablesAgree, Forget

LEMMA WatchTables == ASSUME TablesInv, NEW i \in Instance, WatchRemoved(i) PROVE TablesInv'
<1>. USE DEF TablesInv
<1>1. events' \in [Instance -> Seq(Event)]
  <2>1. Tail(events[i]) \in Seq(Event)
    BY DEF TypeOK, WatchRemoved
  <2>. QED  BY <2>1 DEF TypeOK, WatchRemoved
<1>2. provider' \in [Request -> Provider]
  BY DEF WatchRemoved, CancelInstanceStreams, TypeOK, Provider
<1>3. TypeOK'
  BY <1>1, <1>2 DEF TypeOK, WatchRemoved, CancelInstanceStreams, requestVars, peerVars
<1>4. TablesAgree'
  BY RegistryAssumption DEF TypeOK, TablesAgree, WatchRemoved, CancelInstanceStreams, requestVars
<1>5. Stage'
  BY RegistryAssumption DEF TypeOK, TablesAgree, Stage, WatchRemoved, CancelInstanceStreams, requestVars, peerVars
<1>. QED  BY <1>3, <1>4, <1>5

LEMMA DiscoveryTables ==
    ASSUME TablesInv,
           \/ Discovery \/ Reconnect \/ \E i \in Instance : WatchAdded(i)
    PROVE  TablesInv'
<1>. USE DEF TablesInv
<1>1. events' \in [Instance -> Seq(Event)]
  <2>1. CASE \E i \in Instance : Leave(i) \/ Join(i)
    <3>1. PICK i \in Instance : Leave(i) \/ Join(i)
      BY <2>1
    <3>2. Append(events[i], "Removed") \in Seq(Event) /\ Append(events[i], "Added") \in Seq(Event)
      BY DEF TypeOK, Event
    <3>. QED  BY <3>1, <3>2 DEF Leave, Join, TypeOK
  <2>2. CASE \E i \in Instance : WatchAdded(i)
    <3>1. PICK i \in Instance : WatchAdded(i)
      BY <2>2
    <3>2. Tail(events[i]) \in Seq(Event)
      BY <3>1 DEF TypeOK, WatchAdded
    <3>. QED  BY <3>1, <3>2 DEF WatchAdded, TypeOK
  <2>3. CASE Reconnect
    <3>1. <<"Added">> \in Seq(Event) /\ <<>> \in Seq(Event)
      BY DEF Event
    <3>. QED  BY <2>3, <3>1 DEF Reconnect
  <2>4. CASE \E i \in Instance : TombstoneExpires(i)
    BY <2>4 DEF TombstoneExpires, discoveryVars, TypeOK
  <2>. QED  BY <2>1, <2>2, <2>3, <2>4 DEF Discovery
<1>2. UNCHANGED <<rx_subjects, subject_instance, instance_subjects, requestVars, provider, peerVars>>
  BY DEF Discovery, Leave, Join, TombstoneExpires, Reconnect, WatchAdded, serverVars
<1>3. {live, removed_instances, missed}' \subseteq SUBSET Instance
  BY DEF Discovery, Leave, Join, TombstoneExpires, Reconnect, WatchAdded, serverVars,
         discoveryVars, TypeOK
<1>4. TypeOK'
  BY <1>1, <1>2, <1>3 DEF TypeOK, requestVars, peerVars
<1>. QED  BY <1>2, <1>4 DEF Stage, TablesAgree, requestVars, peerVars

LEMMA GenerateTables ==
    ASSUME TablesInv, NEW r \in Request,
           Generate(r) \/ DropFuture(r) \/ \E i \in Instance : Register(r, i)
    PROVE  TablesInv'
<1>. USE DEF TablesInv
<1>1. CASE \E i \in Instance : Register(r, i)
  <2>1. TypeOK'
    BY <1>1 DEF TypeOK, Register, Goto, Phase, Provider, discoveryVars, peerVars
  <2>. QED  BY <1>1, <2>1, RegistryAssumption
            DEF Register, Goto, TypeOK, Stage, TablesAgree, discoveryVars, peerVars
<1>2. CASE AssociateTombstoned(r)
  <2>1. TypeOK'
    BY <1>2 DEF TypeOK, AssociateTombstoned, Goto, Phase, Provider, discoveryVars, peerVars
  <2>. QED  BY <1>2, <2>1, RegistryAssumption
            DEF AssociateTombstoned, Goto, TypeOK, Stage, TablesAgree, discoveryVars, peerVars
<1>3. CASE Associate(r)
  <2>0. target[r] \in Instance /\ target[r] # None
    BY <1>3, RegistryAssumption DEF Associate, Stage
  <2>1. TypeOK'
    BY <1>3, <2>0 DEF TypeOK, Associate, Goto, Phase, discoveryVars, peerVars
  <2>2. TablesAgree'
    <3>1. subject_instance[r] = None /\ r \in rx_subjects
      BY <1>3 DEF Associate, Stage
    <3>2. \A q \in Request, i \in Instance : q \in instance_subjects'[i] <=> subject_instance'[q] = i
      <4>. SUFFICES ASSUME NEW q \in Request, NEW i \in Instance
                    PROVE  q \in instance_subjects'[i] <=> subject_instance'[q] = i
        OBVIOUS
      <4>1. CASE q = r
        <5>1. subject_instance'[q] = target[r]
          BY <1>3, <4>1 DEF TypeOK, Associate
        <5>2. q \notin instance_subjects[i]
          BY <3>1, <4>1, RegistryAssumption DEF TablesAgree
        <5>3. instance_subjects'[i] = IF i = target[r] THEN instance_subjects[i] \cup {r} ELSE instance_subjects[i]
          BY <1>3, <2>0 DEF TypeOK, Associate
        <5>. QED  BY <4>1, <5>1, <5>2, <5>3
      <4>2. CASE q # r
        BY <1>3, <2>0, <4>2 DEF TypeOK, Associate, TablesAgree
      <4>. QED  BY <4>1, <4>2
    <3>3. \A q \in Request : subject_instance'[q] # None => q \in rx_subjects'
      BY <1>3, <3>1 DEF TypeOK, Associate, TablesAgree
    <3>4. \A q \in Request : phase'[q] \in {"idle", "failed", "streaming"} => q \notin rx_subjects'
      BY <1>3 DEF TypeOK, Associate, TablesAgree, Goto
    <3>. QED  BY <3>2, <3>3, <3>4 DEF TablesAgree
  <2>3. Stage'
    BY <1>3, <2>0 DEF TypeOK, Associate, Goto, Stage, peerVars
  <2>. QED  BY <2>1, <2>2, <2>3
<1>4. CASE SendOk(r) \/ SendFails(r) \/ WaitOk(r) \/ WaitFails(r) \/ DropFuture(r)
  <2>1. TypeOK'
    BY <1>4 DEF TypeOK, SendOk, SendFails, WaitOk, WaitFails, DropFuture, Goto, Phase,
                serverVars, discoveryVars, peerVars
  <2>2. TablesAgree'
    BY <1>4 DEF TypeOK, Stage, TablesAgree, SendOk, SendFails, WaitOk, WaitFails, DropFuture, Goto,
                serverVars
  <2>3. Stage'
    BY <1>4 DEF TypeOK, Stage, SendOk, SendFails, WaitOk, WaitFails, DropFuture, Goto,
                serverVars, peerVars
  <2>. QED  BY <2>1, <2>2, <2>3
<1>5. CASE CancelRecvStream(r)
  <2>. DEFINE F == /\ rx_subjects' \in SUBSET Request
                   /\ subject_instance' \in [Request -> Instance \cup {None}]
                   /\ instance_subjects' \in [Instance -> SUBSET Request]
                   /\ r \notin rx_subjects' /\ rx_subjects' \subseteq rx_subjects
                   /\ subject_instance'[r] = None
                   /\ \A q \in Request \ {r} : /\ q \in rx_subjects' <=> q \in rx_subjects
                                               /\ subject_instance'[q] = subject_instance[q]
                   /\ \A q \in Request, i \in Instance :
                         q \in instance_subjects'[i] <=> subject_instance'[q] = i
  <2>0. F
    BY <1>5, ForgetTables DEF CancelRecvStream
  <2>1. provider' \in [Request -> Provider] /\ \A q \in Request \ {r} : provider'[q] = provider[q]
    BY <1>5 DEF CancelRecvStream, TypeOK, Provider
  <2>2. phase' \in [Request -> Phase] /\ phase'[r] = "failed" /\ \A q \in Request \ {r} : phase'[q] = phase[q]
    BY <1>5 DEF CancelRecvStream, TypeOK, Goto, Phase
  <2>3. UNCHANGED <<discoveryVars, target, peerVars, removed_instances>>
    BY <1>5 DEF CancelRecvStream, Forget
  <2>4. TypeOK'
    BY <2>0, <2>1, <2>2, <2>3 DEF TypeOK, discoveryVars, peerVars
  <2>5. TablesAgree'
    BY <2>0, <2>2 DEF TablesAgree
  <2>6. phase[r] = "cancel"
    BY <1>5 DEF CancelRecvStream
  <2>7. Stage'
    BY <2>0, <2>1, <2>2, <2>3, <2>6 DEF Stage, peerVars
  <2>. QED  BY <2>4, <2>5, <2>7
<1>. QED  BY <1>1, <1>2, <1>3, <1>4, <1>5 DEF Generate

LEMMA PeerTables ==
    ASSUME TablesInv, NEW r \in Request, Deliver(r) \/ Handshake(r) \/ WorkerDies(r) \/ Connection(r)
    PROVE  TablesInv'
<1>. USE DEF TablesInv
<1>1. CASE Deliver(r) \/ WorkerDies(r)
  <2>1. TypeOK'
    BY <1>1 DEF Deliver, WorkerDies, TypeOK, Worker, serverVars, discoveryVars, requestVars
  <2>. QED  BY <1>1, <2>1 DEF Deliver, WorkerDies, TypeOK, Stage, TablesAgree, serverVars, requestVars
<1>2. CASE Connection(r)
  <2>1. TypeOK'
    BY <1>2 DEF Connection, PrologueOk, PrologueErr, ConnectionLost, TypeOK, Provider, Conn,
                serverVars, discoveryVars, requestVars
  <2>2. UNCHANGED <<serverVars, requestVars, worker>> /\ conn[r] # "none" /\ worker[r] # "none"
    BY <1>2 DEF Connection, PrologueOk, PrologueErr, ConnectionLost
  <2>3. r \notin rx_subjects
    BY <2>2 DEF Stage
  <2>4. \A q \in Request \ {r} : provider'[q] = provider[q] /\ conn'[q] = conn[q]
    BY <1>2 DEF Connection, PrologueOk, PrologueErr, ConnectionLost, TypeOK
  <2>. QED  BY <2>1, <2>2, <2>3, <2>4 DEF Stage, TablesAgree, serverVars, requestVars
<1>3. CASE Handshake(r) /\ r \notin rx_subjects
  <2>1. TypeOK'
    BY <1>3 DEF Handshake, TypeOK, Worker, Conn, serverVars, discoveryVars, requestVars
  <2>. QED  BY <1>3, <2>1 DEF Handshake, TypeOK, Stage, TablesAgree, serverVars, requestVars
<1>4. CASE Handshake(r) /\ r \in rx_subjects
  <2>. DEFINE F == /\ rx_subjects' \in SUBSET Request
                   /\ subject_instance' \in [Request -> Instance \cup {None}]
                   /\ instance_subjects' \in [Instance -> SUBSET Request]
                   /\ r \notin rx_subjects' /\ rx_subjects' \subseteq rx_subjects
                   /\ subject_instance'[r] = None
                   /\ \A q \in Request \ {r} : /\ q \in rx_subjects' <=> q \in rx_subjects
                                               /\ subject_instance'[q] = subject_instance[q]
                   /\ \A q \in Request, i \in Instance :
                         q \in instance_subjects'[i] <=> subject_instance'[q] = i
  <2>0. F /\ removed_instances' = removed_instances
    BY <1>4, ForgetTables DEF Handshake, Forget
  <2>1. /\ worker[r] = "has" /\ UNCHANGED <<discoveryVars, requestVars, provider>>
        /\ worker' = [worker EXCEPT ![r] = "called"] /\ conn' = [conn EXCEPT ![r] = "prologue"]
    BY <1>4 DEF Handshake
  <2>2. TypeOK'
    BY <2>0, <2>1 DEF TypeOK, Worker, Conn, discoveryVars, requestVars
  <2>3. TablesAgree'
    BY <2>0, <2>1 DEF TablesAgree, requestVars
  <2>4. Stage'
    BY <2>0, <2>1 DEF Stage, TypeOK, requestVars
  <2>. QED  BY <2>2, <2>3, <2>4
<1>. QED  BY <1>1, <1>2, <1>3, <1>4

LEMMA NextTables == TablesInv /\ [Next]_vars => TablesInv'
<1>. SUFFICES ASSUME TablesInv, [Next]_vars PROVE TablesInv'
  OBVIOUS
<1>1. CASE Next
  BY <1>1, WatchTables, DiscoveryTables, GenerateTables, PeerTables DEF Next, Watcher
<1>2. CASE UNCHANGED vars
  BY <1>2 DEF TablesInv, TypeOK, Stage, TablesAgree, vars, serverVars, discoveryVars,
              requestVars, peerVars
<1>. QED  BY <1>1, <1>2

LEMMA Tables_Inductive == Spec => []TablesInv
BY InitTables, NextTables, PTL DEF Spec

\* register, associate_instance, cancel_recv_stream, cancel_instance_streams and
\* the connection task keep the tables mirrored, and leave no entry of a request
\* that failed or that has its stream.
THEOREM Tables_Agree == Spec => []TablesAgree
<1>1. TablesInv => TablesAgree
  BY DEF TablesInv
<1>. QED  BY <1>1, Tables_Inductive, PTL

-----------------------------------------------------------------------------
(***************************************************************************)
(* Nobody is stranded.  An instance that is away has its removal at the end *)
(* of the backlog, or it has been processed and left a tombstone for those  *)
(* who have chosen the instance and have not associated yet.                *)
(***************************************************************************)

Before(r, i) == phase[r] = "registered" /\ target[r] = i
Waits(r, i)  == phase[r] \in {"sending", "waiting"} /\ r \in rx_subjects /\ target[r] = i

Removal(i) ==
    i \notin live \cup missed =>
        /\ events[i] # <<>> => events[i][Len(events[i])] = "Removed"
        /\ (\E r \in Request : Before(r, i)) => Pending(i) \/ i \in removed_instances
        /\ (\E r \in Request : Waits(r, i)) => Pending(i)

RemovalInv == \A i \in Instance : Removal(i)

LEMMA InitRemoval == Init => RemovalInv
BY DEF Init, RemovalInv, Removal, Before, Waits

\* A step that leaves discovery and the tombstones alone and makes nobody wait
\* or choose.
LEMMA KeepRemoval ==
    ASSUME RemovalInv, UNCHANGED <<live, events, missed, removed_instances>>,
           \A r \in Request, i \in Instance : /\ Before(r, i)' => Before(r, i)
                                              /\ Waits(r, i)' => Waits(r, i)
    PROVE  RemovalInv'
<1>1. \A i \in Instance : Pending(i)' <=> Pending(i)
  BY DEF Pending
<1>. QED  BY <1>1 DEF RemovalInv, Removal

\* The backlog of an instance that is away keeps its removal when an event that
\* is not the last is taken.
LEMMA TailRemoved ==
    ASSUME NEW s \in Seq(Event), s # <<>>, s[Len(s)] = "Removed"
    PROVE  /\ Tail(s) # <<>> => Tail(s)[Len(Tail(s))] = "Removed" /\ Len(Tail(s)) \in DOMAIN Tail(s)
           /\ Tail(s) = <<>> => Head(s) = "Removed"
<1>1. Len(s) \in Nat \ {0} /\ Len(Tail(s)) = Len(s) - 1 /\ Head(s) = s[1] /\ Tail(s) \in Seq(Event)
  OBVIOUS
<1>2. \A n \in 1..(Len(s) - 1) : Tail(s)[n] = s[n + 1]
  OBVIOUS
<1>3. ASSUME Tail(s) # <<>> PROVE Len(s) - 1 \in 1..(Len(s) - 1)
  BY <1>1, <1>3
<1>4. ASSUME Tail(s) = <<>> PROVE Len(s) = 1
  <2>. DEFINE n == Len(s)
  <2>1. Len(Tail(s)) = 0
    BY <1>4, EmptySeq
  <2>2. n \in Nat /\ n - 1 = 0
    BY <1>1, <2>1
  <2>3. n = 1
    <3>. HIDE DEF n
    <3>. QED  BY <2>2
  <2>. QED  BY <2>3
<1>. QED  BY <1>1, <1>2, <1>3, <1>4

LEMMA WatchRemoval ==
    ASSUME TablesInv, RemovalInv, NEW i \in Instance, WatchRemoved(i) \/ WatchAdded(i)
    PROVE  RemovalInv'
<1>. USE DEF TablesInv
<1>. SUFFICES ASSUME NEW j \in Instance, j \notin live, j \notin missed
              PROVE  Removal(j)'
  BY DEF RemovalInv, Removal, WatchRemoved, WatchAdded
<1>0. /\ UNCHANGED <<live, missed, requestVars>> /\ rx_subjects' \subseteq rx_subjects
      /\ events' = [events EXCEPT ![i] = Tail(events[i])] /\ events[i] # <<>> /\ events[i] \in Seq(Event)
  BY DEF WatchRemoved, WatchAdded, CancelInstanceStreams, TypeOK
<1>1. \A r \in Request : (Before(r, j)' => Before(r, j)) /\ (Waits(r, j)' => Waits(r, j))
  BY <1>0 DEF Before, Waits, requestVars
<1>2. Removal(j)
  BY DEF RemovalInv
<1>3. CASE j # i
  <2>1. events'[j] = events[j] /\ (j \in removed_instances' <=> j \in removed_instances)
    BY <1>3, <1>0 DEF WatchRemoved, WatchAdded, CancelInstanceStreams, TypeOK
  <2>2. Pending(j)' <=> Pending(j)
    BY <2>1 DEF Pending
  <2>. QED  BY <1>0, <1>1, <1>2, <2>1, <2>2 DEF Removal
<1>4. CASE j = i
  <2>1. events[i][Len(events[i])] = "Removed"
    BY <1>0, <1>2, <1>4 DEF Removal
  <2>2. events'[i] = Tail(events[i])
    BY <1>0 DEF TypeOK
  <2>3. CASE Tail(events[i]) # <<>>
    <3>1. /\ events'[i][Len(events'[i])] = "Removed"
          /\ Pending(i)'
      BY <1>0, <2>1, <2>2, <2>3, TailRemoved DEF Pending
    <3>. QED  BY <3>1, <1>4 DEF Removal
  <2>4. CASE Tail(events[i]) = <<>>
    <3>1. Head(events[i]) = "Removed"
      BY <1>0, <2>1, <2>4, TailRemoved
    <3>2. CancelInstanceStreams(i)
      BY <3>1 DEF WatchRemoved, WatchAdded
    <3>3. \A r \in Request : ~ Waits(r, i)'
      <4>. SUFFICES ASSUME NEW r \in Request, Waits(r, i)' PROVE FALSE
        OBVIOUS
      <4>1. Waits(r, i)
        BY <1>1, <1>4
      <4>2. r \in instance_subjects[i]
        BY <4>1 DEF Waits, Stage, TablesAgree
      <4>. QED  BY <4>2, <3>2 DEF CancelInstanceStreams, Waits
    <3>4. i \in removed_instances' /\ events'[i] = <<>>
      BY <3>2, <2>2, <2>4 DEF CancelInstanceStreams
    <3>. QED  BY <3>3, <3>4, <1>4 DEF Removal
  <2>. QED  BY <2>3, <2>4
<1>. QED  BY <1>3, <1>4

LEMMA DiscoveryRemoval == ASSUME TablesInv, RemovalInv, Discovery PROVE RemovalInv'
<1>. USE DEF TablesInv
<1>. SUFFICES ASSUME NEW j \in Instance, j \notin live', j \notin missed' PROVE Removal(j)'
  BY DEF RemovalInv, Removal
<1>0. UNCHANGED <<missed, rx_subjects, requestVars>>
  BY DEF Discovery, Leave, Join, TombstoneExpires, serverVars, discoveryVars
<1>1. \A r \in Request : (Before(r, j)' <=> Before(r, j)) /\ (Waits(r, j)' <=> Waits(r, j))
  BY <1>0 DEF Before, Waits, requestVars
<1>2. Removal(j)
  BY DEF RemovalInv
<1>3. CASE Leave(j)
  <2>1. events'[j] = Append(events[j], "Removed") /\ events[j] \in Seq(Event)
    BY <1>3 DEF Leave, TypeOK
  <2>2. events'[j][Len(events'[j])] = "Removed" /\ Len(events'[j]) \in DOMAIN events'[j]
    BY <2>1 DEF Event
  <2>. QED  BY <2>2 DEF Removal, Pending
<1>4. CASE TombstoneExpires(j)
  <2>1. events' = events /\ live' = live /\ (Pending(j)' <=> Pending(j))
    BY <1>4 DEF TombstoneExpires, discoveryVars, Pending
  <2>2. \A r \in Request : ~ Before(r, j)
    BY <1>4 DEF TombstoneExpires, Before
  <2>. QED  BY <1>0, <1>1, <1>2, <2>1, <2>2 DEF Removal
<1>5. CASE ~ Leave(j) /\ ~ TombstoneExpires(j)
  <2>1. PICK i \in Instance : (Leave(i) /\ i # j) \/ Join(i) \/ (TombstoneExpires(i) /\ i # j)
    BY <1>5 DEF Discovery
  <2>2. i # j
    BY <2>1 DEF Join
  <2>3. /\ events'[j] = events[j] /\ j \notin live
        /\ j \in removed_instances' <=> j \in removed_instances
    BY <2>1, <2>2 DEF Leave, Join, TombstoneExpires, serverVars, discoveryVars, TypeOK
  <2>4. Pending(j)' <=> Pending(j)
    BY <2>3 DEF Pending
  <2>. QED  BY <1>0, <1>1, <1>2, <2>3, <2>4 DEF Removal
<1>. QED  BY <1>3, <1>4, <1>5

LEMMA GenerateRemoval ==
    ASSUME TablesInv, RemovalInv, NEW r \in Request,
           Generate(r) \/ DropFuture(r) \/ \E i \in Instance : Register(r, i)
    PROVE  RemovalInv'
<1>. USE DEF TablesInv
<1>0. UNCHANGED <<live, events, missed, removed_instances>>
  BY DEF Generate, DropFuture, Register, AssociateTombstoned, Associate, SendOk, SendFails, WaitOk,
         WaitFails, CancelRecvStream, Forget, serverVars, discoveryVars
<1>1. \A i \in Instance : Pending(i)' <=> Pending(i)
  BY <1>0 DEF Pending
<1>2. CASE \E i \in Instance : Register(r, i)
  <2>1. PICK i \in Instance : Register(r, i)
    BY <1>2
  <2>2. ASSUME NEW q \in Request, NEW j \in Instance PROVE Waits(q, j)' => Waits(q, j)
    BY <2>1 DEF Waits, Register, Goto, TypeOK
  <2>3. ASSUME NEW q \in Request, NEW j \in Instance, Before(q, j)', ~ Before(q, j) PROVE j = i
    BY <2>1, <2>3 DEF Before, Register, Goto, TypeOK
  <2>4. i \in live \/ i \in removed_instances \/ Pending(i)
    BY <2>1 DEF Register
  <2>. QED  BY <1>0, <1>1, <2>2, <2>3, <2>4 DEF RemovalInv, Removal
<1>3. CASE Associate(r)
  <2>1. ASSUME NEW q \in Request, NEW j \in Instance PROVE Before(q, j)' => Before(q, j)
    BY <1>3 DEF Associate, Before, Goto, TypeOK
  <2>2. ASSUME NEW q \in Request, NEW j \in Instance, Waits(q, j)', ~ Waits(q, j)
        PROVE  Before(q, j) /\ j \notin removed_instances
    BY <1>3, <2>2 DEF Associate, Before, Waits, Goto, TypeOK
  <2>. QED  BY <1>0, <1>1, <2>1, <2>2 DEF RemovalInv, Removal
<1>4. CASE ~ Associate(r) /\ ~ \E i \in Instance : Register(r, i)
  <2>1. ASSUME NEW q \in Request, NEW j \in Instance
        PROVE  (Before(q, j)' => Before(q, j)) /\ (Waits(q, j)' => Waits(q, j))
    BY <1>4 DEF Generate, DropFuture, AssociateTombstoned, SendOk, SendFails, WaitOk,
         WaitFails, CancelRecvStream, Forget, serverVars, Before, Waits, Goto, TypeOK
  <2>. QED  BY <1>0, <2>1, KeepRemoval
<1>. QED  BY <1>2, <1>3, <1>4

LEMMA PeerRemoval ==
    ASSUME RemovalInv, NEW r \in Request, Deliver(r) \/ Handshake(r) \/ WorkerDies(r) \/ Connection(r)
    PROVE  RemovalInv'
<1>1. UNCHANGED <<live, events, missed, removed_instances, requestVars>> /\ rx_subjects' \subseteq rx_subjects
  BY DEF Deliver, Handshake, WorkerDies, Connection, PrologueOk, PrologueErr, ConnectionLost,
         Forget, serverVars, discoveryVars
<1>2. \A q \in Request, i \in Instance : (Before(q, i)' => Before(q, i)) /\ (Waits(q, i)' => Waits(q, i))
  BY <1>1 DEF Before, Waits, requestVars
<1>. QED  BY <1>1, <1>2, KeepRemoval

\* What a reconnection drops without a removal in it is of no use to anyone.
LEMMA ReconnectRemoval == ASSUME RemovalInv, Reconnect PROVE RemovalInv'
<1>. SUFFICES ASSUME NEW i \in Instance, i \notin live', i \notin missed' PROVE Removal(i)'
  BY DEF RemovalInv, Removal
<1>1. i \notin live /\ i \notin missed /\ ~Pending(i) /\ events'[i] = <<>>
  BY DEF Reconnect
<1>2. UNCHANGED <<removed_instances, phase, target, rx_subjects>>
  BY DEF Reconnect, serverVars, requestVars
<1>. QED  BY <1>1, <1>2 DEF RemovalInv, Removal, Before, Waits

LEMMA NextRemoval == TablesInv /\ RemovalInv /\ [Next]_vars => RemovalInv'
<1>. SUFFICES ASSUME TablesInv, RemovalInv, [Next]_vars PROVE RemovalInv'
  OBVIOUS
<1>1. CASE UNCHANGED vars
  BY <1>1, KeepRemoval DEF vars, serverVars, discoveryVars, requestVars, Before, Waits
<1>2. CASE Next
  BY <1>2, WatchRemoval, DiscoveryRemoval, GenerateRemoval, PeerRemoval, ReconnectRemoval
  DEF Next, Watcher
<1>. QED  BY <1>1, <1>2

\* Unless a reconnection of the watcher swallowed the removal, a request that
\* waits for an instance that has left is in the table that the pending removal
\* will cancel: the tombstones close the gap between choosing and associating.
THEOREM No_Stranded_Waiter == Spec => []NoStrandedWaiter
<1>1. Init => TablesInv /\ RemovalInv
  BY InitTables, InitRemoval
<1>2. (TablesInv /\ RemovalInv) /\ [Next]_vars => (TablesInv /\ RemovalInv)'
  BY NextTables, NextRemoval
<1>3. TablesInv /\ RemovalInv => NoStrandedWaiter
  <2>. SUFFICES ASSUME TablesInv, RemovalInv, NEW r \in Request, phase[r] \in {"sending", "waiting"},
                       r \in rx_subjects, target[r] \notin live, target[r] \notin missed
                PROVE  Pending(target[r]) /\ r \in instance_subjects[target[r]]
    BY DEF NoStrandedWaiter, Stranded
  <2>1. target[r] \in Instance /\ subject_instance[r] = target[r]
    BY DEF TablesInv, Stage
  <2>2. r \in instance_subjects[target[r]]
    BY <2>1 DEF TablesInv, TablesAgree
  <2>3. Pending(target[r])
    BY <2>1 DEF RemovalInv, Removal, Waits
  <2>. QED  BY <2>2, <2>3
<1>. QED  BY <1>1, <1>2, <1>3, PTL DEF Spec
=============================================================================
