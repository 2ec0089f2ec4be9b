------------------------- MODULE ConnectionsProofs -------------------------
(***************************************************************************)
(* Proofs about the connection phase, for any cluster and any failures.    *)
(***************************************************************************)
EXTENDS Connections, SequenceTheorems, FiniteSetTheorems, TLAPS

\* Diallers and servers of connections.
LEMMA DialledEnds ==
  ASSUME NEW d \in Dialled
  PROVE  /\ d[2] \in Servers
         /\ d[1] \in Clients => Home[d[1]] = d[2] /\ d = <<d[1], Home[d[1]]>>
         /\ d[1] \in Clients \cup Servers
         /\ d[1] \in Servers => d[1] \notin Clients /\ d[2] < d[1] /\ d = <<d[1], d[2]>>
BY HomeAssumption, ClientsAssumption DEF Dialled

\* A new connection joins the others of its server.
LEMMA AnnouncedTyped ==
  ASSUME ConnTypeOK, NEW s \in Servers, NEW m \in NewConnection
  PROVE  Announced(s, m) \in [Servers -> Seq(NewConnection)]
<1>1. connection_source[s] \in Seq(NewConnection)
  BY DEF ConnTypeOK
<1>2. Append(connection_source[s], m) \in Seq(NewConnection)
  BY <1>1, AppendProperties
<1> QED BY <1>1, <1>2 DEF Announced, ConnTypeOK
-----------------------------------------------------------------------------
(* Types. *)

LEMMA ConnTypeInit == ConnInit => ConnTypeOK
BY DEF ConnInit, ConnTypeOK

LEMMA TypeConnect ==
  ASSUME ConnTypeOK, NEW d \in Dialled, Connect(d)
  PROVE  ConnTypeOK'
BY DEF ConnTypeOK, Connect, idVars, slotVars

LEMMA TypeRegister ==
  ASSUME ConnTypeOK, NEW d \in Dialled, Register(d)
  PROVE  ConnTypeOK'
<1>1. connection_source' \in [Servers -> Seq(NewConnection)]
  <2>1. CASE d[1] \in Servers
    <3>1. ToPeer(d[2]) \in NewConnection
      BY DialledEnds DEF ToPeer, NewConnection
    <3>2. Announced(d[1], ToPeer(d[2])) \in [Servers -> Seq(NewConnection)]
      BY <2>1, <3>1, AnnouncedTyped
    <3> QED BY <2>1, <3>2 DEF Register, ConnTypeOK
  <2>2. CASE d[1] \notin Servers
    BY <2>2 DEF Register, ConnTypeOK
  <2> QED BY <2>1, <2>2
<1>2. dialler' \in [Dialled -> {"idle", "connected", "registered", "failed"}]
  BY DEF Register, ConnTypeOK
<1> QED BY <1>1, <1>2 DEF Register, ConnTypeOK, idVars

LEMMA TypeIdentify ==
  ASSUME ConnTypeOK, NEW d \in Dialled, Identify(d)
  PROVE  ConnTypeOK'
<1>1. NextId(d[2]) \in Nat
  BY DialledEnds DEF NextId, ConnTypeOK
<1>2. max_client_id' \in [Servers -> Nat] /\ client_id' \in [Clients -> Nat]
  BY <1>1 DEF Identify, ConnTypeOK, idVars
<1>3. spoiled' \subseteq sent' /\ sent' = sent
  BY DEF Identify, ConnTypeOK
<1> QED BY <1>2, <1>3 DEF Identify, ConnTypeOK, slotVars

LEMMA TypeAnnounce ==
  ASSUME ConnTypeOK, NEW d \in Dialled, Announce(d)
  PROVE  ConnTypeOK'
<1>1. (IF d[1] \in Clients THEN ToClient(client_id[d[1]]) ELSE ToPeer(d[1])) \in NewConnection
  BY DialledEnds DEF ToClient, ToPeer, NewConnection, ConnTypeOK
<1>2. connection_source' \in [Servers -> Seq(NewConnection)]
  BY <1>1, DialledEnds, AnnouncedTyped DEF Announce
<1> QED BY <1>2 DEF Announce, ConnTypeOK, idVars

LEMMA TypeTakeConnection ==
  ASSUME ConnTypeOK, NEW s \in Servers, TakeConnection(s)
  PROVE  ConnTypeOK'
<1>1. connection_source[s] \in Seq(NewConnection) /\ connection_source[s] # <<>>
  BY DEF ConnTypeOK, TakeConnection
<1>2. Head(connection_source[s]) \in NewConnection /\ Tail(connection_source[s]) \in Seq(NewConnection)
  BY <1>1, HeadTailProperties
<1>3. <<>> \in Seq(NewConnection)
  BY EmptySeq
<1>4. connection_source' \in [Servers -> Seq(NewConnection)]
  BY <1>2, <1>3 DEF ConnTypeOK, TakeConnection
<1>5. peer_connections' \in [Servers -> SUBSET Servers]
  BY <1>2 DEF ConnTypeOK, TakeConnection, NewConnection
<1>6. client_connections' \in [Servers -> SUBSET Nat]
  BY <1>2 DEF ConnTypeOK, TakeConnection, NewConnection
<1>7. acceptor' \in [Dialled -> {"none", "backlog", "accepted", "identified", "announced", "reset"}]
  BY DEF ConnTypeOK, TakeConnection
<1>8. /\ network' \in [Servers -> {"off", "starting", "ready", "crashed"}]
      /\ listener' \in [Servers -> {"none", "listening", "aborted"}]
  BY DEF ConnTypeOK, TakeConnection
<1> QED BY <1>4, <1>5, <1>6, <1>7, <1>8 DEF ConnTypeOK, TakeConnection, idVars

LEMMA TypeOtherSteps ==
  ASSUME ConnTypeOK,
         \/ \E d \in Dialled : Accept(d) \/ DropUnidentified(d) \/ Speak(d)
         \/ \E s \in Servers : StartServer(s) \/ Bind(s) \/ ServerStops(s)
         \/ \E c \in Clients : ClientStops(c)
         \/ UNCHANGED connVars
  PROVE  ConnTypeOK'
<1>1. ASSUME NEW d \in Dialled, Accept(d) PROVE ConnTypeOK'
  BY <1>1 DEF ConnTypeOK, Accept, idVars, slotVars
<1>2. ASSUME NEW d \in Dialled, DropUnidentified(d) PROVE ConnTypeOK'
  BY <1>2 DEF ConnTypeOK, DropUnidentified, idVars, slotVars
<1>3. ASSUME NEW d \in Dialled, Speak(d) PROVE ConnTypeOK'
  BY <1>3 DEF ConnTypeOK, Speak, idVars, slotVars
<1>4. ASSUME NEW s \in Servers, StartServer(s) \/ Bind(s) PROVE ConnTypeOK'
  <2>1. CASE StartServer(s)
    BY <2>1 DEF ConnTypeOK, StartServer, endVars, idVars, slotVars
  <2>2. CASE Bind(s)
    BY <2>2 DEF ConnTypeOK, Bind, endVars, idVars, slotVars
  <2> QED BY <1>4, <2>1, <2>2
<1>5. ASSUME NEW s \in Servers, ServerStops(s) PROVE ConnTypeOK'
  BY <1>5 DEF ConnTypeOK, ServerStops, idVars, slotVars
<1>6. ASSUME NEW c \in Clients, ClientStops(c) PROVE ConnTypeOK'
  BY <1>6 DEF ConnTypeOK, ClientStops, endVars, idVars, slotVars
<1>7. CASE UNCHANGED connVars
  BY <1>7 DEF ConnTypeOK, connVars, endVars, idVars, slotVars
<1> QED BY <1>1, <1>2, <1>3, <1>4, <1>5, <1>6, <1>7

LEMMA ConnTypeStep == ConnTypeOK /\ [ConnNext]_connVars => ConnTypeOK'
<1> SUFFICES ASSUME ConnTypeOK, [ConnNext]_connVars PROVE ConnTypeOK'
  OBVIOUS
<1>1. ASSUME NEW d \in Dialled, ConnectionSteps(d) \/ Speak(d) PROVE ConnTypeOK'
  BY <1>1, TypeConnect, TypeRegister, TypeIdentify, TypeAnnounce, TypeOtherSteps DEF ConnectionSteps
<1>2. ASSUME NEW s \in Servers, StartingSteps(s) \/ ServerStops(s) PROVE ConnTypeOK'
  BY <1>2, TypeTakeConnection, TypeOtherSteps DEF StartingSteps
<1> QED BY <1>1, <1>2, TypeOtherSteps DEF ConnNext

\* Every variable of the connection phase keeps its type, whatever fails.
THEOREM ConnTyped == ConnSpec => []ConnTypeOK
BY ConnTypeInit, ConnTypeStep, PTL DEF ConnSpec
-----------------------------------------------------------------------------
(* Client ids. *)

IdsInv ==
  /\ \A c \in Clients : client_id[c] <= max_client_id[Home[c]]
  /\ IdsAreUnique

LEMMA IdsStep == ConnTypeOK /\ IdsInv /\ [ConnNext]_connVars => IdsInv'
<1> SUFFICES ASSUME ConnTypeOK, IdsInv, [ConnNext]_connVars PROVE IdsInv'
  OBVIOUS
<1>1. ASSUME UNCHANGED idVars PROVE IdsInv'
  BY <1>1 DEF IdsInv, IdsAreUnique, idVars
<1>2. ASSUME NEW d \in Dialled, Identify(d) PROVE IdsInv'
  <2>1. CASE d[1] \notin Clients
    BY <1>1, <1>2, <2>1 DEF Identify
  <2>2. CASE d[1] \in Clients
    <3> DEFINE k == d[1]
               new == max_client_id[Home[k]] + 1
    <3>1. k \in Clients /\ d[2] = Home[k] /\ Home[k] \in Servers
      BY <2>2, DialledEnds
    <3>2. /\ client_id' = [client_id EXCEPT ![k] = new]
          /\ max_client_id' = [max_client_id EXCEPT ![Home[k]] = new]
      BY <1>2, <2>2, <3>1 DEF Identify, NextId
    <3>3. \A c \in Clients : Home[c] \in Servers /\ client_id[c] \in Nat
      BY HomeAssumption DEF ConnTypeOK
    <3>4. \A s \in Servers : max_client_id[s] \in Nat
      BY DEF ConnTypeOK
    <3>5. client_id'[k] = new /\ \A c \in Clients \ {k} : client_id'[c] = client_id[c]
      BY <3>1, <3>2 DEF ConnTypeOK
    <3>6. \A s \in Servers : max_client_id'[s] = IF s = Home[k] THEN new ELSE max_client_id[s]
      BY <3>1, <3>2 DEF ConnTypeOK
    <3>7. \A c \in Clients : client_id[c] <= max_client_id[Home[c]]
      BY DEF IdsInv
    <3>8. \A c \in Clients : client_id'[c] <= max_client_id'[Home[c]]
      BY <3>1, <3>3, <3>4, <3>5, <3>6, <3>7
    <3>9. \A c \in Clients \ {k} : Home[c] = Home[k] => client_id'[c] # new
      BY <3>1, <3>3, <3>4, <3>5, <3>7
    <3>10. IdsAreUnique'
      BY <3>1, <3>5, <3>9 DEF IdsInv, IdsAreUnique
    <3> QED BY <3>8, <3>10 DEF IdsInv
  <2> QED BY <2>1, <2>2
<1>3. ASSUME NEW d \in Dialled, ConnectionSteps(d) \/ Speak(d) PROVE IdsInv'
  BY <1>1, <1>2, <1>3 DEF ConnectionSteps, Connect, Register, Accept, DropUnidentified, Announce,
     Speak
<1>4. ASSUME NEW s \in Servers, StartingSteps(s) \/ ServerStops(s) PROVE IdsInv'
  BY <1>1, <1>4 DEF StartingSteps, StartServer, Bind, TakeConnection, ServerStops
<1>5. ASSUME NEW c \in Clients, ClientStops(c) PROVE IdsInv'
  BY <1>1, <1>5 DEF ClientStops
<1>6. CASE UNCHANGED connVars
  BY <1>1, <1>6 DEF connVars
<1> QED BY <1>3, <1>4, <1>5, <1>6 DEF ConnNext

\* Two clients of a server never have the same id.
THEOREM UniqueIds == ConnSpec => []IdsAreUnique
<1>1. ConnInit => IdsInv
  BY HomeAssumption DEF ConnInit, IdsInv, IdsAreUnique
<1>2. IdsInv => IdsAreUnique
  BY DEF IdsInv
<1> QED BY ConnTyped, <1>1, <1>2, IdsStep, PTL DEF ConnSpec
-----------------------------------------------------------------------------
(* Peers.  Whatever a server counts as connected has met it. *)

Met == {q \in Servers \X Servers :
          q[1] # q[2] /\ \A d \in Dialled : d \in {q, <<q[2], q[1]>>} => dialler[d] = "registered"}

AbortedWhenDone == \A s \in Servers : listener[s] = "aborted" => network[s] \in {"ready", "crashed"}
ReadyWithPeers == \A s \in Servers : network[s] = "ready" => peer_connections[s] = Peers(s)
SlotsMet == \A s \in Servers : \A p \in peer_connections[s] : <<s, p>> \in Met
SourceMet ==
  \A s \in Servers : \A i \in 1..Len(connection_source[s]) :
    connection_source[s][i].kind = "ToPeer" => <<s, connection_source[s][i].peer_id>> \in Met
IdentifiedRegistered == \A d \in Dialled : acceptor[d] = "identified" => dialler[d] = "registered"

PeersInv == AbortedWhenDone /\ ReadyWithPeers /\ SlotsMet /\ SourceMet /\ IdentifiedRegistered

\* A registered connection stays registered.
LEMMA MetForGood ==
  ASSUME ConnTypeOK, [ConnNext]_connVars
  PROVE  Met \subseteq Met'
<1>1. \A d \in Dialled : dialler[d] = "registered" => dialler'[d] = "registered"
  <2>1. ASSUME NEW e \in Dialled, ConnectionSteps(e) \/ Speak(e)
        PROVE  \A d \in Dialled : dialler[d] = "registered" => dialler'[d] = "registered"
    BY <2>1 DEF ConnTypeOK, ConnectionSteps, Connect, Register, Accept, Identify,
       DropUnidentified, Announce, Speak
  <2>2. ASSUME NEW s \in Servers, StartingSteps(s) \/ ServerStops(s) PROVE dialler' = dialler
    BY <2>2 DEF StartingSteps, StartServer, Bind, TakeConnection, ServerStops, endVars
  <2>3. ASSUME NEW c \in Clients, ClientStops(c) PROVE dialler' = dialler
    BY <2>3 DEF ClientStops, endVars
  <2>4. CASE UNCHANGED connVars
    BY <2>4 DEF connVars, endVars
  <2> QED BY <2>1, <2>2, <2>3, <2>4 DEF ConnNext
<1> QED BY <1>1 DEF Met

\* A connection announced joins the others, which have met their peers.
LEMMA AnnounceMet ==
  ASSUME ConnTypeOK, [ConnNext]_connVars, SourceMet, NEW s \in Servers, NEW m \in NewConnection,
         m.kind = "ToPeer" => <<s, m.peer_id>> \in Met',
         connection_source' = Announced(s, m)
  PROVE  SourceMet'
<1> SUFFICES ASSUME NEW r \in Servers, NEW i \in 1..Len(connection_source'[r]),
                    connection_source'[r][i].kind = "ToPeer"
             PROVE  <<r, connection_source'[r][i].peer_id>> \in Met'
  BY DEF SourceMet
<1>1. connection_source[r] \in Seq(NewConnection)
  BY DEF ConnTypeOK
<1>2. CASE connection_source'[r] = connection_source[r]
  <2>1. <<r, connection_source[r][i].peer_id>> \in Met
    BY <1>2 DEF SourceMet
  <2> QED BY <1>2, <2>1, MetForGood
<1>3. CASE r = s /\ connection_source'[r] = Append(connection_source[r], m)
  <2>1. CASE i \in 1..Len(connection_source[r])
    <3>1. connection_source'[r][i] = connection_source[r][i]
      BY <1>1, <1>3, <2>1
    <3>2. <<r, connection_source[r][i].peer_id>> \in Met
      BY <2>1, <3>1 DEF SourceMet
    <3> QED BY <3>1, <3>2, MetForGood
  <2>2. CASE i = Len(connection_source[r]) + 1
    <3>1. connection_source'[r][i] = m
      BY <1>1, <1>3, <2>2
    <3> QED BY <1>3, <3>1
  <2> QED BY <1>1, <1>3, <2>1, <2>2
<1>4. connection_source'[r] \in {connection_source[r], Append(connection_source[r], m)} /\
      (r # s => connection_source'[r] = connection_source[r])
  BY DEF Announced, ConnTypeOK
<1> QED BY <1>2, <1>3, <1>4

LEMMA PeersConnectionStep ==
  ASSUME ConnTypeOK, PeersInv, [ConnNext]_connVars,
         NEW d \in Dialled, ConnectionSteps(d) \/ Speak(d)
  PROVE  PeersInv'
<1>1. network' = network /\ listener' = listener /\ peer_connections' = peer_connections
  BY DEF ConnectionSteps, Connect, Register, Accept, Identify, DropUnidentified, Announce, Speak,
     slotVars
<1>2. AbortedWhenDone' /\ ReadyWithPeers'
  BY <1>1 DEF PeersInv, AbortedWhenDone, ReadyWithPeers
<1>3. SlotsMet'
  BY <1>1, MetForGood DEF PeersInv, SlotsMet
<1>4. IdentifiedRegistered'
  BY DEF PeersInv, IdentifiedRegistered, ConnTypeOK, ConnectionSteps, Connect, Register, Accept,
     Identify, DropUnidentified, Announce, Speak
<1>5. ASSUME connection_source' = connection_source PROVE SourceMet'
  BY <1>5, MetForGood DEF PeersInv, SourceMet
<1>6. ASSUME d[1] \in Servers, dialler' = [dialler EXCEPT ![d] = "registered"],
             connection_source' = Announced(d[1], ToPeer(d[2]))
      PROVE  SourceMet'
  <2>1. d[2] \in Servers /\ d = <<d[1], d[2]>> /\ d[2] < d[1]
    BY <1>6, DialledEnds
  <2>2. ToPeer(d[2]) \in NewConnection /\ ToPeer(d[2]).peer_id = d[2]
    BY <2>1 DEF ToPeer, NewConnection
  <2>3. dialler'[d] = "registered"
    BY <1>6 DEF ConnTypeOK
  <2>4. <<d[2], d[1]>> \notin Dialled
    BY <1>6, <2>1, ServersAssumption, ClientsAssumption DEF Dialled
  <2>5. <<d[1], d[2]>> \in Met'
    BY <1>6, <2>1, <2>3, <2>4, ServersAssumption DEF Met
  <2>6. SourceMet /\ connection_source' = Announced(d[1], ToPeer(d[2]))
    BY <1>6 DEF PeersInv
  <2> QED BY <1>6, <2>2, <2>5, <2>6, AnnounceMet
<1>7. ASSUME Announce(d) PROVE SourceMet'
  <2> DEFINE m == IF d[1] \in Clients THEN ToClient(client_id[d[1]]) ELSE ToPeer(d[1])
  <2>1. m \in NewConnection /\ d[2] \in Servers /\ connection_source' = Announced(d[2], m)
    BY <1>7, DialledEnds DEF Announce, ToClient, ToPeer, NewConnection, ConnTypeOK
  <2>2. m.kind = "ToPeer" => <<d[2], m.peer_id>> \in Met'
    <3>1. SUFFICES ASSUME d[1] \notin Clients PROVE <<d[2], d[1]>> \in Met'
      BY DEF ToClient, ToPeer
    <3>2. d[1] \in Servers /\ d = <<d[1], d[2]>> /\ d[2] < d[1] /\ d[2] \in Servers
      BY <3>1, DialledEnds
    <3>3. <<d[2], d[1]>> \notin Dialled
      BY <3>2, ServersAssumption, ClientsAssumption DEF Dialled
    <3>4. dialler'[d] = "registered"
      BY <1>7 DEF Announce, PeersInv, IdentifiedRegistered
    <3> QED BY <3>2, <3>3, <3>4, ServersAssumption DEF Met
  <2>3. SourceMet
    BY DEF PeersInv
  <2> HIDE DEF m
  <2> QED BY <2>1, <2>2, <2>3, AnnounceMet
<1>8. \/ connection_source' = connection_source
      \/ Announce(d)
      \/ /\ d[1] \in Servers
         /\ dialler' = [dialler EXCEPT ![d] = "registered"]
         /\ connection_source' = Announced(d[1], ToPeer(d[2]))
  <2>1. CASE Register(d)
    BY <2>1 DEF Register
  <2>2. CASE Connect(d) \/ Accept(d) \/ Identify(d) \/ DropUnidentified(d) \/ Speak(d)
    BY <2>2 DEF Connect, Accept, Identify, DropUnidentified, Speak, slotVars
  <2> QED BY <2>1, <2>2 DEF ConnectionSteps
<1> QED BY <1>2, <1>3, <1>4, <1>5, <1>6, <1>7, <1>8 DEF PeersInv

LEMMA PeersTakeStep ==
  ASSUME ConnTypeOK, PeersInv, [ConnNext]_connVars, NEW s \in Servers, TakeConnection(s)
  PROVE  PeersInv'
<1> DEFINE source == connection_source[s]
           new     == Head(source)
           peers   == peer_connections[s] \cup (IF new.kind = "ToPeer" THEN {new.peer_id} ELSE {})
           clients == client_connections[s] \cup (IF new.kind = "ToClient" THEN {new.client_id} ELSE {})
           done    == AllConnected(s, peers, clients)
<1>1. source \in Seq(NewConnection) /\ source # <<>>
  BY DEF ConnTypeOK, TakeConnection
<1>2. new = source[1] /\ 1 \in 1..Len(source)
  BY <1>1
<1>3. \A r \in Servers : peer_connections'[r] = IF r = s THEN peers ELSE peer_connections[r]
  BY DEF TakeConnection, ConnTypeOK
<1>4. \A r \in Servers : network'[r] = IF r = s /\ done THEN "ready" ELSE network[r]
  BY DEF TakeConnection, ConnTypeOK
<1>5. \A r \in Servers : listener'[r] = IF r = s /\ done THEN "aborted" ELSE listener[r]
  BY DEF TakeConnection, ConnTypeOK
<1>6. \A r \in Servers :
        connection_source'[r] = IF r = s THEN (IF done THEN <<>> ELSE Tail(source))
                                ELSE connection_source[r]
  BY DEF TakeConnection, ConnTypeOK
<1>7. network[s] = "starting" /\ dialler' = dialler
  BY DEF TakeConnection
<1>8. done => peers = Peers(s)
  BY DEF AllConnected
<1>9. new.kind = "ToPeer" => <<s, new.peer_id>> \in Met
  BY <1>2 DEF PeersInv, SourceMet
<1>10. \A d \in Dialled : acceptor'[d] = "identified" => acceptor[d] = "identified"
  BY DEF TakeConnection, ConnTypeOK
<1> HIDE DEF done
<1>11. AbortedWhenDone'
  BY <1>4, <1>5 DEF PeersInv, AbortedWhenDone
<1>12. ReadyWithPeers'
  BY <1>3, <1>4, <1>7, <1>8 DEF PeersInv, ReadyWithPeers
<1>13. SlotsMet'
  <2>1. \A p \in peers : <<s, p>> \in Met
    BY <1>9 DEF PeersInv, SlotsMet
  <2> QED BY <1>3, <2>1, MetForGood DEF PeersInv, SlotsMet
<1>14. SourceMet'
  <2> SUFFICES ASSUME NEW r \in Servers, NEW i \in 1..Len(connection_source'[r]),
                      connection_source'[r][i].kind = "ToPeer"
               PROVE  <<r, connection_source'[r][i].peer_id>> \in Met'
    BY DEF SourceMet
  <2>1. PICK j \in 1..Len(connection_source[r]) : connection_source'[r][i] = connection_source[r][j]
    <3>1. CASE r # s
      BY <1>6, <3>1
    <3>2. CASE r = s /\ ~ done
      <4>1. connection_source'[r] = Tail(source)
        BY <1>6, <3>2
      <4>2. i + 1 \in 1..Len(source) /\ Tail(source)[i] = source[i + 1]
        BY <1>1, <4>1
      <4> QED BY <3>2, <4>1, <4>2
    <3>3. CASE r = s /\ done
      <4>1. Len(connection_source'[r]) = 0
        BY <1>6, <3>3
      <4> QED BY <4>1
    <3> QED BY <3>1, <3>2, <3>3
  <2>2. <<r, connection_source[r][j].peer_id>> \in Met
    BY <2>1 DEF PeersInv, SourceMet
  <2> QED BY <2>1, <2>2, MetForGood
<1>15. IdentifiedRegistered'
  BY <1>7, <1>10 DEF PeersInv, IdentifiedRegistered
<1> QED BY <1>11, <1>12, <1>13, <1>14, <1>15 DEF PeersInv

LEMMA PeersOtherStep ==
  ASSUME ConnTypeOK, PeersInv, [ConnNext]_connVars,
         \/ \E s \in Servers : StartServer(s) \/ Bind(s) \/ ServerStops(s)
         \/ \E c \in Clients : ClientStops(c)
         \/ UNCHANGED connVars
  PROVE  PeersInv'
<1>1. /\ connection_source' = connection_source
      /\ peer_connections' = peer_connections
      /\ dialler' = dialler
  BY DEF StartServer, Bind, ServerStops, ClientStops, connVars, endVars, slotVars
<1>2. SlotsMet' /\ SourceMet'
  BY <1>1, MetForGood DEF PeersInv, SlotsMet, SourceMet
<1>3. \A d \in Dialled : acceptor'[d] = "identified" => acceptor[d] = "identified"
  BY DEF StartServer, Bind, ServerStops, ClientStops, connVars, endVars
<1>4. IdentifiedRegistered'
  BY <1>1, <1>3 DEF PeersInv, IdentifiedRegistered
<1>5. ASSUME NEW s \in Servers, StartServer(s) PROVE AbortedWhenDone' /\ ReadyWithPeers'
  BY <1>1, <1>5 DEF PeersInv, AbortedWhenDone, ReadyWithPeers, StartServer, ConnTypeOK
<1>6. ASSUME NEW s \in Servers, Bind(s) PROVE AbortedWhenDone' /\ ReadyWithPeers'
  BY <1>1, <1>6 DEF PeersInv, AbortedWhenDone, ReadyWithPeers, Bind, ConnTypeOK
<1>7. ASSUME NEW s \in Servers, ServerStops(s) PROVE AbortedWhenDone' /\ ReadyWithPeers'
  BY <1>1, <1>7 DEF PeersInv, AbortedWhenDone, ReadyWithPeers, ServerStops, ConnTypeOK
<1>8. ASSUME network' = network, listener' = listener PROVE AbortedWhenDone' /\ ReadyWithPeers'
  BY <1>1, <1>8 DEF PeersInv, AbortedWhenDone, ReadyWithPeers
<1>9. AbortedWhenDone' /\ ReadyWithPeers'
  BY <1>5, <1>6, <1>7, <1>8 DEF ClientStops, connVars
<1> QED BY <1>2, <1>4, <1>9 DEF PeersInv

LEMMA PeersStep == ConnTypeOK /\ PeersInv /\ [ConnNext]_connVars => PeersInv'
<1> SUFFICES ASSUME ConnTypeOK, PeersInv, [ConnNext]_connVars PROVE PeersInv'
  OBVIOUS
<1>1. ASSUME NEW d \in Dialled, ConnectionSteps(d) \/ Speak(d) PROVE PeersInv'
  BY <1>1, PeersConnectionStep
<1>2. ASSUME NEW s \in Servers, StartingSteps(s) \/ ServerStops(s) PROVE PeersInv'
  BY <1>2, PeersTakeStep, PeersOtherStep DEF StartingSteps
<1> QED BY <1>1, <1>2, PeersOtherStep DEF ConnNext

LEMMA PeersInit == ConnInit => PeersInv
<1> SUFFICES ASSUME ConnInit PROVE PeersInv
  OBVIOUS
<1>1. \A s \in Servers : Len(connection_source[s]) = 0
  BY DEF ConnInit
<1>2. SourceMet
  BY <1>1 DEF SourceMet
<1> QED BY <1>2 DEF ConnInit, PeersInv, AbortedWhenDone, ReadyWithPeers, SlotsMet,
        IdentifiedRegistered

LEMMA PeersInvImplies == ConnTypeOK /\ PeersInv => PeersFindListener
<1> SUFFICES ASSUME ConnTypeOK, PeersInv, NEW d \in Dialled, d[1] \in Servers,
                    dialler[d] = "idle", listener[d[2]] = "aborted", network[d[2]] # "crashed"
             PROVE  FALSE
  BY DEF PeersFindListener
<1>1. d[2] \in Servers /\ d = <<d[1], d[2]>> /\ d[2] < d[1]
  BY DialledEnds
<1>2. peer_connections[d[2]] = Peers(d[2])
  BY <1>1 DEF PeersInv, AbortedWhenDone, ReadyWithPeers
<1>3. d[1] # d[2]
  BY <1>1, ServersAssumption
<1>4. <<d[2], d[1]>> \in Met
  BY <1>1, <1>2, <1>3 DEF PeersInv, SlotsMet, Peers
<1> QED BY <1>1, <1>4 DEF Met

\* No listener is aborted while a peer still needs it, in a cluster of any size
\* and whoever has failed.
THEOREM ListenersStay == ConnSpec => []PeersFindListener
BY ConnTyped, PeersInit, PeersStep, PeersInvImplies, PTL DEF ConnSpec
-----------------------------------------------------------------------------
(* Counting.  The ids given are 1 to the counter, and whatever a server    *)
(* counts as a connected client is one of them.                            *)

HomeLink(c) == <<c, Home[c]>>

IdGivenOnce ==
  \A c \in Clients :
    /\ dialler[HomeLink(c)] = "idle" => acceptor[HomeLink(c)] = "none"
    /\ acceptor[HomeLink(c)] \in {"none", "backlog", "accepted"} => client_id[c] = 0
    /\ acceptor[HomeLink(c)] = "identified" => client_id[c] # 0
IdsDense ==
  \A s \in Servers : \A i \in 1..max_client_id[s] : \E c \in ClientsOf(s) : client_id[c] = i
SlotsGiven == \A s \in Servers : client_connections[s] \subseteq 1..max_client_id[s]
SourceGiven ==
  \A s \in Servers : \A i \in 1..Len(connection_source[s]) :
    connection_source[s][i].kind = "ToClient" =>
      connection_source[s][i].client_id \in 1..max_client_id[s]
ReadyWithClients ==
  \A s \in Servers : network[s] = "ready" => Cardinality(client_connections[s]) >= NumClients[s]
SilentWithoutId == \A c \in Clients : HomeLink(c) \in sent => client_id[c] # 0

CountInv ==
  /\ IdsInv /\ IdGivenOnce /\ IdsDense /\ SlotsGiven /\ SourceGiven /\ ReadyWithClients
  /\ SilentWithoutId /\ ClientsLoseNothing

LEMMA HomeEnds ==
  ASSUME NEW c \in Clients
  PROVE  /\ HomeLink(c) \in Dialled /\ HomeLink(c)[1] = c /\ HomeLink(c)[2] = Home[c] /\ Home[c] \in Servers
         /\ \A d \in Dialled : d[1] = c => d = HomeLink(c)
BY DialledEnds, HomeAssumption DEF Dialled, HomeLink

LEMMA CountInit == ConnInit => CountInv
<1> SUFFICES ASSUME ConnInit PROVE CountInv
  OBVIOUS
<1>1. \A s \in Servers : Len(connection_source[s]) = 0 /\ max_client_id[s] = 0
  BY DEF ConnInit
<1>2. SourceGiven /\ IdsDense
  BY <1>1 DEF SourceGiven, IdsDense
<1>3. IdGivenOnce
  BY HomeEnds DEF ConnInit, IdGivenOnce
<1>4. IdsInv
  BY HomeAssumption DEF ConnInit, IdsInv, IdsAreUnique
<1> QED BY <1>2, <1>3, <1>4 DEF ConnInit, CountInv, SlotsGiven, ReadyWithClients, SilentWithoutId,
        ClientsLoseNothing

\* With no new id, the ids stay dense.
LEMMA CountSameIds ==
  ASSUME CountInv, UNCHANGED idVars
  PROVE  /\ IdsDense'
         /\ client_connections' = client_connections => SlotsGiven'
         /\ connection_source' = connection_source => SourceGiven'
         /\ sent' = sent => SilentWithoutId'
         /\ spoiled' = spoiled => ClientsLoseNothing'
BY DEF CountInv, IdsDense, ClientsOf, SlotsGiven, SourceGiven, SilentWithoutId, ClientsLoseNothing,
   idVars

\* A connection announced joins the others.
LEMMA AnnounceGiven ==
  ASSUME ConnTypeOK, SourceGiven, UNCHANGED idVars, NEW s \in Servers, NEW m \in NewConnection,
         m.kind = "ToClient" => m.client_id \in 1..max_client_id[s],
         connection_source' = Announced(s, m)
  PROVE  SourceGiven'
<1> SUFFICES ASSUME NEW r \in Servers, NEW i \in 1..Len(connection_source'[r]),
                    connection_source'[r][i].kind = "ToClient"
             PROVE  connection_source'[r][i].client_id \in 1..max_client_id[r]
  BY DEF SourceGiven, idVars
<1>1. connection_source[r] \in Seq(NewConnection)
  BY DEF ConnTypeOK
<1>2. CASE connection_source'[r] = connection_source[r]
  BY <1>2 DEF SourceGiven
<1>3. CASE r = s /\ connection_source'[r] = Append(connection_source[r], m)
  <2>1. CASE i \in 1..Len(connection_source[r])
    <3>1. connection_source'[r][i] = connection_source[r][i]
      BY <1>1, <1>3, <2>1
    <3> QED BY <2>1, <3>1 DEF SourceGiven
  <2>2. CASE i = Len(connection_source[r]) + 1
    <3>1. connection_source'[r][i] = m
      BY <1>1, <1>3, <2>2
    <3> QED BY <1>3, <3>1
  <2> QED BY <1>1, <1>3, <2>1, <2>2
<1>4. connection_source'[r] \in {connection_source[r], Append(connection_source[r], m)} /\
      (r # s => connection_source'[r] = connection_source[r])
  BY DEF Announced, ConnTypeOK
<1> QED BY <1>2, <1>3, <1>4

\* Giving an id adds the next one.
LEMMA CountIdentify ==
  ASSUME ConnTypeOK, CountInv, IdsInv', NEW d \in Dialled, Identify(d)
  PROVE  CountInv'
<1>1. /\ acceptor' = [acceptor EXCEPT ![d] = "identified"]
      /\ acceptor[d] = "accepted" /\ dialler[d] = "registered"
      /\ spoiled' \in {spoiled, spoiled \cup ({d} \cap sent)}
      /\ UNCHANGED <<network, dialler, sent, connection_source, client_connections>>
  BY DEF Identify, slotVars
<1>2. ReadyWithClients'
  BY <1>1 DEF CountInv, ReadyWithClients
<1>3. CASE d[1] \notin Clients
  <2>1. UNCHANGED idVars
    BY <1>3 DEF Identify
  <2>2. \A c \in Clients : HomeLink(c) # d
    BY <1>3, HomeEnds
  <2>3. IdGivenOnce'
    BY <1>1, <2>1, <2>2, HomeEnds DEF CountInv, IdGivenOnce, ConnTypeOK, idVars
  <2>4. ClientsLoseNothing'
    BY <1>1, <2>2 DEF CountInv, ClientsLoseNothing, HomeLink
  <2> QED BY <1>1, <1>2, <2>1, <2>3, <2>4, CountSameIds DEF CountInv
<1>4. CASE d[1] \in Clients
  <2> DEFINE k == d[1]
             new == max_client_id[Home[k]] + 1
  <2>1. k \in Clients /\ d = HomeLink(k) /\ d[2] = Home[k] /\ Home[k] \in Servers
    BY <1>4, HomeEnds, DialledEnds
  <2>2. /\ client_id' = [client_id EXCEPT ![k] = new]
        /\ max_client_id' = [max_client_id EXCEPT ![Home[k]] = new]
    BY <1>4, <2>1 DEF Identify, NextId
  <2>3. client_id'[k] = new /\ \A c \in Clients \ {k} : client_id'[c] = client_id[c]
    BY <2>1, <2>2 DEF ConnTypeOK
  <2>4. \A s \in Servers : max_client_id'[s] = IF s = Home[k] THEN new ELSE max_client_id[s]
    BY <2>1, <2>2 DEF ConnTypeOK
  <2>5. client_id[k] = 0
    BY <1>1, <2>1 DEF CountInv, IdGivenOnce
  <2>6. \A s \in Servers : max_client_id[s] \in Nat
    BY DEF ConnTypeOK
  <2>7. new # 0
    BY <2>1, <2>6
  <2>8. IdGivenOnce'
    <3> SUFFICES ASSUME NEW c \in Clients
                 PROVE  /\ dialler[HomeLink(c)] = "idle" => acceptor'[HomeLink(c)] = "none"
                        /\ acceptor'[HomeLink(c)] \in {"none", "backlog", "accepted"} => client_id'[c] = 0
                        /\ acceptor'[HomeLink(c)] = "identified" => client_id'[c] # 0
      BY <1>1, HomeAssumption DEF IdGivenOnce, HomeLink
    <3>1. CASE c = k
      BY <1>1, <2>1, <2>3, <2>7, <3>1 DEF ConnTypeOK
    <3>2. CASE c # k
      <4>1. HomeLink(c) # d /\ HomeLink(c) \in Dialled
        BY <3>2, HomeEnds
      <4>2. acceptor'[HomeLink(c)] = acceptor[HomeLink(c)]
        BY <1>1, <4>1 DEF ConnTypeOK
      <4> QED BY <2>3, <3>2, <4>2 DEF CountInv, IdGivenOnce
    <3> QED BY <3>1, <3>2
  <2>9. IdsDense'
    <3> SUFFICES ASSUME NEW s \in Servers, NEW i \in 1..max_client_id'[s]
                 PROVE  \E c \in ClientsOf(s) : client_id'[c] = i
      BY DEF IdsDense, ClientsOf
    <3>1. CASE i \in 1..max_client_id[s]
      <4>1. PICK c \in ClientsOf(s) : client_id[c] = i
        BY <3>1 DEF CountInv, IdsDense
      <4>2. c # k
        BY <2>5, <3>1, <4>1
      <4> QED BY <2>3, <4>1, <4>2 DEF ClientsOf
    <3>2. CASE s = Home[k] /\ i = new
      BY <2>1, <2>3, <3>2 DEF ClientsOf
    <3> QED BY <2>4, <2>6, <3>1, <3>2
  <2>10. SlotsGiven'
    BY <1>1, <2>4, <2>6 DEF CountInv, SlotsGiven
  <2>11. SourceGiven'
    BY <1>1, <2>4, <2>6 DEF CountInv, SourceGiven
  <2>12. SilentWithoutId'
    BY <1>1, <2>3, <2>7 DEF CountInv, SilentWithoutId, HomeLink
  <2>13. d \notin sent
    BY <2>1, <2>5 DEF CountInv, SilentWithoutId
  <2>14. ClientsLoseNothing'
    BY <1>1, <2>13 DEF CountInv, ClientsLoseNothing
  <2> QED BY <1>2, <2>8, <2>9, <2>10, <2>11, <2>12, <2>14 DEF CountInv
<1> QED BY <1>3, <1>4

LEMMA CountConnectionStep ==
  ASSUME ConnTypeOK, CountInv, IdsInv',
         NEW d \in Dialled, ConnectionSteps(d) \/ Speak(d)
  PROVE  CountInv'
<1>1. CASE Identify(d)
  BY <1>1, CountIdentify
<1>2. CASE ~ Identify(d)
  <2>1. UNCHANGED <<idVars, network, client_connections, spoiled>>
    BY <1>2 DEF ConnectionSteps, Connect, Register, Accept, DropUnidentified, Announce, Speak, slotVars
  <2>2. IdsDense' /\ SlotsGiven' /\ ClientsLoseNothing'
    BY <2>1, CountSameIds
  <2>3. ReadyWithClients'
    BY <2>1 DEF CountInv, ReadyWithClients
  <2>4. IdGivenOnce'
    <3> SUFFICES ASSUME NEW c \in Clients
                 PROVE  /\ dialler'[HomeLink(c)] = "idle" => acceptor'[HomeLink(c)] = "none"
                        /\ acceptor'[HomeLink(c)] \in {"none", "backlog", "accepted"} => client_id[c] = 0
                        /\ acceptor'[HomeLink(c)] = "identified" => client_id[c] # 0
      BY <2>1 DEF IdGivenOnce, HomeLink, idVars
    <3> DEFINE h == HomeLink(c)
    <3>1. /\ h \in Dialled
          /\ dialler[h] = "idle" => acceptor[h] = "none"
          /\ acceptor[h] \in {"none", "backlog", "accepted"} => client_id[c] = 0
          /\ acceptor[h] = "identified" => client_id[c] # 0
      BY HomeEnds DEF CountInv, IdGivenOnce
    <3> HIDE DEF h
    <3>2. \/ dialler'[h] = dialler[h] /\ acceptor'[h] = acceptor[h]
          \/ acceptor[h] = "none" /\ acceptor'[h] = "backlog" /\ dialler'[h] # "idle"
          \/ acceptor'[h] = acceptor[h] /\ dialler'[h] # "idle"
          \/ acceptor[h] = "backlog" /\ acceptor'[h] = "accepted" /\ dialler'[h] = dialler[h]
          \/ acceptor[h] # "none" /\ acceptor'[h] \in {"announced", "reset"} /\ dialler'[h] = dialler[h]
      BY <1>2, <3>1 DEF ConnTypeOK, ConnectionSteps, Connect, Register, Accept, DropUnidentified,
         Announce, Speak
    <3> QED BY <3>1, <3>2 DEF h
  <2>5. SourceGiven'
    <3>1. CASE connection_source' = connection_source
      BY <2>1, <3>1, CountSameIds
    <3>2. CASE Register(d) /\ d[1] \in Servers /\ connection_source' = Announced(d[1], ToPeer(d[2]))
      <4>1. ToPeer(d[2]) \in NewConnection /\ ToPeer(d[2]).kind # "ToClient" /\ SourceGiven
        BY DialledEnds DEF ToPeer, NewConnection, CountInv
      <4> QED BY <2>1, <3>2, <4>1, AnnounceGiven
    <3>3. CASE Announce(d)
      <4> DEFINE m == IF d[1] \in Clients THEN ToClient(client_id[d[1]]) ELSE ToPeer(d[1])
      <4>1. m \in NewConnection /\ d[2] \in Servers /\ connection_source' = Announced(d[2], m)
        BY <3>3, DialledEnds DEF Announce, ToClient, ToPeer, NewConnection, ConnTypeOK
      <4>2. m.kind = "ToClient" => m.client_id \in 1..max_client_id[d[2]]
        <5>1. SUFFICES ASSUME d[1] \in Clients PROVE client_id[d[1]] \in 1..max_client_id[d[2]]
          BY DEF ToClient, ToPeer
        <5>2. d = HomeLink(d[1]) /\ d[2] = Home[d[1]] /\ d[2] \in Servers
          BY <5>1, HomeEnds, DialledEnds
        <5>3. client_id[d[1]] # 0
          BY <3>3, <5>1, <5>2 DEF Announce, CountInv, IdGivenOnce
        <5>4. client_id[d[1]] <= max_client_id[d[2]]
          BY <5>1, <5>2 DEF CountInv, IdsInv
        <5> QED BY <5>1, <5>2, <5>3, <5>4 DEF ConnTypeOK
      <4>3. SourceGiven
        BY DEF CountInv
      <4> HIDE DEF m
      <4> QED BY <2>1, <4>1, <4>2, <4>3, AnnounceGiven
    <3>4. CASE Register(d)
      BY <3>1, <3>2, <3>4 DEF Register
    <3>5. CASE Connect(d) \/ Accept(d) \/ DropUnidentified(d) \/ Speak(d)
      BY <3>1, <3>5 DEF Connect, Accept, DropUnidentified, Speak, slotVars
    <3> QED BY <1>2, <3>3, <3>4, <3>5 DEF ConnectionSteps
  <2>6. SilentWithoutId'
    <3>1. CASE sent' = sent
      BY <2>1, <3>1, CountSameIds
    <3>2. CASE Speak(d)
      <4>1. ASSUME NEW c \in Clients, d = HomeLink(c) PROVE client_id[c] # 0
        <5>1. d[1] = c /\ d[1] \notin Servers
          BY <4>1, HomeEnds, ClientsAssumption
        <5>2. client_id[c] \in 1..NumClients[d[2]]
          BY <3>2, <5>1 DEF Speak
        <5>3. NumClients[d[2]] \in Nat
          BY DialledEnds, NumClientsAssumption
        <5> QED BY <5>2, <5>3
      <4>2. sent' = sent \cup {d} /\ client_id' = client_id
        BY <2>1, <3>2 DEF Speak, idVars
      <4> QED BY <4>1, <4>2 DEF CountInv, SilentWithoutId, HomeLink
    <3>3. CASE Connect(d) \/ Register(d) \/ Accept(d) \/ DropUnidentified(d) \/ Announce(d)
      BY <3>1, <3>3 DEF Connect, Register, Accept, DropUnidentified, Announce
    <3> QED BY <1>2, <3>2, <3>3 DEF ConnectionSteps
  <2> QED BY <2>2, <2>3, <2>4, <2>5, <2>6 DEF CountInv
<1> QED BY <1>1, <1>2

LEMMA CountTakeStep ==
  ASSUME ConnTypeOK, CountInv, IdsInv', NEW s \in Servers, TakeConnection(s)
  PROVE  CountInv'
<1> DEFINE source == connection_source[s]
           new     == Head(source)
           peers   == peer_connections[s] \cup (IF new.kind = "ToPeer" THEN {new.peer_id} ELSE {})
           clients == client_connections[s] \cup (IF new.kind = "ToClient" THEN {new.client_id} ELSE {})
           done    == AllConnected(s, peers, clients)
<1>1. source \in Seq(NewConnection) /\ source # <<>>
  BY DEF ConnTypeOK, TakeConnection
<1>2. new = source[1] /\ 1 \in 1..Len(source)
  BY <1>1
<1>3. \A r \in Servers : client_connections'[r] = IF r = s THEN clients ELSE client_connections[r]
  BY DEF TakeConnection, ConnTypeOK
<1>4. \A r \in Servers : network'[r] = IF r = s /\ done THEN "ready" ELSE network[r]
  BY DEF TakeConnection, ConnTypeOK
<1>5. \A r \in Servers :
        connection_source'[r] = IF r = s THEN (IF done THEN <<>> ELSE Tail(source))
                                ELSE connection_source[r]
  BY DEF TakeConnection, ConnTypeOK
<1>6. network[s] = "starting" /\ UNCHANGED <<dialler, sent, spoiled, idVars>>
  BY DEF TakeConnection
<1>7. done => Cardinality(clients) >= NumClients[s]
  BY DEF AllConnected
<1>8. new.kind = "ToClient" => new.client_id \in 1..max_client_id[s]
  BY <1>2 DEF CountInv, SourceGiven
<1>9. \A d \in Dialled : \/ acceptor'[d] = acceptor[d]
                         \/ acceptor[d] = "backlog" /\ acceptor'[d] = "reset"
  BY DEF TakeConnection, ConnTypeOK
<1>10. IdsDense' /\ SilentWithoutId' /\ ClientsLoseNothing'
  BY <1>6, CountSameIds
<1> HIDE DEF done
<1>11. SlotsGiven'
  <2>1. clients \subseteq 1..max_client_id[s]
    BY <1>8 DEF CountInv, SlotsGiven
  <2> HIDE DEF clients
  <2> QED BY <1>3, <1>6, <2>1 DEF CountInv, SlotsGiven, idVars
<1>12. ReadyWithClients'
  BY <1>3, <1>4, <1>6, <1>7 DEF CountInv, ReadyWithClients
<1>13. IdGivenOnce'
  BY <1>6, <1>9, HomeEnds DEF CountInv, IdGivenOnce, HomeLink, idVars
<1>14. SourceGiven'
  <2> SUFFICES ASSUME NEW r \in Servers, NEW i \in 1..Len(connection_source'[r]),
                      connection_source'[r][i].kind = "ToClient"
               PROVE  connection_source'[r][i].client_id \in 1..max_client_id'[r]
    BY DEF SourceGiven
  <2>4. max_client_id' = max_client_id /\ SourceGiven
    BY <1>6 DEF CountInv, idVars
  <2>5. SUFFICES \E j \in 1..Len(connection_source[r]) :
                   connection_source'[r][i] = connection_source[r][j]
    BY <2>4 DEF SourceGiven
  <2>1. CASE r # s
    BY <1>5, <2>1
  <2>2. CASE r = s /\ ~ done
    <3>1. connection_source'[r] = Tail(source)
      BY <1>5, <2>2
    <3>2. i + 1 \in 1..Len(source) /\ Tail(source)[i] = source[i + 1]
      BY <1>1, <3>1
    <3> QED BY <2>2, <3>1, <3>2
  <2>3. CASE r = s /\ done
    <3>1. Len(connection_source'[r]) = 0
      BY <1>5, <2>3
    <3> QED BY <3>1
  <2> QED BY <2>1, <2>2, <2>3
<1> QED BY <1>10, <1>11, <1>12, <1>13, <1>14 DEF CountInv

LEMMA CountOtherStep ==
  ASSUME ConnTypeOK, CountInv, IdsInv',
         \/ \E s \in Servers : StartServer(s) \/ Bind(s) \/ ServerStops(s)
         \/ \E c \in Clients : ClientStops(c)
         \/ UNCHANGED connVars
  PROVE  CountInv'
<1>1. UNCHANGED <<connection_source, client_connections, dialler, sent, spoiled, idVars>>
  BY DEF StartServer, Bind, ServerStops, ClientStops, connVars, endVars, slotVars
<1>2. IdsDense' /\ SlotsGiven' /\ SourceGiven' /\ SilentWithoutId' /\ ClientsLoseNothing'
  BY <1>1, CountSameIds
<1>3. \A d \in Dialled : \/ acceptor'[d] = acceptor[d]
                         \/ acceptor[d] # "none" /\ acceptor'[d] = "reset"
  <2>1. ASSUME NEW s \in Servers, ServerStops(s)
        PROVE  \A d \in Dialled : \/ acceptor'[d] = acceptor[d]
                                  \/ acceptor[d] # "none" /\ acceptor'[d] = "reset"
    BY <2>1 DEF ServerStops
  <2> QED BY <2>1 DEF StartServer, Bind, ClientStops, connVars, endVars
<1>4. IdGivenOnce'
  BY <1>1, <1>3, HomeEnds DEF CountInv, IdGivenOnce, HomeLink, idVars
<1>5. \A s \in Servers : network'[s] = "ready" => network[s] = "ready"
  BY DEF ConnTypeOK, StartServer, Bind, ServerStops, ClientStops, connVars
<1>6. ReadyWithClients'
  BY <1>1, <1>5 DEF CountInv, ReadyWithClients
<1> QED BY <1>2, <1>4, <1>6 DEF CountInv

LEMMA CountStep == ConnTypeOK /\ CountInv /\ [ConnNext]_connVars => CountInv'
<1> SUFFICES ASSUME ConnTypeOK, CountInv, [ConnNext]_connVars PROVE CountInv'
  OBVIOUS
<1>1. IdsInv'
  BY IdsStep DEF CountInv
<1>2. ASSUME NEW d \in Dialled, ConnectionSteps(d) \/ Speak(d) PROVE CountInv'
  BY <1>1, <1>2, CountConnectionStep
<1>3. ASSUME NEW s \in Servers, StartingSteps(s) \/ ServerStops(s) PROVE CountInv'
  BY <1>1, <1>3, CountTakeStep, CountOtherStep DEF StartingSteps
<1> QED BY <1>1, <1>2, <1>3, CountOtherStep DEF ConnNext

\* As many ids are given as clients hold one: choosing a client for each id is
\* an injection into the clients of the server, onto them if there are no more.
LEMMA IdsGiven ==
  ASSUME ConnTypeOK, CountInv, NEW s \in Servers
  PROVE  /\ max_client_id[s] <= Cardinality(ClientsOf(s))
         /\ max_client_id[s] = Cardinality(ClientsOf(s)) =>
              {client_id[c] : c \in ClientsOf(s)} = 1..max_client_id[s]
<1> DEFINE max    == max_client_id[s]
           f      == [i \in 1..max |-> CHOOSE c \in ClientsOf(s) : client_id[c] = i]
<1>1. max \in Nat
  BY DEF ConnTypeOK
<1>2. IsFiniteSet(ClientsOf(s))
  BY ClientsAssumption, FS_Subset DEF ClientsOf
<1>3. \A i \in 1..max : f[i] \in ClientsOf(s) /\ client_id[f[i]] = i
  BY DEF CountInv, IdsDense
<1>4. f \in [1..max -> ClientsOf(s)]
  BY <1>3
<1> HIDE DEF f
<1>5. f \in Injection(1..max, ClientsOf(s))
  BY <1>3, <1>4 DEF Injection, IsInjective
<1>6. /\ Cardinality(1..max) <= Cardinality(ClientsOf(s))
      /\ Cardinality(1..max) = Cardinality(ClientsOf(s)) => f \in Surjection(1..max, ClientsOf(s))
  BY <1>2, <1>5, FS_Injection
<1>7. Cardinality(1..max) = max
  BY <1>1, FS_Interval
<1>8. ASSUME f \in Surjection(1..max, ClientsOf(s))
      PROVE  {client_id[c] : c \in ClientsOf(s)} = 1..max
  <2>1. \A c \in ClientsOf(s) : \E i \in 1..max : f[i] = c
    BY <1>8 DEF Surjection
  <2> QED BY <1>3, <2>1
<1> QED BY <1>6, <1>7, <1>8

LEMMA ReadyFromInvariants == ConnTypeOK /\ PeersInv /\ CountInv => ReadyAsServersBegin
<1> SUFFICES ASSUME ConnTypeOK, PeersInv, CountInv, NEW s \in Servers, network[s] = "ready"
             PROVE  /\ peer_connections[s] = Peers(s)
                    /\ \A d \in Dialled :
                         d[1] \in Servers /\ s \in {d[1], d[2]} => dialler[d] = "registered"
                    /\ Cardinality(ClientsOf(s)) = NumClients[s] =>
                         /\ client_connections[s] = 1..NumClients[s]
                         /\ {client_id[c] : c \in ClientsOf(s)} = 1..NumClients[s]
  BY DEF ReadyAsServersBegin
<1>1. peer_connections[s] = Peers(s)
  BY DEF PeersInv, ReadyWithPeers
<1>2. ASSUME NEW d \in Dialled, d[1] \in Servers, s \in {d[1], d[2]}
      PROVE  dialler[d] = "registered"
  <2>1. d = <<d[1], d[2]>> /\ d[2] \in Servers /\ d[2] # d[1]
    BY <1>2, DialledEnds, ServersAssumption
  <2>2. PICK p \in Peers(s) : d \in {<<s, p>>, <<p, s>>}
    BY <1>2, <2>1 DEF Peers
  <2>3. <<s, p>> \in Met
    BY <1>1, <2>2 DEF PeersInv, SlotsMet
  <2> QED BY <2>2, <2>3 DEF Met
<1>3. ASSUME Cardinality(ClientsOf(s)) = NumClients[s]
      PROVE  /\ client_connections[s] = 1..NumClients[s]
             /\ {client_id[c] : c \in ClientsOf(s)} = 1..NumClients[s]
  <2> DEFINE max == max_client_id[s]
             n   == NumClients[s]
  <2>1. max \in Nat /\ n \in Nat
    BY NumClientsAssumption DEF ConnTypeOK
  <2>2. client_connections[s] \subseteq 1..max /\ Cardinality(client_connections[s]) >= n
    BY DEF CountInv, SlotsGiven, ReadyWithClients
  <2> HIDE DEF max
  <2>3. IsFiniteSet(1..max) /\ Cardinality(1..max) = max
    BY <2>1, FS_Interval
  <2> USE DEF max
  <2>4. /\ Cardinality(client_connections[s]) \in Nat
        /\ Cardinality(client_connections[s]) <= max
        /\ Cardinality(client_connections[s]) = max => client_connections[s] = 1..max
    BY <2>2, <2>3, FS_Subset, FS_CardinalityType
  <2>5. max <= n
    BY <1>3, IdsGiven
  <2>6. max = n
    BY <2>1, <2>2, <2>4, <2>5
  <2> QED BY <1>3, <2>1, <2>2, <2>4, <2>6, IdsGiven
<1> QED BY <1>1, <1>2, <1>3

\* What Network::new leaves is where the event loops begin: every peer
\* connected, and the ids 1..num_clients, each the id of a client.
THEOREM NewLeavesWhatServersNeed == ConnSpec => []ReadyAsServersBegin
BY ConnTyped, PeersInit, PeersStep, CountInit, CountStep, ReadyFromInvariants, PTL DEF ConnSpec

\* Nothing a client sends goes with the buffer of the handshake.
THEOREM ClientsKeepAll == ConnSpec => []ClientsLoseNothing
<1>1. CountInv => ClientsLoseNothing
  BY DEF CountInv
<1> QED BY ConnTyped, CountInit, CountStep, <1>1, PTL DEF ConnSpec
-----------------------------------------------------------------------------
(***************************************************************************)
(* Nobody waits for what will not come.  The ends of a connection match, a *)
(* server that has not returned has what was announced to it in a slot or  *)
(* on its way there, and has not all it waits for.                         *)
(***************************************************************************)
EndsMatch ==
  \A d \in Dialled :
    /\ dialler[d] = "idle" <=> acceptor[d] = "none"
    /\ dialler[d] = "failed" => acceptor[d] = "reset"
    /\ dialler[d] # "idle" /\ d[1] \in Servers => network[d[1]] # "off"
    /\ acceptor[d] = "reset" => network[d[2]] \in {"ready", "crashed"} \/ d[1] \in Crashes
    /\ acceptor[d] = "announced" /\ d[1] \in Clients => client_id[d[1]] # 0
ListenersMatch ==
  /\ \A s \in Servers :
       /\ network[s] = "ready" => listener[s] = "aborted"
       /\ network[s] = "off" => listener[s] = "none"
  /\ \A d \in Dialled : acceptor[d] # "none" => network[d[2]] # "off"

\* What the accepting end of a connection announces.
Announcement(d) == IF d[1] \in Clients THEN ToClient(client_id[d[1]]) ELSE ToPeer(d[1])
InSlot(s, m) ==
  \/ m.kind = "ToPeer" /\ m.peer_id \in peer_connections[s]
  \/ m.kind = "ToClient" /\ m.client_id \in client_connections[s]
Arrived(s, m) == InSlot(s, m) \/ \E i \in 1..Len(connection_source[s]) : connection_source[s][i] = m
NoneForgotten ==
  \A d \in Dialled :
    /\ acceptor[d] = "announced" /\ network[d[2]] = "starting" => Arrived(d[2], Announcement(d))
    /\ dialler[d] = "registered" /\ d[1] \in Servers /\ network[d[1]] = "starting"
         => Arrived(d[1], ToPeer(d[2]))

HasAll(s) == AllConnected(s, peer_connections[s], client_connections[s])
StillWaiting ==
  EveryoneComes => \A s \in Servers : network[s] \in {"off", "starting"} => ~ HasAll(s)

WaitInv == EndsMatch /\ ListenersMatch /\ NoneForgotten /\ StillWaiting

LEMMA WaitInit == ConnInit => WaitInv
<1> SUFFICES ASSUME ConnInit PROVE WaitInv
  OBVIOUS
<1>1. EndsMatch /\ ListenersMatch /\ NoneForgotten
  BY DialledEnds DEF ConnInit, EndsMatch, ListenersMatch, NoneForgotten
<1>2. ASSUME EveryoneComes, NEW s \in Servers PROVE ~ HasAll(s)
  <2>1. peer_connections[s] = {} /\ client_connections[s] = {} /\ Cardinality({}) = 0
    BY FS_EmptySet DEF ConnInit
  <2>2. NumClients[s] \in Nat /\ (Peers(s) # {} \/ NumClients[s] > 0)
    BY <1>2, NumClientsAssumption DEF EveryoneComes
  <2> QED BY <2>1, <2>2 DEF HasAll, AllConnected
<1> QED BY <1>1, <1>2 DEF WaitInv, StillWaiting

\* A process that stopped stays stopped.
LEMMA CrashesStay == ASSUME ConnTypeOK, [ConnNext]_connVars PROVE Crashes \subseteq Crashes'
<1>1. ASSUME NEW d \in Dialled, ConnectionSteps(d) \/ Speak(d) PROVE Crashes \subseteq Crashes'
  BY <1>1 DEF ConnectionSteps, Connect, Register, Accept, Identify, DropUnidentified, Announce,
     Speak, Crashes
<1>2. ASSUME NEW s \in Servers, StartingSteps(s) \/ ServerStops(s) PROVE Crashes \subseteq Crashes'
  BY <1>2 DEF StartingSteps, StartServer, Bind, TakeConnection, ServerStops, Crashes, ConnTypeOK
<1>3. ASSUME NEW c \in Clients, ClientStops(c) PROVE Crashes \subseteq Crashes'
  BY <1>3 DEF ClientStops, Crashes
<1>4. CASE UNCHANGED connVars
  BY <1>4 DEF connVars, Crashes
<1> QED BY <1>1, <1>2, <1>3, <1>4 DEF ConnNext

LEMMA ListenersStep ==
  ASSUME ConnTypeOK, ListenersMatch, [ConnNext]_connVars PROVE ListenersMatch'
<1>0. \A d \in Dialled : d[2] \in Servers
  BY DialledEnds
<1>1. ASSUME NEW e \in Dialled, ConnectionSteps(e) \/ Speak(e) PROVE ListenersMatch'
  <2>1. UNCHANGED <<network, listener>>
    BY <1>1 DEF ConnectionSteps, Connect, Register, Accept, Identify, DropUnidentified, Announce,
       Speak
  <2>2. ASSUME NEW d \in Dialled, acceptor'[d] # "none" PROVE network[d[2]] # "off"
    <3>1. acceptor[d] # "none" \/ Connect(d)
      BY <1>1, <2>2 DEF ConnectionSteps, Connect, Register, Accept, Identify, DropUnidentified,
         Announce, Speak, ConnTypeOK
    <3>2. CASE Connect(d)
      BY <1>0, <3>2 DEF Connect, ListenersMatch
    <3> QED BY <3>1, <3>2 DEF ListenersMatch
  <2> QED BY <2>1, <2>2 DEF ListenersMatch
<1>2. ASSUME NEW s \in Servers, StartServer(s) \/ Bind(s) PROVE ListenersMatch'
  <2>1. acceptor' = acceptor
    BY <1>2 DEF StartServer, Bind, endVars
  <2>2. CASE StartServer(s)
    BY <1>0, <2>1, <2>2 DEF StartServer, ConnTypeOK, ListenersMatch
  <2>3. CASE Bind(s)
    BY <1>0, <2>1, <2>3 DEF Bind, ConnTypeOK, ListenersMatch
  <2> QED BY <1>2, <2>2, <2>3
<1>6. ASSUME NEW s \in Servers, ServerStops(s) PROVE ListenersMatch'
  <2>1. \A d \in Dialled : acceptor'[d] # "none" => acceptor[d] # "none"
    BY <1>6 DEF ServerStops
  <2> QED BY <1>0, <1>6, <2>1 DEF ServerStops, ConnTypeOK, ListenersMatch
<1>3. ASSUME NEW s \in Servers, TakeConnection(s) PROVE ListenersMatch'
  <2> DEFINE done == network'[s] = "ready"
  <2>1. /\ network' = [network EXCEPT ![s] = IF done THEN "ready" ELSE @]
        /\ listener' = [listener EXCEPT ![s] = IF done THEN "aborted" ELSE @]
        /\ \A d \in Dialled : acceptor'[d] = acceptor[d] \/ acceptor[d] = "backlog"
        /\ network[s] = "starting"
    BY <1>3 DEF TakeConnection, ConnTypeOK
  <2> HIDE DEF done
  <2> QED BY <1>0, <2>1 DEF ListenersMatch, ConnTypeOK
<1>4. ASSUME NEW c \in Clients, ClientStops(c) PROVE ListenersMatch'
  BY <1>4 DEF ClientStops, ListenersMatch, endVars
<1>5. CASE UNCHANGED connVars
  BY <1>5 DEF ListenersMatch, connVars, endVars
<1> QED BY <1>1, <1>2, <1>3, <1>4, <1>5, <1>6 DEF ConnNext, StartingSteps

LEMMA EndsStep ==
  ASSUME ConnTypeOK, CountInv, ListenersMatch, EndsMatch, [ConnNext]_connVars PROVE EndsMatch'
<1>1. Crashes \subseteq Crashes'
  BY CrashesStay
<1>2. ASSUME NEW e \in Dialled, Connect(e) \/ Register(e) \/ Accept(e) \/ Speak(e) PROVE EndsMatch'
  <2>1. UNCHANGED <<network, client_id>>
    BY <1>2 DEF Connect, Register, Accept, Speak, idVars
  <2>2. CASE Connect(e)
    <3>1. e[1] \in Servers => network[e[1]] # "off"
      BY <2>2, ClientsAssumption DEF Connect, Alive
    <3> QED BY <1>1, <2>1, <2>2, <3>1 DEF Connect, EndsMatch, ConnTypeOK
  <2>3. CASE Register(e)
    BY <1>1, <2>1, <2>3 DEF Register, EndsMatch, ConnTypeOK
  <2>4. CASE Accept(e)
    BY <1>1, <2>1, <2>4 DEF Accept, EndsMatch, ConnTypeOK
  <2>5. CASE Speak(e)
    BY <1>1, <2>1, <2>5 DEF Speak, EndsMatch
  <2> QED BY <1>2, <2>2, <2>3, <2>4, <2>5
<1>3. ASSUME NEW e \in Dialled, Identify(e) PROVE EndsMatch'
  <2>1. /\ acceptor' = [acceptor EXCEPT ![e] = "identified"] /\ acceptor[e] = "accepted"
        /\ dialler' = dialler /\ network' = network
    BY <1>3 DEF Identify
  <2>2. ASSUME NEW d \in Dialled, acceptor'[d] = "announced", d[1] \in Clients PROVE client_id'[d[1]] # 0
    <3>1. acceptor[d] = "announced" /\ d # e
      BY <2>1, <2>2 DEF ConnTypeOK
    <3>2. d[1] # e[1]
      BY <2>2, <3>1, HomeEnds
    <3>3. client_id'[d[1]] = client_id[d[1]]
      BY <1>3, <2>2, <3>2 DEF Identify, idVars, ConnTypeOK
    <3> QED BY <2>2, <3>1, <3>3 DEF EndsMatch
  <2> QED BY <1>1, <2>1, <2>2 DEF EndsMatch, ConnTypeOK
<1>4. ASSUME NEW e \in Dialled, DropUnidentified(e) PROVE EndsMatch'
  <2>1. e[1] \in Crashes
    BY <1>4, DialledEnds DEF DropUnidentified, Alive, Crashes, EndsMatch, ConnTypeOK
  <2> QED BY <1>1, <1>4, <2>1 DEF DropUnidentified, EndsMatch, ConnTypeOK, idVars
<1>5. ASSUME NEW e \in Dialled, Announce(e) PROVE EndsMatch'
  <2>1. e[1] \in Clients => client_id[e[1]] # 0
    BY <1>5, HomeEnds DEF Announce, CountInv, IdGivenOnce
  <2>2. network[e[2]] \in {"starting", "ready", "crashed"}
    BY <1>5, DialledEnds DEF Announce, ListenersMatch, ConnTypeOK
  <2>3. /\ acceptor[e] = "identified" /\ UNCHANGED <<dialler, network, idVars>>
        /\ acceptor' = [acceptor EXCEPT ![e] = IF network[e[2]] = "starting" THEN "announced" ELSE "reset"]
    BY <1>5 DEF Announce
  <2> QED BY <1>1, <2>1, <2>2, <2>3 DEF EndsMatch, ConnTypeOK, idVars
<1>6. ASSUME NEW s \in Servers, StartServer(s) \/ Bind(s) PROVE EndsMatch'
  <2>1. UNCHANGED <<dialler, acceptor, client_id>>
    BY <1>6 DEF StartServer, Bind, endVars, idVars
  <2>2. \A r \in Servers : network'[r] = network[r] \/ (network[r] = "off" /\ network'[r] = "starting")
    BY <1>6 DEF StartServer, Bind, ConnTypeOK
  <2> QED BY <1>1, <2>1, <2>2, DialledEnds DEF EndsMatch
<1>9. ASSUME NEW s \in Servers, ServerStops(s) PROVE EndsMatch'
  <2>1. /\ network' = [network EXCEPT ![s] = "crashed"]
        /\ UNCHANGED <<dialler, client_id>>
        /\ \A d \in Dialled : acceptor'[d] = acceptor[d] \/ (d[2] = s /\ acceptor'[d] = "reset" /\ acceptor[d] # "none")
    BY <1>9 DEF ServerStops, idVars
  <2> QED BY <1>1, <2>1, DialledEnds DEF EndsMatch, ConnTypeOK
<1>10. ASSUME NEW s \in Servers, TakeConnection(s) PROVE EndsMatch'
  <2> DEFINE done == network'[s] = "ready"
  <2>1. /\ network' = [network EXCEPT ![s] = IF done THEN "ready" ELSE @]
        /\ \A d \in Dialled :
             acceptor'[d] = acceptor[d]
             \/ (d[2] = s /\ done /\ acceptor'[d] = "reset" /\ acceptor[d] = "backlog")
        /\ UNCHANGED <<dialler, client_id>>
        /\ network[s] = "starting"
    BY <1>10 DEF TakeConnection, ConnTypeOK, idVars
  <2> HIDE DEF done
  <2> QED BY <1>1, <2>1, DialledEnds DEF EndsMatch, ConnTypeOK
<1>7. ASSUME NEW c \in Clients, ClientStops(c) PROVE EndsMatch'
  BY <1>1, <1>7 DEF ClientStops, EndsMatch, endVars, idVars
<1>8. CASE UNCHANGED connVars
  BY <1>1, <1>8 DEF connVars, EndsMatch, endVars, idVars
<1> QED BY <1>2, <1>3, <1>4, <1>5, <1>6, <1>7, <1>8, <1>9, <1>10
    DEF ConnNext, ConnectionSteps, StartingSteps

\* What has arrived stays, as long as the server has not returned.
LEMMA ArrivedStays ==
  ASSUME ConnTypeOK, [ConnNext]_connVars, NEW s \in Servers, NEW m, Arrived(s, m),
         network'[s] = "starting"
  PROVE  Arrived(s, m)'
<1>1. connection_source[s] \in Seq(NewConnection)
  BY DEF ConnTypeOK
<1>2. CASE /\ UNCHANGED <<peer_connections, client_connections>>
           /\ \/ connection_source'[s] = connection_source[s]
              \/ \E n \in NewConnection : connection_source'[s] = Append(connection_source[s], n)
  <2>1. CASE InSlot(s, m)
    BY <1>2, <2>1 DEF Arrived, InSlot
  <2>2. ASSUME NEW i \in 1..Len(connection_source[s]), connection_source[s][i] = m
        PROVE  i \in 1..Len(connection_source'[s]) /\ connection_source'[s][i] = m
    BY <1>1, <1>2, <2>2
  <2> QED BY <2>1, <2>2 DEF Arrived
<1>3. CASE TakeConnection(s)
  <2> DEFINE source == connection_source[s]
             new    == Head(source)
  <2>1. source # <<>> /\ new = source[1] /\ new.kind \in {"ToPeer", "ToClient"}
    BY <1>1, <1>3 DEF TakeConnection, NewConnection
  <2>2. connection_source'[s] = Tail(source)
    BY <1>3 DEF TakeConnection, ConnTypeOK
  <2>3. /\ peer_connections'[s] =
             peer_connections[s] \cup (IF new.kind = "ToPeer" THEN {new.peer_id} ELSE {})
        /\ client_connections'[s] =
             client_connections[s] \cup (IF new.kind = "ToClient" THEN {new.client_id} ELSE {})
    BY <1>3 DEF TakeConnection, ConnTypeOK
  <2>4. CASE InSlot(s, m)
    BY <2>3, <2>4 DEF Arrived, InSlot
  <2>5. ASSUME NEW i \in 1..Len(source), source[i] = m PROVE Arrived(s, m)'
    <3>1. CASE i = 1
      BY <2>1, <2>3, <2>5, <3>1 DEF Arrived, InSlot
    <3>2. CASE i # 1
      <4>1. i - 1 \in 1..Len(Tail(source)) /\ Tail(source)[i - 1] = m
        BY <1>1, <2>1, <2>5, <3>2
      <4> QED BY <2>2, <4>1 DEF Arrived
    <3> QED BY <3>1, <3>2
  <2> QED BY <2>4, <2>5 DEF Arrived
<1>4. ASSUME NEW r \in Servers, NEW n \in NewConnection, connection_source' = Announced(r, n)
      PROVE  connection_source'[s] \in {connection_source[s], Append(connection_source[s], n)}
  BY <1>4 DEF Announced, ConnTypeOK
<1>5. ASSUME NEW d \in Dialled, ConnectionSteps(d) \/ Speak(d) PROVE Arrived(s, m)'
  <2>1. UNCHANGED <<peer_connections, client_connections>>
    BY <1>5 DEF ConnectionSteps, Connect, Register, Accept, Identify, DropUnidentified, Announce,
       Speak, slotVars
  <2>2. CASE connection_source' = connection_source
    BY <1>2, <2>1, <2>2
  <2>3. CASE Register(d) /\ d[1] \in Servers
    <3>1. ToPeer(d[2]) \in NewConnection
      BY DialledEnds DEF ToPeer, NewConnection
    <3> QED BY <1>2, <1>4, <2>1, <2>2, <2>3, <3>1 DEF Register
  <2>4. CASE Announce(d)
    <3>1. Announcement(d) \in NewConnection /\ d[2] \in Servers
      BY DialledEnds DEF Announcement, ToPeer, ToClient, NewConnection, ConnTypeOK
    <3>2. connection_source' = Announced(d[2], Announcement(d))
      BY <2>4 DEF Announce, Announcement
    <3> QED BY <1>2, <1>4, <2>1, <3>1, <3>2
  <2> QED BY <1>5, <2>2, <2>3, <2>4 DEF ConnectionSteps, Connect, Register, Accept, Identify,
         DropUnidentified, Speak, slotVars
<1>6. ASSUME NEW r \in Servers, StartingSteps(r) \/ ServerStops(r) PROVE Arrived(s, m)'
  <2>1. CASE TakeConnection(r) /\ r # s
    <3>1. /\ connection_source'[s] = connection_source[s]
          /\ peer_connections'[s] = peer_connections[s]
          /\ client_connections'[s] = client_connections[s]
      BY <2>1 DEF TakeConnection, ConnTypeOK
    <3> QED BY <3>1 DEF Arrived, InSlot
  <2>2. CASE ~ TakeConnection(r)
    <3>1. UNCHANGED slotVars
      BY <1>6, <2>2 DEF StartingSteps, StartServer, Bind, ServerStops
    <3> QED BY <1>2, <3>1 DEF slotVars
  <2> QED BY <1>3, <2>1, <2>2
<1>7. CASE UNCHANGED slotVars
  BY <1>2, <1>7 DEF slotVars
<1> QED BY <1>5, <1>6, <1>7 DEF ConnNext, ClientStops, connVars

LEMMA AnnouncedArrives ==
  ASSUME ConnTypeOK, NEW s \in Servers, NEW m, network[s] = "starting",
         connection_source' = Announced(s, m)
  PROVE  Arrived(s, m)'
<1>1. connection_source[s] \in Seq(NewConnection)
  BY DEF ConnTypeOK
<1>2. connection_source'[s] = Append(connection_source[s], m)
  BY DEF Announced, ConnTypeOK
<1>3. /\ Len(connection_source[s]) + 1 \in 1..Len(connection_source'[s])
      /\ connection_source'[s][Len(connection_source[s]) + 1] = m
  BY <1>1, <1>2
<1> QED BY <1>3 DEF Arrived

LEMMA StartingBefore ==
  ASSUME ConnTypeOK, [ConnNext]_connVars, NEW s \in Servers, network'[s] \in {"off", "starting"}
  PROVE  network[s] \in {"off", "starting"}
<1>1. ASSUME NEW d \in Dialled, ConnectionSteps(d) \/ Speak(d) PROVE network' = network
  BY <1>1 DEF ConnectionSteps, Connect, Register, Accept, Identify, DropUnidentified, Announce, Speak
<1>2. ASSUME NEW r \in Servers, StartingSteps(r) \/ ServerStops(r)
      PROVE  network[s] \in {"off", "starting"}
  BY <1>2 DEF StartingSteps, StartServer, Bind, TakeConnection, ServerStops, ConnTypeOK
<1>3. ASSUME NEW c \in Clients, ClientStops(c) PROVE network' = network
  BY <1>3 DEF ClientStops
<1> QED BY <1>1, <1>2, <1>3 DEF ConnNext, connVars

\* What a step does to a connection already announced or registered.
LEMMA AnnouncedBefore ==
  ASSUME ConnTypeOK, [ConnNext]_connVars, NEW d \in Dialled
  PROVE  /\ acceptor'[d] = "announced" => acceptor[d] = "announced" \/ Announce(d)
         /\ dialler'[d] = "registered" => dialler[d] = "registered" \/ Register(d)
         /\ acceptor[d] = "announced" \/ Announce(d) => Announcement(d)' = Announcement(d)
<1>1. ASSUME NEW e \in Dialled, Connect(e) \/ Register(e) \/ Accept(e) \/ DropUnidentified(e) \/ Speak(e)
      PROVE  /\ acceptor'[d] = "announced" => acceptor[d] = "announced"
             /\ dialler'[d] = "registered" => dialler[d] = "registered" \/ Register(d)
             /\ client_id' = client_id
  BY <1>1 DEF Connect, Register, Accept, DropUnidentified, Speak, ConnTypeOK, idVars
<1>2. ASSUME NEW e \in Dialled, Announce(e)
      PROVE  /\ acceptor'[d] = "announced" => acceptor[d] = "announced" \/ Announce(d)
             /\ UNCHANGED <<dialler, client_id>>
  BY <1>2 DEF Announce, ConnTypeOK, idVars
<1>3. ASSUME NEW e \in Dialled, Identify(e)
      PROVE  /\ acceptor'[d] = "announced" => acceptor[d] = "announced"
             /\ dialler' = dialler
             /\ acceptor[d] = "announced" /\ d[1] \in Clients => client_id'[d[1]] = client_id[d[1]]
             /\ ~ Announce(d)
  <2>1. /\ acceptor[e] = "accepted" /\ acceptor' = [acceptor EXCEPT ![e] = "identified"]
        /\ dialler' = dialler
    BY <1>3 DEF Identify
  <2>2. ASSUME acceptor[d] = "announced", d[1] \in Clients PROVE client_id'[d[1]] = client_id[d[1]]
    <3>1. d[1] # e[1]
      BY <2>1, <2>2, HomeEnds
    <3> QED BY <1>3, <2>2, <3>1 DEF Identify, idVars, ConnTypeOK
  <2>3. ~ Announce(d)
    BY <2>1 DEF Announce, ConnTypeOK
  <2> QED BY <2>1, <2>2, <2>3 DEF ConnTypeOK
<1>4. ASSUME NEW s \in Servers, StartingSteps(s) \/ ServerStops(s)
      PROVE  /\ acceptor'[d] = "announced" => acceptor[d] = "announced"
             /\ UNCHANGED <<dialler, client_id>>
  BY <1>4 DEF StartingSteps, StartServer, Bind, TakeConnection, ServerStops, ConnTypeOK, endVars, idVars
<1>5. ASSUME NEW c \in Clients, ClientStops(c) PROVE UNCHANGED <<acceptor, dialler, client_id>>
  BY <1>5 DEF ClientStops, endVars, idVars
<1>6. CASE UNCHANGED connVars
  BY <1>6 DEF connVars, endVars, idVars, Announcement
<1> QED BY <1>1, <1>2, <1>3, <1>4, <1>5, <1>6 DEF ConnNext, ConnectionSteps, Announcement

LEMMA ForgottenStep ==
  ASSUME ConnTypeOK, EndsMatch, ListenersMatch, NoneForgotten, [ConnNext]_connVars
  PROVE  NoneForgotten'
<1> SUFFICES ASSUME NEW d \in Dialled
             PROVE  /\ acceptor'[d] = "announced" /\ network'[d[2]] = "starting"
                         => Arrived(d[2], Announcement(d))'
                    /\ dialler'[d] = "registered" /\ d[1] \in Servers /\ network'[d[1]] = "starting"
                         => Arrived(d[1], ToPeer(d[2]))'
  BY DEF NoneForgotten
<1>1. d[2] \in Servers
  BY DialledEnds
<1>2. ASSUME acceptor'[d] = "announced", network'[d[2]] = "starting"
      PROVE  Arrived(d[2], Announcement(d))'
  <2>1. PICK m : m = Announcement(d)
    OBVIOUS
  <2>2. Announcement(d)' = m
    BY <1>2, <2>1, AnnouncedBefore
  <2>3. CASE acceptor[d] = "announced"
    <3>1. network[d[2]] = "starting"
      BY <1>1, <1>2, <2>3, StartingBefore DEF ListenersMatch
    <3>2. Arrived(d[2], m)
      BY <2>1, <2>3, <3>1 DEF NoneForgotten
    <3>3. Arrived(d[2], m)'
      BY <1>1, <1>2, <3>2, ArrivedStays
    <3> QED BY <2>2, <3>3 DEF Arrived, InSlot
  <2>4. CASE Announce(d)
    <3>1. network' = network /\ connection_source' = Announced(d[2], m)
      BY <2>1, <2>4 DEF Announce, Announcement
    <3>2. Arrived(d[2], m)'
      BY <1>1, <1>2, <3>1, AnnouncedArrives
    <3> QED BY <2>2, <3>2 DEF Arrived, InSlot
  <2> QED BY <1>2, <2>3, <2>4, AnnouncedBefore
<1>3. ASSUME dialler'[d] = "registered", d[1] \in Servers, network'[d[1]] = "starting"
      PROVE  Arrived(d[1], ToPeer(d[2]))'
  <2>1. CASE dialler[d] = "registered"
    <3>1. network[d[1]] = "starting"
      BY <1>3, <2>1, StartingBefore DEF EndsMatch
    <3>2. Arrived(d[1], ToPeer(d[2]))
      BY <1>3, <2>1, <3>1 DEF NoneForgotten
    <3> QED BY <1>3, <3>2, ArrivedStays
  <2>2. CASE Register(d) /\ dialler[d] # "registered"
    <3>1. network' = network /\ connection_source' = Announced(d[1], ToPeer(d[2]))
      BY <1>3, <2>2 DEF Register, ConnTypeOK
    <3> QED BY <1>3, <3>1, AnnouncedArrives
  <2> QED BY <1>3, <2>1, <2>2, AnnouncedBefore
<1> QED BY <1>2, <1>3

LEMMA WaitingStep ==
  ASSUME ConnTypeOK, StillWaiting, [ConnNext]_connVars PROVE StillWaiting'
<1> SUFFICES ASSUME EveryoneComes, NEW s \in Servers, network'[s] \in {"off", "starting"}
             PROVE  ~ HasAll(s)'
  BY DEF StillWaiting, EveryoneComes, ClientsOf, Peers
<1>1. ~ HasAll(s)
  BY StartingBefore DEF StillWaiting
<1>2. CASE TakeConnection(s)
  BY <1>2 DEF TakeConnection, ConnTypeOK, HasAll
<1>3. CASE ~ TakeConnection(s)
  <2>1. /\ peer_connections'[s] = peer_connections[s]
        /\ client_connections'[s] = client_connections[s]
    <3>1. ASSUME NEW d \in Dialled, ConnectionSteps(d) \/ Speak(d)
          PROVE  UNCHANGED <<peer_connections, client_connections>>
      BY <3>1 DEF ConnectionSteps, Connect, Register, Accept, Identify, DropUnidentified, Announce,
         Speak, slotVars
    <3>2. ASSUME NEW r \in Servers, StartServer(r) \/ Bind(r) \/ ServerStops(r)
          PROVE  UNCHANGED <<peer_connections, client_connections>>
      BY <3>2 DEF StartServer, Bind, ServerStops, slotVars
    <3>3. ASSUME NEW r \in Servers, TakeConnection(r), r # s PROVE peer_connections'[s] = peer_connections[s] /\ client_connections'[s] = client_connections[s]
      BY <3>3 DEF TakeConnection, ConnTypeOK
    <3>4. CASE UNCHANGED slotVars
      BY <3>4 DEF slotVars
    <3> QED BY <1>3, <3>1, <3>2, <3>3, <3>4 DEF ConnNext, StartingSteps, ClientStops, connVars
  <2> QED BY <1>1, <2>1 DEF HasAll
<1> QED BY <1>2, <1>3

LEMMA WaitStep == ConnTypeOK /\ CountInv /\ WaitInv /\ [ConnNext]_connVars => WaitInv'
BY EndsStep, ListenersStep, ForgottenStep, WaitingStep DEF WaitInv

\* If no task can go on, a server that waits has everybody in a slot, which is
\* when it would not have gone on waiting.
LEMMA StuckHasAll ==
  ASSUME ConnTypeOK, PeersInv, CountInv, WaitInv, EveryoneComes, Crashes = {}, ~ ConnTaskReady,
         NEW s \in Servers, network[s] # "ready"
  PROVE  HasAll(s)
<1>1. \A x \in Clients \cup Servers : x \notin Crashes
  OBVIOUS
<1>2. \A r \in Servers : network[r] \in {"starting", "ready"}
  BY <1>1 DEF Crashes, ConnTaskReady, ConnTypeOK
<1>3. \A d \in Dialled : Alive(d[1]) /\ d[1] \notin Crashes
  BY <1>1, <1>2, DialledEnds DEF Alive, Crashes
<1>4. network[s] = "starting" /\ listener[s] = "listening" /\ connection_source[s] = <<>>
  BY <1>2 DEF ConnTaskReady, ConnTypeOK, PeersInv, AbortedWhenDone
<1>5. \A d \in Dialled : dialler[d] # "connected" /\ acceptor[d] # "identified"
  BY <1>3 DEF ConnTaskReady
<1>6. ASSUME NEW d \in Dialled, d[2] = s
      PROVE  acceptor[d] = "announced" /\ dialler[d] = "registered"
  <2>1. dialler[d] # "idle" /\ acceptor[d] # "none"
    BY <1>3, <1>4, <1>6 DEF ConnTaskReady, WaitInv, EndsMatch
  <2>2. acceptor[d] # "reset"
    BY <1>3, <1>4, <1>6 DEF WaitInv, EndsMatch
  <2>3. dialler[d] = "registered"
    BY <1>5, <2>1, <2>2 DEF WaitInv, EndsMatch, ConnTypeOK
  <2>4. acceptor[d] # "backlog" /\ acceptor[d] # "accepted"
    BY <1>4, <1>6, <2>3 DEF ConnTaskReady
  <2> QED BY <1>5, <2>1, <2>2, <2>3, <2>4 DEF ConnTypeOK
<1>7. ASSUME NEW d \in Dialled, d[1] = s PROVE dialler[d] = "registered"
  <2>1. d[2] \in Servers /\ network[d[2]] \in {"starting", "ready"}
    BY <1>2, DialledEnds
  <2>2. dialler[d] # "idle"
    <3>1. SUFFICES ASSUME dialler[d] = "idle" PROVE FALSE
      OBVIOUS
    <3>2. listener[d[2]] # "listening"
      BY <1>3, <3>1 DEF ConnTaskReady
    <3>3. listener[d[2]] = "aborted"
      <4>1. CASE network[d[2]] = "ready"
        BY <2>1, <4>1 DEF WaitInv, ListenersMatch
      <4>2. CASE network[d[2]] = "starting"
        <5>1. listener[d[2]] # "none"
          BY <2>1, <4>2 DEF ConnTaskReady
        <5>2. listener[d[2]] \in {"none", "listening", "aborted"}
          BY <2>1 DEF ConnTypeOK
        <5> QED BY <3>2, <5>1, <5>2
      <4> QED BY <2>1, <4>1, <4>2
    <3> QED BY <1>7, <2>1, <3>1, <3>3, PeersInvImplies DEF PeersFindListener
  <2>3. dialler[d] # "failed"
    <3>1. SUFFICES ASSUME dialler[d] = "failed" PROVE FALSE
      OBVIOUS
    <3>2. network[d[2]] = "ready"
      BY <1>3, <2>1, <3>1 DEF WaitInv, EndsMatch
    <3>3. dialler[d] = "registered"
      BY <1>7, <2>1, <3>2, ReadyFromInvariants DEF ReadyAsServersBegin
    <3> QED BY <3>1, <3>3
  <2> QED BY <1>5, <2>2, <2>3 DEF ConnTypeOK
<1>8. \A m : Arrived(s, m) => InSlot(s, m)
  BY <1>4 DEF Arrived
<1>9. peer_connections[s] = Peers(s)
  <2>1. ASSUME NEW p \in Peers(s) PROVE p \in peer_connections[s]
    <3>1. p \in Servers /\ (p < s \/ s < p) /\ p \notin Clients /\ s \notin Clients
      BY <2>1, ServersAssumption, ClientsAssumption DEF Peers
    <3>2. CASE s < p
      <4>1. <<p, s>> \in Dialled
        BY <3>1, <3>2 DEF Dialled
      <4>2. Arrived(s, Announcement(<<p, s>>)) /\ Announcement(<<p, s>>) = ToPeer(p)
        BY <1>4, <1>6, <3>1, <4>1 DEF WaitInv, NoneForgotten, Announcement
      <4>3. InSlot(s, ToPeer(p))
        BY <1>8, <4>2
      <4> QED BY <4>3 DEF InSlot, ToPeer
    <3>3. CASE p < s
      <4>1. <<s, p>> \in Dialled
        BY <3>1, <3>3 DEF Dialled
      <4>2. Arrived(s, ToPeer(p))
        BY <1>4, <1>7, <4>1 DEF WaitInv, NoneForgotten
      <4>3. InSlot(s, ToPeer(p))
        BY <1>8, <4>2
      <4> QED BY <4>3 DEF InSlot, ToPeer
    <3> QED BY <3>1, <3>2, <3>3
  <2>2. peer_connections[s] \subseteq Peers(s)
    BY DEF PeersInv, SlotsMet, Met, Peers
  <2> QED BY <2>1, <2>2
<1>10. \A c \in ClientsOf(s) : client_id[c] # 0 /\ client_id[c] \in client_connections[s]
  <2>1. SUFFICES ASSUME NEW c \in Clients, Home[c] = s
                 PROVE  client_id[c] # 0 /\ client_id[c] \in client_connections[s]
    BY DEF ClientsOf
  <2>2. <<c, s>> \in Dialled
    BY <2>1 DEF Dialled
  <2>3. client_id[c] # 0
    BY <1>6, <2>2 DEF WaitInv, EndsMatch
  <2>4. Arrived(s, ToClient(client_id[c]))
    BY <1>4, <1>6, <2>2 DEF WaitInv, NoneForgotten, Announcement
  <2>5. InSlot(s, ToClient(client_id[c]))
    BY <1>8, <2>4
  <2> QED BY <2>3, <2>5 DEF InSlot, ToClient
<1>11. Cardinality(client_connections[s]) >= NumClients[s]
  <2> DEFINE f == [c \in ClientsOf(s) |-> client_id[c]]
             max == max_client_id[s]
  <2>1. f \in Injection(ClientsOf(s), client_connections[s])
    <3>1. f \in [ClientsOf(s) -> client_connections[s]]
      BY <1>10
    <3>2. \A c, e \in ClientsOf(s) : f[c] = f[e] => c = e
      BY <1>10 DEF CountInv, IdsInv, IdsAreUnique, ClientsOf
    <3> HIDE DEF f
    <3> QED BY <3>1, <3>2 DEF Injection, IsInjective
  <2>2. max \in Nat /\ client_connections[s] \subseteq 1..max
    BY DEF ConnTypeOK, CountInv, SlotsGiven
  <2>3. IsFiniteSet(1..max)
    BY <2>2, FS_Interval
  <2>4. IsFiniteSet(client_connections[s])
    BY <2>2, <2>3, FS_Subset
  <2> HIDE DEF f
  <2>5. Cardinality(ClientsOf(s)) <= Cardinality(client_connections[s])
    BY <2>1, <2>4, FS_Injection
  <2>6. IsFiniteSet(ClientsOf(s))
    BY ClientsAssumption, FS_Subset DEF ClientsOf
  <2>7. /\ Cardinality(ClientsOf(s)) \in Nat /\ Cardinality(client_connections[s]) \in Nat
        /\ NumClients[s] \in Nat /\ Cardinality(ClientsOf(s)) >= NumClients[s]
    BY <2>4, <2>6, FS_CardinalityType, NumClientsAssumption DEF EveryoneComes
  <2> QED BY <2>5, <2>7
<1> QED BY <1>9, <1>11 DEF HasAll, AllConnected

\* As long as no process stops, the tasks of a cluster of any size never wait
\* for one another in vain: one of them can go on until every server's new()
\* has returned.
THEOREM NobodyWaitsInVain == ConnSpec => []NewNeverStuck
<1>1. ConnTypeOK /\ PeersInv /\ CountInv /\ WaitInv => NewNeverStuck
  <2> SUFFICES ASSUME ConnTypeOK, PeersInv, CountInv, WaitInv, EveryoneComes, Crashes = {},
                      ~ ConnTaskReady, NEW s \in Servers, network[s] # "ready"
               PROVE  FALSE
    BY DEF NewNeverStuck
  <2>1. network[s] \in {"off", "starting"}
    BY DEF ConnTypeOK, Crashes
  <2> QED BY <2>1, StuckHasAll DEF WaitInv, StillWaiting
<1> QED BY ConnTyped, PeersInit, PeersStep, CountInit, CountStep, WaitInit, WaitStep, <1>1, PTL
    DEF ConnSpec
-----------------------------------------------------------------------------
(***************************************************************************)
(* Connecting comes to an end.                                             *)
(***************************************************************************)
LEMMA StagesAreNumbers ==
  /\ \A d \in Dialled : DialStage(d) \in 0..2 /\ AcceptStage(d) \in 0..4
  /\ \A s \in Servers : StartStage(s) \in 0..3
BY DEF DialStage, AcceptStage, StartStage

\* An announced connection makes one source longer by one, and no other.
LEMMA AnnouncedLength ==
  ASSUME ConnTypeOK, NEW s \in Servers, NEW m \in NewConnection, connection_source' = Announced(s, m)
  PROVE  \A r \in Servers :
           Len(connection_source'[r]) \in {Len(connection_source[r]), Len(connection_source[r]) + 1}
<1> SUFFICES ASSUME NEW r \in Servers
             PROVE  Len(connection_source'[r]) \in
                      {Len(connection_source[r]), Len(connection_source[r]) + 1}
  OBVIOUS
<1>1. connection_source[r] \in Seq(NewConnection)
  BY DEF ConnTypeOK
<1>2. connection_source'[r] \in {connection_source[r], Append(connection_source[r], m)}
  BY DEF Announced, ConnTypeOK
<1>3. Len(Append(connection_source[r], m)) = Len(connection_source[r]) + 1
  BY <1>1
<1> QED BY <1>2, <1>3

\* What ConnectingMovesOn asks of the stages and of the sources.
NothingFallsBack ==
  /\ \A d \in Dialled : DialStage(d)' >= DialStage(d) /\ AcceptStage(d)' >= AcceptStage(d)
  /\ \A s \in Servers : StartStage(s)' >= StartStage(s)
SourcesFollow ==
  \A s \in Servers :
    Len(connection_source'[s]) > Len(connection_source[s]) =>
      EndMoves /\ Len(connection_source'[s]) = Len(connection_source[s]) + 1
SomethingDone ==
  EndMoves \/ \E s \in Servers : \/ StartStage(s)' > StartStage(s)
                                 \/ Len(connection_source'[s]) < Len(connection_source[s])

LEMMA SourcesKept ==
  ASSUME ConnTypeOK, connection_source' = connection_source PROVE SourcesFollow
<1>1. \A s \in Servers : Len(connection_source[s]) \in Nat
  BY DEF ConnTypeOK
<1> QED BY <1>1 DEF SourcesFollow

LEMMA ConnectionMoves ==
  ASSUME ConnTypeOK, EndsMatch, NEW e \in Dialled, ConnectionSteps(e)
  PROVE  NothingFallsBack /\ SourcesFollow /\ EndMoves
<1>1. network' = network /\ listener' = listener
  BY DEF ConnectionSteps, Connect, Register, Accept, Identify, DropUnidentified, Announce
<1>2. \A s \in Servers : StartStage(s)' >= StartStage(s)
  BY <1>1 DEF StartStage
<1>3. /\ \A d \in Dialled : DialStage(d)' >= DialStage(d) /\ AcceptStage(d)' >= AcceptStage(d)
      /\ DialStage(e)' > DialStage(e) \/ AcceptStage(e)' > AcceptStage(e)
  <2>1. CASE Connect(e)
    <3>1. /\ dialler[e] = "idle" /\ dialler' = [dialler EXCEPT ![e] = "connected"]
          /\ acceptor' = [acceptor EXCEPT ![e] = "backlog"]
      BY <2>1 DEF Connect
    <3>2. acceptor[e] = "none"
      BY <3>1 DEF EndsMatch
    <3> QED BY <3>1, <3>2 DEF DialStage, AcceptStage, ConnTypeOK
  <2>2. CASE Register(e)
    BY <2>2 DEF Register, DialStage, AcceptStage, ConnTypeOK
  <2>3. CASE Accept(e)
    BY <2>3 DEF Accept, DialStage, AcceptStage, ConnTypeOK
  <2>4. CASE Identify(e)
    <3>1. /\ acceptor[e] = "accepted" /\ dialler' = dialler
          /\ acceptor' = [acceptor EXCEPT ![e] = "identified"]
      BY <2>4 DEF Identify
    <3> QED BY <3>1 DEF DialStage, AcceptStage, ConnTypeOK
  <2>5. CASE DropUnidentified(e)
    BY <2>5 DEF DropUnidentified, DialStage, AcceptStage, ConnTypeOK
  <2>6. CASE Announce(e)
    <3>1. /\ acceptor[e] = "identified" /\ dialler' = dialler
          /\ \E a \in {"announced", "reset"} : acceptor' = [acceptor EXCEPT ![e] = a]
      BY <2>6 DEF Announce
    <3> QED BY <3>1 DEF DialStage, AcceptStage, ConnTypeOK
  <2> QED BY <2>1, <2>2, <2>3, <2>4, <2>5, <2>6 DEF ConnectionSteps
<1>4. EndMoves
  BY <1>3 DEF EndMoves
<1>5. SourcesFollow
  <2>1. CASE connection_source' = connection_source
    BY <2>1, SourcesKept
  <2>2. ASSUME NEW s \in Servers, NEW m \in NewConnection, connection_source' = Announced(s, m)
        PROVE  SourcesFollow
    <3>1. \A r \in Servers : Len(connection_source[r]) \in Nat
      BY DEF ConnTypeOK
    <3> QED BY <1>4, <2>2, <3>1, AnnouncedLength DEF SourcesFollow
  <2>3. CASE Register(e) /\ e[1] \in Servers
    <3>1. ToPeer(e[2]) \in NewConnection
      BY DialledEnds DEF ToPeer, NewConnection
    <3> QED BY <2>1, <2>2, <2>3, <3>1 DEF Register
  <2>4. CASE Announce(e)
    <3>1. Announcement(e) \in NewConnection /\ e[2] \in Servers
      BY DialledEnds DEF Announcement, ToPeer, ToClient, NewConnection, ConnTypeOK
    <3>2. connection_source' = Announced(e[2], Announcement(e))
      BY <2>4 DEF Announce, Announcement
    <3> QED BY <2>2, <3>1, <3>2
  <2> QED BY <2>1, <2>3, <2>4 DEF ConnectionSteps, Connect, Register, Accept, Identify,
         DropUnidentified, slotVars
<1> QED BY <1>2, <1>3, <1>4, <1>5 DEF NothingFallsBack

LEMMA ServerMoves ==
  ASSUME ConnTypeOK, NEW s \in Servers, StartingSteps(s)
  PROVE  NothingFallsBack /\ SourcesFollow /\ SomethingDone
<1>1. CASE StartServer(s) \/ Bind(s)
  <2>1. UNCHANGED <<dialler, acceptor, connection_source>>
    BY <1>1 DEF StartServer, Bind, endVars, slotVars
  <2>2. (\A r \in Servers : StartStage(r)' >= StartStage(r)) /\ StartStage(s)' > StartStage(s)
    <3>1. CASE StartServer(s)
      <4>1. \A r \in Servers : network'[r] = IF r = s THEN "starting" ELSE network[r]
        BY <3>1 DEF StartServer, ConnTypeOK
      <4>2. network[s] = "off" /\ listener' = listener
        BY <3>1 DEF StartServer
      <4> QED BY <4>1, <4>2 DEF StartStage
    <3>2. CASE Bind(s)
      <4>1. \A r \in Servers : listener'[r] = IF r = s THEN "listening" ELSE listener[r]
        BY <3>2 DEF Bind, ConnTypeOK
      <4>2. network[s] = "starting" /\ listener[s] = "none" /\ network' = network
        BY <3>2 DEF Bind
      <4> QED BY <4>1, <4>2 DEF StartStage
    <3> QED BY <1>1, <3>1, <3>2
  <2>3. \A d \in Dialled : DialStage(d)' >= DialStage(d) /\ AcceptStage(d)' >= AcceptStage(d)
    BY <2>1 DEF DialStage, AcceptStage
  <2> QED BY <2>1, <2>2, <2>3, SourcesKept DEF NothingFallsBack, SomethingDone
<1>2. CASE TakeConnection(s)
  <2> DEFINE done == network'[s] = "ready"
             source == connection_source[s]
  <2>1. /\ network' = [network EXCEPT ![s] = IF done THEN "ready" ELSE @]
        /\ listener' = [listener EXCEPT ![s] = IF done THEN "aborted" ELSE @]
        /\ connection_source' = [connection_source EXCEPT ![s] = IF done THEN <<>> ELSE Tail(@)]
        /\ \A d \in Dialled : acceptor'[d] \in {acceptor[d], "reset"}
        /\ dialler' = dialler /\ network[s] = "starting" /\ source # <<>>
    BY <1>2 DEF TakeConnection, ConnTypeOK
  <2> HIDE DEF done
  <2>2. \A d \in Dialled : DialStage(d)' >= DialStage(d) /\ AcceptStage(d)' >= AcceptStage(d)
    BY <2>1 DEF DialStage, AcceptStage
  <2>3. \A r \in Servers : StartStage(r)' >= StartStage(r)
    BY <2>1 DEF StartStage, ConnTypeOK
  <2>4. source \in Seq(NewConnection)
    BY DEF ConnTypeOK
  <2>5. \A r \in Servers : connection_source'[r] =
          IF r # s THEN connection_source[r] ELSE IF done THEN <<>> ELSE Tail(source)
    BY <2>1 DEF ConnTypeOK
  <2>6. Len(connection_source'[s]) < Len(source)
    <3>1. Len(source) \in Nat /\ Len(source) > 0 /\ Len(Tail(source)) = Len(source) - 1
      BY <2>1, <2>4
    <3>2. connection_source'[s] \in {<<>>, Tail(source)} /\ Len(<<>>) = 0
      BY <2>5
    <3> HIDE DEF source
    <3> QED BY <3>1, <3>2
  <2>7. \A r \in Servers : Len(connection_source'[r]) \in Nat /\ Len(connection_source[r]) \in Nat
                           /\ Len(connection_source'[r]) <= Len(connection_source[r])
    <3>1. \A r \in Servers : Len(connection_source[r]) \in Nat
      BY DEF ConnTypeOK
    <3>2. Len(connection_source'[s]) \in Nat
      BY <2>4, <2>5
    <3> QED BY <2>5, <2>6, <3>1, <3>2
  <2> QED BY <2>2, <2>3, <2>6, <2>7 DEF NothingFallsBack, SourcesFollow, SomethingDone
<1> QED BY <1>1, <1>2 DEF StartingSteps

LEMMA OthersKeep ==
  ASSUME ConnTypeOK,
         \/ \E d \in Dialled : Speak(d)
         \/ \E s \in Servers : ServerStops(s)
         \/ \E c \in Clients : ClientStops(c)
         \/ UNCHANGED connVars
  PROVE  NothingFallsBack /\ SourcesFollow
<1>1. UNCHANGED <<dialler, connection_source>>
  BY DEF Speak, ServerStops, ClientStops, connVars, endVars, slotVars
<1>2. SourcesFollow
  BY <1>1, SourcesKept
<1>3. \A d \in Dialled : acceptor'[d] \in {acceptor[d], "reset"}
  BY DEF Speak, ServerStops, ClientStops, connVars, endVars
<1>4. \A d \in Dialled : DialStage(d)' >= DialStage(d) /\ AcceptStage(d)' >= AcceptStage(d)
  BY <1>1, <1>3 DEF DialStage, AcceptStage
<1>5. \A s \in Servers : \/ network'[s] = network[s] /\ listener'[s] = listener[s]
                         \/ network'[s] = "crashed"
  BY DEF Speak, ServerStops, ClientStops, connVars, ConnTypeOK
<1>6. \A s \in Servers : StartStage(s)' >= StartStage(s)
  BY <1>5 DEF StartStage
<1> QED BY <1>2, <1>4, <1>6 DEF NothingFallsBack

\* Connecting cannot go on for ever: nothing falls back, every step of a task
\* brings something forward, and stages are few.  With NobodyWaitsInVain, every
\* new() returns after so many steps of the tasks that can go on.
THEOREM ConnectingEnds == ConnSpec => ConnectingMovesOn
<1>1. ConnTypeOK /\ EndsMatch /\ [ConnNext]_connVars =>
        /\ NothingFallsBack /\ SourcesFollow
        /\ (\E d \in Dialled : ConnectionSteps(d)) \/ (\E s \in Servers : StartingSteps(s))
             => SomethingDone
  <2> SUFFICES ASSUME ConnTypeOK, EndsMatch, [ConnNext]_connVars
               PROVE  /\ NothingFallsBack /\ SourcesFollow
                      /\ (\E d \in Dialled : ConnectionSteps(d)) \/ (\E s \in Servers : StartingSteps(s))
                           => SomethingDone
    OBVIOUS
  <2>1. (\E d \in Dialled : ConnectionSteps(d)) => NothingFallsBack /\ SourcesFollow /\ SomethingDone
    BY ConnectionMoves DEF SomethingDone
  <2>2. (\E s \in Servers : StartingSteps(s)) => NothingFallsBack /\ SourcesFollow /\ SomethingDone
    BY ServerMoves
  <2>3. \/ \E d \in Dialled : ConnectionSteps(d)
        \/ \E s \in Servers : StartingSteps(s)
        \/ NothingFallsBack /\ SourcesFollow
    BY OthersKeep DEF ConnNext
  <2> QED BY <2>1, <2>2, <2>3
<1>2. ConnTypeOK /\ EndsMatch /\ [ConnNext]_connVars =>
        [/\ \A d \in Dialled : DialStage(d)' >= DialStage(d) /\ AcceptStage(d)' >= AcceptStage(d)
         /\ \A s \in Servers :
              /\ StartStage(s)' >= StartStage(s)
              /\ Len(connection_source'[s]) > Len(connection_source[s]) =>
                   EndMoves /\ Len(connection_source'[s]) = Len(connection_source[s]) + 1
         /\ (\E d \in Dialled : ConnectionSteps(d)) \/ (\E s \in Servers : StartingSteps(s)) =>
              \/ EndMoves
              \/ \E s \in Servers : \/ StartStage(s)' > StartStage(s)
                                   \/ Len(connection_source'[s]) < Len(connection_source[s])]_connVars
  <2> HIDE DEF ConnectionSteps, StartingSteps, EndMoves, DialStage, AcceptStage, StartStage
  <2> QED BY <1>1 DEF NothingFallsBack, SourcesFollow, SomethingDone
<1>3. WaitInv => EndsMatch
  BY DEF WaitInv
<1> QED BY ConnTyped, CountInit, CountStep, WaitInit, WaitStep, <1>2, <1>3, PTL
    DEF ConnSpec, ConnectingMovesOn
=============================================================================
