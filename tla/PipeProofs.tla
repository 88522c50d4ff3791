----------------------------- MODULE PipeProofs -----------------------------
(***************************************************************************)
(* Theorems about Pipe, for every number of links and messages.            *)
(***************************************************************************)
EXTENDS Pipe, SequenceTheorems, TLAPS

(* Channels of messages of a set S.                                        *)
ChannelOf(S) == [Links -> Seq(S)]
Channel == ChannelOf(Message)

LEMMA MessageType ==
    ASSUME NEW id \in Nat, NEW b \in BOOLEAN
    PROVE  ShakeHand(id) \in Message /\ Data(b) \in Message
  BY DEF ShakeHand, Data, Message, Empty

LEMMA PostIn ==
    ASSUME NEW S, NEW q \in ChannelOf(S), NEW k \in Links, NEW m \in S
    PROVE  Post(q, k, m) \in ChannelOf(S)
<1>1. Append(q[k], m) \in Seq(S)
  BY DEF ChannelOf
<1>2. QED
  BY <1>1 DEF Post, ChannelOf

LEMMA PopIn ==
    ASSUME NEW S, NEW q \in ChannelOf(S), NEW k \in Links, NEW t, Incoming(q, k, t)
    PROVE  Pop(q, k) \in ChannelOf(S) /\ Head(q[k]) \in S
<1>1. q[k] \in Seq(S) /\ q[k] # <<>>
  BY DEF ChannelOf, Incoming
<1>2. Tail(q[k]) \in Seq(S) /\ Head(q[k]) \in S
  BY <1>1, HeadTailProperties
<1>3. Pop(q, k) \in ChannelOf(S)
  BY <1>2 DEF Pop, ChannelOf
<1>4. QED
  BY <1>2, <1>3

LEMMA PostType ==
    ASSUME NEW q \in Channel, NEW k \in Links, NEW m \in Message
    PROVE  Post(q, k, m) \in Channel
  BY PostIn DEF Channel

LEMMA PopType ==
    ASSUME NEW q \in Channel, NEW k \in Links, NEW t, Incoming(q, k, t)
    PROVE  Pop(q, k) \in Channel /\ Head(q[k]).id \in Nat
<1>1. Pop(q, k) \in Channel /\ Head(q[k]) \in Message
  BY PopIn DEF Channel
<1>2. QED
  BY <1>1 DEF Message

----------------------------------------------------------------------------
(* Type correctness.                                                       *)

(* The part of the type invariant each side's steps change, and the links. *)
ClientType ==
    /\ named \in BOOLEAN /\ attached \in BOOLEAN
    /\ pipe_id \in Nat /\ pipeid \in Nat /\ bind_pipes \subseteq Nat
    /\ ready_flag \in BOOLEAN /\ session \in BOOLEAN /\ unbind_pipe \in BOOLEAN
    /\ link \in 0..MaxLinks /\ end \in {"open", "lingering", "down"}
    /\ closing \in BOOLEAN

Steps == {"idle", "checked", "bound", "down", "told"}

ServerType ==
    /\ known \in BOOLEAN
    /\ connection \in 0..MaxLinks /\ sready \in BOOLEAN
    /\ conns \in [Links -> {"none", "open", "closing", "gone"}]
    /\ sessions \in [Links -> {"none", "pipe", "own"}]
    /\ unbinds \subseteq Links /\ pid_index \in Nat
    /\ pc \in [Links -> Steps]

OtherType ==
    /\ toServer \in Channel /\ toClient \in Channel
    /\ sent \in Nat /\ events \in Int /\ ignored \subseteq Links
    /\ lost \in BOOLEAN /\ overlapped \in BOOLEAN

(* The client has an open or lingering end of a real link.                 *)
HasLink == end # "down" => link \in Links

Types == ClientType /\ ServerType /\ OtherType /\ HasLink

LEMMA TypesGiveTypeOK == Types => TypeOK
  BY DEF Types, TypeOK, ClientType, ServerType, OtherType, Channel, ChannelOf, Steps

LEMMA InitType == Init => Types
<1> SUFFICES ASSUME Init PROVE Types
  OBVIOUS
<1> USE ConstantsAssumption
<1>1. pipe_id \in {Name, Empty} /\ bind_pipes \in {{Name}, {}}
  BY DEF Init
<1>2. pipe_id \in Nat /\ bind_pipes \subseteq Nat
  BY <1>1 DEF Name, Empty
<1>3. /\ named \in BOOLEAN /\ attached \in BOOLEAN /\ known \in BOOLEAN
      /\ ready_flag \in BOOLEAN /\ session \in BOOLEAN /\ unbind_pipe \in BOOLEAN
      /\ closing \in BOOLEAN /\ sready \in BOOLEAN /\ lost \in BOOLEAN
      /\ overlapped \in BOOLEAN
  BY Zenon DEF Init
<1>4. pipeid = pipe_id /\ link = 0 /\ end = "down"
  BY DEF Init
<1>5. ClientType /\ HasLink
  BY <1>2, <1>3, <1>4 DEF ClientType, HasLink
<1>6. /\ connection = 0 /\ unbinds = {} /\ pid_index = 0 /\ pc = [k \in Links |-> "idle"]
      /\ conns = [k \in Links |-> "none"] /\ sessions = [k \in Links |-> "none"]
  BY DEF Init
<1>7. ServerType
  BY <1>3, <1>6 DEF ServerType, Steps
<1>8. toServer = [k \in Links |-> <<>>] /\ toClient = [k \in Links |-> <<>>]
  BY DEF Init
<1>9. toServer \in Channel /\ toClient \in Channel
  BY <1>8, EmptySeq DEF Channel, ChannelOf
<1>10. sent = 0 /\ events = 0 /\ ignored = {}
  BY DEF Init
<1>11. OtherType
  BY <1>3, <1>9, <1>10 DEF OtherType
<1>12. QED
  BY <1>5, <1>7, <1>11 DEF Types

LEMMA ClientStepType ==
    ASSUME Types, Client \/ Register \/ Connect \/ ClientDown \/ ClientSend
    PROVE  Types'
<1> USE ConstantsAssumption
<1>0. ClientType /\ ServerType /\ OtherType /\ HasLink
  BY DEF Types
<1>1. CASE Register
  <2>1. ClientType' /\ ServerType' /\ OtherType'
    BY <1>0, <1>1 DEF Register, ClientType, ServerType, OtherType, server
  <2>2. QED
    BY <1>0, <1>1, <2>1 DEF Register, HasLink, Types
<1>2. CASE Connect
  <2>1. link + 1 \in Links
    BY <1>0, <1>2 DEF Connect, ClientType, Links
  <2>2. toServer' \in Channel
    BY <1>0, <1>2, <2>1, PostType, MessageType DEF Connect, ClientType, OtherType
  <2>3. ClientType' /\ ServerType' /\ OtherType'
    BY <1>0, <1>2, <2>1, <2>2 DEF Connect, ClientType, ServerType, OtherType, Links
  <2>4. QED
    BY <1>0, <1>2, <2>1, <2>3 DEF Connect, HasLink, Types
<1>3. CASE ClientDown
  <2>1. ClientType' /\ ServerType' /\ OtherType'
    BY <1>0, <1>3 DEF ClientDown, ClientUnbound, ClientType, ServerType, OtherType, server
  <2>2. QED
    BY <1>0, <1>3, <2>1 DEF ClientDown, HasLink, Types
<1>4. CASE OnClientClose
  <2>1. ClientType' /\ ServerType' /\ OtherType'
    BY <1>0, <1>4 DEF OnClientClose, ClientUnbound, ClientType, ServerType, OtherType, server
  <2>2. QED
    BY <1>0, <1>4, <2>1 DEF OnClientClose, HasLink, Types
<1>5. CASE OnAnswer
  <2> DEFINE id == Head(toClient[link]).id
  <2>1. link \in Links /\ Incoming(toClient, link, "SHAKE_HAND")
    BY <1>0, <1>5 DEF OnAnswer, Receives, HasLink
  <2>2. id \in Nat /\ Pop(toClient, link) \in Channel
    BY <1>0, <2>1, PopType DEF OtherType
  <2>3. ClientType'
    <3>1. UNCHANGED <<named, attached, link, end>>
      BY <1>5 DEF OnAnswer
    <3>2. ClientBind(id) \/ ClientRebind(id) \/ ClientReject(id)
      BY <1>5 DEF OnAnswer
    <3> HIDE DEF id
    <3>3. QED
      BY <1>0, <2>2, <3>1, <3>2
         DEF ClientBind, ClientRebind, ClientReject, bind, ClientType
  <2>4. ServerType' /\ OtherType' /\ HasLink'
    BY <1>0, <1>5, <2>2 DEF OnAnswer, ServerType, OtherType, server, HasLink
  <2>5. QED
    BY <2>3, <2>4 DEF Types
<1>6. CASE OnChallenge
  <2>1. link \in Links /\ Incoming(toClient, link, "SHAKE_HAND")
    BY <1>0, <1>6 DEF OnChallenge, Receives, HasLink
  <2>2. Pop(toClient, link) \in Channel
    BY <1>0, <2>1, PopType DEF OtherType
  <2>3. Post(toServer, link, ShakeHand(pipeid)) \in Channel
    BY <1>0, <2>1, PostType, MessageType DEF OtherType, ClientType
  <2>4. ClientType' /\ ServerType' /\ OtherType' /\ HasLink'
    BY <1>0, <1>6, <2>2, <2>3
       DEF OnChallenge, ClientType, ServerType, OtherType, client, server, HasLink
  <2>5. QED
    BY <2>4 DEF Types
<1>7. CASE OnClientData
  <2>1. link \in Links /\ Incoming(toClient, link, "DATA")
    BY <1>0, <1>7 DEF OnClientData, Receives, HasLink
  <2>2. Pop(toClient, link) \in Channel
    BY <1>0, <2>1, PopType DEF OtherType
  <2>3. lost' \in BOOLEAN
    BY <1>7, Zenon DEF OnClientData
  <2>4. ClientType' /\ ServerType' /\ OtherType' /\ HasLink'
    <3>1. /\ UNCHANGED <<client, server, toServer, sent, events, ignored, overlapped>>
          /\ toClient' = Pop(toClient, link)
      BY <1>7 DEF OnClientData
    <3>2. QED
      BY <1>0, <2>2, <2>3, <3>1
         DEF ClientType, ServerType, OtherType, client, server, HasLink
  <2>5. QED
    BY <2>4 DEF Types
<1>8. CASE ClientSend
  <2>1. link \in Links
    BY <1>0, <1>8 DEF ClientSend, client_is_ready, HasLink
  <2>2. Post(toServer, link, Data(FALSE)) \in Channel
    BY <1>0, <2>1, PostType, MessageType DEF OtherType
  <2>3. ClientType' /\ ServerType' /\ OtherType' /\ HasLink'
    <3>1. /\ UNCHANGED <<client, server, toClient, events, ignored, lost, overlapped>>
          /\ sent' = sent + 1 /\ toServer' = Post(toServer, link, Data(FALSE))
      BY <1>8 DEF ClientSend
    <3>2. ClientType' /\ ServerType' /\ HasLink'
      BY <1>0, <3>1 DEF ClientType, ServerType, client, server, HasLink
    <3>3. lost' \in BOOLEAN /\ overlapped' \in BOOLEAN
      BY <1>0, <3>1, Zenon DEF OtherType
    <3>4. OtherType'
      <4>1. toClient' \in Channel /\ toServer' \in Channel
        BY <1>0, <2>2, <3>1 DEF OtherType
      <4>2. sent' \in Nat /\ events' \in Int /\ ignored' \subseteq Links
        BY <1>0, <3>1 DEF OtherType
      <4>3. QED
        BY <3>3, <4>1, <4>2 DEF OtherType
    <3>5. QED
      BY <3>2, <3>4
  <2>4. QED
    BY <2>3 DEF Types
<1>9. QED
  BY <1>1, <1>2, <1>3, <1>4, <1>5, <1>6, <1>7, <1>8 DEF Client
LEMMA ServerStepType ==
    ASSUME Types, NEW k \in Links, Server(k) \/ Handler(k) \/ ServerDown(k)
    PROVE  Types'
<1> USE ConstantsAssumption
<1>0. ClientType /\ ServerType /\ OtherType /\ HasLink
  BY DEF Types
<1>1. ASSUME NEW t, ServerReceives(k, t)
      PROVE  Pop(toServer, k) \in Channel
  BY <1>0, <1>1, PopType DEF ServerReceives, OtherType
<1>2. ASSUME UNCHANGED client PROVE ClientType' /\ HasLink'
  BY <1>0, <1>2 DEF client, ClientType, HasLink
<1>a. ASSUME NEW step \in Steps, At(k, step) PROVE pc' \in [Links -> Steps]
  BY <1>0, <1>a DEF At, ServerType
<1>3. CASE OnHandshake(k)
  <2>1. Pop(toServer, k) \in Channel
    BY <1>1, <1>3 DEF OnHandshake
  <2>2. ServerType'
    <3>1. UNCHANGED <<known, connection, sready, conns, sessions, unbinds, pid_index>>
      BY <1>3 DEF OnHandshake
    <3>2. pc' = pc \/ At(k, "checked")
      BY <1>3 DEF OnHandshake
    <3>3. pc' \in [Links -> Steps]
      BY <1>0, <1>a, <3>2 DEF Steps, ServerType
    <3>4. QED
      BY <1>0, <3>1, <3>3 DEF ServerType
  <2>3. OtherType'
    BY <1>0, <1>3, <2>1 DEF OnHandshake, OtherType
  <2>4. QED
    BY <1>2, <1>3, <2>2, <2>3 DEF OnHandshake, Types
<1>4. CASE OnUnknown(k)
  <2>1. Pop(toServer, k) \in Channel
    BY <1>1, <1>4 DEF OnUnknown
  <2>2. ServerType'
    BY <1>0, <1>4 DEF OnUnknown, ServerType
  <2>3. OtherType'
    BY <1>0, <1>4, <2>1 DEF OnUnknown, OtherType
  <2>4. QED
    BY <1>2, <1>4, <2>2, <2>3 DEF OnUnknown, Types
<1>5. CASE OnUnnamed(k)
  <2>1. Pop(toServer, k) \in Channel
    BY <1>1, <1>5 DEF OnUnnamed
  <2>2. PICK id : id \in Nat /\ toClient' = Post(toClient, k, ShakeHand(id))
    BY <1>0, <1>5 DEF OnUnnamed, generate_id, ServerType, Name
  <2>3. toClient' \in Channel
    BY <1>0, <2>2, PostType, MessageType DEF OtherType
  <2>4. ServerType'
    BY <1>0, <1>5 DEF OnUnnamed, ServerType
  <2>5. OtherType'
    BY <1>0, <1>5, <2>1, <2>3 DEF OnUnnamed, OtherType
  <2>6. QED
    BY <1>2, <1>5, <2>4, <2>5 DEF OnUnnamed, Types
<1>6. CASE OnServerData(k)
  <2>1. Pop(toServer, k) \in Channel
    BY <1>1, <1>6 DEF OnServerData
  <2>2. Post(toClient, k, ShakeHand(Empty)) \in Channel
    BY <1>0, PostType, MessageType DEF OtherType, Empty
  <2>3. ServerType'
    BY <1>0, <1>6 DEF OnServerData, ServerType, server
  <2>4. OtherType'
    BY <1>0, <1>6, <2>1, <2>2 DEF OnServerData, OtherType
  <2>5. QED
    BY <1>2, <1>6, <2>3, <2>4 DEF OnServerData, Types
<1>7. CASE ServerDown(k) \/ ServerTold(k)
  <2>1. pc' \in [Links -> Steps]
    BY <1>7, <1>a DEF ServerDown, ServerTold, Steps
  <2>2. /\ conns' = conns \/ conns' = [conns EXCEPT ![k] = "gone"]
        /\ UNCHANGED <<known, connection, sready, sessions, unbinds, pid_index>>
    BY <1>7 DEF ServerDown, ServerTold
  <2>3. ServerType'
    BY <1>0, <2>1, <2>2 DEF ServerType
  <2>4. OtherType'
    BY <1>0, <1>7 DEF ServerDown, ServerTold, OtherType
  <2>5. QED
    BY <1>2, <1>7, <2>3, <2>4 DEF ServerDown, ServerTold, Types
<1>8. CASE ServerUnbind(k)
  <2>1. pc' \in [Links -> Steps]
    BY <1>8, <1>a DEF ServerUnbind, Steps
  <2>2. sready' \in BOOLEAN
    BY <1>8, Zenon DEF ServerUnbind
  <2>3. unbinds' = unbinds \ {k} /\ UNCHANGED <<known, connection, conns, sessions, pid_index>>
    BY <1>8 DEF ServerUnbind
  <2>4. ServerType'
    BY <1>0, <2>1, <2>2, <2>3 DEF ServerType
  <2>5. OtherType'
    BY <1>0, <1>8 DEF ServerUnbind, OtherType
  <2>6. QED
    BY <1>2, <1>8, <2>4, <2>5 DEF ServerUnbind, Types
<1>9. CASE ServerAnswer(k)
  <2>1. pc' \in [Links -> Steps]
    BY <1>9, <1>a DEF ServerAnswer, Steps
  <2>2. Post(toClient, k, ShakeHand(Name)) \in Channel
    BY <1>0, PostType, MessageType DEF OtherType, Name
  <2>3. ServerType'
    BY <1>0, <1>9, <2>1 DEF ServerAnswer, ServerType
  <2>4. OtherType'
    BY <1>0, <1>9, <2>2 DEF ServerAnswer, OtherType
  <2>5. QED
    BY <1>2, <1>9, <2>3, <2>4 DEF ServerAnswer, Types
<1>10. CASE Bind(k)
  <2>1. pc' \in [Links -> Steps]
    BY <1>10, <1>a DEF Bind, Steps
  <2>2. overlapped' \in BOOLEAN
    BY <1>10, Zenon DEF Bind
  <2>3. /\ connection' = k /\ sready' = TRUE /\ sessions' = [sessions EXCEPT ![k] = "pipe"]
        /\ UNCHANGED <<known, conns, unbinds, pid_index>>
    BY <1>10 DEF Bind
  <2>4. ServerType'
    BY <1>0, <2>1, <2>3 DEF ServerType, Links
  <2>5. OtherType'
    <3>1. UNCHANGED <<toServer, toClient, sent, events, ignored, lost>>
      BY <1>10 DEF Bind
    <3>2. lost' \in BOOLEAN
      BY <1>0, <3>1, Zenon DEF OtherType
    <3>3. QED
      BY <1>0, <2>2, <3>1, <3>2 DEF OtherType
  <2>6. QED
    BY <1>2, <1>10, <2>4, <2>5 DEF Bind, Types
<1>11. QED
  BY <1>3, <1>4, <1>5, <1>6, <1>7, <1>8, <1>9, <1>10 DEF Server, Handler

LEMMA SendStepType ==
    ASSUME Types, ServerSend
    PROVE  Types'
<1>0. ClientType /\ ServerType /\ OtherType /\ HasLink
  BY DEF Types
<1>1. connection \in Links
  BY DEF ServerSend, is_ready, Open
<1>2. PICK b \in BOOLEAN : b = (pc[connection] = "bound")
  OBVIOUS
<1>3. Post(toClient, connection, Data(b)) \in Channel
  BY <1>0, <1>1, PostType, MessageType DEF OtherType
<1>4. toClient' = Post(toClient, connection, Data(b))
  BY <1>2 DEF ServerSend
<1>5. UNCHANGED <<client, server, toServer, events, ignored, lost, overlapped>> /\ sent' = sent + 1
  BY DEF ServerSend
<1>6. lost' \in BOOLEAN /\ overlapped' \in BOOLEAN
  BY <1>0, <1>5, Zenon DEF OtherType
<1>7. OtherType'
  BY <1>0, <1>3, <1>4, <1>5, <1>6 DEF OtherType
<1>8. ClientType' /\ ServerType' /\ HasLink'
  BY <1>0, <1>5 DEF ClientType, ServerType, client, server, HasLink
<1>9. QED
  BY <1>7, <1>8 DEF Types

LEMMA StepType == Types /\ [Next]_vars => Types'
<1> SUFFICES ASSUME Types, [Next]_vars PROVE Types'
  OBVIOUS
<1>1. CASE Client \/ Register \/ Connect \/ ClientDown \/ ClientSend
  BY <1>1, ClientStepType
<1>2. CASE \E k \in Links : Server(k) \/ Handler(k) \/ ServerDown(k)
  BY <1>2, ServerStepType
<1>3. CASE ServerSend
  BY <1>3, SendStepType
<1>4. CASE UNCHANGED vars
  BY <1>4 DEF vars, client, server, Types, ClientType, ServerType, OtherType, HasLink
<1>5. QED
  BY <1>1, <1>2, <1>3, <1>4 DEF Next

LEMMA TypesAlways == Spec => []Types
  BY InitType, StepType, PTL DEF Spec

(* Every variable keeps its type, in every behaviour.                      *)
THEOREM PipeTypeCorrect == Spec => []TypeOK
  BY TypesAlways, TypesGiveTypeOK, PTL

----------------------------------------------------------------------------
(* A client with a name uses it in every handshake and a client without    *)
(* one never does, so only the former is bound to the attached session.    *)

Asked(n)    == {m \in Message : m.type = "SHAKE_HAND" => (m.id = Name <=> n)}
Answered(n) == {m \in Message : n \/ m.id # Name}

NameInv ==
    /\ named <=> pipe_id = Name
    /\ named <=> pipeid = Name
    /\ toServer \in ChannelOf(Asked(named))
    /\ toClient \in ChannelOf(Answered(named))
    /\ ~named => \A k \in Links : pc[k] \notin {"checked", "bound"} /\ sessions[k] # "pipe"

LEMMA InitName == Init => NameInv
<1> SUFFICES ASSUME Init PROVE NameInv
  OBVIOUS
<1>1. (named <=> pipe_id = Name) /\ (named <=> pipeid = Name)
  BY DEF Init, Name, Empty
<1>2. toServer = [k \in Links |-> <<>>] /\ toClient = [k \in Links |-> <<>>]
  BY DEF Init
<1>3. toServer \in ChannelOf(Asked(named)) /\ toClient \in ChannelOf(Answered(named))
  BY <1>2, EmptySeq DEF ChannelOf
<1>4. \A k \in Links : pc[k] = "idle" /\ sessions[k] # "pipe"
  BY DEF Init
<1>5. QED
  BY <1>1, <1>3, <1>4 DEF NameInv

LEMMA ClientName ==
    ASSUME Types, NameInv, Client \/ Register \/ Connect \/ ClientDown \/ ClientSend
    PROVE  NameInv'
<1> USE ConstantsAssumption
<1>0. ClientType /\ HasLink
  BY DEF Types
<1>1. named' = named /\ pc' = pc /\ sessions' = sessions
  BY DEF Client, OnAnswer, OnChallenge, OnClientData, OnClientClose, Register, Connect,
         ClientDown, ClientSend, client, server
<1>2. ASSUME UNCHANGED <<pipe_id, pipeid>>,
             toServer' \in ChannelOf(Asked(named)), toClient' \in ChannelOf(Answered(named))
      PROVE  NameInv'
  BY <1>1, <1>2 DEF NameInv
<1>3. ShakeHand(pipeid) \in Asked(named) /\ Data(FALSE) \in Asked(named)
  <2>1. ShakeHand(pipeid) \in Message /\ Data(FALSE) \in Message
    BY <1>0, MessageType DEF ClientType
  <2>2. QED
    BY <2>1 DEF NameInv, Asked, ShakeHand, Data
<1>4. ASSUME link \in Links
      PROVE  /\ Post(toServer, link, ShakeHand(pipeid)) \in ChannelOf(Asked(named))
             /\ Post(toServer, link, Data(FALSE)) \in ChannelOf(Asked(named))
  BY <1>3, <1>4, PostIn DEF NameInv
<1>5. ASSUME NEW t, Receives(t)
      PROVE  /\ link \in Links
             /\ Pop(toClient, link) \in ChannelOf(Answered(named))
             /\ Head(toClient[link]) \in Answered(named)
  <2>1. link \in Links /\ Incoming(toClient, link, t)
    BY <1>0, <1>5 DEF Receives, HasLink
  <2>2. QED
    BY <2>1, PopIn DEF NameInv
<1>6. CASE Register \/ ClientDown \/ OnClientClose
  <2>1. UNCHANGED <<pipe_id, pipeid, toServer, toClient>>
    BY <1>6 DEF Register, ClientDown, OnClientClose
  <2>2. QED
    BY <1>2, <2>1 DEF NameInv
<1>7. CASE Connect
  <2>1. link + 1 \in Links
    BY <1>0, <1>7 DEF Connect, ClientType, Links
  <2>2. Post(toServer, link + 1, ShakeHand(pipeid)) \in ChannelOf(Asked(named))
    BY <1>3, <2>1, PostIn DEF NameInv
  <2>3. UNCHANGED <<pipe_id, pipeid, toClient>>
    BY <1>7 DEF Connect
  <2>4. QED
    BY <1>2, <1>7, <2>2, <2>3 DEF Connect, NameInv
<1>8. CASE OnChallenge
  <2>1. /\ UNCHANGED <<pipe_id, pipeid>> /\ toClient' = Pop(toClient, link)
        /\ Receives("SHAKE_HAND")
        /\ toServer' \in {toServer, Post(toServer, link, ShakeHand(pipeid))}
    BY <1>8 DEF OnChallenge, client
  <2>2. QED
    BY <1>2, <1>4, <1>5, <2>1 DEF NameInv
<1>9. CASE OnClientData
  <2>1. /\ UNCHANGED <<pipe_id, pipeid, toServer>> /\ toClient' = Pop(toClient, link)
        /\ Receives("DATA")
    BY <1>9 DEF OnClientData, client
  <2>2. QED
    BY <1>2, <1>5, <2>1 DEF NameInv
<1>10. CASE ClientSend
  <2>1. /\ UNCHANGED <<pipe_id, pipeid, toClient>> /\ link \in Links
        /\ toServer' = Post(toServer, link, Data(FALSE))
    BY <1>0, <1>10 DEF ClientSend, client, client_is_ready, HasLink
  <2>2. QED
    BY <1>2, <1>4, <2>1 DEF NameInv
<1>11. CASE OnAnswer
  <2>1. PICK id : id = Head(toClient[link]).id
    OBVIOUS
  <2>2. /\ Receives("SHAKE_HAND") /\ toServer' = toServer /\ toClient' = Pop(toClient, link)
        /\ ClientBind(id) \/ ClientRebind(id) \/ ClientReject(id)
    BY <1>11, <2>1 DEF OnAnswer
  <2>3. named \/ id # Name
    BY <1>5, <2>1, <2>2 DEF Answered
  <2>4. /\ pipe_id' = pipe_id \/ (pipe_id = Empty /\ pipe_id' = id)
        /\ pipeid' = pipeid \/ pipeid' = pipe_id
    BY <2>2 DEF ClientBind, ClientRebind, ClientReject, bind
  <2>5. (named <=> pipe_id' = Name) /\ (named <=> pipeid' = Name)
    BY <2>3, <2>4 DEF NameInv, Name, Empty
  <2>6. QED
    BY <1>1, <1>5, <2>2, <2>5 DEF NameInv
<1>12. QED
  BY <1>6, <1>7, <1>8, <1>9, <1>10, <1>11 DEF Client

LEMMA ServerName ==
    ASSUME Types, NameInv, NEW k \in Links, Server(k) \/ Handler(k) \/ ServerDown(k)
    PROVE  NameInv'
<1> USE ConstantsAssumption
<1>0. ServerType
  BY DEF Types
<1>1. UNCHANGED <<named, pipe_id, pipeid>>
  BY DEF Server, Handler, OnHandshake, OnUnknown, OnUnnamed, OnServerData, ServerDown, Bind,
         ServerAnswer, ServerTold, ServerUnbind, client
<1> DEFINE Unnamed == \A j \in Links : pc[j] \notin {"checked", "bound"} /\ sessions[j] # "pipe"
<1>2. ASSUME toServer' \in ChannelOf(Asked(named)), toClient' \in ChannelOf(Answered(named)),
             ~named => Unnamed'
      PROVE  NameInv'
  BY <1>1, <1>2 DEF NameInv
<1>3. ASSUME NEW t, ServerReceives(k, t)
      PROVE  Pop(toServer, k) \in ChannelOf(Asked(named)) /\ Head(toServer[k]) \in Asked(named)
  BY <1>3, PopIn DEF ServerReceives, NameInv
<1>4. ASSUME NEW j \in Links, NEW id \in Nat, named \/ id # Name
      PROVE  Post(toClient, j, ShakeHand(id)) \in ChannelOf(Answered(named))
  <2>1. ShakeHand(id) \in Answered(named)
    BY <1>4, MessageType DEF Answered, ShakeHand
  <2>2. QED
    BY <2>1, PostIn DEF NameInv
<1>5. CASE OnHandshake(k)
  <2>1. /\ ServerReceives(k, "SHAKE_HAND") /\ Head(toServer[k]).id = Name
        /\ toServer' = Pop(toServer, k) /\ toClient' = toClient
    BY <1>5 DEF OnHandshake
  <2>2. Head(toServer[k]).type = "SHAKE_HAND"
    BY <2>1 DEF ServerReceives, Incoming
  <2>3. named
    BY <1>3, <2>1, <2>2 DEF Asked
  <2>4. QED
    BY <1>2, <1>3, <2>1, <2>3 DEF NameInv
<1>6. CASE OnUnknown(k)
  <2>1. /\ ServerReceives(k, "SHAKE_HAND") /\ toServer' = Pop(toServer, k)
        /\ UNCHANGED <<toClient, pc, sessions>>
    BY <1>6 DEF OnUnknown
  <2>2. QED
    BY <1>2, <1>3, <2>1 DEF NameInv
<1>7. CASE OnUnnamed(k)
  <2>1. /\ ServerReceives(k, "SHAKE_HAND") /\ toServer' = Pop(toServer, k)
        /\ pc' = pc /\ sessions' = [sessions EXCEPT ![k] = "own"]
    BY <1>7 DEF OnUnnamed
  <2>2. PICK id : id \in Nat /\ id # Name /\ toClient' = Post(toClient, k, ShakeHand(id))
    BY <1>0, <1>7 DEF OnUnnamed, generate_id, Name, ServerType
  <2>3. toClient' \in ChannelOf(Answered(named))
    BY <1>4, <2>2
  <2>4. ~named => Unnamed'
    BY <1>0, <2>1 DEF NameInv, ServerType
  <2>5. QED
    BY <1>2, <1>3, <2>1, <2>3, <2>4
<1>8. CASE OnServerData(k)
  <2>1. /\ ServerReceives(k, "DATA") /\ toServer' = Pop(toServer, k)
        /\ toClient' \in {toClient, Post(toClient, k, ShakeHand(Empty))}
        /\ UNCHANGED <<pc, sessions>>
    BY <1>8 DEF OnServerData, server
  <2>2. Post(toClient, k, ShakeHand(Empty)) \in ChannelOf(Answered(named))
    BY <1>4 DEF Empty, Name
  <2>3. toClient' \in ChannelOf(Answered(named))
    BY <2>1, <2>2 DEF NameInv
  <2>4. QED
    BY <1>2, <1>3, <2>1, <2>3 DEF NameInv
<1>9. CASE ServerDown(k) \/ ServerTold(k) \/ ServerUnbind(k)
  <2>1. UNCHANGED <<toServer, toClient, sessions>>
    BY <1>9 DEF ServerDown, ServerTold, ServerUnbind
  <2>2. At(k, "down") \/ At(k, "told") \/ At(k, "idle")
    BY <1>9 DEF ServerDown, ServerTold, ServerUnbind
  <2>3. ~named => Unnamed'
    BY <1>0, <2>1, <2>2 DEF NameInv, ServerType, At
  <2>4. QED
    BY <1>2, <2>1, <2>3 DEF NameInv
<1>10. CASE ServerAnswer(k)
  <2>1. /\ named /\ toClient' = Post(toClient, k, ShakeHand(Name))
        /\ UNCHANGED <<toServer, sessions>>
    BY <1>0, <1>10 DEF ServerAnswer, NameInv
  <2>2. toClient' \in ChannelOf(Answered(named))
    BY <1>4, <2>1 DEF Name
  <2>3. QED
    BY <1>2, <2>1, <2>2 DEF NameInv
<1>11. CASE Bind(k)
  <2>1. named /\ UNCHANGED <<toServer, toClient>>
    BY <1>11 DEF Bind, NameInv
  <2>2. QED
    BY <1>2, <2>1 DEF NameInv
<1>12. QED
  BY <1>5, <1>6, <1>7, <1>8, <1>9, <1>10, <1>11 DEF Server, Handler

LEMMA SendName ==
    ASSUME Types, NameInv, ServerSend
    PROVE  NameInv'
<1>1. /\ connection \in Links
      /\ UNCHANGED <<named, pipe_id, pipeid, toServer, pc, sessions>>
  BY DEF ServerSend, is_ready, Open, server, client
<1>2. PICK b \in BOOLEAN : b = (pc[connection] = "bound")
  OBVIOUS
<1>3. Data(b) \in Message /\ Data(b).id = Empty
  BY MessageType DEF Data
<1>4. Data(b) \in Answered(named)
  BY <1>3 DEF Answered, Empty, Name
<1>5. toClient' = Post(toClient, connection, Data(b))
  BY <1>2 DEF ServerSend
<1>6. toClient' \in ChannelOf(Answered(named))
  BY <1>1, <1>4, <1>5, PostIn DEF NameInv
<1>7. QED
  BY <1>1, <1>6 DEF NameInv

LEMMA StepName == Types /\ NameInv /\ [Next]_vars => NameInv'
<1> SUFFICES ASSUME Types, NameInv, [Next]_vars PROVE NameInv'
  OBVIOUS
<1>1. CASE Client \/ Register \/ Connect \/ ClientDown \/ ClientSend
  BY <1>1, ClientName
<1>2. CASE \E k \in Links : Server(k) \/ Handler(k) \/ ServerDown(k)
  BY <1>2, ServerName
<1>3. CASE ServerSend
  BY <1>3, SendName
<1>4. CASE UNCHANGED vars
  BY <1>4 DEF vars, client, server, NameInv
<1>5. QED
  BY <1>1, <1>2, <1>3, <1>4 DEF Next

----------------------------------------------------------------------------
(* The binding of the server's session.                                    *)
(*                                                                         *)
(* ShapeInv is what every step keeps, overlapping or not: where a handler  *)
(* can be, given its connection.                                           *)

PcShape ==
    \A k \in Links : /\ pc[k] = "checked" => Open(k)
                     /\ pc[k] = "bound" => Bound(k)
                     /\ pc[k] \in {"down", "told"} => conns[k] = "gone"

(* The links the client has not made yet.                                  *)
Fresh == \A k \in Links : k > link => conns[k] = "none" /\ sessions[k] = "none" /\ pc[k] = "idle"

(* The session's last connection is one that was bound to it.              *)
LastBound == connection # 0 => connection \in Links /\ sessions[connection] = "pipe"

ShapeInv == PcShape /\ Fresh /\ LastBound /\ UnbindsAreOpen

(* CalmInv holds until two handlers overlap.  A link holds the session     *)
(* from its bind to its unbind, and only one does; a handler that has      *)
(* found the session not ready finds it unbound as long as nobody else has *)
(* bound it, and whoever does overlaps with that handler.                  *)

Holds(k) == sessions[k] = "pipe" /\ (Open(k) \/ pc[k] \in {"down", "told"})

OneHolder   == \A k \in Links : Holds(k) => sready /\ connection = k
Unhindered  == \A k \in Links : pc[k] = "checked" => \A j \in Links : ~Bound(j)
EventsCount == events = IF \E k \in Links : Connected(k) THEN 1 ELSE 0

CalmInv == ~overlapped => OneHolder /\ Unhindered /\ EventsCount

BindInv == ShapeInv /\ CalmInv

LEMMA InitBind == Init => BindInv
<1> SUFFICES ASSUME Init PROVE BindInv
  OBVIOUS
<1>1. /\ conns = [k \in Links |-> "none"] /\ events = 0 /\ unbinds = {}
      /\ sessions = [k \in Links |-> "none"] /\ connection = 0
      /\ pc = [k \in Links |-> "idle"]
  BY DEF Init
<1>2. \A k \in Links : conns[k] = "none" /\ sessions[k] = "none" /\ pc[k] = "idle"
  BY <1>1
<1>3. \A k \in Links : ~Holds(k) /\ ~Bound(k) /\ ~Connected(k)
  BY <1>2 DEF Holds, Bound, Connected
<1>4. ShapeInv
  BY <1>1, <1>2 DEF ShapeInv, PcShape, Fresh, LastBound, UnbindsAreOpen
<1>5. CalmInv
  BY <1>1, <1>2, <1>3 DEF CalmInv, OneHolder, Unhindered, EventsCount
<1>6. QED
  BY <1>4, <1>5 DEF BindInv

(* Steps that touch neither the session nor the connections bound to it.   *)
LEMMA QuietBind ==
    ASSUME BindInv, UNCHANGED <<connection, sready, conns, sessions, unbinds, pc, events,
                                link, overlapped>>
    PROVE  BindInv'
<1>1. \A k : /\ Open(k)' <=> Open(k)
             /\ Bound(k)' <=> Bound(k)
             /\ Holds(k)' <=> Holds(k)
             /\ Connected(k)' <=> Connected(k)
  BY DEF Open, Bound, Holds, Connected
<1>2. ShapeInv'
  BY <1>1 DEF BindInv, ShapeInv, PcShape, Fresh, LastBound, UnbindsAreOpen
<1>3. CalmInv'
  BY <1>1 DEF BindInv, CalmInv, OneHolder, Unhindered, EventsCount
<1>4. QED
  BY <1>2, <1>3 DEF BindInv

LEMMA ClientBindInv ==
    ASSUME Types, BindInv, Client \/ Register \/ ClientDown \/ ClientSend \/ ServerSend
    PROVE  BindInv'
<1>1. UNCHANGED <<server, events, link, overlapped>>
  BY DEF Client, client, OnAnswer, OnChallenge, OnClientData, OnClientClose, Register, ClientDown,
         ClientSend, ServerSend
<1>2. QED
  BY <1>1, QuietBind DEF server

LEMMA ConnectBindInv ==
    ASSUME Types, BindInv, Connect
    PROVE  BindInv'
<1> USE ConstantsAssumption
<1>0. PICK n : n = link + 1
  OBVIOUS
<1>1. /\ n \in Links /\ link' = n /\ conns' = [conns EXCEPT ![n] = "open"]
      /\ UNCHANGED <<connection, sready, sessions, unbinds, pc, events, overlapped>>
  BY <1>0 DEF Connect, Types, ClientType, Links
<1>2. conns \in [Links -> {"none", "open", "closing", "gone"}] /\ link \in Nat
  BY DEF Types, ServerType, ClientType
<1>3. sessions[n] = "none" /\ conns[n] = "none" /\ pc[n] = "idle"
  BY <1>0, <1>1, <1>2 DEF BindInv, ShapeInv, Fresh
<1>4. /\ conns'[n] = "open" /\ \A k \in Links : k # n => conns'[k] = conns[k]
      /\ \A k : k # n => (Open(k)' <=> Open(k))
      /\ ~Open(n) /\ Open(n)'
  BY <1>1, <1>2, <1>3 DEF Open
<1>5. \A k : /\ Bound(k)' <=> Bound(k)
             /\ Holds(k)' <=> Holds(k)
             /\ Connected(k)' <=> Connected(k)
  BY <1>1, <1>3, <1>4 DEF Bound, Holds, Connected
<1>6. CalmInv'
  BY <1>1, <1>5 DEF BindInv, CalmInv, OneHolder, Unhindered, EventsCount
<1>7. UnbindsAreOpen' /\ PcShape' /\ LastBound'
  BY <1>1, <1>3, <1>4, <1>5 DEF BindInv, ShapeInv, UnbindsAreOpen, PcShape, LastBound
<1>8. Fresh'
  BY <1>0, <1>1, <1>2, <1>4 DEF BindInv, ShapeInv, Fresh, Links
<1>9. QED
  BY <1>6, <1>7, <1>8 DEF BindInv, ShapeInv

(* A handler of link k takes a step to step s.                             *)
LEMMA AtStep ==
    ASSUME Types, NEW k \in Links, NEW s, At(k, s)
    PROVE  pc'[k] = s /\ \A j \in Links : j # k => pc'[j] = pc[j]
  BY DEF At, Types, ServerType

LEMMA HandshakeBindInv ==
    ASSUME Types, BindInv, NEW k \in Links, OnHandshake(k)
    PROVE  BindInv'
<1>1. /\ Open(k) /\ pc[k] = "idle"
      /\ UNCHANGED <<connection, sready, conns, sessions, unbinds, events, link, overlapped>>
  BY DEF OnHandshake, ServerReceives, Free, client
<1>2. CASE pc' = pc
  BY <1>1, <1>2, QuietBind
<1>3. CASE ~is_ready /\ At(k, "checked")
  <2>1. pc'[k] = "checked" /\ \A j \in Links : j # k => pc'[j] = pc[j]
    BY <1>3, AtStep
  <2>2. \A j : /\ Open(j)' <=> Open(j)
               /\ Bound(j)' <=> Bound(j)
    BY <1>1 DEF Open, Bound
  <2>3. \A j \in Links : /\ Holds(j)' <=> Holds(j)
                         /\ Connected(j)' <=> Connected(j)
    BY <1>1, <2>1, <2>2 DEF Holds, Connected
  <2>4. ShapeInv'
    <3>1. PcShape' /\ LastBound' /\ UnbindsAreOpen'
      BY <1>1, <2>1, <2>2 DEF BindInv, ShapeInv, PcShape, LastBound, UnbindsAreOpen,
                              Types, ServerType
    <3>2. Fresh'
      BY <1>1, <2>1 DEF BindInv, ShapeInv, Fresh, Open
    <3>3. QED
      BY <3>1, <3>2 DEF ShapeInv
  <2>5. CalmInv'
    <3>1. SUFFICES ASSUME ~overlapped PROVE OneHolder' /\ Unhindered' /\ EventsCount'
      BY <1>1 DEF CalmInv
    <3>2. OneHolder /\ Unhindered /\ EventsCount
      BY <3>1 DEF BindInv, CalmInv
    <3>3. \A j \in Links : ~Bound(j)
      BY <1>3, <3>2 DEF OneHolder, Holds, Bound, is_ready
    <3>4. QED
      BY <1>1, <2>2, <2>3, <3>2, <3>3 DEF OneHolder, Unhindered, EventsCount
  <2>6. QED
    BY <2>4, <2>5 DEF BindInv
<1>4. QED
  BY <1>2, <1>3 DEF OnHandshake

LEMMA BindBindInv ==
    ASSUME Types, BindInv, NEW k \in Links, Bind(k)
    PROVE  BindInv'
<1> USE ConstantsAssumption
<1>1. /\ pc[k] = "checked" /\ connection' = k /\ sready' = TRUE
      /\ sessions' = [sessions EXCEPT ![k] = "pipe"]
      /\ UNCHANGED <<conns, unbinds, events, link>>
  BY DEF Bind, client
<1>2. /\ pc'[k] = "bound" /\ \A j \in Links : j # k => pc'[j] = pc[j]
      /\ sessions'[k] = "pipe" /\ \A j \in Links : j # k => sessions'[j] = sessions[j]
  BY <1>1, AtStep DEF Bind, Types, ServerType
<1>3. Open(k) /\ \A j : Open(j)' <=> Open(j)
  BY <1>1 DEF Open, BindInv, ShapeInv, PcShape
<1>4. Bound(k)' /\ \A j \in Links : j # k => (Bound(j)' <=> Bound(j))
  BY <1>2, <1>3 DEF Bound
<1>5. ShapeInv'
  <2>1. PcShape'
    BY <1>1, <1>2, <1>3, <1>4 DEF BindInv, ShapeInv, PcShape
  <2>2. Fresh'
    BY <1>1, <1>2, <1>3 DEF BindInv, ShapeInv, Fresh, Open
  <2>3. LastBound'
    BY <1>1, <1>2 DEF LastBound
  <2>4. UnbindsAreOpen'
    BY <1>1, <1>2, <1>3 DEF BindInv, ShapeInv, UnbindsAreOpen, Types, ServerType
  <2>5. QED
    BY <2>1, <2>2, <2>3, <2>4 DEF ShapeInv
<1>6. CalmInv'
  <2>1. SUFFICES ASSUME ~overlapped' PROVE OneHolder' /\ Unhindered' /\ EventsCount'
    BY DEF CalmInv
  <2>2. ~overlapped /\ \A j \in Links : j # k => ~Competes(j)
    BY <2>1, Zenon DEF Bind
  <2>3. OneHolder /\ Unhindered /\ EventsCount
    BY <2>2 DEF BindInv, CalmInv
  <2>4. \A j \in Links : ~Bound(j)
    BY <1>1, <2>3 DEF Unhindered
  <2>5. \A j \in Links : j # k => ~Holds(j) /\ ~Connected(j)
    BY <2>2, <2>4 DEF Holds, Connected, Competes, Bound
  <2>6. ~Connected(k) /\ ~Connected(k)'
    BY <1>1, <1>2, <2>4 DEF Connected, Bound
  <2>7. \A j \in Links : j # k => ~Holds(j)' /\ ~Connected(j)'
    BY <1>2, <1>3, <2>5 DEF Holds, Connected
  <2>8. OneHolder'
    BY <1>1, <2>7 DEF OneHolder
  <2>9. Unhindered'
    BY <1>2, <2>2 DEF Unhindered, Competes
  <2>10. EventsCount'
    BY <1>1, <2>3, <2>5, <2>6, <2>7 DEF EventsCount
  <2>11. QED
    BY <2>8, <2>9, <2>10
<1>7. QED
  BY <1>5, <1>6 DEF BindInv

(* Steps of a handler that change no connection: what is left to show is   *)
(* the count of events and who holds the session.                          *)
LEMMA HandlerShape ==
    ASSUME Types, BindInv, NEW k \in Links, NEW s, At(k, s),
           UNCHANGED <<connection, conns, sessions, unbinds, link>>,
           \/ s = "idle" /\ pc[k] = "bound"
           \/ s = "told" /\ pc[k] = "down"
    PROVE  ShapeInv'
<1>1. pc'[k] = s /\ \A j \in Links : j # k => pc'[j] = pc[j]
  BY AtStep
<1>2. \A j : /\ Open(j)' <=> Open(j)
             /\ Bound(j)' <=> Bound(j)
  BY DEF Open, Bound
<1>3. PcShape'
  BY <1>1, <1>2 DEF BindInv, ShapeInv, PcShape
<1>4. Fresh' /\ LastBound'
  BY <1>1 DEF BindInv, ShapeInv, Fresh, LastBound, PcShape
<1>5. UnbindsAreOpen'
  BY <1>1, <1>2 DEF BindInv, ShapeInv, UnbindsAreOpen, PcShape, Bound, Types, ServerType
<1>6. QED
  BY <1>3, <1>4, <1>5 DEF ShapeInv

LEMMA AnswerBindInv ==
    ASSUME Types, BindInv, NEW k \in Links, ServerAnswer(k)
    PROVE  BindInv'
<1>1. /\ pc[k] = "bound" /\ events' = events + 1 /\ At(k, "idle")
      /\ UNCHANGED <<connection, sready, conns, sessions, unbinds, link, overlapped>>
  BY DEF ServerAnswer, client
<1>2. ShapeInv'
  BY <1>1, HandlerShape
<1>3. pc'[k] = "idle" /\ \A j \in Links : j # k => pc'[j] = pc[j]
  BY <1>1, AtStep
<1>4. Bound(k)
  BY <1>1 DEF BindInv, ShapeInv, PcShape
<1>5. \A j : /\ Open(j)' <=> Open(j)
             /\ Bound(j)' <=> Bound(j)
  BY <1>1 DEF Open, Bound
<1>6. CalmInv'
  <2>1. SUFFICES ASSUME ~overlapped PROVE OneHolder' /\ Unhindered' /\ EventsCount'
    BY <1>1 DEF CalmInv
  <2>2. OneHolder /\ Unhindered /\ EventsCount
    BY <2>1 DEF BindInv, CalmInv
  <2>3. \A j \in Links : Holds(j)' <=> Holds(j)
    BY <1>1, <1>3, <1>4, <1>5 DEF Holds, Bound
  <2>4. \A j \in Links : Holds(j) => j = k
    BY <1>4, <2>2 DEF OneHolder, Holds, Bound
  <2>5. \A j \in Links : ~Connected(j)
    BY <1>1, <2>4 DEF Connected, Holds
  <2>6. Connected(k)'
    BY <1>3, <1>4, <1>5 DEF Connected, Bound
  <2>7. EventsCount'
    BY <1>1, <2>2, <2>5, <2>6 DEF EventsCount
  <2>8. OneHolder' /\ Unhindered'
    BY <1>1, <1>3, <1>5, <2>2, <2>3 DEF OneHolder, Unhindered
  <2>9. QED
    BY <2>7, <2>8
<1>7. QED
  BY <1>2, <1>6 DEF BindInv

LEMMA ToldBindInv ==
    ASSUME Types, BindInv, NEW k \in Links, ServerTold(k)
    PROVE  BindInv'
<1>1. /\ pc[k] = "down" /\ At(k, "told")
      /\ events' = IF sessions[k] = "pipe" THEN events - 1 ELSE events
      /\ UNCHANGED <<connection, sready, conns, sessions, unbinds, link, overlapped>>
  BY DEF ServerTold, client
<1>2. ShapeInv'
  BY <1>1, HandlerShape
<1>3. pc'[k] = "told" /\ \A j \in Links : j # k => pc'[j] = pc[j]
  BY <1>1, AtStep
<1>4. ~Open(k)
  BY <1>1 DEF BindInv, ShapeInv, PcShape, Open
<1>5. \A j : /\ Open(j)' <=> Open(j)
             /\ Bound(j)' <=> Bound(j)
  BY <1>1 DEF Open, Bound
<1>6. CalmInv'
  <2>1. SUFFICES ASSUME ~overlapped PROVE OneHolder' /\ Unhindered' /\ EventsCount'
    BY <1>1 DEF CalmInv
  <2>2. OneHolder /\ Unhindered /\ EventsCount
    BY <2>1 DEF BindInv, CalmInv
  <2>3. \A j \in Links : Holds(j)' <=> Holds(j)
    BY <1>1, <1>3, <1>5 DEF Holds
  <2>4. OneHolder' /\ Unhindered'
    BY <1>1, <1>3, <1>5, <2>2, <2>3 DEF OneHolder, Unhindered
  <2>5. ~Connected(k)' /\ \A j \in Links : j # k => (Connected(j)' <=> Connected(j))
    BY <1>1, <1>3, <1>4, <1>5 DEF Connected
  <2>6. CASE sessions[k] = "pipe"
    <3>1. Connected(k) /\ Holds(k)
      BY <1>1, <2>6 DEF Connected, Holds
    <3>2. \A j \in Links : j # k => ~Connected(j)
      BY <2>2, <3>1 DEF OneHolder, Holds, Connected
    <3>3. EventsCount'
      BY <1>1, <2>2, <2>5, <2>6, <3>1, <3>2 DEF EventsCount
    <3>4. QED
      BY <2>4, <3>3
  <2>7. CASE sessions[k] # "pipe"
    <3>1. ~Connected(k)
      BY <2>7 DEF Connected
    <3>2. EventsCount'
      BY <1>1, <2>2, <2>5, <2>7, <3>1 DEF EventsCount
    <3>3. QED
      BY <2>4, <3>2
  <2>8. QED
    BY <2>6, <2>7
<1>7. QED
  BY <1>2, <1>6 DEF BindInv

LEMMA UnbindBindInv ==
    ASSUME Types, BindInv, NEW k \in Links, ServerUnbind(k)
    PROVE  BindInv'
<1>1. /\ pc[k] = "told" /\ At(k, "idle") /\ unbinds' = unbinds \ {k}
      /\ UNCHANGED <<connection, conns, sessions, events, link, overlapped>>
  BY DEF ServerUnbind, client
<1>2. sready' <=> sready /\ sessions[k] # "pipe"
  BY Zenon DEF ServerUnbind
<1>3. pc'[k] = "idle" /\ \A j \in Links : j # k => pc'[j] = pc[j]
  BY <1>1, AtStep
<1>4. ~Open(k) /\ \A j : (Open(j)' <=> Open(j)) /\ (Bound(j)' <=> Bound(j))
  BY <1>1 DEF BindInv, ShapeInv, PcShape, Open, Bound
<1>5. ShapeInv'
  <2>1. PcShape'
    BY <1>1, <1>3, <1>4 DEF BindInv, ShapeInv, PcShape
  <2>2. Fresh' /\ LastBound'
    BY <1>1, <1>3 DEF BindInv, ShapeInv, Fresh, LastBound
  <2>3. UnbindsAreOpen'
    BY <1>1, <1>3, <1>4 DEF BindInv, ShapeInv, UnbindsAreOpen, Types, ServerType
  <2>4. QED
    BY <2>1, <2>2, <2>3 DEF ShapeInv
<1>6. CalmInv'
  <2>1. SUFFICES ASSUME ~overlapped PROVE OneHolder' /\ Unhindered' /\ EventsCount'
    BY <1>1 DEF CalmInv
  <2>2. OneHolder /\ Unhindered /\ EventsCount
    BY <2>1 DEF BindInv, CalmInv
  <2>3. ~Holds(k)' /\ \A j \in Links : j # k => (Holds(j)' <=> Holds(j))
    BY <1>1, <1>3, <1>4 DEF Holds
  <2>4. sessions[k] = "pipe" => Holds(k)
    BY <1>1 DEF Holds
  <2>5. OneHolder'
    BY <1>1, <1>2, <2>2, <2>3, <2>4 DEF OneHolder
  <2>6. \A j \in Links : Connected(j)' <=> Connected(j)
    BY <1>1, <1>3, <1>4 DEF Connected
  <2>7. Unhindered' /\ EventsCount'
    BY <1>1, <1>3, <1>4, <2>2, <2>6 DEF Unhindered, EventsCount
  <2>8. QED
    BY <2>5, <2>7
<1>7. QED
  BY <1>5, <1>6 DEF BindInv

(* The steps of a worker that leave the attached session alone.            *)
LEMMA OtherLinkBindInv ==
    ASSUME Types, NameInv, BindInv, NEW k \in Links,
           OnUnknown(k) \/ OnUnnamed(k) \/ OnServerData(k)
    PROVE  BindInv'
<1>0. /\ conns \in [Links -> {"none", "open", "closing", "gone"}]
      /\ sessions \in [Links -> {"none", "pipe", "own"}]
  BY DEF Types, ServerType
<1>1. CASE OnServerData(k)
  <2>1. UNCHANGED <<connection, sready, conns, sessions, unbinds, pc, events, link, overlapped>>
    BY <1>1 DEF OnServerData, server, client
  <2>2. QED
    BY <2>1, QuietBind
<1>2. CASE OnUnknown(k)
  <2>1. /\ Open(k) /\ pc[k] = "idle" /\ conns' = [conns EXCEPT ![k] = "closing"]
        /\ UNCHANGED <<connection, sready, sessions, unbinds, pc, events, link, overlapped>>
    BY <1>2 DEF OnUnknown, ServerReceives, Free, client
  <2>2. \A j : /\ Open(j)' <=> Open(j)
               /\ Bound(j)' <=> Bound(j)
               /\ Holds(j)' <=> Holds(j)
               /\ Connected(j)' <=> Connected(j)
    BY <1>0, <2>1 DEF Open, Bound, Holds, Connected
  <2>3. CalmInv'
    BY <2>1, <2>2 DEF BindInv, CalmInv, OneHolder, Unhindered, EventsCount
  <2>4. UnbindsAreOpen' /\ LastBound'
    BY <2>1, <2>2 DEF BindInv, ShapeInv, UnbindsAreOpen, LastBound
  <2>5. PcShape'
    BY <1>0, <2>1, <2>2 DEF BindInv, ShapeInv, PcShape
  <2>6. Fresh'
    BY <1>0, <2>1 DEF BindInv, ShapeInv, Fresh, Open
  <2>7. QED
    BY <2>3, <2>4, <2>5, <2>6 DEF BindInv, ShapeInv
<1>3. CASE OnUnnamed(k)
  <2>0. sessions[k] # "pipe"
    <3>1. /\ Head(toServer[k]) \in Asked(named) /\ Head(toServer[k]).type = "SHAKE_HAND"
          /\ Head(toServer[k]).id = Empty
      BY <1>3, PopIn DEF OnUnnamed, ServerReceives, Incoming, NameInv
    <3>2. ~named
      BY <3>1 DEF Asked, Empty, Name
    <3>3. QED
      BY <3>2 DEF NameInv
  <2>1. /\ Open(k) /\ sessions' = [sessions EXCEPT ![k] = "own"] /\ unbinds' = unbinds \cup {k}
        /\ UNCHANGED <<connection, sready, conns, pc, events, link, overlapped>>
    BY <1>3 DEF OnUnnamed, ServerReceives, client
  <2>2. \A j : /\ Open(j)' <=> Open(j)
               /\ Bound(j)' <=> Bound(j)
               /\ Connected(j)' <=> Connected(j)
    BY <1>0, <2>0, <2>1 DEF Open, Bound, Connected
  <2>3. \A j \in Links : Holds(j)' <=> Holds(j)
    BY <1>0, <2>0, <2>1, <2>2 DEF Holds
  <2>4. CalmInv'
    BY <2>1, <2>2, <2>3 DEF BindInv, CalmInv, OneHolder, Unhindered, EventsCount
  <2>5. UnbindsAreOpen' /\ PcShape'
    BY <2>1, <2>2 DEF BindInv, ShapeInv, UnbindsAreOpen, PcShape
  <2>6. Fresh' /\ LastBound'
    BY <1>0, <2>0, <2>1 DEF BindInv, ShapeInv, Fresh, Open, LastBound
  <2>7. QED
    BY <2>4, <2>5, <2>6 DEF BindInv, ShapeInv
<1>4. QED
  BY <1>1, <1>2, <1>3

LEMMA DownBindInv ==
    ASSUME Types, BindInv, NEW k \in Links, ServerDown(k)
    PROVE  BindInv'
<1>0. conns \in [Links -> {"none", "open", "closing", "gone"}]
  BY DEF Types, ServerType
<1>1. /\ Open(k) /\ pc[k] = "idle" /\ conns' = [conns EXCEPT ![k] = "gone"] /\ At(k, "down")
      /\ UNCHANGED <<connection, sready, sessions, unbinds, events, link, overlapped>>
  BY DEF ServerDown, Free, client
<1>2. /\ pc'[k] = "down" /\ \A j \in Links : j # k => pc'[j] = pc[j]
      /\ conns'[k] = "gone" /\ \A j \in Links : j # k => conns'[j] = conns[j]
  BY <1>0, <1>1, AtStep
<1>3. ~Open(k)' /\ \A j : j # k => (Open(j)' <=> Open(j))
  BY <1>2 DEF Open
<1>4. ~Bound(k)' /\ \A j : j # k => (Bound(j)' <=> Bound(j))
  BY <1>1, <1>3 DEF Bound
<1>5. \A j \in Links : /\ Holds(j)' <=> Holds(j)
                       /\ Connected(j)' <=> Connected(j)
  BY <1>1, <1>2, <1>3 DEF Holds, Connected
<1>6. ShapeInv'
  <2>1. PcShape'
    BY <1>1, <1>2, <1>3, <1>4 DEF BindInv, ShapeInv, PcShape
  <2>2. Fresh' /\ LastBound'
    BY <1>1, <1>2 DEF BindInv, ShapeInv, Fresh, LastBound, Open
  <2>3. UnbindsAreOpen'
    BY <1>1, <1>2, <1>3 DEF BindInv, ShapeInv, UnbindsAreOpen, Types, ServerType
  <2>4. QED
    BY <2>1, <2>2, <2>3 DEF ShapeInv
<1>7. CalmInv'
  <2>1. SUFFICES ASSUME ~overlapped PROVE OneHolder' /\ Unhindered' /\ EventsCount'
    BY <1>1 DEF CalmInv
  <2>2. OneHolder /\ Unhindered /\ EventsCount
    BY <2>1 DEF BindInv, CalmInv
  <2>3. QED
    BY <1>1, <1>2, <1>4, <1>5, <2>2 DEF OneHolder, Unhindered, EventsCount
<1>8. QED
  BY <1>6, <1>7 DEF BindInv

LEMMA StepBind == Types /\ NameInv /\ BindInv /\ [Next]_vars => BindInv'
<1> SUFFICES ASSUME Types, NameInv, BindInv, [Next]_vars PROVE BindInv'
  OBVIOUS
<1>1. CASE Client \/ Register \/ ClientDown \/ ClientSend \/ ServerSend
  BY <1>1, ClientBindInv
<1>2. CASE Connect
  BY <1>2, ConnectBindInv
<1>3. ASSUME NEW k \in Links, Handler(k)
      PROVE  BindInv'
  BY <1>3, BindBindInv, AnswerBindInv, ToldBindInv, UnbindBindInv DEF Handler
<1>4. ASSUME NEW k \in Links, Server(k) \/ ServerDown(k)
      PROVE  BindInv'
  BY <1>4, HandshakeBindInv, OtherLinkBindInv, DownBindInv DEF Server
<1>5. CASE UNCHANGED vars
  <2>1. UNCHANGED <<connection, sready, conns, sessions, unbinds, pc, events, link, overlapped>>
    BY <1>5 DEF vars, client, server
  <2>2. QED
    BY <2>1, QuietBind
<1>6. QED
  BY <1>1, <1>2, <1>3, <1>4, <1>5 DEF Next

LEMMA BindAlways == Spec => [](Types /\ NameInv /\ BindInv)
  BY InitType, StepType, InitName, StepName, InitBind, StepBind, PTL DEF Spec

(* Over any number of reconnects, links and workers, and in whatever order *)
(* the server sees old links break: until two workers are at the session   *)
(* at once, it is bound to at most one open connection and ready with it.  *)
THEOREM BoundToOneAlways == Spec => []BoundToOne
<1>1. BindInv => BoundToOne
  BY DEF BindInv, CalmInv, OneHolder, Holds, Bound, BoundToOne
<1>2. QED
  BY <1>1, BindAlways, PTL

(* Until then the session sees EVT_CONNECT and EVT_DISCONNECT in turn.     *)
THEOREM EventsInTurnAlways == Spec => []EventsInTurn
<1>1. BindInv => EventsInTurn
  BY DEF BindInv, CalmInv, EventsCount, EventsInTurn
<1>2. QED
  BY <1>1, BindAlways, PTL

(* One worker runs one handler at a time.                                  *)
Alone == /\ \A j, k \in Links : pc[j] # "idle" /\ pc[k] # "idle" => j = k
         /\ overlapped = FALSE

(* A server with one worker never overlaps: for it the two theorems above  *)
(* hold without their exception.                                           *)
THEOREM OneWorkerIsSerial ==
    ASSUME Workers = 1
    PROVE  Spec => [](~overlapped)
<1>1. Init => Alone
  BY DEF Init, Alone
<1>2. Types /\ Alone /\ [Next]_vars => Alone'
  <2> SUFFICES ASSUME Types, Alone, [Next]_vars PROVE Alone'
    OBVIOUS
  <2>1. \A k \in Links : Worker(k) = 0
    BY DEF Worker, Links
  <2>3. ASSUME UNCHANGED <<pc, overlapped>> PROVE Alone'
    BY <2>3 DEF Alone
  <2>4. ASSUME NEW k \in Links, NEW s, At(k, s), UNCHANGED overlapped,
               Free(k) \/ pc[k] # "idle"
        PROVE  Alone'
    <3>1. pc'[k] = s /\ \A j \in Links : j # k => pc'[j] = pc[j]
      BY <2>4, AtStep
    <3>2. \A j \in Links : j # k => pc[j] = "idle"
      BY <2>1, <2>4 DEF Free, Alone
    <3>3. QED
      BY <2>4, <3>1, <3>2 DEF Alone
  <2>5. CASE Client \/ Register \/ Connect \/ ClientDown \/ ClientSend \/ ServerSend
    <3>1. UNCHANGED <<pc, overlapped>>
      BY <2>5 DEF Client, OnAnswer, OnChallenge, OnClientData, OnClientClose, Register, Connect,
                  ClientDown, ClientSend, ServerSend, server
    <3>2. QED
      BY <2>3, <3>1
  <2>6. ASSUME NEW k \in Links, Server(k) PROVE Alone'
    <3>1. UNCHANGED overlapped /\ (UNCHANGED pc \/ (At(k, "checked") /\ Free(k)))
      BY <2>6 DEF Server, OnHandshake, OnUnknown, OnUnnamed, OnServerData, ServerReceives, server
    <3>2. QED
      BY <2>3, <2>4, <3>1
  <2>7. ASSUME NEW k \in Links, ServerDown(k) PROVE Alone'
    BY <2>4, <2>7 DEF ServerDown
  <2>8. ASSUME NEW k \in Links, ServerAnswer(k) \/ ServerTold(k) \/ ServerUnbind(k)
        PROVE  Alone'
    <3>1. /\ UNCHANGED overlapped /\ pc[k] # "idle"
          /\ At(k, "idle") \/ At(k, "told")
      BY <2>8 DEF ServerAnswer, ServerTold, ServerUnbind
    <3>2. QED
      BY <2>4, <3>1
  <2>9. ASSUME NEW k \in Links, Bind(k) PROVE Alone'
    <3>1. pc[k] = "checked" /\ At(k, "bound")
      BY <2>9 DEF Bind
    <3>2. \A j \in Links : j # k => pc[j] = "idle"
      BY <3>1 DEF Alone
    <3>3. overlapped = FALSE /\ ~\E j \in Links \ {k} : Competes(j)
      BY <3>2 DEF Alone, Competes
    <3>4. overlapped' = FALSE
      BY <2>9, <3>3, Zenon DEF Bind
    <3>5. UNCHANGED overlapped
      BY <3>3, <3>4
    <3>6. QED
      BY <2>4, <3>1, <3>5
  <2>10. CASE UNCHANGED vars
    BY <2>3, <2>10 DEF vars, server
  <2>11. QED
    BY <2>5, <2>6, <2>7, <2>8, <2>9, <2>10 DEF Next, Handler
<1>3. Alone => ~overlapped
  BY DEF Alone
<1>4. QED
  BY <1>1, <1>2, <1>3, TypesAlways, PTL DEF Spec

(* unbind_pipes of the server holds connections that have not ended yet,   *)
(* overlapping workers included.                                           *)
THEOREM UnbindsAreOpenAlways == Spec => []UnbindsAreOpen
<1>1. BindInv => UnbindsAreOpen
  BY DEF BindInv, ShapeInv
<1>2. QED
  BY <1>1, BindAlways, PTL

----------------------------------------------------------------------------
(* No message overtakes the answer.  While the client has no session,      *)
(* every link on which the server's session was bound and has been         *)
(* answered still carries that answer, and carries it in front of every    *)
(* message that is not early.                                              *)

IsAnswer(m) == m.type = "SHAKE_HAND" /\ m.id = Name
IsLate(m)   == m.type = "DATA" /\ ~m.early

HasAnswer(q) == \E i \in 1..Len(q) : IsAnswer(q[i])
Guarded(q)   == \A i \in 1..Len(q) : IsLate(q[i]) => \E j \in 1..Len(q) : j < i /\ IsAnswer(q[j])

LinkInv(k) == /\ Guarded(toClient[k])
              /\ sessions[k] = "pipe" /\ pc[k] # "bound" => HasAnswer(toClient[k])

(* The client's half: its session is known under its name and is not ready *)
(* before it is set.                                                       *)
HalfInv == (named => Name \in bind_pipes) /\ (ready_flag => session) /\ ~lost

AnswerInv == HalfInv /\ (~session => \A k \in Links : LinkInv(k))

LEMMA AppendAnswer ==
    ASSUME NEW q \in Seq(Message), NEW m \in Message, Guarded(q), IsLate(m) => HasAnswer(q)
    PROVE  /\ Guarded(Append(q, m))
           /\ HasAnswer(q) \/ IsAnswer(m) => HasAnswer(Append(q, m))
<1> DEFINE a == Append(q, m)
<1>1. /\ Len(q) \in Nat /\ Len(a) = Len(q) + 1
      /\ \A i \in 1..Len(q) : a[i] = q[i]
      /\ a[Len(q) + 1] = m
  OBVIOUS
<1> HIDE DEF a
<1>2. HasAnswer(q) \/ IsAnswer(m) => HasAnswer(a)
  BY <1>1 DEF HasAnswer
<1>3. ASSUME NEW i \in 1..Len(a), IsLate(a[i])
      PROVE  \E j \in 1..Len(a) : j < i /\ IsAnswer(a[j])
  <2>1. CASE i \in 1..Len(q)
    <3>1. PICK j \in 1..Len(q) : j < i /\ IsAnswer(q[j])
      BY <1>1, <1>3, <2>1 DEF Guarded
    <3>2. QED
      BY <1>1, <3>1
  <2>2. CASE i = Len(q) + 1
    <3>1. PICK j \in 1..Len(q) : IsAnswer(q[j])
      BY <1>1, <1>3, <2>2 DEF HasAnswer
    <3>2. j < i /\ j \in 1..Len(a) /\ a[j] = q[j]
      BY <1>1, <2>2, <3>1
    <3>3. QED
      BY <3>1, <3>2
  <2>3. QED
    BY <1>1, <2>1, <2>2
<1>4. Guarded(a)
  BY <1>3 DEF Guarded
<1>5. QED
  BY <1>2, <1>4 DEF a

LEMMA TailAnswer ==
    ASSUME NEW q \in Seq(Message), q # <<>>, Guarded(q)
    PROVE  /\ ~IsLate(Head(q))
           /\ ~IsAnswer(Head(q)) => Guarded(Tail(q)) /\ (HasAnswer(q) => HasAnswer(Tail(q)))
<1> DEFINE t == Tail(q)
<1>1. /\ Len(q) \in Nat /\ Len(q) > 0 /\ Len(t) = Len(q) - 1 /\ Head(q) = q[1]
      /\ \A i \in 1..Len(t) : t[i] = q[i + 1]
  OBVIOUS
<1> HIDE DEF t
<1>2. ~IsLate(Head(q))
  BY <1>1 DEF Guarded
<1>3. SUFFICES ASSUME ~IsAnswer(Head(q))
               PROVE  Guarded(t) /\ (HasAnswer(q) => HasAnswer(t))
  BY <1>2 DEF t
<1>4. \A j \in 1..Len(q) : IsAnswer(q[j]) => j - 1 \in 1..Len(t) /\ t[j - 1] = q[j]
  BY <1>1, <1>3
<1>5. HasAnswer(q) => HasAnswer(t)
  BY <1>4 DEF HasAnswer
<1>6. ASSUME NEW i \in 1..Len(t), IsLate(t[i])
      PROVE  \E j \in 1..Len(t) : j < i /\ IsAnswer(t[j])
  <2>1. i + 1 \in 1..Len(q) /\ IsLate(q[i + 1])
    BY <1>1, <1>6
  <2>2. PICK j \in 1..Len(q) : j < i + 1 /\ IsAnswer(q[j])
    BY <2>1 DEF Guarded
  <2>3. j - 1 \in 1..Len(t) /\ t[j - 1] = q[j] /\ j - 1 < i
    BY <1>4, <2>2
  <2>4. QED
    BY <2>2, <2>3
<1>7. Guarded(t)
  BY <1>6 DEF Guarded
<1>8. QED
  BY <1>5, <1>7

LEMMA InitAnswer == Init => AnswerInv
<1> SUFFICES ASSUME Init PROVE AnswerInv
  OBVIOUS
<1>1. (named => Name \in bind_pipes) /\ ready_flag = FALSE /\ lost = FALSE
  BY DEF Init
<1>2. HalfInv
  BY <1>1 DEF HalfInv
<1>3. toClient = [k \in Links |-> <<>>] /\ sessions = [k \in Links |-> "none"]
  BY DEF Init
<1>4. ASSUME NEW k \in Links PROVE LinkInv(k)
  <2>1. toClient[k] = <<>> /\ sessions[k] = "none"
    BY <1>3
  <2>2. Len(toClient[k]) = 0
    BY <2>1
  <2>3. QED
    BY <2>1, <2>2 DEF LinkInv, Guarded
<1>5. QED
  BY <1>2, <1>4 DEF AnswerInv

(* A message is put on link k.                                             *)
LEMMA PostAnswer ==
    ASSUME Types, NEW k \in Links, NEW m \in Message, NEW n \in Links,
           LinkInv(n), toClient' = Post(toClient, k, m),
           k = n /\ IsLate(m) => sessions[n] = "pipe" /\ pc[n] # "bound",
           sessions'[n] = "pipe" /\ pc'[n] # "bound" =>
              (sessions[n] = "pipe" /\ pc[n] # "bound") \/ (k = n /\ IsAnswer(m))
    PROVE  LinkInv(n)'
<1>1. toClient[n] \in Seq(Message) /\ toClient \in [Links -> Seq(Message)]
  BY DEF Types, OtherType, Channel, ChannelOf
<1>2. CASE k = n
  <2>1. toClient'[n] = Append(toClient[n], m)
    BY <1>1, <1>2 DEF Post
  <2>2. IsLate(m) => HasAnswer(toClient[n])
    BY <1>2 DEF LinkInv
  <2>3. /\ Guarded(Append(toClient[n], m))
        /\ HasAnswer(toClient[n]) \/ IsAnswer(m) => HasAnswer(Append(toClient[n], m))
    BY <1>1, <2>2, AppendAnswer DEF LinkInv
  <2>4. QED
    BY <2>1, <2>3 DEF LinkInv
<1>3. CASE k # n
  <2>1. toClient'[n] = toClient[n]
    BY <1>1, <1>3 DEF Post
  <2>2. QED
    BY <1>3, <2>1 DEF LinkInv
<1>4. QED
  BY <1>2, <1>3

(* The client takes a message from its link.                               *)
LEMMA PopAnswer ==
    ASSUME Types, NEW t, Receives(t), NEW n \in Links,
           LinkInv(link), LinkInv(n), toClient' = Pop(toClient, link),
           UNCHANGED <<sessions, pc>>
    PROVE  /\ ~IsLate(Head(toClient[link]))
           /\ ~IsAnswer(Head(toClient[link])) => LinkInv(n)'
<1>0. link \in Links
  BY DEF Receives, Types, HasLink
<1>1. toClient[link] \in Seq(Message) /\ toClient \in [Links -> Seq(Message)]
  BY <1>0 DEF Types, OtherType, Channel, ChannelOf
<1>2. toClient[link] # <<>>
  BY DEF Receives, Incoming
<1>3. PICK q : q = toClient[link]
  OBVIOUS
<1>4. /\ ~IsLate(Head(q))
      /\ ~IsAnswer(Head(q)) => Guarded(Tail(q)) /\ (HasAnswer(q) => HasAnswer(Tail(q)))
  BY <1>1, <1>2, <1>3, TailAnswer DEF LinkInv
<1>5. CASE n = link
  <2>1. toClient'[n] = Tail(q)
    BY <1>0, <1>1, <1>3, <1>5 DEF Pop
  <2>2. QED
    BY <1>3, <1>4, <1>5, <2>1 DEF LinkInv
<1>6. CASE n # link
  <2>1. toClient'[n] = toClient[n]
    BY <1>0, <1>1, <1>6 DEF Pop
  <2>2. QED
    BY <1>3, <1>4, <2>1 DEF LinkInv
<1>7. QED
  BY <1>5, <1>6

(* Steps that leave the links to the client and its session alone.         *)
LEMMA QuietAnswer ==
    ASSUME AnswerInv, UNCHANGED <<toClient, sessions, pc, session, lost, named, bind_pipes>>,
           ready_flag' => ready_flag
    PROVE  AnswerInv'
<1>1. HalfInv'
  BY DEF AnswerInv, HalfInv
<1>2. \A k \in Links : LinkInv(k) => LinkInv(k)'
  BY DEF LinkInv
<1>3. QED
  BY <1>1, <1>2 DEF AnswerInv

LEMMA ClientAnswer ==
    ASSUME Types, NameInv, AnswerInv, Client \/ Register \/ Connect \/ ClientDown \/ ClientSend
    PROVE  AnswerInv'
<1>1. CASE Register \/ Connect \/ ClientDown \/ ClientSend \/ OnClientClose
  <2>1. UNCHANGED <<toClient, sessions, pc, session, lost, named, bind_pipes>>
    BY <1>1 DEF Register, Connect, ClientDown, ClientSend, OnClientClose, client, server
  <2>2. ready_flag' => ready_flag
    BY <1>1 DEF Register, Connect, ClientDown, ClientSend, OnClientClose, ClientUnbound, client
  <2>3. QED
    BY <2>1, <2>2, QuietAnswer
<1>2. CASE OnChallenge
  <2>1. /\ Receives("SHAKE_HAND") /\ Head(toClient[link]).id = Empty
        /\ toClient' = Pop(toClient, link)
        /\ UNCHANGED <<sessions, pc, session, lost, named, bind_pipes, ready_flag>>
    BY <1>2 DEF OnChallenge, client, server
  <2>2. ~IsAnswer(Head(toClient[link])) /\ link \in Links
    BY <2>1 DEF IsAnswer, Empty, Name, Receives, Types, HasLink
  <2>3. ~session => \A n \in Links : LinkInv(n)'
    BY <2>1, <2>2, PopAnswer DEF AnswerInv
  <2>4. HalfInv'
    BY <2>1 DEF AnswerInv, HalfInv
  <2>5. QED
    BY <2>1, <2>3, <2>4 DEF AnswerInv
<1>3. CASE OnClientData
  <2>1. /\ Receives("DATA")
        /\ toClient' = Pop(toClient, link)
        /\ UNCHANGED <<sessions, pc, session, named, bind_pipes, ready_flag>>
    BY <1>3 DEF OnClientData, client, server
  <2>2. /\ Head(toClient[link]).type = "DATA" /\ link \in Links
        /\ ~IsAnswer(Head(toClient[link]))
    BY <2>1 DEF IsAnswer, Receives, Incoming, Types, HasLink
  <2>3. ~session => ~IsLate(Head(toClient[link])) /\ \A n \in Links : LinkInv(n)'
    BY <2>1, <2>2, PopAnswer DEF AnswerInv
  <2>4. lost' = (lost \/ (~session /\ ~Head(toClient[link]).early))
    BY <1>3 DEF OnClientData
  <2>5. ~lost'
    BY <2>2, <2>3, <2>4, Zenon DEF IsLate, AnswerInv, HalfInv
  <2>6. HalfInv'
    BY <2>1, <2>5 DEF AnswerInv, HalfInv
  <2>7. QED
    BY <2>1, <2>3, <2>6 DEF AnswerInv
<1>4. CASE OnAnswer
  <2>1. PICK m : m = Head(toClient[link])
    OBVIOUS
  <2>2. /\ Receives("SHAKE_HAND") /\ toClient' = Pop(toClient, link)
        /\ ClientBind(m.id) \/ ClientRebind(m.id) \/ ClientReject(m.id)
        /\ UNCHANGED <<sessions, pc, lost, named>>
    BY <1>4, <2>1 DEF OnAnswer, server
  <2>3. /\ bind_pipes \subseteq bind_pipes'
        /\ (session' = TRUE /\ ready_flag' = TRUE) \/ UNCHANGED <<session, ready_flag>>
    BY <2>2 DEF ClientBind, ClientRebind, ClientReject, bind
  <2>4. HalfInv'
    BY <2>2, <2>3 DEF AnswerInv, HalfInv
  <2>5. link \in Links /\ m.type = "SHAKE_HAND" /\ m \in Answered(named)
    <3>1. link \in Links /\ Incoming(toClient, link, "SHAKE_HAND")
      BY <2>2 DEF Receives, Types, HasLink
    <3>2. QED
      BY <2>1, <3>1, PopIn DEF NameInv, Incoming
  <2>6. IsAnswer(m) => session' = TRUE
    <3>1. SUFFICES ASSUME IsAnswer(m) PROVE session' = TRUE
      OBVIOUS
    <3>2. m.id \in bind_pipes
      BY <2>5, <3>1 DEF IsAnswer, Answered, AnswerInv, HalfInv
    <3>3. ClientBind(m.id)
      BY <2>2, <3>2 DEF ClientRebind, ClientReject
    <3>4. client_is_ready => session
      BY DEF client_is_ready, AnswerInv, HalfInv
    <3>5. QED
      BY <3>3, <3>4, Zenon DEF ClientBind, bind, Types, ClientType
  <2>7. ~IsAnswer(m) /\ ~session => \A n \in Links : LinkInv(n)'
    BY <2>1, <2>2, <2>5, PopAnswer DEF AnswerInv
  <2>8. ~session' => ~session
    BY <2>3
  <2>9. QED
    BY <2>4, <2>6, <2>7, <2>8 DEF AnswerInv
<1>5. QED
  BY <1>1, <1>2, <1>3, <1>4 DEF Client

LEMMA ServerAnswerInv ==
    ASSUME Types, BindInv, AnswerInv, NEW k \in Links, Server(k) \/ Handler(k) \/ ServerDown(k)
    PROVE  AnswerInv'
<1> USE ConstantsAssumption
<1>0. /\ sessions \in [Links -> {"none", "pipe", "own"}] /\ pid_index \in Nat
      /\ pc \in [Links -> Steps]
  BY DEF Types, ServerType
<1>1. UNCHANGED <<session, lost, named, bind_pipes, ready_flag>>
  BY DEF Server, Handler, OnHandshake, OnUnknown, OnUnnamed, OnServerData, ServerDown, Bind,
         ServerAnswer, ServerTold, ServerUnbind, client
<1>2. HalfInv'
  BY <1>1 DEF AnswerInv, HalfInv
<1>3. SUFFICES ASSUME NEW n \in Links, LinkInv(n) PROVE LinkInv(n)'
  BY <1>1, <1>2 DEF AnswerInv
<1>4. CASE OnUnknown(k) \/ OnHandshake(k) \/ ServerDown(k) \/ ServerTold(k) \/ ServerUnbind(k)
  <2>1. /\ UNCHANGED <<toClient, sessions>> /\ pc[k] # "bound"
        /\ pc' = pc \/ \E s : At(k, s)
    BY <1>4 DEF OnUnknown, OnHandshake, ServerReceives, Free, ServerDown, ServerTold, ServerUnbind
  <2>2. pc'[n] # "bound" => pc[n] # "bound"
    BY <1>0, <2>1 DEF At
  <2>3. QED
    BY <1>3, <2>1, <2>2 DEF LinkInv
<1>5. CASE Bind(k)
  <2>1. UNCHANGED toClient /\ pc[k] = "checked"
    BY <1>5 DEF Bind
  <2>2. sessions'[n] = "pipe" /\ pc'[n] # "bound" => sessions[n] = "pipe" /\ pc[n] # "bound"
    BY <1>0, <1>5 DEF Bind, At
  <2>3. QED
    BY <1>3, <2>1, <2>2 DEF LinkInv
<1>6. CASE OnUnnamed(k)
  <2>1. PICK id : id \in Nat /\ toClient' = Post(toClient, k, ShakeHand(id))
    BY <1>0, <1>6 DEF OnUnnamed, generate_id, Name
  <2>2. PICK m : m = ShakeHand(id)
    OBVIOUS
  <2>3. m \in Message /\ ~IsLate(m)
    <3>1. m \in Message
      BY <2>1, <2>2, MessageType
    <3>2. m.type = "SHAKE_HAND"
      BY <2>2 DEF ShakeHand
    <3>3. QED
      BY <3>1, <3>2 DEF IsLate
  <2>4. /\ toClient' = Post(toClient, k, m) /\ pc' = pc
        /\ sessions'[n] = "pipe" => sessions[n] = "pipe"
    BY <1>0, <1>6, <2>1, <2>2 DEF OnUnnamed
  <2>5. QED
    BY <1>3, <2>3, <2>4, PostAnswer
<1>7. CASE OnServerData(k)
  <2>1. PICK m : m = ShakeHand(Empty)
    OBVIOUS
  <2>2. m \in Message /\ ~IsLate(m)
    BY <2>1, MessageType DEF Empty, IsLate, ShakeHand
  <2>3. /\ toClient' = Post(toClient, k, m) \/ UNCHANGED toClient
        /\ UNCHANGED <<sessions, pc>>
    BY <1>7, <2>1 DEF OnServerData, server
  <2>4. CASE UNCHANGED toClient
    BY <1>3, <2>3, <2>4 DEF LinkInv
  <2>5. CASE toClient' = Post(toClient, k, m)
    BY <1>3, <2>2, <2>3, <2>5, PostAnswer
  <2>6. QED
    BY <2>3, <2>4, <2>5
<1>8. CASE ServerAnswer(k)
  <2>1. PICK m : m = ShakeHand(Name)
    OBVIOUS
  <2>2. m \in Message /\ ~IsLate(m) /\ IsAnswer(m)
    BY <2>1, MessageType DEF Name, IsLate, IsAnswer, ShakeHand
  <2>3. toClient' = Post(toClient, k, m) /\ UNCHANGED sessions /\ At(k, "idle")
    BY <1>8, <2>1 DEF ServerAnswer
  <2>4. n # k => pc'[n] = pc[n]
    BY <1>0, <2>3 DEF At
  <2>5. sessions'[n] = "pipe" /\ pc'[n] # "bound" =>
           (sessions[n] = "pipe" /\ pc[n] # "bound") \/ (k = n /\ IsAnswer(m))
    BY <2>2, <2>3, <2>4
  <2>6. QED
    BY <1>3, <2>2, <2>3, <2>5, PostAnswer
<1>9. QED
  BY <1>4, <1>5, <1>6, <1>7, <1>8 DEF Server, Handler

LEMMA SendAnswerInv ==
    ASSUME Types, BindInv, AnswerInv, ServerSend
    PROVE  AnswerInv'
<1>1. UNCHANGED <<session, lost, named, bind_pipes, ready_flag>>
  BY DEF ServerSend, client
<1>2. HalfInv'
  BY <1>1 DEF AnswerInv, HalfInv
<1>3. SUFFICES ASSUME NEW n \in Links, LinkInv(n) PROVE LinkInv(n)'
  BY <1>1, <1>2 DEF AnswerInv
<1>4. /\ connection \in Links /\ UNCHANGED <<sessions, pc>>
      /\ toClient' = Post(toClient, connection, Data(pc[connection] = "bound"))
  BY DEF ServerSend, is_ready, Open, server
<1>5. PICK c \in Links, b \in BOOLEAN : c = connection /\ b = (pc[c] = "bound")
  BY <1>4
<1>6. PICK m : m = Data(b)
  OBVIOUS
<1>7. m \in Message /\ (IsLate(m) => ~b)
  BY <1>6, MessageType DEF Data, IsLate
<1>8. toClient' = Post(toClient, c, m)
  BY <1>4, <1>5, <1>6
<1>9. sessions[c] = "pipe"
  BY <1>5 DEF BindInv, ShapeInv, LastBound, Links
<1>10. c = n /\ IsLate(m) => sessions[n] = "pipe" /\ pc[n] # "bound"
  BY <1>5, <1>7, <1>9
<1>11. QED
  BY <1>3, <1>4, <1>7, <1>8, <1>10, PostAnswer

LEMMA StepAnswer == Types /\ NameInv /\ BindInv /\ AnswerInv /\ [Next]_vars => AnswerInv'
<1> SUFFICES ASSUME Types, NameInv, BindInv, AnswerInv, [Next]_vars PROVE AnswerInv'
  OBVIOUS
<1>1. CASE Client \/ Register \/ Connect \/ ClientDown \/ ClientSend
  BY <1>1, ClientAnswer
<1>2. CASE \E k \in Links : Server(k) \/ Handler(k) \/ ServerDown(k)
  BY <1>2, ServerAnswerInv
<1>3. CASE ServerSend
  BY <1>3, SendAnswerInv
<1>4. CASE UNCHANGED vars
  <2>1. UNCHANGED <<toClient, sessions, pc, session, lost, named, bind_pipes, ready_flag>>
    BY <1>4 DEF vars, client, server
  <2>2. QED
    BY <2>1, QuietAnswer
<1>5. QED
  BY <1>1, <1>2, <1>3, <1>4 DEF Next

(* What the server's session accepts after its answer finds a session at   *)
(* the client, over however many reconnects.                               *)
THEOREM AnswerComesFirstAlways == Spec => []AnswerComesFirst
<1>1. AnswerInv => AnswerComesFirst
  BY DEF AnswerInv, HalfInv, AnswerComesFirst
<1>2. QED
  BY <1>1, BindAlways, InitAnswer, StepAnswer, PTL DEF Spec
=============================================================================
