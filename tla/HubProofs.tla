----------------------------- MODULE HubProofs -----------------------------
(***************************************************************************)
(* Proofs about the WebSocket hub, for any servers, connections and users. *)
(*                                                                         *)
(* The two properties of what is shown are not inductive: between an       *)
(* announcement and the client there are the queue of Redis, the message   *)
(* that has the mutex, and what is written.  OnItsWay says where the last  *)
(* announcement for a server is; OnlineOfSomebody and OfflineOfNobody say  *)
(* what it still tells of the connections; Announcing ties the goroutine   *)
(* that dispatches to what it has announced.  Shape is the type invariant in *)
(* parts, with what the connection slots and the dispatching goroutines are. *)
(***************************************************************************)
EXTENDS Hub, TLAPS

\* A slot without connection has no user, no server and nothing shown.
Slots ==
    \A c \in Conn :
        IF pc[c] = "absent"
        THEN user[c] = Nobody /\ server[c] = Nobody /\ shown[c] = "nothing"
        ELSE user[c] \in User /\ server[c] \in Server

\* Only a server without Redis has its connections' goroutines dispatch.
Dispatching ==
    \A s \in Server, c \in Conn :
        sending[s].by = c => sending[s].busy /\ s \notin linked /\ server[c] = s /\ pc[c] \in Up

\* The parts of TypeOK.
Job == [busy : BOOLEAN, msg : Message, todo : SUBSET Conn, by : Conn \cup {Nobody}]
Tables ==
    /\ linked \subseteq Server
    /\ pc \in [Conn -> Registered \cup {"absent"}]
    /\ user \in [Conn -> User \cup {Nobody}]
    /\ server \in [Conn -> Server \cup {Nobody}]
    /\ shown \in [Conn -> News]
    /\ latest \in [Server -> News \cup {"missed", "early"}]
Listed ==
    /\ clients \in [Server -> SUBSET Conn]
    /\ \A s \in Server, c \in Conn : c \in clients[s] <=> server[c] = s /\ pc[c] \in Registered
Feeds ==
    /\ feed \in [Server -> Seq(Message)]
    /\ \A s \in Server : Len(feed[s]) <= (IF s \in linked THEN Capacity ELSE 0)
Jobs ==
    /\ sending \in [Server -> Job]
    /\ \A s \in Server : sending[s].busy \/ sending[s] = Idle
Writes ==
    /\ \A s \in Server : sending[s].todo \subseteq clients[s]
    /\ stuck \subseteq {s \in Server : sending[s].todo # {}}

Shape == Tables /\ Listed /\ Feeds /\ Jobs /\ Writes /\ Slots /\ Dispatching

\* The parts make up the type invariant.
LEMMA ShapeTypes == Shape => TypeOK
<1> SUFFICES ASSUME Shape PROVE TypeOK
  OBVIOUS
<1>1. clients = [s \in Server |-> {c \in Conn : server[c] = s /\ pc[c] \in Registered}]
  BY DEF Shape, Listed
<1>2. \A s \in Server : sending[s].by # Nobody => pc[sending[s].by] \in Up
  BY DEF Shape, Jobs, Job, Dispatching
<1> QED
  BY <1>1, <1>2 DEF Shape, Tables, Feeds, Jobs, Writes, Job, TypeOK

\* What the messages of the model are.
LEMMA MessageTypes ==
    /\ \A u \in User : \A n \in News : Presence(u, n) \in Message /\ Presence(u, n).to = User
    /\ \A users \in SUBSET User : Notice(users) \in Message
    /\ \A users : Notice(users).news = "nothing"
    /\ Idle \in Job /\ Idle.todo = {} /\ Idle.by = Nobody /\ ~Idle.busy
BY DEF Presence, Notice, Message, News, Idle, Job

\* The servers start with nothing.
LEMMA ShapeInit == Init => Shape
<1> SUFFICES ASSUME Init PROVE Shape
  OBVIOUS
<1>1. Tables /\ Listed
  BY DEF Init, Tables, Listed, Registered, Up, News
<1>2. Feeds
  BY CapacityAssumption DEF Init, Feeds
<1>3. Jobs /\ Writes
  BY MessageTypes DEF Init, Jobs, Writes
<1>4. Slots /\ Dispatching
  BY NobodyAssumption, MessageTypes DEF Init, Slots, Dispatching
<1> QED
  BY <1>1, <1>2, <1>3, <1>4 DEF Shape

\* Every action keeps the shape.
LEMMA ShapeNext == Shape /\ [Next]_vars => Shape'
<1> SUFFICES ASSUME Shape, [Next]_vars PROVE Shape'
  OBVIOUS
<1> USE NobodyAssumption
<1>1. ASSUME NEW c \in Conn, NEW u \in User, NEW s \in Server, HandleWS(c, u, s) PROVE Shape'
  <2> USE <1>1 DEF HandleWS, Goto, Unlocked
  <2>1. Tables'
    BY DEF Shape, Tables, Registered, Up
  <2>2. Listed'
    BY DEF Shape, Tables, Listed, Registered, Up, Slots
  <2>3. Feeds'
    BY DEF Shape, Feeds
  <2>4. Jobs' /\ Writes'
    BY DEF Shape, Listed, Jobs, Writes
  <2>5. Slots'
    BY DEF Shape, Tables, Slots
  <2>6. Dispatching'
    BY DEF Shape, Tables, Dispatching, Up
  <2> QED BY <2>1, <2>2, <2>3, <2>4, <2>5, <2>6 DEF Shape
<1>2. ASSUME NEW c \in Conn, Publish(c) PROVE Shape'
  <2> USE <1>2 DEF Publish, Goto, Free, After
  <2>1. Tables'
    BY DEF Shape, Tables, Registered, Up, Remember, Message, News, Slots
  <2>2. Listed'
    BY DEF Shape, Tables, Listed, Registered, Up, Slots, Announces
  <2>3. Feeds'
    BY CapacityAssumption DEF Shape, Feeds, Deliver, Tables
  <2>4. Jobs' /\ Writes'
    BY DEF Shape, Jobs, Writes
  <2>5. Slots'
    BY DEF Shape, Tables, Slots
  <2>6. Dispatching'
    BY DEF Shape, Tables, Dispatching, Up
  <2> QED BY <2>1, <2>2, <2>3, <2>4, <2>5, <2>6 DEF Shape
<1>3. ASSUME NEW c \in Conn, Dispatch(c) PROVE Shape'
  <2> USE <1>3 DEF Dispatch, Free, conns
  <2>0. server[c] \in Server
    BY DEF Shape, Slots
  <2>1. Tables'
    BY DEF Shape, Tables, Remember, Message, News
  <2>2. Listed'
    BY DEF Shape, Listed
  <2>3. Feeds'
    BY DEF Shape, Feeds
  <2>4. PICK m \in Message : Begin(server[c], m, c)
    OBVIOUS
  <2>5. Jobs'
    BY <2>0, <2>4 DEF Shape, Listed, Jobs, Job, Begin
  <2>6. Writes'
    BY <2>0, <2>4, MessageTypes DEF Shape, Listed, Jobs, Writes, Job, Begin, Unlocked
  <2>7. Slots'
    BY DEF Shape, Slots
  <2>8. Dispatching'
    BY <2>0 DEF Shape, Tables, Dispatching, Jobs, Job, Begin, Announces, Up
  <2> QED BY <2>1, <2>2, <2>3, <2>5, <2>6, <2>7, <2>8 DEF Shape
<1>4. ASSUME NEW c \in Conn, ReadFails(c) PROVE Shape'
  <2> USE <1>4 DEF ReadFails, Goto, hubs
  <2>1. Tables'
    BY DEF Shape, Tables, Registered, Up
  <2>2. Listed'
    BY DEF Shape, Tables, Listed, Registered, Up
  <2>3. Feeds' /\ Jobs' /\ Writes'
    BY DEF Shape, Feeds, Jobs, Writes
  <2>4. Slots' /\ Dispatching'
    BY DEF Shape, Tables, Slots, Dispatching, Up
  <2> QED BY <2>1, <2>2, <2>3, <2>4 DEF Shape
<1>5. ASSUME NEW c \in Conn, unregisterClient(c) PROVE Shape'
  <2> USE <1>5 DEF unregisterClient, Close, Unlocked
  <2>1. Tables'
    BY DEF Shape, Tables, News
  <2>2. Listed'
    BY DEF Shape, Tables, Listed, Registered, Up, Slots
  <2>3. Feeds'
    BY DEF Shape, Feeds
  <2>4. Jobs' /\ Writes'
    BY MessageTypes DEF Shape, Listed, Jobs, Writes, Slots
  <2>5. Slots'
    BY DEF Shape, Tables, Slots
  <2>6. Dispatching'
    BY DEF Shape, Tables, Dispatching, Up
  <2> QED BY <2>1, <2>2, <2>3, <2>4, <2>5, <2>6 DEF Shape
<1>6. ASSUME NEW s \in Server, Receive(s) PROVE Shape'
  <2> USE <1>6 DEF Receive, conns
  <2>1. Tables' /\ Listed'
    BY DEF Shape, Tables, Listed
  <2>2. Head(feed[s]) \in Message
    BY DEF Shape, Feeds
  <2>3. Feeds'
    BY CapacityAssumption DEF Shape, Feeds
  <2>4. Jobs'
    BY <2>2 DEF Shape, Listed, Jobs, Job, Begin
  <2>5. Slots' /\ Writes'
    BY MessageTypes DEF Shape, Listed, Slots, Jobs, Job, Writes, Begin, Unlocked
  <2>6. Dispatching'
    BY DEF Shape, Tables, Dispatching, Jobs, Job, Begin
  <2> QED BY <2>1, <2>3, <2>4, <2>5, <2>6 DEF Shape
<1>7. ASSUME NEW s \in Server, Broadcast(s) PROVE Shape'
  <2> USE <1>7 DEF Broadcast, conns
  <2>1. Tables' /\ Listed' /\ Slots'
    BY DEF Shape, Tables, Listed, Slots
  <2>2. PICK users \in SUBSET User :
            \/ /\ \E reached \in SUBSET linked : Deliver(Notice(users), reached)
               /\ UNCHANGED sending
            \/ Begin(s, Notice(users), Nobody) /\ UNCHANGED feed
    OBVIOUS
  <2>3. Notice(users) \in Message
    BY MessageTypes
  <2>4. CASE Begin(s, Notice(users), Nobody) /\ UNCHANGED feed
    <3> USE <2>3, <2>4
    <3>1. Feeds'
      BY DEF Shape, Feeds
    <3>2. Jobs'
      BY DEF Shape, Listed, Jobs, Job, Begin
    <3>3. Writes'
      BY MessageTypes DEF Shape, Listed, Jobs, Job, Writes, Begin, Unlocked
    <3>4. Dispatching'
      BY DEF Shape, Tables, Dispatching, Jobs, Job, Begin
    <3> QED BY <2>1, <3>1, <3>2, <3>3, <3>4 DEF Shape
  <2>5. CASE (\E reached \in SUBSET linked : Deliver(Notice(users), reached)) /\ UNCHANGED sending
    <3>1. PICK reached \in SUBSET linked : Deliver(Notice(users), reached)
      BY <2>5
    <3>2. Feeds'
      BY <2>3, <3>1, CapacityAssumption DEF Shape, Tables, Feeds, Deliver
    <3>3. Jobs' /\ Writes' /\ Dispatching'
      BY <2>5 DEF Shape, Jobs, Writes, Dispatching
    <3> QED BY <2>1, <3>2, <3>3 DEF Shape
  <2> QED BY <2>2, <2>4, <2>5
<1>8. ASSUME NEW s \in Server, WriteJSON(s) PROVE Shape'
  <2> USE <1>8 DEF WriteJSON
  <2>1. PICK c \in sending[s].todo :
            /\ shown' = IF sending[s].msg.news = "nothing" THEN shown
                        ELSE [shown EXCEPT ![c] = sending[s].msg.news]
            /\ sending' = [sending EXCEPT ![s].todo = @ \ {c}]
    OBVIOUS
  <2>2. sending[s].msg.news \in News /\ c \in clients[s] /\ c \in Conn
    BY <2>1 DEF Shape, Listed, Jobs, Writes, Job, Message
  <2>3. Tables'
    BY <2>1, <2>2 DEF Shape, Tables
  <2>4. Listed' /\ Feeds'
    BY DEF Shape, Listed, Feeds
  <2>5. Jobs' /\ Writes'
    BY <2>1, MessageTypes DEF Shape, Jobs, Writes, Job
  <2>6. Slots'
    BY <2>1, <2>2 DEF Shape, Tables, Listed, Slots, Registered, Up
  <2>7. Dispatching'
    BY <2>1 DEF Shape, Jobs, Job, Dispatching
  <2> QED BY <2>3, <2>4, <2>5, <2>6, <2>7 DEF Shape
<1>9. ASSUME NEW s \in Server, Finish(s) PROVE Shape'
  <2> USE <1>9 DEF Finish, After
  <2>1. Tables'
    BY DEF Shape, Tables, Registered, Up
  <2>2. Listed'
    BY DEF Shape, Tables, Listed, Registered, Up, Dispatching
  <2>3. Feeds'
    BY DEF Shape, Feeds
  <2>4. Jobs' /\ Writes'
    BY MessageTypes DEF Shape, Jobs, Writes
  <2>5. Slots'
    BY DEF Shape, Tables, Slots, Dispatching, Up
  <2>6. Dispatching'
    BY MessageTypes DEF Shape, Tables, Jobs, Dispatching
  <2> QED BY <2>1, <2>2, <2>3, <2>4, <2>5, <2>6 DEF Shape
<1>10. ASSUME NEW s \in Server, Stall(s) \/ Resume(s) PROVE Shape'
  <2> USE <1>10 DEF Stall, Resume, conns
  <2>1. Tables' /\ Slots'
    BY DEF Shape, Tables, Slots
  <2>2. Listed' /\ Feeds'
    BY DEF Shape, Listed, Feeds
  <2>3. Jobs' /\ Writes'
    BY DEF Shape, Jobs, Writes
  <2>4. Dispatching'
    BY DEF Shape, Dispatching
  <2> QED BY <2>1, <2>2, <2>3, <2>4 DEF Shape
<1>11. ASSUME NEW s \in Server, Crash(s) PROVE Shape'
  <2> USE <1>11 DEF Crash, Close
  <2>1. Tables'
    BY DEF Shape, Tables, News
  <2>2. Listed'
    BY DEF Shape, Tables, Listed, Registered, Up, Slots
  <2>3. Feeds'
    BY CapacityAssumption DEF Shape, Tables, Feeds
  <2>4. Jobs' /\ Writes'
    BY MessageTypes DEF Shape, Listed, Jobs, Writes
  <2>5. Slots'
    BY DEF Shape, Tables, Slots
  <2>6. Dispatching'
    BY MessageTypes DEF Shape, Tables, Jobs, Dispatching
  <2> QED BY <2>1, <2>2, <2>3, <2>4, <2>5, <2>6 DEF Shape
<1>12. CASE UNCHANGED vars
  <2> USE <1>12 DEF vars, conns, hubs
  <2>1. Tables' /\ Slots'
    BY DEF Shape, Tables, Slots
  <2>2. Listed' /\ Feeds'
    BY DEF Shape, Listed, Feeds
  <2>3. Jobs' /\ Writes'
    BY DEF Shape, Jobs, Writes
  <2>4. Dispatching'
    BY DEF Shape, Dispatching
  <2> QED BY <2>1, <2>2, <2>3, <2>4 DEF Shape
<1> QED
  BY <1>1, <1>2, <1>3, <1>4, <1>5, <1>6, <1>7, <1>8, <1>9, <1>10, <1>11, <1>12 DEF Next

-----------------------------------------------------------------------------
(* The story.                                                              *)

\* What the last announcement said that was for s.
Fact(s) == IF latest[s] = "early" THEN "offline" ELSE latest[s]

\* A queue with nothing of Subject, and one whose last word of Subject is n.
Mute(q) == \A i \in DOMAIN q : q[i].news = "nothing"
EndsWith(q, n) ==
    \E i \in DOMAIN q : /\ q[i].news = n
                        /\ \A j \in DOMAIN q : j > i => q[j].news = "nothing"

\* What a client is told of Subject when the message under way is written.
Told(s, c) == IF c \in sending[s].todo /\ sending[s].msg.news # "nothing"
              THEN sending[s].msg.news ELSE shown[c]

\* Who announces Subject under the mutex has said where it is.
Announcing ==
    \A s \in Server, c \in Conn :
        sending[s].by = c /\ user[c] = Subject =>
            /\ pc[c] = "join" => latest[s] = "online"
            /\ pc[c] = "leave" => latest[s] \in {"offline", "early"}

\* What tells of Subject is for everyone.
Public ==
    \A s \in Server : \A i \in DOMAIN feed[s] :
        feed[s][i].news # "nothing" => feed[s][i].to = User

\* The last announcement is lost, or in the queue, or all there is.
Delivered(s) == Mute(feed[s]) /\ \A c \in clients[s] : Told(s, c) \in {Fact(s), "nothing"}
Pending(s) == latest[s] # "nothing" /\ EndsWith(feed[s], Fact(s))
OnItsWay == \A s \in Server : latest[s] = "missed" \/ Pending(s) \/ Delivered(s)

OnlineOfSomebody ==
    \A s \in Server : latest[s] = "online" =>
        \E d \in Conn : user[d] = Subject /\ pc[d] \in Up /\ s \in Reach(server[d])
OfflineOfNobody ==
    \A s \in Server : latest[s] = "offline" =>
        \A d \in Conn : user[d] = Subject /\ pc[d] = "open" => s \notin Reach(server[d])

Story == Announcing /\ Public /\ OnItsWay /\ OnlineOfSomebody /\ OfflineOfNobody
IInv == Shape /\ Story

\* What a queue says of Subject when a message is put in.
LEMMA AppendSays ==
    ASSUME NEW q \in Seq(Message), NEW m \in Message
    PROVE  /\ Mute(q) /\ m.news = "nothing" => Mute(Append(q, m))
           /\ \A n : EndsWith(q, n) /\ m.news = "nothing" => EndsWith(Append(q, m), n)
           /\ EndsWith(Append(q, m), m.news)
<1>1. /\ DOMAIN Append(q, m) = DOMAIN q \cup {Len(q) + 1}
      /\ \A i \in DOMAIN q : Append(q, m)[i] = q[i]
      /\ Append(q, m)[Len(q) + 1] = m
      /\ \A i \in DOMAIN q : i \in Nat /\ i < Len(q) + 1
  OBVIOUS
<1>2. Mute(q) /\ m.news = "nothing" => Mute(Append(q, m))
  BY <1>1 DEF Mute
<1>3. ASSUME NEW n, EndsWith(q, n), m.news = "nothing" PROVE EndsWith(Append(q, m), n)
  BY <1>1, <1>3 DEF EndsWith
<1>4. EndsWith(Append(q, m), m.news)
  BY <1>1 DEF EndsWith
<1> QED BY <1>2, <1>3, <1>4

\* ... and when one is taken out.
LEMMA TailSays ==
    ASSUME NEW q \in Seq(Message), q # <<>>
    PROVE  /\ Mute(q) => Head(q).news = "nothing" /\ Mute(Tail(q))
           /\ \A n : EndsWith(q, n) => \/ EndsWith(Tail(q), n)
                                       \/ Head(q).news = n /\ Mute(Tail(q))
<1>1. /\ 1 \in DOMAIN q /\ Head(q) = q[1]
      /\ \A i \in DOMAIN Tail(q) : i \in Nat /\ i + 1 \in DOMAIN q /\ Tail(q)[i] = q[i + 1]
      /\ \A i \in DOMAIN q : i \in Nat /\ (i = 1 \/ (i - 1 \in DOMAIN Tail(q) /\ i - 1 \in Nat))
  OBVIOUS
<1>2. Mute(q) => Head(q).news = "nothing" /\ Mute(Tail(q))
  BY <1>1 DEF Mute
<1>3. ASSUME NEW n, EndsWith(q, n)
      PROVE  EndsWith(Tail(q), n) \/ (Head(q).news = n /\ Mute(Tail(q)))
  <2>1. PICK i \in DOMAIN q : /\ q[i].news = n
                              /\ \A j \in DOMAIN q : j > i => q[j].news = "nothing"
    BY <1>3 DEF EndsWith
  <2>2. CASE i = 1
    BY <1>1, <2>1, <2>2 DEF Mute
  <2>3. CASE i # 1
    <3>1. /\ i - 1 \in DOMAIN Tail(q) /\ Tail(q)[i - 1].news = n
          /\ \A j \in DOMAIN Tail(q) : j > i - 1 => Tail(q)[j].news = "nothing"
      BY <1>1, <2>1, <2>3
    <3> QED BY <3>1 DEF EndsWith
  <2> QED BY <2>2, <2>3
<1> QED BY <1>2, <1>3

\* Servers that hear each other: all with Redis, or one without.
LEMMA ReachFacts ==
    \A s, t, r \in Server :
        /\ s \in Reach(s)
        /\ t \in Reach(s) /\ t \in Reach(r) => s \in Reach(r)
        /\ t \in Reach(s) /\ s \in linked => t \in linked
        /\ t \in Reach(s) /\ s \notin linked => t = s
BY DEF Reach

\* What the shape says of a server whose mutex is free, of a client, of a queue.
LEMMA ShapeFacts ==
    ASSUME Shape
    PROVE  /\ \A s \in Server : ~sending[s].busy => sending[s].todo = {} /\ sending[s].by = Nobody
           /\ \A s \in Server : \A c \in clients[s] :
                 c \in Conn /\ server[c] = s /\ pc[c] # "absent" /\ user[c] \in User
           /\ \A s \in Server : s \notin linked => feed[s] = <<>>
           /\ \A s \in Server : feed[s] \in Seq(Message)
           /\ \A c \in Conn : pc[c] # "absent" => server[c] \in Server
           /\ \A c \in Conn : user[c] = Subject => server[c] \in Server
<1>1. \A s \in Server : ~sending[s].busy => sending[s].todo = {} /\ sending[s].by = Nobody
  BY MessageTypes DEF Shape, Jobs
<1>2. \A s \in Server : \A c \in clients[s] :
          c \in Conn /\ server[c] = s /\ pc[c] # "absent" /\ user[c] \in User
  BY DEF Shape, Listed, Slots, Registered, Up
<1>3. \A s \in Server : s \notin linked => feed[s] = <<>>
  BY DEF Shape, Feeds
<1>4. \A s \in Server : feed[s] \in Seq(Message)
  BY DEF Shape, Feeds
<1>5. \A c \in Conn : user[c] = Subject \/ pc[c] # "absent" => server[c] \in Server
  BY NobodyAssumption, SubjectAssumption DEF Shape, Slots
<1> QED BY <1>1, <1>2, <1>3, <1>4, <1>5

\* An announcement that tells of Subject is one of its connections', and for
\* everyone.
LEMMA AnnounceFacts ==
    ASSUME NEW c, NEW m, Announces(c, m)
    PROVE  /\ m.news \in News
           /\ m.news # "nothing" => user[c] = Subject /\ m.to = User
           /\ m.news = "online" => pc[c] \in {"join", "open"}
           /\ m.news = "offline" => pc[c] \in {"leave", "open"}
           /\ user[c] = Subject /\ pc[c] = "join" => m.news = "online"
           /\ user[c] = Subject /\ pc[c] = "leave" => m.news = "offline"
           /\ pc[c] \in Up
BY DEF Announces, Presence, Notice, News, Up

\* Nothing is announced when the servers start.
LEMMA StoryInit == Init => Story
<1> SUFFICES ASSUME Init PROVE Story
  OBVIOUS
<1>1. Announcing /\ Public /\ OnlineOfSomebody /\ OfflineOfNobody
  BY MessageTypes, NobodyAssumption
     DEF Init, Announcing, Public, OnlineOfSomebody, OfflineOfNobody
<1>2. OnItsWay
  BY DEF Init, OnItsWay, Delivered, Mute
<1> QED BY <1>1, <1>2 DEF Story

\* Every action keeps the story.
LEMMA StoryNext == IInv /\ [Next]_vars => Story'
<1> SUFFICES ASSUME IInv, [Next]_vars PROVE Story'
  OBVIOUS
<1>s. Shape /\ Story
  BY DEF IInv
<1>n. Shape'
  BY <1>s, ShapeNext
<1> USE NobodyAssumption, SubjectAssumption
<1>1. ASSUME NEW c \in Conn, NEW u \in User, NEW s \in Server, HandleWS(c, u, s) PROVE Story'
  <2> USE <1>1, <1>s DEF HandleWS, Goto
  <2>1. /\ pc[c] = "absent" /\ shown[c] = "nothing" /\ c \notin clients[s]
        /\ \A t \in Server : sending[t].by # c
        /\ \A t \in Server : clients'[t] \subseteq clients[t] \cup {c}
    BY DEF Shape, Slots, Listed, Dispatching, Registered, Up
  <2>2. Announcing'
    BY <2>1 DEF Shape, Tables, Story, Announcing
  <2>3. Public'
    BY DEF Story, Public
  <2>4. OnItsWay'
    <3>1. ASSUME NEW t \in Server, Delivered(t) PROVE Delivered(t)'
      <4>1. ASSUME NEW d \in clients'[t], d # c PROVE Told(t, d)' \in {Fact(t)', "nothing"}
        BY <2>1, <3>1, <4>1 DEF Delivered, Told, Fact
      <4>2. Told(t, c)' = "nothing" \/ c \in clients[t]
        BY <2>1 DEF Told, Shape, Writes
      <4> QED BY <3>1, <4>1, <4>2, <2>1 DEF Delivered, Shape, Listed, Registered, Up
    <3> QED BY <3>1 DEF Story, OnItsWay, Pending, Fact
  <2>5. OnlineOfSomebody' /\ OfflineOfNobody'
    BY <2>1 DEF Shape, Tables, Story, OnlineOfSomebody, OfflineOfNobody, Up, Reach
  <2> QED BY <2>2, <2>3, <2>4, <2>5 DEF Story
<1>2. ASSUME NEW c \in Conn, Publish(c) PROVE Story'
  <2> USE <1>s
  <2>1. PICK m \in Message, reached \in SUBSET linked :
            Announces(c, m) /\ Deliver(m, reached) /\ Remember(c, m, reached)
    BY <1>2 DEF Publish
  <2>2. /\ server[c] \in linked /\ server[c] \in Server /\ linked \subseteq Server
        /\ sending[server[c]].by # c /\ pc[c] # "absent"
        /\ pc' = [pc EXCEPT ![c] = After(c)]
        /\ UNCHANGED <<linked, user, server, shown, clients, sending, stuck>>
    BY <1>2 DEF Publish, Free, Goto, Shape, Tables, Slots
  <2>3. ASSUME NEW t \in Server
        PROVE  /\ feed'[t] = IF t \in reached THEN Append(feed[t], m) ELSE feed[t]
               /\ feed[t] \in Seq(Message)
    BY <2>1, ShapeFacts DEF Deliver
  <2>4. ASSUME NEW t \in Server, m.news = "nothing" \/ t \notin linked
        PROVE  latest'[t] = latest[t]
    BY <2>1, <2>2, <2>4 DEF Remember, Reach
  <2>5. ASSUME NEW t \in linked, m.news # "nothing"
        PROVE  /\ t \notin reached => latest'[t] = "missed"
               /\ t \in reached => \/ latest'[t] = m.news
                                   \/ latest'[t] = "early" /\ m.news = "offline"
    BY <2>1, <2>2, <2>5 DEF Remember, Reach
  <2>6. Announcing'
    <3>1. \A t \in Server : sending[t].by # c
      BY <2>2 DEF Shape, Dispatching
    <3> QED BY <2>2, <2>4, <3>1 DEF Shape, Tables, Dispatching, Story, Announcing
  <2>7. Public'
    <3>1. ASSUME NEW t \in Server, NEW i \in DOMAIN feed'[t], feed'[t][i].news # "nothing"
          PROVE  feed'[t][i].to = User
      <4>1. feed'[t][i] = m \/ (i \in DOMAIN feed[t] /\ feed'[t][i] = feed[t][i])
        <5>1. CASE t \in reached
          <6>1. /\ DOMAIN Append(feed[t], m) = DOMAIN feed[t] \cup {Len(feed[t]) + 1}
                /\ \A j \in DOMAIN feed[t] : Append(feed[t], m)[j] = feed[t][j]
                /\ Append(feed[t], m)[Len(feed[t]) + 1] = m
            BY <2>3
          <6> QED BY <2>3, <3>1, <5>1, <6>1
        <5>2. CASE t \notin reached
          BY <2>3, <3>1, <5>2
        <5> QED BY <5>1, <5>2
      <4> QED BY <2>1, <3>1, <4>1, AnnounceFacts DEF Story, Public
    <3> QED BY <3>1 DEF Public
  <2>8. OnItsWay'
    <3> SUFFICES ASSUME NEW t \in Server
                 PROVE  latest'[t] = "missed" \/ Pending(t)' \/ Delivered(t)'
      BY DEF OnItsWay
    <3>1. CASE m.news = "nothing"
      <4>1. Fact(t)' = Fact(t) /\ \A d : Told(t, d)' = Told(t, d)
        BY <2>2, <2>4, <3>1 DEF Fact, Told
      <4>2. Mute(feed[t]) => Mute(feed'[t])
        BY <2>3, <3>1, AppendSays
      <4>3. EndsWith(feed[t], Fact(t)) => EndsWith(feed'[t], Fact(t))
        BY <2>3, <3>1, AppendSays
      <4> QED BY <2>2, <2>4, <3>1, <4>1, <4>2, <4>3 DEF Story, OnItsWay, Pending, Delivered
    <3>2. CASE m.news # "nothing" /\ t \in linked
      <4>1. CASE t \in reached
        <5>1. EndsWith(feed'[t], m.news)
          BY <2>3, <4>1, AppendSays
        <5>2. Fact(t)' = m.news /\ latest'[t] # "nothing"
          BY <2>1, <2>5, <3>2, <4>1, AnnounceFacts DEF Fact, News
        <5> QED BY <5>1, <5>2 DEF Pending
      <4> QED BY <2>5, <3>2, <4>1
    <3>3. CASE t \notin linked
      <4>1. latest'[t] = latest[t] /\ feed'[t] = feed[t]
        BY <2>3, <2>4, <3>3
      <4> QED BY <2>2, <4>1 DEF Story, OnItsWay, Pending, Delivered, Fact, Told
    <3> QED BY <3>1, <3>2, <3>3
  <2>9. OnlineOfSomebody'
    <3> SUFFICES ASSUME NEW t \in Server, latest'[t] = "online"
                 PROVE  \E d \in Conn : user[d] = Subject /\ pc'[d] \in Up /\ t \in Reach(server[d])
      BY <2>2 DEF OnlineOfSomebody, Reach
    <3>1. CASE t \in linked /\ m.news # "nothing"
      <4>1. m.news = "online"
        BY <2>5, <3>1
      <4>2. user[c] = Subject /\ pc[c] \in {"join", "open"}
        BY <2>1, <4>1, AnnounceFacts
      <4>3. pc'[c] = "open"
        BY <2>2, <4>2 DEF After, Shape, Tables
      <4> QED BY <2>2, <3>1, <4>2, <4>3 DEF Reach, Up
    <3>2. CASE t \notin linked \/ m.news = "nothing"
      <4>1. PICK d \in Conn : user[d] = Subject /\ pc[d] \in Up /\ t \in Reach(server[d])
        BY <2>4, <3>2 DEF Story, OnlineOfSomebody
      <4>2. d = c => (m.news # "nothing" /\ t \in linked) \/ pc[c] # "leave"
        BY <2>1, <2>2, <4>1, AnnounceFacts DEF Reach
      <4>3. pc'[d] \in Up
        BY <2>2, <3>2, <4>1, <4>2 DEF After, Shape, Tables, Up
      <4> QED BY <4>1, <4>3
    <3> QED BY <3>1, <3>2
  <2>10. OfflineOfNobody'
    <3> SUFFICES ASSUME NEW t \in Server, latest'[t] = "offline",
                        NEW d \in Conn, user[d] = Subject, pc'[d] = "open", t \in Reach(server[d])
                 PROVE  FALSE
      BY <2>2 DEF OfflineOfNobody, Reach
    <3>0. server[d] \in Server
      BY ShapeFacts
    <3>1. CASE t \in linked /\ m.news # "nothing"
      <4>1. m.news = "offline" /\ t \in reached
        BY <2>1, <2>5, <3>1, AnnounceFacts DEF News
      <4>2. user[c] = Subject /\ pc[c] \in {"leave", "open"}
        BY <2>1, <4>1, AnnounceFacts
      <4>3. pc[d] = "open"
        BY <2>2, <4>2 DEF After, Shape, Tables
      <4>4. Heard(c, d)
        BY <2>2, <3>0, <3>1, ReachFacts DEF Heard, Reach
      <4>5. latest'[t] = "early"
        BY <2>1, <2>2, <3>1, <4>1, <4>2, <4>3, <4>4 DEF Remember, Reach
      <4> QED BY <4>5
    <3>2. CASE t \notin linked \/ m.news = "nothing"
      <4>1. latest[t] = "offline"
        BY <2>4, <3>2
      <4>2. pc[d] # "open"
        BY <4>1 DEF Story, OfflineOfNobody
      <4>3. d = c /\ pc[c] = "join"
        BY <2>1, <2>2, <4>2, AnnounceFacts DEF After, Shape, Tables, Up
      <4>4. m.news = "online" /\ t \in linked
        BY <2>1, <2>2, <4>3, AnnounceFacts DEF Reach
      <4> QED BY <3>2, <4>4
    <3> QED BY <3>1, <3>2
  <2> QED BY <2>6, <2>7, <2>8, <2>9, <2>10 DEF Story
<1>3. ASSUME NEW c \in Conn, Dispatch(c) PROVE Story'
  <2> USE <1>s
  <2> DEFINE s == server[c]
  <2>1. /\ s \notin linked /\ s \in Server
        /\ UNCHANGED <<linked, pc, user, server, shown, clients, stuck, feed>>
        /\ feed[s] = <<>>
    BY <1>3, ShapeFacts DEF Dispatch, Announces, conns
  <2>2. PICK m \in Message :
            Announces(c, m) /\ Begin(s, m, c) /\ Remember(c, m, {s})
    BY <1>3 DEF Dispatch
  <2>3. /\ sending[s].todo = {} /\ sending'[s].by = c /\ sending'[s].msg = m
        /\ sending'[s].todo = {d \in clients[s] : user[d] \in m.to}
        /\ \A t \in Server : t # s => sending'[t] = sending[t]
    BY <2>1, <2>2, ShapeFacts DEF Begin, Unlocked, Shape, Jobs
  <2>4. ASSUME NEW t \in Server, m.news = "nothing" \/ t # s
        PROVE  latest'[t] = latest[t]
    BY <2>1, <2>2, <2>4 DEF Remember, Reach
  <2>5. m.news # "nothing" => \/ latest'[s] = m.news
                              \/ latest'[s] = "early" /\ m.news = "offline"
    BY <2>1, <2>2 DEF Remember, Reach
  <2>6. Announcing'
    <3> SUFFICES ASSUME NEW t \in Server, NEW d \in Conn, sending'[t].by = d, user[d] = Subject
                 PROVE  /\ pc[d] = "join" => latest'[t] = "online"
                        /\ pc[d] = "leave" => latest'[t] \in {"offline", "early"}
      BY <2>1 DEF Announcing
    <3>1. CASE t = s
      BY <2>2, <2>3, <2>5, <3>1, AnnounceFacts
    <3>2. CASE t # s
      BY <2>3, <2>4, <3>2 DEF Story, Announcing
    <3> QED BY <3>1, <3>2
  <2>7. Public'
    BY <2>1 DEF Story, Public
  <2>8. OnItsWay'
    <3> SUFFICES ASSUME NEW t \in Server
                 PROVE  latest'[t] = "missed" \/ Pending(t)' \/ Delivered(t)'
      BY DEF OnItsWay
    <3>1. CASE t # s
      BY <2>1, <2>3, <2>4, <3>1 DEF Story, OnItsWay, Pending, Delivered, Fact, Told
    <3>2. CASE t = s /\ m.news = "nothing"
      <4>1. latest[s] = "missed" \/ Delivered(s)
        BY <2>1 DEF Story, OnItsWay, Pending, EndsWith
      <4>2. \A d : Told(s, d)' = Told(s, d)
        BY <2>1, <2>3, <3>2 DEF Told
      <4> QED BY <2>1, <2>4, <3>2, <4>1, <4>2 DEF Delivered, Fact
    <3>3. CASE t = s /\ m.news # "nothing"
      <4>1. ASSUME NEW d \in clients[s] PROVE Told(s, d)' = m.news
        BY <2>1, <2>2, <2>3, <3>3, AnnounceFacts, ShapeFacts DEF Told
      <4>2. Fact(s)' = m.news
        BY <2>1, <2>2, <2>5, <3>3, AnnounceFacts DEF Fact, News
      <4>3. Mute(feed'[s])
        BY <2>1 DEF Mute
      <4> QED BY <2>1, <3>3, <4>1, <4>2, <4>3 DEF Delivered
    <3> QED BY <3>1, <3>2, <3>3
  <2>9. OnlineOfSomebody'
    <3> SUFFICES ASSUME NEW t \in Server, latest'[t] = "online"
                 PROVE  \E d \in Conn : user[d] = Subject /\ pc[d] \in Up /\ t \in Reach(server[d])
      BY <2>1 DEF OnlineOfSomebody, Reach
    <3>1. CASE t = s /\ m.news # "nothing"
      <4>1. user[c] = Subject /\ pc[c] \in Up
        BY <2>2, <3>1, AnnounceFacts
      <4> QED BY <2>1, <3>1, <4>1, ReachFacts
    <3>2. CASE t # s \/ m.news = "nothing"
      BY <2>4, <3>2 DEF Story, OnlineOfSomebody
    <3> QED BY <3>1, <3>2
  <2>10. OfflineOfNobody'
    <3> SUFFICES ASSUME NEW t \in Server, latest'[t] = "offline",
                        NEW d \in Conn, user[d] = Subject, pc[d] = "open", t \in Reach(server[d])
                 PROVE  FALSE
      BY <2>1 DEF OfflineOfNobody, Reach
    <3>1. CASE t = s /\ m.news # "nothing"
      <4>1. m.news = "offline"
        BY <2>5, <3>1
      <4>2. user[c] = Subject /\ Heard(c, d)
        BY <2>2, <3>1, AnnounceFacts DEF Heard
      <4>3. latest'[s] = "early"
        BY <2>1, <2>2, <3>1, <4>1, <4>2 DEF Remember, Reach
      <4> QED BY <3>1, <4>3
    <3>2. CASE t # s \/ m.news = "nothing"
      BY <2>4, <3>2 DEF Story, OfflineOfNobody
    <3> QED BY <3>1, <3>2
  <2> QED BY <2>6, <2>7, <2>8, <2>9, <2>10 DEF Story
<1>4. ASSUME NEW c \in Conn, ReadFails(c) PROVE Story'
  <2> USE <1>4, <1>s DEF ReadFails, Goto, hubs
  <2>1. \A t \in Server : sending[t].by # c
    BY DEF Shape, Dispatching, Free
  <2>2. Announcing' /\ Public'
    BY <2>1 DEF Shape, Tables, Story, Announcing, Public
  <2>3. OnItsWay'
    BY DEF Story, OnItsWay, Pending, Delivered, Fact, Told
  <2>4. OnlineOfSomebody' /\ OfflineOfNobody'
    BY DEF Shape, Tables, Story, OnlineOfSomebody, OfflineOfNobody, Up, Reach
  <2> QED BY <2>2, <2>3, <2>4 DEF Story
<1>5. ASSUME NEW c \in Conn, unregisterClient(c) PROVE Story'
  <2> USE <1>5, <1>s DEF unregisterClient, Close
  <2>1. /\ server[c] \in Server /\ \A t \in Server : sending[t].by # c
        /\ \A t \in Server : c \notin clients'[t] /\ clients'[t] \subseteq clients[t]
    BY ShapeFacts DEF Shape, Listed, Dispatching, Up
  <2>2. Announcing' /\ Public'
    BY <2>1 DEF Shape, Tables, Story, Announcing, Public
  <2>3. OnItsWay'
    <3>1. ASSUME NEW t \in Server, NEW d \in clients'[t] PROVE d \in clients[t] /\ Told(t, d)' = Told(t, d)
      BY <2>1, ShapeFacts DEF Told
    <3> QED BY <3>1 DEF Story, OnItsWay, Pending, Delivered, Fact
  <2>4. OnlineOfSomebody' /\ OfflineOfNobody'
    BY DEF Shape, Tables, Story, OnlineOfSomebody, OfflineOfNobody, Up, Reach
  <2> QED BY <2>2, <2>3, <2>4 DEF Story
<1>6. ASSUME NEW s \in Server, Receive(s) PROVE Story'
  <2> USE <1>s
  <2> DEFINE m == Head(feed[s])
  <2>1. /\ feed[s] # <<>> /\ feed[s] \in Seq(Message) /\ feed' = [feed EXCEPT ![s] = Tail(@)]
        /\ UNCHANGED <<linked, pc, user, server, shown, clients, stuck, latest>>
    BY <1>6, ShapeFacts DEF Receive, conns
  <2>2. /\ sending[s].todo = {} /\ sending'[s].by = Nobody /\ sending'[s].msg = m
        /\ sending'[s].todo = {d \in clients[s] : user[d] \in m.to}
        /\ \A t \in Server : t # s => sending'[t] = sending[t]
    BY <1>6, ShapeFacts DEF Receive, Begin, Unlocked, Shape, Jobs
  <2>3. feed'[s] = Tail(feed[s]) /\ \A t \in Server : t # s => feed'[t] = feed[t]
    BY <2>1 DEF Shape, Feeds
  <2>4. Announcing'
    BY <2>1, <2>2 DEF Story, Announcing
  <2>5. m.news # "nothing" => m.to = User
    BY <2>1 DEF Story, Public
  <2>6. Public'
    <3>1. ASSUME NEW i \in DOMAIN Tail(feed[s])
          PROVE  i + 1 \in DOMAIN feed[s] /\ Tail(feed[s])[i] = feed[s][i + 1]
      BY <2>1
    <3>2. ASSUME NEW t \in Server, NEW i \in DOMAIN feed'[t], feed'[t][i].news # "nothing"
          PROVE  feed'[t][i].to = User
      <4>1. CASE t = s
        <5>1. i \in DOMAIN Tail(feed[s]) /\ feed'[t][i] = Tail(feed[s])[i]
          BY <2>3, <3>2, <4>1
        <5>2. i + 1 \in DOMAIN feed[s] /\ feed'[t][i] = feed[s][i + 1]
          BY <3>1, <5>1
        <5> QED BY <3>2, <5>2 DEF Story, Public
      <4>2. CASE t # s
        BY <2>3, <3>2, <4>2 DEF Story, Public
      <4> QED BY <4>1, <4>2
    <3> QED BY <3>2 DEF Public
  <2>7. OnItsWay'
    <3> SUFFICES ASSUME NEW t \in Server
                 PROVE  latest'[t] = "missed" \/ Pending(t)' \/ Delivered(t)'
      BY DEF OnItsWay
    <3>1. CASE t # s
      BY <2>1, <2>2, <2>3, <3>1 DEF Story, OnItsWay, Pending, Delivered, Fact, Told
    <3>2. CASE t = s /\ Pending(s)
      <4>1. \/ EndsWith(Tail(feed[s]), Fact(s))
            \/ m.news = Fact(s) /\ Mute(Tail(feed[s]))
        BY <2>1, <3>2, TailSays DEF Pending
      <4>2. CASE EndsWith(Tail(feed[s]), Fact(s))
        BY <2>1, <2>3, <3>2, <4>2 DEF Pending, Fact
      <4>3. CASE m.news = Fact(s) /\ Mute(Tail(feed[s]))
        <5>1. Fact(s) # "nothing"
          BY <3>2 DEF Pending, Fact
        <5>2. ASSUME NEW d \in clients[s] PROVE Told(s, d)' = m.news
          BY <2>1, <2>2, <2>5, <4>3, <5>1, ShapeFacts DEF Told
        <5> QED BY <2>1, <2>3, <3>2, <4>3, <5>2 DEF Delivered, Fact
      <4> QED BY <4>1, <4>2, <4>3
    <3>3. CASE t = s /\ Delivered(s)
      <4>1. m.news = "nothing" /\ Mute(Tail(feed[s]))
        BY <2>1, <3>3, TailSays DEF Delivered
      <4>2. \A d : Told(s, d)' = Told(s, d)
        BY <2>1, <2>2, <4>1 DEF Told
      <4> QED BY <2>1, <2>3, <3>3, <4>1, <4>2 DEF Delivered, Fact
    <3> QED BY <2>1, <3>1, <3>2, <3>3 DEF Story, OnItsWay
  <2>8. OnlineOfSomebody' /\ OfflineOfNobody'
    BY <2>1 DEF Story, OnlineOfSomebody, OfflineOfNobody, Reach
  <2> QED BY <2>4, <2>6, <2>7, <2>8 DEF Story
<1>7. ASSUME NEW s \in Server, Broadcast(s) PROVE Story'
  <2> USE <1>s
  <2>1. PICK users \in SUBSET User :
            \/ /\ \E reached \in SUBSET linked : Deliver(Notice(users), reached)
               /\ UNCHANGED sending
            \/ s \notin linked /\ Begin(s, Notice(users), Nobody) /\ UNCHANGED feed
    BY <1>7 DEF Broadcast
  <2> DEFINE m == Notice(users)
  <2>2. /\ UNCHANGED <<linked, pc, user, server, shown, clients, stuck, latest>>
        /\ m \in Message /\ m.news = "nothing"
    BY <1>7, MessageTypes DEF Broadcast, conns
  <2> HIDE DEF m
  <2>3. OnlineOfSomebody' /\ OfflineOfNobody'
    BY <2>2 DEF Story, OnlineOfSomebody, OfflineOfNobody, Reach
  <2>4. ASSUME NEW reached \in SUBSET linked, Deliver(m, reached), UNCHANGED sending
        PROVE  Announcing' /\ Public' /\ OnItsWay'
    <3>1. ASSUME NEW t \in Server
          PROVE  /\ feed'[t] = IF t \in reached THEN Append(feed[t], m) ELSE feed[t]
                 /\ feed[t] \in Seq(Message)
      BY <2>4, ShapeFacts DEF Deliver
    <3>2. Announcing'
      BY <2>2, <2>4 DEF Story, Announcing
    <3>3. Public'
      <4> SUFFICES ASSUME NEW t \in Server, NEW i \in DOMAIN feed'[t], feed'[t][i].news # "nothing"
                   PROVE  feed'[t][i].to = User
        BY DEF Public
      <4>1. /\ DOMAIN Append(feed[t], m) = DOMAIN feed[t] \cup {Len(feed[t]) + 1}
            /\ \A j \in DOMAIN feed[t] : Append(feed[t], m)[j] = feed[t][j]
            /\ Append(feed[t], m)[Len(feed[t]) + 1] = m
        BY <3>1
      <4>2. i \in DOMAIN feed[t] /\ feed'[t][i] = feed[t][i]
        BY <2>2, <3>1, <4>1
      <4> QED BY <4>2 DEF Story, Public
    <3>4. OnItsWay'
      <4>1. ASSUME NEW t \in Server
            PROVE  /\ Mute(feed[t]) => Mute(feed'[t])
                   /\ \A n : EndsWith(feed[t], n) => EndsWith(feed'[t], n)
        BY <2>2, <3>1, AppendSays
      <4>2. ASSUME NEW t \in Server
            PROVE  /\ Fact(t)' = Fact(t) /\ \A d : Told(t, d)' = Told(t, d)
                   /\ clients'[t] = clients[t] /\ latest'[t] = latest[t]
        BY <2>2, <2>4 DEF Fact, Told
      <4> QED BY <4>1, <4>2 DEF Story, OnItsWay, Pending, Delivered
    <3> QED BY <3>2, <3>3, <3>4
  <2>5. ASSUME Begin(s, m, Nobody), UNCHANGED feed
        PROVE  Announcing' /\ Public' /\ OnItsWay'
    <3>1. /\ sending[s].todo = {} /\ sending'[s].by = Nobody /\ sending'[s].msg = m
          /\ \A t \in Server : t # s => sending'[t] = sending[t]
      BY <2>5, ShapeFacts DEF Begin, Unlocked, Shape, Jobs
    <3>2. Announcing' /\ Public'
      BY <2>2, <2>5, <3>1 DEF Story, Announcing, Public
    <3>3. \A t \in Server : \A d : Told(t, d)' = Told(t, d)
      BY <2>2, <3>1 DEF Told
    <3>4. OnItsWay'
      BY <2>2, <2>5, <3>3 DEF Story, OnItsWay, Pending, Delivered, Fact
    <3> QED BY <3>2, <3>4
  <2> QED BY <2>1, <2>3, <2>4, <2>5 DEF Story, m
<1>8. ASSUME NEW s \in Server, WriteJSON(s) PROVE Story'
  <2> USE <1>s
  <2>1. PICK c \in sending[s].todo :
            /\ shown' = IF sending[s].msg.news = "nothing" THEN shown
                        ELSE [shown EXCEPT ![c] = sending[s].msg.news]
            /\ sending' = [sending EXCEPT ![s].todo = @ \ {c}]
    BY <1>8 DEF WriteJSON
  <2>2. /\ UNCHANGED <<linked, pc, user, server, clients, feed, latest>>
        /\ c \in clients[s] /\ c \in Conn /\ server[c] = s
    BY <1>8, <2>1, ShapeFacts DEF WriteJSON, Shape, Writes
  <2>3. /\ sending'[s].todo = sending[s].todo \ {c} /\ sending'[s].msg = sending[s].msg
        /\ \A t \in Server : t # s => sending'[t] = sending[t]
        /\ \A t \in Server : sending'[t].by = sending[t].by
    BY <2>1 DEF Shape, Jobs, Job
  <2>4. ASSUME NEW t \in Server, NEW d \in clients[t] PROVE Told(t, d)' = Told(t, d)
    <3>1. d \in Conn /\ (d = c => t = s)
      BY <2>2, <2>4, ShapeFacts
    <3> QED BY <2>1, <2>3, <3>1 DEF Told, Shape, Tables
  <2>5. Announcing' /\ Public'
    BY <2>2, <2>3 DEF Story, Announcing, Public
  <2>6. OnItsWay'
    BY <2>2, <2>4 DEF Story, OnItsWay, Pending, Delivered, Fact
  <2>7. OnlineOfSomebody' /\ OfflineOfNobody'
    BY <2>2 DEF Story, OnlineOfSomebody, OfflineOfNobody, Reach
  <2> QED BY <2>5, <2>6, <2>7 DEF Story
<1>9. ASSUME NEW s \in Server, Finish(s) PROVE Story'
  <2> USE <1>s
  <2>1. /\ sending[s].todo = {}
        /\ sending' = [sending EXCEPT ![s] = Idle]
        /\ pc' = [c \in Conn |-> IF c = sending[s].by THEN After(c) ELSE pc[c]]
        /\ UNCHANGED <<linked, user, server, shown, clients, stuck, feed, latest>>
    BY <1>9 DEF Finish
  <2>2. /\ sending'[s].by = Nobody /\ sending'[s].todo = {}
        /\ \A t \in Server : t # s => sending'[t] = sending[t]
    BY <2>1, MessageTypes DEF Shape, Jobs
  <2>3. ASSUME NEW c \in Conn, c = sending[s].by
        PROVE  /\ s \notin linked /\ server[c] = s /\ pc[c] \in Up
               /\ user[c] = Subject /\ pc[c] = "join" => latest[s] = "online"
               /\ user[c] = Subject /\ pc[c] = "leave" => latest[s] \in {"offline", "early"}
    BY <2>3 DEF Shape, Dispatching, Story, Announcing
  <2>4. Announcing'
    <3> SUFFICES ASSUME NEW t \in Server, NEW d \in Conn, sending'[t].by = d, user[d] = Subject
                 PROVE  /\ pc'[d] = "join" => latest[t] = "online"
                        /\ pc'[d] = "leave" => latest[t] \in {"offline", "early"}
      BY <2>1 DEF Announcing
    <3>1. t # s /\ sending[t].by = d
      BY <2>2
    <3>2. server[d] = t
      BY <3>1 DEF Shape, Dispatching
    <3>3. pc'[d] = pc[d]
      BY <2>1, <2>3, <3>1, <3>2
    <3> QED BY <3>1, <3>3 DEF Story, Announcing
  <2>5. Public'
    BY <2>1 DEF Story, Public
  <2>6. OnItsWay'
    <3>1. \A t \in Server : \A d : Told(t, d)' = Told(t, d)
      BY <2>1, <2>2 DEF Told
    <3> QED BY <2>1, <3>1 DEF Story, OnItsWay, Pending, Delivered, Fact
  <2>7. OnlineOfSomebody'
    <3> SUFFICES ASSUME NEW t \in Server, latest[t] = "online"
                 PROVE  \E d \in Conn : user[d] = Subject /\ pc'[d] \in Up /\ t \in Reach(server[d])
      BY <2>1 DEF OnlineOfSomebody, Reach
    <3>1. PICK d \in Conn : user[d] = Subject /\ pc[d] \in Up /\ t \in Reach(server[d])
      BY DEF Story, OnlineOfSomebody
    <3>2. d = sending[s].by => pc[d] # "leave"
      BY <2>3, <3>1 DEF Reach
    <3>3. pc'[d] \in Up
      BY <2>1, <3>1, <3>2 DEF After, Up
    <3> QED BY <3>1, <3>3
  <2>8. OfflineOfNobody'
    <3> SUFFICES ASSUME NEW t \in Server, latest[t] = "offline",
                        NEW d \in Conn, user[d] = Subject, pc'[d] = "open", t \in Reach(server[d])
                 PROVE  FALSE
      BY <2>1 DEF OfflineOfNobody, Reach
    <3>1. pc[d] # "open"
      BY DEF Story, OfflineOfNobody
    <3>2. d = sending[s].by /\ pc[d] = "join"
      BY <2>1, <2>3, <3>1 DEF After, Up
    <3> QED BY <2>3, <3>2 DEF Reach
  <2> QED BY <2>4, <2>5, <2>6, <2>7, <2>8 DEF Story
<1>10. ASSUME NEW s \in Server, Stall(s) \/ Resume(s) PROVE Story'
  <2> USE <1>s
  <2>1. UNCHANGED <<linked, pc, user, server, shown, clients, sending, feed, latest>>
    BY <1>10 DEF Stall, Resume, conns
  <2>2. Announcing' /\ Public'
    BY <2>1 DEF Story, Announcing, Public
  <2>3. OnItsWay'
    BY <2>1 DEF Story, OnItsWay, Pending, Delivered, Fact, Told
  <2>4. OnlineOfSomebody' /\ OfflineOfNobody'
    BY <2>1 DEF Story, OnlineOfSomebody, OfflineOfNobody, Reach
  <2> QED BY <2>2, <2>3, <2>4 DEF Story
<1>11. ASSUME NEW s \in Server, Crash(s) PROVE Story'
  <2> USE <1>s
  <2> DEFINE lost == {c \in Conn : server[c] = s}
  <2>1. /\ linked' \in {linked \ {s}, linked \cup {s}}
        /\ \A c \in lost : pc'[c] = "absent" /\ user'[c] = Nobody
        /\ \A c \in Conn : c \notin lost => /\ pc'[c] = pc[c] /\ user'[c] = user[c]
                                            /\ server'[c] = server[c] /\ shown'[c] = shown[c]
    BY <1>11 DEF Crash, Close
  <2>2. /\ clients'[s] = {} /\ feed'[s] = <<>> /\ sending'[s].by = Nobody /\ latest'[s] = "nothing"
        /\ \A t \in Server : t # s => clients'[t] = clients[t] /\ feed'[t] = feed[t]
                                      /\ sending'[t] = sending[t]
    BY <1>11, MessageTypes DEF Crash, Shape, Listed, Feeds, Jobs
  <2>3. ASSUME NEW t \in Server, t # s
        PROVE  \/ latest'[t] = "missed"
               \/ /\ latest'[t] = latest[t]
                  /\ t \in Reach(s) => \A c \in lost : user[c] # Subject \/ pc[c] \notin Up
    BY <1>11, <2>3 DEF Crash
  <2>4. Announcing'
    <3> SUFFICES ASSUME NEW t \in Server, NEW d \in Conn, sending'[t].by = d, user'[d] = Subject
                 PROVE  /\ pc'[d] = "join" => latest'[t] = "online"
                        /\ pc'[d] = "leave" => latest'[t] \in {"offline", "early"}
      BY DEF Announcing
    <3>1. t # s /\ sending[t].by = d
      BY <2>2
    <3>2. server[d] = t /\ t \notin linked
      BY <3>1 DEF Shape, Dispatching
    <3>3. latest'[t] = latest[t]
      BY <1>11, <3>1, <3>2 DEF Crash, Reach
    <3> QED BY <2>1, <3>1, <3>2, <3>3 DEF Story, Announcing
  <2>5. Public'
    BY <2>2 DEF Story, Public
  <2>6. OnItsWay'
    <3> SUFFICES ASSUME NEW t \in Server
                 PROVE  latest'[t] = "missed" \/ Pending(t)' \/ Delivered(t)'
      BY DEF OnItsWay
    <3>1. CASE t = s
      BY <2>2, <3>1 DEF Delivered, Mute
    <3>2. CASE t # s /\ latest'[t] = latest[t]
      <4>1. ASSUME NEW d \in clients[t] PROVE Told(t, d)' = Told(t, d)
        <5>1. d \in Conn /\ d \notin lost
          BY <3>2, <4>1, ShapeFacts
        <5> QED BY <2>1, <2>2, <3>2, <5>1 DEF Told
      <4> QED BY <2>2, <3>2, <4>1 DEF Story, OnItsWay, Pending, Delivered, Fact
    <3> QED BY <2>3, <3>1, <3>2
  <2>7. ASSUME NEW t \in Server, NEW d \in Conn, t # s, d \notin lost
        PROVE  t \in Reach(server[d])' <=> t \in Reach(server[d])
    BY <2>1, <2>7 DEF Reach
  <2>8. OnlineOfSomebody'
    <3> SUFFICES ASSUME NEW t \in Server, latest'[t] = "online"
                 PROVE  \E d \in Conn : user'[d] = Subject /\ pc'[d] \in Up /\ t \in Reach(server[d])'
      BY DEF OnlineOfSomebody
    <3>1. /\ t # s /\ latest[t] = "online"
          /\ t \in Reach(s) => \A c \in lost : user[c] # Subject \/ pc[c] \notin Up
      BY <2>2, <2>3
    <3>2. PICK d \in Conn : user[d] = Subject /\ pc[d] \in Up /\ t \in Reach(server[d])
      BY <3>1 DEF Story, OnlineOfSomebody
    <3>3. d \notin lost
      BY <3>1, <3>2
    <3> QED BY <2>1, <2>7, <3>1, <3>2, <3>3
  <2>9. OfflineOfNobody'
    <3> SUFFICES ASSUME NEW t \in Server, latest'[t] = "offline",
                        NEW d \in Conn, user'[d] = Subject, pc'[d] = "open", t \in Reach(server[d])'
                 PROVE  FALSE
      BY DEF OfflineOfNobody
    <3>1. t # s /\ latest[t] = "offline" /\ d \notin lost
      BY <2>1, <2>2, <2>3
    <3> QED BY <2>1, <2>7, <3>1 DEF Story, OfflineOfNobody
  <2> QED BY <2>4, <2>5, <2>6, <2>8, <2>9 DEF Story
<1>12. CASE UNCHANGED vars
  <2> USE <1>s, <1>12 DEF vars, conns, hubs
  <2>1. Announcing' /\ Public'
    BY DEF Story, Announcing, Public
  <2>2. OnItsWay'
    BY DEF Story, OnItsWay, Pending, Delivered, Fact, Told
  <2>3. OnlineOfSomebody' /\ OfflineOfNobody'
    BY DEF Story, OnlineOfSomebody, OfflineOfNobody, Reach
  <2> QED BY <2>1, <2>2, <2>3 DEF Story
<1> QED
  BY <1>1, <1>2, <1>3, <1>4, <1>5, <1>6, <1>7, <1>8, <1>9, <1>10, <1>11, <1>12 DEF Next

\* A client that has been told what there was to tell is shown the last word.
LEMMA LastWord ==
    ASSUME IInv, NEW c \in Conn, Informed(c)
    PROVE  /\ server[c] \in Server
           /\ \/ latest[server[c]] = "missed"
              \/ shown[c] \in {Fact(server[c]), "nothing"}
<1> USE DEF IInv, Story
<1>1. server[c] \in Server /\ c \in clients[server[c]]
  BY ShapeFacts DEF Informed, Shape, Listed, Registered, Up
<1>2. Told(server[c], c) = shown[c]
  BY <1>1, ShapeFacts DEF Informed, Unlocked, Told
<1>3. ~Pending(server[c])
  BY DEF Informed, Pending, EndsWith
<1> QED BY <1>1, <1>2, <1>3 DEF OnItsWay, Delivered

\* What the last word says of the connections is what the properties say.
LEMMA Conclude == IInv => NoGhostOnline /\ OfflineOnlyByOverlap
<1> SUFFICES ASSUME IInv PROVE NoGhostOnline /\ OfflineOnlyByOverlap
  OBVIOUS
<1> USE DEF IInv, Story
<1>1. NoGhostOnline
  BY LastWord DEF NoGhostOnline, Fact, OnlineOfSomebody, Heard
<1>2. OfflineOnlyByOverlap
  BY LastWord DEF OfflineOnlyByOverlap, Fact, OfflineOfNobody, Heard
<1> QED BY <1>1, <1>2

\* The invariant.
LEMMA Inductive == Spec => []IInv
<1>1. Init => IInv
  BY ShapeInit, StoryInit DEF IInv
<1>2. IInv /\ [Next]_vars => IInv'
  BY ShapeNext, StoryNext DEF IInv
<1> QED BY <1>1, <1>2, PTL DEF Spec

-----------------------------------------------------------------------------
(* One order for all servers.                                              *)

\* Of servers that hear each other, those that missed nothing and have heard
\* something since they started have heard the same last.
SameWord ==
    \A s, t \in linked :
        latest[s] = latest[t] \/ {latest[s], latest[t]} \cap {"missed", "nothing"} # {}

\* An announcement is the last for every server it is for; no other step but a
\* crash changes what was last.
LEMMA SameWordNext == IInv /\ SameWord /\ [Next]_vars => SameWord'
<1> SUFFICES ASSUME IInv, SameWord, [Next]_vars PROVE SameWord'
  OBVIOUS
<1>t. linked \subseteq Server /\ latest \in [Server -> News \cup {"missed", "early"}]
  BY DEF IInv, Shape, Tables
<1>1. ASSUME NEW c \in Conn, NEW m, NEW reached, Remember(c, m, reached), UNCHANGED linked
      PROVE  SameWord'
  <2> SUFFICES ASSUME NEW s \in linked, NEW t \in linked
               PROVE  \/ latest'[s] = latest'[t]
                      \/ {latest'[s], latest'[t]} \cap {"missed", "nothing"} # {}
    BY <1>1 DEF SameWord
  <2>1. CASE m.news = "nothing" \/ server[c] \notin linked
    <3>1. latest'[s] = latest[s] /\ latest'[t] = latest[t]
      BY <1>1, <1>t, <2>1 DEF Remember, Reach, IInv, Shape, Slots, Tables
    <3> QED BY <3>1 DEF SameWord
  <2>2. CASE m.news # "nothing" /\ server[c] \in linked
    BY <1>1, <1>t, <2>2 DEF Remember, Reach
  <2> QED BY <2>1, <2>2
<1>2. ASSUME NEW c \in Conn, Publish(c) \/ Dispatch(c) PROVE SameWord'
  BY <1>1, <1>2 DEF Publish, Dispatch
<1>3. ASSUME NEW s \in Server, Crash(s) PROVE SameWord'
  <2>1. linked' \subseteq linked \cup {s} /\ latest'[s] = "nothing"
    BY <1>3, <1>t DEF Crash
  <2>2. ASSUME NEW t \in linked, t # s PROVE latest'[t] \in {latest[t], "missed"}
    BY <1>3, <1>t, <2>2 DEF Crash
  <2> QED BY <2>1, <2>2 DEF SameWord
<1>4. CASE UNCHANGED <<linked, latest>>
  BY <1>4 DEF SameWord
<1> QED
  BY <1>2, <1>3, <1>4
     DEF Next, HandleWS, ReadFails, unregisterClient, Receive, Broadcast, WriteJSON, Finish,
         Stall, Resume, vars

-----------------------------------------------------------------------------
(* The theorems.                                                           *)

\* The type invariant of the hub.
THEOREM TypeCorrect == Spec => []TypeOK
<1>1. IInv => TypeOK
  BY ShapeTypes DEF IInv
<1> QED BY <1>1, Inductive, PTL

\* For any number of servers, with Redis or without, connections and users:
\* whoever is shown online is connected, unless the server missed the last
\* announcement (websocket.go 72-100).
THEOREM NoGhost == Spec => []NoGhostOnline
<1>1. IInv => NoGhostOnline
  BY Conclude
<1> QED BY <1>1, Inductive, PTL

\* ... and a connected user is shown offline only when the server missed the last
\* announcement or it was made before the user's last connection had ended.
THEOREM OfflineExplained == Spec => []OfflineOnlyByOverlap
<1>1. IInv => OfflineOnlyByOverlap
  BY Conclude
<1> QED BY <1>1, Inductive, PTL

\* ... and two clients, on one server or on two, are shown different things only if
\* one of the servers missed the last announcement (redis.go 49-61).
THEOREM Agreement == Spec => []ClientsAgree
<1>1. Init => SameWord
  BY DEF Init, SameWord
<1>2. IInv /\ SameWord => ClientsAgree
  <2> SUFFICES ASSUME IInv, SameWord, NEW c \in Conn, NEW d \in Conn,
                      Informed(c), Informed(d), Heard(c, d),
                      shown[c] = "online", shown[d] = "offline",
                      latest[server[c]] # "missed", latest[server[d]] # "missed"
               PROVE  FALSE
    BY DEF ClientsAgree
  <2>1. Fact(server[c]) = "online" /\ Fact(server[d]) = "offline"
    BY LastWord
  <2>2. server[c] = server[d] \/ (server[c] \in linked /\ server[d] \in linked)
    BY DEF Heard, Reach
  <2> QED BY <2>1, <2>2 DEF SameWord, Fact
<1> QED BY <1>1, <1>2, Inductive, SameWordNext, PTL DEF Spec

\* The steps of LeavingOnlyGoesOn.
Onward ==
    \A c \in Conn :
        /\ pc[c] = "leave" => pc'[c] \in {"leave", "drop", "absent"}
        /\ pc[c] = "drop" => pc'[c] \in {"drop", "absent"}
Fewer(s) ==
    sending[s].busy /\ sending'[s].busy =>
        /\ clients'[s] = clients[s]
        /\ sending'[s].msg = sending[s].msg /\ sending'[s].by = sending[s].by
        /\ sending'[s].todo \subseteq sending[s].todo
        /\ WriteJSON(s) => sending'[s].todo # sending[s].todo

\* A goroutine that has left its loop does not come back to it.
LEMMA NextOnward == Shape /\ [Next]_vars => Onward
<1> SUFFICES ASSUME Shape, [Next]_vars PROVE Onward
  OBVIOUS
<1>t. pc \in [Conn -> Registered \cup {"absent"}]
  BY DEF Shape, Tables
<1>1. ASSUME NEW c \in Conn, NEW u \in User, NEW s \in Server, HandleWS(c, u, s) PROVE Onward
  BY <1>t, <1>1 DEF HandleWS, Goto, Onward
<1>2. ASSUME NEW c \in Conn, Publish(c) PROVE Onward
  <2>1. pc[c] \in Up
    BY <1>2, AnnounceFacts DEF Publish
  <2> QED BY <1>t, <1>2, <2>1 DEF Publish, Goto, After, Up, Onward
<1>3. ASSUME NEW c \in Conn, ReadFails(c) \/ unregisterClient(c) PROVE Onward
  BY <1>t, <1>3 DEF ReadFails, unregisterClient, Close, Goto, Onward
<1>4. ASSUME NEW s \in Server, Finish(s) PROVE Onward
  BY <1>t, <1>4 DEF Finish, After, Onward, Shape, Dispatching, Up
<1>5. ASSUME NEW s \in Server, Crash(s) PROVE Onward
  BY <1>t, <1>5 DEF Crash, Close, Onward
<1>6. CASE UNCHANGED pc
  BY <1>6 DEF Onward
<1> QED
  BY <1>1, <1>2, <1>3, <1>4, <1>5, <1>6
     DEF Next, Dispatch, Receive, Broadcast, WriteJSON, Stall, Resume, conns, vars

\* A server's mutex that stays taken is taken for the same message, and for no more
\* clients.
LEMMA NextFewer ==
    ASSUME Shape, [Next]_vars, NEW s \in Server
    PROVE  Fewer(s)
<1>t. clients \in [Server -> SUBSET Conn] /\ sending \in [Server -> Job]
  BY DEF Shape, Listed, Jobs
<1>w. WriteJSON(s) => sending'[s].todo # sending[s].todo
  <2> SUFFICES ASSUME WriteJSON(s) PROVE sending'[s].todo # sending[s].todo
    OBVIOUS
  <2>1. PICK d \in sending[s].todo : sending' = [sending EXCEPT ![s].todo = @ \ {d}]
    BY DEF WriteJSON
  <2>2. sending'[s].todo = sending[s].todo \ {d}
    BY <1>t, <2>1 DEF Job
  <2> QED BY <2>1, <2>2
<1>k. CASE sending'[s] = sending[s] /\ clients'[s] = clients[s]
  BY <1>w, <1>k DEF Fewer
<1>f. CASE ~sending[s].busy \/ ~sending'[s].busy
  BY <1>f DEF Fewer
<1>1. ASSUME NEW c \in Conn, NEW u \in User, NEW t \in Server, HandleWS(c, u, t) PROVE Fewer(s)
  <2>1. t # s => sending'[s] = sending[s] /\ clients'[s] = clients[s]
    BY <1>t, <1>1 DEF HandleWS
  <2>2. t = s => ~sending[s].busy
    BY <1>1 DEF HandleWS, Unlocked
  <2> QED BY <1>k, <1>f, <2>1, <2>2
<1>2. ASSUME NEW c \in Conn, unregisterClient(c) PROVE Fewer(s)
  <2>1. server[c] # s => sending'[s] = sending[s] /\ clients'[s] = clients[s]
    BY <1>t, <1>2 DEF unregisterClient
  <2>2. server[c] = s => ~sending[s].busy
    BY <1>2 DEF unregisterClient, Unlocked
  <2> QED BY <1>k, <1>f, <2>1, <2>2
<1>3. ASSUME NEW t \in Server, NEW m, NEW by, Begin(t, m, by), UNCHANGED clients PROVE Fewer(s)
  <2>1. t # s => sending'[s] = sending[s] /\ clients'[s] = clients[s]
    BY <1>t, <1>3 DEF Begin
  <2>2. t = s => ~sending[s].busy
    BY <1>3 DEF Begin, Unlocked
  <2> QED BY <1>k, <1>f, <2>1, <2>2
<1>4. ASSUME NEW t \in Server, Receive(t) PROVE Fewer(s)
  BY <1>3, <1>4 DEF Receive
<1>5. ASSUME NEW t \in Server, Broadcast(t) PROVE Fewer(s)
  <2>1. CASE UNCHANGED sending
    BY <1>k, <1>5, <2>1 DEF Broadcast
  <2>2. CASE \E m : Begin(t, m, Nobody)
    BY <1>3, <1>5, <2>2 DEF Broadcast
  <2> QED BY <1>5, <2>1, <2>2 DEF Broadcast
<1>6. ASSUME NEW c \in Conn, Dispatch(c) PROVE Fewer(s)
  <2>1. PICK m \in Message : Announces(c, m) /\ Begin(server[c], m, c)
    BY <1>6 DEF Dispatch
  <2>2. server[c] \in Server
    BY <2>1, AnnounceFacts DEF Shape, Slots, Up
  <2> QED BY <1>3, <1>6, <2>1, <2>2 DEF Dispatch
<1>7. ASSUME NEW t \in Server, WriteJSON(t) PROVE Fewer(s)
  <2>1. PICK c \in sending[t].todo : sending' = [sending EXCEPT ![t].todo = @ \ {c}]
    BY <1>7 DEF WriteJSON
  <2>2. /\ sending'[s].msg = sending[s].msg /\ sending'[s].by = sending[s].by
        /\ sending'[s].todo \subseteq sending[s].todo
    BY <1>t, <2>1 DEF Job
  <2>3. clients' = clients
    BY <1>7 DEF WriteJSON
  <2> QED BY <1>w, <2>2, <2>3 DEF Fewer
<1>8. ASSUME NEW t \in Server, Finish(t) \/ Crash(t) PROVE Fewer(s)
  <2>1. t = s => ~sending'[s].busy
    BY <1>t, <1>8, MessageTypes DEF Finish, Crash
  <2>2. t # s => sending'[s] = sending[s] /\ clients'[s] = clients[s]
    BY <1>t, <1>8 DEF Finish, Crash
  <2> QED BY <1>k, <1>f, <2>1, <2>2
<1>9. CASE UNCHANGED <<sending, clients>>
  BY <1>k, <1>9
<1>10. ASSUME NEW c \in Conn, Publish(c) \/ ReadFails(c) PROVE Fewer(s)
  BY <1>9, <1>10 DEF Publish, ReadFails, hubs
<1>11. ASSUME NEW t \in Server, Stall(t) \/ Resume(t) PROVE Fewer(s)
  BY <1>9, <1>11 DEF Stall, Resume
<1>12. CASE UNCHANGED vars
  BY <1>9, <1>12 DEF vars, hubs
<1> QED
  BY <1>1, <1>2, <1>4, <1>5, <1>6, <1>7, <1>8, <1>10, <1>11, <1>12 DEF Next

\* Whoever leaves only gets further, and whatever has the mutex it waits for has
\* fewer and fewer clients to write to (websocket.go 97-122, 161-195): what fairness
\* adds to LeaversLeave is that the goroutines are run and the clients read.
THEOREM Leaving == Spec => LeavingOnlyGoesOn
<1>1. IInv /\ [Next]_vars => Onward /\ \A s \in Server : Fewer(s)
  BY NextOnward, NextFewer DEF IInv
<1>2. IInv /\ [Next]_vars =>
        [/\ \A c \in Conn :
               /\ pc[c] = "leave" => pc'[c] \in {"leave", "drop", "absent"}
               /\ pc[c] = "drop" => pc'[c] \in {"drop", "absent"}
         /\ \A s \in Server :
               sending[s].busy /\ sending'[s].busy =>
                   /\ clients'[s] = clients[s]
                   /\ sending'[s].msg = sending[s].msg /\ sending'[s].by = sending[s].by
                   /\ sending'[s].todo \subseteq sending[s].todo
                   /\ WriteJSON(s) => sending'[s].todo # sending[s].todo]_vars
  BY <1>1 DEF Onward, Fewer
<1> QED BY <1>2, Inductive, PTL DEF Spec, LeavingOnlyGoesOn
=============================================================================
