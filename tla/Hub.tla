--------------------------------- MODULE Hub ---------------------------------
(***************************************************************************)
(* The WebSocket hub: handlers/websocket.go, on several servers that share *)
(* a Redis channel.                                                        *)
(*                                                                         *)
(* A connection is a goroutine: it registers, announces its user online,   *)
(* relays what the client sends, and when a read fails announces the user  *)
(* offline and unregisters.  An announcement is published, or, on a server *)
(* that found no Redis when it started, dispatched by the goroutine        *)
(* itself; a dispatch has the server's clientsMutex over its writes to the *)
(* clients, and a write waits for a client that does not read.  Redis      *)
(* delivers in order, at most once.                                        *)
(*                                                                         *)
(* The presence of one user is followed, Subject, who may be any.  What    *)
(* is announced of the others is written to everyone and tells nothing.    *)
(***************************************************************************)
EXTENDS Naturals, Sequences

CONSTANTS
    Conn,        \* connections that are open at a time
    User,        \* their users
    Server,      \* processes of the backend
    Nobody,      \* no user, no server, no connection
    Subject,     \* the user whose presence is followed
    Capacity     \* messages a server's channel takes

ASSUME NobodyAssumption == Nobody \notin Conn \cup User \cup Server
ASSUME SubjectAssumption == Subject \in User
ASSUME CapacityAssumption == Capacity \in Nat \ {0}

VARIABLES
    linked,      \* the servers that found Redis when they started
    pc,          \* pc[c]: where the goroutine of connection c is
    user,        \* user[c]: the user its token is of
    server,      \* server[c]: the server it is to
    clients,     \* clients[s]: the connections registered
    feed,        \* feed[s]: what Redis has for s
    sending,     \* sending[s]: what has clientsMutex
    stuck,       \* servers whose write under way waits for a client to read
    shown,       \* shown[c]: what the client of c was last told of Subject
    latest       \* history: latest[s]: the last announcement of Subject that was
                 \* for s; "missed" if it did not get there, "early" if it was
                 \* "offline" with another connection of Subject open

conns  == <<pc, user, server, shown>>
hubs   == <<clients, sending, stuck, feed>>
vars   == <<linked, conns, hubs, latest>>

News == {"online", "offline", "nothing"}

\* For whom a message is, and what it says of Subject.
Message == [to : SUBSET User, news : News]
Presence(u, news) == [to |-> User, news |-> IF u = Subject THEN news ELSE "nothing"]
Notice(users) == [to |-> users, news |-> "nothing"]

\* What has the mutex: a message, the connections it is still to be written to,
\* and the connection whose goroutine writes, if it is not another one.
Idle == [busy |-> FALSE, msg |-> Notice({}), todo |-> {}, by |-> Nobody]

Up == {"join", "open", "leave"}
Registered == Up \cup {"drop"}

TypeOK ==
    /\ linked \subseteq Server
    /\ pc \in [Conn -> Registered \cup {"absent"}]
    /\ user \in [Conn -> User \cup {Nobody}]
    /\ server \in [Conn -> Server \cup {Nobody}]
    /\ clients = [s \in Server |-> {c \in Conn : server[c] = s /\ pc[c] \in Registered}]
    /\ feed \in [Server -> Seq(Message)]
    /\ \A s \in Server : Len(feed[s]) <= (IF s \in linked THEN Capacity ELSE 0)
    /\ sending \in [Server -> [busy : BOOLEAN, msg : Message, todo : SUBSET Conn,
                               by : Conn \cup {Nobody}]]
    /\ \A s \in Server :
          /\ sending[s].todo \subseteq clients[s]
          /\ sending[s].by # Nobody => pc[sending[s].by] \in Up
          /\ sending[s].busy \/ sending[s] = Idle
    /\ stuck \subseteq {s \in Server : sending[s].todo # {}}
    /\ shown \in [Conn -> News]
    /\ latest \in [Server -> News \cup {"missed", "early"}]

Init ==
    /\ linked \in SUBSET Server
    /\ pc = [c \in Conn |-> "absent"]
    /\ user = [c \in Conn |-> Nobody]
    /\ server = [c \in Conn |-> Nobody]
    /\ clients = [s \in Server |-> {}]
    /\ feed = [s \in Server |-> <<>>]
    /\ sending = [s \in Server |-> Idle]
    /\ stuck = {}
    /\ shown = [c \in Conn |-> "nothing"]
    /\ latest = [s \in Server |-> "nothing"]

Goto(c, label) == pc' = [pc EXCEPT ![c] = label]
Unlocked(s) == ~sending[s].busy

\* The servers an announcement of s is for.
Reach(s) == IF s \in linked THEN linked ELSE {s}

-----------------------------------------------------------------------------
(* Connections.                                                            *)

\* HandleWS up to and with registerClient: the token is somebody's, the
\* connection is upgraded, and the mutex is free.
HandleWS(c, u, s) ==
    /\ pc[c] = "absent"
    /\ Unlocked(s)
    /\ user' = [user EXCEPT ![c] = u]
    /\ server' = [server EXCEPT ![c] = s]
    /\ clients' = [clients EXCEPT ![s] = @ \cup {c}]
    /\ Goto(c, "join")
    /\ UNCHANGED <<linked, shown, sending, stuck, feed, latest>>

\* A goroutine that does not dispatch.
Free(c) == pc[c] # "absent" /\ sending[server[c]].by # c

\* Mutant: the loop is left with a return, past the last announcement.
ReadFailsSilently(c) ==
    /\ pc[c] = "open" /\ Free(c)
    /\ Goto(c, "drop")
    /\ UNCHANGED <<linked, user, server, shown, hubs, latest>>

\* The client has closed, or its connection is broken.
ReadFails(c) ==
    /\ pc[c] = "open" /\ Free(c)
    /\ Goto(c, "leave")
    /\ UNCHANGED <<linked, user, server, shown, hubs, latest>>

\* The connections of closing are no more.
Close(closing) ==
    /\ pc' = [c \in Conn |-> IF c \in closing THEN "absent" ELSE pc[c]]
    /\ user' = [c \in Conn |-> IF c \in closing THEN Nobody ELSE user[c]]
    /\ server' = [c \in Conn |-> IF c \in closing THEN Nobody ELSE server[c]]
    /\ shown' = [c \in Conn |-> IF c \in closing THEN "nothing" ELSE shown[c]]

\* Mutant: the user's entry goes with the first of its connections.
unregisterUser(c) ==
    /\ pc[c] = "drop"
    /\ Unlocked(server[c])
    /\ clients' = [clients EXCEPT ![server[c]] = {d \in @ : user[d] # user[c]}]
    /\ Close({c})
    /\ UNCHANGED <<linked, feed, sending, stuck, latest>>

\* Deferred: after the last announcement.
unregisterClient(c) ==
    /\ pc[c] = "drop"
    /\ Unlocked(server[c])
    /\ clients' = [clients EXCEPT ![server[c]] = @ \ {c}]
    /\ Close({c})
    /\ UNCHANGED <<linked, feed, sending, stuck, latest>>

-----------------------------------------------------------------------------
(* Announcements.                                                          *)

\* Mutant: the user a client's message names is left as it is.
AnnouncesUnsigned(c, m) ==
    \/ pc[c] = "join" /\ m = Presence(user[c], "online")
    \/ pc[c] = "leave" /\ m = Presence(user[c], "offline")
    \/ pc[c] = "open" /\ \E u \in User : m = Presence(u, "offline")

\* The goroutine of c announces that it joins, that it leaves, or what its
\* client sends: a presence, of which the hub sets the user and nothing else, or
\* a message to the users it names.
Announces(c, m) ==
    \/ pc[c] \in {"join", "open"} /\ m = Presence(user[c], "online")
    \/ pc[c] \in {"leave", "open"} /\ m = Presence(user[c], "offline")
    \/ pc[c] = "open" /\ \E users \in SUBSET User : m = Notice(users)

After(c) == IF pc[c] = "leave" THEN "drop" ELSE "open"

\* What d announces is for the server of c.
Heard(c, d) == server[c] \in Reach(server[d])

\* History: message m of connection c reaches those servers and no others.
Remember(c, m, reached) ==
    LET still == /\ user[c] = Subject
                 /\ \E d \in Conn : user[d] = Subject /\ pc[d] = "open" /\ Heard(c, d)
    IN  latest' = [s \in Server |->
                      IF m.news = "nothing" \/ s \notin Reach(server[c]) THEN latest[s]
                      ELSE IF s \notin reached                           THEN "missed"
                      ELSE IF m.news = "offline" /\ still                THEN "early"
                      ELSE m.news]

\* Redis is at most once: a server whose subscription is down, or whose channel
\* is full, does not get m, and none does when the publication fails.
Deliver(m, reached) ==
    /\ \A s \in reached : Len(feed[s]) < Capacity
    /\ feed' = [s \in Server |-> IF s \in reached THEN Append(feed[s], m) ELSE feed[s]]

\* Publish, whose error is not looked at.
Publish(c) ==
    /\ Free(c)
    /\ server[c] \in linked
    /\ \E m \in Message, reached \in SUBSET linked :
          Announces(c, m) /\ Deliver(m, reached) /\ Remember(c, m, reached)
    /\ Goto(c, After(c))
    /\ UNCHANGED <<linked, user, server, shown, clients, sending, stuck>>

\* A goroutine takes the mutex to write m.
Begin(s, m, by) ==
    /\ Unlocked(s)
    /\ sending' = [sending EXCEPT ![s] = [busy |-> TRUE, msg |-> m, by |-> by,
                                         todo |-> {c \in clients[s] : user[c] \in m.to}]]

\* dispatchLocal by the goroutine of c.
Dispatch(c) ==
    /\ Free(c)
    /\ server[c] \notin linked
    /\ \E m \in Message :
          Announces(c, m) /\ Begin(server[c], m, c) /\ Remember(c, m, {server[c]})
    /\ UNCHANGED <<linked, conns, clients, stuck, feed>>

\* listenRedisPubSub.
Receive(s) ==
    /\ feed[s] # <<>>
    /\ Begin(s, Head(feed[s]), Nobody)
    /\ feed' = [feed EXCEPT ![s] = Tail(@)]
    /\ UNCHANGED <<linked, conns, clients, stuck, latest>>

\* BroadcastNotification and BroadcastPropertySync, for one user, AddDisputeMessage,
\* for the two of a dispute, and BroadcastSystemHealth, for everybody, called on s
\* by a goroutine of another handler.
Broadcast(s) ==
    /\ \E users \in SUBSET User :
          \/ /\ s \in linked
             /\ \E reached \in SUBSET linked : Deliver(Notice(users), reached)
             /\ UNCHANGED sending
          \/ s \notin linked /\ Begin(s, Notice(users), Nobody) /\ UNCHANGED feed
    /\ UNCHANGED <<linked, conns, clients, stuck, latest>>

-----------------------------------------------------------------------------
(* Writes, under the mutex.                                                *)

\* One WriteJSON, to any connection that is left: a map is iterated.  Its error
\* is not looked at: what a client is told whose connection is broken does not
\* matter.
WriteJSON(s) ==
    /\ s \notin stuck
    /\ \E c \in sending[s].todo :
          /\ shown' = IF sending[s].msg.news = "nothing" THEN shown
                      ELSE [shown EXCEPT ![c] = sending[s].msg.news]
          /\ sending' = [sending EXCEPT ![s].todo = @ \ {c}]
    /\ UNCHANGED <<linked, pc, user, server, clients, stuck, feed, latest>>

\* The next client has not read for so long that the write to it waits, until
\* the client reads or the connection breaks.
Stall(s) ==
    /\ s \notin stuck
    /\ \E c \in sending[s].todo : pc[c] \in {"join", "open"}
    /\ stuck' = stuck \cup {s}
    /\ UNCHANGED <<linked, conns, clients, sending, feed, latest>>
Resume(s) ==
    /\ s \in stuck
    /\ stuck' = stuck \ {s}
    /\ UNCHANGED <<linked, conns, clients, sending, feed, latest>>

\* Mutant: a return without the unlock, after a message for one user.
FinishKept(s) ==
    /\ sending[s].busy /\ sending[s].todo = {}
    /\ sending' = IF sending[s].msg.to = User THEN [sending EXCEPT ![s] = Idle] ELSE sending
    /\ pc' = [c \in Conn |-> IF c = sending[s].by THEN After(c) ELSE pc[c]]
    /\ UNCHANGED <<linked, user, server, shown, clients, stuck, feed, latest>>

\* The mutex is given back, and a connection's goroutine goes on.
Finish(s) ==
    /\ sending[s].busy /\ sending[s].todo = {}
    /\ sending' = [sending EXCEPT ![s] = Idle]
    /\ pc' = [c \in Conn |-> IF c = sending[s].by THEN After(c) ELSE pc[c]]
    /\ UNCHANGED <<linked, user, server, shown, clients, stuck, feed, latest>>

-----------------------------------------------------------------------------
(* Clients and crashes.                                                    *)

\* Server s dies with its connections and is started again with none, with Redis
\* or without: nobody announces their users.
Crash(s) ==
    LET lost == {c \in Conn : server[c] = s}
    IN  /\ Close(lost)
        /\ clients' = [clients EXCEPT ![s] = {}]
        /\ feed' = [feed EXCEPT ![s] = <<>>]
        /\ sending' = [sending EXCEPT ![s] = Idle]
        /\ stuck' = stuck \ {s}
        /\ latest' = [t \in Server |->
                         IF t = s THEN "nothing"
                         ELSE IF t \in Reach(s) /\ \E c \in lost : user[c] = Subject /\ pc[c] \in Up
                         THEN "missed" ELSE latest[t]]
        /\ linked' \in {linked \ {s}, linked \cup {s}}

-----------------------------------------------------------------------------

Next ==
    \/ \E c \in Conn :
          \/ \E u \in User, s \in Server : HandleWS(c, u, s)
          \/ Publish(c) \/ Dispatch(c) \/ ReadFails(c) \/ unregisterClient(c)
    \/ \E s \in Server :
          \/ Receive(s) \/ Broadcast(s) \/ WriteJSON(s) \/ Finish(s)
          \/ Stall(s) \/ Resume(s) \/ Crash(s)

Spec == Init /\ [][Next]_vars

\* The goroutine of c, when it does not wait for its client.
Goroutine(c) == pc[c] # "open" /\ (Publish(c) \/ Dispatch(c) \/ unregisterClient(c))

\* Goroutines run, one that waits for clientsMutex gets it in the end, and so
\* does the write to a client that reads again and again.  Clients and other
\* handlers do what they like.
FairSpec ==
    /\ Spec
    /\ \A c \in Conn : SF_vars(Goroutine(c))
    /\ \A s \in Server : SF_vars(Receive(s)) /\ SF_vars(WriteJSON(s) \/ Finish(s))

-----------------------------------------------------------------------------
(***************************************************************************)
(* Properties.                                                             *)
(***************************************************************************)

\* Clients that have been told what there was to tell.
Informed(c) ==
    /\ pc[c] \in Up
    /\ feed[server[c]] = <<>> /\ Unlocked(server[c])

\* A user without connections is not shown online, unless the server missed
\* that it left: a connection always announces offline last, Redis and the
\* mutex keep the order.
NoGhostOnline ==
    \A c \in Conn :
        /\ Informed(c)
        /\ \A d \in Conn : user[d] = Subject /\ pc[d] \in Up => ~Heard(c, d)
        /\ shown[c] = "online"
        => latest[server[c]] = "missed"

\* A connected user is shown offline only if the server missed its last
\* announcement, or it was made for another of its connections, or by itself:
\* nobody counts a user's connections before "offline" is announced.
OfflineOnlyByOverlap ==
    \A c, d \in Conn :
        /\ Informed(c) /\ Heard(c, d)
        /\ user[d] = Subject /\ pc[d] = "open"
        /\ shown[c] = "offline"
        => latest[server[c]] \in {"missed", "early"}

\* Two clients that hear the same announcements, on one server or on two that have
\* Redis, are not shown different things of a user, unless one of their servers
\* missed the last announcement: Redis has one order for all.
ClientsAgree ==
    \A c, d \in Conn :
        /\ Informed(c) /\ Informed(d) /\ Heard(c, d)
        /\ shown[c] = "online" /\ shown[d] = "offline"
        => "missed" \in {latest[server[c]], latest[server[d]]}

\* What LeaversLeave rests on: whoever leaves only gets further, and what it waits
\* for gets less.  While clientsMutex is taken nobody registers, the message stays
\* the same, and each write is one client less to wait for.
LeavingOnlyGoesOn ==
    [][/\ \A c \in Conn :
             /\ pc[c] = "leave" => pc'[c] \in {"leave", "drop", "absent"}
             /\ pc[c] = "drop" => pc'[c] \in {"drop", "absent"}
       /\ \A s \in Server :
             sending[s].busy /\ sending'[s].busy =>
                 /\ clients'[s] = clients[s]
                 /\ sending'[s].msg = sending[s].msg /\ sending'[s].by = sending[s].by
                 /\ sending'[s].todo \subseteq sending[s].todo
                 /\ WriteJSON(s) => sending'[s].todo # sending[s].todo]_vars

\* If no client stops reading for good, a connection whose client has gone is
\* unregistered: the mutex is not held for ever.
LeaversLeave ==
    \/ \E s \in Server : <>[](s \in stuck)
    \/ \A c \in Conn : pc[c] = "leave" ~> pc[c] = "absent"
=============================================================================
