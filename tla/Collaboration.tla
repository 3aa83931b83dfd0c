--------------------------- MODULE Collaboration ---------------------------
(***************************************************************************)
(* Rooms and presence: CollaborationGateway                                *)
(* (src/src/collaboration/collaboration.gateway.ts) on several server      *)
(* processes that main.ts starts with or without the Redis adapter.        *)
(*                                                                         *)
(* A handler runs in one go.  What it emits reaches the sockets of its own *)
(* process at once; the adapter publishes it for the others, where it is   *)
(* delivered later, to whoever is then in the room, in the order of        *)
(* publication, and at most once.                                          *)
(*                                                                         *)
(* A socket is one connection: a client that reconnects has a new one.     *)
(* Names, e-mail addresses and the contents of updates are left out; of    *)
(* connectedUsers that leaves which sockets have an entry.                 *)
(***************************************************************************)
EXTENDS Naturals, Sequences

CONSTANTS
    Process, Socket, Room, User,
    HomeOf,     \* the process a socket is connected to
    UserOf,     \* the user whose token it shows
    Visits,     \* bound: the rooms that each socket's client may name
    MaxPending  \* bound: messages of a process on their way to another

ASSUME SocketsAssumption ==
    /\ HomeOf \in [Socket -> Process] /\ UserOf \in [Socket -> User]
    /\ Visits \in [Socket -> SUBSET Room]

VARIABLES
    adapter,         \* what main.ts gave each process: "redis" or "memory"
    status,          \* of each socket: "new", "connected", "gone"
    rooms,           \* the rooms socket.io keeps each socket in
    connectedUsers,  \* the sockets that have an entry
    channel,         \* channel[p][q]: published by p, not yet delivered at q
    lossy,           \* history: <<p, q>> that Redis has lost a message of
    heard,           \* history: what each socket was told in the rooms it is in
    moved            \* history: who came or went since it came into each room

vars == <<adapter, status, rooms, connectedUsers, channel, lossy, heard, moved>>

(* user:joined and user:left, and the three kinds of updates as one, but    *)
(* for history's sake two: a "stray" one is from outside the room.         *)
Event == [kind : {"joined", "left", "update", "stray"}, room : Room, from : Socket]

(* The last event about a user.  Nobody tells a newcomer who is there.      *)
Words == {"nothing", "joined", "left"}
Blank == [u \in User |-> "nothing"]
Unknown == [r \in Room |-> Blank]

TypeOK ==
    /\ adapter \in [Process -> {"redis", "memory"}]
    /\ status \in [Socket -> {"new", "connected", "gone"}]
    /\ rooms \in [Socket -> SUBSET Room]
    /\ connectedUsers \subseteq Socket
    /\ channel \in [Process -> [Process -> Seq(Event)]]
    /\ lossy \subseteq Process \X Process
    /\ heard \in [Socket -> [Room -> [User -> Words]]]
    /\ moved \in [Socket -> [Room -> SUBSET Socket]]
    /\ \A s \in Socket : rooms[s] # {} => status[s] = "connected"

Init ==
    /\ adapter \in [Process -> {"redis", "memory"}]
    /\ status = [s \in Socket |-> "new"]
    /\ rooms = [s \in Socket |-> {}]
    /\ connectedUsers = {}
    /\ channel = [p \in Process |-> [q \in Process |-> <<>>]]
    /\ lossy = {}
    /\ heard = [s \in Socket |-> Unknown]
    /\ moved = [s \in Socket |-> [r \in Room |-> {}]]

-----------------------------------------------------------------------------
(* Delivery, by socket.io and its adapters.                                *)

(* For history's sake: what v can know of s, by what happens while v is in. *)
WatchRooms ==
    moved' = [v \in Socket |-> [r \in Room |->
        IF r \notin rooms[v] \cap rooms'[v] THEN {}
        ELSE {s \in Socket : /\ status'[s] = "connected"
                             /\ s \in moved[v][r] \/ (r \in rooms[s]) # (r \in rooms'[s])}]]

SocketsAt(p) == {s \in Socket : HomeOf[s] = p}

(* The processes that get what p publishes.                                 *)
Subscribers(p) ==
    {q \in Process \ {p} : adapter[p] = "redis" /\ adapter[q] = "redis"}

(* What is heard once the sockets in the room of e, by mem, at p have it.   *)
Hearing(e, mem, p, h) ==
    [v \in Socket |->
        IF e.kind \in {"joined", "left"} /\ HomeOf[v] = p /\ e.room \in mem[v]
        THEN [h[v] EXCEPT ![e.room][UserOf[e.from]] = e.kind]
        ELSE h[v]]

EmitLocally(e, h) ==  \* seeded bug: server.local.to(room).emit(...)
    heard' = Hearing(e, rooms', HomeOf[e.from], h) /\ UNCHANGED channel

(* server.to(room).emit(...) in a handler of socket e.from, with the rooms  *)
(* as the handler has left them.                                           *)
Emit(e, h) ==
    LET p == HomeOf[e.from] IN
    /\ \A q \in Subscribers(p) : Len(channel[p][q]) < MaxPending[p]
    /\ heard' = Hearing(e, rooms', p, h)
    /\ channel' = [channel EXCEPT ![p] =
          [q \in Process |-> IF q \in Subscribers(p) THEN Append(@[q], e)
                             ELSE @[q]]]

Deliver(p, q) ==
    /\ channel[p][q] # <<>>
    /\ channel' = [channel EXCEPT ![p][q] = Tail(@)]
    /\ heard' = Hearing(Head(channel[p][q]), rooms, q, heard)
    /\ UNCHANGED <<adapter, status, rooms, connectedUsers, lossy, moved>>

(* Pub/sub gives no guarantee: a connection that breaks loses messages.     *)
Lose(p, q) ==
    /\ channel[p][q] # <<>>
    /\ channel' = [channel EXCEPT ![p][q] = Tail(@)]
    /\ lossy' = lossy \cup {<<p, q>>}
    /\ UNCHANGED <<adapter, status, rooms, connectedUsers, heard, moved>>

-----------------------------------------------------------------------------
(* The gateway.                                                            *)

(* A token that is missing or that verifyAsync rejects ends the connection. *)
(* Its await needs no I/O: no packet of the socket is handled before.       *)
HandleConnection(s) ==
    /\ status[s] = "new"
    /\ \E answer \in {"connected", "gone"} : status' = [status EXCEPT ![s] = answer]
    /\ UNCHANGED <<adapter, rooms, connectedUsers, channel, lossy, heard, moved>>

HandleDisconnectForgetful(s) ==  \* seeded bug: connectedUsers keeps the entry
    /\ status[s] = "connected"
    /\ status' = [status EXCEPT ![s] = "gone"]
    /\ rooms' = [rooms EXCEPT ![s] = {}]
    /\ heard' = [heard EXCEPT ![s] = Unknown] /\ WatchRooms
    /\ UNCHANGED <<adapter, connectedUsers, channel, lossy>>

(* socket.io takes the socket out of its rooms; nobody is told.             *)
HandleDisconnect(s) ==
    /\ status[s] = "connected"
    /\ status' = [status EXCEPT ![s] = "gone"]
    /\ rooms' = [rooms EXCEPT ![s] = {}]
    /\ connectedUsers' = connectedUsers \ {s}
    /\ heard' = [heard EXCEPT ![s] = Unknown] /\ WatchRooms
    /\ UNCHANGED <<adapter, channel, lossy>>

Leaving(s, r) == [heard EXCEPT ![s][r] = Blank]

News(kind, s, r) == [kind |-> kind, room |-> r, from |-> s]

HandleUserJoinOnce(s, r) ==  \* seeded bug: a socket is announced once
    /\ status[s] = "connected"
    /\ rooms' = [rooms EXCEPT ![s] = @ \cup {r}]
    /\ connectedUsers' = connectedUsers \cup {s}
    /\ IF s \in connectedUsers
       THEN UNCHANGED <<channel, heard>>
       ELSE Emit(News("joined", s, r), heard)
    /\ UNCHANGED <<adapter, status, lossy>> /\ WatchRooms

HandleUserJoinLate(s, r) ==  \* seeded bug: the handler awaits before it joins
    /\ status[s] # "new"
    /\ rooms' = [rooms EXCEPT ![s] = @ \cup {r}]
    /\ connectedUsers' = connectedUsers \cup {s}
    /\ Emit(News("joined", s, r), heard)
    /\ UNCHANGED <<adapter, status, lossy>> /\ WatchRooms

HandleUserJoin(s, r) ==
    /\ status[s] = "connected"
    /\ rooms' = [rooms EXCEPT ![s] = @ \cup {r}]
    /\ connectedUsers' = connectedUsers \cup {s}
    /\ Emit(News("joined", s, r), heard)
    /\ UNCHANGED <<adapter, status, lossy>> /\ WatchRooms

HandleUserLeaveForgetting(s, r) ==  \* seeded bug: leaving deletes the entry
    /\ status[s] = "connected"
    /\ rooms' = [rooms EXCEPT ![s] = @ \ {r}]
    /\ connectedUsers' = connectedUsers \ {s}
    /\ IF s \in connectedUsers THEN Emit(News("left", s, r), Leaving(s, r))
       ELSE heard' = Leaving(s, r) /\ UNCHANGED channel
    /\ UNCHANGED <<adapter, status, lossy>> /\ WatchRooms

(* Announced by anybody who has an entry, in the room or not.               *)
HandleUserLeave(s, r) ==
    /\ status[s] = "connected"
    /\ rooms' = [rooms EXCEPT ![s] = @ \ {r}]
    /\ IF s \in connectedUsers THEN Emit(News("left", s, r), Leaving(s, r))
       ELSE heard' = Leaving(s, r) /\ UNCHANGED channel
    /\ UNCHANGED <<adapter, status, connectedUsers, lossy>> /\ WatchRooms

(* To everybody in the room but the sender, which need not be in it.        *)
Relay(s, r) ==
    /\ status[s] = "connected"
    /\ UNCHANGED <<adapter, status, rooms, connectedUsers, lossy, moved>>
    /\ Emit(News(IF r \in rooms[s] THEN "update" ELSE "stray", s, r), heard)

HandleFileChange(s, r) == Relay(s, r)
HandleCursorUpdate(s, r) == Relay(s, r)
HandleActivityUpdate(s, r) == Relay(s, r)

(* A process dies, its sockets and its map with it, and main.ts starts it   *)
(* again: the Redis adapter if REDIS_URL is set and Redis answers.         *)
Bootstrap(p) ==
    /\ \E a \in {"redis", "memory"} : adapter' = [adapter EXCEPT ![p] = a]
    /\ status' = [s \in Socket |->
          IF HomeOf[s] = p /\ status[s] = "connected" THEN "gone" ELSE status[s]]
    /\ rooms' = [s \in Socket |-> IF HomeOf[s] = p THEN {} ELSE rooms[s]]
    /\ connectedUsers' = connectedUsers \ SocketsAt(p)
    /\ channel' = [q \in Process |-> [channel[q] EXCEPT ![p] = <<>>]]
    /\ heard' = [s \in Socket |-> IF HomeOf[s] = p THEN Unknown ELSE heard[s]]
    /\ UNCHANGED lossy /\ WatchRooms

Next ==
    \/ \E s \in Socket : HandleConnection(s) \/ HandleDisconnect(s)
    \/ \E s \in Socket : \E r \in Visits[s] :
          \/ HandleUserJoin(s, r) \/ HandleUserLeave(s, r)
          \/ HandleFileChange(s, r) \/ HandleCursorUpdate(s, r)
          \/ HandleActivityUpdate(s, r)
    \/ \E p \in Process, q \in Process : Deliver(p, q) \/ Lose(p, q)
    \/ \E p \in Process : Bootstrap(p)

Spec == Init /\ [][Next]_vars

(* Redis forwards what was published; nothing else is bound to happen.      *)
FairSpec ==
    Spec /\ \A p \in Process : \A q \in Process \ {p} : WF_vars(Deliver(p, q))

-----------------------------------------------------------------------------
(* Properties.                                                             *)

(* connectedUsers follows the connections: it has no entry of a socket that *)
(* is gone, and one of every socket that is in a room, however many rooms   *)
(* it has entered and left; so no member's event is without a name.        *)
EntriesMatchSockets ==
    /\ \A s \in connectedUsers : status[s] = "connected"
    /\ \A s \in Socket : rooms[s] # {} => s \in connectedUsers

(* Events of s reach the process of v: it is its own, or both have the     *)
(* Redis adapter, and Redis has lost nothing on the way.                   *)
Linked(s, v) ==
    LET p == HomeOf[s]  q == HomeOf[v] IN
    p = q \/ (q \in Subscribers(p) /\ <<p, q>> \notin lossy)

OnlySockets == {s \in Socket : \A t \in Socket : UserOf[t] = UserOf[s] => t = s}

Pending(s, v) == channel[HomeOf[s]][HomeOf[v]]

About(e, s, r) == e \in {News("joined", s, r), News("left", s, r)}

(* The last that v hears of s in r, of the first n messages pending.        *)
LastWord(v, s, r, n) ==
    LET c == Pending(s, v)
        news == {i \in 1..n : About(c[i], s, r)}
    IN  IF news = {} THEN heard[v][r][UserOf[s]]
        ELSE c[CHOOSE i \in news : \A j \in news : j <= i].kind

(* Those who can be compared: v is in the room, and s is the one socket of  *)
(* its user and has not been cut off, which nobody would be told of.       *)
Comparable(v, s, r) ==
    /\ r \in rooms[v] /\ status[s] # "gone"
    /\ s \in OnlySockets /\ Linked(s, v)

(* Presence: nobody tells v who is in a room when v comes in, but what v is *)
(* told from then on is right, except for what is on its way: the last that *)
(* v has heard and will hear of s is true, however often both come and go,  *)
(* and v does hear of whoever came or went since.                          *)
PresenceIsTrue ==
    \A v \in Socket, s \in OnlySockets, r \in Room :
        Comparable(v, s, r) =>
            LET word == LastWord(v, s, r, Len(Pending(s, v))) IN
            /\ word = "joined" => r \in rooms[s]
            /\ word = "left" => r \notin rooms[s]
            /\ s \in moved[v][r] => word # "nothing"

(* No ghosts, of users with several sockets either: whoever v takes to be   *)
(* in a room with it has a socket there, or one of which an event is on its *)
(* way, or one that is gone or whose events do not reach v, so that v may   *)
(* not have been told that it left.                                        *)
NoGhosts ==
    \A v \in Socket, r \in Room, u \in User :
        r \in rooms[v] /\ heard[v][r][u] = "joined" =>
            \E t \in Socket :
                /\ UserOf[t] = u
                /\ \/ r \in rooms[t]
                   \/ \E i \in DOMAIN Pending(t, v) : About(Pending(t, v)[i], t, r)
                   \/ status[t] = "gone"
                   \/ status[t] = "connected" /\ ~Linked(t, v)

(* Nobody gets an update of a member after having been told that it left,   *)
(* and of one that came while v was there only after it was told so: no     *)
(* update overtakes a join, between processes either.  Only when s has left *)
(* since may an older update come first, with the "left" right behind it.   *)
NoStrangers ==
    \A v \in Socket, s \in OnlySockets, r \in Room :
        Comparable(v, s, r) =>
            LET c == Pending(s, v) IN
            \A n \in DOMAIN c :
                c[n] = News("update", s, r) =>
                    /\ LastWord(v, s, r, n) # "left"
                    /\ s \in moved[v][r] =>
                          \/ LastWord(v, s, r, n) = "joined"
                          \/ \E m \in n..Len(c) : c[m] = News("left", s, r)

(* Whoever enters a room is in the end known to everybody that was there,   *)
(* on whatever process, unless one of the two leaves or Redis loses a       *)
(* message.                                                                *)
MembersGetKnown ==
    \A s \in OnlySockets : \A v \in Socket \ {s} : \A r \in Visits[v] \cap Visits[s] :
        (Comparable(v, s, r) /\ r \in rooms[s] /\ s \in moved[v][r])
            ~> (heard[v][r][UserOf[s]] = "joined"
                \/ r \notin rooms[s] \/ ~Comparable(v, s, r))
=============================================================================
