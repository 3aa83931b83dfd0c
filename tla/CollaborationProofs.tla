------------------------ MODULE CollaborationProofs ------------------------
(***************************************************************************)
(* Theorems about Collaboration, for any number of processes, sockets and  *)
(* rooms, and any bound on what is on its way.                             *)
(***************************************************************************)
EXTENDS Collaboration, WellFoundedInduction, TLAPS

Heard == [Socket -> [Room -> [User -> Words]]]
Channels == [Process -> [Process -> Seq(Event)]]

-----------------------------------------------------------------------------
(* What an event does where it is heard, and to the channels.               *)

LEMMA Hears ==
  ASSUME NEW e \in Event, NEW mem, NEW p, NEW h \in Heard
  PROVE  /\ Hearing(e, mem, p, h) \in Heard
         /\ \A v \in Socket, r \in Room, u \in User :
              Hearing(e, mem, p, h)[v][r][u] =
                IF /\ e.kind \in {"joined", "left"} /\ HomeOf[v] = p /\ e.room \in mem[v]
                   /\ r = e.room /\ u = UserOf[e.from]
                THEN e.kind ELSE h[v][r][u]
<1>1. ASSUME NEW v \in Socket
      PROVE  [h[v] EXCEPT ![e.room][UserOf[e.from]] = e.kind] \in [Room -> [User -> Words]]
             \/ e.kind \notin {"joined", "left"}
  BY DEF Heard, Event, Words
<1>2. Hearing(e, mem, p, h) \in Heard
  BY <1>1 DEF Hearing, Heard
<1>3. ASSUME NEW v \in Socket, NEW r \in Room, NEW u \in User
      PROVE  [h[v] EXCEPT ![e.room][UserOf[e.from]] = e.kind][r][u]
               = IF r = e.room /\ u = UserOf[e.from] THEN e.kind ELSE h[v][r][u]
  BY DEF Heard, Event
<1> QED
  BY <1>2, <1>3 DEF Hearing

LEMMA Emits ==
  ASSUME TypeOK, NEW e \in Event, NEW h \in Heard, Emit(e, h)
  PROVE  /\ heard' \in Heard /\ channel' \in Channels
         /\ \A p, q \in Process :
              channel'[p][q] = IF p = HomeOf[e.from] /\ q \in Subscribers(p)
                               THEN Append(channel[p][q], e) ELSE channel[p][q]
         /\ \A v \in Socket, r \in Room, u \in User :
              heard'[v][r][u] =
                IF /\ e.kind \in {"joined", "left"} /\ HomeOf[v] = HomeOf[e.from]
                   /\ e.room \in rooms'[v] /\ r = e.room /\ u = UserOf[e.from]
                THEN e.kind ELSE h[v][r][u]
<1>1. heard' = Hearing(e, rooms', HomeOf[e.from], h)
  BY DEF Emit
<1>2. \A p, q \in Process : Append(channel[p][q], e) \in Seq(Event)
  BY DEF TypeOK
<1>3. channel' = [channel EXCEPT ![HomeOf[e.from]] =
                    [q \in Process |-> IF q \in Subscribers(HomeOf[e.from])
                                       THEN Append(@[q], e) ELSE @[q]]]
  BY DEF Emit
<1>4. channel' \in Channels
  BY <1>2, <1>3 DEF TypeOK, Channels
<1>5. \A p, q \in Process :
         channel'[p][q] = IF p = HomeOf[e.from] /\ q \in Subscribers(p)
                          THEN Append(channel[p][q], e) ELSE channel[p][q]
  BY <1>3 DEF TypeOK
<1> QED
  BY <1>1, <1>4, <1>5, Hears

LEMMA Told ==
  ASSUME NEW s \in Socket, NEW r \in Room, NEW kind \in {"joined", "left", "update", "stray"}
  PROVE  /\ News(kind, s, r) \in Event
         /\ News(kind, s, r).kind = kind /\ News(kind, s, r).room = r
         /\ News(kind, s, r).from = s
  BY DEF News, Event

(* What a socket knows when it has left a room: nothing.                    *)
LEMMA Forgets ==
  ASSUME TypeOK, NEW s \in Socket, NEW r \in Room
  PROVE  /\ Leaving(s, r) \in Heard
         /\ \A v \in Socket, x \in Room, u \in User :
              Leaving(s, r)[v][x][u] = IF v = s /\ x = r THEN "nothing" ELSE heard[v][x][u]
<1>1. Blank \in [User -> Words] /\ \A u \in User : Blank[u] = "nothing"
  BY DEF Blank, Words
<1>2. Leaving(s, r) \in Heard
  BY <1>1 DEF Leaving, TypeOK, Heard
<1>3. \A v \in Socket, x \in Room :
         Leaving(s, r)[v][x] = IF v = s /\ x = r THEN Blank ELSE heard[v][x]
  BY DEF Leaving, TypeOK
<1> QED
  BY <1>1, <1>2, <1>3

(* Who is seen to come or go.                                               *)
LEMMA Watches ==
  ASSUME WatchRooms
  PROVE  /\ moved' \in [Socket -> [Room -> SUBSET Socket]]
         /\ \A v \in Socket, r \in Room, s \in Socket :
              s \in moved'[v][r] <=>
                /\ r \in rooms[v] /\ r \in rooms'[v] /\ status'[s] = "connected"
                /\ s \in moved[v][r] \/ ~(r \in rooms[s] <=> r \in rooms'[s])
  BY DEF WatchRooms

LEMMA Delivers ==
  ASSUME TypeOK, NEW p \in Process, NEW q \in Process, Deliver(p, q)
  PROVE  LET e == channel[p][q][1] IN
         /\ e \in Event /\ 1 \in 1..Len(channel[p][q])
         /\ heard' \in Heard /\ channel' \in Channels
         /\ \A a, b \in Process :
              channel'[a][b] = IF a = p /\ b = q THEN Tail(channel[a][b]) ELSE channel[a][b]
         /\ \A v \in Socket, r \in Room, u \in User :
              heard'[v][r][u] =
                IF /\ e.kind \in {"joined", "left"} /\ HomeOf[v] = q
                   /\ e.room \in rooms[v] /\ r = e.room /\ u = UserOf[e.from]
                THEN e.kind ELSE heard[v][r][u]
<1> DEFINE e == channel[p][q][1]
<1>1. channel[p][q] \in Seq(Event) /\ channel[p][q] # <<>>
  BY DEF TypeOK, Deliver
<1>2. e \in Event /\ Len(channel[p][q]) >= 1 /\ Head(channel[p][q]) = e
      /\ Tail(channel[p][q]) \in Seq(Event)
  BY <1>1
<1>3. heard \in Heard /\ heard' = Hearing(e, rooms, q, heard)
  BY <1>2 DEF Deliver, TypeOK, Heard
<1>4. channel' = [channel EXCEPT ![p][q] = Tail(channel[p][q])]
  BY DEF Deliver, TypeOK
<1>5. channel' \in Channels
      /\ \A a, b \in Process :
           channel'[a][b] = IF a = p /\ b = q THEN Tail(channel[a][b]) ELSE channel[a][b]
  BY <1>2, <1>4 DEF TypeOK, Channels
<1> HIDE DEF e
<1>6. e \in Event /\ 1 \in 1..Len(channel[p][q])
  BY <1>1, <1>2
<1> QED
  BY <1>3, <1>5, <1>6, Hears DEF e

-----------------------------------------------------------------------------
(* Types, and connectedUsers: the two go together, since only a connection  *)
(* that has an entry is ever in a room.                                    *)

Matched == TypeOK /\ EntriesMatchSockets

LEMMA StepIs ==
  ASSUME [Next]_vars
  PROVE  \/ UNCHANGED vars
         \/ \E s \in Socket : HandleConnection(s) \/ HandleDisconnect(s)
         \/ \E s \in Socket, r \in Room :
               HandleUserJoin(s, r) \/ HandleUserLeave(s, r) \/ Relay(s, r)
         \/ \E p, q \in Process : Deliver(p, q) \/ Lose(p, q)
         \/ \E p \in Process : Bootstrap(p)
<1>1. \A s \in Socket : Visits[s] \subseteq Room
  BY SocketsAssumption
<1> QED
  BY <1>1 DEF Next, HandleFileChange, HandleCursorUpdate, HandleActivityUpdate

LEMMA MatchedStep == ASSUME Matched, [Next]_vars PROVE Matched'
<1> USE SocketsAssumption DEF Matched
<1>1. CASE UNCHANGED vars
  BY <1>1 DEF TypeOK, EntriesMatchSockets, vars
<1>2. ASSUME NEW s \in Socket, HandleConnection(s) PROVE Matched'
  BY <1>2 DEF HandleConnection, TypeOK, EntriesMatchSockets
<1>3. ASSUME NEW s \in Socket, HandleDisconnect(s) PROVE Matched'
  <2>1. Unknown \in [Room -> [User -> Words]]
    BY DEF Unknown, Blank, Words
  <2>2. heard' \in [Socket -> [Room -> [User -> Words]]]
    BY <1>3, <2>1 DEF HandleDisconnect, TypeOK
  <2>3. /\ status' \in [Socket -> {"new", "connected", "gone"}]
        /\ rooms' \in [Socket -> SUBSET Room]
        /\ connectedUsers' = connectedUsers \ {s} /\ rooms'[s] = {}
        /\ \A t \in Socket \ {s} : status'[t] = status[t] /\ rooms'[t] = rooms[t]
        /\ UNCHANGED <<adapter, channel, lossy>>
    BY <1>3 DEF HandleDisconnect, TypeOK
  <2>4. moved' \in [Socket -> [Room -> SUBSET Socket]]
    BY <1>3, Watches DEF HandleDisconnect
  <2> QED
    BY <2>2, <2>3, <2>4 DEF TypeOK, EntriesMatchSockets
<1>4. ASSUME NEW s \in Socket, NEW r \in Room, HandleUserJoin(s, r) PROVE Matched'
  <2>1. heard' \in Heard /\ channel' \in Channels
    BY <1>4, Emits, Told DEF HandleUserJoin, TypeOK, Heard
  <2>3. moved' \in [Socket -> [Room -> SUBSET Socket]]
    BY <1>4, Watches DEF HandleUserJoin
  <2>2. /\ rooms' \in [Socket -> SUBSET Room]
        /\ \A t \in Socket \ {s} : rooms'[t] = rooms[t]
        /\ connectedUsers' = connectedUsers \cup {s} /\ status[s] = "connected"
        /\ UNCHANGED <<adapter, status, lossy>>
    BY <1>4 DEF HandleUserJoin, TypeOK
  <2> QED
    BY <2>1, <2>2, <2>3 DEF TypeOK, EntriesMatchSockets, Heard, Channels
<1>5. ASSUME NEW s \in Socket, NEW r \in Room, HandleUserLeave(s, r) PROVE Matched'
  <2>1. heard' \in Heard /\ channel' \in Channels
    <3>1. CASE s \in connectedUsers
      BY <1>5, <3>1, Emits, Told, Forgets DEF HandleUserLeave
    <3>2. CASE s \notin connectedUsers
      BY <1>5, <3>2, Forgets DEF HandleUserLeave, TypeOK, Channels
    <3> QED
      BY <3>1, <3>2
  <2>2. /\ rooms' \in [Socket -> SUBSET Room]
        /\ \A t \in Socket : rooms'[t] \subseteq rooms[t]
        /\ UNCHANGED <<adapter, status, connectedUsers, lossy>>
    BY <1>5 DEF HandleUserLeave, TypeOK
  <2>3. moved' \in [Socket -> [Room -> SUBSET Socket]]
    BY <1>5, Watches DEF HandleUserLeave
  <2> QED
    BY <2>1, <2>2, <2>3 DEF TypeOK, EntriesMatchSockets, Heard, Channels
<1>6. ASSUME NEW s \in Socket, NEW r \in Room, Relay(s, r) PROVE Matched'
  <2>1. heard' \in Heard /\ channel' \in Channels
    BY <1>6, Emits, Told DEF Relay, TypeOK, Heard
  <2>2. UNCHANGED <<adapter, status, rooms, connectedUsers, lossy, moved>>
    BY <1>6 DEF Relay
  <2> QED
    BY <2>1, <2>2 DEF TypeOK, EntriesMatchSockets, Heard, Channels
<1>7. ASSUME NEW p \in Process, NEW q \in Process, Deliver(p, q) PROVE Matched'
  <2>1. heard' \in Heard /\ channel' \in Channels
    BY <1>7, Delivers
  <2>2. UNCHANGED <<adapter, status, rooms, connectedUsers, lossy, moved>>
    BY <1>7 DEF Deliver
  <2> QED
    BY <2>1, <2>2 DEF TypeOK, EntriesMatchSockets, Heard, Channels
<1>8. ASSUME NEW p \in Process, NEW q \in Process, Lose(p, q) PROVE Matched'
  <2>1. Tail(channel[p][q]) \in Seq(Event)
    BY <1>8 DEF Lose, TypeOK
  <2>2. channel' = [channel EXCEPT ![p][q] = Tail(channel[p][q])]
    BY <1>8 DEF Lose, TypeOK
  <2>3. channel' \in [Process -> [Process -> Seq(Event)]]
    BY <2>1, <2>2 DEF TypeOK
  <2>4. lossy' \subseteq Process \X Process
        /\ UNCHANGED <<adapter, status, rooms, connectedUsers, heard, moved>>
    BY <1>8 DEF Lose, TypeOK
  <2> QED
    BY <2>3, <2>4 DEF TypeOK, EntriesMatchSockets
<1>9. ASSUME NEW p \in Process, Bootstrap(p) PROVE Matched'
  <2>1. Unknown \in [Room -> [User -> Words]]
    BY DEF Unknown, Blank, Words
  <2>2. heard' \in [Socket -> [Room -> [User -> Words]]]
    BY <1>9, <2>1 DEF Bootstrap, TypeOK
  <2>3. \A q \in Process : [channel[q] EXCEPT ![p] = <<>>] \in [Process -> Seq(Event)]
    BY DEF TypeOK
  <2>4. channel' \in [Process -> [Process -> Seq(Event)]]
    BY <1>9, <2>3 DEF Bootstrap, TypeOK
  <2>5. /\ adapter' \in [Process -> {"redis", "memory"}] /\ lossy' = lossy
        /\ status' \in [Socket -> {"new", "connected", "gone"}]
        /\ rooms' \in [Socket -> SUBSET Room]
        /\ \A s \in Socket : /\ HomeOf[s] # p => status'[s] = status[s]
                             /\ rooms'[s] = IF HomeOf[s] = p THEN {} ELSE rooms[s]
        /\ \A s : s \in connectedUsers' <=> s \in connectedUsers /\ HomeOf[s] # p
    BY <1>9 DEF Bootstrap, TypeOK, SocketsAt
  <2>6. moved' \in [Socket -> [Room -> SUBSET Socket]]
    BY <1>9, Watches DEF Bootstrap
  <2> QED
    BY <2>2, <2>4, <2>5, <2>6 DEF TypeOK, EntriesMatchSockets
<1> QED
  BY <1>1, <1>2, <1>3, <1>4, <1>5, <1>6, <1>7, <1>8, <1>9, StepIs

LEMMA MatchedInit == Init => Matched
  BY SocketsAssumption
  DEF Init, Matched, TypeOK, EntriesMatchSockets, Unknown, Blank, Words

LEMMA MatchedInvariant == Spec => []Matched
  BY MatchedInit, MatchedStep, PTL DEF Spec

(* The types of the model hold for any number of processes, sockets, rooms. *)
THEOREM TypeCorrect == Spec => []TypeOK
  BY MatchedInvariant, PTL DEF Matched

(* connectedUsers follows the connections and the rooms, whatever joins,    *)
(* leaves, disconnections and restarts come in between.                    *)
THEOREM EntriesFollowSockets == Spec => []EntriesMatchSockets
  BY MatchedInvariant, PTL DEF Matched

-----------------------------------------------------------------------------
(* What a handler does, in terms of the event it emits.                     *)

Spoken(s, r, e) ==
    /\ e \in Event /\ e.from = s /\ e.room = r /\ status[s] = "connected"
    /\ UNCHANGED <<adapter, status, lossy>>
    /\ \A t \in Socket \ {s} : rooms'[t] = rooms[t]
    /\ \A x \in Room \ {r} : x \in rooms'[s] <=> x \in rooms[s]
    /\ e.kind = "joined" => r \in rooms'[s]
    /\ e.kind = "left" => r \notin rooms'[s]
    /\ e.kind \in {"update", "stray"} => rooms' = rooms
    /\ e.kind = "update" => r \in rooms[s]
    /\ \A p, q \in Process :
         channel'[p][q] = IF p = HomeOf[s] /\ q \in Subscribers(p)
                          THEN Append(channel[p][q], e) ELSE channel[p][q]

(* What the sockets of its process make of it: those in the room have heard *)
(* it, who leaves the room forgets it, and nobody else has heard.           *)
Understood(s, r, e) ==
    \A v \in Socket, x \in Room, u \in User :
        heard'[v][x][u] =
            IF /\ e.kind \in {"joined", "left"} /\ HomeOf[v] = HomeOf[s]
               /\ r \in rooms'[v] /\ x = r /\ u = UserOf[s]
            THEN e.kind
            ELSE IF v = s /\ x = r /\ e.kind = "left" THEN "nothing" ELSE heard[v][x][u]

(* A socket without an entry leaves unnoticed; it was in no room.           *)
Unnoticed(s, r) ==
    /\ UNCHANGED <<adapter, status, lossy, channel, rooms>>
    /\ r \notin rooms[s]
    /\ \A v \in Socket, x \in Room, u \in User :
         heard'[v][x][u] = IF v = s /\ x = r THEN "nothing" ELSE heard[v][x][u]

LEMMA JoinSpeaks ==
  ASSUME Matched, NEW s \in Socket, NEW r \in Room, HandleUserJoin(s, r)
  PROVE  \E e \in Event : Spoken(s, r, e) /\ Understood(s, r, e)
<1> DEFINE e == News("joined", s, r)
<1>1. e \in Event /\ e.kind = "joined" /\ e.room = r /\ e.from = s
  BY Told
<1>2. Emit(e, heard) /\ heard \in Heard
  BY DEF HandleUserJoin, Matched, TypeOK, Heard
<1> HIDE DEF e
<1>3. /\ rooms'[s] = rooms[s] \cup {r} /\ \A t \in Socket \ {s} : rooms'[t] = rooms[t]
      /\ status[s] = "connected" /\ UNCHANGED <<adapter, status, lossy>>
  BY DEF HandleUserJoin, Matched, TypeOK
<1>4. Spoken(s, r, e)
  BY <1>1, <1>2, <1>3, Emits DEF Matched, Spoken
<1>5. \A v \in Socket, x \in Room, u \in User :
        heard'[v][x][u] = IF /\ HomeOf[v] = HomeOf[s] /\ r \in rooms'[v]
                             /\ x = r /\ u = UserOf[s]
                          THEN "joined" ELSE heard[v][x][u]
  BY <1>1, <1>2, Emits DEF Matched
<1>6. Understood(s, r, e)
  BY <1>1, <1>5 DEF Understood
<1> QED
  BY <1>1, <1>4, <1>6

LEMMA LeaveSpeaks ==
  ASSUME Matched, NEW s \in Socket, NEW r \in Room, HandleUserLeave(s, r)
  PROVE  Unnoticed(s, r) \/ \E e \in Event : Spoken(s, r, e) /\ Understood(s, r, e)
<1>3. /\ rooms'[s] = rooms[s] \ {r} /\ \A t \in Socket \ {s} : rooms'[t] = rooms[t]
      /\ rooms \in [Socket -> SUBSET Room] /\ rooms' = [rooms EXCEPT ![s] = @ \ {r}]
      /\ status[s] = "connected" /\ UNCHANGED <<adapter, status, lossy>>
  BY DEF HandleUserLeave, Matched, TypeOK
<1>7. CASE s \in connectedUsers
  <2> DEFINE e == News("left", s, r)
  <2>1. e \in Event /\ e.kind = "left" /\ e.room = r /\ e.from = s
    BY Told
  <2>2. Emit(e, Leaving(s, r)) /\ Leaving(s, r) \in Heard
    BY <1>7, Forgets DEF HandleUserLeave, Matched
  <2> HIDE DEF e
  <2>4. Spoken(s, r, e)
    BY <2>1, <2>2, <1>3, Emits DEF Matched, Spoken
  <2>5. \A v \in Socket, x \in Room, u \in User :
          heard'[v][x][u] = IF /\ HomeOf[v] = HomeOf[s] /\ r \in rooms'[v]
                               /\ x = r /\ u = UserOf[s]
                            THEN "left" ELSE Leaving(s, r)[v][x][u]
    BY <2>1, <2>2, Emits DEF Matched
  <2>6. Understood(s, r, e)
    BY <2>1, <2>5, Forgets DEF Matched, Understood
  <2> QED
    BY <2>1, <2>4, <2>6
<1>8. CASE s \notin connectedUsers
  <2>1. rooms[s] = {}
    BY <1>8 DEF Matched, EntriesMatchSockets
  <2>2. rooms' = rooms
    BY <1>3, <2>1
  <2>3. heard' = Leaving(s, r) /\ channel' = channel
    BY <1>8 DEF HandleUserLeave
  <2> QED
    BY <1>3, <2>1, <2>2, <2>3, Forgets DEF Matched, Unnoticed
<1> QED
  BY <1>7, <1>8

LEMMA RelaySpeaks ==
  ASSUME Matched, NEW s \in Socket, NEW r \in Room, Relay(s, r)
  PROVE  \E e \in Event : Spoken(s, r, e) /\ Understood(s, r, e)
<1> DEFINE e == News(IF r \in rooms[s] THEN "update" ELSE "stray", s, r)
<1>1. /\ e \in Event /\ e.room = r /\ e.from = s
      /\ e.kind = IF r \in rooms[s] THEN "update" ELSE "stray"
  BY Told
<1>2. Emit(e, heard) /\ heard \in Heard
  BY DEF Relay, Matched, TypeOK, Heard
<1> HIDE DEF e
<1>3. status[s] = "connected" /\ UNCHANGED <<adapter, status, lossy, rooms>>
  BY DEF Relay
<1>4. Spoken(s, r, e)
  BY <1>1, <1>2, <1>3, Emits DEF Matched, Spoken
<1>5. \A v \in Socket, x \in Room, u \in User : heard'[v][x][u] = heard[v][x][u]
  BY <1>1, <1>2, Emits DEF Matched
<1>6. Understood(s, r, e)
  BY <1>1, <1>5 DEF Understood
<1> QED
  BY <1>1, <1>4, <1>6

(* All that can happen.                                                     *)
LEMMA Happens ==
  ASSUME Matched, [Next]_vars
  PROVE  \/ UNCHANGED vars
         \/ \E t \in Socket : HandleConnection(t) \/ HandleDisconnect(t)
         \/ \E t \in Socket, x \in Room, e \in Event : Spoken(t, x, e) /\ Understood(t, x, e)
         \/ \E t \in Socket, x \in Room : Unnoticed(t, x)
         \/ \E a, b \in Process : Deliver(a, b) \/ Lose(a, b)
         \/ \E b \in Process : Bootstrap(b)
  BY StepIs, JoinSpeaks, LeaveSpeaks, RelaySpeaks

-----------------------------------------------------------------------------
(* Sequences, and the greatest of some indices.                             *)

LEMMA Appended ==
  ASSUME NEW c \in Seq(Event), NEW e \in Event
  PROVE  /\ Append(c, e) \in Seq(Event) /\ Len(Append(c, e)) = Len(c) + 1
         /\ \A i \in 1..Len(c) : Append(c, e)[i] = c[i]
         /\ Append(c, e)[Len(c) + 1] = e
  OBVIOUS

LEMMA Tailed ==
  ASSUME NEW c \in Seq(Event), c # <<>>
  PROVE  /\ Tail(c) \in Seq(Event) /\ Len(Tail(c)) = Len(c) - 1 /\ Len(c) >= 1
         /\ \A i \in 1..Len(Tail(c)) : Tail(c)[i] = c[i + 1] /\ i + 1 \in 1..Len(c)
  OBVIOUS

LEMMA AboutIs ==
  ASSUME NEW e \in Event, NEW s, NEW r
  PROVE  About(e, s, r) <=> e.kind \in {"joined", "left"} /\ e.from = s /\ e.room = r
  BY DEF About, News, Event

LEMMA Greatest ==
  ASSUME NEW n \in Nat, NEW S, S \subseteq 1..n, S # {}
  PROVE  \E i \in S : \A j \in S : j <= i
<1> DEFINE T == {n - i : i \in S}
<1>0. PICK k \in S : TRUE
  OBVIOUS
<1>1. T \subseteq Nat /\ n - k \in T
  BY <1>0
<1> HIDE DEF T
<1>2. PICK x \in T : \A y \in T : <<y, x>> \notin OpToRel(<, Nat)
  BY <1>1, NatLessThanWellFounded, WFMin, Zenon
<1>3. \A y \in T : ~(y < x)
  BY <1>1, <1>2 DEF OpToRel
<1>4. PICK i \in S : x = n - i
  BY DEF T
<1>5. \A j \in S : n - j \in T
  BY DEF T
<1>6. \A j \in S : j <= i
  BY <1>3, <1>4, <1>5
<1> QED
  BY <1>6

-----------------------------------------------------------------------------
(* What the other steps do.                                                 *)

LEMMA Restarts ==
  ASSUME Matched, NEW p \in Process, Bootstrap(p)
  PROVE  /\ lossy' = lossy /\ \A q \in Process \ {p} : adapter'[q] = adapter[q]
         /\ \A s \in Socket :
              IF HomeOf[s] = p
              THEN /\ rooms'[s] = {} /\ status'[s] \in {"new", "gone"}
                   /\ status'[s] = "new" => status[s] = "new"
              ELSE rooms'[s] = rooms[s] /\ status'[s] = status[s]
         /\ \A a, b \in Process :
              channel'[a][b] = IF b = p THEN <<>> ELSE channel[a][b]
         /\ \A v \in Socket, x \in Room, u \in User :
              heard'[v][x][u] = IF HomeOf[v] = p THEN "nothing" ELSE heard[v][x][u]
<1> USE SocketsAssumption
<1>1. lossy' = lossy /\ \A q \in Process \ {p} : adapter'[q] = adapter[q]
  BY DEF Bootstrap, Matched, TypeOK
<1>2. \A s \in Socket : /\ rooms'[s] = IF HomeOf[s] = p THEN {} ELSE rooms[s]
                        /\ status'[s] = IF HomeOf[s] = p /\ status[s] = "connected"
                                        THEN "gone" ELSE status[s]
                        /\ status[s] \in {"new", "connected", "gone"}
  BY DEF Bootstrap, Matched, TypeOK
<1>3. \A a, b \in Process : channel'[a][b] = IF b = p THEN <<>> ELSE channel[a][b]
  BY DEF Bootstrap, Matched, TypeOK
<1>4. \A v \in Socket : heard'[v] = IF HomeOf[v] = p THEN Unknown ELSE heard[v]
  BY DEF Bootstrap
<1>5. \A x \in Room, u \in User : Unknown[x][u] = "nothing"
  BY DEF Unknown, Blank
<1> QED
  BY <1>1, <1>2, <1>3, <1>4, <1>5

LEMMA Disconnects ==
  ASSUME Matched, NEW s \in Socket, HandleDisconnect(s)
  PROVE  /\ UNCHANGED <<adapter, channel, lossy>>
         /\ status'[s] = "gone" /\ rooms'[s] = {} /\ status[s] = "connected"
         /\ \A t \in Socket \ {s} : status'[t] = status[t] /\ rooms'[t] = rooms[t]
         /\ \A v \in Socket, x \in Room, u \in User :
              heard'[v][x][u] = IF v = s THEN "nothing" ELSE heard[v][x][u]
<1>1. \A x \in Room, u \in User : Unknown[x][u] = "nothing"
  BY DEF Unknown, Blank
<1>2. heard' = [heard EXCEPT ![s] = Unknown]
  BY DEF HandleDisconnect
<1>3. \A v \in Socket : heard'[v] = IF v = s THEN Unknown ELSE heard[v]
  BY <1>2 DEF Matched, TypeOK
<1>4. \A v \in Socket, x \in Room, u \in User :
        heard'[v][x][u] = IF v = s THEN "nothing" ELSE heard[v][x][u]
  BY <1>1, <1>3
<1> QED
  BY <1>4 DEF HandleDisconnect, Matched, TypeOK

LEMMA Connects ==
  ASSUME Matched, NEW s \in Socket, HandleConnection(s)
  PROVE  /\ UNCHANGED <<adapter, rooms, channel, lossy, heard>>
         /\ status[s] = "new" /\ status'[s] # "new" /\ rooms[s] = {}
         /\ \A t \in Socket \ {s} : status'[t] = status[t]
  BY DEF HandleConnection, Matched, TypeOK

LEMMA Loses ==
  ASSUME Matched, NEW p \in Process, NEW q \in Process, Lose(p, q)
  PROVE  /\ channel[p][q] # <<>>
         /\ \A a, b \in Process :
              channel'[a][b] = IF a = p /\ b = q THEN Tail(channel[a][b]) ELSE channel[a][b]
         /\ lossy' = lossy \cup {<<p, q>>}
         /\ UNCHANGED <<adapter, status, rooms, heard>>
<1>1. channel' = [channel EXCEPT ![p][q] = Tail(channel[p][q])]
  BY DEF Lose, Matched, TypeOK
<1>2. \A a, b \in Process :
        channel'[a][b] = IF a = p /\ b = q THEN Tail(channel[a][b]) ELSE channel[a][b]
  BY <1>1 DEF Matched, TypeOK
<1> QED
  BY <1>2 DEF Lose

-----------------------------------------------------------------------------
(* Where the messages on their way come from.                               *)

Traced(e, p, q) ==
    /\ e.from \in Socket /\ HomeOf[e.from] = p /\ status[e.from] # "new"
    /\ status[e.from] = "connected" => q \in Subscribers(p)

Origin ==
    \A p, q \in Process :
        /\ channel[p][p] = <<>>
        /\ \A i \in 1..Len(channel[p][q]) : Traced(channel[p][q][i], p, q)

LEMMA OriginStep == ASSUME Matched, Origin, [Next]_vars PROVE Origin'
<1> USE SocketsAssumption
<1>0. \A p, q \in Process : channel[p][q] \in Seq(Event)
  BY DEF Matched, TypeOK
<1>1. CASE UNCHANGED vars
  <2>1. \A m, p, q : Traced(m, p, q)' <=> Traced(m, p, q)
    BY <1>1 DEF Traced, Subscribers, vars
  <2> QED
    BY <1>1, <2>1 DEF Origin, vars
<1>2. ASSUME NEW s \in Socket, HandleConnection(s) PROVE Origin'
  <2>1. \A e, p, q : Traced(e, p, q) => Traced(e, p, q)'
    BY <1>2, Connects DEF Traced, Subscribers
  <2> QED
    BY <1>2, <2>1, Connects DEF Origin
<1>3. ASSUME NEW s \in Socket, HandleDisconnect(s) PROVE Origin'
  <2>1. \A e, p, q : Traced(e, p, q) => Traced(e, p, q)'
    BY <1>3, Disconnects DEF Traced, Subscribers
  <2> QED
    BY <1>3, <2>1, Disconnects DEF Origin
<1>4. ASSUME NEW s \in Socket, NEW r \in Room, NEW e \in Event, Spoken(s, r, e) PROVE Origin'
  <2>1. UNCHANGED <<adapter, status>> /\ e.from = s /\ status[s] = "connected"
    BY <1>4 DEF Spoken
  <2>0. \A m, p, q : Traced(m, p, q)' <=> Traced(m, p, q)
    BY <2>1 DEF Traced, Subscribers
  <2> SUFFICES ASSUME NEW p \in Process, NEW q \in Process
               PROVE  /\ channel'[p][p] = <<>>
                      /\ \A i \in 1..Len(channel'[p][q]) : Traced(channel'[p][q][i], p, q)
    BY <2>0 DEF Origin
  <2>2. channel'[p][p] = <<>>
    BY <1>4 DEF Origin, Spoken, Subscribers
  <2>3. CASE p = HomeOf[s] /\ q \in Subscribers(p)
    <3>1. channel'[p][q] = Append(channel[p][q], e)
      BY <1>4, <2>3 DEF Spoken
    <3>2. Traced(e, p, q)
      BY <2>1, <2>3 DEF Traced
    <3>3. \A i \in 1..Len(channel[p][q]) : Traced(channel[p][q][i], p, q)
      BY DEF Origin
    <3> QED
      BY <1>0, <2>2, <3>1, <3>2, <3>3, Appended
  <2>4. CASE ~(p = HomeOf[s] /\ q \in Subscribers(p))
    <3>1. channel'[p][q] = channel[p][q]
      BY <1>4, <2>4 DEF Spoken
    <3> QED
      BY <2>2, <3>1 DEF Origin
  <2> QED
    BY <2>3, <2>4
<1>5. ASSUME NEW s, NEW r, Unnoticed(s, r) PROVE Origin'
  <2>1. \A m, p, q : Traced(m, p, q)' <=> Traced(m, p, q)
    BY <1>5 DEF Traced, Subscribers, Unnoticed
  <2> QED
    BY <1>5, <2>1 DEF Origin, Unnoticed
<1>6. ASSUME NEW p \in Process, NEW q \in Process, Deliver(p, q) \/ Lose(p, q) PROVE Origin'
  <2>1. /\ channel[p][q] # <<>> /\ UNCHANGED <<adapter, status>>
        /\ \A a, b \in Process :
              channel'[a][b] = IF a = p /\ b = q THEN Tail(channel[a][b]) ELSE channel[a][b]
    BY <1>6, Delivers, Loses DEF Deliver, Matched
  <2>2. \A m, a, b : Traced(m, a, b)' <=> Traced(m, a, b)
    BY <2>1 DEF Traced, Subscribers
  <2>3. p # q
    BY <2>1 DEF Origin
  <2>4. \A i \in 1..Len(channel'[p][q]) : Traced(channel'[p][q][i], p, q)
    <3>1. channel'[p][q] = Tail(channel[p][q])
      BY <2>1
    <3>2. /\ Len(channel'[p][q]) = Len(channel[p][q]) - 1
          /\ \A i \in 1..Len(channel'[p][q]) :
                channel'[p][q][i] = channel[p][q][i + 1] /\ i + 1 \in 1..Len(channel[p][q])
      BY <1>0, <2>1, <3>1, Tailed
    <3>3. \A i \in 1..Len(channel[p][q]) : Traced(channel[p][q][i], p, q)
      BY DEF Origin
    <3> QED
      BY <3>2, <3>3
  <2>5. ASSUME NEW a \in Process, NEW b \in Process
        PROVE  /\ channel'[a][a] = <<>>
               /\ \A i \in 1..Len(channel'[a][b]) : Traced(channel'[a][b][i], a, b)
    <3>1. channel'[a][a] = channel[a][a]
      BY <2>1, <2>3
    <3>2. CASE a = p /\ b = q
      BY <2>4, <3>1, <3>2 DEF Origin
    <3>3. CASE ~(a = p /\ b = q)
      BY <2>1, <3>1, <3>3 DEF Origin
    <3> QED
      BY <3>2, <3>3
  <2> QED
    BY <2>2, <2>5 DEF Origin
<1>7. ASSUME NEW p \in Process, Bootstrap(p) PROVE Origin'
  <2>1. \A a, b \in Process : \A i \in 1..Len(channel'[a][b]) : b # p /\ channel'[a][b] = channel[a][b]
    BY <1>7, Restarts
  <2>2. \A a \in Process : channel'[a][a] = <<>>
    BY <1>7, Restarts DEF Origin
  <2>3. \A a, b \in Process : a # p /\ b # p => (b \in Subscribers(a) <=> b \in Subscribers(a)')
    BY <1>7, Restarts DEF Subscribers
  <2>4. \A m, a, b : a \in Process /\ b \in Process /\ b # p /\ Traced(m, a, b) => Traced(m, a, b)'
    BY <1>7, <2>3, Restarts DEF Traced
  <2> QED
    BY <2>1, <2>2, <2>4 DEF Origin
<1> QED
  BY <1>1, <1>2, <1>3, <1>4, <1>5, <1>6, <1>7, Happens

-----------------------------------------------------------------------------
(* The last message about a socket and a room that is on its way.           *)

Last(c, s, r, kind) ==
    \E i \in 1..Len(c) :
        /\ About(c[i], s, r) /\ c[i].kind = kind
        /\ \A j \in 1..Len(c) : j > i => ~About(c[j], s, r)

Quiet(c, s, r) == \A i \in 1..Len(c) : ~About(c[i], s, r)

LEMMA AfterAppend ==
  ASSUME NEW c \in Seq(Event), NEW e \in Event, NEW d, d = Append(c, e),
         NEW s, NEW r, NEW kind
  PROVE  /\ Last(d, s, r, kind) /\ About(e, s, r) => kind = e.kind
         /\ Last(d, s, r, kind) /\ ~About(e, s, r) => Last(c, s, r, kind)
         /\ Quiet(d, s, r) => Quiet(c, s, r) /\ ~About(e, s, r)
<1>1. /\ Len(d) = Len(c) + 1 /\ d[Len(c) + 1] = e
      /\ Len(c) \in Nat /\ \A i \in 1..Len(c) : d[i] = c[i]
  BY Appended
<1>2. Last(d, s, r, kind) /\ About(e, s, r) => kind = e.kind
  BY <1>1 DEF Last
<1>3. Last(d, s, r, kind) /\ ~About(e, s, r) => Last(c, s, r, kind)
  BY <1>1 DEF Last
<1>4. Quiet(d, s, r) => Quiet(c, s, r) /\ ~About(e, s, r)
  BY <1>1 DEF Quiet
<1> QED
  BY <1>2, <1>3, <1>4

LEMMA AfterTail ==
  ASSUME NEW c \in Seq(Event), c # <<>>, NEW d, d = Tail(c), NEW s, NEW r, NEW kind
  PROVE  /\ Last(d, s, r, kind) => Last(c, s, r, kind)
         /\ Quiet(d, s, r) /\ ~About(c[1], s, r) => Quiet(c, s, r)
         /\ Quiet(d, s, r) /\ About(c[1], s, r) => Last(c, s, r, c[1].kind)
<1>1. /\ Len(d) = Len(c) - 1 /\ Len(c) \in Nat /\ Len(c) >= 1
      /\ \A i \in 1..Len(d) : d[i] = c[i + 1]
  BY Tailed
<1>2. \A j \in 1..Len(c) : j > 1 => j - 1 \in 1..Len(d) /\ d[j - 1] = c[j]
  BY <1>1
<1>3. ASSUME Last(d, s, r, kind) PROVE Last(c, s, r, kind)
  <2>1. PICK i \in 1..Len(d) : /\ About(d[i], s, r) /\ d[i].kind = kind
                               /\ \A j \in 1..Len(d) : j > i => ~About(d[j], s, r)
    BY <1>3 DEF Last
  <2>2. ASSUME NEW j \in 1..Len(c), j > i + 1 PROVE ~About(c[j], s, r)
    <3>1. j - 1 \in 1..Len(d) /\ d[j - 1] = c[j] /\ j - 1 > i
      BY <1>1, <1>2, <2>1, <2>2
    <3> QED
      BY <2>1, <3>1
  <2>3. i + 1 \in 1..Len(c) /\ d[i] = c[i + 1]
    BY <1>1, <2>1
  <2> QED
    BY <2>1, <2>2, <2>3 DEF Last
<1>4. Quiet(d, s, r) => \A j \in 1..Len(c) : j > 1 => ~About(c[j], s, r)
  BY <1>2 DEF Quiet
<1>5. Quiet(d, s, r) /\ ~About(c[1], s, r) => Quiet(c, s, r)
  BY <1>1, <1>4 DEF Quiet
<1>6. Quiet(d, s, r) /\ About(c[1], s, r) => Last(c, s, r, c[1].kind)
  BY <1>1, <1>4 DEF Last
<1> QED
  BY <1>3, <1>5, <1>6

LEMMA NothingFrom ==
  ASSUME Matched, Origin, NEW s \in Socket, NEW p \in Process, NEW q \in Process,
         \/ status[s] = "new"
         \/ p # HomeOf[s]
         \/ status[s] = "connected" /\ q \notin Subscribers(p)
         \/ p = q
  PROVE  \A i \in 1..Len(channel[p][q]) : channel[p][q][i] \in Event /\ channel[p][q][i].from # s
<1>1. channel[p][q] \in Seq(Event)
  BY DEF Matched, TypeOK
<1>2. \A i \in 1..Len(channel[p][q]) : channel[p][q][i] \in Event
  BY <1>1
<1>3. CASE p = q
  BY <1>3 DEF Origin
<1>4. CASE p # q
  <2>1. \A i \in 1..Len(channel[p][q]) : Traced(channel[p][q][i], p, q)
    BY DEF Origin
  <2> QED
    BY <1>2, <1>4, <2>1 DEF Traced
<1> QED
  BY <1>3, <1>4

LEMMA NewAreSilent ==
  ASSUME Matched, Origin, NEW s \in Socket, NEW p \in Process, NEW q \in Process, NEW r,
         \/ status[s] = "new"
         \/ p # HomeOf[s]
         \/ status[s] = "connected" /\ q \notin Subscribers(p)
         \/ p = q
  PROVE  Quiet(channel[p][q], s, r)
  BY NothingFrom, AboutIs DEF Quiet

LEMMA QuietHasNoLast == ASSUME NEW c, NEW s, NEW r, Quiet(c, s, r), NEW k PROVE ~Last(c, s, r, k)
  BY DEF Quiet, Last

(* It tells the truth about every socket that has not been cut off.         *)
Tells(s, q, r) ==
    \A kind : Last(channel[HomeOf[s]][q], s, r, kind) => (kind = "joined" <=> r \in rooms[s])

LastTells ==
    \A s \in Socket, q \in Process, r \in Room : status[s] # "gone" => Tells(s, q, r)

LEMMA LastTellsStep ==
  ASSUME Matched, Origin, LastTells, [Next]_vars PROVE LastTells'
<1> USE SocketsAssumption
<1> SUFFICES ASSUME NEW s \in Socket, NEW q \in Process, NEW r \in Room, status'[s] # "gone"
             PROVE  Tells(s, q, r)'
  BY DEF LastTells
<1> DEFINE p == HomeOf[s]
           c == channel[p][q]
           d == channel'[p][q]
<1>a. p \in Process /\ c \in Seq(Event)
  BY DEF Matched, TypeOK
<1>b. Tells(s, q, r)' <=> \A kind : Last(d, s, r, kind) => (kind = "joined" <=> r \in rooms'[s])
  BY DEF Tells
<1>c. status[s] # "gone"
        => \A kind : Last(c, s, r, kind) => (kind = "joined" <=> r \in rooms[s])
  BY DEF LastTells, Tells
<1> HIDE DEF p
<1>d. ASSUME Quiet(d, s, r) PROVE Tells(s, q, r)'
  BY <1>b, <1>d, QuietHasNoLast
<1>e. ASSUME status[s] # "gone", \A kind : Last(d, s, r, kind) => Last(c, s, r, kind),
             r \in rooms'[s] <=> r \in rooms[s]
      PROVE  Tells(s, q, r)'
  BY <1>b, <1>c, <1>e
<1>1. CASE UNCHANGED vars
  BY <1>1, <1>e DEF vars
<1>2. ASSUME NEW t \in Socket, HandleConnection(t) PROVE Tells(s, q, r)'
  <2>1. CASE s = t
    <3>1. Quiet(d, s, r)
      BY <1>2, <1>a, <2>1, Connects, NewAreSilent
    <3> QED
      BY <1>d, <3>1
  <2>2. CASE s # t
    BY <1>2, <1>e, <2>2, Connects
  <2> QED
    BY <2>1, <2>2
<1>3. ASSUME NEW t \in Socket, HandleDisconnect(t) PROVE Tells(s, q, r)'
  BY <1>3, <1>e, Disconnects
<1>4. ASSUME NEW t \in Socket, NEW x \in Room, NEW e \in Event, Spoken(t, x, e)
      PROVE  Tells(s, q, r)'
  <2>1. /\ e.from = t /\ e.room = x /\ status[t] = "connected" /\ status' = status
        /\ e.kind = "joined" => x \in rooms'[t]
        /\ e.kind = "left" => x \notin rooms'[t]
        /\ d = IF p = HomeOf[t] /\ q \in Subscribers(p) THEN Append(c, e) ELSE c
    BY <1>4, <1>a DEF Spoken
  <2>2. CASE About(e, s, r)
    <3>1. s = t /\ x = r /\ e.kind \in {"joined", "left"}
      BY <2>1, <2>2, AboutIs
    <3>2. CASE q \in Subscribers(p)
      <4>1. d = Append(c, e)
        BY <2>1, <3>1, <3>2 DEF p
      <4> HIDE DEF c, d
      <4>2. \A kind : Last(d, s, r, kind) => kind = e.kind
        BY <1>a, <2>2, <4>1, AfterAppend, Zenon
      <4> QED
        BY <1>b, <2>1, <3>1, <4>2
    <3>3. CASE q \notin Subscribers(p)
      <4>1. Quiet(c, s, r) /\ d = c
        BY <1>a, <2>1, <3>1, <3>3, NewAreSilent
      <4> QED
        BY <1>d, <4>1
    <3> QED
      BY <3>2, <3>3
  <2>3. CASE ~About(e, s, r)
    <3>1. r \in rooms'[s] <=> r \in rooms[s]
      BY <1>4, <2>1, <2>3, AboutIs DEF Spoken, Event
    <3>2. \A kind : Last(d, s, r, kind) => Last(c, s, r, kind)
      <4>1. d = Append(c, e) \/ d = c
        BY <2>1
      <4> HIDE DEF c, d
      <4>2. CASE d = Append(c, e)
        BY <1>a, <2>3, <4>2, AfterAppend, Zenon
      <4>3. CASE d = c
        BY <4>3
      <4> QED
        BY <4>1, <4>2, <4>3
    <3> QED
      BY <1>e, <2>1, <3>1, <3>2
  <2> QED
    BY <2>2, <2>3
<1>5. ASSUME NEW t \in Socket, NEW x, Unnoticed(t, x) PROVE Tells(s, q, r)'
  BY <1>5, <1>e DEF Unnoticed
<1>6. ASSUME NEW a \in Process, NEW b \in Process, Deliver(a, b) \/ Lose(a, b)
      PROVE  Tells(s, q, r)'
  <2>1. /\ channel[a][b] # <<>> /\ UNCHANGED <<rooms, status>>
        /\ d = IF p = a /\ q = b THEN Tail(c) ELSE c
    BY <1>a, <1>6, Delivers, Loses DEF Deliver, Matched
  <2>2. (d = Tail(c) /\ c # <<>>) \/ d = c
    BY <2>1
  <2> HIDE DEF c, d
  <2>3. CASE d = Tail(c) /\ c # <<>>
    <3>1. \A kind : Last(d, s, r, kind) => Last(c, s, r, kind)
      BY <1>a, <2>3, AfterTail, Zenon
    <3> QED
      BY <1>e, <2>1, <3>1
  <2>4. CASE d = c
    BY <1>e, <2>1, <2>4
  <2> QED
    BY <2>2, <2>3, <2>4
<1>7. ASSUME NEW b \in Process, Bootstrap(b) PROVE Tells(s, q, r)'
  <2>1. d = <<>> \/ d = c
    BY <1>7, <1>a, Restarts
  <2>2. CASE d = <<>>
    <3>1. Quiet(<<>>, s, r)
      BY DEF Quiet
    <3> QED
      BY <1>d, <2>2, <3>1
  <2>3. CASE d = c /\ p = b
    <3>1. status[s] = "new"
      BY <1>7, <2>3, Restarts DEF p
    <3>2. Quiet(c, s, r)
      BY <1>a, <3>1, NewAreSilent
    <3> QED
      BY <1>d, <2>3, <3>2
  <2>4. CASE d = c /\ p # b
    <3>1. status[s] # "gone" /\ rooms'[s] = rooms[s]
      BY <1>7, <2>4, Restarts DEF p
    <3> QED
      BY <1>e, <2>4, <3>1
  <2> QED
    BY <2>1, <2>2, <2>3, <2>4
<1> QED
  BY <1>1, <1>2, <1>3, <1>4, <1>5, <1>6, <1>7, Happens

-----------------------------------------------------------------------------
(* What has been heard.                                                     *)

(* Who is seen to come and go, and what is heard, while one is in the room. *)
Present ==
    \A v \in Socket, r \in Room :
        /\ \A s \in moved[v][r] : r \in rooms[v] /\ status[s] = "connected"
        /\ r \notin rooms[v] => \A u \in User : heard[v][r][u] = "nothing"

(* Whoever is newly seen to have come or gone has just done so.             *)
LEMMA MovedStep ==
  ASSUME Matched, Present, [Next]_vars, NEW v \in Socket, NEW r \in Room,
         NEW s \in Socket, s \in moved'[v][r]
  PROVE  /\ r \in rooms[v] /\ r \in rooms'[v] /\ status'[s] = "connected"
         /\ s \in moved[v][r] \/ ~(r \in rooms[s] <=> r \in rooms'[s])
<1>1. CASE WatchRooms
  BY <1>1, Watches
<1>2. CASE moved' = moved /\ rooms' = rooms /\ (status[s] = "connected" => status'[s] = status[s])
  BY <1>2 DEF Present
<1>3. ASSUME NEW t \in Socket, HandleConnection(t)
      PROVE  moved' = moved /\ rooms' = rooms /\ (status[s] = "connected" => status'[s] = status[s])
  BY <1>3 DEF HandleConnection, Matched, TypeOK
<1> QED
  BY <1>1, <1>2, <1>3, StepIs
  DEF HandleDisconnect, HandleUserJoin, HandleUserLeave, Relay, Deliver, Lose, Bootstrap, vars

LEMMA PresentStep ==
  ASSUME Matched, Origin, Present, [Next]_vars PROVE Present'
<1> USE SocketsAssumption
<1>a. ASSUME NEW v \in Socket, NEW r \in Room, NEW s \in moved'[v][r]
      PROVE  r \in rooms'[v] /\ status'[s] = "connected"
  <2>1. s \in Socket
    BY MatchedStep DEF Matched, TypeOK
  <2> QED
    BY <2>1, MovedStep
<1> SUFFICES ASSUME NEW v \in Socket, NEW r \in Room, r \notin rooms'[v], NEW u \in User
             PROVE  heard'[v][r][u] = "nothing"
  BY <1>a DEF Present
<1>0. r \notin rooms[v] => heard[v][r][u] = "nothing"
  BY DEF Present
<1>1. CASE UNCHANGED vars
  BY <1>0, <1>1 DEF vars
<1>2. ASSUME NEW t \in Socket, HandleConnection(t) PROVE heard'[v][r][u] = "nothing"
  BY <1>0, <1>2, Connects
<1>3. ASSUME NEW t \in Socket, HandleDisconnect(t) PROVE heard'[v][r][u] = "nothing"
  BY <1>0, <1>3, Disconnects
<1>4. ASSUME NEW t \in Socket, NEW x \in Room, NEW e \in Event,
             Spoken(t, x, e), Understood(t, x, e)
      PROVE  heard'[v][r][u] = "nothing"
  <2>1. heard'[v][r][u] = IF v = t /\ r = x /\ e.kind = "left" THEN "nothing"
                          ELSE heard[v][r][u]
    BY <1>4 DEF Understood
  <2>2. v = t /\ r = x /\ e.kind # "left" => r \notin rooms[v]
    BY <1>4 DEF Spoken, Event
  <2>3. v # t \/ r # x => r \notin rooms[v]
    BY <1>4 DEF Spoken
  <2> QED
    BY <1>0, <2>1, <2>2, <2>3
<1>5. ASSUME NEW t \in Socket, NEW x \in Room, Unnoticed(t, x)
      PROVE  heard'[v][r][u] = "nothing"
  BY <1>0, <1>5 DEF Unnoticed
<1>6. ASSUME NEW a \in Process, NEW b \in Process, Deliver(a, b)
      PROVE  heard'[v][r][u] = "nothing"
  <2>1. rooms' = rooms
    BY <1>6 DEF Deliver
  <2> QED
    BY <1>0, <1>6, <2>1, Delivers DEF Matched
<1>7. ASSUME NEW a \in Process, NEW b \in Process, Lose(a, b)
      PROVE  heard'[v][r][u] = "nothing"
  BY <1>0, <1>7 DEF Lose
<1>8. ASSUME NEW b \in Process, Bootstrap(b) PROVE heard'[v][r][u] = "nothing"
  BY <1>0, <1>8, Restarts
<1> QED
  BY <1>1, <1>2, <1>3, <1>4, <1>5, <1>6, <1>7, <1>8, Happens

(* Nobody has heard of a user whose only socket is not connected yet.       *)
Newcomers ==
    \A s \in OnlySockets : status[s] = "new" =>
        \A v \in Socket, r \in Room : heard[v][r][UserOf[s]] = "nothing"

LEMMA NewcomersStep ==
  ASSUME Matched, Origin, Newcomers, [Next]_vars PROVE Newcomers'
<1> USE SocketsAssumption
<1> SUFFICES ASSUME NEW s \in OnlySockets, status'[s] = "new",
                    NEW v \in Socket, NEW r \in Room
             PROVE  heard'[v][r][UserOf[s]] = "nothing"
  BY DEF Newcomers, OnlySockets
<1> DEFINE u == UserOf[s]
<1>a. u \in User /\ s \in Socket
  BY DEF OnlySockets
<1>b. status[s] = "new" => heard[v][r][u] = "nothing"
  BY DEF Newcomers
<1>c. \A t \in Socket : UserOf[t] = u => t = s
  BY DEF OnlySockets
<1> HIDE DEF u
<1> SUFFICES heard'[v][r][u] = "nothing"
  BY DEF u
<1>1. CASE UNCHANGED vars
  BY <1>1, <1>b DEF vars
<1>2. ASSUME NEW t \in Socket, HandleConnection(t) PROVE heard'[v][r][u] = "nothing"
  BY <1>2, <1>a, <1>b, Connects
<1>3. ASSUME NEW t \in Socket, HandleDisconnect(t) PROVE heard'[v][r][u] = "nothing"
  BY <1>3, <1>a, <1>b, Disconnects
<1>4. ASSUME NEW t \in Socket, NEW x \in Room, NEW e \in Event,
             Spoken(t, x, e), Understood(t, x, e)
      PROVE  heard'[v][r][u] = "nothing"
  <2>1. status[s] = "new" /\ t # s
    BY <1>4 DEF Spoken
  <2>2. u # UserOf[t]
    BY <1>c, <2>1
  <2> QED
    BY <1>4, <1>a, <1>b, <2>1, <2>2 DEF Understood
<1>5. ASSUME NEW t \in Socket, NEW x \in Room, Unnoticed(t, x)
      PROVE  heard'[v][r][u] = "nothing"
  BY <1>5, <1>a, <1>b DEF Unnoticed
<1>6. ASSUME NEW a \in Process, NEW b \in Process, Deliver(a, b)
      PROVE  heard'[v][r][u] = "nothing"
  <2>1. status' = status
    BY <1>6 DEF Deliver
  <2> DEFINE e == channel[a][b][1]
  <2>2. e \in Event /\ 1 \in 1..Len(channel[a][b])
    BY <1>6, Delivers DEF Matched
  <2>3. Traced(e, a, b)
    BY <2>2 DEF Origin
  <2>4. u # UserOf[e.from]
    BY <1>c, <2>1, <2>3 DEF Traced
  <2>5. heard'[v][r][u] = heard[v][r][u]
    BY <1>6, <1>a, <2>4, Delivers DEF Matched
  <2> QED
    BY <1>b, <2>1, <2>5
<1>7. ASSUME NEW a \in Process, NEW b \in Process, Lose(a, b)
      PROVE  heard'[v][r][u] = "nothing"
  BY <1>7, <1>b DEF Lose
<1>8. ASSUME NEW b \in Process, Bootstrap(b) PROVE heard'[v][r][u] = "nothing"
  BY <1>8, <1>a, <1>b, Restarts
<1> QED
  BY <1>1, <1>2, <1>3, <1>4, <1>5, <1>6, <1>7, <1>8, Happens

(* Once nothing about a socket is on its way, what has been heard is true,  *)
(* and whoever came or went has been heard of.                              *)
Right(word, in, seen) ==
    /\ word = "joined" => in
    /\ word = "left" => ~in
    /\ seen => word # "nothing"

HeardTells ==
    \A v, s \in Socket, r \in Room :
        Comparable(v, s, r) /\ Quiet(Pending(s, v), s, r)
            => Right(heard[v][r][UserOf[s]], r \in rooms[s], s \in moved[v][r])

LEMMA HeardTellsStep ==
  ASSUME Matched, Origin, LastTells, Present, Newcomers, HeardTells, [Next]_vars
  PROVE  HeardTells'
<1> USE SocketsAssumption
<1> SUFFICES ASSUME NEW v \in Socket, NEW s \in Socket, NEW r \in Room,
                    Comparable(v, s, r)', Quiet(Pending(s, v), s, r)'
             PROVE  Right(heard'[v][r][UserOf[s]], r \in rooms'[s], s \in moved'[v][r])
  BY DEF HeardTells, Right
<1> DEFINE u == UserOf[s]
           p == HomeOf[s]
           q == HomeOf[v]
           c == channel[p][q]
           d == channel'[p][q]
           Goal == Right(heard'[v][r][u], r \in rooms'[s], s \in moved'[v][r])
           Bound == p = q \/ (q \in Subscribers(p) /\ <<p, q>> \notin lossy)
<1>a. u \in User /\ p \in Process /\ q \in Process /\ c \in Seq(Event)
  BY DEF Matched, TypeOK
<1>b. s \in OnlySockets /\ \A t \in Socket : UserOf[t] = u => t = s
  BY DEF Comparable, OnlySockets
<1>c. /\ r \in rooms'[v] /\ status'[s] # "gone" /\ Quiet(d, s, r)
      /\ p = q \/ (q \in Subscribers(p)' /\ <<p, q>> \notin lossy')
  BY DEF Comparable, Linked, Pending
<1>d. r \in rooms[v] /\ status[s] # "gone" /\ Bound /\ Quiet(c, s, r)
        => Right(heard[v][r][u], r \in rooms[s], s \in moved[v][r])
  BY <1>b DEF HeardTells, Comparable, Linked, Pending
<1>f. p = q => c = <<>>
  BY DEF Origin
<1>m. s \in moved'[v][r] => /\ r \in rooms[v] /\ status'[s] = "connected"
                            /\ s \in moved[v][r] \/ ~(r \in rooms[s] <=> r \in rooms'[s])
  BY MovedStep
<1>n. r \notin rooms[v] => heard[v][r][u] = "nothing"
  BY <1>a DEF Present
<1>x. ASSUME r \notin rooms[v], heard'[v][r][u] = heard[v][r][u] PROVE Goal
  BY <1>m, <1>n, <1>x DEF Right
<1>y. ASSUME heard'[v][r][u] \in {"joined", "left"},
             heard'[v][r][u] = "joined" <=> r \in rooms'[s]
      PROVE  Goal
  BY <1>y DEF Right
<1> HIDE DEF u, p, q, Bound
<1> SUFFICES Goal
  BY DEF u
<1>e. ASSUME r \in rooms[v], status[s] # "gone", Bound, Quiet(c, s, r),
             heard'[v][r][u] = heard[v][r][u], r \in rooms'[s] <=> r \in rooms[s]
      PROVE  Goal
  BY <1>d, <1>e, <1>m DEF Right
<1> HIDE DEF Goal
<1>1. CASE UNCHANGED vars
  BY <1>1, <1>c, <1>e DEF vars, Bound, Subscribers
<1>2. ASSUME NEW t \in Socket, HandleConnection(t) PROVE Goal
  <2>1. UNCHANGED <<adapter, rooms, channel, lossy, heard>> /\ status[s] # "gone"
    BY <1>2, <1>c, Connects
  <2> QED
    BY <1>c, <1>e, <2>1 DEF Bound, Subscribers
<1>3. ASSUME NEW t \in Socket, HandleDisconnect(t) PROVE Goal
  <2>1. t # s /\ t # v
    BY <1>3, <1>c, Disconnects
  <2> QED
    BY <1>3, <1>a, <1>c, <1>e, <2>1, Disconnects DEF Bound, Subscribers
<1>4. ASSUME NEW t \in Socket, NEW x \in Room, NEW e \in Event,
             Spoken(t, x, e), Understood(t, x, e)
      PROVE  Goal
  <2>1. /\ e.from = t /\ e.room = x /\ UNCHANGED <<adapter, status, lossy>>
        /\ e.kind \in {"joined", "left", "update", "stray"}
        /\ \A w \in Socket \ {t} : rooms'[w] = rooms[w]
        /\ \A y \in Room \ {x} : y \in rooms'[t] <=> y \in rooms[t]
        /\ e.kind = "joined" => x \in rooms'[t]
        /\ e.kind = "left" => x \notin rooms'[t]
        /\ e.kind \in {"update", "stray"} => rooms' = rooms
        /\ d = IF p = HomeOf[t] /\ q \in Subscribers(p) THEN Append(c, e) ELSE c
    BY <1>4, <1>a DEF Spoken, Event
  <2>2. Bound /\ status[s] # "gone"
    BY <1>c, <2>1 DEF Bound, Subscribers
  <2>3. heard'[v][r][u] =
            IF /\ e.kind \in {"joined", "left"} /\ q = HomeOf[t] /\ x \in rooms'[v]
               /\ r = x /\ u = UserOf[t]
            THEN e.kind
            ELSE IF v = t /\ r = x /\ e.kind = "left" THEN "nothing" ELSE heard[v][r][u]
    BY <1>4, <1>a DEF Understood, q
  <2>4. ~About(e, s, r) => Quiet(c, s, r)
    <3> HIDE DEF c, d
    <3>1. CASE d = Append(c, e)
      BY <1>a, <1>c, <3>1, AfterAppend, Zenon
    <3>2. CASE d = c
      BY <1>c, <3>2
    <3> QED
      BY <2>1, <3>1, <3>2
  <2>5. CASE About(e, s, r)
    <3>1. t = s /\ x = r /\ e.kind \in {"joined", "left"}
      BY <2>1, <2>5, AboutIs
    <3>2. p = q
      <4>1. SUFFICES ASSUME p # q PROVE FALSE
        OBVIOUS
      <4>2. d = Append(c, e)
        BY <2>1, <2>2, <3>1, <4>1 DEF Bound, p
      <4> HIDE DEF c, d
      <4> QED
        BY <1>a, <1>c, <2>5, <4>2, AfterAppend, Zenon
    <3>3. heard'[v][r][u] = e.kind
      BY <1>c, <2>3, <3>1, <3>2 DEF u, p
    <3> QED
      BY <1>y, <2>1, <3>1, <3>3
  <2>6. CASE t = s /\ ~About(e, s, r)
    <3>1. x # r \/ e.kind \in {"update", "stray"}
      BY <2>1, <2>6, AboutIs
    <3>2. /\ r \in rooms'[s] <=> r \in rooms[s]
          /\ r \in rooms[v]
      BY <1>c, <2>1, <2>6, <3>1
    <3>3. heard'[v][r][u] = heard[v][r][u]
      BY <1>c, <2>1, <2>3, <2>6, <3>1
    <3> QED
      BY <1>e, <2>2, <2>4, <2>6, <3>2, <3>3
  <2>7. CASE t # s
    <3>1. u # UserOf[t] /\ ~About(e, s, r) /\ rooms'[s] = rooms[s]
      BY <1>b, <2>1, <2>7, AboutIs
    <3>2. heard'[v][r][u] = heard[v][r][u]
      BY <1>c, <2>1, <2>3, <3>1
    <3> QED
      BY <1>e, <1>x, <2>2, <2>4, <3>1, <3>2
  <2> QED
    BY <2>5, <2>6, <2>7
<1>5. ASSUME NEW t \in Socket, NEW x \in Room, Unnoticed(t, x) PROVE Goal
  <2>1. heard'[v][r][u] = heard[v][r][u]
    BY <1>5, <1>a, <1>c DEF Unnoticed
  <2>2. UNCHANGED <<adapter, status, lossy, channel, rooms>>
    BY <1>5 DEF Unnoticed
  <2> QED
    BY <1>c, <1>e, <2>1, <2>2 DEF Bound, Subscribers
<1>6. ASSUME NEW a \in Process, NEW b \in Process, Deliver(a, b) PROVE Goal
  <2> DEFINE e == channel[a][b][1]
  <2>1. UNCHANGED <<adapter, status, rooms, lossy>>
    BY <1>6 DEF Deliver
  <2>2. /\ e \in Event /\ 1 \in 1..Len(channel[a][b]) /\ channel[a][b] # <<>>
        /\ d = IF p = a /\ q = b THEN Tail(c) ELSE c
        /\ heard'[v][r][u] =
             IF /\ e.kind \in {"joined", "left"} /\ q = b
                /\ e.room \in rooms[v] /\ r = e.room /\ u = UserOf[e.from]
             THEN e.kind ELSE heard[v][r][u]
    <3>1. channel[a][b] # <<>>
      BY <1>6 DEF Deliver
    <3> HIDE DEF e
    <3>2. TypeOK
      BY DEF Matched
    <3> QED
      BY <1>6, <1>a, <3>1, <3>2, Delivers DEF e, q
  <2>3. e.from \in Socket /\ HomeOf[e.from] = a
    BY <2>2 DEF Origin, Traced
  <2>4. Bound /\ status[s] # "gone" /\ r \in rooms[v] /\ rooms'[s] = rooms[s]
    BY <1>c, <2>1 DEF Bound, Subscribers
  <2>5. About(e, s, r) <=> e.kind \in {"joined", "left"} /\ e.from = s /\ e.room = r
    BY <2>2, AboutIs
  <2>6. CASE ~(p = a /\ q = b)
    <3>1. d = c
      BY <2>2, <2>6
    <3>2. heard'[v][r][u] = heard[v][r][u]
      BY <1>b, <2>2, <2>3, <2>6 DEF p
    <3> QED
      BY <1>c, <1>e, <2>4, <3>1, <3>2
  <2>7. CASE p = a /\ q = b
    <3>1. d = Tail(c) /\ c # <<>> /\ e = c[1]
      BY <2>2, <2>7
    <3>2. CASE About(e, s, r)
      <4>1. heard'[v][r][u] = e.kind
        BY <2>2, <2>4, <2>5, <2>7, <3>2 DEF u
      <4>2. Last(c, s, r, e.kind)
        <5> HIDE DEF c, d, e
        <5>1. About(c[1], s, r)
          BY <3>1, <3>2
        <5>2. Last(c, s, r, c[1].kind)
          BY <1>a, <1>c, <3>1, <5>1, AfterTail, Zenon
        <5> QED
          BY <3>1, <5>2
      <4>3. e.kind = "joined" <=> r \in rooms[s]
        BY <1>a, <2>4, <4>2 DEF LastTells, Tells, p
      <4> QED
        BY <1>y, <2>4, <2>5, <3>2, <4>1, <4>3
    <3>3. CASE ~About(e, s, r)
      <4>1. Quiet(c, s, r)
        <5> HIDE DEF c, d, e
        <5>1. ~About(c[1], s, r)
          BY <3>1, <3>3
        <5> QED
          BY <1>a, <1>c, <3>1, <5>1, AfterTail, Zenon
      <4>2. heard'[v][r][u] = heard[v][r][u]
        BY <1>b, <2>2, <2>3, <2>5, <3>3
      <4> QED
        BY <1>e, <2>4, <4>1, <4>2
    <3> QED
      BY <3>2, <3>3
  <2> QED
    BY <2>6, <2>7
<1>7. ASSUME NEW a \in Process, NEW b \in Process, Lose(a, b) PROVE Goal
  <2>1. /\ channel[a][b] # <<>> /\ lossy' = lossy \cup {<<a, b>>}
        /\ d = IF p = a /\ q = b THEN Tail(c) ELSE c
        /\ UNCHANGED <<adapter, status, rooms, heard>>
    BY <1>7, <1>a, Loses
  <2>2. ~(p = a /\ q = b)
    BY <1>c, <1>f, <2>1
  <2> QED
    BY <1>c, <1>e, <2>1, <2>2 DEF Bound, Subscribers
<1>8. ASSUME NEW b \in Process, Bootstrap(b) PROVE Goal
  <2>1. q # b
    BY <1>8, <1>c, Restarts DEF q
  <2>2. heard'[v][r][u] = heard[v][r][u] /\ d = c /\ lossy' = lossy
        /\ rooms'[v] = rooms[v]
    BY <1>8, <1>a, <2>1, Restarts DEF q
  <2>3. CASE p = b
    <3>1. status[s] = "new" /\ rooms'[s] = {}
      BY <1>8, <1>c, <2>3, Restarts DEF p
    <3>2. heard[v][r][u] = "nothing"
      BY <3>1, <1>b DEF Newcomers, u
    <3>3. s \notin moved'[v][r]
      BY <1>8, <1>m, <2>3, Restarts DEF p
    <3> QED
      BY <2>2, <3>2, <3>3 DEF Goal, Right
  <2>4. CASE p # b
    <3>1. status[s] # "gone" /\ rooms'[s] = rooms[s]
      BY <1>8, <1>c, <2>4, Restarts DEF p
    <3>2. adapter'[p] = adapter[p] /\ adapter'[q] = adapter[q]
      BY <1>8, <1>a, <2>1, <2>4, Restarts
    <3>3. Bound
      BY <1>c, <2>2, <3>2 DEF Bound, Subscribers
    <3> QED
      BY <1>c, <1>e, <2>2, <3>1, <3>3
  <2> QED
    BY <2>3, <2>4
<1> QED
  BY <1>1, <1>2, <1>3, <1>4, <1>5, <1>6, <1>7, <1>8, Happens

-----------------------------------------------------------------------------
Sound == Matched /\ Origin /\ LastTells /\ Present /\ Newcomers /\ HeardTells

LEMMA SoundInvariant == Spec => []Sound
<1>2. ASSUME Init PROVE Origin /\ LastTells /\ Present /\ Newcomers /\ HeardTells
  <2>1. /\ \A p, q \in Process : channel[p][q] = <<>>
        /\ \A s \in Socket : rooms[s] = {}
        /\ \A v \in Socket, r \in Room, u \in User : heard[v][r][u] = "nothing"
        /\ \A v \in Socket, r \in Room : moved[v][r] = {}
    BY <1>2 DEF Init, Unknown, Blank
  <2>2. Origin
    BY <2>1 DEF Origin
  <2>3. LastTells
    BY <2>1, SocketsAssumption DEF LastTells, Tells, Last
  <2>4. Newcomers /\ Present
    BY <2>1, SocketsAssumption DEF Newcomers, Present, OnlySockets
  <2>5. HeardTells
    BY <2>1, SocketsAssumption DEF HeardTells, Comparable
  <2> QED
    BY <2>2, <2>3, <2>4, <2>5
<1>3. Sound /\ [Next]_vars => Sound'
  BY MatchedStep, OriginStep, LastTellsStep, PresentStep, NewcomersStep, HeardTellsStep
  DEF Sound
<1> QED
  BY <1>2, <1>3, MatchedInit, PTL DEF Spec, Sound

(* The word that LastWord looks for is the last message, or what was heard. *)
LEMMA WordIs ==
  ASSUME Matched, NEW v \in Socket, NEW s \in Socket, NEW r \in Room,
         NEW n \in 0..Len(Pending(s, v))
  PROVE  LET c == Pending(s, v) IN
         \/ /\ \A i \in 1..n : ~About(c[i], s, r)
            /\ LastWord(v, s, r, n) = heard[v][r][UserOf[s]]
         \/ \E k \in 1..n : /\ About(c[k], s, r) /\ LastWord(v, s, r, n) = c[k].kind
                            /\ \A j \in 1..n : j > k => ~About(c[j], s, r)
<1> DEFINE c == Pending(s, v)
           news == {i \in 1..n : About(c[i], s, r)}
<1>1. n \in Nat
  BY SocketsAssumption DEF Pending, Matched, TypeOK
<1>2. LastWord(v, s, r, n) = IF news = {} THEN heard[v][r][UserOf[s]]
                             ELSE c[CHOOSE i \in news : \A j \in news : j <= i].kind
  BY DEF LastWord
<1>3. news \subseteq 1..n
  OBVIOUS
<1>4. \A i \in 1..n : i \in news <=> About(c[i], s, r)
  OBVIOUS
<1> HIDE DEF news, c
<1>5. CASE news = {}
  <2>1. LastWord(v, s, r, n) = heard[v][r][UserOf[s]]
    BY <1>2, <1>5
  <2>2. \A i \in 1..n : ~About(c[i], s, r)
    BY <1>4, <1>5
  <2> QED
    BY <2>1, <2>2 DEF c
<1>6. CASE news # {}
  <2>1. \E i \in news : \A j \in news : j <= i
    BY <1>1, <1>3, <1>6, Greatest, Zenon
  <2>2. PICK k : /\ k = CHOOSE i \in news : \A j \in news : j <= i
                 /\ k \in news /\ \A j \in news : j <= k
    BY <2>1
  <2>3. LastWord(v, s, r, n) = c[k].kind
    BY <1>2, <1>6, <2>2
  <2>4. k \in 1..n /\ About(c[k], s, r) /\ \A j \in 1..n : j > k => ~About(c[j], s, r)
    <3>1. k \in 1..n /\ About(c[k], s, r)
      BY <1>3, <1>4, <2>2
    <3>2. ASSUME NEW j \in 1..n, j > k PROVE ~About(c[j], s, r)
      <4>1. ~(j <= k)
        BY <1>1, <3>1, <3>2
      <4>2. j \notin news
        BY <2>2, <4>1
      <4> QED
        BY <1>4, <4>2
    <3> QED
      BY <3>1, <3>2
  <2> QED
    BY <2>3, <2>4 DEF c
<1> QED
  BY <1>5, <1>6

LEMMA SoundIsTrue == Sound => PresenceIsTrue
<1> USE SocketsAssumption DEF Sound
<1> SUFFICES ASSUME Sound, NEW v \in Socket, NEW s \in Socket, NEW r \in Room,
                    Comparable(v, s, r)
             PROVE  Right(LastWord(v, s, r, Len(Pending(s, v))),
                          r \in rooms[s], s \in moved[v][r])
  BY DEF PresenceIsTrue, Right, OnlySockets
<1> DEFINE c == Pending(s, v)
<1>1. c \in Seq(Event) /\ HomeOf[s] \in Process /\ HomeOf[v] \in Process
  BY DEF Matched, TypeOK, Pending
<1>2. Len(c) \in 0..Len(c) /\ \A i \in 1..Len(c) : c[i] \in Event
  BY <1>1
<1>3. CASE \A i \in 1..Len(c) : ~About(c[i], s, r)
  <2>1. LastWord(v, s, r, Len(c)) = heard[v][r][UserOf[s]]
    BY <1>2, <1>3, WordIs
  <2> QED
    BY <1>3, <2>1 DEF HeardTells, Quiet
<1>4. CASE \E k \in 1..Len(c) : /\ About(c[k], s, r)
                                /\ LastWord(v, s, r, Len(c)) = c[k].kind
                                /\ \A j \in 1..Len(c) : j > k => ~About(c[j], s, r)
  <2>1. PICK k \in 1..Len(c) : /\ About(c[k], s, r)
                               /\ LastWord(v, s, r, Len(c)) = c[k].kind
                               /\ \A j \in 1..Len(c) : j > k => ~About(c[j], s, r)
    BY <1>4
  <2>2. Last(c, s, r, c[k].kind)
    BY <2>1 DEF Last
  <2>3. c[k].kind = "joined" <=> r \in rooms[s]
    BY <1>1, <2>2 DEF LastTells, Tells, Pending, Comparable
  <2>4. c[k].kind \in {"joined", "left"}
    BY <1>2, <2>1, AboutIs
  <2> QED
    BY <2>1, <2>3, <2>4 DEF Right
<1> QED
  BY <1>2, <1>3, <1>4, WordIs

(* What a socket is told, since it came into a room, of who comes and goes  *)
(* there is complete, and right but for what is on its way, for any number  *)
(* of processes, sockets and rooms, and any number of messages.             *)
THEOREM PresenceIsRight == Spec => []PresenceIsTrue
  BY SoundInvariant, SoundIsTrue, PTL

-----------------------------------------------------------------------------
(* How members get known.  That they do, MembersGetKnown, needs fairness    *)
(* and is checked by TLC; what is proved is that whoever v has not heard of *)
(* is on its way to it, and what every step does to the distance.          *)

ComingAt(v, s, r, n) ==
    n \in 1..Len(Pending(s, v)) /\ Pending(s, v)[n] = News("joined", s, r)

Awaited(v, s, r) == Comparable(v, s, r) /\ r \in rooms[s] /\ s \in moved[v][r]

MembersAreComing ==
    \A v, s \in Socket, r \in Room :
        Awaited(v, s, r) => \/ heard[v][r][UserOf[s]] = "joined"
                            \/ \E n \in Nat : ComingAt(v, s, r, n)

MembersComeCloser ==
    \A v, s \in Socket, r \in Room, n \in Nat :
        Awaited(v, s, r) /\ ComingAt(v, s, r, n) =>
            \/ ~Awaited(v, s, r)'
            \/ heard'[v][r][UserOf[s]] = "joined"
            \/ n > 1 /\ ComingAt(v, s, r, n - 1)'
            \/ ComingAt(v, s, r, n)' /\ ~Deliver(HomeOf[s], HomeOf[v])

(* Who has come into a room and is not yet known to somebody who was there  *)
(* has been announced to it, and the announcement is still under way: none  *)
(* is ever dropped.                                                         *)
THEOREM NobodyIsForgotten == Spec => []MembersAreComing
<1>1. ASSUME Sound, PresenceIsTrue PROVE MembersAreComing
  <2> SUFFICES ASSUME NEW v \in Socket, NEW s \in Socket, NEW r \in Room,
                      Awaited(v, s, r), heard[v][r][UserOf[s]] # "joined"
               PROVE  \E n \in Nat : ComingAt(v, s, r, n)
    BY DEF MembersAreComing
  <2> DEFINE c == Pending(s, v)
  <2>1. c \in Seq(Event)
    BY <1>1, SocketsAssumption DEF Sound, Matched, TypeOK, Pending
  <2>2. Len(c) \in 0..Len(c)
    BY <2>1
  <2>3. LastWord(v, s, r, Len(c)) \notin {"left", "nothing"}
    BY <1>1 DEF PresenceIsTrue, Awaited, Comparable
  <2>4. heard[v][r][UserOf[s]] \in Words
    BY <1>1, SocketsAssumption DEF Sound, Matched, TypeOK
  <2>5. PICK k \in 1..Len(c) : About(c[k], s, r) /\ LastWord(v, s, r, Len(c)) = c[k].kind
    BY <1>1, <2>2, <2>3, <2>4, WordIs DEF Sound, Words
  <2>6. c[k] = News("joined", s, r)
    BY <2>3, <2>5 DEF About, News
  <2> QED
    BY <2>1, <2>6 DEF ComingAt
<1> QED
  BY <1>1, SoundInvariant, PresenceIsRight, PTL

LEMMA CloserStep == ASSUME Sound, [Next]_vars PROVE MembersComeCloser
<1> USE SocketsAssumption DEF Sound
<1> SUFFICES ASSUME NEW v \in Socket, NEW s \in Socket, NEW r \in Room, NEW n \in Nat,
                    Awaited(v, s, r), Awaited(v, s, r)', ComingAt(v, s, r, n)
             PROVE  \/ heard'[v][r][UserOf[s]] = "joined"
                    \/ n > 1 /\ ComingAt(v, s, r, n - 1)'
                    \/ ComingAt(v, s, r, n)' /\ ~Deliver(HomeOf[s], HomeOf[v])
  BY DEF MembersComeCloser
<1> DEFINE p == HomeOf[s]
           q == HomeOf[v]
           c == channel[p][q]
           d == channel'[p][q]
           Goal == \/ heard'[v][r][UserOf[s]] = "joined"
                   \/ n > 1 /\ n - 1 \in 1..Len(d) /\ d[n - 1] = News("joined", s, r)
                   \/ /\ n \in 1..Len(d) /\ d[n] = News("joined", s, r)
                      /\ ~Deliver(p, q)
<1>a. p \in Process /\ q \in Process /\ c \in Seq(Event)
  BY DEF Matched, TypeOK
<1>b. /\ n \in 1..Len(c) /\ c[n] = News("joined", s, r)
      /\ r \in rooms[v] /\ r \in rooms'[v]
      /\ p # q => <<p, q>> \notin lossy'
  BY DEF ComingAt, Awaited, Comparable, Linked, Pending
<1>c. p # q /\ c # <<>>
  BY <1>a, <1>b DEF Origin
<1> SUFFICES Goal
  BY DEF ComingAt, Pending
<1>1. CASE Deliver(p, q)
  <2>1. d = Tail(c)
    BY <1>1, <1>a, Delivers DEF Matched
  <2>2. CASE n = 1
    <3>1. c[1].kind = "joined" /\ c[1].room = r /\ c[1].from = s
      BY <1>b, <2>2, Told
    <3>2. heard'[v][r][UserOf[s]] = "joined"
      <4> HIDE DEF c
      <4>1. TypeOK /\ UserOf[s] \in User
        BY DEF Matched
      <4> QED
        BY <1>1, <1>a, <1>b, <3>1, <4>1, Delivers DEF c
    <3> QED
      BY <3>2
  <2>3. CASE n # 1
    <3>1. n > 1 /\ n - 1 \in 1..Len(d) /\ d[n - 1] = c[n]
      BY <1>a, <1>b, <1>c, <2>1, <2>3, Tailed
    <3> QED
      BY <1>b, <3>1
  <2> QED
    BY <2>2, <2>3
<1>2. CASE ~Deliver(p, q)
  <2>1. ASSUME NEW e \in Event, d = Append(c, e) PROVE Goal
    BY <1>2, <1>a, <1>b, <2>1, Appended
  <2>2. ASSUME d = c PROVE Goal
    BY <1>2, <1>b, <2>2
  <2>3. CASE UNCHANGED channel
    BY <2>2, <2>3
  <2>4. ASSUME NEW t \in Socket, NEW x \in Room, NEW e \in Event, Spoken(t, x, e)
        PROVE  Goal
    BY <1>a, <2>1, <2>2, <2>4 DEF Spoken
  <2>5. ASSUME NEW a \in Process, NEW b \in Process, Deliver(a, b) PROVE Goal
    BY <1>2, <1>a, <2>2, <2>5, Delivers DEF Matched
  <2>6. ASSUME NEW a \in Process, NEW b \in Process, Lose(a, b) PROVE Goal
    BY <1>a, <1>b, <1>c, <2>2, <2>6, Loses
  <2>7. ASSUME NEW b \in Process, Bootstrap(b) PROVE Goal
    BY <1>a, <1>b, <2>2, <2>7, Restarts
  <2>8. ASSUME NEW t \in Socket, HandleConnection(t) \/ HandleDisconnect(t) PROVE Goal
    BY <2>3, <2>8 DEF HandleConnection, HandleDisconnect
  <2>9. ASSUME NEW t \in Socket, NEW x \in Room, Unnoticed(t, x) PROVE Goal
    BY <2>3, <2>9 DEF Unnoticed
  <2> HIDE DEF Goal
  <2> QED
    BY <2>3, <2>4, <2>5, <2>6, <2>7, <2>8, <2>9, Happens DEF vars
<1> QED
  BY <1>1, <1>2

(* The announcement comes closer with every delivery between the two        *)
(* processes, nothing pushes it back, and the last delivery is heard.      *)
THEOREM AnnouncementsArrive == Spec => [][MembersComeCloser]_vars
<1>1. Sound /\ [Next]_vars => [MembersComeCloser]_vars
  BY CloserStep
<1> QED
  BY <1>1, SoundInvariant, PTL DEF Spec

-----------------------------------------------------------------------------
(* Ghosts: users with any number of sockets, for whom heard may well be     *)
(* wrong about who has left.  Why v may take the user of t to be in r:      *)

Accounts(t, v, r) ==
    \/ r \in rooms[t] \/ ~Quiet(Pending(t, v), t, r)
    \/ status[t] = "gone"
    \/ status[t] = "connected" /\ ~Linked(t, v)

Explained ==
    \A v \in Socket, r \in Room, u \in User :
        r \in rooms[v] /\ heard[v][r][u] = "joined" =>
            \E t \in Socket : UserOf[t] = u /\ Accounts(t, v, r)

(* Whoever is heard of was before, has just come, or is being heard of.     *)
LEMMA HeardNow ==
  ASSUME Matched, Origin, Present, [Next]_vars, NEW v \in Socket, NEW r \in Room, NEW u \in User,
         r \in rooms'[v], heard'[v][r][u] = "joined"
  PROVE  \/ r \in rooms[v] /\ heard[v][r][u] = "joined"
         \/ \E t \in Socket : UserOf[t] = u /\ (Accounts(t, v, r) \/ r \in rooms'[t])
<1> USE SocketsAssumption
<1> DEFINE Goal == \/ r \in rooms[v] /\ heard[v][r][u] = "joined"
                   \/ \E t \in Socket : UserOf[t] = u /\ (Accounts(t, v, r) \/ r \in rooms'[t])
<1> SUFFICES Goal
  OBVIOUS
<1>n. heard[v][r][u] = "joined" => r \in rooms[v]
  BY DEF Present
<1>1. CASE UNCHANGED vars
  BY <1>1 DEF vars
<1>2. ASSUME NEW t \in Socket, HandleConnection(t) PROVE Goal
  BY <1>2, Connects
<1>3. ASSUME NEW t \in Socket, HandleDisconnect(t) PROVE Goal
  <2>1. t # v
    BY <1>3, Disconnects
  <2> QED
    BY <1>3, <2>1, Disconnects
<1>4. ASSUME NEW t \in Socket, NEW x \in Room, NEW e \in Event,
             Spoken(t, x, e), Understood(t, x, e)
      PROVE  Goal
  <2>1. /\ e.kind \in {"joined", "left", "update", "stray"}
        /\ \A w \in Socket \ {t} : rooms'[w] = rooms[w]
        /\ \A y \in Room \ {x} : y \in rooms'[t] <=> y \in rooms[t]
        /\ e.kind = "joined" => x \in rooms'[t]
        /\ e.kind = "left" => x \notin rooms'[t]
        /\ e.kind \in {"update", "stray"} => rooms' = rooms
    BY <1>4 DEF Spoken, Event
  <2>2. CASE /\ e.kind \in {"joined", "left"} /\ HomeOf[v] = HomeOf[t]
             /\ x \in rooms'[v] /\ r = x /\ u = UserOf[t]
    <3>1. heard'[v][r][u] = e.kind
      BY <1>4, <2>2 DEF Understood
    <3> QED
      BY <2>1, <2>2, <3>1
  <2>3. CASE ~ (/\ e.kind \in {"joined", "left"} /\ HomeOf[v] = HomeOf[t]
                /\ x \in rooms'[v] /\ r = x /\ u = UserOf[t])
    <3>1. heard'[v][r][u] \in {"nothing", heard[v][r][u]}
      BY <1>4, <2>3 DEF Understood
    <3> QED
      BY <1>n, <3>1
  <2> QED
    BY <2>2, <2>3
<1>5. ASSUME NEW t \in Socket, NEW x \in Room, Unnoticed(t, x) PROVE Goal
  BY <1>5 DEF Unnoticed
<1>6. ASSUME NEW a \in Process, NEW b \in Process, Deliver(a, b) PROVE Goal
  <2> DEFINE e == channel[a][b][1]
  <2>1. /\ e \in Event /\ 1 \in 1..Len(channel[a][b]) /\ rooms' = rooms
        /\ heard'[v][r][u] =
             IF /\ e.kind \in {"joined", "left"} /\ HomeOf[v] = b
                /\ e.room \in rooms[v] /\ r = e.room /\ u = UserOf[e.from]
             THEN e.kind ELSE heard[v][r][u]
    <3> HIDE DEF e
    <3>1. TypeOK /\ rooms' = rooms
      BY <1>6 DEF Matched, Deliver
    <3> QED
      BY <1>6, <3>1, Delivers DEF e
  <2>2. e.from \in Socket /\ HomeOf[e.from] = a
    BY <2>1 DEF Origin, Traced
  <2>3. CASE heard'[v][r][u] # heard[v][r][u]
    <3>1. /\ e.kind \in {"joined", "left"} /\ HomeOf[v] = b /\ r = e.room
          /\ u = UserOf[e.from]
      BY <2>1, <2>3
    <3>2. About(e, e.from, r)
      BY <2>1, <3>1, AboutIs
    <3>3. Accounts(e.from, v, r)
      BY <2>1, <2>2, <3>1, <3>2 DEF Accounts, Quiet, Pending
    <3> QED
      BY <2>2, <3>1, <3>3
  <2> QED
    BY <2>1, <2>3
<1>7. ASSUME NEW a \in Process, NEW b \in Process, Lose(a, b) PROVE Goal
  BY <1>7 DEF Lose
<1>8. ASSUME NEW b \in Process, Bootstrap(b) PROVE Goal
  <2>1. HomeOf[v] # b
    BY <1>8, Restarts
  <2> QED
    BY <1>8, <2>1, Restarts
<1> HIDE DEF Goal
<1> QED
  BY <1>1, <1>2, <1>3, <1>4, <1>5, <1>6, <1>7, <1>8, Happens

(* And one reason takes the place of the other: who leaves is announced,    *)
(* and the announcement is heard, under way, lost, or cut off.             *)
LEMMA AccountsStep ==
  ASSUME Matched, Origin, LastTells, [Next]_vars,
         NEW v \in Socket, NEW r \in Room, NEW t \in Socket,
         r \in rooms'[v], heard'[v][r][UserOf[t]] = "joined", Accounts(t, v, r)
  PROVE  Accounts(t, v, r)'
<1> USE SocketsAssumption
<1> DEFINE u == UserOf[t]
           p == HomeOf[t]
           q == HomeOf[v]
           c == channel[p][q]
           d == channel'[p][q]
           Bound == p = q \/ (q \in Subscribers(p) /\ <<p, q>> \notin lossy)
           Goal == \/ r \in rooms'[t] \/ ~Quiet(d, t, r)
                   \/ status'[t] = "gone"
                   \/ status'[t] = "connected" /\ ~Bound'
<1>a. u \in User /\ p \in Process /\ q \in Process /\ c \in Seq(Event)
  BY DEF Matched, TypeOK
<1>b. \/ r \in rooms[t] \/ ~Quiet(c, t, r)
      \/ status[t] = "gone"
      \/ status[t] = "connected" /\ ~Bound
  BY DEF Accounts, Pending, Linked
<1>c. heard'[v][r][u] # "left"
  OBVIOUS
<1>d. /\ r \in rooms[t] => status[t] = "connected"
      /\ ~Quiet(c, t, r) => status[t] # "new" /\ p # q
      /\ status[t] \in {"new", "connected", "gone"}
  BY <1>a, NewAreSilent DEF Matched, TypeOK
<1>e. Bound' <=> p = q \/ (q \in Subscribers(p)' /\ <<p, q>> \notin lossy')
  OBVIOUS
<1> SUFFICES Goal
  BY DEF Accounts, Pending, Linked
<1> HIDE DEF u, p, q, Bound
<1>1. CASE UNCHANGED vars
  BY <1>1, <1>b, <1>e DEF vars, Bound, Subscribers
<1>2. ASSUME NEW s \in Socket, HandleConnection(s) PROVE Goal
  <2>1. UNCHANGED <<adapter, rooms, channel, lossy>> /\ (status[t] # "new" => status'[t] = status[t])
    BY <1>2, Connects
  <2> QED
    BY <1>b, <1>d, <1>e, <2>1 DEF Bound, Subscribers
<1>3. ASSUME NEW s \in Socket, HandleDisconnect(s) PROVE Goal
  <2>1. UNCHANGED <<adapter, channel, lossy>>
    BY <1>3, Disconnects
  <2>2. status'[t] = "gone" \/ (rooms'[t] = rooms[t] /\ status'[t] = status[t])
    BY <1>3, Disconnects
  <2> QED
    BY <1>b, <1>e, <2>1, <2>2 DEF Bound, Subscribers
<1>4. ASSUME NEW s \in Socket, NEW x \in Room, NEW e \in Event,
             Spoken(s, x, e), Understood(s, x, e)
      PROVE  Goal
  <2>1. /\ e.from = s /\ e.room = x /\ UNCHANGED <<adapter, status, lossy>>
        /\ e.kind \in {"joined", "left", "update", "stray"}
        /\ \A w \in Socket \ {s} : rooms'[w] = rooms[w]
        /\ \A y \in Room \ {x} : y \in rooms'[s] <=> y \in rooms[s]
        /\ e.kind = "joined" => x \in rooms'[s]
        /\ e.kind \in {"update", "stray"} => rooms' = rooms
        /\ d = IF p = HomeOf[s] /\ q \in Subscribers(p) THEN Append(c, e) ELSE c
    BY <1>4, <1>a DEF Spoken, Event
  <2>2. Bound' <=> Bound
    BY <1>e, <2>1 DEF Bound, Subscribers
  <2>3. ~Quiet(c, t, r) => ~Quiet(d, t, r)
    <3> HIDE DEF c, d
    <3>1. CASE d = Append(c, e)
      BY <1>a, <3>1, AfterAppend, Zenon
    <3>2. CASE d = c
      BY <3>2
    <3> QED
      BY <2>1, <3>1, <3>2
  <2>4. CASE r \in rooms[t] /\ r \notin rooms'[t]
    <3>1. s = t /\ x = r /\ e.kind = "left"
      BY <2>1, <2>4
    <3>2. p # q
      BY <1>4, <1>a, <1>c, <3>1 DEF Understood, u, p, q
    <3>3. About(e, t, r)
      BY <2>1, <3>1, AboutIs
    <3>4. CASE q \in Subscribers(p)
      <4>1. d = Append(c, e)
        BY <2>1, <3>1, <3>4 DEF p
      <4> HIDE DEF c, d
      <4> QED
        BY <1>a, <3>3, <4>1, AfterAppend, Zenon
    <3>5. CASE q \notin Subscribers(p)
      BY <1>d, <2>1, <2>2, <2>4, <3>2, <3>5 DEF Bound
    <3> QED
      BY <3>4, <3>5
  <2> QED
    BY <1>b, <2>1, <2>2, <2>3, <2>4
<1>5. ASSUME NEW s \in Socket, NEW x \in Room, Unnoticed(s, x) PROVE Goal
  <2>1. UNCHANGED <<adapter, status, lossy, channel, rooms>>
    BY <1>5 DEF Unnoticed
  <2> QED
    BY <1>b, <1>e, <2>1 DEF Bound, Subscribers
<1>6. ASSUME NEW a \in Process, NEW b \in Process, Deliver(a, b) PROVE Goal
  <2> DEFINE e == channel[a][b][1]
  <2>1. UNCHANGED <<adapter, status, rooms, lossy>>
    BY <1>6 DEF Deliver
  <2>2. Bound' <=> Bound
    BY <1>e, <2>1 DEF Bound, Subscribers
  <2>3. /\ e \in Event /\ 1 \in 1..Len(channel[a][b]) /\ channel[a][b] # <<>>
        /\ d = IF p = a /\ q = b THEN Tail(c) ELSE c
        /\ heard'[v][r][u] =
             IF /\ e.kind \in {"joined", "left"} /\ q = b
                /\ e.room \in rooms[v] /\ r = e.room /\ u = UserOf[e.from]
             THEN e.kind ELSE heard[v][r][u]
    <3>1. channel[a][b] # <<>>
      BY <1>6 DEF Deliver
    <3> HIDE DEF e
    <3>2. TypeOK
      BY DEF Matched
    <3> QED
      BY <1>6, <1>a, <3>1, <3>2, Delivers DEF e, q
  <2>4. SUFFICES ASSUME status[t] = "connected", Bound, r \notin rooms[t], Quiet(d, t, r)
                 PROVE  FALSE
    BY <1>b, <1>d, <2>1, <2>2
  <2>5. ~Quiet(c, t, r)
    BY <1>b, <2>4
  <2>6. p = a /\ q = b /\ d = Tail(c) /\ c # <<>> /\ e = c[1]
    BY <2>3, <2>4, <2>5
  <2>7. About(c[1], t, r) /\ Last(c, t, r, c[1].kind)
    <3> HIDE DEF c, d, e
    <3> QED
      BY <1>a, <2>4, <2>5, <2>6, AfterTail, Zenon
  <2>8. e.kind \in {"joined", "left"} /\ e.from = t /\ e.room = r
    <3> HIDE DEF c, d, e
    <3> QED
      BY <2>3, <2>6, <2>7, AboutIs
  <2>9. heard'[v][r][u] = e.kind
    BY <2>1, <2>3, <2>6, <2>8 DEF u
  <2>10. c[1].kind = "joined" => r \in rooms[t]
    <3>1. Tells(t, q, r)
      BY <1>a, <2>4 DEF LastTells
    <3> QED
      BY <2>7, <3>1 DEF Tells, p
  <2> QED
    BY <1>c, <2>4, <2>6, <2>8, <2>9, <2>10
<1>7. ASSUME NEW a \in Process, NEW b \in Process, Lose(a, b) PROVE Goal
  <2>1. /\ lossy' = lossy \cup {<<a, b>>} /\ UNCHANGED <<adapter, status, rooms>>
        /\ d = IF p = a /\ q = b THEN Tail(c) ELSE c
    BY <1>7, <1>a, Loses
  <2>2. Bound' => Bound
    BY <1>e, <2>1 DEF Bound, Subscribers
  <2>3. CASE ~Quiet(c, t, r) /\ d # c
    <3>1. p = a /\ q = b /\ <<p, q>> \in lossy' /\ status[t] # "new" /\ p # q
      BY <1>d, <2>1, <2>3
    <3>2. ~Bound'
      BY <1>e, <3>1
    <3> QED
      BY <1>d, <2>1, <3>1, <3>2
  <2> QED
    BY <1>b, <2>1, <2>2, <2>3
<1>8. ASSUME NEW b \in Process, Bootstrap(b) PROVE Goal
  <2>1. q # b
    BY <1>8, Restarts DEF q
  <2>2. d = c /\ lossy' = lossy
    BY <1>8, <1>a, <2>1, Restarts
  <2>3. CASE p = b
    <3>1. status[t] # "new"
      BY <1>b, <1>d
    <3>2. status'[t] = "gone"
      BY <1>8, <2>3, <3>1, Restarts DEF p
    <3> QED
      BY <3>2
  <2>4. CASE p # b
    <3>1. rooms'[t] = rooms[t] /\ status'[t] = status[t]
      BY <1>8, <2>4, Restarts DEF p
    <3>2. adapter'[p] = adapter[p] /\ adapter'[q] = adapter[q]
      BY <1>8, <1>a, <2>1, <2>4, Restarts
    <3>3. Bound' <=> Bound
      BY <1>e, <2>2, <3>2 DEF Bound, Subscribers
    <3> QED
      BY <1>b, <2>2, <3>1, <3>3
  <2> QED
    BY <2>3, <2>4
<1> HIDE DEF Goal
<1> QED
  BY <1>1, <1>2, <1>3, <1>4, <1>5, <1>6, <1>7, <1>8, Happens

LEMMA ExplainedStep ==
  ASSUME Matched, Origin, LastTells, Present, Explained, [Next]_vars PROVE Explained'
<1> SUFFICES ASSUME NEW v \in Socket, NEW r \in Room, NEW u \in User,
                    r \in rooms'[v], heard'[v][r][u] = "joined"
             PROVE  \E t \in Socket : UserOf[t] = u /\ Accounts(t, v, r)'
  BY DEF Explained
<1>1. PICK t \in Socket : UserOf[t] = u /\ (Accounts(t, v, r) \/ r \in rooms'[t])
  BY HeardNow DEF Explained
<1>2. CASE r \in rooms'[t]
  BY <1>1, <1>2 DEF Accounts
<1>3. CASE Accounts(t, v, r)
  BY <1>1, <1>3, AccountsStep
<1> QED
  BY <1>1, <1>2, <1>3

LEMMA ExplainedIs == Matched /\ Explained => NoGhosts
<1> SUFFICES ASSUME Matched, NEW v \in Socket, NEW t \in Socket, NEW r \in Room,
                    ~Quiet(Pending(t, v), t, r)
             PROVE  \E i \in DOMAIN Pending(t, v) : About(Pending(t, v)[i], t, r)
  BY DEF Explained, Accounts, NoGhosts
<1>1. Pending(t, v) \in Seq(Event)
  BY SocketsAssumption DEF Matched, TypeOK, Pending
<1> QED
  BY <1>1 DEF Quiet

(* The gateway leaves no ghosts behind, of users with several tabs either:  *)
(* though user:left names a user and not a socket, whoever is taken to be   *)
(* in a room is there, or is being heard of, or is gone or out of reach.   *)
THEOREM NobodyHaunts == Spec => []NoGhosts
<1>1. Init => Explained
  BY DEF Init, Explained
<1>2. Spec => []Explained
  BY <1>1, ExplainedStep, SoundInvariant, PTL DEF Spec, Sound
<1> QED
  BY <1>2, MatchedInvariant, ExplainedIs, PTL

-----------------------------------------------------------------------------
(* Updates, among the messages c on their way.                              *)

IsUpdate(e, s, r) == e = News("update", s, r)
IsLeft(e, s, r) == e = News("left", s, r)
IsJoined(e, s, r) == e = News("joined", s, r)

(* Between a "left" and a later update there is a "joined".                 *)
Rejoined(c, s, r) ==
    \A i, n \in 1..Len(c) :
        i < n /\ IsLeft(c[i], s, r) /\ IsUpdate(c[n], s, r)
            => \E k \in 1..Len(c) : i < k /\ k < n /\ IsJoined(c[k], s, r)

(* A "left" follows each update.                                            *)
Departs(c, s, r) ==
    \A n \in 1..Len(c) : IsUpdate(c[n], s, r)
        => \E m \in 1..Len(c) : n < m /\ IsLeft(c[m], s, r)

(* A "left" follows each update that nothing about its sender precedes.     *)
EarlyDeparts(c, s, r) ==
    \A n \in 1..Len(c) :
        IsUpdate(c[n], s, r) /\ (\A i \in 1..Len(c) : i < n => ~About(c[i], s, r))
            => \E m \in 1..Len(c) : n < m /\ IsLeft(c[m], s, r)

(* Something about its sender precedes each update.                         *)
Announced(c, s, r) ==
    \A n \in 1..Len(c) :
        IsUpdate(c[n], s, r) => \E i \in 1..Len(c) : i < n /\ About(c[i], s, r)

LEMMA Kinds ==
  ASSUME NEW e, NEW s, NEW r
  PROVE  /\ IsUpdate(e, s, r) => /\ e.kind = "update" /\ e.from = s /\ e.room = r
                                 /\ ~About(e, s, r) /\ ~IsLeft(e, s, r)
         /\ IsLeft(e, s, r) => e.kind = "left" /\ e.from = s
         /\ About(e, s, r) <=> IsJoined(e, s, r) \/ IsLeft(e, s, r)
<1>1. News("update", s, r).kind = "update" /\ News("left", s, r).kind = "left"
      /\ News("joined", s, r).kind = "joined"
  BY DEF News
<1>2. /\ News("update", s, r).from = s /\ News("update", s, r).room = r
      /\ News("left", s, r).from = s
  BY DEF News
<1>3. "update" # "left" /\ "update" # "joined"
  OBVIOUS
<1> QED
  BY <1>1, <1>2, <1>3 DEF IsUpdate, IsLeft, IsJoined, About

LEMMA NoUpdates ==
  ASSUME NEW c, NEW s, NEW r, \A i \in 1..Len(c) : c[i].from # s
  PROVE  /\ Rejoined(c, s, r) /\ Departs(c, s, r)
         /\ EarlyDeparts(c, s, r) /\ Announced(c, s, r)
  BY Kinds DEF Rejoined, Departs, EarlyDeparts, Announced

LEMMA DepartsEarly ==
  ASSUME NEW c, NEW s, NEW r, Departs(c, s, r)
  PROVE  EarlyDeparts(c, s, r)
  BY DEF Departs, EarlyDeparts

(* Of several messages about a socket there is a last one.                  *)
LEMMA LastExists ==
  ASSUME NEW c \in Seq(Event), NEW s, NEW r, NEW i \in 1..Len(c), About(c[i], s, r)
  PROVE  \E k \in 1..Len(c) : /\ i <= k /\ About(c[k], s, r) /\ Last(c, s, r, c[k].kind)
<1> DEFINE news == {j \in 1..Len(c) : About(c[j], s, r)}
<1>1. Len(c) \in Nat /\ news \subseteq 1..Len(c) /\ news # {} /\ i \in news
  OBVIOUS
<1>2. \A j \in 1..Len(c) : j \in news <=> About(c[j], s, r)
  OBVIOUS
<1> HIDE DEF news
<1>3. \E k \in news : \A j \in news : j <= k
  BY <1>1, Greatest, Zenon
<1>4. PICK k \in news : \A j \in news : j <= k
  BY <1>3
<1>5. k \in 1..Len(c) /\ i <= k /\ About(c[k], s, r)
  BY <1>1, <1>2, <1>4
<1>6. ASSUME NEW j \in 1..Len(c), j > k PROVE ~About(c[j], s, r)
  <2>1. ~(j <= k)
    BY <1>5, <1>6
  <2> QED
    BY <1>2, <1>4, <2>1
<1> QED
  BY <1>5, <1>6 DEF Last

LEMMA UpdatesAfterAppend ==
  ASSUME NEW c \in Seq(Event), NEW e \in Event, NEW d, d = Append(c, e), NEW s, NEW r
  PROVE  /\ Rejoined(c, s, r) /\ (IsUpdate(e, s, r) => ~Last(c, s, r, "left"))
              => Rejoined(d, s, r)
         /\ IsLeft(e, s, r) => Departs(d, s, r)
         /\ Departs(c, s, r) /\ ~IsUpdate(e, s, r) => Departs(d, s, r)
         /\ EarlyDeparts(c, s, r) /\ (IsUpdate(e, s, r) => ~Quiet(c, s, r))
              => EarlyDeparts(d, s, r)
         /\ Announced(c, s, r) /\ (IsUpdate(e, s, r) => ~Quiet(c, s, r))
              => Announced(d, s, r)
<1>1. /\ Len(d) = Len(c) + 1 /\ d[Len(c) + 1] = e
      /\ Len(c) \in Nat /\ \A i \in 1..Len(c) : d[i] = c[i]
  BY Appended
<1>2. \A i \in 1..Len(d) : i \in 1..Len(c) \/ i = Len(d)
  BY <1>1
<1>3. ASSUME Rejoined(c, s, r), IsUpdate(e, s, r) => ~Last(c, s, r, "left")
      PROVE  Rejoined(d, s, r)
  <2> SUFFICES ASSUME NEW i \in 1..Len(d), NEW n \in 1..Len(d), i < n,
                      IsLeft(d[i], s, r), IsUpdate(d[n], s, r)
               PROVE  \E k \in 1..Len(d) : i < k /\ k < n /\ IsJoined(d[k], s, r)
    BY DEF Rejoined
  <2>1. i \in 1..Len(c) /\ d[i] = c[i]
    BY <1>1
  <2>2. CASE n \in 1..Len(c)
    <3>1. \E k \in 1..Len(c) : i < k /\ k < n /\ IsJoined(c[k], s, r)
      BY <1>1, <1>3, <2>1, <2>2 DEF Rejoined
    <3> QED
      BY <1>1, <3>1
  <2>3. CASE n = Len(d)
    <3>1. ~Last(c, s, r, "left")
      BY <1>1, <1>3, <2>3
    <3>2. IsLeft(c[i], s, r) /\ About(c[i], s, r)
      BY <2>1, Kinds
    <3>3. PICK k \in 1..Len(c) : i <= k /\ About(c[k], s, r) /\ Last(c, s, r, c[k].kind)
      BY <2>1, <3>2, LastExists, Zenon
    <3>4. ~IsLeft(c[k], s, r)
      BY <3>1, <3>3, Kinds
    <3>5. IsJoined(c[k], s, r) /\ i # k
      BY <3>2, <3>3, <3>4, Kinds
    <3>6. k \in 1..Len(d) /\ d[k] = c[k] /\ i < k /\ k < n
      BY <1>1, <2>1, <2>3, <3>3, <3>5
    <3> QED
      BY <3>5, <3>6
  <2> QED
    BY <1>2, <2>2, <2>3
<1>4. ASSUME IsLeft(e, s, r) PROVE Departs(d, s, r)
  <2>1. IsLeft(d[Len(d)], s, r) /\ Len(d) \in 1..Len(d)
    BY <1>1, <1>4
  <2>2. \A n \in 1..Len(d) : IsUpdate(d[n], s, r) => n < Len(d)
    BY <1>1, <2>1, Kinds
  <2> QED
    BY <2>1, <2>2 DEF Departs
<1>5. ASSUME Departs(c, s, r), ~IsUpdate(e, s, r) PROVE Departs(d, s, r)
  <2> SUFFICES ASSUME NEW n \in 1..Len(d), IsUpdate(d[n], s, r)
               PROVE  \E m \in 1..Len(d) : n < m /\ IsLeft(d[m], s, r)
    BY DEF Departs
  <2>1. n \in 1..Len(c) /\ d[n] = c[n]
    BY <1>1, <1>2, <1>5
  <2>2. PICK m \in 1..Len(c) : n < m /\ IsLeft(c[m], s, r)
    BY <1>5, <2>1 DEF Departs
  <2> QED
    BY <1>1, <2>2
<1>6. ASSUME EarlyDeparts(c, s, r), IsUpdate(e, s, r) => ~Quiet(c, s, r)
      PROVE  EarlyDeparts(d, s, r)
  <2> SUFFICES ASSUME NEW n \in 1..Len(d), IsUpdate(d[n], s, r),
                      \A i \in 1..Len(d) : i < n => ~About(d[i], s, r)
               PROVE  \E m \in 1..Len(d) : n < m /\ IsLeft(d[m], s, r)
    BY DEF EarlyDeparts
  <2>1. n \in 1..Len(c)
    <3>1. SUFFICES ASSUME n = Len(d) PROVE FALSE
      BY <1>2
    <3>2. \A i \in 1..Len(c) : i \in 1..Len(d) /\ i < n /\ d[i] = c[i]
      BY <1>1, <3>1
    <3>3. Quiet(c, s, r)
      BY <3>2 DEF Quiet
    <3> QED
      BY <1>1, <1>6, <3>1, <3>3
  <2>2. d[n] = c[n] /\ \A i \in 1..Len(c) : i \in 1..Len(d) /\ d[i] = c[i]
    BY <1>1, <2>1
  <2>3. PICK m \in 1..Len(c) : n < m /\ IsLeft(c[m], s, r)
    BY <1>6, <2>1, <2>2 DEF EarlyDeparts
  <2> QED
    BY <2>2, <2>3
<1>7. ASSUME Announced(c, s, r), IsUpdate(e, s, r) => ~Quiet(c, s, r)
      PROVE  Announced(d, s, r)
  <2> SUFFICES ASSUME NEW n \in 1..Len(d), IsUpdate(d[n], s, r)
               PROVE  \E i \in 1..Len(d) : i < n /\ About(d[i], s, r)
    BY DEF Announced
  <2>1. PICK i \in 1..Len(c) : i < n /\ About(c[i], s, r)
    <3>1. CASE n \in 1..Len(c)
      BY <1>1, <1>7, <3>1 DEF Announced
    <3>2. CASE n = Len(d)
      BY <1>1, <1>7, <3>2 DEF Quiet
    <3> QED
      BY <1>2, <3>1, <3>2
  <2> QED
    BY <1>1, <2>1
<1> QED
  BY <1>3, <1>4, <1>5, <1>6, <1>7

LEMMA UpdatesAfterTail ==
  ASSUME NEW c \in Seq(Event), c # <<>>, NEW d, d = Tail(c), NEW s, NEW r
  PROVE  /\ Rejoined(c, s, r) => Rejoined(d, s, r)
         /\ Departs(c, s, r) => Departs(d, s, r)
         /\ EarlyDeparts(c, s, r) /\ ~About(c[1], s, r) => EarlyDeparts(d, s, r)
         /\ Rejoined(c, s, r) /\ IsLeft(c[1], s, r)
              => EarlyDeparts(d, s, r) /\ Announced(d, s, r)
         /\ Announced(c, s, r) /\ ~About(c[1], s, r) => Announced(d, s, r)
<1>1. /\ Len(d) = Len(c) - 1 /\ Len(c) \in Nat /\ Len(c) >= 1
      /\ \A i \in 1..Len(d) : d[i] = c[i + 1] /\ i + 1 \in 1..Len(c)
  BY Tailed
<1>2. \A j \in 1..Len(c) : j > 1 => j - 1 \in 1..Len(d) /\ d[j - 1] = c[j]
  BY <1>1
<1>3. ASSUME Rejoined(c, s, r) PROVE Rejoined(d, s, r)
  <2> SUFFICES ASSUME NEW i \in 1..Len(d), NEW n \in 1..Len(d), i < n,
                      IsLeft(d[i], s, r), IsUpdate(d[n], s, r)
               PROVE  \E k \in 1..Len(d) : i < k /\ k < n /\ IsJoined(d[k], s, r)
    BY DEF Rejoined
  <2>1. /\ i + 1 \in 1..Len(c) /\ n + 1 \in 1..Len(c) /\ i + 1 < n + 1
        /\ IsLeft(c[i + 1], s, r) /\ IsUpdate(c[n + 1], s, r)
    BY <1>1
  <2>2. PICK k \in 1..Len(c) : i + 1 < k /\ k < n + 1 /\ IsJoined(c[k], s, r)
    BY <1>3, <2>1 DEF Rejoined
  <2>3. k - 1 \in 1..Len(d) /\ d[k - 1] = c[k] /\ i < k - 1 /\ k - 1 < n
    BY <1>1, <1>2, <2>2
  <2> QED
    BY <2>2, <2>3
<1>4. ASSUME Departs(c, s, r) PROVE Departs(d, s, r)
  <2> SUFFICES ASSUME NEW n \in 1..Len(d), IsUpdate(d[n], s, r)
               PROVE  \E m \in 1..Len(d) : n < m /\ IsLeft(d[m], s, r)
    BY DEF Departs
  <2>1. n + 1 \in 1..Len(c) /\ IsUpdate(c[n + 1], s, r)
    BY <1>1
  <2>2. PICK m \in 1..Len(c) : n + 1 < m /\ IsLeft(c[m], s, r)
    BY <1>4, <2>1 DEF Departs
  <2>3. m - 1 \in 1..Len(d) /\ d[m - 1] = c[m] /\ n < m - 1
    BY <1>1, <1>2, <2>2
  <2> QED
    BY <2>2, <2>3
<1>5. ASSUME EarlyDeparts(c, s, r), ~About(c[1], s, r) PROVE EarlyDeparts(d, s, r)
  <2> SUFFICES ASSUME NEW n \in 1..Len(d), IsUpdate(d[n], s, r),
                      \A i \in 1..Len(d) : i < n => ~About(d[i], s, r)
               PROVE  \E m \in 1..Len(d) : n < m /\ IsLeft(d[m], s, r)
    BY DEF EarlyDeparts
  <2>1. n + 1 \in 1..Len(c) /\ IsUpdate(c[n + 1], s, r)
    BY <1>1
  <2>2. ASSUME NEW i \in 1..Len(c), i < n + 1 PROVE ~About(c[i], s, r)
    <3>1. CASE i = 1
      BY <1>5, <3>1
    <3>2. CASE i > 1
      <4>1. i - 1 \in 1..Len(d) /\ d[i - 1] = c[i] /\ i - 1 < n
        BY <1>1, <1>2, <2>2, <3>2
      <4> QED
        BY <4>1
    <3> QED
      BY <3>1, <3>2
  <2>3. PICK m \in 1..Len(c) : n + 1 < m /\ IsLeft(c[m], s, r)
    BY <1>5, <2>1, <2>2 DEF EarlyDeparts
  <2>4. m - 1 \in 1..Len(d) /\ d[m - 1] = c[m] /\ n < m - 1
    BY <1>1, <1>2, <2>3
  <2> QED
    BY <2>3, <2>4
<1>6. ASSUME Rejoined(c, s, r), IsLeft(c[1], s, r) PROVE Announced(d, s, r)
  <2> SUFFICES ASSUME NEW n \in 1..Len(d), IsUpdate(d[n], s, r)
               PROVE  \E i \in 1..Len(d) : i < n /\ About(d[i], s, r)
    BY DEF Announced
  <2>1. n + 1 \in 1..Len(c) /\ 1 \in 1..Len(c) /\ 1 < n + 1 /\ IsUpdate(c[n + 1], s, r)
    BY <1>1
  <2>2. PICK k \in 1..Len(c) : 1 < k /\ k < n + 1 /\ IsJoined(c[k], s, r)
    BY <1>6, <2>1 DEF Rejoined
  <2>3. k - 1 \in 1..Len(d) /\ d[k - 1] = c[k] /\ k - 1 < n
    BY <1>1, <1>2, <2>2
  <2>4. About(c[k], s, r)
    BY <2>2, Kinds
  <2> QED
    BY <2>3, <2>4
<1>7. Announced(d, s, r) => EarlyDeparts(d, s, r)
  BY DEF Announced, EarlyDeparts
<1>8. ASSUME Announced(c, s, r), ~About(c[1], s, r) PROVE Announced(d, s, r)
  <2> SUFFICES ASSUME NEW n \in 1..Len(d), IsUpdate(d[n], s, r)
               PROVE  \E i \in 1..Len(d) : i < n /\ About(d[i], s, r)
    BY DEF Announced
  <2>1. n + 1 \in 1..Len(c) /\ IsUpdate(c[n + 1], s, r)
    BY <1>1
  <2>2. PICK i \in 1..Len(c) : i < n + 1 /\ About(c[i], s, r)
    BY <1>8, <2>1 DEF Announced
  <2>3. i > 1
    BY <1>1, <1>8, <2>2
  <2>4. i - 1 \in 1..Len(d) /\ d[i - 1] = c[i] /\ i - 1 < n
    BY <1>1, <1>2, <2>2, <2>3
  <2> QED
    BY <2>2, <2>4
<1> QED
  BY <1>3, <1>4, <1>5, <1>6, <1>7, <1>8

Ordered ==
    \A p, q \in Process, s \in Socket, r \in Room : Rejoined(channel[p][q], s, r)

(* Who is not in a room any more has sent its "left" behind its updates.    *)
Departing ==
    \A s \in Socket, q \in Process, r \in Room :
        status[s] # "gone" /\ r \notin rooms[s] => Departs(channel[HomeOf[s]][q], s, r)

(* Before updates of s, v is told that it joined, if v saw it come, and     *)
(* again if v was told that it left.                                       *)
Introduces(word, seen, c, s, r) ==
    /\ seen => word = "joined" \/ EarlyDeparts(c, s, r)
    /\ word = "left" => Announced(c, s, r)

Introduced ==
    \A v, s \in Socket, r \in Room :
        Comparable(v, s, r) =>
            Introduces(heard[v][r][UserOf[s]], s \in moved[v][r], Pending(s, v), s, r)

(* How any step changes a channel.                                          *)
LEMMA ChannelStep ==
  ASSUME Matched, [Next]_vars, NEW p \in Process, NEW q \in Process
  PROVE  \/ channel'[p][q] = channel[p][q]
         \/ channel'[p][q] = <<>>
         \/ channel[p][q] # <<>> /\ channel'[p][q] = Tail(channel[p][q])
         \/ \E t \in Socket, x \in Room, e \in Event :
              Spoken(t, x, e) /\ p = HomeOf[t] /\ channel'[p][q] = Append(channel[p][q], e)
<1>1. CASE UNCHANGED vars
  BY <1>1 DEF vars
<1>2. ASSUME NEW t \in Socket, HandleConnection(t) \/ HandleDisconnect(t)
      PROVE  channel' = channel
  BY <1>2, Connects, Disconnects
<1>3. ASSUME NEW t \in Socket, NEW x \in Room, NEW e \in Event, Spoken(t, x, e)
      PROVE  \/ channel'[p][q] = channel[p][q]
             \/ p = HomeOf[t] /\ channel'[p][q] = Append(channel[p][q], e)
  BY <1>3 DEF Spoken
<1>4. ASSUME NEW t \in Socket, NEW x \in Room, Unnoticed(t, x) PROVE channel' = channel
  BY <1>4 DEF Unnoticed
<1>5. ASSUME NEW a \in Process, NEW b \in Process, Deliver(a, b) \/ Lose(a, b)
      PROVE  \/ channel'[p][q] = channel[p][q]
             \/ channel[p][q] # <<>> /\ channel'[p][q] = Tail(channel[p][q])
  BY <1>5, Delivers, Loses DEF Deliver, Matched
<1>6. ASSUME NEW b \in Process, Bootstrap(b)
      PROVE  channel'[p][q] = channel[p][q] \/ channel'[p][q] = <<>>
  BY <1>6, Restarts
<1> QED
  BY <1>1, <1>2, <1>3, <1>4, <1>5, <1>6, Happens

LEMMA OrderedStep ==
  ASSUME Sound, Ordered, [Next]_vars PROVE Ordered'
<1> USE SocketsAssumption DEF Sound
<1> SUFFICES ASSUME NEW p \in Process, NEW q \in Process, NEW s \in Socket, NEW r \in Room
             PROVE  Rejoined(channel'[p][q], s, r)
  BY DEF Ordered
<1> DEFINE c == channel[p][q]
           d == channel'[p][q]
<1>1. c \in Seq(Event) /\ Rejoined(c, s, r)
  BY DEF Matched, TypeOK, Ordered
<1>2. CASE d = c
  BY <1>1, <1>2
<1>3. CASE d = <<>>
  BY <1>3 DEF Rejoined
<1>4. CASE c # <<>> /\ d = Tail(c)
  <2> HIDE DEF c, d
  <2>1. Rejoined(d, s, r)
    BY <1>1, <1>4, UpdatesAfterTail, Zenon
  <2> QED
    BY <2>1 DEF d
<1>5. ASSUME NEW t \in Socket, NEW x \in Room, NEW e \in Event,
             Spoken(t, x, e), p = HomeOf[t], d = Append(c, e)
      PROVE  Rejoined(d, s, r)
  <2>1. ASSUME IsUpdate(e, s, r) PROVE ~Last(c, s, r, "left")
    <3>1. s = t /\ r = x /\ e.kind = "update" /\ status[s] # "gone" /\ r \in rooms[s]
      BY <1>5, <2>1, Kinds DEF Spoken
    <3>2. Tells(s, q, r)
      BY <3>1 DEF LastTells
    <3> QED
      BY <1>5, <3>1, <3>2 DEF Tells
  <2> HIDE DEF c, d
  <2> QED
    BY <1>1, <1>5, <2>1, UpdatesAfterAppend, Zenon
<1> QED
  BY <1>2, <1>3, <1>4, <1>5, ChannelStep

LEMMA DepartingStep ==
  ASSUME Sound, Departing, [Next]_vars PROVE Departing'
<1> USE SocketsAssumption DEF Sound
<1> SUFFICES ASSUME NEW s \in Socket, NEW q \in Process, NEW r \in Room,
                    status'[s] # "gone", r \notin rooms'[s]
             PROVE  Departs(channel'[HomeOf[s]][q], s, r)
  BY DEF Departing
<1> DEFINE p == HomeOf[s]
           c == channel[p][q]
           d == channel'[p][q]
<1>a. p \in Process /\ c \in Seq(Event)
  BY DEF Matched, TypeOK
<1>b. status[s] # "gone" /\ r \notin rooms[s] => Departs(c, s, r)
  BY DEF Departing
<1> HIDE DEF p
<1> SUFFICES Departs(d, s, r)
  BY DEF p
<1>1. CASE UNCHANGED vars
  BY <1>1, <1>b DEF vars
<1>2. ASSUME NEW t \in Socket, HandleConnection(t) PROVE Departs(d, s, r)
  BY <1>2, <1>b, Connects
<1>3. ASSUME NEW t \in Socket, HandleDisconnect(t) PROVE Departs(d, s, r)
  BY <1>3, <1>b, Disconnects
<1>4. ASSUME NEW t \in Socket, NEW x \in Room, NEW e \in Event, Spoken(t, x, e)
      PROVE  Departs(d, s, r)
  <2>1. /\ e.from = t /\ e.room = x /\ status' = status /\ status[t] = "connected"
        /\ \A w \in Socket \ {t} : rooms'[w] = rooms[w]
        /\ \A y \in Room \ {x} : y \in rooms'[t] <=> y \in rooms[t]
        /\ e.kind \in {"joined", "left", "update", "stray"}
        /\ e.kind = "joined" => x \in rooms'[t]
        /\ e.kind \in {"update", "stray"} => rooms' = rooms
        /\ e.kind = "update" => x \in rooms[t]
        /\ d = IF p = HomeOf[t] /\ q \in Subscribers(p) THEN Append(c, e) ELSE c
    BY <1>4, <1>a DEF Spoken, Event
  <2>2. CASE IsLeft(e, s, r)
    <3>1. t = s
      BY <2>1, <2>2, Kinds
    <3>2. CASE q \in Subscribers(p)
      <4>1. d = Append(c, e)
        BY <2>1, <3>1, <3>2 DEF p
      <4> HIDE DEF c, d
      <4> QED
        BY <1>a, <2>2, <4>1, UpdatesAfterAppend, Zenon
    <3>3. CASE q \notin Subscribers(p)
      <4>1. d = c
        BY <2>1, <3>3
      <4>2. \A i \in 1..Len(c) : c[i].from # s
        BY <1>a, <2>1, <3>1, <3>3, NothingFrom
      <4> HIDE DEF c, d
      <4>3. Departs(c, s, r)
        BY <4>2, NoUpdates
      <4> QED
        BY <4>1, <4>3
    <3> QED
      BY <3>2, <3>3
  <2>3. CASE ~IsLeft(e, s, r)
    <3>0. e.kind = "left" /\ t = s /\ x = r => IsLeft(e, s, r)
      BY <2>1 DEF Event, IsLeft, News
    <3>1. r \notin rooms[s] /\ status[s] # "gone"
      <4>1. CASE t # s \/ x # r
        BY <2>1, <4>1
      <4>2. CASE t = s /\ x = r
        BY <2>1, <2>3, <3>0, <4>2
      <4> QED
        BY <4>1, <4>2
    <3>2. ~IsUpdate(e, s, r)
      BY <2>1, <3>1, Kinds
    <3>3. Departs(c, s, r) /\ (d = c \/ d = Append(c, e))
      BY <1>b, <2>1, <3>1
    <3> HIDE DEF c, d
    <3>4. CASE d = c
      BY <3>3, <3>4
    <3>5. CASE d = Append(c, e)
      BY <1>a, <3>2, <3>3, <3>5, UpdatesAfterAppend, Zenon
    <3> QED
      BY <3>3, <3>4, <3>5
  <2> QED
    BY <2>2, <2>3
<1>5. ASSUME NEW t \in Socket, NEW x \in Room, Unnoticed(t, x) PROVE Departs(d, s, r)
  BY <1>5, <1>b DEF Unnoticed
<1>6. ASSUME NEW a \in Process, NEW b \in Process, Deliver(a, b) \/ Lose(a, b)
      PROVE  Departs(d, s, r)
  <2>1. /\ UNCHANGED <<rooms, status>>
        /\ d = c \/ (c # <<>> /\ d = Tail(c))
    BY <1>a, <1>6, Delivers, Loses DEF Deliver, Matched
  <2>2. Departs(c, s, r)
    BY <1>b, <2>1
  <2> HIDE DEF c, d
  <2>3. CASE d = c
    BY <2>2, <2>3
  <2>4. CASE c # <<>> /\ d = Tail(c)
    BY <1>a, <2>2, <2>4, UpdatesAfterTail, Zenon
  <2> QED
    BY <2>1, <2>3, <2>4
<1>7. ASSUME NEW b \in Process, Bootstrap(b) PROVE Departs(d, s, r)
  <2>1. d = <<>> \/ d = c
    BY <1>7, <1>a, Restarts
  <2>2. CASE d = <<>>
    <3> HIDE DEF d
    <3> QED
      BY <2>2 DEF Departs
  <2>3. CASE d = c /\ p = b
    <3>1. status[s] = "new"
      BY <1>7, <2>3, Restarts DEF p
    <3>2. \A i \in 1..Len(c) : c[i].from # s
      BY <1>a, <3>1, NothingFrom
    <3> HIDE DEF c, d
    <3>3. Departs(c, s, r)
      BY <3>2, NoUpdates
    <3> QED
      BY <2>3, <3>3
  <2>4. CASE d = c /\ p # b
    <3>1. status[s] # "gone" /\ r \notin rooms[s]
      BY <1>7, <2>4, Restarts DEF p
    <3> QED
      BY <1>b, <2>4, <3>1
  <2> QED
    BY <2>1, <2>2, <2>3, <2>4
<1> QED
  BY <1>1, <1>2, <1>3, <1>4, <1>5, <1>6, <1>7, Happens

LEMMA IntroducedStep ==
  ASSUME Sound, Ordered, Departing, Introduced, [Next]_vars PROVE Introduced'
<1> USE SocketsAssumption DEF Sound
<1> SUFFICES ASSUME NEW v \in Socket, NEW s \in Socket, NEW r \in Room, Comparable(v, s, r)'
             PROVE  Introduces(heard'[v][r][UserOf[s]], s \in moved'[v][r],
                               channel'[HomeOf[s]][HomeOf[v]], s, r)
  BY DEF Introduced, Introduces, Pending
<1> DEFINE u == UserOf[s]
           p == HomeOf[s]
           q == HomeOf[v]
           c == channel[p][q]
           d == channel'[p][q]
           word == heard[v][r][u]
           word1 == heard'[v][r][u]
           seen == s \in moved[v][r]
           seen1 == s \in moved'[v][r]
           Goal == Introduces(word1, seen1, d, s, r)
           Bound == p = q \/ (q \in Subscribers(p) /\ <<p, q>> \notin lossy)
<1>a. /\ u \in User /\ p \in Process /\ q \in Process /\ c \in Seq(Event)
      /\ word \in {"nothing", "joined", "left"}
  BY DEF Matched, TypeOK, Words
<1>b. s \in OnlySockets /\ \A t \in Socket : UserOf[t] = u => t = s
  BY DEF Comparable, OnlySockets
<1>c. /\ r \in rooms'[v] /\ status'[s] # "gone"
      /\ p = q \/ (q \in Subscribers(p)' /\ <<p, q>> \notin lossy')
  BY DEF Comparable, Linked
<1>d. r \in rooms[v] /\ status[s] # "gone" /\ Bound => Introduces(word, seen, c, s, r)
  BY <1>b DEF Introduced, Comparable, Linked, Pending
<1>f. p = q => c = <<>>
  BY DEF Origin
<1>h. status[s] # "gone" /\ r \notin rooms[s] => Departs(c, s, r)
  BY DEF Departing
<1>i. r \in rooms[v] /\ status[s] # "gone" /\ Bound /\ Quiet(c, s, r)
        => Right(word, r \in rooms[s], seen)
  BY <1>b DEF HeardTells, Comparable, Linked, Pending
<1>j. Rejoined(c, s, r)
  BY <1>a DEF Ordered
<1>m. seen1 => /\ r \in rooms[v] /\ status'[s] = "connected"
               /\ seen \/ ~(r \in rooms[s] <=> r \in rooms'[s])
  BY MovedStep
<1>n. r \notin rooms[v] => word = "nothing"
  BY <1>a DEF Present
<1> HIDE DEF u, p, q, Bound, word, word1, seen, seen1
<1> SUFFICES Goal
  BY DEF u, p, q, word1, seen1
<1>x. ASSUME r \notin rooms[v], word1 = word PROVE Goal
  BY <1>m, <1>n, <1>x DEF Introduces
<1>o. ASSUME d = <<>> PROVE Goal
  BY <1>o DEF Introduces, EarlyDeparts, Announced
<1>e. ASSUME r \in rooms[v], status[s] # "gone", Bound, d = c,
             word1 = word, r \in rooms'[s] <=> r \in rooms[s]
      PROVE  Goal
  BY <1>d, <1>e, <1>m DEF Introduces
<1> HIDE DEF Goal
<1>1. CASE UNCHANGED vars
  BY <1>1, <1>c, <1>e DEF vars, Bound, Subscribers, word, word1
<1>2. ASSUME NEW t \in Socket, HandleConnection(t) PROVE Goal
  <2>1. UNCHANGED <<adapter, rooms, channel, lossy, heard>> /\ status[s] # "gone"
    BY <1>2, <1>c, Connects
  <2> QED
    BY <1>c, <1>e, <2>1 DEF Bound, Subscribers, word, word1
<1>3. ASSUME NEW t \in Socket, HandleDisconnect(t) PROVE Goal
  <2>1. t # s /\ t # v
    BY <1>3, <1>c, Disconnects
  <2> QED
    BY <1>3, <1>a, <1>c, <1>e, <2>1, Disconnects DEF Bound, Subscribers, word, word1
<1>4. ASSUME NEW t \in Socket, NEW x \in Room, NEW e \in Event,
             Spoken(t, x, e), Understood(t, x, e)
      PROVE  Goal
  <2>1. /\ e.from = t /\ e.room = x /\ UNCHANGED <<adapter, status, lossy>>
        /\ e.kind \in {"joined", "left", "update", "stray"}
        /\ \A w \in Socket \ {t} : rooms'[w] = rooms[w]
        /\ \A y \in Room \ {x} : y \in rooms'[t] <=> y \in rooms[t]
        /\ e.kind = "joined" => x \in rooms'[t]
        /\ e.kind = "left" => x \notin rooms'[t]
        /\ e.kind \in {"update", "stray"} => rooms' = rooms
        /\ e.kind = "update" => x \in rooms[t]
        /\ d = IF p = HomeOf[t] /\ q \in Subscribers(p) THEN Append(c, e) ELSE c
    BY <1>4, <1>a DEF Spoken, Event
  <2>2. Bound /\ status[s] # "gone"
    BY <1>c, <2>1 DEF Bound, Subscribers
  <2>3. \/ e.kind \in {"joined", "left"} /\ q = HomeOf[t] /\ r = x /\ u = UserOf[t]
        \/ word1 = word
    BY <1>4, <1>a, <1>c, <2>1 DEF Understood, q, word, word1
  <2>4. ASSUME IsUpdate(e, s, r) => ~Quiet(c, s, r)
        PROVE  /\ EarlyDeparts(c, s, r) => EarlyDeparts(d, s, r)
               /\ Announced(c, s, r) => Announced(d, s, r)
    <3>1. d = Append(c, e) \/ d = c
      BY <2>1
    <3> HIDE DEF c, d
    <3>2. CASE d = Append(c, e)
      BY <1>a, <2>4, <3>2, UpdatesAfterAppend, Zenon
    <3>3. CASE d = c
      BY <3>3
    <3> QED
      BY <3>1, <3>2, <3>3
  <2>k. ASSUME r \in rooms[v], word1 = word, seen1 => seen, IsUpdate(e, s, r) => ~Quiet(c, s, r)
        PROVE  Goal
    <3>1. Introduces(word, seen, c, s, r)
      BY <1>d, <2>2, <2>k
    <3> QED
      BY <2>4, <2>k, <3>1 DEF Goal, Introduces
  <2>5. CASE p = q
    <3>1. d = <<>>
      BY <1>f, <2>1, <2>5 DEF Subscribers
    <3> QED
      BY <1>o, <3>1
  <2>6. CASE About(e, s, r) /\ p # q
    <3>1. t = s /\ x = r /\ e.kind \in {"joined", "left"} /\ ~IsUpdate(e, s, r)
      BY <2>1, <2>6, AboutIs, Kinds
    <3>2. v # t /\ q # HomeOf[t] /\ r \in rooms[v]
      BY <1>c, <2>1, <2>6, <3>1 DEF p, q
    <3>3. word1 = word
      BY <2>3, <3>2
    <3>4. CASE seen1 => seen
      BY <2>k, <3>1, <3>2, <3>3, <3>4
    <3>5. CASE seen1 /\ ~seen
      <4>1. d = Append(c, e)
        BY <2>1, <2>2, <2>6, <3>1 DEF Bound, p
      <4>2. IsLeft(e, s, r) \/ r \notin rooms[s]
        <5>1. e.kind = "left" => IsLeft(e, s, r)
          BY <2>1, <3>1 DEF IsLeft, News, Event
        <5>2. e.kind = "joined" => r \in rooms'[s]
          BY <2>1, <3>1
        <5> QED
          BY <1>m, <3>1, <3>5, <5>1, <5>2
      <4>3. Departs(d, s, r)
        <5>1. CASE IsLeft(e, s, r)
          <6> HIDE DEF c, d
          <6> QED
            BY <1>a, <4>1, <5>1, UpdatesAfterAppend, Zenon
        <5>2. CASE r \notin rooms[s]
          <6>1. Departs(c, s, r)
            BY <1>h, <2>2, <5>2
          <6> HIDE DEF c, d
          <6> QED
            BY <1>a, <3>1, <4>1, <6>1, UpdatesAfterAppend, Zenon
        <5> QED
          BY <4>2, <5>1, <5>2
      <4>4. EarlyDeparts(d, s, r)
        <5> HIDE DEF d
        <5> QED
          BY <4>3, DepartsEarly
      <4>5. word = "left" => Announced(c, s, r)
        BY <1>d, <2>2, <3>2 DEF Introduces
      <4> QED
        BY <2>4, <3>1, <3>3, <4>4, <4>5 DEF Goal, Introduces
    <3> QED
      BY <3>4, <3>5
  <2>7. CASE t = s /\ ~About(e, s, r)
    <3>1. x # r \/ e.kind \in {"update", "stray"}
      BY <2>1, <2>7, AboutIs
    <3>2. r \in rooms[v] /\ (seen1 => seen)
      BY <1>c, <1>m, <2>1, <2>7, <3>1
    <3>3. word1 = word
      BY <2>3, <3>1
    <3>4. CASE IsUpdate(e, s, r) /\ Quiet(c, s, r)
      <4>1. r \in rooms[s]
        BY <2>1, <2>7, <3>4, Kinds
      <4>2. Right(word, TRUE, seen)
        BY <1>i, <2>2, <3>2, <3>4, <4>1 DEF Right
      <4> QED
        BY <1>a, <3>2, <3>3, <4>2 DEF Goal, Introduces, Right
    <3>5. CASE ~(IsUpdate(e, s, r) /\ Quiet(c, s, r))
      BY <2>k, <3>2, <3>3, <3>5
    <3> QED
      BY <3>4, <3>5
  <2>8. CASE t # s
    <3>1. u # UserOf[t] /\ ~IsUpdate(e, s, r) /\ rooms'[s] = rooms[s]
      BY <1>b, <2>1, <2>8, Kinds
    <3>2. word1 = word /\ (seen1 => seen)
      BY <1>m, <2>3, <3>1
    <3> QED
      BY <1>x, <2>k, <3>1, <3>2
  <2> QED
    BY <2>5, <2>6, <2>7, <2>8
<1>5. ASSUME NEW t \in Socket, NEW x \in Room, Unnoticed(t, x) PROVE Goal
  <2>1. word1 = word
    BY <1>5, <1>a, <1>c DEF Unnoticed, word, word1
  <2>2. UNCHANGED <<adapter, status, lossy, channel, rooms>>
    BY <1>5 DEF Unnoticed
  <2> QED
    BY <1>c, <1>e, <2>1, <2>2 DEF Bound, Subscribers
<1>6. ASSUME NEW a \in Process, NEW b \in Process, Deliver(a, b) PROVE Goal
  <2> DEFINE e == channel[a][b][1]
  <2>1. UNCHANGED <<adapter, status, rooms, lossy>>
    BY <1>6 DEF Deliver
  <2>2. /\ e \in Event /\ 1 \in 1..Len(channel[a][b]) /\ channel[a][b] # <<>>
        /\ d = IF p = a /\ q = b THEN Tail(c) ELSE c
        /\ word1 =
             IF /\ e.kind \in {"joined", "left"} /\ q = b
                /\ e.room \in rooms[v] /\ r = e.room /\ u = UserOf[e.from]
             THEN e.kind ELSE word
    <3>1. channel[a][b] # <<>>
      BY <1>6 DEF Deliver
    <3> HIDE DEF e
    <3>2. TypeOK
      BY DEF Matched
    <3> QED
      BY <1>6, <1>a, <3>1, <3>2, Delivers DEF e, q, word, word1
  <2>3. e.from \in Socket /\ HomeOf[e.from] = a
    BY <2>2 DEF Origin, Traced
  <2>4. Bound /\ status[s] # "gone" /\ r \in rooms[v] /\ rooms'[s] = rooms[s]
    BY <1>c, <2>1 DEF Bound, Subscribers
  <2>5. About(e, s, r) <=> e.kind \in {"joined", "left"} /\ e.from = s /\ e.room = r
    BY <2>2, AboutIs
  <2>6. CASE ~(p = a /\ q = b)
    <3>1. d = c
      BY <2>2, <2>6
    <3>2. word1 = word
      BY <1>b, <2>2, <2>3, <2>6 DEF p
    <3> QED
      BY <1>e, <2>4, <3>1, <3>2
  <2>7. CASE p = a /\ q = b
    <3>1. d = Tail(c) /\ c # <<>> /\ e = c[1]
      BY <2>2, <2>7
    <3>2. CASE About(e, s, r)
      <4>1. word1 = e.kind /\ e.kind \in {"joined", "left"}
        BY <2>2, <2>4, <2>5, <2>7, <3>2 DEF u
      <4>2. CASE e.kind = "joined"
        BY <4>1, <4>2 DEF Goal, Introduces
      <4>3. CASE e.kind = "left"
        <5>1. IsLeft(e, s, r)
          BY <2>2, <2>5, <3>2, <4>3 DEF IsLeft, News, Event
        <5>2. EarlyDeparts(d, s, r) /\ Announced(d, s, r)
          <6> HIDE DEF c, d, e
          <6>1. IsLeft(c[1], s, r)
            BY <3>1, <5>1
          <6> QED
            BY <1>a, <1>j, <3>1, <6>1, UpdatesAfterTail, Zenon
        <5> QED
          BY <5>2 DEF Goal, Introduces
      <4> QED
        BY <4>1, <4>2, <4>3
    <3>3. CASE ~About(e, s, r)
      <4>1. word1 = word
        BY <1>b, <2>2, <2>3, <2>5, <3>3
      <4>2. /\ EarlyDeparts(c, s, r) => EarlyDeparts(d, s, r)
            /\ Announced(c, s, r) => Announced(d, s, r)
        <5> HIDE DEF c, d, e
        <5>1. ~About(c[1], s, r)
          BY <3>1, <3>3
        <5> QED
          BY <1>a, <3>1, <5>1, UpdatesAfterTail, Zenon
      <4>3. seen1 => seen
        BY <1>m, <2>4
      <4>4. Introduces(word, seen, c, s, r)
        BY <1>d, <2>4
      <4> QED
        BY <4>1, <4>2, <4>3, <4>4 DEF Goal, Introduces
    <3> QED
      BY <3>2, <3>3
  <2> QED
    BY <2>6, <2>7
<1>7. ASSUME NEW a \in Process, NEW b \in Process, Lose(a, b) PROVE Goal
  <2>1. /\ channel[a][b] # <<>> /\ lossy' = lossy \cup {<<a, b>>}
        /\ d = IF p = a /\ q = b THEN Tail(c) ELSE c
        /\ UNCHANGED <<adapter, status, rooms, heard>>
    BY <1>7, <1>a, Loses
  <2>2. ~(p = a /\ q = b)
    BY <1>c, <1>f, <2>1
  <2> QED
    BY <1>c, <1>e, <2>1, <2>2 DEF Bound, Subscribers, word, word1
<1>8. ASSUME NEW b \in Process, Bootstrap(b) PROVE Goal
  <2>1. q # b
    BY <1>8, <1>c, Restarts DEF q
  <2>2. word1 = word /\ d = c /\ lossy' = lossy
        /\ rooms'[v] = rooms[v]
    BY <1>8, <1>a, <2>1, Restarts DEF q, word, word1
  <2>3. CASE p = b
    <3>1. status[s] = "new"
      BY <1>8, <1>c, <2>3, Restarts DEF p
    <3>2. \A i \in 1..Len(c) : c[i].from # s
      BY <1>a, <3>1, NothingFrom
    <3>3. EarlyDeparts(c, s, r) /\ Announced(c, s, r)
      <4> HIDE DEF c
      <4> QED
        BY <3>2, NoUpdates
    <3> QED
      BY <2>2, <3>3 DEF Goal, Introduces
  <2>4. CASE p # b
    <3>1. status[s] # "gone" /\ rooms'[s] = rooms[s]
      BY <1>8, <1>c, <2>4, Restarts DEF p
    <3>2. adapter'[p] = adapter[p] /\ adapter'[q] = adapter[q]
      BY <1>8, <1>a, <2>1, <2>4, Restarts
    <3>3. Bound
      BY <1>c, <2>2, <3>2 DEF Bound, Subscribers
    <3> QED
      BY <1>c, <1>e, <2>2, <3>1, <3>3
  <2> QED
    BY <2>3, <2>4
<1> QED
  BY <1>1, <1>2, <1>3, <1>4, <1>5, <1>6, <1>7, <1>8, Happens

Updated == Ordered /\ Departing /\ Introduced

LEMMA UpdatedIsRight == Matched /\ Updated => NoStrangers
<1> USE SocketsAssumption DEF Updated
<1> SUFFICES ASSUME Matched, Updated, NEW v \in Socket, NEW s \in Socket, NEW r \in Room,
                    Comparable(v, s, r),
                    NEW n \in DOMAIN Pending(s, v), Pending(s, v)[n] = News("update", s, r)
             PROVE  /\ LastWord(v, s, r, n) # "left"
                    /\ s \in moved[v][r] =>
                          \/ LastWord(v, s, r, n) = "joined"
                          \/ \E m \in n..Len(Pending(s, v)) : Pending(s, v)[m] = News("left", s, r)
  BY DEF NoStrangers, OnlySockets
<1> DEFINE c == Pending(s, v)
<1>1. c \in Seq(Event) /\ HomeOf[s] \in Process /\ HomeOf[v] \in Process
  BY DEF Matched, TypeOK, Pending
<1>2. n \in 1..Len(c) /\ n \in 0..Len(c) /\ Len(c) \in Nat /\ IsUpdate(c[n], s, r)
  BY <1>1 DEF IsUpdate
<1>3. CASE \A i \in 1..n : ~About(c[i], s, r)
  <2>1. LastWord(v, s, r, n) = heard[v][r][UserOf[s]]
    BY <1>2, <1>3, WordIs
  <2>2. Introduces(heard[v][r][UserOf[s]], s \in moved[v][r], c, s, r)
    BY DEF Introduced
  <2>3. \A i \in 1..Len(c) : i < n => ~About(c[i], s, r)
    BY <1>2, <1>3
  <2>4. EarlyDeparts(c, s, r) => \E m \in 1..Len(c) : n < m /\ IsLeft(c[m], s, r)
    BY <1>2, <2>3 DEF EarlyDeparts
  <2>5. \A m \in 1..Len(c) : n < m => m \in n..Len(c)
    BY <1>2
  <2>6. ~Announced(c, s, r)
    BY <1>2, <2>3 DEF Announced
  <2> QED
    BY <2>1, <2>2, <2>4, <2>5, <2>6 DEF Introduces, IsLeft
<1>4. CASE \E k \in 1..n : /\ About(c[k], s, r) /\ LastWord(v, s, r, n) = c[k].kind
                           /\ \A j \in 1..n : j > k => ~About(c[j], s, r)
  <2>1. PICK k \in 1..n : /\ About(c[k], s, r) /\ LastWord(v, s, r, n) = c[k].kind
                          /\ \A j \in 1..n : j > k => ~About(c[j], s, r)
    BY <1>4
  <2>2. k \in 1..Len(c) /\ k # n
    BY <1>2, <2>1, Kinds
  <2>3. ASSUME IsLeft(c[k], s, r) PROVE FALSE
    <3>1. k < n
      BY <1>2, <2>2
    <3>2. Rejoined(c, s, r)
      BY <1>1 DEF Ordered, Pending
    <3>3. PICK i \in 1..Len(c) : k < i /\ i < n /\ IsJoined(c[i], s, r)
      BY <1>2, <2>2, <2>3, <3>1, <3>2 DEF Rejoined
    <3>4. i \in 1..n /\ i > k
      BY <1>2, <3>3
    <3>5. About(c[i], s, r)
      BY <3>3, Kinds
    <3> QED
      BY <2>1, <3>4, <3>5
  <2>4. IsJoined(c[k], s, r)
    BY <2>1, <2>3, Kinds
  <2>5. c[k].kind = "joined"
    BY <2>4 DEF IsJoined, News
  <2> QED
    BY <2>1, <2>5
<1> QED
  BY <1>2, <1>3, <1>4, WordIs

(* No update overtakes the join of its sender on its way to those who were  *)
(* there, for any number of processes, sockets, rooms and messages.         *)
THEOREM NobodyIsStrange == Spec => []NoStrangers
<1>1. Init => Updated
  <2> SUFFICES ASSUME Init PROVE Updated
    OBVIOUS
  <2>1. /\ \A p, q \in Process : channel[p][q] = <<>>
        /\ \A s \in Socket : rooms[s] = {}
    BY DEF Init
  <2>2. \A s, r : Rejoined(<<>>, s, r) /\ Departs(<<>>, s, r)
    BY DEF Rejoined, Departs
  <2> QED
    BY <2>1, <2>2, SocketsAssumption
    DEF Updated, Ordered, Departing, Introduced, Comparable
<1>2. Sound /\ Updated /\ [Next]_vars => Updated'
  BY OrderedStep, DepartingStep, IntroducedStep DEF Updated
<1> QED
  BY <1>1, <1>2, SoundInvariant, UpdatedIsRight, PTL DEF Spec, Sound
=============================================================================
