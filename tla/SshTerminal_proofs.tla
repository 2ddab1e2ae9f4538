-------------------------- MODULE SshTerminal_proofs --------------------------
(***************************************************************************)
(* What holds of a shared terminal for any sessions and connects, any      *)
(* sizes of history and of the broadcast channel, and any number of        *)
(* reconnects, chunks, clicks and faults.                                  *)
(***************************************************************************)
EXTENDS SshTerminal, TLAPS

-----------------------------------------------------------------------------
(* The inductive invariant *)

SessionSet == [status : {"none", "running", "closed"},
               reader : {"none", "read", "send", "eof", "remove", "ended"}, output : 0 .. MaxOutput]
ConnectSet == [pc : {"none", "opening", "dropped"} \cup InPage \cup OnServer,
               session : Sessions \cup {None}, attempt : 0 .. MaxAttempts,
               again : BOOLEAN, last : BOOLEAN, ended : BOOLEAN, late : BOOLEAN,
               lagged : BOOLEAN, feed : Seq(Chunks \cup {Closed}), shown : SUBSET Chunks]
TabSet == [status : {"idle", "connecting", "connected", "detached", "closed", "error"},
           session : Sessions \cup {None}, socket : Connects \cup {None},
           attempts : 0 .. MaxAttempts, timers : Nat, tracked : BOOLEAN]
ClosingSet == [pc : {"idle", "remove", "kill", "answer"}, session : Sessions \cup {None}]
PollSet == [pc : {"idle", "answer"}, ids : SUBSET Sessions]
CountSet == [clicks : 0 .. MaxClicks, faults : 0 .. MaxFaults, chunks : 0 .. MaxOutput]

Listening == {"subscribed", "replay", "live"}
OnSocket == {"opening", "dropped"} \cup OnServer

\* The shells' chunks are counted, and a reader that is about to send has one to send.
Printed(s) ==
  /\ session[s].output <= counts.chunks
  /\ session[s].reader = "send" => session[s].output # 0

\* A connect that goes on has a session, one that has a ticket a session that was there;
\* it receives from when it subscribes, shows from when it replays, and is told the end
\* when it relays.
Shape(c) ==
  /\ connect[c].pc \in {"ticket", "open", "opening"} \cup OnServer => connect[c].session # None
  /\ connect[c].pc \in {"open", "opening"} \cup OnServer => session[connect[c].session].status # "none"
  /\ connect[c].pc \notin Listening => connect[c].feed = <<>>
  /\ connect[c].pc \notin {"replay", "live"} => connect[c].shown = {}
  /\ connect[c].pc \notin {"live", "dropped"} => ~connect[c].ended

\* From its first chunk on, a receiver that kept up has all that was broadcast; once it
\* has been sent the history, it has a first chunk if there is one.
Follows(c) ==
  connect[c].pc \in Listening /\ ~connect[c].lagged =>
    /\ \A j \in Covered(c) : \A k \in j .. Said(connect[c].session) : k \in Covered(c)
    /\ connect[c].pc # "subscribed" /\ Said(connect[c].session) # 0 => Covered(c) # {}

\* A receiver was told that its session ended, or it will be.
Ends(c) ==
  connect[c].pc \in Listening =>
    \/ session[connect[c].session].status = "running"
    \/ connect[c].late \/ connect[c].ended \/ EndComes(c)

\* The terminal knows its socket and its timers; what it says is true, or there is
\* something to come that will tell it better.
Knows ==
  /\ tab.tracked => tab.timers > 0
  /\ closing.pc # "idle" => closing.session # None
  /\ tab.socket # None => connect[tab.socket].pc \in OnSocket
  /\ ~stray => \A c \in Connects : connect[c].pc \in OnSocket => tab.socket = c
  /\ tab.status = "connecting" =>
       \/ tab.timers > 0
       \/ \E c \in Connects : connect[c].pc \in InPage
       \/ Awaited({"opening", "upgraded", "subscribed", "dropped"}) /\ ~connect[tab.socket].ended
  /\ tab.status = "connected" /\ ~stray =>
       Awaited({"dropped", "replay", "live"}) /\ ~connect[tab.socket].ended

Inv ==
  /\ TypeOK /\ connect \in [Connects -> ConnectSet]
  /\ \A s \in Sessions : Printed(s)
  /\ \A c \in Connects : Shape(c) /\ Follows(c) /\ Ends(c)
  /\ Knows

-----------------------------------------------------------------------------
(* Types *)

Fits(q) == q \in Seq(Chunks \cup {Closed}) /\ Len(q) <= Capacity

\* TypeOK, with names for the sets of records.
Typed ==
  /\ store \subseteq Sessions
  /\ session \in [Sessions -> SessionSet]
  /\ tickets \subseteq Connects
  /\ connect \in [Connects -> ConnectSet]
  /\ \A c \in Connects : Fits(connect[c].feed)
  /\ tab \in TabSet
  /\ closing \in ClosingSet
  /\ poll \in PollSet
  /\ stray \in BOOLEAN
  /\ counts \in CountSet

LEMMA TypeParts == (TypeOK /\ connect \in [Connects -> ConnectSet] => Typed) /\ (Typed' => TypeOK')
<1>1. TypeOK /\ connect \in [Connects -> ConnectSet] => Typed
  BY DEF TypeOK, Typed, SessionSet, ConnectSet, TabSet, ClosingSet, PollSet, CountSet, Fits
<1>2. Typed' => TypeOK'
  BY DEF TypeOK, Typed, SessionSet, ConnectSet, TabSet, ClosingSet, PollSet, CountSet, Fits
<1> QED BY <1>1, <1>2

LEMMA InvTyped == Inv => Typed
BY TypeParts DEF Inv

LEMMA Numbers ==
  /\ Sessions \subseteq Nat \ {0} /\ 0 \notin Connects
  /\ HistoryChunks \in Nat \ {0} /\ Capacity \in Nat \ {0}
  /\ MaxAttempts \in Nat /\ MaxOutput \in Nat /\ MaxClicks \in Nat /\ MaxFaults \in Nat
BY NumbersAssumption

LEMMA NoneIsNone == None \notin Sessions /\ None \notin Connects
BY Numbers DEF None

LEMMA ClickType ==
  ASSUME Typed, Click
  PROVE  counts' \in CountSet /\ counts'.chunks = counts.chunks
BY Numbers DEF Typed, Click, CountSet

LEMMA FaultType ==
  ASSUME Typed, Fault
  PROVE  counts' \in CountSet /\ counts'.chunks = counts.chunks
BY Numbers DEF Typed, Fault, CountSet

LEMMA EmptyFits == Fits(<<>>)
BY Numbers DEF Fits

LEMMA NoConnectParts ==
  /\ NoConnect \in ConnectSet /\ NoConnect.pc = "none" /\ NoConnect.session = None
  /\ NoConnect.feed = <<>> /\ NoConnect.shown = {} /\ ~NoConnect.ended /\ ~NoConnect.lagged
BY Numbers DEF NoConnect, ConnectSet, None

LEMMA BrokenParts ==
  ASSUME Typed, NEW c \in Connects
  PROVE  /\ Broken(c) \in ConnectSet /\ Broken(c).pc = "dropped"
         /\ Broken(c).feed = <<>> /\ Broken(c).shown = {} /\ Broken(c).ended = connect[c].ended
BY NoConnectParts DEF Broken, Typed, ConnectSet

\* A step that replaces one connect.
LEMMA OneConnect ==
  ASSUME Typed, NEW c \in Connects, NEW v \in ConnectSet, Fits(v.feed),
         connect' = [connect EXCEPT ![c] = v]
  PROVE  /\ connect' \in [Connects -> ConnectSet]
         /\ \A d \in Connects : Fits(connect'[d].feed)
         /\ connect'[c] = v
         /\ \A d \in Connects : d # c => connect'[d] = connect[d]
BY DEF Typed

\* A connect that only goes somewhere else.
Gone(c, pc) == [connect[c] EXCEPT !.pc = pc]

LEMMA GotoParts ==
  ASSUME Typed, NEW c \in Connects, NEW pc \in InPage \cup OnServer \cup {"opening"}
  PROVE  /\ Gone(c, pc) \in ConnectSet /\ Gone(c, pc).pc = pc
         /\ Gone(c, pc).session = connect[c].session /\ Gone(c, pc).feed = connect[c].feed
         /\ Gone(c, pc).shown = connect[c].shown /\ Gone(c, pc).ended = connect[c].ended
         /\ Gone(c, pc).late = connect[c].late /\ Gone(c, pc).lagged = connect[c].lagged
         /\ Goto(c, pc) => connect' = [connect EXCEPT ![c] = Gone(c, pc)]
<1>1. connect[c] \in ConnectSet
  BY DEF Typed
<1>2. Goto(c, pc) => connect' = [connect EXCEPT ![c] = Gone(c, pc)]
  BY DEF Goto, Gone
<1> QED BY <1>1, <1>2 DEF Gone, ConnectSet

\* Two connects, but for the requests that are pending.
SameBut(x, y) ==
  /\ x.session = y.session /\ x.feed = y.feed /\ x.shown = y.shown
  /\ x.ended = y.ended /\ x.late = y.late /\ x.lagged = y.lagged

LEMMA AsksParts ==
  ASSUME NEW c \in Connects, NEW pc \in {"create", "ticket"},
         NEW S \in [Connects -> ConnectSet], \A d \in Connects : Fits(S[d].feed),
         connect' = Asks(S, c, pc)
  PROVE  /\ connect' \in [Connects -> ConnectSet]
         /\ \A d \in Connects : Fits(connect'[d].feed) /\ SameBut(connect'[d], S[d])
         /\ connect'[c].pc = pc
         /\ \A d \in Connects : d # c => connect'[d].pc = S[d].pc
<1>1. ASSUME NEW d \in Connects
      PROVE  /\ connect'[d] \in ConnectSet /\ SameBut(connect'[d], S[d])
             /\ connect'[d].pc = IF d = c THEN pc ELSE S[d].pc
  <2> DEFINE b == S[d].last /\ (S[d].pc = "create") # (pc = "create")
  <2>1. S[d] \in ConnectSet
    OBVIOUS
  <2>2. CASE d = c
    <3>1. connect'[d] = [S[d] EXCEPT !.pc = pc, !.last = TRUE]
      BY <2>2 DEF Asks
    <3> QED BY <2>1, <2>2, <3>1 DEF ConnectSet, InPage, SameBut
  <2>3. CASE d # c
    <3>1. connect'[d] = [S[d] EXCEPT !.last = b]
      BY <2>3 DEF Asks
    <3>2. b \in BOOLEAN
      BY Zenon
    <3> HIDE DEF b
    <3> QED BY <2>1, <2>3, <3>1, <3>2 DEF ConnectSet, SameBut
  <2> QED BY <2>2, <2>3
<1>2. connect' = [d \in Connects |-> connect'[d]]
  BY DEF Asks
<1>3. connect' \in [Connects -> ConnectSet]
  BY <1>1, <1>2
<1> QED BY <1>1, <1>3 DEF SameBut

-----------------------------------------------------------------------------
(* The initial states *)

LEMMA InvInit == Init => Inv
<1> SUFFICES ASSUME Init PROVE Inv
  OBVIOUS
<1>1. /\ connect \in [Connects -> ConnectSet]
      /\ \A c \in Connects : connect[c] = NoConnect /\ Fits(connect[c].feed)
  BY NoConnectParts, EmptyFits DEF Init
<1>2. session \in [Sessions -> SessionSet] /\ \A s \in Sessions : session[s] = NoSession
  BY Numbers DEF Init, NoSession, SessionSet
<1>3. /\ tab \in TabSet /\ closing \in ClosingSet /\ poll \in PollSet /\ counts \in CountSet
      /\ store \subseteq Sessions /\ tickets \subseteq Connects
  BY Numbers DEF Init, TabSet, ClosingSet, PollSet, CountSet, None
<1>4. stray \in BOOLEAN
  BY Zenon DEF Init
<1>5. TypeOK
  BY <1>1, <1>2, <1>3, <1>4
  DEF TypeOK, Fits, ConnectSet, SessionSet, TabSet, ClosingSet, PollSet, CountSet
<1>6. ASSUME NEW s \in Sessions PROVE Printed(s)
  BY <1>2 DEF Init, Printed, NoSession
<1>7. ASSUME NEW c \in Connects PROVE Shape(c) /\ Follows(c) /\ Ends(c)
  BY <1>1, NoConnectParts DEF Shape, Follows, Ends, Listening, OnServer
<1>8. Knows
  BY <1>1, NoConnectParts DEF Init, Knows, OnSocket, OnServer
<1> QED BY <1>1, <1>5, <1>6, <1>7, <1>8 DEF Inv

-----------------------------------------------------------------------------
(* What a step leaves alone *)

LEMMA EmptyConnect ==
  ASSUME NEW c \in Connects, connect'[c] = NoConnect
  PROVE  Shape(c)' /\ connect'[c].pc \notin Listening
BY NoConnectParts DEF Shape, Listening, OnServer

LEMMA BrokenConnect ==
  ASSUME Typed, NEW c \in Connects, connect'[c] = Broken(c)
  PROVE  Shape(c)' /\ connect'[c].pc \notin Listening
BY BrokenParts DEF Shape, Listening, OnServer

LEMMA SessionOf ==
  ASSUME Inv, NEW c \in Connects, connect[c].pc \in {"open", "opening"} \cup OnServer
  PROVE  connect[c].session \in Sessions /\ session[connect[c].session].status # "none"
BY InvTyped DEF Inv, Shape, Typed, ConnectSet

LEMMA ListeningOnServer == Listening \subseteq OnServer
BY DEF Listening, OnServer

\* Only the requests that are pending can be others.
Alike(d) ==
  /\ connect'[d].pc = connect[d].pc /\ connect'[d].session = connect[d].session
  /\ connect'[d].feed = connect[d].feed /\ connect'[d].shown = connect[d].shown
  /\ connect'[d].ended = connect[d].ended /\ connect'[d].late = connect[d].late
  /\ connect'[d].lagged = connect[d].lagged

\* Sessions that are there do not change, and connects stay as they are, do not listen, or
\* are told of by the step.
LEMMA Quiet ==
  ASSUME Inv,
         \A s \in Sessions : session[s].status # "none" => session'[s] = session[s],
         \A d \in Connects :
           \/ connect'[d] = connect[d] \/ Alike(d)
           \/ connect'[d].pc \notin Listening /\ Shape(d)'
           \/ Shape(d)' /\ Follows(d)' /\ Ends(d)'
  PROVE  \A c \in Connects : Shape(c)' /\ Follows(c)' /\ Ends(c)'
<1> SUFFICES ASSUME NEW c \in Connects PROVE Shape(c)' /\ Follows(c)' /\ Ends(c)'
  OBVIOUS
<1>1. CASE connect'[c] = connect[c] \/ Alike(c)
  <2>1. Alike(c)
    BY <1>1 DEF Alike
  <2>2. Shape(c) /\ Follows(c) /\ Ends(c)
    BY DEF Inv
  <2>3. connect[c].pc \in {"open", "opening"} \cup OnServer =>
          session'[connect[c].session] = session[connect[c].session]
    BY SessionOf
  <2>4. Shape(c)'
    BY <2>1, <2>2, <2>3 DEF Shape, Alike
  <2>5. CASE connect[c].pc \notin Listening
    BY <2>1, <2>4, <2>5 DEF Follows, Ends, Alike
  <2>6. CASE connect[c].pc \in Listening
    <3>1. session'[connect[c].session] = session[connect[c].session]
      BY <2>3, <2>6, ListeningOnServer
    <3>2. Covered(c)' = Covered(c) /\ Said(connect[c].session)' = Said(connect[c].session)
      BY <2>1, <3>1 DEF Covered, Said, Alike
    <3>3. EndComes(c)' <=> EndComes(c)
      BY <2>1, <3>1 DEF EndComes, Alike
    <3> QED BY <2>1, <2>2, <2>4, <3>1, <3>2, <3>3 DEF Follows, Ends, Alike
  <2> QED BY <2>5, <2>6
<1>2. CASE connect'[c].pc \notin Listening /\ Shape(c)'
  BY <1>2 DEF Follows, Ends
<1> QED BY <1>1, <1>2

\* A step that leaves the sessions alone.
LEMMA SessionsStay ==
  ASSUME Inv, Typed', session' = session, counts'.chunks = counts.chunks, Knows',
         \A d \in Connects :
           \/ connect'[d] = connect[d] \/ Alike(d)
           \/ connect'[d].pc \notin Listening /\ Shape(d)'
           \/ Shape(d)' /\ Follows(d)' /\ Ends(d)'
  PROVE  Inv'
<1>1. \A c \in Connects : Shape(c)' /\ Follows(c)' /\ Ends(c)'
  BY Quiet
<1>2. \A s \in Sessions : Printed(s)'
  BY DEF Inv, Printed
<1> QED BY <1>1, <1>2, TypeParts DEF Inv, Typed

Early == {"opening", "upgraded", "subscribed", "dropped"}
Late == {"dropped", "replay", "live"}

\* A connect that moves on keeps the terminal informed.
Onward(d) ==
  /\ connect'[d].ended = connect[d].ended
  /\ connect'[d].pc \in OnSocket <=> connect[d].pc \in OnSocket
  /\ connect[d].pc \in InPage => connect'[d].pc \in InPage
  /\ connect[d].pc \in Early => connect'[d].pc \in Early
  /\ connect[d].pc \in Late => connect'[d].pc \in Late

LEMMA KnowsKept ==
  ASSUME Inv, UNCHANGED <<tab, stray>>,
         \A d \in Connects :
           \/ Onward(d)
           \/ d # tab.socket /\ connect[d].pc \notin InPage /\ connect'[d].pc \notin OnSocket,
         closing'.pc # "idle" => closing'.session # None
  PROVE  Knows'
<1>1. tab.socket \in Connects \cup {None}
  BY InvTyped DEF Typed, TabSet
<1>2. Awaited(Early) => Awaited(Early)' /\ connect'[tab.socket].ended = connect[tab.socket].ended
  BY <1>1 DEF Awaited, Onward
<1>3. Awaited(Late) => Awaited(Late)' /\ connect'[tab.socket].ended = connect[tab.socket].ended
  BY <1>1 DEF Awaited, Onward
<1>4. (tab.tracked => tab.timers > 0) /\ (tab.socket # None => connect[tab.socket].pc \in OnSocket)
  BY DEF Inv, Knows
<1>5. tab'.socket # None => connect'[tab'.socket].pc \in OnSocket
  BY <1>1, <1>4 DEF Onward
<1>6. ~stray => \A c \in Connects : connect[c].pc \in OnSocket => tab.socket = c
  BY DEF Inv, Knows
<1>7. ~stray' => \A c \in Connects : connect'[c].pc \in OnSocket => tab'.socket = c
  BY <1>6 DEF Onward
<1>8. tab.status = "connecting" =>
        \/ tab.timers > 0 \/ \E c \in Connects : connect[c].pc \in InPage
        \/ Awaited(Early) /\ ~connect[tab.socket].ended
  BY DEF Inv, Knows, Early
<1>9. (tab.status = "connecting" =>
        \/ tab.timers > 0 \/ \E c \in Connects : connect[c].pc \in InPage
        \/ Awaited(Early) /\ ~connect[tab.socket].ended)'
  BY <1>2, <1>8 DEF Onward
<1>10. tab.status = "connected" /\ ~stray => Awaited(Late) /\ ~connect[tab.socket].ended
  BY DEF Inv, Knows, Late
<1>11. (tab.status = "connected" /\ ~stray => Awaited(Late) /\ ~connect[tab.socket].ended)'
  BY <1>3, <1>10
<1> QED BY <1>4, <1>5, <1>7, <1>9, <1>11 DEF Knows, Early, Late

LEMMA Still ==
  ASSUME NEW d, connect'[d].pc = connect[d].pc, connect'[d].ended = connect[d].ended
  PROVE  Onward(d)
BY DEF Onward

\* The terminal leaves its socket or keeps it, and does not claim to be connected.
LEMMA KnowsSettled ==
  ASSUME Inv, stray' = stray, closing'.pc # "idle" => closing'.session # None,
         \/ tab'.socket = None
         \/ tab'.socket = tab.socket /\ (tab.socket # None => connect'[tab.socket].pc \in OnSocket),
         \A d \in Connects : connect'[d].pc \in OnSocket =>
           connect[d].pc \in OnSocket /\ (tab'.socket = tab.socket \/ d # tab.socket),
         tab'.tracked => tab'.timers > 0,
         tab'.status = "connecting" =>
           tab'.timers > 0 \/ \E c \in Connects : connect'[c].pc \in InPage,
         tab'.status = "connected" => stray
  PROVE  Knows'
<1>1. ~stray => \A c \in Connects : connect[c].pc \in OnSocket => tab.socket = c
  BY DEF Inv, Knows
<1>2. ~stray' => \A c \in Connects : connect'[c].pc \in OnSocket => tab'.socket = c
  BY <1>1
<1>3. tab'.socket # None => connect'[tab'.socket].pc \in OnSocket
  OBVIOUS
<1> QED BY <1>2, <1>3 DEF Knows

-----------------------------------------------------------------------------
(* Receivers *)

Messages == Chunks \cup {Closed}
Items(q) == {q[i] : i \in DOMAIN q}

LEMMA CoveredItems ==
  ASSUME NEW c
  PROVE  /\ Covered(c) = connect[c].shown \cup (Items(connect[c].feed) \ {Closed})
         /\ Covered(c)' = connect'[c].shown \cup (Items(connect'[c].feed) \ {Closed})
         /\ EndComes(c) <=> \/ Closed \in Items(connect[c].feed)
                            \/ session[connect[c].session].reader \in Telling
         /\ EndComes(c)' <=> \/ Closed \in Items(connect'[c].feed)
                             \/ session'[connect'[c].session].reader \in Telling
BY DEF Covered, Items, EndComes

LEMMA AppendItems ==
  ASSUME NEW q \in Seq(Messages), NEW m \in Messages
  PROVE  Items(Append(q, m)) = Items(q) \cup {m}
<1> DEFINE r == Append(q, m)
<1>1. /\ DOMAIN q = 1 .. Len(q) /\ DOMAIN r = 1 .. (Len(q) + 1) /\ Len(q) \in Nat
      /\ \A i \in 1 .. Len(q) : r[i] = q[i]
      /\ r[Len(q) + 1] = m
  OBVIOUS
<1> HIDE DEF r
<1>2. Items(q) \cup {m} \subseteq Items(r)
  BY <1>1 DEF Items
<1>3. ASSUME NEW i \in DOMAIN r PROVE r[i] \in Items(q) \cup {m}
  BY <1>1, <1>3 DEF Items
<1>4. Items(r) \subseteq Items(q) \cup {m}
  BY <1>3 DEF Items
<1> QED BY <1>2, <1>4 DEF r

LEMMA TailItems ==
  ASSUME NEW q \in Seq(Messages), q # <<>>
  PROVE  /\ Head(q) \in Messages /\ Tail(q) \in Seq(Messages) /\ Len(Tail(q)) = Len(q) - 1
         /\ Items(q) = {Head(q)} \cup Items(Tail(q))
<1> DEFINE r == Tail(q)
<1>1. /\ Len(q) \in Nat \ {0} /\ DOMAIN q = 1 .. Len(q) /\ DOMAIN r = 1 .. (Len(q) - 1)
      /\ \A i \in 1 .. (Len(q) - 1) : r[i] = q[i + 1]
      /\ Head(q) = q[1] /\ r \in Seq(Messages) /\ Len(r) = Len(q) - 1 /\ Head(q) \in Messages
  OBVIOUS
<1> HIDE DEF r
<1>2. {Head(q)} \cup Items(r) \subseteq Items(q)
  BY <1>1 DEF Items
<1>3. ASSUME NEW i \in DOMAIN q PROVE q[i] \in {Head(q)} \cup Items(r)
  <2>1. CASE i = 1
    BY <1>1, <2>1
  <2>2. CASE i # 1
    <3>1. i - 1 \in DOMAIN r /\ r[i - 1] = q[i]
      BY <1>1, <1>3, <2>2
    <3> QED BY <3>1 DEF Items
  <2> QED BY <2>1, <2>2
<1>4. Items(q) \subseteq {Head(q)} \cup Items(r)
  BY <1>3 DEF Items
<1> QED BY <1>1, <1>2, <1>4 DEF r

\* What a broadcast leaves alone, and what a receiver then has.
Received(c, m) ==
  /\ connect'[c].pc = connect[c].pc /\ connect'[c].session = connect[c].session
  /\ connect'[c].shown = connect[c].shown /\ connect'[c].ended = connect[c].ended
  /\ connect'[c].late = connect[c].late
  /\ m \in Items(connect'[c].feed)
  /\ ~connect'[c].lagged =>
       ~connect[c].lagged /\ Items(connect'[c].feed) = Items(connect[c].feed) \cup {m}

LEMMA SentParts ==
  ASSUME Typed, NEW s \in Sessions, NEW m \in Messages, connect' = Sent(s, m)
  PROVE  /\ connect' \in [Connects -> ConnectSet]
         /\ \A c \in Connects : Fits(connect'[c].feed)
         /\ \A c \in Connects : c \notin Subscribers(s) => connect'[c] = connect[c]
         /\ \A c \in Subscribers(s) : Received(c, m)
<1>1. ASSUME NEW c \in Connects, c \notin Subscribers(s)
      PROVE  connect'[c] \in ConnectSet /\ Fits(connect'[c].feed) /\ connect'[c] = connect[c]
  BY <1>1 DEF Sent, Typed
<1>2. ASSUME NEW c \in Connects, c \in Subscribers(s)
      PROVE  connect'[c] \in ConnectSet /\ Fits(connect'[c].feed) /\ Received(c, m)
  <2> DEFINE q == connect[c].feed
  <2>1. connect[c] \in ConnectSet /\ Fits(q) /\ q \in Seq(Messages) /\ Len(q) \in Nat
    BY DEF Typed, Fits, Messages
  <2>2. CASE Len(q) < Capacity
    <3>1. connect'[c] = [connect[c] EXCEPT !.feed = Append(q, m)]
      BY <1>2, <2>2 DEF Sent
    <3>2. Append(q, m) \in Seq(Messages) /\ Len(Append(q, m)) <= Capacity
      BY <2>1, <2>2, Numbers
    <3>3. connect'[c] \in ConnectSet
      BY <2>1, <3>1, <3>2 DEF ConnectSet, Messages
    <3>4. connect'[c].feed = Append(q, m)
      BY <2>1, <3>1 DEF ConnectSet
    <3>5. /\ connect'[c].pc = connect[c].pc /\ connect'[c].session = connect[c].session
          /\ connect'[c].shown = connect[c].shown /\ connect'[c].ended = connect[c].ended
          /\ connect'[c].late = connect[c].late /\ connect'[c].lagged = connect[c].lagged
      BY <2>1, <3>1 DEF ConnectSet
    <3>6. Items(connect'[c].feed) = Items(q) \cup {m}
      BY <2>1, <3>4, AppendItems
    <3>7. Received(c, m)
      BY <3>5, <3>6 DEF Received
    <3>8. Fits(connect'[c].feed)
      BY <3>2, <3>4 DEF Fits, Messages
    <3> QED BY <3>3, <3>7, <3>8
  <2>3. CASE ~(Len(q) < Capacity)
    <3>1. connect'[c] = [connect[c] EXCEPT !.feed = Append(Tail(q), m), !.lagged = TRUE]
      BY <1>2, <2>3 DEF Sent
    <3>2. q # <<>>
      BY <2>1, <2>3, Numbers
    <3>3. Tail(q) \in Seq(Messages) /\ Len(Tail(q)) = Len(q) - 1
      BY <2>1, <3>2, TailItems
    <3>4. Append(Tail(q), m) \in Seq(Messages) /\ Len(Append(Tail(q), m)) <= Capacity
      BY <2>1, <3>3, Numbers DEF Fits
    <3>5. connect'[c] \in ConnectSet
      BY <2>1, <3>1, <3>4 DEF ConnectSet, Messages
    <3>6. connect'[c].feed = Append(Tail(q), m)
      BY <2>1, <3>1 DEF ConnectSet
    <3>7. /\ connect'[c].pc = connect[c].pc /\ connect'[c].session = connect[c].session
          /\ connect'[c].shown = connect[c].shown /\ connect'[c].ended = connect[c].ended
          /\ connect'[c].late = connect[c].late /\ connect'[c].lagged
      BY <2>1, <3>1 DEF ConnectSet
    <3>8. m \in Items(connect'[c].feed)
      BY <3>3, <3>6, AppendItems
    <3>9. Received(c, m)
      BY <3>7, <3>8 DEF Received
    <3>10. Fits(connect'[c].feed)
      BY <3>4, <3>6 DEF Fits, Messages
    <3> QED BY <3>5, <3>9, <3>10
  <2> QED BY <2>2, <2>3
<1>3. \A c \in Connects : connect'[c] \in ConnectSet /\ Fits(connect'[c].feed)
  BY <1>1, <1>2
<1>4. connect' = [c \in Connects |-> connect'[c]]
  BY DEF Sent
<1>5. connect' \in [Connects -> ConnectSet]
  BY <1>3, <1>4
<1>6. Subscribers(s) \subseteq Connects
  BY DEF Subscribers
<1> QED BY <1>1, <1>2, <1>3, <1>5, <1>6

-----------------------------------------------------------------------------
(* The steps of a session *)

\* A step of session s: what does not receive from it is left alone, and of what does
\* the step must say what it has and what it will be told.
LEMMA SessionStep ==
  ASSUME Inv, NEW s \in Sessions, Typed',
         \A q \in Sessions : q # s => session'[q] = session[q],
         session'[s].status = "none" => session[s].status = "none",
         \A q \in Sessions : Printed(q)',
         \A c \in Connects : c \notin Subscribers(s) => connect'[c] = connect[c],
         \A c \in Subscribers(s) :
           /\ connect'[c].pc = connect[c].pc /\ connect'[c].session = connect[c].session
           /\ connect'[c].shown = connect[c].shown /\ connect'[c].ended = connect[c].ended
           /\ Follows(c)' /\ Ends(c)',
         UNCHANGED <<tab, stray>>, closing'.pc # "idle" => closing'.session # None
  PROVE  Inv'
<1>1. ASSUME NEW c \in Connects PROVE Shape(c)' /\ Follows(c)' /\ Ends(c)' /\ Onward(c)
  <2>1. Shape(c) /\ Follows(c) /\ Ends(c)
    BY DEF Inv
  <2>2. connect[c].pc \in {"open", "opening"} \cup OnServer =>
          connect[c].session \in Sessions /\ session[connect[c].session].status # "none"
    BY SessionOf
  <2>3. connect[c].pc \in {"open", "opening"} \cup OnServer =>
          session'[connect[c].session].status # "none"
    BY <2>2
  <2>4. CASE c \in Subscribers(s)
    <3>1. connect[c].pc \in Listening
      BY <2>4 DEF Subscribers, Listening
    <3>2. Shape(c)'
      BY <2>1, <2>3, <2>4, <3>1 DEF Shape
    <3>3. Onward(c)
      BY <2>4, Still
    <3> QED BY <2>4, <3>2, <3>3
  <2>5. CASE c \notin Subscribers(s)
    <3>1. connect'[c] = connect[c]
      BY <2>5
    <3>2. Shape(c)' /\ Onward(c)
      BY <2>1, <2>3, <3>1, Still DEF Shape
    <3>3. CASE connect[c].pc \notin Listening
      BY <3>1, <3>2, <3>3 DEF Follows, Ends
    <3>4. CASE connect[c].pc \in Listening
      <4>1. session'[connect[c].session] = session[connect[c].session]
        BY <2>2, <2>5, <3>4, ListeningOnServer DEF Subscribers, Listening
      <4>2. Covered(c)' = Covered(c) /\ Said(connect[c].session)' = Said(connect[c].session)
        BY <3>1, <4>1 DEF Covered, Said
      <4>3. EndComes(c)' <=> EndComes(c)
        BY <3>1, <4>1 DEF EndComes
      <4> QED BY <2>1, <3>1, <3>2, <4>1, <4>2, <4>3 DEF Follows, Ends
    <3> QED BY <3>3, <3>4
  <2> QED BY <2>4, <2>5
<1>2. Knows'
  BY <1>1, KnowsKept
<1> QED BY <1>1, <1>2, TypeParts DEF Inv, Typed

LEMMA SubscriberParts ==
  ASSUME Inv, NEW s \in Sessions, NEW c \in Subscribers(s)
  PROVE  /\ c \in Connects /\ connect[c].session = s /\ connect[c].pc \in Listening
         /\ Shape(c) /\ Follows(c) /\ Ends(c)
BY DEF Subscribers, Listening, Inv

LEMMA SessionParts ==
  ASSUME Inv, NEW s \in Sessions
  PROVE  /\ session[s] \in SessionSet /\ session[s].output \in Nat
         /\ session[s].output <= MaxOutput /\ Printed(s)
BY InvTyped, Numbers DEF Typed, Inv, SessionSet

\* A step that replaces one session.
LEMMA OneSession ==
  ASSUME Typed, NEW s \in Sessions, NEW v \in SessionSet, session' = [session EXCEPT ![s] = v]
  PROVE  /\ session' \in [Sessions -> SessionSet]
         /\ session'[s] = v
         /\ \A q \in Sessions : q # s => session'[q] = session[q]
BY DEF Typed

LEMMA OutputKeeps ==
  ASSUME Inv, NEW s \in Sessions, Output(s)
  PROVE  Inv'
<1> DEFINE v == [session[s] EXCEPT !.output = @ + 1, !.reader = "send"]
<1>1. Typed
  BY InvTyped
<1>2. session[s] \in SessionSet /\ session[s].output \in Nat /\ Printed(s) /\ counts \in CountSet
  BY <1>1, SessionParts DEF Typed
<1>3. counts.chunks < MaxOutput /\ counts' = [counts EXCEPT !.chunks = @ + 1]
  BY DEF Output
<1>4. counts' \in CountSet /\ counts'.chunks = counts.chunks + 1 /\ counts.chunks \in Nat
  BY <1>2, <1>3, Numbers DEF CountSet
<1>5. session' = [session EXCEPT ![s] = v] /\ session[s].reader = "read"
  BY DEF Output
<1>6. /\ v \in SessionSet /\ v.status = session[s].status
      /\ v.reader = "send" /\ v.output = session[s].output + 1
  <2>1. session[s].output + 1 \in 0 .. MaxOutput
    BY <1>2, <1>3, <1>4, Numbers DEF Printed
  <2> QED BY <1>2, <2>1 DEF SessionSet
<1> HIDE DEF v
<1>7. /\ session' \in [Sessions -> SessionSet] /\ session'[s] = v
      /\ \A q \in Sessions : q # s => session'[q] = session[q]
  BY <1>1, <1>5, <1>6, OneSession
<1>8. Typed'
  BY <1>1, <1>4, <1>7 DEF Typed, Output
<1>9. ASSUME NEW q \in Sessions PROVE Printed(q)'
  <2>1. Printed(q) /\ session[q].output \in Nat
    BY SessionParts
  <2> QED BY <1>2, <1>4, <1>6, <1>7, <2>1 DEF Printed
<1>10. Said(s)' = Said(s)
  BY <1>2, <1>5, <1>6, <1>7 DEF Said
<1>11. ASSUME NEW c \in Subscribers(s) PROVE Follows(c)' /\ Ends(c)'
  <2>1. c \in Connects /\ connect[c].session = s /\ Follows(c)
    BY SubscriberParts
  <2>2. connect' = connect
    BY DEF Output
  <2>3. Covered(c)' = Covered(c)
    BY <2>2 DEF Covered
  <2> QED BY <1>6, <1>7, <1>10, <2>1, <2>2, <2>3 DEF Follows, Ends, EndComes, Telling
<1>12. UNCHANGED <<tab, stray, closing, connect>>
  BY DEF Output
<1>13. closing.pc # "idle" => closing.session # None
  BY DEF Inv, Knows
<1> QED BY <1>6, <1>7, <1>8, <1>9, <1>11, <1>12, <1>13, SessionStep

LEMMA BroadcastKeeps ==
  ASSUME Inv, NEW s \in Sessions, Broadcast(s)
  PROVE  Inv'
<1> DEFINE v == [session[s] EXCEPT !.reader = "read"]
           m == session[s].output
<1>1. Typed
  BY InvTyped
<1>2. session[s] \in SessionSet /\ m \in Nat /\ Printed(s) /\ m <= MaxOutput
  BY SessionParts
<1>3. session' = [session EXCEPT ![s] = v] /\ session[s].reader = "send" /\ connect' = Sent(s, m)
  BY DEF Broadcast
<1>4. m \in Chunks /\ m \in Messages /\ m # Closed
  BY <1>2, <1>3, Numbers DEF Printed, Chunks, Messages, Closed
<1>5. v \in SessionSet /\ v.status = session[s].status /\ v.reader = "read" /\ v.output = m
  BY <1>2 DEF SessionSet
<1> HIDE DEF v
<1>6. /\ session' \in [Sessions -> SessionSet] /\ session'[s] = v
      /\ \A q \in Sessions : q # s => session'[q] = session[q]
  BY <1>1, <1>3, <1>5, OneSession
<1>7. /\ connect' \in [Connects -> ConnectSet]
      /\ \A c \in Connects : Fits(connect'[c].feed)
      /\ \A c \in Connects : c \notin Subscribers(s) => connect'[c] = connect[c]
      /\ \A c \in Subscribers(s) : Received(c, m)
  BY <1>1, <1>3, <1>4, SentParts
<1>8. Typed'
  BY <1>1, <1>6, <1>7 DEF Typed, Broadcast
<1>9. ASSUME NEW q \in Sessions PROVE Printed(q)'
  <2>1. Printed(q)
    BY SessionParts
  <2>2. counts' = counts
    BY DEF Broadcast
  <2> QED BY <1>2, <1>5, <1>6, <2>1, <2>2 DEF Printed
<1>10. Said(s) = m - 1 /\ Said(s)' = m
  BY <1>3, <1>5, <1>6 DEF Said
<1>11. ASSUME NEW c \in Subscribers(s) PROVE Follows(c)' /\ Ends(c)'
  <2>1. c \in Connects /\ connect[c].session = s /\ connect[c].pc \in Listening /\ Follows(c)
    BY SubscriberParts
  <2>2. Received(c, m)
    BY <1>7
  <2>3. Ends(c)'
    BY <1>5, <1>6, <2>1, <2>2 DEF Ends, EndComes, Telling, Received
  <2>4. CASE ~connect'[c].lagged
    <3>1. Covered(c)' = Covered(c) \cup {m} /\ ~connect[c].lagged
      BY <1>4, <2>2, <2>4, CoveredItems DEF Received
    <3>2. \A j \in Covered(c) : \A k \in j .. (m - 1) : k \in Covered(c)
      BY <1>10, <2>1, <3>1 DEF Follows
    <3>3. ASSUME NEW j \in Covered(c)', NEW k \in j .. m PROVE k \in Covered(c)'
      <4>1. connect[c].shown \subseteq Chunks /\ connect[c].feed \in Seq(Messages)
        BY <1>1, <2>1 DEF Typed, ConnectSet, Messages
      <4>2. Covered(c) \subseteq Chunks
        BY <4>1, CoveredItems DEF Items, Messages
      <4>3. j \in Nat
        BY <1>2, <3>1, <3>3, <4>2, Numbers DEF Chunks
      <4>4. CASE k = m
        BY <3>1, <4>4
      <4>5. CASE k # m
        <5>1. k \in j .. (m - 1) /\ j # m
          BY <1>2, <3>3, <4>3, <4>5
        <5>2. j \in Covered(c)
          BY <3>1, <3>3, <5>1
        <5> QED BY <3>1, <3>2, <5>1, <5>2
      <4> QED BY <4>4, <4>5
    <3> QED BY <1>10, <2>1, <2>2, <2>3, <3>1, <3>3 DEF Follows, Received
  <2>5. CASE connect'[c].lagged
    BY <2>3, <2>5 DEF Follows
  <2> QED BY <2>4, <2>5
<1>12. UNCHANGED <<tab, stray, closing>>
  BY DEF Broadcast
<1>13. closing.pc # "idle" => closing.session # None
  BY DEF Inv, Knows
<1>14. \A c \in Subscribers(s) :
           /\ connect'[c].pc = connect[c].pc /\ connect'[c].session = connect[c].session
           /\ connect'[c].shown = connect[c].shown /\ connect'[c].ended = connect[c].ended
  BY <1>7 DEF Received
<1> QED BY <1>5, <1>6, <1>7, <1>8, <1>9, <1>11, <1>12, <1>13, <1>14, SessionStep

\* A session that is closed says so to all that receive.
LEMMA ClosedSent ==
  ASSUME Inv, NEW s \in Sessions, connect' = Sent(s, Closed), Said(s)' = Said(s),
         NEW c \in Subscribers(s)
  PROVE  Follows(c)' /\ Ends(c)'
<1>1. Typed
  BY InvTyped
<1>2. Received(c, Closed)
  BY <1>1, SentParts DEF Messages
<1>3. c \in Connects /\ connect[c].session = s /\ connect[c].pc \in Listening /\ Follows(c)
  BY SubscriberParts
<1>4. Ends(c)'
  BY <1>2, CoveredItems DEF Ends, Received
<1>5. ~connect'[c].lagged => Covered(c)' = Covered(c) /\ ~connect[c].lagged
  <2>1. \A X : (X \cup {Closed}) \ {Closed} = X \ {Closed}
    OBVIOUS
  <2>2. ~connect'[c].lagged =>
          /\ ~connect[c].lagged /\ connect'[c].shown = connect[c].shown
          /\ Items(connect'[c].feed) \ {Closed} = Items(connect[c].feed) \ {Closed}
    BY <1>2, <2>1 DEF Received
  <2> QED BY <2>2, CoveredItems
<1> QED BY <1>2, <1>3, <1>4, <1>5 DEF Follows, Received

\* A step that closes session s and says so or will, or ends its reader.
LEMMA SessionCloses ==
  ASSUME Inv, NEW s \in Sessions, NEW v \in SessionSet, session' = [session EXCEPT ![s] = v],
         v.status = "none" => session[s].status = "none",
         v.output = session[s].output, v.reader = "send" <=> session[s].reader = "send",
         \/ connect' = Sent(s, Closed)
         \/ /\ connect' = connect /\ v.status = session[s].status
            /\ session[s].reader \notin Telling
         \/ connect' = connect /\ v.reader \in Telling,
         store' \subseteq Sessions, UNCHANGED <<tickets, tab, poll, stray, counts>>,
         closing' \in ClosingSet, closing'.pc # "idle" => closing'.session # None
  PROVE  Inv'
<1>1. Typed
  BY InvTyped
<1>2. /\ session' \in [Sessions -> SessionSet] /\ session'[s] = v
      /\ \A q \in Sessions : q # s => session'[q] = session[q]
  BY <1>1, OneSession
<1>3. Said(s)' = Said(s)
  BY <1>2 DEF Said
<1>4. ASSUME NEW q \in Sessions PROVE Printed(q)'
  <2>1. Printed(q)
    BY SessionParts
  <2> QED BY <1>2, <2>1 DEF Printed
<1>5. CASE connect' = Sent(s, Closed)
  <2>1. /\ connect' \in [Connects -> ConnectSet]
        /\ \A c \in Connects : Fits(connect'[c].feed)
        /\ \A c \in Connects : c \notin Subscribers(s) => connect'[c] = connect[c]
        /\ \A c \in Subscribers(s) : Received(c, Closed)
    BY <1>1, <1>5, SentParts DEF Messages
  <2>2. Typed'
    BY <1>1, <1>2, <2>1 DEF Typed
  <2>3. \A c \in Subscribers(s) :
           /\ connect'[c].pc = connect[c].pc /\ connect'[c].session = connect[c].session
           /\ connect'[c].shown = connect[c].shown /\ connect'[c].ended = connect[c].ended
    BY <2>1 DEF Received
  <2>4. \A c \in Subscribers(s) : Follows(c)' /\ Ends(c)'
    BY <1>3, <1>5, ClosedSent
  <2> QED BY <1>2, <1>4, <2>1, <2>2, <2>3, <2>4, SessionStep
<1>6. CASE connect' = connect
  <2>1. Typed'
    BY <1>1, <1>2, <1>6 DEF Typed
  <2>2. ASSUME NEW c \in Subscribers(s) PROVE Follows(c)' /\ Ends(c)'
    <3>1. c \in Connects /\ connect[c].session = s /\ Follows(c) /\ Ends(c)
      BY SubscriberParts
    <3>2. Covered(c)' = Covered(c)
      BY <1>6 DEF Covered
    <3>3. Follows(c)'
      BY <1>3, <1>6, <3>1, <3>2 DEF Follows
    <3>4. CASE v.status = session[s].status /\ session[s].reader \notin Telling
      <4>1. EndComes(c) => EndComes(c)'
        BY <1>6, <3>1, <3>4 DEF EndComes
      <4> QED BY <1>2, <1>6, <3>1, <3>3, <3>4, <4>1 DEF Ends
    <3>5. CASE v.reader \in Telling
      BY <1>2, <1>6, <3>1, <3>3, <3>5 DEF Ends, EndComes
    <3>6. CASE connect' = Sent(s, Closed)
      BY <1>3, <3>6, ClosedSent
    <3> QED BY <3>4, <3>5, <3>6
  <2> QED BY <1>2, <1>4, <1>6, <2>1, <2>2, SessionStep
<1> QED BY <1>5, <1>6

LEMMA EofKeeps ==
  ASSUME Inv, NEW s \in Sessions, Eof(s)
  PROVE  Inv'
<1> DEFINE v == [session[s] EXCEPT !.status = "closed", !.reader = "eof"]
<1>1. session[s] \in SessionSet
  BY SessionParts
<1>2. session' = [session EXCEPT ![s] = v] /\ session[s].reader = "read"
  BY DEF Eof
<1>3. /\ v \in SessionSet /\ v.status = "closed" /\ v.reader = "eof"
      /\ v.output = session[s].output
  BY <1>1 DEF SessionSet
<1> HIDE DEF v
<1>4. closing.pc # "idle" => closing.session # None
  BY DEF Inv, Knows
<1> QED BY <1>2, <1>3, <1>4, InvTyped, SessionCloses DEF Eof, Typed, Telling

LEMMA EofSaidKeeps ==
  ASSUME Inv, NEW s \in Sessions, EofSaid(s)
  PROVE  Inv'
<1> DEFINE v == [session[s] EXCEPT !.reader = "remove"]
<1>1. session[s] \in SessionSet
  BY SessionParts
<1>2. session' = [session EXCEPT ![s] = v] /\ session[s].reader = "eof"
  BY DEF EofSaid
<1>3. /\ v \in SessionSet /\ v.status = session[s].status /\ v.reader = "remove"
      /\ v.output = session[s].output
  BY <1>1 DEF SessionSet
<1> HIDE DEF v
<1>4. closing.pc # "idle" => closing.session # None
  BY DEF Inv, Knows
<1> QED BY <1>2, <1>3, <1>4, InvTyped, SessionCloses DEF EofSaid, Typed

LEMMA ReaderRemoveKeeps ==
  ASSUME Inv, NEW s \in Sessions, ReaderRemove(s)
  PROVE  Inv'
<1> DEFINE v == [session[s] EXCEPT !.reader = "ended"]
<1>1. session[s] \in SessionSet
  BY SessionParts
<1>2. session' = [session EXCEPT ![s] = v] /\ session[s].reader = "remove"
  BY DEF ReaderRemove
<1>3. /\ v \in SessionSet /\ v.status = session[s].status /\ v.reader = "ended"
      /\ v.output = session[s].output
  BY <1>1 DEF SessionSet
<1> HIDE DEF v
<1>4. closing.pc # "idle" => closing.session # None
  BY DEF Inv, Knows
<1> QED BY <1>2, <1>3, <1>4, InvTyped, SessionCloses DEF ReaderRemove, Typed, Telling

LEMMA CloseKillKeeps == Inv /\ CloseKill => Inv'
<1> SUFFICES ASSUME Inv, CloseKill PROVE Inv'
  OBVIOUS
<1> DEFINE s == closing.session
           v == [session[s] EXCEPT !.status = "closed"]
<1>1. closing \in ClosingSet /\ closing.pc = "kill" /\ s # None
  BY InvTyped DEF CloseKill, Inv, Knows, Typed
<1>2. s \in Sessions
  BY <1>1 DEF ClosingSet
<1>3. session[s] \in SessionSet
  BY <1>2, SessionParts
<1>4. session' = [session EXCEPT ![s] = v] /\ connect' = Sent(s, Closed)
  BY DEF CloseKill
<1>5. /\ v \in SessionSet /\ v.status = "closed" /\ v.reader = session[s].reader
      /\ v.output = session[s].output
  BY <1>3 DEF SessionSet
<1>6. closing' \in ClosingSet /\ closing'.session = s
  BY <1>1 DEF CloseKill, ClosingSet
<1>7. /\ UNCHANGED <<tickets, tab, poll, stray, counts>> /\ store' = store
      /\ store \subseteq Sessions
  BY InvTyped DEF CloseKill, Typed
<1> HIDE DEF v, s
<1> QED BY <1>1, <1>2, <1>4, <1>5, <1>6, <1>7, SessionCloses

-----------------------------------------------------------------------------
(* The requests of a connect *)

\* What a step may rely on in a connect, its terminal and what is being closed.
LEMMA ConnectParts ==
  ASSUME Inv, NEW c \in Connects
  PROVE  /\ Typed /\ connect[c] \in ConnectSet /\ Fits(connect[c].feed)
         /\ Shape(c) /\ Follows(c) /\ Ends(c)
         /\ closing.pc # "idle" => closing.session # None
         /\ tab \in TabSet /\ (tab.tracked => tab.timers > 0)
         /\ tab.socket # None => connect[tab.socket].pc \in OnSocket
BY InvTyped DEF Inv, Knows, Typed

\* A connect that takes its next step, with the terminal as it is.
LEMMA ConnectMoves ==
  ASSUME Inv, NEW c \in Connects, NEW v \in ConnectSet, Fits(v.feed),
         connect' = [connect EXCEPT ![c] = v],
         \/ v.pc \notin Listening /\ Shape(c)'
         \/ Shape(c)' /\ Follows(c)' /\ Ends(c)',
         v.ended = connect[c].ended,
         v.pc \in OnSocket <=> connect[c].pc \in OnSocket,
         connect[c].pc \in InPage => v.pc \in InPage,
         connect[c].pc \in Early => v.pc \in Early,
         connect[c].pc \in Late => v.pc \in Late,
         store' \subseteq Sessions, tickets' \subseteq Connects, counts' \in CountSet,
         counts'.chunks = counts.chunks, UNCHANGED <<session, tab, closing, poll, stray>>
  PROVE  Inv'
<1>1. Typed /\ (closing.pc # "idle" => closing.session # None)
  BY ConnectParts
<1>2. /\ connect' \in [Connects -> ConnectSet]
      /\ \A d \in Connects : Fits(connect'[d].feed)
      /\ connect'[c] = v
      /\ \A d \in Connects : d # c => connect'[d] = connect[d]
  BY <1>1, OneConnect
<1>3. Typed'
  BY <1>1, <1>2 DEF Typed
<1>4. ASSUME NEW d \in Connects PROVE Onward(d)
  <2>1. CASE d = c
    BY <1>2, <2>1 DEF Onward
  <2>2. CASE d # c
    BY <1>2, <2>2, Still
  <2> QED BY <2>1, <2>2
<1>5. Knows'
  BY <1>1, <1>4, KnowsKept
<1> QED BY <1>2, <1>3, <1>5, SessionsStay

LEMMA RetriesParts ==
  ASSUME NEW t \in TabSet, t.status = "detached", NEW u \in Retries(t)
  PROVE  /\ u \in TabSet /\ u.socket = t.socket /\ u.session = t.session
         /\ \/ u.status = "detached" /\ u.timers = t.timers /\ u.tracked = t.tracked
            \/ u.status = "connecting" /\ u.timers > 0
<1>1. CASE u = t
  BY <1>1
<1>2. CASE u # t
  <2> DEFINE a == t.attempts + 1
             n == t.timers + 1
  <2>1. u = [t EXCEPT !.status = "connecting", !.attempts = a, !.timers = n, !.tracked = TRUE]
    BY <1>2, Zenon DEF Retries
  <2>2. ~(a > MaxAttempts)
    BY <1>2 DEF Retries
  <2>3. a \in 0 .. MaxAttempts /\ n \in Nat /\ n > 0
    BY <2>2, Numbers DEF TabSet
  <2> HIDE DEF a, n
  <2>4. u \in TabSet
    BY <2>1, <2>3 DEF TabSet
  <2> QED BY <2>1, <2>3, <2>4 DEF TabSet
<1> QED BY <1>1, <1>2

LEMMA ConnectFailsKeeps ==
  ASSUME Inv, NEW c \in Connects, connect[c].pc \in {"create", "ticket"}, ConnectFails(c),
         store' \subseteq Sessions, counts' \in CountSet, counts'.chunks = counts.chunks,
         UNCHANGED <<session, tickets, closing, poll, stray>>
  PROVE  Inv'
<1>1. Typed /\ (closing.pc # "idle" => closing.session # None)
      /\ tab \in TabSet /\ (tab.tracked => tab.timers > 0)
      /\ (tab.socket # None => connect[tab.socket].pc \in OnSocket)
  BY ConnectParts
<1>2. connect' = [connect EXCEPT ![c] = NoConnect]
  BY DEF ConnectFails, Forget
<1>3. NoConnect \in ConnectSet /\ Fits(NoConnect.feed) /\ NoConnect.pc = "none"
  BY NoConnectParts, EmptyFits
<1>4. /\ connect' \in [Connects -> ConnectSet]
      /\ \A d \in Connects : Fits(connect'[d].feed)
      /\ connect'[c] = NoConnect
      /\ \A d \in Connects : d # c => connect'[d] = connect[d]
  BY <1>1, <1>2, <1>3, OneConnect
<1>5. /\ tab' \in TabSet /\ tab'.socket = tab.socket /\ (tab'.tracked => tab'.timers > 0)
      /\ tab'.status # "connected" /\ (tab'.status = "connecting" => tab'.timers > 0)
  <2>1. CASE connect[c].attempt = 0
    <3>1. tab' = [tab EXCEPT !.status = "error"]
      BY <2>1 DEF ConnectFails
    <3> QED BY <1>1, <3>1 DEF TabSet
  <2>2. CASE connect[c].attempt # 0
    <3> DEFINE t == [tab EXCEPT !.status = "detached"]
    <3>1. tab' \in Retries(t)
      BY <2>2 DEF ConnectFails
    <3>2. /\ t \in TabSet /\ t.status = "detached" /\ t.socket = tab.socket
          /\ t.timers = tab.timers /\ t.tracked = tab.tracked
      BY <1>1 DEF TabSet
    <3> HIDE DEF t
    <3>3. /\ tab' \in TabSet /\ tab'.socket = t.socket
          /\ \/ tab'.status = "detached" /\ tab'.timers = t.timers /\ tab'.tracked = t.tracked
             \/ tab'.status = "connecting" /\ tab'.timers > 0
      BY <3>1, <3>2, RetriesParts
    <3> QED BY <1>1, <3>2, <3>3
  <2> QED BY <2>1, <2>2
<1>6. Typed'
  BY <1>1, <1>4, <1>5 DEF Typed
<1>7. connect[c].pc \notin OnSocket /\ connect'[c].pc \notin OnSocket
  BY <1>3, <1>4 DEF OnSocket, OnServer
<1>8. Knows'
  <2>1. \A d \in Connects : connect'[d].pc \in OnSocket => connect[d].pc \in OnSocket
    BY <1>4, <1>7
  <2>2. tab.socket \in Connects \cup {None}
    BY <1>1 DEF TabSet
  <2>3. tab.socket # None => connect'[tab.socket].pc \in OnSocket
    BY <1>1, <1>4, <1>7, <2>2
  <2> QED BY <1>1, <1>5, <2>1, <2>3, KnowsSettled
<1>9. \A d \in Connects :
        \/ connect'[d] = connect[d]
        \/ connect'[d].pc \notin Listening /\ Shape(d)'
  BY <1>4, EmptyConnect
<1> QED BY <1>6, <1>8, <1>9, SessionsStay

LEMMA RequestFailsKeeps ==
  ASSUME Inv, NEW c \in Connects, RequestFails(c)
  PROVE  Inv'
<1>1. Typed
  BY InvTyped
<1>2. counts' \in CountSet /\ counts'.chunks = counts.chunks
  BY <1>1, FaultType DEF RequestFails, Typed
<1>3. connect[c].pc \in {"create", "ticket"} /\ ConnectFails(c)
  BY DEF RequestFails
<1> QED BY <1>1, <1>2, <1>3, ConnectFailsKeeps DEF RequestFails, Typed

LEMMA CreateSessionKeeps ==
  ASSUME Inv, NEW c \in Connects, CreateSession(c)
  PROVE  Inv'
<1> PICK s \in Unused :
       /\ session' = [session EXCEPT ![s] = [status |-> "running", reader |-> "read",
                                             output |-> 0]]
       /\ store' = store \cup {s}
       /\ connect' = Asks([connect EXCEPT ![c].session = s], c, "ticket")
  BY DEF CreateSession
<1> DEFINE n == [status |-> "running", reader |-> "read", output |-> 0]
           v == [connect[c] EXCEPT !.session = s]
           S == [connect EXCEPT ![c] = v]
<1>1. Typed /\ connect[c] \in ConnectSet /\ Fits(connect[c].feed) /\ Shape(c)
      /\ (closing.pc # "idle" => closing.session # None)
  BY ConnectParts
<1>2. s \in Sessions /\ session[s].status = "none"
  BY DEF Unused, NoSession
<1>3. connect[c].pc = "create"
  BY DEF CreateSession
<1>4. n \in SessionSet /\ n.output = 0 /\ n.reader = "read"
  BY Numbers DEF SessionSet
<1>5. session' = [session EXCEPT ![s] = n] /\ connect' = Asks(S, c, "ticket")
  OBVIOUS
<1>6. /\ v \in ConnectSet /\ v.session = s /\ v.feed = connect[c].feed
      /\ v.shown = connect[c].shown /\ v.ended = connect[c].ended
  BY <1>1, <1>2 DEF ConnectSet
<1> HIDE DEF n, v
<1>7. /\ session' \in [Sessions -> SessionSet] /\ session'[s] = n
      /\ \A q \in Sessions : q # s => session'[q] = session[q]
  BY <1>1, <1>2, <1>4, <1>5, OneSession
<1>8. /\ connect' \in [Connects -> ConnectSet]
      /\ \A d \in Connects : Fits(connect'[d].feed)
      /\ connect'[c].pc = "ticket" /\ SameBut(connect'[c], v)
      /\ \A d \in Connects : d # c => Alike(d)
  <2>1. /\ S \in [Connects -> ConnectSet] /\ S[c] = v
        /\ \A d \in Connects : Fits(S[d].feed) /\ (d # c => S[d] = connect[d])
    BY <1>1, <1>6 DEF Typed
  <2> HIDE DEF S
  <2>2. /\ connect' \in [Connects -> ConnectSet]
        /\ \A d \in Connects : Fits(connect'[d].feed) /\ SameBut(connect'[d], S[d])
        /\ connect'[c].pc = "ticket"
        /\ \A d \in Connects : d # c => connect'[d].pc = S[d].pc
    BY <1>5, <2>1, AsksParts
  <2>3. \A d \in Connects : d # c => SameBut(connect'[d], connect[d]) /\ connect'[d].pc = connect[d].pc
    BY <2>1, <2>2
  <2> QED BY <2>1, <2>2, <2>3 DEF SameBut, Alike
<1> HIDE DEF S
<1>9. Typed'
  BY <1>1, <1>2, <1>7, <1>8 DEF Typed, CreateSession
<1>10. ASSUME NEW q \in Sessions PROVE Printed(q)'
  <2>1. Printed(q) /\ counts.chunks \in Nat /\ counts' = counts
    BY <1>1, SessionParts DEF Typed, CountSet, CreateSession
  <2> QED BY <1>4, <1>7, <2>1 DEF Printed
<1>11. connect'[c].pc \notin Listening /\ Shape(c)'
  BY <1>1, <1>2, <1>3, <1>6, <1>8, NoneIsNone DEF Shape, Listening, OnServer, SameBut
<1>12. \A d \in Connects : Shape(d)' /\ Follows(d)' /\ Ends(d)'
  <2>1. \A q \in Sessions : session[q].status # "none" => session'[q] = session[q]
    BY <1>2, <1>7
  <2>2. \A d \in Connects :
          Alike(d) \/ (connect'[d].pc \notin Listening /\ Shape(d)')
    BY <1>8, <1>11
  <2> QED BY <2>1, <2>2, Quiet
<1>13. ASSUME NEW d \in Connects PROVE Onward(d)
  <2>1. CASE d = c
    BY <1>3, <1>6, <1>8, <2>1 DEF Onward, InPage, OnSocket, OnServer, Early, Late, SameBut
  <2>2. CASE d # c
    BY <1>8, <2>2, Still DEF Alike
  <2> QED BY <2>1, <2>2
<1>14. Knows'
  BY <1>1, <1>13, KnowsKept DEF CreateSession
<1> QED BY <1>9, <1>10, <1>12, <1>14, TypeParts DEF Inv, Typed

LEMMA CreateTicketKeeps ==
  ASSUME Inv, NEW c \in Connects, CreateTicket(c)
  PROVE  Inv'
<1> DEFINE v == [NoConnect EXCEPT !.pc = "open", !.session = connect[c].session,
                                   !.last = connect[c].last]
<1>1. Typed /\ connect[c] \in ConnectSet /\ Shape(c)
  BY ConnectParts
<1>2. /\ connect[c].pc = "ticket" /\ Running(connect[c].session)
      /\ connect' = [connect EXCEPT ![c] = v]
  BY DEF CreateTicket
<1>3. /\ connect[c].session \in Sessions /\ session[connect[c].session].status = "running"
      /\ connect[c].last \in BOOLEAN
  BY <1>1, <1>2 DEF Running, Typed, ConnectSet
<1>4. /\ v \in ConnectSet /\ v.pc = "open" /\ v.session = connect[c].session
      /\ v.feed = <<>> /\ v.shown = {} /\ v.ended = FALSE
  BY <1>3, NoConnectParts DEF NoConnect, ConnectSet, InPage
<1> HIDE DEF v
<1>5. connect'[c] = v
  BY <1>1, <1>2 DEF Typed
<1>6. session' = session
  BY DEF CreateTicket
<1>7. v.pc \notin Listening /\ Shape(c)'
  BY <1>3, <1>4, <1>5, <1>6, NoneIsNone DEF Shape, Listening, OnServer
<1>8. v.ended = connect[c].ended
  <2>1. ~connect[c].ended /\ connect[c].ended \in BOOLEAN
    BY <1>1, <1>2 DEF Shape, ConnectSet
  <2> QED BY <1>4, <2>1
<1>9. /\ v.pc \in OnSocket <=> connect[c].pc \in OnSocket
      /\ v.pc \in InPage /\ connect[c].pc \notin Early /\ connect[c].pc \notin Late
  BY <1>2, <1>4 DEF InPage, OnSocket, OnServer, Early, Late
<1>10. /\ store' \subseteq Sessions /\ tickets' \subseteq Connects /\ counts' = counts
       /\ counts \in CountSet /\ UNCHANGED <<session, tab, closing, poll, stray>>
  BY <1>1 DEF CreateTicket, Typed
<1> QED BY <1>2, <1>4, <1>7, <1>8, <1>9, <1>10, EmptyFits, ConnectMoves

LEMMA SessionGoneKeeps ==
  ASSUME Inv, NEW c \in Connects, SessionGone(c)
  PROVE  Inv'
<1>1. Typed /\ connect[c] \in ConnectSet /\ Fits(connect[c].feed) /\ Shape(c)
  BY ConnectParts
<1>2. /\ connect[c].pc = "ticket" /\ store' \subseteq Sessions /\ tickets' \subseteq Connects
      /\ counts' = counts /\ counts \in CountSet
      /\ UNCHANGED <<session, closing, poll, stray, tickets>>
  BY <1>1 DEF SessionGone, Typed
<1>3. CASE connect' = Asks([connect EXCEPT ![c].again = TRUE], c, "create") /\ UNCHANGED tab
  <2> DEFINE S == [connect EXCEPT ![c].again = TRUE]
  <2>1. /\ S \in [Connects -> ConnectSet] /\ \A d \in Connects : Fits(S[d].feed)
        /\ \A d \in Connects : S[d].pc = connect[d].pc /\ SameBut(S[d], connect[d])
    BY <1>1 DEF Typed, ConnectSet, SameBut
  <2>2. connect' = Asks(S, c, "create")
    BY <1>3
  <2> HIDE DEF S
  <2>3. /\ connect' \in [Connects -> ConnectSet]
        /\ \A d \in Connects : Fits(connect'[d].feed) /\ SameBut(connect'[d], S[d])
        /\ connect'[c].pc = "create"
        /\ \A d \in Connects : d # c => connect'[d].pc = S[d].pc
    BY <2>1, <2>2, AsksParts
  <2>4. \A d \in Connects : SameBut(connect'[d], connect[d]) /\ (d # c => Alike(d))
    BY <2>1, <2>3 DEF SameBut, Alike
  <2>5. connect'[c].pc \notin Listening /\ Shape(c)'
    BY <1>1, <1>2, <2>3, <2>4 DEF Shape, Listening, OnServer, SameBut
  <2>6. Typed'
    BY <1>1, <1>2, <1>3, <2>3 DEF Typed
  <2>7. ASSUME NEW d \in Connects PROVE Onward(d)
    <3>1. CASE d = c
      BY <1>2, <2>3, <2>4, <3>1 DEF Onward, InPage, OnSocket, OnServer, Early, Late, SameBut
    <3>2. CASE d # c
      BY <2>4, <3>2, Still DEF Alike
    <3> QED BY <3>1, <3>2
  <2>8. Knows'
    BY <1>2, <1>3, <2>7, KnowsKept, ConnectParts
  <2> QED BY <1>2, <2>4, <2>5, <2>6, <2>8, SessionsStay
<1>4. CASE ConnectFails(c)
  BY <1>2, <1>4, ConnectFailsKeeps
<1> QED BY <1>3, <1>4 DEF SessionGone

LEMMA OpenSocketKeeps ==
  ASSUME Inv, NEW c \in Connects, OpenSocket(c)
  PROVE  Inv'
<1> DEFINE v == [connect[c] EXCEPT !.pc = "opening", !.last = FALSE]
<1>1. /\ Typed /\ connect[c] \in ConnectSet /\ Fits(connect[c].feed) /\ Shape(c)
      /\ closing.pc # "idle" => closing.session # None
      /\ tab \in TabSet /\ (tab.tracked => tab.timers > 0)
  BY ConnectParts
<1>2. connect[c].pc = "open" /\ connect' = [connect EXCEPT ![c] = v]
  BY DEF OpenSocket
<1>3. /\ v \in ConnectSet /\ v.pc = "opening" /\ v.session = connect[c].session
      /\ v.feed = connect[c].feed /\ v.shown = connect[c].shown /\ v.ended = connect[c].ended
  BY <1>1 DEF ConnectSet
<1> HIDE DEF v
<1>4. /\ connect' \in [Connects -> ConnectSet]
      /\ \A d \in Connects : Fits(connect'[d].feed)
      /\ connect'[c] = v
      /\ \A d \in Connects : d # c => connect'[d] = connect[d]
  BY <1>1, <1>2, <1>3, OneConnect
<1>5. tab' = [tab EXCEPT !.session = connect[c].session, !.socket = c]
  BY DEF OpenSocket
<1>6. /\ tab' \in TabSet /\ tab'.socket = c /\ tab'.status = tab.status
      /\ tab'.timers = tab.timers /\ tab'.tracked = tab.tracked
  BY <1>1, <1>5 DEF TabSet, ConnectSet
<1>7. stray' \in BOOLEAN /\ (~stray' => ~stray /\ tab.socket = None)
  BY <1>1, Zenon DEF OpenSocket, Typed
<1>8. Typed'
  BY <1>1, <1>4, <1>6, <1>7 DEF Typed, OpenSocket
<1>9. Shape(c)' /\ connect'[c].pc \notin Listening /\ ~connect'[c].ended
  <2>1. session' = session
    BY DEF OpenSocket
  <2> QED BY <1>1, <1>2, <1>3, <1>4, <2>1 DEF Shape, Listening, OnServer
<1>10. Knows'
  <2>1. c # None /\ connect'[c].pc \in {"opening"}
    BY <1>3, <1>4, NoneIsNone
  <2>2. ~stray => \A d \in Connects : connect[d].pc \in OnSocket => tab.socket = d
    BY DEF Inv, Knows
  <2>3. ~stray' => \A d \in Connects : connect'[d].pc \in OnSocket => tab'.socket = d
    BY <1>4, <1>6, <1>7, <2>2, NoneIsNone
  <2>4. tab.status = "connected" /\ ~stray => tab.socket # None
    BY DEF Inv, Knows, Awaited
  <2>5. closing' = closing
    BY DEF OpenSocket
  <2>6. (Awaited({"opening", "upgraded", "subscribed", "dropped"}))'
    BY <1>6, <2>1 DEF Awaited
  <2>7. connect'[tab'.socket].pc \in OnSocket
    BY <1>6, <2>1 DEF OnSocket
  <2> QED BY <1>1, <1>6, <1>7, <1>9, <2>3, <2>4, <2>5, <2>6, <2>7 DEF Knows
<1>11. /\ session' = session /\ counts' = counts
       /\ \A d \in Connects :
            \/ connect'[d] = connect[d]
            \/ connect'[d].pc \notin Listening /\ Shape(d)'
  BY <1>4, <1>9 DEF OpenSocket
<1> QED BY <1>8, <1>10, <1>11, SessionsStay

-----------------------------------------------------------------------------
(* The steps of a socket *)

\* A socket that breaks or is refused.
LEMMA BreaksKeeps ==
  ASSUME Inv, NEW c \in Connects, connect[c].pc \in OnServer \cup {"opening"},
         connect' = [connect EXCEPT ![c] = Broken(c)],
         store' \subseteq Sessions, tickets' \subseteq Connects, counts' \in CountSet,
         counts'.chunks = counts.chunks, UNCHANGED <<session, tab, closing, poll, stray>>
  PROVE  Inv'
<1> DEFINE v == Broken(c)
<1>1. Typed
  BY InvTyped
<1>2. /\ v \in ConnectSet /\ v.pc = "dropped" /\ v.feed = <<>> /\ v.ended = connect[c].ended
      /\ connect' = [connect EXCEPT ![c] = v]
  BY <1>1, BrokenParts
<1>3. connect'[c] = v
  BY <1>1, <1>2 DEF Typed
<1>4. v.pc \notin Listening /\ Shape(c)'
  BY <1>1, <1>2, <1>3, BrokenConnect
<1> HIDE DEF v
<1>5. /\ v.pc \in OnSocket /\ connect[c].pc \in OnSocket /\ connect[c].pc \notin InPage
      /\ v.pc \in Early /\ v.pc \in Late
  BY <1>2 DEF InPage, OnSocket, OnServer, Early, Late
<1> QED BY <1>2, <1>4, <1>5, EmptyFits, ConnectMoves

LEMMA DropKeeps ==
  ASSUME Inv, NEW c \in Connects, Drop(c)
  PROVE  Inv'
<1>1. Typed
  BY InvTyped
<1>2. counts' \in CountSet /\ counts'.chunks = counts.chunks
  BY <1>1, FaultType DEF Drop
<1>3. /\ connect[c].pc \in OnServer \cup {"opening"}
      /\ connect' = [connect EXCEPT ![c] = Broken(c)]
      /\ store' \subseteq Sessions /\ tickets' \subseteq Connects
      /\ UNCHANGED <<session, tab, closing, poll, stray>>
  BY <1>1 DEF Drop, Typed
<1> QED BY <1>2, <1>3, BreaksKeeps

LEMMA UpgradeKeeps ==
  ASSUME Inv, NEW c \in Connects, Upgrade(c)
  PROVE  Inv'
<1>1. Typed /\ connect[c] \in ConnectSet /\ Fits(connect[c].feed) /\ Shape(c)
  BY ConnectParts
<1>2. /\ connect[c].pc = "opening" /\ tickets' \subseteq Connects
      /\ counts' = counts /\ counts \in CountSet /\ UNCHANGED <<session, tab, closing, poll, stray>>
  BY <1>1 DEF Upgrade, Typed
<1>3. CASE c \in tickets /\ Running(connect[c].session)
  <2> DEFINE v == Gone(c, "upgraded")
  <2>1. Goto(c, "upgraded") /\ store' = store
    BY <1>3 DEF Upgrade
  <2>2. /\ v \in ConnectSet /\ v.pc = "upgraded" /\ v.session = connect[c].session
        /\ v.feed = connect[c].feed /\ v.shown = connect[c].shown /\ v.ended = connect[c].ended
        /\ connect' = [connect EXCEPT ![c] = v]
    BY <1>1, <2>1, GotoParts DEF OnServer
  <2> HIDE DEF v
  <2>3. connect'[c] = v
    BY <1>1, <2>2 DEF Typed
  <2>4. v.pc \notin Listening /\ Shape(c)'
    BY <1>1, <1>2, <2>2, <2>3 DEF Shape, Listening, OnServer
  <2>5. /\ v.pc \in OnSocket /\ connect[c].pc \in OnSocket /\ connect[c].pc \notin InPage
        /\ v.pc \in Early /\ connect[c].pc \notin Late
    BY <1>2, <2>2 DEF InPage, OnSocket, OnServer, Early, Late
  <2>6. store' \subseteq Sessions
    BY <1>1, <2>1 DEF Typed
  <2> QED BY <1>1, <1>2, <2>2, <2>4, <2>5, <2>6, ConnectMoves
<1>4. CASE ~(c \in tickets /\ Running(connect[c].session))
  <2>1. connect' = [connect EXCEPT ![c] = Broken(c)] /\ store' \subseteq Sessions
    BY <1>1, <1>4 DEF Upgrade, Typed
  <2> QED BY <1>2, <2>1, BreaksKeeps
<1> QED BY <1>3, <1>4

LEMMA SubscribeKeeps ==
  ASSUME Inv, NEW c \in Connects, Subscribe(c)
  PROVE  Inv'
<1> DEFINE b == session[connect[c].session].reader \notin Telling
           v == [connect[c] EXCEPT !.pc = "subscribed", !.late = b]
<1>1. Typed /\ connect[c] \in ConnectSet /\ Fits(connect[c].feed) /\ Shape(c)
  BY ConnectParts
<1>2. connect[c].pc = "upgraded" /\ connect' = [connect EXCEPT ![c] = v]
  BY DEF Subscribe
<1>3. b \in BOOLEAN
  BY Zenon
<1>4. b \/ session[connect[c].session].reader \in Telling
  OBVIOUS
<1> HIDE DEF b
<1>5. /\ v \in ConnectSet /\ v.pc = "subscribed" /\ v.session = connect[c].session
      /\ v.feed = connect[c].feed /\ v.shown = connect[c].shown /\ v.ended = connect[c].ended
      /\ v.lagged = connect[c].lagged /\ v.late = b
  BY <1>1, <1>3 DEF ConnectSet, OnServer
<1> HIDE DEF v
<1>6. connect'[c] = v /\ session' = session
  BY <1>1, <1>2 DEF Typed, Subscribe
<1>7. v.feed = <<>> /\ v.shown = {} /\ ~v.ended
  BY <1>1, <1>2, <1>5 DEF Shape, Listening
<1>8. Covered(c)' = {}
  <2>1. Items(connect'[c].feed) = {}
    BY <1>6, <1>7 DEF Items
  <2> QED BY <1>6, <1>7, <2>1, CoveredItems
<1>9. Shape(c)' /\ Follows(c)' /\ Ends(c)'
  <2>1. Shape(c)'
    BY <1>1, <1>2, <1>5, <1>6, <1>7 DEF Shape, Listening, OnServer
  <2>2. Follows(c)'
    BY <1>5, <1>6, <1>8 DEF Follows
  <2>3. Ends(c)'
    BY <1>4, <1>5, <1>6 DEF Ends, EndComes
  <2> QED BY <2>1, <2>2, <2>3
<1>10. /\ v.pc \in OnSocket /\ connect[c].pc \in OnSocket /\ connect[c].pc \notin InPage
       /\ v.pc \in Early /\ connect[c].pc \notin Late
  BY <1>2, <1>5 DEF InPage, OnSocket, OnServer, Early, Late
<1>11. /\ store' \subseteq Sessions /\ tickets' \subseteq Connects
       /\ counts' = counts /\ counts \in CountSet
       /\ UNCHANGED <<session, tab, closing, poll, stray>>
  BY <1>1 DEF Subscribe, Typed
<1> QED BY <1>1, <1>2, <1>5, <1>9, <1>10, <1>11, ConnectMoves

\* The history ends with the newest chunk and has no gap.
LEMMA HistoryParts ==
  ASSUME Inv, NEW s \in Sessions
  PROVE  /\ History(s) \subseteq Chunks
         /\ Said(s) \in Nat /\ Said(s) <= session[s].output
         /\ \A j \in History(s) : \A k \in j .. Said(s) : k \in History(s)
         /\ Said(s) # 0 => session[s].output \in History(s)
<1>1. session[s].output \in Nat /\ session[s].output <= MaxOutput /\ Printed(s)
  BY SessionParts
<1>2. Said(s) \in Nat /\ Said(s) <= session[s].output
  BY <1>1 DEF Printed, Said
<1>3. History(s) \subseteq Chunks
  BY <1>1, Numbers DEF History, Chunks
<1>4. ASSUME NEW j \in History(s), NEW k \in j .. Said(s) PROVE k \in History(s)
  <2>1. j \in Nat /\ 1 <= j /\ j + HistoryChunks > session[s].output
    BY <1>1 DEF History
  <2>2. k \in 1 .. session[s].output /\ k + HistoryChunks > session[s].output
    BY <1>1, <1>2, <2>1, Numbers
  <2> QED BY <2>2 DEF History
<1>5. Said(s) # 0 => session[s].output \in History(s)
  BY <1>1, <1>2, Numbers DEF History
<1> QED BY <1>2, <1>3, <1>4, <1>5

LEMMA ReplayKeeps ==
  ASSUME Inv, NEW c \in Connects, Replay(c)
  PROVE  Inv'
<1> PICK s : s = connect[c].session
  OBVIOUS
<1> DEFINE v == [connect[c] EXCEPT !.pc = "replay", !.shown = History(s)]
<1>1. /\ Typed /\ connect[c] \in ConnectSet /\ Fits(connect[c].feed)
      /\ Shape(c) /\ Follows(c) /\ Ends(c)
      /\ closing.pc # "idle" => closing.session # None
      /\ tab \in TabSet /\ (tab.tracked => tab.timers > 0)
      /\ tab.socket # None => connect[tab.socket].pc \in OnSocket
  BY ConnectParts
<1>2. connect[c].pc = "subscribed" /\ connect' = [connect EXCEPT ![c] = v]
  BY DEF Replay
<1>3. s \in Sessions /\ session' = session
  BY <1>2, SessionOf DEF OnServer, Replay
<1>4. /\ History(s) \subseteq Chunks
      /\ \A j \in History(s) : \A k \in j .. Said(s) : k \in History(s)
      /\ Said(s) # 0 => History(s) # {}
  BY <1>3, HistoryParts
<1>5. /\ v \in ConnectSet /\ v.pc = "replay" /\ v.session = s
      /\ v.feed = connect[c].feed /\ v.shown = History(s) /\ v.ended = connect[c].ended
      /\ v.lagged = connect[c].lagged /\ v.late = connect[c].late
  BY <1>1, <1>4 DEF ConnectSet, OnServer
<1> HIDE DEF v
<1>6. /\ connect' \in [Connects -> ConnectSet]
      /\ \A d \in Connects : Fits(connect'[d].feed)
      /\ connect'[c] = v
      /\ \A d \in Connects : d # c => connect'[d] = connect[d]
  BY <1>1, <1>2, <1>5, OneConnect
<1>7. ~v.ended
  BY <1>1, <1>2, <1>5 DEF Shape
<1>8. Covered(c)' = Covered(c) \cup History(s)
  <2>1. connect[c].shown = {}
    BY <1>1, <1>2 DEF Shape
  <2> QED BY <1>5, <1>6, <2>1, CoveredItems
<1>9. Said(s)' = Said(s)
  BY <1>3 DEF Said
<1>10. Shape(c)' /\ Follows(c)' /\ Ends(c)'
  <2>1. Shape(c)'
    BY <1>1, <1>2, <1>3, <1>5, <1>6, <1>7 DEF Shape, Listening, OnServer
  <2>2. ~connect[c].lagged => \A j \in Covered(c) : \A k \in j .. Said(s) : k \in Covered(c)
    BY <1>1, <1>2 DEF Follows, Listening
  <2>3. Follows(c)'
    BY <1>4, <1>5, <1>6, <1>8, <1>9, <2>2 DEF Follows
  <2>4. EndComes(c) => EndComes(c)'
    BY <1>3, <1>5, <1>6 DEF EndComes
  <2>5. Ends(c)'
    BY <1>1, <1>2, <1>3, <1>5, <1>6, <2>4 DEF Ends, Listening
  <2> QED BY <2>1, <2>3, <2>5
<1>11. tab' = [tab EXCEPT !.status = "connected", !.attempts = 0]
  BY DEF Replay
<1>12. /\ tab' \in TabSet /\ tab'.socket = tab.socket /\ tab'.status = "connected"
       /\ tab'.timers = tab.timers /\ tab'.tracked = tab.tracked
  <2>1. 0 \in 0 .. MaxAttempts
    BY Numbers
  <2> QED BY <1>1, <1>11, <2>1 DEF TabSet
<1>13. Typed'
  BY <1>1, <1>6, <1>12 DEF Typed, Replay
<1>14. Knows'
  <2>1. stray' = stray /\ closing' = closing
    BY DEF Replay
  <2>2. tab.socket \in Connects \cup {None}
    BY <1>1 DEF TabSet
  <2>3. connect[c].pc \in OnSocket /\ connect'[c].pc \in OnSocket
    BY <1>2, <1>5, <1>6 DEF OnSocket, OnServer
  <2>4. ~stray => \A d \in Connects : connect[d].pc \in OnSocket => tab.socket = d
    BY DEF Inv, Knows
  <2>5. ~stray' => \A d \in Connects : connect'[d].pc \in OnSocket => tab'.socket = d
    BY <1>6, <1>12, <2>1, <2>3, <2>4
  <2>6. tab'.socket # None => connect'[tab'.socket].pc \in OnSocket
    BY <1>1, <1>6, <1>12, <2>2, <2>3
  <2>7. ~stray => tab'.socket = c /\ (Awaited({"dropped", "replay", "live"}))'
    BY <1>5, <1>6, <1>12, <2>3, <2>4, NoneIsNone DEF Awaited
  <2> QED BY <1>1, <1>6, <1>7, <1>12, <2>1, <2>5, <2>6, <2>7 DEF Knows
<1>15. session' = session /\ counts' = counts
  BY DEF Replay
<1> QED BY <1>6, <1>10, <1>13, <1>14, <1>15, SessionsStay

LEMMA RelayKeeps ==
  ASSUME Inv, NEW c \in Connects, Relay(c)
  PROVE  Inv'
<1> DEFINE v == Gone(c, "live")
<1>1. Typed /\ Fits(connect[c].feed) /\ Shape(c) /\ Follows(c) /\ Ends(c)
  BY ConnectParts
<1>2. connect[c].pc = "replay" /\ Goto(c, "live")
  BY DEF Relay
<1>3. /\ v \in ConnectSet /\ v.pc = "live" /\ v.session = connect[c].session
      /\ v.feed = connect[c].feed /\ v.shown = connect[c].shown /\ v.ended = connect[c].ended
      /\ v.lagged = connect[c].lagged /\ v.late = connect[c].late
      /\ connect' = [connect EXCEPT ![c] = v]
  BY <1>1, <1>2, GotoParts DEF OnServer
<1> HIDE DEF v
<1>4. connect'[c] = v /\ session' = session
  BY <1>1, <1>3 DEF Typed, Relay
<1>5. Covered(c)' = Covered(c) /\ (EndComes(c)' <=> EndComes(c))
  BY <1>3, <1>4 DEF Covered, EndComes
<1>6. Said(connect[c].session)' = Said(connect[c].session)
  BY <1>3, <1>4 DEF Said
<1>7. Shape(c)' /\ Follows(c)' /\ Ends(c)'
  <2>1. Shape(c)'
    BY <1>1, <1>2, <1>3, <1>4 DEF Shape, Listening, OnServer
  <2>2. Follows(c)'
    BY <1>1, <1>2, <1>3, <1>4, <1>5, <1>6 DEF Follows, Listening
  <2>3. Ends(c)'
    BY <1>1, <1>2, <1>3, <1>4, <1>5 DEF Ends, Listening
  <2> QED BY <2>1, <2>2, <2>3
<1>8. /\ v.pc \in OnSocket /\ connect[c].pc \in OnSocket /\ connect[c].pc \notin InPage
      /\ v.pc \in Late /\ connect[c].pc \notin Early
  BY <1>2, <1>3 DEF InPage, OnSocket, OnServer, Early, Late
<1>9. /\ store' \subseteq Sessions /\ tickets' \subseteq Connects
      /\ counts' = counts /\ counts \in CountSet
      /\ UNCHANGED <<session, tab, closing, poll, stray>>
  BY <1>1 DEF Relay, Typed
<1> QED BY <1>1, <1>3, <1>7, <1>8, <1>9, ConnectMoves

\* The first message of a receiver, and what is left.
LEMMA ReceiveParts ==
  ASSUME Inv, NEW c \in Connects, connect[c].feed # <<>>
  PROVE  /\ Fits(Tail(connect[c].feed)) /\ Head(connect[c].feed) \in Messages
         /\ Items(connect[c].feed) = {Head(connect[c].feed)} \cup Items(Tail(connect[c].feed))
<1>1. connect[c].feed \in Seq(Messages) /\ Len(connect[c].feed) <= Capacity
      /\ Len(connect[c].feed) \in Nat
  BY ConnectParts DEF Fits, Messages
<1>2. /\ Head(connect[c].feed) \in Messages /\ Tail(connect[c].feed) \in Seq(Messages)
      /\ Len(Tail(connect[c].feed)) = Len(connect[c].feed) - 1
      /\ Items(connect[c].feed) = {Head(connect[c].feed)} \cup Items(Tail(connect[c].feed))
  BY <1>1, TailItems
<1> QED BY <1>1, <1>2, Numbers DEF Fits, Messages

LEMMA ReceiveOutputKeeps ==
  ASSUME Inv, NEW c \in Connects, ReceiveOutput(c)
  PROVE  Inv'
<1> PICK h, r : h = Head(connect[c].feed) /\ r = Tail(connect[c].feed)
  OBVIOUS
<1> DEFINE v == [connect[c] EXCEPT !.feed = r, !.shown = @ \cup {h}]
<1>1. Typed /\ connect[c] \in ConnectSet /\ Shape(c) /\ Follows(c) /\ Ends(c)
  BY ConnectParts
<1>2. /\ connect[c].pc = "live" /\ connect[c].feed # <<>> /\ h # Closed
      /\ connect' = [connect EXCEPT ![c] = v]
  BY DEF ReceiveOutput
<1>3. Fits(r) /\ h \in Chunks /\ Items(connect[c].feed) = {h} \cup Items(r)
  BY <1>2, ReceiveParts DEF Messages
<1>4. /\ v \in ConnectSet /\ v.pc = "live" /\ v.session = connect[c].session
      /\ v.feed = r /\ v.shown = connect[c].shown \cup {h} /\ v.ended = connect[c].ended
      /\ v.lagged = connect[c].lagged /\ v.late = connect[c].late
  <2>1. connect[c].shown \cup {h} \in SUBSET Chunks /\ r \in Seq(Chunks \cup {Closed})
    BY <1>1, <1>3 DEF ConnectSet, Fits
  <2>2. v = [connect[c] EXCEPT !.feed = r, !.shown = connect[c].shown \cup {h}]
    OBVIOUS
  <2> HIDE DEF v
  <2> QED BY <1>1, <1>2, <2>1, <2>2 DEF ConnectSet
<1> HIDE DEF v
<1>5. connect'[c] = v /\ session' = session
  BY <1>1, <1>2 DEF Typed, ReceiveOutput
<1>6. Covered(c)' = Covered(c)
  <2>1. (connect[c].shown \cup {h}) \cup (Items(r) \ {Closed})
          = connect[c].shown \cup (({h} \cup Items(r)) \ {Closed})
    BY <1>2
  <2>2. /\ Covered(c) = connect[c].shown \cup (Items(connect[c].feed) \ {Closed})
        /\ Covered(c)' = connect'[c].shown \cup (Items(connect'[c].feed) \ {Closed})
    BY CoveredItems, Zenon
  <2>3. Covered(c)' = (connect[c].shown \cup {h}) \cup (Items(r) \ {Closed})
    BY <1>4, <1>5, <2>2
  <2> QED BY <1>3, <2>1, <2>2, <2>3
<1>7. EndComes(c)' <=> EndComes(c)
  BY <1>2, <1>3, <1>4, <1>5, CoveredItems
<1>8. Said(connect[c].session)' = Said(connect[c].session)
  BY <1>4, <1>5 DEF Said
<1>9. Shape(c)' /\ Follows(c)' /\ Ends(c)'
  <2>1. Shape(c)'
    BY <1>1, <1>2, <1>4, <1>5 DEF Shape, Listening, OnServer
  <2>2. Follows(c)'
    BY <1>1, <1>2, <1>4, <1>5, <1>6, <1>8 DEF Follows
  <2>3. Ends(c)'
    BY <1>1, <1>2, <1>4, <1>5, <1>7 DEF Ends
  <2> QED BY <2>1, <2>2, <2>3
<1>10. /\ store' \subseteq Sessions /\ tickets' \subseteq Connects
       /\ counts' = counts /\ counts \in CountSet
       /\ UNCHANGED <<session, tab, closing, poll, stray>>
  BY <1>1 DEF ReceiveOutput, Typed
<1> QED BY <1>1, <1>2, <1>3, <1>4, <1>9, <1>10, ConnectMoves

LEMMA ReceiveClosedKeeps ==
  ASSUME Inv, NEW c \in Connects, ReceiveClosed(c)
  PROVE  Inv'
<1> PICK h, r : h = Head(connect[c].feed) /\ r = Tail(connect[c].feed)
  OBVIOUS
<1> DEFINE v == [connect[c] EXCEPT !.feed = r, !.ended = TRUE]
<1>1. /\ Typed /\ connect[c] \in ConnectSet /\ Shape(c) /\ Follows(c) /\ Ends(c)
      /\ closing.pc # "idle" => closing.session # None
      /\ tab \in TabSet /\ (tab.tracked => tab.timers > 0)
      /\ tab.socket # None => connect[tab.socket].pc \in OnSocket
  BY ConnectParts
<1>2. /\ connect[c].pc = "live" /\ connect[c].feed # <<>> /\ h = Closed
      /\ connect' = [connect EXCEPT ![c] = v]
  BY DEF ReceiveClosed
<1>3. Fits(r) /\ Items(connect[c].feed) = {Closed} \cup Items(r)
  BY <1>2, ReceiveParts
<1>4. /\ v \in ConnectSet /\ v.pc = "live" /\ v.session = connect[c].session
      /\ v.feed = r /\ v.shown = connect[c].shown /\ v.ended
      /\ v.lagged = connect[c].lagged /\ v.late = connect[c].late
  <2>1. r \in Seq(Chunks \cup {Closed})
    BY <1>3 DEF Fits
  <2> QED BY <1>1, <1>2, <2>1 DEF ConnectSet
<1> HIDE DEF v
<1>5. /\ connect' \in [Connects -> ConnectSet]
      /\ \A d \in Connects : Fits(connect'[d].feed)
      /\ connect'[c] = v
      /\ \A d \in Connects : d # c => connect'[d] = connect[d]
  BY <1>1, <1>2, <1>3, <1>4, OneConnect
<1>6. /\ session' = session /\ counts' = counts /\ stray' = stray /\ closing' = closing
      /\ tab' = [tab EXCEPT !.status = "closed", !.attempts = 0]
  BY DEF ReceiveClosed
<1>7. Covered(c)' = Covered(c)
  <2>1. \A X : X \ {Closed} = ({Closed} \cup X) \ {Closed}
    OBVIOUS
  <2>2. Items(connect'[c].feed) \ {Closed} = Items(connect[c].feed) \ {Closed}
    BY <1>3, <1>4, <1>5, <2>1
  <2>3. connect'[c].shown = connect[c].shown
    BY <1>4, <1>5
  <2>4. /\ Covered(c) = connect[c].shown \cup (Items(connect[c].feed) \ {Closed})
        /\ Covered(c)' = connect'[c].shown \cup (Items(connect'[c].feed) \ {Closed})
    BY CoveredItems
  <2> QED BY <2>2, <2>3, <2>4
<1>8. Said(connect[c].session)' = Said(connect[c].session)
  BY <1>4, <1>5, <1>6 DEF Said
<1>9. Shape(c)' /\ Follows(c)' /\ Ends(c)'
  <2>1. Shape(c)'
    BY <1>1, <1>2, <1>4, <1>5, <1>6 DEF Shape, Listening, OnServer
  <2>2. Follows(c)'
    BY <1>1, <1>2, <1>4, <1>5, <1>7, <1>8 DEF Follows
  <2>3. Ends(c)'
    BY <1>4, <1>5 DEF Ends
  <2> QED BY <2>1, <2>2, <2>3
<1>10. /\ tab' \in TabSet /\ tab'.socket = tab.socket /\ tab'.status = "closed"
       /\ tab'.timers = tab.timers /\ tab'.tracked = tab.tracked
  <2>1. 0 \in 0 .. MaxAttempts
    BY Numbers
  <2> QED BY <1>1, <1>6, <2>1 DEF TabSet
<1>11. Typed'
  BY <1>1, <1>5, <1>10 DEF Typed, ReceiveClosed
<1>12. Knows'
  <2>1. \A d \in Connects : connect'[d].pc = connect[d].pc
    BY <1>2, <1>4, <1>5
  <2>2. tab.socket \in Connects \cup {None}
    BY <1>1 DEF TabSet
  <2> QED BY <1>1, <1>6, <1>10, <2>1, <2>2, KnowsSettled
<1> QED BY <1>5, <1>6, <1>9, <1>11, <1>12, SessionsStay

LEMMA OnCloseKeeps ==
  ASSUME Inv, NEW c \in Connects, OnClose(c)
  PROVE  Inv'
<1>1. /\ Typed
      /\ closing.pc # "idle" => closing.session # None
      /\ tab \in TabSet /\ (tab.tracked => tab.timers > 0)
      /\ tab.socket # None => connect[tab.socket].pc \in OnSocket
  BY ConnectParts
<1>2. connect[c].pc = "dropped" /\ connect' = [connect EXCEPT ![c] = NoConnect]
  BY DEF OnClose, Forget
<1>3. /\ connect' \in [Connects -> ConnectSet]
      /\ \A d \in Connects : Fits(connect'[d].feed)
      /\ connect'[c] = NoConnect
      /\ \A d \in Connects : d # c => connect'[d] = connect[d]
  BY <1>1, <1>2, NoConnectParts, EmptyFits, OneConnect
<1>4. /\ session' = session /\ counts' = counts /\ stray' = stray /\ closing' = closing
  BY DEF OnClose
<1>5. connect'[c].pc \notin OnSocket /\ connect[c].pc \notin InPage
  BY <1>2, <1>3, NoConnectParts DEF OnSocket, OnServer, InPage
<1>6. \A d \in Connects :
        \/ connect'[d] = connect[d]
        \/ connect'[d].pc \notin Listening /\ Shape(d)'
  BY <1>3, EmptyConnect
<1>7. tab' \in TabSet /\ Knows'
  <2>1. CASE tab.socket # c /\ UNCHANGED tab
    <3>1. \A d \in Connects : d # c => Onward(d)
      BY <1>3, Still
    <3>2. Knows'
      BY <1>1, <1>4, <1>5, <2>1, <3>1, KnowsKept
    <3> QED BY <1>1, <2>1, <3>2
  <2>2. CASE tab.socket = c
    <3>1. /\ tab' \in TabSet /\ tab'.socket = None /\ (tab'.tracked => tab'.timers > 0)
          /\ (tab'.status = "connected" => stray)
          /\ (tab'.status = "connecting" =>
                tab'.timers > 0 \/ \E d \in Connects : connect'[d].pc \in InPage)
      <4>1. CASE connect[c].ended \/ tab.status \in {"closed", "error"}
        <5>1. tab' = [tab EXCEPT !.socket = None]
          BY <2>2, <4>1 DEF OnClose
        <5>2. /\ tab' \in TabSet /\ tab'.socket = None /\ tab'.status = tab.status
              /\ tab'.timers = tab.timers /\ tab'.tracked = tab.tracked
          BY <1>1, <5>1 DEF TabSet
        <5>3. tab.status = "connected" => stray
          BY <2>2, <4>1 DEF Inv, Knows
        <5>4. tab.status = "connecting" =>
                tab.timers > 0 \/ \E d \in Connects : connect[d].pc \in InPage
          BY <2>2, <4>1 DEF Inv, Knows
        <5>5. \A d \in Connects : connect[d].pc \in InPage => connect'[d].pc \in InPage
          BY <1>3, <1>5
        <5> QED BY <1>1, <5>2, <5>3, <5>4, <5>5
      <4>2. CASE ~(connect[c].ended \/ tab.status \in {"closed", "error"})
        <5> DEFINE t == [tab EXCEPT !.socket = None, !.status = "detached"]
        <5>1. tab' \in Retries(t)
          BY <2>2, <4>2 DEF OnClose
        <5>2. /\ t \in TabSet /\ t.status = "detached" /\ t.socket = None
              /\ t.timers = tab.timers /\ t.tracked = tab.tracked
          BY <1>1 DEF TabSet
        <5> HIDE DEF t
        <5>3. /\ tab' \in TabSet /\ tab'.socket = t.socket
              /\ \/ tab'.status = "detached" /\ tab'.timers = t.timers /\ tab'.tracked = t.tracked
                 \/ tab'.status = "connecting" /\ tab'.timers > 0
          BY <5>1, <5>2, RetriesParts
        <5> QED BY <1>1, <5>2, <5>3
      <4> QED BY <4>1, <4>2
    <3>2. \A d \in Connects : connect'[d].pc \in OnSocket =>
            connect[d].pc \in OnSocket /\ d # tab.socket
      BY <1>3, <1>5, <2>2
    <3>3. Knows'
      BY <1>1, <1>4, <3>1, <3>2, KnowsSettled
    <3> QED BY <3>1, <3>3
  <2> QED BY <2>1, <2>2 DEF OnClose
<1>8. Typed'
  BY <1>1, <1>3, <1>7 DEF Typed, OnClose
<1> QED BY <1>4, <1>6, <1>7, <1>8, SessionsStay

LEMMA TicketExpiresKeeps ==
  ASSUME Inv, NEW c \in Connects, TicketExpires(c)
  PROVE  Inv'
<1>1. Typed /\ (closing.pc # "idle" => closing.session # None)
  BY ConnectParts
<1>2. counts' \in CountSet /\ counts'.chunks = counts.chunks
  BY <1>1, FaultType DEF TicketExpires
<1>3. UNCHANGED <<store, session, connect, tab, closing, poll, stray>>
  BY DEF TicketExpires
<1>4. Typed'
  BY <1>1, <1>2, <1>3 DEF Typed, TicketExpires
<1>5. \A d \in Connects : Onward(d)
  BY <1>3, Still
<1>6. Knows'
  BY <1>1, <1>3, <1>5, KnowsKept
<1> QED BY <1>2, <1>3, <1>4, <1>6, SessionsStay

-----------------------------------------------------------------------------
(* The steps of the page *)

LEMMA TimersLeftNat == Inv => TimersLeft \in Nat
<1> SUFFICES ASSUME Inv PROVE TimersLeft \in Nat
  OBVIOUS
<1>1. tab.timers \in Nat /\ (tab.tracked => tab.timers > 0)
  BY InvTyped DEF Inv, Knows, Typed, TabSet
<1>2. tab.tracked => tab.timers - 1 \in Nat
  BY <1>1
<1> QED BY <1>1, <1>2 DEF TimersLeft

LEMMA CleanedParts ==
  ASSUME Inv
  PROVE  /\ Cleaned \in [Connects -> ConnectSet] /\ CleanTickets \subseteq Connects
         /\ \A d \in Connects :
              /\ Fits(Cleaned[d].feed)
              /\ d = tab.socket => Cleaned[d] = NoConnect
              /\ d # tab.socket => Cleaned[d] = connect[d]
<1>1. Typed
  BY InvTyped
<1>2. ASSUME NEW d \in Connects
      PROVE  /\ Cleaned[d] \in ConnectSet /\ Fits(Cleaned[d].feed)
             /\ d = tab.socket => Cleaned[d] = NoConnect
             /\ d # tab.socket => Cleaned[d] = connect[d]
  BY <1>1, NoConnectParts, EmptyFits DEF Cleaned, Typed
<1>3. Cleaned \in [Connects -> ConnectSet]
  BY <1>1, NoConnectParts DEF Cleaned, Typed
<1> QED BY <1>1, <1>2, <1>3 DEF CleanTickets, Typed

LEMMA StartConnectKeeps ==
  ASSUME Inv, NEW c \in Connects, NEW a \in 0 .. MaxAttempts, NEW t \in Nat,
         StartConnect(c, a, t), counts' \in CountSet, counts'.chunks = counts.chunks
  PROVE  Inv'
<1> PICK r : r = IF tab.status = "closed" THEN None ELSE tab.session
  OBVIOUS
<1> PICK p : p = IF r = None THEN "create" ELSE "ticket"
  OBVIOUS
<1> DEFINE v == [NoConnect EXCEPT !.session = r, !.attempt = a]
           S == [Cleaned EXCEPT ![c] = v]
<1>1. /\ Typed /\ tab \in TabSet
      /\ closing.pc # "idle" => closing.session # None
      /\ tab.socket # None => connect[tab.socket].pc \in OnSocket
  BY ConnectParts
<1>2. /\ connect[c] = NoConnect /\ connect' = Asks(S, c, p)
      /\ tickets' = CleanTickets
      /\ tab' = [tab EXCEPT !.status = "connecting", !.socket = None,
                            !.attempts = a, !.timers = t, !.tracked = FALSE]
      /\ UNCHANGED <<store, session, closing, poll, stray>>
  BY DEF StartConnect
<1>3. r \in Sessions \cup {None} /\ p \in {"create", "ticket"} /\ (p = "ticket" => r # None)
  BY <1>1 DEF TabSet
<1>4. /\ v \in ConnectSet /\ v.session = r
      /\ v.feed = <<>> /\ v.shown = {} /\ ~v.ended
  BY <1>3, NoConnectParts DEF ConnectSet
<1> HIDE DEF v
<1>5. /\ Cleaned \in [Connects -> ConnectSet] /\ CleanTickets \subseteq Connects
      /\ \A d \in Connects :
           /\ Fits(Cleaned[d].feed)
           /\ d = tab.socket => Cleaned[d] = NoConnect
           /\ d # tab.socket => Cleaned[d] = connect[d]
  BY CleanedParts
<1>6. /\ connect' \in [Connects -> ConnectSet]
      /\ \A d \in Connects : Fits(connect'[d].feed)
      /\ connect'[c].pc = p /\ SameBut(connect'[c], v)
      /\ \A d \in Connects : d # c =>
           connect'[d].pc = Cleaned[d].pc /\ SameBut(connect'[d], Cleaned[d])
  <2>1. /\ S \in [Connects -> ConnectSet] /\ S[c] = v
        /\ \A d \in Connects : Fits(S[d].feed) /\ (d # c => S[d] = Cleaned[d])
    BY <1>4, <1>5, EmptyFits
  <2> HIDE DEF S
  <2>2. /\ connect' \in [Connects -> ConnectSet]
        /\ \A d \in Connects : Fits(connect'[d].feed) /\ SameBut(connect'[d], S[d])
        /\ connect'[c].pc = p
        /\ \A d \in Connects : d # c => connect'[d].pc = S[d].pc
    BY <1>2, <1>3, <2>1, AsksParts
  <2> QED BY <2>1, <2>2
<1> HIDE DEF S
<1>7. \A d \in Connects : d # c =>
        \/ d = tab.socket /\ connect'[d].pc = "none" /\ SameBut(connect'[d], NoConnect)
        \/ d # tab.socket /\ Alike(d)
  BY <1>5, <1>6, NoConnectParts DEF SameBut, Alike
<1>8. /\ tab' \in TabSet /\ tab'.socket = None /\ tab'.status = "connecting" /\ ~tab'.tracked
  BY <1>1, <1>2 DEF TabSet
<1>9. Typed'
  BY <1>1, <1>2, <1>5, <1>6, <1>8 DEF Typed
<1>10. connect'[c].pc \in InPage /\ connect'[c].pc \notin OnSocket
  BY <1>3, <1>6 DEF InPage, OnSocket, OnServer
<1>11. Knows'
  <2>1. ASSUME NEW d \in Connects, connect'[d].pc \in OnSocket
        PROVE  connect[d].pc \in OnSocket /\ d # tab.socket
    <3>1. d # c
      BY <1>10, <2>1
    <3>2. d # tab.socket
      BY <1>7, <2>1, <3>1 DEF OnSocket, OnServer
    <3> QED BY <1>7, <2>1, <3>1, <3>2 DEF Alike
  <2> QED BY <1>1, <1>2, <1>8, <1>10, <2>1, KnowsSettled
<1>12. ASSUME NEW d \in Connects
       PROVE  \/ Alike(d)
              \/ connect'[d].pc \notin Listening /\ Shape(d)'
  <2>1. CASE d = c
    BY <1>3, <1>4, <1>6, <2>1 DEF Shape, Listening, OnServer, SameBut
  <2>2. CASE d # c
    BY <1>7, <2>2, NoConnectParts DEF Shape, Listening, OnServer, SameBut
  <2> QED BY <2>1, <2>2
<1> QED BY <1>2, <1>9, <1>11, <1>12, SessionsStay

LEMMA ConnectsKeep ==
  ASSUME Inv, NEW c \in Connects, ConnectOverlay(c) \/ ConnectToolbar(c) \/ TimerFires(c)
  PROVE  Inv'
<1>1. Typed /\ tab.attempts \in 0 .. MaxAttempts /\ tab.timers \in Nat /\ TimersLeft \in Nat
  BY InvTyped, TimersLeftNat DEF Typed, TabSet
<1>2. 0 \in 0 .. MaxAttempts
  BY Numbers
<1>3. CASE ConnectOverlay(c)
  <2>1. counts' \in CountSet /\ counts'.chunks = counts.chunks
    BY <1>1, <1>3, ClickType DEF ConnectOverlay
  <2> QED BY <1>1, <1>2, <1>3, <2>1, StartConnectKeeps DEF ConnectOverlay
<1>4. CASE ConnectToolbar(c)
  <2>1. counts' \in CountSet /\ counts'.chunks = counts.chunks
    BY <1>1, <1>4, ClickType DEF ConnectToolbar
  <2> QED BY <1>1, <1>4, <2>1, StartConnectKeeps DEF ConnectToolbar
<1>5. CASE TimerFires(c)
  <2>1. counts' = counts /\ counts \in CountSet /\ tab.timers > 0
    BY <1>1, <1>5 DEF TimerFires, Typed
  <2>2. tab.timers - 1 \in Nat
    BY <1>1, <2>1
  <2> QED BY <1>1, <1>5, <2>1, <2>2, StartConnectKeeps DEF TimerFires
<1> QED BY <1>3, <1>4, <1>5

LEMMA DisconnectedKeeps ==
  ASSUME Inv, Disconnected, counts' \in CountSet, counts'.chunks = counts.chunks,
         closing' \in ClosingSet, closing'.pc # "idle" => closing'.session # None,
         UNCHANGED <<store, session, poll, stray>>
  PROVE  Inv'
<1> PICK u : u = IF tab.session # None THEN "detached" ELSE "closed"
  OBVIOUS
<1>1. Typed /\ tab \in TabSet /\ TimersLeft \in Nat
  BY ConnectParts, TimersLeftNat, InvTyped DEF Typed
<1>2. /\ connect' = Cleaned /\ tickets' = CleanTickets
      /\ tab' = [tab EXCEPT !.status = u, !.socket = None, !.timers = TimersLeft,
                            !.tracked = FALSE]
  BY DEF Disconnected
<1>3. /\ Cleaned \in [Connects -> ConnectSet] /\ CleanTickets \subseteq Connects
      /\ \A d \in Connects :
           /\ Fits(Cleaned[d].feed)
           /\ d = tab.socket => Cleaned[d] = NoConnect
           /\ d # tab.socket => Cleaned[d] = connect[d]
  BY CleanedParts
<1>4. /\ tab' \in TabSet /\ tab'.socket = None /\ tab'.status \in {"detached", "closed"}
      /\ ~tab'.tracked
  BY <1>1, <1>2 DEF TabSet
<1>5. Typed'
  BY <1>1, <1>2, <1>3, <1>4 DEF Typed
<1>6. ASSUME NEW d \in Connects, connect'[d].pc \in OnSocket
      PROVE  connect[d].pc \in OnSocket /\ d # tab.socket
  BY <1>2, <1>3, <1>6, NoConnectParts DEF OnSocket, OnServer
<1>7. Knows'
  BY <1>4, <1>6, KnowsSettled
<1>8. ASSUME NEW d \in Connects
      PROVE  \/ connect'[d] = connect[d]
             \/ connect'[d].pc \notin Listening /\ Shape(d)'
  BY <1>2, <1>3, EmptyConnect
<1> QED BY <1>5, <1>7, <1>8, SessionsStay

LEMMA DisconnectKeeps == Inv /\ Disconnect => Inv'
<1> SUFFICES ASSUME Inv, Disconnect PROVE Inv'
  OBVIOUS
<1>1. Typed /\ (closing.pc # "idle" => closing.session # None) /\ closing \in ClosingSet
  BY InvTyped DEF Inv, Knows, Typed
<1>2. counts' \in CountSet /\ counts'.chunks = counts.chunks
  BY <1>1, ClickType DEF Disconnect
<1> QED BY <1>1, <1>2, DisconnectedKeeps DEF Disconnect

LEMMA CloseSharedKeeps == Inv /\ CloseShared => Inv'
<1> SUFFICES ASSUME Inv, CloseShared PROVE Inv'
  OBVIOUS
<1>1. Typed /\ tab.session \in Sessions \cup {None}
  BY InvTyped DEF Typed, TabSet
<1>2. counts' \in CountSet /\ counts'.chunks = counts.chunks
  BY <1>1, ClickType DEF CloseShared
<1>3. closing' = [pc |-> "remove", session |-> tab.session] /\ tab.session # None
  BY DEF CloseShared
<1>4. closing' \in ClosingSet /\ closing'.session # None
  BY <1>1, <1>3 DEF ClosingSet
<1> QED BY <1>2, <1>4, DisconnectedKeeps DEF CloseShared

\* A step of the page that leaves connects and sessions alone.
LEMMA PageKeeps ==
  ASSUME Inv, UNCHANGED <<session, connect, tickets, stray, counts>>,
         store' \subseteq Sessions, closing' \in ClosingSet, poll' \in PollSet,
         closing'.pc # "idle" => closing'.session # None,
         tab' \in TabSet,
         \/ tab' = tab
         \/ /\ tab'.socket = tab.socket /\ tab'.timers = tab.timers
            /\ tab'.tracked = tab.tracked /\ tab'.status # "connecting"
            /\ tab'.status = "connected" => stray
  PROVE  Inv'
<1>1. /\ Typed /\ (tab.tracked => tab.timers > 0)
      /\ tab.socket # None => connect[tab.socket].pc \in OnSocket
  BY InvTyped DEF Inv, Knows
<1>2. Typed'
  BY <1>1 DEF Typed
<1>3. CASE tab' = tab
  <2>1. \A d \in Connects : Onward(d)
    BY Still
  <2>2. Knows'
    BY <1>3, <2>1, KnowsKept
  <2> QED BY <1>2, <2>2, SessionsStay
<1>4. CASE tab' # tab
  <2>1. Knows'
    BY <1>1, <1>4, KnowsSettled
  <2> QED BY <1>2, <2>1, SessionsStay
<1> QED BY <1>3, <1>4

LEMMA CloseRemoveKeeps == Inv /\ CloseRemove => Inv'
<1> SUFFICES ASSUME Inv, CloseRemove PROVE Inv'
  OBVIOUS
<1>1. Typed /\ (closing.pc # "idle" => closing.session # None) /\ closing \in ClosingSet
  BY InvTyped DEF Inv, Knows, Typed
<1>2. closing' \in ClosingSet /\ (closing'.pc # "idle" => closing'.session # None)
  <2>1. CASE closing.session \in store
    BY <1>1, <2>1 DEF CloseRemove, ClosingSet
  <2>2. CASE closing.session \notin store
    BY <2>2 DEF CloseRemove, ClosingSet
  <2> QED BY <2>1, <2>2
<1>3. /\ UNCHANGED <<session, tickets, connect, tab, poll, counts, stray>>
      /\ store' \subseteq Sessions /\ tab \in TabSet /\ poll \in PollSet
  BY <1>1 DEF CloseRemove, Typed
<1> QED BY <1>2, <1>3, PageKeeps

LEMMA CloseAnswerKeeps == Inv /\ CloseAnswer => Inv'
<1> SUFFICES ASSUME Inv, CloseAnswer PROVE Inv'
  OBVIOUS
<1>1. Typed /\ tab \in TabSet
  BY InvTyped DEF Typed
<1>2. closing' = [pc |-> "idle", session |-> None] /\ tab' = [tab EXCEPT !.status = "closed"]
  BY DEF CloseAnswer
<1>3. closing' \in ClosingSet /\ closing'.pc = "idle"
  BY <1>2 DEF ClosingSet
<1>4. /\ tab' \in TabSet /\ tab'.socket = tab.socket /\ tab'.timers = tab.timers
      /\ tab'.tracked = tab.tracked /\ tab'.status = "closed"
  BY <1>1, <1>2 DEF TabSet
<1>5. /\ UNCHANGED <<session, tickets, connect, poll, counts, stray, store>>
      /\ store \subseteq Sessions /\ poll \in PollSet
  BY <1>1 DEF CloseAnswer, Typed
<1> QED BY <1>3, <1>4, <1>5, PageKeeps

LEMMA ListKeeps == Inv /\ List => Inv'
<1> SUFFICES ASSUME Inv, List PROVE Inv'
  OBVIOUS
<1>1. /\ Typed /\ (closing.pc # "idle" => closing.session # None)
      /\ closing \in ClosingSet /\ tab \in TabSet
  BY InvTyped DEF Inv, Knows, Typed
<1>2. store' \subseteq Sessions
  BY <1>1 DEF List, Typed
<1>3. poll' \in PollSet
  BY <1>2 DEF List, PollSet
<1> QED BY <1>1, <1>2, <1>3, PageKeeps DEF List

LEMMA ListAnswerKeeps == Inv /\ ListAnswer => Inv'
<1> SUFFICES ASSUME Inv, ListAnswer PROVE Inv'
  OBVIOUS
<1>1. /\ Typed /\ (closing.pc # "idle" => closing.session # None)
      /\ closing \in ClosingSet /\ tab \in TabSet /\ poll.ids \subseteq Sessions
  BY InvTyped DEF Inv, Knows, Typed, PollSet
<1>2. tab' = Listed(poll.ids) /\ poll' = [pc |-> "idle", ids |-> {}]
  BY DEF ListAnswer
<1>3. \/ tab' = tab
      \/ tab' = [tab EXCEPT !.status = "detached"]
      \/ /\ tab.status # "connecting" /\ tab.socket = None
         /\ tab' = [tab EXCEPT !.session = None,
                               !.status = IF @ = "detached" THEN "idle" ELSE @]
  BY <1>1, <1>2, NoneIsNone DEF Listed
<1>4. tab.status = "connected" /\ ~stray => tab.socket # None
  BY DEF Inv, Knows, Awaited
<1>5. /\ tab' \in TabSet
      /\ \/ tab' = tab
         \/ /\ tab'.socket = tab.socket /\ tab'.timers = tab.timers
            /\ tab'.tracked = tab.tracked /\ tab'.status # "connecting"
            /\ tab'.status = "connected" => stray
  <2>1. CASE tab' = tab
    BY <1>1, <2>1
  <2>2. CASE tab' = [tab EXCEPT !.status = "detached"]
    BY <1>1, <2>2 DEF TabSet
  <2>3. CASE /\ tab.status # "connecting" /\ tab.socket = None
             /\ tab' = [tab EXCEPT !.session = None,
                                   !.status = IF @ = "detached" THEN "idle" ELSE @]
    <3> PICK u : u = IF tab.status = "detached" THEN "idle" ELSE tab.status
      OBVIOUS
    <3>1. tab' = [tab EXCEPT !.session = None, !.status = u]
      BY <2>3
    <3> QED BY <1>1, <1>4, <2>3, <3>1 DEF TabSet
  <2> QED BY <1>3, <2>1, <2>2, <2>3
<1>6. poll' \in PollSet
  BY <1>2 DEF PollSet
<1>7. UNCHANGED <<session, tickets, connect, closing, counts, stray, store>>
      /\ store \subseteq Sessions
  BY <1>1 DEF ListAnswer, Typed
<1> QED BY <1>1, <1>5, <1>6, <1>7, PageKeeps

LEMMA RestartKeeps == Inv /\ Restart => Inv'
<1> SUFFICES ASSUME Inv, Restart PROVE Inv'
  OBVIOUS
<1>1. Typed
  BY InvTyped
<1>2. counts' \in CountSet /\ counts'.chunks = counts.chunks /\ counts'.chunks \in Nat
  BY <1>1, FaultType DEF Restart, CountSet
<1> DEFINE n == [status |-> "closed", reader |-> "ended", output |-> 0]
<1>3. n \in SessionSet /\ NoSession \in SessionSet /\ n.output = 0 /\ NoSession.output = 0
      /\ n.reader # "send" /\ NoSession.reader # "send" /\ n.status = "closed"
      /\ NoSession.status = "none"
  BY Numbers DEF SessionSet, NoSession
<1>4. session' = [s \in Sessions |-> IF session[s] = NoSession THEN NoSession ELSE n]
  BY DEF Restart
<1> HIDE DEF n
<1>5. /\ session' \in [Sessions -> SessionSet]
      /\ \A s \in Sessions : session'[s] = IF session[s] = NoSession THEN NoSession ELSE n
  BY <1>3, <1>4
<1>6. connect' = [c \in Connects |->
        IF connect[c].pc \in OnServer THEN Broken(c) ELSE connect[c]]
  BY DEF Restart
<1>7. /\ connect' \in [Connects -> ConnectSet]
      /\ \A c \in Connects :
           /\ connect'[c] = IF connect[c].pc \in OnServer THEN Broken(c) ELSE connect[c]
           /\ Fits(connect'[c].feed)
  <2>1. \A c \in Connects : Broken(c) \in ConnectSet /\ Broken(c).feed = <<>>
    BY <1>1, BrokenParts
  <2>2. connect \in [Connects -> ConnectSet] /\ \A c \in Connects : Fits(connect[c].feed)
    BY <1>1 DEF Typed
  <2> QED BY <1>6, <2>1, <2>2, EmptyFits
<1>8. closing' = [pc |-> "idle", session |-> None]
  BY DEF Restart
<1>9. Typed'
  <2>1. closing' \in ClosingSet
    BY <1>8 DEF ClosingSet
  <2> QED BY <1>1, <1>2, <1>5, <1>7, <2>1 DEF Typed, Restart
<1>10. \A s \in Sessions : Printed(s)'
  BY <1>2, <1>3, <1>5 DEF Printed
<1>11. ASSUME NEW c \in Connects
       PROVE  Shape(c)' /\ connect'[c].pc \notin Listening /\ Onward(c)
  <2>1. CASE connect[c].pc \in OnServer
    <3>1. connect'[c] = Broken(c)
      BY <1>7, <2>1
    <3>2. connect'[c].pc = "dropped" /\ connect'[c].ended = connect[c].ended
      BY <1>1, <3>1, BrokenParts
    <3>3. Onward(c)
      BY <2>1, <3>2 DEF Onward, OnServer, OnSocket, InPage, Early, Late
    <3> QED BY <1>1, <3>1, <3>3, BrokenConnect
  <2>2. CASE connect[c].pc \notin OnServer
    <3>1. connect'[c] = connect[c] /\ Shape(c)
      BY <1>7, <2>2 DEF Inv
    <3>2. connect[c].pc \in {"open", "opening"} =>
            session'[connect[c].session].status = "closed"
      <4>1. connect[c].pc \in {"open", "opening"} =>
              /\ connect[c].session \in Sessions
              /\ session[connect[c].session].status # "none"
        BY SessionOf
      <4> QED BY <1>3, <1>5, <4>1
    <3> QED BY <2>2, <3>1, <3>2, ListeningOnServer, Still DEF Shape
  <2> QED BY <2>1, <2>2
<1>12. \A c \in Connects : Follows(c)' /\ Ends(c)'
  BY <1>11 DEF Follows, Ends
<1>13. Knows'
  BY <1>8, <1>11, KnowsKept DEF Restart
<1> QED BY <1>9, <1>10, <1>11, <1>12, <1>13, TypeParts DEF Inv, Typed

-----------------------------------------------------------------------------
(* The theorems *)

LEMMA InvNext == Inv /\ [Next]_vars => Inv'
<1> SUFFICES ASSUME Inv, [Next]_vars PROVE Inv'
  OBVIOUS
<1>1. CASE \E s \in Sessions : Output(s) \/ Broadcast(s) \/ Eof(s) \/ EofSaid(s) \/ ReaderRemove(s)
  BY <1>1, OutputKeeps, BroadcastKeeps, EofKeeps, EofSaidKeeps, ReaderRemoveKeeps
<1>2. ASSUME NEW c \in Connects,
             \/ ConnectOverlay(c) \/ ConnectToolbar(c) \/ TimerFires(c)
             \/ PageStep(c) \/ SocketStep(c) \/ TicketExpires(c) \/ Drop(c)
      PROVE  Inv'
  <2>1. CASE ConnectOverlay(c) \/ ConnectToolbar(c) \/ TimerFires(c)
    BY <2>1, ConnectsKeep
  <2>2. CASE PageStep(c)
    BY <2>2, CreateSessionKeeps, RequestFailsKeeps, CreateTicketKeeps, SessionGoneKeeps,
       OpenSocketKeeps DEF PageStep
  <2>3. CASE SocketStep(c)
    BY <2>3, UpgradeKeeps, SubscribeKeeps, ReplayKeeps, RelayKeeps, ReceiveOutputKeeps,
       ReceiveClosedKeeps, OnCloseKeeps DEF SocketStep
  <2>4. CASE TicketExpires(c) \/ Drop(c)
    BY <2>4, TicketExpiresKeeps, DropKeeps
  <2> QED BY <1>2, <2>1, <2>2, <2>3, <2>4
<1>3. CASE Disconnect \/ CloseShared \/ CloseStep
  BY <1>3, DisconnectKeeps, CloseSharedKeeps, CloseRemoveKeeps, CloseKillKeeps,
     CloseAnswerKeeps DEF CloseStep
<1>4. CASE List \/ ListAnswer \/ Restart
  BY <1>4, ListKeeps, ListAnswerKeeps, RestartKeeps
<1>5. CASE UNCHANGED vars
  <2>1. UNCHANGED <<store, session, tickets, connect, tab, closing, poll, stray, counts>>
    BY <1>5 DEF vars
  <2>2. /\ Typed /\ (closing.pc # "idle" => closing.session # None) /\ closing \in ClosingSet
        /\ tab \in TabSet /\ poll \in PollSet /\ store \subseteq Sessions
    BY InvTyped DEF Inv, Knows, Typed
  <2> QED BY <2>1, <2>2, PageKeeps
<1> QED BY <1>1, <1>2, <1>3, <1>4, <1>5 DEF Next

LEMMA InvAlways == Spec => []Inv
<1> QED BY InvInit, InvNext, PTL DEF Spec

\* Every variable keeps the values the code can give it, and no receiver holds more
\* messages than the broadcast channel.
THEOREM TypeCorrect == Spec => []TypeOK
<1>1. Inv => TypeOK
  BY DEF Inv
<1> QED BY <1>1, InvAlways, PTL

\* A terminal that keeps up misses nothing of the output from its first chunk on: what is
\* printed while handle_terminal_socket subscribes and takes the history is in one of them.
THEOREM MissesNothing == Spec => []NoGap
<1>1. Inv => NoGap
  <2> SUFFICES ASSUME Inv, NEW c \in Connects, connect[c].pc \in {"replay", "live"},
                      ~connect[c].lagged, NEW k \in 1 .. Said(connect[c].session)
               PROVE  \/ k \in Covered(c)
                      \/ Covered(c) # {} /\ \A j \in Covered(c) : k < j
    BY DEF NoGap
  <2>1. Typed /\ connect[c] \in ConnectSet /\ Follows(c)
    BY ConnectParts
  <2>2. connect[c].session \in Sessions
    BY SessionOf DEF OnServer
  <2>3. Said(connect[c].session) \in Nat
    BY <2>2, HistoryParts
  <2>4. Covered(c) \subseteq Nat
    <3>1. connect[c].shown \subseteq Chunks /\ connect[c].feed \in Seq(Messages)
      BY <2>1 DEF ConnectSet, Messages
    <3> QED BY <3>1, CoveredItems, Numbers DEF Items, Messages, Chunks
  <2>5. /\ \A j \in Covered(c) : \A i \in j .. Said(connect[c].session) : i \in Covered(c)
        /\ Covered(c) # {}
    BY <2>1, <2>3 DEF Follows, Listening
  <2>6. ASSUME NEW j \in Covered(c), ~(k < j) PROVE k \in Covered(c)
    <3>1. k \in j .. Said(connect[c].session)
      BY <2>3, <2>4, <2>6
    <3> QED BY <2>5, <3>1
  <2> QED BY <2>5, <2>6
<1> QED BY <1>1, InvAlways, PTL

\* The terminal is never left in a state that is not the case: while it connects something
\* is to answer, and while it is connected its session runs or its end is on the way.
THEOREM AlwaysAnswered == Spec => []NeverStuck
<1>1. Inv => NeverStuck
  <2> SUFFICES ASSUME Inv PROVE NeverStuck
    OBVIOUS
  <2>1. tab.status = "connecting" =>
       \/ tab.timers > 0
       \/ \E c \in Connects : connect[c].pc \in InPage
       \/ Awaited({"opening", "upgraded", "subscribed", "dropped"})
    BY DEF Inv, Knows
  <2>2. tab.status = "connected" /\ ~stray =>
          Awaited({"dropped", "replay", "live"}) /\ ~connect[tab.socket].ended
    BY DEF Inv, Knows
  <2>3. tab.socket \in Connects \cup {None}
    BY InvTyped DEF Typed, TabSet
  <2>4. Awaited({"replay", "live"}) =>
          \/ session[connect[tab.socket].session].status = "running"
          \/ connect[tab.socket].late \/ connect[tab.socket].ended \/ EndComes(tab.socket)
    BY <2>3 DEF Inv, Ends, Listening, Awaited
  <2>5. Awaited({"dropped", "replay", "live"}) => Awaited({"dropped"}) \/ Awaited({"replay", "live"})
    BY DEF Awaited
  <2> QED BY <2>1, <2>2, <2>4, <2>5 DEF NeverStuck
<1> QED BY <1>1, InvAlways, PTL
=============================================================================
